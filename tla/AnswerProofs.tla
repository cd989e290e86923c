---------------------------- MODULE AnswerProofs ----------------------------
(***************************************************************************)
(* Proofs about what reads an answer of UvA's, and what a client is told   *)
(* of it. ThinkParser: for any tags that start with '<' and hold it        *)
(* nowhere else, any capacity of out and answers of any length. ToolCalls: *)
(* for any room for calls and answers of any length. The wire: wherever    *)
(* the network cuts it, the texts of the data lines are fed on (LineParts, *)
(* WireInv). Responses: what the events of a type say together (Told), the *)
(* text and the calls from the first token to the reply (RespInv), and the *)
(* calls that are found, against a reading of the text from left to right  *)
(* (CallInv).                                                              *)
(***************************************************************************)
EXTENDS ResponseStream, InductionLemmas, FiniteSetTheorems, SequenceTheorems, TLAPS

(***************************************************************************)
(* ThinkParser                                                             *)
(***************************************************************************)
Emitted == [char: Char, reasoning: BOOLEAN]

LEMMA MarkedProperties ==
    ASSUME NEW s \in Seq(Char), NEW r \in BOOLEAN
    PROVE  /\ Marked(s, r) \in Seq(Emitted)
           /\ Len(Marked(s, r)) = Len(s)
           /\ \A i \in 1..Len(s) : Marked(s, r)[i] = [char |-> s[i], reasoning |-> r]
<1>1. Len(s) \in Nat /\ DOMAIN s = 1..Len(s) /\ \A i \in 1..Len(s) : s[i] \in Char
  BY LenProperties
<1>2. Marked(s, r) = [i \in 1..Len(s) |-> [char |-> s[i], reasoning |-> r]]
  BY <1>1 DEF Marked
<1>3. \A i \in 1..Len(s) : [char |-> s[i], reasoning |-> r] \in Emitted
  BY <1>1 DEF Emitted
<1>4. QED
  BY <1>1, <1>2, <1>3

LEMMA MarkedAppend ==
    ASSUME NEW s \in Seq(Char), NEW r \in BOOLEAN, NEW c \in Char
    PROVE  Marked(Append(s, c), r) = Append(Marked(s, r), [char |-> c, reasoning |-> r])
<1> DEFINE e == [char |-> c, reasoning |-> r]
<1>1. e \in Emitted
  BY DEF Emitted
<1>2. /\ Append(s, c) \in Seq(Char) /\ Len(Append(s, c)) = Len(s) + 1
      /\ \A i \in 1..Len(s) : Append(s, c)[i] = s[i]
      /\ Append(s, c)[Len(s) + 1] = c
      /\ Len(s) \in Nat
  BY AppendProperties, LenProperties
<1> HIDE DEF e
<1>3. /\ Append(Marked(s, r), e) \in Seq(Emitted)
      /\ Len(Append(Marked(s, r), e)) = Len(s) + 1
      /\ \A i \in 1..Len(s) : Append(Marked(s, r), e)[i] = Marked(s, r)[i]
      /\ Append(Marked(s, r), e)[Len(s) + 1] = e
  BY <1>1, MarkedProperties, AppendProperties
<1>4. /\ Marked(Append(s, c), r) \in Seq(Emitted)
      /\ Len(Marked(Append(s, c), r)) = Len(s) + 1
      /\ \A i \in 1..(Len(s) + 1) :
            Marked(Append(s, c), r)[i] = [char |-> Append(s, c)[i], reasoning |-> r]
  BY <1>2, MarkedProperties
<1>5. \A i \in 1..(Len(s) + 1) : Marked(Append(s, c), r)[i] = Append(Marked(s, r), e)[i]
  <2> TAKE i \in 1..(Len(s) + 1)
  <2>1. CASE i = Len(s) + 1
    BY <2>1, <1>2, <1>3, <1>4 DEF e
  <2>2. CASE i # Len(s) + 1
    <3>1. i \in 1..Len(s)
      BY <2>2, <1>2
    <3>2. Marked(s, r)[i] = [char |-> s[i], reasoning |-> r]
      BY <3>1, MarkedProperties
    <3>3. QED
      BY <3>1, <3>2, <1>2, <1>3, <1>4
  <2>3. QED
    BY <2>1, <2>2
<1>6. Marked(Append(s, c), r) = Append(Marked(s, r), e)
  BY <1>3, <1>4, <1>5, SeqEqual
<1>7. QED
  BY <1>6 DEF e

LEMMA MarkedNothing ==
    ASSUME NEW r \in BOOLEAN
    PROVE  Marked(<<>>, r) = <<>>
<1>1. <<>> \in Seq(Char) /\ Len(<<>>) = 0
  OBVIOUS
<1>2. Len(Marked(<<>>, r)) = 0 /\ Marked(<<>>, r) \in Seq(Emitted)
  BY <1>1, MarkedProperties
<1>3. QED
  BY <1>2, EmptySeq

LEMMA FlushedType ==
    ASSUME TypeOK
    PROVE  Flushed \in Seq(Emitted)
<1>1. Marked(out, outIsReasoning) \in Seq(Emitted)
  BY MarkedProperties DEF TypeOK
<1>2. QED
  BY <1>1, ConcatProperties DEF TypeOK, Flushed, Emitted

\* push_char adds the character, with the kind of text the parser is in, to
\* what has been passed on or is about to be, whether or not it flushes.
LEMMA PushAppends ==
    ASSUME TypeOK, NEW c \in Char, Push(c)
    PROVE  /\ Flushed' = Append(Flushed, [char |-> c, reasoning |-> InReasoning])
           /\ out' \in Seq(Char) /\ Len(out') < OutCap - 1
           /\ outIsReasoning' \in BOOLEAN
           /\ sent' \in Seq(Emitted)
<1> DEFINE R == InReasoning
           e == [char |-> c, reasoning |-> R]
           turn == out # <<>> /\ outIsReasoning # R
           kept == IF turn THEN <<>> ELSE out
           said == IF turn THEN Flushed ELSE sent
           now  == Append(kept, c)
           full == Len(now) >= OutCap - 1
<1>1. R \in BOOLEAN
  BY DEF InReasoning
<1>2. out \in Seq(Char) /\ outIsReasoning \in BOOLEAN /\ sent \in Seq(Emitted)
      /\ OutCap \in Nat /\ OutCap >= 2 /\ Len(out) < OutCap - 1
  BY ThinkAssumption DEF TypeOK, Emitted
<1>3. kept \in Seq(Char) /\ said \in Seq(Emitted) /\ Flushed \in Seq(Emitted)
  BY <1>2, FlushedType
<1>4. now \in Seq(Char) /\ Len(now) \in Nat
  BY <1>3, AppendProperties, LenProperties
<1>5. /\ outIsReasoning' = R
      /\ out' = IF full THEN <<>> ELSE now
      /\ sent' = IF full THEN said \o Marked(now, R) ELSE said
  <2>1. now = Append(IF turn THEN <<>> ELSE out, c)
    OBVIOUS
  <2>2. QED
    BY DEF Push
<1>6. Marked(now, R) \in Seq(Emitted) /\ e \in Emitted
  BY <1>1, <1>4, MarkedProperties DEF Emitted
<1>7. said \o Marked(now, R) \in Seq(Emitted)
  BY <1>3, <1>6, ConcatProperties
<1>8. Flushed' = said \o Marked(now, R)
  <2>1. Flushed' = sent' \o Marked(out', R)
    BY <1>5 DEF Flushed, Marked
  <2>2. CASE full
    <3>1. Flushed' = (said \o Marked(now, R)) \o <<>>
      BY <2>1, <2>2, <1>1, <1>5, MarkedNothing
    <3>2. QED
      BY <3>1, <1>7, ConcatEmptySeq
  <2>3. CASE ~full
    BY <2>1, <2>3, <1>5
  <2>4. QED
    BY <2>2, <2>3
<1>9. said \o Marked(kept, R) = Flushed
  <2>1. CASE turn
    BY <2>1, <1>1, <1>3, MarkedNothing, ConcatEmptySeq
  <2>2. CASE ~turn
    <3>1. CASE out = <<>>
      <4>1. Marked(kept, R) = <<>> /\ Marked(out, outIsReasoning) = <<>>
        BY <2>2, <3>1, <1>1, <1>2, MarkedNothing
      <4>2. QED
        BY <4>1, <2>2 DEF Flushed
    <3>2. CASE out # <<>>
      BY <2>2, <3>2 DEF Flushed
    <3>3. QED
      BY <3>1, <3>2
  <2>3. QED
    BY <2>1, <2>2
<1>10. said \o Marked(now, R) = Append(Flushed, e)
  <2> DEFINE mk == Marked(kept, R)
  <2>1. Marked(now, R) = Append(mk, e) /\ mk \in Seq(Emitted)
    BY <1>1, <1>3, MarkedAppend, MarkedProperties
  <2>2. said \in Seq(Emitted) /\ e \in Emitted /\ said \o mk = Flushed
    BY <1>3, <1>6, <1>9
  <2> HIDE DEF mk, e, said, now
  <2>3. Append(mk, e) = mk \o <<e>> /\ <<e>> \in Seq(Emitted)
    BY <2>1, <2>2, AppendIsConcat
  <2>4. said \o (mk \o <<e>>) = (said \o mk) \o <<e>>
    <3>1. \A s, t, u \in Seq(Emitted) : (s \o t) \o u = s \o (t \o u)
      BY ConcatAssociative
    <3>2. QED
      BY <3>1, <2>1, <2>2, <2>3, Zenon
  <2>5. Append(Flushed, e) = Flushed \o <<e>>
    BY <2>2, <1>3, AppendIsConcat
  <2>6. QED
    BY <2>1, <2>2, <2>3, <2>4, <2>5
<1>11. out' \in Seq(Char) /\ Len(out') < OutCap - 1
  BY <1>2, <1>4, <1>5
<1>12. sent' \in Seq(Emitted)
  BY <1>3, <1>5, <1>7
<1>13. QED
  BY <1>1, <1>5, <1>8, <1>10, <1>11, <1>12

(***************************************************************************)
(* The inductive invariant                                                 *)
(***************************************************************************)

\* How much of the text has been decided on
Pos == Len(text) - Len(token) - Len(tag) - Len(todo)

\* The rest of it is, in order, in todo, tag and token
Placed ==
    /\ Pos >= 0
    /\ \A i \in 1..Len(todo) : text[Pos + i] = todo[i]
    /\ \A i \in 1..Len(tag) : text[Pos + Len(todo) + i] = tag[i]
    /\ \A i \in 1..Len(token) : text[Pos + Len(todo) + Len(tag) + i] = token[i]

TagIsPrefix ==
    /\ Len(tag) < Len(Awaited)
    /\ \A i \in 1..Len(tag) : tag[i] = Awaited[i]
    /\ tag = <<>> \/ state \in {"MAYBE_OPEN", "MAYBE_CLOSE"}

\* No tag starts at the characters push_str is pushing
NoTagAhead ==
    \/ \E i \in 1..Len(Awaited) : Pos + i <= Len(text) /\ text[Pos + i] # Awaited[i]
    \/ closing # "no" /\ Pos + Len(Awaited) > Len(text)

TodoIsPlain ==
    /\ \A i \in 2..Len(todo) : todo[i] # Lt
    /\ todo # <<>> => NoTagAhead

ClosedInOrder ==
    /\ closing # "no" => token = <<>> /\ tag = <<>>
    /\ closing = "done" => todo = <<>> /\ out = <<>>

IInv == TypeOK /\ Placed /\ TagIsPrefix /\ TodoIsPlain /\ ClosedInOrder

\* What every proof about a step needs to know of the awaited tag
LEMMA AwaitedProperties ==
    /\ Awaited \in {OpenTag, CloseTag} /\ Awaited \in Seq(Char)
    /\ Len(Awaited) \in Nat /\ Len(Awaited) >= 2
    /\ Awaited[1] = Lt /\ \A i \in 2..Len(Awaited) : Awaited[i] # Lt
    /\ Lt \in Char
<1>1. Awaited \in {OpenTag, CloseTag}
  BY DEF Awaited
<1>2. Awaited \in Seq(Char) /\ Len(Awaited) >= 2 /\ Awaited[1] = Lt
      /\ \A i \in 2..Len(Awaited) : Awaited[i] # Lt
  BY <1>1, ThinkAssumption
<1>3. Len(Awaited) \in Nat
  BY <1>2, LenProperties
<1>4. QED
  BY <1>1, <1>2, <1>3, ThinkAssumption

LEMMA Lengths ==
    ASSUME TypeOK
    PROVE  /\ Len(text) \in Nat /\ Len(token) \in Nat /\ Len(tag) \in Nat
           /\ Len(todo) \in Nat /\ Pos \in Int
BY LenProperties DEF TypeOK, Pos

LEMMA InitIInv == Init => IInv
<1> SUFFICES ASSUME Init PROVE IInv
  OBVIOUS
<1> USE DEF Init
<1>1. TypeOK
  <2>1. \E t \in {OpenTag, CloseTag} : Len(tag) <= Len(t)
    <3>1. Len(tag) = 0 /\ Len(OpenTag) >= 2 /\ Len(OpenTag) \in Nat
      BY ThinkAssumption, LenProperties
    <3>2. Len(tag) <= Len(OpenTag)
      BY <3>1
    <3>3. QED
      BY <3>2
  <2>2. Len(out) < OutCap - 1
    <3>1. Len(out) = 0
      OBVIOUS
    <3>2. QED
      BY <3>1, ThinkAssumption
  <2>3. <<>> \in Seq(Char) /\ <<>> \in Seq([char: Char, reasoning: BOOLEAN])
    BY EmptySeq
  <2>4. QED
    BY <2>1, <2>2, <2>3 DEF TypeOK, State
<1>2. Placed
  BY DEF Placed, Pos
<1>3. TagIsPrefix
  BY AwaitedProperties DEF TagIsPrefix
<1>4. TodoIsPlain /\ ClosedInOrder
  BY DEF TodoIsPlain, ClosedInOrder
<1>5. QED
  BY <1>1, <1>2, <1>3, <1>4 DEF IInv

Stutter == UNCHANGED <<text, closing # "no", Pos, InReasoning, Flushed>>

LEMMA StutterIsStep == Stutter => UNCHANGED Strip!vars
BY DEF Stutter, Strip!vars, Pos

LEMMA FeedStep ==
    ASSUME IInv, NEW t \in Seq(Char), Feed(t)
    PROVE  IInv' /\ Strip!Grow
<1>1. /\ Len(t) \in Nat /\ text' \in Seq(Char) /\ Len(text') = Len(text) + Len(t)
      /\ \A i \in 1..Len(text) : text'[i] = text[i]
      /\ \A i \in 1..Len(t) : text'[Len(text) + i] = t[i]
  BY LenProperties, ConcatProperties DEF IInv, TypeOK, Feed
<1>2. /\ Len(token) = 0 /\ Len(todo) = 0 /\ todo = <<>> /\ closing = "no"
      /\ token' = t /\ UNCHANGED <<state, tag, out, outIsReasoning, todo, closing, sent>>
  BY DEF Feed, Idle
<1>3. Pos' = Pos /\ Pos + Len(tag) = Len(text)
  BY <1>1, <1>2, Lengths DEF IInv, Pos
<1>4. TypeOK'
  BY <1>1, <1>2 DEF IInv, TypeOK
<1>5. Placed'
  <2>1. Pos >= 0 /\ \A i \in 1..Len(tag) : text[Pos + i] = tag[i]
    BY <1>2, Lengths DEF IInv, Placed
  <2>2. \A i \in 1..Len(tag) : text'[Pos + i] = tag[i]
    <3> TAKE i \in 1..Len(tag)
    <3>1. Pos + i \in 1..Len(text)
      BY <2>1, <1>3, Lengths DEF IInv
    <3>2. QED
      BY <3>1, <2>1, <1>1
  <2>3. \A i \in 1..Len(t) : text'[Pos + Len(tag) + i] = t[i]
    BY <1>1, <1>3
  <2>4. Len(todo) = 0 /\ Len(todo') = 0 /\ Pos + Len(todo) = Pos
    BY <1>2, Lengths DEF IInv
  <2>5. QED
    BY <2>1, <2>2, <2>3, <2>4, <1>2, <1>3 DEF Placed
<1>6. TagIsPrefix' /\ TodoIsPlain' /\ ClosedInOrder'
  BY <1>2 DEF IInv, TagIsPrefix, TodoIsPlain, ClosedInOrder, Awaited, InReasoning
<1>7. Strip!Grow
  <2>1. Len(text') >= Len(text)
    BY <1>1, Lengths DEF IInv
  <2>2. \A i \in DOMAIN text : text'[i] = text[i]
    BY <1>1, LenProperties DEF IInv, TypeOK
  <2>3. Flushed' = Flushed /\ InReasoning' = InReasoning
    BY <1>2 DEF Flushed, Marked, InReasoning
  <2>4. QED
    BY <2>1, <2>2, <2>3, <1>2, <1>3 DEF Strip!Grow, Pos
<1>8. QED
  BY <1>4, <1>5, <1>6, <1>7 DEF IInv

\* Before a step that looks at the next character: the rest of the text is
\* tag, that character and the rest of token
LEMMA LookingFacts ==
    ASSUME IInv, Looking
    PROVE  /\ Head(token) \in Char /\ Tail(token) \in Seq(Char)
           /\ Len(token) \in Nat \ {0} /\ Len(Tail(token)) = Len(token) - 1
           /\ todo = <<>> /\ Len(todo) = 0 /\ closing = "no"
           /\ Len(text) \in Nat /\ Len(tag) \in Nat /\ Pos \in Nat
           /\ Pos + Len(tag) + Len(token) = Len(text)
           /\ text[Pos + Len(tag) + 1] = Head(token)
           /\ \A i \in 1..Len(tag) : text[Pos + i] = tag[i]
           /\ \A i \in 1..Len(Tail(token)) :
                  text[Pos + Len(tag) + 1 + i] = Tail(token)[i]
           /\ Longer \in Seq(Char) /\ Len(Longer) = Len(tag) + 1
           /\ \A i \in 1..Len(tag) : Longer[i] = tag[i]
           /\ Longer[Len(tag) + 1] = Head(token)
           /\ \A i \in 1..Len(Longer) : text[Pos + i] = Longer[i]
<1>1. /\ Head(token) \in Char /\ Tail(token) \in Seq(Char)
      /\ Len(Tail(token)) = Len(token) - 1
      /\ \A i \in 1..Len(Tail(token)) : Tail(token)[i] = token[i + 1]
      /\ Head(token) = token[1]
  BY HeadTailProperties DEF Looking, IInv, TypeOK
<1>2. Len(token) \in Nat \ {0}
  BY EmptySeq DEF Looking, IInv, TypeOK
<1>3. todo = <<>> /\ Len(todo) = 0 /\ closing = "no"
  BY DEF Looking, IInv, ClosedInOrder, TypeOK
<1>4. Len(text) \in Nat /\ Len(tag) \in Nat /\ Pos \in Nat
      /\ Pos + Len(tag) + Len(token) = Len(text)
  <2>1. Pos \in Int /\ Pos >= 0
    BY Lengths DEF IInv, Placed
  <2>2. QED
    BY <2>1, <1>3, Lengths DEF IInv, Pos
<1>5. \A i \in 1..Len(tag) : text[Pos + i] = tag[i]
  BY <1>3, <1>4 DEF IInv, Placed
<1>6. \A i \in 1..Len(token) : text[Pos + Len(tag) + i] = token[i]
  BY <1>3, <1>4 DEF IInv, Placed
<1>7. text[Pos + Len(tag) + 1] = Head(token)
  BY <1>1, <1>2, <1>6
<1>8. \A i \in 1..Len(Tail(token)) : text[Pos + Len(tag) + 1 + i] = Tail(token)[i]
  <2> TAKE i \in 1..Len(Tail(token))
  <2>1. i + 1 \in 1..Len(token) /\ Pos + Len(tag) + (i + 1) = Pos + Len(tag) + 1 + i
    BY <1>1, <1>2, <1>4
  <2>2. QED
    BY <2>1, <1>1, <1>6
<1>9. /\ Longer \in Seq(Char) /\ Len(Longer) = Len(tag) + 1
      /\ \A i \in 1..Len(tag) : Longer[i] = tag[i]
      /\ Longer[Len(tag) + 1] = Head(token)
  BY <1>1, AppendProperties DEF Longer, IInv, TypeOK
<1>10. \A i \in 1..Len(Longer) : text[Pos + i] = Longer[i]
  <2> TAKE i \in 1..Len(Longer)
  <2>1. CASE i = Len(tag) + 1
    BY <2>1, <1>4, <1>7, <1>9
  <2>2. CASE i # Len(tag) + 1
    BY <2>2, <1>4, <1>5, <1>9
  <2>3. QED
    BY <2>1, <2>2
<1>11. QED
  BY <1>1, <1>2, <1>3, <1>4, <1>5, <1>7, <1>8, <1>9, <1>10

LEMMA PlainStep ==
    ASSUME IInv, Plain
    PROVE  IInv' /\ Strip!CopyChar
<1>1. /\ Looking /\ state \in {"CONTENT", "REASONING"} /\ Head(token) # Lt
      /\ Push(Head(token)) /\ token' = Tail(token)
      /\ UNCHANGED <<text, state, tag, todo, closing>>
  BY DEF Plain
<1>2. tag = <<>> /\ Len(tag) = 0
  BY <1>1 DEF IInv, TagIsPrefix
<1>3. /\ Flushed' = Append(Flushed, [char |-> Head(token), reasoning |-> InReasoning])
      /\ out' \in Seq(Char) /\ Len(out') < OutCap - 1
      /\ outIsReasoning' \in BOOLEAN /\ sent' \in Seq(Emitted)
  BY <1>1, LookingFacts, PushAppends DEF IInv
<1>4. Pos' = Pos + 1 /\ text[Pos + 1] = Head(token)
  <2>1. text[Pos + 1] = Head(token)
    BY <1>1, <1>2, LookingFacts
  <2>2. QED
    BY <2>1, <1>1, LookingFacts, Lengths DEF Pos, IInv
<1>5. TypeOK'
  BY <1>1, <1>3, LookingFacts DEF IInv, TypeOK, Emitted
<1>6. Placed'
  <2>1. \A i \in 1..Len(token') : text[Pos + 1 + i] = token'[i]
    BY <1>1, <1>2, LookingFacts
  <2>2. Pos + 1 + Len(todo) + Len(tag) = Pos + 1 /\ Pos + 1 >= 0
    BY <1>1, <1>2, LookingFacts
  <2>3. Len(todo') = 0 /\ Len(tag') = 0
    BY <1>1, <1>2, LookingFacts
  <2>4. QED
    BY <2>1, <2>2, <2>3, <1>1, <1>4, LookingFacts DEF Placed
<1>7. TagIsPrefix' /\ TodoIsPlain' /\ ClosedInOrder'
  BY <1>1, LookingFacts DEF IInv, TagIsPrefix, TodoIsPlain, ClosedInOrder, Awaited, InReasoning
<1>8. Strip!CopyChar
  <2>1. Pos < Len(text)
    BY <1>1, <1>2, LookingFacts
  <2>2. Strip!NoTagHere
    <3>1. 1 \in 1..Len(Awaited) /\ Pos + 1 <= Len(text) /\ text[Pos + 1] # Awaited[1]
      BY <1>1, <1>4, <2>1, AwaitedProperties, LookingFacts, SMTT(60)
    <3>2. QED
      BY <3>1 DEF Strip!NoTagHere, Strip!Tag, Awaited, Pos
  <2>3. (closing # "no")' = (closing # "no") /\ InReasoning' = InReasoning
    BY <1>1 DEF InReasoning
  <2>4. Flushed' = Append(Flushed, [char |-> text[Pos + 1], reasoning |-> InReasoning])
    BY <1>3, <1>4
  <2>5. QED
    BY <2>1, <2>2, <2>3, <2>4, <1>1, <1>4 DEF Strip!CopyChar, Pos
<1>9. QED
  BY <1>5, <1>6, <1>7, <1>8 DEF IInv

LEMMA BracketStep ==
    ASSUME IInv, Bracket
    PROVE  IInv' /\ Stutter
<1>1. /\ Looking /\ state \in {"CONTENT", "REASONING"} /\ Head(token) = Lt
      /\ tag' = <<Lt>> /\ token' = Tail(token)
      /\ state' = IF InReasoning THEN "MAYBE_CLOSE" ELSE "MAYBE_OPEN"
      /\ UNCHANGED <<text, out, outIsReasoning, todo, closing, sent>>
  BY DEF Bracket
<1>2. tag = <<>> /\ Len(tag) = 0
  BY <1>1 DEF IInv, TagIsPrefix
<1>3. tag' \in Seq(Char) /\ Len(tag') = 1 /\ tag'[1] = Lt
  BY <1>1, AwaitedProperties
<1>4. InReasoning' = InReasoning /\ Awaited' = Awaited
  BY <1>1 DEF InReasoning, Awaited
<1>5. Pos' = Pos
  BY <1>1, <1>2, <1>3, LookingFacts DEF Pos
<1>6. TypeOK'
  <2>1. \E t \in {OpenTag, CloseTag} : Len(tag') <= Len(t)
    BY <1>3, AwaitedProperties
  <2>2. state' \in State
    BY <1>1 DEF State
  <2>3. QED
    BY <2>1, <2>2, <1>1, <1>3, LookingFacts DEF IInv, TypeOK
<1>7. Placed'
  <2>1. text[Pos + 1] = Lt /\ \A i \in 1..Len(token') : text[Pos + 1 + i] = token'[i]
    BY <1>1, <1>2, LookingFacts
  <2>2. Len(todo') = 0 /\ Pos + 0 = Pos /\ Pos >= 0 /\ Pos + 0 + 1 = Pos + 1
    BY <1>1, LookingFacts
  <2>3. QED
    BY <2>1, <2>2, <1>1, <1>3, <1>5 DEF Placed
<1>8. TagIsPrefix' /\ TodoIsPlain' /\ ClosedInOrder'
  <2>1. TagIsPrefix'
    BY <1>1, <1>3, <1>4, AwaitedProperties DEF TagIsPrefix
  <2>2. QED
    BY <2>1, <1>1, LookingFacts DEF IInv, TodoIsPlain, ClosedInOrder
<1>9. Stutter
  BY <1>1, <1>4, <1>5 DEF Stutter, Flushed, Marked
<1>10. QED
  BY <1>6, <1>7, <1>8, <1>9 DEF IInv

LEMMA TagGrowsStep ==
    ASSUME IInv, TagGrows
    PROVE  IInv' /\ Stutter
<1>1. /\ Looking /\ state \in {"MAYBE_OPEN", "MAYBE_CLOSE"}
      /\ Len(Longer) < Len(Awaited) /\ Fits
      /\ tag' = Longer /\ token' = Tail(token)
      /\ UNCHANGED <<text, state, out, outIsReasoning, todo, closing, sent>>
  BY DEF TagGrows
<1>2. \A i \in 1..Len(Longer) : Longer[i] = Awaited[i]
  BY <1>1, LookingFacts, LenProperties DEF Fits
<1>3. InReasoning' = InReasoning /\ Awaited' = Awaited
  BY <1>1 DEF InReasoning, Awaited
<1>4. Pos' = Pos
  <2>1. /\ Len(token') = Len(token) - 1 /\ Len(tag') = Len(tag) + 1
        /\ Len(token) \in Nat /\ Len(tag) \in Nat /\ Len(text) \in Nat /\ Len(todo) = 0
    BY <1>1, LookingFacts
  <2>2. QED
    BY <2>1, <1>1 DEF Pos
<1>5. TypeOK'
  <2>1. \E t \in {OpenTag, CloseTag} : Len(tag') <= Len(t)
    BY <1>1, AwaitedProperties, LookingFacts, SMTT(60)
  <2>2. QED
    BY <2>1, <1>1, LookingFacts DEF IInv, TypeOK
<1>6. Placed'
  <2>1. \A i \in 1..Len(token') : text[Pos + Len(Longer) + i] = token'[i]
    <3>1. Len(Longer) = Len(tag) + 1 /\ Len(tag) \in Nat /\ Pos \in Nat
      BY <1>1, LookingFacts
    <3>2. \A i \in 1..Len(token') : text[Pos + Len(tag) + 1 + i] = token'[i]
      BY <1>1, LookingFacts
    <3>3. QED
      BY <3>1, <3>2
  <2>2. Len(todo') = 0 /\ Pos + 0 = Pos /\ Pos >= 0
    BY <1>1, LookingFacts
  <2>3. QED
    BY <2>1, <2>2, <1>1, <1>4, LookingFacts, SMTT(60) DEF Placed
<1>7. TagIsPrefix' /\ TodoIsPlain' /\ ClosedInOrder'
  <2>1. TagIsPrefix'
    BY <1>1, <1>2, <1>3 DEF TagIsPrefix
  <2>2. QED
    BY <2>1, <1>1, LookingFacts DEF IInv, TodoIsPlain, ClosedInOrder
<1>8. Stutter
  BY <1>1, <1>3, <1>4 DEF Stutter, Flushed, Marked
<1>9. QED
  BY <1>5, <1>6, <1>7, <1>8 DEF IInv

LEMMA TagCompletesStep ==
    ASSUME IInv, TagCompletes
    PROVE  IInv' /\ Strip!SkipTag
<1>1. /\ Looking /\ state \in {"MAYBE_OPEN", "MAYBE_CLOSE"}
      /\ Len(Longer) = Len(Awaited) /\ Fits
      /\ sent' = Flushed /\ out' = <<>> /\ tag' = <<>> /\ token' = Tail(token)
      /\ state' = IF InReasoning THEN "CONTENT" ELSE "REASONING"
      /\ UNCHANGED <<text, outIsReasoning, todo, closing>>
  BY DEF TagCompletes
<1>2. \A i \in 1..Len(Awaited) : text[Pos + i] = Awaited[i]
  BY <1>1, LookingFacts, LenProperties DEF Fits
<1>3. InReasoning' = ~InReasoning
  BY <1>1 DEF InReasoning
<1>4. Pos' = Pos + Len(Awaited)
  <2>1. /\ Len(token') = Len(token) - 1 /\ Len(Awaited) = Len(tag) + 1 /\ Len(tag') = 0
        /\ Len(token) \in Nat /\ Len(tag) \in Nat /\ Len(text) \in Nat /\ Len(todo) = 0
    BY <1>1, LookingFacts
  <2>2. QED
    BY <2>1, <1>1 DEF Pos
<1>5. TypeOK'
  <2>1. <<>> \in Seq(Char) /\ Len(<<>>) < OutCap - 1
    BY ThinkAssumption
  <2>2. \E t \in {OpenTag, CloseTag} : Len(tag') <= Len(t)
    BY <1>1, AwaitedProperties
  <2>3. sent' \in Seq([char: Char, reasoning: BOOLEAN]) /\ state' \in State
    BY <1>1, FlushedType DEF IInv, Emitted, State
  <2>4. QED
    BY <2>1, <2>2, <2>3, <1>1, LookingFacts DEF IInv, TypeOK
<1>6. Placed'
  <2>1. \A i \in 1..Len(token') : text[Pos + Len(Awaited) + i] = token'[i]
    <3>1. Len(Awaited) = Len(tag) + 1 /\ Len(tag) \in Nat /\ Pos \in Nat
      BY <1>1, LookingFacts
    <3>2. \A i \in 1..Len(token') : text[Pos + Len(tag) + 1 + i] = token'[i]
      BY <1>1, LookingFacts
    <3>3. QED
      BY <3>1, <3>2
  <2>2. Len(todo') = 0 /\ Len(tag') = 0 /\ Pos' >= 0 /\ Pos' + 0 = Pos'
    BY <1>1, <1>4, LookingFacts, AwaitedProperties, SMTT(60)
  <2>3. QED
    BY <2>1, <2>2, <1>1, <1>4, AwaitedProperties, LookingFacts, SMTT(60) DEF Placed
<1>7. TagIsPrefix' /\ TodoIsPlain' /\ ClosedInOrder'
  <2>1. Len(Awaited') \in Nat /\ Len(Awaited') >= 2
    <3>1. Awaited' \in {OpenTag, CloseTag}
      BY DEF Awaited
    <3>2. QED
      BY <3>1, ThinkAssumption, LenProperties
  <2>2. TagIsPrefix'
    BY <1>1, <2>1 DEF TagIsPrefix
  <2>3. QED
    BY <2>2, <1>1, LookingFacts DEF IInv, TodoIsPlain, ClosedInOrder
<1>8. Strip!SkipTag
  <2>1. Flushed' = Flushed
    <3>1. Flushed' = Flushed \o <<>>
      BY <1>1, MarkedNothing DEF Flushed, Marked, IInv, TypeOK
    <3>2. QED
      BY <3>1, FlushedType, ConcatEmptySeq DEF IInv
  <2>2. Pos + Len(Awaited) <= Len(text)
    BY <1>1, LookingFacts
  <2>3. QED
    BY <2>1, <2>2, <1>1, <1>2, <1>3, <1>4
       DEF Strip!SkipTag, Strip!TagHere, Strip!Tag, Awaited, Pos
<1>9. QED
  BY <1>5, <1>6, <1>7, <1>8 DEF IInv

LEMMA TagBreaksStep ==
    ASSUME IInv, TagBreaks
    PROVE  IInv' /\ Stutter
<1> DEFINE again == Head(token) = Lt
<1>1. /\ Looking /\ state \in {"MAYBE_OPEN", "MAYBE_CLOSE"} /\ ~Fits
      /\ token' = Tail(token)
      /\ todo' = IF again THEN tag ELSE Longer
      /\ tag' = IF again THEN <<Lt>> ELSE <<>>
      /\ state' = IF again THEN state ELSE IF InReasoning THEN "REASONING" ELSE "CONTENT"
      /\ UNCHANGED <<text, out, outIsReasoning, closing, sent>>
  BY DEF TagBreaks
<1>2. InReasoning' = InReasoning
  BY <1>1 DEF InReasoning
<1>3. Awaited' = Awaited
  BY <1>2 DEF Awaited
<1>4. /\ todo' \in Seq(Char) /\ tag' \in Seq(Char)
      /\ Len(todo') = IF again THEN Len(tag) ELSE Len(tag) + 1
      /\ Len(tag') = IF again THEN 1 ELSE 0
      /\ again => tag'[1] = Lt
  <2>1. tag \in Seq(Char) /\ Longer \in Seq(Char) /\ Len(Longer) = Len(tag) + 1
    BY <1>1, LookingFacts DEF IInv, TypeOK
  <2>2. <<Lt>> \in Seq(Char) /\ <<>> \in Seq(Char) /\ Lt \in Char
    BY AwaitedProperties
  <2>3. CASE again
    BY <2>1, <2>2, <2>3, <1>1
  <2>4. CASE ~again
    BY <2>1, <2>2, <2>4, <1>1
  <2>5. QED
    BY <2>3, <2>4
<1>5. Pos' = Pos
  <2>1. /\ Len(token') = Len(token) - 1 /\ Len(todo') + Len(tag') = Len(tag) + 1
        /\ Len(token) \in Nat /\ Len(tag) \in Nat /\ Len(text) \in Nat /\ Len(todo) = 0
        /\ Len(todo') \in Nat /\ Len(tag') \in Nat
    BY <1>1, <1>4, LookingFacts
  <2>2. QED
    BY <2>1, <1>1 DEF Pos
<1>6. NoTagAhead'
  <2>1. PICK i \in DOMAIN Longer : Longer[i] # Awaited[i]
    BY <1>1 DEF Fits
  <2>2. i \in 1..Len(Longer)
    BY LookingFacts, LenProperties, <1>1
  <2>3. Len(Longer) <= Len(Awaited)
    BY <1>1, LookingFacts, AwaitedProperties DEF IInv, TagIsPrefix
  <2>4. i \in 1..Len(Awaited) /\ Pos + i <= Len(text) /\ text[Pos + i] # Awaited[i]
    <3>1. text[Pos + i] = Longer[i]
      BY <2>2, <1>1, LookingFacts
    <3>2. Len(Longer) = Len(tag) + 1 /\ Pos + Len(tag) + Len(token) = Len(text)
          /\ Pos \in Nat /\ Len(tag) \in Nat /\ Len(token) \in Nat \ {0} /\ Len(text) \in Nat
      BY <1>1, LookingFacts
    <3>3. QED
      BY <3>1, <3>2, <2>1, <2>2, <2>3, AwaitedProperties
  <2>5. QED
    BY <2>4, <1>1, <1>3, <1>5 DEF NoTagAhead
<1>7. TypeOK'
  <2>1. \E t \in {OpenTag, CloseTag} : Len(tag') <= Len(t)
    BY <1>4, AwaitedProperties
  <2>2. state' \in State
    BY <1>1 DEF State, IInv, TypeOK
  <2>3. QED
    BY <2>1, <2>2, <1>1, <1>4, LookingFacts DEF IInv, TypeOK
<1>8. Placed'
  <2>1. /\ Len(tag) \in Nat /\ Pos \in Nat /\ Len(Longer) = Len(tag) + 1
        /\ \A i \in 1..Len(tag) : text[Pos + i] = tag[i]
        /\ \A i \in 1..Len(Longer) : text[Pos + i] = Longer[i]
        /\ text[Pos + Len(tag) + 1] = Head(token)
        /\ \A i \in 1..Len(token') : text[Pos + Len(tag) + 1 + i] = token'[i]
    BY <1>1, LookingFacts
  <2>2. \A i \in 1..Len(todo') : text[Pos + i] = todo'[i]
    BY <2>1, <1>1, <1>4
  <2>3. \A i \in 1..Len(tag') : text[Pos + Len(todo') + i] = tag'[i]
    <3>1. CASE again
      BY <3>1, <2>1, <1>4
    <3>2. CASE ~again
      BY <3>2, <1>4
    <3>3. QED
      BY <3>1, <3>2
  <2>4. \A i \in 1..Len(token') : text[Pos + Len(todo') + Len(tag') + i] = token'[i]
    <3>1. Pos + Len(todo') + Len(tag') = Pos + Len(tag) + 1
      BY <2>1, <1>4
    <3>2. QED
      BY <3>1, <2>1
  <2>5. text' = text /\ Pos >= 0
    BY <2>1, <1>1
  <2>6. QED
    BY <2>2, <2>3, <2>4, <2>5, <1>5 DEF Placed
<1>9. TagIsPrefix'
  BY <1>1, <1>3, <1>4, AwaitedProperties DEF TagIsPrefix
<1>10. \A i \in 2..Len(todo') : todo'[i] # Lt
  <2>1. /\ Len(tag) \in Nat /\ Longer[Len(tag) + 1] = Head(token)
        /\ \A i \in 1..Len(tag) : Longer[i] = tag[i]
    BY <1>1, LookingFacts
  <2>2. \A i \in 2..Len(tag) : tag[i] # Lt
    <3> TAKE i \in 2..Len(tag)
    <3>1. i \in 1..Len(tag) /\ i \in 2..Len(Awaited)
      BY <2>1, AwaitedProperties DEF IInv, TagIsPrefix
    <3>2. QED
      BY <3>1, AwaitedProperties DEF IInv, TagIsPrefix
  <2>3. CASE again
    BY <2>2, <2>3, <1>1, <1>4
  <2>4. CASE ~again
    <3> TAKE i \in 2..Len(todo')
    <3>1. i = Len(tag) + 1 \/ (i \in 1..Len(tag) /\ i \in 2..Len(tag))
      BY <2>1, <2>4, <1>4
    <3>2. QED
      BY <3>1, <2>1, <2>2, <2>4, <1>1
  <2>5. QED
    BY <2>3, <2>4
<1>11. TodoIsPlain' /\ ClosedInOrder'
  BY <1>1, <1>6, <1>10, LookingFacts DEF TodoIsPlain, ClosedInOrder
<1>12. Stutter
  BY <1>1, <1>2, <1>5 DEF Stutter, Flushed, Marked
<1>13. QED
  BY <1>7, <1>8, <1>9, <1>11, <1>12 DEF IInv

LEMMA PushNextStep ==
    ASSUME IInv, PushNext
    PROVE  IInv' /\ Strip!CopyChar
<1>1. /\ todo # <<>> /\ Push(Head(todo)) /\ todo' = Tail(todo)
      /\ UNCHANGED <<text, token, state, tag, closing>>
  BY DEF PushNext
<1>2. /\ Head(todo) \in Char /\ todo' \in Seq(Char)
      /\ Len(todo) \in Nat \ {0} /\ Len(todo') = Len(todo) - 1
      /\ \A i \in 1..Len(todo') : todo'[i] = todo[i + 1]
      /\ Head(todo) = todo[1]
  BY <1>1, HeadTailProperties, EmptySeq DEF IInv, TypeOK
<1>3. /\ Flushed' = Append(Flushed, [char |-> Head(todo), reasoning |-> InReasoning])
      /\ out' \in Seq(Char) /\ Len(out') < OutCap - 1
      /\ outIsReasoning' \in BOOLEAN /\ sent' \in Seq(Emitted)
  BY <1>1, <1>2, PushAppends DEF IInv
<1>4. /\ Len(text) \in Nat /\ Len(token) \in Nat /\ Len(tag) \in Nat /\ Pos \in Nat
      /\ Pos + Len(todo) + Len(tag) + Len(token) = Len(text)
  <2>1. Pos \in Int /\ Pos >= 0
    BY Lengths DEF IInv, Placed
  <2>2. QED
    BY <2>1, <1>2, Lengths DEF IInv, Pos
<1>5. Pos' = Pos + 1
  BY <1>1, <1>2, <1>4 DEF Pos
<1>6. InReasoning' = InReasoning /\ Awaited' = Awaited
  BY <1>1 DEF InReasoning, Awaited
<1>7. TypeOK'
  BY <1>1, <1>2, <1>3 DEF IInv, TypeOK, Emitted
<1>8. Placed'
  <2>1. \A i \in 1..Len(todo') : text[Pos + 1 + i] = todo'[i]
    <3> TAKE i \in 1..Len(todo')
    <3>1. i + 1 \in 1..Len(todo) /\ Pos + (i + 1) = Pos + 1 + i
      BY <1>2, <1>4
    <3>2. QED
      BY <3>1, <1>2 DEF IInv, Placed
  <2>2. Pos + 1 + Len(todo') = Pos + Len(todo) /\ Pos + 1 >= 0
    BY <1>2, <1>4
  <2>3. QED
    BY <2>1, <2>2, <1>1, <1>5 DEF IInv, Placed
<1>9. TagIsPrefix' /\ ClosedInOrder'
  BY <1>1, <1>6 DEF IInv, TagIsPrefix, ClosedInOrder
<1>10. TodoIsPlain'
  <2>1. \A i \in 2..Len(todo') : todo'[i] # Lt
    <3> TAKE i \in 2..Len(todo')
    <3>1. i \in 1..Len(todo') /\ i + 1 \in 2..Len(todo)
      BY <1>2
    <3>2. QED
      BY <3>1, <1>2 DEF IInv, TodoIsPlain
  <2>2. ASSUME todo' # <<>> PROVE NoTagAhead'
    <3>1. Len(todo') \in Nat \ {0}
      BY <2>2, <1>2, EmptySeq
    <3>2. 2 \in 1..Len(todo) /\ 2 \in 2..Len(todo)
      BY <3>1, <1>2
    <3>3. text[Pos + 2] = todo[2] /\ todo[2] # Lt
      BY <3>2 DEF IInv, Placed, TodoIsPlain
    <3>4. Pos' + 1 <= Len(text) /\ text[Pos' + 1] # Awaited[1] /\ 1 \in 1..Len(Awaited)
      <4>1. Pos' + 1 = Pos + 2 /\ Pos + 2 <= Len(text)
        BY <3>1, <1>2, <1>4, <1>5
      <4>2. QED
        BY <4>1, <3>3, AwaitedProperties
    <3>5. QED
      BY <3>4, <1>1, <1>6 DEF NoTagAhead
  <2>3. QED
    BY <2>1, <2>2 DEF TodoIsPlain
<1>11. Strip!CopyChar
  <2>1. Pos < Len(text) /\ text[Pos + 1] = Head(todo)
    <3>1. 1 \in 1..Len(todo) /\ Pos < Len(text)
      BY <1>2, <1>4
    <3>2. QED
      BY <3>1, <1>2 DEF IInv, Placed
  <2>2. Strip!NoTagHere
    BY <1>1 DEF IInv, TodoIsPlain, NoTagAhead, Strip!NoTagHere, Strip!Tag, Awaited, Pos
  <2>3. Flushed' = Append(Flushed, [char |-> text[Pos + 1], reasoning |-> InReasoning])
    BY <1>3, <2>1
  <2>4. QED
    BY <2>1, <2>2, <2>3, <1>1, <1>5, <1>6 DEF Strip!CopyChar, Pos
<1>12. QED
  BY <1>7, <1>8, <1>9, <1>10, <1>11 DEF IInv

LEMMA FinishStep ==
    ASSUME IInv, Finish
    PROVE  IInv' /\ Strip!End
<1>1. /\ token = <<>> /\ todo = <<>> /\ closing = "no"
      /\ closing' = "yes" /\ todo' = tag /\ tag' = <<>>
      /\ UNCHANGED <<text, token, state, out, outIsReasoning, sent>>
  BY DEF Finish, Idle
<1>2. Len(token) = 0 /\ Len(todo) = 0 /\ Len(tag') = 0 /\ Len(todo') = Len(tag)
  BY <1>1
<1>3. /\ Len(text) \in Nat /\ Len(tag) \in Nat /\ Pos \in Nat /\ Pos + Len(tag) = Len(text)
  <2>1. Pos \in Int /\ Pos >= 0
    BY Lengths DEF IInv, Placed
  <2>2. QED
    BY <2>1, <1>2, Lengths DEF IInv, Pos
<1>4. Pos' = Pos /\ InReasoning' = InReasoning /\ Awaited' = Awaited
  BY <1>1, <1>2, <1>3 DEF Pos, InReasoning, Awaited
<1>5. TypeOK'
  BY <1>1 DEF IInv, TypeOK
<1>6. Placed'
  <2>1. \A i \in 1..Len(todo') : text[Pos + i] = todo'[i]
    BY <1>1, <1>2, <1>3 DEF IInv, Placed
  <2>2. Len(token') = 0 /\ text' = text /\ Pos >= 0
    BY <1>1, <1>2, <1>3
  <2>3. QED
    BY <2>1, <2>2, <1>2, <1>4 DEF Placed
<1>7. TagIsPrefix'
  BY <1>1, <1>2, <1>4, AwaitedProperties DEF TagIsPrefix
<1>8. TodoIsPlain'
  <2>1. \A i \in 2..Len(tag) : tag[i] # Lt
    <3> TAKE i \in 2..Len(tag)
    <3>1. i \in 1..Len(tag) /\ i \in 2..Len(Awaited)
      BY <1>3, AwaitedProperties DEF IInv, TagIsPrefix
    <3>2. QED
      BY <3>1, AwaitedProperties DEF IInv, TagIsPrefix
  <2>2. NoTagAhead'
    <3>1. Pos + Len(Awaited) > Len(text)
      BY <1>3, AwaitedProperties DEF IInv, TagIsPrefix
    <3>2. QED
      BY <3>1, <1>1, <1>4 DEF NoTagAhead
  <2>3. QED
    BY <2>1, <2>2, <1>1, <1>2 DEF TodoIsPlain
<1>9. ClosedInOrder'
  BY <1>1 DEF ClosedInOrder
<1>10. Strip!End
  <2>1. Flushed' = Flushed
    BY <1>1 DEF Flushed, Marked
  <2>2. QED
    BY <2>1, <1>1, <1>4 DEF Strip!End, Pos
<1>11. QED
  BY <1>5, <1>6, <1>7, <1>8, <1>9, <1>10 DEF IInv

LEMMA LastFlushStep ==
    ASSUME IInv, LastFlush
    PROVE  IInv' /\ Stutter
<1>1. /\ closing = "yes" /\ todo = <<>> /\ sent' = Flushed /\ out' = <<>> /\ closing' = "done"
      /\ UNCHANGED <<text, token, state, tag, outIsReasoning, todo>>
  BY DEF LastFlush
<1>2. Flushed' = Flushed
  <2>1. Flushed' = Flushed \o <<>>
    BY <1>1, MarkedNothing DEF Flushed, Marked, IInv, TypeOK
  <2>2. QED
    BY <2>1, FlushedType, ConcatEmptySeq DEF IInv
<1>3. TypeOK'
  <2>1. <<>> \in Seq(Char) /\ Len(<<>>) < OutCap - 1
    BY ThinkAssumption
  <2>2. sent' \in Seq([char: Char, reasoning: BOOLEAN])
    BY <1>1, FlushedType DEF IInv, Emitted
  <2>3. QED
    BY <2>1, <2>2, <1>1 DEF IInv, TypeOK
<1>4. Placed' /\ TagIsPrefix' /\ TodoIsPlain' /\ ClosedInOrder'
  BY <1>1 DEF IInv, Placed, Pos, TagIsPrefix, Awaited, InReasoning, TodoIsPlain, ClosedInOrder
<1>5. Stutter
  BY <1>1, <1>2 DEF Stutter, Pos, InReasoning
<1>6. QED
  BY <1>3, <1>4, <1>5 DEF IInv

(***************************************************************************)
(* The theorems                                                            *)
(***************************************************************************)

LEMMA Steps ==
    ASSUME IInv, [Next]_thinkVars
    PROVE  IInv' /\ [Strip!Next]_(Strip!vars)
<1> USE DEF Strip!Next
<1>1. CASE UNCHANGED thinkVars
  <2>1. UNCHANGED <<text, token, state, tag, out, outIsReasoning, todo, closing, sent>>
    BY <1>1 DEF thinkVars
  <2>2. IInv'
    BY <2>1 DEF IInv, TypeOK, Placed, Pos, TagIsPrefix, TodoIsPlain, NoTagAhead,
                ClosedInOrder, Awaited, InReasoning
  <2>3. Stutter
    BY <2>1 DEF Stutter, Pos, InReasoning, Flushed, Marked
  <2>4. QED
    BY <2>2, <2>3, StutterIsStep
<1>2. ASSUME NEW t \in Seq(Char), Feed(t) PROVE IInv' /\ Strip!Next
  BY <1>2, FeedStep
<1>3. CASE Plain
  BY <1>3, PlainStep
<1>4. CASE Bracket
  BY <1>4, BracketStep, StutterIsStep
<1>5. CASE TagGrows
  BY <1>5, TagGrowsStep, StutterIsStep
<1>6. CASE TagCompletes
  BY <1>6, TagCompletesStep
<1>7. CASE TagBreaks
  BY <1>7, TagBreaksStep, StutterIsStep
<1>8. CASE PushNext
  BY <1>8, PushNextStep
<1>9. CASE LastFlush
  BY <1>9, LastFlushStep, StutterIsStep
<1>10. CASE Finish
  BY <1>10, FinishStep
<1>11. QED
  BY <1>1, <1>2, <1>3, <1>4, <1>5, <1>6, <1>7, <1>8, <1>9, <1>10 DEF Next, Look

\* The parser's state is what its struct can hold: out has room for the
\* terminator flush_out adds, tag for the one the comparisons add.
THEOREM TypeCorrect == Spec => []TypeOK
<1>1. Init => IInv
  BY InitIInv
<1>2. IInv /\ [Next]_thinkVars => IInv'
  BY Steps
<1>3. IInv => TypeOK
  BY DEF IInv
<1>4. QED
  BY <1>1, <1>2, <1>3, PTL DEF Spec

\* think_parser_finish leaves nothing behind.
THEOREM NothingLeftBehind == Spec => []AllPassedOn
<1>1. Init => IInv
  BY InitIInv
<1>2. IInv /\ [Next]_thinkVars => IInv'
  BY Steps
<1>3. IInv => AllPassedOn
  <2>1. IInv /\ closing = "done" => token = <<>> /\ tag = <<>> /\ todo = <<>> /\ out = <<>>
    BY DEF IInv, ClosedInOrder
  <2>2. QED
    BY <2>1 DEF AllPassedOn
<1>4. QED
  BY <1>1, <1>2, <1>3, PTL DEF Spec

\* Streaming implements think_strip: whatever the tokens, every step of
\* think_parser_feed and think_parser_finish is a step of think_strip's loop
\* over the text so far, or leaves its state alone.
THEOREM StreamingStrips == Spec => StripsAsWhole
<1>1. Init => IInv
  BY InitIInv
<1>2. Init => Strip!Init
  <2> SUFFICES ASSUME Init PROVE Strip!Init
    OBVIOUS
  <2>1. Flushed = <<>>
    <3>1. Marked(out, outIsReasoning) = <<>>
      BY MarkedNothing DEF Init
    <3>2. QED
      BY <3>1 DEF Init, Flushed
  <2>2. InReasoning = FALSE /\ (closing # "no") = FALSE
    <3>1. ~InReasoning /\ ~(closing # "no") /\ InReasoning \in BOOLEAN
      BY DEF Init, InReasoning
    <3>2. QED
      BY <3>1, Zenon
  <2>3. Len(text) - Len(token) - Len(tag) - Len(todo) = 0
    <3>1. Len(text) = 0 /\ Len(token) = 0 /\ Len(tag) = 0 /\ Len(todo) = 0
      BY EmptySeq DEF Init
    <3>2. QED
      BY <3>1
  <2>4. QED
    BY <2>1, <2>2, <2>3, Zenon DEF Init, Strip!Init
<1>3. IInv /\ [Next]_thinkVars => IInv' /\ [Strip!Next]_(Strip!vars)
  BY Steps
<1>4. QED
  BY <1>1, <1>2, <1>3, PTL DEF Spec, StripsAsWhole, Strip!Spec

(***************************************************************************)
(* ToolCalls                                                               *)
(***************************************************************************)
LEMMA MinProperties ==
    ASSUME NEW S \in SUBSET Nat, S # {}
    PROVE  Min(S) \in S /\ \A j \in S : Min(S) <= j
BY LeastElement DEF Min

LEMMA TextProperties ==
    ASSUME ToolTypeOK
    PROVE  /\ Len(fullText) \in Nat /\ DOMAIN fullText = 1..Len(fullText)
           /\ p \in Nat /\ 1 <= p /\ p <= Len(fullText) + 1
           /\ Len(calls) \in Nat
BY LenProperties DEF ToolTypeOK

LEMMA OccursProperties ==
    ASSUME ToolTypeOK, NEW i \in Nat, 1 <= i, NEW S
    PROVE  /\ Occurs(i, S) \in SUBSET Nat
           /\ \A j \in Occurs(i, S) : i <= j /\ j <= Len(fullText) /\ fullText[j] \in S
BY TextProperties DEF Occurs

LEMMA FirstOccurrence ==
    ASSUME ToolTypeOK, NEW i \in Nat, 1 <= i, NEW S, Occurs(i, S) # {}
    PROVE  /\ Min(Occurs(i, S)) \in i..Len(fullText)
           /\ Min(Occurs(i, S)) \in Occurs(i, S)
<1> DEFINE T == Occurs(i, S)
<1>1. T \in SUBSET Nat /\ \A j \in T : i <= j /\ j <= Len(fullText)
  BY OccursProperties
<1>2. T # {}
  OBVIOUS
<1> HIDE DEF T
<1>3. Min(T) \in T
  BY <1>1, <1>2, MinProperties
<1>4. Min(T) \in i..Len(fullText)
  <2>1. Min(T) \in Nat /\ i <= Min(T) /\ Min(T) <= Len(fullText)
    BY <1>1, <1>3
  <2>2. QED
    BY <2>1, TextProperties
<1>5. QED
  BY <1>3, <1>4 DEF T

\* Where a block starts and ends
LEMMA BlockProperties ==
    ASSUME ToolTypeOK, HasBlock(p)
    PROVE  /\ Start(p) \in p..Len(fullText)
           /\ End(p) \in (Start(p) + 1)..Len(fullText)
<1>1. Occurs(p, {OpenTool, OpenFunc}) # {} /\ Closers(Start(p)) # {}
  BY DEF HasBlock
<1>2. Start(p) \in p..Len(fullText)
  BY <1>1, TextProperties, FirstOccurrence DEF Start
<1>3. Closers(Start(p)) \in SUBSET Nat
      /\ \A j \in Closers(Start(p)) : Start(p) + 1 <= j /\ j <= Len(fullText)
  BY <1>2, TextProperties, OccursProperties DEF Closers
<1>4. End(p) \in Closers(Start(p))
  BY <1>1, <1>3, MinProperties DEF End
<1>5. QED
  BY <1>2, <1>3, <1>4, TextProperties

\* The object that is looked at next: it starts at a brace, and if names come
\* first it does not end before the name
LEMMA CandidateProperties ==
    ASSUME ToolTypeOK, MoreNames, NEW b \in Candidate
    PROVE  /\ Min(Occurs(p, {Name})) \in p..Len(fullText)
           /\ b \in 1..Len(fullText)
           /\ Min(MatchEnds(b)) \in b..Len(fullText)
           /\ NamesFirst => Min(MatchEnds(b)) >= p
<1> DEFINE n == Min(Occurs(p, {Name}))
           e == Min(MatchEnds(b))
<1>1. n \in Occurs(p, {Name}) /\ n \in p..Len(fullText)
  BY TextProperties, FirstOccurrence DEF MoreNames
<1>2. b \in 1..n /\ fullText[b] = LBrace /\ \A j \in 1..n : fullText[j] = LBrace => j <= b
  BY <1>1 DEF Candidate, Braces
<1>3. MatchEnds(b) # {} /\ MatchEnds(b) \in SUBSET Nat
      /\ \A j \in MatchEnds(b) : j \in b..Len(fullText) /\ Depth(b, j) = 0
  BY <1>1, <1>2, TextProperties DEF Candidate, MatchEnds
<1>4. e \in MatchEnds(b)
  BY <1>3, MinProperties
<1>5. e \in b..Len(fullText) /\ Depth(b, e) = 0
  BY <1>3, <1>4
<1> HIDE DEF n, e
<1>6. ASSUME NamesFirst, e < p PROVE FALSE
  <2>1. e \in b..n /\ n \in Nat /\ e \in Nat /\ b \in Nat
    BY <1>1, <1>2, <1>5, <1>6, TextProperties
  <2>2. n \in Occurs(1, {Name})
    BY <1>1, TextProperties DEF Occurs
  <2>3. \A j \in b..n : fullText[j] # RBrace
    <3> SUFFICES ASSUME NEW j \in b..n, fullText[j] = RBrace PROVE FALSE
      OBVIOUS
    <3>1. PICK k \in j..n : fullText[k] = LBrace
      BY <1>2, <1>6, <2>1, <2>2 DEF NamesFirst
    <3>2. k <= b
      BY <1>2, <2>1, <3>1
    <3>3. j = b
      BY <2>1, <3>1, <3>2
    <3>4. LBrace # RBrace
      BY ToolAssumption
    <3>5. QED
      BY <1>2, <3>3, <3>4
  <2>4. {k \in b..e : fullText[k] = LBrace} = {b}
    BY <1>2, <2>1
  <2>5. {k \in b..e : fullText[k] = RBrace} = {}
    BY <2>1, <2>3
  <2>6. Cardinality({b}) = 1 /\ Cardinality({}) = 0
    BY FS_Singleton, FS_EmptySet
  <2>7. Depth(b, e) = 1
    <3>1. Depth(b, e) = Cardinality({b}) - Cardinality({})
      BY <2>4, <2>5 DEF Depth
    <3>2. QED
      BY <2>6, <3>1
  <2>8. QED
    BY <1>5, <2>7
<1>7. QED
  BY <1>1, <1>2, <1>5, <1>6, TextProperties DEF n, e

LEMMA AppendCall ==
    ASSUME ToolTypeOK, Len(calls) < MaxCalls, NEW i \in 1..Len(fullText)
    PROVE  Append(calls, i) \in Seq(1..Len(fullText)) /\ Len(Append(calls, i)) <= MaxCalls
<1>1. calls \in Seq(1..Len(fullText))
  BY DEF ToolTypeOK
<1>2. Append(calls, i) \in Seq(1..Len(fullText)) /\ Len(Append(calls, i)) = Len(calls) + 1
  BY <1>1, AppendProperties
<1>3. QED
  BY <1>2, TextProperties, ToolAssumption

LEMMA AppendRest ==
    ASSUME ToolTypeOK, NEW i \in 1..(Len(fullText) + 1), NEW j \in 0..Len(fullText)
    PROVE  rest \o SubSeq(fullText, i, j) \in Seq(Token)
<1>1. fullText \in Seq(Token) /\ rest \in Seq(Token)
  BY DEF ToolTypeOK
<1>2. SubSeq(fullText, i, j) \in Seq(Token)
  <2>1. CASE i <= j
    BY <1>1, <2>1, TextProperties, SubSeqProperties
  <2>2. CASE i > j
    <3>1. SubSeq(fullText, i, j) = << >>
      BY <2>2, TextProperties, SubSeqEmpty
    <3>2. QED
      BY <3>1, EmptySeq
  <2>3. QED
    BY <2>1, <2>2, TextProperties
<1>3. QED
  BY <1>1, <1>2, ConcatProperties

LEMMA ParseTypeOK ==
    ASSUME NEW t \in Seq(Token), TryParse(t)
    PROVE  ToolTypeOK'
<1>1. Len(t) \in Nat
  BY LenProperties
<1>2. << >> \in Seq(Token) /\ << >> \in Seq(1..Len(t)) /\ Len(<< >>) = 0
  BY EmptySeq, LenProperties
<1>3. 1 \in 1..(Len(t) + 1) /\ 0 <= MaxCalls
  BY <1>1, ToolAssumption
<1>4. QED
  BY <1>2, <1>3 DEF TryParse, ToolTypeOK

LEMMA ScanTypeOK ==
    ASSUME ToolTypeOK, Scan
    PROVE  ToolTypeOK'
<1> USE DEF ToolTypeOK
<1>1. CASE TakeBlock
  <2>1. HasBlock(p) /\ Len(calls) < MaxCalls
    BY <1>1 DEF TakeBlock, MoreBlocks
  <2>2. Start(p) \in 1..Len(fullText) /\ End(p) + 1 \in 1..(Len(fullText) + 1)
    BY <2>1, BlockProperties, TextProperties
  <2>3. calls' \in Seq(1..Len(fullText)) /\ Len(calls') <= MaxCalls
    BY <1>1, <2>1, <2>2, AppendCall DEF TakeBlock
  <2>4. QED
    BY <1>1, <2>2, <2>3 DEF TakeBlock
<1>2. CASE NoMoreBlocks
  BY <1>2, TextProperties DEF NoMoreBlocks
<1>3. CASE StripBlock
  <2>1. Start(p) - 1 \in 0..Len(fullText) /\ End(p) + 1 \in 1..(Len(fullText) + 1)
    BY <1>3, BlockProperties, TextProperties, SMTT(60) DEF StripBlock
  <2>2. rest' \in Seq(Token)
    BY <1>3, <2>1, AppendRest DEF StripBlock
  <2>3. QED
    BY <1>3, <2>1, <2>2 DEF StripBlock
<1>4. CASE StripRest
  <2>1. rest' \in Seq(Token)
    BY <1>4, AppendRest, TextProperties DEF StripRest
  <2>2. QED
    BY <1>4, <2>1 DEF StripRest
<1>5. CASE SkipName
  <2>1. Min(Occurs(p, {Name})) \in p..Len(fullText)
    BY <1>5, FirstOccurrence, TextProperties DEF SkipName, MoreNames
  <2>2. p' \in 1..(Len(fullText) + 1)
    BY <1>5, <2>1, TextProperties DEF SkipName
  <2>3. QED
    BY <1>5, <2>2 DEF SkipName
<1>6. CASE TakeObject
  <2>1. PICK b \in Candidate :
          /\ calls' = IF IsCall(b, Min(MatchEnds(b))) THEN Append(calls, b) ELSE calls
          /\ p' = Min(MatchEnds(b)) + 1
    BY <1>6 DEF TakeObject
  <2>2. MoreNames /\ Len(calls) < MaxCalls
    BY <1>6 DEF TakeObject, MoreNames
  <2>3. b \in 1..Len(fullText) /\ Min(MatchEnds(b)) \in b..Len(fullText)
    BY <2>2, CandidateProperties
  <2>4. p' \in 1..(Len(fullText) + 1)
    BY <2>1, <2>3, TextProperties
  <2>5. calls' \in Seq(1..Len(fullText)) /\ Len(calls') <= MaxCalls
    BY <2>1, <2>2, <2>3, AppendCall
  <2>6. QED
    BY <1>6, <2>4, <2>5 DEF TakeObject
<1>7. CASE NoMoreNames
  <2>1. << >> \in Seq(Token)
    BY EmptySeq
  <2>2. QED
    BY <1>7, <2>1 DEF NoMoreNames
<1>8. QED
  BY <1>1, <1>2, <1>3, <1>4, <1>5, <1>6, <1>7 DEF Scan, Turn

LEMMA ToolStep == ToolTypeOK /\ [ToolNext]_toolVars => ToolTypeOK'
<1> SUFFICES ASSUME ToolTypeOK, [ToolNext]_toolVars PROVE ToolTypeOK'
  OBVIOUS
<1>1. CASE Scan
  BY <1>1, ScanTypeOK
<1>2. CASE \E t \in Answer : TryParse(t)
  BY <1>2, ParseTypeOK, ToolAssumption
<1>3. CASE UNCHANGED toolVars
  BY <1>3 DEF toolVars, ToolTypeOK
<1>4. QED
  BY <1>1, <1>2, <1>3 DEF ToolNext

LEMMA ToolInitTypeOK == ToolInit => ToolTypeOK
<1> SUFFICES ASSUME ToolInit PROVE ToolTypeOK
  OBVIOUS
<1>1. Len(fullText) = 0 /\ Len(calls) = 0 /\ fullText \in Seq(Token) /\ rest \in Seq(Token)
      /\ calls \in Seq(1..Len(fullText))
  BY EmptySeq, LenProperties DEF ToolInit
<1>2. p \in 1..(Len(fullText) + 1) /\ Len(calls) <= MaxCalls
  BY <1>1, ToolAssumption DEF ToolInit
<1>3. QED
  BY <1>1, <1>2 DEF ToolInit, ToolTypeOK

\* The variables keep their types, whatever the answers
THEOREM ToolTypeCorrect == ToolSpec => []ToolTypeOK
<1>1. QED
  BY ToolInitTypeOK, ToolStep, PTL DEF ToolSpec

LEMMA TurnForward ==
    ASSUME ToolTypeOK, Turn, scan = "loose" => NamesFirst
    PROVE  p' > p
<1>1. CASE TakeBlock
  <2>1. HasBlock(p) /\ p' = End(p) + 1
    BY <1>1 DEF TakeBlock, MoreBlocks
  <2>2. QED
    BY <2>1, BlockProperties, TextProperties
<1>2. CASE StripBlock
  <2>1. HasBlock(p) /\ p' = End(p) + 1
    BY <1>2 DEF StripBlock
  <2>2. QED
    BY <2>1, BlockProperties, TextProperties
<1>3. CASE SkipName
  <2>1. Occurs(p, {Name}) # {} /\ p' = Min(Occurs(p, {Name})) + 1
    BY <1>3 DEF SkipName, MoreNames
  <2>2. Min(Occurs(p, {Name})) \in p..Len(fullText)
    BY <2>1, FirstOccurrence, TextProperties
  <2>3. QED
    BY <2>1, <2>2, TextProperties
<1>4. CASE TakeObject
  <2>1. PICK b \in Candidate : p' = Min(MatchEnds(b)) + 1
    BY <1>4 DEF TakeObject
  <2>2. MoreNames /\ NamesFirst
    BY <1>4 DEF TakeObject
  <2>3. Min(MatchEnds(b)) >= p /\ Min(MatchEnds(b)) \in b..Len(fullText)
    BY <2>2, CandidateProperties
  <2>4. b \in 1..Len(fullText)
    BY <2>2, CandidateProperties
  <2>5. QED
    BY <2>1, <2>3, <2>4, TextProperties
<1>5. QED
  BY <1>1, <1>2, <1>3, <1>4 DEF Turn

\* Whatever the answers, every turn of the loops over blocks goes on behind
\* what it has looked at, and so does every turn of the search for objects in
\* texts whose names come first
THEOREM TurnsAdvance == ToolSpec => ScanAdvances
<1>1. ToolTypeOK /\ [ToolNext]_toolVars
        => [Turn /\ (scan = "loose" => NamesFirst) => p' > p]_toolVars
  BY TurnForward
<1>2. QED
  BY <1>1, ToolTypeCorrect, PTL DEF ToolSpec, ScanAdvances

(***************************************************************************)
(* StreamParser and ChatStream: the parts of an answer b of which a        *)
(* characters have arrived, and o whether the transfer is over             *)
(***************************************************************************)
Mark == {Data, Close, Newline}
Wired == Char \cup Token \cup Mark

LineStart(b, i) ==
    IF \E j \in 1..(i - 1) : b[j] = Newline
      THEN CHOOSE j \in 1..(i - 1) :
             b[j] = Newline /\ \A k \in (j + 1)..(i - 1) : b[k] # Newline
      ELSE 0

LineEnd(b, a, i) ==
    IF \E j \in (i + 1)..a : b[j] = Newline
      THEN CHOOSE j \in (i + 1)..a :
             b[j] = Newline /\ \A k \in (i + 1)..(j - 1) : b[k] # Newline
      ELSE a + 1

Whole(b, a, o, i) ==
    /\ b[i] \notin Mark
    /\ b[LineStart(b, i) + 1] = Data /\ b[LineEnd(b, a, i) - 1] = Close
    /\ LineEnd(b, a, i) <= a \/ o

Parts(b, a, o) == [i \in 1..a |-> IF Whole(b, a, o, i) THEN <<b[i]>> ELSE <<>>]

LEMMA PartsType ==
    ASSUME NEW b \in Seq(Wired), NEW a \in 0..Len(b), NEW o
    PROVE  Parts(b, a, o) \in Seq(Seq(Wired)) /\ Len(Parts(b, a, o)) = a
<1>1. \A i \in 1..a : b[i] \in Wired
  OBVIOUS
<1>2. \A i \in 1..a : (IF Whole(b, a, o, i) THEN <<b[i]>> ELSE <<>>) \in Seq(Wired)
  BY <1>1
<1>3. QED
  BY <1>2 DEF Parts

LEMMA LineStartIs ==
    ASSUME NEW b \in Seq(Wired), NEW i \in Nat, NEW s \in 0..(i - 1),
           s = 0 \/ b[s] = Newline, \A k \in (s + 1)..(i - 1) : b[k] # Newline
    PROVE  LineStart(b, i) = s
<1> DEFINE Is(j) == b[j] = Newline /\ \A k \in (j + 1)..(i - 1) : b[k] # Newline
<1>1. CASE s = 0
  BY <1>1 DEF LineStart
<1>2. CASE s # 0
  <2>1. s \in 1..(i - 1) /\ Is(s) /\ \E j \in 1..(i - 1) : b[j] = Newline
    BY <1>2
  <2>2. \A j \in 1..(i - 1) : Is(j) => j = s
    <3> SUFFICES ASSUME NEW j \in 1..(i - 1), Is(j) PROVE j = s
      OBVIOUS
    <3>1. ~(j < s) /\ ~(s < j)
      BY <2>1
    <3>2. QED
      BY <3>1
  <2>3. LineStart(b, i) = CHOOSE j \in 1..(i - 1) : Is(j)
    BY <2>1 DEF LineStart
  <2> HIDE DEF Is
  <2>4. QED
    BY <2>1, <2>2, <2>3
<1>3. QED
  BY <1>1, <1>2

LEMMA LineEndIs ==
    ASSUME NEW b \in Seq(Wired), NEW a \in Nat, NEW i \in Nat, NEW e \in (i + 1)..a,
           b[e] = Newline, \A k \in (i + 1)..(e - 1) : b[k] # Newline
    PROVE  LineEnd(b, a, i) = e
<1> DEFINE Is(j) == b[j] = Newline /\ \A k \in (i + 1)..(j - 1) : b[k] # Newline
<1>1. Is(e) /\ \E j \in (i + 1)..a : b[j] = Newline
  OBVIOUS
<1>2. \A j \in (i + 1)..a : Is(j) => j = e
  <2> SUFFICES ASSUME NEW j \in (i + 1)..a, Is(j) PROVE j = e
    OBVIOUS
  <2>1. ~(j < e) /\ ~(e < j)
    BY <1>1
  <2>2. QED
    BY <2>1
<1>3. LineEnd(b, a, i) = CHOOSE j \in (i + 1)..a : Is(j)
  BY <1>1 DEF LineEnd
<1> HIDE DEF Is
<1>4. QED
  BY <1>1, <1>2, <1>3

LEMMA LineEndNone ==
    ASSUME NEW b, NEW a, NEW i, \A k \in (i + 1)..a : b[k] # Newline
    PROVE  LineEnd(b, a, i) = a + 1
BY DEF LineEnd

\* A line that has arrived with its newline stays as it is
LEMMA PartStays ==
    ASSUME NEW b \in Seq(Wired), NEW r \in 1..Len(b), b[r] = Newline, NEW i \in 1..r,
           NEW a \in r..Len(b), NEW o, NEW a2 \in r..Len(b), NEW o2
    PROVE  Whole(b, a, o, i) <=> Whole(b, a2, o2, i)
<1>1. CASE b[i] = Newline
  BY <1>1 DEF Whole, Mark
<1>2. CASE b[i] # Newline
  <2> DEFINE T == {j \in (i + 1)..r : b[j] = Newline}
  <2>1. r \in T /\ T \in SUBSET Nat
    BY <1>2
  <2>2. PICK e \in T : \A j \in T : e <= j
    <3> HIDE DEF T
    <3>1. QED
      BY <2>1, LeastElement
  <2>3. e \in (i + 1)..r /\ b[e] = Newline
    BY <2>2
  <2>4. \A k \in (i + 1)..(e - 1) : b[k] # Newline
    BY <2>2, <2>3
  <2>5. e \in (i + 1)..a /\ e \in (i + 1)..a2 /\ i \in Nat /\ a \in Nat /\ a2 \in Nat
    BY <2>3
  <2>6. LineEnd(b, a, i) = e /\ LineEnd(b, a2, i) = e
    BY <2>3, <2>4, <2>5, LineEndIs
  <2>7. e <= a /\ e <= a2
    BY <2>5
  <2>8. QED
    BY <2>6, <2>7 DEF Whole
<1>3. QED
  BY <1>1, <1>2

LEMMA PartsStay ==
    ASSUME NEW b \in Seq(Wired), NEW r \in 0..Len(b), r = 0 \/ b[r] = Newline,
           NEW a \in r..Len(b), NEW o, NEW a2 \in r..Len(b), NEW o2
    PROVE  Upto(Parts(b, a, o), r) = Upto(Parts(b, a2, o2), r)
<1>1. \A i \in 1..r : Whole(b, a, o, i) <=> Whole(b, a2, o2, i)
  <2> SUFFICES ASSUME NEW i \in 1..r PROVE Whole(b, a, o, i) <=> Whole(b, a2, o2, i)
    OBVIOUS
  <2>1. r \in 1..Len(b) /\ b[r] = Newline
    OBVIOUS
  <2>2. QED
    BY <2>1, PartStays
<1>2. \A i \in 1..r : Parts(b, a, o)[i] = Parts(b, a2, o2)[i]
  BY <1>1 DEF Parts
<1>3. QED
  BY <1>2 DEF Upto

\* The characters between r and e are a line
LineIs(b, a, r, e) ==
    /\ r \in 0..a /\ e \in (r + 1)..(a + 1)
    /\ r = 0 \/ b[r] = Newline
    /\ e = a + 1 \/ b[e] = Newline
    /\ \A k \in (r + 1)..(e - 1) : b[k] # Newline

LEMMA LineParts ==
    ASSUME NEW b \in Seq(Wired), NEW a \in 0..Len(b), NEW o, NEW r, NEW e,
           LineIs(b, a, r, e), NEW i \in (r + 1)..(e - 1)
    PROVE  Whole(b, a, o, i) <=> /\ b[i] \notin Mark /\ b[r + 1] = Data /\ b[e - 1] = Close
                                 /\ e <= a \/ o
<1>1. /\ r \in 0..a /\ e \in (r + 1)..(a + 1) /\ i \in Nat /\ r \in 0..(i - 1) /\ a \in Nat
      /\ r = 0 \/ b[r] = Newline
      /\ e = a + 1 \/ b[e] = Newline
      /\ \A k \in (r + 1)..(e - 1) : b[k] # Newline
  BY DEF LineIs
<1>2. LineStart(b, i) = r
  <2>1. \A k \in (r + 1)..(i - 1) : b[k] # Newline
    BY <1>1
  <2>2. QED
    BY <1>1, <2>1, LineStartIs
<1>3. \A k \in (i + 1)..(e - 1) : b[k] # Newline
  BY <1>1
<1>4. LineEnd(b, a, i) = e
  <2>1. CASE e = a + 1
    <3>1. \A k \in (i + 1)..a : b[k] # Newline
      BY <1>1, <1>3, <2>1
    <3>2. QED
      BY <2>1, <3>1, LineEndNone
  <2>2. CASE e # a + 1
    <3>1. e \in (i + 1)..a /\ b[e] = Newline
      BY <1>1, <2>2
    <3>2. QED
      BY <1>1, <1>3, <3>1, LineEndIs
  <2>3. QED
    BY <2>1, <2>2
<1>5. QED
  BY <1>2, <1>4 DEF Whole

LEMMA WireProperties ==
    ASSUME NEW S \in {Char, Token}, NEW b \in WireOf(S)
    PROVE  /\ b \in Seq(Wired) /\ Len(b) \in Nat
           /\ \A i \in 1..Len(b) : b[i] \in S \cup Mark
           /\ S \cap Mark = {}
           /\ \A i, j \in 1..Len(b) :
                b[i] = Data /\ b[j] = Close /\ (\A k \in i..j : b[k] # Newline) =>
                    \A k \in (i + 1)..(j - 1) : b[k] \in S
<1>1. b \in Seq(S \cup Mark) /\ Len(b) \in Nat /\ DOMAIN b = 1..Len(b)
  BY DEF WireOf, Mark
<1>2. b \in Seq(Wired)
  <2>1. \A i \in 1..Len(b) : b[i] \in Wired
    BY <1>1 DEF Wired
  <2>2. QED
    BY <1>1, <2>1
<1>3. S \cap Mark = {}
  BY WireAssumption DEF Mark
<1>4. ASSUME NEW i \in 1..Len(b), NEW j \in 1..Len(b), b[i] = Data, b[j] = Close,
             \A k \in i..j : b[k] # Newline,
             NEW k \in (i + 1)..(j - 1)
      PROVE  b[k] \in S
  <2>1. j \in (i + 1)..Len(b)
    BY <1>4
  <2>2. QED
    BY <1>1, <1>4, <2>1 DEF WireOf
<1>5. QED
  BY <1>1, <1>2, <1>3, <1>4

\* What has arrived of the text grows by what process_line finds in a line
LEMMA LineText ==
    ASSUME NEW S \in {Char, Token}, NEW b \in WireOf(S), NEW a \in 0..Len(b), NEW o,
           NEW r, NEW e, LineIs(b, a, r, e), e <= a \/ o
    PROVE  /\ TextOf(SubSeq(b, r + 1, e - 1)) \in Seq(S)
           /\ FlattenSeq(Upto(Parts(b, a, o), e - 1)) =
                FlattenSeq(Upto(Parts(b, a, o), r)) \o TextOf(SubSeq(b, r + 1, e - 1))
<1> DEFINE P == Parts(b, a, o)
           line == SubSeq(b, r + 1, e - 1)
           n == e - 1 - r
           t == TextOf(line)
<1>1. /\ b \in Seq(Wired) /\ Len(b) \in Nat
      /\ \A i \in 1..Len(b) : b[i] \in S \cup Mark
      /\ S \cap Mark = {}
  BY WireProperties
<1>2. /\ r \in Nat /\ e \in Nat /\ n \in Nat /\ r \in 0..a /\ e \in (r + 1)..(a + 1) /\ a <= Len(b)
      /\ \A k \in (r + 1)..(e - 1) : b[k] # Newline
  BY <1>1 DEF LineIs
<1>3. P \in Seq(Seq(Wired)) /\ Len(P) = a
  BY <1>1, PartsType
<1>4. line \in Seq(Wired) /\ Len(line) = n /\ \A i \in 1..n : line[i] = b[r + i]
  <2>1. CASE n = 0
    <3>1. line = <<>>
      BY <1>2, <2>1
    <3> HIDE DEF line, n
    <3>2. QED
      BY <2>1, <3>1
  <2>2. CASE n # 0
    BY <1>1, <1>2, <2>2
  <2>3. QED
    BY <2>1, <2>2
<1>5. \A i \in (r + 1)..(e - 1) : P[i] = IF b[i] \notin Mark /\ b[r + 1] = Data /\ b[e - 1] = Close
                                           THEN <<b[i]>> ELSE <<>>
  <2> TAKE i \in (r + 1)..(e - 1)
  <2>1. Whole(b, a, o, i) <=> b[i] \notin Mark /\ b[r + 1] = Data /\ b[e - 1] = Close
    <3>1. Whole(b, a, o, i) <=> /\ b[i] \notin Mark /\ b[r + 1] = Data /\ b[e - 1] = Close
                                /\ e <= a \/ o
      BY <1>1, LineParts
    <3>2. QED
      BY <3>1, Zenon
  <2>2. i \in 1..a
    BY <1>2
  <2>3. QED
    BY <2>1, <2>2 DEF Parts
<1>6. FlattenSeq(Upto(P, r)) \in Seq(Wired)
  <2>1. r \in 0..Len(P)
    BY <1>2, <1>3
  <2> HIDE DEF P
  <2>2. QED
    BY <1>3, <2>1, FlattenType
<1>7. CASE n > 2 /\ line[1] = Data /\ line[n] = Close
  <2>1. b[r + 1] = Data /\ b[e - 1] = Close /\ t = SubSeq(line, 2, n - 1)
    <3>1. 1 \in 1..n /\ n \in 1..n /\ r + n = e - 1
      BY <1>2, <1>7
    <3>2. line[1] = b[r + 1] /\ line[n] = b[r + n]
      BY <1>4, <3>1
    <3> HIDE DEF n, line
    <3>3. QED
      BY <1>4, <1>7, <3>1, <3>2 DEF TextOf
  <2>2. \A k \in (r + 2)..(e - 2) : b[k] \in S
    <3>1. r + 1 \in 1..Len(b) /\ e - 1 \in 1..Len(b)
      BY <1>2, <1>7
    <3>2. \A k \in ((r + 1) + 1)..((e - 1) - 1) : b[k] \in S
      <4>1. PICK i \in 1..Len(b) : i = r + 1
        BY <3>1
      <4>2. PICK j \in 1..Len(b) : j = e - 1
        BY <3>1
      <4>3. \A k \in i..j : b[k] # Newline
        BY <1>2, <4>1, <4>2
      <4>4. \A k \in (i + 1)..(j - 1) : b[k] \in S
        BY <2>1, <4>1, <4>2, <4>3, WireProperties
      <4>5. QED
        BY <4>1, <4>2, <4>4
    <3>3. QED
      BY <1>2, <3>2
  <2>3. t \in Seq(S) /\ Len(t) = n - 2 /\ \A i \in 1..(n - 2) : t[i] = b[r + 1 + i]
    <3>1. \A i \in 2..(n - 1) : line[i] \in S
      BY <1>2, <1>4, <2>2
    <3> HIDE DEF n, line
    <3>2. t = [i \in 1..(n - 2) |-> line[i + 1]]
      <4> HIDE DEF t
      <4>1. QED
        BY <1>2, <1>4, <1>7, <2>1
    <3> HIDE DEF t
    <3>3. \A i \in 1..(n - 2) : line[i + 1] \in S /\ line[i + 1] = b[r + 1 + i]
      BY <1>2, <1>4, <1>7, <3>1
    <3>4. QED
      BY <1>2, <1>7, <3>2, <3>3, SMTT(60)
  <2>4. P[r + 1] = <<>> /\ P[e - 1] = <<>>
    <3>1. r + 1 \in (r + 1)..(e - 1) /\ e - 1 \in (r + 1)..(e - 1)
      BY <1>2, <1>7
    <3>2. b[r + 1] \in Mark /\ b[e - 1] \in Mark
      BY <2>1 DEF Mark
    <3> HIDE DEF P, n, line
    <3>3. QED
      BY <1>5, <3>1, <3>2
  <2>5. \A i \in 1..Len(t) : P[(r + 1) + i] = <<t[i]>>
    <3> SUFFICES ASSUME NEW i \in 1..(n - 2) PROVE P[(r + 1) + i] = <<t[i]>>
      BY <2>3
    <3>1. PICK k \in (r + 2)..(e - 2) : k = r + 1 + i
      BY <1>2, <1>7
    <3>2. b[k] \in S /\ b[k] \notin Mark /\ k \in (r + 1)..(e - 1)
      BY <1>1, <1>2, <2>2
    <3>3. P[k] = <<b[k]>>
      <4> HIDE DEF P, n, line, t
      <4>1. QED
        BY <1>5, <2>1, <3>2
    <3>4. t[i] = b[k]
      BY <2>3, <3>1
    <3> HIDE DEF P, n, line, t
    <3>5. QED
      BY <1>2, <3>1, <3>3, <3>4
  <2>6. t \in Seq(Wired)
    <3>1. S \subseteq Wired
      BY DEF Wired
    <3>2. QED
      BY <2>3, <3>1
  <2>7. FlattenSeq(Upto(P, r + 1)) = FlattenSeq(Upto(P, r))
    <3>1. r + 1 \in r..Len(P) /\ \A i \in (r + 1)..(r + 1) : P[i] = <<>>
      BY <1>2, <1>3, <1>7, <2>4
    <3> HIDE DEF P
    <3>2. QED
      BY <1>2, <1>3, <3>1, FlattenSkip
  <2>8. FlattenSeq(Upto(P, r + 1 + Len(t))) = FlattenSeq(Upto(P, r + 1)) \o t
    <3>1. r + 1 \in Nat /\ (r + 1) + Len(t) <= Len(P)
      BY <1>2, <1>3, <1>7, <2>3
    <3> HIDE DEF P, t
    <3>2. QED
      BY <1>3, <2>5, <2>6, <3>1, FlattenSegment
  <2>9. FlattenSeq(Upto(P, e - 1)) = FlattenSeq(Upto(P, e - 2))
    <3>1. e - 2 \in Nat /\ e - 1 \in (e - 2)..Len(P) /\ \A i \in ((e - 2) + 1)..(e - 1) : P[i] = <<>>
      BY <1>2, <1>3, <1>7, <2>4
    <3> HIDE DEF P
    <3>2. QED
      BY <1>2, <1>3, <3>1, FlattenSkip
  <2> HIDE DEF P, t
  <2>10. r + 1 + Len(t) = e - 2
    BY <1>2, <1>7, <2>3, SMTT(60)
  <2>11. FlattenSeq(Upto(P, e - 1)) = FlattenSeq(Upto(P, r)) \o t
    BY <2>7, <2>8, <2>9, <2>10
  <2>12. QED
    BY <2>3, <2>11 DEF P, t
<1>8. CASE ~(n > 2 /\ line[1] = Data /\ line[n] = Close)
  <2>1. t = <<>>
    <3> HIDE DEF n, line
    <3>1. QED
      BY <1>4, <1>8 DEF TextOf
  <2>2. \A i \in (r + 1)..(e - 1) : P[i] = <<>>
    <3> SUFFICES ASSUME NEW i \in (r + 1)..(e - 1),
                        b[i] \notin Mark, b[r + 1] = Data, b[e - 1] = Close
                 PROVE  FALSE
      BY <1>5
    <3>1. i # r + 1 /\ i # e - 1
      BY DEF Mark
    <3>2. n > 2
      BY <1>2, <3>1
    <3>3. line[1] = Data /\ line[n] = Close
      <4>1. 1 \in 1..n /\ n \in 1..n /\ r + n = e - 1
        BY <1>2, <3>2
      <4> HIDE DEF n, line
      <4>2. QED
        BY <1>4, <4>1
    <3>4. QED
      BY <1>8, <3>2, <3>3
  <2>3. FlattenSeq(Upto(P, e - 1)) = FlattenSeq(Upto(P, r))
    <3>1. r \in Nat /\ e - 1 \in r..Len(P)
      BY <1>2, <1>3
    <3> HIDE DEF P
    <3>2. QED
      BY <1>3, <2>2, <3>1, FlattenSkip
  <2>4. FlattenSeq(Upto(P, r)) \o <<>> = FlattenSeq(Upto(P, r))
    <3> HIDE DEF P
    <3>1. QED
      BY <1>6
  <2>5. <<>> \in Seq(S)
    OBVIOUS
  <2> HIDE DEF P, t
  <2>6. FlattenSeq(Upto(P, e - 1)) = FlattenSeq(Upto(P, r)) \o t
    BY <2>1, <2>3, <2>4
  <2>7. QED
    BY <2>1, <2>5, <2>6 DEF P, t
<1>9. QED
  BY <1>7, <1>8

\* A line that goes on holds nothing yet
LEMMA OpenLine ==
    ASSUME NEW b \in Seq(Wired), NEW a \in 0..Len(b), NEW r, LineIs(b, a, r, a + 1)
    PROVE  FlattenSeq(Upto(Parts(b, a, FALSE), a)) = FlattenSeq(Upto(Parts(b, a, FALSE), r))
<1> DEFINE P == Parts(b, a, FALSE)
<1>1. P \in Seq(Seq(Wired)) /\ Len(P) = a /\ r \in Nat /\ a \in r..Len(P)
  <2>1. P \in Seq(Seq(Wired)) /\ Len(P) = a
    BY PartsType
  <2> HIDE DEF P
  <2>2. QED
    BY <2>1 DEF LineIs
<1>2. \A i \in (r + 1)..a : P[i] = <<>>
  <2> TAKE i \in (r + 1)..a
  <2>1. a \in Nat /\ i \in (r + 1)..((a + 1) - 1) /\ i \in 1..a
    BY <1>1
  <2>2. ~(a + 1 <= a)
    BY <2>1
  <2>3. ~Whole(b, a, FALSE, i)
    BY <2>1, <2>2, LineParts
  <2>4. QED
    BY <2>1, <2>3 DEF Parts
<1> HIDE DEF P
<1>3. FlattenSeq(Upto(P, a)) = FlattenSeq(Upto(P, r))
  BY <1>1, <1>2, FlattenSkip
<1>4. QED
  BY <1>3 DEF P

(***************************************************************************)
(* The wire: what of the answer has been read and fed on                   *)
(***************************************************************************)
Alphabet == IF api = "tools" THEN Token ELSE Char

\* Who reads the answer, and how far the lines have been taken
Fed == IF api = "chat" THEN text ELSE accum
Reached == IF over THEN arrived ELSE arrived - Len(buffer)

WireInv ==
    /\ api \in {"chat", "text", "tools"} /\ over \in BOOLEAN
    /\ body \in WireOf(Alphabet) /\ arrived \in 0..Len(body)
    /\ buffer \in Seq(Wired) /\ Len(buffer) <= arrived
    /\ over => buffer = <<>>
    /\ \A i \in 1..Len(buffer) : buffer[i] = body[Reached + i]
    /\ over \/ Reached = 0 \/ body[Reached] = Newline
    /\ Fed \in Seq(Alphabet)
    /\ Fed = FlattenSeq(Upto(Parts(body, arrived, over), Reached))

LEMMA WireFacts ==
    ASSUME WireInv
    PROVE  /\ Alphabet \in {Char, Token} /\ body \in Seq(Wired) /\ Len(body) \in Nat
           /\ arrived \in Nat /\ arrived <= Len(body) /\ Len(buffer) \in Nat
           /\ Reached \in 0..arrived
           /\ ~over => Reached + Len(buffer) = arrived
           /\ over => Reached = arrived
<1>1. Alphabet \in {Char, Token} /\ body \in WireOf(Alphabet)
  BY DEF WireInv, Alphabet
<1>2. body \in Seq(Wired) /\ Len(body) \in Nat
  BY <1>1, WireProperties
<1>3. arrived \in 0..Len(body) /\ buffer \in Seq(Wired) /\ Len(buffer) <= arrived
  BY DEF WireInv
<1>4. QED
  BY <1>1, <1>2, <1>3 DEF Reached

LEMMA WireStays ==
    ASSUME WireInv, UNCHANGED <<api, streamVars, body, arrived>>, Fed' = Fed
    PROVE  WireInv'
<1>1. Alphabet' = Alphabet /\ Reached' = Reached /\ over' = over
      /\ buffer' = buffer /\ body' = body /\ arrived' = arrived /\ api' = api
  BY DEF streamVars, Alphabet, Reached
<1>2. QED
  BY <1>1 DEF WireInv

LEMMA ChunkWire ==
    ASSUME WireInv, NEW n \in 1..(Len(body) - arrived),
           FeedChunk(SubSeq(body, arrived + 1, arrived + n)), arrived' = arrived + n,
           UNCHANGED <<api, body>>, Fed' = Fed
    PROVE  WireInv'
<1> DEFINE c == SubSeq(body, arrived + 1, arrived + n)
<1>1. ~over /\ ~over' /\ over' = over /\ buffer' = buffer \o c /\ api' = api /\ body' = body
      /\ Alphabet' = Alphabet
  BY DEF FeedChunk, Alphabet
<1>2. c \in Seq(Wired) /\ Len(c) = n /\ \A i \in 1..n : c[i] = body[arrived + i]
  <2>1. /\ body \in Seq(Wired) /\ arrived \in Nat /\ n \in Nat \ {0}
        /\ arrived + n <= Len(body) /\ Len(body) \in Nat
    BY WireFacts
  <2>2. QED
    BY ONLY <2>1
<1> HIDE DEF c
<1>3. /\ buffer \in Seq(Wired) /\ Len(buffer) \in Nat
      /\ buffer' \in Seq(Wired) /\ Len(buffer') = Len(buffer) + n
      /\ \A i \in 1..Len(buffer) : buffer'[i] = buffer[i]
      /\ \A i \in 1..n : buffer'[Len(buffer) + i] = c[i]
  <2>1. buffer \in Seq(Wired) /\ Len(buffer) \in Nat
    BY WireFacts DEF WireInv
  <2>2. n \in Nat
    BY WireFacts
  <2>3. /\ buffer \o c \in Seq(Wired) /\ Len(buffer \o c) = Len(buffer) + n
        /\ \A i \in 1..(Len(buffer) + n) :
             (buffer \o c)[i] = IF i <= Len(buffer) THEN buffer[i] ELSE c[i - Len(buffer)]
    BY <1>2, <2>1, <2>2, ConcatProperties
  <2>4. QED
    BY <1>1, <2>1, <2>2, <2>3
<1>4. /\ arrived' \in 0..Len(body) /\ arrived' \in Nat /\ Len(buffer') <= arrived'
      /\ Reached' = Reached /\ Reached \in 0..arrived /\ Reached + Len(buffer) = arrived
  <2>1. Reached' = arrived' - Len(buffer') /\ Reached = arrived - Len(buffer)
    BY <1>1 DEF Reached
  <2>2. QED
    BY <1>1, <1>3, <2>1, WireFacts DEF WireInv
<1>5. \A i \in 1..Len(buffer') : buffer'[i] = body[Reached + i]
  <2> TAKE i \in 1..Len(buffer')
  <2>1. CASE i \in 1..Len(buffer)
    BY <1>3, <2>1 DEF WireInv
  <2>2. CASE i \notin 1..Len(buffer)
    <3>0. i \in Nat /\ i > Len(buffer) /\ i <= Len(buffer) + n /\ n \in Nat
      BY <1>3, <2>2, WireFacts
    <3>1. PICK j \in 1..n : i = Len(buffer) + j
      <4>1. i - Len(buffer) \in 1..n /\ i = Len(buffer) + (i - Len(buffer))
        BY <1>3, <3>0
      <4>2. QED
        BY <4>1
    <3>2. Reached + i = arrived + j
      BY <1>3, <1>4, <3>1
    <3>3. QED
      BY <1>2, <1>3, <3>1, <3>2
  <2>3. QED
    BY <2>1, <2>2
<1>6. Upto(Parts(body, arrived, over), Reached) = Upto(Parts(body, arrived', over'), Reached)
  <2>1. Reached \in 0..Len(body) /\ (Reached = 0 \/ body[Reached] = Newline)
        /\ arrived \in Reached..Len(body) /\ arrived' \in Reached..Len(body)
    BY <1>1, <1>4, WireFacts DEF WireInv
  <2>2. QED
    BY <2>1, WireFacts, PartsStay
<1>7. QED
  BY <1>1, <1>3, <1>4, <1>5, <1>6 DEF WireInv

\* The line that ends before e is taken
LEMMA LineTaken ==
    ASSUME WireInv, ~over, NEW e \in (Reached + 1)..(arrived + 1),
           LineIs(body, arrived, Reached, e), NEW o \in BOOLEAN, e <= arrived \/ o,
           NEW f \in {e - 1, e}, f <= arrived, f = e => e <= arrived
    PROVE  /\ TextOf(SubSeq(body, Reached + 1, e - 1)) \in Seq(Alphabet)
           /\ FlattenSeq(Upto(Parts(body, arrived, o), f)) =
                Fed \o TextOf(SubSeq(body, Reached + 1, e - 1))
<1> DEFINE P == Parts(body, arrived, o)
           t == TextOf(SubSeq(body, Reached + 1, e - 1))
<1>1. arrived \in 0..Len(body) /\ body \in WireOf(Alphabet) /\ Alphabet \in {Char, Token}
  BY WireFacts DEF WireInv
<1>2. t \in Seq(Alphabet) /\ FlattenSeq(Upto(P, e - 1)) = FlattenSeq(Upto(P, Reached)) \o t
  <2>1. PICK S \in {Char, Token} : S = Alphabet
    BY <1>1
  <2>2. PICK r : r = Reached
    OBVIOUS
  <2>3. body \in WireOf(S) /\ LineIs(body, arrived, r, e)
    BY <1>1, <2>1, <2>2
  <2>4. /\ TextOf(SubSeq(body, r + 1, e - 1)) \in Seq(S)
        /\ FlattenSeq(Upto(Parts(body, arrived, o), e - 1)) =
             FlattenSeq(Upto(Parts(body, arrived, o), r)) \o TextOf(SubSeq(body, r + 1, e - 1))
    BY <1>1, <2>3, LineText, SMTT(60)
  <2>5. QED
    BY <2>1, <2>2, <2>4
<1>3. Upto(Parts(body, arrived, over), Reached) = Upto(P, Reached)
  <2>1. Reached \in 0..Len(body) /\ (Reached = 0 \/ body[Reached] = Newline)
        /\ arrived \in Reached..Len(body)
    BY WireFacts DEF WireInv
  <2>2. QED
    BY <2>1, WireFacts, PartsStay
<1>4. FlattenSeq(Upto(P, Reached)) = Fed
  <2> HIDE DEF P
  <2>1. QED
    BY <1>3 DEF WireInv
<1>5. FlattenSeq(Upto(P, f)) = FlattenSeq(Upto(P, e - 1))
  <2>1. CASE f = e
    <3>1. body[e] = Newline /\ e \in 1..arrived /\ e - 1 \in Nat
      BY <2>1, WireFacts DEF LineIs
    <3>2. P[e] = <<>>
      BY <3>1 DEF Parts, Whole, Mark
    <3>3. P \in Seq(Seq(Wired)) /\ Len(P) = arrived
      BY <1>1, WireFacts, PartsType
    <3> HIDE DEF P
    <3>4. e \in (e - 1)..Len(P) /\ \A i \in ((e - 1) + 1)..e : P[i] = <<>>
      BY <3>1, <3>2, <3>3
    <3>5. QED
      BY <2>1, <3>1, <3>3, <3>4, FlattenSkip
  <2>2. CASE f = e - 1
    BY <2>2
  <2>3. QED
    BY <2>1, <2>2
<1> HIDE DEF P, t
<1>6. QED
  BY <1>2, <1>4, <1>5 DEF P, t

LEMMA FirstLineFacts ==
    ASSUME WireInv, Newlines(buffer) # {}
    PROVE  \E k \in 1..Len(buffer) :
             /\ ~over
             /\ Len(FirstLine) = k - 1
             /\ FirstLine = SubSeq(body, Reached + 1, Reached + k - 1)
             /\ LineIs(body, arrived, Reached, Reached + k)
             /\ Reached + k \in (Reached + 1)..arrived
<1> DEFINE N == Newlines(buffer)
           k == CHOOSE i \in N : \A j \in N : i <= j
<1>1. N = {i \in 1..Len(buffer) : buffer[i] = Newline} /\ Len(buffer) \in Nat
  BY DEF WireInv, Newlines
<1>2. N \in SUBSET Nat /\ N # {}
  BY <1>1
<1>3. k \in N /\ \A j \in N : k <= j
  <2> HIDE DEF N
  <2>1. QED
    BY <1>2, LeastElement
<1>4. FirstLine = SubSeq(buffer, 1, k - 1)
  BY DEF FirstLine
<1> HIDE DEF N, k
<1>5. k \in 1..Len(buffer) /\ buffer[k] = Newline /\ \A j \in 1..(k - 1) : buffer[j] # Newline
  BY <1>1, <1>3
<1>6. ~over
  BY <1>5 DEF WireInv
<1>7. /\ Reached \in Nat /\ arrived \in Nat /\ Reached + Len(buffer) = arrived
      /\ k \in Nat /\ k >= 1 /\ k <= Len(buffer) /\ arrived <= Len(body)
  BY <1>1, <1>5, <1>6, WireFacts
<1>8. \A i \in 1..Len(buffer) : buffer[i] = body[Reached + i]
  BY DEF WireInv
<1>9. Reached = 0 \/ body[Reached] = Newline
  BY <1>6 DEF WireInv
<1>10. \A j \in (Reached + 1)..(Reached + k - 1) : body[j] # Newline
  <2> TAKE j \in (Reached + 1)..(Reached + k - 1)
  <2>1. PICK i \in 1..(k - 1) : j = Reached + i
    <3>1. j - Reached \in 1..(k - 1) /\ j = Reached + (j - Reached)
      BY <1>7
    <3>2. QED
      BY <3>1
  <2>2. i \in 1..Len(buffer)
    BY <1>7
  <2>3. QED
    BY <1>5, <1>8, <2>1, <2>2
<1>11. LineIs(body, arrived, Reached, Reached + k)
  <2>1. body[Reached + k] = Newline
    BY <1>5, <1>8
  <2>2. Reached \in 0..arrived /\ Reached + k \in (Reached + 1)..(arrived + 1)
    BY <1>7
  <2>3. \A j \in (Reached + 1)..((Reached + k) - 1) : body[j] # Newline
    BY <1>7, <1>10
  <2>4. QED
    BY ONLY <1>9, <2>1, <2>2, <2>3 DEF LineIs
<1>12. Len(FirstLine) = k - 1 /\ FirstLine = SubSeq(body, Reached + 1, Reached + k - 1)
  <2>1. Len(FirstLine) = k - 1 /\ FirstLine = [i \in 1..(k - 1) |-> buffer[i]]
    BY <1>4, <1>7
  <2>2. SubSeq(body, Reached + 1, Reached + k - 1) = [i \in 1..(k - 1) |-> body[Reached + i]]
    BY <1>7, WireFacts
  <2>3. \A i \in 1..(k - 1) : buffer[i] = body[Reached + i]
    BY <1>7, <1>8
  <2>4. QED
    BY <2>1, <2>2, <2>3
<1>13. Reached + k \in (Reached + 1)..arrived
  BY <1>7
<1>14. QED
  BY <1>5, <1>6, <1>11, <1>12, <1>13

LEMMA LineWire ==
    ASSUME WireInv, TakeLine, UNCHANGED <<api, body, arrived>>
    PROVE  /\ TextOf(FirstLine) \in Seq(Alphabet)
           /\ Fed' = Fed \o TextOf(FirstLine) => WireInv'
<1>1. Newlines(buffer) # {} /\ over' = over
      /\ buffer' = SubSeq(buffer, Len(FirstLine) + 2, Len(buffer))
  BY DEF TakeLine
<1>2. PICK k \in 1..Len(buffer) :
             /\ ~over
             /\ Len(FirstLine) = k - 1
             /\ FirstLine = SubSeq(body, Reached + 1, Reached + k - 1)
             /\ LineIs(body, arrived, Reached, Reached + k)
             /\ Reached + k \in (Reached + 1)..arrived
  BY <1>1, FirstLineFacts
<1>3. PICK e \in (Reached + 1)..arrived : e = Reached + k
  BY <1>2
<1>4. /\ Reached \in Nat /\ arrived \in Nat /\ Reached + Len(buffer) = arrived
      /\ k \in Nat /\ k >= 1 /\ k <= Len(buffer) /\ Len(buffer) \in Nat /\ e \in Nat
  BY <1>2, WireFacts
<1>5. FirstLine = SubSeq(body, Reached + 1, e - 1) /\ LineIs(body, arrived, Reached, e)
  <2>1. Reached + k - 1 = e - 1
    BY <1>3, <1>4
  <2>2. QED
    BY <1>2, <1>3, <2>1, Zenon
<1>6. /\ TextOf(FirstLine) \in Seq(Alphabet)
      /\ FlattenSeq(Upto(Parts(body, arrived, over), e)) = Fed \o TextOf(FirstLine)
  <2>1. /\ e \in (Reached + 1)..(arrived + 1) /\ over \in BOOLEAN /\ ~over
        /\ e <= arrived \/ over
        /\ e \in {e - 1, e} /\ e <= arrived /\ (e = e => e <= arrived)
    BY <1>2, <1>4 DEF WireInv
  <2>2. /\ TextOf(SubSeq(body, Reached + 1, e - 1)) \in Seq(Alphabet)
        /\ FlattenSeq(Upto(Parts(body, arrived, over), e)) =
             Fed \o TextOf(SubSeq(body, Reached + 1, e - 1))
    BY <1>5, <2>1, LineTaken
  <2>3. QED
    BY <1>5, <2>2
<1>7. /\ buffer \in Seq(Wired) /\ buffer' = SubSeq(buffer, k + 1, Len(buffer))
      /\ buffer' \in Seq(Wired) /\ Len(buffer') = Len(buffer) - k
      /\ \A i \in 1..(Len(buffer) - k) : buffer'[i] = buffer[k + i]
  <2>1. buffer \in Seq(Wired) /\ Len(FirstLine) + 2 = k + 1
    BY <1>2, <1>4 DEF WireInv
  <2>2. buffer' = SubSeq(buffer, k + 1, Len(buffer))
    BY <1>1, <2>1
  <2>3. \A i \in (k + 1)..Len(buffer) : buffer[i] \in Wired
    BY <1>4, <2>1
  <2>4. /\ SubSeq(buffer, k + 1, Len(buffer)) \in Seq(Wired)
        /\ Len(SubSeq(buffer, k + 1, Len(buffer))) =
             IF k + 1 <= Len(buffer) THEN Len(buffer) - (k + 1) + 1 ELSE 0
        /\ \A i \in 1..(Len(buffer) - (k + 1) + 1) :
             SubSeq(buffer, k + 1, Len(buffer))[i] = buffer[(k + 1) + i - 1]
    BY <1>4, <2>3, SubSeqProperties
  <2>5. QED
    BY <1>4, <2>1, <2>2, <2>4
<1>8. /\ over' = over /\ ~over /\ api' = api /\ body' = body /\ arrived' = arrived
      /\ Alphabet' = Alphabet
  BY <1>1, <1>2 DEF Alphabet
<1>9. Reached' = e
  <2>1. Reached' = arrived' - Len(buffer')
    BY <1>8 DEF Reached
  <2>2. Len(buffer') = Len(buffer) - k /\ arrived' = arrived
    BY <1>7, <1>8
  <2>3. QED
    BY ONLY <1>3, <1>4, <2>1, <2>2
<1>10. \A i \in 1..Len(buffer') : buffer'[i] = body[e + i]
  <2> TAKE i \in 1..Len(buffer')
  <2>1. k + i \in 1..Len(buffer) /\ Reached + (k + i) = e + i
    BY <1>3, <1>4, <1>7
  <2>2. QED
    BY <1>7, <2>1 DEF WireInv
<1>11. body[e] = Newline
  BY <1>3, <1>4, <1>5 DEF LineIs
<1>12. ASSUME Fed' = Fed \o TextOf(FirstLine) PROVE WireInv'
  <2>1. Fed' \in Seq(Alphabet)
    <3>1. Fed \in Seq(Alphabet)
      BY DEF WireInv
    <3>2. QED
      BY <1>6, <1>12, <3>1
  <2>2. Len(buffer') <= arrived
    BY <1>4, <1>7
  <2>3. QED
    BY <1>6, <1>7, <1>8, <1>9, <1>10, <1>11, <1>12, <2>1, <2>2 DEF WireInv
<1>13. QED
  BY <1>6, <1>12

LEMMA RestWire ==
    ASSUME WireInv, TakeRest, UNCHANGED <<api, body, arrived>>
    PROVE  /\ TextOf(buffer) \in Seq(Alphabet)
           /\ Fed' = Fed \o TextOf(buffer) => WireInv'
<1>1. ~over /\ over' /\ over' = TRUE /\ Newlines(buffer) = {} /\ buffer' = <<>>
  BY DEF TakeRest
<1>2. PICK e \in (Reached + 1)..(arrived + 1) : e = arrived + 1
  BY <1>1, WireFacts
<1>3. /\ Reached \in Nat /\ arrived \in Nat /\ Reached + Len(buffer) = arrived
      /\ Len(buffer) \in Nat /\ e \in Nat /\ arrived <= Len(body)
  BY <1>1, WireFacts
<1>4. \A i \in 1..Len(buffer) : buffer[i] = body[Reached + i] /\ buffer[i] # Newline
  BY <1>1, <1>3 DEF WireInv, Newlines
<1>5. LineIs(body, arrived, Reached, e)
  <2>1. \A j \in (Reached + 1)..(e - 1) : body[j] # Newline
    <3> TAKE j \in (Reached + 1)..(e - 1)
    <3>1. PICK i \in 1..Len(buffer) : j = Reached + i
      <4>1. j - Reached \in 1..Len(buffer) /\ j = Reached + (j - Reached)
        BY <1>2, <1>3
      <4>2. QED
        BY <4>1
    <3>2. QED
      BY <1>4, <3>1
  <2>2. Reached = 0 \/ body[Reached] = Newline
    BY <1>1 DEF WireInv
  <2>3. QED
    BY <1>2, <1>3, <2>1, <2>2 DEF LineIs
<1>6. buffer = SubSeq(body, Reached + 1, e - 1)
  <2>1. SubSeq(body, Reached + 1, e - 1) = [i \in 1..Len(buffer) |-> body[Reached + i]]
    BY <1>2, <1>3, WireFacts
  <2>2. buffer = [i \in 1..Len(buffer) |-> buffer[i]]
    BY DEF WireInv
  <2>3. QED
    BY <1>4, <2>1, <2>2
<1>7. /\ TextOf(buffer) \in Seq(Alphabet)
      /\ FlattenSeq(Upto(Parts(body, arrived, TRUE), arrived)) = Fed \o TextOf(buffer)
  <2>1. /\ TRUE \in BOOLEAN /\ (e <= arrived \/ TRUE) /\ arrived \in {e - 1, e} /\ arrived <= arrived
        /\ arrived = e => e <= arrived
    BY <1>2, <1>3
  <2>2. PICK f : f = arrived
    OBVIOUS
  <2>3. /\ TextOf(SubSeq(body, Reached + 1, e - 1)) \in Seq(Alphabet)
        /\ FlattenSeq(Upto(Parts(body, arrived, TRUE), f)) =
             Fed \o TextOf(SubSeq(body, Reached + 1, e - 1))
    BY <1>1, <1>5, <2>1, <2>2, LineTaken
  <2>4. QED
    BY <1>6, <2>2, <2>3
<1>8. /\ over' = TRUE /\ api' = api /\ body' = body /\ arrived' = arrived
      /\ Alphabet' = Alphabet /\ Reached' = arrived
  BY <1>1 DEF Alphabet, Reached
<1>9. ASSUME Fed' = Fed \o TextOf(buffer) PROVE WireInv'
  <2>1. Fed' \in Seq(Alphabet)
    <3>1. Fed \in Seq(Alphabet)
      BY DEF WireInv
    <3>2. QED
      BY <1>7, <1>9, <3>1
  <2>2. Len(buffer') = 0 /\ buffer' \in Seq(Wired)
    BY <1>1
  <2>3. api \in {"chat", "text", "tools"} /\ body \in WireOf(Alphabet) /\ arrived \in 0..Len(body)
    BY DEF WireInv
  <2>4. Fed' = FlattenSeq(Upto(Parts(body', arrived', over'), Reached'))
    BY <1>7, <1>8, <1>9, Zenon
  <2>5. Len(buffer') <= arrived' /\ \A i \in 1..Len(buffer') : buffer'[i] = body'[Reached' + i]
    BY <1>3, <1>8, <2>2
  <2>6. QED
    BY <1>1, <1>8, <2>1, <2>2, <2>3, <2>4, <2>5 DEF WireInv
<1>10. QED
  BY <1>7, <1>9

\* A step of a chat completion is one of ThinkParser or leaves it alone
LEMMA ChatSteps ==
    ASSUME WireInv, api = "chat", ChatNext, UNCHANGED respVars
    PROVE  WireInv' /\ [Next]_thinkVars
<1>1. /\ UNCHANGED <<api, accum>> /\ Alphabet = Char /\ Fed = text /\ Fed' = text'
      /\ text \in Seq(Char)
  BY DEF respVars, Alphabet, Fed, WireInv
<1>2. ASSUME NEW t \in Seq(Char), OnToken(t) PROVE text' = text \o t /\ [Next]_thinkVars
  <2>1. CASE t = <<>>
    <3>1. UNCHANGED thinkVars
      BY <1>2, <2>1 DEF OnToken
    <3>2. text' = text /\ text \o <<>> = text
      BY <1>1, <3>1 DEF thinkVars
    <3>3. QED
      BY <2>1, <3>1, <3>2
  <2>2. CASE t # <<>>
    BY <1>2, <2>2 DEF OnToken, Feed, Next
  <2>3. QED
    BY <2>1, <2>2
<1>3. CASE Receive
  <2>1. PICK n \in 1..(Len(body) - arrived) :
          /\ FeedChunk(SubSeq(body, arrived + 1, arrived + n))
          /\ arrived' = arrived + n
    BY <1>3 DEF Receive
  <2>2. UNCHANGED thinkVars /\ body' = body /\ Fed' = Fed
    BY <1>1, <1>3 DEF Receive, thinkVars
  <2>3. QED
    BY <1>1, <2>1, <2>2, ChunkWire
<1>4. CASE Line
  <2>1. TakeLine /\ OnToken(TextOf(FirstLine)) /\ UNCHANGED <<api, body, arrived>>
    BY <1>1, <1>4 DEF Line
  <2>2. TextOf(FirstLine) \in Seq(Char) /\ (Fed' = Fed \o TextOf(FirstLine) => WireInv')
    BY <1>1, <2>1, LineWire
  <2>3. QED
    BY <1>1, <1>2, <2>1, <2>2
<1>5. CASE EndTransfer
  <2>1. TakeRest /\ OnToken(TextOf(buffer)) /\ UNCHANGED <<api, body, arrived>>
    BY <1>1, <1>5 DEF EndTransfer
  <2>2. TextOf(buffer) \in Seq(Char) /\ (Fed' = Fed \o TextOf(buffer) => WireInv')
    BY <1>1, <2>1, RestWire
  <2>3. QED
    BY <1>1, <1>2, <2>1, <2>2
<1>6. CASE FinishThink \/ (Look /\ UNCHANGED <<streamVars, body, arrived>>)
  <2>1. UNCHANGED <<streamVars, body, arrived>> /\ Next
    BY <1>6 DEF FinishThink, Next
  <2>2. text' = text
    BY <1>6 DEF FinishThink, Finish, Look, Plain, Bracket, TagGrows, TagCompletes, TagBreaks,
                PushNext, LastFlush
  <2>3. QED
    BY <1>1, <2>1, <2>2, WireStays
<1>7. QED
  BY <1>3, <1>4, <1>5, <1>6 DEF ChatNext

\* Nothing but the call reads the wire of a response
LEMMA RespondWire ==
    ASSUME WireInv, api # "chat", Respond
    PROVE  WireInv'
<1>1. api' = api /\ Fed = accum /\ Fed' = accum'
  BY DEF Respond, RespReceive, RespLine, RespEnd, RespScan, AskAgain, Parsed, Reply, respVars, Fed
<1>2. CASE RespReceive
  <2>1. Receive /\ UNCHANGED respVars
    BY <1>2 DEF RespReceive
  <2>2. PICK n \in 1..(Len(body) - arrived) :
          /\ FeedChunk(SubSeq(body, arrived + 1, arrived + n))
          /\ arrived' = arrived + n
    BY <2>1 DEF Receive
  <2>3. body' = body /\ Fed' = Fed
    BY <1>1, <2>1 DEF Receive, respVars
  <2>4. QED
    BY <1>1, <2>2, <2>3, ChunkWire
<1>3. CASE RespLine
  <2>1. TakeLine /\ UNCHANGED <<api, body, arrived>> /\ accum' = accum \o TextOf(FirstLine)
    BY <1>3 DEF RespLine, OnRespToken
  <2>2. QED
    BY <1>1, <2>1, LineWire
<1>4. CASE RespEnd
  <2>1. TakeRest /\ UNCHANGED <<api, body, arrived>> /\ accum' = accum \o TextOf(buffer)
    BY <1>4 DEF RespEnd, OnRespToken
  <2>2. QED
    BY <1>1, <2>1, RestWire
<1>5. CASE RespScan \/ AskAgain \/ Parsed \/ Reply
  <2>1. UNCHANGED <<streamVars, body, arrived, accum>>
    BY <1>5 DEF RespScan, AskAgain, Parsed, Reply, respVars
  <2>2. QED
    BY <1>1, <2>1, WireStays
<1>6. QED
  BY <1>2, <1>3, <1>4, <1>5 DEF Respond

LEMMA WireStep ==
    ASSUME WireInv, [RespNext]_allVars
    PROVE  WireInv' /\ [Next]_thinkVars
<1>1. CASE api = "chat" /\ ChatNext /\ UNCHANGED <<toolVars, respVars>>
  BY <1>1, ChatSteps
<1>2. CASE api # "chat" /\ Respond /\ UNCHANGED thinkVars
  BY <1>2, RespondWire
<1>3. CASE UNCHANGED allVars
  <2>1. UNCHANGED <<api, streamVars, body, arrived>> /\ Fed' = Fed /\ UNCHANGED thinkVars
    BY <1>3 DEF allVars, vars, respVars, thinkVars, streamVars, Fed
  <2>2. QED
    BY <2>1, WireStays
<1>4. QED
  BY <1>1, <1>2, <1>3 DEF RespNext

LEMMA WireStart == RespInit => WireInv /\ Init
<1> SUFFICES ASSUME RespInit PROVE WireInv /\ Init
  OBVIOUS
<1>1. /\ Init /\ buffer = <<>> /\ over = FALSE /\ arrived = 0 /\ accum = <<>> /\ text = <<>>
      /\ api \in {"chat", "text", "tools"}
  BY DEF RespInit, StreamInit, Init
<1>2. body \in WireOf(Alphabet)
  BY WireAssumption DEF RespInit, Alphabet
<1>3. Alphabet \in {Char, Token}
  BY DEF Alphabet
<1>4. Len(body) \in Nat
  BY <1>2, <1>3, WireProperties
<1>5. Fed = <<>> /\ Reached = 0 /\ Len(buffer) = 0 /\ buffer \in Seq(Wired)
  <2>1. Len(buffer) = 0 /\ buffer \in Seq(Wired) /\ arrived - 0 = 0
    BY <1>1
  <2>2. Reached = 0
    BY <1>1, <2>1 DEF Reached
  <2>3. QED
    BY <1>1, <2>1, <2>2 DEF Fed
<1>6. Fed = FlattenSeq(Upto(Parts(body, arrived, over), Reached))
  BY <1>5, FlattenNone
<1>7. Fed \in Seq(Alphabet)
  BY <1>5
<1>8. /\ over \in BOOLEAN /\ (over => buffer = <<>>) /\ arrived \in 0..Len(body)
      /\ Len(buffer) <= arrived
      /\ \A i \in 1..Len(buffer) : buffer[i] = body[Reached + i]
  <2>1. over \in BOOLEAN /\ buffer = <<>>
    BY <1>1
  <2>2. arrived \in 0..Len(body) /\ Len(buffer) <= arrived
    BY <1>1, <1>4, <1>5
  <2>3. 1..Len(buffer) = {}
    BY <1>5
  <2>4. QED
    BY <2>1, <2>2, <2>3
<1>9. QED
  BY <1>1, <1>2, <1>5, <1>6, <1>7, <1>8 DEF WireInv

LEMMA WireAlways == RespSpec => []WireInv
BY WireStart, WireStep, PTL DEF RespSpec

\* The wire cut anywhere: whoever reads it, what has been fed on are the texts
\* of the data lines that have arrived, for any answers and any chunks.
THEOREM TextsArrive == RespSpec => []CutAnywhere
<1>1. ASSUME WireInv, Newlines(buffer) = {}
      PROVE  ArrivedText = IF api = "chat" THEN text ELSE accum
  <2>1. ArrivedText = FlattenSeq(Parts(body, arrived, over))
    <3>1. \A i \in 1..arrived : Arrived(i) = Whole(body, arrived, over, i)
      BY DEF Arrived, Whole, From, LineStart, To, LineEnd, Mark
    <3>2. QED
      BY <3>1 DEF ArrivedText, Parts
  <2>2. FlattenSeq(Parts(body, arrived, over)) = FlattenSeq(Upto(Parts(body, arrived, over), arrived))
    <3>1. Parts(body, arrived, over) \in Seq(Seq(Wired)) /\ Len(Parts(body, arrived, over)) = arrived
      BY <1>1, WireFacts, PartsType DEF WireInv
    <3>2. QED
      BY <3>1, UptoAll
  <2>3. FlattenSeq(Upto(Parts(body, arrived, over), arrived)) = Fed
    <3>1. CASE over
      BY <1>1, <3>1, WireFacts DEF WireInv
    <3>2. CASE ~over
      <4>1. over = FALSE /\ (Reached = 0 \/ body[Reached] = Newline) /\ arrived \in 0..Len(body)
        BY <1>1, <3>2 DEF WireInv
      <4>2. Reached \in Nat /\ arrived \in Nat /\ Reached + Len(buffer) = arrived /\ Len(buffer) \in Nat
        BY <1>1, <3>2, WireFacts
      <4>3. \A j \in (Reached + 1)..((arrived + 1) - 1) : body[j] # Newline
        <5> TAKE j \in (Reached + 1)..((arrived + 1) - 1)
        <5>1. PICK i \in 1..Len(buffer) : j = Reached + i
          <6>1. j - Reached \in 1..Len(buffer) /\ j = Reached + (j - Reached)
            BY <4>2
          <6>2. QED
            BY <6>1
        <5>2. QED
          BY <1>1, <5>1 DEF WireInv, Newlines
      <4>4. LineIs(body, arrived, Reached, arrived + 1)
        BY <4>1, <4>2, <4>3 DEF LineIs
      <4>5. FlattenSeq(Upto(Parts(body, arrived, FALSE), arrived))
              = FlattenSeq(Upto(Parts(body, arrived, FALSE), Reached))
        BY <1>1, <4>1, <4>4, WireFacts, OpenLine
      <4>6. QED
        BY <1>1, <4>1, <4>5 DEF WireInv
    <3>3. QED
      BY <3>1, <3>2
  <2>4. QED
    BY <2>1, <2>2, <2>3 DEF Fed
<1>2. WireInv => CutAnywhere
  BY <1>1 DEF CutAnywhere
<1>3. QED
  BY <1>2, WireAlways, PTL

\* A chat completion runs ThinkParser, whatever UvA sends and wherever the
\* network cuts it: its tokens are texts, fed one at a time
THEOREM ChatThinks == RespSpec => Spec
<1>1. RespInit => Init
  BY WireStart
<1>2. WireInv /\ [RespNext]_allVars => [Next]_thinkVars
  BY WireStep
<1>3. QED
  BY <1>1, <1>2, WireAlways, PTL DEF RespSpec, Spec

\* So think_parser_finish leaves nothing behind there either, and the client is
\* sent content and reasoning split as think_strip splits the answer.
THEOREM ClientIsStripped == RespSpec => []AllPassedOn /\ StripsAsWhole
BY ChatThinks, NothingLeftBehind, StreamingStrips

(***************************************************************************)
(* Response events                                                         *)
(***************************************************************************)
What == Wired \cup Nat
Sort == [type : EventType, what : Seq(What)]
Short == {e \in Sort : Len(e.what) <= LineCap}

Tells(evs, type) == [i \in DOMAIN evs |-> IF evs[i].type = type THEN evs[i].what ELSE <<>>]

LEMMA ToldType ==
    ASSUME NEW evs \in Seq(Sort), NEW type
    PROVE  /\ Tells(evs, type) \in Seq(Seq(What)) /\ Len(Tells(evs, type)) = Len(evs)
           /\ Told(evs, type) = FlattenSeq(Tells(evs, type))
           /\ Told(evs, type) \in Seq(What)
<1>1. \A i \in 1..Len(evs) : evs[i] \in Sort /\ evs[i].what \in Seq(What)
  <2>1. \A e \in Sort : e.what \in Seq(What)
    BY DEF Sort
  <2>2. \A i \in 1..Len(evs) : evs[i] \in Sort
    OBVIOUS
  <2>3. QED
    BY <2>1, <2>2
<1>2. Tells(evs, type) \in Seq(Seq(What)) /\ Len(Tells(evs, type)) = Len(evs)
  <2>1. \A i \in 1..Len(evs) :
          (IF evs[i].type = type THEN evs[i].what ELSE <<>>) \in Seq(What)
    <3>1. <<>> \in Seq(What)
      OBVIOUS
    <3>2. QED
      BY <1>1, <3>1
  <2>2. Tells(evs, type) =
          [i \in 1..Len(evs) |-> IF evs[i].type = type THEN evs[i].what ELSE <<>>]
    BY DEF Tells
  <2>3. Len(evs) \in Nat
    OBVIOUS
  <2> HIDE DEF What
  <2>4. QED
    BY ONLY <2>1, <2>2, <2>3
<1>3. Told(evs, type) = FlattenSeq(Tells(evs, type))
  BY DEF Told, Tells
<1>4. <<>> \in Seq(Seq(What))
  OBVIOUS
<1>5. FlattenSeq(Tells(evs, type)) \in Seq(What)
  BY <1>2, <1>4, FlattenConcat
<1>6. QED
  BY <1>2, <1>3, <1>5

LEMMA ToldConcat ==
    ASSUME NEW evs \in Seq(Sort), NEW more \in Seq(Sort), NEW type
    PROVE  Told(evs \o more, type) = Told(evs, type) \o Told(more, type)
<1>1. evs \o more \in Seq(Sort)
  OBVIOUS
<1>2. Tells(evs \o more, type) = Tells(evs, type) \o Tells(more, type)
  <2>1. /\ Len(evs \o more) = Len(evs) + Len(more) /\ Len(evs) \in Nat /\ Len(more) \in Nat
        /\ \A i \in 1..(Len(evs) + Len(more)) :
             (evs \o more)[i] = IF i <= Len(evs) THEN evs[i] ELSE more[i - Len(evs)]
    BY ConcatProperties
  <2>2. Tells(evs, type) \in Seq(Seq(What)) /\ Len(Tells(evs, type)) = Len(evs)
        /\ Tells(more, type) \in Seq(Seq(What)) /\ Len(Tells(more, type)) = Len(more)
        /\ Tells(evs \o more, type) \in Seq(Seq(What))
        /\ Len(Tells(evs \o more, type)) = Len(evs) + Len(more)
    BY <1>1, <2>1, ToldType
  <2>3. /\ Tells(evs, type) \o Tells(more, type) \in Seq(Seq(What))
        /\ Len(Tells(evs, type) \o Tells(more, type)) = Len(evs) + Len(more)
        /\ \A i \in 1..(Len(evs) + Len(more)) :
             (Tells(evs, type) \o Tells(more, type))[i] =
                IF i <= Len(evs) THEN Tells(evs, type)[i] ELSE Tells(more, type)[i - Len(evs)]
    <3>1. PICK f \in Seq(Seq(What)) : f = Tells(evs, type)
      BY <2>2
    <3>2. PICK g \in Seq(Seq(What)) : g = Tells(more, type)
      BY <2>2
    <3>3. /\ f \o g \in Seq(Seq(What)) /\ Len(f \o g) = Len(f) + Len(g)
          /\ \A i \in 1..(Len(f) + Len(g)) :
               (f \o g)[i] = IF i <= Len(f) THEN f[i] ELSE g[i - Len(f)]
      BY ConcatProperties
    <3>4. QED
      BY <2>2, <3>1, <3>2, <3>3
  <2>4. ASSUME NEW i \in 1..(Len(evs) + Len(more))
        PROVE  Tells(evs \o more, type)[i] = (Tells(evs, type) \o Tells(more, type))[i]
    <3>1. Tells(evs \o more, type)[i] =
            IF (evs \o more)[i].type = type THEN (evs \o more)[i].what ELSE <<>>
      BY <1>1, <2>1 DEF Tells
    <3>2. CASE i <= Len(evs)
      <4>1. i \in 1..Len(evs)
        BY <2>1, <3>2
      <4>2. Tells(evs, type)[i] = IF evs[i].type = type THEN evs[i].what ELSE <<>>
        BY <4>1 DEF Tells
      <4>3. QED
        BY <2>1, <2>3, <3>1, <3>2, <4>2
    <3>3. CASE ~(i <= Len(evs))
      <4>1. PICK j \in 1..Len(more) : j = i - Len(evs)
        BY <2>1, <3>3
      <4>2. Tells(more, type)[j] = IF more[j].type = type THEN more[j].what ELSE <<>>
        BY <4>1 DEF Tells
      <4>3. QED
        BY <2>1, <2>3, <3>1, <3>3, <4>1, <4>2
    <3>4. QED
      BY <3>2, <3>3
  <2>5. QED
    <3>1. PICK f \in Seq(Seq(What)) : f = Tells(evs \o more, type)
      BY <2>2
    <3>2. PICK g \in Seq(Seq(What)) : g = Tells(evs, type) \o Tells(more, type)
      BY <2>3
    <3>3. Len(f) = Len(g) /\ \A i \in 1..Len(f) : f[i] = g[i]
      BY <2>2, <2>3, <2>4, <3>1, <3>2
    <3>4. f = g
      BY <3>3, SeqEqual
    <3>5. QED
      BY <3>1, <3>2, <3>4
<1>3. Told(evs \o more, type) = FlattenSeq(Tells(evs, type) \o Tells(more, type))
  BY <1>1, <1>2, ToldType
<1>4. Tells(evs, type) \in Seq(Seq(What)) /\ Tells(more, type) \in Seq(Seq(What))
  BY ToldType
<1>5. PICK f \in Seq(Seq(What)) : f = Tells(evs, type)
  BY <1>4
<1>6. PICK g \in Seq(Seq(What)) : g = Tells(more, type)
  BY <1>4
<1>7. FlattenSeq(f \o g) = FlattenSeq(f) \o FlattenSeq(g)
  BY FlattenConcat
<1>8. Told(evs, type) = FlattenSeq(f) /\ Told(more, type) = FlattenSeq(g)
  BY <1>5, <1>6, ToldType
<1>9. QED
  BY <1>3, <1>5, <1>6, <1>7, <1>8

\* Of one event in which the type occurs, or none
LEMMA ToldOnce ==
    ASSUME NEW evs \in Seq(Sort), NEW type, NEW k \in 1..Len(evs),
           \A i \in 1..Len(evs) : i # k => evs[i].type # type
    PROVE  Told(evs, type) = IF evs[k].type = type THEN evs[k].what ELSE <<>>
<1> DEFINE T == Tells(evs, type)
<1>1. /\ T \in Seq(Seq(What)) /\ Len(T) = Len(evs) /\ Told(evs, type) = FlattenSeq(T)
      /\ k \in Nat /\ k >= 1 /\ k <= Len(T) /\ k - 1 \in Nat
      /\ \A i \in 1..Len(T) : i # k => T[i] = <<>>
      /\ T[k] = IF evs[k].type = type THEN evs[k].what ELSE <<>>
  <2>1. T \in Seq(Seq(What)) /\ Len(T) = Len(evs) /\ Told(evs, type) = FlattenSeq(T)
    BY ToldType
  <2>2. \A i \in 1..Len(evs) : T[i] = IF evs[i].type = type THEN evs[i].what ELSE <<>>
    BY DEF Tells
  <2>3. k \in Nat /\ k >= 1 /\ k <= Len(evs) /\ k - 1 \in Nat
    OBVIOUS
  <2> HIDE DEF T
  <2>4. \A i \in 1..Len(T) : i # k => T[i] = <<>>
    BY <2>1, <2>2
  <2>5. QED
    BY <2>1, <2>2, <2>3, <2>4
<1> HIDE DEF T
<1>2. T[k] \in Seq(What)
  BY <1>1
<1>3. FlattenSeq(Upto(T, k - 1)) = <<>>
  <2>1. 0 \in Nat /\ k - 1 \in 0..Len(T) /\ \A i \in (0 + 1)..(k - 1) : T[i] = <<>>
    BY <1>1
  <2>2. FlattenSeq(Upto(T, k - 1)) = FlattenSeq(Upto(T, 0))
    BY <1>1, <2>1, FlattenSkip
  <2>3. QED
    BY <2>2, FlattenNone
<1>4. FlattenSeq(Upto(T, k)) = T[k]
  <2>1. PICK j \in Nat : j = k - 1 /\ j < Len(T) /\ j + 1 = k
    BY <1>1
  <2>2. FlattenSeq(Upto(T, j + 1)) = FlattenSeq(Upto(T, j)) \o T[j + 1]
    BY <1>1, <2>1, FlattenStep
  <2>3. <<>> \o T[k] = T[k]
    BY <1>2
  <2>4. QED
    BY <1>3, <2>1, <2>2, <2>3
<1>5. FlattenSeq(Upto(T, Len(T))) = FlattenSeq(Upto(T, k))
  <2>1. Len(T) \in k..Len(T) /\ \A i \in (k + 1)..Len(T) : T[i] = <<>>
    BY <1>1
  <2>2. QED
    BY <1>1, <2>1, FlattenSkip
<1>6. QED
  BY <1>1, <1>4, <1>5, UptoAll

LEMMA KindOfEvent ==
    ASSUME NEW type \in EventType, NEW w \in Seq(What)
    PROVE  /\ Event(type, w) \in Sort /\ Event(type, w).type = type /\ Event(type, w).what = w
           /\ Len(w) <= LineCap => Event(type, w) \in Short
BY DEF Event, Sort, Short

LEMMA SentType ==
    ASSUME NEW evs \in Seq(Sort)
    PROVE  /\ Sent(evs) \in Seq(Sort) /\ Len(Sent(evs)) = Len(evs)
           /\ evs \in Seq(Short) => Sent(evs) = evs
<1>1. Event("garbled", <<>>) \in Sort
  <2>1. "garbled" \in EventType
    BY DEF EventType
  <2>2. <<>> \in Seq(What)
    OBVIOUS
  <2> HIDE DEF What
  <2>3. QED
    BY <2>1, <2>2, KindOfEvent
<1>2. Sent(evs) \in Seq(Sort) /\ Len(Sent(evs)) = Len(evs)
  BY <1>1 DEF Sent
<1>3. ASSUME evs \in Seq(Short) PROVE Sent(evs) = evs
  <2>1. \A i \in 1..Len(evs) : Len(evs[i].what) \in Nat /\ Len(evs[i].what) <= LineCap
    BY <1>3 DEF Short, Sort
  <2>2. \A i \in 1..Len(evs) : ~(Len(evs[i].what) > LineCap)
    BY <2>1, WireAssumption
  <2>3. Sent(evs) = [i \in 1..Len(evs) |-> evs[i]]
    BY <2>2 DEF Sent
  <2>4. QED
    BY <2>3
<1>4. QED
  BY <1>2, <1>3

TextType == {"text_done", "part_done", "item_done"}
CallType == {"item_added", "args_delta", "args_done", "item_done"}

LEMMA AddedTells ==
    /\ Added \in Seq(Short) /\ Added \in Seq(Sort)
    /\ \A type \in {"delta"} \cup TextType : Told(Added, type) = <<>>
    /\ <<Added[1]>> \in Seq(Short) /\ <<Added[1]>> \in Seq(Sort)
    /\ \A type \in CallType : Told(<<Added[1]>>, type) = <<>>
<1>1. \A w \in {"created", "item_added", "part_added"} :
        /\ Event(w, <<>>) \in Short /\ Event(w, <<>>) \in Sort
        /\ Event(w, <<>>).type = w /\ Event(w, <<>>).what = <<>>
  <2> TAKE w \in {"created", "item_added", "part_added"}
  <2>1. w \in EventType
    BY DEF EventType
  <2>2. PICK e \in Seq(What) : e = <<>>
    <3>1. <<>> \in Seq(What)
      OBVIOUS
    <3> HIDE DEF What
    <3>2. QED
      BY <3>1
  <2>3. Len(e) <= LineCap
    <3>1. Len(<<>>) = 0 /\ 0 <= LineCap
      BY WireAssumption
    <3>2. QED
      BY <2>2, <3>1
  <2>4. Event(w, e) \in Sort /\ Event(w, e).type = w /\ Event(w, e).what = e /\ Event(w, e) \in Short
    BY <2>1, <2>3, KindOfEvent
  <2>5. QED
    BY <2>2, <2>4
<1> DEFINE a == Event("created", <<>>)
           b == Event("item_added", <<>>)
           c == Event("part_added", <<>>)
<1>2. /\ a \in Short /\ b \in Short /\ c \in Short /\ a \in Sort /\ b \in Sort /\ c \in Sort
      /\ a.type = "created" /\ b.type = "item_added" /\ c.type = "part_added"
      /\ a.what = <<>> /\ b.what = <<>> /\ c.what = <<>>
  BY <1>1
<1>3. Added = <<a, b, c>>
  BY DEF Added
<1> HIDE DEF a, b, c
<1>4. Added \in Seq(Short) /\ Added \in Seq(Sort) /\ Len(Added) = 3
      /\ Added[1] = a /\ Added[2] = b /\ Added[3] = c
  <2> HIDE DEF Short, Sort
  <2>1. QED
    BY <1>2, <1>3
<1>5. ASSUME NEW type \in {"delta"} \cup TextType PROVE Told(Added, type) = <<>>
  <2>1. type # "created" /\ type # "item_added" /\ type # "part_added"
    BY DEF TextType
  <2>2. \A i \in 1..Len(Added) : Added[i].type # type
    <3>1. \A i \in 1..3 : i = 1 \/ i = 2 \/ i = 3
      OBVIOUS
    <3>2. QED
      BY <1>2, <1>4, <2>1, <3>1
  <2>3. 1 \in 1..Len(Added) /\ Added[1].type # type
    BY <1>4, <2>2
  <2>4. QED
    BY <1>4, <2>2, <2>3, ToldOnce
<1>6. <<a>> \in Seq(Short) /\ <<a>> \in Seq(Sort) /\ Len(<<a>>) = 1 /\ <<a>>[1] = a
  <2> HIDE DEF Short, Sort
  <2>1. QED
    BY <1>2
<1>7. ASSUME NEW type \in CallType PROVE Told(<<a>>, type) = <<>>
  <2>1. PICK s \in Seq(Sort) : s = <<a>>
    BY <1>6
  <2>2. 1 \in 1..Len(s) /\ s[1].type # type /\ \A i \in 1..Len(s) : i # 1 => s[i].type # type
    BY <1>2, <1>6, <2>1 DEF CallType
  <2>3. Told(s, type) = <<>>
    BY <2>2, ToldOnce
  <2>4. QED
    BY <2>1, <2>3
<1>8. QED
  BY <1>4, <1>5, <1>6, <1>7

LEMMA TextDoneTells ==
    ASSUME NEW t \in Seq(What)
    PROVE  /\ TextDone(t) \in Seq(Sort) /\ TextDone(t) # <<>>
           /\ Len(t) <= LineCap => TextDone(t) \in Seq(Short)
           /\ \A type \in TextType : Told(TextDone(t), type) = t
           /\ Told(TextDone(t), "delta") = <<>>
<1>1. \A w \in TextType :
        /\ Event(w, t) \in Sort /\ Event(w, t).type = w /\ Event(w, t).what = t
        /\ Len(t) <= LineCap => Event(w, t) \in Short
  <2> TAKE w \in TextType
  <2>1. w \in EventType
    BY DEF EventType, TextType
  <2>2. QED
    BY <2>1, KindOfEvent
<1> DEFINE a == Event("text_done", t)
           b == Event("part_done", t)
           c == Event("item_done", t)
<1>2. /\ a \in Sort /\ b \in Sort /\ c \in Sort
      /\ Len(t) <= LineCap => a \in Short /\ b \in Short /\ c \in Short
      /\ a.type = "text_done" /\ b.type = "part_done" /\ c.type = "item_done"
      /\ a.what = t /\ b.what = t /\ c.what = t
  BY <1>1 DEF TextType
<1>3. PICK s : s = TextDone(t) /\ s = <<a, b, c>>
  BY DEF TextDone
<1> HIDE DEF a, b, c
<1>4. s \in Seq(Sort) /\ Len(s) = 3 /\ s[1] = a /\ s[2] = b /\ s[3] = c
      /\ (Len(t) <= LineCap => s \in Seq(Short))
  <2> HIDE DEF Short, Sort, What
  <2>1. QED
    BY <1>2, <1>3
<1>5. \A i \in 1..Len(s) : i = 1 \/ i = 2 \/ i = 3
  BY <1>4
<1>6. 1 \in 1..Len(s) /\ 2 \in 1..Len(s) /\ 3 \in 1..Len(s)
  BY <1>4
<1>7. Told(s, "text_done") = t
  <2>1. \A i \in 1..Len(s) : i # 1 => s[i].type # "text_done"
    BY <1>2, <1>4, <1>5
  <2>2. QED
    BY <1>2, <1>4, <1>6, <2>1, ToldOnce
<1>8. Told(s, "part_done") = t
  <2>1. \A i \in 1..Len(s) : i # 2 => s[i].type # "part_done"
    BY <1>2, <1>4, <1>5
  <2>2. QED
    BY <1>2, <1>4, <1>6, <2>1, ToldOnce
<1>9. Told(s, "item_done") = t
  <2>1. \A i \in 1..Len(s) : i # 3 => s[i].type # "item_done"
    BY <1>2, <1>4, <1>5
  <2>2. QED
    BY <1>2, <1>4, <1>6, <2>1, ToldOnce
<1>10. Told(s, "delta") = <<>>
  <2>1. \A i \in 1..Len(s) : s[i].type # "delta"
    BY <1>2, <1>4, <1>5
  <2>2. QED
    BY <1>4, <1>6, <2>1, ToldOnce
<1>11. QED
  <2>1. ASSUME s = <<>> PROVE FALSE
    <3>1. Len(s) = 0
      BY ONLY <2>1
    <3>2. Len(s) = 3
      BY <1>4
    <3>3. QED
      BY ONLY <3>1, <3>2
  <2>2. QED
    BY <1>3, <1>4, <1>7, <1>8, <1>9, <1>10, <2>1 DEF TextType

LEMMA CallDoneTells ==
    ASSUME NEW c \in Nat
    PROVE  /\ CallDone(c) \in Seq(Sort)
           /\ LineCap >= 1 => CallDone(c) \in Seq(Short)
           /\ \A type \in CallType : Told(CallDone(c), type) = <<c>>
<1>1. PICK t \in Seq(What) : t = <<c>> /\ Len(t) = 1
  <2>1. c \in What
    BY DEF What
  <2> HIDE DEF What
  <2>2. <<c>> \in Seq(What) /\ Len(<<c>>) = 1
    BY <2>1
  <2>3. QED
    BY <2>2
<1>2. LineCap >= 1 => Len(t) <= LineCap
  BY <1>1, WireAssumption
<1>3. \A w \in CallType :
        /\ Event(w, t) \in Sort /\ Event(w, t).type = w /\ Event(w, t).what = t
        /\ LineCap >= 1 => Event(w, t) \in Short
  <2> TAKE w \in CallType
  <2>1. w \in EventType
    BY DEF EventType, CallType
  <2>2. QED
    BY <1>2, <2>1, KindOfEvent
<1> DEFINE e1 == Event("item_added", t)
           e2 == Event("args_delta", t)
           e3 == Event("args_done", t)
           e4 == Event("item_done", t)
<1>4. /\ e1 \in Sort /\ e2 \in Sort /\ e3 \in Sort /\ e4 \in Sort
      /\ LineCap >= 1 => e1 \in Short /\ e2 \in Short /\ e3 \in Short /\ e4 \in Short
      /\ e1.type = "item_added" /\ e2.type = "args_delta" /\ e3.type = "args_done"
      /\ e4.type = "item_done"
      /\ e1.what = t /\ e2.what = t /\ e3.what = t /\ e4.what = t
  BY <1>3 DEF CallType
<1>5. PICK s : s = CallDone(c) /\ s = <<e1, e2, e3, e4>>
  BY <1>1 DEF CallDone
<1> HIDE DEF e1, e2, e3, e4
<1>6. s \in Seq(Sort) /\ Len(s) = 4 /\ s[1] = e1 /\ s[2] = e2 /\ s[3] = e3 /\ s[4] = e4
      /\ (LineCap >= 1 => s \in Seq(Short))
  <2> HIDE DEF Short, Sort, What
  <2>1. QED
    BY <1>4, <1>5
<1>7. \A i \in 1..Len(s) : i = 1 \/ i = 2 \/ i = 3 \/ i = 4
  BY <1>6
<1>8. 1 \in 1..Len(s) /\ 2 \in 1..Len(s) /\ 3 \in 1..Len(s) /\ 4 \in 1..Len(s)
  BY <1>6
<1>9. Told(s, "item_added") = t
  <2>1. \A i \in 1..Len(s) : i # 1 => s[i].type # "item_added"
    BY <1>4, <1>6, <1>7
  <2>2. QED
    BY <1>4, <1>6, <1>8, <2>1, ToldOnce
<1>10. Told(s, "args_delta") = t
  <2>1. \A i \in 1..Len(s) : i # 2 => s[i].type # "args_delta"
    BY <1>4, <1>6, <1>7
  <2>2. QED
    BY <1>4, <1>6, <1>8, <2>1, ToldOnce
<1>11. Told(s, "args_done") = t
  <2>1. \A i \in 1..Len(s) : i # 3 => s[i].type # "args_done"
    BY <1>4, <1>6, <1>7
  <2>2. QED
    BY <1>4, <1>6, <1>8, <2>1, ToldOnce
<1>12. Told(s, "item_done") = t
  <2>1. \A i \in 1..Len(s) : i # 4 => s[i].type # "item_done"
    BY <1>4, <1>6, <1>7
  <2>2. QED
    BY <1>4, <1>6, <1>8, <2>1, ToldOnce
<1>13. QED
  BY <1>1, <1>5, <1>6, <1>9, <1>10, <1>11, <1>12 DEF CallType

LEMMA CompletedTells ==
    ASSUME NEW t \in Seq(What), NEW cs \in Seq(What)
    PROVE  /\ Completed(t, cs) \in Sort
           /\ Len(t) <= LineCap /\ Len(cs) <= LineCap => Completed(t, cs) \in Short
           /\ Completed(t, cs).type \in {"completed", "called"}
<1>1. "completed" \in EventType /\ "called" \in EventType
  BY DEF EventType
<1>2. CASE cs = <<>>
  <2>1. Completed(t, cs) = Event("completed", t)
    BY <1>2 DEF Completed
  <2> HIDE DEF Short, Sort, What
  <2>2. QED
    BY <1>1, <2>1, KindOfEvent
<1>3. CASE cs # <<>>
  <2>1. Completed(t, cs) = Event("called", cs)
    BY <1>3 DEF Completed
  <2> HIDE DEF Short, Sort, What
  <2>2. QED
    BY <1>1, <2>1, KindOfEvent
<1>4. QED
  BY <1>2, <1>3

LEMMA LastTells ==
    ASSUME NEW e \in Sort, e.type \in {"completed", "called"}
    PROVE  /\ <<e>> \in Seq(Sort)
           /\ e \in Short => <<e>> \in Seq(Short)
           /\ \A type \in {"delta"} \cup TextType \cup CallType : Told(<<e>>, type) = <<>>
<1>1. PICK s : s = <<e>>
  OBVIOUS
<1> HIDE DEF Sort, Short, What
<1>2. s \in Seq(Sort) /\ Len(s) = 1 /\ s[1] = e /\ (e \in Short => s \in Seq(Short))
  BY <1>1
<1>3. ASSUME NEW type \in {"delta"} \cup TextType \cup CallType PROVE Told(s, type) = <<>>
  <2>1. type # "completed" /\ type # "called"
    BY DEF TextType, CallType
  <2>2. 1 \in 1..Len(s) /\ \A i \in 1..Len(s) : s[i].type # type
    BY <1>2, <2>1
  <2>3. QED
    BY <1>2, <2>2, ToldOnce
<1>4. QED
  BY <1>1, <1>2, <1>3

\* The events of the calls tell the calls
LEMMA CallsTell ==
    ASSUME NEW cs \in Seq(Nat)
    PROVE  LET D == [i \in DOMAIN cs |-> CallDone(cs[i])]
           IN  /\ FlattenSeq(D) \in Seq(Sort)
               /\ LineCap >= 1 => FlattenSeq(D) \in Seq(Short)
               /\ \A type \in CallType : Told(FlattenSeq(D), type) = cs
<1> DEFINE D == [i \in DOMAIN cs |-> CallDone(cs[i])]
           n == Len(cs)
<1>1. n \in Nat /\ DOMAIN cs = 1..n /\ \A i \in 1..n : cs[i] \in Nat /\ cs[i] \in What
  BY DEF What
<1>2. /\ D \in Seq(Seq(Sort)) /\ Len(D) = n /\ \A i \in 1..n : D[i] = CallDone(cs[i])
      /\ LineCap >= 1 => D \in Seq(Seq(Short))
  <2>1. \A i \in 1..n : CallDone(cs[i]) \in Seq(Sort)
    BY <1>1, CallDoneTells
  <2>2. LineCap >= 1 => \A i \in 1..n : CallDone(cs[i]) \in Seq(Short)
    BY <1>1, CallDoneTells
  <2>3. D = [i \in 1..n |-> CallDone(cs[i])]
    BY <1>1
  <2> HIDE DEF Sort, Short
  <2>4. QED
    BY <1>1, <2>1, <2>2, <2>3
<1> HIDE DEF D
<1>3. /\ FlattenSeq(D) \in Seq(Sort) /\ Upto(D, n) = D
      /\ LineCap >= 1 => FlattenSeq(D) \in Seq(Short)
  <2>1. <<>> \in Seq(Seq(Sort)) /\ <<>> \in Seq(Seq(Short))
    OBVIOUS
  <2>2. FlattenSeq(D) \in Seq(Sort)
    BY <1>2, <2>1, FlattenConcat
  <2>3. LineCap >= 1 => FlattenSeq(D) \in Seq(Short)
    BY <1>2, <2>1, FlattenConcat
  <2>4. QED
    BY <1>2, <2>2, <2>3, UptoAll
<1>4. ASSUME NEW type \in CallType PROVE Told(FlattenSeq(D), type) = cs
  <2> DEFINE T(k) == Told(FlattenSeq(Upto(D, k)), type)
             Bad == {k \in 0..n : T(k) # Upto(cs, k)}
  <2>1. SUFFICES ASSUME Bad # {} PROVE FALSE
    <3>1. n \in 0..n /\ Upto(cs, n) = cs
      BY <1>1, UptoAll
    <3> HIDE DEF T
    <3>2. Bad = {} => T(n) = cs
      BY <3>1
    <3>3. QED
      BY <1>3, <3>2 DEF T
  <2>2. PICK k \in Bad : \A j \in Bad : k <= j
    <3>1. Bad \in SUBSET Nat
      BY <1>1
    <3> HIDE DEF Bad
    <3>2. QED
      BY <2>1, <3>1, LeastElement
  <2>3. k \in 0..n /\ k \in Nat /\ T(k) # Upto(cs, k)
    BY <1>1, <2>2
  <2> HIDE DEF Bad
  <2>4. k # 0
    <3>1. FlattenSeq(Upto(D, 0)) = <<>> /\ Upto(cs, 0) = <<>>
      BY FlattenNone DEF Upto
    <3>2. Told(<<>>, type) = <<>>
      BY DEF Told, FlattenSeq
    <3>3. QED
      BY <2>3, <3>1, <3>2
  <2>5. PICK j \in Nat : j + 1 = k /\ j \in 0..n /\ j < n
    BY <1>1, <2>3, <2>4
  <2>6. T(j) = Upto(cs, j)
    <3>1. j \notin Bad
      BY <2>2, <2>3, <2>5
    <3>2. QED
      BY <2>5, <3>1 DEF Bad
  <2>7. PICK f \in Seq(Sort) : f = FlattenSeq(Upto(D, j))
    BY <1>2, <2>5, FlattenStep
  <2>8. PICK g \in Seq(Sort) : g = D[k] /\ Told(g, type) = <<cs[k]>>
    <3>1. k \in 1..n
      BY <2>3, <2>4
    <3>2. CallDone(cs[k]) \in Seq(Sort) /\ Told(CallDone(cs[k]), type) = <<cs[k]>>
      BY <1>1, <3>1, CallDoneTells
    <3>3. QED
      BY <1>2, <3>1, <3>2
  <2>9. FlattenSeq(Upto(D, k)) = f \o g
    <3>1. FlattenSeq(Upto(D, j + 1)) = FlattenSeq(Upto(D, j)) \o D[j + 1]
      BY <1>2, <2>5, FlattenStep
    <3>2. QED
      BY <2>5, <2>7, <2>8, <3>1
  <2>10. T(k) = Upto(cs, j) \o <<cs[k]>>
    <3>1. Told(f \o g, type) = Told(f, type) \o Told(g, type)
      BY ToldConcat
    <3>2. QED
      BY <2>6, <2>7, <2>8, <2>9, <3>1
  <2>11. Upto(cs, j) \o <<cs[k]>> = Upto(cs, k)
    BY <1>1, <2>5 DEF Upto
  <2>12. QED
    BY <2>3, <2>10, <2>11
<1>5. QED
  BY <1>3, <1>4 DEF D

(***************************************************************************)
(* A response                                                              *)
(***************************************************************************)
RespTypes ==
    /\ stream \in BOOLEAN /\ asked \in BOOLEAN
    /\ stage \in {"call", "parse", "reply", "replied", "failed"}
    /\ stage = "parse" => api = "tools"
    /\ original \in Seq(Token) /\ events \in Seq(Sort)

\* What becomes of the text of the first answer
AnswerKept ==
    /\ api # "tools" => calls = <<>>
    /\ scan = "strip" => calls # <<>>
    /\ stage = "call" => ~asked
    /\ stage = "parse" /\ scan = "done" /\ calls = <<>> => rest = fullText
    /\ stage = "parse" /\ ~asked => fullText = accum
    /\ asked => api = "tools" /\ original = accum
    /\ stage = "reply" /\ api = "tools" /\ calls = <<>> => rest = accum

\* What the client has been told before the reply
EventsKept ==
    stage \in {"call", "parse", "reply"} =>
        /\ api = "tools" \/ ~stream \/ accum = <<>> => events = <<>>
        /\ api = "text" /\ stream /\ Len(accum) <= LineCap =>
             /\ Told(events, "delta") = accum
             /\ \A type \in TextType : Told(events, type) = <<>>

RespInv == WireInv /\ ToolTypeOK /\ RespTypes /\ AnswerKept /\ EventsKept /\ ReplyAddsUp

LEMMA AlphabetIsWhat ==
    /\ Seq(Alphabet) \subseteq Seq(What) /\ Seq(Token) \subseteq Seq(What)
    /\ Seq(Nat) \subseteq Seq(What)
<1>1. Alphabet \subseteq What /\ Token \subseteq What /\ Nat \subseteq What
  BY DEF Alphabet, What, Wired
<1> HIDE DEF What, Alphabet, Token
<1>2. \A S \in SUBSET What : Seq(S) \subseteq Seq(What)
  OBVIOUS
<1>3. QED
  BY <1>1, <1>2

LEMMA ToldNone == \A type : Told(<<>>, type) = <<>>
BY DEF Told, FlattenSeq

\* A token reaches a stream, and only a stream of text
LEMMA TokenTold ==
    ASSUME WireInv, RespTypes, EventsKept, api # "chat", stage = "call",
           NEW t \in Seq(Alphabet), OnRespToken(t)
    PROVE  /\ accum' = accum \o t /\ events' \in Seq(Sort)
           /\ api = "tools" \/ ~stream \/ accum' = <<>> => events' = <<>>
           /\ api = "text" /\ stream /\ Len(accum') <= LineCap =>
                /\ Told(events', "delta") = accum'
                /\ \A type \in TextType : Told(events', type) = <<>>
<1>1. /\ accum \in Seq(Alphabet) /\ accum' = accum \o t /\ events \in Seq(Sort)
      /\ Len(accum) \in Nat /\ Len(t) \in Nat
      /\ Len(accum') = Len(accum) + Len(t)
      /\ accum' = <<>> => accum = <<>> /\ t = <<>>
  <2>1. accum \in Seq(Alphabet) /\ accum' = accum \o t /\ events \in Seq(Sort)
    BY DEF OnRespToken, WireInv, Fed, RespTypes
  <2> HIDE DEF Alphabet, Sort
  <2>2. Len(accum') = Len(accum) + Len(t) /\ Len(accum) \in Nat /\ Len(t) \in Nat
    BY <2>1
  <2>3. ASSUME accum' = <<>> PROVE accum = <<>> /\ t = <<>>
    <3>1. Len(accum) = 0 /\ Len(t) = 0
      BY <2>2, <2>3
    <3>2. QED
      BY <2>1, <3>1
  <2>4. QED
    BY <2>1, <2>2, <2>3
<1>2. CASE t = <<>> \/ api = "tools" \/ ~stream
  <2>1. events' = events
    BY <1>2 DEF OnRespToken
  <2>2. api = "tools" \/ ~stream \/ accum' = <<>> => events' = <<>>
    BY <1>1, <2>1 DEF EventsKept
  <2>3. api = "text" /\ stream => accum' = accum
    <3>1. api = "text" /\ stream => t = <<>>
      BY <1>2
    <3> HIDE DEF Alphabet
    <3>2. accum \o <<>> = accum
      BY <1>1
    <3>3. QED
      BY <1>1, <3>1, <3>2
  <2>4. QED
    BY <1>1, <2>1, <2>2, <2>3 DEF EventsKept
<1>3. CASE ~(t = <<>> \/ api = "tools" \/ ~stream)
  <2> DEFINE old == IF accum = <<>> THEN Added ELSE events
             new == <<Event("delta", t)>>
  <2>1. events' = old \o Sent(new)
    BY <1>3 DEF OnRespToken
  <2>2. /\ old \in Seq(Sort) /\ new \in Seq(Sort) /\ Len(new) = 1
        /\ new[1].type = "delta" /\ new[1].what = t
        /\ Len(t) <= LineCap => new \in Seq(Short)
    <3>1. "delta" \in EventType /\ t \in Seq(What)
      BY AlphabetIsWhat DEF EventType
    <3>2. PICK e : e = Event("delta", t)
      OBVIOUS
    <3>3. e \in Sort /\ e.type = "delta" /\ e.what = t /\ (Len(t) <= LineCap => e \in Short)
      BY <3>1, <3>2, KindOfEvent
    <3> HIDE DEF Sort, Short, What, Alphabet
    <3>4. old \in Seq(Sort)
      BY <1>1, AddedTells
    <3>5. QED
      BY <3>2, <3>3, <3>4
  <2> HIDE DEF old, new
  <2>3. events' \in Seq(Sort)
    <3>1. Sent(new) \in Seq(Sort)
      BY <2>2, SentType
    <3> HIDE DEF Sort
    <3>2. QED
      BY <2>1, <2>2, <3>1
  <2>4. accum' # <<>> /\ api = "text" /\ stream
    BY <1>1, <1>3 DEF WireInv
  <2>5. ASSUME Len(accum') <= LineCap
        PROVE  /\ Told(events', "delta") = accum'
               /\ \A type \in TextType : Told(events', type) = <<>>
    <3>1. Len(t) <= LineCap /\ Len(accum) <= LineCap
      BY <1>1, <2>5, WireAssumption
    <3>2. Sent(new) = new
      BY <2>2, <3>1, SentType
    <3>3. Told(old, "delta") = accum /\ \A type \in TextType : Told(old, type) = <<>>
      <4>1. CASE accum = <<>>
        BY <4>1, AddedTells DEF old
      <4>2. CASE accum # <<>>
        BY <2>4, <3>1, <4>2 DEF old, EventsKept
      <4>3. QED
        BY <4>1, <4>2
    <3>4. Told(new, "delta") = t /\ \A type \in TextType : Told(new, type) = <<>>
      <4>1. \A type : Told(new, type) = IF new[1].type = type THEN new[1].what ELSE <<>>
        <5> TAKE type
        <5>1. 1 \in 1..Len(new) /\ \A i \in 1..Len(new) : i # 1 => new[i].type # type
          BY <2>2
        <5>2. QED
          BY <2>2, <5>1, ToldOnce
      <4>2. \A type \in TextType : type # "delta"
        BY DEF TextType
      <4>3. QED
        BY <2>2, <4>1, <4>2
    <3>5. \A type : Told(old \o new, type) = Told(old, type) \o Told(new, type)
      BY <2>2, ToldConcat
    <3>6. <<>> \o <<>> = <<>>
      OBVIOUS
    <3>7. QED
      BY <1>1, <2>1, <3>2, <3>3, <3>4, <3>5, <3>6
  <2>6. QED
    BY <1>1, <2>3, <2>4, <2>5
<1>4. QED
  BY <1>2, <1>3

\* What is known of the texts and the calls before the reply
LEMMA RespFacts ==
    ASSUME WireInv, ToolTypeOK, RespTypes, api # "chat"
    PROVE  /\ accum \in Seq(Alphabet) /\ accum \in Seq(What) /\ Len(accum) \in Nat
           /\ api = "tools" => accum \in Seq(Token)
           /\ calls \in Seq(Nat) /\ calls \in Seq(What) /\ Len(calls) \in Nat
           /\ rest \in Seq(Token) /\ rest \in Seq(What) /\ events \in Seq(Sort)
<1>1. accum \in Seq(Alphabet) /\ (api = "tools" => Alphabet = Token)
  BY DEF WireInv, Fed, Alphabet
<1>2. calls \in Seq(Nat)
  <2>1. calls \in Seq(1..Len(fullText)) /\ Len(fullText) \in Nat
    BY TextProperties DEF ToolTypeOK
  <2>2. QED
    BY <2>1
<1>3. rest \in Seq(Token) /\ events \in Seq(Sort)
  BY DEF ToolTypeOK, RespTypes
<1> HIDE DEF Alphabet, What, Sort, Token
<1>4. Len(accum) \in Nat /\ Len(calls) \in Nat
  BY <1>1, <1>2
<1>5. QED
  BY <1>1, <1>2, <1>3, <1>4, AlphabetIsWhat

\* What Reply sends of the answer before the last event
Before == IF api = "tools" THEN ResultEvents(rest, calls)
          ELSE IF accum = <<>> THEN <<>> ELSE TextDone(accum)

LEMMA BeforeTells ==
    ASSUME RespInv, api # "chat", stage = "reply"
    PROVE  /\ Before \in Seq(Sort)
           /\ stream /\ Len(accum) <= LineCap /\ Len(calls) <= LineCap => Before \in Seq(Short)
           /\ calls # <<>> => \A type \in CallType : Told(Before, type) = calls
           /\ calls = <<>> => \A type \in TextType : Told(Before, type) = accum
           /\ api = "text" => Told(Before, "delta") = <<>>
<1>1. /\ accum \in Seq(What) /\ Len(accum) \in Nat /\ calls \in Seq(Nat) /\ Len(calls) \in Nat
      /\ api \in {"text", "tools"} /\ (api = "text" => calls = <<>>)
      /\ api = "tools" /\ calls = <<>> => rest = accum
  BY RespFacts DEF RespInv, WireInv, AnswerKept
<1>2. CASE calls # <<>>
  <2>1. PICK D : D = [i \in DOMAIN calls |-> CallDone(calls[i])]
    OBVIOUS
  <2>2. Before = <<Added[1]>> \o FlattenSeq(D) /\ api = "tools"
    BY <1>1, <1>2, <2>1 DEF Before, ResultEvents
  <2>3. /\ FlattenSeq(D) \in Seq(Sort)
        /\ LineCap >= 1 => FlattenSeq(D) \in Seq(Short)
        /\ \A type \in CallType : Told(FlattenSeq(D), type) = calls
    BY <1>1, <2>1, CallsTell
  <2>4. Len(calls) <= LineCap => LineCap >= 1
    <3>1. Len(calls) # 0
      BY <1>1, <1>2
    <3>2. QED
      BY <1>1, <3>1, WireAssumption
  <2>5. \A type : Told(Before, type) = Told(<<Added[1]>>, type) \o Told(FlattenSeq(D), type)
    BY <2>2, <2>3, AddedTells, ToldConcat
  <2> HIDE DEF Sort, Short
  <2>6. \A s, t \in Seq(Sort) : s \o t \in Seq(Sort)
    OBVIOUS
  <2>7. \A s, t \in Seq(Short) : s \o t \in Seq(Short)
    OBVIOUS
  <2>8. <<>> \o calls = calls
    BY <1>1
  <2>9. QED
    BY <1>1, <1>2, <2>2, <2>3, <2>4, <2>5, <2>6, <2>7, <2>8, AddedTells
<1>3. CASE calls = <<>> /\ api = "tools"
  <2>1. Before = Added \o TextDone(accum)
    BY <1>1, <1>3 DEF Before, ResultEvents
  <2>2. /\ TextDone(accum) \in Seq(Sort)
        /\ Len(accum) <= LineCap => TextDone(accum) \in Seq(Short)
        /\ \A type \in TextType : Told(TextDone(accum), type) = accum
    BY <1>1, TextDoneTells
  <2>3. \A type : Told(Before, type) = Told(Added, type) \o Told(TextDone(accum), type)
    BY <2>1, <2>2, AddedTells, ToldConcat
  <2>4. <<>> \o accum = accum
    BY <1>1
  <2> HIDE DEF Sort, Short
  <2>5. \A s, t \in Seq(Sort) : s \o t \in Seq(Sort)
    OBVIOUS
  <2>6. \A s, t \in Seq(Short) : s \o t \in Seq(Short)
    OBVIOUS
  <2>7. QED
    BY <1>3, <2>1, <2>2, <2>3, <2>4, <2>5, <2>6, AddedTells
<1>4. CASE calls = <<>> /\ api = "text" /\ accum = <<>>
  <2>1. Before = <<>>
    BY <1>4 DEF Before
  <2>2. <<>> \in Seq(Sort) /\ <<>> \in Seq(Short)
    OBVIOUS
  <2>3. QED
    BY <1>4, <2>1, <2>2, ToldNone
<1>5. CASE calls = <<>> /\ api = "text" /\ accum # <<>>
  <2>1. Before = TextDone(accum)
    BY <1>5 DEF Before
  <2>2. QED
    BY <1>1, <1>5, <2>1, TextDoneTells
<1>6. QED
  BY <1>1, <1>2, <1>3, <1>4, <1>5

\* Joining what is told by the events, what comes before the last, and the last
LEMMA LastOf ==
    ASSUME NEW S, NEW a \in Seq(S), NEW b \in Seq(S), NEW e \in S
    PROVE  LET s == a \o (b \o <<e>>) IN s \in Seq(S) /\ s[Len(s)] = e
<1>1. PICK c : c = b \o <<e>>
  OBVIOUS
<1>2. c \in Seq(S) /\ Len(c) = Len(b) + 1 /\ c[Len(b) + 1] = e
  BY <1>1
<1>3. Len(a \o c) = Len(a) + Len(c) /\ a \o c \in Seq(S)
      /\ Len(a) \in Nat /\ Len(b) \in Nat
  BY <1>2
<1>4. (a \o c)[Len(a) + Len(c)] = c[Len(c)]
  BY <1>2
<1>5. QED
  BY <1>1, <1>2, <1>3, <1>4

LEMMA ReplyTells ==
    ASSUME RespInv, api # "chat", Reply
    PROVE  events' \in Seq(Sort) /\ ReplyAddsUp'
<1>1. /\ stage = "reply" /\ accum \in Seq(What) /\ Len(accum) \in Nat /\ calls \in Seq(What)
      /\ Len(calls) \in Nat /\ events \in Seq(Sort)
      /\ api \in {"text", "tools"} /\ (api = "text" => calls = <<>>)
      /\ api = "tools" /\ calls = <<>> => rest = accum
  BY RespFacts DEF RespInv, WireInv, AnswerKept, Reply
<1>2. PICK e : e = Completed(accum, calls)
  OBVIOUS
<1>3. /\ e \in Sort /\ e.type \in {"completed", "called"}
      /\ Len(accum) <= LineCap /\ Len(calls) <= LineCap => e \in Short
      /\ e = IF calls # <<>> THEN Event("called", calls) ELSE Event("completed", accum)
  BY <1>1, <1>2, CompletedTells DEF Completed
<1>4. /\ <<e>> \in Seq(Sort) /\ (e \in Short => <<e>> \in Seq(Short))
      /\ \A type \in {"delta"} \cup TextType \cup CallType : Told(<<e>>, type) = <<>>
  BY <1>3, LastTells
<1>5. /\ events' = IF stream THEN events \o Sent(Before \o <<e>>) ELSE <<e>>
      /\ UNCHANGED <<toolVars, streamVars, body, arrived, api, stream, accum, original, asked>>
  <2>1. Completed(IF api = "text" THEN accum ELSE rest, calls) = e
    BY <1>1, <1>2 DEF Completed
  <2>2. Before = IF api = "tools" THEN ResultEvents(IF api = "text" THEN accum ELSE rest, calls)
                 ELSE IF (IF api = "text" THEN accum ELSE rest) = <<>> THEN <<>>
                 ELSE TextDone(IF api = "text" THEN accum ELSE rest)
    BY <1>1 DEF Before
  <2>3. QED
    BY <2>1, <2>2 DEF Reply
<1>6. UNCHANGED <<calls, api, stream, accum>>
  BY <1>5 DEF toolVars
<1>7. CASE ~stream
  <2>1. events' = <<e>>
    BY <1>5, <1>7
  <2>2. Len(<<e>>) = 1 /\ <<e>>[1] = e
    OBVIOUS
  <2>3. events'[Len(events')] = e
    BY <2>1, <2>2
  <2>4. QED
    BY <1>3, <1>4, <1>6, <1>7, <2>1, <2>3 DEF ReplyAddsUp
<1>8. CASE stream
  <2>1. PICK b : b = Before
    OBVIOUS
  <2>2. /\ b \in Seq(Sort)
        /\ Len(accum) <= LineCap /\ Len(calls) <= LineCap => b \in Seq(Short)
        /\ calls # <<>> => \A type \in CallType : Told(b, type) = calls
        /\ calls = <<>> => \A type \in TextType : Told(b, type) = accum
        /\ api = "text" => Told(b, "delta") = <<>>
    BY <1>1, <1>8, <2>1, BeforeTells
  <2>3. PICK m : m = b \o <<e>>
    OBVIOUS
  <2>4. m \in Seq(Sort)
    BY <1>3, <2>2, <2>3
  <2>5. events' \in Seq(Sort)
    <3>1. Sent(m) \in Seq(Sort)
      BY <2>4, SentType
    <3> HIDE DEF Sort
    <3>2. QED
      BY <1>1, <1>5, <1>8, <2>1, <2>3, <3>1, SMTT(60)
  <2>6. ASSUME Len(accum) <= LineCap, Len(calls) <= LineCap
        PROVE  /\ events' = events \o m
               /\ events'[Len(events')] = e
               /\ calls # <<>> => \A type \in CallType : Told(events', type) = calls
               /\ calls = <<>> => \A type \in TextType : Told(events', type) = accum
               /\ api = "text" => Told(events', "delta") = accum
    <3>1. Sent(m) = m
      <4>1. b \in Seq(Short) /\ <<e>> \in Seq(Short)
        BY <1>3, <1>4, <2>2, <2>6
      <4>2. m \in Seq(Short)
        <5> HIDE DEF Short
        <5>1. QED
          BY <2>3, <4>1
      <4>3. QED
        BY <2>4, <4>2, SentType
    <3>2. events' = events \o m
      BY <1>5, <1>8, <2>1, <2>3, <3>1
    <3>3. events'[Len(events')] = e
      <4> HIDE DEF Sort
      <4>1. QED
        BY <1>1, <1>3, <2>2, <2>3, <3>2, LastOf
    <3>4. \A type : Told(events', type) = Told(events, type) \o (Told(b, type) \o Told(<<e>>, type))
      <4>1. \A type : Told(m, type) = Told(b, type) \o Told(<<e>>, type)
        BY <1>4, <2>2, <2>3, ToldConcat
      <4>2. \A type : Told(events \o m, type) = Told(events, type) \o Told(m, type)
        BY <1>1, <2>4, ToldConcat
      <4>3. QED
        BY <3>2, <4>1, <4>2
    <3> HIDE DEF What
    <3>5. /\ <<>> \o (calls \o <<>>) = calls /\ <<>> \o (accum \o <<>>) = accum
          /\ accum \o (<<>> \o <<>>) = accum
      BY <1>1
    <3>6. /\ api = "tools" => events = <<>>
          /\ api = "text" => /\ Told(events, "delta") = accum
                             /\ \A type \in TextType : Told(events, type) = <<>>
      BY <1>1, <1>8, <2>6 DEF RespInv, EventsKept
    <3>7. ASSUME calls # <<>>, NEW type \in CallType PROVE Told(events', type) = calls
      <4>1. Told(events, type) = <<>>
        BY <1>1, <3>6, <3>7, ToldNone
      <4>2. QED
        BY <1>4, <2>2, <3>4, <3>5, <3>7, <4>1
    <3>8. ASSUME calls = <<>>, NEW type \in TextType PROVE Told(events', type) = accum
      <4>1. Told(events, type) = <<>>
        BY <1>1, <3>6, ToldNone
      <4>2. QED
        BY <1>4, <2>2, <3>4, <3>5, <3>8, <4>1
    <3>9. ASSUME api = "text" PROVE Told(events', "delta") = accum
      BY <1>4, <2>2, <3>4, <3>5, <3>6, <3>9
    <3>10. QED
      BY <3>2, <3>3, <3>7, <3>8, <3>9
  <2>7. QED
    BY <1>3, <1>6, <1>8, <2>5, <2>6 DEF ReplyAddsUp, CallType, TextType
<1>9. QED
  BY <1>7, <1>8 DEF RespInv, RespTypes

LEMMA RespStart == RespInit => RespInv
<1> SUFFICES ASSUME RespInit PROVE RespInv
  OBVIOUS
<1>1. WireInv /\ ToolTypeOK
  BY WireStart, ToolInitTypeOK DEF RespInit
<1>2. /\ stage = "call" /\ accum = <<>> /\ original = <<>> /\ asked = FALSE /\ events = <<>>
      /\ stream \in BOOLEAN /\ calls = <<>> /\ scan = "none"
  BY DEF RespInit, ToolInit
<1>3. RespTypes /\ AnswerKept /\ ReplyAddsUp
  <2>1. <<>> \in Seq(Sort) /\ <<>> \in Seq(Token)
    OBVIOUS
  <2>2. QED
    BY <1>2, <2>1 DEF RespTypes, AnswerKept, ReplyAddsUp
<1>4. EventsKept
  BY <1>2, ToldNone DEF EventsKept
<1>5. QED
  BY <1>1, <1>3, <1>4 DEF RespInv

\* Nothing but TryParse and the loops touches the parser
LEMMA RespStays ==
    ASSUME RespInv, UNCHANGED <<toolVars, respVars>>
    PROVE  ToolTypeOK' /\ RespTypes' /\ AnswerKept' /\ EventsKept' /\ ReplyAddsUp'
<1>1. /\ UNCHANGED <<fullText, scan, p, calls, rest, beat>>
      /\ UNCHANGED <<api, stream, stage, accum, original, asked, events>>
  BY DEF toolVars, respVars
<1>2. ToolTypeOK'
  BY <1>1 DEF RespInv, ToolTypeOK
<1>3. RespTypes' /\ AnswerKept'
  BY <1>1 DEF RespInv, RespTypes, AnswerKept
<1>4. EventsKept' /\ ReplyAddsUp'
  BY <1>1 DEF RespInv, EventsKept, ReplyAddsUp, Told
<1>5. QED
  BY <1>2, <1>3, <1>4

LEMMA RespLineStep ==
    ASSUME RespInv, api # "chat", RespLine
    PROVE  ToolTypeOK' /\ RespTypes' /\ AnswerKept' /\ EventsKept' /\ ReplyAddsUp'
<1>1. /\ stage = "call" /\ TakeLine /\ OnRespToken(TextOf(FirstLine))
      /\ UNCHANGED <<body, arrived, api, stream, stage, original, asked, toolVars>>
  BY DEF RespLine
<1>2. TextOf(FirstLine) \in Seq(Alphabet)
  BY <1>1, LineWire DEF RespInv
<1>3. /\ accum' = accum \o TextOf(FirstLine) /\ events' \in Seq(Sort)
      /\ api = "tools" \/ ~stream \/ accum' = <<>> => events' = <<>>
      /\ api = "text" /\ stream /\ Len(accum') <= LineCap =>
           /\ Told(events', "delta") = accum'
           /\ \A type \in TextType : Told(events', type) = <<>>
  BY <1>1, <1>2, TokenTold DEF RespInv
<1>4. UNCHANGED <<fullText, scan, p, calls, rest, beat, api, stream, stage, original, asked>>
  BY <1>1 DEF toolVars
<1>5. ToolTypeOK' /\ RespTypes'
  BY <1>3, <1>4 DEF RespInv, ToolTypeOK, RespTypes
<1>6. AnswerKept' /\ EventsKept' /\ ReplyAddsUp'
  BY <1>1, <1>3, <1>4 DEF RespInv, AnswerKept, EventsKept, ReplyAddsUp
<1>7. QED
  BY <1>5, <1>6

LEMMA RespEndStep ==
    ASSUME RespInv, api # "chat", RespEnd
    PROVE  ToolTypeOK' /\ RespTypes' /\ AnswerKept' /\ EventsKept' /\ ReplyAddsUp'
<1>1. /\ stage = "call" /\ TakeRest /\ OnRespToken(TextOf(buffer))
      /\ \/ stage' = "failed" /\ UNCHANGED toolVars
         \/ api = "text" /\ stage' = "reply" /\ UNCHANGED toolVars
         \/ api = "tools" /\ stage' = "parse" /\ TryParse(accum')
      /\ UNCHANGED <<body, arrived, api, stream, original, asked>>
  BY DEF RespEnd
<1>2. TextOf(buffer) \in Seq(Alphabet)
  BY <1>1, RestWire DEF RespInv
<1>3. /\ accum' = accum \o TextOf(buffer) /\ events' \in Seq(Sort)
      /\ api = "tools" \/ ~stream \/ accum' = <<>> => events' = <<>>
      /\ api = "text" /\ stream /\ Len(accum') <= LineCap =>
           /\ Told(events', "delta") = accum'
           /\ \A type \in TextType : Told(events', type) = <<>>
  BY <1>1, <1>2, TokenTold DEF RespInv
<1>4. CASE UNCHANGED toolVars /\ stage' \in {"failed", "reply"} /\ (stage' = "reply" => api = "text")
  <2>1. UNCHANGED <<fullText, scan, p, calls, rest, beat, api, stream, original, asked>>
    BY <1>1, <1>4 DEF toolVars
  <2>2. ToolTypeOK' /\ RespTypes'
    BY <1>3, <1>4, <2>1 DEF RespInv, ToolTypeOK, RespTypes
  <2>3. AnswerKept' /\ EventsKept' /\ ReplyAddsUp'
    BY <1>1, <1>3, <1>4, <2>1 DEF RespInv, AnswerKept, EventsKept, ReplyAddsUp
  <2>4. QED
    BY <2>2, <2>3
<1>5. CASE api = "tools" /\ stage' = "parse" /\ TryParse(accum')
  <2>1. accum' \in Seq(Token)
    <3>1. accum \in Seq(Token) /\ TextOf(buffer) \in Seq(Token)
      BY <1>2, <1>5, RespFacts DEF RespInv, Alphabet
    <3> HIDE DEF Token
    <3>2. QED
      BY <1>3, <3>1
  <2>2. ToolTypeOK'
    <3>1. PICK t \in Seq(Token) : t = accum'
      BY <2>1
    <3>2. TryParse(t)
      BY <1>5, <3>1
    <3>3. QED
      BY <3>2, ParseTypeOK
  <2>3. fullText' = accum' /\ scan' = "blocks" /\ calls' = <<>>
    BY <1>5 DEF TryParse
  <2>4. RespTypes'
    BY <1>1, <1>3, <1>5 DEF RespInv, RespTypes
  <2>5. AnswerKept' /\ EventsKept' /\ ReplyAddsUp'
    BY <1>1, <1>3, <1>5, <2>3 DEF RespInv, AnswerKept, EventsKept, ReplyAddsUp
  <2>6. QED
    BY <2>2, <2>4, <2>5
<1>6. QED
  BY <1>1, <1>4, <1>5

LEMMA RespScanStep ==
    ASSUME RespInv, api # "chat", RespScan
    PROVE  ToolTypeOK' /\ RespTypes' /\ AnswerKept' /\ EventsKept' /\ ReplyAddsUp'
<1>1. /\ stage = "parse" /\ Scan
      /\ UNCHANGED <<api, stream, stage, accum, original, asked, events>>
  BY DEF RespScan, respVars
<1>2. ToolTypeOK'
  BY <1>1, ScanTypeOK DEF RespInv
<1>3. RespTypes' /\ EventsKept' /\ ReplyAddsUp'
  BY <1>1 DEF RespInv, RespTypes, EventsKept, ReplyAddsUp
<1>4. /\ fullText' = fullText /\ api = "tools"
      /\ scan = "strip" => calls # <<>>
      /\ scan \in {"blocks", "strip", "loose"}
      /\ scan' = "strip" => calls' # <<>>
      /\ scan' = "done" /\ calls' = <<>> => rest' = fullText'
  <2>1. api = "tools" /\ (scan = "strip" => calls # <<>>)
    BY <1>1 DEF RespInv, RespTypes, AnswerKept
  <2>2. CASE TakeBlock
    BY <2>1, <2>2 DEF TakeBlock
  <2>3. CASE StripBlock
    BY <2>1, <2>3 DEF StripBlock
  <2>4. CASE SkipName
    BY <2>1, <2>4 DEF SkipName
  <2>5. CASE TakeObject
    BY <2>1, <2>5 DEF TakeObject
  <2>6. CASE NoMoreBlocks
    BY <2>1, <2>6 DEF NoMoreBlocks
  <2>7. CASE StripRest
    BY <2>1, <2>7 DEF StripRest
  <2>8. CASE NoMoreNames
    BY <2>1, <2>8 DEF NoMoreNames
  <2>9. QED
    BY <1>1, <2>2, <2>3, <2>4, <2>5, <2>6, <2>7, <2>8 DEF Scan, Turn
<1>5. AnswerKept'
  BY <1>1, <1>4 DEF RespInv, AnswerKept
<1>6. QED
  BY <1>2, <1>3, <1>5

LEMMA AskAgainStep ==
    ASSUME RespInv, api # "chat", AskAgain
    PROVE  ToolTypeOK' /\ RespTypes' /\ AnswerKept' /\ EventsKept' /\ ReplyAddsUp'
<1>1. /\ stage = "parse" /\ scan = "done" /\ calls = <<>> /\ ~asked
      /\ asked' = TRUE /\ original' = rest
      /\ UNCHANGED <<api, stream, accum, events>>
  BY DEF AskAgain
<1>2. rest = fullText /\ fullText = accum /\ rest \in Seq(Token) /\ api = "tools"
  BY <1>1 DEF RespInv, RespTypes, AnswerKept, ToolTypeOK
<1>3. CASE \E t \in Answer : TryParse(t) /\ UNCHANGED stage
  <2>1. PICK t \in Seq(Token) : TryParse(t) /\ UNCHANGED stage
    BY <1>3, ToolAssumption
  <2>2. ToolTypeOK'
    BY <2>1, ParseTypeOK
  <2>3. scan' = "blocks" /\ stage' = stage
    BY <2>1 DEF TryParse
  <2>4. RespTypes'
    BY <1>1, <1>2, <2>3 DEF RespInv, RespTypes
  <2>5. AnswerKept' /\ EventsKept' /\ ReplyAddsUp'
    BY <1>1, <1>2, <2>3 DEF RespInv, AnswerKept, EventsKept, ReplyAddsUp
  <2>6. QED
    BY <2>2, <2>4, <2>5
<1>4. CASE stage' = "reply" /\ UNCHANGED toolVars
  <2>1. UNCHANGED <<fullText, scan, p, calls, rest, beat>>
    BY <1>4 DEF toolVars
  <2>2. ToolTypeOK' /\ RespTypes'
    BY <1>1, <1>2, <1>4, <2>1 DEF RespInv, ToolTypeOK, RespTypes
  <2>3. AnswerKept' /\ EventsKept' /\ ReplyAddsUp'
    BY <1>1, <1>2, <1>4, <2>1 DEF RespInv, AnswerKept, EventsKept, ReplyAddsUp
  <2>4. QED
    BY <2>2, <2>3
<1>5. QED
  BY <1>3, <1>4 DEF AskAgain

LEMMA ParsedStep ==
    ASSUME RespInv, api # "chat", Parsed
    PROVE  ToolTypeOK' /\ RespTypes' /\ AnswerKept' /\ EventsKept' /\ ReplyAddsUp'
<1>1. /\ stage = "parse" /\ scan = "done" /\ (calls # <<>> \/ asked) /\ stage' = "reply"
      /\ rest' = IF calls = <<>> THEN original ELSE rest
      /\ UNCHANGED <<fullText, scan, p, calls, beat, api, stream, accum, original, asked, events>>
  BY DEF Parsed
<1>2. original \in Seq(Token) /\ (calls = <<>> => original = accum) /\ api = "tools"
  BY <1>1 DEF RespInv, RespTypes, AnswerKept
<1>3. ToolTypeOK'
  BY <1>1, <1>2 DEF RespInv, ToolTypeOK
<1>4. RespTypes' /\ AnswerKept' /\ EventsKept' /\ ReplyAddsUp'
  BY <1>1, <1>2 DEF RespInv, RespTypes, AnswerKept, EventsKept, ReplyAddsUp
<1>5. QED
  BY <1>3, <1>4

LEMMA ReplyStep ==
    ASSUME RespInv, api # "chat", Reply
    PROVE  ToolTypeOK' /\ RespTypes' /\ AnswerKept' /\ EventsKept' /\ ReplyAddsUp'
<1>1. events' \in Seq(Sort) /\ ReplyAddsUp'
  BY ReplyTells
<1>2. /\ stage = "reply" /\ stage' = "replied"
      /\ UNCHANGED <<fullText, scan, p, calls, rest, beat, api, stream, accum, original, asked>>
  BY DEF Reply, toolVars
<1>3. ToolTypeOK'
  BY <1>2 DEF RespInv, ToolTypeOK
<1>4. RespTypes' /\ AnswerKept' /\ EventsKept'
  BY <1>1, <1>2 DEF RespInv, RespTypes, AnswerKept, EventsKept
<1>5. QED
  BY <1>1, <1>3, <1>4

LEMMA RespStep == RespInv /\ [RespNext]_allVars => RespInv'
<1> SUFFICES ASSUME RespInv, [RespNext]_allVars PROVE RespInv'
  OBVIOUS
<1>1. WireInv'
  BY WireStep DEF RespInv
<1>2. CASE UNCHANGED <<toolVars, respVars>>
  BY <1>1, <1>2, RespStays DEF RespInv
<1>3. CASE api # "chat" /\ Respond
  <2>1. CASE RespReceive
    BY <1>2, <2>1 DEF RespReceive
  <2>2. QED
    BY <1>1, <1>3, <2>1, RespLineStep, RespEndStep, RespScanStep, AskAgainStep, ParsedStep,
       ReplyStep DEF Respond, RespInv
<1>4. QED
  BY <1>2, <1>3 DEF RespNext, allVars

LEMMA RespAlways == RespSpec => []RespInv
BY RespStart, RespStep, PTL DEF RespSpec

\* The types of everything a response is made of, and nothing but an answer
\* to a request with tools is parsed, whatever UvA sends.
THEOREM RespTypeCorrect == RespSpec => []RespTypeOK
<1>1. RespInv /\ TypeOK => RespTypeOK
  <2> SUFFICES ASSUME RespInv, TypeOK PROVE RespTypeOK
    OBVIOUS
  <2>1. events \in Seq(Sort)
    BY DEF RespInv, RespTypes
  <2>2. \A i \in DOMAIN events : events[i] \in Sort
    <3> HIDE DEF Sort
    <3>1. QED
      BY <2>1
  <2>3. \A i \in DOMAIN events : events[i].type \in EventType
    BY <2>2 DEF Sort
  <2>4. QED
    BY <2>3 DEF RespInv, RespTypes, WireInv, RespTypeOK
<1>2. RespSpec => []TypeOK
  BY ChatThinks, TypeCorrect, PTL
<1>3. QED
  BY <1>1, <1>2, RespAlways, PTL

\* Of a response, the client is told the calls that were found or else the
\* text of the first answer, and in a stream what it is told bit by bit adds
\* up to that: for any answers, any chunks and any second answer.
THEOREM ReplyIsWhole == RespSpec => []ReplyAddsUp
<1>1. RespInv => ReplyAddsUp
  BY DEF RespInv
<1>2. QED
  BY <1>1, RespAlways, PTL

(***************************************************************************)
(* The calls of a text                                                     *)
(***************************************************************************)
\* Reading, by steps
ReadStep(r, i) ==
    LET opens == {OpenTool, OpenFunc}
        closes == IF fullText[r.open] = OpenTool THEN CloseTool ELSE CloseFunc
    IN  IF r.open = 0
          THEN [r EXCEPT !.open = IF fullText[i] \in opens THEN i ELSE 0]
        ELSE IF fullText[i] = closes
          THEN [open |-> 0, blocks |-> Append(r.blocks, <<r.open, i>>)]
        ELSE r

ReadInit == [open |-> 0, blocks |-> <<>>]
Reads(f, k) == f = [i \in 0..k |-> IF i = 0 THEN ReadInit ELSE ReadStep(f[i - 1], i)]

LEMMA ReadingExists ==
    ASSUME NEW n \in Nat
    PROVE  \E f : Reads(f, n)
<1> DEFINE Bad == {k \in 0..n : ~\E f : Reads(f, k)}
<1>1. SUFFICES ASSUME Bad # {} PROVE FALSE
  BY DEF Bad
<1>2. PICK k \in Bad : \A j \in Bad : k <= j
  <2>1. Bad \in SUBSET Nat
    OBVIOUS
  <2> HIDE DEF Bad
  <2>2. QED
    BY <1>1, <2>1, LeastElement
<1>3. k # 0
  <2>1. PICK f : f = [i \in 0..0 |-> IF i = 0 THEN ReadInit ELSE ReadInit]
    OBVIOUS
  <2>2. \A i \in 0..0 : i = 0
    OBVIOUS
  <2>3. f = [i \in 0..0 |-> IF i = 0 THEN ReadInit ELSE ReadStep(f[i - 1], i)]
    BY <2>1, <2>2
  <2>4. QED
    BY <2>3 DEF Reads
<1>4. PICK f : Reads(f, k - 1)
  <2>1. k - 1 \in 0..n /\ ~(k <= k - 1)
    BY <1>3
  <2>2. QED
    BY <1>2, <2>1
<1>5. PICK g : g = [i \in 0..k |-> IF i = k THEN ReadStep(f[k - 1], k) ELSE f[i]]
  OBVIOUS
<1>6. Reads(g, k)
  <2>1. \A i \in 0..k : g[i] = IF i = 0 THEN ReadInit ELSE ReadStep(g[i - 1], i)
    <3> SUFFICES ASSUME NEW i \in 0..k
                 PROVE  g[i] = IF i = 0 THEN ReadInit ELSE ReadStep(g[i - 1], i)
      OBVIOUS
    <3>1. CASE i = k
      <4>1. k - 1 \in 0..k /\ k - 1 # k
        BY <1>3
      <4>2. g[k - 1] = f[k - 1]
        BY <1>5, <4>1
      <4>3. QED
        BY <1>3, <1>5, <3>1, <4>2
    <3>2. CASE i # k
      <4>1. i \in 0..(k - 1) /\ (i # 0 => i - 1 \in 0..k /\ i - 1 # k)
        BY <3>2
      <4>2. f[i] = IF i = 0 THEN ReadInit ELSE ReadStep(f[i - 1], i)
        BY <1>4, <4>1 DEF Reads
      <4>3. i # 0 => g[i - 1] = f[i - 1]
        BY <1>5, <4>1
      <4>4. QED
        BY <1>5, <3>2, <4>2, <4>3
    <3>3. QED
      BY <3>1, <3>2
  <2>2. QED
    BY <1>5, <2>1 DEF Reads
<1>7. QED
  BY <1>2, <1>6

LEMMA ReadingIs ==
    ASSUME Len(fullText) \in Nat
    PROVE  /\ Reading[0] = ReadInit
           /\ \A i \in 1..Len(fullText) : Reading[i] = ReadStep(Reading[i - 1], i)
<1>1. \E f : Reads(f, Len(fullText))
  BY ReadingExists
<1>2. Reads(Reading, Len(fullText))
  BY <1>1 DEF Reads, ReadStep, ReadInit, Reading
<1>3. QED
  BY <1>2 DEF Reads

Block == Nat \X Nat
Readings == [open : Nat, blocks : Seq(Block)]

\* A block is in the text that has been read
ReadOK(r, i) ==
    /\ r \in Readings /\ r.open <= i
    /\ \A k \in 1..Len(r.blocks) :
          1 <= r.blocks[k][1] /\ r.blocks[k][1] < r.blocks[k][2] /\ r.blocks[k][2] <= i

LEMMA ReadStepOK ==
    ASSUME NEW i \in Nat, NEW r, ReadOK(r, i)
    PROVE  ReadOK(ReadStep(r, i + 1), i + 1)
<1>1. r \in Readings /\ r.open \in Nat /\ r.blocks \in Seq(Block) /\ r.open <= i
      /\ r = [open |-> r.open, blocks |-> r.blocks]
  BY DEF ReadOK, Readings
<1>2. \A k \in 1..Len(r.blocks) :
        /\ 1 <= r.blocks[k][1] /\ r.blocks[k][1] < r.blocks[k][2] /\ r.blocks[k][2] <= i
        /\ r.blocks[k][1] \in Nat /\ r.blocks[k][2] \in Nat
  BY <1>1 DEF ReadOK, Block
<1>3. CASE r.open = 0
  <2>1. PICK o \in {0, i + 1} : ReadStep(r, i + 1) = [open |-> o, blocks |-> r.blocks]
    BY <1>1, <1>3 DEF ReadStep
  <2>2. o \in Nat /\ o <= i + 1
    OBVIOUS
  <2>3. \A k \in 1..Len(r.blocks) : r.blocks[k][2] <= i + 1
    BY <1>2
  <2>4. QED
    BY <1>1, <1>2, <2>1, <2>2, <2>3 DEF ReadOK, Readings
<1>4. CASE r.open # 0 /\ ReadStep(r, i + 1) = r
  <2>1. \A k \in 1..Len(r.blocks) : r.blocks[k][2] <= i + 1
    BY <1>2
  <2>2. r.open <= i + 1
    BY <1>1
  <2>3. QED
    BY <1>1, <1>2, <1>4, <2>1, <2>2 DEF ReadOK
<1>5. CASE r.open # 0 /\ ReadStep(r, i + 1) = [open |-> 0, blocks |-> Append(r.blocks, <<r.open, i + 1>>)]
  <2>1. PICK b \in Block : b = <<r.open, i + 1>>
    <3>1. \A o, e \in Nat : <<o, e>> \in Block
      BY DEF Block
    <3>2. r.open \in Nat /\ i + 1 \in Nat
      BY <1>1
    <3>3. QED
      BY <3>1, <3>2
  <2>2. b[1] = r.open /\ b[2] = i + 1
    BY <2>1
  <2>3. PICK s : s = Append(r.blocks, b)
    OBVIOUS
  <2>4. s \in Seq(Block) /\ Len(s) = Len(r.blocks) + 1 /\ Len(r.blocks) \in Nat
    BY <1>1, <2>3
  <2>5. ASSUME NEW k \in 1..Len(s) PROVE 1 <= s[k][1] /\ s[k][1] < s[k][2] /\ s[k][2] <= i + 1
    <3>1. CASE k \in 1..Len(r.blocks)
      <4>1. s[k] = r.blocks[k]
        BY <1>1, <2>3, <3>1
      <4>2. QED
        BY <1>2, <3>1, <4>1
    <3>2. CASE k = Len(r.blocks) + 1
      <4>1. s[k] = b
        BY <1>1, <2>3, <3>2
      <4>2. QED
        BY <1>1, <1>5, <2>2, <4>1
    <3>3. QED
      BY <2>4, <3>1, <3>2
  <2>6. PICK q : q = [open |-> 0, blocks |-> s]
    OBVIOUS
  <2>7. q \in Readings /\ q.open = 0 /\ q.blocks = s
    BY <2>4, <2>6 DEF Readings
  <2>8. 0 <= i + 1
    OBVIOUS
  <2>9. ReadOK(q, i + 1)
    BY <2>5, <2>7, <2>8 DEF ReadOK
  <2>10. QED
    BY <1>5, <2>1, <2>3, <2>6, <2>9
<1>6. QED
  BY <1>3, <1>4, <1>5 DEF ReadStep

LEMMA ReadingOK ==
    ASSUME Len(fullText) \in Nat
    PROVE  \A i \in 0..Len(fullText) : ReadOK(Reading[i], i)
<1> DEFINE Bad == {i \in 0..Len(fullText) : ~ReadOK(Reading[i], i)}
<1>1. SUFFICES ASSUME Bad # {} PROVE FALSE
  OBVIOUS
<1>2. PICK i \in Bad : \A j \in Bad : i <= j
  <2>1. Bad \in SUBSET Nat
    OBVIOUS
  <2> HIDE DEF Bad
  <2>2. QED
    BY <1>1, <2>1, LeastElement
<1>3. i \in 0..Len(fullText) /\ i \in Nat /\ ~ReadOK(Reading[i], i)
  BY <1>2
<1> HIDE DEF Bad
<1>4. CASE i = 0
  <2>1. Reading[0] = ReadInit
    BY ReadingIs
  <2>2. ReadInit \in Readings /\ ReadInit.open = 0 /\ ReadInit.blocks = <<>>
    BY DEF ReadInit, Readings
  <2>3. 1..Len(<<>>) = {}
    OBVIOUS
  <2>4. ReadOK(ReadInit, 0)
    BY <2>2, <2>3 DEF ReadOK
  <2>5. QED
    BY <1>3, <1>4, <2>1, <2>4
<1>5. CASE i # 0
  <2>1. PICK j \in Nat : j + 1 = i /\ j = i - 1 /\ j \in 0..Len(fullText) /\ i \in 1..Len(fullText)
    BY <1>3, <1>5
  <2>2. ReadOK(Reading[j], j)
    <3>1. j \notin Bad
      BY <1>2, <1>3, <2>1
    <3>2. QED
      BY <2>1, <3>1 DEF Bad
  <2>3. Reading[i] = ReadStep(Reading[j], i)
    BY <2>1, ReadingIs
  <2>4. QED
    BY <1>3, <2>1, <2>2, <2>3, ReadStepOK
<1>6. QED
  BY <1>4, <1>5

LEMMA AppendLater ==
    \A s, t \in Seq(Block), e \in Block : Append(s \o t, e) = s \o Append(t, e)
<1> TAKE s \in Seq(Block), t \in Seq(Block), e \in Block
<1>1. Append(s \o t, e) \in Seq(Block) /\ s \o Append(t, e) \in Seq(Block)
  OBVIOUS
<1>2. Len(Append(s \o t, e)) = Len(s) + Len(t) + 1 /\ Len(s \o Append(t, e)) = Len(s) + Len(t) + 1
  OBVIOUS
<1>3. \A i \in 1..(Len(s) + Len(t) + 1) : Append(s \o t, e)[i] = (s \o Append(t, e))[i]
  OBVIOUS
<1>4. QED
  BY <1>1, <1>2, <1>3, SeqEqual

\* What changes nothing at any position changes nothing
LEMMA ReadStays ==
    ASSUME Len(fullText) \in Nat, NEW i \in 0..Len(fullText), NEW j \in i..Len(fullText),
           \A k \in (i + 1)..j : ReadStep(Reading[i], k) = Reading[i]
    PROVE  Reading[j] = Reading[i]
<1> DEFINE Bad == {k \in i..j : Reading[k] # Reading[i]}
<1>1. SUFFICES ASSUME Bad # {} PROVE FALSE
  OBVIOUS
<1>2. PICK k \in Bad : \A l \in Bad : k <= l
  <2>1. Bad \in SUBSET Nat
    OBVIOUS
  <2> HIDE DEF Bad
  <2>2. QED
    BY <1>1, <2>1, LeastElement
<1>3. k \in (i + 1)..j /\ k \in 1..Len(fullText)
  BY <1>2
<1>4. Reading[k - 1] = Reading[i]
  <2>1. k - 1 \in i..j /\ ~(k <= k - 1)
    BY <1>3
  <2>2. QED
    BY <1>2, <2>1
<1>5. Reading[k] = ReadStep(Reading[i], k)
  BY <1>3, <1>4, ReadingIs
<1>6. QED
  BY <1>2, <1>3, <1>5

\* The blocks that are read once none is open begin behind that
LEMMA ReadGrows ==
    ASSUME Len(fullText) \in Nat, NEW i \in 0..Len(fullText), NEW j \in i..Len(fullText),
           Reading[i].open = 0
    PROVE  \E m \in Seq(Block) :
              /\ Reading[j].blocks = Reading[i].blocks \o m
              /\ \A k \in 1..Len(m) : m[k][1] > i
<1> DEFINE Grows(n) == /\ Reading[n].open = 0 \/ Reading[n].open > i
                       /\ \E m \in Seq(Block) :
                             /\ Reading[n].blocks = Reading[i].blocks \o m
                             /\ \A k \in 1..Len(m) : m[k][1] > i
           Bad == {n \in i..j : ~Grows(n)}
<1>1. SUFFICES ASSUME Bad # {} PROVE FALSE
  <2>1. j \in i..j
    OBVIOUS
  <2> HIDE DEF Grows
  <2>2. Bad = {} => Grows(j)
    BY <2>1
  <2>3. QED
    BY <2>2 DEF Grows
<1>2. PICK n \in Bad : \A l \in Bad : n <= l
  <2>1. Bad \in SUBSET Nat
    OBVIOUS
  <2> HIDE DEF Bad
  <2>2. QED
    BY <1>1, <2>1, LeastElement
<1> HIDE DEF Grows
<1>3. n \in i..j /\ n \in 0..Len(fullText) /\ n \in Nat /\ ~Grows(n)
  BY <1>2
<1> HIDE DEF Bad
<1>4. n # i
  <2>1. Reading[i].blocks \in Seq(Block)
    BY ReadingOK DEF ReadOK, Readings
  <2>2. PICK m \in Seq(Block) : m = <<>>
    BY EmptySeq
  <2>3. 1..Len(m) = {}
    BY <2>2
  <2>4. Reading[i].blocks \o m = Reading[i].blocks
    BY <2>1, <2>2
  <2>5. Grows(i)
    BY <2>3, <2>4 DEF Grows
  <2>6. QED
    BY <1>3, <2>5
<1>5. PICK l \in Nat : l + 1 = n /\ l = n - 1 /\ l \in i..j /\ l \in 0..Len(fullText)
                       /\ n \in 1..Len(fullText) /\ n > i
  BY <1>3, <1>4
<1>6. Grows(l)
  <2>1. l \notin Bad
    BY <1>2, <1>3, <1>5
  <2>2. QED
    BY <1>5, <2>1 DEF Bad
<1>7. PICK r : r = Reading[l]
  OBVIOUS
<1>8. /\ r \in Readings /\ r.open \in Nat /\ r.blocks \in Seq(Block)
      /\ r = [open |-> r.open, blocks |-> r.blocks]
      /\ Reading[n] = ReadStep(r, n)
      /\ Reading[i].blocks \in Seq(Block)
  BY <1>5, <1>7, ReadingOK, ReadingIs DEF ReadOK, Readings
<1>9. PICK m \in Seq(Block) :
        /\ r.blocks = Reading[i].blocks \o m
        /\ \A k \in 1..Len(m) : m[k][1] > i
  BY <1>6, <1>7 DEF Grows
<1>10. CASE r.open = 0
  <2>1. PICK o \in {0, n} : ReadStep(r, n) = [open |-> o, blocks |-> r.blocks]
    BY <1>8, <1>10 DEF ReadStep
  <2>2. Reading[n].open = o /\ Reading[n].blocks = r.blocks
    BY <1>8, <2>1
  <2>3. QED
    BY <1>3, <1>5, <1>9, <2>2 DEF Grows
<1>11. CASE r.open # 0 /\ ReadStep(r, n) = r
  <2>1. Reading[n] = Reading[l]
    BY <1>7, <1>8, <1>11
  <2>2. QED
    BY <1>3, <1>6, <2>1 DEF Grows
<1>12. CASE r.open # 0 /\ ReadStep(r, n) = [open |-> 0, blocks |-> Append(r.blocks, <<r.open, n>>)]
  <2>1. PICK b \in Block : b = <<r.open, n>>
    <3>1. \A o, e \in Nat : <<o, e>> \in Block
      BY DEF Block
    <3>2. QED
      BY <1>3, <1>8, <3>1
  <2>2. b[1] = r.open /\ r.open > i
    BY <1>6, <1>7, <1>12, <2>1 DEF Grows
  <2>3. PICK s : s = Append(m, b)
    OBVIOUS
  <2>4. s \in Seq(Block) /\ Len(s) = Len(m) + 1 /\ Len(m) \in Nat
    BY <2>3
  <2>5. ASSUME NEW k \in 1..Len(s) PROVE s[k][1] > i
    <3>1. CASE k \in 1..Len(m)
      <4>1. s[k] = m[k]
        BY <2>3, <3>1
      <4>2. QED
        BY <1>9, <3>1, <4>1
    <3>2. CASE k = Len(m) + 1
      <4>1. s[k] = b
        BY <2>3, <3>2
      <4>2. QED
        BY <2>2, <4>1
    <3>3. QED
      BY <2>4, <3>1, <3>2
  <2>6. Append(r.blocks, b) = Reading[i].blocks \o s
    <3>1. PICK x \in Seq(Block) : x = Reading[i].blocks
      BY <1>8
    <3>2. Append(x \o m, b) = x \o Append(m, b)
      BY ONLY x \in Seq(Block), m \in Seq(Block), b \in Block, AppendLater
    <3>3. QED
      BY <1>9, <2>3, <3>1, <3>2
  <2>7. PICK q : q = [open |-> 0, blocks |-> Append(r.blocks, b)]
    OBVIOUS
  <2>8. q.open = 0 /\ q.blocks = Append(r.blocks, b) /\ Reading[n] = q
    BY <1>8, <1>12, <2>1, <2>7
  <2>9. Reading[n].open = 0 /\ Reading[n].blocks = Reading[i].blocks \o s
    BY <2>6, <2>8
  <2>10. QED
    BY <1>3, <2>4, <2>5, <2>9 DEF Grows
<1>13. QED
  BY <1>10, <1>11, <1>12 DEF ReadStep

\* A text without openings
LEMMA ReadPlain ==
    ASSUME Len(fullText) \in Nat, NEW i \in 0..Len(fullText), NEW j \in i..Len(fullText),
           Reading[i].open = 0, \A k \in (i + 1)..j : fullText[k] \notin {OpenTool, OpenFunc}
    PROVE  Reading[j] = Reading[i]
<1>1. Reading[i] \in Readings
  BY ReadingOK DEF ReadOK
<1>2. PICK r : r = Reading[i]
  OBVIOUS
<1>3. [r EXCEPT !.open = 0] = r
  BY <1>1, <1>2 DEF Readings
<1>4. \A k \in (i + 1)..j : ReadStep(r, k) = r
  BY <1>2, <1>3 DEF ReadStep
<1>5. QED
  BY <1>2, <1>4, ReadStays

\* The search of resp_parse_tool_calls finds the block that reading the text
\* finds, and nothing if there is none
LEMMA BlockRead ==
    ASSUME ToolTypeOK, Reading[p - 1].open = 0, HasBlock(p)
    PROVE  /\ Reading[End(p)].open = 0
           /\ Reading[End(p)].blocks = Append(Reading[p - 1].blocks, <<Start(p), End(p)>>)
<1>1. Occurs(p, {OpenTool, OpenFunc}) # {} /\ Closers(Start(p)) # {}
  BY DEF HasBlock
<1>2. PICK s : s = Start(p)
  OBVIOUS
<1>3. PICK e : e = End(p)
  OBVIOUS
<1>4. /\ s \in p..Len(fullText) /\ e \in (s + 1)..Len(fullText)
      /\ Len(fullText) \in Nat /\ p \in Nat /\ 1 <= p
  BY <1>2, <1>3, BlockProperties, TextProperties
<1>5. /\ fullText[s] \in {OpenTool, OpenFunc}
      /\ \A k \in p..(s - 1) : fullText[k] \notin {OpenTool, OpenFunc}
  <2>1. PICK O \in SUBSET Nat : O = Occurs(p, {OpenTool, OpenFunc})
    BY <1>4, OccursProperties
  <2>2. s = Min(O) /\ O # {}
    BY <1>1, <1>2, <2>1 DEF Start
  <2>3. s \in O /\ \A k \in O : s <= k
    BY <2>2, MinProperties
  <2>4. fullText[s] \in {OpenTool, OpenFunc}
    BY <2>1, <2>3 DEF Occurs
  <2>5. \A k \in p..(s - 1) : k \notin O
    BY <1>4, <2>3
  <2>6. \A k \in p..(s - 1) : k \in p..Len(fullText)
    BY <1>4
  <2>7. QED
    BY <2>1, <2>4, <2>5, <2>6 DEF Occurs
<1>6. PICK c : c = IF fullText[s] = OpenTool THEN CloseTool ELSE CloseFunc
  OBVIOUS
<1>7. fullText[e] = c /\ \A k \in (s + 1)..(e - 1) : fullText[k] # c
  <2>1. s + 1 \in Nat /\ 1 <= s + 1
    BY <1>4
  <2>2. PICK O \in SUBSET Nat : O = Occurs(s + 1, {c})
    BY <2>1, OccursProperties
  <2>3. e = Min(O) /\ O # {}
    BY <1>1, <1>2, <1>3, <1>6, <2>2 DEF End, Closers
  <2>4. e \in O /\ \A k \in O : e <= k
    BY <2>3, MinProperties
  <2>5. fullText[e] = c
    BY <2>2, <2>4 DEF Occurs
  <2>6. \A k \in (s + 1)..(e - 1) : k \notin O
    BY <1>4, <2>4
  <2>7. \A k \in (s + 1)..(e - 1) : k \in (s + 1)..Len(fullText)
    BY <1>4
  <2>8. QED
    BY <2>2, <2>5, <2>6, <2>7 DEF Occurs
<1>8. Reading[s - 1] = Reading[p - 1]
  <2>1. PICK i : i = p - 1
    OBVIOUS
  <2>2. PICK j : j = s - 1
    OBVIOUS
  <2>3. i \in 0..Len(fullText) /\ j \in i..Len(fullText) /\ i + 1 = p
    BY <1>4, <2>1, <2>2
  <2>4. QED
    BY <1>4, <1>5, <2>1, <2>2, <2>3, ReadPlain
<1>9. PICK B : B = Reading[p - 1].blocks
  OBVIOUS
<1>10. Reading[p - 1] = [open |-> 0, blocks |-> B]
  <2>1. p - 1 \in 0..Len(fullText)
    BY <1>4
  <2>2. QED
    BY <1>4, <1>9, <2>1, ReadingOK DEF ReadOK, Readings
<1>11. Reading[s] = [open |-> s, blocks |-> B]
  <2>1. s \in 1..Len(fullText)
    BY <1>4
  <2>2. Reading[s] = ReadStep([open |-> 0, blocks |-> B], s)
    BY <1>4, <1>8, <1>10, <2>1, ReadingIs
  <2>3. QED
    BY <1>5, <2>2 DEF ReadStep
<1>12. Reading[e - 1] = Reading[s]
  <2>1. \A k \in (s + 1)..(e - 1) : ReadStep(Reading[s], k) = Reading[s]
    BY <1>4, <1>6, <1>7, <1>11 DEF ReadStep
  <2>2. PICK j : j = e - 1
    OBVIOUS
  <2>3. s \in 0..Len(fullText) /\ j \in s..Len(fullText)
    BY <1>4, <2>2
  <2>4. QED
    BY <1>4, <2>1, <2>2, <2>3, ReadStays
<1>13. Reading[e] = [open |-> 0, blocks |-> Append(B, <<s, e>>)]
  <2>1. e \in 1..Len(fullText) /\ s # 0
    BY <1>4
  <2>2. Reading[e] = ReadStep([open |-> s, blocks |-> B], e)
    BY <1>4, <1>11, <1>12, <2>1, ReadingIs
  <2>3. QED
    BY <1>6, <1>7, <2>1, <2>2 DEF ReadStep
<1>14. QED
  BY <1>2, <1>3, <1>9, <1>13

LEMMA NoBlockRead ==
    ASSUME ToolTypeOK, Reading[p - 1].open = 0, ~HasBlock(p)
    PROVE  Reading[Len(fullText)].blocks = Reading[p - 1].blocks
<1>1. Len(fullText) \in Nat /\ p \in Nat /\ 1 <= p /\ p <= Len(fullText) + 1
  BY TextProperties
<1>2. PICK i : i = p - 1 /\ i \in 0..Len(fullText) /\ i + 1 = p
  BY <1>1
<1>3. PICK n : n = Len(fullText) /\ n \in i..Len(fullText)
  BY <1>1, <1>2
<1>4. CASE Occurs(p, {OpenTool, OpenFunc}) = {}
  <2>1. \A k \in (i + 1)..n : fullText[k] \notin {OpenTool, OpenFunc}
    BY <1>2, <1>3, <1>4 DEF Occurs
  <2>2. QED
    BY <1>1, <1>2, <1>3, <2>1, ReadPlain
<1>5. CASE Occurs(p, {OpenTool, OpenFunc}) # {}
  <2>1. PICK s : s = Start(p)
    OBVIOUS
  <2>2. PICK O \in SUBSET Nat : O = Occurs(p, {OpenTool, OpenFunc})
    BY <1>1, OccursProperties
  <2>3. s = Min(O) /\ O # {}
    BY <1>5, <2>1, <2>2 DEF Start
  <2>4. s \in O /\ \A k \in O : s <= k
    BY <2>3, MinProperties
  <2>5. s \in p..Len(fullText) /\ fullText[s] \in {OpenTool, OpenFunc}
    BY <2>2, <2>4 DEF Occurs
  <2>6. \A k \in p..(s - 1) : fullText[k] \notin {OpenTool, OpenFunc}
    <3>1. \A k \in p..(s - 1) : k \notin O /\ k \in p..Len(fullText)
      BY <1>1, <2>4, <2>5
    <3>2. QED
      BY <2>2, <3>1 DEF Occurs
  <2>7. Reading[s - 1] = Reading[i]
    <3>1. PICK j : j = s - 1
      OBVIOUS
    <3>2. j \in i..Len(fullText)
      BY <1>1, <1>2, <2>5, <3>1
    <3>3. QED
      BY <1>1, <1>2, <2>6, <3>1, <3>2, ReadPlain
  <2>8. PICK B : B = Reading[i].blocks
    OBVIOUS
  <2>9. Reading[i] = [open |-> 0, blocks |-> B]
    BY <1>1, <1>2, <2>8, ReadingOK DEF ReadOK, Readings
  <2>10. Reading[s] = [open |-> s, blocks |-> B]
    <3>1. s \in 1..Len(fullText)
      BY <1>1, <2>5
    <3>2. Reading[s] = ReadStep([open |-> 0, blocks |-> B], s)
      BY <1>1, <2>7, <2>9, <3>1, ReadingIs
    <3>3. QED
      BY <2>5, <3>2 DEF ReadStep
  <2>11. PICK c : c = IF fullText[s] = OpenTool THEN CloseTool ELSE CloseFunc
    OBVIOUS
  <2>12. \A k \in (s + 1)..n : fullText[k] # c
    <3>1. Occurs(s + 1, {c}) = {}
      BY <1>5, <2>1, <2>11 DEF HasBlock, Closers
    <3>2. QED
      BY <1>3, <3>1 DEF Occurs
  <2>13. \A k \in (s + 1)..n : ReadStep(Reading[s], k) = Reading[s]
    <3>1. s # 0
      BY <1>1, <2>5
    <3>2. QED
      BY <2>10, <2>11, <2>12, <3>1 DEF ReadStep
  <2>14. Reading[n] = Reading[s]
    <3>1. s \in 0..Len(fullText) /\ n \in s..Len(fullText)
      BY <1>1, <1>3, <2>5
    <3>2. QED
      BY <1>1, <2>13, <3>1, ReadStays
  <2>15. QED
    BY <1>2, <1>3, <2>8, <2>10, <2>14
<1>6. QED
  BY <1>4, <1>5

\* Found and Inside of a longer sequence of blocks
Start1(b) == IF BlockIsCall(b[1], b[2]) THEN <<b[1]>> ELSE <<>>

Starts(s) == [i \in DOMAIN s |-> Start1(s[i])]

LEMMA StartsType ==
    ASSUME NEW s \in Seq(Block)
    PROVE  /\ Starts(s) \in Seq(Seq(Nat)) /\ Len(Starts(s)) = Len(s)
           /\ \A i \in 1..Len(s) : Starts(s)[i] = Start1(s[i])
           /\ Found(s) = FlattenSeq(Starts(s)) /\ Found(s) \in Seq(Nat)
<1>1. \A b \in Block : Start1(b) \in Seq(Nat)
  <2> TAKE b \in Block
  <2>1. b[1] \in Nat
    BY DEF Block
  <2>2. <<>> \in Seq(Nat) /\ <<b[1]>> \in Seq(Nat)
    BY <2>1
  <2>3. QED
    BY <2>2 DEF Start1
<1>2. \A i \in 1..Len(s) : Start1(s[i]) \in Seq(Nat)
  BY <1>1
<1>3. Starts(s) = [i \in 1..Len(s) |-> Start1(s[i])] /\ Len(s) \in Nat
  BY DEF Starts
<1>4. /\ Starts(s) \in Seq(Seq(Nat)) /\ Len(Starts(s)) = Len(s)
      /\ \A i \in 1..Len(s) : Starts(s)[i] = Start1(s[i])
  BY ONLY <1>2, <1>3
<1>5. Found(s) = FlattenSeq(Starts(s))
  BY DEF Found, Starts, Start1
<1>6. FlattenSeq(Starts(s)) \in Seq(Nat)
  BY <1>4, FlattenConcat
<1>7. QED
  BY <1>4, <1>5, <1>6

LEMMA FoundConcat ==
    ASSUME NEW s \in Seq(Block), NEW t \in Seq(Block)
    PROVE  /\ Found(s) \in Seq(Nat) /\ Found(t) \in Seq(Nat)
           /\ Found(s \o t) = Found(s) \o Found(t)
<1>1. PICK q \in Seq(Block) : q = s \o t
  <2>1. s \o t \in Seq(Block)
    BY ConcatProperties
  <2>2. QED
    BY <2>1
<1>2. /\ Len(q) = Len(s) + Len(t) /\ Len(s) \in Nat /\ Len(t) \in Nat
      /\ \A i \in 1..(Len(s) + Len(t)) : q[i] = IF i <= Len(s) THEN s[i] ELSE t[i - Len(s)]
  BY <1>1, ConcatProperties
<1>3. PICK f \in Seq(Seq(Nat)) : f = Starts(s)
  BY StartsType
<1>4. PICK g \in Seq(Seq(Nat)) : g = Starts(t)
  BY StartsType
<1>5. PICK h \in Seq(Seq(Nat)) : h = Starts(q)
  BY StartsType
<1>6. /\ Len(f) = Len(s) /\ \A i \in 1..Len(s) : f[i] = Start1(s[i])
      /\ Len(g) = Len(t) /\ \A i \in 1..Len(t) : g[i] = Start1(t[i])
      /\ Len(h) = Len(q) /\ \A i \in 1..Len(q) : h[i] = Start1(q[i])
  BY <1>3, <1>4, <1>5, StartsType
<1>7. /\ f \o g \in Seq(Seq(Nat)) /\ Len(f \o g) = Len(f) + Len(g)
      /\ \A i \in 1..(Len(f) + Len(g)) : (f \o g)[i] = IF i <= Len(f) THEN f[i] ELSE g[i - Len(f)]
  BY ConcatProperties
<1>8. ASSUME NEW i \in 1..Len(h) PROVE h[i] = (f \o g)[i]
  <2>1. CASE i <= Len(s)
    BY <1>2, <1>6, <1>7, <2>1
  <2>2. CASE ~(i <= Len(s))
    <3>1. i \in 1..(Len(s) + Len(t))
      BY <1>2, <1>6
    <3>2. PICK j \in 1..Len(t) : j = i - Len(s)
      BY ONLY <1>2, <2>2, <3>1
    <3>3. QED
      BY <1>2, <1>6, <1>7, <2>2, <3>1, <3>2
  <2>3. QED
    BY <2>1, <2>2
<1>9. h = f \o g
  <2>1. Len(h) = Len(f \o g)
    BY <1>2, <1>6, <1>7
  <2>2. QED
    BY <1>7, <1>8, <2>1, SeqEqual
<1>10. FlattenSeq(f \o g) = FlattenSeq(f) \o FlattenSeq(g)
  BY FlattenConcat
<1>11. Found(s) = FlattenSeq(f) /\ Found(t) = FlattenSeq(g) /\ Found(q) = FlattenSeq(h)
       /\ Found(s) \in Seq(Nat) /\ Found(t) \in Seq(Nat)
  BY <1>3, <1>4, <1>5, StartsType
<1>12. QED
  BY <1>1, <1>9, <1>10, <1>11

LEMMA FoundNone == Found(<<>>) = <<>>
BY DEF Found, FlattenSeq

LEMMA FoundOne ==
    ASSUME NEW b \in Block
    PROVE  Found(<<b>>) = Start1(b)
<1>1. PICK s \in Seq(Block) : s = <<b>> /\ Len(s) = 1 /\ s[1] = b
  <2>1. <<b>> \in Seq(Block) /\ Len(<<b>>) = 1 /\ <<b>>[1] = b
    OBVIOUS
  <2>2. QED
    BY <2>1
<1>2. PICK f \in Seq(Seq(Nat)) : f = Starts(s)
  BY StartsType
<1>3. Len(f) = 1 /\ f[1] = Start1(b) /\ Found(s) = FlattenSeq(f)
  <2>1. 1 \in 1..Len(s)
    BY <1>1
  <2>2. QED
    BY <1>1, <1>2, <2>1, StartsType
<1>4. PICK z \in Nat : z = 0 /\ z < Len(f) /\ z + 1 = 1
  BY <1>3
<1>5. FlattenSeq(Upto(f, z + 1)) = FlattenSeq(Upto(f, z)) \o f[z + 1]
  BY <1>4, FlattenStep
<1>6. Upto(f, 1) = f
  BY <1>3, UptoAll
<1>7. FlattenSeq(f) = <<>> \o f[1]
  BY <1>4, <1>5, <1>6, FlattenNone
<1>8. f[1] \in Seq(Nat)
  <2>1. 1 \in 1..Len(f)
    BY <1>3
  <2>2. QED
    BY <2>1, ElementOfSeq
<1>9. QED
  BY <1>1, <1>3, <1>7, <1>8

LEMMA InsideConcat ==
    ASSUME NEW s \in Seq(Block), NEW t \in Seq(Block)
    PROVE  Inside(s \o t) = Inside(s) \cup Inside(t)
<1>1. /\ DOMAIN (s \o t) = 1..(Len(s) + Len(t)) /\ DOMAIN s = 1..Len(s) /\ DOMAIN t = 1..Len(t)
      /\ Len(s) \in Nat /\ Len(t) \in Nat
      /\ \A i \in 1..(Len(s) + Len(t)) : (s \o t)[i] = IF i <= Len(s) THEN s[i] ELSE t[i - Len(s)]
  OBVIOUS
<1>2. ASSUME NEW x \in Inside(s \o t) PROVE x \in Inside(s) \cup Inside(t)
  <2>1. PICK i \in 1..(Len(s) + Len(t)) : x \in (s \o t)[i][1]..(s \o t)[i][2]
    BY <1>1, <1>2 DEF Inside
  <2>2. CASE i <= Len(s)
    BY <1>1, <2>1, <2>2 DEF Inside
  <2>3. CASE ~(i <= Len(s))
    <3>1. i - Len(s) \in 1..Len(t)
      BY <1>1, <2>3
    <3>2. x \in t[i - Len(s)][1]..t[i - Len(s)][2]
      BY <1>1, <2>1, <2>3
    <3>3. QED
      BY <1>1, <3>1, <3>2 DEF Inside
  <2>4. QED
    BY <2>2, <2>3
<1>3. ASSUME NEW x \in Inside(s) PROVE x \in Inside(s \o t)
  <2>1. PICK i \in 1..Len(s) : x \in s[i][1]..s[i][2]
    BY <1>1, <1>3 DEF Inside
  <2>2. i \in 1..(Len(s) + Len(t)) /\ (s \o t)[i] = s[i]
    BY <1>1
  <2>3. QED
    BY <1>1, <2>1, <2>2 DEF Inside
<1>4. ASSUME NEW x \in Inside(t) PROVE x \in Inside(s \o t)
  <2>1. PICK i \in 1..Len(t) : x \in t[i][1]..t[i][2]
    BY <1>1, <1>4 DEF Inside
  <2>2. PICK j : j = Len(s) + i /\ j \in 1..(Len(s) + Len(t)) /\ ~(j <= Len(s)) /\ j - Len(s) = i
    BY <1>1
  <2>3. (s \o t)[j] = t[i]
    BY <1>1, <2>2
  <2>4. QED
    BY <1>1, <2>1, <2>2, <2>3 DEF Inside
<1>5. QED
  BY <1>2, <1>3, <1>4


\* The text without its blocks, by positions
Kept(blocks) == [i \in DOMAIN fullText |-> IF i \in Inside(blocks) THEN <<>> ELSE <<fullText[i]>>]

LEMMA SameText ==
    ASSUME fullText' = fullText
    PROVE  /\ Reading' = Reading /\ NamesFirst' = NamesFirst
           /\ \A s : Found(s)' = Found(s) /\ Outside(s)' = Outside(s) /\ Kept(s)' = Kept(s)
           /\ \A c : MatchEnds(c)' = MatchEnds(c)
<1>1. Reading' = Reading
  BY DEF Reading
<1>2. \A b, j : Depth(b, j)' = Depth(b, j)
  BY DEF Depth
<1>3. \A c : MatchEnds(c)' = MatchEnds(c)
  BY <1>2 DEF MatchEnds
<1>4. NamesFirst' = NamesFirst
  BY DEF NamesFirst, Occurs
<1>5. \A b, e : IsCall(b, e)' = IsCall(b, e)
  BY <1>2 DEF IsCall
<1>6. \A s, e : BlockIsCall(s, e)' = BlockIsCall(s, e)
  BY <1>3, <1>5 DEF BlockIsCall
<1>7. \A s : Found(s)' = Found(s)
  BY <1>6 DEF Found
<1>8. \A s : Outside(s)' = Outside(s) /\ Kept(s)' = Kept(s)
  BY DEF Outside, Kept, Inside
<1>9. QED
  BY <1>1, <1>3, <1>4, <1>7, <1>8

LEMMA KeptIs ==
    ASSUME ToolTypeOK, NEW s
    PROVE  /\ Kept(s) \in Seq(Seq(Token)) /\ Len(Kept(s)) = Len(fullText)
           /\ \A i \in 1..Len(fullText) :
                Kept(s)[i] = IF i \in Inside(s) THEN <<>> ELSE <<fullText[i]>>
           /\ Outside(s) = FlattenSeq(Kept(s))
<1>1. \A i \in 1..Len(fullText) : (IF i \in Inside(s) THEN <<>> ELSE <<fullText[i]>>) \in Seq(Token)
  <2> TAKE i \in 1..Len(fullText)
  <2>1. fullText[i] \in Token
    BY DEF ToolTypeOK
  <2> HIDE DEF Token
  <2>2. <<>> \in Seq(Token) /\ <<fullText[i]>> \in Seq(Token)
    BY <2>1
  <2>3. QED
    BY <2>2
<1>2. Kept(s) = [i \in 1..Len(fullText) |-> IF i \in Inside(s) THEN <<>> ELSE <<fullText[i]>>]
      /\ Len(fullText) \in Nat
  BY TextProperties DEF Kept
<1>3. /\ Kept(s) \in Seq(Seq(Token)) /\ Len(Kept(s)) = Len(fullText)
      /\ \A i \in 1..Len(fullText) :
           Kept(s)[i] = IF i \in Inside(s) THEN <<>> ELSE <<fullText[i]>>
  <2> HIDE DEF Token
  <2>1. QED
    BY ONLY <1>1, <1>2
<1>4. QED
  BY <1>3 DEF Kept, Outside

\* What has been read holds the blocks that have been read
LEMMA InsideRead ==
    ASSUME Len(fullText) \in Nat, NEW i \in 0..Len(fullText)
    PROVE  Reading[i].blocks \in Seq(Block) /\ \A x \in Inside(Reading[i].blocks) : x <= i
<1>1. PICK s : s = Reading[i].blocks
  OBVIOUS
<1>2. s \in Seq(Block) /\ \A k \in 1..Len(s) : s[k][2] <= i /\ s[k] \in Block
  BY <1>1, ReadingOK DEF ReadOK, Readings
<1>3. \A x \in Inside(s) : x <= i
  <2> TAKE x \in Inside(s)
  <2>1. PICK k \in 1..Len(s) : x \in s[k][1]..s[k][2]
    BY <1>2 DEF Inside
  <2>2. s[k][1] \in Nat /\ s[k][2] \in Nat /\ s[k][2] <= i
    BY <1>2 DEF Block
  <2>3. QED
    BY <2>1, <2>2
<1>4. QED
  BY <1>1, <1>2, <1>3

\* The blocks that follow begin later
LEMMA InsideLater ==
    ASSUME NEW m \in Seq(Block), NEW i \in Nat, \A k \in 1..Len(m) : m[k][1] > i
    PROVE  \A x \in Inside(m) : x > i
<1> TAKE x \in Inside(m)
<1>1. PICK k \in 1..Len(m) : x \in m[k][1]..m[k][2]
  BY DEF Inside
<1>2. m[k] \in Block /\ m[k][1] > i
  BY ElementOfSeq
<1>3. m[k][1] \in Nat /\ m[k][2] \in Nat
  BY <1>2 DEF Block
<1>4. QED
  BY <1>1, <1>2, <1>3

Blocks == Reading[Len(fullText)].blocks

\* Around the next block of the search
LEMMA AroundBlock ==
    ASSUME ToolTypeOK, Reading[p - 1].open = 0, HasBlock(p)
    PROVE  /\ \A i \in p..(Start(p) - 1) : i \notin Inside(Blocks)
           /\ \A i \in Start(p)..End(p) : i \in Inside(Blocks)
<1>1. PICK s : s = Start(p)
  OBVIOUS
<1>2. PICK e : e = End(p)
  OBVIOUS
<1>3. /\ s \in p..Len(fullText) /\ e \in (s + 1)..Len(fullText)
      /\ Len(fullText) \in Nat /\ p \in Nat /\ 1 <= p
  BY <1>1, <1>2, BlockProperties, TextProperties
<1>4. PICK B \in Seq(Block) : B = Reading[p - 1].blocks /\ \A x \in Inside(B) : x <= p - 1
  <2>1. p - 1 \in 0..Len(fullText)
    BY <1>3
  <2>2. QED
    BY <1>3, <2>1, InsideRead
<1>5. PICK b \in Block : b = <<s, e>> /\ b[1] = s /\ b[2] = e
  <2>1. s \in Nat /\ e \in Nat
    BY <1>3
  <2>2. \A x, y \in Nat : <<x, y>> \in Block
    BY DEF Block
  <2>3. QED
    BY <2>1, <2>2
<1>6. PICK c \in Seq(Block) : c = <<b>> /\ Len(c) = 1 /\ c[1] = b
  <2>1. <<b>> \in Seq(Block) /\ Len(<<b>>) = 1 /\ <<b>>[1] = b
    OBVIOUS
  <2>2. QED
    BY <2>1
<1>7. Reading[e].open = 0 /\ Reading[e].blocks = B \o c
  <2>1. Append(B, b) = B \o <<b>>
    BY AppendIsConcat
  <2>2. QED
    BY <1>1, <1>2, <1>4, <1>5, <1>6, <2>1, BlockRead
<1>8. PICK m \in Seq(Block) : Blocks = (B \o c) \o m /\ \A k \in 1..Len(m) : m[k][1] > e
  <2>1. e \in 0..Len(fullText) /\ Len(fullText) \in e..Len(fullText)
    BY <1>3
  <2>2. PICK m \in Seq(Block) : /\ Reading[Len(fullText)].blocks = Reading[e].blocks \o m
                                /\ \A k \in 1..Len(m) : m[k][1] > e
    BY <1>3, <1>7, <2>1, ReadGrows
  <2>3. QED
    BY <1>7, <2>2 DEF Blocks
<1>9. Inside(c) = s..e
  <2>1. DOMAIN c = {1}
    BY <1>6
  <2>2. {c[i][1]..c[i][2] : i \in DOMAIN c} = {s..e}
    BY <1>5, <1>6, <2>1
  <2>3. QED
    BY <2>2 DEF Inside
<1>10. Inside(Blocks) = (Inside(B) \cup (s..e)) \cup Inside(m)
  <2>1. PICK d \in Seq(Block) : d = B \o c
    <3>1. B \o c \in Seq(Block)
      BY ConcatProperties
    <3>2. QED
      BY <3>1
  <2>2. Inside(d \o m) = Inside(d) \cup Inside(m)
    BY InsideConcat
  <2>3. Inside(B \o c) = Inside(B) \cup Inside(c)
    BY InsideConcat
  <2>4. QED
    BY <1>8, <1>9, <2>1, <2>2, <2>3
<1>11. \A x \in Inside(m) : x > e
  <2>1. e \in Nat
    BY <1>3
  <2>2. QED
    BY <1>8, <2>1, InsideLater
<1>12. \A i \in p..(s - 1) : i \notin Inside(Blocks)
  <2> TAKE i \in p..(s - 1)
  <2>1. i \notin s..e /\ ~(i <= p - 1) /\ ~(i > e)
    BY <1>3
  <2>2. QED
    BY <1>4, <1>10, <1>11, <2>1
<1>13. \A i \in s..e : i \in Inside(Blocks)
  BY <1>10
<1>14. QED
  BY <1>1, <1>2, <1>12, <1>13

LEMMA NoneAround ==
    ASSUME ToolTypeOK, Reading[p - 1].open = 0, ~HasBlock(p)
    PROVE  \A i \in p..Len(fullText) : i \notin Inside(Blocks)
<1>1. Len(fullText) \in Nat /\ p \in Nat /\ 1 <= p /\ p <= Len(fullText) + 1
  BY TextProperties
<1>2. p - 1 \in 0..Len(fullText)
  BY <1>1
<1>3. Blocks = Reading[p - 1].blocks
  BY NoBlockRead DEF Blocks
<1>4. \A x \in Inside(Blocks) : x <= p - 1
  BY <1>1, <1>2, <1>3, InsideRead
<1>5. \A i \in p..Len(fullText) : ~(i <= p - 1)
  BY <1>1
<1>6. QED
  BY <1>4, <1>5

(***************************************************************************)
(* The loops read the text as Reading does                                 *)
(***************************************************************************)
Most(found) == SubSeq(found, 1, Min({MaxCalls, Len(found)}))

\* An object that has been taken ends before the search goes on at q
Taken(cs, q) ==
    /\ \A i \in DOMAIN cs : /\ cs[i] \in 1..(q - 1) /\ fullText[cs[i]] = LBrace
                            /\ Min(MatchEnds(cs[i])) \in 1..(q - 1)
    /\ \A i, j \in DOMAIN cs : i < j => cs[i] < cs[j]

CallInv ==
    /\ scan \in {"blocks", "strip"} => Reading[p - 1].open = 0
    /\ scan = "blocks" => calls = Found(Reading[p - 1].blocks) /\ rest = <<>>
    /\ scan = "strip" => /\ Found(Blocks) # <<>> /\ calls = Most(Found(Blocks))
                         /\ rest = FlattenSeq(Upto(Kept(Blocks), p - 1))
    /\ scan = "loose" => Found(Blocks) = <<>> /\ (NamesFirst => Taken(calls, p))
    /\ CallsFound

LEMMA MinOfTwo ==
    ASSUME NEW a \in Nat, NEW b \in Nat
    PROVE  Min({a, b}) = IF a <= b THEN a ELSE b
<1>1. Min({a, b}) \in {a, b} /\ \A j \in {a, b} : Min({a, b}) <= j
  BY MinProperties
<1>2. QED
  BY <1>1

\* As many as there is room for
LEMMA MostIs ==
    ASSUME NEW s \in Seq(Nat), NEW t \in Seq(Nat), Len(s) <= MaxCalls
    PROVE  /\ t = <<>> => Most(s \o t) = s
           /\ Len(s) = MaxCalls => Most(s \o t) = s
<1>1. /\ s \o t \in Seq(Nat) /\ Len(s \o t) = Len(s) + Len(t)
      /\ Len(s) \in Nat /\ Len(t) \in Nat /\ MaxCalls \in Nat
      /\ t = <<>> => Len(t) = 0
  BY ToolAssumption
<1>2. ASSUME t = <<>> \/ Len(s) = MaxCalls PROVE Most(s \o t) = s
  <2>1. Min({MaxCalls, Len(s \o t)}) = Len(s)
    <3>1. Min({MaxCalls, Len(s \o t)}) = IF MaxCalls <= Len(s \o t) THEN MaxCalls ELSE Len(s \o t)
      BY <1>1, MinOfTwo
    <3>2. QED
      BY <1>1, <1>2, <3>1
  <2>2. SubSeq(s \o t, 1, Len(s)) = s
    OBVIOUS
  <2>3. QED
    BY <2>1, <2>2 DEF Most
<1>3. QED
  BY <1>2


\* The positions the loops are at are in the text
LEMMA PlaceBefore ==
    ASSUME ToolTypeOK
    PROVE  /\ p - 1 \in 0..Len(fullText) /\ Len(fullText) \in Nat /\ Len(fullText) \in 0..Len(fullText)
           /\ p \in Nat /\ 1 <= p
           /\ Reading[p - 1].blocks \in Seq(Block) /\ Blocks \in Seq(Block)
<1>1. p - 1 \in 0..Len(fullText) /\ Len(fullText) \in Nat /\ Len(fullText) \in 0..Len(fullText)
      /\ p \in Nat /\ 1 <= p
  BY TextProperties
<1>2. QED
  BY <1>1, InsideRead DEF Blocks

LEMMA TakeBlockCalls ==
    ASSUME ToolTypeOK, CallInv, TakeBlock
    PROVE  CallInv'
<1>1. /\ scan = "blocks" /\ scan' = "blocks" /\ HasBlock(p) /\ fullText' = fullText /\ rest' = rest
      /\ calls' = IF BlockIsCall(Start(p), End(p)) THEN Append(calls, Start(p)) ELSE calls
      /\ p' = End(p) + 1
  BY DEF TakeBlock, MoreBlocks
<1>2. Reading[p - 1].open = 0 /\ calls = Found(Reading[p - 1].blocks) /\ rest = <<>>
  BY <1>1 DEF CallInv
<1>3. PICK s \in Nat : s = Start(p)
  BY <1>1, BlockProperties, PlaceBefore
<1>4. PICK e \in Nat : e = End(p)
  BY <1>1, <1>3, BlockProperties, PlaceBefore
<1>5. PICK B \in Seq(Block) : B = Reading[p - 1].blocks
  BY PlaceBefore
<1>6. PICK b \in Block : b = <<s, e>> /\ b[1] = s /\ b[2] = e
  <2>1. \A x, y \in Nat : <<x, y>> \in Block
    BY DEF Block
  <2>2. QED
    BY <2>1
<1>7. PICK c \in Seq(Block) : c = <<b>>
  <2>1. <<b>> \in Seq(Block)
    OBVIOUS
  <2>2. QED
    BY <2>1
<1>8. Reading[e].open = 0 /\ Reading[e].blocks = B \o c
  <2>1. Append(B, b) = B \o <<b>>
    BY AppendIsConcat
  <2>2. QED
    BY <1>1, <1>2, <1>3, <1>4, <1>5, <1>6, <1>7, <2>1, BlockRead
<1>9. Found(B \o c) = calls \o Start1(b) /\ calls \in Seq(Nat)
  <2>1. Found(c) = Start1(b)
    BY <1>7, FoundOne
  <2>2. QED
    BY <1>2, <1>5, <2>1, FoundConcat
<1>10. calls' = calls \o Start1(b)
  <2>1. Append(calls, s) = calls \o <<s>> /\ calls \o <<>> = calls
    BY <1>9, AppendIsConcat
  <2>2. QED
    BY <1>1, <1>3, <1>4, <1>6, <2>1 DEF Start1
<1>11. p' - 1 = e
  BY <1>1, <1>4
<1>12. PICK D \in Seq(Block) : D = B \o c
  <2>1. B \o c \in Seq(Block)
    BY ConcatProperties
  <2>2. QED
    BY <2>1
<1>13. (Reading[p - 1])' = Reading[e]
  BY <1>1, <1>11, SameText
<1>14. (Reading[p - 1].open)' = 0 /\ (Reading[p - 1].blocks)' = D
  BY <1>8, <1>12, <1>13
<1>15. Found(D)' = calls'
  BY <1>1, <1>9, <1>10, <1>12, SameText
<1>16. Found(Reading[p - 1].blocks)' = Found(D)'
  BY <1>14 DEF Found
<1>17. QED
  BY <1>1, <1>2, <1>14, <1>15, <1>16 DEF CallInv, CallsFound


\* All blocks, and the room there is
LEMMA NoMoreBlocksCalls ==
    ASSUME ToolTypeOK, CallInv, NoMoreBlocks
    PROVE  CallInv'
<1>1. /\ scan = "blocks" /\ ~MoreBlocks /\ scan' = IF calls = <<>> THEN "loose" ELSE "strip"
      /\ p' = 1 /\ fullText' = fullText /\ calls' = calls /\ rest' = rest
  BY DEF NoMoreBlocks
<1>2. Reading[p - 1].open = 0 /\ calls = Found(Reading[p - 1].blocks) /\ rest = <<>>
  BY <1>1 DEF CallInv
<1>3. PICK B \in Seq(Block) : B = Reading[p - 1].blocks
  BY PlaceBefore
<1>4. PICK m \in Seq(Block) : Blocks = B \o m /\ (~HasBlock(p) => Blocks = B)
  <2>1. PICK i : i = p - 1 /\ i \in 0..Len(fullText)
    BY PlaceBefore
  <2>2. Len(fullText) \in i..Len(fullText) /\ Len(fullText) \in Nat
    BY <2>1, PlaceBefore
  <2>3. PICK m \in Seq(Block) : Reading[Len(fullText)].blocks = Reading[i].blocks \o m
    BY <1>2, <2>1, <2>2, ReadGrows
  <2>4. ~HasBlock(p) => Blocks = B
    BY <1>2, <1>3, NoBlockRead DEF Blocks
  <2>5. QED
    BY <1>3, <2>1, <2>3, <2>4 DEF Blocks
<1>5. PICK f \in Seq(Nat) : f = Found(m)
  BY FoundConcat
<1>6. Found(Blocks) = calls \o f /\ calls \in Seq(Nat)
  BY <1>2, <1>3, <1>4, <1>5, FoundConcat
<1>7. ~HasBlock(p) => Found(Blocks) = calls
  BY <1>2, <1>3, <1>4
<1>8. Len(calls) \in Nat /\ Len(calls) <= MaxCalls /\ MaxCalls \in Nat \ {0}
      /\ (Len(calls) < MaxCalls => ~HasBlock(p))
  BY <1>1, TextProperties, ToolAssumption DEF MoreBlocks, ToolTypeOK
<1>9. calls = <<>> => Found(Blocks) = <<>>
  <2>1. calls = <<>> => Len(calls) = 0
    OBVIOUS
  <2>2. QED
    BY <1>7, <1>8, <2>1
<1>10. calls # <<>> => Found(Blocks) # <<>> /\ calls = Most(Found(Blocks))
  <2>1. calls # <<>> => calls \o f # <<>>
    BY <1>6, ConcatEqualIffEmpty
  <2>2. Len(calls) = MaxCalls => Most(calls \o f) = calls
    BY <1>6, <1>8, MostIs
  <2>3. ~HasBlock(p) => Most(calls) = calls
    <3>1. PICK t \in Seq(Nat) : t = <<>>
      BY EmptySeq
    <3>2. calls \o t = calls
      BY <1>6, <3>1
    <3>3. Most(calls \o t) = calls
      BY <1>6, <1>8, <3>1, MostIs
    <3>4. QED
      BY <3>2, <3>3
  <2>4. Len(calls) = MaxCalls \/ ~HasBlock(p)
    BY <1>8
  <2>5. QED
    BY <1>6, <1>7, <2>1, <2>2, <2>3, <2>4
<1>11. Blocks' = Blocks
  BY <1>1, SameText DEF Blocks
<1>12. Found(Blocks)' = Found(Blocks)
  <2>1. PICK D : D = Blocks
    OBVIOUS
  <2>2. Found(D)' = Found(D)
    BY <1>1, SameText
  <2>3. Found(Blocks)' = Found(D)'
    BY <1>11, <2>1 DEF Found
  <2>4. QED
    BY <2>1, <2>2, <2>3
<1>13. CASE calls = <<>>
  <2>1. NamesFirst' => Taken(calls, p)'
    <3>1. calls' = <<>> /\ DOMAIN calls' = {}
      BY <1>1, <1>13
    <3>2. QED
      BY <3>1 DEF Taken
  <2>2. QED
    BY <1>1, <1>9, <1>12, <1>13, <2>1 DEF CallInv, CallsFound
<1>14. CASE calls # <<>>
  <2>1. (Reading[p - 1])' = ReadInit
    <3>1. Reading'[0] = Reading[0] /\ p' - 1 = 0
      BY <1>1, SameText
    <3>2. QED
      BY <3>1, PlaceBefore, ReadingIs
  <2>2. (Reading[p - 1].open)' = 0
    BY <2>1 DEF ReadInit
  <2>3. Most(Found(Blocks))' = Most(Found(Blocks))
    BY <1>12 DEF Most
  <2>4. FlattenSeq(Upto(Kept(Blocks), p - 1))' = <<>>
    <3>1. (p - 1)' = 0
      BY <1>1
    <3>2. \A K : FlattenSeq(Upto(K, 0)) = <<>>
      BY FlattenNone
    <3>3. QED
      BY <3>1, <3>2
  <2>5. QED
    BY <1>1, <1>2, <1>10, <1>12, <1>14, <2>2, <2>3, <2>4 DEF CallInv, CallsFound
<1>15. QED
  BY <1>13, <1>14


LEMMA PieceOf ==
    ASSUME NEW S, NEW t \in Seq(S), NEW a \in Nat, NEW b \in Nat,
           1 <= a, a <= b + 1, b <= Len(t)
    PROVE  /\ SubSeq(t, a, b) \in Seq(S) /\ Len(SubSeq(t, a, b)) = b - a + 1
           /\ \A i \in 1..(b - a + 1) : SubSeq(t, a, b)[i] = t[a + i - 1]
OBVIOUS

LEMMA BlocksStay ==
    ASSUME fullText' = fullText
    PROVE  /\ Blocks' = Blocks /\ Found(Blocks)' = Found(Blocks)
           /\ Kept(Blocks)' = Kept(Blocks) /\ Outside(Blocks)' = Outside(Blocks)
           /\ Most(Found(Blocks))' = Most(Found(Blocks))
<1>1. Blocks' = Blocks
  BY SameText DEF Blocks
<1>2. PICK D : D = Blocks
  OBVIOUS
<1>3. Found(D)' = Found(D) /\ Kept(D)' = Kept(D) /\ Outside(D)' = Outside(D)
  BY SameText
<1>4. Found(Blocks)' = Found(D)'
  BY <1>1, <1>2 DEF Found
<1>5. Kept(Blocks)' = Kept(D)' /\ Outside(Blocks)' = Outside(D)'
  BY <1>1, <1>2 DEF Kept, Outside, Inside
<1>6. Found(Blocks)' = Found(Blocks)
  BY <1>2, <1>3, <1>4
<1>7. Most(Found(Blocks))' = Most(Found(Blocks))
  BY <1>6 DEF Most
<1>8. QED
  BY <1>1, <1>2, <1>3, <1>5, <1>6, <1>7

LEMMA StripBlockCalls ==
    ASSUME ToolTypeOK, CallInv, StripBlock
    PROVE  CallInv'
<1>1. /\ scan = "strip" /\ scan' = "strip" /\ HasBlock(p) /\ fullText' = fullText /\ calls' = calls
      /\ rest' = rest \o SubSeq(fullText, p, Start(p) - 1) /\ p' = End(p) + 1
  BY DEF StripBlock
<1>2. /\ Reading[p - 1].open = 0 /\ Found(Blocks) # <<>> /\ calls = Most(Found(Blocks))
      /\ rest = FlattenSeq(Upto(Kept(Blocks), p - 1))
  BY <1>1 DEF CallInv
<1>3. PICK s \in Nat : s = Start(p) /\ s \in p..Len(fullText)
  BY <1>1, BlockProperties, PlaceBefore
<1>4. PICK e \in Nat : e = End(p) /\ e \in (s + 1)..Len(fullText)
  BY <1>1, <1>3, BlockProperties, PlaceBefore
<1>5. PICK K \in Seq(Seq(Token)) : K = Kept(Blocks)
  BY KeptIs
<1>6. /\ Len(K) = Len(fullText) /\ Len(fullText) \in Nat /\ p \in Nat /\ 1 <= p
      /\ \A i \in 1..Len(fullText) :
           K[i] = IF i \in Inside(Blocks) THEN <<>> ELSE <<fullText[i]>>
  BY <1>5, KeptIs, PlaceBefore
<1>7. (\A i \in p..(s - 1) : i \notin Inside(Blocks)) /\ (\A i \in s..e : i \in Inside(Blocks))
  BY <1>1, <1>2, <1>3, <1>4, AroundBlock
<1>8. PICK w \in Seq(Token) : /\ w = SubSeq(fullText, p, s - 1) /\ Len(w) = s - p
                              /\ \A i \in 1..Len(w) : w[i] = fullText[p + i - 1]
  <2>1. fullText \in Seq(Token)
    BY DEF ToolTypeOK
  <2>2. PICK t \in Seq(Token) : t = fullText
    BY <2>1
  <2>3. PICK a \in Nat : a = p /\ 1 <= a /\ a <= s /\ s <= Len(t) /\ Len(t) \in Nat
    BY <1>3, <1>6, <2>2
  <2>4. PICK m \in Nat : m = s - 1 /\ a <= m + 1 /\ m <= Len(t) /\ m - a + 1 = s - a
    BY ONLY <2>3, s \in Nat
  <2>5. /\ SubSeq(t, a, m) \in Seq(Token) /\ Len(SubSeq(t, a, m)) = m - a + 1
        /\ \A i \in 1..(m - a + 1) : SubSeq(t, a, m)[i] = t[a + i - 1]
    BY <2>3, <2>4, PieceOf
  <2>6. QED
    BY <2>2, <2>3, <2>4, <2>5
<1>9. PICK n \in Nat : n = p - 1
  BY <1>6
<1>10. FlattenSeq(Upto(K, s - 1)) = rest \o w
  <2>1. n + Len(w) = s - 1 /\ n + Len(w) <= Len(K)
    <3>1. p \in Nat /\ s \in Nat /\ s <= Len(K) /\ Len(K) \in Nat
      BY <1>3, <1>6
    <3>2. Len(w) = s - p /\ n = p - 1
      BY <1>8, <1>9
    <3>3. QED
      BY ONLY <3>1, <3>2
  <2>2. \A i \in 1..Len(w) : K[n + i] = <<w[i]>>
    <3> TAKE i \in 1..Len(w)
    <3>1. n + i \in p..(s - 1) /\ n + i \in 1..Len(fullText) /\ n + i = p + i - 1
      <4>1. p \in Nat /\ 1 <= p /\ s \in Nat /\ s <= Len(fullText) /\ Len(fullText) \in Nat
        BY <1>3, <1>6
      <4>2. i \in 1..(s - p) /\ n = p - 1
        BY <1>8, <1>9
      <4>3. QED
        BY ONLY <4>1, <4>2
    <3>2. QED
      BY <1>6, <1>7, <1>8, <3>1
  <2>3. FlattenSeq(Upto(K, n + Len(w))) = FlattenSeq(Upto(K, n)) \o w
    BY <2>1, <2>2, FlattenSegment
  <2>4. QED
    BY <1>2, <1>5, <1>9, <2>1, <2>3
<1>11. FlattenSeq(Upto(K, e)) = FlattenSeq(Upto(K, s - 1))
  <2>1. PICK k \in Nat : k = s - 1 /\ e \in k..Len(K)
    BY <1>3, <1>4, <1>6
  <2>2. \A i \in (k + 1)..e : K[i] = <<>>
    <3> TAKE i \in (k + 1)..e
    <3>1. i \in s..e /\ i \in 1..Len(fullText)
      BY <1>3, <1>4, <1>6, <2>1, SMTT(60)
    <3>2. QED
      BY <1>6, <1>7, <3>1
  <2>3. FlattenSeq(Upto(K, e)) = FlattenSeq(Upto(K, k))
    BY <2>1, <2>2, FlattenSkip
  <2>4. QED
    BY <2>1, <2>3
<1>12. FlattenSeq(Upto(Kept(Blocks), p - 1))' = rest'
  <2>1. Kept(Blocks)' = K /\ (p - 1)' = e
    BY <1>1, <1>4, <1>5, BlocksStay
  <2>2. FlattenSeq(Upto(Kept(Blocks), p - 1))' = FlattenSeq(Upto(K, e))
    BY <2>1
  <2>3. rest' = rest \o w
    BY <1>1, <1>3, <1>8
  <2>4. QED
    BY <1>10, <1>11, <2>2, <2>3
<1>13. (Reading[p - 1].open)' = 0
  <2>1. Reading[e].open = 0
    BY <1>1, <1>2, <1>4, BlockRead
  <2>2. Reading' = Reading /\ (p - 1)' = e
    BY <1>1, <1>4, SameText
  <2>3. QED
    BY <2>1, <2>2
<1>14. QED
  BY <1>1, <1>2, <1>12, <1>13, BlocksStay DEF CallInv, CallsFound

LEMMA StripRestCalls ==
    ASSUME ToolTypeOK, CallInv, StripRest
    PROVE  CallInv'
<1>1. /\ scan = "strip" /\ scan' = "done" /\ ~HasBlock(p) /\ fullText' = fullText /\ calls' = calls
      /\ rest' = rest \o SubSeq(fullText, p, Len(fullText))
  BY DEF StripRest
<1>2. /\ Reading[p - 1].open = 0 /\ Found(Blocks) # <<>> /\ calls = Most(Found(Blocks))
      /\ rest = FlattenSeq(Upto(Kept(Blocks), p - 1))
  BY <1>1 DEF CallInv
<1>3. PICK K \in Seq(Seq(Token)) : K = Kept(Blocks)
  BY KeptIs
<1>4. /\ Len(K) = Len(fullText) /\ Len(fullText) \in Nat /\ p \in Nat /\ 1 <= p
      /\ p <= Len(fullText) + 1
      /\ \A i \in 1..Len(fullText) :
           K[i] = IF i \in Inside(Blocks) THEN <<>> ELSE <<fullText[i]>>
      /\ Outside(Blocks) = FlattenSeq(K)
  BY <1>3, KeptIs, PlaceBefore, TextProperties
<1>5. \A i \in p..Len(fullText) : i \notin Inside(Blocks)
  BY <1>1, <1>2, NoneAround
<1>6. PICK w \in Seq(Token) : /\ w = SubSeq(fullText, p, Len(fullText)) /\ Len(w) = Len(fullText) - p + 1
                              /\ \A i \in 1..Len(w) : w[i] = fullText[p + i - 1]
  <2>1. fullText \in Seq(Token)
    BY DEF ToolTypeOK
  <2>2. PICK t \in Seq(Token) : t = fullText
    BY <2>1
  <2>3. PICK a \in Nat : a = p /\ 1 <= a
    BY <1>4
  <2>4. PICK m \in Nat : m = Len(t) /\ a <= m + 1 /\ m <= Len(t)
    BY <1>4, <2>2, <2>3
  <2>5. /\ SubSeq(t, a, m) \in Seq(Token) /\ Len(SubSeq(t, a, m)) = m - a + 1
        /\ \A i \in 1..(m - a + 1) : SubSeq(t, a, m)[i] = t[a + i - 1]
    BY <2>3, <2>4, PieceOf
  <2>6. QED
    BY <2>2, <2>3, <2>4, <2>5
<1>7. PICK n \in Nat : n = p - 1
  BY <1>4
<1>8. FlattenSeq(K) = rest \o w
  <2>1. n + Len(w) = Len(K) /\ n + Len(w) <= Len(K)
    BY <1>4, <1>6, <1>7
  <2>2. \A i \in 1..Len(w) : K[n + i] = <<w[i]>>
    <3> TAKE i \in 1..Len(w)
    <3>1. n + i \in p..Len(fullText) /\ n + i \in 1..Len(fullText) /\ n + i = p + i - 1
      BY <1>4, <1>6, <1>7
    <3>2. QED
      BY <1>4, <1>5, <1>6, <3>1
  <2>3. FlattenSeq(Upto(K, n + Len(w))) = FlattenSeq(Upto(K, n)) \o w
    BY <2>1, <2>2, FlattenSegment
  <2>4. Upto(K, Len(K)) = K
    BY UptoAll
  <2>5. QED
    BY <1>2, <1>3, <1>7, <2>1, <2>3, <2>4
<1>9. rest' = Outside(Blocks)
  BY <1>1, <1>4, <1>6, <1>8
<1>10. CallsFound'
  BY <1>1, <1>2, <1>9, BlocksStay DEF CallsFound, Blocks, Most
<1>11. QED
  BY <1>1, <1>10 DEF CallInv


LEMMA TakenStays ==
    ASSUME fullText' = fullText
    PROVE  \A cs, q : (calls' = cs /\ p' = q) => (Taken(calls, p)' <=> Taken(cs, q))
<1> TAKE cs, q
<1>1. Taken(cs, q)' <=> Taken(cs, q)
  <2>1. \A c : Min(MatchEnds(c))' = Min(MatchEnds(c))
    BY SameText DEF Min
  <2>2. QED
    BY <2>1 DEF Taken
<1>2. ASSUME calls' = cs, p' = q PROVE Taken(calls, p)' <=> Taken(cs, q)'
  BY <1>2 DEF Taken, MatchEnds, Depth, Min
<1>3. QED
  BY <1>1, <1>2

LEMMA SkipNameCalls ==
    ASSUME ToolTypeOK, CallInv, SkipName
    PROVE  CallInv'
<1>1. /\ scan = "loose" /\ scan' = "loose" /\ MoreNames /\ fullText' = fullText /\ calls' = calls
      /\ p' = Min(Occurs(p, {Name})) + 1
  BY DEF SkipName
<1>2. Found(Blocks) = <<>> /\ (NamesFirst => Taken(calls, p))
  BY <1>1 DEF CallInv
<1>3. PICK q \in Nat : q = p' /\ p < q
  <2>1. Min(Occurs(p, {Name})) \in p..Len(fullText) /\ p \in Nat /\ Len(fullText) \in Nat
    BY <1>1, TextProperties, FirstOccurrence DEF MoreNames
  <2>2. QED
    BY <1>1, <2>1
<1>4. PICK cs \in Seq(Nat) : cs = calls
  <2>1. calls \in Seq(1..Len(fullText)) /\ Len(fullText) \in Nat
    BY TextProperties DEF ToolTypeOK
  <2>2. QED
    BY <2>1
<1>5. NamesFirst => Taken(cs, q)
  <2> SUFFICES ASSUME NamesFirst PROVE Taken(cs, q)
    OBVIOUS
  <2>1. Taken(cs, p)
    BY <1>2, <1>4
  <2>2. p \in Nat /\ p < q
    BY <1>3, TextProperties
  <2>3. \A x \in 1..(p - 1) : x \in 1..(q - 1)
    BY ONLY <2>2, q \in Nat
  <2>4. QED
    BY <2>1, <2>3 DEF Taken
<1>6. NamesFirst' => Taken(calls, p)'
  BY <1>1, <1>3, <1>4, <1>5, SameText, TakenStays
<1>7. QED
  BY <1>1, <1>2, <1>6, BlocksStay DEF CallInv, CallsFound

LEMMA TakeObjectCalls ==
    ASSUME ToolTypeOK, CallInv, TakeObject
    PROVE  CallInv'
<1>1. PICK b \in Candidate :
        /\ calls' = IF IsCall(b, Min(MatchEnds(b))) THEN Append(calls, b) ELSE calls
        /\ p' = Min(MatchEnds(b)) + 1
  BY DEF TakeObject
<1>2. scan = "loose" /\ scan' = "loose" /\ MoreNames /\ fullText' = fullText
  BY DEF TakeObject
<1>3. Found(Blocks) = <<>> /\ (NamesFirst => Taken(calls, p))
  BY <1>2 DEF CallInv
<1>4. PICK n \in Nat : n = Min(Occurs(p, {Name})) /\ p <= n
  <2>1. Min(Occurs(p, {Name})) \in p..Len(fullText) /\ p \in Nat /\ Len(fullText) \in Nat
    BY <1>2, TextProperties, FirstOccurrence DEF MoreNames
  <2>2. QED
    BY <2>1
<1>5. PICK e \in Nat : e = Min(MatchEnds(b)) /\ b <= e /\ (NamesFirst => e >= p)
  BY <1>2, CandidateProperties, TextProperties
<1>6. b \in Nat /\ 1 <= b /\ p \in Nat /\ 1 <= p
  BY <1>2, CandidateProperties, TextProperties
<1>7. fullText[b] = LBrace /\ b <= n /\ \A j \in 1..n : fullText[j] = LBrace => j <= b
  BY <1>4 DEF Candidate, Braces
<1>8. PICK cs \in Seq(Nat) : cs = calls
  <2>1. calls \in Seq(1..Len(fullText)) /\ Len(fullText) \in Nat
    BY TextProperties DEF ToolTypeOK
  <2>2. QED
    BY <2>1
<1>9. PICK q \in Nat : q = e + 1 /\ p' = q
  BY <1>1, <1>5
<1>10. ASSUME NamesFirst PROVE Taken(cs, q) /\ Taken(Append(cs, b), q)
  <2>1. Taken(cs, p) /\ p <= e
    BY <1>3, <1>5, <1>6, <1>8, <1>10
  <2>2. \A x \in 1..(p - 1) : x \in 1..(q - 1)
    BY <1>6, <1>9, <2>1
  <2>3. Taken(cs, q)
    BY <2>1, <2>2 DEF Taken
  <2>4. b \in 1..(q - 1) /\ e \in 1..(q - 1)
    BY <1>5, <1>6, <1>9
  <2>5. \A i \in DOMAIN cs : cs[i] < b
    <3> TAKE i \in DOMAIN cs
    <3>1. PICK c \in Nat : c = cs[i] /\ c \in 1..(p - 1) /\ fullText[c] = LBrace
                           /\ Min(MatchEnds(c)) \in 1..(p - 1)
      BY <1>6, <2>1 DEF Taken
    <3>2. c \in 1..n
      BY <1>4, <1>6, <3>1
    <3>3. c <= b
      BY <1>7, <3>1, <3>2
    <3>4. c # b
      BY <1>5, <1>6, <2>1, <3>1
    <3>5. QED
      BY <1>6, <3>1, <3>3, <3>4
  <2>6. PICK d \in Seq(Nat) : d = Append(cs, b)
    <3>1. Append(cs, b) \in Seq(Nat)
      BY <1>6, AppendProperties
    <3>2. QED
      BY <3>1
  <2>7. /\ DOMAIN d = 1..(Len(cs) + 1) /\ DOMAIN cs = 1..Len(cs) /\ Len(cs) \in Nat
        /\ d[Len(cs) + 1] = b /\ \A i \in 1..Len(cs) : d[i] = cs[i]
    BY <1>6, <2>6
  <2>8. \A i \in DOMAIN d : i \in DOMAIN cs \/ i = Len(cs) + 1
    BY <2>7
  <2>9. \A i \in DOMAIN d : /\ d[i] \in 1..(q - 1) /\ fullText[d[i]] = LBrace
                            /\ Min(MatchEnds(d[i])) \in 1..(q - 1)
    <3> TAKE i \in DOMAIN d
    <3>1. CASE i \in DOMAIN cs
      BY <2>3, <2>7, <3>1 DEF Taken
    <3>2. CASE i = Len(cs) + 1
      BY <1>5, <1>7, <2>4, <2>7, <3>2
    <3>3. QED
      BY <2>8, <3>1, <3>2
  <2>10. \A i, j \in DOMAIN d : i < j => d[i] < d[j]
    <3> TAKE i \in DOMAIN d, j \in DOMAIN d
    <3>1. CASE i \in DOMAIN cs /\ j \in DOMAIN cs
      BY <2>3, <2>7, <3>1 DEF Taken
    <3>2. CASE i \in DOMAIN cs /\ j = Len(cs) + 1
      BY <2>5, <2>7, <3>2
    <3>3. CASE i = Len(cs) + 1
      BY <2>7, <3>3
    <3>4. QED
      BY <2>8, <3>1, <3>2, <3>3
  <2>11. QED
    BY <2>3, <2>6, <2>9, <2>10 DEF Taken
<1>11. NamesFirst' => Taken(calls, p)'
  <2>1. PICK d : d = calls' /\ (d = cs \/ d = Append(cs, b))
    BY <1>1, <1>8
  <2>2. NamesFirst => Taken(d, q)
    BY <1>10, <2>1
  <2>3. QED
    BY <1>2, <1>9, <2>1, <2>2, SameText, TakenStays
<1>12. QED
  BY <1>2, <1>3, <1>11, BlocksStay DEF CallInv, CallsFound

LEMMA NoMoreNamesCalls ==
    ASSUME ToolTypeOK, CallInv, NoMoreNames
    PROVE  CallInv'
<1>1. /\ scan = "loose" /\ scan' = "done" /\ fullText' = fullText /\ calls' = calls
  BY DEF NoMoreNames
<1>2. Found(Blocks) = <<>> /\ (NamesFirst => Taken(calls, p))
  BY <1>1 DEF CallInv
<1>3. Found(Blocks)' = <<>> /\ NamesFirst' = NamesFirst
  BY <1>1, <1>2, BlocksStay, SameText
<1>4. NamesFirst' => \A i, j \in DOMAIN calls' : i < j => calls'[i] < calls'[j]
  BY <1>1, <1>2, <1>3 DEF Taken
<1>5. CallsFound'
  BY <1>3, <1>4 DEF CallsFound, Blocks
<1>6. QED
  BY <1>1, <1>5 DEF CallInv

ReadsFromStart == Len(fullText) \in Nat => Reading[0] = ReadInit

LEMMA ReadingStarts == ReadsFromStart'
<1>1. ReadsFromStart
  BY ReadingIs DEF ReadsFromStart
<1>2. QED
  BY <1>1, PTL

LEMMA ParseCalls ==
    ASSUME NEW t \in Seq(Token), TryParse(t)
    PROVE  CallInv'
<1>1. fullText' = t /\ scan' = "blocks" /\ p' = 1 /\ calls' = <<>> /\ rest' = <<>>
  BY DEF TryParse
<1>2. ToolTypeOK'
  BY ParseTypeOK
<1>3. (Reading[p - 1])' = ReadInit
  <2>1. Len(fullText)' \in Nat
    BY <1>1
  <2>2. (p - 1)' = 0
    BY <1>1
  <2>3. Reading[0]' = ReadInit
    BY <2>1, ReadingStarts DEF ReadsFromStart
  <2>4. QED
    BY <2>2, <2>3
<1>4. (Reading[p - 1].open)' = 0 /\ (Reading[p - 1].blocks)' = <<>>
  BY <1>3 DEF ReadInit
<1>5. Found(Reading[p - 1].blocks)' = <<>>
  BY <1>4 DEF Found, FlattenSeq
<1>6. QED
  BY <1>1, <1>4, <1>5 DEF CallInv, CallsFound


LEMMA StutterCalls ==
    ASSUME CallInv, UNCHANGED toolVars
    PROVE  CallInv'
<1>1. UNCHANGED <<fullText, scan, p, calls, rest>>
  BY DEF toolVars
<1>2. (Reading[p - 1])' = Reading[p - 1]
  BY <1>1, SameText
<1>3. PICK B : B = Reading[p - 1].blocks
  OBVIOUS
<1>4. Found(Reading[p - 1].blocks)' = Found(B)'
  BY <1>2, <1>3 DEF Found
<1>5. Found(B)' = Found(B)
  BY <1>1, SameText
<1>6. (NamesFirst => Taken(calls, p))' <=> (NamesFirst => Taken(calls, p))
  BY <1>1, SameText, TakenStays
<1>7. CallsFound'
  <2>1. CASE Found(Blocks) = <<>>
    <3>1. scan = "done" /\ NamesFirst => \A i, j \in DOMAIN calls : i < j => calls[i] < calls[j]
      BY <2>1 DEF CallInv, CallsFound, Blocks
    <3>2. QED
      BY <1>1, <2>1, <3>1, BlocksStay, SameText DEF CallsFound, Blocks
  <2>2. CASE Found(Blocks) # <<>>
    <3>1. scan = "done" => calls = Most(Found(Blocks)) /\ rest = Outside(Blocks)
      BY <2>2 DEF CallInv, CallsFound, Blocks, Most
    <3>2. QED
      BY <1>1, <2>2, <3>1, BlocksStay DEF CallsFound, Blocks, Most
  <2>3. QED
    BY <2>1, <2>2
<1>8. QED
  BY <1>1, <1>2, <1>3, <1>4, <1>5, <1>6, <1>7, BlocksStay DEF CallInv

LEMMA ScanCalls ==
    ASSUME ToolTypeOK, CallInv, Scan
    PROVE  CallInv'
BY TakeBlockCalls, NoMoreBlocksCalls, StripBlockCalls, StripRestCalls, SkipNameCalls,
   TakeObjectCalls, NoMoreNamesCalls DEF Scan, Turn

LEMMA InitCalls == ToolInit => CallInv
BY DEF ToolInit, CallInv, CallsFound

\* The text of the first answer comes back only if there are no calls
LEMMA ParsedCalls ==
    ASSUME RespInv, CallInv, Parsed
    PROVE  CallInv'
<1>1. /\ scan = "done" /\ scan' = "done" /\ fullText' = fullText /\ calls' = calls
      /\ calls # <<>> => rest' = rest
  BY DEF Parsed
<1>2. CASE Found(Blocks) = <<>>
  <2>1. NamesFirst => \A i, j \in DOMAIN calls : i < j => calls[i] < calls[j]
    BY <1>1, <1>2 DEF CallInv, CallsFound, Blocks
  <2>2. CallsFound'
    BY <1>1, <1>2, <2>1, BlocksStay, SameText DEF CallsFound, Blocks
  <2>3. QED
    BY <1>1, <2>2 DEF CallInv
<1>3. CASE Found(Blocks) # <<>>
  <2>1. calls = Most(Found(Blocks)) /\ rest = Outside(Blocks)
    BY <1>1, <1>3 DEF CallInv, CallsFound, Blocks, Most
  <2>2. calls # <<>>
    <3>1. PICK f \in Seq(Nat) : f = Found(Blocks)
      <4>1. ToolTypeOK
        BY DEF RespInv
      <4>2. QED
        BY <4>1, PlaceBefore, FoundConcat
    <3>2. Len(f) \in Nat \ {0} /\ MaxCalls \in Nat \ {0}
      BY <1>3, <3>1, ToolAssumption
    <3>3. PICK k \in Nat : k = Min({MaxCalls, Len(f)}) /\ 1 <= k /\ k <= Len(f)
      BY <3>2, MinOfTwo
    <3>4. Len(SubSeq(f, 1, k)) = k
      BY <3>3, PieceOf
    <3>5. calls = SubSeq(f, 1, k)
      BY <2>1, <3>1, <3>3 DEF Most
    <3>6. Len(calls) = k
      BY <3>4, <3>5
    <3>7. ASSUME calls = <<>> PROVE FALSE
      <4>1. Len(calls) = 0
        BY ONLY <3>7
      <4>2. k \in Nat /\ 1 <= k
        BY <3>3
      <4>3. QED
        BY ONLY <3>6, <4>1, <4>2
    <3>8. QED
      BY <3>7
  <2>3. CallsFound'
    BY <1>1, <1>3, <2>1, <2>2, BlocksStay DEF CallsFound, Blocks, Most
  <2>4. QED
    BY <1>1, <2>3 DEF CallInv
<1>4. QED
  BY <1>2, <1>3

LEMMA RespCalls == RespInv /\ CallInv /\ RespInv' /\ [RespNext]_allVars => CallInv'
<1> SUFFICES ASSUME RespInv, CallInv, RespInv', [RespNext]_allVars PROVE CallInv'
  OBVIOUS
<1>1. ToolTypeOK
  BY DEF RespInv
<1>2. CASE UNCHANGED toolVars
  BY <1>2, StutterCalls
<1>3. CASE \E t : TryParse(t)
  <2>1. PICK t : TryParse(t)
    BY <1>3
  <2>2. t \in Seq(Token)
    BY <2>1 DEF TryParse, RespInv, ToolTypeOK
  <2>3. QED
    BY <2>1, <2>2, ParseCalls
<1>4. CASE Scan
  BY <1>1, <1>4, ScanCalls
<1>5. CASE Parsed
  BY <1>5, ParsedCalls
<1>6. UNCHANGED toolVars \/ (\E t : TryParse(t)) \/ Scan \/ Parsed
  BY DEF RespNext, Respond, RespReceive, RespLine, RespEnd, RespScan, AskAgain, Reply, allVars
<1>7. QED
  BY <1>2, <1>3, <1>4, <1>5, <1>6

\* The calls that a response is left with are those of the blocks of the answer
\* that was parsed, in order and as many as there is room for, and the rest is
\* the answer without its blocks; or no object was taken twice.  For any text,
\* any second answer, and whatever has happened to the first.
THEOREM CallsAreFound == RespSpec => []CallsFound
<1>1. RespInit => CallInv
  BY InitCalls DEF RespInit
<1>2. RespInv /\ CallInv /\ RespInv' /\ [RespNext]_allVars => CallInv'
  BY RespCalls
<1>3. CallInv => CallsFound
  BY DEF CallInv
<1>4. QED
  BY <1>1, <1>2, <1>3, RespAlways, PTL DEF RespSpec

\* In a response, too, a turn of the loops goes on behind what it has looked at
THEOREM ResponsesAdvance == RespSpec => ScanAdvances
<1>1. RespInv /\ [RespNext]_allVars
        => [Turn /\ (scan = "loose" => NamesFirst) => p' > p]_toolVars
  BY TurnForward DEF RespInv
<1>2. QED
  BY <1>1, RespAlways, PTL DEF RespSpec, ScanAdvances
==============================================================================
