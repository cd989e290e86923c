---------------------------- MODULE ThinkParser -----------------------------
(***************************************************************************)
(* think_parser.c: the same split for a streamed answer, character by      *)
(* character as tokens arrive.  What may still turn out to be a tag is     *)
(* held back in tag; what is not is collected in out and passed on when    *)
(* out is full or the kind of text changes.  The push_str loops run in     *)
(* steps of their own, so that one step passes on one character.           *)
(***************************************************************************)
EXTENDS Integers, Sequences

CONSTANTS
    Char, Lt,           \* characters; Lt is '<'
    OpenTag, CloseTag,  \* OPEN_TAG and CLOSE_TAG
    OutCap,             \* OUT_CAP
    MaxText             \* bound: characters of an answer

ASSUME ThinkAssumption ==
    /\ Lt \in Char
    /\ \A t \in {OpenTag, CloseTag} :
        t \in Seq(Char) /\ Len(t) >= 2 /\ t[1] = Lt /\ \A i \in 2..Len(t) : t[i] # Lt
    /\ OutCap \in Nat /\ OutCap >= 2
    /\ MaxText \in Nat

VARIABLES
    text,       \* everything that has been fed
    token,      \* what think_parser_feed has not looked at yet
    state, tag, out, outIsReasoning,
    todo,       \* what a push_str loop has still to push
    closing,    \* "no", "yes" while think_parser_finish runs, "done" after it
    sent        \* what the emit callback has passed on, each character with
                \* its kind

thinkVars == <<text, token, state, tag, out, outIsReasoning, todo, closing, sent>>

State == {"CONTENT", "MAYBE_OPEN", "REASONING", "MAYBE_CLOSE"}

InReasoning == state \in {"REASONING", "MAYBE_CLOSE"}

\* The tag that would end the present kind of text
Awaited == IF InReasoning THEN CloseTag ELSE OpenTag

Marked(s, r) == [i \in DOMAIN s |-> [char |-> s[i], reasoning |-> r]]

\* The struct's arrays hold what is put in them: tag[MAX_TAG + 1] with its
\* terminator, out[OUT_CAP] with the terminator flush_out adds
TypeOK ==
    /\ text \in Seq(Char) /\ token \in Seq(Char)
    /\ state \in State
    /\ tag \in Seq(Char) /\ \E t \in {OpenTag, CloseTag} : Len(tag) <= Len(t)
    /\ todo \in Seq(Char)
    /\ out \in Seq(Char) /\ Len(out) < OutCap - 1
    /\ outIsReasoning \in BOOLEAN
    /\ closing \in {"no", "yes", "done"}
    /\ sent \in Seq([char: Char, reasoning: BOOLEAN])

Init ==
    /\ text = <<>>
    /\ token = <<>>
    /\ state = "CONTENT"
    /\ tag = <<>>
    /\ out = <<>>
    /\ outIsReasoning = FALSE
    /\ todo = <<>>
    /\ closing = "no"
    /\ sent = <<>>

(***************************************************************************)
(* flush_out and push_char                                                 *)
(***************************************************************************)
Flushed == sent \o Marked(out, outIsReasoning)

\* Mutant: flushes when the buffer is full to the last byte, without room for
\* the terminator
Push_Late(c) ==
    LET turn == out # <<>> /\ outIsReasoning # InReasoning
        now  == Append(IF turn THEN <<>> ELSE out, c)
    IN  /\ outIsReasoning' = InReasoning
        /\ out' = IF Len(now) >= OutCap THEN <<>> ELSE now
        /\ sent' = (IF turn THEN Flushed ELSE sent) \o
                   (IF Len(now) >= OutCap THEN Marked(now, InReasoning) ELSE <<>>)

Push(c) ==
    LET turn == out # <<>> /\ outIsReasoning # InReasoning
        said == IF turn THEN Flushed ELSE sent
        now  == Append(IF turn THEN <<>> ELSE out, c)
        full == Len(now) >= OutCap - 1
    IN  /\ outIsReasoning' = InReasoning
        /\ out' = IF full THEN <<>> ELSE now
        /\ sent' = IF full THEN said \o Marked(now, InReasoning) ELSE said

(***************************************************************************)
(* think_parser_feed                                                       *)
(***************************************************************************)
Idle == token = <<>> /\ todo = <<>> /\ closing = "no"

Feed(t) ==
    /\ Idle
    /\ t # <<>> /\ Len(text) + Len(t) <= MaxText
    /\ text' = text \o t
    /\ token' = t
    /\ UNCHANGED <<state, tag, out, outIsReasoning, todo, closing, sent>>

Looking == token # <<>> /\ todo = <<>>

Plain ==
    /\ Looking
    /\ state \in {"CONTENT", "REASONING"} /\ Head(token) # Lt
    /\ Push(Head(token))
    /\ token' = Tail(token)
    /\ UNCHANGED <<text, state, tag, todo, closing>>

Bracket ==
    /\ Looking
    /\ state \in {"CONTENT", "REASONING"} /\ Head(token) = Lt
    /\ tag' = <<Lt>>
    /\ state' = IF InReasoning THEN "MAYBE_CLOSE" ELSE "MAYBE_OPEN"
    /\ token' = Tail(token)
    /\ UNCHANGED <<text, out, outIsReasoning, todo, closing, sent>>

Longer == Append(tag, Head(token))

Fits == \A i \in DOMAIN Longer : Longer[i] = Awaited[i]

TagGrows ==
    /\ Looking
    /\ state \in {"MAYBE_OPEN", "MAYBE_CLOSE"}
    /\ Len(Longer) < Len(Awaited) /\ Fits
    /\ tag' = Longer
    /\ token' = Tail(token)
    /\ UNCHANGED <<text, state, out, outIsReasoning, todo, closing, sent>>

TagCompletes ==
    /\ Looking
    /\ state \in {"MAYBE_OPEN", "MAYBE_CLOSE"}
    /\ Len(Longer) = Len(Awaited) /\ Fits
    /\ sent' = Flushed
    /\ out' = <<>>
    /\ tag' = <<>>
    /\ state' = IF InReasoning THEN "CONTENT" ELSE "REASONING"
    /\ token' = Tail(token)
    /\ UNCHANGED <<text, outIsReasoning, todo, closing>>

\* Mutant: a '<' that breaks a tag is not taken for the start of another
TagBreaks_NoRestart ==
    /\ Looking
    /\ state \in {"MAYBE_OPEN", "MAYBE_CLOSE"}
    /\ ~Fits
    /\ todo' = Longer /\ tag' = <<>>
    /\ state' = IF InReasoning THEN "REASONING" ELSE "CONTENT"
    /\ token' = Tail(token)
    /\ UNCHANGED <<text, out, outIsReasoning, closing, sent>>

\* mismatch_open and mismatch_close: start again if the last character is '<'
TagBreaks ==
    /\ Looking
    /\ state \in {"MAYBE_OPEN", "MAYBE_CLOSE"}
    /\ ~Fits
    /\ IF Head(token) = Lt
         THEN todo' = tag /\ tag' = <<Lt>> /\ UNCHANGED state
         ELSE /\ todo' = Longer /\ tag' = <<>>
              /\ state' = IF InReasoning THEN "REASONING" ELSE "CONTENT"
    /\ token' = Tail(token)
    /\ UNCHANGED <<text, out, outIsReasoning, closing, sent>>

\* push_str, one character
PushNext ==
    /\ todo # <<>>
    /\ Push(Head(todo))
    /\ todo' = Tail(todo)
    /\ UNCHANGED <<text, token, state, tag, closing>>

(***************************************************************************)
(* think_parser_finish                                                     *)
(***************************************************************************)
\* Mutant: only flushes, and forgets the held back start of a tag
Finish_OnlyFlush ==
    /\ Idle
    /\ closing' = "yes"
    /\ UNCHANGED <<text, token, state, tag, out, outIsReasoning, todo, sent>>

Finish ==
    /\ Idle
    /\ closing' = "yes"
    /\ todo' = tag
    /\ tag' = <<>>
    /\ UNCHANGED <<text, token, state, out, outIsReasoning, sent>>

LastFlush ==
    /\ closing = "yes" /\ todo = <<>>
    /\ sent' = Flushed
    /\ out' = <<>>
    /\ closing' = "done"
    /\ UNCHANGED <<text, token, state, tag, outIsReasoning, todo>>

Look == Plain \/ Bracket \/ TagGrows \/ TagCompletes \/ TagBreaks \/ PushNext \/ LastFlush

Next == (\E t \in Seq(Char) : Feed(t)) \/ Look \/ Finish

Spec == Init /\ [][Next]_thinkVars

(***************************************************************************)
(* Properties                                                              *)
(***************************************************************************)

\* However an answer is cut into tokens, and wherever it stops, a streaming
\* client gets content and reasoning split as think_strip splits the whole of
\* it: nothing lost, doubled, reordered or put on the other side.
Strip == INSTANCE ThinkStrip WITH
    ended   <- closing # "no",
    pos     <- Len(text) - Len(token) - Len(tag) - Len(todo),
    inThink <- InReasoning,
    output  <- Flushed

StripsAsWhole == Strip!Spec

\* think_parser_finish leaves nothing behind.
AllPassedOn ==
    closing = "done" => Len(token) + Len(tag) + Len(todo) + Len(out) = 0
==============================================================================
