-------------------------- MODULE ResponsesApiProofs --------------------------
(***************************************************************************)
(* Proofs about ResponsesApi and its clients, for any number of handlers,  *)
(* responses, threads and shapes of request.                               *)
(***************************************************************************)
EXTENDS ResponsesClients, InductionLemmas, TLAPS

\* Every message of s was made for the conversation that began with r
Mine(s, r) == r # None /\ \A j \in DOMAIN s : root[s[j].of] = r

LEMMA NewMessagesType ==
    ASSUME NEW r \in Request, NEW i \in RespId
    PROVE  /\ NewMessages(r, i) \in Seq(Message)
           /\ \A j \in DOMAIN NewMessages(r, i) : NewMessages(r, i)[j].of = i
<1>1. r.inputs \in Nat /\ r.instructions \in BOOLEAN /\ r.tools \in BOOLEAN
  BY ResponsesAssumption
<1> DEFINE front == IF r.instructions THEN <<Msg("instructions", i)>> ELSE <<>>
<1>2. front \in Seq(Message) /\ \A j \in DOMAIN front : front[j].of = i
  <2>1. Msg("instructions", i) \in Message /\ Msg("instructions", i).of = i
    BY DEF Msg, Message, Kind
  <2>2. CASE r.instructions
    BY <2>1, <2>2
  <2>3. CASE ~r.instructions
    BY <2>3
  <2>4. QED
    BY <2>2, <2>3
<1>3. /\ Inputs(r, i) \in Seq(Message)
      /\ \A j \in DOMAIN Inputs(r, i) : Inputs(r, i)[j].of = i
  <2>1. \A n \in 1..r.inputs : [kind |-> "input", of |-> i, n |-> n] \in Message
    BY <1>1 DEF Message, Kind
  <2>2. QED
    BY <1>1, <2>1 DEF Inputs
<1>4. NewMessages(r, i) = front \o Inputs(r, i)
  BY DEF NewMessages
<1> HIDE DEF front
<1>5. QED
  BY <1>2, <1>3, <1>4

LEMMA WithToolsType ==
    ASSUME NEW r \in Request, NEW i \in RespId, NEW s \in Seq(Message)
    PROVE  /\ WithTools(r, i, s) \in Seq(Message)
           /\ \A j \in DOMAIN WithTools(r, i, s) :
                 \/ WithTools(r, i, s)[j].of = i
                 \/ \E k \in DOMAIN s : WithTools(r, i, s)[j] = s[k]
<1>1. <<Msg("tools", i)>> \in Seq(Message) /\ Msg("tools", i).of = i
  BY DEF Msg, Message, Kind
<1>2. CASE r.tools
  BY <1>1, <1>2 DEF WithTools
<1>3. CASE ~r.tools
  BY <1>3 DEF WithTools
<1>4. QED
  BY <1>2, <1>3

LEMMA MessageOf ==
    ASSUME NEW s \in Seq(Message), NEW j \in DOMAIN s
    PROVE  s[j] \in Message /\ s[j].of \in RespId
<1>1. s[j] \in Message
  OBVIOUS
<1>2. QED
  BY <1>1 DEF Message

LEMMA PostOf ==
    ASSUME TypeOK, NEW t \in ThreadId, NEW i \in DOMAIN upstream[t]
    PROVE  upstream[t][i].msgs \in Seq(Message)
<1>1. upstream[t] \in Seq(Post)
  BY DEF TypeOK
<1>2. upstream[t][i] \in Post
  BY <1>1
<1>3. QED
  BY <1>2 DEF Post

LEMMA NoPostType == NoPost \in Post
BY DEF NoPost, Post

LEMMA ConcatMine ==
    ASSUME NEW s \in Seq(Message), NEW t \in Seq(Message), NEW r, Mine(s, r), Mine(t, r)
    PROVE  Mine(s \o t, r)
BY DEF Mine

LEMMA LastUserInside ==
    ASSUME NEW s \in Seq(Message), HasUser(s)
    PROVE  LastUser(s) \in DOMAIN s
<1> DEFINE U == {i \in 1..Len(s) : IsUser(s[i])}
<1>1. U \in SUBSET (1..Len(s)) /\ U # {} /\ Len(s) \in Nat
  BY DEF HasUser
<1>2. PICK i \in U : \A j \in U : i >= j
  BY <1>1, GreatestElement
<1>3. i \in DOMAIN s /\ IsUser(s[i]) /\ \A j \in DOMAIN s : IsUser(s[j]) => j <= i
  BY <1>2
<1>4. QED
  BY <1>3 DEF LastUser

(***************************************************************************)
(* The inductive invariant: a message carries the response it was made     *)
(* for, a thread the conversation it was drawn for, and every place that   *)
(* holds either belongs to that conversation.                              *)
(***************************************************************************)
Posting == {"send", "wait", "got", "answer", "saveState", "saveRow", "dropRow"}

HandlerLocals ==
    \A h \in Handler :
        /\ pc[h] = "idle" => /\ stored[h] = None /\ used[h] = None /\ prev[h] = None
                             /\ post[h] = NoPost /\ id[h] = None
        /\ pc[h] # "idle" => /\ req[h] \in Request /\ id[h] \in RespId
                             /\ root[id[h]] # None
        /\ pc[h] \in {"load", "forget", "find"} => prev[h] \in RespId
        /\ prev[h] # None => root[prev[h]] = root[id[h]]
        /\ pc[h] \in Posting => used[h] \in ThreadId

HandlersOwn ==
    \A h \in Handler : pc[h] # "idle" =>
        /\ Mine(msgs[h], root[id[h]])
        /\ Mine(post[h].msgs, root[id[h]])
        /\ stored[h] # None => owner[stored[h]] = root[id[h]]
        /\ used[h] # None => owner[used[h]] = root[id[h]]

TranscriptsOwned == \A i \in RespId : transcript[i] # None => Mine(transcript[i].msgs, root[i])

RowsOwned ==
    \A i \in RespId : row[i] # None => root[i] # None /\ owner[row[i].thread] = root[i]

ToldAreDrawn == \A i \in told : root[i] # None

PostsOwned ==
    \A t \in ThreadId : \A i \in DOMAIN upstream[t] : Mine(upstream[t][i].msgs, owner[t])

IInv ==
    /\ TypeOK
    /\ HandlerLocals
    /\ HandlersOwn
    /\ TranscriptsOwned
    /\ RowsOwned
    /\ ToldAreDrawn
    /\ PostsOwned

LEMMA InitIInv == Init => IInv
<1> SUFFICES ASSUME Init PROVE IInv
  OBVIOUS
<1> USE DEF Init
<1>1. TypeOK
  BY ResponsesAssumption DEF TypeOK, Record, Row, Post, NoPost, Pc, Outcome
<1>2. HandlerLocals /\ HandlersOwn
  BY DEF HandlerLocals, HandlersOwn, Posting
<1>3. TranscriptsOwned /\ RowsOwned /\ ToldAreDrawn /\ PostsOwned
  BY DEF TranscriptsOwned, RowsOwned, ToldAreDrawn, PostsOwned
<1>4. QED
  BY <1>1, <1>2, <1>3 DEF IInv

LEMMA ArriveStep ==
    ASSUME IInv, NEW h \in Handler, NEW r \in Request, NEW p \in RespId \cup {None},
           NEW i \in RespId, Arrive(h, r, p, i)
    PROVE  IInv'
<1> USE DEF IInv, Arrive, Goto
<1> DEFINE new == WithTools(r, i, NewMessages(r, i))
<1>1. new \in Seq(Message) /\ \A j \in DOMAIN new : new[j].of = i
  BY NewMessagesType, WithToolsType
<1> HIDE DEF new
<1>2. /\ root' \in [RespId -> RespId \cup {None}] /\ root'[i] # None
      /\ \A k \in RespId : root[k] # None => root'[k] = root[k]
      /\ p # None => root'[i] = root[p] /\ root'[p] = root[p]
  BY ResponsesAssumption DEF TypeOK, ToldAreDrawn
<1>3. \A s, c : Mine(s, c) /\ s \in Seq(Message) => \A j \in DOMAIN s : root'[s[j].of] = c /\ c # None
  <2> SUFFICES ASSUME NEW s \in Seq(Message), NEW c, Mine(s, c), NEW j \in DOMAIN s
               PROVE  root'[s[j].of] = c /\ c # None
    OBVIOUS
  <2>1. s[j].of \in RespId
    BY MessageOf
  <2>2. QED
    BY <2>1, <1>2 DEF Mine
<1>4. TypeOK'
  <2>1. said' \in [RespId -> SUBSET Message]
    <3>1. r.inputs \in Nat
      BY ResponsesAssumption
    <3>2. \A n \in 1..r.inputs : Inputs(r, i)[n] \in Message
      BY <3>1 DEF Inputs, Message, Kind
    <3>3. QED
      BY <3>2 DEF TypeOK
  <2>2. QED
    BY <1>1, <1>2, <2>1 DEF TypeOK, Pc, new
<1>5. HandlerLocals'
  BY <1>1, <1>2 DEF TypeOK, HandlerLocals, Posting
<1>6. HandlersOwn'
  <2> SUFFICES ASSUME NEW g \in Handler, pc'[g] # "idle"
               PROVE  /\ Mine(msgs[g], root[id[g]])'
                      /\ Mine(post[g].msgs, root[id[g]])'
                      /\ stored'[g] # None => owner'[stored'[g]] = root'[id'[g]]
                      /\ used'[g] # None => owner'[used'[g]] = root'[id'[g]]
    BY DEF HandlersOwn
  <2>1. CASE g = h
    <3>1. msgs'[g] = new /\ post'[g] = NoPost /\ id'[g] = i /\ stored'[g] = None /\ used'[g] = None
      BY <2>1 DEF TypeOK, HandlerLocals, new
    <3>2. QED
      BY <1>1, <1>2, <3>1 DEF Mine, NoPost
  <2>2. CASE g # h
    <3>1. /\ pc[g] # "idle" /\ msgs'[g] = msgs[g] /\ post'[g] = post[g] /\ id'[g] = id[g]
          /\ stored'[g] = stored[g] /\ used'[g] = used[g]
      BY <2>2 DEF TypeOK
    <3>2. id[g] \in RespId /\ root'[id[g]] = root[id[g]]
      BY <1>2, <3>1 DEF HandlerLocals
    <3>3. msgs[g] \in Seq(Message) /\ post[g].msgs \in Seq(Message)
      BY DEF TypeOK, Post
    <3>4. Mine(msgs[g], root[id[g]]) /\ Mine(post[g].msgs, root[id[g]])
      BY <3>1 DEF HandlersOwn
    <3>5. Mine(msgs[g], root[id[g]])' /\ Mine(post[g].msgs, root[id[g]])'
      BY <1>3, <3>1, <3>2, <3>3, <3>4 DEF Mine
    <3>6. QED
      BY <3>1, <3>2, <3>5 DEF HandlersOwn
  <2>3. QED
    BY <2>1, <2>2
<1>7. TranscriptsOwned'
  <2> SUFFICES ASSUME NEW k \in RespId, transcript[k] # None
               PROVE  Mine(transcript[k].msgs, root[k])'
    BY DEF TranscriptsOwned
  <2>1. transcript[k].msgs \in Seq(Message) /\ Mine(transcript[k].msgs, root[k])
    BY DEF TypeOK, Record, TranscriptsOwned
  <2>2. root'[k] = root[k]
    BY <1>2, <2>1 DEF Mine
  <2>3. QED
    BY <1>3, <2>1, <2>2 DEF Mine
<1>8. RowsOwned'
  BY <1>2 DEF RowsOwned
<1>9. ToldAreDrawn'
  BY <1>2 DEF TypeOK, ToldAreDrawn
<1>10. PostsOwned'
  <2> SUFFICES ASSUME NEW t \in ThreadId, NEW j \in DOMAIN upstream[t]
               PROVE  Mine(upstream[t][j].msgs, owner[t])'
    BY DEF PostsOwned
  <2>1. upstream[t][j].msgs \in Seq(Message) /\ Mine(upstream[t][j].msgs, owner[t])
    BY PostOf DEF PostsOwned
  <2>2. QED
    BY <1>3, <2>1 DEF Mine
<1>11. QED
  BY <1>4, <1>5, <1>6, <1>7, <1>8, <1>9, <1>10 DEF IInv

\* For the steps that draw nothing and post nothing: messages stay whose they
\* were.
LEMMA SamePosts ==
    ASSUME IInv, UNCHANGED <<root, owner, upstream>>
    PROVE  PostsOwned'
BY DEF IInv, PostsOwned, Mine

LEMMA LoadStep ==
    ASSUME IInv, NEW h \in Handler, Load(h)
    PROVE  IInv'
<1> USE DEF IInv
<1> DEFINE old == transcript[prev[h]]
           live == old # None /\ ~Expired(old.created)
           new == WithTools(req[h], id[h], old.msgs \o NewMessages(req[h], id[h]))
<1>a. /\ pc[h] = "load"
      /\ transcript' = IF live THEN transcript ELSE [transcript EXCEPT ![prev[h]] = None]
      /\ msgs' = IF live THEN [msgs EXCEPT ![h] = new] ELSE msgs
      /\ pc' = [pc EXCEPT ![h] = IF live THEN "forget" ELSE "find"]
      /\ UNCHANGED <<row, lastPurge, now, upstream, history, req, prev, id, stored, used, post,
                     first, out, retried>>
  BY DEF Load, Goto
<1>b. /\ req[h] \in Request /\ id[h] \in RespId /\ prev[h] \in RespId
      /\ root[id[h]] # None /\ root[prev[h]] = root[id[h]]
  BY <1>a, ResponsesAssumption DEF HandlerLocals
<1>c. live => new \in Seq(Message) /\ Mine(new, root[id[h]])
  <2> SUFFICES ASSUME live PROVE new \in Seq(Message) /\ Mine(new, root[id[h]])
    OBVIOUS
  <2> DEFINE tail == NewMessages(req[h], id[h])
  <2>1. old.msgs \in Seq(Message) /\ Mine(old.msgs, root[id[h]])
    BY <1>b DEF TypeOK, Record, TranscriptsOwned
  <2>2. tail \in Seq(Message) /\ Mine(tail, root[id[h]])
    BY <1>b, NewMessagesType DEF Mine
  <2>3. old.msgs \o tail \in Seq(Message) /\ Mine(old.msgs \o tail, root[id[h]])
    BY <2>1, <2>2, ConcatMine
  <2> DEFINE body == old.msgs \o tail
  <2>4. new = WithTools(req[h], id[h], body) /\ body \in Seq(Message) /\ Mine(body, root[id[h]])
    BY <2>3
  <2> HIDE DEF tail, old, live, new, body
  <2>5. new \in Seq(Message)
    BY <1>b, <2>4, WithToolsType
  <2>6. ASSUME NEW j \in DOMAIN new PROVE root[new[j].of] = root[id[h]]
    <3>1. new[j].of = id[h] \/ \E k \in DOMAIN body : new[j] = body[k]
      BY <1>b, <2>4, WithToolsType
    <3>2. QED
      BY <2>4, <3>1 DEF Mine
  <2>7. QED
    BY <1>b, <2>5, <2>6 DEF Mine
<1> HIDE DEF old, live, new
<1>1. TypeOK'
  <2>1. transcript' \in [RespId -> Record \cup {None}] /\ msgs' \in [Handler -> Seq(Message)]
    BY <1>a, <1>b, <1>c DEF TypeOK
  <2>2. QED
    BY <1>a, <2>1 DEF TypeOK, history, Pc
<1>2. HandlerLocals'
  BY <1>a, <1>b DEF TypeOK, HandlerLocals, history, Posting
<1>3. HandlersOwn'
  BY <1>a, <1>b, <1>c DEF TypeOK, HandlersOwn, history, Mine
<1>4. TranscriptsOwned'
  BY <1>a, <1>b DEF TypeOK, TranscriptsOwned, history, Mine
<1>5. RowsOwned' /\ ToldAreDrawn'
  BY <1>a DEF RowsOwned, ToldAreDrawn, history
<1>6. PostsOwned'
  BY <1>a, SamePosts DEF history
<1>7. QED
  BY <1>1, <1>2, <1>3, <1>4, <1>5, <1>6

LEMMA ForgetStep ==
    ASSUME IInv, NEW h \in Handler, Forget(h)
    PROVE  IInv'
<1> USE DEF IInv, Forget, Goto, history
<1>1. TypeOK'
  BY DEF TypeOK, Pc
<1>2. HandlerLocals'
  BY DEF TypeOK, HandlerLocals, Posting
<1>3. HandlersOwn'
  BY DEF TypeOK, HandlersOwn, Mine
<1>4. TranscriptsOwned'
  BY DEF TypeOK, TranscriptsOwned, Mine
<1>5. RowsOwned' /\ ToldAreDrawn'
  BY DEF RowsOwned, ToldAreDrawn
<1>6. PostsOwned'
  BY SamePosts
<1>7. QED
  BY <1>1, <1>2, <1>3, <1>4, <1>5, <1>6

LEMMA FindStep ==
    ASSUME IInv, NEW h \in Handler, Find(h)
    PROVE  IInv'
<1> USE DEF IInv, history
<1> DEFINE found == row[prev[h]] # None /\ ~Expired(row[prev[h]].used)
<1>a. /\ pc[h] = "find" /\ pc' = [pc EXCEPT ![h] = "compose"]
      /\ lastPurge' \in Nat
      /\ \A i \in RespId : row'[i] \in {row[i], None}
      /\ row' \in [RespId -> Row \cup {None}]
      /\ stored' = IF found THEN [stored EXCEPT ![h] = row[prev[h]].thread] ELSE stored
      /\ UNCHANGED <<transcript, now, upstream, history, req, prev, id, used, msgs, post, first,
                     out, retried>>
  BY DEF Find, Goto, Purged, TypeOK
<1>b. /\ id[h] \in RespId /\ prev[h] \in RespId
      /\ root[id[h]] # None /\ root[prev[h]] = root[id[h]]
  BY <1>a, ResponsesAssumption DEF HandlerLocals
<1>c. found => row[prev[h]].thread \in ThreadId /\ owner[row[prev[h]].thread] = root[id[h]]
  BY <1>b DEF TypeOK, Row, RowsOwned
<1> HIDE DEF found
<1>1. TypeOK'
  <2>1. stored' \in [Handler -> ThreadId \cup {None}]
    BY <1>a, <1>c DEF TypeOK
  <2>2. QED
    BY <1>a, <2>1 DEF TypeOK, Pc
<1>2. HandlerLocals'
  BY <1>a, <1>b DEF TypeOK, HandlerLocals, Posting
<1>3. HandlersOwn'
  BY <1>a, <1>b, <1>c DEF TypeOK, HandlersOwn, Mine
<1>4. TranscriptsOwned'
  BY <1>a DEF TranscriptsOwned, Mine
<1>5. RowsOwned' /\ ToldAreDrawn'
  BY <1>a DEF RowsOwned, ToldAreDrawn
<1>6. PostsOwned'
  BY <1>a, SamePosts
<1>7. QED
  BY <1>1, <1>2, <1>3, <1>4, <1>5, <1>6

LEMMA ContinueStep ==
    ASSUME IInv, NEW h \in Handler, Continue(h)
    PROVE  IInv'
<1> USE DEF IInv, history
<1> DEFINE last == msgs[h][LastUser(msgs[h])]
           body == [isNewChat |-> FALSE, msgs |-> <<last>>]
<1>a. /\ pc[h] = "compose" /\ stored[h] # None /\ HasUser(msgs[h])
      /\ pc' = [pc EXCEPT ![h] = "send"]
      /\ used' = [used EXCEPT ![h] = stored[h]]
      /\ post' = [post EXCEPT ![h] = body]
      /\ UNCHANGED <<transcript, row, lastPurge, now, upstream, history, req, prev, id, stored,
                     msgs, first, out, retried>>
  BY DEF Continue, Goto
<1>b. stored[h] \in ThreadId /\ msgs[h] \in Seq(Message) /\ Mine(msgs[h], root[id[h]])
  BY <1>a DEF TypeOK, HandlersOwn
<1>c. last \in Message /\ root[last.of] = root[id[h]]
  BY <1>a, <1>b, LastUserInside, MessageOf DEF Mine
<1> HIDE DEF last
<1>d. body \in Post /\ Mine(body.msgs, root[id[h]])
  BY <1>b, <1>c DEF Post, Mine
<1> HIDE DEF body
<1>1. TypeOK'
  BY <1>a, <1>b, <1>d DEF TypeOK, Pc
<1>2. HandlerLocals'
  BY <1>a, <1>b DEF TypeOK, HandlerLocals, Posting
<1>3. HandlersOwn'
  BY <1>a, <1>b, <1>d DEF TypeOK, HandlersOwn, Mine
<1>4. TranscriptsOwned'
  BY <1>a DEF TranscriptsOwned, Mine
<1>5. RowsOwned' /\ ToldAreDrawn'
  BY <1>a DEF RowsOwned, ToldAreDrawn
<1>6. PostsOwned'
  BY <1>a, SamePosts
<1>7. QED
  BY <1>1, <1>2, <1>3, <1>4, <1>5, <1>6

LEMMA OpenThreadStep ==
    ASSUME IInv, NEW h \in Handler, NEW t \in ThreadId, OpenThread(h, t)
    PROVE  IInv'
<1> USE DEF IInv, history
<1> DEFINE body == [isNewChat |-> TRUE, msgs |-> msgs[h]]
<1>a. /\ pc[h] = "compose" /\ owner[t] = None
      /\ pc' = [pc EXCEPT ![h] = "send"]
      /\ owner' = [owner EXCEPT ![t] = root[id[h]]]
      /\ used' = [used EXCEPT ![h] = t]
      /\ post' = [post EXCEPT ![h] = body]
      /\ UNCHANGED <<transcript, row, lastPurge, now, upstream, root, said, told, faults, crashes,
                     req, prev, id, stored, msgs, first, out, retried>>
  BY DEF OpenThread, Goto
<1>b. id[h] \in RespId /\ root[id[h]] \in RespId /\ root[id[h]] # None
  BY <1>a DEF TypeOK, HandlerLocals
<1>c. body \in Post /\ Mine(body.msgs, root[id[h]])
  BY <1>a DEF TypeOK, Post, HandlersOwn
<1>d. owner' \in [ThreadId -> RespId \cup {None}]
      /\ \A u \in ThreadId : owner[u] # None => owner'[u] = owner[u]
  BY <1>a, <1>b DEF TypeOK
<1> HIDE DEF body
<1>1. TypeOK'
  BY <1>a, <1>b, <1>c, <1>d DEF TypeOK, Pc
<1>2. HandlerLocals'
  BY <1>a, <1>b DEF TypeOK, HandlerLocals, Posting
<1>3. HandlersOwn'
  <2> SUFFICES ASSUME NEW g \in Handler, pc'[g] # "idle"
               PROVE  /\ Mine(msgs[g], root[id[g]])'
                      /\ Mine(post[g].msgs, root[id[g]])'
                      /\ stored'[g] # None => owner'[stored'[g]] = root'[id'[g]]
                      /\ used'[g] # None => owner'[used'[g]] = root'[id'[g]]
    BY DEF HandlersOwn
  <2>1. pc[g] # "idle" /\ id[g] \in RespId /\ root[id[g]] # None
    BY <1>a DEF TypeOK, HandlerLocals
  <2>2. Mine(msgs[g], root[id[g]])' /\ Mine(post[g].msgs, root[id[g]])'
    BY <1>a, <1>c, <2>1 DEF TypeOK, HandlersOwn, Mine
  <2>3. stored'[g] # None => owner'[stored'[g]] = root'[id'[g]]
    BY <1>a, <1>d, <2>1 DEF TypeOK, HandlersOwn
  <2>4. used'[g] # None => owner'[used'[g]] = root'[id'[g]]
    BY <1>a, <1>d, <2>1 DEF TypeOK, HandlersOwn
  <2>5. QED
    BY <2>2, <2>3, <2>4
<1>4. TranscriptsOwned'
  BY <1>a DEF TranscriptsOwned, Mine
<1>5. RowsOwned' /\ ToldAreDrawn'
  BY <1>a, <1>d DEF TypeOK, Row, RowsOwned, ToldAreDrawn
<1>6. PostsOwned'
  <2> SUFFICES ASSUME NEW u \in ThreadId, NEW i \in DOMAIN upstream[u]
               PROVE  Mine(upstream[u][i].msgs, owner[u])'
    BY <1>a DEF PostsOwned
  <2>1. owner[u] # None
    BY DEF PostsOwned, Mine
  <2>2. QED
    BY <1>a, <1>d, <2>1 DEF PostsOwned, Mine
<1>7. QED
  BY <1>1, <1>2, <1>3, <1>4, <1>5, <1>6

LEMMA AcceptStep ==
    ASSUME IInv, NEW h \in Handler, Accept(h)
    PROVE  IInv'
<1> USE DEF IInv, history
<1>a. /\ pc[h] = "send" /\ pc' = [pc EXCEPT ![h] = "wait"]
      /\ upstream' = [upstream EXCEPT ![used[h]] = Append(@, post[h])]
      /\ UNCHANGED <<transcript, row, lastPurge, now, history, req, prev, id, stored, used, msgs,
                     post, first, out, retried>>
  BY DEF Accept, Goto
<1>b. used[h] \in ThreadId /\ post[h] \in Post /\ Mine(post[h].msgs, owner[used[h]])
  BY <1>a, ResponsesAssumption, ZenonT(60) DEF TypeOK, HandlerLocals, HandlersOwn, Posting
<1>1. TypeOK'
  BY <1>a, <1>b DEF TypeOK, Pc
<1>2. HandlerLocals'
  BY <1>a DEF TypeOK, HandlerLocals, Posting
<1>3. HandlersOwn'
  BY <1>a DEF TypeOK, HandlersOwn, Mine
<1>4. TranscriptsOwned'
  BY <1>a DEF TranscriptsOwned, Mine
<1>5. RowsOwned' /\ ToldAreDrawn'
  BY <1>a DEF RowsOwned, ToldAreDrawn
<1>6. PostsOwned'
  <2>a. root' = root /\ owner' = owner
    BY <1>a
  <2>b. SUFFICES ASSUME NEW t \in ThreadId, NEW i \in DOMAIN upstream'[t]
                 PROVE  Mine(upstream'[t][i].msgs, owner[t])
    BY <2>a DEF PostsOwned, Mine
  <2>1. CASE t # used[h]
    BY <1>a, <1>b, <2>1 DEF TypeOK, PostsOwned
  <2>2. CASE t = used[h]
    <3>1. upstream[t] \in Seq(Post) /\ upstream'[t] = Append(upstream[t], post[h])
      BY <1>a, <1>b, <2>2 DEF TypeOK
    <3>2. CASE i = Len(upstream[t]) + 1
      BY <1>b, <2>2, <3>1, <3>2
    <3>3. CASE i \in DOMAIN upstream[t]
      <4>1. upstream'[t][i] = upstream[t][i]
        BY <3>1, <3>3
      <4>2. QED
        BY <3>3, <4>1 DEF PostsOwned
    <3>4. QED
      BY <3>1, <3>2, <3>3
  <2>3. QED
    BY <2>1, <2>2
<1>7. QED
  BY <1>1, <1>2, <1>3, <1>4, <1>5, <1>6

LEMMA AnswerStep ==
    ASSUME IInv, NEW h \in Handler, NEW outcome \in Outcome, Answer(h, outcome)
    PROVE  IInv'
<1> USE DEF IInv, Answer, Goto, history
<1>1. TypeOK'
  BY DEF TypeOK, Pc, Outcome
<1>2. HandlerLocals'
  BY DEF TypeOK, HandlerLocals, Posting
<1>3. HandlersOwn'
  BY DEF TypeOK, HandlersOwn, Mine
<1>4. TranscriptsOwned'
  BY DEF TranscriptsOwned, Mine
<1>5. RowsOwned' /\ ToldAreDrawn'
  BY DEF RowsOwned, ToldAreDrawn
<1>6. PostsOwned'
  BY SamePosts
<1>7. QED
  BY <1>1, <1>2, <1>3, <1>4, <1>5, <1>6

LEMMA FaultStep ==
    ASSUME IInv, NEW h \in Handler, NEW outcome \in Outcome, Fault(h, outcome)
    PROVE  IInv'
<1> USE DEF IInv, Fault, Goto, history
<1>1. TypeOK'
  BY DEF TypeOK, Pc, Outcome
<1>2. HandlerLocals'
  BY DEF TypeOK, HandlerLocals, Posting
<1>3. HandlersOwn'
  BY DEF TypeOK, HandlersOwn, Mine
<1>4. TranscriptsOwned'
  BY DEF TranscriptsOwned, Mine
<1>5. RowsOwned' /\ ToldAreDrawn'
  BY DEF RowsOwned, ToldAreDrawn
<1>6. PostsOwned'
  BY SamePosts
<1>7. QED
  BY <1>1, <1>2, <1>3, <1>4, <1>5, <1>6

LEMMA SettleStep ==
    ASSUME IInv, NEW h \in Handler, Settle(h)
    PROVE  IInv'
<1> USE DEF IInv, Settle, Goto, history
<1>1. TypeOK'
  BY DEF TypeOK, Pc, Outcome
<1>2. HandlerLocals'
  BY DEF TypeOK, HandlerLocals, Posting
<1>3. HandlersOwn'
  BY DEF TypeOK, HandlersOwn, Mine
<1>4. TranscriptsOwned'
  BY DEF TranscriptsOwned, Mine
<1>5. RowsOwned' /\ ToldAreDrawn'
  BY DEF RowsOwned, ToldAreDrawn
<1>6. PostsOwned'
  BY SamePosts
<1>7. QED
  BY <1>1, <1>2, <1>3, <1>4, <1>5, <1>6

LEMMA AbandonStep ==
    ASSUME IInv, NEW h \in Handler, Abandon(h)
    PROVE  IInv'
<1> USE DEF IInv, Abandon, Done, Goto, history
<1>1. TypeOK'
  BY NoPostType DEF TypeOK, Pc, Outcome
<1>2. HandlerLocals'
  BY ResponsesAssumption DEF TypeOK, HandlerLocals, Posting
<1>3. HandlersOwn'
  BY DEF TypeOK, HandlersOwn, Mine
<1>4. TranscriptsOwned'
  BY DEF TranscriptsOwned, Mine
<1>5. RowsOwned' /\ ToldAreDrawn'
  BY DEF RowsOwned, ToldAreDrawn
<1>6. PostsOwned'
  BY SamePosts
<1>7. QED
  BY <1>1, <1>2, <1>3, <1>4, <1>5, <1>6

LEMMA AskAgainStep ==
    ASSUME IInv, NEW h \in Handler, AskAgain(h)
    PROVE  IInv'
<1> USE DEF IInv, history
<1> DEFINE more == <<Msg("reply", id[h]), Msg("nudge", id[h]), Msg("reminder", id[h])>>
<1>a. /\ pc[h] = "got" /\ pc' = [pc EXCEPT ![h] = "compose"]
      /\ msgs' = [msgs EXCEPT ![h] = @ \o more]
      /\ first' = [first EXCEPT ![h] = out[h]]
      /\ retried' = [retried EXCEPT ![h] = TRUE]
      /\ UNCHANGED <<transcript, row, lastPurge, now, upstream, history, req, prev, id, stored,
                     used, post, out>>
  BY DEF AskAgain, Goto
<1>b. id[h] \in RespId /\ root[id[h]] # None
  BY <1>a DEF HandlerLocals
<1>c. more \in Seq(Message) /\ Mine(more, root[id[h]])
  BY <1>b DEF Msg, Message, Kind, Mine
<1>d. msgs[h] \in Seq(Message) /\ Mine(msgs[h], root[id[h]])
  BY <1>a DEF TypeOK, HandlersOwn
<1> HIDE DEF more
<1>e. msgs[h] \o more \in Seq(Message) /\ Mine(msgs[h] \o more, root[id[h]])
  BY <1>c, <1>d, ConcatMine
<1>1. TypeOK'
  BY <1>a, <1>e DEF TypeOK, Pc
<1>2. HandlerLocals'
  BY <1>a DEF TypeOK, HandlerLocals, Posting
<1>3. HandlersOwn'
  BY <1>a, <1>e DEF TypeOK, HandlersOwn, Mine
<1>4. TranscriptsOwned'
  BY <1>a DEF TranscriptsOwned, Mine
<1>5. RowsOwned' /\ ToldAreDrawn'
  BY <1>a DEF RowsOwned, ToldAreDrawn
<1>6. PostsOwned'
  BY <1>a, SamePosts
<1>7. QED
  BY <1>1, <1>2, <1>3, <1>4, <1>5, <1>6

LEMMA ReplyStep ==
    ASSUME IInv, NEW h \in Handler, Reply(h)
    PROVE  IInv'
<1> USE DEF IInv, history
<1>a. /\ pc[h] = "answer" /\ pc' = [pc EXCEPT ![h] = "saveState"]
      /\ told' = told \cup {id[h]}
      /\ msgs' = IF out[h] = "empty" THEN msgs
                 ELSE [msgs EXCEPT ![h] = Append(@, Msg("reply", id[h]))]
      /\ UNCHANGED <<transcript, row, lastPurge, now, upstream, owner, root, said, faults, crashes,
                     req, prev, id, stored, used, post, first, out, retried>>
  BY DEF Reply, Goto
<1>b. id[h] \in RespId /\ root[id[h]] # None
  BY <1>a DEF HandlerLocals
<1>c. Msg("reply", id[h]) \in Message /\ Msg("reply", id[h]).of = id[h]
  BY <1>b DEF Msg, Message, Kind
<1>d. msgs[h] \in Seq(Message) /\ Mine(msgs[h], root[id[h]])
  BY <1>a DEF TypeOK, HandlersOwn
<1>e. msgs'[h] \in Seq(Message) /\ Mine(msgs'[h], root[id[h]])
  BY <1>a, <1>b, <1>c, <1>d DEF Mine, TypeOK
<1>f. \A g \in Handler : g # h => msgs'[g] = msgs[g]
  BY <1>a DEF TypeOK
<1>1. TypeOK'
  <2>1. msgs' \in [Handler -> Seq(Message)]
    BY <1>a, <1>c DEF TypeOK
  <2>2. QED
    BY <1>a, <1>b, <2>1 DEF TypeOK, Pc
<1>2. HandlerLocals'
  BY <1>a DEF TypeOK, HandlerLocals, Posting
<1>3. HandlersOwn'
  BY <1>a, <1>e, <1>f DEF TypeOK, HandlersOwn, Mine
<1>4. TranscriptsOwned'
  BY <1>a DEF TranscriptsOwned, Mine
<1>5. RowsOwned' /\ ToldAreDrawn'
  BY <1>a, <1>b DEF RowsOwned, ToldAreDrawn
<1>6. PostsOwned'
  BY <1>a, SamePosts
<1>7. QED
  BY <1>1, <1>2, <1>3, <1>4, <1>5, <1>6

LEMMA SaveStateStep ==
    ASSUME IInv, NEW h \in Handler, SaveState(h)
    PROVE  IInv'
<1> USE DEF IInv, SaveState, Goto, history
<1>a. id[h] \in RespId /\ msgs[h] \in Seq(Message) /\ Mine(msgs[h], root[id[h]])
  BY DEF TypeOK, HandlerLocals, HandlersOwn
<1>1. TypeOK'
  BY <1>a DEF TypeOK, Pc, Record
<1>2. HandlerLocals'
  BY DEF TypeOK, HandlerLocals, Posting
<1>3. HandlersOwn'
  BY DEF TypeOK, HandlersOwn, Mine
<1>4. TranscriptsOwned'
  BY <1>a DEF TypeOK, TranscriptsOwned, Mine
<1>5. RowsOwned' /\ ToldAreDrawn'
  BY DEF RowsOwned, ToldAreDrawn
<1>6. PostsOwned'
  BY SamePosts
<1>7. QED
  BY <1>1, <1>2, <1>3, <1>4, <1>5, <1>6

LEMMA SaveRowStep ==
    ASSUME IInv, NEW h \in Handler, SaveRow(h)
    PROVE  IInv'
<1> USE DEF IInv, SaveRow, Goto, history
<1>a. /\ id[h] \in RespId /\ root[id[h]] # None
      /\ used[h] \in ThreadId /\ owner[used[h]] = root[id[h]]
  BY ResponsesAssumption DEF TypeOK, HandlerLocals, HandlersOwn, Posting
<1>1. TypeOK'
  BY <1>a DEF TypeOK, Pc, Row
<1>2. HandlerLocals'
  BY DEF TypeOK, HandlerLocals, Posting
<1>3. HandlersOwn'
  BY DEF TypeOK, HandlersOwn, Mine
<1>4. TranscriptsOwned'
  BY DEF TranscriptsOwned, Mine
<1>5. RowsOwned' /\ ToldAreDrawn'
  BY <1>a DEF TypeOK, RowsOwned, ToldAreDrawn
<1>6. PostsOwned'
  BY SamePosts
<1>7. QED
  BY <1>1, <1>2, <1>3, <1>4, <1>5, <1>6

LEMMA DropRowStep ==
    ASSUME IInv, NEW h \in Handler, DropRow(h)
    PROVE  IInv'
<1> USE DEF IInv, DropRow, Done, Goto, history
<1>1. TypeOK'
  BY NoPostType DEF TypeOK, Pc, Outcome
<1>2. HandlerLocals'
  BY ResponsesAssumption DEF TypeOK, HandlerLocals, Posting
<1>3. HandlersOwn'
  BY DEF TypeOK, HandlersOwn, Mine
<1>4. TranscriptsOwned'
  BY DEF TranscriptsOwned, Mine
<1>5. RowsOwned' /\ ToldAreDrawn'
  BY DEF TypeOK, RowsOwned, ToldAreDrawn
<1>6. PostsOwned'
  BY SamePosts
<1>7. QED
  BY <1>1, <1>2, <1>3, <1>4, <1>5, <1>6

LEMMA TickStep ==
    ASSUME IInv, Tick
    PROVE  IInv'
<1> USE DEF IInv, Tick, history, handlerVars
<1>1. TypeOK'
  BY ResponsesAssumption DEF TypeOK
<1>2. HandlerLocals' /\ HandlersOwn'
  BY DEF HandlerLocals, HandlersOwn, Mine
<1>3. TranscriptsOwned' /\ RowsOwned' /\ ToldAreDrawn'
  BY DEF TranscriptsOwned, RowsOwned, ToldAreDrawn, Mine
<1>4. PostsOwned'
  BY SamePosts
<1>5. QED
  BY <1>1, <1>2, <1>3, <1>4

LEMMA CrashStep ==
    ASSUME IInv, Crash
    PROVE  IInv'
<1> USE DEF IInv, Crash, history
<1>1. TypeOK'
  BY NoPostType DEF TypeOK, Pc, Outcome
<1>2. HandlerLocals' /\ HandlersOwn'
  BY ResponsesAssumption DEF HandlerLocals, HandlersOwn, Posting
<1>3. TranscriptsOwned' /\ RowsOwned' /\ ToldAreDrawn'
  BY DEF TranscriptsOwned, RowsOwned, ToldAreDrawn, Mine
<1>4. PostsOwned'
  BY SamePosts
<1>5. QED
  BY <1>1, <1>2, <1>3, <1>4

LEMMA StutterStep ==
    ASSUME IInv, UNCHANGED vars
    PROVE  IInv'
BY DEF IInv, vars, history, handlerVars, TypeOK, HandlerLocals, HandlersOwn, TranscriptsOwned,
       RowsOwned, ToldAreDrawn, PostsOwned, Mine

LEMMA NextIInv == IInv /\ [Next]_vars => IInv'
<1> SUFFICES ASSUME IInv, [Next]_vars PROVE IInv'
  OBVIOUS
<1>1. CASE UNCHANGED vars
  BY <1>1, StutterStep
<1>2. CASE \E h \in Handler, r \in Request, p \in RespId \cup {None}, i \in RespId :
             Arrive(h, r, p, i)
  BY <1>2, ArriveStep
<1>3. CASE \E h \in Handler : HandlerStep(h)
  BY <1>3, LoadStep, ForgetStep, FindStep, ContinueStep, OpenThreadStep, AcceptStep, AnswerStep,
     FaultStep, AbandonStep, AskAgainStep, SettleStep, ReplyStep, SaveStateStep, SaveRowStep,
     DropRowStep DEF HandlerStep
<1>4. CASE Tick
  BY <1>4, TickStep
<1>5. CASE Crash
  BY <1>5, CrashStep
<1>6. QED
  BY <1>1, <1>2, <1>3, <1>4, <1>5 DEF Next

LEMMA Invariance == Spec => []IInv
BY InitIInv, NextIInv, PTL DEF Spec

\* Every variable of the Responses API server keeps its type, whatever clients
\* ask (TypeOK of ResponsesApi).
THEOREM TypeCorrect == Spec => []TypeOK
<1>1. IInv => TypeOK
  BY DEF IInv
<1>2. QED
  BY <1>1, Invariance, PTL

\* However many requests run side by side, chain from what they like, fail or
\* die between two sections, no message of one conversation is posted to the
\* thread of another (handle_responses, resp_state_*, thread_state_*).
THEOREM ConversationsStayApart == Spec => []ConversationsApart
<1>1. IInv => ConversationsApart
  BY DEF IInv, PostsOwned, Mine, ConversationsApart
<1>2. QED
  BY <1>1, Invariance, PTL

(***************************************************************************)
(* Threads are handed on.  A handler drops the row it continued last, when *)
(* its own row is there or, if that one has expired since, so has the row  *)
(* it drops.                                                               *)
(***************************************************************************)
\* A handler that may take the row of its predecessor away
Takes(h) == pc[h] # "idle" /\ stored[h] # None

SaidOnFrom ==
    \A h \in Handler : pc[h] # "idle" /\ prev[h] # None =>
        prev[h] \in RespId /\ said[prev[h]] \subseteq said[id[h]]

OneAtAnId ==
    \A g, h \in Handler : pc[g] # "idle" /\ pc[h] # "idle" /\ id[g] = id[h] => g = h

\* The row of a response is saved by its own handler, and only then found
RowsAreSaved ==
    \A g \in Handler : pc[g] \notin {"idle", "dropRow"} =>
        /\ row[id[g]] = None
        /\ \A h \in Handler : Takes(h) => prev[h] # id[g]

TakesFromPrev == \A h \in Handler : Takes(h) => prev[h] # None

UsedInPast == \A i \in RespId : row[i] # None => row[i].used <= now

\* Before a row is dropped another one is there that says as much, is as
\* young, and is not about to be dropped, or the row has expired
Dropping(h) == pc[h] = "dropRow" /\ stored[h] # None

Follows(i, p) ==
    /\ row[i] # None /\ said[p] \subseteq said[i] /\ row[p].used <= row[i].used
    /\ \A h \in Handler : Dropping(h) => prev[h] # i

HandsOn ==
    \A h \in Handler : Dropping(h) /\ row[prev[h]] # None =>
        Expired(row[prev[h]].used) \/ \E i \in RespId : Follows(i, prev[h])

HInv == SaidOnFrom /\ OneAtAnId /\ RowsAreSaved /\ TakesFromPrev /\ UsedInPast /\ HandsOn

\* A handler goes on to where it neither holds nor gives up a row
LEMMA HandsOnQuietly ==
    ASSUME IInv, HInv, NEW h \in Handler, NEW at, at \notin {"idle", "dropRow"},
           pc[h] \notin {"idle", "dropRow"}, pc' = [pc EXCEPT ![h] = at],
           UNCHANGED <<row, now, said, prev, id, stored>>
    PROVE  HInv'
<1>1. /\ pc'[h] = at /\ \A g \in Handler \ {h} : pc'[g] = pc[g]
      /\ \A g \in Handler : Takes(g)' <=> Takes(g)
      /\ \A g \in Handler : Dropping(g)' <=> Dropping(g)
  BY DEF IInv, TypeOK, Takes, Dropping
<1>2. (SaidOnFrom /\ OneAtAnId)'
  BY <1>1 DEF HInv, SaidOnFrom, OneAtAnId
<1>3. (RowsAreSaved /\ TakesFromPrev /\ UsedInPast)'
  BY <1>1 DEF HInv, RowsAreSaved, TakesFromPrev, UsedInPast
<1>4. HandsOn'
  BY <1>1 DEF HInv, HandsOn, Follows, Expired
<1>5. QED
  BY <1>2, <1>3, <1>4 DEF HInv

LEMMA ArriveHandsOn ==
    ASSUME IInv, HInv, NEW h \in Handler, NEW r \in Request, NEW p \in RespId \cup {None},
           NEW i \in RespId, Arrive(h, r, p, i)
    PROVE  HInv'
<1>1. /\ pc[h] = "idle" /\ root[i] = None /\ UNCHANGED <<row, now, stored>> /\ stored[h] = None
      /\ p # None => root[p] # None /\ p \in RespId
      /\ pc' = [pc EXCEPT ![h] = IF p = None THEN "compose" ELSE "load"]
      /\ prev' = [prev EXCEPT ![h] = p] /\ id' = [id EXCEPT ![h] = i]
      /\ \A k \in RespId : k # i => said'[k] = said[k]
      /\ p # None => said[p] \subseteq said'[i]
  BY DEF Arrive, Goto, IInv, TypeOK, ToldAreDrawn, HandlerLocals
<1>2. /\ pc'[h] \notin {"idle", "dropRow"} /\ prev'[h] = p /\ id'[h] = i /\ ~Takes(h)'
      /\ \A g \in Handler \ {h} : pc'[g] = pc[g] /\ prev'[g] = prev[g] /\ id'[g] = id[g]
      /\ row[i] = None
  BY <1>1 DEF IInv, TypeOK, Takes, RowsOwned
<1>3. ASSUME NEW g \in Handler, pc[g] # "idle"
      PROVE  g # h /\ id[g] # i /\ prev[g] # i /\ id[g] \in RespId
  BY <1>1, <1>3, ResponsesAssumption DEF IInv, HandlerLocals
<1>4. \A g \in Handler : /\ Takes(g)' <=> Takes(g) /\ g # h
                         /\ Dropping(g)' <=> Dropping(g) /\ g # h
  BY <1>1, <1>2 DEF Takes, Dropping
<1>5. SaidOnFrom'
  <2> SUFFICES ASSUME NEW g \in Handler, pc'[g] # "idle", prev'[g] # None
               PROVE  prev'[g] \in RespId /\ said'[prev'[g]] \subseteq said'[id'[g]]
    BY DEF SaidOnFrom
  <2>1. CASE g = h
    BY <1>1, <1>2, <2>1
  <2>2. CASE g # h
    <3>1. pc[g] # "idle" /\ prev[g] \in RespId /\ said[prev[g]] \subseteq said[id[g]]
      BY <1>2, <2>2 DEF HInv, SaidOnFrom
    <3>2. QED
      BY <1>1, <1>2, <1>3, <2>2, <3>1
  <2>3. QED
    BY <2>1, <2>2
<1>6. OneAtAnId'
  BY <1>2, <1>3 DEF HInv, OneAtAnId
<1>7. RowsAreSaved'
  <2> SUFFICES ASSUME NEW g \in Handler, pc'[g] \notin {"idle", "dropRow"}
               PROVE  row[id'[g]] = None /\ \A f \in Handler : Takes(f)' => prev'[f] # id'[g]
    BY <1>1 DEF RowsAreSaved
  <2>1. \A f \in Handler : Takes(f)' => Takes(f) /\ f # h /\ prev'[f] = prev[f] /\ prev[f] # i
    BY <1>2, <1>3, <1>4 DEF Takes
  <2>2. CASE g = h
    BY <1>2, <2>1, <2>2
  <2>3. CASE g # h
    BY <1>2, <2>1, <2>3 DEF HInv, RowsAreSaved
  <2>4. QED
    BY <2>2, <2>3
<1>8. TakesFromPrev' /\ UsedInPast'
  BY <1>1, <1>2, <1>4 DEF HInv, TakesFromPrev, UsedInPast
<1>9. HandsOn'
  <2> SUFFICES ASSUME NEW g \in Handler, Dropping(g)', NEW q, q = prev'[g],
                      row'[q] # None, ~Expired(row[q].used)'
               PROVE  \E k \in RespId : Follows(k, q)'
    BY DEF HandsOn
  <2>1. g # h /\ Dropping(g) /\ q = prev[g] /\ q \in RespId /\ q # i
    BY <1>2, <1>3, <1>4 DEF Dropping, HInv, SaidOnFrom, TakesFromPrev, Takes
  <2>2. row[q] # None /\ ~Expired(row[q].used)
    BY <1>1 DEF Expired
  <2>3. PICK k \in RespId : Follows(k, q)
    BY <2>1, <2>2 DEF HInv, HandsOn
  <2>4. k # i /\ said'[k] = said[k] /\ said'[q] = said[q]
    BY <1>1, <1>2, <2>1, <2>3 DEF Follows
  <2>5. \A f \in Handler : Dropping(f)' => prev'[f] # k
    BY <1>2, <1>4, <2>3 DEF Follows
  <2>6. Follows(k, q)'
    BY <1>1, <2>3, <2>4, <2>5 DEF Follows
  <2>7. QED
    BY <2>6
<1>10. QED
  BY <1>5, <1>6, <1>7, <1>8, <1>9 DEF HInv

LEMMA FindHandsOn ==
    ASSUME IInv, HInv, NEW h \in Handler, Find(h)
    PROVE  HInv'
<1> DEFINE found == row[prev[h]] # None /\ ~Expired(row[prev[h]].used)
<1>1. /\ pc[h] = "find" /\ pc' = [pc EXCEPT ![h] = "compose"]
      /\ \A i \in RespId : row'[i] = row[i] \/ (row'[i] = None /\ Expired(row[i].used))
      /\ UNCHANGED <<now, said, prev, id>> /\ prev[h] \in RespId
      /\ stored' = IF found THEN [stored EXCEPT ![h] = row[prev[h]].thread] ELSE stored
  <2>1. prev[h] \in RespId /\ row \in [RespId -> Row \cup {None}]
    BY DEF Find, IInv, HandlerLocals, TypeOK
  <2>2. ASSUME NEW i \in RespId
        PROVE  row'[i] = row[i] \/ (row'[i] = None /\ Expired(row[i].used))
    BY <2>1 DEF Find, Purged
  <2>3. QED
    BY <2>1, <2>2 DEF Find, Goto, history
<1>2. /\ pc'[h] = "compose" /\ \A g \in Handler \ {h} : pc'[g] = pc[g] /\ stored'[g] = stored[g]
      /\ stored'[h] # None => stored[h] # None \/ row[prev[h]] # None
  BY <1>1 DEF IInv, TypeOK
<1>3. /\ \A g \in Handler : Dropping(g)' => Dropping(g) /\ g # h
      /\ \A g \in Handler : Takes(g)' => Takes(g) \/ (g = h /\ row[prev[h]] # None)
  BY <1>1, <1>2 DEF Dropping, Takes
<1>4. SaidOnFrom' /\ OneAtAnId'
  BY <1>1, <1>2 DEF HInv, SaidOnFrom, OneAtAnId
<1>5. TakesFromPrev' /\ UsedInPast'
  BY <1>1, <1>3, ResponsesAssumption DEF HInv, TakesFromPrev, UsedInPast
<1>6. RowsAreSaved'
  <2> SUFFICES ASSUME NEW g \in Handler, pc'[g] \notin {"idle", "dropRow"}
               PROVE  row'[id[g]] = None /\ \A f \in Handler : Takes(f)' => prev[f] # id[g]
    BY <1>1 DEF RowsAreSaved
  <2>1. pc[g] \notin {"idle", "dropRow"} /\ id[g] \in RespId
    BY <1>1, <1>2 DEF IInv, HandlerLocals
  <2>2. row[id[g]] = None /\ \A f \in Handler : Takes(f) => prev[f] # id[g]
    BY <2>1 DEF HInv, RowsAreSaved
  <2>3. QED
    BY <1>1, <1>3, <2>1, <2>2
<1>7. HandsOn'
  <2> SUFFICES ASSUME NEW g \in Handler, Dropping(g)', row'[prev[g]] # None, ~Expired(row'[prev[g]].used)
               PROVE  \E k \in RespId : Follows(k, prev[g])'
    BY <1>1 DEF HandsOn, Expired
  <2>1. PICK q \in RespId : q = prev[g] /\ Dropping(g)
    BY <1>3 DEF HInv, TakesFromPrev, SaidOnFrom, Takes, Dropping
  <2>2. row'[q] = row[q] /\ row[q] # None /\ ~Expired(row[q].used)
    BY <1>1, <2>1
  <2>3. PICK k \in RespId : Follows(k, q)
    BY <2>1, <2>2 DEF HInv, HandsOn
  <2>4. row'[k] = row[k]
    <3>1. row[k].used \in Nat /\ row[q].used \in Nat /\ now \in Nat /\ TTL \in Nat
      BY <2>2, <2>3, ResponsesAssumption DEF IInv, TypeOK, Row, Follows
    <3>2. ~Expired(row[k].used)
      BY <2>2, <2>3, <3>1 DEF Follows, Expired
    <3>3. QED
      BY <1>1, <3>2
  <2>5. Follows(k, q)'
    BY <1>1, <1>3, <2>2, <2>3, <2>4 DEF Follows
  <2>6. QED
    BY <1>1, <2>1, <2>5
<1>8. QED
  BY <1>4, <1>5, <1>6, <1>7 DEF HInv

LEMMA SaveRowHandsOn ==
    ASSUME IInv, HInv, NEW h \in Handler, SaveRow(h)
    PROVE  HInv'
<1>1. PICK new \in Row : row' = [row EXCEPT ![id[h]] = new] /\ new.used = now /\ new # None
  <2>1. [thread |-> used[h], used |-> now] \in Row
    BY DEF SaveRow, IInv, TypeOK, HandlerLocals, Posting, Row
  <2>2. QED
    BY <2>1, ResponsesAssumption DEF SaveRow, Row
<1>2. /\ pc[h] = "saveRow" /\ pc' = [pc EXCEPT ![h] = "dropRow"]
      /\ UNCHANGED <<now, said, prev, id, stored>> /\ id[h] \in RespId
      /\ row \in [RespId -> Row \cup {None}] /\ now \in Nat
  BY DEF SaveRow, Goto, history, IInv, TypeOK, HandlerLocals
<1>3. pc'[h] = "dropRow" /\ \A g \in Handler \ {h} : pc'[g] = pc[g]
  BY <1>2 DEF IInv, TypeOK
<1>4. /\ row'[id[h]] = new /\ \A i \in RespId \ {id[h]} : row'[i] = row[i]
      /\ row[id[h]] = None /\ \A g \in Handler : Takes(g) => prev[g] # id[h]
  BY <1>1, <1>2 DEF HInv, RowsAreSaved
<1>5. /\ \A g \in Handler : Takes(g)' <=> Takes(g)
      /\ \A g \in Handler : Dropping(g)' => Dropping(g) \/ g = h
      /\ \A g \in Handler : Dropping(g) \/ Dropping(g)' => Takes(g)
  BY <1>2, <1>3 DEF Takes, Dropping
<1>6. SaidOnFrom' /\ OneAtAnId' /\ TakesFromPrev'
  BY <1>2, <1>3, <1>5 DEF HInv, SaidOnFrom, OneAtAnId, TakesFromPrev
<1>7. UsedInPast'
  BY <1>1, <1>2, <1>4 DEF HInv, UsedInPast
<1>8. RowsAreSaved'
  <2> SUFFICES ASSUME NEW g \in Handler, pc'[g] \notin {"idle", "dropRow"}
               PROVE  row'[id[g]] = None /\ \A f \in Handler : Takes(f) => prev[f] # id[g]
    BY <1>2, <1>5 DEF RowsAreSaved
  <2>1. g # h /\ pc[g] \notin {"idle", "dropRow"} /\ id[g] \in RespId
    BY <1>3 DEF IInv, HandlerLocals
  <2>2. id[g] # id[h]
    BY <1>2, <2>1 DEF HInv, OneAtAnId
  <2>3. QED
    BY <1>4, <2>1, <2>2 DEF HInv, RowsAreSaved
<1>9. HandsOn'
  <2> SUFFICES ASSUME NEW g \in Handler, Dropping(g)', row'[prev[g]] # None, ~Expired(row'[prev[g]].used)
               PROVE  \E k \in RespId : Follows(k, prev[g])'
    BY <1>2 DEF HandsOn, Expired
  <2>1. PICK q \in RespId : q = prev[g] /\ said[q] \subseteq said[id[g]]
    <3>1. Takes(g)
      BY <1>5
    <3>2. QED
      BY <3>1 DEF HInv, TakesFromPrev, SaidOnFrom, Takes
  <2>2. row'[q] = row[q] /\ row[q] # None /\ ~Expired(row[q].used) /\ row[q].used \in Nat /\ row[q].used <= now
    <3>1. q # id[h]
      BY <1>4, <1>5, <2>1
    <3>2. row'[q] = row[q] /\ row[q] \in Row
      BY <1>2, <1>4, <2>1, <3>1
    <3>3. QED
      BY <2>1, <3>2 DEF HInv, UsedInPast, Row
  <2>3. \A f \in Handler : Dropping(f)' => prev[f] # id[h]
    BY <1>4, <1>5
  <2>4. ASSUME said[q] \subseteq said[id[h]]
        PROVE  Follows(id[h], q)'
    <3>1. PICK k \in RespId : k = id[h]
      BY <1>2
    <3>2. Follows(k, q)'
      BY <1>1, <1>2, <1>4, <2>2, <2>3, <2>4, <3>1 DEF Follows
    <3>3. QED
      BY <1>2, <3>1, <3>2
  <2>5. CASE g = h
    BY <1>2, <2>1, <2>4, <2>5
  <2>6. CASE g # h
    <3>1. Dropping(g)
      BY <1>5, <2>6
    <3>2. PICK k \in RespId : Follows(k, q)
      BY <2>1, <2>2, <3>1 DEF HInv, HandsOn
    <3>3. CASE Dropping(h)' /\ prev[h] = k
      <4>1. said[k] \subseteq said[id[h]]
        BY <1>2, <3>3, ResponsesAssumption DEF HInv, SaidOnFrom
      <4>2. said[q] \subseteq said[id[h]]
        BY <3>2, <4>1 DEF Follows
      <4>3. QED
        BY <1>2, <2>1, <2>4, <4>2
    <3>4. CASE ~(Dropping(h)' /\ prev[h] = k)
      <4>1. row'[k] = row[k]
        BY <1>4, <3>2 DEF Follows
      <4>2. Follows(k, q)'
        BY <1>2, <1>5, <2>2, <3>2, <3>4, <4>1 DEF Follows
      <4>3. QED
        BY <1>2, <2>1, <4>2
    <3>5. QED
      BY <3>3, <3>4
  <2>7. QED
    BY <2>5, <2>6
<1>10. QED
  BY <1>6, <1>7, <1>8, <1>9 DEF HInv

\* A handler is done, and takes the row of its predecessor with it or not
LEMMA DoneHandsOn ==
    ASSUME IInv, HInv, NEW h \in Handler, Done(h), UNCHANGED <<now, said>>,
           pc[h] # "idle",
           \/ UNCHANGED row
           \/ Dropping(h) /\ prev[h] \in RespId /\ row' = [row EXCEPT ![prev[h]] = None]
    PROVE  HInv'
<1>1. /\ pc'[h] = "idle"
      /\ \A g \in Handler \ {h} : pc'[g] = pc[g] /\ prev'[g] = prev[g] /\ id'[g] = id[g] /\ stored'[g] = stored[g]
      /\ \A i \in RespId : row'[i] = row[i] \/ (row'[i] = None /\ Dropping(h) /\ i = prev[h])
  BY DEF Done, Goto, IInv, TypeOK
<1>2. \A g \in Handler : /\ Takes(g)' <=> Takes(g) /\ g # h
                         /\ Dropping(g)' <=> Dropping(g) /\ g # h
  BY <1>1 DEF Takes, Dropping
<1>3. SaidOnFrom' /\ OneAtAnId' /\ TakesFromPrev' /\ UsedInPast'
  BY <1>1, <1>2 DEF HInv, SaidOnFrom, OneAtAnId, TakesFromPrev, UsedInPast
<1>4. RowsAreSaved'
  <2> SUFFICES ASSUME NEW g \in Handler, pc'[g] \notin {"idle", "dropRow"}
               PROVE  row'[id'[g]] = None /\ \A f \in Handler : Takes(f)' => prev'[f] # id'[g]
    BY DEF RowsAreSaved
  <2>1. g # h /\ pc[g] \notin {"idle", "dropRow"} /\ id'[g] = id[g] /\ id[g] \in RespId
    BY <1>1 DEF IInv, HandlerLocals
  <2>2. row[id[g]] = None /\ \A f \in Handler : Takes(f) => prev[f] # id[g]
    BY <2>1 DEF HInv, RowsAreSaved
  <2>3. QED
    BY <1>1, <1>2, <2>1, <2>2
<1>5. HandsOn'
  <2> SUFFICES ASSUME NEW g \in Handler, Dropping(g)', NEW q, q = prev'[g],
                      row'[q] # None, ~Expired(row[q].used)'
               PROVE  \E k \in RespId : Follows(k, q)'
    BY DEF HandsOn
  <2>1. q \in RespId /\ q = prev[g] /\ Dropping(g) /\ g # h
    BY <1>1, <1>2 DEF HInv, TakesFromPrev, SaidOnFrom, Takes, Dropping
  <2>2. row'[q] = row[q] /\ row[q] # None /\ ~Expired(row[q].used)
    BY <1>1, <2>1 DEF Expired
  <2>3. PICK k \in RespId : Follows(k, q)
    BY <2>1, <2>2 DEF HInv, HandsOn
  <2>4. row'[k] = row[k]
    BY <1>1, <2>3 DEF Follows
  <2>5. \A f \in Handler : Dropping(f)' => prev'[f] # k
    BY <1>1, <1>2, <2>3 DEF Follows
  <2>6. Follows(k, q)'
    BY <2>2, <2>3, <2>4, <2>5 DEF Follows
  <2>7. QED
    BY <2>6
<1>6. QED
  BY <1>3, <1>4, <1>5 DEF HInv

LEMMA OutsideHandsOn ==
    ASSUME IInv, HInv, Tick \/ Crash
    PROVE  HInv'
<1>1. row \in [RespId -> Row \cup {None}] /\ now \in Nat /\ TTL \in Nat
  BY ResponsesAssumption DEF IInv, TypeOK
<1>2. CASE Tick
  <2>1. UNCHANGED <<row, said, pc, prev, id, stored>> /\ now' = now + 1
    BY <1>2 DEF Tick, history, handlerVars
  <2>2. \A g \in Handler : (Takes(g)' <=> Takes(g)) /\ (Dropping(g)' <=> Dropping(g))
    BY <2>1 DEF Takes, Dropping
  <2>3. SaidOnFrom' /\ OneAtAnId' /\ TakesFromPrev' /\ RowsAreSaved'
    BY <2>1, <2>2 DEF HInv, SaidOnFrom, OneAtAnId, TakesFromPrev, RowsAreSaved
  <2>4. \A i \in RespId : row[i] # None => row[i].used \in Nat
    BY <1>1 DEF Row
  <2>5. UsedInPast'
    BY <1>1, <2>1, <2>4 DEF HInv, UsedInPast
  <2>6. HandsOn'
    <3> SUFFICES ASSUME NEW g \in Handler, Dropping(g), row[prev[g]] # None
                 PROVE  Expired(row[prev[g]].used)' \/ \E k \in RespId : Follows(k, prev[g])'
      BY <2>1, <2>2 DEF HandsOn
    <3>1. PICK q \in RespId : q = prev[g]
      BY DEF HInv, TakesFromPrev, SaidOnFrom, Takes, Dropping
    <3>2. CASE Expired(row[q].used)
      <4>1. row[q].used \in Nat
        BY <2>4, <3>1
      <4>2. now + 1 - row[q].used > TTL
        BY <1>1, <3>2, <4>1 DEF Expired
      <4>3. row'[q] = row[q] /\ now' - row[q].used > TTL
        BY <1>1, <2>1, <4>1, <4>2
      <4>5. Expired(row[q].used)'
        BY <4>3 DEF Expired
      <4>4. QED
        BY <2>1, <3>1, <4>5
    <3>3. CASE ~Expired(row[q].used)
      <4>1. PICK k \in RespId : Follows(k, q)
        BY <3>1, <3>3 DEF HInv, HandsOn
      <4>2. Follows(k, q)'
        BY <2>1, <2>2, <4>1 DEF Follows
      <4>3. QED
        BY <2>1, <3>1, <4>2
    <3>4. QED
      BY <3>2, <3>3
  <2>7. QED
    BY <2>3, <2>5, <2>6 DEF HInv
<1>3. CASE Crash
  <2>1. (\A g \in Handler : pc'[g] = "idle") /\ UNCHANGED <<row, now>>
    BY <1>3 DEF Crash
  <2>2. QED
    BY <2>1 DEF HInv, SaidOnFrom, OneAtAnId, TakesFromPrev, RowsAreSaved, UsedInPast, HandsOn, Takes, Dropping
<1>4. QED
  BY <1>2, <1>3

LEMMA HandlersHandOn ==
    ASSUME IInv, HInv, NEW h \in Handler, HandlerStep(h)
    PROVE  HInv'
<1>1. ASSUME \/ Load(h) \/ Forget(h) \/ Continue(h) \/ \E t \in ThreadId : OpenThread(h, t)
             \/ Accept(h)
             \/ \E outcome \in Outcome : Answer(h, outcome) \/ Fault(h, outcome)
             \/ AskAgain(h) \/ Settle(h) \/ Reply(h) \/ SaveState(h)
      PROVE  HInv'
  <2>1. /\ \E at : at \notin {"idle", "dropRow"} /\ pc' = [pc EXCEPT ![h] = at]
        /\ pc[h] \notin {"idle", "dropRow"} /\ UNCHANGED <<row, now, said, prev, id, stored>>
    BY <1>1 DEF Load, Forget, Continue, OpenThread, Accept, Answer, Fault, AskAgain, Settle, Reply,
                SaveState, Goto, history
  <2>2. QED
    BY <2>1, HandsOnQuietly
<1>2. CASE Abandon(h)
  <2>1. Done(h) /\ pc[h] # "idle" /\ UNCHANGED <<row, now, said>>
    BY <1>2 DEF Abandon, history
  <2>2. QED
    BY <2>1, DoneHandsOn
<1>3. CASE DropRow(h)
  <2>1. Done(h) /\ pc[h] # "idle" /\ UNCHANGED <<now, said>>
    BY <1>3 DEF DropRow, history
  <2>2. \/ UNCHANGED row
        \/ Dropping(h) /\ prev[h] # None /\ row' = [row EXCEPT ![prev[h]] = None]
    BY <1>3 DEF DropRow, Dropping
  <2>3. prev[h] # None => prev[h] \in RespId
    BY DEF IInv, TypeOK
  <2>4. QED
    BY <2>1, <2>2, <2>3, DoneHandsOn
<1>4. QED
  BY <1>1, <1>2, <1>3, FindHandsOn, SaveRowHandsOn DEF HandlerStep

LEMMA HandsOnStays == IInv /\ HInv /\ [Next]_vars => HInv'
<1> SUFFICES ASSUME IInv, HInv, [Next]_vars
             PROVE  HInv'
  OBVIOUS
<1>1. CASE UNCHANGED vars
  BY <1>1 DEF vars, history, handlerVars, HInv, SaidOnFrom, OneAtAnId, TakesFromPrev, RowsAreSaved,
              UsedInPast, HandsOn, Takes, Dropping, Follows, Expired
<1>2. CASE Next
  BY <1>2, ArriveHandsOn, HandlersHandOn, OutsideHandsOn DEF Next
<1>3. QED
  BY <1>1, <1>2

LEMMA HandingOn == Spec => []HInv
<1>1. Init => HInv
  BY DEF Init, HInv, SaidOnFrom, OneAtAnId, TakesFromPrev, RowsAreSaved, UsedInPast, HandsOn, Takes, Dropping
<1>2. QED
  BY <1>1, HandsOnStays, Invariance, PTL DEF Spec

\* What takes a row away that has not expired
LEMMA RowGone ==
    ASSUME IInv, HInv, Next, NEW p \in RespId,
           row[p] # None, row'[p] = None, ~Expired(row[p].used)
    PROVE  \E i \in RespId \ {p} : row[i] # None /\ said[p] \subseteq said[i]
<1>1. row \in [RespId -> Row \cup {None}]
  BY DEF IInv, TypeOK
<1>2. PICK h \in Handler : Find(h) \/ SaveRow(h) \/ DropRow(h)
  <2>1. row' # row
    OBVIOUS
  <2>2. ~Tick /\ ~Crash /\ \A h \in Handler, r \in Request, p1 \in RespId \cup {None}, i \in RespId :
          ~Arrive(h, r, p1, i)
    BY <2>1 DEF Tick, Crash, Arrive
  <2>3. PICK h \in Handler : HandlerStep(h)
    BY <2>2 DEF Next
  <2>4. ~Load(h) /\ ~Forget(h) /\ ~Continue(h) /\ ~Accept(h)
    BY <2>1 DEF Load, Forget, Continue, Accept
  <2>5. \A t \in ThreadId : ~OpenThread(h, t)
    BY <2>1 DEF OpenThread
  <2>6. \A outcome \in Outcome : ~Answer(h, outcome) /\ ~Fault(h, outcome)
    BY <2>1 DEF Answer, Fault
  <2>7. ~Abandon(h) /\ ~AskAgain(h) /\ ~Settle(h) /\ ~Reply(h) /\ ~SaveState(h)
    BY <2>1 DEF Abandon, AskAgain, Settle, Reply, SaveState
  <2>8. QED
    BY <2>3, <2>4, <2>5, <2>6, <2>7 DEF HandlerStep
<1>3. ~Find(h)
  BY <1>1 DEF Find, Purged
<1>4. ~SaveRow(h)
  <2>1. SaveRow(h) => row' = [row EXCEPT ![id[h]] = [thread |-> used[h], used |-> now]]
                      /\ [thread |-> used[h], used |-> now] \in Row
    BY DEF SaveRow, IInv, TypeOK, HandlerLocals, Posting, Row
  <2>2. QED
    BY <1>1, <2>1, ResponsesAssumption DEF Row
<1>5. Dropping(h) /\ prev[h] = p
  BY <1>1, <1>2, <1>3, <1>4 DEF DropRow, Dropping
<1>6. PICK i \in RespId : Follows(i, p)
  BY <1>5 DEF HInv, HandsOn
<1>7. QED
  BY <1>5, <1>6 DEF Follows

\* However requests on the same response, failed calls, crashes, purges and the
\* clock interleave: a thread row that has not expired is only dropped once the
\* row of a response that says as much is there (the end of handle_responses).
THEOREM ThreadsAreHandedOn == Spec => ThreadHandedOn
<1>1. IInv /\ HInv /\ [Next]_vars =>
        [\A p \in RespId :
           row[p] # None /\ row'[p] = None /\ ~Expired(row[p].used)
             => \E i \in RespId \ {p} : row[i] # None /\ said[p] \subseteq said[i]]_vars
  BY RowGone
<1>2. QED
  BY <1>1, Invariance, HandingOn, PTL DEF Spec, ThreadHandedOn

(***************************************************************************)
(* A patient client.  It has one request under way, the tip is the latest  *)
(* response it was told, and there are no records but those of the tip and *)
(* of the response that is taking its place.                               *)
(***************************************************************************)
Rows        == {i \in RespId : row[i] # None}
Transcripts == {i \in RespId : transcript[i] # None}

\* p itself, unless it is None
Only(p) == {p} \cap RespId

Alone == \A g, h \in Handler : pc[g] # "idle" /\ pc[h] # "idle" => g = h

\* No time passes, so nothing expires
Unaged ==
    /\ \A i \in Rows : row[i].used = now
    /\ \A i \in Transcripts : transcript[i].created = now

SaidByDrawn == \A i \in RespId : \A m \in said[i] : root[m.of] # None

ToldDiffer == \A i, j \in told : said[i] = said[j] => i = j

AtRest ==
    (\A h \in Handler : pc[h] = "idle") =>
        \E p \in RespId \cup {None} : Tip(p) /\ Rows = Only(p) /\ Transcripts \subseteq Only(p)

Saving == {"saveState", "saveRow", "dropRow"}

RecordsUnderWay(h) ==
    /\ prev[h] # id[h]
    /\ Rows = Only(prev[h]) \cup (IF pc[h] = "dropRow" THEN {id[h]} ELSE {})
    /\ pc[h] \in {"load", "forget"} => Transcripts \subseteq Only(prev[h])
    /\ pc[h] \in {"saveRow", "dropRow"} => Transcripts \subseteq {id[h]}
    /\ pc[h] \notin {"load", "forget", "saveRow", "dropRow"} => Transcripts = {}
    /\ prev[h] = None \/ pc[h] \in {"load", "forget", "find"} => stored[h] = None
    /\ prev[h] # None /\ pc[h] \notin {"load", "forget", "find"} =>
        stored[h] = row[prev[h]].thread

\* The response that is made is told last, and says what none before it says
TipUnderWay(h) ==
    /\ Tip(IF pc[h] \in Saving THEN id[h] ELSE prev[h])
    /\ \E m \in said[id[h]] : m.of = id[h]
    /\ pc[h] \notin Saving => \A i \in told : \A m \in said[i] : m.of # id[h]

PatientInv ==
    /\ Alone /\ Unaged /\ SaidByDrawn /\ ToldDiffer /\ AtRest
    /\ \A h \in Handler : pc[h] # "idle" => RecordsUnderWay(h) /\ TipUnderWay(h)

LEMMA PatientIsServed == [ClientsNext]_cvars => [Next]_vars
BY DEF ClientsNext, PatientNext, Ask, Next, cvars

\* The tip is one response
LEMMA OneTip ==
    ASSUME ToldDiffer, NEW p, NEW q, Tip(p), Tip(q)
    PROVE  p = q
<1>1. CASE told = {}
  BY <1>1 DEF Tip
<1>2. CASE told # {}
  <2>1. p \in told /\ q \in told /\ said[p] = said[q]
    BY <1>2 DEF Tip
  <2>2. QED
    BY <2>1 DEF ToldDiffer
<1>3. QED
  BY <1>1, <1>2

LEMMA OnlyIs ==
    /\ Only(None) = {}
    /\ \A p \in RespId : Only(p) = {p}
BY ResponsesAssumption DEF Only

LEMMA TipDrawn ==
    ASSUME IInv, NEW p, Tip(p)
    PROVE  p \in RespId \cup {None} /\ (p # None => p \in told /\ root[p] # None)
BY DEF Tip, IInv, TypeOK, ToldAreDrawn

\* What a step of the handler at work has to show
LEMMA PatientGoesOn ==
    ASSUME IInv, PatientInv, NEW h \in Handler, pc[h] # "idle",
           NEW at, at # "idle", pc' = [pc EXCEPT ![h] = at],
           (Unaged /\ SaidByDrawn /\ ToldDiffer)', RecordsUnderWay(h)', TipUnderWay(h)'
    PROVE  PatientInv'
<1>1. /\ pc'[h] = at /\ \A g \in Handler : g # h => pc'[g] = "idle"
  BY DEF PatientInv, Alone, IInv, TypeOK
<1>2. Alone' /\ AtRest'
  BY <1>1 DEF Alone, AtRest
<1>3. \A g \in Handler : pc'[g] # "idle" => RecordsUnderWay(g)' /\ TipUnderWay(g)'
  BY <1>1
<1>4. QED
  BY <1>2, <1>3 DEF PatientInv

LEMMA SameTip ==
    ASSUME UNCHANGED <<told, said>>, NEW p, Tip(p)
    PROVE  Tip(p)'
BY DEF Tip

\* A step that leaves the tables and what was said alone
LEMMA RecordsStay ==
    ASSUME IInv, PatientInv, NEW h \in Handler,
           pc[h] \in {"compose", "send", "wait", "got", "answer"},
           NEW at, at \in {"compose", "send", "wait", "got", "answer"}, pc' = [pc EXCEPT ![h] = at],
           UNCHANGED <<transcript, row, now, root, said, told, prev, id, stored>>
    PROVE  PatientInv'
<1>1. pc[h] # "idle" /\ pc'[h] = at /\ RecordsUnderWay(h) /\ TipUnderWay(h)
  BY DEF PatientInv, IInv, TypeOK
<1>2. (Unaged /\ SaidByDrawn /\ ToldDiffer)'
  BY DEF PatientInv, Unaged, SaidByDrawn, ToldDiffer, Rows, Transcripts
<1>3. RecordsUnderWay(h)'
  BY <1>1 DEF RecordsUnderWay, Rows, Transcripts, Only
<1>4. TipUnderWay(h)'
  BY <1>1, SameTip DEF TipUnderWay, Saving
<1>5. QED
  BY <1>1, <1>2, <1>3, <1>4, PatientGoesOn

LEMMA AskPatiently ==
    ASSUME IInv, PatientInv, NEW h \in Handler, NEW r \in Request, NEW p \in RespId \cup {None},
           NEW i \in RespId, Ask(h, r, p, i)
    PROVE  PatientInv'
<1>1. /\ r.inputs > 0 /\ Tip(p) /\ root[i] = None /\ \A g \in Handler : pc[g] = "idle"
      /\ pc' = [pc EXCEPT ![h] = IF p = None THEN "compose" ELSE "load"]
      /\ prev' = [prev EXCEPT ![h] = p] /\ id' = [id EXCEPT ![h] = i]
      /\ root' = [root EXCEPT ![i] = IF p = None THEN i ELSE root[p]]
      /\ said' = [said EXCEPT ![i] = (IF p = None THEN {} ELSE said[p])
                                       \cup {Inputs(r, i)[n] : n \in 1..r.inputs}]
      /\ UNCHANGED <<transcript, row, now, told, stored>>
  BY DEF Ask, Arrive, Goto
<1>2. /\ p # None => p \in told /\ root[p] # None
      /\ root'[i] # None /\ \A k \in RespId : root[k] # None => root'[k] = root[k]
  BY <1>1, TipDrawn, ResponsesAssumption DEF IInv, TypeOK
<1>3. Rows = Only(p) /\ Transcripts \subseteq Only(p)
  <2>1. PICK q \in RespId \cup {None} : Tip(q) /\ Rows = Only(q) /\ Transcripts \subseteq Only(q)
    BY <1>1 DEF PatientInv, AtRest
  <2>2. q = p
    BY <1>1, <2>1, OneTip DEF PatientInv
  <2>3. QED
    BY <2>1, <2>2
<1>4. i \notin told /\ \A k \in told : k \in RespId /\ said'[k] = said[k]
  BY <1>1 DEF IInv, TypeOK, ToldAreDrawn
<1>5. Tip(p)'
  BY <1>1, <1>4 DEF Tip
<1>6. /\ \A m \in said'[i] : m.of = i \/ (p # None /\ m \in said[p])
      /\ \E m \in said'[i] : m.of = i
  <2>1. r.inputs \in Nat /\ 1 \in 1..r.inputs
    BY <1>1, ResponsesAssumption
  <2>2. \A n \in 1..r.inputs : Inputs(r, i)[n].of = i
    BY <2>1 DEF Inputs
  <2>3. said'[i] = (IF p = None THEN {} ELSE said[p]) \cup {Inputs(r, i)[n] : n \in 1..r.inputs}
    BY <1>1 DEF IInv, TypeOK
  <2>4. QED
    BY <2>1, <2>2, <2>3
<1>7. \A k \in RespId : \A m \in said[k] : m.of # i /\ root'[m.of] # None
  <2> SUFFICES ASSUME NEW k \in RespId, NEW m \in said[k]
               PROVE  m.of # i /\ root'[m.of] # None
    OBVIOUS
  <2>1. m.of \in RespId /\ root[m.of] # None
    BY DEF IInv, TypeOK, Message, PatientInv, SaidByDrawn
  <2>2. QED
    BY <1>1, <1>2, <2>1
<1>8. SaidByDrawn'
  <2> SUFFICES ASSUME NEW k \in RespId, NEW m \in said'[k]
               PROVE  root'[m.of] # None
    BY DEF SaidByDrawn
  <2>1. CASE k = i
    <3>1. p # None => p \in RespId
      OBVIOUS
    <3>2. QED
      BY <1>2, <1>6, <1>7, <2>1, <3>1
  <2>2. CASE k # i
    BY <1>1, <1>7, <2>2 DEF IInv, TypeOK
  <2>3. QED
    BY <2>1, <2>2
<1>9. Unaged' /\ ToldDiffer'
  BY <1>1, <1>4 DEF PatientInv, Unaged, Rows, Transcripts, ToldDiffer
<1>10. /\ pc'[h] = (IF p = None THEN "compose" ELSE "load") /\ prev'[h] = p /\ id'[h] = i
       /\ stored'[h] = None /\ \A g \in Handler : g # h => pc'[g] = "idle"
  BY <1>1 DEF IInv, TypeOK, HandlerLocals
<1>11. RecordsUnderWay(h)'
  <2>1. Rows' = Only(p) /\ Transcripts' \subseteq Only(p)
    BY <1>1, <1>3 DEF Rows, Transcripts
  <2>2. p = None => Transcripts' = {}
    BY <2>1, OnlyIs
  <2>3. Only(prev[h])' = Only(p)
    BY <1>10 DEF Only
  <2>4. p # i
    BY <1>1, <1>2, ResponsesAssumption
  <2>5. QED
    BY <1>10, <2>1, <2>2, <2>3, <2>4 DEF RecordsUnderWay
<1>12. TipUnderWay(h)'
  <2>1. \A k \in told : \A m \in said[k] : m.of # i
    BY <1>4, <1>7
  <2>2. QED
    BY <1>1, <1>4, <1>5, <1>6, <1>10, <2>1 DEF TipUnderWay, Saving
<1>13. Alone' /\ AtRest'
  BY <1>10 DEF Alone, AtRest
<1>14. QED
  BY <1>8, <1>9, <1>10, <1>11, <1>12, <1>13 DEF PatientInv

\* The handler at work, its predecessor and its own response
LEMMA AtWork ==
    ASSUME IInv, PatientInv, NEW h \in Handler, pc[h] # "idle"
    PROVE  /\ RecordsUnderWay(h) /\ TipUnderWay(h)
           /\ id[h] \in RespId /\ prev[h] \in RespId \cup {None} /\ prev[h] # id[h]
           /\ prev[h] = None => Only(prev[h]) = {}
           /\ prev[h] # None => Only(prev[h]) = {prev[h]}
           /\ pc[h] \in {"load", "forget", "find"} => prev[h] \in RespId /\ prev[h] # None
           /\ \A at : pc' = [pc EXCEPT ![h] = at] => pc'[h] = at
<1>1. RecordsUnderWay(h) /\ TipUnderWay(h) /\ id[h] \in RespId /\ prev[h] \in RespId \cup {None}
  BY DEF PatientInv, IInv, TypeOK, HandlerLocals
<1>2. pc[h] \in {"load", "forget", "find"} => prev[h] \in RespId /\ prev[h] # None
  BY ResponsesAssumption DEF IInv, HandlerLocals
<1>3. \A at : pc' = [pc EXCEPT ![h] = at] => pc'[h] = at
  BY DEF IInv, TypeOK
<1>4. QED
  BY <1>1, <1>2, <1>3, OnlyIs DEF RecordsUnderWay

LEMMA NothingExpires ==
    ASSUME IInv, Unaged
    PROVE  /\ \A i \in Rows : ~Expired(row[i].used)
           /\ \A i \in Transcripts : ~Expired(transcript[i].created)
<1>1. TTL \in Nat /\ now \in Nat
  BY ResponsesAssumption DEF IInv, TypeOK
<1>2. QED
  BY <1>1 DEF Unaged, Expired

LEMMA LoadPatiently ==
    ASSUME IInv, PatientInv, NEW h \in Handler, Load(h)
    PROVE  PatientInv'
<1>1. PICK at \in {"forget", "find"} :
        /\ pc[h] = "load" /\ pc' = [pc EXCEPT ![h] = at]
        /\ UNCHANGED <<row, now, root, said, told, prev, id, stored>>
        /\ at = "forget" => transcript' = transcript
        /\ at = "find" => transcript' = [transcript EXCEPT ![prev[h]] = None]
  <2> DEFINE live == transcript[prev[h]] # None /\ ~Expired(transcript[prev[h]].created)
  <2>1. CASE live
    BY <2>1 DEF Load, Goto, history
  <2>2. CASE ~live
    BY <2>2 DEF Load, Goto, history
  <2>3. QED
    BY <2>1, <2>2
<1>2. /\ RecordsUnderWay(h) /\ TipUnderWay(h) /\ prev[h] \in RespId /\ Only(prev[h]) = {prev[h]}
      /\ pc'[h] = at
  BY <1>1, AtWork
<1>3. /\ Rows' = Rows /\ Transcripts' \subseteq Transcripts
      /\ \A i \in Transcripts' : transcript'[i] = transcript[i]
      /\ at = "find" => Transcripts' = {}
  <2>1. CASE at = "forget"
    BY <1>1, <2>1 DEF Rows, Transcripts
  <2>2. CASE at = "find"
    <3>1. Transcripts \subseteq {prev[h]}
      BY <1>1, <1>2 DEF RecordsUnderWay
    <3>2. transcript' = [transcript EXCEPT ![prev[h]] = None] /\ transcript \in [RespId -> Record \cup {None}]
      BY <1>1, <2>2 DEF IInv, TypeOK
    <3>3. prev[h] \notin Transcripts'
      BY <1>2, <3>2 DEF Transcripts
    <3>4. \A i \in RespId : i # prev[h] => transcript'[i] = transcript[i]
      BY <3>2
    <3>5. QED
      BY <1>1, <3>1, <3>3, <3>4 DEF Rows, Transcripts
  <2>3. QED
    BY <2>1, <2>2
<1>4. (Unaged /\ SaidByDrawn /\ ToldDiffer)'
  BY <1>1, <1>3 DEF PatientInv, Unaged, SaidByDrawn, ToldDiffer
<1>5. RecordsUnderWay(h)'
  BY <1>1, <1>2, <1>3 DEF RecordsUnderWay, Only
<1>6. TipUnderWay(h)'
  BY <1>1, <1>2, SameTip DEF TipUnderWay, Saving
<1>7. QED
  BY <1>1, <1>4, <1>5, <1>6, PatientGoesOn

LEMMA ForgetPatiently ==
    ASSUME IInv, PatientInv, NEW h \in Handler, Forget(h)
    PROVE  PatientInv'
<1>1. /\ pc[h] = "forget" /\ pc' = [pc EXCEPT ![h] = "find"]
      /\ UNCHANGED <<row, now, root, said, told, prev, id, stored>>
      /\ transcript' = [transcript EXCEPT ![prev[h]] = None]
  BY DEF Forget, Goto, history
<1>2. /\ RecordsUnderWay(h) /\ TipUnderWay(h) /\ prev[h] \in RespId /\ Only(prev[h]) = {prev[h]}
      /\ pc'[h] = "find"
  BY <1>1, AtWork
<1>3. Rows' = Rows /\ Transcripts' = {}
  <2>1. Transcripts \subseteq {prev[h]}
    BY <1>1, <1>2 DEF RecordsUnderWay
  <2>2. transcript \in [RespId -> Record \cup {None}]
    BY DEF IInv, TypeOK
  <2>3. prev[h] \notin Transcripts' /\ \A i \in RespId : i # prev[h] => transcript'[i] = transcript[i]
    BY <1>1, <1>2, <2>2 DEF Transcripts
  <2>4. QED
    BY <1>1, <2>1, <2>3 DEF Rows, Transcripts
<1>4. (Unaged /\ SaidByDrawn /\ ToldDiffer)'
  BY <1>1, <1>3 DEF PatientInv, Unaged, SaidByDrawn, ToldDiffer
<1>5. RecordsUnderWay(h)'
  BY <1>1, <1>2, <1>3 DEF RecordsUnderWay, Only
<1>6. TipUnderWay(h)'
  BY <1>1, <1>2, SameTip DEF TipUnderWay, Saving
<1>7. QED
  BY <1>1, <1>4, <1>5, <1>6, PatientGoesOn

\* The row of the tip is found
LEMMA FindsRow ==
    ASSUME IInv, PatientInv, NEW h \in Handler, Find(h)
    PROVE  /\ prev[h] \in Rows /\ row' = row
           /\ stored' = [stored EXCEPT ![h] = row[prev[h]].thread]
<1>1. prev[h] \in RespId /\ prev[h] \in Rows
  <2>1. pc[h] = "find" /\ prev[h] \in RespId
    BY DEF Find, IInv, HandlerLocals
  <2>2. Rows = {prev[h]}
    BY <2>1, AtWork, ResponsesAssumption DEF RecordsUnderWay
  <2>3. QED
    BY <2>1, <2>2
<1>2. \A i \in Rows : ~Expired(row[i].used)
  BY NothingExpires DEF PatientInv
<1>3. Purged = row
  BY <1>2 DEF Purged, Rows, IInv, TypeOK
<1>4. row[prev[h]] # None /\ ~Expired(row[prev[h]].used)
  BY <1>1, <1>2 DEF Rows
<1>5. QED
  BY <1>1, <1>3, <1>4 DEF Find

LEMMA FindPatiently ==
    ASSUME IInv, PatientInv, NEW h \in Handler, Find(h)
    PROVE  PatientInv'
<1>1. /\ pc[h] = "find" /\ pc' = [pc EXCEPT ![h] = "compose"]
      /\ stored' = [stored EXCEPT ![h] = row[prev[h]].thread]
      /\ UNCHANGED <<transcript, row, now, root, said, told, prev, id>>
  BY FindsRow DEF Find, Goto, history
<1>2. /\ RecordsUnderWay(h) /\ TipUnderWay(h) /\ prev[h] \in RespId
      /\ pc'[h] = "compose" /\ stored'[h] = row[prev[h]].thread
  <2>1. stored'[h] = row[prev[h]].thread
    BY <1>1 DEF IInv, TypeOK
  <2>2. QED
    BY <1>1, <2>1, AtWork
<1>3. Rows' = Rows /\ Transcripts' = Transcripts
  BY <1>1 DEF Rows, Transcripts
<1>4. (Unaged /\ SaidByDrawn /\ ToldDiffer)'
  BY <1>1, <1>3 DEF PatientInv, Unaged, SaidByDrawn, ToldDiffer
<1>5. RecordsUnderWay(h)'
  <2>1. prev[h] # None
    BY <1>2, ResponsesAssumption
  <2>2. QED
    BY <1>1, <1>2, <1>3, <2>1 DEF RecordsUnderWay, Only
<1>6. TipUnderWay(h)'
  BY <1>1, <1>2, SameTip DEF TipUnderWay, Saving
<1>7. QED
  BY <1>1, <1>4, <1>5, <1>6, PatientGoesOn

LEMMA ReplyPatiently ==
    ASSUME IInv, HInv, PatientInv, NEW h \in Handler, Reply(h)
    PROVE  PatientInv'
<1>1. /\ pc[h] = "answer" /\ pc' = [pc EXCEPT ![h] = "saveState"]
      /\ told' = told \cup {id[h]}
      /\ UNCHANGED <<transcript, row, now, root, said, prev, id, stored>>
  BY DEF Reply, Goto
<1>2. /\ RecordsUnderWay(h) /\ TipUnderWay(h) /\ pc'[h] = "saveState"
      /\ prev[h] # None => said[prev[h]] \subseteq said[id[h]]
  BY <1>1, AtWork DEF HInv, SaidOnFrom
<1>3. Rows' = Rows /\ Transcripts' = Transcripts
  BY <1>1 DEF Rows, Transcripts
<1>4. \A i \in told : said[i] \subseteq said[id[h]] /\ said[i] # said[id[h]]
  <2>1. Tip(prev[h]) /\ (\E m \in said[id[h]] : m.of = id[h])
        /\ \A i \in told : \A m \in said[i] : m.of # id[h]
    BY <1>1, <1>2 DEF TipUnderWay, Saving
  <2>2. told # {} => prev[h] \in told /\ prev[h] # None
    BY <2>1, ResponsesAssumption DEF Tip, IInv, TypeOK
  <2>3. QED
    BY <1>2, <2>1, <2>2 DEF Tip
<1>5. (Unaged /\ SaidByDrawn /\ ToldDiffer)'
  BY <1>1, <1>3, <1>4 DEF PatientInv, Unaged, SaidByDrawn, ToldDiffer
<1>6. RecordsUnderWay(h)'
  BY <1>1, <1>2, <1>3 DEF RecordsUnderWay, Only
<1>7. TipUnderWay(h)'
  <2>1. Tip(id[h])'
    BY <1>1, <1>4 DEF Tip
  <2>2. QED
    BY <1>1, <1>2, <2>1 DEF TipUnderWay, Saving
<1>8. QED
  BY <1>1, <1>5, <1>6, <1>7, PatientGoesOn

LEMMA SaveStatePatiently ==
    ASSUME IInv, PatientInv, NEW h \in Handler, SaveState(h)
    PROVE  PatientInv'
<1>1. /\ pc[h] = "saveState" /\ pc' = [pc EXCEPT ![h] = "saveRow"]
      /\ transcript' = [transcript EXCEPT ![id[h]] = [msgs |-> msgs[h], created |-> now]]
      /\ UNCHANGED <<row, now, root, said, told, prev, id, stored>>
  BY DEF SaveState, Goto, history
<1>2. RecordsUnderWay(h) /\ TipUnderWay(h) /\ id[h] \in RespId /\ pc'[h] = "saveRow"
  BY <1>1, AtWork
<1>3. Rows' = Rows /\ Transcripts' \subseteq {id[h]} /\ transcript'[id[h]].created = now
  <2>1. Transcripts = {} /\ transcript \in [RespId -> Record \cup {None}]
    BY <1>1, <1>2 DEF RecordsUnderWay, IInv, TypeOK
  <2>2. \A i \in RespId : i # id[h] => transcript'[i] = transcript[i]
    BY <1>1, <2>1
  <2>3. QED
    BY <1>1, <1>2, <2>1, <2>2 DEF Rows, Transcripts
<1>4. (Unaged /\ SaidByDrawn /\ ToldDiffer)'
  BY <1>1, <1>3 DEF PatientInv, Unaged, SaidByDrawn, ToldDiffer
<1>5. RecordsUnderWay(h)'
  BY <1>1, <1>2, <1>3 DEF RecordsUnderWay, Only
<1>6. TipUnderWay(h)'
  BY <1>1, <1>2, SameTip DEF TipUnderWay, Saving
<1>7. QED
  BY <1>1, <1>4, <1>5, <1>6, PatientGoesOn

LEMMA SaveRowPatiently ==
    ASSUME IInv, PatientInv, NEW h \in Handler, SaveRow(h)
    PROVE  PatientInv'
<1>1. /\ pc[h] = "saveRow" /\ pc' = [pc EXCEPT ![h] = "dropRow"]
      /\ row' = [row EXCEPT ![id[h]] = [thread |-> used[h], used |-> now]]
      /\ UNCHANGED <<transcript, now, root, said, told, prev, id, stored>>
  BY DEF SaveRow, Goto, history
<1>2. /\ RecordsUnderWay(h) /\ TipUnderWay(h) /\ id[h] \in RespId /\ pc'[h] = "dropRow"
      /\ prev[h] \in RespId \cup {None} /\ prev[h] # id[h]
  BY <1>1, AtWork
<1>3. /\ Transcripts' = Transcripts /\ Rows' = Rows \cup {id[h]}
      /\ row'[id[h]].used = now /\ \A i \in RespId : i # id[h] => row'[i] = row[i]
  <2>1. row \in [RespId -> Row \cup {None}] /\ [thread |-> used[h], used |-> now] \in Row
    BY <1>1 DEF IInv, TypeOK, HandlerLocals, Posting, Row
  <2>2. [thread |-> used[h], used |-> now] # None
    BY <2>1, ResponsesAssumption DEF Row
  <2>3. row'[id[h]] = [thread |-> used[h], used |-> now] /\ \A i \in RespId : i # id[h] => row'[i] = row[i]
    BY <1>1, <1>2, <2>1
  <2>4. QED
    BY <1>1, <1>2, <2>2, <2>3 DEF Rows, Transcripts
<1>4. (Unaged /\ SaidByDrawn /\ ToldDiffer)'
  BY <1>1, <1>3 DEF PatientInv, Unaged, SaidByDrawn, ToldDiffer, Rows
<1>5. RecordsUnderWay(h)'
  <2>1. prev[h] # None => row'[prev[h]] = row[prev[h]]
    BY <1>2, <1>3
  <2>2. QED
    BY <1>1, <1>2, <1>3, <2>1 DEF RecordsUnderWay, Only
<1>6. TipUnderWay(h)'
  BY <1>1, <1>2, SameTip DEF TipUnderWay, Saving
<1>7. QED
  BY <1>1, <1>4, <1>5, <1>6, PatientGoesOn

\* A handler that ends leaves the records of the tip
LEMMA DonePatiently ==
    ASSUME IInv, PatientInv, NEW h \in Handler, Abandon(h) \/ DropRow(h)
    PROVE  PatientInv'
<1>1. /\ pc[h] \in {"got", "dropRow"} /\ pc' = [pc EXCEPT ![h] = "idle"]
      /\ UNCHANGED <<transcript, now, root, said, told>>
  BY DEF Abandon, DropRow, Done, Goto, history
<1>2. /\ RecordsUnderWay(h) /\ TipUnderWay(h) /\ id[h] \in RespId
      /\ prev[h] \in RespId \cup {None} /\ prev[h] # id[h]
      /\ prev[h] = None => Only(prev[h]) = {}
      /\ prev[h] # None => Only(prev[h]) = {prev[h]}
  BY <1>1, AtWork
<1>3. \A g \in Handler : pc'[g] = "idle"
  BY <1>1 DEF PatientInv, Alone, IInv, TypeOK
<1>4. \E p \in RespId \cup {None} : /\ Tip(p) /\ Rows' = Only(p) /\ Transcripts' \subseteq Only(p)
                                    /\ \A i \in Rows' : i \in Rows /\ row'[i] = row[i]
  <2>1. CASE Abandon(h)
    <3>1. row' = row /\ pc[h] = "got"
      BY <2>1 DEF Abandon
    <3>2. Rows' = Only(prev[h]) /\ Transcripts' = {} /\ Tip(prev[h])
      BY <1>1, <1>2, <3>1 DEF RecordsUnderWay, TipUnderWay, Saving, Rows, Transcripts
    <3>3. QED
      BY <1>2, <3>1, <3>2 DEF Rows
  <2>2. CASE DropRow(h)
    <3>1. pc[h] = "dropRow"
      BY <2>2 DEF DropRow
    <3>2. Rows = Only(prev[h]) \cup {id[h]} /\ Transcripts \subseteq {id[h]} /\ Tip(id[h])
      BY <1>2, <3>1 DEF RecordsUnderWay, TipUnderWay, Saving
    <3>3. Transcripts' \subseteq {id[h]} /\ Only(id[h]) = {id[h]}
      BY <1>1, <1>2, <3>2, OnlyIs DEF Transcripts
    <3>4. Rows' = {id[h]} /\ row'[id[h]] = row[id[h]]
      <4>1. row \in [RespId -> Row \cup {None}]
        BY DEF IInv, TypeOK
      <4>2. CASE prev[h] = None
        <5>1. row' = row
          BY <2>2, <4>2 DEF DropRow
        <5>2. QED
          BY <1>2, <3>2, <4>2, <5>1 DEF Rows
      <4>3. CASE prev[h] # None
        <5>1. stored[h] = row[prev[h]].thread /\ prev[h] \in Rows /\ prev[h] \in RespId
          BY <1>2, <3>1, <3>2, <4>3 DEF RecordsUnderWay
        <5>2. stored[h] # None
          BY <4>1, <5>1, ResponsesAssumption DEF Row, Rows
        <5>3. row' = [row EXCEPT ![prev[h]] = None]
          BY <2>2, <4>3, <5>2 DEF DropRow
        <5>4. row'[prev[h]] = None /\ \A i \in RespId : i # prev[h] => row'[i] = row[i]
          BY <4>1, <5>1, <5>3
        <5>5. QED
          BY <1>2, <3>2, <4>3, <5>4 DEF Rows
      <4>4. QED
        BY <4>2, <4>3
    <3>5. QED
      BY <1>2, <3>2, <3>3, <3>4
  <2>3. QED
    BY <2>1, <2>2
<1>5. AtRest'
  BY <1>1, <1>4, SameTip DEF AtRest, Only
<1>6. (Unaged /\ SaidByDrawn /\ ToldDiffer)'
  BY <1>1, <1>4 DEF PatientInv, Unaged, SaidByDrawn, ToldDiffer, Transcripts
<1>7. QED
  BY <1>3, <1>5, <1>6 DEF PatientInv, Alone

LEMMA StepsPatiently ==
    ASSUME IInv, HInv, PatientInv, PatientNext
    PROVE  PatientInv'
<1>1. ASSUME NEW h \in Handler, HandlerStep(h)
      PROVE  PatientInv'
  <2>1. ASSUME \/ Continue(h) \/ (\E t \in ThreadId : OpenThread(h, t)) \/ Accept(h)
               \/ (\E outcome \in Outcome : Answer(h, outcome) \/ Fault(h, outcome))
               \/ AskAgain(h) \/ Settle(h)
        PROVE  PatientInv'
    <3>1. /\ pc[h] \in {"compose", "send", "wait", "got", "answer"}
          /\ \E at \in {"compose", "send", "wait", "got", "answer"} : pc' = [pc EXCEPT ![h] = at]
          /\ UNCHANGED <<transcript, row, now, root, said, told, prev, id, stored>>
      BY <2>1 DEF Continue, OpenThread, Accept, Answer, Fault, AskAgain, Settle, Goto, history
    <3>2. QED
      BY <3>1, RecordsStay
  <2>2. QED
    BY <1>1, <2>1, LoadPatiently, ForgetPatiently, FindPatiently, ReplyPatiently, SaveStatePatiently,
       SaveRowPatiently, DonePatiently DEF HandlerStep
<1>2. QED
  BY <1>1, AskPatiently DEF PatientNext

LEMMA PatienceLasts == IInv /\ HInv /\ (patient => PatientInv) /\ [ClientsNext]_cvars => (patient => PatientInv)'
<1> SUFFICES ASSUME IInv, HInv, PatientInv, patient, patient', [ClientsNext]_cvars
             PROVE  PatientInv'
  BY DEF ClientsNext, cvars
<1>1. CASE PatientNext
  BY <1>1, StepsPatiently
<1>2. CASE UNCHANGED cvars
  BY <1>2 DEF cvars, vars, history, handlerVars, PatientInv, Alone, Unaged, SaidByDrawn, ToldDiffer,
              AtRest, RecordsUnderWay, TipUnderWay, Rows, Transcripts, Only, Tip
<1>3. QED
  BY <1>1, <1>2 DEF ClientsNext

LEMMA PatientRecords == ClientsSpec => [](IInv /\ HInv /\ (patient => PatientInv))
<1>1. Init => PatientInv
  <2> SUFFICES ASSUME Init
               PROVE  PatientInv
    OBVIOUS
  <2>1. Rows = {} /\ Transcripts = {} /\ told = {}
    BY DEF Init, Rows, Transcripts
  <2>2. AtRest
    BY <2>1, OnlyIs DEF AtRest, Tip
  <2>3. QED
    BY <2>1, <2>2 DEF Init, PatientInv, Alone, Unaged, SaidByDrawn, ToldDiffer
<1>2. ClientsInit => Init
  BY DEF ClientsInit
<1>3. ClientsSpec => Spec
  BY <1>2, PatientIsServed, PTL DEF ClientsSpec, Spec
<1>4. QED
  BY <1>1, <1>2, <1>3, PatienceLasts, Invariance, HandingOn, PTL DEF ClientsSpec

\* For conversations of any length, whatever calls fail or are refused: a client
\* that waits leaves one transcript and one row at most between its requests
\* (resp_state_delete, thread_state_delete and the two saves).
THEOREM OneRecordIsKept == ClientsSpec => []OneRecordKept
<1>1. PatientInv /\ (\A h \in Handler : pc[h] = "idle") =>
        /\ \A i, j \in RespId : transcript[i] # None /\ transcript[j] # None => i = j
        /\ \A i, j \in RespId : row[i] # None /\ row[j] # None => i = j
  <2> SUFFICES ASSUME PatientInv, \A h \in Handler : pc[h] = "idle"
               PROVE  /\ \A i, j \in Transcripts : i = j
                      /\ \A i, j \in Rows : i = j
    BY DEF Rows, Transcripts
  <2>1. PICK p \in RespId \cup {None} : Rows = Only(p) /\ Transcripts \subseteq Only(p)
    BY DEF PatientInv, AtRest
  <2>2. QED
    BY <2>1 DEF Only
<1>2. QED
  BY <1>1, PatientRecords, PTL DEF OneRecordKept

(***************************************************************************)
(* What it says is on the thread it is answered on, if a turn is one       *)
(* message and UvA refuses nothing: then a row's thread, if UvA was asked  *)
(* to open it at all, has all that had been said with the response; a      *)
(* handler without a row has no predecessor, and what it says first is all *)
(* there is to say.                                                        *)
(***************************************************************************)
PlainTurns == ~Refusals /\ \A r \in Request : r.inputs <= 1

\* If UvA was asked to open t, all that had been said with i is on it
OnThread(i, t) ==
    upstream[t] # <<>> /\ upstream[t][1].isNewChat => \A m \in said[i] : InThread(m, t)

\* What the request of h puts in
InputOf(i) == [kind |-> "input", of |-> i, n |-> 1]
Input(h)   == InputOf(id[h])

Holds(s, m)  == \E j \in DOMAIN s : s[j] = m
EndsIn(s, m) == Len(s) > 0 /\ s[Len(s)] = m

\* UvA has taken a post of the request h answers
Taken(h) ==
    \/ pc[h] \in {"wait", "answer", "saveState", "saveRow", "dropRow"}
    \/ pc[h] = "got" /\ (retried[h] \/ out[h] # "failed")

SayingUnderWay(h) ==
    /\ req[h].inputs = 1
    /\ said[id[h]] \subseteq (IF prev[h] = None THEN {} ELSE said[prev[h]]) \cup {Input(h)}
    /\ Holds(msgs[h], Input(h))
    /\ ~retried[h] /\ pc[h] \in {"load", "forget", "find", "compose"} => EndsIn(msgs[h], Input(h))
    /\ pc[h] \in {"load", "forget", "find"} => ~retried[h]

ThreadUnderWay(h) ==
    /\ retried[h] /\ stored[h] # None => OnThread(id[h], stored[h])
    /\ pc[h] \in Posting /\ stored[h] # None => used[h] = stored[h]
    /\ pc[h] = "send" =>
        /\ post[h].isNewChat <=> stored[h] = None
        /\ stored[h] = None => upstream[used[h]] = <<>>
        /\ (retried[h] /\ stored[h] # None) \/ Holds(post[h].msgs, Input(h))
    /\ pc[h] = "wait" => upstream[used[h]] # <<>>
    /\ Taken(h) => OnThread(id[h], used[h])

RowsOnThreads == \A i \in Rows : OnThread(i, row[i].thread)

ContextInv ==
    /\ RowsOnThreads
    /\ \A h \in Handler : pc[h] = "idle" => ~retried[h]
    /\ \A h \in Handler : pc[h] # "idle" => SayingUnderWay(h) /\ ThreadUnderWay(h)

(* Sequences of messages *)

LEMMA AppendEnds ==
    ASSUME NEW s \in Seq(Message), NEW t \in Seq(Message), NEW m, EndsIn(t, m)
    PROVE  EndsIn(s \o t, m)
<1>1. PICK w : w = s \o t
  OBVIOUS
<1>2. Len(w) = Len(s) + Len(t) /\ Len(s) \in Nat /\ Len(t) \in Nat /\ Len(t) > 0
  BY <1>1 DEF EndsIn
<1>3. w[Len(s) + Len(t)] = t[Len(t)]
  BY <1>1, <1>2
<1>4. QED
  BY <1>1, <1>2, <1>3 DEF EndsIn

LEMMA EndHolds ==
    ASSUME NEW s \in Seq(Message), NEW m, EndsIn(s, m)
    PROVE  Holds(s, m)
BY DEF EndsIn, Holds

LEMMA AppendHolds ==
    ASSUME NEW s \in Seq(Message), NEW t \in Seq(Message), NEW m, Holds(s, m)
    PROVE  Holds(s \o t, m)
<1>1. PICK j \in DOMAIN s : s[j] = m
  BY DEF Holds
<1>2. j \in DOMAIN (s \o t) /\ (s \o t)[j] = m
  BY <1>1
<1>3. QED
  BY <1>2 DEF Holds

LEMMA NewEndsInInput ==
    ASSUME NEW r \in Request, NEW i \in RespId, r.inputs = 1
    PROVE  EndsIn(NewMessages(r, i), InputOf(i)) /\ NewMessages(r, i) \in Seq(Message)
<1>1. PICK front : front = IF r.instructions THEN <<Msg("instructions", i)>> ELSE <<>>
  OBVIOUS
<1>2. front \in Seq(Message)
  <2>1. Msg("instructions", i) \in Message
    BY DEF Msg, Message, Kind
  <2>2. CASE r.instructions
    BY <1>1, <2>1, <2>2
  <2>3. CASE ~r.instructions
    BY <1>1, <2>3
  <2>4. QED
    BY <2>2, <2>3
<1>3. PICK ins : ins = Inputs(r, i)
  OBVIOUS
<1>4. ins \in Seq(Message) /\ EndsIn(ins, InputOf(i))
  <2>1. ins = [n \in 1..1 |-> [kind |-> "input", of |-> i, n |-> n]]
    BY <1>3 DEF Inputs
  <2>2. \A n \in 1..1 : [kind |-> "input", of |-> i, n |-> n] \in Message
    BY DEF Message, Kind
  <2>3. ins \in Seq(Message) /\ Len(ins) = 1
    BY <2>1, <2>2
  <2>4. QED
    BY <2>1, <2>3 DEF EndsIn, InputOf
<1>5. NewMessages(r, i) = front \o ins
  BY <1>1, <1>3 DEF NewMessages
<1>6. EndsIn(front \o ins, InputOf(i)) /\ front \o ins \in Seq(Message)
  BY <1>2, <1>4, AppendEnds
<1>7. QED
  BY <1>5, <1>6

LEMMA ToolsKeepEnd ==
    ASSUME NEW r \in Request, NEW i \in RespId, NEW s \in Seq(Message), NEW m, EndsIn(s, m)
    PROVE  EndsIn(WithTools(r, i, s), m)
<1>1. <<Msg("tools", i)>> \in Seq(Message)
  BY DEF Msg, Message, Kind
<1>2. EndsIn(<<Msg("tools", i)>> \o s, m)
  BY <1>1, AppendEnds
<1>3. QED
  BY <1>2 DEF WithTools

\* The last user message of what ends in one
LEMMA LastUserIsEnd ==
    ASSUME NEW s \in Seq(Message), NEW i, EndsIn(s, InputOf(i))
    PROVE  HasUser(s) /\ s[LastUser(s)] = InputOf(i)
<1>1. Len(s) \in Nat /\ DOMAIN s = 1..Len(s) /\ Len(s) \in DOMAIN s /\ s[Len(s)] = InputOf(i)
  BY DEF EndsIn
<1>2. IsUser(s[Len(s)])
  BY <1>1 DEF IsUser, InputOf
<1>3. HasUser(s)
  BY <1>1, <1>2 DEF HasUser
<1>4. PICK k : k = CHOOSE k1 \in DOMAIN s : IsUser(s[k1]) /\ \A j \in DOMAIN s : IsUser(s[j]) => j <= k1
  OBVIOUS
<1>5. \A j \in DOMAIN s : IsUser(s[j]) => j <= Len(s)
  BY <1>1
<1>6. k \in DOMAIN s /\ \A j \in DOMAIN s : IsUser(s[j]) => j <= k
  BY <1>1, <1>2, <1>4, <1>5
<1>7. k = Len(s)
  BY <1>1, <1>2, <1>6
<1>8. QED
  BY <1>1, <1>3, <1>4, <1>7 DEF LastUser

LEMMA HoldsUser ==
    ASSUME NEW s \in Seq(Message), NEW i, Holds(s, InputOf(i))
    PROVE  HasUser(s)
BY DEF Holds, HasUser, IsUser, InputOf

(* Threads *)

\* A thread that has what was said keeps it, whatever is posted to it
LEMMA OnThreadGrows ==
    ASSUME TypeOK, NEW t \in ThreadId, NEW u \in ThreadId, NEW b \in Post, NEW i \in RespId,
           upstream' = [upstream EXCEPT ![u] = Append(@, b)], said'[i] = said[i],
           OnThread(i, t), b.isNewChat => t # u
    PROVE  OnThread(i, t)'
<1>1. upstream[t] \in Seq(Post) /\ upstream[u] \in Seq(Post)
  BY DEF TypeOK
<1>2. CASE t # u
  <2>1. upstream'[t] = upstream[t]
    BY <1>2 DEF TypeOK
  <2>2. QED
    BY <2>1 DEF OnThread, InThread
<1>3. CASE t = u
  <2>1. upstream'[t] = Append(upstream[t], b)
    BY <1>3 DEF TypeOK
  <2>2. CASE upstream[t] = <<>>
    BY <1>3, <2>1, <2>2 DEF OnThread
  <2>3. CASE upstream[t] # <<>>
    <3>1. /\ DOMAIN upstream[t] \subseteq DOMAIN upstream'[t]
          /\ \A k \in DOMAIN upstream[t] : upstream'[t][k] = upstream[t][k]
          /\ 1 \in DOMAIN upstream[t]
      BY <1>1, <2>1, <2>3
    <3>2. \A m : InThread(m, t) => InThread(m, t)'
      BY <3>1 DEF InThread
    <3>3. QED
      BY <2>3, <3>1, <3>2 DEF OnThread
  <2>4. QED
    BY <2>2, <2>3
<1>4. QED
  BY <1>2, <1>3

LEMMA PostedIsInThread ==
    ASSUME TypeOK, NEW t \in ThreadId, NEW b \in Post, NEW m,
           upstream' = [upstream EXCEPT ![t] = Append(@, b)], Holds(b.msgs, m)
    PROVE  InThread(m, t)'
<1>1. upstream[t] \in Seq(Post) /\ upstream'[t] = Append(upstream[t], b)
  BY DEF TypeOK
<1>2. PICK k : k = Len(upstream[t]) + 1
  OBVIOUS
<1>3. k \in DOMAIN upstream'[t] /\ upstream'[t][k] = b
  BY <1>1, <1>2
<1>4. QED
  BY <1>3 DEF Holds, InThread

LEMMA NotYetOpen ==
    ASSUME IInv, NEW t \in ThreadId, owner[t] = None
    PROVE  upstream[t] = <<>>
<1>1. upstream[t] \in Seq(Post) /\ \A i \in DOMAIN upstream[t] : FALSE
  BY DEF IInv, TypeOK, PostsOwned, Mine
<1>2. PICK s \in Seq(Post) : s = upstream[t]
  BY <1>1
<1>3. Len(s) \in Nat /\ DOMAIN s = 1..Len(s) /\ DOMAIN s = {}
  BY <1>1, <1>2
<1>4. Len(s) = 0
  BY <1>3
<1>5. QED
  BY <1>2, <1>4

LEMMA SameThread ==
    ASSUME UNCHANGED upstream, NEW i, NEW t, said'[i] = said[i], OnThread(i, t)
    PROVE  OnThread(i, t)'
BY DEF OnThread, InThread

(* Steps *)

LEMMA ContextGoesOn ==
    ASSUME IInv, PatientInv, ContextInv, NEW h \in Handler, pc[h] # "idle",
           NEW at, at # "idle", pc' = [pc EXCEPT ![h] = at],
           RowsOnThreads', SayingUnderWay(h)', ThreadUnderWay(h)',
           \A g \in Handler : g # h => retried'[g] = retried[g]
    PROVE  ContextInv'
<1>1. /\ pc'[h] = at /\ \A g \in Handler : g # h => pc[g] = "idle" /\ pc'[g] = "idle"
  BY DEF PatientInv, Alone, IInv, TypeOK
<1>2. QED
  BY <1>1 DEF ContextInv

LEMMA SameRows ==
    ASSUME RowsOnThreads, UNCHANGED <<row, upstream, said>>
    PROVE  RowsOnThreads'
BY DEF RowsOnThreads, Rows, OnThread, InThread

LEMMA SameSaying ==
    ASSUME NEW h, SayingUnderWay(h), UNCHANGED <<said, req, id, prev, msgs, retried>>,
           pc'[h] \in {"load", "forget", "find"} => pc[h] \in {"load", "forget", "find"},
           pc'[h] = "compose" => pc[h] \in {"load", "forget", "find", "compose"}
    PROVE  SayingUnderWay(h)'
BY DEF SayingUnderWay, Input

\* The handler at work, in full
LEMMA AtWorkOn ==
    ASSUME IInv, PatientInv, ContextInv, NEW h \in Handler, pc[h] # "idle"
    PROVE  /\ SayingUnderWay(h) /\ ThreadUnderWay(h) /\ RowsOnThreads
           /\ id[h] \in RespId /\ prev[h] \in RespId \cup {None}
           /\ pc[h] \in Posting => used[h] \in ThreadId
           /\ msgs[h] \in Seq(Message) /\ post[h] \in Post /\ retried[h] \in BOOLEAN
           /\ \A at : pc' = [pc EXCEPT ![h] = at] => pc'[h] = at
<1>1. SayingUnderWay(h) /\ ThreadUnderWay(h) /\ RowsOnThreads
  BY DEF ContextInv
<1>2. /\ pc[h] \in Posting => used[h] \in ThreadId
      /\ msgs[h] \in Seq(Message) /\ post[h] \in Post /\ retried[h] \in BOOLEAN
  BY DEF IInv, TypeOK, HandlerLocals
<1>3. QED
  BY <1>1, <1>2, AtWork

LEMMA AskInContext ==
    ASSUME PlainTurns, IInv, PatientInv, ContextInv, NEW h \in Handler, NEW r \in Request,
           NEW p \in RespId \cup {None}, NEW i \in RespId, Ask(h, r, p, i)
    PROVE  ContextInv'
<1>1. /\ r.inputs > 0 /\ Tip(p) /\ root[i] = None /\ \A g \in Handler : pc[g] = "idle"
      /\ pc' = [pc EXCEPT ![h] = IF p = None THEN "compose" ELSE "load"]
      /\ prev' = [prev EXCEPT ![h] = p] /\ id' = [id EXCEPT ![h] = i]
      /\ said' = [said EXCEPT ![i] = (IF p = None THEN {} ELSE said[p])
                                       \cup {Inputs(r, i)[n] : n \in 1..r.inputs}]
      /\ msgs' = [msgs EXCEPT ![h] = WithTools(r, i, NewMessages(r, i))]
      /\ req' = [req EXCEPT ![h] = r]
      /\ UNCHANGED <<row, upstream, stored, used, post, retried>>
  BY DEF Ask, Arrive, Goto
<1>2. r.inputs = 1
  BY <1>1, ResponsesAssumption DEF PlainTurns
<1>3. /\ pc'[h] = (IF p = None THEN "compose" ELSE "load") /\ prev'[h] = p /\ id'[h] = i
      /\ stored'[h] = None /\ retried'[h] = FALSE /\ req'[h] = r
      /\ msgs'[h] = WithTools(r, i, NewMessages(r, i))
      /\ \A g \in Handler : g # h => pc'[g] = "idle" /\ retried'[g] = FALSE
  BY <1>1 DEF IInv, TypeOK, HandlerLocals, ContextInv
<1>4. p # None => p # i
  BY <1>1, TipDrawn
<1>5. said'[i] \subseteq (IF p = None THEN {} ELSE said'[p]) \cup {InputOf(i)}
  <2>1. \A n \in 1..1 : Inputs(r, i)[n] = InputOf(i)
    BY <1>2 DEF Inputs, InputOf
  <2>2. said'[i] = (IF p = None THEN {} ELSE said[p]) \cup {Inputs(r, i)[n] : n \in 1..1}
    BY <1>1, <1>2 DEF IInv, TypeOK
  <2>3. p # None => said'[p] = said[p]
    BY <1>1, <1>4 DEF IInv, TypeOK
  <2>4. QED
    BY <2>1, <2>2, <2>3
<1>6. EndsIn(msgs'[h], InputOf(i)) /\ Holds(msgs'[h], InputOf(i))
  <2>1. PICK s \in Seq(Message) : s = NewMessages(r, i) /\ EndsIn(s, InputOf(i))
    BY <1>2, NewEndsInInput
  <2>2. PICK w \in Seq(Message) : w = WithTools(r, i, s)
    BY WithToolsType
  <2>3. EndsIn(w, InputOf(i))
    BY <2>1, <2>2, ToolsKeepEnd
  <2>4. Holds(w, InputOf(i))
    BY <2>3, EndHolds
  <2>5. QED
    BY <1>3, <2>1, <2>2, <2>3, <2>4
<1>7. SayingUnderWay(h)'
  BY <1>2, <1>3, <1>5, <1>6 DEF SayingUnderWay, Input
<1>8. ThreadUnderWay(h)'
  BY <1>3 DEF ThreadUnderWay, Posting, Taken
<1>9. RowsOnThreads'
  <2> SUFFICES ASSUME NEW k \in Rows', NEW t, t = row'[k].thread
               PROVE  OnThread(k, t)'
    BY DEF RowsOnThreads
  <2>1. k \in RespId /\ k \in Rows /\ k # i /\ row'[k] = row[k]
    BY <1>1 DEF Rows, IInv, RowsOwned
  <2>2. said'[k] = said[k] /\ upstream' = upstream
    BY <1>1, <2>1 DEF IInv, TypeOK
  <2>3. OnThread(k, t)
    BY <2>1 DEF ContextInv, RowsOnThreads
  <2>4. QED
    BY <2>2, <2>3, SameThread
<1>10. QED
  BY <1>3, <1>7, <1>8, <1>9 DEF ContextInv

LEMMA LoadInContext ==
    ASSUME PlainTurns, IInv, PatientInv, ContextInv, NEW h \in Handler, Load(h)
    PROVE  ContextInv'
<1>1. /\ pc[h] = "load"
      /\ \E at \in {"forget", "find"} : pc' = [pc EXCEPT ![h] = at]
      /\ UNCHANGED <<row, upstream, said, req, prev, id, stored, used, post, retried, out>>
      /\ \/ msgs' = msgs
         \/ /\ transcript[prev[h]] # None
            /\ msgs' = [msgs EXCEPT ![h] = WithTools(req[h], id[h], transcript[prev[h]].msgs
                                                                   \o NewMessages(req[h], id[h]))]
  <2> DEFINE live == transcript[prev[h]] # None /\ ~Expired(transcript[prev[h]].created)
  <2>1. CASE live
    BY <2>1 DEF Load, Goto, history
  <2>2. CASE ~live
    BY <2>2 DEF Load, Goto, history
  <2>3. QED
    BY <2>1, <2>2
<1>2. /\ SayingUnderWay(h) /\ ThreadUnderWay(h) /\ RowsOnThreads
      /\ pc'[h] \in {"forget", "find"} /\ id[h] \in RespId
  BY <1>1, AtWorkOn
<1>3. EndsIn(msgs[h], Input(h)) /\ ~retried[h]
  BY <1>1, <1>2 DEF SayingUnderWay
<1>4. EndsIn(msgs'[h], Input(h)) /\ Holds(msgs'[h], Input(h))
  <2>1. CASE msgs' = msgs
    BY <1>2, <1>3, <2>1 DEF SayingUnderWay
  <2>2. CASE /\ transcript[prev[h]] # None
             /\ msgs' = [msgs EXCEPT ![h] = WithTools(req[h], id[h], transcript[prev[h]].msgs
                                                                    \o NewMessages(req[h], id[h]))]
    <3>1. PICK r \in Request : r = req[h] /\ r.inputs = 1
      <4>1. req[h] \in Request
        BY <1>1 DEF IInv, HandlerLocals
      <4>2. QED
        BY <1>2, <4>1 DEF SayingUnderWay
    <3>2. PICK old \in Seq(Message) : old = transcript[prev[h]].msgs
      BY <1>1, <2>2 DEF IInv, TypeOK, HandlerLocals, Record
    <3>3. PICK s \in Seq(Message) : s = NewMessages(r, id[h]) /\ EndsIn(s, Input(h))
      BY <1>2, <3>1, NewEndsInInput DEF Input
    <3>4. PICK w \in Seq(Message) : w = old \o s
      <4>1. old \in Seq(Message) /\ s \in Seq(Message)
        BY <3>2, <3>3
      <4>2. old \o s \in Seq(Message)
        BY ONLY <4>1
      <4>3. QED
        BY <4>2
    <3>5. EndsIn(w, Input(h))
      BY <3>3, <3>4, AppendEnds
    <3>6. PICK v \in Seq(Message) : v = WithTools(r, id[h], w)
      BY <1>2, WithToolsType
    <3>7. EndsIn(v, Input(h))
      BY <1>2, <3>5, <3>6, ToolsKeepEnd
    <3>8. Holds(v, Input(h))
      BY <3>7, EndHolds
    <3>9. msgs'[h] = v
      BY <2>2, <3>1, <3>2, <3>3, <3>4, <3>6 DEF IInv, TypeOK
    <3>10. QED
      BY <3>7, <3>8, <3>9
  <2>3. QED
    BY <1>1, <2>1, <2>2
<1>5. SayingUnderWay(h)'
  BY <1>1, <1>2, <1>3, <1>4 DEF SayingUnderWay, Input
<1>6. ThreadUnderWay(h)'
  BY <1>1, <1>2, <1>3 DEF ThreadUnderWay, Posting, Taken
<1>7. QED
  BY <1>1, <1>2, <1>5, <1>6, SameRows, ContextGoesOn

LEMMA FindInContext ==
    ASSUME IInv, PatientInv, ContextInv, NEW h \in Handler, Forget(h) \/ Find(h)
    PROVE  ContextInv'
<1>1. /\ pc[h] \in {"forget", "find"}
      /\ \E at \in {"find", "compose"} : pc' = [pc EXCEPT ![h] = at]
      /\ UNCHANGED <<row, upstream, said, req, prev, id, msgs, used, post, retried, out>>
  <2>1. CASE Forget(h)
    BY <2>1 DEF Forget, Goto, history
  <2>2. CASE Find(h)
    BY <2>2, FindsRow DEF Find, Goto, history
  <2>3. QED
    BY <2>1, <2>2
<1>2. SayingUnderWay(h) /\ ThreadUnderWay(h) /\ RowsOnThreads /\ pc'[h] \in {"find", "compose"}
  BY <1>1, AtWorkOn
<1>3. ~retried[h]
  BY <1>1, <1>2 DEF SayingUnderWay
<1>4. SayingUnderWay(h)'
  BY <1>1, <1>2, SameSaying
<1>5. ThreadUnderWay(h)'
  BY <1>1, <1>2, <1>3 DEF ThreadUnderWay, Posting, Taken
<1>6. QED
  BY <1>1, <1>2, <1>4, <1>5, SameRows, ContextGoesOn

LEMMA ContinueInContext ==
    ASSUME IInv, PatientInv, ContextInv, NEW h \in Handler, Continue(h)
    PROVE  ContextInv'
<1>1. /\ pc[h] = "compose" /\ stored[h] # None
      /\ pc' = [pc EXCEPT ![h] = "send"]
      /\ used' = [used EXCEPT ![h] = stored[h]]
      /\ post' = [post EXCEPT ![h] = [isNewChat |-> FALSE, msgs |-> <<msgs[h][LastUser(msgs[h])]>>]]
      /\ UNCHANGED <<row, upstream, said, req, prev, id, stored, msgs, retried, out>>
  BY DEF Continue, Goto, history
<1>2. /\ SayingUnderWay(h) /\ ThreadUnderWay(h) /\ RowsOnThreads /\ pc'[h] = "send"
      /\ msgs[h] \in Seq(Message)
  BY <1>1, AtWorkOn
<1>3. SayingUnderWay(h)'
  BY <1>1, <1>2, SameSaying
<1>4. /\ used'[h] = stored[h]
      /\ post'[h].isNewChat = FALSE /\ post'[h].msgs = <<msgs[h][LastUser(msgs[h])]>>
  BY <1>1 DEF IInv, TypeOK
<1>5. ~retried[h] => Holds(post'[h].msgs, Input(h))
  <2> SUFFICES ASSUME ~retried[h]
               PROVE  Holds(post'[h].msgs, Input(h))
    OBVIOUS
  <2>1. EndsIn(msgs[h], InputOf(id[h]))
    BY <1>1, <1>2 DEF SayingUnderWay, Input
  <2>2. msgs[h][LastUser(msgs[h])] = InputOf(id[h])
    BY <1>2, <2>1, LastUserIsEnd
  <2>3. post'[h].msgs = <<Input(h)>>
    BY <1>4, <2>2 DEF Input
  <2>4. QED
    BY <2>3 DEF Holds
<1>6. retried[h] => OnThread(id[h], stored[h])
  BY <1>1, <1>2 DEF ThreadUnderWay
<1>7. ThreadUnderWay(h)'
  BY <1>1, <1>2, <1>4, <1>5, <1>6 DEF ThreadUnderWay, Taken, OnThread, InThread, Input
<1>8. QED
  BY <1>1, <1>2, <1>3, <1>7, SameRows, ContextGoesOn

LEMMA OpenInContext ==
    ASSUME IInv, PatientInv, ContextInv, NEW h \in Handler, NEW t \in ThreadId, OpenThread(h, t)
    PROVE  ContextInv'
<1>1. /\ pc[h] = "compose" /\ ~(stored[h] # None /\ HasUser(msgs[h])) /\ owner[t] = None
      /\ pc' = [pc EXCEPT ![h] = "send"]
      /\ used' = [used EXCEPT ![h] = t]
      /\ post' = [post EXCEPT ![h] = [isNewChat |-> TRUE, msgs |-> msgs[h]]]
      /\ UNCHANGED <<row, upstream, said, req, prev, id, stored, msgs, retried, out>>
  BY DEF OpenThread, Goto
<1>2. /\ SayingUnderWay(h) /\ ThreadUnderWay(h) /\ RowsOnThreads /\ pc'[h] = "send"
      /\ msgs[h] \in Seq(Message)
  BY <1>1, AtWorkOn
<1>3. SayingUnderWay(h)'
  BY <1>1, <1>2, SameSaying
<1>4. used'[h] = t /\ post'[h].isNewChat = TRUE /\ post'[h].msgs = msgs[h]
  BY <1>1 DEF IInv, TypeOK
<1>5. Holds(msgs[h], Input(h))
  BY <1>2 DEF SayingUnderWay
<1>6. stored[h] = None
  BY <1>1, <1>2, <1>5, HoldsUser DEF Input
<1>7. upstream[t] = <<>>
  BY <1>1, NotYetOpen
<1>8. ThreadUnderWay(h)'
  BY <1>1, <1>2, <1>4, <1>5, <1>6, <1>7 DEF ThreadUnderWay, Taken, Input
<1>9. QED
  BY <1>1, <1>2, <1>3, <1>8, SameRows, ContextGoesOn

LEMMA AcceptInContext ==
    ASSUME IInv, PatientInv, ContextInv, NEW h \in Handler, Accept(h)
    PROVE  ContextInv'
<1>1. /\ pc[h] = "send"
      /\ pc' = [pc EXCEPT ![h] = "wait"]
      /\ UNCHANGED <<row, said, req, prev, id, stored, used, msgs, post, retried, out>>
  BY DEF Accept, Goto, history
<1>2. /\ SayingUnderWay(h) /\ ThreadUnderWay(h) /\ RowsOnThreads /\ pc'[h] = "wait"
      /\ id[h] \in RespId /\ prev[h] \in RespId \cup {None}
  BY <1>1, AtWorkOn
<1>3. PICK u \in ThreadId, b \in Post :
        u = used[h] /\ b = post[h] /\ upstream' = [upstream EXCEPT ![u] = Append(@, b)]
  BY <1>1, AtWorkOn DEF Posting, Accept
<1>4. SayingUnderWay(h)'
  BY <1>1, <1>2, SameSaying
<1>5. /\ b.isNewChat <=> stored[h] = None
      /\ stored[h] = None => upstream[u] = <<>>
      /\ stored[h] # None => u = stored[h]
      /\ (retried[h] /\ stored[h] # None) \/ Holds(b.msgs, Input(h))
  BY <1>1, <1>2, <1>3 DEF ThreadUnderWay, Posting
<1>6. TypeOK
  BY DEF IInv
<1>7. \A i \in RespId, t \in ThreadId : OnThread(i, t) /\ (t = u => stored[h] # None) => OnThread(i, t)'
  <2> SUFFICES ASSUME NEW i \in RespId, NEW t \in ThreadId, OnThread(i, t), t = u => stored[h] # None
               PROVE  OnThread(i, t)'
    OBVIOUS
  <2>1. said'[i] = said[i] /\ (b.isNewChat => t # u)
    BY <1>1, <1>5
  <2>2. QED
    BY <1>3, <1>6, <2>1, OnThreadGrows
<1>8. Rows = Only(prev[h]) /\ (prev[h] # None => stored[h] = row[prev[h]].thread /\ stored[h] \in ThreadId)
  <2>1. RecordsUnderWay(h)
    BY <1>1, AtWork
  <2>2. Rows = Only(prev[h]) /\ (prev[h] # None => stored[h] = row[prev[h]].thread)
    BY <1>1, <2>1 DEF RecordsUnderWay
  <2>3. prev[h] # None => prev[h] \in Rows
    BY <1>2, <2>2, OnlyIs
  <2>4. \A i \in Rows : row[i].thread \in ThreadId
    BY <1>6 DEF TypeOK, Rows, Row
  <2>5. QED
    BY <2>2, <2>3, <2>4
<1>9. RowsOnThreads'
  <2> SUFFICES ASSUME NEW i \in Rows', NEW t, t = row'[i].thread
               PROVE  OnThread(i, t)'
    BY DEF RowsOnThreads
  <2>1. i \in Rows /\ i \in RespId /\ row' = row
    BY <1>1 DEF Rows
  <2>2. i = prev[h] /\ prev[h] # None
    BY <1>8, <2>1, OnlyIs, ResponsesAssumption DEF Only
  <2>3. t = stored[h] /\ t \in ThreadId /\ stored[h] # None
    BY <1>8, <2>1, <2>2, ResponsesAssumption
  <2>4. OnThread(i, t)
    BY <1>2, <2>1 DEF RowsOnThreads
  <2>5. QED
    BY <1>7, <2>1, <2>3, <2>4
<1>10. retried[h] /\ stored[h] # None => OnThread(id[h], u) /\ OnThread(id[h], u)'
  <2> SUFFICES ASSUME retried[h], stored[h] # None
               PROVE  OnThread(id[h], u) /\ OnThread(id[h], u)'
    OBVIOUS
  <2>1. OnThread(id[h], u)
    BY <1>2, <1>5 DEF ThreadUnderWay
  <2>2. PICK i \in RespId : i = id[h]
    BY <1>2
  <2>3. OnThread(i, u)'
    BY <1>7, <2>1, <2>2
  <2>4. id'[h] = i
    BY <1>1, <2>2
  <2>5. QED
    BY <2>1, <2>2, <2>3, <2>4 DEF OnThread, InThread
<1>11. OnThread(id[h], used[h])'
  <2>1. CASE retried[h] /\ stored[h] # None
    BY <1>1, <1>3, <1>10, <2>1
  <2>2. CASE Holds(b.msgs, Input(h))
    <3>a. PICK m : m = Input(h)
      OBVIOUS
    <3>1. InThread(m, u)'
      BY <1>3, <1>6, <2>2, <3>a, PostedIsInThread
    <3>2. PICK i \in RespId : i = id[h]
      BY <1>2
    <3>3. ASSUME prev[h] # None
          PROVE  OnThread(prev[h], u)'
      <4>1. PICK p \in RespId : p = prev[h]
        BY <1>2, <3>3
      <4>2. p \in Rows /\ u = row[p].thread /\ stored[h] # None
        BY <1>5, <1>8, <3>3, <4>1, OnlyIs, ResponsesAssumption
      <4>3. OnThread(p, u)
        BY <1>2, <4>2 DEF RowsOnThreads
      <4>4. OnThread(p, u)' /\ prev'[h] = p
        BY <1>1, <1>7, <4>1, <4>2, <4>3
      <4>5. QED
        BY <4>4 DEF OnThread, InThread
    <3>4. said[i] \subseteq (IF prev[h] = None THEN {} ELSE said[prev[h]]) \cup {Input(h)}
      BY <1>2, <3>2 DEF SayingUnderWay
    <3>5. OnThread(i, u)'
      BY <1>1, <3>a, <3>1, <3>3, <3>4 DEF OnThread, InThread
    <3>6. id'[h] = i /\ used'[h] = u
      BY <1>1, <1>3, <3>2
    <3>7. QED
      BY <3>5, <3>6 DEF OnThread, InThread
  <2>3. QED
    BY <1>5, <2>1, <2>2
<1>12. ThreadUnderWay(h)'
  <2>1. upstream'[u] = Append(upstream[u], b) /\ upstream[u] \in Seq(Post)
    BY <1>3, <1>6 DEF TypeOK
  <2>2. upstream'[u] # <<>>
    BY <2>1
  <2>3. QED
    BY <1>1, <1>2, <1>3, <1>10, <1>11, <2>2 DEF ThreadUnderWay, Taken, Posting
<1>13. QED
  BY <1>1, <1>4, <1>9, <1>12, ContextGoesOn

\* A call comes to an end, and the handler settles on an answer
LEMMA AnswerInContext ==
    ASSUME PlainTurns, IInv, PatientInv, ContextInv, NEW h \in Handler,
           (\E outcome \in Outcome : Answer(h, outcome) \/ Fault(h, outcome)) \/ Settle(h)
    PROVE  ContextInv'
<1>1. /\ pc[h] \in {"send", "wait", "got"}
      /\ UNCHANGED <<row, upstream, said, req, prev, id, stored, used, msgs, post, retried>>
      /\ \/ pc[h] = "wait" /\ pc' = [pc EXCEPT ![h] = "got"]
         \/ pc[h] = "send" /\ pc' = [pc EXCEPT ![h] = "got"] /\ out'[h] = "failed"
         \/ pc[h] = "got" /\ pc' = [pc EXCEPT ![h] = "answer"] /\ (retried[h] \/ out[h] # "failed")
  <2>1. ASSUME NEW outcome \in Outcome, Answer(h, outcome)
        PROVE  <1>1!:
    BY <2>1 DEF Answer, Goto, history
  <2>2. ASSUME NEW outcome \in Outcome, Fault(h, outcome)
        PROVE  <1>1!:
    BY <2>2 DEF Fault, Goto, history, PlainTurns, IInv, TypeOK
  <2>3. CASE Settle(h)
    BY <2>3 DEF Settle, Goto, history
  <2>4. QED
    BY <2>1, <2>2, <2>3
<1>2. SayingUnderWay(h) /\ ThreadUnderWay(h) /\ RowsOnThreads /\ pc'[h] \in {"got", "answer"}
  BY <1>1, AtWorkOn
<1>3. SayingUnderWay(h)'
  BY <1>1, <1>2, SameSaying
<1>4. Taken(h)' => OnThread(id[h], used[h])
  <2>1. CASE Taken(h)
    BY <1>2, <2>1 DEF ThreadUnderWay
  <2>2. CASE pc[h] = "send" /\ retried[h]
    <3>1. stored[h] = None => upstream[used[h]] = <<>>
      BY <1>2, <2>2 DEF ThreadUnderWay
    <3>2. stored[h] # None => OnThread(id[h], stored[h]) /\ used[h] = stored[h]
      BY <1>2, <2>2 DEF ThreadUnderWay, Posting
    <3>3. QED
      BY <3>1, <3>2 DEF OnThread
  <2>3. CASE pc[h] = "send" /\ ~retried[h]
    <3>1. pc'[h] = "got" /\ out'[h] = "failed" /\ ~retried'[h]
      BY <1>1, <2>3, AtWorkOn
    <3>2. QED
      BY <3>1 DEF Taken
  <2>4. QED
    BY <1>1, <2>1, <2>2, <2>3 DEF Taken
<1>5. ThreadUnderWay(h)'
  BY <1>1, <1>2, <1>4 DEF ThreadUnderWay, Posting, OnThread, InThread
<1>6. QED
  BY <1>1, <1>2, <1>3, <1>5, SameRows, ContextGoesOn

LEMMA AskAgainInContext ==
    ASSUME IInv, PatientInv, ContextInv, NEW h \in Handler, AskAgain(h)
    PROVE  ContextInv'
<1> DEFINE more == <<Msg("reply", id[h]), Msg("nudge", id[h]), Msg("reminder", id[h])>>
<1>1. /\ pc[h] = "got" /\ out[h] \in {"empty", "text"}
      /\ pc' = [pc EXCEPT ![h] = "compose"]
      /\ retried' = [retried EXCEPT ![h] = TRUE]
      /\ msgs' = [msgs EXCEPT ![h] = @ \o more]
      /\ UNCHANGED <<row, upstream, said, req, prev, id, stored, used, post, out>>
  BY DEF AskAgain, Goto, history
<1>2. /\ SayingUnderWay(h) /\ ThreadUnderWay(h) /\ RowsOnThreads /\ pc'[h] = "compose"
      /\ msgs[h] \in Seq(Message) /\ id[h] \in RespId
  BY <1>1, AtWorkOn
<1>3. more \in Seq(Message)
  <2>1. \A kind \in {"reply", "nudge", "reminder"} : Msg(kind, id[h]) \in Message
    BY <1>2 DEF Msg, Message, Kind
  <2>2. QED
    BY <2>1
<1>4. PICK w : w = msgs[h] \o more
  OBVIOUS
<1> HIDE DEF more
<1>5. Holds(w, Input(h))
  <2>1. Holds(msgs[h], Input(h))
    BY <1>2 DEF SayingUnderWay
  <2>2. QED
    BY <1>2, <1>3, <1>4, <2>1, AppendHolds
<1>6. msgs'[h] = w /\ retried'[h] = TRUE /\ \A g \in Handler : g # h => retried'[g] = retried[g]
  BY <1>1, <1>4 DEF IInv, TypeOK
<1>7. SayingUnderWay(h)'
  BY <1>1, <1>2, <1>5, <1>6 DEF SayingUnderWay, Input
<1>8. stored[h] # None => OnThread(id[h], stored[h])
  <2>1. Taken(h) /\ pc[h] \in Posting
    BY <1>1 DEF Taken, Posting
  <2>2. QED
    BY <1>2, <2>1 DEF ThreadUnderWay
<1>9. ThreadUnderWay(h)'
  BY <1>1, <1>2, <1>8 DEF ThreadUnderWay, Posting, Taken, OnThread, InThread
<1>10. QED
  BY <1>1, <1>2, <1>6, <1>7, <1>9, SameRows, ContextGoesOn

LEMMA SaveInContext ==
    ASSUME IInv, PatientInv, ContextInv, NEW h \in Handler, Reply(h) \/ SaveState(h)
    PROVE  ContextInv'
<1>1. /\ pc[h] \in {"answer", "saveState"}
      /\ \E at \in {"saveState", "saveRow"} : pc' = [pc EXCEPT ![h] = at]
      /\ UNCHANGED <<row, upstream, said, req, prev, id, stored, used, post, out, retried>>
      /\ msgs' = msgs \/ msgs' = [msgs EXCEPT ![h] = Append(@, Msg("reply", id[h]))]
  <2>1. CASE Reply(h)
    BY <2>1 DEF Reply, Goto
  <2>2. CASE SaveState(h)
    BY <2>2 DEF SaveState, Goto, history
  <2>3. QED
    BY <2>1, <2>2
<1>2. /\ SayingUnderWay(h) /\ ThreadUnderWay(h) /\ RowsOnThreads /\ pc'[h] \in {"saveState", "saveRow"}
      /\ msgs[h] \in Seq(Message) /\ id[h] \in RespId
  BY <1>1, AtWorkOn
<1>3. Holds(msgs'[h], Input(h))
  <2>1. PICK j \in DOMAIN msgs[h] : msgs[h][j] = Input(h)
    BY <1>2 DEF SayingUnderWay, Holds
  <2>2. CASE msgs' = msgs
    BY <1>2, <2>2 DEF SayingUnderWay
  <2>3. CASE msgs' = [msgs EXCEPT ![h] = Append(@, Msg("reply", id[h]))]
    <3>1. msgs'[h] = Append(msgs[h], Msg("reply", id[h]))
      BY <2>3 DEF IInv, TypeOK
    <3>2. j \in DOMAIN msgs'[h] /\ msgs'[h][j] = msgs[h][j]
      BY <1>2, <2>1, <3>1
    <3>3. QED
      BY <2>1, <3>2 DEF Holds
  <2>4. QED
    BY <1>1, <2>2, <2>3
<1>4. SayingUnderWay(h)'
  BY <1>1, <1>2, <1>3 DEF SayingUnderWay, Input
<1>5. OnThread(id[h], used[h])
  BY <1>1, <1>2 DEF ThreadUnderWay, Taken
<1>6. ThreadUnderWay(h)'
  BY <1>1, <1>2, <1>5 DEF ThreadUnderWay, Posting, OnThread, InThread
<1>7. QED
  BY <1>1, <1>2, <1>4, <1>6, SameRows, ContextGoesOn

LEMMA SaveRowInContext ==
    ASSUME IInv, PatientInv, ContextInv, NEW h \in Handler, SaveRow(h)
    PROVE  ContextInv'
<1>1. /\ pc[h] = "saveRow" /\ pc' = [pc EXCEPT ![h] = "dropRow"]
      /\ row' = [row EXCEPT ![id[h]] = [thread |-> used[h], used |-> now]]
      /\ UNCHANGED <<upstream, said, req, prev, id, stored, used, msgs, post, out, retried>>
  BY DEF SaveRow, Goto, history
<1>2. SayingUnderWay(h) /\ ThreadUnderWay(h) /\ RowsOnThreads /\ pc'[h] = "dropRow" /\ id[h] \in RespId
  BY <1>1, AtWorkOn
<1>3. SayingUnderWay(h)'
  BY <1>1, <1>2 DEF SayingUnderWay, Input
<1>4. OnThread(id[h], used[h])
  BY <1>1, <1>2 DEF ThreadUnderWay, Taken
<1>5. ThreadUnderWay(h)'
  BY <1>1, <1>2, <1>4 DEF ThreadUnderWay, Posting, OnThread, InThread
<1>6. RowsOnThreads'
  <2> SUFFICES ASSUME NEW i \in Rows', NEW t, t = row'[i].thread
               PROVE  OnThread(i, t)'
    BY DEF RowsOnThreads
  <2>1. i \in RespId /\ row'[i] # None /\ row'[id[h]] = [thread |-> used[h], used |-> now]
        /\ (i # id[h] => row'[i] = row[i])
    BY <1>1, <1>2 DEF Rows, IInv, TypeOK
  <2>2. OnThread(i, t)
    <3>1. CASE i = id[h]
      BY <1>4, <2>1, <3>1
    <3>2. CASE i # id[h]
      BY <1>2, <2>1, <3>2 DEF RowsOnThreads, Rows
    <3>3. QED
      BY <3>1, <3>2
  <2>3. QED
    BY <1>1, <2>2, SameThread
<1>7. QED
  BY <1>1, <1>3, <1>5, <1>6, ContextGoesOn

LEMMA DoneInContext ==
    ASSUME IInv, PatientInv, ContextInv, NEW h \in Handler, Abandon(h) \/ DropRow(h)
    PROVE  ContextInv'
<1>1. /\ pc[h] # "idle" /\ pc' = [pc EXCEPT ![h] = "idle"]
      /\ retried' = [retried EXCEPT ![h] = FALSE]
      /\ UNCHANGED <<upstream, said>>
      /\ row' = row \/ row' = [row EXCEPT ![prev[h]] = None]
  BY DEF Abandon, DropRow, Done, Goto, history
<1>2. \A g \in Handler : pc'[g] = "idle" /\ ~retried'[g]
  BY <1>1 DEF PatientInv, Alone, ContextInv, IInv, TypeOK
<1>3. RowsOnThreads'
  <2> SUFFICES ASSUME NEW i \in Rows', NEW t, t = row'[i].thread
               PROVE  OnThread(i, t)'
    BY DEF RowsOnThreads
  <2>1. i \in RespId /\ row'[i] # None /\ row'[i] = row[i]
    BY <1>1 DEF Rows, IInv, TypeOK
  <2>2. OnThread(i, t)
    BY <2>1 DEF ContextInv, RowsOnThreads, Rows
  <2>3. QED
    BY <1>1, <2>2, SameThread
<1>4. QED
  BY <1>2, <1>3 DEF ContextInv

LEMMA ContextLasts ==
    IInv /\ (patient => PatientInv) /\ (PlainTurns /\ patient => ContextInv) /\ [ClientsNext]_cvars
      => (PlainTurns /\ patient => ContextInv)'
<1> SUFFICES ASSUME IInv, PatientInv, ContextInv, PlainTurns, patient, patient', [ClientsNext]_cvars
             PROVE  ContextInv'
  BY DEF ClientsNext, cvars, PlainTurns
<1>1. ASSUME NEW h \in Handler, HandlerStep(h)
      PROVE  ContextInv'
  BY <1>1, LoadInContext, FindInContext, ContinueInContext, OpenInContext, AcceptInContext,
     AnswerInContext, AskAgainInContext, SaveInContext, SaveRowInContext, DoneInContext
     DEF HandlerStep
<1>2. CASE PatientNext
  BY <1>1, <1>2, AskInContext DEF PatientNext
<1>3. CASE UNCHANGED cvars
  BY <1>3, SMTT(60) DEF cvars, vars, history, handlerVars, ContextInv, RowsOnThreads, Rows, OnThread, InThread,
              SayingUnderWay, ThreadUnderWay, Taken, Input
<1>4. QED
  BY <1>2, <1>3 DEF ClientsNext

\* For conversations of any length, if a turn is one message and UvA refuses
\* nothing: whatever calls fail, before or after UvA took the post, and whatever
\* is asked again, the thread UvA was asked to open says all the client has said
\* (resp_build_and_translate, resp_continuation_check and the saves).
THEOREM RetriesInContext == PlainTurns /\ ClientsSpec => []RetriedInContext
<1> SUFFICES ASSUME PlainTurns
             PROVE  ClientsSpec => []RetriedInContext
  OBVIOUS
<1>1. (patient => ContextInv) => RetriedInContext
  <2> SUFFICES ASSUME ContextInv, NEW h \in Handler, pc[h] = "wait", upstream[used[h]][1].isNewChat
               PROVE  \A m \in said[id[h]] : InThread(m, used[h])
    BY DEF RetriedInContext
  <2>1. OnThread(id[h], used[h]) /\ upstream[used[h]] # <<>>
    BY DEF ContextInv, ThreadUnderWay, Taken
  <2>2. QED
    BY <2>1 DEF OnThread
<1>2. Init => ContextInv
  BY DEF Init, ContextInv, RowsOnThreads, Rows
<1>3. ClientsInit => Init
  BY DEF ClientsInit
<1>4. IInv /\ (patient => PatientInv) /\ (patient => ContextInv) /\ [ClientsNext]_cvars => (patient => ContextInv)'
  BY ContextLasts
<1>5. QED
  BY <1>1, <1>2, <1>3, <1>4, PatientRecords, PTL DEF ClientsSpec
==============================================================================
