-------------------------- MODULE ChatThreadsProofs --------------------------
(***************************************************************************)
(* Proofs about ChatThreads, for any number of handlers, keys, threads and *)
(* requests; and about ChatClients, for any number of clients and turns.   *)
(***************************************************************************)
EXTENDS ChatClients, InductionLemmas, TLAPS

LEMMA FirstUserContentType ==
    ASSUME NEW msgs \in Seq(Message)
    PROVE  FirstUserContent(msgs) \in Text
<1> DEFINE U == UserPositions(msgs)
<1>1. U \in SUBSET (1..Len(msgs)) /\ Len(msgs) \in Nat
  BY DEF UserPositions
<1>2. CASE U = {}
  BY <1>2, ConstantsAssumption DEF FirstUserContent
<1>3. CASE U # {}
  <2>1. \E i \in U : \A j \in U : i <= j
    BY <1>1, <1>3, LeastElement
  <2> DEFINE p == CHOOSE i \in U : \A j \in U : i <= j
  <2>2. p \in 1..Len(msgs)
    BY <2>1, <1>1
  <2>3. msgs[p].text \in Text
    <3>1. msgs[p] \in Message
      BY <2>2
    <3>2. QED
      BY <3>1 DEF Message
  <2>4. FirstUserContent(msgs) = msgs[p].text
    BY <1>3 DEF FirstUserContent
  <2>5. QED
    BY <2>3, <2>4
<1>4. QED
  BY <1>2, <1>3

LEMMA LastUserContentType ==
    ASSUME NEW msgs \in Seq(Message)
    PROVE  LastUserContent(msgs) \in Text
<1> DEFINE U == UserPositions(msgs)
<1>1. U \in SUBSET (1..Len(msgs)) /\ Len(msgs) \in Nat
  BY DEF UserPositions
<1>2. CASE U = {}
  BY <1>2, ConstantsAssumption DEF LastUserContent
<1>3. CASE U # {}
  <2>1. \E i \in U : \A j \in U : i >= j
    BY <1>1, <1>3, GreatestElement
  <2> DEFINE p == CHOOSE i \in U : \A j \in U : i >= j
  <2>2. p \in 1..Len(msgs)
    BY <2>1, <1>1
  <2>3. msgs[p].text \in Text
    <3>1. msgs[p] \in Message
      BY <2>2
    <3>2. QED
      BY <3>1 DEF Message
  <2>4. LastUserContent(msgs) = msgs[p].text
    BY <1>3 DEF LastUserContent
  <2>5. QED
    BY <2>3, <2>4
<1>4. QED
  BY <1>2, <1>3

LEMMA RequestTypes ==
    ASSUME NEW r \in Request
    PROVE  /\ EffectiveMsgs(r) \in Seq(Message)
           /\ Sender(r) \in Conversation
           /\ ConvKey(r) = Sender(r)
           /\ FullPost(r) \in Post /\ FullPost(r).from = Sender(r)
           /\ IncrPost(r) \in Post /\ IncrPost(r).from = Sender(r)
           /\ FullPost(r).isNewChat = TRUE /\ IncrPost(r).isNewChat = FALSE
<1>1. /\ r.key \in ApiKey /\ r.model \in Model \cup {None} /\ r.msgs \in Seq(Message)
      /\ KeyModel \in [ApiKey -> Model] /\ KeyPrompt \in [ApiKey -> Text]
  BY ConstantsAssumption
<1>2. <<[role |-> "system", text |-> KeyPrompt[r.key]]>> \in Seq(Message)
  BY <1>1 DEF Message, Role
<1>3. EffectiveMsgs(r) \in Seq(Message)
  BY <1>1, <1>2 DEF EffectiveMsgs
<1>4. ModelOf(r) \in Model
  BY <1>1 DEF ModelOf
<1>5. Sender(r) \in Conversation /\ ConvKey(r) = Sender(r)
  BY <1>1, <1>4, FirstUserContentType DEF Sender, Conversation, ConvKey
<1>6. <<[role |-> "user", text |-> LastUserContent(r.msgs)]>> \in Seq(Message)
  <2>1. LastUserContent(r.msgs) \in Text
    BY <1>1, LastUserContentType
  <2>2. QED
    BY <2>1 DEF Message, Role
<1>7. QED
  BY <1>3, <1>5, <1>6 DEF FullPost, IncrPost, Post

(***************************************************************************)
(* The inductive invariant.  ThreadIsolation and OpenedOnce speak of what  *)
(* UvA has accepted; they are kept because every claim on a thread, by a   *)
(* row of the table or by a handler, belongs to the conversation the       *)
(* thread was drawn for, and because only one handler ever holds a thread  *)
(* it may still open.                                                      *)
(***************************************************************************)
HandlerLocals ==
    \A h \in Handler :
        /\ pc[h] # "idle" => req[h] \in Request
        /\ pc[h] \in {"save", "post", "wait", "settle"} => thread[h] \in ThreadId
        /\ pc[h] \in {"idle", "find", "row"} => thread[h] = None /\ ~incr[h]

PostsOwned == \A t \in ThreadId : \A i \in DOMAIN upstream[t] : upstream[t][i].from = issued[t]

RowsOwned == \A k \in Conversation : table[k] # None => issued[table[k].thread] = k

HandlersOwn ==
    \A h \in Handler : thread[h] # None =>
        req[h] \in Request /\ issued[thread[h]] = Sender(req[h])

\* h may still open its thread
Opening(h) == pc[h] = "save" \/ (pc[h] = "post" /\ ~incr[h])

OneOpener ==
    \A h \in Handler : Opening(h) =>
        /\ \A i \in DOMAIN upstream[thread[h]] : ~upstream[thread[h]][i].isNewChat
        /\ \A g \in Handler : Opening(g) /\ thread[g] = thread[h] => g = h

UnsavedIsPrivate ==
    \A h \in Handler : pc[h] = "save" =>
        /\ ~incr[h]
        /\ upstream[thread[h]] = <<>>
        /\ \A g \in Handler : thread[g] = thread[h] => g = h
        /\ \A k \in Conversation : table[k] # None => table[k].thread # thread[h]

IInv ==
    /\ TypeOK
    /\ HandlerLocals
    /\ PostsOwned
    /\ RowsOwned
    /\ HandlersOwn
    /\ OneOpener
    /\ UnsavedIsPrivate
    /\ OpenedOnce

LEMMA InitIInv == Init => IInv
<1> SUFFICES ASSUME Init PROVE IInv
  OBVIOUS
<1> USE DEF Init
<1>1. TypeOK
  BY ConstantsAssumption DEF TypeOK, Row, Pc, HttpClass
<1>2. HandlerLocals /\ OneOpener /\ UnsavedIsPrivate /\ HandlersOwn
  BY DEF HandlerLocals, OneOpener, UnsavedIsPrivate, HandlersOwn, Opening
<1>3. PostsOwned /\ RowsOwned /\ OpenedOnce
  BY DEF PostsOwned, RowsOwned, OpenedOnce
<1>4. QED
  BY <1>1, <1>2, <1>3 DEF IInv

\* What a freshly drawn id is worth: nobody has a claim on it.
LEMMA DrawnIsUnclaimed ==
    ASSUME IInv, NEW t \in ThreadId, issued[t] = None
    PROVE  /\ upstream[t] = <<>>
           /\ \A g \in Handler : thread[g] # t
           /\ \A k \in Conversation : table[k] # None => table[k].thread # t
<1> USE DEF IInv
<1>1. upstream[t] = <<>>
  <2>1. upstream[t] \in Seq(Post)
    BY DEF TypeOK
  <2>2. \A i \in DOMAIN upstream[t] : upstream[t][i].from = None /\ upstream[t][i] \in Post
    BY <2>1 DEF PostsOwned
  <2>3. \A p \in Post : p.from # None
    BY ConstantsAssumption DEF Post, Conversation
  <2>4. QED
    BY <2>1, <2>2, <2>3
<1>2. ASSUME NEW g \in Handler, thread[g] = t PROVE FALSE
  <2>1. req[g] \in Request /\ Sender(req[g]) = None
    BY <1>2, ConstantsAssumption DEF HandlersOwn
  <2>2. QED
    BY <2>1, RequestTypes, ConstantsAssumption DEF Conversation
<1>3. ASSUME NEW k \in Conversation, table[k] # None, table[k].thread = t PROVE FALSE
  BY <1>3, ConstantsAssumption DEF RowsOwned, Conversation
<1>4. QED
  BY <1>1, <1>2, <1>3

LEMMA ArriveStep ==
    ASSUME IInv, NEW h \in Handler, NEW r \in Request, Arrive(h, r)
    PROVE  IInv'
<1> USE DEF IInv, Arrive, Goto
<1>1. TypeOK'
  BY DEF TypeOK, Row, Pc, HttpClass
<1>2. HandlerLocals'
  BY DEF TypeOK, HandlerLocals
<1>3. PostsOwned'
  BY DEF TypeOK, PostsOwned
<1>4. RowsOwned'
  BY DEF TypeOK, RowsOwned
<1>5. HandlersOwn'
  BY DEF TypeOK, HandlersOwn, HandlerLocals
<1>6. OneOpener'
  BY DEF TypeOK, OneOpener, Opening
<1>7. UnsavedIsPrivate'
  BY DEF TypeOK, UnsavedIsPrivate
<1>8. OpenedOnce'
  BY DEF TypeOK, OpenedOnce
<1>9. QED
  BY <1>1, <1>2, <1>3, <1>4, <1>5, <1>6, <1>7, <1>8 DEF IInv

LEMMA StartUnkeyedStep ==
    ASSUME IInv, NEW h \in Handler, StartUnkeyed(h)
    PROVE  IInv'
<1> USE DEF IInv, StartUnkeyed, Goto
<1>a. PICK t \in ThreadId : Draw(h, t)
  OBVIOUS
<1>b. req[h] \in Request /\ Sender(req[h]) \in Conversation /\ ConvKey(req[h]) = Sender(req[h])
  BY RequestTypes DEF HandlerLocals
<1>c. /\ issued[t] = None
      /\ issued' = [issued EXCEPT ![t] = Sender(req[h])]
      /\ thread' = [thread EXCEPT ![h] = t]
  BY <1>a DEF Draw
<1>d. /\ upstream[t] = <<>>
      /\ \A g \in Handler : thread[g] # t
      /\ \A k \in Conversation : table[k] # None => table[k].thread # t
  BY <1>c, DrawnIsUnclaimed
<1>1. TypeOK'
  BY <1>b, <1>c DEF TypeOK, Row, Pc, HttpClass
<1>2. HandlerLocals'
  BY <1>c, ConstantsAssumption DEF TypeOK, HandlerLocals
<1>3. PostsOwned'
  BY <1>c, <1>d DEF TypeOK, PostsOwned
<1>4. RowsOwned'
  BY <1>c, <1>d DEF TypeOK, Row, RowsOwned
<1>5. HandlersOwn'
  BY <1>b, <1>c, <1>d DEF TypeOK, HandlersOwn
<1>6. OneOpener'
  BY <1>c, <1>d DEF TypeOK, OneOpener, Opening
<1>7. UnsavedIsPrivate'
  BY <1>c, <1>d DEF TypeOK, HandlerLocals, UnsavedIsPrivate
<1>8. OpenedOnce'
  BY DEF TypeOK, OpenedOnce
<1>9. QED
  BY <1>1, <1>2, <1>3, <1>4, <1>5, <1>6, <1>7, <1>8 DEF IInv

LEMMA StartFindStep ==
    ASSUME IInv, NEW h \in Handler, StartFind(h)
    PROVE  IInv'
<1> USE DEF IInv, StartFind, Goto
<1>0. \A k \in Conversation :
        table'[k] # None =>
            /\ table[k] # None
            /\ table'[k].thread = table[k].thread
            /\ table'[k] \in Row
  BY DEF TypeOK, Purged
<1>1. TypeOK'
  <2>1. table' \in [Conversation -> Row \cup {None}]
    BY <1>0 DEF TypeOK, Purged
  <2>2. QED
    BY <2>1 DEF TypeOK, Row, Pc, HttpClass
<1>2. HandlerLocals'
  BY DEF TypeOK, HandlerLocals
<1>3. PostsOwned'
  BY DEF TypeOK, PostsOwned
<1>4. RowsOwned'
  BY <1>0 DEF RowsOwned
<1>5. HandlersOwn'
  BY DEF TypeOK, HandlersOwn
<1>6. OneOpener'
  BY DEF TypeOK, OneOpener, Opening
<1>7. UnsavedIsPrivate'
  BY <1>0, ZenonT(60) DEF TypeOK, UnsavedIsPrivate
<1>8. OpenedOnce'
  BY DEF TypeOK, OpenedOnce
<1>9. QED
  BY <1>1, <1>2, <1>3, <1>4, <1>5, <1>6, <1>7, <1>8 DEF IInv

LEMMA FindRowStep ==
    ASSUME IInv, NEW h \in Handler, FindRow(h)
    PROVE  IInv'
<1> USE DEF IInv, FindRow, Goto, MayContinue
<1> DEFINE k == ConvKey(req[h])
<1>a. req[h] \in Request /\ k \in Conversation /\ k = Sender(req[h])
  BY RequestTypes DEF HandlerLocals
<1>b. table[k] \in Row /\ table[k] # None /\ thread' = [thread EXCEPT ![h] = table[k].thread]
  BY <1>a DEF TypeOK
<1>c. table[k].thread \in ThreadId /\ issued[table[k].thread] = Sender(req[h])
  BY <1>a, <1>b DEF Row, RowsOwned
<1> HIDE DEF k
<1>1. TypeOK'
  BY <1>b, <1>c DEF TypeOK, Row, Pc, HttpClass
<1>2. HandlerLocals'
  BY <1>b, <1>c, ConstantsAssumption DEF TypeOK, HandlerLocals
<1>3. PostsOwned'
  BY DEF TypeOK, PostsOwned
<1>4. RowsOwned'
  BY DEF TypeOK, RowsOwned
<1>5. HandlersOwn'
  BY <1>a, <1>b, <1>c DEF TypeOK, HandlersOwn
<1>6. OneOpener'
  BY DEF TypeOK, OneOpener, Opening
<1>7. UnsavedIsPrivate'
  BY <1>a, <1>b DEF TypeOK, UnsavedIsPrivate
<1>8. OpenedOnce'
  BY DEF TypeOK, OpenedOnce
<1>9. QED
  BY <1>1, <1>2, <1>3, <1>4, <1>5, <1>6, <1>7, <1>8 DEF IInv

LEMMA MissRowStep ==
    ASSUME IInv, NEW h \in Handler, MissRow(h)
    PROVE  IInv'
<1> USE DEF IInv, MissRow, Goto, WithoutRow
<1>a. PICK t \in ThreadId : Draw(h, t)
  OBVIOUS
<1>b. req[h] \in Request /\ Sender(req[h]) \in Conversation /\ ConvKey(req[h]) = Sender(req[h])
  BY RequestTypes DEF HandlerLocals
<1>c. /\ issued[t] = None
      /\ issued' = [issued EXCEPT ![t] = Sender(req[h])]
      /\ thread' = [thread EXCEPT ![h] = t]
  BY <1>a DEF Draw
<1>d. /\ upstream[t] = <<>>
      /\ \A g \in Handler : thread[g] # t
      /\ \A k \in Conversation : table[k] # None => table[k].thread # t
  BY <1>c, DrawnIsUnclaimed
<1>0. \A k \in Conversation :
        table'[k] # None =>
            /\ table[k] # None
            /\ table'[k].thread = table[k].thread
            /\ table'[k] \in Row
  BY <1>b DEF TypeOK, Expired
<1>1. TypeOK'
  <2>1. table' \in [Conversation -> Row \cup {None}]
    BY <1>0, <1>b DEF TypeOK
  <2>2. QED
    BY <2>1, <1>b, <1>c DEF TypeOK, Row, Pc, HttpClass
<1>2. HandlerLocals'
  BY <1>c, ConstantsAssumption DEF TypeOK, HandlerLocals
<1>3. PostsOwned'
  BY <1>c, <1>d DEF TypeOK, PostsOwned
<1>4. RowsOwned'
  BY <1>0, <1>c, <1>d DEF TypeOK, Row, RowsOwned
<1>5. HandlersOwn'
  BY <1>b, <1>c, <1>d DEF TypeOK, HandlersOwn
<1>6. OneOpener'
  BY <1>c, <1>d DEF TypeOK, OneOpener, Opening
<1>7. UnsavedIsPrivate'
  BY <1>0, <1>c, <1>d DEF TypeOK, HandlerLocals, UnsavedIsPrivate
<1>8. OpenedOnce'
  BY DEF TypeOK, OpenedOnce
<1>9. QED
  BY <1>1, <1>2, <1>3, <1>4, <1>5, <1>6, <1>7, <1>8 DEF IInv

LEMMA SaveRowStep ==
    ASSUME IInv, NEW h \in Handler, SaveRow(h)
    PROVE  IInv'
<1> USE DEF IInv, SaveRow, Goto
<1> DEFINE k == ConvKey(req[h])
           row == [thread |-> thread[h], count |-> Len(EffectiveMsgs(req[h])), used |-> now]
<1>a. req[h] \in Request /\ k \in Conversation /\ k = Sender(req[h])
      /\ EffectiveMsgs(req[h]) \in Seq(Message) /\ thread[h] \in ThreadId
  BY RequestTypes DEF HandlerLocals
<1>b. row \in Row
  BY <1>a DEF TypeOK, Row
<1>c. table' = [table EXCEPT ![k] = row] /\ row.thread = thread[h]
  OBVIOUS
<1> HIDE DEF k, row
<1>1. TypeOK'
  <2>1. table' \in [Conversation -> Row \cup {None}]
    BY <1>a, <1>b, <1>c DEF TypeOK
  <2>2. QED
    BY <2>1 DEF TypeOK, Row, Pc, HttpClass
<1>2. HandlerLocals'
  BY DEF TypeOK, HandlerLocals
<1>3. PostsOwned'
  BY DEF TypeOK, PostsOwned
<1>4. RowsOwned'
  <2>1. issued[thread[h]] = k
    BY <1>a, ConstantsAssumption DEF HandlersOwn
  <2>2. QED
    BY <1>a, <1>b, <1>c, <2>1 DEF TypeOK, RowsOwned
<1>5. HandlersOwn'
  BY DEF TypeOK, HandlersOwn
<1>6. OneOpener'
  BY DEF TypeOK, OneOpener, Opening
<1>7. UnsavedIsPrivate'
  BY <1>a, <1>b, <1>c DEF TypeOK, UnsavedIsPrivate
<1>8. OpenedOnce'
  BY DEF TypeOK, OpenedOnce
<1>9. QED
  BY <1>1, <1>2, <1>3, <1>4, <1>5, <1>6, <1>7, <1>8 DEF IInv

LEMMA AcceptStep ==
    ASSUME IInv, NEW h \in Handler, Accept(h)
    PROVE  IInv'
<1> USE DEF IInv, Accept, Goto
<1> DEFINE t == thread[h]
           p == IF incr[h] THEN IncrPost(req[h]) ELSE FullPost(req[h])
<1>a. req[h] \in Request /\ t \in ThreadId
  BY DEF HandlerLocals
<1>b. p \in Post /\ p.from = Sender(req[h]) /\ p.isNewChat = ~incr[h]
  BY <1>a, RequestTypes DEF TypeOK
<1>c. issued[t] = Sender(req[h])
  BY <1>a, ConstantsAssumption DEF HandlersOwn
<1>d. /\ upstream[t] \in Seq(Post)
      /\ upstream' = [upstream EXCEPT ![t] = Append(upstream[t], p)]
  BY <1>a DEF TypeOK
<1>e. /\ DOMAIN upstream'[t] = DOMAIN upstream[t] \cup {Len(upstream[t]) + 1}
      /\ upstream'[t][Len(upstream[t]) + 1] = p
      /\ \A i \in DOMAIN upstream[t] : upstream'[t][i] = upstream[t][i]
  BY <1>a, <1>b, <1>d DEF TypeOK
<1>f. \A u \in ThreadId : u # t => upstream'[u] = upstream[u]
  BY <1>d DEF TypeOK
<1> HIDE DEF t, p
<1>1. TypeOK'
  BY <1>a, <1>b, <1>d DEF TypeOK, Row, Pc, HttpClass
<1>2. HandlerLocals'
  BY DEF TypeOK, HandlerLocals
<1>3. PostsOwned'
  <2> SUFFICES ASSUME NEW u \in ThreadId, NEW i \in DOMAIN upstream'[u]
               PROVE  upstream'[u][i].from = issued'[u]
    BY DEF PostsOwned
  <2>1. CASE u = t /\ i = Len(upstream[t]) + 1
    BY <2>1, <1>b, <1>c, <1>e
  <2>2. CASE u = t /\ i \in DOMAIN upstream[t]
    BY <2>2, <1>a, <1>e DEF PostsOwned
  <2>3. CASE u # t
    BY <2>3, <1>f DEF PostsOwned
  <2>4. QED
    BY <2>1, <2>2, <2>3, <1>e
<1>4. RowsOwned'
  BY DEF TypeOK, RowsOwned
<1>5. HandlersOwn'
  BY DEF TypeOK, HandlersOwn
<1>6. OneOpener'
  <2> SUFFICES ASSUME NEW g \in Handler, Opening(g)'
               PROVE  /\ \A i \in DOMAIN upstream'[thread[g]] : ~upstream'[thread[g]][i].isNewChat
                      /\ \A f \in Handler : Opening(f)' /\ thread[f] = thread[g] => f = g
    BY DEF OneOpener
  <2>1. g # h /\ Opening(g) /\ thread[g] \in ThreadId
    BY DEF TypeOK, Opening, HandlerLocals
  <2>2. \A f \in Handler : Opening(f)' => Opening(f)
    BY DEF TypeOK, Opening
  <2>3. \A f \in Handler : Opening(f)' /\ thread[f] = thread[g] => f = g
    BY <2>1, <2>2 DEF OneOpener
  <2>4. \A i \in DOMAIN upstream[thread[g]] : ~upstream[thread[g]][i].isNewChat
    BY <2>1 DEF OneOpener
  <2>5. CASE thread[g] # t
    BY <1>f, <2>1, <2>3, <2>4, <2>5
  <2>6. CASE thread[g] = t
    <3>1. incr[h] = TRUE
      BY <2>1, <2>6 DEF t, OneOpener, Opening, TypeOK
    <3>2. ~p.isNewChat
      BY <1>b, <3>1
    <3>3. QED
      BY <1>e, <2>3, <2>4, <2>6, <3>2
  <2>7. QED
    BY <2>5, <2>6
<1>7. UnsavedIsPrivate'
  BY DEF TypeOK, UnsavedIsPrivate
<1>8. OpenedOnce'
  <2> SUFFICES ASSUME NEW u \in ThreadId, NEW i \in DOMAIN upstream'[u], NEW j \in DOMAIN upstream'[u],
                      upstream'[u][i].isNewChat, upstream'[u][j].isNewChat
               PROVE  i = j
    BY DEF OpenedOnce
  <2>1. CASE u # t
    BY <2>1, <1>f DEF OpenedOnce
  <2>2. CASE u = t
    <3>1. ~incr[h] => \A m \in DOMAIN upstream[t] : ~upstream[t][m].isNewChat
      BY DEF t, OneOpener, Opening
    <3>2. CASE i \in DOMAIN upstream[t] /\ j \in DOMAIN upstream[t]
      BY <2>2, <3>2, <1>a, <1>e DEF OpenedOnce
    <3>3. CASE incr[h]
      <4>1. ~p.isNewChat
        BY <1>b, <3>3
      <4>2. QED
        BY <2>2, <3>2, <4>1, <1>e
    <3>4. CASE ~incr[h]
      BY <2>2, <3>1, <3>4, <1>e
    <3>5. QED
      BY <3>3, <3>4
  <2>3. QED
    BY <2>1, <2>2
<1>9. QED
  BY <1>1, <1>2, <1>3, <1>4, <1>5, <1>6, <1>7, <1>8 DEF IInv

LEMMA ReturnStep ==
    ASSUME IInv, NEW h \in Handler, NEW class \in HttpClass, Return(h, class)
    PROVE  IInv'
<1> USE DEF IInv, Return, Goto
<1>1. TypeOK'
  BY DEF TypeOK, Row, Pc, HttpClass
<1>2. HandlerLocals'
  BY DEF TypeOK, HandlerLocals
<1>3. PostsOwned'
  BY DEF TypeOK, PostsOwned
<1>4. RowsOwned'
  BY DEF TypeOK, RowsOwned
<1>5. HandlersOwn'
  BY DEF TypeOK, HandlersOwn
<1>6. OneOpener'
  BY DEF TypeOK, OneOpener, Opening
<1>7. UnsavedIsPrivate'
  BY DEF TypeOK, UnsavedIsPrivate
<1>8. OpenedOnce'
  BY DEF TypeOK, OpenedOnce
<1>9. QED
  BY <1>1, <1>2, <1>3, <1>4, <1>5, <1>6, <1>7, <1>8 DEF IInv

LEMMA FinishStep ==
    ASSUME IInv, NEW h \in Handler, Finish(h)
    PROVE  IInv'
<1> USE DEF IInv, Finish, Goto
<1>a. req[h] \in Request /\ ConvKey(req[h]) \in Conversation
  BY RequestTypes DEF HandlerLocals
<1>0. \A k \in Conversation :
        table'[k] # None =>
            /\ table[k] # None
            /\ table'[k].thread = table[k].thread
            /\ table'[k] \in Row
  <2> DEFINE k == ConvKey(req[h])
  <2>1. table \in [Conversation -> Row \cup {None}] /\ now \in Nat
    BY DEF TypeOK
  <2>2. WithoutRow(k) \in [Conversation -> Row \cup {None}]
        /\ \A j \in Conversation : WithoutRow(k)[j] \in {table[j], None}
    BY <2>1 DEF WithoutRow
  <2>3. CASE table[k] = None
    BY <2>1, <2>2, <2>3 DEF Settled, Incremented
  <2>4. CASE table[k] # None
    <3>1. table[k] \in Row
      BY <1>a, <2>1, <2>4
    <3>2. Incremented(k) =
            [table EXCEPT ![k] = [thread |-> table[k].thread, count |-> table[k].count + 1, used |-> now]]
      BY <1>a, <2>1, <2>4 DEF Incremented
    <3>3. /\ [thread |-> table[k].thread, count |-> table[k].count + 1, used |-> now] \in Row
          /\ table[k].thread \in ThreadId
      BY <2>1, <3>1 DEF Row
    <3>4. QED
      BY <1>a, <2>1, <2>2, <2>4, <3>2, <3>3 DEF Settled
  <2>5. QED
    BY <2>3, <2>4
<1>1. TypeOK'
  <2>1. table' \in [Conversation -> Row \cup {None}]
    BY <1>0, <1>a DEF TypeOK, Settled, WithoutRow, Incremented
  <2>2. QED
    BY <2>1 DEF TypeOK, Row, Pc, HttpClass
<1>2. HandlerLocals'
  BY DEF TypeOK, HandlerLocals
<1>3. PostsOwned'
  BY DEF TypeOK, PostsOwned
<1>4. RowsOwned'
  BY <1>0 DEF RowsOwned
<1>5. HandlersOwn'
  BY DEF TypeOK, HandlersOwn
<1>6. OneOpener'
  BY DEF TypeOK, OneOpener, Opening
<1>7. UnsavedIsPrivate'
  <2> SUFFICES ASSUME NEW g \in Handler, pc'[g] = "save"
               PROVE  /\ ~incr'[g]
                      /\ upstream'[thread'[g]] = <<>>
                      /\ \A f \in Handler : thread'[f] = thread'[g] => f = g
                      /\ \A k \in Conversation : table'[k] # None => table'[k].thread # thread'[g]
    BY DEF UnsavedIsPrivate
  <2>1. g # h /\ pc[g] = "save" /\ thread'[g] = thread[g] /\ incr'[g] = incr[g] /\ thread[g] \in ThreadId
    BY DEF TypeOK, HandlerLocals
  <2>2. \A f \in Handler : thread'[f] = thread[f] \/ thread'[f] = None
    BY DEF TypeOK
  <2>3. ~incr[g] /\ upstream[thread[g]] = <<>>
        /\ (\A f \in Handler : thread[f] = thread[g] => f = g)
        /\ (\A k \in Conversation : table[k] # None => table[k].thread # thread[g])
    BY <2>1 DEF UnsavedIsPrivate
  <2>4. \A f \in Handler : thread'[f] = thread'[g] => f = g
    BY <2>1, <2>2, <2>3, ConstantsAssumption
  <2>5. \A k \in Conversation : table'[k] # None => table'[k].thread # thread'[g]
    BY <1>0, <2>1, <2>3
  <2>6. QED
    BY <2>1, <2>3, <2>4, <2>5
<1>8. OpenedOnce'
  BY DEF TypeOK, OpenedOnce
<1>9. QED
  BY <1>1, <1>2, <1>3, <1>4, <1>5, <1>6, <1>7, <1>8 DEF IInv

LEMMA TickStep ==
    ASSUME IInv, Tick
    PROVE  IInv'
<1> USE DEF IInv, Tick, handlerVars
<1>1. TypeOK'
  BY DEF TypeOK, Row, Pc, HttpClass
<1>2. HandlerLocals'
  BY DEF TypeOK, HandlerLocals
<1>3. PostsOwned'
  BY DEF TypeOK, PostsOwned
<1>4. RowsOwned'
  BY DEF TypeOK, RowsOwned
<1>5. HandlersOwn'
  BY DEF TypeOK, HandlersOwn
<1>6. OneOpener'
  BY DEF TypeOK, OneOpener, Opening
<1>7. UnsavedIsPrivate'
  BY DEF TypeOK, UnsavedIsPrivate
<1>8. OpenedOnce'
  BY DEF TypeOK, OpenedOnce
<1>9. QED
  BY <1>1, <1>2, <1>3, <1>4, <1>5, <1>6, <1>7, <1>8 DEF IInv

LEMMA LoseThreadStep ==
    ASSUME IInv, NEW t \in ThreadId, LoseThread(t)
    PROVE  IInv'
<1> USE DEF IInv, LoseThread, handlerVars
<1>1. TypeOK'
  BY DEF TypeOK, Row, Pc, HttpClass
<1>2. HandlerLocals'
  BY DEF TypeOK, HandlerLocals
<1>3. PostsOwned'
  BY DEF TypeOK, PostsOwned
<1>4. RowsOwned'
  BY DEF TypeOK, RowsOwned
<1>5. HandlersOwn'
  BY DEF TypeOK, HandlersOwn
<1>6. OneOpener'
  BY DEF TypeOK, OneOpener, Opening
<1>7. UnsavedIsPrivate'
  BY DEF TypeOK, UnsavedIsPrivate
<1>8. OpenedOnce'
  BY DEF TypeOK, OpenedOnce
<1>9. QED
  BY <1>1, <1>2, <1>3, <1>4, <1>5, <1>6, <1>7, <1>8 DEF IInv

LEMMA CrashStep ==
    ASSUME IInv, Crash
    PROVE  IInv'
<1> USE DEF IInv, Crash
<1>1. TypeOK'
  BY DEF TypeOK, Row, Pc, HttpClass
<1>2. HandlerLocals'
  BY DEF TypeOK, HandlerLocals
<1>3. PostsOwned'
  BY DEF TypeOK, PostsOwned
<1>4. RowsOwned'
  BY DEF TypeOK, RowsOwned
<1>5. HandlersOwn'
  BY DEF TypeOK, HandlersOwn
<1>6. OneOpener'
  BY DEF TypeOK, OneOpener, Opening
<1>7. UnsavedIsPrivate'
  BY DEF TypeOK, UnsavedIsPrivate
<1>8. OpenedOnce'
  BY DEF TypeOK, OpenedOnce
<1>9. QED
  BY <1>1, <1>2, <1>3, <1>4, <1>5, <1>6, <1>7, <1>8 DEF IInv

LEMMA NextIInv == IInv /\ [Next]_vars => IInv'
<1> SUFFICES ASSUME IInv, [Next]_vars PROVE IInv'
  OBVIOUS
<1>1. ASSUME NEW h \in Handler, NEW r \in Request, Arrive(h, r) PROVE IInv'
  BY <1>1, ArriveStep
<1>2. ASSUME NEW h \in Handler, HandlerStep(h) PROVE IInv'
  BY <1>2, StartUnkeyedStep, StartFindStep, FindRowStep, MissRowStep, SaveRowStep,
     AcceptStep, ReturnStep, FinishStep DEF HandlerStep
<1>3. CASE Environment
  BY <1>3, TickStep, LoseThreadStep, CrashStep DEF Environment
<1>4. CASE UNCHANGED vars
  BY <1>4 DEF vars, handlerVars, IInv, TypeOK, HandlerLocals, PostsOwned, RowsOwned,
     HandlersOwn, OneOpener, Opening, UnsavedIsPrivate, OpenedOnce
<1>5. QED
  BY <1>1, <1>2, <1>3, <1>4 DEF Next

LEMMA Invariance == Spec => []IInv
<1>1. QED
  BY InitIInv, NextIInv, PTL DEF Spec

\* Every variable keeps its type, whatever the clients send and however the
\* handlers interleave (ChatThreads, all actions).
THEOREM TypeCorrect == Spec => []TypeOK
<1>1. IInv => TypeOK
  BY DEF IInv
<1>2. QED
  BY Invariance, <1>1, PTL

\* No UvA thread ever carries two conversations: full and incremental posts of
\* handlers racing over rows that are replaced, deleted, purged and survive
\* crashes (chat.c, thread_state.c) stay with the key, model and first user
\* message the thread was drawn for.
THEOREM ConversationsStayApart == Spec => []ThreadIsolation
<1>1. IInv => ThreadIsolation
  BY DEF IInv, PostsOwned, ThreadIsolation
<1>2. QED
  BY Invariance, <1>1, PTL

\* UvA is asked to open each thread at most once, although its row is written
\* before the request that opens it (resolve_thread in chat.c).
THEOREM ThreadsOpenOnce == Spec => []OpenedOnce
<1>1. IInv => OpenedOnce
  BY DEF IInv
<1>2. QED
  BY Invariance, <1>1, PTL

\* A row is only ever pointed at a thread that has had no post: once a row lets
\* go of a thread, by any interleaving, the thread is never continued again
\* (thread_state_save, thread_state_incr and thread_state_delete).
THEOREM ThreadsAreNotResumed == Spec => DroppedThreadStaysDropped
<1> DEFINE Pointed(k) ==
        (table'[k] # None /\ (table[k] = None \/ table[k].thread # table'[k].thread))
            => upstream[table'[k].thread] = <<>>
<1>1. ASSUME IInv, Next, NEW k \in Conversation PROVE Pointed(k)
  <2> USE <1>1 DEF IInv
  <2>1. ASSUME NEW h \in Handler, SaveRow(h) PROVE Pointed(k)
    <3>1. upstream[thread[h]] = <<>>
      BY <2>1 DEF SaveRow, UnsavedIsPrivate
    <3>2. table \in [Conversation -> Row \cup {None}]
      BY DEF TypeOK
    <3>3. CASE k = ConvKey(req[h])
      BY <2>1, <3>1, <3>2, <3>3 DEF SaveRow
    <3>4. CASE k # ConvKey(req[h])
      BY <2>1, <3>2, <3>4 DEF SaveRow
    <3>5. QED
      BY <3>3, <3>4
  <2>2. ASSUME table'[k] = table[k] \/ table'[k] = None
               \/ (table[k] # None /\ table'[k].thread = table[k].thread)
        PROVE  Pointed(k)
    BY <2>2
  <2>3. ASSUME NEW h \in Handler, StartFind(h) PROVE Pointed(k)
    BY <2>2, <2>3 DEF StartFind, Purged
  <2>4. ASSUME NEW h \in Handler, MissRow(h) PROVE Pointed(k)
    BY <2>2, <2>4 DEF MissRow, WithoutRow, TypeOK
  <2>5. ASSUME NEW h \in Handler, Finish(h) PROVE Pointed(k)
    <3>1. table \in [Conversation -> Row \cup {None}]
      BY DEF TypeOK
    <3>2. WithoutRow(ConvKey(req[h]))[k] \in {table[k], None}
      BY <3>1 DEF WithoutRow
    <3>3. Incremented(ConvKey(req[h]))[k] = table[k]
          \/ (table[k] # None /\ Incremented(ConvKey(req[h]))[k].thread = table[k].thread)
      BY <3>1 DEF Incremented
    <3>4. QED
      BY <2>2, <2>5, <3>2, <3>3 DEF Finish, Settled
  <2>6. ASSUME table' = table PROVE Pointed(k)
    BY <2>2, <2>6
  <2>7. ASSUME NEW h \in Handler, HandlerStep(h) PROVE Pointed(k)
    BY <2>1, <2>3, <2>4, <2>5, <2>6, <2>7
    DEF HandlerStep, StartUnkeyed, FindRow, Accept, Return
  <2>8. QED
    BY <2>6, <2>7 DEF Next, Arrive, Environment, Tick, LoseThread, Crash
<1>2. IInv /\ [Next]_vars =>
        [\A k \in Conversation :
           LET old == table[k]
               new == table'[k]
           IN  (new # None /\ (old = None \/ old.thread # new.thread))
                 => upstream[new.thread] = <<>>]_vars
  BY <1>1
<1>3. QED
  BY Invariance, <1>2, PTL DEF Spec, DroppedThreadStaysDropped

(***************************************************************************)
(* Live rows.  A lookup may act on a clock read earlier, which only makes  *)
(* it see fewer rows as expired than there are.                            *)
(***************************************************************************)
\* The time a lookup has read is past
SeenIsPast == \A h \in Handler : seen[h] <= now

LEMMA SeenStaysPast == IInv /\ SeenIsPast /\ [Next]_vars => SeenIsPast'
<1> SUFFICES ASSUME IInv, SeenIsPast, [Next]_vars
             PROVE  SeenIsPast'
  OBVIOUS
<1>1. seen \in [Handler -> Nat] /\ now \in Nat
  BY DEF IInv, TypeOK
<1>2. CASE UNCHANGED <<seen, now>>
  BY <1>2 DEF SeenIsPast
<1>3. ASSUME NEW h \in Handler, StartFind(h)
      PROVE  SeenIsPast'
  BY <1>1, <1>3 DEF StartFind, SeenIsPast
<1>4. ASSUME NEW h \in Handler, Finish(h)
      PROVE  SeenIsPast'
  BY <1>1, <1>4 DEF Finish, SeenIsPast
<1>5. CASE Tick
  BY <1>1, <1>5 DEF Tick, handlerVars, SeenIsPast
<1>6. CASE Crash
  BY <1>1, <1>6 DEF Crash, SeenIsPast
<1>7. QED
  BY <1>2, <1>3, <1>4, <1>5, <1>6
  DEF Next, HandlerStep, Environment, Arrive, StartUnkeyed, FindRow, MissRow, SaveRow, Accept, Return,
      LoseThread, vars, handlerVars

LEMMA SeenPast == Spec => []SeenIsPast
<1>1. Init => SeenIsPast
  BY ConstantsAssumption DEF Init, SeenIsPast
<1>2. QED
  BY <1>1, SeenStaysPast, Invariance, PTL DEF Spec

\* What takes a row out of the table that has not expired
LEMMA RowGone ==
    ASSUME IInv, SeenIsPast, Next, NEW k \in Conversation,
           table[k] # None, table'[k] = None, ~Expired(table[k], now)
    PROVE  \E h \in Handler : /\ pc[h] = "settle" /\ incr[h]
                              /\ ConvKey(req[h]) = k
                              /\ http[h] # "ok"
<1>1. /\ table \in [Conversation -> Row \cup {None}] /\ table[k] \in Row
      /\ now \in Nat /\ seen \in [Handler -> Nat] /\ TTL \in Nat
      /\ \A row \in Row : row # None
  BY ConstantsAssumption DEF IInv, TypeOK, Row
<1>2. ASSUME NEW h \in Handler, StartFind(h)
      PROVE  FALSE
  BY <1>1, <1>2 DEF StartFind, Purged
<1>3. ASSUME NEW h \in Handler, MissRow(h)
      PROVE  FALSE
  <2>1. k = ConvKey(req[h]) /\ Expired(table[k], seen[h])
    BY <1>1, <1>3 DEF MissRow, WithoutRow
  <2>2. seen[h] <= now /\ table[k].used \in Nat
    BY <1>1 DEF SeenIsPast, Row
  <2>3. QED
    BY <1>1, <2>1, <2>2 DEF Expired
<1>4. ASSUME NEW h \in Handler, SaveRow(h)
      PROVE  FALSE
  <2>1. PICK row \in Row : table' = [table EXCEPT ![ConvKey(req[h])] = row]
    <3>1. /\ thread[h] \in ThreadId
          /\ EffectiveMsgs(req[h]) \in Seq(Message)
      BY <1>4, RequestTypes DEF SaveRow, IInv, HandlerLocals
    <3>2. [thread |-> thread[h], count |-> Len(EffectiveMsgs(req[h])), used |-> now] \in Row
      BY <1>1, <3>1 DEF Row
    <3>3. QED
      BY <1>4, <3>2 DEF SaveRow
  <2>2. table'[k] \in {table[k], row}
    BY <1>1, <2>1
  <2>3. QED
    BY <1>1, <2>2
<1>5. ASSUME NEW h \in Handler, Finish(h)
      PROVE  pc[h] = "settle" /\ incr[h] /\ ConvKey(req[h]) = k /\ http[h] # "ok"
  <2>1. pc[h] = "settle" /\ table' = Settled(h)
    BY <1>5 DEF Finish
  <2>2. Incremented(ConvKey(req[h]))[k] # None
    <3>1. [thread |-> table[k].thread, count |-> table[k].count + 1, used |-> now] \in Row
      BY <1>1 DEF Row
    <3>2. QED
      BY <1>1, <3>1 DEF Incremented
  <2>3. table' = WithoutRow(ConvKey(req[h])) /\ incr[h] /\ http[h] # "ok"
    BY <2>1, <2>2 DEF Settled
  <2>4. ConvKey(req[h]) = k
    BY <1>1, <2>3 DEF WithoutRow
  <2>5. QED
    BY <2>1, <2>3, <2>4
<1>6. PICK h \in Handler : StartFind(h) \/ MissRow(h) \/ SaveRow(h) \/ Finish(h)
  BY DEF Next, HandlerStep, Environment, Arrive, StartUnkeyed, FindRow, Accept, Return, Tick, Crash, LoseThread
<1>7. QED
  BY <1>2, <1>3, <1>4, <1>5, <1>6

\* The purge of one request and the lookup of another, which read the clock
\* earlier, take nothing away from a conversation that may go on: its row goes
\* when a continuation fails, and only then (thread_state_find and _delete).
THEOREM LiveRowsStay == Spec => LiveRowsSurvive
<1>1. IInv /\ SeenIsPast /\ [Next]_vars =>
        [\A k \in Conversation :
           table[k] # None /\ table'[k] = None /\ ~Expired(table[k], now)
             => \E h \in Handler : /\ pc[h] = "settle" /\ incr[h]
                                   /\ ConvKey(req[h]) = k
                                   /\ http[h] # "ok"]_vars
  BY RowGone
<1>2. QED
  BY <1>1, Invariance, SeenPast, PTL DEF Spec, LiveRowsSurvive

(***************************************************************************)
(* What a thread says: the user side of messages and posts.                *)
(***************************************************************************)
\* What a message adds to what the user side says
LEMMA AskedAppend ==
    ASSUME NEW msgs \in Seq(Message), NEW m \in Message
    PROVE  /\ Asked(msgs) \in Seq(Message)
           /\ Asked(Append(msgs, m)) = IF m.role = "assistant" THEN Asked(msgs) ELSE Append(Asked(msgs), m)
<1> DEFINE part(x) == IF x.role = "assistant" THEN <<>> ELSE <<x>>
<1>1. \A x \in Message : part(x) \in Seq(Message)
  OBVIOUS
<1>2. PICK l, n : l = Append(msgs, m) /\ n = Len(msgs)
  OBVIOUS
<1>3. n \in Nat /\ DOMAIN msgs = 1..n /\ DOMAIN l = 1..(n + 1) /\ l[n + 1] = m
  BY <1>2
<1>4. \A i \in 1..n : msgs[i] \in Message /\ msgs[i] = l[i]
  BY <1>2
<1> HIDE DEF part
<1>5. PICK r, q : r = [i \in 1..n |-> part(msgs[i])] /\ q = [i \in 1..(n + 1) |-> part(l[i])]
  OBVIOUS
<1>6. \A i \in 1..(n + 1) : l[i] \in Message
  BY <1>3, <1>4
<1>7. r \in [1..n -> Seq(Message)] /\ q \in [1..(n + 1) -> Seq(Message)]
  BY <1>1, <1>4, <1>5, <1>6
<1>8. q[n + 1] = part(m) /\ \A i \in 1..n : r[i] = q[i]
  BY <1>3, <1>4, <1>5
<1>9. FlattenSeq(r) \in Seq(Message) /\ FlattenSeq(q) = FlattenSeq(r) \o part(m)
  <2>1. r \in Seq(Seq(Message)) /\ Len(r) = n /\ q \in Seq(Seq(Message)) /\ Len(q) = n + 1
    BY <1>3, <1>7
  <2>2. FlattenSeq(r) \in Seq(Message) /\ FlattenSeq(q) = FlattenSeq(r) \o q[n + 1]
    BY <1>3, <1>8, <2>1, FlattenLonger
  <2>3. QED
    BY <1>8, <2>2
<1>10. Asked(msgs) = FlattenSeq(r) /\ Asked(l) = FlattenSeq(q)
  BY <1>3, <1>5 DEF Asked, part
<1>11. Asked(msgs) \o <<>> = Asked(msgs) /\ Asked(msgs) \o <<m>> = Append(Asked(msgs), m)
  BY <1>9, <1>10
<1>12. QED
  BY <1>2, <1>9, <1>10, <1>11 DEF part

\* What a post adds to what the user side of a thread says
AskedIn(posts) == FlattenSeq([i \in DOMAIN posts |-> Asked(posts[i].msgs)])

LEMMA AskedInAppend ==
    ASSUME NEW posts \in Seq(Post), NEW p \in Post
    PROVE  /\ AskedIn(posts) \in Seq(Message)
           /\ AskedIn(Append(posts, p)) = AskedIn(posts) \o Asked(p.msgs)
<1>1. \A x \in Post : Asked(x.msgs) \in Seq(Message)
  <2>1. PICK m \in Message : m = [role |-> "system", text |-> EmptyText]
    BY ConstantsAssumption DEF Message, Role
  <2>2. \A x \in Post : x.msgs \in Seq(Message)
    BY DEF Post
  <2>3. QED
    BY <2>1, <2>2, AskedAppend
<1>2. PICK l, n : l = Append(posts, p) /\ n = Len(posts)
  OBVIOUS
<1>3. n \in Nat /\ DOMAIN posts = 1..n /\ DOMAIN l = 1..(n + 1) /\ l[n + 1] = p
  BY <1>2
<1>4. \A i \in 1..n : posts[i] \in Post /\ posts[i] = l[i]
  BY <1>2
<1>5. PICK r, q : r = [i \in 1..n |-> Asked(posts[i].msgs)] /\ q = [i \in 1..(n + 1) |-> Asked(l[i].msgs)]
  OBVIOUS
<1>6. \A i \in 1..(n + 1) : l[i] \in Post
  BY <1>3, <1>4
<1>7. r \in [1..n -> Seq(Message)] /\ q \in [1..(n + 1) -> Seq(Message)]
  BY <1>1, <1>4, <1>5, <1>6
<1>8. q[n + 1] = Asked(p.msgs) /\ \A i \in 1..n : r[i] = q[i]
  BY <1>3, <1>4, <1>5
<1>9. FlattenSeq(r) \in Seq(Message) /\ FlattenSeq(q) = FlattenSeq(r) \o Asked(p.msgs)
  <2>1. r \in Seq(Seq(Message)) /\ Len(r) = n /\ q \in Seq(Seq(Message)) /\ Len(q) = n + 1
    BY <1>3, <1>7
  <2>2. FlattenSeq(r) \in Seq(Message) /\ FlattenSeq(q) = FlattenSeq(r) \o q[n + 1]
    BY <1>3, <1>8, <2>1, FlattenLonger
  <2>3. QED
    BY <1>8, <2>2
<1>10. AskedIn(posts) = FlattenSeq(r) /\ AskedIn(l) = FlattenSeq(q)
  BY <1>3, <1>5 DEF AskedIn
<1>11. QED
  BY <1>2, <1>9, <1>10

LEMMA ToSetConcat ==
    ASSUME NEW S, NEW s \in Seq(S), NEW r \in Seq(S)
    PROVE  ToSet(s \o r) = ToSet(s) \cup ToSet(r)
<1>1. PICK n \in Nat, m \in Nat : n = Len(s) /\ m = Len(r)
  OBVIOUS
<1>2. PICK l : l = s \o r
  OBVIOUS
<1>3. /\ DOMAIN l = 1..(n + m) /\ DOMAIN s = 1..n /\ DOMAIN r = 1..m
      /\ \A i \in 1..n : l[i] = s[i]
      /\ \A i \in 1..m : l[n + i] = r[i]
  BY <1>1, <1>2
<1>4. \A i \in 1..(n + m) : l[i] \in ToSet(s) \cup ToSet(r)
  <2> SUFFICES ASSUME NEW i \in 1..(n + m)
               PROVE  l[i] \in ToSet(s) \cup ToSet(r)
    OBVIOUS
  <2>1. CASE i \in 1..n
    BY <1>3, <2>1 DEF ToSet
  <2>2. CASE i \notin 1..n
    <3>1. i - n \in 1..m /\ n + (i - n) = i
      BY <2>2
    <3>2. l[i] = r[i - n]
      BY <1>3, <3>1
    <3>3. QED
      BY <1>3, <3>1, <3>2 DEF ToSet
  <2>3. QED
    BY <2>1, <2>2
<1>5. (\A i \in 1..n : s[i] \in ToSet(l)) /\ \A i \in 1..m : r[i] \in ToSet(l)
  <2>1. \A i \in 1..n : i \in 1..(n + m)
    OBVIOUS
  <2>2. \A i \in 1..m : n + i \in 1..(n + m)
    OBVIOUS
  <2>3. QED
    BY <1>3, <2>1, <2>2 DEF ToSet
<1>6. ToSet(l) \subseteq ToSet(s) \cup ToSet(r)
  BY <1>3, <1>4 DEF ToSet
<1>7. ToSet(s) \subseteq ToSet(l) /\ ToSet(r) \subseteq ToSet(l)
  BY <1>3, <1>5 DEF ToSet
<1>8. QED
  BY <1>2, <1>6, <1>7

(***************************************************************************)
(* Clients: the requests they make, and how what they have said grows from *)
(* turn to turn.                                                           *)
(***************************************************************************)
Key(c)       == <<KeyOf[c], KeyModel[KeyOf[c]], Question[c][1]>>
Length(c, n) == 2 * n - (IF KeyPrompt[KeyOf[c]] = EmptyText THEN 1 ELSE 0)
Told(c, n)   == Asked(EffectiveMsgs(TurnRequest(c, n, FALSE)))

\* r asks turn n of c, as a stream or not
IsTurn(r, c, n) == \E s \in BOOLEAN : r = TurnRequest(c, n, s)

UserSays(text) == [role |-> "user", text |-> text]

LEMMA HistoryIs ==
    ASSUME NEW c \in Conv, NEW n \in 1..MaxTurns
    PROVE  /\ History(c, n) \in Seq(Message) /\ Len(History(c, n)) = 2 * n - 1
           /\ History(c, n)[1] = UserSays(Question[c][1])
           /\ History(c, n)[2 * n - 1] = UserSays(Question[c][n])
           /\ \A i \in 1..n : Question[c][i] \in Text \ {EmptyText}
<1>1. Question[c] \in [1..MaxTurns -> Text \ {EmptyText}] /\ ReplyText \in Text /\ MaxTurns \in Nat
  BY ClientAssumption
<1>2. PICK N \in Nat : N = 2 * n - 1
  OBVIOUS
<1>3. \A i \in 1..N : i % 2 # 0 => (i + 1) \div 2 \in 1..MaxTurns
  BY <1>1, <1>2
<1>4. \A i \in 1..N : History(c, n)[i] \in Message
  <2> SUFFICES ASSUME NEW i \in 1..N
               PROVE  History(c, n)[i] \in Message
    OBVIOUS
  <2>1. CASE i % 2 = 0
    BY <1>1, <1>2, <2>1 DEF History, Message, Role
  <2>2. CASE i % 2 # 0
    <3>1. PICK k \in 1..MaxTurns : k = (i + 1) \div 2
      BY <1>3, <2>2
    <3>2. History(c, n)[i] = UserSays(Question[c][k])
      BY <1>2, <2>2, <3>1 DEF History, UserSays
    <3>3. QED
      BY <1>1, <3>2 DEF UserSays, Message, Role
  <2>3. QED
    BY <2>1, <2>2
<1>5. DOMAIN History(c, n) = 1..N /\ History(c, n) = [i \in 1..N |-> History(c, n)[i]]
  BY <1>2 DEF History
<1>6. History(c, n) \in Seq(Message) /\ Len(History(c, n)) = N
  <2>1. PICK s : s = History(c, n)
    OBVIOUS
  <2>2. s \in [1..N -> Message]
    BY <1>4, <1>5, <2>1
  <2>3. QED
    BY <2>1, <2>2
<1>7. History(c, n)[1] = UserSays(Question[c][1])
  <2>1. 1 \in 1..(2 * n - 1) /\ 1 % 2 # 0 /\ (1 + 1) \div 2 = 1
    OBVIOUS
  <2>2. QED
    BY <2>1 DEF History, UserSays
<1>8. History(c, n)[N] = UserSays(Question[c][n])
  <2>1. N \in 1..(2 * n - 1) /\ N % 2 # 0 /\ (N + 1) \div 2 = n
    BY <1>2
  <2>2. QED
    BY <2>1 DEF History, UserSays
<1>9. QED
  BY <1>1, <1>2, <1>6, <1>7, <1>8

LEMMA TurnIs ==
    ASSUME NEW c \in Conv, NEW n \in 1..MaxTurns, NEW r, IsTurn(r, c, n)
    PROVE  /\ r \in Request
           /\ UserPositions(r.msgs) # {}
           /\ ConvKey(r) = Key(c) /\ Sender(r) = Key(c)
           /\ LastUserContent(r.msgs) = Question[c][n]
           /\ Len(EffectiveMsgs(r)) = Length(c, n)
           /\ Asked(EffectiveMsgs(r)) = Told(c, n)
<1>1. PICK s : s = History(c, n)
  OBVIOUS
<1>2. PICK N \in Nat : N = 2 * n - 1
  OBVIOUS
<1>3. /\ s \in Seq(Message) /\ Len(s) = N
      /\ s[1] = UserSays(Question[c][1]) /\ s[N] = UserSays(Question[c][n])
      /\ Question[c][1] # EmptyText /\ Question[c][n] # EmptyText
  BY <1>1, <1>2, HistoryIs
<1>4. 1 \in UserPositions(s) /\ N \in UserPositions(s) /\ UserPositions(s) \subseteq 1..N
  BY <1>2, <1>3 DEF UserPositions, UserSays
<1>5. FirstUserContent(s) = Question[c][1]
  <2>1. PICK i : i = CHOOSE k \in UserPositions(s) : \A j \in UserPositions(s) : k <= j
    OBVIOUS
  <2>2. i \in UserPositions(s) /\ \A j \in UserPositions(s) : i <= j
    BY <1>4, <2>1
  <2>3. i = 1
    BY <1>2, <1>4, <2>2
  <2>4. QED
    BY <1>3, <1>4, <2>1, <2>3 DEF FirstUserContent, UserSays
<1>6. LastUserContent(s) = Question[c][n]
  <2>1. PICK i : i = CHOOSE k \in UserPositions(s) : \A j \in UserPositions(s) : k >= j
    OBVIOUS
  <2>2. i \in UserPositions(s) /\ \A j \in UserPositions(s) : i >= j
    BY <1>4, <2>1
  <2>3. i = N
    BY <1>2, <1>4, <2>2
  <2>4. QED
    BY <1>3, <1>4, <2>1, <2>3 DEF LastUserContent, UserSays
<1>7. r \in Request
  BY TurnsAssumption DEF IsTurn
<1>8. r.key = KeyOf[c] /\ r.model = None /\ r.msgs = s
  BY <1>1 DEF IsTurn, TurnRequest
<1>9. ConvKey(r) = Key(c) /\ Sender(r) = Key(c)
  BY <1>5, <1>8 DEF ConvKey, Sender, ModelOf, Key
<1>10. EffectiveMsgs(r) =
         IF KeyPrompt[KeyOf[c]] = EmptyText THEN s
         ELSE <<[role |-> "system", text |-> KeyPrompt[KeyOf[c]]]>> \o s
  BY <1>8 DEF EffectiveMsgs
<1>11. Len(EffectiveMsgs(r)) = Length(c, n)
  <2>1. \A x : Len(<<x>> \o s) = 1 + Len(s)
    BY <1>3
  <2>2. QED
    BY <1>2, <1>3, <1>10, <2>1 DEF Length
<1>12. Asked(EffectiveMsgs(r)) = Told(c, n)
  BY <1>1, <1>10 DEF EffectiveMsgs, TurnRequest, Told
<1>13. QED
  BY <1>4, <1>6, <1>7, <1>8, <1>9, <1>11, <1>12

LEMMA TurnMessages ==
    ASSUME NEW c \in Conv, NEW n \in 1..MaxTurns
    PROVE  /\ EffectiveMsgs(TurnRequest(c, n, FALSE)) \in Seq(Message)
           /\ Len(EffectiveMsgs(TurnRequest(c, n, FALSE))) = Length(c, n)
<1>1. PICK r : r = TurnRequest(c, n, FALSE)
  OBVIOUS
<1>2. IsTurn(r, c, n)
  BY <1>1 DEF IsTurn
<1>3. r \in Request /\ Len(EffectiveMsgs(r)) = Length(c, n)
  BY <1>2, TurnIs
<1>4. QED
  BY <1>1, <1>3, RequestTypes

LEMMA KeysApart ==
    /\ \A c \in Conv : Key(c) \in Conversation
    /\ \A c, d \in Conv : Key(c) = Key(d) => c = d
<1>1. \A c \in Conv : KeyOf[c] \in ApiKey /\ Question[c][1] \in Text
  BY ClientAssumption
<1>2. QED
  BY <1>1, ClientAssumption, ConstantsAssumption DEF Key, Conversation

LEMMA ExtendedBy ==
    ASSUME NEW S, NEW s \in Seq(S), NEW x \in S, NEW y \in S, NEW l \in Seq(S), NEW n \in Nat,
           Len(s) = n, Len(l) = n + 2, \A i \in 1..n : l[i] = s[i], l[n + 1] = x, l[n + 2] = y
    PROVE  l = Append(Append(s, x), y)
<1>1. PICK r : r = Append(s, x)
  OBVIOUS
<1>2. r \in Seq(S) /\ Len(r) = n + 1 /\ r[n + 1] = x /\ \A i \in 1..n : r[i] = s[i]
  BY <1>1
<1>3. PICK q : q = Append(r, y)
  OBVIOUS
<1>4. q \in Seq(S) /\ Len(q) = n + 2 /\ q[n + 2] = y /\ \A i \in 1..(n + 1) : q[i] = r[i]
  BY <1>2, <1>3
<1>5. \A i \in 1..(n + 2) : q[i] = l[i]
  <2> SUFFICES ASSUME NEW i \in 1..(n + 2)
               PROVE  q[i] = l[i]
    OBVIOUS
  <2>1. CASE i \in 1..n
    BY <1>2, <1>4, <2>1
  <2>2. CASE i = n + 1
    BY <1>2, <1>4, <2>2
  <2>3. CASE i = n + 2
    BY <1>4, <2>3
  <2>4. QED
    BY <2>1, <2>2, <2>3
<1>6. q = l
  BY <1>4, <1>5
<1>7. QED
  BY <1>1, <1>3, <1>6

\* What a client has said grows by the question of its turn
LEMMA ToldGrows ==
    ASSUME NEW c \in Conv, NEW n \in 1..MaxTurns, n + 1 \in 1..MaxTurns
    PROVE  Told(c, n) \in Seq(Message) /\ Told(c, n + 1) = Append(Told(c, n), UserSays(Question[c][n + 1]))
<1>1. PICK s, l : s = EffectiveMsgs(TurnRequest(c, n, FALSE)) /\ l = EffectiveMsgs(TurnRequest(c, n + 1, FALSE))
  OBVIOUS
<1>2. s \in Seq(Message) /\ l \in Seq(Message)
  BY <1>1, TurnMessages
<1>3. PICK m \in Nat : m = Length(c, n)
  <2>1. Length(c, n) \in Nat
    BY DEF Length
  <2>2. QED
    BY <2>1
<1>4. Len(s) = m /\ Len(l) = m + 2
  <2>1. Length(c, n + 1) = Length(c, n) + 2
    BY DEF Length
  <2>2. QED
    BY <1>1, <1>3, <2>1, TurnMessages
<1>5. PICK a \in Message, u \in Message :
        a = [role |-> "assistant", text |-> ReplyText] /\ u = UserSays(Question[c][n + 1])
  <2>1. ReplyText \in Text /\ Question[c][n + 1] \in Text
    BY ClientAssumption
  <2>2. QED
    BY <2>1 DEF Message, Role, UserSays
<1> DEFINE hs == History(c, n)
           hl == History(c, n + 1)
<1>6. /\ \A i \in 1..(2 * n - 1) : hl[i] = hs[i]
      /\ hl[2 * n] = a /\ hl[2 * n + 1] = u
  <2>1. \A i \in 1..(2 * n - 1) : i \in 1..(2 * (n + 1) - 1)
    OBVIOUS
  <2>2. \A i \in 1..(2 * n - 1) : hl[i] = hs[i]
    BY <2>1 DEF History
  <2>3. 2 * n \in 1..(2 * (n + 1) - 1) /\ (2 * n) % 2 = 0
    OBVIOUS
  <2>4. 2 * n + 1 \in 1..(2 * (n + 1) - 1) /\ (2 * n + 1) % 2 # 0 /\ ((2 * n + 1) + 1) \div 2 = n + 1
    OBVIOUS
  <2>5. hl[2 * n] = a
    BY <1>5, <2>3 DEF History
  <2>6. hl[2 * n + 1] = u
    BY <1>5, <2>4 DEF History, UserSays
  <2>7. QED
    BY <2>2, <2>5, <2>6
<1>7. (\A i \in 1..m : l[i] = s[i]) /\ l[m + 1] = a /\ l[m + 2] = u
  <2>1. PICK p, q : p = hs /\ q = hl
    OBVIOUS
  <2>2. p \in Seq(Message) /\ Len(p) = 2 * n - 1 /\ q \in Seq(Message) /\ Len(q) = 2 * n + 1
    <3>1. Len(hl) = 2 * (n + 1) - 1
      BY HistoryIs
    <3>2. History(c, n + 1) \in Seq(Message) /\ hs \in Seq(Message) /\ Len(hs) = 2 * n - 1
      BY HistoryIs
    <3>3. 2 * (n + 1) - 1 = 2 * n + 1
      OBVIOUS
    <3> HIDE DEF hs, hl
    <3>4. hl \in Seq(Message)
      BY <3>2 DEF hl
    <3>5. QED
      BY <2>1, <3>1, <3>2, <3>3, <3>4
  <2>3. /\ \A i \in 1..(2 * n - 1) : q[i] = p[i]
        /\ q[2 * n] = a /\ q[2 * n + 1] = u
    BY <1>6, <2>1
  <2>4. CASE KeyPrompt[KeyOf[c]] = EmptyText
    <3>1. s = p /\ l = q
      BY <1>1, <2>1, <2>4 DEF EffectiveMsgs, TurnRequest
    <3>2. m = 2 * n - 1
      BY <1>3, <2>4 DEF Length
    <3>3. QED
      BY <2>3, <3>1, <3>2
  <2>5. CASE KeyPrompt[KeyOf[c]] # EmptyText
    <3>1. PICK x : x = [role |-> "system", text |-> KeyPrompt[KeyOf[c]]]
      OBVIOUS
    <3>2. s = <<x>> \o p /\ l = <<x>> \o q
      BY <1>1, <2>1, <2>5, <3>1 DEF EffectiveMsgs, TurnRequest
    <3>3. m = 2 * n
      BY <1>3, <2>5 DEF Length
    <3>4. s[1] = x /\ \A i \in 1..(2 * n - 1) : s[i + 1] = p[i]
      BY <2>2, <3>2
    <3>5. l[1] = x /\ \A i \in 1..(2 * n + 1) : l[i + 1] = q[i]
      BY <2>2, <3>2
    <3>6. l[m + 1] = a /\ l[m + 2] = u
      BY <2>3, <3>3, <3>5
    <3>7. \A i \in 1..m : l[i] = s[i]
      <4> SUFFICES ASSUME NEW i \in 1..m
                   PROVE  l[i] = s[i]
        OBVIOUS
      <4>1. CASE i = 1
        BY <3>4, <3>5, <4>1
      <4>2. CASE i # 1
        <5>1. i - 1 \in 1..(2 * n - 1) /\ (i - 1) + 1 = i
          BY <3>3, <4>2
        <5>2. l[(i - 1) + 1] = q[i - 1] /\ s[(i - 1) + 1] = p[i - 1] /\ q[i - 1] = p[i - 1]
          BY <2>3, <3>4, <3>5, <5>1
        <5>3. QED
          BY <5>1, <5>2
      <4>3. QED
        BY <4>1, <4>2
    <3>8. QED
      BY <3>6, <3>7
  <2>6. QED
    BY <2>4, <2>5
<1>8. l = Append(Append(s, a), u)
  BY <1>2, <1>3, <1>4, <1>5, <1>7, ExtendedBy
<1>9. PICK r : r = Append(s, a)
  OBVIOUS
<1>10. r \in Seq(Message) /\ Asked(s) \in Seq(Message) /\ Asked(r) = Asked(s)
  <2>1. r \in Seq(Message)
    BY <1>2, <1>9
  <2>2. Asked(s) \in Seq(Message) /\ Asked(Append(s, a)) = Asked(s)
    BY <1>2, <1>5, AskedAppend
  <2>3. QED
    BY <1>9, <2>1, <2>2
<1>11. Asked(Append(r, u)) = Append(Asked(r), u)
  <2>1. u.role # "assistant"
    BY <1>5 DEF UserSays
  <2>2. QED
    BY <1>10, <2>1, AskedAppend
<1>12. QED
  BY <1>1, <1>5, <1>8, <1>9, <1>10, <1>11 DEF Told

LEMMA ToldTypes ==
    ASSUME NEW c \in Conv, NEW n \in 1..MaxTurns
    PROVE  Told(c, n) \in Seq(Message)
<1>1. PICK s : s = EffectiveMsgs(TurnRequest(c, n, FALSE))
  OBVIOUS
<1>2. s \in Seq(Message)
  BY <1>1, TurnMessages
<1>3. PICK m \in Message : m = [role |-> "assistant", text |-> ReplyText]
  BY ClientAssumption DEF Message, Role
<1>4. Asked(s) \in Seq(Message)
  BY <1>2, <1>3, AskedAppend
<1>5. QED
  BY <1>1, <1>4 DEF Told

(***************************************************************************)
(* The inductive invariant of a client and the handler that serves it:     *)
(* what message_count says of the turn the client is at, and what the      *)
(* thread of the row says of what the client has said.                     *)
(***************************************************************************)
ClientsTypeOK ==
    /\ turn \in [Conv -> 1..(MaxTurns + 1)]
    /\ client \in [Handler -> Conv \cup {None}]
    /\ heard \in [Conv -> HttpClass \cup {"nothing", "cut"}]
    /\ misled \subseteq Conv /\ unsettled \subseteq Conv /\ faults \in Nat

\* A client waits for one handler at most, which has the request of its turn
ServedOnce ==
    /\ \A h \in Handler : pc[h] = "idle" <=> client[h] = None
    /\ \A h \in Handler : client[h] # None =>
        turn[client[h]] \in 1..MaxTurns /\ IsTurn(req[h], client[h], turn[client[h]])
    /\ \A g, h \in Handler : client[g] # None /\ client[g] = client[h] => g = h

RowOf(c) == table[Key(c)]
HasRow(c) == RowOf(c) # None
Busy == {"post", "wait", "settle"}

\* The row of c is not in use; and it is as the last request left it
Resting(c)   == \A h \in Handler : client[h] = c => pc[h] \notin Busy
Untouched(c) == \A h \in Handler : client[h] = c => pc[h] \in {"find", "row"}

CountStarts(c) == HasRow(c) => RowOf(c).count >= Length(c, 1)

CountSettled(c) ==
    c \notin unsettled /\ Untouched(c) /\ HasRow(c) =>
        \/ heard[c] \in {"none", "error"} /\ RowOf(c).count = Length(c, turn[c])
        \/ heard[c] \in {"ok", "redirect", "rejected", "cut"} /\ RowOf(c).count <= Length(c, turn[c] - 1)

RowInUse(c) ==
    \A h \in Handler : client[h] = c /\ pc[h] \in Busy =>
        /\ incr[h] => turn[c] > 1
        /\ HasRow(c) => RowOf(c).thread = thread[h]
        /\ HasRow(c) /\ incr[h] => RowOf(c).count < Length(c, turn[c])
        /\ HasRow(c) /\ ~incr[h] => RowOf(c).count = Length(c, turn[c])

Counted(c) == CountStarts(c) /\ CountSettled(c) /\ RowInUse(c)

\* posts say all c had said by turn n; and nothing twice
SayAll(posts, c, n)  == ToSet(Told(c, n)) \subseteq ToSet(AskedIn(posts))
SayOnce(posts, c, n) == AskedIn(posts) = Told(c, n)

RowSays(c) ==
    c \notin misled /\ Resting(c) /\ HasRow(c) /\ RowOf(c).count < Length(c, turn[c]) =>
        /\ SayAll(upstream[RowOf(c).thread], c, turn[c] - 1)
        /\ c \notin unsettled => SayOnce(upstream[RowOf(c).thread], c, turn[c] - 1)

\* Its thread is not open yet
Fresh(h) == pc[h] = "post" /\ ~incr[h]
\* The thread says everything up to the turn before; up to this turn
Short(h) == pc[h] = "post" /\ incr[h]
Whole(h) == pc[h] \in Busy /\ Taken(h)

HandlerSays(c) ==
    \A h \in Handler : client[h] = c =>
        /\ Fresh(h) => upstream[thread[h]] = <<>>
        /\ c \notin misled =>
            /\ pc[h] \in Busy /\ incr[h] => SayAll(upstream[thread[h]], c, turn[c] - 1)
            /\ Short(h) /\ c \notin unsettled => SayOnce(upstream[thread[h]], c, turn[c] - 1)
            /\ Whole(h) => SayAll(upstream[thread[h]], c, turn[c])
            /\ Whole(h) /\ c \notin unsettled => SayOnce(upstream[thread[h]], c, turn[c])

Spoken(c) == RowSays(c) /\ HandlerSays(c)

CInv ==
    /\ ClientsTypeOK
    /\ ServedOnce
    /\ \A c \in Conv : Counted(c) /\ Spoken(c)

LEMMA RequestOfTurn ==
    ASSUME ClientsTypeOK, ServedOnce, NEW h \in Handler, client[h] # None
    PROVE  /\ client[h] \in Conv /\ turn[client[h]] \in 1..MaxTurns
           /\ IsTurn(req[h], client[h], turn[client[h]])
           /\ req[h] \in Request
           /\ Asked(EffectiveMsgs(req[h])) = Told(client[h], turn[client[h]])
           /\ ConvKey(req[h]) = Key(client[h]) /\ Sender(req[h]) = Key(client[h])
           /\ Len(EffectiveMsgs(req[h])) = Length(client[h], turn[client[h]])
           /\ UserPositions(req[h].msgs) # {}
           /\ LastUserContent(req[h].msgs) = Question[client[h]][turn[client[h]]]
<1>1. client[h] \in Conv /\ turn[client[h]] \in 1..MaxTurns /\ IsTurn(req[h], client[h], turn[client[h]])
  BY DEF ClientsTypeOK, ServedOnce
<1>2. QED
  BY <1>1, TurnIs

\* Whose row and thread they are
LEMMA OwnThreads ==
    ASSUME IInv, ClientsTypeOK, ServedOnce
    PROVE  /\ \A c \in Conv : HasRow(c) =>
                /\ RowOf(c).thread \in ThreadId /\ issued[RowOf(c).thread] = Key(c)
                /\ RowOf(c).count \in Nat
           /\ \A h \in Handler : pc[h] \in Busy =>
                /\ client[h] \in Conv /\ thread[h] \in ThreadId
                /\ issued[thread[h]] = Key(client[h])
<1>1. ASSUME NEW c \in Conv, HasRow(c)
      PROVE  RowOf(c).thread \in ThreadId /\ issued[RowOf(c).thread] = Key(c) /\ RowOf(c).count \in Nat
  <2>1. Key(c) \in Conversation
    BY KeysApart
  <2>2. table[Key(c)] \in Row
    BY <1>1, <2>1 DEF HasRow, RowOf, IInv, TypeOK
  <2>3. QED
    BY <1>1, <2>1, <2>2 DEF HasRow, RowOf, IInv, RowsOwned, Row
<1>2. ASSUME NEW h \in Handler, pc[h] \in Busy
      PROVE  client[h] \in Conv /\ thread[h] \in ThreadId /\ issued[thread[h]] = Key(client[h])
  <2>1. client[h] # None
    BY <1>2 DEF ServedOnce, Busy
  <2>2. thread[h] \in ThreadId
    BY <1>2 DEF IInv, HandlerLocals, Busy
  <2>3. thread[h] # None
    BY <2>2, ConstantsAssumption
  <2>4. QED
    BY <2>1, <2>2, <2>3, RequestOfTurn DEF IInv, HandlersOwn
<1>3. QED
  BY <1>1, <1>2

\* A client is not disturbed by what happens to the others, or to time
LEMMA Undisturbed ==
    ASSUME IInv, ClientsTypeOK, ServedOnce,
           NEW c \in Conv, Counted(c), Spoken(c),
           table'[Key(c)] \in {table[Key(c)], None},
           turn'[c] = turn[c], heard'[c] = heard[c],
           c \in misled' <=> c \in misled, c \in unsettled' <=> c \in unsettled,
           \A h \in Handler : client'[h] = c <=> client[h] = c,
           \A h \in Handler : client[h] = c =>
               pc'[h] = pc[h] /\ thread'[h] = thread[h] /\ incr'[h] = incr[h] /\ http'[h] = http[h],
           \A t \in ThreadId : issued[t] = Key(c) => upstream'[t] = upstream[t]
    PROVE  Counted(c)' /\ Spoken(c)'
<1>1. HasRow(c)' => HasRow(c) /\ RowOf(c)' = RowOf(c)
  BY DEF HasRow, RowOf
<1>2. (Resting(c)' <=> Resting(c)) /\ (Untouched(c)' <=> Untouched(c))
  BY DEF Resting, Untouched
<1>3. Counted(c)'
  BY <1>1, <1>2 DEF Counted, CountStarts, CountSettled, RowInUse
<1>4. HasRow(c) => upstream'[RowOf(c).thread] = upstream[RowOf(c).thread]
  BY OwnThreads
<1>5. RowSays(c)'
  BY <1>1, <1>2, <1>4 DEF Spoken, RowSays
<1>6. HandlerSays(c)'
  <2> SUFFICES ASSUME NEW h \in Handler, client'[h] = c
               PROVE  /\ Fresh(h)' => upstream'[thread'[h]] = <<>>
                      /\ c \notin misled' =>
                          /\ pc'[h] \in Busy /\ incr'[h] => SayAll(upstream'[thread'[h]], c, turn'[c] - 1)
                          /\ Short(h)' /\ c \notin unsettled' => SayOnce(upstream'[thread'[h]], c, turn'[c] - 1)
                          /\ Whole(h)' => SayAll(upstream'[thread'[h]], c, turn'[c])
                          /\ Whole(h)' /\ c \notin unsettled' => SayOnce(upstream'[thread'[h]], c, turn'[c])
    BY DEF HandlerSays
  <2>1. client[h] = c /\ pc'[h] = pc[h] /\ thread'[h] = thread[h] /\ incr'[h] = incr[h] /\ http'[h] = http[h]
    OBVIOUS
  <2>2. pc[h] \in Busy => upstream'[thread[h]] = upstream[thread[h]]
    BY <2>1, OwnThreads
  <2>3. /\ Fresh(h)' <=> Fresh(h)
        /\ Short(h)' <=> Short(h)
        /\ Whole(h)' <=> Whole(h)
    BY <2>1, <2>2 DEF Fresh, Short, Whole, Taken
  <2>4. Fresh(h) \/ Short(h) \/ Whole(h) => pc[h] \in Busy
    BY DEF Fresh, Short, Whole, Busy
  <2>5. QED
    BY <2>1, <2>2, <2>3, <2>4 DEF Spoken, HandlerSays
<1>7. QED
  BY <1>3, <1>5, <1>6 DEF Spoken

\* A step of h for c leaves the other clients alone
LEMMA OthersKept ==
    ASSUME IInv, CInv, NEW c \in Conv, NEW h \in Handler,
           client[h] \in {c, None}, client'[h] \in {c, None},
           \A g \in Handler \ {h} :
               /\ client'[g] = client[g] /\ pc'[g] = pc[g] /\ thread'[g] = thread[g]
               /\ incr'[g] = incr[g] /\ http'[g] = http[g],
           \A d \in Conv \ {c} :
               /\ turn'[d] = turn[d] /\ heard'[d] = heard[d]
               /\ d \in misled' <=> d \in misled
               /\ d \in unsettled' <=> d \in unsettled,
           \A k \in Conversation : k = Key(c) \/ table'[k] \in {table[k], None},
           \A t \in ThreadId : issued[t] = Key(c) \/ upstream'[t] = upstream[t]
    PROVE  \A d \in Conv \ {c} : Counted(d)' /\ Spoken(d)'
<1> SUFFICES ASSUME NEW d \in Conv, d # c
             PROVE  Counted(d)' /\ Spoken(d)'
  OBVIOUS
<1>1. Key(d) # Key(c) /\ Key(d) \in Conversation
  BY KeysApart
<1>2. d # None
  BY ClientAssumption
<1>3. \A g \in Handler : client'[g] = d <=> client[g] = d
  BY <1>2
<1>4. \A g \in Handler : client[g] = d =>
        pc'[g] = pc[g] /\ thread'[g] = thread[g] /\ incr'[g] = incr[g] /\ http'[g] = http[g]
  BY <1>2
<1>5. Counted(d) /\ Spoken(d) /\ ClientsTypeOK /\ ServedOnce
  BY DEF CInv
<1>6. \A t \in ThreadId : issued[t] = Key(d) => upstream'[t] = upstream[t]
  BY <1>1
<1>7. table'[Key(d)] \in {table[Key(d)], None}
  BY <1>1
<1>8. turn'[d] = turn[d] /\ heard'[d] = heard[d] /\ (d \in misled' <=> d \in misled)
      /\ (d \in unsettled' <=> d \in unsettled)
  OBVIOUS
<1>9. QED
  BY <1>3, <1>4, <1>5, <1>6, <1>7, <1>8, Undisturbed

\* h goes on with the request it has
ServerMoves(h, label) ==
    /\ UNCHANGED clientVars /\ req' = req
    /\ pc' = [pc EXCEPT ![h] = label]
    /\ \A g \in Handler \ {h} : thread'[g] = thread[g] /\ incr'[g] = incr[g] /\ http'[g] = http[g]
    /\ \A k \in Conversation : k = Key(client[h]) \/ table'[k] \in {table[k], None}
    /\ \A t \in ThreadId : issued[t] = Key(client[h]) \/ upstream'[t] = upstream[t]

LEMMA MovesAlone ==
    ASSUME IInv, CInv, NEW h \in Handler, client[h] # None,
           NEW label \in Pc \ {"idle"}, ServerMoves(h, label),
           Counted(client[h])', Spoken(client[h])'
    PROVE  CInv'
<1>1. client[h] \in Conv
  BY DEF CInv, ClientsTypeOK
<1>2. ClientsTypeOK'
  BY DEF CInv, ClientsTypeOK, ServerMoves, clientVars
<1>3. pc \in [Handler -> Pc]
  BY DEF IInv, TypeOK
<1>4. ServedOnce'
  <2>1. pc[h] # "idle" /\ pc'[h] # "idle" /\ \A g \in Handler \ {h} : pc'[g] = pc[g]
    BY <1>3 DEF CInv, ServedOnce, ServerMoves
  <2>2. client' = client /\ turn' = turn /\ req' = req
    BY DEF ServerMoves, clientVars
  <2>3. QED
    BY <2>1, <2>2 DEF CInv, ServedOnce
<1>5. PICK c \in Conv : c = client[h]
  BY <1>1
<1>6. client' = client /\ turn' = turn /\ heard' = heard /\ misled' = misled /\ unsettled' = unsettled
  BY DEF ServerMoves, clientVars
<1>7. /\ \A g \in Handler \ {h} :
             /\ client'[g] = client[g] /\ pc'[g] = pc[g] /\ thread'[g] = thread[g]
             /\ incr'[g] = incr[g] /\ http'[g] = http[g]
      /\ \A k \in Conversation : k = Key(c) \/ table'[k] \in {table[k], None}
      /\ \A t \in ThreadId : issued[t] = Key(c) \/ upstream'[t] = upstream[t]
  BY <1>3, <1>5, <1>6 DEF ServerMoves
<1>8. \A d \in Conv \ {c} : Counted(d)' /\ Spoken(d)'
  BY <1>5, <1>6, <1>7, OthersKept
<1>9. Counted(c)' /\ Spoken(c)'
  BY <1>5, <1>6
<1>10. QED
  BY <1>2, <1>4, <1>8, <1>9 DEF CInv

\* What is there to know of a handler at work
LEMMA AtWork ==
    ASSUME IInv, CInv, NEW h \in Handler, pc[h] # "idle"
    PROVE  /\ client[h] \in Conv /\ client[h] # None
           /\ Counted(client[h]) /\ Spoken(client[h])
           /\ Key(client[h]) \in Conversation
           /\ turn[client[h]] \in 1..MaxTurns
           /\ IsTurn(req[h], client[h], turn[client[h]])
           /\ req[h] \in Request
           /\ Asked(EffectiveMsgs(req[h])) = Told(client[h], turn[client[h]])
           /\ ConvKey(req[h]) = Key(client[h]) /\ Sender(req[h]) = Key(client[h])
           /\ Len(EffectiveMsgs(req[h])) = Length(client[h], turn[client[h]])
           /\ UserPositions(req[h].msgs) # {}
           /\ LastUserContent(req[h].msgs) = Question[client[h]][turn[client[h]]]
           /\ \A g \in Handler : client[g] = client[h] => g = h
<1>1. client[h] # None /\ ServedOnce /\ ClientsTypeOK
  BY DEF CInv, ServedOnce
<1>2. client[h] \in Conv
  BY <1>1 DEF ClientsTypeOK
<1>3. \A g \in Handler : client[g] = client[h] => g = h
  BY <1>1 DEF ServedOnce
<1>4. QED
  BY <1>1, <1>2, <1>3, RequestOfTurn, KeysApart DEF CInv

\* Lookups
LEMMA StillResting ==
    ASSUME IInv, CInv, NEW h \in Handler, pc[h] \in {"find", "row"},
           NEW label \in {"row", "save"}, ServerMoves(h, label),
           table'[Key(client[h])] \in {table[Key(client[h])], None}, upstream' = upstream
    PROVE  CInv'
<1>1. PICK c \in Conv : c = client[h] /\ client[h] # None
  BY AtWork
<1>2. Counted(c) /\ Spoken(c) /\ \A g \in Handler : client[g] = c => g = h
  BY <1>1, AtWork
<1>3. /\ client' = client /\ turn' = turn /\ heard' = heard /\ misled' = misled /\ unsettled' = unsettled
      /\ pc'[h] = label
  BY DEF ServerMoves, clientVars, IInv, TypeOK
<1>4. HasRow(c)' => HasRow(c) /\ RowOf(c)' = RowOf(c)
  BY <1>1 DEF HasRow, RowOf
<1>5. Resting(c) /\ Untouched(c)
  BY <1>2 DEF Resting, Untouched, Busy
<1>6. Counted(c)'
  BY <1>2, <1>3, <1>4, <1>5 DEF Counted, CountStarts, CountSettled, RowInUse, Busy
<1>7. RowSays(c)'
  BY <1>2, <1>3, <1>4, <1>5 DEF Spoken, RowSays
<1>8. HandlerSays(c)'
  BY <1>2, <1>3 DEF HandlerSays, Fresh, Short, Whole, Busy
<1>9. QED
  BY <1>1, <1>3, <1>6, <1>7, <1>8, MovesAlone DEF Spoken, Pc

LEMMA StartFindServes ==
    ASSUME IInv, CInv, NEW h \in Handler, StartFind(h), UNCHANGED clientVars
    PROVE  CInv'
<1>1. \A k \in Conversation : table'[k] \in {table[k], None}
  BY DEF StartFind, Purged, IInv, TypeOK
<1>2. ServerMoves(h, "row")
  BY <1>1 DEF StartFind, Goto, ServerMoves
<1>3. pc[h] = "find" /\ upstream' = upstream
  BY DEF StartFind
<1>4. table'[Key(client[h])] \in {table[Key(client[h])], None}
  BY <1>1, <1>3, AtWork
<1>5. QED
  BY <1>2, <1>3, <1>4, StillResting

LEMMA MissRowServes ==
    ASSUME IInv, CInv, NEW h \in Handler, MissRow(h), UNCHANGED clientVars
    PROVE  CInv'
<1>1. pc[h] = "row" /\ upstream' = upstream
  BY DEF MissRow
<1>2. PICK k \in Conversation : k = ConvKey(req[h]) /\ k = Key(client[h])
  BY <1>1, AtWork
<1>3. table' = table \/ table' = WithoutRow(k)
  BY <1>2 DEF MissRow
<1>4. \A j \in Conversation : table'[j] \in {table[j], None}
  BY <1>3 DEF WithoutRow, IInv, TypeOK
<1>5. \A g \in Handler \ {h} : thread'[g] = thread[g]
  BY DEF MissRow, Draw, IInv, TypeOK
<1>6. ServerMoves(h, "save")
  BY <1>4, <1>5 DEF MissRow, Goto, ServerMoves
<1>7. QED
  BY <1>1, <1>2, <1>4, <1>6, StillResting

LEMMA FindRowServes ==
    ASSUME IInv, CInv, NEW h \in Handler, FindRow(h), UNCHANGED clientVars
    PROVE  CInv'
<1>1. pc[h] = "row" /\ upstream' = upstream /\ table' = table
  BY DEF FindRow
<1>2. PICK c \in Conv : c = client[h] /\ client[h] # None
  BY <1>1, AtWork
<1>3. /\ Counted(c) /\ Spoken(c) /\ ConvKey(req[h]) = Key(c)
      /\ Len(EffectiveMsgs(req[h])) = Length(c, turn[c]) /\ turn[c] \in 1..MaxTurns
      /\ \A g \in Handler : client[g] = c => g = h
  BY <1>1, <1>2, AtWork
<1>4. ServerMoves(h, "post")
  BY DEF FindRow, Goto, ServerMoves, IInv, TypeOK
<1>5. /\ client' = client /\ turn' = turn /\ heard' = heard /\ misled' = misled /\ unsettled' = unsettled
      /\ pc'[h] = "post" /\ incr'[h] /\ thread'[h] = RowOf(c).thread
  BY <1>3 DEF FindRow, Goto, clientVars, RowOf, IInv, TypeOK
<1>6. HasRow(c) /\ RowOf(c).count < Length(c, turn[c]) /\ RowOf(c)' = RowOf(c)
  <2>1. HasRow(c) /\ Len(EffectiveMsgs(req[h])) > RowOf(c).count
    BY <1>3 DEF FindRow, MayContinue, HasRow, RowOf
  <2>2. RowOf(c).count \in Nat /\ Length(c, turn[c]) \in Int
    BY <1>3, <2>1, OwnThreads DEF CInv, Length
  <2>3. QED
    BY <1>1, <1>3, <2>1, <2>2 DEF RowOf
<1>7. turn[c] > 1
  <2>1. RowOf(c).count >= Length(c, 1) /\ RowOf(c).count \in Nat
    BY <1>3, <1>6, OwnThreads DEF Counted, CountStarts, CInv
  <2>2. QED
    BY <1>3, <1>6, <2>1 DEF Length
<1>8. Resting(c)
  BY <1>1, <1>3 DEF Resting, Busy
<1>9. Counted(c)'
  <2>1. CountStarts(c)'
    BY <1>1, <1>3 DEF Counted, CountStarts, HasRow, RowOf
  <2>2. CountSettled(c)'
    BY <1>2, <1>5 DEF CountSettled, Untouched
  <2>3. RowInUse(c)'
    BY <1>3, <1>5, <1>6, <1>7 DEF RowInUse, HasRow
  <2>4. QED
    BY <2>1, <2>2, <2>3 DEF Counted
<1>10. Spoken(c)'
  <2>1. RowSays(c)'
    BY <1>2, <1>5 DEF RowSays, Resting, Busy
  <2>2. /\ c \notin misled => SayAll(upstream[RowOf(c).thread], c, turn[c] - 1)
        /\ c \notin misled \cup unsettled => SayOnce(upstream[RowOf(c).thread], c, turn[c] - 1)
    BY <1>3, <1>6, <1>8 DEF Spoken, RowSays
  <2>3. HandlerSays(c)'
    BY <1>1, <1>3, <1>5, <2>2 DEF HandlerSays, Fresh, Short, Whole, Taken
  <2>4. QED
    BY <2>1, <2>3 DEF Spoken
<1>11. QED
  BY <1>2, <1>4, <1>5, <1>9, <1>10, MovesAlone DEF Pc

LEMMA SaveRowServes ==
    ASSUME IInv, CInv, NEW h \in Handler, SaveRow(h), UNCHANGED clientVars
    PROVE  CInv'
<1>1. pc[h] = "save" /\ upstream' = upstream /\ thread' = thread /\ incr' = incr
  BY DEF SaveRow
<1>2. PICK c \in Conv : c = client[h] /\ client[h] # None
  BY <1>1, AtWork
<1>3. /\ Counted(c) /\ Spoken(c) /\ ConvKey(req[h]) = Key(c) /\ Key(c) \in Conversation
      /\ Len(EffectiveMsgs(req[h])) = Length(c, turn[c]) /\ turn[c] \in 1..MaxTurns
      /\ \A g \in Handler : client[g] = c => g = h
  BY <1>1, <1>2, AtWork
<1>4. /\ table'[Key(c)] = [thread |-> thread[h], count |-> Length(c, turn[c]), used |-> now]
      /\ \A k \in Conversation : k = Key(c) \/ table'[k] = table[k]
  BY <1>3 DEF SaveRow, IInv, TypeOK
<1>5. ServerMoves(h, "post")
  BY <1>2, <1>4 DEF SaveRow, Goto, ServerMoves
<1>6. /\ client' = client /\ turn' = turn /\ heard' = heard /\ misled' = misled /\ unsettled' = unsettled
      /\ pc'[h] = "post"
  BY DEF SaveRow, Goto, clientVars, IInv, TypeOK
<1>7. ~incr[h] /\ upstream[thread[h]] = <<>>
  BY <1>1 DEF IInv, UnsavedIsPrivate
<1>8. Counted(c)'
  <2>1. CountStarts(c)'
    BY <1>3, <1>4 DEF CountStarts, HasRow, RowOf, Length
  <2>2. CountSettled(c)'
    BY <1>2, <1>6 DEF CountSettled, Untouched
  <2>3. RowInUse(c)'
    BY <1>1, <1>3, <1>4, <1>6, <1>7 DEF RowInUse, HasRow, RowOf
  <2>4. QED
    BY <2>1, <2>2, <2>3 DEF Counted
<1>9. Spoken(c)'
  <2>1. RowSays(c)'
    BY <1>2, <1>6 DEF RowSays, Resting, Busy
  <2>2. HandlerSays(c)'
    BY <1>1, <1>3, <1>6, <1>7 DEF HandlerSays, Fresh, Short, Whole, Taken
  <2>3. QED
    BY <2>1, <2>2 DEF Spoken
<1>10. QED
  BY <1>2, <1>5, <1>6, <1>8, <1>9, MovesAlone DEF Pc

LEMMA PostAdds ==
    ASSUME NEW posts \in Seq(Post), NEW c \in Conv, NEW n \in 1..MaxTurns, NEW r, IsTurn(r, c, n)
    PROVE  /\ posts = <<>> => SayOnce(Append(posts, FullPost(r)), c, n)
           /\ n > 1 /\ SayAll(posts, c, n - 1) => SayAll(Append(posts, IncrPost(r)), c, n)
           /\ n > 1 /\ SayOnce(posts, c, n - 1) => SayOnce(Append(posts, IncrPost(r)), c, n)
<1>1. /\ r \in Request /\ FullPost(r) \in Post /\ IncrPost(r) \in Post
      /\ LastUserContent(r.msgs) = Question[c][n] /\ Question[c][n] \in Text
  <2>1. r \in Request /\ LastUserContent(r.msgs) = Question[c][n]
    BY TurnIs
  <2>2. Question[c][n] \in Text
    BY HistoryIs
  <2>3. QED
    BY <2>1, <2>2, RequestTypes
<1>2. Told(c, n) \in Seq(Message) /\ Asked(FullPost(r).msgs) = Told(c, n)
  BY ToldTypes, TurnIs DEF FullPost
<1>3. PICK u \in Message : u = UserSays(Question[c][n])
  BY <1>1 DEF UserSays, Message, Role
<1>4. Asked(IncrPost(r).msgs) = <<u>>
  <2>1. IncrPost(r).msgs = Append(<<>>, u)
    BY <1>1, <1>3 DEF IncrPost, UserSays
  <2>2. Asked(<<>>) = <<>>
    BY DEF Asked, FlattenSeq
  <2>3. <<>> \in Seq(Message) /\ u.role # "assistant"
    BY <1>3 DEF UserSays
  <2>4. Asked(Append(<<>>, u)) = Append(Asked(<<>>), u)
    BY <2>3, AskedAppend
  <2>5. QED
    BY <2>1, <2>2, <2>4
<1>5. posts = <<>> => SayOnce(Append(posts, FullPost(r)), c, n)
  <2> SUFFICES ASSUME posts = <<>>
               PROVE  SayOnce(Append(posts, FullPost(r)), c, n)
    OBVIOUS
  <2>1. AskedIn(posts) = <<>>
    BY DEF AskedIn, FlattenSeq
  <2>2. AskedIn(Append(posts, FullPost(r))) = AskedIn(posts) \o Asked(FullPost(r).msgs)
    BY <1>1, AskedInAppend
  <2>3. <<>> \o Told(c, n) = Told(c, n)
    BY <1>2
  <2>4. QED
    BY <1>2, <2>1, <2>2, <2>3 DEF SayOnce
<1>6. /\ AskedIn(posts) \in Seq(Message)
      /\ AskedIn(Append(posts, IncrPost(r))) = AskedIn(posts) \o <<u>>
  <2>1. AskedIn(posts) \in Seq(Message) /\ AskedIn(Append(posts, IncrPost(r))) = AskedIn(posts) \o Asked(IncrPost(r).msgs)
    BY <1>1, AskedInAppend
  <2>2. QED
    BY <1>4, <2>1
<1>7. ASSUME n > 1
      PROVE  Told(c, n - 1) \in Seq(Message) /\ Told(c, n) = Told(c, n - 1) \o <<u>>
  <2>1. PICK m \in 1..MaxTurns : m = n - 1 /\ n = m + 1
    BY <1>7, ClientAssumption
  <2>2. Told(c, m) \in Seq(Message) /\ Told(c, m + 1) = Append(Told(c, m), UserSays(Question[c][m + 1]))
    BY <2>1, ToldGrows
  <2>3. Append(Told(c, m), u) = Told(c, m) \o <<u>>
    BY <2>2
  <2>4. QED
    BY <1>3, <2>1, <2>2, <2>3
<1>8. n > 1 /\ SayAll(posts, c, n - 1) => SayAll(Append(posts, IncrPost(r)), c, n)
  <2> SUFFICES ASSUME n > 1, SayAll(posts, c, n - 1)
               PROVE  SayAll(Append(posts, IncrPost(r)), c, n)
    OBVIOUS
  <2>1. PICK s, l : s = Told(c, n - 1) /\ l = AskedIn(posts)
    OBVIOUS
  <2>2. s \in Seq(Message) /\ l \in Seq(Message) /\ <<u>> \in Seq(Message)
    BY <1>3, <1>6, <1>7, <2>1
  <2>3. ToSet(s \o <<u>>) = ToSet(s) \cup ToSet(<<u>>) /\ ToSet(l \o <<u>>) = ToSet(l) \cup ToSet(<<u>>)
    BY <2>2, ToSetConcat, ZenonT(60)
  <2>4. ToSet(s) \subseteq ToSet(l)
    BY <2>1 DEF SayAll
  <2>5. QED
    BY <1>6, <1>7, <2>1, <2>3, <2>4 DEF SayAll
<1>9. n > 1 /\ SayOnce(posts, c, n - 1) => SayOnce(Append(posts, IncrPost(r)), c, n)
  BY <1>6, <1>7 DEF SayOnce
<1>10. QED
  BY <1>5, <1>8, <1>9

\* What was said by the turn before is said by this turn
LEMMA SayMore ==
    ASSUME NEW posts, NEW c \in Conv, NEW n \in 1..MaxTurns, n > 1, SayAll(posts, c, n)
    PROVE  SayAll(posts, c, n - 1)
<1>1. PICK m \in 1..MaxTurns : m = n - 1 /\ n = m + 1
  BY ClientAssumption
<1>2. PICK s, u : s = Told(c, m) /\ u = UserSays(Question[c][m + 1])
  OBVIOUS
<1>3. s \in Seq(Message) /\ u \in Message /\ Told(c, n) = Append(s, u)
  <2>1. Question[c][m + 1] \in Text
    BY <1>1, ClientAssumption
  <2>2. u \in Message
    BY <1>2, <2>1 DEF UserSays, Message, Role
  <2>3. QED
    BY <1>1, <1>2, <2>2, ToldGrows
<1>4. ToSet(s) \subseteq ToSet(Append(s, u))
  <2>1. PICK l : l = Append(s, u)
    OBVIOUS
  <2>2. \A i \in DOMAIN s : i \in DOMAIN l /\ l[i] = s[i]
    BY <1>3, <2>1
  <2>3. QED
    BY <2>1, <2>2 DEF ToSet
<1>5. QED
  BY <1>1, <1>2, <1>3, <1>4 DEF SayAll

LEMMA AcceptServes ==
    ASSUME IInv, CInv, NEW h \in Handler, Accept(h), UNCHANGED clientVars
    PROVE  CInv'
<1>1. pc[h] = "post" /\ table' = table /\ thread' = thread /\ incr' = incr /\ http' = http
  BY DEF Accept
<1>2. PICK c \in Conv : c = client[h] /\ client[h] # None
  BY <1>1, AtWork
<1>3. /\ Counted(c) /\ Spoken(c) /\ turn[c] \in 1..MaxTurns /\ IsTurn(req[h], c, turn[c])
      /\ \A g \in Handler : client[g] = c => g = h
  BY <1>1, <1>2, AtWork
<1>4. thread[h] \in ThreadId /\ issued[thread[h]] = Key(c) /\ upstream[thread[h]] \in Seq(Post)
  BY <1>1, <1>2, OwnThreads DEF CInv, Busy, IInv, TypeOK
<1>5. /\ upstream'[thread[h]] = Append(upstream[thread[h]],
                                       IF incr[h] THEN IncrPost(req[h]) ELSE FullPost(req[h]))
      /\ \A t \in ThreadId \ {thread[h]} : upstream'[t] = upstream[t]
  BY <1>4 DEF Accept, IInv, TypeOK
<1>6. ServerMoves(h, "wait")
  BY <1>2, <1>4, <1>5 DEF Accept, Goto, ServerMoves
<1>7. /\ client' = client /\ turn' = turn /\ heard' = heard /\ misled' = misled /\ unsettled' = unsettled
      /\ pc'[h] = "wait"
  BY DEF Accept, Goto, clientVars, IInv, TypeOK
<1>8. Counted(c)'
  BY <1>1, <1>2, <1>3, <1>7 DEF Counted, CountStarts, CountSettled, RowInUse, HasRow, RowOf, Untouched, Busy
<1>9. /\ c \notin misled => SayAll(upstream'[thread[h]], c, turn[c])
      /\ c \notin misled \cup unsettled => SayOnce(upstream'[thread[h]], c, turn[c])
      /\ c \notin misled /\ incr[h] => SayAll(upstream'[thread[h]], c, turn[c] - 1)
  <2>1. CASE ~incr[h]
    <3>1. upstream[thread[h]] = <<>>
      BY <1>1, <1>2, <1>3, <2>1 DEF Spoken, HandlerSays, Fresh
    <3>4. upstream'[thread[h]] = Append(upstream[thread[h]], FullPost(req[h]))
      BY <1>5, <2>1
    <3>2. SayOnce(upstream'[thread[h]], c, turn[c])
      BY <1>3, <1>4, <3>1, <3>4, PostAdds
    <3>3. QED
      BY <2>1, <3>2 DEF SayOnce, SayAll
  <2>2. CASE incr[h]
    <3>1. turn[c] > 1
      BY <1>1, <1>2, <1>3, <2>2 DEF Counted, RowInUse, Busy
    <3>2. /\ c \notin misled => SayAll(upstream[thread[h]], c, turn[c] - 1)
          /\ c \notin misled \cup unsettled => SayOnce(upstream[thread[h]], c, turn[c] - 1)
      BY <1>1, <1>2, <1>3, <2>2 DEF Spoken, HandlerSays, Short, Busy
    <3>3. upstream'[thread[h]] = Append(upstream[thread[h]], IncrPost(req[h]))
      BY <1>5, <2>2
    <3>4. /\ SayAll(upstream[thread[h]], c, turn[c] - 1) => SayAll(upstream'[thread[h]], c, turn[c])
          /\ SayOnce(upstream[thread[h]], c, turn[c] - 1) => SayOnce(upstream'[thread[h]], c, turn[c])
      BY <1>3, <1>4, <3>1, <3>3, PostAdds
    <3>5. SayAll(upstream'[thread[h]], c, turn[c]) => SayAll(upstream'[thread[h]], c, turn[c] - 1)
      BY <1>3, <3>1, SayMore
    <3>6. QED
      BY <3>2, <3>4, <3>5
  <2>3. QED
    BY <2>1, <2>2
<1>10. Spoken(c)'
  <2>1. RowSays(c)'
    BY <1>2, <1>7 DEF RowSays, Resting, Busy
  <2>2. HandlerSays(c)'
    BY <1>1, <1>3, <1>7, <1>9 DEF HandlerSays, Fresh, Short, Whole
  <2>3. QED
    BY <2>1, <2>2 DEF Spoken
<1>11. QED
  BY <1>2, <1>6, <1>7, <1>8, <1>10, MovesAlone DEF Pc

LEMMA ReturnServes ==
    ASSUME IInv, CInv, NEW h \in Handler, NEW class \in HttpClass, UpstreamReturns(h, class)
    PROVE  CInv'
<1>1. /\ pc[h] \in {"post", "wait"} /\ (pc[h] = "post" => class # "ok")
      /\ table' = table /\ upstream' = upstream /\ thread' = thread /\ incr' = incr
      /\ http'[h] = class
  BY DEF UpstreamReturns, Return, IInv, TypeOK
<1>2. PICK c \in Conv : c = client[h] /\ client[h] # None
  BY <1>1, AtWork
<1>3. /\ Counted(c) /\ Spoken(c)
      /\ \A g \in Handler : client[g] = c => g = h
  BY <1>1, <1>2, AtWork
<1>4. /\ client' = client /\ turn' = turn /\ heard' = heard /\ misled' = misled /\ unsettled' = unsettled
      /\ pc'[h] = "settle"
  BY DEF UpstreamReturns, Return, Goto, IInv, TypeOK
<1>5. Counted(c)'
  BY <1>1, <1>2, <1>3, <1>4 DEF Counted, CountStarts, CountSettled, RowInUse, HasRow, RowOf, Untouched, Busy
<1>6. RowSays(c)'
  BY <1>2, <1>4 DEF RowSays, Resting, Busy
<1>7. HandlerSays(c)'
  <2>1. Taken(h)' => Taken(h)
    BY <1>1, <1>4 DEF Taken
  <2>2. QED
    BY <1>1, <1>3, <1>4, <2>1 DEF Spoken, HandlerSays, Fresh, Short, Whole, Busy
<1>8. faults' \in Nat
  BY DEF UpstreamReturns, CInv, ClientsTypeOK
<1>9. ClientsTypeOK' /\ ServedOnce'
  <2>1. ClientsTypeOK'
    BY <1>4, <1>8 DEF CInv, ClientsTypeOK
  <2>2. req' = req /\ pc[h] # "idle" /\ \A g \in Handler \ {h} : pc'[g] = pc[g]
    BY <1>1 DEF UpstreamReturns, Return, Goto, IInv, TypeOK
  <2>3. ServedOnce'
    BY <1>4, <2>2 DEF CInv, ServedOnce
  <2>4. QED
    BY <2>1, <2>3
<1>10. \A g \in Handler \ {h} : pc'[g] = pc[g] /\ http'[g] = http[g]
  BY DEF UpstreamReturns, Return, Goto, IInv, TypeOK
<1>11. \A d \in Conv \ {c} : Counted(d)' /\ Spoken(d)'
  BY <1>1, <1>2, <1>4, <1>10, OthersKept
<1>12. QED
  BY <1>5, <1>6, <1>7, <1>9, <1>11 DEF CInv, Spoken

LEMMA AskServes ==
    ASSUME IInv, CInv, NEW c \in Conv, NEW h \in Handler, Ask(c, h)
    PROVE  CInv'
<1>a. PICK s \in BOOLEAN : Arrive(h, TurnRequest(c, turn[c], s))
  BY DEF Ask
<1>b. turn[c] \in 1..MaxTurns
  BY ClientAssumption DEF Ask, CInv, ClientsTypeOK
<1>1. /\ pc[h] = "idle" /\ turn[c] \in 1..MaxTurns
      /\ client' = [client EXCEPT ![h] = c] /\ pc' = [pc EXCEPT ![h] = "find"]
      /\ req' = [req EXCEPT ![h] = TurnRequest(c, turn[c], s)]
      /\ UNCHANGED <<table, upstream, thread, incr, http, turn, heard, misled, unsettled, faults>>
  BY <1>a, <1>b DEF Ask, Arrive, Goto
<1>2. \A g \in Handler : client[g] # c
  BY DEF Ask, Waiting
<1>3. client[h] = None /\ c # None
  BY <1>1, ClientAssumption DEF CInv, ServedOnce
<1>4. client'[h] = c /\ pc'[h] = "find" /\ IsTurn(req'[h], c, turn[c])
  BY <1>1 DEF CInv, ClientsTypeOK, IInv, TypeOK, IsTurn
<1>5. \A g \in Handler \ {h} : client'[g] = client[g] /\ pc'[g] = pc[g] /\ req'[g] = req[g]
  BY <1>1 DEF CInv, ClientsTypeOK, IInv, TypeOK
<1>6. ClientsTypeOK'
  BY <1>1 DEF CInv, ClientsTypeOK
<1>7. ServedOnce'
  BY <1>1, <1>2, <1>3, <1>4, <1>5 DEF CInv, ServedOnce
<1>8. HasRow(c)' <=> HasRow(c)
  BY <1>1 DEF HasRow, RowOf
<1>9. Resting(c) /\ Untouched(c) /\ Counted(c) /\ Spoken(c)
  BY <1>2 DEF Resting, Untouched, CInv
<1>10. Counted(c)'
  BY <1>1, <1>2, <1>4, <1>5, <1>9
  DEF Counted, CountStarts, CountSettled, RowInUse, HasRow, RowOf, Busy
<1>11. Spoken(c)'
  BY <1>1, <1>2, <1>4, <1>5, <1>9
  DEF Spoken, RowSays, HandlerSays, Fresh, Short, Whole, HasRow, RowOf, Busy
<1>12. \A d \in Conv \ {c} : Counted(d)' /\ Spoken(d)'
  BY <1>1, <1>3, <1>4, <1>5, OthersKept
<1>13. QED
  BY <1>6, <1>7, <1>10, <1>11, <1>12 DEF CInv

LEMMA RegenerateServes ==
    ASSUME IInv, CInv, NEW c \in Conv, Regenerate(c)
    PROVE  CInv'
<1>1. /\ turn[c] > 1 /\ turn' = [turn EXCEPT ![c] = @ - 1]
      /\ heard' = [heard EXCEPT ![c] = "nothing"] /\ unsettled' = unsettled \cup {c}
      /\ UNCHANGED <<vars, client, misled>> /\ faults' = faults + 1
      /\ \A g \in Handler : client[g] # c
  BY DEF Regenerate, Waiting
<1>2. turn[c] \in 1..(MaxTurns + 1) /\ turn'[c] = turn[c] - 1 /\ c \in unsettled'
      /\ \A d \in Conv \ {c} : turn'[d] = turn[d] /\ heard'[d] = heard[d]
                               /\ (d \in unsettled' <=> d \in unsettled)
  BY <1>1 DEF CInv, ClientsTypeOK
<1>3. MaxTurns \in Nat
  BY ClientAssumption
<1>4. ClientsTypeOK'
  <2>1. turn' \in [Conv -> 1..(MaxTurns + 1)]
    BY <1>1, <1>2, <1>3 DEF CInv, ClientsTypeOK
  <2>2. heard' \in [Conv -> HttpClass \cup {"nothing", "cut"}]
    BY <1>1 DEF CInv, ClientsTypeOK
  <2>3. QED
    BY <1>1, <2>1, <2>2 DEF CInv, ClientsTypeOK
<1>5. UNCHANGED <<table, upstream, pc, req, thread, incr, http, client, misled>>
  BY <1>1 DEF vars, handlerVars
<1>6. ServedOnce'
  <2>1. \A h \in Handler : client[h] # None => client[h] \in Conv \ {c}
    BY <1>1 DEF CInv, ClientsTypeOK
  <2>2. QED
    BY <1>2, <1>5, <2>1 DEF CInv, ServedOnce
<1>7. \A d \in Conv \ {c} : Counted(d)' /\ Spoken(d)'
  <2> SUFFICES ASSUME NEW d \in Conv, d # c
               PROVE  Counted(d)' /\ Spoken(d)'
    OBVIOUS
  <2>1. Counted(d) /\ Spoken(d) /\ ClientsTypeOK /\ ServedOnce
    BY DEF CInv
  <2>2. QED
    BY <1>2, <1>5, <2>1, Undisturbed
<1>8. Counted(c) /\ Spoken(c) /\ Resting(c)
  BY <1>1 DEF CInv, Resting
<1>9. (HasRow(c)' <=> HasRow(c)) /\ RowOf(c)' = RowOf(c)
  BY <1>5 DEF HasRow, RowOf
<1>10. Counted(c)'
  BY <1>1, <1>2, <1>5, <1>8, <1>9 DEF Counted, CountStarts, CountSettled, RowInUse
<1>11. RowSays(c)'
  <2> SUFFICES ASSUME c \notin misled, HasRow(c), RowOf(c).count < Length(c, turn[c] - 1)
               PROVE  SayAll(upstream[RowOf(c).thread], c, (turn[c] - 1) - 1)
    BY <1>2, <1>5, <1>9 DEF RowSays
  <2>1. RowOf(c).count \in Nat /\ RowOf(c).count >= Length(c, 1)
    BY <1>8, OwnThreads DEF CInv, Counted, CountStarts
  <2>2. RowOf(c).count < Length(c, turn[c]) /\ turn[c] - 1 > 1
    BY <1>2, <1>3, <2>1 DEF Length
  <2>3. SayAll(upstream[RowOf(c).thread], c, turn[c] - 1)
    BY <1>8, <2>2 DEF Spoken, RowSays
  <2>4. turn[c] - 1 \in 1..MaxTurns
    BY <1>2, <1>3, <2>2
  <2>5. QED
    BY <2>2, <2>3, <2>4, SayMore
<1>12. HandlerSays(c)'
  BY <1>1, <1>5 DEF HandlerSays
<1>13. QED
  BY <1>4, <1>6, <1>7, <1>10, <1>11, <1>12 DEF CInv, Spoken

LEMMA CrashServes ==
    ASSUME IInv, CInv, CrashSeen
    PROVE  CInv'
<1>1. /\ \A h \in Handler : client'[h] = None /\ pc'[h] = "idle"
      /\ client' = [h \in Handler |-> None]
      /\ unsettled' = unsettled \cup {c \in Conv : Waiting(c)}
      /\ UNCHANGED <<table, upstream, faults>>
  BY DEF CrashSeen, Crash
<1>a. PICK on \in SUBSET Streaming :
        /\ heard' = [c \in Conv |-> IF \E h \in on : client[h] = c THEN "cut"
                                    ELSE IF Waiting(c) THEN "none" ELSE heard[c]]
        /\ turn' = [c \in Conv |-> IF \E h \in on : client[h] = c THEN turn[c] + 1 ELSE turn[c]]
        /\ misled' = misled \cup {client[h] : h \in {g \in on : Misleads(g)}}
  BY DEF CrashSeen
<1>b. \A h \in on : /\ h \in Handler /\ pc[h] \in Busy /\ client[h] \in Conv
                    /\ turn[client[h]] \in 1..MaxTurns /\ ConvKey(req[h]) = Key(client[h])
  BY AtWork DEF Streaming, Busy
<1>2. ClientsTypeOK'
  <2>1. heard' \in [Conv -> HttpClass \cup {"nothing", "cut"}]
    BY <1>a DEF CInv, ClientsTypeOK, HttpClass
  <2>2. client' \in [Handler -> Conv \cup {None}] /\ unsettled' \subseteq Conv
    BY <1>1 DEF CInv, ClientsTypeOK
  <2>3. turn' \in [Conv -> 1..(MaxTurns + 1)]
    BY <1>a, <1>b, ClientAssumption DEF CInv, ClientsTypeOK
  <2>4. misled' \subseteq Conv
    BY <1>a, <1>b DEF CInv, ClientsTypeOK
  <2>5. QED
    BY <1>1, <2>1, <2>2, <2>3, <2>4 DEF CInv, ClientsTypeOK
<1>3. ServedOnce'
  BY <1>1 DEF ServedOnce
<1>4. ASSUME NEW c \in Conv
      PROVE  Counted(c)' /\ Spoken(c)'
  <2>1. Counted(c) /\ Spoken(c)
    BY DEF CInv
  <2>2. (HasRow(c)' <=> HasRow(c)) /\ RowOf(c)' = RowOf(c)
    BY <1>1 DEF HasRow, RowOf
  <2>3. c # None
    BY ClientAssumption
  <2>4. Untouched(c) \/ Waiting(c)
    BY DEF Untouched, Waiting
  <2>5. c \notin misled' => c \notin misled
    BY <1>a
  <2>6. HandlerSays(c)' /\ RowInUse(c)'
    BY <1>1, <2>3 DEF HandlerSays, RowInUse
  <2>7. CountStarts(c)'
    BY <2>1, <2>2 DEF Counted, CountStarts
  <2>8. CASE \E h \in on : client[h] = c
    <3>1. PICK h \in on : client[h] = c
      BY <2>8
    <3>2. turn'[c] = turn[c] + 1 /\ turn[c] \in 1..MaxTurns /\ c \in unsettled'
      BY <1>1, <1>a, <1>b, <3>1 DEF Waiting
    <3>3. CountSettled(c)'
      BY <3>2 DEF CountSettled
    <3>4. RowSays(c)'
      <4> SUFFICES ASSUME c \notin misled', HasRow(c)
                   PROVE  SayAll(upstream[RowOf(c).thread], c, turn[c])
        BY <1>1, <2>2, <3>2 DEF RowSays
      <4>1. Taken(h)
        BY <1>1, <1>a, <1>b, <3>1 DEF Misleads, HasRow, RowOf
      <4>2. RowOf(c).thread = thread[h]
        BY <1>b, <2>1, <3>1 DEF Counted, RowInUse
      <4>3. SayAll(upstream[thread[h]], c, turn[c])
        BY <1>b, <2>1, <2>5, <3>1, <4>1 DEF Spoken, HandlerSays, Whole
      <4>4. QED
        BY <4>2, <4>3
    <3>5. QED
      BY <2>6, <2>7, <3>3, <3>4 DEF Counted, Spoken
  <2>9. CASE ~\E h \in on : client[h] = c
    <3>1. turn'[c] = turn[c] /\ (Waiting(c) => c \in unsettled') /\ (~Waiting(c) => heard'[c] = heard[c])
      BY <1>1, <1>a, <2>9
    <3>2. CountSettled(c)'
      BY <1>1, <2>1, <2>2, <2>4, <3>1 DEF Counted, CountSettled
    <3>3. RowSays(c)'
      <4> SUFFICES ASSUME c \notin misled, HasRow(c), RowOf(c).count < Length(c, turn[c])
                   PROVE  /\ SayAll(upstream[RowOf(c).thread], c, turn[c] - 1)
                          /\ c \notin unsettled' => SayOnce(upstream[RowOf(c).thread], c, turn[c] - 1)
        BY <1>1, <2>2, <2>5, <3>1 DEF RowSays
      <4>1. CASE Resting(c)
        BY <1>1, <2>1, <4>1 DEF Spoken, RowSays
      <4>2. CASE ~Resting(c)
        <5>1. PICK h \in Handler : client[h] = c /\ pc[h] \in Busy
          BY <4>2 DEF Resting
        <5>2. RowOf(c).thread = thread[h] /\ (~incr[h] => RowOf(c).count = Length(c, turn[c]))
          BY <2>1, <5>1 DEF Counted, RowInUse
        <5>3. incr[h]
          BY <5>2, OwnThreads DEF CInv, Length
        <5>4. SayAll(upstream[thread[h]], c, turn[c] - 1)
          BY <2>1, <5>1, <5>3 DEF Spoken, HandlerSays
        <5>5. c \in unsettled'
          BY <1>1, <5>1 DEF Waiting
        <5>6. QED
          BY <5>2, <5>4, <5>5
      <4>3. QED
        BY <4>1, <4>2
    <3>4. QED
      BY <2>6, <2>7, <3>2, <3>3 DEF Counted, Spoken
  <2>10. QED
    BY <2>8, <2>9
<1>5. QED
  BY <1>2, <1>3, <1>4 DEF CInv

LEMMA OutsideServes ==
    ASSUME IInv, CInv,
           UNCHANGED <<table, upstream, pc, req, thread, incr, http,
                       turn, client, heard, misled, unsettled, faults>>
    PROVE  CInv'
<1>1. ClientsTypeOK' /\ ServedOnce'
  BY DEF CInv, ClientsTypeOK, ServedOnce
<1>2. ASSUME NEW c \in Conv
      PROVE  Counted(c)' /\ Spoken(c)'
  <2>1. Counted(c) /\ Spoken(c) /\ ClientsTypeOK /\ ServedOnce
    BY DEF CInv
  <2>2. QED
    BY <2>1, Undisturbed
<1>3. QED
  BY <1>1, <1>2 DEF CInv

LEMMA HearServes ==
    ASSUME IInv, CInv, NEW h \in Handler, Hear(h)
    PROVE  CInv'
<1>0. Finish(h) /\ client' = [client EXCEPT ![h] = None] /\ UNCHANGED <<unsettled, faults>>
  BY DEF Hear, GoOn, GiveUp
<1>1. PICK c \in Conv : c = client[h] /\ client[h] # None /\ pc[h] = "settle"
  BY <1>0, AtWork DEF Finish
<1>2. /\ Counted(c) /\ Spoken(c) /\ Key(c) \in Conversation /\ ConvKey(req[h]) = Key(c)
      /\ turn[c] \in 1..MaxTurns /\ (\A g \in Handler : client[g] = c => g = h)
      /\ http[h] \in HttpClass
  BY <1>1, AtWork DEF IInv, TypeOK
<1>3. /\ pc' = [pc EXCEPT ![h] = "idle"] /\ upstream' = upstream /\ table' = Settled(h)
      /\ \/ /\ turn' = [turn EXCEPT ![c] = @ + 1]
            /\ heard' = [heard EXCEPT ![c] = IF Failed(h) THEN "cut" ELSE http[h]]
            /\ misled' = IF Misleads(h) THEN misled \cup {c} ELSE misled
         \/ /\ Failed(h) /\ turn' = turn /\ misled' = misled
            /\ heard' = [heard EXCEPT ![c] = http[h]]
  BY <1>0, <1>1 DEF Hear, GoOn, GiveUp, Finish, Goto
<1>4. /\ client'[h] = None /\ pc'[h] = "idle"
      /\ \A g \in Handler \ {h} : client'[g] = client[g] /\ pc'[g] = pc[g]
      /\ \A d \in Conv \ {c} : turn'[d] = turn[d] /\ heard'[d] = heard[d]
                               /\ (d \in misled' <=> d \in misled)
      /\ c \notin misled' => c \notin misled
  BY <1>0, <1>3 DEF CInv, ClientsTypeOK, IInv, TypeOK
<1>a. \/ /\ turn'[c] = turn[c] + 1 /\ heard'[c] = (IF Failed(h) THEN "cut" ELSE http[h])
         /\ HasRow(c)' /\ c \notin misled' => Taken(h)
      \/ Failed(h) /\ turn'[c] = turn[c] /\ heard'[c] = http[h]
  BY <1>2, <1>3 DEF CInv, ClientsTypeOK, Misleads, HasRow, RowOf
<1>5. \A g \in Handler \ {h} :
        req'[g] = req[g] /\ thread'[g] = thread[g] /\ incr'[g] = incr[g] /\ http'[g] = http[g]
  BY <1>0 DEF Finish, IInv, TypeOK
<1>6. c # None /\ \A g \in Handler : client'[g] # c
  BY <1>2, <1>4, ClientAssumption
<1>7. ClientsTypeOK'
  <2>1. turn' \in [Conv -> 1..(MaxTurns + 1)]
    <3>1. turn \in [Conv -> 1..(MaxTurns + 1)] /\ turn[c] + 1 \in 1..(MaxTurns + 1)
      BY <1>2, ClientAssumption DEF CInv, ClientsTypeOK
    <3>2. turn' = [turn EXCEPT ![c] = turn[c] + 1] \/ turn' = turn
      BY <1>3
    <3>3. QED
      BY <3>1, <3>2
  <2>2. heard' \in [Conv -> HttpClass \cup {"nothing", "cut"}]
    <3>1. PICK w : w = IF Failed(h) THEN "cut" ELSE http[h]
      OBVIOUS
    <3>2. w \in HttpClass \cup {"nothing", "cut"}
      BY <1>2, <3>1
    <3>3. heard' = [heard EXCEPT ![c] = w] \/ heard' = [heard EXCEPT ![c] = http[h]]
      BY <1>3, <3>1
    <3>4. QED
      BY <1>2, <3>2, <3>3 DEF CInv, ClientsTypeOK
  <2>3. client' \in [Handler -> Conv \cup {None}] /\ misled' \subseteq Conv
    BY <1>0, <1>3 DEF CInv, ClientsTypeOK
  <2>4. QED
    BY <1>0, <2>1, <2>2, <2>3 DEF CInv, ClientsTypeOK
<1>8. ServedOnce'
  <2>1. \A g \in Handler \ {h} : client[g] # None => client[g] \in Conv \ {c}
    BY <1>2 DEF CInv, ClientsTypeOK
  <2>2. QED
    BY <1>4, <1>5, <2>1 DEF CInv, ServedOnce
<1>9. \A k \in Conversation : k = Key(c) \/ table'[k] = table[k]
  <2>1. Settled(h) = table \/ Settled(h) = WithoutRow(Key(c)) \/ Settled(h) = Incremented(Key(c))
    BY <1>2 DEF Settled
  <2>2. QED
    BY <1>2, <1>3, <2>1 DEF WithoutRow, Incremented, IInv, TypeOK
<1>10. \A d \in Conv \ {c} : Counted(d)' /\ Spoken(d)'
  BY <1>0, <1>1, <1>3, <1>4, <1>5, <1>9, OthersKept
<1>11. HasRow(c) => RowOf(c) \in Row /\ RowOf(c).count \in Nat
  BY <1>2 DEF HasRow, RowOf, IInv, TypeOK, Row
<1>12. \/ ~HasRow(c)'
       \/ HasRow(c) /\ RowOf(c)' = RowOf(c) /\ (incr[h] => http[h] = "redirect")
       \/ /\ HasRow(c) /\ incr[h] /\ http[h] = "ok"
          /\ RowOf(c)'.thread = RowOf(c).thread /\ RowOf(c)'.count = RowOf(c).count + 1
  <2>1. CASE incr[h] /\ http[h] \in {"none", "rejected", "error"}
    <3>1. table' = WithoutRow(Key(c))
      BY <1>2, <1>3, <2>1 DEF Settled
    <3>2. QED
      BY <1>2, <3>1 DEF WithoutRow, HasRow, RowOf, IInv, TypeOK
  <2>2. CASE incr[h] /\ http[h] = "ok"
    <3>1. table' = Incremented(Key(c))
      BY <1>2, <1>3, <2>2 DEF Settled
    <3>2. QED
      BY <1>2, <2>2, <3>1 DEF Incremented, HasRow, RowOf, IInv, TypeOK
  <2>3. CASE ~incr[h] \/ http[h] = "redirect"
    <3>1. table' = table
      BY <1>3, <2>3 DEF Settled
    <3>2. QED
      BY <2>3, <3>1 DEF HasRow, RowOf
  <2>4. QED
    BY <1>2, <2>1, <2>2, <2>3 DEF HttpClass
<1>13. HasRow(c) =>
         /\ RowOf(c).thread = thread[h]
         /\ incr[h] => RowOf(c).count < Length(c, turn[c])
         /\ ~incr[h] => RowOf(c).count = Length(c, turn[c])
  BY <1>1, <1>2 DEF Counted, RowInUse, Busy
<1>14. Length(c, turn[c]) \in Int
  BY <1>2 DEF Length
<1>15. Counted(c)'
  <2>1. CountStarts(c)'
    BY <1>2, <1>11, <1>12 DEF Counted, CountStarts, Length
  <2>2. CountSettled(c)'
    <3> SUFFICES ASSUME HasRow(c)'
                 PROVE  \/ heard'[c] \in {"none", "error"} /\ RowOf(c)'.count = Length(c, turn'[c])
                        \/ /\ heard'[c] \in {"ok", "redirect", "rejected", "cut"}
                           /\ RowOf(c)'.count <= Length(c, turn'[c] - 1)
      BY DEF CountSettled
    <3>1. HasRow(c)
      BY <1>12
    <3>2. CASE Failed(h) /\ turn'[c] = turn[c] /\ heard'[c] = http[h]
      <4>1. http[h] \in {"none", "error"}
        BY <3>2 DEF Failed
      <4>2. ~incr[h] /\ RowOf(c)' = RowOf(c)
        BY <1>12, <4>1
      <4>3. QED
        BY <1>13, <3>1, <3>2, <4>1, <4>2
    <3>3. CASE turn'[c] = turn[c] + 1 /\ heard'[c] = (IF Failed(h) THEN "cut" ELSE http[h])
      <4>1. turn'[c] - 1 = turn[c]
        BY <1>2, <3>3
      <4>2. RowOf(c)'.count <= Length(c, turn[c])
        BY <1>11, <1>12, <1>13, <1>14, <3>1
      <4>3. heard'[c] \in {"ok", "redirect", "rejected", "cut"}
        BY <1>2, <3>3 DEF Failed, HttpClass
      <4>4. QED
        BY <4>1, <4>2, <4>3
    <3>4. QED
      BY <1>a, <3>2, <3>3
  <2>3. RowInUse(c)'
    BY <1>6 DEF RowInUse
  <2>4. QED
    BY <2>1, <2>2, <2>3 DEF Counted
<1>16. RowSays(c)'
  <2> SUFFICES ASSUME c \notin misled', HasRow(c)', RowOf(c)'.count < Length(c, turn'[c])
               PROVE  /\ SayAll(upstream[RowOf(c)'.thread], c, turn'[c] - 1)
                      /\ c \notin unsettled => SayOnce(upstream[RowOf(c)'.thread], c, turn'[c] - 1)
    BY <1>0, <1>3 DEF RowSays
  <2>1. HasRow(c) /\ RowOf(c)'.thread = thread[h] /\ c \notin misled
    BY <1>4, <1>12, <1>13
  <2>2. CASE turn'[c] = turn[c] + 1 /\ Taken(h)
    <3>1. turn'[c] - 1 = turn[c]
      BY <1>2, <2>2
    <3>2. /\ SayAll(upstream[thread[h]], c, turn[c])
          /\ c \notin unsettled => SayOnce(upstream[thread[h]], c, turn[c])
      BY <1>1, <1>2, <2>1, <2>2 DEF Spoken, HandlerSays, Whole, Busy
    <3>3. QED
      BY <2>1, <3>1, <3>2
  <2>3. CASE Failed(h) /\ turn'[c] = turn[c]
    <3>1. ~incr[h] /\ RowOf(c)' = RowOf(c)
      BY <1>12, <2>3 DEF Failed
    <3>2. RowOf(c)'.count = Length(c, turn'[c])
      BY <1>13, <2>1, <2>3, <3>1
    <3>3. QED
      BY <1>14, <2>3, <3>2
  <2>4. QED
    BY <1>a, <2>2, <2>3
<1>17. HandlerSays(c)'
  BY <1>6 DEF HandlerSays
<1>18. QED
  BY <1>7, <1>8, <1>10, <1>15, <1>16, <1>17 DEF CInv, Spoken

\* Every step of a client is a step of the server, or none
LEMMA ClientSteps == ClientsTypeOK /\ [CNext]_cvars => [Next]_vars
<1> SUFFICES ASSUME ClientsTypeOK, [CNext]_cvars
             PROVE  [Next]_vars
  OBVIOUS
<1>1. ASSUME NEW c \in Conv, NEW h \in Handler, Ask(c, h)
      PROVE  Next
  <2>1. turn[c] \in 1..MaxTurns
    BY <1>1, ClientAssumption DEF Ask, ClientsTypeOK
  <2>2. PICK s \in BOOLEAN : Arrive(h, TurnRequest(c, turn[c], s))
    BY <1>1 DEF Ask
  <2>3. PICK r \in Request : r = TurnRequest(c, turn[c], s)
    BY <2>1, TurnsAssumption
  <2>4. QED
    BY <2>2, <2>3 DEF Next
<1>2. ASSUME NEW c \in Conv, Regenerate(c)
      PROVE  UNCHANGED vars
  BY <1>2 DEF Regenerate
<1>3. ASSUME NEW h \in Handler, ServerStep(h)
      PROVE  Next
  <2>1. HandlerStep(h)
    BY <1>3 DEF ServerStep, HandlerStep
  <2>2. QED
    BY <2>1 DEF Next
<1>4. ASSUME NEW h \in Handler, NEW class \in HttpClass, UpstreamReturns(h, class)
      PROVE  Next
  <2>1. HandlerStep(h)
    BY <1>4 DEF UpstreamReturns, HandlerStep
  <2>2. QED
    BY <2>1 DEF Next
<1>5. ASSUME NEW h \in Handler, Hear(h)
      PROVE  Next
  <2>1. HandlerStep(h)
    BY <1>5 DEF Hear, GoOn, GiveUp, HandlerStep
  <2>2. QED
    BY <2>1 DEF Next
<1>6. (Tick \/ \E t \in ThreadId : LoseThread(t)) \/ CrashSeen => Next
  BY DEF CrashSeen, Environment, Next
<1>7. UNCHANGED cvars => UNCHANGED vars
  BY DEF cvars
<1>8. QED
  BY <1>1, <1>2, <1>3, <1>4, <1>5, <1>6, <1>7 DEF CNext

LEMMA ClientsStart == CInit => IInv /\ CInv
<1> SUFFICES ASSUME CInit PROVE IInv /\ CInv
  OBVIOUS
<1>1. IInv
  BY InitIInv DEF CInit
<1>2. ClientsTypeOK /\ ServedOnce
  BY ClientAssumption DEF CInit, Init, ClientsTypeOK, ServedOnce
<1>3. ASSUME NEW c \in Conv
      PROVE  Counted(c) /\ Spoken(c)
  <2>1. ~HasRow(c) /\ c # None /\ \A h \in Handler : client[h] = None
    BY KeysApart, ClientAssumption DEF CInit, Init, HasRow, RowOf
  <2>2. QED
    BY <2>1 DEF Counted, CountStarts, CountSettled, RowInUse, Spoken, RowSays, HandlerSays
<1>4. QED
  BY <1>1, <1>2, <1>3 DEF CInv

LEMMA ClientsGoOn == IInv /\ CInv /\ [CNext]_cvars => IInv' /\ CInv'
<1> SUFFICES ASSUME IInv, CInv, [CNext]_cvars
             PROVE  IInv' /\ CInv'
  OBVIOUS
<1>1. IInv'
  BY ClientSteps, NextIInv DEF CInv
<1>2. CASE UNCHANGED cvars
  <2>1. UNCHANGED <<table, upstream, pc, req, thread, incr, http,
                    turn, client, heard, misled, unsettled, faults>>
    BY <1>2 DEF cvars, vars, handlerVars, clientVars
  <2>2. QED
    BY <1>1, <2>1, OutsideServes
<1>3. ASSUME NEW h \in Handler, ServerStep(h), UNCHANGED clientVars
      PROVE  CInv'
  BY <1>3, StartFindServes, FindRowServes, MissRowServes, SaveRowServes, AcceptServes DEF ServerStep
<1>4. CASE (Tick \/ \E t \in ThreadId : LoseThread(t)) /\ UNCHANGED clientVars
  <2>1. UNCHANGED <<table, upstream, pc, req, thread, incr, http,
                    turn, client, heard, misled, unsettled, faults>>
    BY <1>4 DEF Tick, LoseThread, handlerVars, clientVars
  <2>2. QED
    BY <1>1, <2>1, OutsideServes
<1>5. QED
  BY <1>1, <1>2, <1>3, <1>4, AskServes, RegenerateServes, ReturnServes, HearServes, CrashServes DEF CNext

LEMMA ClientsInvariance == CSpec => [](IInv /\ CInv)
<1>1. QED
  BY ClientsStart, ClientsGoOn, PTL DEF CSpec

\* What clients and server do together is something the server does: whatever
\* is proved of ChatThreads for requests from anybody holds for these clients.
THEOREM ClientsAreServed == CSpec => Spec
<1>1. IInv /\ CInv /\ [CNext]_cvars => [Next]_vars
  BY ClientSteps DEF CInv
<1>2. CInit => Init
  BY DEF CInit
<1>3. QED
  BY <1>1, <1>2, ClientsInvariance, PTL DEF CSpec, Spec

\* For any number of clients: a turn sent again after a failure is never posted
\* to the thread on which it failed (resolve_thread, thread_state_delete).
THEOREM RetriesAreNew == CSpec => []RetriesStartOver
<1>1. IInv /\ CInv => RetriesStartOver
  <2> SUFFICES ASSUME IInv, CInv, NEW h \in Handler, pc[h] = "row", client[h] \notin unsettled,
                      heard[client[h]] \in {"none", "error"}, MayContinue(h)
               PROVE  FALSE
    BY DEF RetriesStartOver
  <2>1. PICK c \in Conv : c = client[h]
    BY AtWork
  <2>2. /\ Counted(c) /\ ConvKey(req[h]) = Key(c) /\ Len(EffectiveMsgs(req[h])) = Length(c, turn[c])
        /\ \A g \in Handler : client[g] = c => g = h
    BY <2>1, AtWork
  <2>3. HasRow(c) /\ Length(c, turn[c]) > RowOf(c).count
    BY <2>2 DEF MayContinue, HasRow, RowOf
  <2>4. Untouched(c)
    BY <2>2 DEF Untouched
  <2>5. RowOf(c).count = Length(c, turn[c])
    BY <2>1, <2>2, <2>3, <2>4 DEF Counted, CountSettled
  <2>6. RowOf(c).count \in Nat
    BY <2>3, OwnThreads DEF CInv
  <2>7. QED
    BY <2>3, <2>5, <2>6
<1>2. QED
  BY <1>1, ClientsInvariance, PTL

\* For any number of turns: message_count never catches up with a client that
\* goes on, so its next turn continues whatever unexpired row it finds
\* (msg_count > ts.message_count in resolve_thread).
THEOREM TurnsContinue == CSpec => []NextTurnsContinue
<1>1. IInv /\ CInv => NextTurnsContinue
  <2> SUFFICES ASSUME IInv, CInv, NEW h \in Handler, pc[h] = "row", client[h] \notin unsettled,
                      heard[client[h]] = "ok", table[ConvKey(req[h])] # None,
                      ~Expired(table[ConvKey(req[h])], seen[h])
               PROVE  MayContinue(h)
    BY DEF NextTurnsContinue
  <2>1. PICK c \in Conv : c = client[h]
    BY AtWork
  <2>2. /\ Counted(c) /\ ConvKey(req[h]) = Key(c) /\ Len(EffectiveMsgs(req[h])) = Length(c, turn[c])
        /\ turn[c] \in 1..MaxTurns /\ \A g \in Handler : client[g] = c => g = h
    BY <2>1, AtWork
  <2>3. HasRow(c) /\ Untouched(c)
    BY <2>2 DEF HasRow, RowOf, Untouched
  <2>4. RowOf(c).count <= Length(c, turn[c] - 1)
    BY <2>1, <2>2, <2>3 DEF Counted, CountSettled
  <2>5. RowOf(c).count \in Nat
    BY <2>3, OwnThreads DEF CInv
  <2>6. Length(c, turn[c]) > RowOf(c).count
    BY <2>2, <2>4, <2>5 DEF Length
  <2>7. QED
    BY <2>2, <2>6 DEF MayContinue, RowOf
<1>2. QED
  BY <1>1, ClientsInvariance, PTL

\* For any conversations of any length, however posts fail, handlers interleave,
\* rows expire and threads are forgotten: when UvA has taken a request, its
\* thread says what the request says, once, unless its client went on from a
\* turn UvA does not have (resolve_thread, translate_request,
\* translate_request_incremental and the settling of the row).
THEOREM ContextIsKept == CSpec => []ContextKept
<1>1. IInv /\ CInv => ContextKept
  <2> SUFFICES ASSUME IInv, CInv, NEW h \in Handler, pc[h] = "wait", client[h] \notin misled \cup unsettled
               PROVE  Context(thread[h]) = Asked(EffectiveMsgs(req[h]))
    BY DEF ContextKept
  <2>1. PICK c \in Conv : c = client[h]
    BY AtWork
  <2>2. Spoken(c) /\ Asked(EffectiveMsgs(req[h])) = Told(c, turn[c])
    BY <2>1, AtWork
  <2>3. SayOnce(upstream[thread[h]], c, turn[c])
    BY <2>1, <2>2 DEF Spoken, HandlerSays, Whole, Taken, Busy
  <2>4. QED
    BY <2>2, <2>3 DEF SayOnce, Context, AskedIn
<1>2. QED
  BY <1>1, ClientsInvariance, PTL

\* The same for clients that ask again or whose request a crash of the proxy
\* takes: a turn may be posted twice, but none is missing from the thread, of
\* clients that did not go on from a turn UvA does not have.
THEOREM NoTurnIsMissing == CSpec => []NoTurnMissing
<1>1. IInv /\ CInv => NoTurnMissing
  <2> SUFFICES ASSUME IInv, CInv, NEW h \in Handler, pc[h] = "wait", client[h] \notin misled
               PROVE  ToSet(Asked(EffectiveMsgs(req[h]))) \subseteq ToSet(Context(thread[h]))
    BY DEF NoTurnMissing
  <2>1. PICK c \in Conv : c = client[h]
    BY AtWork
  <2>2. Spoken(c) /\ Asked(EffectiveMsgs(req[h])) = Told(c, turn[c])
    BY <2>1, AtWork
  <2>3. SayAll(upstream[thread[h]], c, turn[c])
    BY <2>1, <2>2 DEF Spoken, HandlerSays, Whole, Taken, Busy
  <2>4. QED
    BY <2>2, <2>3 DEF SayAll, Context, AskedIn
<1>2. QED
  BY <1>1, ClientsInvariance, PTL
==============================================================================
