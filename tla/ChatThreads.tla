----------------------------- MODULE ChatThreads -----------------------------
(***************************************************************************)
(* POST /v1/chat/completions and the table that lets it continue a UvA     *)
(* chat thread instead of resending the whole history.                     *)
(*                                                                         *)
(* Each request is served by its own detached thread (a Handler here).     *)
(* The handler looks the conversation up in the SQLite table thread_state, *)
(* posts either the whole history to a new UvA thread ("full mode") or     *)
(* only the last user message to the stored one ("incremental mode"),      *)
(* waits for UvA, and then settles the row.  Each table access takes the   *)
(* database lock for itself; nothing is locked from one to the next.       *)
(*                                                                         *)
(* Requests arrive here in any order and from anybody: this module is the  *)
(* server alone.  ChatClients adds clients that follow the protocol.       *)
(***************************************************************************)
EXTENDS Integers, Sequences, FiniteSets

CONSTANTS
    Handler,        \* the threads that serve requests
    ApiKey,         \* ids of the API keys requests resolve to
    Model,          \* model names
    Text,           \* contents of a message
    ThreadId,       \* nanoids generate_thread_id can draw
    KeyModel,       \* KeyModel[k]: default model of key k
    KeyPrompt,      \* KeyPrompt[k]: system prompt of key k, or EmptyText
    Request,        \* the bodies clients send
    TTL,            \* THREAD_STATE_TTL_SECONDS, in clock ticks
    PurgeInterval,  \* PURGE_INTERVAL, in clock ticks
    EmptyText,      \* the empty string
    None,           \* no row, no thread, no request, no "model" in a body
    MaxRequests,    \* bound: requests a behaviour serves
    MaxTime,        \* bound: clock
    MaxTrouble      \* bound: times the process dies or UvA forgets a thread

Role    == {"system", "user", "assistant"}
Message == [role: Role, text: Text]

ASSUME ConstantsAssumption ==
    /\ EmptyText \in Text
    /\ KeyModel \in [ApiKey -> Model]
    /\ KeyPrompt \in [ApiKey -> Text]
    /\ Request \subseteq [key: ApiKey, model: Model \cup {None}, msgs: Seq(Message), stream: BOOLEAN]
    /\ TTL \in Nat /\ PurgeInterval \in Nat
    /\ MaxRequests \in Nat /\ MaxTime \in Nat /\ MaxTrouble \in Nat
    /\ None \notin Model \cup Request \cup (ApiKey \X Model \X Text) /\ None \notin ThreadId
    /\ None \notin [thread: ThreadId, count: Nat, used: Nat]

VARIABLES
    table,      \* thread_state: conversation key -> row, or None
    lastPurge,  \* the static last_purge of thread_state.c
    now,        \* time(NULL)
    issued,     \* thread id -> the conversation key it was drawn for, or None
    upstream,   \* UvA: thread id -> the posts it has accepted, in order
    lost,       \* UvA: threads it has forgotten
    pc, req, thread, incr, seen, http,  \* the handlers' locals
    arrivals, crashes

handlerVars == <<pc, req, thread, incr, seen, http>>
vars == <<table, lastPurge, now, issued, upstream, lost, handlerVars, arrivals, crashes>>

(***************************************************************************)
(* What a request asks for                                                 *)
(***************************************************************************)
ModelOf(r) == IF r.model = None THEN KeyModel[r.key] ELSE r.model

\* apply_apikey_overrides: the key's system prompt goes in front
EffectiveMsgs(r) ==
    IF KeyPrompt[r.key] = EmptyText THEN r.msgs
    ELSE <<[role |-> "system", text |-> KeyPrompt[r.key]]>> \o r.msgs

UserPositions(msgs) == {i \in DOMAIN msgs : msgs[i].role = "user" /\ msgs[i].text # EmptyText}

FirstUserContent(msgs) ==
    IF UserPositions(msgs) = {} THEN EmptyText
    ELSE msgs[CHOOSE i \in UserPositions(msgs) : \A j \in UserPositions(msgs) : i <= j].text

LastUserContent(msgs) ==
    IF UserPositions(msgs) = {} THEN EmptyText
    ELSE msgs[CHOOSE i \in UserPositions(msgs) : \A j \in UserPositions(msgs) : i >= j].text

\* Mutant: the hash leaves out the key and the model
ConvKey_TextOnly(r) ==
    <<CHOOSE k \in ApiKey : TRUE, CHOOSE m \in Model : TRUE, FirstUserContent(r.msgs)>>

\* chat_make_conv_key; SHA-256 is taken to be injective, and so is what it is
\* fed, "%lld:%s:" and the content: no model name holds a ':'
ConvKey(r) == <<r.key, ModelOf(r), FirstUserContent(r.msgs)>>

Conversation == ApiKey \X Model \X Text

\* Whose conversation a request belongs to: what the posts at UvA are marked
\* with, so that properties can tell conversations apart.
Sender(r) == <<r.key, ModelOf(r), FirstUserContent(r.msgs)>>

\* translate_request folds every message into one; translate_request_incremental
\* sends the last user content alone
FullPost(r) == [isNewChat |-> TRUE, msgs |-> EffectiveMsgs(r), from |-> Sender(r)]
IncrPost(r) == [isNewChat |-> FALSE,
                msgs |-> <<[role |-> "user", text |-> LastUserContent(r.msgs)]>>,
                from |-> Sender(r)]

Row  == [thread: ThreadId, count: Nat, used: Nat]
Post == [isNewChat: BOOLEAN, msgs: Seq(Message), from: Conversation]

HttpClass == {"none", "ok", "redirect", "rejected", "error"}
Pc == {"idle", "find", "row", "save", "post", "wait", "settle"}

TypeOK ==
    /\ table \in [Conversation -> Row \cup {None}]
    /\ lastPurge \in Nat /\ now \in Nat /\ arrivals \in Nat /\ crashes \in Nat
    /\ issued \in [ThreadId -> Conversation \cup {None}]
    /\ upstream \in [ThreadId -> Seq(Post)]
    /\ lost \subseteq ThreadId
    /\ pc \in [Handler -> Pc]
    /\ req \in [Handler -> Request \cup {None}]
    /\ thread \in [Handler -> ThreadId \cup {None}]
    /\ incr \in [Handler -> BOOLEAN]
    /\ seen \in [Handler -> Nat]
    /\ http \in [Handler -> HttpClass]

(***************************************************************************)
(* thread_state.c                                                          *)
(***************************************************************************)
Expired(row, time) == time - row.used > TTL

\* Mutant: the purge leaves out the TTL
Purged_NoTtl(tbl) == [k \in Conversation |->
                        IF tbl[k] # None /\ tbl[k].used < now THEN None ELSE tbl[k]]

Purged(tbl) == [k \in Conversation |->
                  IF tbl[k] # None /\ Expired(tbl[k], now) THEN None ELSE tbl[k]]

WithoutRow(k) == [table EXCEPT ![k] = None]

\* UPDATE ... WHERE conv_key = ?: nothing when the row is gone
Incremented(k) ==
    IF table[k] = None THEN table
    ELSE [table EXCEPT ![k] = [thread |-> @.thread, count |-> @.count + 1, used |-> now]]

Init ==
    /\ table = [k \in Conversation |-> None]
    /\ lastPurge = 0
    /\ now = PurgeInterval + 1
    /\ issued = [t \in ThreadId |-> None]
    /\ upstream = [t \in ThreadId |-> <<>>]
    /\ lost = {}
    /\ pc = [h \in Handler |-> "idle"]
    /\ req = [h \in Handler |-> None]
    /\ thread = [h \in Handler |-> None]
    /\ incr = [h \in Handler |-> FALSE]
    /\ seen = [h \in Handler |-> 0]
    /\ http = [h \in Handler |-> "none"]
    /\ arrivals = 0
    /\ crashes = 0

(***************************************************************************)
(* The handler, one action per access to the table or to UvA               *)
(***************************************************************************)
Goto(h, label) == pc' = [pc EXCEPT ![h] = label]

\* Mutant: two draws may give the same id
Draw_Collide(h, t) ==
    /\ issued' = [issued EXCEPT ![t] = Sender(req[h])]
    /\ thread' = [thread EXCEPT ![h] = t]

\* generate_thread_id: a nanoid never drawn before
Draw(h, t) ==
    /\ issued[t] = None
    /\ issued' = [issued EXCEPT ![t] = Sender(req[h])]
    /\ thread' = [thread EXCEPT ![h] = t]

\* A request passes the method, body and key checks (one that fails them
\* changes nothing here) and its body has the key's overrides applied.
Arrive(h, r) ==
    /\ pc[h] = "idle"
    /\ arrivals < MaxRequests
    /\ arrivals' = arrivals + 1
    /\ req' = [req EXCEPT ![h] = r]
    /\ Goto(h, "find")
    /\ UNCHANGED <<table, lastPurge, now, issued, upstream, lost, thread, incr, seen, http, crashes>>

\* No user content to key the conversation on: full mode, and no row is saved
StartUnkeyed(h) ==
    /\ pc[h] = "find"
    /\ UserPositions(req[h].msgs) = {}
    /\ \E t \in ThreadId : Draw(h, t)
    /\ Goto(h, "post")
    /\ UNCHANGED <<table, lastPurge, now, upstream, lost, req, incr, seen, http, arrivals, crashes>>

\* thread_state_find up to the row: reads the clock, purges if it is time to
StartFind(h) ==
    /\ pc[h] = "find"
    /\ UserPositions(req[h].msgs) # {}
    /\ seen' = [seen EXCEPT ![h] = now]
    /\ IF now - lastPurge > PurgeInterval
         THEN lastPurge' = now /\ table' = Purged(table)
         ELSE UNCHANGED <<lastPurge, table>>
    /\ Goto(h, "row")
    /\ UNCHANGED <<now, issued, upstream, lost, req, thread, incr, http, arrivals, crashes>>

\* Mutant: >= for >
MayContinue_SameLength(h) ==
    LET row == table[ConvKey(req[h])] IN
    /\ row # None
    /\ ~Expired(row, seen[h])
    /\ Len(EffectiveMsgs(req[h])) >= row.count

MayContinue(h) ==
    LET row == table[ConvKey(req[h])] IN
    /\ row # None
    /\ ~Expired(row, seen[h])
    /\ Len(EffectiveMsgs(req[h])) > row.count

\* thread_state_find returned a row with fewer messages: incremental mode
FindRow(h) ==
    /\ pc[h] = "row"
    /\ MayContinue(h)
    /\ thread' = [thread EXCEPT ![h] = table[ConvKey(req[h])].thread]
    /\ incr' = [incr EXCEPT ![h] = TRUE]
    /\ Goto(h, "post")
    /\ UNCHANGED <<table, lastPurge, now, issued, upstream, lost, req, seen, http, arrivals, crashes>>

\* No row, an expired one (deleted here), or one that has seen as many
\* messages: full mode on a thread of its own
MissRow(h) ==
    /\ pc[h] = "row"
    /\ ~MayContinue(h)
    /\ LET k == ConvKey(req[h]) IN
       table' = IF table[k] # None /\ Expired(table[k], seen[h]) THEN WithoutRow(k) ELSE table
    /\ \E t \in ThreadId : Draw(h, t)
    /\ Goto(h, "save")
    /\ UNCHANGED <<lastPurge, now, upstream, lost, req, incr, seen, http, arrivals, crashes>>

\* Mutant: counts the assistant's reply and the question after it
SaveRow_CountsAhead(h) ==
    /\ pc[h] = "save"
    /\ table' = [table EXCEPT ![ConvKey(req[h])] =
                   [thread |-> thread[h], count |-> Len(EffectiveMsgs(req[h])) + 2, used |-> now]]
    /\ Goto(h, "post")
    /\ UNCHANGED <<lastPurge, now, issued, upstream, lost, req, thread, incr, seen, http, arrivals, crashes>>

\* thread_state_save: INSERT OR REPLACE, before UvA has seen the thread
SaveRow(h) ==
    /\ pc[h] = "save"
    /\ table' = [table EXCEPT ![ConvKey(req[h])] =
                   [thread |-> thread[h], count |-> Len(EffectiveMsgs(req[h])), used |-> now]]
    /\ Goto(h, "post")
    /\ UNCHANGED <<lastPurge, now, issued, upstream, lost, req, thread, incr, seen, http, arrivals, crashes>>

\* UvA accepts the post; its answer is still on the way
Accept(h) ==
    /\ pc[h] = "post"
    /\ thread[h] \notin lost
    /\ upstream' = [upstream EXCEPT ![thread[h]] =
                      Append(@, IF incr[h] THEN IncrPost(req[h]) ELSE FullPost(req[h]))]
    /\ Goto(h, "wait")
    /\ UNCHANGED <<table, lastPurge, now, issued, lost, req, thread, incr, seen, http, arrivals, crashes>>

\* upstream_chat_with_cookie returns a status, or -1 when curl fails or its
\* timeout runs out, which may be after UvA accepted the post
Return(h, class) ==
    /\ \/ pc[h] = "post" /\ class \in {"none", "redirect", "rejected", "error"}
       \/ pc[h] = "wait" /\ class \in {"none", "ok", "error"}
    /\ http' = [http EXCEPT ![h] = class]
    /\ Goto(h, "settle")
    /\ UNCHANGED <<table, lastPurge, now, issued, upstream, lost, req, thread, incr, seen, arrivals, crashes>>

\* Mutants: the row is written back rather than updated; a call that got no
\* answer is not taken for a failure; nothing is
Settled_WritesBack(h) ==
    LET k == ConvKey(req[h]) IN
    CASE incr[h] /\ http[h] \in {"none", "rejected", "error"} -> WithoutRow(k)
      [] incr[h] /\ http[h] = "ok" ->
           [table EXCEPT ![k] = [thread |-> thread[h], count |-> Len(EffectiveMsgs(req[h])), used |-> now]]
      [] OTHER -> table

Settled_KeepsOnTimeout(h) ==
    LET k == ConvKey(req[h]) IN
    CASE incr[h] /\ http[h] \in {"rejected", "error"} -> WithoutRow(k)
      [] incr[h] /\ http[h] = "ok" -> Incremented(k)
      [] OTHER -> table

Settled_KeepsOnFailure(h) ==
    IF incr[h] /\ http[h] = "ok" THEN Incremented(ConvKey(req[h])) ELSE table

\* The row after an incremental post; full mode leaves it as it was saved
Settled(h) ==
    LET k == ConvKey(req[h]) IN
    CASE incr[h] /\ http[h] \in {"none", "rejected", "error"} -> WithoutRow(k)
      [] incr[h] /\ http[h] = "ok" -> Incremented(k)
      [] OTHER -> table

\* The outcomes that are not passed on as an answer; 3xx and 4xx are
Failed(h) == http[h] \in {"none", "error"}

\* A 502 is sent to those that do not stream; a stream has had its 200 before UvA
\* was asked, and just ends
ToldError(h) == Failed(h) /\ ~req[h].stream

\* Settle the row and answer the client; the handler's thread ends
Finish(h) ==
    /\ pc[h] = "settle"
    /\ table' = Settled(h)
    /\ Goto(h, "idle")
    /\ req' = [req EXCEPT ![h] = None]
    /\ thread' = [thread EXCEPT ![h] = None]
    /\ incr' = [incr EXCEPT ![h] = FALSE]
    /\ seen' = [seen EXCEPT ![h] = 0]
    /\ http' = [http EXCEPT ![h] = "none"]
    /\ UNCHANGED <<lastPurge, now, issued, upstream, lost, arrivals, crashes>>

HandlerStep(h) ==
    \/ StartUnkeyed(h)
    \/ StartFind(h)
    \/ FindRow(h)
    \/ MissRow(h)
    \/ SaveRow(h)
    \/ Accept(h)
    \/ \E class \in HttpClass : Return(h, class)
    \/ Finish(h)

(***************************************************************************)
(* Around the handlers                                                     *)
(***************************************************************************)
Tick ==
    /\ now < MaxTime
    /\ now' = now + 1
    /\ UNCHANGED <<table, lastPurge, issued, upstream, lost, handlerVars, arrivals, crashes>>

\* UvA forgets a thread it had opened: posts to it no longer succeed
LoseThread(t) ==
    /\ upstream[t] # <<>> /\ t \notin lost
    /\ crashes + Cardinality(lost) < MaxTrouble
    /\ lost' = lost \cup {t}
    /\ UNCHANGED <<table, lastPurge, now, issued, upstream, handlerVars, arrivals, crashes>>

\* The process dies under its handlers and is started again: thread_state is
\* on disk, last_purge and the handlers are not
Crash ==
    /\ crashes + Cardinality(lost) < MaxTrouble
    /\ crashes' = crashes + 1
    /\ lastPurge' = 0
    /\ pc' = [h \in Handler |-> "idle"]
    /\ req' = [h \in Handler |-> None]
    /\ thread' = [h \in Handler |-> None]
    /\ incr' = [h \in Handler |-> FALSE]
    /\ seen' = [h \in Handler |-> 0]
    /\ http' = [h \in Handler |-> "none"]
    /\ UNCHANGED <<table, now, issued, upstream, lost, arrivals>>

Environment == Tick \/ Crash \/ \E t \in ThreadId : LoseThread(t)

Next ==
    \/ \E h \in Handler, r \in Request : Arrive(h, r)
    \/ \E h \in Handler : HandlerStep(h)
    \/ Environment

Spec == Init /\ [][Next]_vars

(***************************************************************************)
(* Properties                                                              *)
(***************************************************************************)

\* Nothing of one conversation reaches the thread of another: whatever is
\* posted to one UvA thread, by full or incremental requests that ran side by
\* side, came from requests with one API key, one model and one first user
\* message (conv_key in chat.c, the rows of thread_state.c).
ThreadIsolation ==
    \A t \in ThreadId : \A i, j \in DOMAIN upstream[t] :
        upstream[t][i].from = upstream[t][j].from

\* UvA is asked to open a thread (flags.isNewChat) at most once, although the
\* row naming it is written before the request that opens it is sent and other
\* requests may post to it first.
OpenedOnce ==
    \A t \in ThreadId : \A i, j \in DOMAIN upstream[t] :
        upstream[t][i].isNewChat /\ upstream[t][j].isNewChat => i = j

\* A conversation that has let go of a thread (a failed continuation, an
\* expired row, a replacement by a concurrent request) never returns to it: a
\* row is only ever pointed at a thread no request has posted to yet.
DroppedThreadStaysDropped ==
    [][\A k \in Conversation :
         LET old == table[k]
             new == table'[k]
         IN  (new # None /\ (old = None \/ old.thread # new.thread))
               => upstream[new.thread] = <<>>]_vars

\* A row that could still be continued disappears only because an incremental
\* request of that conversation failed: neither the purge nor the expiry check
\* of a lookup (which read the clock earlier) drops a live conversation.
LiveRowsSurvive ==
    [][\A k \in Conversation :
         table[k] # None /\ table'[k] = None /\ ~Expired(table[k], now)
           => \E h \in Handler : /\ pc[h] = "settle" /\ incr[h]
                                 /\ ConvKey(req[h]) = k
                                 /\ http[h] # "ok"]_vars
==============================================================================
