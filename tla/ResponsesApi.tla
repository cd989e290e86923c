---------------------------- MODULE ResponsesApi ----------------------------
(***************************************************************************)
(* POST /v1/responses: conversations kept for the client.                  *)
(*                                                                         *)
(* A response leaves two records under its id: the transcript (table       *)
(* response_state) and a row naming the UvA thread it was answered on      *)
(* (table thread_state).  A request that names it as previous_response_id  *)
(* takes the transcript away, continues the thread with its last user      *)
(* message alone (or, without a row, opens a thread with everything it     *)
(* has), and, if a request with tools is answered without a tool call,     *)
(* asks once more.  The client is answered first and the new records are   *)
(* saved after that, each in a database section of its own.                *)
(*                                                                         *)
(* Message contents are abstracted to who wrote what for which request.    *)
(***************************************************************************)
EXTENDS Integers, Sequences, FiniteSets

CONSTANTS
    Handler,        \* the threads that serve requests
    RespId,         \* ids resp_gen_id can draw
    ThreadId,       \* nanoids generate_thread_id can draw
    Request,        \* shapes of request: user messages, tools, instructions
    TTL,            \* THREAD_STATE_TTL_SECONDS = STATE_TTL_SECONDS, in ticks
    PurgeInterval,  \* PURGE_INTERVAL, in ticks
    None,           \* no id, no thread, no record
    Refusals,       \* whether UvA may refuse a post with a 3xx or 4xx
    MaxTime,        \* bound: clock
    MaxFaults,      \* bound: calls to UvA that do not end well
    MaxCrashes      \* bound: times the process dies

\* "reminder" is the compact one of the continuation check
Kind == {"tools", "instructions", "input", "reply", "nudge", "reminder"}

\* What a message is and the request it was made for; a request may carry
\* several inputs (the results of parallel tool calls), told apart by n.
Message == [kind: Kind, of: RespId, n: Nat]

ASSUME ResponsesAssumption ==
    /\ Request \subseteq [inputs: Nat, tools: BOOLEAN, instructions: BOOLEAN]
    /\ TTL \in Nat /\ PurgeInterval \in Nat
    /\ Refusals \in BOOLEAN
    /\ MaxTime \in Nat /\ MaxFaults \in Nat /\ MaxCrashes \in Nat
    /\ None \notin RespId \cup ThreadId /\ None \notin Request
    /\ None \notin [msgs: Seq(Message), created: Nat]
    /\ None \notin [thread: ThreadId, used: Nat]

VARIABLES
    transcript, \* response_state: response id -> transcript, or None
    row,        \* thread_state: response id -> thread row, or None
    lastPurge,  \* the static last_purge of thread_state.c
    now,        \* time(NULL)
    upstream,   \* UvA: thread id -> the posts it has accepted, in order
    owner,      \* thread id -> first response of the conversation it was drawn
                \* for, or None
    root,       \* response id -> first response of its conversation, or None
                \* while the id has not been drawn
    said,       \* response id -> everything its conversation has put in so far
    told,       \* response ids clients have been told
    faults, crashes,
    pc, req, prev, id, stored, used, msgs, post, first, out, retried
                \* the handlers' locals: post is the request body being sent,
                \* first the full_text and calls of the first call to UvA

handlerVars == <<pc, req, prev, id, stored, used, msgs, post, first, out, retried>>
history     == <<owner, root, said, told, faults, crashes>>
vars == <<transcript, row, lastPurge, now, upstream, history, handlerVars>>

\* What a call to UvA brought: nothing (rc # 0), or a text with or without
\* tool calls in it
Outcome == {"pending", "failed", "empty", "text", "calls"}

Record == [msgs: Seq(Message), created: Nat]
Row    == [thread: ThreadId, used: Nat]
Post   == [isNewChat: BOOLEAN, msgs: Seq(Message)]
NoPost == [isNewChat |-> FALSE, msgs |-> <<>>]

Pc == {"idle", "load", "forget", "find", "compose", "send", "wait",
       "got", "answer", "saveState", "saveRow", "dropRow"}

TypeOK ==
    /\ transcript \in [RespId -> Record \cup {None}]
    /\ row \in [RespId -> Row \cup {None}]
    /\ lastPurge \in Nat /\ now \in Nat
    /\ faults \in Nat /\ crashes \in Nat
    /\ upstream \in [ThreadId -> Seq(Post)]
    /\ owner \in [ThreadId -> RespId \cup {None}]
    /\ root \in [RespId -> RespId \cup {None}]
    /\ said \in [RespId -> SUBSET Message]
    /\ told \subseteq RespId
    /\ pc \in [Handler -> Pc]
    /\ req \in [Handler -> Request \cup {None}]
    /\ prev \in [Handler -> RespId \cup {None}]
    /\ id \in [Handler -> RespId \cup {None}]
    /\ stored \in [Handler -> ThreadId \cup {None}]
    /\ used \in [Handler -> ThreadId \cup {None}]
    /\ msgs \in [Handler -> Seq(Message)]
    /\ post \in [Handler -> Post]
    /\ first \in [Handler -> Outcome]
    /\ out \in [Handler -> Outcome]
    /\ retried \in [Handler -> BOOLEAN]

(***************************************************************************)
(* Messages                                                                *)
(***************************************************************************)
Msg(kind, of) == [kind |-> kind, of |-> of, n |-> 0]

Inputs(r, of) == [n \in 1..r.inputs |-> [kind |-> "input", of |-> of, n |-> n]]

IsUser(m) == m.kind \in {"input", "nudge"}

LastUser(s) == CHOOSE i \in DOMAIN s : IsUser(s[i]) /\ \A j \in DOMAIN s : IsUser(s[j]) => j <= i

HasUser(s) == \E i \in DOMAIN s : IsUser(s[i])

\* resp_input_to_messages and resp_fold_tool_results: a tool result becomes a
\* user message of its own
NewMessages(r, of) ==
    (IF r.instructions THEN <<Msg("instructions", of)>> ELSE <<>>) \o Inputs(r, of)

\* The tool prompt goes in front of everything, transcripts that already have
\* one included
WithTools(r, of, s) == IF r.tools THEN <<Msg("tools", of)>> \o s ELSE s

Expired(since) == now - since > TTL

Init ==
    /\ transcript = [i \in RespId |-> None]
    /\ row = [i \in RespId |-> None]
    /\ lastPurge = 0
    /\ now = PurgeInterval + 1
    /\ upstream = [t \in ThreadId |-> <<>>]
    /\ owner = [t \in ThreadId |-> None]
    /\ root = [i \in RespId |-> None]
    /\ said = [i \in RespId |-> {}]
    /\ told = {}
    /\ faults = 0
    /\ crashes = 0
    /\ pc = [h \in Handler |-> "idle"]
    /\ req = [h \in Handler |-> None]
    /\ prev = [h \in Handler |-> None]
    /\ id = [h \in Handler |-> None]
    /\ stored = [h \in Handler |-> None]
    /\ used = [h \in Handler |-> None]
    /\ msgs = [h \in Handler |-> <<>>]
    /\ post = [h \in Handler |-> NoPost]
    /\ first = [h \in Handler |-> "pending"]
    /\ out = [h \in Handler |-> "pending"]
    /\ retried = [h \in Handler |-> FALSE]

Goto(h, label) == pc' = [pc EXCEPT ![h] = label]

(***************************************************************************)
(* handle_responses up to the call: take the previous response's records   *)
(***************************************************************************)

\* A request that passes the method, body, key and JSON checks draws its id.
\* Clients name any response they have been told of, or none.
Arrive(h, r, p, i) ==
    /\ pc[h] = "idle"
    /\ p \in told \cup {None}
    /\ root[i] = None
    /\ root' = [root EXCEPT ![i] = IF p = None THEN i ELSE root[p]]
    /\ said' = [said EXCEPT ![i] =
                  (IF p = None THEN {} ELSE said[p])
                    \cup {Inputs(r, i)[n] : n \in 1..r.inputs}]
    /\ req' = [req EXCEPT ![h] = r]
    /\ prev' = [prev EXCEPT ![h] = p]
    /\ id' = [id EXCEPT ![h] = i]
    /\ msgs' = [msgs EXCEPT ![h] = WithTools(r, i, NewMessages(r, i))]
    /\ Goto(h, IF p = None THEN "compose" ELSE "load")
    /\ UNCHANGED <<transcript, row, lastPurge, now, upstream, owner, told, faults, crashes,
                   stored, used, post, first, out, retried>>

\* resp_state_load: an expired transcript is deleted, a live one goes in
\* front of the new messages
Load(h) ==
    /\ pc[h] = "load"
    /\ LET old  == transcript[prev[h]]
           live == old # None /\ ~Expired(old.created)
       IN  /\ transcript' = IF live THEN transcript
                            ELSE [transcript EXCEPT ![prev[h]] = None]
           /\ msgs' = IF live
                        THEN [msgs EXCEPT ![h] =
                                WithTools(req[h], id[h], old.msgs \o NewMessages(req[h], id[h]))]
                        ELSE msgs
           /\ Goto(h, IF live THEN "forget" ELSE "find")
    /\ UNCHANGED <<row, lastPurge, now, upstream, history, req, prev, id, stored, used, post,
                   first, out, retried>>

\* Mutant: both records are deleted at once
Forget_Both(h) ==
    /\ pc[h] = "forget"
    /\ transcript' = [transcript EXCEPT ![prev[h]] = None]
    /\ row' = [row EXCEPT ![prev[h]] = None]
    /\ Goto(h, "find")
    /\ UNCHANGED <<lastPurge, now, upstream, history, req, prev, id, stored, used, msgs,
                   post, first, out, retried>>

\* resp_state_delete, before UvA has been asked anything
Forget(h) ==
    /\ pc[h] = "forget"
    /\ transcript' = [transcript EXCEPT ![prev[h]] = None]
    /\ Goto(h, "find")
    /\ UNCHANGED <<row, lastPurge, now, upstream, history, req, prev, id, stored, used, msgs,
                   post, first, out, retried>>

Purged == [i \in RespId |-> IF row[i] # None /\ Expired(row[i].used) THEN None ELSE row[i]]

\* thread_state_find; what the purge drops, the lookup would not return, so
\* the two sections are one step
Find(h) ==
    /\ pc[h] = "find"
    /\ LET purge == now - lastPurge > PurgeInterval
           found == row[prev[h]] # None /\ ~Expired(row[prev[h]].used)
       IN  /\ lastPurge' = IF purge THEN now ELSE lastPurge
           /\ row' = IF purge THEN Purged
                     ELSE IF found THEN row ELSE [row EXCEPT ![prev[h]] = None]
           /\ stored' = IF found THEN [stored EXCEPT ![h] = row[prev[h]].thread] ELSE stored
    /\ Goto(h, "compose")
    /\ UNCHANGED <<transcript, now, upstream, history, req, prev, id, used, msgs, post, first,
                   out, retried>>

(***************************************************************************)
(* The call, and the second one of the continuation check                  *)
(***************************************************************************)

\* resp_build_and_translate
Continue(h) ==
    /\ pc[h] = "compose"
    /\ stored[h] # None /\ HasUser(msgs[h])
    /\ used' = [used EXCEPT ![h] = stored[h]]
    /\ post' = [post EXCEPT ![h] = [isNewChat |-> FALSE,
                                    msgs |-> <<msgs[h][LastUser(msgs[h])]>>]]
    /\ Goto(h, "send")
    /\ UNCHANGED <<transcript, row, lastPurge, now, upstream, history, req, prev, id, stored,
                   msgs, first, out, retried>>

\* Mutant: two draws may give the same id
OpenThread_Collide(h, t) ==
    /\ pc[h] = "compose"
    /\ ~(stored[h] # None /\ HasUser(msgs[h]))
    /\ owner' = [owner EXCEPT ![t] = root[id[h]]]
    /\ used' = [used EXCEPT ![h] = t]
    /\ post' = [post EXCEPT ![h] = [isNewChat |-> TRUE, msgs |-> msgs[h]]]
    /\ Goto(h, "send")
    /\ UNCHANGED <<transcript, row, lastPurge, now, upstream, root, said, told, faults, crashes,
                   req, prev, id, stored, msgs, first, out, retried>>

OpenThread(h, t) ==
    /\ pc[h] = "compose"
    /\ ~(stored[h] # None /\ HasUser(msgs[h]))
    /\ owner[t] = None
    /\ owner' = [owner EXCEPT ![t] = root[id[h]]]
    /\ used' = [used EXCEPT ![h] = t]
    /\ post' = [post EXCEPT ![h] = [isNewChat |-> TRUE, msgs |-> msgs[h]]]
    /\ Goto(h, "send")
    /\ UNCHANGED <<transcript, row, lastPurge, now, upstream, root, said, told, faults, crashes,
                   req, prev, id, stored, msgs, first, out, retried>>

\* UvA takes the post; its answer is still on the way
Accept(h) ==
    /\ pc[h] = "send"
    /\ upstream' = [upstream EXCEPT ![used[h]] = Append(@, post[h])]
    /\ Goto(h, "wait")
    /\ UNCHANGED <<transcript, row, lastPurge, now, history, req, prev, id, stored, used, msgs,
                   post, first, out, retried>>

\* An answer.  Without tools whatever it holds is text.
Answer(h, outcome) ==
    /\ pc[h] = "wait"
    /\ outcome \in (IF req[h].tools THEN {"empty", "text", "calls"} ELSE {"empty", "text"})
    /\ out' = [out EXCEPT ![h] = outcome]
    /\ Goto(h, "got")
    /\ UNCHANGED <<transcript, row, lastPurge, now, upstream, history, req, prev, id, stored,
                   used, msgs, post, first, retried>>

\* No answer, an error before or after UvA took the post, or a 3xx or 4xx,
\* which resp_handle_text_* takes for an empty answer
Fault(h, outcome) ==
    /\ faults < MaxFaults
    /\ \/ pc[h] = "send" /\ outcome \in (IF Refusals THEN {"failed", "empty"} ELSE {"failed"})
       \/ pc[h] = "wait" /\ outcome = "failed"
    /\ faults' = faults + 1
    /\ out' = [out EXCEPT ![h] = outcome]
    /\ Goto(h, "got")
    /\ UNCHANGED <<transcript, row, lastPurge, now, upstream, owner, root, said, told, crashes,
                   req, prev, id, stored, used, msgs, post, first, retried>>

Done(h) ==
    /\ Goto(h, "idle")
    /\ req' = [req EXCEPT ![h] = None]
    /\ prev' = [prev EXCEPT ![h] = None]
    /\ id' = [id EXCEPT ![h] = None]
    /\ stored' = [stored EXCEPT ![h] = None]
    /\ used' = [used EXCEPT ![h] = None]
    /\ msgs' = [msgs EXCEPT ![h] = <<>>]
    /\ post' = [post EXCEPT ![h] = NoPost]
    /\ first' = [first EXCEPT ![h] = "pending"]
    /\ out' = [out EXCEPT ![h] = "pending"]
    /\ retried' = [retried EXCEPT ![h] = FALSE]

\* The first call failed: 502 or a closed stream, and nothing is saved
Abandon(h) ==
    /\ pc[h] = "got"
    /\ ~retried[h] /\ out[h] = "failed"
    /\ Done(h)
    /\ UNCHANGED <<transcript, row, lastPurge, now, upstream, history>>

\* A request with tools was answered without a tool call: ask once more
AskAgain(h) ==
    /\ pc[h] = "got"
    /\ ~retried[h] /\ req[h].tools /\ out[h] \in {"empty", "text"}
    /\ first' = [first EXCEPT ![h] = out[h]]
    /\ retried' = [retried EXCEPT ![h] = TRUE]
    /\ msgs' = [msgs EXCEPT ![h] = @ \o <<Msg("reply", id[h]), Msg("nudge", id[h]),
                                          Msg("reminder", id[h])>>]
    /\ Goto(h, "compose")
    /\ UNCHANGED <<transcript, row, lastPurge, now, upstream, history, req, prev, id, stored,
                   used, post, out>>

\* Settled on an answer: of the continuation check only tool calls count, and
\* a call that failed is one more "no"
Settle(h) ==
    /\ pc[h] = "got"
    /\ \/ retried[h]
       \/ out[h] = "calls" \/ (out[h] \in {"empty", "text"} /\ ~req[h].tools)
    /\ out' = IF retried[h] /\ out[h] # "calls" THEN [out EXCEPT ![h] = first[h]] ELSE out
    /\ Goto(h, "answer")
    /\ UNCHANGED <<transcript, row, lastPurge, now, upstream, history, req, prev, id, stored,
                   used, msgs, post, first, retried>>

(***************************************************************************)
(* Answer the client, then save                                            *)
(***************************************************************************)
Reply(h) ==
    /\ pc[h] = "answer"
    /\ told' = told \cup {id[h]}
    /\ msgs' = IF out[h] = "empty" THEN msgs
               ELSE [msgs EXCEPT ![h] = Append(@, Msg("reply", id[h]))]
    /\ Goto(h, "saveState")
    /\ UNCHANGED <<transcript, row, lastPurge, now, upstream, owner, root, said, faults, crashes,
                   req, prev, id, stored, used, post, first, out, retried>>

\* resp_state_save
SaveState(h) ==
    /\ pc[h] = "saveState"
    /\ transcript' = [transcript EXCEPT ![id[h]] = [msgs |-> msgs[h], created |-> now]]
    /\ Goto(h, "saveRow")
    /\ UNCHANGED <<row, lastPurge, now, upstream, history, req, prev, id, stored, used, msgs,
                   post, first, out, retried>>

\* Mutant: the row is saved with the thread that was stored, not the one used
SaveRow_Blank(h) ==
    /\ pc[h] = "saveRow"
    /\ row' = [row EXCEPT ![id[h]] = [thread |-> stored[h], used |-> now]]
    /\ Goto(h, "dropRow")
    /\ UNCHANGED <<transcript, lastPurge, now, upstream, history, req, prev, id, stored, used,
                   msgs, post, first, out, retried>>

\* thread_state_save
SaveRow(h) ==
    /\ pc[h] = "saveRow"
    /\ row' = [row EXCEPT ![id[h]] = [thread |-> used[h], used |-> now]]
    /\ Goto(h, "dropRow")
    /\ UNCHANGED <<transcript, lastPurge, now, upstream, history, req, prev, id, stored, used,
                   msgs, post, first, out, retried>>

\* Mutant: the row that was continued stays
DropRow_Keeps(h) ==
    /\ pc[h] = "dropRow"
    /\ Done(h)
    /\ UNCHANGED <<transcript, row, lastPurge, now, upstream, history>>

\* thread_state_delete of the row that was continued
DropRow(h) ==
    /\ pc[h] = "dropRow"
    /\ row' = IF prev[h] # None /\ stored[h] # None THEN [row EXCEPT ![prev[h]] = None] ELSE row
    /\ Done(h)
    /\ UNCHANGED <<transcript, lastPurge, now, upstream, history>>

HandlerStep(h) ==
    \/ Load(h) \/ Forget(h) \/ Find(h)
    \/ Continue(h) \/ \E t \in ThreadId : OpenThread(h, t)
    \/ Accept(h)
    \/ \E outcome \in Outcome : Answer(h, outcome) \/ Fault(h, outcome)
    \/ Abandon(h) \/ AskAgain(h) \/ Settle(h)
    \/ Reply(h) \/ SaveState(h) \/ SaveRow(h) \/ DropRow(h)

Tick ==
    /\ now < MaxTime
    /\ now' = now + 1
    /\ UNCHANGED <<transcript, row, lastPurge, upstream, history, handlerVars>>

\* The process dies and is started again; the tables are on disk
Crash ==
    /\ crashes < MaxCrashes
    /\ crashes' = crashes + 1
    /\ lastPurge' = 0
    /\ pc' = [h \in Handler |-> "idle"]
    /\ req' = [h \in Handler |-> None]
    /\ prev' = [h \in Handler |-> None]
    /\ id' = [h \in Handler |-> None]
    /\ stored' = [h \in Handler |-> None]
    /\ used' = [h \in Handler |-> None]
    /\ msgs' = [h \in Handler |-> <<>>]
    /\ post' = [h \in Handler |-> NoPost]
    /\ first' = [h \in Handler |-> "pending"]
    /\ out' = [h \in Handler |-> "pending"]
    /\ retried' = [h \in Handler |-> FALSE]
    /\ UNCHANGED <<transcript, row, now, upstream, owner, root, said, told, faults>>

Next ==
    \/ \E h \in Handler, r \in Request, p \in RespId \cup {None}, i \in RespId : Arrive(h, r, p, i)
    \/ \E h \in Handler : HandlerStep(h)
    \/ Tick
    \/ Crash

Spec == Init /\ [][Next]_vars

(***************************************************************************)
(* Properties                                                              *)
(***************************************************************************)

\* Nothing of one conversation reaches the thread of another, whatever clients
\* chain from what, and however their requests interleave: transcripts, thread
\* rows and the handlers' copies of both stay with the conversation they came
\* from (resp_state_*, thread_state_* and resp_build_and_translate).
ConversationsApart ==
    \A t \in ThreadId : \A i \in DOMAIN upstream[t] : \A j \in DOMAIN upstream[t][i].msgs :
        root[upstream[t][i].msgs[j].of] = owner[t]

\* A conversation's thread is handed on, never dropped: a row that has not
\* expired goes only when a row of a response that followed it is there, so a
\* failed call, a crash or a second request on the same response leaves a
\* thread to go on from (the order of the last three sections of
\* handle_responses).
ThreadHandedOn ==
    [][\A p \in RespId :
         row[p] # None /\ row'[p] = None /\ ~Expired(row[p].used)
           => \E i \in RespId \ {p} : row[i] # None /\ said[p] \subseteq said[i]]_vars
==============================================================================
