----------------------------- MODULE ChatClients -----------------------------
(***************************************************************************)
(* ChatThreads with the clients an OpenAI SDK makes: each conversation     *)
(* sends one request at a time, every turn carries the whole history, a    *)
(* request that failed is sent again unchanged, and an answered one is     *)
(* followed by the next turn.  A stream that ends early has failed for     *)
(* some clients and is a short answer for others.  Conversations open with *)
(* different questions, and a client may ask for an answer again.          *)
(*                                                                         *)
(* The question: does the model answer from the history the client sent?   *)
(***************************************************************************)
EXTENDS ChatThreads, SequencesExt

CONSTANTS
    Conv,           \* the clients' conversations
    KeyOf,          \* KeyOf[c]: the API key c uses
    Question,       \* Question[c][n]: what c asks in turn n
    ReplyText,      \* any assistant reply
    MaxTurns,       \* bound: turns of a conversation
    MaxFaults       \* bound: failed calls to UvA, lost threads not counted, and
                    \* answers asked for again

ASSUME ClientAssumption ==
    /\ KeyOf \in [Conv -> ApiKey] /\ None \notin Conv
    /\ ReplyText \in Text
    /\ MaxTurns \in Nat \ {0} /\ MaxFaults \in Nat
    /\ Question \in [Conv -> [1..MaxTurns -> Text \ {EmptyText}]]
    /\ \A c, d \in Conv : c # d => Question[c][1] # Question[d][1]
    /\ ThreadId \subseteq Nat

VARIABLES
    turn,       \* the turn each conversation is about to ask or is asking
    client,     \* handler -> the conversation it serves, or None
    heard,      \* how the conversation's last request ended
    misled,     \* conversations that go on from a turn UvA did not take, while
                \* their row stays as if it had
    unsettled,  \* conversations that asked for an answer again, or lost theirs
                \* to a crash of the proxy
    faults

clientVars == <<turn, client, heard, misled, unsettled, faults>>
cvars == <<vars, clientVars>>

Waiting(c) == \E h \in Handler : client[h] = c

History(c, n) ==
    [i \in 1..(2 * n - 1) |->
        IF i % 2 = 0 THEN [role |-> "assistant", text |-> ReplyText]
        ELSE [role |-> "user", text |-> Question[c][(i + 1) \div 2]]]

TurnRequest(c, n, s) == [key |-> KeyOf[c], model |-> None, msgs |-> History(c, n), stream |-> s]

ASSUME TurnsAssumption ==
    \A c \in Conv, n \in 1..MaxTurns, s \in BOOLEAN : TurnRequest(c, n, s) \in Request

CInit ==
    /\ Init
    /\ turn = [c \in Conv |-> 1]
    /\ client = [h \in Handler |-> None]
    /\ heard = [c \in Conv |-> "nothing"]
    /\ misled = {}
    /\ unsettled = {}
    /\ faults = 0

Ask(c, h) ==
    /\ ~Waiting(c)
    /\ turn[c] <= MaxTurns
    /\ \E s \in BOOLEAN : Arrive(h, TurnRequest(c, turn[c], s))
    /\ client' = [client EXCEPT ![h] = c]
    /\ UNCHANGED <<turn, heard, misled, unsettled, faults>>

\* The user is not happy with the last answer and asks the same turn again
Regenerate(c) ==
    /\ ~Waiting(c)
    /\ turn[c] > 1 /\ heard[c] = "ok"
    /\ faults < MaxFaults /\ faults' = faults + 1
    /\ turn' = [turn EXCEPT ![c] = @ - 1]
    /\ heard' = [heard EXCEPT ![c] = "nothing"]
    /\ unsettled' = unsettled \cup {c}
    /\ UNCHANGED <<vars, client, misled>>

\* UvA has the request of h, as far as the handler can tell: of a continuation
\* that failed it cannot
Taken(h) ==
    \/ pc[h] = "wait"
    \/ pc[h] = "settle" /\ http[h] = "ok"
    \/ ~incr[h] /\ upstream[thread[h]] # <<>>

\* The row of a turn that UvA does not have is still there afterwards
Misleads(h) == ~Taken(h) /\ table'[ConvKey(req[h])] # None

\* The handler is done and the client goes on to the next turn: after a 200
\* with an answer, or with a stream that just ended
GoOn(h) ==
    /\ Finish(h) /\ ~ToldError(h)
    /\ LET c == client[h] IN
       /\ heard' = [heard EXCEPT ![c] = IF Failed(h) THEN "cut" ELSE http[h]]
       /\ turn' = [turn EXCEPT ![c] = @ + 1]
       /\ misled' = IF Misleads(h) THEN misled \cup {c} ELSE misled
    /\ client' = [client EXCEPT ![h] = None]
    /\ UNCHANGED <<unsettled, faults>>

\* The client is told an error, or misses the end of its stream ("[DONE]"), and
\* will ask again
GiveUp(h) ==
    /\ Finish(h) /\ Failed(h)
    /\ heard' = [heard EXCEPT ![client[h]] = http[h]]
    /\ client' = [client EXCEPT ![h] = None]
    /\ UNCHANGED <<turn, misled, unsettled, faults>>

Hear(h) == GoOn(h) \/ GiveUp(h)

\* The handlers whose client has the head of a stream
Streaming == {h \in Handler : pc[h] \in {"post", "wait", "settle"} /\ req[h].stream}

\* Connections break.  Every waiting client finds its request failed, or its
\* stream ended: then it may go on
CrashSeen ==
    /\ Crash
    /\ \E on \in SUBSET Streaming :
         LET goesOn(c) == \E h \in on : client[h] = c IN
         /\ heard' = [c \in Conv |-> IF goesOn(c) THEN "cut"
                                     ELSE IF Waiting(c) THEN "none" ELSE heard[c]]
         /\ turn' = [c \in Conv |-> IF goesOn(c) THEN turn[c] + 1 ELSE turn[c]]
         /\ misled' = misled \cup {client[h] : h \in {g \in on : Misleads(g)}}
    /\ unsettled' = unsettled \cup {c \in Conv : Waiting(c)}
    /\ client' = [h \in Handler |-> None]
    /\ UNCHANGED faults

UpstreamReturns(h, class) ==
    /\ Return(h, class)
    /\ IF class = "ok" \/ thread[h] \in lost THEN UNCHANGED faults
       ELSE faults < MaxFaults /\ faults' = faults + 1
    /\ UNCHANGED <<turn, client, heard, misled, unsettled>>

\* Which nanoid is drawn makes no difference: they are numbered as they are drawn
InOrder == \A t, u \in ThreadId : u < t /\ issued'[t] # None => issued'[u] # None

ServerStep(h) ==
    /\ StartFind(h) \/ FindRow(h) \/ MissRow(h) \/ SaveRow(h) \/ Accept(h)
    /\ InOrder

CNext ==
    \/ \E c \in Conv, h \in Handler : Ask(c, h)
    \/ \E c \in Conv : Regenerate(c)
    \/ \E h \in Handler : ServerStep(h) /\ UNCHANGED clientVars
    \/ \E h \in Handler, class \in HttpClass : UpstreamReturns(h, class)
    \/ \E h \in Handler : Hear(h)
    \/ (Tick \/ \E t \in ThreadId : LoseThread(t)) /\ UNCHANGED clientVars
    \/ CrashSeen

CSpec == CInit /\ [][CNext]_cvars

\* Handlers are threads the kernel schedules, curl gives up after
\* CURLOPT_TIMEOUT, and the clients here want their conversations finished.
\* Time, faults and crashes are not fair.
FairCSpec ==
    /\ CSpec
    /\ \A h \in Handler :
        /\ WF_cvars(ServerStep(h) /\ UNCHANGED clientVars)
        /\ WF_cvars(\E class \in HttpClass : UpstreamReturns(h, class))
        /\ WF_cvars(Hear(h))
    /\ \A c \in Conv : WF_cvars(\E h \in Handler : Ask(c, h))

(***************************************************************************)
(* Properties                                                              *)
(***************************************************************************)
Asked(msgs) ==
    FlattenSeq([i \in DOMAIN msgs |-> IF msgs[i].role = "assistant" THEN <<>> ELSE <<msgs[i]>>])

\* What the user side of a UvA thread says, post by post
Context(t) == FlattenSeq([i \in DOMAIN upstream[t] |-> Asked(upstream[t][i].msgs)])

\* When UvA has taken a request, the thread it answers from says what the
\* request says, all of it and once: no failure, lost reply, retry, expiry or
\* forgotten thread leaves a turn out or puts it there twice.  So it is until
\* a client goes on from a turn UvA does not have (misled), for conversations
\* that neither ask for an answer again nor are caught by a crash (unsettled).
ContextKept ==
    \A h \in Handler : pc[h] = "wait" /\ client[h] \notin misled \cup unsettled =>
        Context(thread[h]) = Asked(EffectiveMsgs(req[h]))

\* Regenerated answers and retries after a crash of the proxy may post a turn
\* twice, but nothing such a client said is missing from the thread.
NoTurnMissing ==
    \A h \in Handler : pc[h] = "wait" /\ client[h] \notin misled =>
        ToSet(Asked(EffectiveMsgs(req[h]))) \subseteq ToSet(Context(thread[h]))

\* A turn sent again after a failure is never posted to the thread on which it
\* failed, where UvA may already have taken it (msg_count > ts.message_count in
\* resolve_thread after a full post, thread_state_delete after an incremental
\* one).
RetriesStartOver ==
    \A h \in Handler :
        pc[h] = "row" /\ client[h] \notin unsettled /\ heard[client[h]] \in {"none", "error"}
          => ~MayContinue(h)

\* message_count, set to the length of the history and then counted up by one
\* where the history grows by two, never catches up with an advancing client:
\* the next turn continues whatever unexpired row it finds.
NextTurnsContinue ==
    \A h \in Handler :
        LET row == table[ConvKey(req[h])] IN
        pc[h] = "row" /\ client[h] \notin unsettled /\ heard[client[h]] = "ok"
          /\ row # None /\ ~Expired(row, seen[h])
        => MayContinue(h)

\* translate_request_incremental "sends only the new message [...] on an existing
\* thread" (translator.h): a turn is posted alone only to a thread UvA has
\* opened.  The code does not keep this: see misled.
ContinuesExisting ==
    \A h \in Handler : pc[h] = "post" /\ incr[h] => upstream[thread[h]] # <<>>

\* A conversation gets through all its turns once UvA stops failing; in
\* particular a thread UvA has forgotten does not hold it up for ever.
EveryTurnAnswered == <>(\A c \in Conv : turn[c] = MaxTurns + 1)
==============================================================================
