----------------------------- MODULE HttpServer -----------------------------
(***************************************************************************)
(* server.c: the listening socket, the accept loop, a thread for every     *)
(* connection, and server_stop, which runs in a signal handler or in the   *)
(* thread of a shutdown request while the loop goes on.                    *)
(*                                                                         *)
(* Descriptors are numbers that are used again once closed: to close one   *)
(* twice can close another thread's.  What a request does besides (calls   *)
(* UvA, runs ssh) is one more descriptor it opens and closes.              *)
(***************************************************************************)
EXTENDS Integers

CONSTANTS
    Handler,    \* threads for connections that exist at a time
    Fd,         \* descriptor numbers, as many as RLIMIT_NOFILE
    None        \* -1

Signal == "signal"
Stopper == Handler \cup {Signal}    \* who may be in server_stop

ASSUME ServerAssumption ==
    /\ Fd \subseteq Nat
    /\ None \notin Fd
    /\ Signal \notin Handler

VARIABLES
    running, serverFd,  \* g_running and g_server_fd
    use,        \* the descriptor table
    shut,       \* shutdown() was called on the listening socket
    main,       \* where main is
    stop,       \* where server_stop is, for each that calls it
    hpc,        \* where each connection's thread is
    fd, aux,    \* its connection and its other descriptor
    met         \* whether two calls of server_stop have ever overlapped

serverVars == <<running, serverFd, use, shut, main, stop, hpc, fd, aux, met>>

MainPc == {"init", "listening", "loop", "accept", "blocked", "failed",
           "cleanup", "settle", "killing", "end", "exited"}
StopPc == {"idle", "test", "shut", "close", "unset", "done"}
HandlerPc == {"none", "read", "request", "shutdown", "terminal", "claimed",
              "bridge", "kill", "close"}

ServerTypeOK ==
    /\ running \in BOOLEAN /\ shut \in BOOLEAN /\ met \in BOOLEAN
    /\ serverFd \in Fd \cup {None}
    /\ use \in [Fd -> {"free", "server", "conn", "aux", "abandoned"}]
    /\ main \in MainPc
    /\ stop \in [Stopper -> StopPc]
    /\ hpc \in [Handler -> HandlerPc]
    /\ fd \in [Handler -> Fd \cup {None}]
    /\ aux \in [Handler -> Fd \cup {None}]

ServerInit ==
    /\ running = TRUE
    /\ serverFd = None
    /\ use = [f \in Fd |-> "free"]
    /\ shut = FALSE
    /\ main = "init"
    /\ stop = [s \in Stopper |-> "idle"]
    /\ hpc = [h \in Handler |-> "none"]
    /\ fd = [h \in Handler |-> None]
    /\ aux = [h \in Handler |-> None]
    /\ met = FALSE

\* The kernel gives the lowest number that is free
Lowest(f) == use[f] = "free" /\ \A g \in Fd : use[g] = "free" => f <= g

Goes(h, to) == hpc' = [hpc EXCEPT ![h] = to]

(***************************************************************************)
(* main: server_listen, then server_accept_loop                            *)
(***************************************************************************)
Listen ==
    /\ main = "init"
    /\ \E f \in Fd : Lowest(f) /\ serverFd' = f /\ use' = [use EXCEPT ![f] = "server"]
    /\ main' = "listening"
    /\ UNCHANGED <<running, shut, stop, hpc, fd, aux, met>>

LoopStart ==
    /\ main = "listening"
    /\ running' = TRUE
    /\ main' = "loop"
    /\ UNCHANGED <<serverFd, use, shut, stop, hpc, fd, aux, met>>

TestRunning ==
    /\ main = "loop"
    /\ main' = IF running THEN "accept" ELSE "cleanup"
    /\ UNCHANGED <<running, serverFd, use, shut, stop, hpc, fd, aux, met>>

Listening == serverFd # None /\ use[serverFd] = "server" /\ ~shut

CallAccept ==
    /\ main = "accept"
    /\ main' = IF Listening THEN "blocked" ELSE "failed"
    /\ UNCHANGED <<running, serverFd, use, shut, stop, hpc, fd, aux, met>>

\* accept hands over a connection and pthread_create its thread
Connection(h) ==
    /\ main = "blocked" /\ ~shut
    /\ hpc[h] = "none"
    /\ \E f \in Fd :
        /\ Lowest(f)
        /\ use' = [use EXCEPT ![f] = "conn"]
        /\ fd' = [fd EXCEPT ![h] = f]
    /\ Goes(h, "read")
    /\ main' = "loop"
    /\ UNCHANGED <<running, serverFd, shut, stop, aux, met>>

\* only shutdown wakes a blocked accept, close does not; or no number is free
AcceptFails ==
    /\ main = "blocked"
    /\ shut \/ \A f \in Fd : use[f] # "free"
    /\ main' = "failed"
    /\ UNCHANGED <<running, serverFd, use, shut, stop, hpc, fd, aux, met>>

AcceptFailed ==
    /\ main = "failed"
    /\ main' = IF running THEN "loop" ELSE "cleanup"
    /\ UNCHANGED <<running, serverFd, use, shut, stop, hpc, fd, aux, met>>

(***************************************************************************)
(* server_stop                                                             *)
(***************************************************************************)
Stopping(s) == stop[s] \notin {"idle", "done"}

StopBegin(s) ==
    /\ main # "exited"
    /\ IF s = Signal THEN ~Stopping(s) ELSE stop[s] = "idle" /\ hpc[s] = "shutdown"
    /\ running' = FALSE
    /\ stop' = [stop EXCEPT ![s] = "test"]
    /\ met' = (met \/ \E r \in Stopper : Stopping(r))
    /\ UNCHANGED <<serverFd, use, shut, main, hpc, fd, aux>>

StopTest(s) ==
    /\ main # "exited"
    /\ stop[s] = "test"
    /\ stop' = [stop EXCEPT ![s] = IF serverFd = None THEN "done" ELSE "shut"]
    /\ UNCHANGED <<running, serverFd, use, shut, main, hpc, fd, aux, met>>

\* Mutant: relies on close to end the loop
StopShut_OnlyClose(s) ==
    /\ main # "exited"
    /\ stop[s] = "shut"
    /\ stop' = [stop EXCEPT ![s] = "close"]
    /\ UNCHANGED <<running, serverFd, use, shut, main, hpc, fd, aux, met>>

StopShut(s) ==
    /\ main # "exited"
    /\ stop[s] = "shut"
    /\ shut' = (shut \/ serverFd # None)
    /\ stop' = [stop EXCEPT ![s] = "close"]
    /\ UNCHANGED <<running, serverFd, use, main, hpc, fd, aux, met>>

StopClose(s) ==
    /\ main # "exited"
    /\ stop[s] = "close"
    /\ use' = IF serverFd = None THEN use ELSE [use EXCEPT ![serverFd] = "free"]
    /\ stop' = [stop EXCEPT ![s] = "unset"]
    /\ UNCHANGED <<running, serverFd, shut, main, hpc, fd, aux, met>>

\* Mutant: leaves g_server_fd as it is
StopUnset_Keeps(s) ==
    /\ main # "exited"
    /\ stop[s] = "unset"
    /\ stop' = [stop EXCEPT ![s] = "done"]
    /\ UNCHANGED <<running, serverFd, use, shut, main, hpc, fd, aux, met>>

StopUnset(s) ==
    /\ main # "exited"
    /\ stop[s] = "unset"
    /\ serverFd' = None
    /\ stop' = [stop EXCEPT ![s] = "done"]
    /\ UNCHANGED <<running, use, shut, main, hpc, fd, aux, met>>

StopStep(s) == StopTest(s) \/ StopShut(s) \/ StopClose(s) \/ StopUnset(s)

(***************************************************************************)
(* handle_connection                                                       *)
(***************************************************************************)
Read(h) ==
    /\ main # "exited"
    /\ hpc[h] = "read"
    /\ \E kind \in {"request", "shutdown", "terminal", "close"} : Goes(h, kind)
    /\ UNCHANGED <<running, serverFd, use, shut, main, stop, fd, aux, met>>

OpenAux(h) ==
    /\ main # "exited"
    /\ hpc[h] = "request" /\ aux[h] = None
    /\ \E f \in Fd :
        /\ Lowest(f)
        /\ use' = [use EXCEPT ![f] = "aux"]
        /\ aux' = [aux EXCEPT ![h] = f]
    /\ UNCHANGED <<running, serverFd, shut, main, stop, hpc, fd, met>>

\* the request is answered, or the shutdown request has called server_stop
Respond(h) ==
    /\ main # "exited"
    /\ hpc[h] = "request" \/ (hpc[h] = "shutdown" /\ stop[h] = "done")
    /\ use' = IF aux[h] = None THEN use ELSE [use EXCEPT ![aux[h]] = "free"]
    /\ aux' = [aux EXCEPT ![h] = None]
    /\ Goes(h, "close")
    /\ UNCHANGED <<running, serverFd, shut, main, stop, fd, met>>

CloseConnection(h) ==
    /\ main # "exited"
    /\ hpc[h] = "close"
    /\ use' = [use EXCEPT ![fd[h]] = "free"]
    /\ fd' = [fd EXCEPT ![h] = None]
    /\ stop' = [stop EXCEPT ![h] = "idle"]
    /\ Goes(h, "none")
    /\ UNCHANGED <<running, serverFd, shut, main, aux, met>>

MainStep ==
    Listen \/ LoopStart \/ TestRunning \/ CallAccept \/ AcceptFails \/ AcceptFailed

(***************************************************************************)
(* Properties                                                              *)
(***************************************************************************)
Held(h) == {fd[h], aux[h]} \ {None}

\* What a thread has open stays its own until the thread closes it: the kernel
\* has it, and no other thread has the same number.  Two calls of server_stop
\* at once may close a number twice, the second time someone else's; one at a
\* time never does.
DescriptorsOwned ==
    ~met =>
        /\ \A h \in Handler :
            /\ fd[h] # None => use[fd[h]] = "conn"
            /\ aux[h] # None => use[aux[h]] = "aux"
        /\ \A g, h \in Handler : g # h => Held(g) \cap Held(h) = {}

\* A stop that comes once the accept loop is running ends the loop.  (One that
\* comes before is undone by g_running = 1 at its start.)
StopEndsLoop ==
    [](main \in {"loop", "accept", "blocked", "failed"} /\ ~running
        => <>(main = "exited"))
=============================================================================
