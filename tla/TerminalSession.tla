--------------------------- MODULE TerminalSession ---------------------------
(***************************************************************************)
(* A connection that becomes a terminal: dashboard/terminal.c takes the    *)
(* WebSocket's descriptor from HttpServer (fd_claimed), forks a child on a *)
(* PTY (terminal_spawn here, vps_attach_terminal for a container),         *)
(* terminal_bridge copies between the two until one end is gone, and       *)
(* terminal_kill ends the child and closes the PTY.                        *)
(*                                                                         *)
(* vps_attach_terminal does not set session.active, so terminal_bridge     *)
(* returns at once and nothing is killed or closed.                        *)
(***************************************************************************)
EXTENDS HttpServer

VARIABLES
    child,      \* the session's child process
    strays      \* whether a session has left its child behind

terminalVars == <<child, strays>>
termVars == <<serverVars, terminalVars>>

TerminalTypeOK ==
    /\ child \in [Handler -> {"none", "alive", "zombie"}]
    /\ strays \in BOOLEAN

TerminalInit ==
    /\ child = [h \in Handler |-> "none"]
    /\ strays = FALSE

\* dashboard_terminal_handle up to the handshake; errors are answered with fd
\* still the server's
Claim(h) ==
    /\ main # "exited"
    /\ hpc[h] = "terminal"
    /\ Goes(h, "claimed") \/ Goes(h, "close")
    /\ UNCHANGED <<running, serverFd, use, shut, main, stop, fd, aux, met, terminalVars>>

\* forkpty, a PTY and a child
OpenPty(h, f) ==
    /\ Lowest(f)
    /\ child' = [child EXCEPT ![h] = "alive"]

Spawn(h) ==
    /\ main # "exited"
    /\ hpc[h] = "claimed"
    /\ \E f \in Fd :
        /\ OpenPty(h, f)
        /\ use' = [use EXCEPT ![f] = "aux"]
        /\ aux' = [aux EXCEPT ![h] = f]
    /\ Goes(h, "bridge")
    /\ UNCHANGED <<running, serverFd, shut, main, stop, fd, met, strays>>

\* The thread ends, and handle_connection leaves a claimed descriptor alone
Leave(h) ==
    /\ Goes(h, "none")
    /\ fd' = [fd EXCEPT ![h] = None]

\* neither terminal_spawn nor vps_attach_terminal got a child
SpawnFails(h) ==
    /\ main # "exited"
    /\ hpc[h] = "claimed"
    /\ use' = [use EXCEPT ![fd[h]] = "abandoned"]
    /\ Leave(h)
    /\ UNCHANGED <<running, serverFd, shut, main, stop, aux, met, terminalVars>>

AttachVps(h) ==
    /\ main # "exited"
    /\ hpc[h] = "claimed"
    /\ \E f \in Fd :
        /\ Lowest(f)
        /\ use' = [use EXCEPT ![f] = "abandoned", ![fd[h]] = "abandoned"]
    /\ strays' = TRUE
    /\ Leave(h)
    /\ UNCHANGED <<running, serverFd, shut, main, stop, aux, met, child>>

ChildExits(h) ==
    /\ main # "exited"
    /\ child[h] = "alive"
    /\ child' = [child EXCEPT ![h] = "zombie"]
    /\ UNCHANGED <<serverVars, strays>>

\* terminal_bridge: the poll timed out and child_alive reaps, the PTY hung up,
\* or the client is gone
BridgeEnds(h) ==
    /\ main # "exited"
    /\ hpc[h] = "bridge"
    /\ Goes(h, "kill")
    /\ \/ child[h] = "zombie" /\ child' = [child EXCEPT ![h] = "none"]
       \/ UNCHANGED child
    /\ UNCHANGED <<running, serverFd, use, shut, main, stop, fd, aux, met, strays>>

\* Mutant: takes a child that has exited for one that needs no wait
Kill_NoWait(h) ==
    /\ main # "exited"
    /\ hpc[h] = "kill"
    /\ child' = IF child[h] = "alive" THEN [child EXCEPT ![h] = "none"] ELSE child
    /\ use' = [use EXCEPT ![aux[h]] = "free", ![fd[h]] = "abandoned"]
    /\ aux' = [aux EXCEPT ![h] = None]
    /\ Leave(h)
    /\ UNCHANGED <<running, serverFd, shut, main, stop, met, strays>>

\* terminal_kill (SIGTERM, ten tries to reap, SIGKILL, wait), then the end
Kill(h) ==
    /\ main # "exited"
    /\ hpc[h] = "kill"
    /\ child' = [child EXCEPT ![h] = "none"]
    /\ use' = [use EXCEPT ![aux[h]] = "free", ![fd[h]] = "abandoned"]
    /\ aux' = [aux EXCEPT ![h] = None]
    /\ Leave(h)
    /\ UNCHANGED <<running, serverFd, shut, main, stop, met, strays>>

TerminalStep(h) ==
    \/ Claim(h) \/ Spawn(h) \/ SpawnFails(h) \/ AttachVps(h)
    \/ BridgeEnds(h) \/ Kill(h)

(***************************************************************************)
(* Properties                                                              *)
(***************************************************************************)

\* A session on this machine ends with its child gone and reaped, whether the
\* child, the client or the bridge ended it: none is left when the thread is.
ChildrenReaped ==
    \A h \in Handler : child[h] # "none" => hpc[h] \in {"bridge", "kill"}

\* A handler that sets fd_claimed "takes ownership of fd" (server.h), and
\* terminal_kill is to "kill the child process and clean up PTY resources"
\* (terminal.h): when no connection is being served, nothing of one is left.
NothingLeftOpen ==
    (\A h \in Handler : hpc[h] = "none")
        => ~strays /\ \A f \in Fd : use[f] \in {"free", "server"}
==============================================================================
