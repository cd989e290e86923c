---------------------------- MODULE ProxyProcess ----------------------------
(***************************************************************************)
(* main.c: the server with its terminals and the Open WebUI supervisor in  *)
(* one process.  main starts the supervisor between server_listen and the  *)
(* accept loop and stops it after the loop; then the process exits, and    *)
(* with it every thread, whatever it is doing.                             *)
(***************************************************************************)
EXTENDS TerminalSession, WebuiSupervisor

vars == <<termVars, webuiVars>>

TypeOK == ServerTypeOK /\ TerminalTypeOK /\ WebuiTypeOK

Init == ServerInit /\ TerminalInit /\ WebuiInit

MainGoes(from, to) ==
    /\ main = from
    /\ main' = to
    /\ UNCHANGED <<running, serverFd, use, shut, stop, hpc, fd, aux, met, terminalVars>>

\* webui_start; it may be disabled or fail, and LoopStart comes without it
StartWebui == main = "listening" /\ Launch /\ UNCHANGED termVars

\* webui_stop: the flag, then 200 ms for the thread to notice it
StopWebui ==
    /\ MainGoes("cleanup", IF webuiRunning THEN "settle" ELSE "end")
    /\ webuiRunning' = FALSE
    /\ UNCHANGED <<childPid, retries, sup, killing, forked, alive, zombies>>

\* They are taken to be enough to get from the test of the flag to the pid of
\* the child forked after it; calls that block are not waited for
Settle ==
    /\ sup \notin {"fork", "assign"}
    /\ MainGoes("settle", "killing")
    /\ killing' = [killing EXCEPT !["main"] = "test"]
    /\ UNCHANGED <<webuiRunning, childPid, retries, sup, forked, alive, zombies>>

WebuiStopped == killing["main"] = "no" /\ MainGoes("killing", "end") /\ UNCHANGED webuiVars

Exit == MainGoes("end", "exited") /\ UNCHANGED webuiVars

\* The end that webui_stop does not intend
GroupKilled ==
    /\ main # "exited" /\ main' = "exited"
    /\ \E k \in Killer : KillGroup(k)
    /\ UNCHANGED <<running, serverFd, use, shut, stop, hpc, fd, aux, met, terminalVars>>

MainProceeds ==
    \/ MainStep /\ UNCHANGED <<terminalVars, webuiVars>>
    \/ StopWebui \/ Settle \/ WebuiStopped \/ Exit

SupervisorStep ==
    /\ main # "exited"
    /\ SupStep \/ KillStep("supervisor")
    /\ UNCHANGED termVars

Next ==
    \/ MainProceeds \/ StartWebui
    \/ \E s \in Stopper : (StopBegin(s) \/ StopStep(s)) /\ UNCHANGED <<terminalVars, webuiVars>>
    \/ \E h \in Handler :
        \/ (Connection(h) \/ Read(h) \/ OpenAux(h) \/ Respond(h) \/ CloseConnection(h))
            /\ UNCHANGED <<terminalVars, webuiVars>>
        \/ (TerminalStep(h) \/ ChildExits(h)) /\ UNCHANGED webuiVars
    \/ SupervisorStep
    \/ main # "exited" /\ KillStep("main") /\ UNCHANGED termVars
    \/ GroupKilled
    \/ main # "exited" /\ (\E c \in alive : ChildDies(c)) /\ UNCHANGED termVars

Spec == Init /\ [][Next]_vars

\* Threads are scheduled by the kernel; when signals, requests and deaths come
\* is up to the environment
FairSpec ==
    /\ Spec
    /\ WF_vars(MainProceeds)
    /\ WF_vars(main # "exited" /\ KillStep("main") /\ UNCHANGED termVars)
    /\ WF_vars(SupervisorStep) /\ WF_vars(GroupKilled)
    /\ \A s \in Stopper : WF_vars(StopStep(s) /\ UNCHANGED <<terminalVars, webuiVars>>)

(***************************************************************************)
(* Properties                                                              *)
(***************************************************************************)

\* "Stop the Open WebUI child process" (webui.h): when the process is gone,
\* Open WebUI is not left behind on its port.
NoWebuiLeft == main = "exited" => alive = {}
=============================================================================
