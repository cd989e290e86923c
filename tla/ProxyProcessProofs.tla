------------------------- MODULE ProxyProcessProofs -------------------------
(***************************************************************************)
(* What ProxyProcess promises for any number of connections, descriptors   *)
(* and retries: its types, descriptors and children that stay with the     *)
(* thread they belong to, and an Open WebUI that is never lost.            *)
(*                                                                         *)
(* The server's and the terminals' invariants stand on ServerInv and need  *)
(* nothing of the supervisor; WebuiInv relates the supervisor to where     *)
(* main is and needs nothing else of the server.                           *)
(***************************************************************************)
EXTENDS ProxyProcess, FiniteSetTheorems, TLAPS

(***************************************************************************)
(* The inductive invariants                                                *)
(***************************************************************************)

Types == ServerTypeOK /\ TerminalTypeOK

\* Until two calls of server_stop meet, there is one at a time; the descriptor
\* in g_server_fd is the server's unless that call is between closing it and
\* forgetting it.
OneStop ==
    /\ ~met =>
        /\ \A r, s \in Stopper : Stopping(r) /\ Stopping(s) => r = s
        /\ serverFd # None =>
            use[serverFd] = "server" \/ \E s \in Stopper : stop[s] = "unset"
    /\ \A h \in Handler : Stopping(h) => hpc[h] = "shutdown"

\* DescriptorsOwned, with the two kinds of descriptors apart
Theirs ==
    ~met =>
        /\ \A h \in Handler :
            /\ fd[h] # None => use[fd[h]] = "conn"
            /\ aux[h] # None => use[aux[h]] = "aux"
        /\ \A g, h \in Handler :
            g # h => /\ fd[g] # None => fd[g] # fd[h]
                     /\ aux[g] # None => aux[g] # aux[h]

ServerInv == Types /\ OneStop /\ Theirs /\ ChildrenReaped

Early == {"init", "listening", "loop", "accept", "blocked", "failed", "cleanup"}
Serving == {"assign", "wait", "health", "look", "failed", "kill", "init",
            "monitor", "watch", "lost"}

\* A fork for every retry, and one more while it is watched
Counting ==
    /\ sup = "off" => forked = 0
    /\ sup \in {"off", "setup", "port", "top", "fork"} => forked <= retries
    /\ sup \in Serving => forked <= retries + 1
    /\ sup \in Serving \cup {"fork"} => retries < MaxRetries

\* Where main is decides what the supervisor may still do
Shutdown ==
    /\ main \in Early /\ ~webuiRunning => sup = "off"
    /\ main \in {"settle", "killing", "end"} => ~webuiRunning
    /\ main \in {"killing", "end"} => sup \notin {"fork", "assign"}
    /\ killing["main"] # "no" => main \in {"killing", "exited"}
    /\ killing["supervisor"] # "no" => sup = "kill"

\* Where the one child can be, and when there is none
Whereabouts ==
    /\ sup \in {"off", "setup", "port", "top", "fork", "assign"} => childPid = 0
    /\ sup = "lost" /\ webuiRunning => childPid = 0
    /\ sup = "kill" /\ killing["supervisor"] = "no" => childPid = 0
    /\ sup = "assign" => alive \cup zombies \subseteq {forked}
    /\ sup # "assign" => alive \cup zombies \subseteq {childPid}
    /\ \A k \in Killer : killing[k] = "clear" => alive = {} /\ zombies = {}
    /\ main = "killing" /\ killing["main"] = "no" => alive = {}
    /\ main \in {"end", "exited"} => alive = {}

WebuiInv == WebuiTypeOK /\ main \in MainPc /\ Counting /\ Shutdown /\ Whereabouts

(***************************************************************************)
(* The server and the terminals                                            *)
(***************************************************************************)

LEMMA MainStepKeeps ==
    ASSUME ServerInv, MainStep, UNCHANGED terminalVars
    PROVE  ServerInv'
<1> USE DEF ServerInv, Types, ServerTypeOK, TerminalTypeOK, OneStop, Theirs, ChildrenReaped,
            Stopping, Stopper, Goes, terminalVars
<1>1. CASE Listen
  BY <1>1, ServerAssumption DEF Listen, Lowest, MainPc
<1>2. CASE LoopStart
  BY <1>2, ServerAssumption DEF LoopStart, MainPc
<1>3. CASE TestRunning
  BY <1>3, ServerAssumption DEF TestRunning, MainPc
<1>4. CASE CallAccept
  BY <1>4, ServerAssumption DEF CallAccept, MainPc
<1>5. CASE AcceptFails
  BY <1>5, ServerAssumption DEF AcceptFails, MainPc
<1>6. CASE AcceptFailed
  BY <1>6, ServerAssumption DEF AcceptFailed, MainPc
<1>7. QED
  BY <1>1, <1>2, <1>3, <1>4, <1>5, <1>6 DEF MainStep

LEMMA StopKeeps ==
    ASSUME ServerInv, NEW s \in Stopper, StopBegin(s) \/ StopStep(s), UNCHANGED terminalVars
    PROVE  ServerInv'
<1> USE DEF ServerInv, Types, ServerTypeOK, TerminalTypeOK, OneStop, Theirs, ChildrenReaped,
            Stopping, Stopper, Goes, terminalVars
<1>1. CASE StopBegin(s)
  <2>1. Types'
    BY <1>1, ServerAssumption DEF StopBegin, StopPc
  <2>2. OneStop'
    <3>1. stop' = [stop EXCEPT ![s] = "test"] /\ stop[s] # "unset"
      BY <1>1 DEF StopBegin
    <3>2. \A r \in Stopper : r # s => stop'[r] = stop[r]
      BY <3>1
    <3>3. ~met' => ~met /\ \A r \in Stopper : ~Stopping(r)
      BY <1>1 DEF StopBegin
    <3>4. s \in Handler => hpc[s] = "shutdown"
      BY <1>1, ServerAssumption DEF StopBegin
    <3>5. UNCHANGED <<serverFd, use, hpc>>
      BY <1>1 DEF StopBegin
    <3>6. \A h \in Handler : h # s /\ Stopping(h)' => hpc'[h] = "shutdown"
      BY <3>2, <3>5
    <3>7. ~met' => \A r, q \in Stopper : Stopping(r)' /\ Stopping(q)' => r = q
      BY <3>2, <3>3
    <3>8. ~met' /\ serverFd # None => use[serverFd] = "server"
      BY <3>3
    <3>9. QED
      BY <3>4, <3>5, <3>6, <3>7, <3>8
  <2>3. Theirs'
    BY <1>1, ServerAssumption DEF StopBegin, StopPc
  <2>4. ChildrenReaped'
    BY <1>1 DEF StopBegin, StopPc
  <2>5. QED
    BY <2>1, <2>2, <2>3, <2>4
<1>2. CASE StopTest(s)
  BY <1>2, ServerAssumption DEF StopTest, StopPc
<1>3. CASE StopShut(s)
  BY <1>3, ServerAssumption DEF StopShut, StopPc
<1>4. CASE StopClose(s)
  BY <1>4, ServerAssumption DEF StopClose, StopPc
<1>5. CASE StopUnset(s)
  BY <1>5, ServerAssumption DEF StopUnset, StopPc
<1>6. QED
  BY <1>1, <1>2, <1>3, <1>4, <1>5 DEF StopStep

LEMMA HandlerKeeps ==
    ASSUME ServerInv, NEW h \in Handler, UNCHANGED terminalVars,
           Connection(h) \/ Read(h) \/ OpenAux(h) \/ Respond(h) \/ CloseConnection(h)
    PROVE  ServerInv'
<1> USE DEF ServerInv, Types, ServerTypeOK, TerminalTypeOK, OneStop, Theirs, ChildrenReaped,
            Stopping, Stopper, Goes, terminalVars
<1>1. CASE Connection(h)
  BY <1>1, ServerAssumption DEF Connection, Lowest, MainPc, HandlerPc
<1>2. CASE Read(h)
  BY <1>2, ServerAssumption DEF Read, HandlerPc
<1>3. CASE OpenAux(h)
  BY <1>3, ServerAssumption DEF OpenAux, Lowest
<1>4. CASE Respond(h)
  BY <1>4, ServerAssumption DEF Respond, HandlerPc
<1>5. CASE CloseConnection(h)
  <2>1. Types'
    BY <1>5, ServerAssumption DEF CloseConnection, HandlerPc, StopPc
  <2>2. OneStop'
    BY <1>5, ServerAssumption DEF CloseConnection, HandlerPc, StopPc
  <2>3. Theirs'
    BY <1>5, ServerAssumption DEF CloseConnection, HandlerPc, StopPc
  <2>4. ChildrenReaped'
    BY <1>5 DEF CloseConnection, HandlerPc, StopPc
  <2>5. QED
    BY <2>1, <2>2, <2>3, <2>4
<1>6. QED
  BY <1>1, <1>2, <1>3, <1>4, <1>5

LEMMA TerminalKeeps ==
    ASSUME ServerInv, NEW h \in Handler, TerminalStep(h) \/ ChildExits(h)
    PROVE  ServerInv'
<1> USE DEF ServerInv, Types, ServerTypeOK, TerminalTypeOK, OneStop, Theirs, ChildrenReaped,
            Stopping, Stopper, Goes, terminalVars
<1>1. CASE Claim(h)
  BY <1>1, ServerAssumption DEF Claim, HandlerPc
<1>2. CASE Spawn(h)
  BY <1>2, ServerAssumption DEF Spawn, OpenPty, Lowest, HandlerPc
<1>3. CASE SpawnFails(h)
  <2>1. Types'
    BY <1>3, ServerAssumption DEF SpawnFails, Leave, HandlerPc
  <2>2. OneStop'
    BY <1>3, ServerAssumption DEF SpawnFails, Leave, HandlerPc
  <2>3. Theirs'
    BY <1>3, ServerAssumption DEF SpawnFails, Leave, HandlerPc
  <2>4. ChildrenReaped'
    BY <1>3 DEF SpawnFails, Leave, HandlerPc
  <2>5. QED
    BY <2>1, <2>2, <2>3, <2>4
<1>4. CASE AttachVps(h)
  <2>1. Types'
    BY <1>4, ServerAssumption DEF AttachVps, Leave, Lowest, HandlerPc
  <2>2. OneStop'
    BY <1>4, ServerAssumption DEF AttachVps, Leave, Lowest, HandlerPc
  <2>3. Theirs'
    <3>1. UNCHANGED <<met, aux>> /\ fd'[h] = None
            /\ (\A g \in Handler : g # h => fd'[g] = fd[g])
      BY <1>4 DEF AttachVps, Leave
    <3>2. \A f \in Fd : f # fd[h] /\ use[f] # "free" => use'[f] = use[f]
      BY <1>4 DEF AttachVps, Lowest
    <3>3. ~met => \A g \in Handler :
            /\ fd'[g] # None => use'[fd'[g]] = "conn"
            /\ aux'[g] # None => use'[aux'[g]] = "aux"
      BY <3>1, <3>2
    <3>4. QED
      BY <3>1, <3>3
  <2>4. ChildrenReaped'
    BY <1>4 DEF AttachVps, Leave, Lowest, HandlerPc
  <2>5. QED
    BY <2>1, <2>2, <2>3, <2>4
<1>5. CASE ChildExits(h)
  BY <1>5, ServerAssumption DEF ChildExits, serverVars
<1>6. CASE BridgeEnds(h)
  BY <1>6, ServerAssumption DEF BridgeEnds, HandlerPc
<1>7. CASE Kill(h)
  <2>1. Types'
    BY <1>7, ServerAssumption DEF Kill, Leave, HandlerPc
  <2>2. OneStop'
    BY <1>7, ServerAssumption DEF Kill, Leave, HandlerPc
  <2>3. Theirs'
    <3>1. UNCHANGED met /\ (\A g \in Handler : g # h => fd'[g] = fd[g] /\ aux'[g] = aux[g])
            /\ fd'[h] = None /\ aux'[h] = None
      BY <1>7 DEF Kill, Leave
    <3>2. \A f \in Fd : f # fd[h] /\ f # aux[h] => use'[f] = use[f]
      BY <1>7 DEF Kill
    <3>3. ~met => \A g \in Handler :
            /\ fd'[g] # None => use'[fd'[g]] = "conn"
            /\ aux'[g] # None => use'[aux'[g]] = "aux"
      BY <3>1, <3>2
    <3>4. QED
      BY <3>1, <3>3
  <2>4. ChildrenReaped'
    BY <1>7 DEF Kill, Leave, HandlerPc
  <2>5. QED
    BY <2>1, <2>2, <2>3, <2>4
<1>8. QED
  BY <1>1, <1>2, <1>3, <1>4, <1>5, <1>6, <1>7 DEF TerminalStep

(***************************************************************************)
(* Open WebUI                                                              *)
(***************************************************************************)

\* Nothing the server does while main is in it concerns the supervisor
LEMMA ServingKeeps ==
    ASSUME WebuiInv, UNCHANGED webuiVars,
           UNCHANGED main \/ (main \in Early /\ main' \in Early)
    PROVE  WebuiInv'
BY DEF WebuiInv, WebuiTypeOK, webuiVars, MainPc, Counting, Shutdown, Whereabouts, Early, Running

LEMMA MainKeeps ==
    ASSUME WebuiInv, StartWebui \/ StopWebui \/ Settle \/ WebuiStopped \/ Exit
    PROVE  WebuiInv'
<1> USE WebuiAssumption DEF WebuiInv, WebuiTypeOK, MainPc, SupPc, Killer, Counting, Shutdown,
        Whereabouts, Early, Serving
<1>1. CASE StartWebui
  BY <1>1 DEF StartWebui, Launch, termVars, serverVars
<1>2. CASE StopWebui
  <2>1. (WebuiTypeOK /\ main \in MainPc)'
    BY <1>2 DEF StopWebui, MainGoes
  <2>2. Counting'
    BY <1>2 DEF StopWebui, MainGoes
  <2>3. Shutdown'
    BY <1>2 DEF StopWebui, MainGoes
  <2>4. Whereabouts'
    BY <1>2 DEF StopWebui, MainGoes
  <2>5. QED
    BY <2>1, <2>2, <2>3, <2>4
<1>3. CASE Settle
  BY <1>3 DEF Settle, MainGoes
<1>4. CASE WebuiStopped
  BY <1>4 DEF WebuiStopped, MainGoes, webuiVars
<1>5. CASE Exit
  BY <1>5 DEF Exit, MainGoes, webuiVars
<1>6. QED
  BY <1>1, <1>2, <1>3, <1>4, <1>5

LEMMA SupervisorKeeps ==
    ASSUME WebuiInv, SupStep, UNCHANGED main, main # "exited"
    PROVE  WebuiInv'
<1> USE WebuiAssumption DEF WebuiInv, WebuiTypeOK, MainPc, SupPc, Killer, Counting, Shutdown,
        Whereabouts, Early, Serving
<1>1. CASE Prepare
  <2>1. (WebuiTypeOK /\ main \in MainPc)'
    BY <1>1 DEF Prepare, SupGoes
  <2>2. Counting'
    BY <1>1 DEF Prepare, SupGoes
  <2>3. Shutdown'
    BY <1>1 DEF Prepare, SupGoes
  <2>4. Whereabouts'
    BY <1>1 DEF Prepare, SupGoes
  <2>5. QED
    BY <2>1, <2>2, <2>3, <2>4
<1>2. CASE Top
  BY <1>2 DEF Top, SupGoes
<1>3. CASE Fork
  <2> DEFINE Forked == /\ sup' = "assign"
                       /\ forked' = forked + 1
                       /\ alive' = alive \cup {forked + 1}
                       /\ UNCHANGED retries
             Retried == /\ sup' = "top"
                        /\ retries' = retries + 1
                        /\ UNCHANGED <<forked, alive>>
  <2>a. Forked \/ Retried
    BY <1>3 DEF Fork
  <2>b. /\ sup = "fork" /\ childPid = 0
        /\ UNCHANGED <<webuiRunning, childPid, killing, zombies>>
    BY <1>3 DEF Fork
  <2>c. alive = {} /\ zombies = {}
    BY <2>b
  <2>1. (WebuiTypeOK /\ main \in MainPc)'
    <3>1. CASE Forked
      BY <2>b, <2>c, <3>1
    <3>2. CASE Retried
      BY <2>b, <3>2
    <3>3. QED
      BY <2>a, <3>1, <3>2
  <2>2. Counting'
    BY <1>3 DEF Fork
  <2>3. Shutdown'
    BY <1>3 DEF Fork
  <2>4. Whereabouts'
    <3>1. CASE Forked
      BY <2>b, <2>c, <3>1
    <3>2. CASE Retried
      BY <2>b, <3>2
    <3>3. QED
      BY <2>a, <3>1, <3>2
  <2>5. QED
    BY <2>1, <2>2, <2>3, <2>4
<1>4. CASE Assign
  BY <1>4 DEF Assign
<1>5. CASE Wait
  <2>1. (WebuiTypeOK /\ main \in MainPc)'
    BY <1>5 DEF Wait, SupGoes
  <2>2. Counting'
    BY <1>5 DEF Wait, SupGoes
  <2>3. Shutdown'
    BY <1>5 DEF Wait, SupGoes
  <2>4. Whereabouts'
    BY <1>5 DEF Wait, SupGoes
  <2>5. QED
    BY <2>1, <2>2, <2>3, <2>4
<1>6. CASE Health
  <2>1. (WebuiTypeOK /\ main \in MainPc)'
    BY <1>6 DEF Health, SupGoes
  <2>2. Counting'
    BY <1>6 DEF Health, SupGoes
  <2>3. Shutdown'
    BY <1>6 DEF Health, SupGoes
  <2>4. Whereabouts'
    BY <1>6 DEF Health, SupGoes
  <2>5. QED
    BY <2>1, <2>2, <2>3, <2>4
<1>7. CASE Look("look", "wait", "failed")
  <2>1. (WebuiTypeOK /\ main \in MainPc)'
    <3>1. CASE Running
      BY <1>7, <3>1 DEF Look
    <3>2. CASE ~Running
      <4>1. zombies' \subseteq zombies /\ childPid' = 0
        BY <1>7, <3>2 DEF Look, Reap
      <4>2. QED
        BY <1>7, <3>2, <4>1 DEF Look
    <3>3. QED
      BY <3>1, <3>2
  <2>2. Counting'
    BY <1>7 DEF Look, Reap, Running
  <2>3. Shutdown'
    BY <1>7 DEF Look, Reap, Running
  <2>4. Whereabouts'
    BY <1>7 DEF Look, Reap, Running
  <2>5. QED
    BY <2>1, <2>2, <2>3, <2>4
<1>8. CASE Failed
  BY <1>8 DEF Failed
<1>9. CASE Killed
  BY <1>9 DEF Killed
<1>10. CASE PostInit
  BY <1>10 DEF PostInit, SupGoes
<1>11. CASE Monitor
  BY <1>11 DEF Monitor, SupGoes
<1>12. CASE Look("watch", "monitor", "lost")
  <2>1. (WebuiTypeOK /\ main \in MainPc)'
    <3>1. CASE Running
      BY <1>12, <3>1 DEF Look
    <3>2. CASE ~Running
      <4>1. zombies' \subseteq zombies /\ childPid' = 0
        BY <1>12, <3>2 DEF Look, Reap
      <4>2. QED
        BY <1>12, <3>2, <4>1 DEF Look
    <3>3. QED
      BY <3>1, <3>2
  <2>2. Counting'
    BY <1>12 DEF Look, Reap, Running
  <2>3. Shutdown'
    BY <1>12 DEF Look, Reap, Running
  <2>4. Whereabouts'
    BY <1>12 DEF Look, Reap, Running
  <2>5. QED
    BY <2>1, <2>2, <2>3, <2>4
<1>13. CASE Lost
  BY <1>13 DEF Lost
<1>14. QED
  BY <1>1, <1>2, <1>3, <1>4, <1>5, <1>6, <1>7, <1>8, <1>9, <1>10, <1>11, <1>12, <1>13 DEF SupStep

LEMMA KillerKeeps ==
    ASSUME WebuiInv, NEW k \in Killer, KillStep(k), UNCHANGED main, main # "exited"
    PROVE  WebuiInv'
<1> USE WebuiAssumption DEF WebuiInv, WebuiTypeOK, MainPc, SupPc, Killer, Counting, Shutdown,
        Whereabouts, Early, Serving
<1>1. CASE KillTest(k)
  BY <1>1 DEF KillTest
<1>2. CASE KillWait(k)
  BY <1>2, ZenonT(60) DEF KillWait, Running
<1>3. CASE KillForce(k)
  BY <1>3 DEF KillForce
<1>4. CASE KillClear(k)
  BY <1>4 DEF KillClear
<1>5. QED
  BY <1>1, <1>2, <1>3, <1>4 DEF KillStep

LEMMA DeathKeeps ==
    ASSUME WebuiInv,
           GroupKilled \/ (UNCHANGED main /\ \E c \in alive : ChildDies(c))
    PROVE  WebuiInv'
<1> USE WebuiAssumption DEF WebuiInv, WebuiTypeOK, MainPc, SupPc, Killer, Counting, Shutdown,
        Whereabouts, Early, Serving
<1>1. CASE GroupKilled
  BY <1>1 DEF GroupKilled, KillGroup
<1>2. CASE UNCHANGED main /\ \E c \in alive : ChildDies(c)
  BY <1>2 DEF ChildDies
<1>3. QED
  BY <1>1, <1>2

(***************************************************************************)
(* Together                                                                *)
(***************************************************************************)
Inv == ServerInv /\ WebuiInv

LEMMA InitHolds == Init => Inv
<1> SUFFICES ASSUME Init PROVE Inv
  OBVIOUS
<1> USE DEF Init, ServerInit, TerminalInit, WebuiInit
<1>1. Types
  BY DEF Types, ServerTypeOK, TerminalTypeOK, MainPc, StopPc, HandlerPc
<1>2. OneStop /\ Theirs /\ ChildrenReaped
  BY DEF OneStop, Theirs, ChildrenReaped, Stopping, Stopper
<1>3. WebuiInv
  <2>1. WebuiTypeOK /\ main \in MainPc
    <3>1. killing \in [Killer -> {"no", "test", "wait", "force", "clear"}] /\ 0 \in 0..MaxRetries
      BY WebuiAssumption DEF Killer
    <3>2. QED
      BY <3>1 DEF WebuiTypeOK, MainPc, SupPc
  <2>2. Counting
    BY WebuiAssumption DEF Counting, Serving
  <2>3. Shutdown
    BY DEF Shutdown, Killer, Early
  <2>4. Whereabouts
    BY DEF Whereabouts, Killer
  <2>5. QED
    BY <2>1, <2>2, <2>3, <2>4 DEF WebuiInv
<1>4. QED
  BY <1>1, <1>2, <1>3 DEF Inv, ServerInv

LEMMA IdleKeeps ==
    ASSUME ServerInv, UNCHANGED termVars
    PROVE  ServerInv'
BY DEF ServerInv, Types, ServerTypeOK, TerminalTypeOK, OneStop, Theirs, ChildrenReaped,
       Stopping, termVars, serverVars, terminalVars

\* A step of main's alone, past the accept loop
LEMMA MainAloneKeeps ==
    ASSUME ServerInv, main' \in MainPc,
           UNCHANGED <<running, serverFd, use, shut, stop, hpc, fd, aux, met, terminalVars>>
    PROVE  ServerInv'
BY DEF ServerInv, Types, ServerTypeOK, TerminalTypeOK, OneStop, Theirs, ChildrenReaped,
       Stopping, terminalVars

LEMMA MainStepMoves ==
    ASSUME MainStep
    PROVE  main \in Early /\ main' \in Early
BY DEF MainStep, Listen, LoopStart, TestRunning, CallAccept, AcceptFails, AcceptFailed, Early

LEMMA StepKeeps == Inv /\ [Next]_vars => Inv'
<1> SUFFICES ASSUME Inv, [Next]_vars PROVE Inv'
  OBVIOUS
<1>0. ServerInv /\ WebuiInv
  BY DEF Inv
<1>1. CASE MainStep /\ UNCHANGED <<terminalVars, webuiVars>>
  BY <1>0, <1>1, MainStepKeeps, MainStepMoves, ServingKeeps DEF Inv
<1>2. CASE StopWebui \/ Settle \/ WebuiStopped \/ Exit
  <2>1. main' \in MainPc
        /\ UNCHANGED <<running, serverFd, use, shut, stop, hpc, fd, aux, met, terminalVars>>
    BY <1>2 DEF StopWebui, Settle, WebuiStopped, Exit, MainGoes, MainPc
  <2>2. QED
    BY <1>0, <1>2, <2>1, MainAloneKeeps, MainKeeps DEF Inv
<1>3. CASE StartWebui
  BY <1>0, <1>3, IdleKeeps, MainKeeps DEF StartWebui, Inv
<1>4. ASSUME NEW s \in Stopper, StopBegin(s) \/ StopStep(s),
             UNCHANGED <<terminalVars, webuiVars>>
      PROVE  Inv'
  <2>1. UNCHANGED main
    BY <1>4 DEF StopBegin, StopStep, StopTest, StopShut, StopClose, StopUnset
  <2>2. QED
    BY <1>0, <1>4, <2>1, StopKeeps, ServingKeeps DEF Inv
<1>5. ASSUME NEW h \in Handler, UNCHANGED <<terminalVars, webuiVars>>,
             Connection(h) \/ Read(h) \/ OpenAux(h) \/ Respond(h) \/ CloseConnection(h)
      PROVE  Inv'
  <2>1. UNCHANGED main \/ (main \in Early /\ main' \in Early)
    BY <1>5 DEF Connection, Read, OpenAux, Respond, CloseConnection, Early
  <2>2. QED
    BY <1>0, <1>5, <2>1, HandlerKeeps, ServingKeeps DEF Inv
<1>6. ASSUME NEW h \in Handler, TerminalStep(h) \/ ChildExits(h), UNCHANGED webuiVars
      PROVE  Inv'
  <2>1. UNCHANGED main
    BY <1>6 DEF TerminalStep, ChildExits, Claim, Spawn, SpawnFails, AttachVps, BridgeEnds,
                Kill, serverVars
  <2>2. QED
    BY <1>0, <1>6, <2>1, TerminalKeeps, ServingKeeps DEF Inv
<1>7. CASE SupervisorStep
  <2>1. UNCHANGED main /\ main # "exited" /\ UNCHANGED termVars
    BY <1>7 DEF SupervisorStep, termVars, serverVars
  <2>2. WebuiInv'
    <3>1. CASE SupStep
      BY <1>0, <2>1, <3>1, SupervisorKeeps
    <3>2. CASE KillStep("supervisor")
      BY <1>0, <2>1, <3>2, KillerKeeps DEF Killer
    <3>3. QED
      BY <1>7, <3>1, <3>2 DEF SupervisorStep
  <2>3. QED
    BY <1>0, <2>1, <2>2, IdleKeeps DEF Inv
<1>8. CASE main # "exited" /\ KillStep("main") /\ UNCHANGED termVars
  <2>1. UNCHANGED main
    BY <1>8 DEF termVars, serverVars
  <2>2. QED
    BY <1>0, <1>8, <2>1, KillerKeeps, IdleKeeps DEF Killer, Inv
<1>9. CASE GroupKilled
  <2>1. main' \in MainPc
        /\ UNCHANGED <<running, serverFd, use, shut, stop, hpc, fd, aux, met, terminalVars>>
    BY <1>9 DEF GroupKilled, MainPc
  <2>2. QED
    BY <1>0, <1>9, <2>1, MainAloneKeeps, DeathKeeps DEF Inv
<1>10. CASE main # "exited" /\ (\E c \in alive : ChildDies(c)) /\ UNCHANGED termVars
  <2>1. UNCHANGED main
    BY <1>10 DEF termVars, serverVars
  <2>2. QED
    BY <1>0, <1>10, <2>1, DeathKeeps, IdleKeeps DEF Inv
<1>11. CASE UNCHANGED vars
  <2>1. UNCHANGED <<termVars, webuiVars, main>>
    BY <1>11 DEF vars, termVars, serverVars
  <2>2. QED
    BY <1>0, <2>1, IdleKeeps, ServingKeeps DEF Inv
<1>12. CASE Next
  BY <1>1, <1>2, <1>3, <1>4, <1>5, <1>6, <1>7, <1>8, <1>9, <1>10, <1>12
     DEF Next, MainProceeds
<1>13. QED
  BY <1>11, <1>12

LEMMA Invariance == Spec => []Inv
BY InitHolds, StepKeeps, PTL DEF Spec

(***************************************************************************)
(* Theorems                                                                *)
(***************************************************************************)

\* The server, the terminals and the supervisor keep their types: above all
\* the supervisor (launcher.c) forks MAX_RETRIES children at most.
THEOREM TypeCorrect == Spec => []TypeOK
<1>1. Inv => TypeOK
  BY DEF Inv, ServerInv, Types, WebuiInv, TypeOK
<1>2. QED
  BY Invariance, <1>1, PTL

\* However many threads open, close and reuse descriptors, and however many
\* times server_stop (server.c) is called, it closes nobody else's as long as
\* two calls of it do not overlap.
THEOREM NumbersStayOwned == Spec => []DescriptorsOwned
<1>1. Types /\ Theirs => DescriptorsOwned
  BY ServerAssumption DEF Types, ServerTypeOK, Theirs, DescriptorsOwned, Held
<1>2. Inv => DescriptorsOwned
  BY <1>1 DEF Inv, ServerInv
<1>3. QED
  BY Invariance, <1>2, PTL

\* No thread that served a local terminal (terminal_kill, spawn.c) is gone
\* before its child is.
THEOREM SessionsReap == Spec => []ChildrenReaped
<1>1. Inv => ChildrenReaped
  BY DEF Inv, ServerInv
<1>2. QED
  BY Invariance, <1>1, PTL

\* Whatever the two threads that may be in webui_kill_child (process.c) do,
\* there is one Open WebUI at most and its pid is known.
THEOREM WebuiStaysKnown == Spec => []OneKnownChild
<1>1. Inv => OneKnownChild
  <2> SUFFICES ASSUME WebuiInv PROVE OneKnownChild
    BY DEF Inv
  <2>1. \E c : alive \subseteq {c}
    BY DEF WebuiInv, Whereabouts
  <2>2. PICK c : alive \subseteq {c}
    BY <2>1
  <2>3. IsFiniteSet({c}) /\ Cardinality({c}) = 1
    BY FS_Singleton
  <2>4. Cardinality(alive) <= 1
    BY <2>2, <2>3, FS_Subset
  <2>5. QED
    BY <2>4 DEF OneKnownChild, WebuiInv, Whereabouts
<1>2. QED
  BY Invariance, <1>1, PTL

\* When main has returned (main.c), no Open WebUI is left behind: webui_stop
\* ends the one there is, and none is started once the flag is down.
THEOREM WebuiEnds == Spec => []NoWebuiLeft
<1>1. Inv => NoWebuiLeft
  BY DEF Inv, WebuiInv, Whereabouts, NoWebuiLeft
<1>2. QED
  BY Invariance, <1>1, PTL
=============================================================================
