-------------------------- MODULE WebuiSupervisor ---------------------------
(***************************************************************************)
(* ui/webui: a thread that starts Open WebUI, waits until it answers,      *)
(* watches it and starts it again when it dies, and webui_stop, by which   *)
(* main ends it.  The two share g_webui_running and g_webui_child_pid      *)
(* without a lock, and both run webui_kill_child.                          *)
(*                                                                         *)
(* Children are numbered in the order they are forked.                     *)
(***************************************************************************)
EXTENDS Integers, FiniteSets

CONSTANT MaxRetries     \* MAX_RETRIES

ASSUME WebuiAssumption == MaxRetries \in Nat \ {0}

Killer == {"main", "supervisor"}    \* who may be in webui_kill_child

VARIABLES
    webuiRunning, childPid,     \* g_webui_running, g_webui_child_pid
    retries,
    sup,        \* where the thread is
    killing,    \* where webui_kill_child is, for each that calls it
    forked,     \* children so far
    alive, zombies  \* those that run, those that have not been waited for

webuiVars == <<webuiRunning, childPid, retries, sup, killing, forked, alive, zombies>>

SupPc == {"off", "setup", "port", "top", "fork", "assign", "wait", "health",
          "look", "failed", "kill", "init", "monitor", "watch", "lost", "gone"}

WebuiTypeOK ==
    /\ webuiRunning \in BOOLEAN
    /\ childPid \in 0..MaxRetries
    /\ retries \in 0..MaxRetries
    /\ sup \in SupPc
    /\ killing \in [Killer -> {"no", "test", "wait", "force", "clear"}]
    /\ forked \in 0..MaxRetries
    /\ alive \subseteq 1..forked /\ zombies \subseteq 1..forked

WebuiInit ==
    /\ webuiRunning = FALSE
    /\ childPid = 0
    /\ retries = 0
    /\ sup = "off"
    /\ killing = [k \in Killer |-> "no"]
    /\ forked = 0
    /\ alive = {} /\ zombies = {}

(***************************************************************************)
(* process.c                                                               *)
(***************************************************************************)

\* waitpid(g_webui_child_pid, WNOHANG) finds the child running
Running == childPid \in alive

\* webui_child_alive when it is not: reaps it and forgets its pid
Reap ==
    /\ zombies' = zombies \ {childPid}
    /\ childPid' = 0

\* pid > 0, and SIGTERM to it: the child obeys or not (ChildDies).  The pid is
\* read again for the signal; if it has become 0, the signal is for the process
\* group, which is one more SIGTERM for the server
KillTest(k) ==
    /\ killing[k] = "test"
    /\ killing' = [killing EXCEPT ![k] = IF childPid = 0 THEN "no" ELSE "wait"]
    /\ UNCHANGED <<webuiRunning, childPid, retries, sup, forked, alive, zombies>>

\* it has exited, or is not ours to wait for any more; or three seconds are over
KillWait(k) ==
    /\ killing[k] = "wait"
    /\ \/ /\ ~Running
          /\ zombies' = zombies \ {childPid}
          /\ killing' = [killing EXCEPT ![k] = "clear"]
       \/ /\ killing' = [killing EXCEPT ![k] = "force"]
          /\ UNCHANGED zombies
    /\ UNCHANGED <<webuiRunning, childPid, retries, sup, forked, alive>>

\* SIGKILL and a wait that blocks
KillForce(k) ==
    /\ killing[k] = "force" /\ childPid # 0
    /\ alive' = alive \ {childPid}
    /\ zombies' = zombies \ {childPid}
    /\ killing' = [killing EXCEPT ![k] = "clear"]
    /\ UNCHANGED <<webuiRunning, childPid, retries, sup, forked>>

\* kill(0, SIGKILL): the other killer has forgotten the pid, and the signal is
\* for every process of the group, this one included
KillGroup(k) ==
    /\ killing[k] = "force" /\ childPid = 0
    /\ alive' = {}
    /\ UNCHANGED <<webuiRunning, childPid, retries, sup, killing, forked, zombies>>

KillClear(k) ==
    /\ killing[k] = "clear"
    /\ childPid' = 0
    /\ killing' = [killing EXCEPT ![k] = "no"]
    /\ UNCHANGED <<webuiRunning, retries, sup, forked, alive, zombies>>

KillStep(k) == KillTest(k) \/ KillWait(k) \/ KillForce(k) \/ KillClear(k)

ChildDies(c) ==
    /\ c \in alive
    /\ alive' = alive \ {c}
    /\ zombies' = zombies \cup {c}
    /\ UNCHANGED <<webuiRunning, childPid, retries, sup, killing, forked>>

(***************************************************************************)
(* webui_start and webui_thread                                            *)
(***************************************************************************)
Launch ==
    /\ sup = "off" /\ ~webuiRunning
    /\ webuiRunning' = TRUE
    /\ sup' = "setup"
    /\ UNCHANGED <<childPid, retries, killing, forked, alive, zombies>>

SupGoes(from, to) ==
    /\ sup = from
    /\ sup' = to
    /\ UNCHANGED <<webuiRunning, childPid, retries, killing, forked, alive, zombies>>

\* webui_ensure_setup, webui_port_in_use
Prepare ==
    \/ SupGoes("setup", "port") \/ SupGoes("setup", "gone")
    \/ SupGoes("port", "top") \/ SupGoes("port", "gone")

\* Mutant: `while (retries < MAX_RETRIES)`
Top_NoFlag == SupGoes("top", IF retries < MaxRetries THEN "fork" ELSE "gone")

Top == SupGoes("top", IF webuiRunning /\ retries < MaxRetries THEN "fork" ELSE "gone")

Fork ==
    /\ sup = "fork"
    /\ \/ /\ sup' = "assign"
          /\ forked' = forked + 1
          /\ alive' = alive \cup {forked + 1}
          /\ UNCHANGED retries
       \/ /\ sup' = "top"
          /\ retries' = retries + 1
          /\ UNCHANGED <<forked, alive>>
    /\ UNCHANGED <<webuiRunning, childPid, killing, zombies>>

Assign ==
    /\ sup = "assign"
    /\ childPid' = forked
    /\ sup' = "wait"
    /\ UNCHANGED <<webuiRunning, retries, killing, forked, alive, zombies>>

\* wait_for_ready: a minute at most, and not once stopped
Wait == SupGoes("wait", IF webuiRunning THEN "health" ELSE "failed") \/ SupGoes("wait", "failed")

\* webui_check_health, two seconds at most
Health == SupGoes("health", "init") \/ SupGoes("health", "look")

\* webui_child_alive, here and in the monitor loop
Look(from, yes, no) ==
    /\ sup = from
    /\ IF Running THEN sup' = yes /\ UNCHANGED <<childPid, zombies>>
                  ELSE sup' = no /\ Reap
    /\ UNCHANGED <<webuiRunning, retries, killing, forked, alive>>

\* Mutant: starts again without webui_kill_child
Failed_NoKill ==
    /\ sup = "failed"
    /\ sup' = IF webuiRunning THEN "top" ELSE "monitor"
    /\ retries' = IF webuiRunning THEN retries + 1 ELSE retries
    /\ UNCHANGED <<webuiRunning, childPid, killing, forked, alive, zombies>>

Failed ==
    /\ sup = "failed"
    /\ IF webuiRunning
         THEN sup' = "kill" /\ killing' = [killing EXCEPT !["supervisor"] = "test"]
         ELSE sup' = "monitor" /\ UNCHANGED killing
    /\ UNCHANGED <<webuiRunning, childPid, retries, forked, alive, zombies>>

Killed ==
    /\ sup = "kill" /\ killing["supervisor"] = "no"
    /\ sup' = "top"
    /\ retries' = retries + 1
    /\ UNCHANGED <<webuiRunning, childPid, killing, forked, alive, zombies>>

\* run_post_init
PostInit == SupGoes("init", "monitor")

Monitor == SupGoes("monitor", IF webuiRunning THEN "watch" ELSE "lost")

Lost ==
    /\ sup = "lost"
    /\ IF webuiRunning THEN sup' = "top" /\ retries' = retries + 1
                       ELSE sup' = "gone" /\ UNCHANGED retries
    /\ UNCHANGED <<webuiRunning, childPid, killing, forked, alive, zombies>>

SupStep ==
    \/ Prepare \/ Top \/ Fork \/ Assign \/ Wait \/ Health
    \/ Look("look", "wait", "failed") \/ Failed \/ Killed
    \/ PostInit \/ Monitor \/ Look("watch", "monitor", "lost") \/ Lost

(***************************************************************************)
(* Properties                                                              *)
(***************************************************************************)

\* There is never a second Open WebUI, and the one there is, running or waiting
\* to be reaped, is known by its pid, so that webui_stop can end it: no
\* interleaving of the two webui_kill_child, a child that dies by itself and a
\* restart forgets it.
OneKnownChild ==
    /\ Cardinality(alive) <= 1
    /\ sup # "assign" => alive \cup zombies \subseteq {childPid}
=============================================================================
