---------------------------- MODULE ProjectStore ----------------------------
(***************************************************************************)
(* The server's side of coding projects: the handlers of                   *)
(* ui/dashboard/projects.c over core/database/projects.c and, by ssh, the  *)
(* Docker host (cloud/vps/docker.c).  A request has a thread of its own;   *)
(* between two database sections it may wait for Docker for seconds.       *)
(*                                                                         *)
(* Each project has one row, one API key and at most one container, so all *)
(* three are named by the project.  Ids are never used again               *)
(* (AUTOINCREMENT).  Names, models and instructions are not told apart: they *)
(* are what an update writes.                                              *)
(***************************************************************************)
EXTENDS Naturals, FiniteSets

CONSTANTS
    Project,    \* ids of the projects that can be created
    Request,    \* requests under way at a time
    NoProject

ASSUME NoProjectAssumption == NoProject \notin Project

VARIABLES
    row,    \* table projects: the status, and whether container_id is set
    key,    \* the rows of api_keys that the projects own
    box,    \* the containers at the Docker host
    req,    \* the requests
    calm    \* history: nothing has failed and the user has waited for each answer

storeVars == <<row, key, box, req, calm>>

Row == [st : {"none", "pending", "running", "failed", "done", "deleted"},
        cid : BOOLEAN]
NoRow(st) == [st |-> st, cid |-> FALSE]
Nothing == [p \in Project |-> NoRow("none")]

\* at is the next step of the handler, or what the page is told; seen is what
\* it has read and will answer; mine is FALSE when the page does not listen
Req == [kind : {"none", "create", "delete", "update", "status", "list"},
        of : Project \cup {NoProject},
        at : {"free", "posted", "keyed", "inserted", "ran", "notRun", "found", "removing",
              "deleting", "inspecting", "exited", "answered"},
        seen : [Project -> Row], mine : BOOLEAN]
Free == [kind |-> "none", of |-> NoProject, at |-> "free",
         seen |-> Nothing, mine |-> FALSE]

StoreTypeOK ==
    /\ row \in [Project -> Row]
    /\ key \in [Project -> {"none", "active", "deleted"}]
    /\ box \in [Project -> {"none", "running", "exited", "removed"}]
    /\ req \in [Request -> Req]
    /\ \A r \in Request : req[r].kind \notin {"none", "list"} => req[r].of \in Project
    /\ calm \in BOOLEAN

StoreInit ==
    /\ row = Nothing
    /\ key = [p \in Project |-> "none"]
    /\ box = [p \in Project |-> "none"]
    /\ req = [r \in Request |-> Free]
    /\ calm = TRUE

Exists(p) == row[p].st \notin {"none", "deleted"}
At(r, kind, at) == req[r].kind = kind /\ req[r].at = at
Ends(r) == req' = [req EXCEPT ![r] = Free]   \* with an answer the page does not look at
Goes(r, at) == req' = [req EXCEPT ![r].at = at]
Answers(r, at, list) == req' = [req EXCEPT ![r] = [@ EXCEPT !.at = at, !.seen = list]]
Sees(r, p, what, at) == Answers(r, at, [Nothing EXCEPT ![p] = what])

-----------------------------------------------------------------------------
(* dashboard_projects_create *)

StoreKey(r) ==
    /\ At(r, "create", "posted") /\ Goes(r, "keyed")
    /\ key' = [key EXCEPT ![req[r].of] = "active"]
    /\ UNCHANGED <<row, box, calm>>

InsertProject(r) ==
    /\ At(r, "create", "keyed") /\ Goes(r, "inserted")
    /\ row' = [row EXCEPT ![req[r].of] = NoRow("pending")]
    /\ UNCHANGED <<key, box, calm>>

\* docker run.  When ssh fails, the container may be there nevertheless
RunContainer(r) ==
    /\ At(r, "create", "inserted")
    /\ \/ box' = [box EXCEPT ![req[r].of] = "running"] /\ Goes(r, "ran") /\ UNCHANGED calm
       \/ UNCHANGED <<box, calm>> /\ Goes(r, "notRun")
       \/ box' = [box EXCEPT ![req[r].of] = "running"] /\ Goes(r, "notRun") /\ calm' = FALSE
    /\ UNCHANGED <<row, key>>

\* What the page is told, however the writes of the container went
Created(r) ==
    [st |-> IF req[r].at = "ran" THEN "running" ELSE "failed",
     cid |-> req[r].at = "ran"]

\* Mutant: a row is put in whether or not it is there
SetContainer_Insert(r) ==
    LET p == req[r].of IN
    /\ req[r].kind = "create" /\ req[r].at \in {"ran", "notRun"}
    /\ row' = [row EXCEPT ![p] = Created(r)]
    /\ Sees(r, p, Created(r), "answered")
    /\ UNCHANGED <<key, box, calm>>

\* db_project_set_container, db_project_set_status: a row that is gone stays so
SetContainer(r) ==
    LET p == req[r].of IN
    /\ req[r].kind = "create" /\ req[r].at \in {"ran", "notRun"}
    /\ row' = IF Exists(p) THEN [row EXCEPT ![p] = Created(r)] ELSE row
    /\ Sees(r, p, Created(r), "answered")
    /\ UNCHANGED <<key, box, calm>>

-----------------------------------------------------------------------------
(* dashboard_projects_delete *)

\* Mutant: only for a container that runs
GetForDelete_Running(r) ==
    /\ At(r, "delete", "posted")
    /\ Goes(r, IF row[req[r].of].st = "running" THEN "removing" ELSE "deleting")
    /\ UNCHANGED <<row, key, box, calm>>

GetForDelete(r) ==
    /\ At(r, "delete", "posted")
    /\ Goes(r, IF row[req[r].of].cid THEN "removing" ELSE "deleting")
    /\ UNCHANGED <<row, key, box, calm>>

\* docker rm -f, whose outcome is not looked at
RemoveContainer(r) ==
    LET p == req[r].of IN
    /\ At(r, "delete", "removing") /\ Goes(r, "deleting")
    /\ \/ box' = [box EXCEPT ![p] = "removed"] /\ UNCHANGED calm
       \/ UNCHANGED box /\ calm' = FALSE
    /\ UNCHANGED <<row, key>>

\* db_project_delete; the key's own DELETE may fail unnoticed
DeleteRow(r) ==
    LET p == req[r].of IN
    /\ At(r, "delete", "deleting")
    /\ IF Exists(p)
       THEN /\ row' = [row EXCEPT ![p] = NoRow("deleted")]
            /\ Goes(r, "answered")
            /\ \/ key' = [key EXCEPT ![p] = "deleted"] /\ UNCHANGED calm
               \/ UNCHANGED key /\ calm' = FALSE
       ELSE Ends(r) /\ UNCHANGED <<row, key, calm>>
    /\ UNCHANGED box

-----------------------------------------------------------------------------
(* dashboard_projects_update, _status, _list *)

GetForUpdate(r) ==
    LET p == req[r].of IN
    /\ At(r, "update", "posted")
    /\ IF Exists(p) THEN Sees(r, p, row[p], "found") ELSE Ends(r)
    /\ UNCHANGED <<row, key, box, calm>>

\* Mutant: the whole row is written
WriteUpdate_Whole(r) ==
    LET p == req[r].of IN
    /\ At(r, "update", "found")
    /\ row' = IF Exists(p) THEN [row EXCEPT ![p] = req[r].seen[p]] ELSE row
    /\ Ends(r)
    /\ UNCHANGED <<key, box, calm>>

\* Of what was read, only the name, the model and the instructions
WriteUpdate(r) ==
    /\ At(r, "update", "found") /\ Ends(r)
    /\ UNCHANGED <<row, key, box, calm>>

GetStatus(r) ==
    LET p == req[r].of IN
    /\ At(r, "status", "posted")
    /\ IF Exists(p)
       THEN Sees(r, p, row[p], IF row[p].cid /\ row[p].st = "running" THEN "inspecting"
                               ELSE "answered")
       ELSE Ends(r)
    /\ UNCHANGED <<row, key, box, calm>>

\* docker inspect, which may fail; a container that is gone has no status
Inspect(r) ==
    /\ At(r, "status", "inspecting")
    /\ \/ box[req[r].of] = "exited" /\ Goes(r, "exited")
       \/ Goes(r, "answered")
    /\ UNCHANGED <<row, key, box, calm>>

SetDone(r) ==
    LET p == req[r].of IN
    /\ At(r, "status", "exited")
    /\ row' = IF Exists(p) THEN [row EXCEPT ![p].st = "done"] ELSE row
    /\ Sees(r, p, [req[r].seen[p] EXCEPT !.st = "done"], "answered")
    /\ UNCHANGED <<key, box, calm>>

List(r) ==
    /\ At(r, "list", "posted")
    /\ Answers(r, "answered", [p \in Project |-> IF Exists(p) THEN row[p] ELSE NoRow("none")])
    /\ UNCHANGED <<row, key, box, calm>>

-----------------------------------------------------------------------------
(* Failures and others *)

\* A request that is not authorised, does not arrive, or fails before it has
\* any effect
Refuse(r) ==
    /\ req[r].at = "posted" /\ Ends(r) /\ calm' = FALSE
    /\ UNCHANGED <<row, key, box>>

\* A write fails.  create and status do not look, the others answer 500
WriteFails(r) ==
    LET p == req[r].of IN
    /\ \/ req[r].at \in {"keyed", "found", "deleting"} /\ Ends(r)
       \/ req[r].at \in {"ran", "notRun"} /\ Sees(r, p, Created(r), "answered")
       \/ req[r].at = "exited" /\ Sees(r, p, [req[r].seen[p] EXCEPT !.st = "done"], "answered")
    /\ calm' = FALSE
    /\ UNCHANGED <<row, key, box>>

AnswerLost(r) ==
    /\ req[r].at = "answered" /\ Ends(r) /\ calm' = FALSE
    /\ UNCHANGED <<row, key, box>>

\* The process dies with the handlers; the tables and the containers stay
Crash ==
    /\ \E r \in Request : req[r].at # "free"
    /\ req' = [r \in Request |-> Free]
    /\ calm' = FALSE
    /\ UNCHANGED <<row, key, box>>

\* The task in the container has ended
Exit(p) ==
    /\ box[p] = "running" /\ box' = [box EXCEPT ![p] = "exited"]
    /\ UNCHANGED <<row, key, req, calm>>

\* dashboard_keys_delete, from the page of the keys
DeleteKey(p) ==
    /\ key[p] = "active" /\ key' = [key EXCEPT ![p] = "deleted"]
    /\ UNCHANGED <<row, box, req, calm>>

StoreStep ==
    \/ \E r \in Request :
        \/ StoreKey(r) \/ InsertProject(r) \/ RunContainer(r) \/ SetContainer(r)
        \/ GetForDelete(r) \/ RemoveContainer(r) \/ DeleteRow(r)
        \/ GetForUpdate(r) \/ WriteUpdate(r)
        \/ GetStatus(r) \/ Inspect(r) \/ SetDone(r) \/ List(r)
        \/ Refuse(r) \/ WriteFails(r) \/ AnswerLost(r)
    \/ \E p \in Project : Exit(p) \/ DeleteKey(p)
    \/ Crash

(***************************************************************************)
(* Properties                                                              *)
(***************************************************************************)

\* The statuses that can follow a status
After == [none    |-> {"none", "pending"},
          pending |-> {"pending", "running", "failed", "deleted"},
          running |-> {"running", "done", "deleted"},
          failed  |-> {"failed", "deleted"},
          done    |-> {"done", "deleted"},
          deleted |-> {"deleted"}]

\* create and status write a row they have not looked at since they went to
\* Docker, while others delete, change or finish the project: its status never
\* goes back, and a deleted project never returns.
StatusForward == [][\A p \in Project : row'[p].st \in After[row[p].st]]_row

\* dashboard_projects_status reads, asks Docker and writes: a project whose
\* row says running or done has a container on record that was once started,
\* and it is only done when that container has ended.
RowsTrue ==
    \A p \in Project :
        /\ row[p].st \in {"running", "done"} => row[p].cid
        /\ row[p].cid => row[p].st \in {"running", "done"} /\ box[p] # "none"
        /\ row[p].st = "done" => box[p] \in {"exited", "removed"}
=============================================================================
