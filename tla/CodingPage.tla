----------------------------- MODULE CodingPage -----------------------------
(***************************************************************************)
(* The coding page, js/coding/coding.js, over the store.  Each action is   *)
(* one turn of the page's event loop: a click, a tick of the timer, an     *)
(* answer.                                                                 *)
(***************************************************************************)
EXTENDS ProjectStore

VARIABLES
    mounted,    \* whether the view is shown
    projects,   \* the list; "none" for those that are not on it
    current,    \* the id of currentProject
    timer       \* whether statusPollTimer is set

pageVars == <<mounted, projects, current, timer>>
vars == <<storeVars, pageVars>>

TypeOK ==
    /\ StoreTypeOK
    /\ mounted \in BOOLEAN
    /\ projects \in [Project -> Row]
    /\ current \in Project \cup {NoProject}
    /\ timer \in BOOLEAN

Init ==
    /\ StoreInit
    /\ mounted = FALSE /\ projects = Nothing /\ current = NoProject
    /\ timer = FALSE

-----------------------------------------------------------------------------
Listed(list) == {p \in Project : list[p].st # "none"}

Send(kind, p) ==
    \E r \in Request :
        /\ req[r].at = "free"
        /\ req' = [req EXCEPT ![r] = [kind |-> kind, of |-> p, at |-> "posted",
                                      seen |-> Nothing, mine |-> TRUE]]

Quiet == \A r \in Request : req[r].at = "free"

\* The user acts.  It is not calm to do so while more than polls is under way
Acts == calm' = (calm /\ \A r \in Request : req[r].at = "free" \/ req[r].kind = "status")

Hears(r, kind) ==
    /\ At(r, kind, "answered") /\ req[r].mine
    /\ req' = [req EXCEPT ![r] = Free]
    /\ UNCHANGED <<row, key, box, calm, mounted>>

\* If no project is open, the first on the list is opened
NextCurrent(open, list) ==
    IF open = NoProject /\ Listed(list) # {} THEN Listed(list) ELSE {open}

(* The view *)

Mount ==
    /\ ~mounted /\ mounted' = TRUE /\ Acts
    /\ Send("list", NoProject)
    /\ UNCHANGED <<row, key, box, projects, current, timer>>

\* unmount; the list and currentProject stay
Unmount ==
    /\ mounted /\ mounted' = FALSE /\ Acts
    /\ timer' = FALSE
    /\ UNCHANGED <<row, key, box, req, projects, current>>

\* Logging out, or a 401: without unmount
LoggedOut ==
    /\ mounted /\ mounted' = FALSE /\ Acts
    /\ UNCHANGED <<row, key, box, req, projects, current, timer>>

\* The browser loads the page anew; no answer is for it
Reload ==
    /\ Acts
    /\ mounted' = FALSE /\ projects' = Nothing /\ current' = NoProject
    /\ timer' = FALSE
    /\ req' = [r \in Request |-> [req[r] EXCEPT !.mine = FALSE]]
    /\ UNCHANGED <<row, key, box>>

(* Clicks *)

\* The button is disabled until the answer is there
CreateProject(p) ==
    /\ mounted /\ Acts
    /\ \A r \in Request : ~(req[r].kind = "create" /\ (req[r].mine \/ req[r].of = p))
    /\ key[p] = "none" /\ row[p].st = "none"
    /\ Send("create", p)
    /\ UNCHANGED <<row, key, box, pageVars>>

DeleteProject(p) ==
    /\ mounted /\ Acts /\ p \in Listed(projects)
    /\ Send("delete", p)
    /\ UNCHANGED <<row, key, box, pageVars>>

\* Its terminal is TerminalSession's
SelectProject(p) ==
    /\ mounted /\ p \in Listed(projects) /\ current' = p
    /\ UNCHANGED <<storeVars, mounted, projects, timer>>

OnModelChange ==
    /\ mounted /\ Acts /\ current # NoProject
    /\ Send("update", current)
    /\ UNCHANGED <<row, key, box, pageVars>>

\* pollRunningTasks, a request for each; they are not waited for
Poll(p) ==
    /\ timer /\ projects[p].st = "running"
    /\ Send("status", p)
    /\ UNCHANGED <<row, key, box, calm, pageVars>>

(* Answers, whether the view is shown or not *)

\* loadProjects
Loaded(r) ==
    /\ Hears(r, "list")
    /\ projects' = req[r].seen /\ timer' = TRUE
    /\ current' \in NextCurrent(current, projects')

ProjectCreated(r) ==
    LET p == req[r].of IN
    /\ Hears(r, "create")
    /\ projects' = [projects EXCEPT ![p] = req[r].seen[p]]
    /\ current' = p
    /\ UNCHANGED timer

ProjectDeleted(r) ==
    LET p == req[r].of IN
    /\ Hears(r, "delete")
    /\ projects' = [projects EXCEPT ![p] = NoRow("none")]
    /\ current' \in NextCurrent(IF current = p THEN NoProject ELSE current, projects')
    /\ UNCHANGED timer

\* Mutant: without the test of idx
Polled_Adds(r) ==
    LET p == req[r].of IN
    /\ Hears(r, "status")
    /\ projects' = [projects EXCEPT ![p] = req[r].seen[p]]
    /\ UNCHANGED <<current, timer>>

\* The answer takes the project's place on the list, if it has one
Polled(r) ==
    LET p == req[r].of IN
    /\ Hears(r, "status")
    /\ projects' = IF p \in Listed(projects) THEN [projects EXCEPT ![p] = req[r].seen[p]]
                   ELSE projects
    /\ UNCHANGED <<current, timer>>

\* The other answers, an error among them, change nothing but what is on the
\* screen, and nobody hears those of a page that has been left
Ignored(r) ==
    /\ req[r].at = "answered" /\ ~req[r].mine
    /\ req' = [req EXCEPT ![r] = Free]
    /\ UNCHANGED <<row, key, box, calm, pageVars>>

PageStep ==
    \/ Mount \/ Unmount \/ LoggedOut \/ Reload \/ OnModelChange
    \/ \E p \in Project : CreateProject(p) \/ DeleteProject(p) \/ SelectProject(p) \/ Poll(p)
    \/ \E r \in Request : Loaded(r) \/ ProjectCreated(r) \/ ProjectDeleted(r) \/ Polled(r) \/ Ignored(r)

Next == PageStep \/ (StoreStep /\ UNCHANGED pageVars)

Spec == Init /\ [][Next]_vars

(***************************************************************************)
(* Properties                                                              *)
(***************************************************************************)

\* "Delete this task? Container will be removed." (coding.js): as long as
\* nothing outside fails and the user waits for each answer, no container and
\* no key is left without a project once nothing is under way.
NoOrphans ==
    Quiet /\ calm =>
        \A p \in Project :
            /\ box[p] \in {"running", "exited"} => Exists(p) /\ row[p].cid
            /\ key[p] = "active" => Exists(p)

\* pollRunningTasks asks about the running projects only, its answers arrive
\* in any order and may come after a delete: as long as nothing outside fails
\* and the user waits for each answer to what he does, the list is that of the
\* projects there are, it is only behind on a status that it will ask for
\* again, and the project that is open is on it.
ListTrue ==
    Quiet /\ calm /\ mounted =>
        /\ timer
        /\ \A p \in Project :
            /\ p \in Listed(projects) <=> Exists(p)
            /\ projects[p].st \in {"none", "running", row[p].st}
        /\ current \in Listed(projects) \cup {NoProject}
=============================================================================
