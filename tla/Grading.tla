------------------------------ MODULE Grading ------------------------------
(***************************************************************************)
(* The grading page: js/grading/grading.js with the handlers of its panels *)
(* (grading-ui.js, grading-history.js) and its grading calls               *)
(* (grading-api.js), over the store.  Each action is one turn of the       *)
(* page's event loop: a click, a file that has been read, an answer.       *)
(*                                                                         *)
(* batch and chosen are history: nothing reads them but the names of the   *)
(* things they number and the properties.                                  *)
(***************************************************************************)
EXTENDS GradingStore

CONSTANT Patient    \* whether the user waits for what is under way

ASSUME PatientAssumption == Patient \in BOOLEAN

VARIABLES
    shown,      \* the panel on the screen (showStep), or "away" from the view
    batch,      \* how many times startNew has run
    rubric,     \* state.rubric: the batch it was written for, 0 if empty
    sessionId,  \* state.sessionId, 0 for null
    subs,       \* state.submissions by id; "absent" ones are not in the array
    nextId,     \* state.nextSubmissionId
    reading,    \* works whose file is being read
    rubricReads,\* batches whose rubric file is being read
    viewing,    \* whether a GET of viewSession is out
    fetch,      \* the grading calls
    controllers,\* those whose AbortController is on the list of grading-api.js
    chosen      \* the batch a work was chosen in, 0 before

pageVars == <<shown, batch, rubric, sessionId, subs, nextId, reading, rubricReads,
              viewing, fetch, controllers, chosen>>
vars == <<storeVars, pageVars>>

Ids == 1 .. Cardinality(Work)
Absent == [work |-> NoWork, st |-> "absent"]

TypeOK ==
    /\ StoreTypeOK
    /\ shown \in {"history", "setup", "submissions", "results", "away"}
    /\ batch \in 0 .. MaxBatches
    /\ rubric \in 0 .. MaxBatches
    /\ sessionId \in 0 .. MaxBatches
    /\ subs \in [Ids -> [work : Work \cup {NoWork},
                         st : {"absent", "pending", "grading", "done", "error"}]]
    /\ nextId \in 1 .. Cardinality(Work) + 1
    /\ reading \subseteq Work
    /\ rubricReads \subseteq Batches
    /\ viewing \in BOOLEAN
    /\ fetch \in [Call -> [st : {"none", "out", "over"}, id : 0 .. Cardinality(Work),
                           rubric : 0 .. MaxBatches]]
    /\ controllers \subseteq Call
    /\ chosen \in [Work -> 0 .. MaxBatches]

NoFetch(st) == [st |-> st, id |-> 0, rubric |-> 0]

Init ==
    /\ StoreInit
    /\ shown = "history" /\ batch = 0
    /\ rubric = 0 /\ sessionId = 0 /\ subs = [i \in Ids |-> Absent] /\ nextId = 1
    /\ reading = {} /\ rubricReads = {} /\ viewing = FALSE
    /\ fetch = [c \in Call |-> NoFetch("none")]
    /\ controllers = {}
    /\ chosen = [w \in Work |-> 0]

-----------------------------------------------------------------------------
Present == {i \in Ids : subs[i].st # "absent"}
With(st) == {i \in Ids : subs[i].st = st}

Finishing == \E c \in Call : finish[c].st \in {"posted", "checked"}

UnderWay ==
    \/ reading # {} \/ rubricReads # {} \/ Finishing
    \/ \E b \in Batches : create[b] \in {"posted", "answered", "failed"}
    \/ \E c \in Call : fetch[c].st = "out" \/ save[c].st \in {"posted", "checked"}

\* A patient user does not go on while something is under way
MayGoOn == Patient => ~UnderWay

(* Setting up *)

\* Mutant: resetState without its first line
StartNew_KeepsSession ==
    /\ shown \in {"history", "results"} /\ shown' = "setup" /\ MayGoOn
    /\ batch < MaxBatches /\ batch' = batch + 1
    /\ rubric' = 0 /\ subs' = [i \in Ids |-> Absent] /\ nextId' = 1
    /\ UNCHANGED <<storeVars, sessionId, reading, rubricReads, viewing, fetch, controllers, chosen>>

\* resetState; the calls of the batch before are not cancelled
StartNew ==
    /\ shown \in {"history", "results"} /\ shown' = "setup" /\ MayGoOn
    /\ batch < MaxBatches /\ batch' = batch + 1
    /\ rubric' = 0 /\ sessionId' = 0 /\ subs' = [i \in Ids |-> Absent] /\ nextId' = 1
    /\ UNCHANGED <<storeVars, reading, rubricReads, viewing, fetch, controllers, chosen>>

\* The text of the section, which can be emptied too; a file is read first
SetRubric ==
    /\ shown = "setup"
    /\ \/ rubric' \in {0, batch} /\ UNCHANGED rubricReads
       \/ rubricReads' = rubricReads \cup {batch} /\ UNCHANGED rubric
    /\ UNCHANGED <<storeVars, shown, batch, sessionId, subs, nextId, reading, viewing, fetch,
                   controllers, chosen>>

RubricRead(b) ==
    /\ b \in rubricReads /\ rubricReads' = rubricReads \ {b}
    /\ rubric' \in {b, rubric}     \* the latter if the file cannot be read
    /\ UNCHANGED <<storeVars, shown, batch, sessionId, subs, nextId, reading, viewing, fetch,
                   controllers, chosen>>

\* Next, which asks for a rubric, and Back to Setup
SetStep ==
    /\ \/ shown = "setup" /\ rubric # 0 /\ shown' = "submissions"
       \/ shown = "submissions" /\ shown' = "setup"
    /\ UNCHANGED <<storeVars, batch, rubric, sessionId, subs, nextId, reading, rubricReads,
                   viewing, fetch, controllers, chosen>>

ChooseWork(w) ==
    /\ shown = "submissions" /\ chosen[w] = 0
    /\ chosen' = [chosen EXCEPT ![w] = batch]
    /\ reading' = reading \cup {w}
    /\ UNCHANGED <<storeVars, shown, batch, rubric, sessionId, subs, nextId, rubricReads,
                   viewing, fetch, controllers>>

\* addSubmission once the file has been read, whatever is shown by then
WorkRead(w) ==
    /\ w \in reading /\ reading' = reading \ {w}
    /\ nextId \in Ids /\ nextId' = nextId + 1
    /\ subs' = [subs EXCEPT ![nextId] = [work |-> w, st |-> "pending"]]
    /\ UNCHANGED <<storeVars, shown, batch, rubric, sessionId, rubricReads, viewing, fetch,
                   controllers, chosen>>

WorkUnread(w) ==
    /\ w \in reading /\ reading' = reading \ {w}
    /\ UNCHANGED <<storeVars, shown, batch, rubric, sessionId, subs, nextId, rubricReads,
                   viewing, fetch, controllers, chosen>>

RemoveSubmission(i) ==
    /\ shown = "submissions" /\ i \in Present
    /\ subs' = [subs EXCEPT ![i] = Absent]
    /\ UNCHANGED <<storeVars, shown, batch, rubric, sessionId, nextId, reading, rubricReads,
                   viewing, fetch, controllers, chosen>>

(* Grading *)

\* A call that is the next to be made for its work
Unused(c) ==
    fetch[c].st = "none" /\ \A n \in 1 .. (c[2] - 1) : fetch[<<c[1], n>>].st # "none"

\* grade() for each of the submissions: a fetch that can be aborted
Grade(ids) ==
    LET calls == {c \in Call : Unused(c) /\ \E i \in ids : subs[i].work = c[1]}
        idOf(w) == CHOOSE i \in ids : subs[i].work = w
    IN  /\ \A i \in ids : fetch[<<subs[i].work, MaxTries>>].st = "none"
        /\ fetch' = [c \in Call |-> IF c \in calls
                                    THEN [st |-> "out", id |-> idOf(c[1]), rubric |-> rubric]
                                    ELSE fetch[c]]
        /\ controllers' = controllers \cup calls

\* The results panel first, then the POST of the session
GradeAll ==
    /\ shown = "submissions" /\ shown' = "results"
    /\ Present # {} /\ MayGoOn
    /\ subs' = [i \in Ids |-> IF subs[i].st \in {"absent", "done"} THEN subs[i]
                              ELSE [subs[i] EXCEPT !.st = "grading"]]
    /\ create' = [create EXCEPT ![batch] = "posted"]
    /\ session' = [session EXCEPT ![batch].rubric = rubric]
    /\ UNCHANGED <<save, finish, deletes, lost, batch, rubric, sessionId, nextId, reading, rubricReads,
                   viewing, fetch, controllers, chosen>>

\* Mutant: no callback after a failure
SessionCreated_OnlyThen(b) ==
    /\ create[b] \in {"answered", "failed"}
    /\ create' = [create EXCEPT ![b] = "heard"]
    /\ \/ create[b] = "answered" /\ sessionId' = b /\ Grade(With("grading"))
       \/ create[b] = "failed" /\ UNCHANGED <<sessionId, fetch, controllers>>
    /\ UNCHANGED <<session, save, finish, deletes, lost, shown, batch, rubric, subs, nextId, reading,
                   rubricReads, viewing, chosen>>

\* createSession's callback, which comes after a failure too
SessionCreated(b) ==
    /\ \/ create[b] = "answered" /\ sessionId' = b
       \/ create[b] = "failed" /\ UNCHANGED sessionId
    /\ create' = [create EXCEPT ![b] = "heard"]
    /\ Grade(With("grading"))
    /\ UNCHANGED <<session, save, finish, deletes, lost, shown, batch, rubric, subs, nextId, reading,
                   rubricReads, viewing, chosen>>

RetrySubmission(i) ==
    /\ shown = "results" /\ subs[i].st = "error" /\ (Patient => ~Finishing)
    /\ subs' = [subs EXCEPT ![i].st = "grading"]
    /\ Grade({i})
    /\ UNCHANGED <<storeVars, shown, batch, rubric, sessionId, nextId, reading, rubricReads,
                   viewing, chosen>>

\* Mutant: splice(idx), and c the first on the list
RemoveController_ToEnd(c) == {}

RemoveController(c) == controllers \ {c}

\* findSubmission: by the id, in the submissions there are now
Found(c) == IF fetch[c].id \in Present THEN {fetch[c].id} ELSE {}

\* saveResultToBackend for submission i
SaveResult(c, i, ok) ==
    save' = IF sessionId = 0 THEN save
            ELSE [save EXCEPT ![c] = [st |-> "posted", session |-> sessionId,
                                      work |-> subs[i].work,
                                      rubric |-> fetch[c].rubric, ok |-> ok]]

\* Mutant: the average is over those that failed, too
CheckAllDone_Failed(c) ==
    LET now(st) == {i \in Ids : subs'[i].st = st}
    IN  finish' = IF sessionId # 0 /\ now("grading") \cup now("pending") = {}
                  THEN [finish EXCEPT ![c] = [st |-> "posted", session |-> sessionId,
                            count |-> Cardinality(now("done") \cup now("error"))]]
                  ELSE finish

\* checkAllDone, of the submissions as they will be
CheckAllDone(c) ==
    LET now(st) == {i \in Ids : subs'[i].st = st}
    IN  finish' = IF sessionId # 0 /\ now("grading") \cup now("pending") = {}
                  THEN [finish EXCEPT ![c] = [st |-> "posted", session |-> sessionId,
                                              count |-> Cardinality(now("done"))]]
                  ELSE finish

\* onGradeResult and onGradeError
Outcome(c, ok) ==
    /\ fetch[c].st = "out" /\ fetch' = [fetch EXCEPT ![c] = NoFetch("over")]
    /\ controllers' = RemoveController(c)
    /\ \/ /\ Found(c) = {}
          /\ UNCHANGED <<subs, save, finish>>
       \/ \E i \in Found(c) :
            /\ subs' = [subs EXCEPT ![i].st = IF ok THEN "done" ELSE "error"]
            /\ SaveResult(c, i, ok)
            /\ CheckAllDone(c)
    /\ UNCHANGED <<session, create, deletes, lost, shown, batch, rubric, sessionId, nextId, reading,
                   rubricReads, viewing, chosen>>

(* The view and its history panel *)

\* unmount: cancelAll; an AbortError follows at once and is not reported
Leave ==
    /\ shown # "away" /\ shown' = "away"
    /\ fetch' = [c \in Call |-> IF c \in controllers THEN NoFetch("over") ELSE fetch[c]]
    /\ controllers' = {}
    /\ lost' = (lost \/ controllers # {})
    /\ UNCHANGED <<session, create, save, finish, deletes, batch, rubric, sessionId, subs, nextId, reading, rubricReads,
                   viewing, chosen>>

Shows(panel) ==
    /\ shown' = panel
    /\ UNCHANGED <<storeVars, batch, rubric, sessionId, subs, nextId, reading, rubricReads,
                   fetch, controllers, chosen>>

\* Logging out, or a 401 to any of the page's requests: without unmount
LoggedOut == shown # "away" /\ Shows("away") /\ UNCHANGED viewing

\* mount, and Back to Sessions
ToHistory == shown \in {"away", "results"} /\ Shows("history") /\ UNCHANGED viewing

ViewSession ==
    /\ shown = "history" /\ Shows(shown)
    /\ \E s \in Batches : Exists(s)
    /\ viewing' = TRUE

\* The session's results, from which one goes back to the history, take the
\* place of what is shown by then; or it failed to load
Viewed ==
    /\ viewing /\ viewing' = FALSE
    /\ Shows(IF shown = "away" THEN shown ELSE "history") \/ Shows(shown)

DeleteSession(s) ==
    /\ shown = "history" /\ Exists(s)
    /\ deletes' = deletes \cup {s}
    /\ UNCHANGED <<session, create, save, finish, lost, pageVars>>

PageStep ==
    \/ StartNew \/ SetRubric \/ SetStep \/ GradeAll
    \/ Leave \/ LoggedOut \/ ToHistory \/ ViewSession \/ Viewed
    \/ \E w \in Work : ChooseWork(w) \/ WorkRead(w) \/ WorkUnread(w)
    \/ \E i \in Ids : RemoveSubmission(i) \/ RetrySubmission(i)
    \/ \E b \in Batches : RubricRead(b) \/ SessionCreated(b) \/ DeleteSession(b)
    \/ \E c \in Call : \E ok \in BOOLEAN : Outcome(c, ok)

Next == PageStep \/ (StoreStep /\ UNCHANGED pageVars)

Spec == Init /\ [][Next]_vars

(***************************************************************************)
(* Properties                                                              *)
(***************************************************************************)

AtRest == ~UnderWay /\ deletes = {}

\* db_grading_session_delete against save_result and finish, each of which has
\* found the session before it writes: a session that was deleted does not
\* come back, and no result is left or stored for it.
DeletionFinal ==
    [][\A s \in Batches : session[s].st = "deleted" \/ session'[s].st = "deleted" =>
        session'[s].st = "deleted" /\ Rows(s)' = {}]_vars

\* cancelAll (grading-api.js): whatever was fired, answered and retried
\* before, no call is out any more when the view has been left.
LeavingCancels == [][Leave => \A c \in Call : fetch'[c].st # "out"]_vars

\* saveResultToBackend: if the user waits for what is under way before going
\* on, every result is saved for the work that was graded, in the session of
\* the batch the work was chosen for, and it was graded against the rubric
\* that the session has on record.
OwnResults ==
    Patient => \A s \in Batches : Exists(s) => \A c \in Rows(s) :
        save[c].work = c[1] /\ chosen[c[1]] = s /\ save[c].rubric = session[s].rubric

\* checkAllDone: if the user waits and no request fails, a session at rest has
\* been finished, and counts the students it has a grade for.
StatsTrue ==
    Patient /\ ~lost /\ AtRest =>
        \A s \in Batches : Exists(s) /\ Rows(s) # {} =>
            /\ session[s].st \in Written
            /\ session[s].count = Cardinality({save[c].work : c \in {d \in Rows(s) : save[d].ok}})

\* "All queued submissions will be graded against your rubric"
\* (grading-ui.js): if the user waits, every submission in the results panel
\* has been graded or has failed once nothing is under way.
QueuedAreGraded ==
    Patient /\ AtRest /\ shown = "results" =>
        With("pending") \cup With("grading") = {}
=============================================================================
