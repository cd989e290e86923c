---------------------------- MODULE GradingStore ----------------------------
(***************************************************************************)
(* The server's side of grading: ui/dashboard/grading.c, where every       *)
(* request has a thread of its own, over core/database/grading.c, where    *)
(* every call is one section under the database lock.  save_result and     *)
(* finish look the session up in one section and write in another.         *)
(*                                                                         *)
(* A session is named by the batch of submissions it is created for, and a *)
(* result by the grading call that it is the outcome of: a work and the    *)
(* number of the attempt at it.                                            *)
(***************************************************************************)
EXTENDS Naturals, FiniteSets

CONSTANTS
    MaxBatches, \* bound on the batches that are started
    Work,       \* submissions that students hand in
    MaxTries,   \* bound on the grading calls for one work
    NoWork      \* no submission

ASSUME BoundsAssumption ==
    MaxBatches \in Nat /\ MaxTries \in Nat \ {0} /\ IsFiniteSet(Work) /\ NoWork \notin Work

Batches == 1 .. MaxBatches
Call == Work \X (1 .. MaxTries)

VARIABLES
    session,    \* grading_sessions
    create,     \* the POST that creates the session of a batch
    save,       \* the POST of a call's result; "stored" is a row of grading_results
    finish,     \* the PUT that a call's outcome led to
    deletes,    \* sessions with a DELETE on its way
    lost        \* history: whether a request has failed or a call was cancelled

storeVars == <<session, create, save, finish, deletes, lost>>

Written == {"completed", "undefined"}

StoreTypeOK ==
    /\ session \in [Batches -> [st : {"none", "in_progress", "deleted"} \cup Written,
                                count : 0 .. Cardinality(Work),
                                rubric : 0 .. MaxBatches]]
    /\ create \in [Batches -> {"none", "posted", "answered", "failed", "heard"}]
    /\ save \in [Call -> [st : {"none", "posted", "checked", "stored"},
                          session : 0 .. MaxBatches, work : Work \cup {NoWork},
                          rubric : 0 .. MaxBatches, ok : BOOLEAN]]
    /\ finish \in [Call -> [st : {"none", "posted", "checked"},
                            session : 0 .. MaxBatches, count : 0 .. Cardinality(Work)]]
    /\ deletes \subseteq Batches
    /\ lost \in BOOLEAN

NoSession(st) == [st |-> st, count |-> 0, rubric |-> 0]
NoSave == [st |-> "none", session |-> 0, work |-> NoWork, rubric |-> 0, ok |-> FALSE]
NoFinish == [st |-> "none", session |-> 0, count |-> 0]

StoreInit ==
    /\ session = [b \in Batches |-> NoSession("none")]
    /\ create = [b \in Batches |-> "none"]
    /\ save = [c \in Call |-> NoSave]
    /\ finish = [c \in Call |-> NoFinish]
    /\ deletes = {} /\ lost = FALSE

Exists(s) == session[s].st \notin {"none", "deleted"}

Rows(s) == {c \in Call : save[c].st = "stored" /\ save[c].session = s}

-----------------------------------------------------------------------------
(* Handlers.  A request may also fail: it never arrives, its answer is     *)
(* lost, or the database refuses it.                                       *)

\* status 'in_progress' and zeroes are the schema's defaults
Create(b) ==
    /\ create[b] = "posted"
    /\ create' = [create EXCEPT ![b] = "answered"]
    /\ session' = [session EXCEPT ![b].st = "in_progress"]
    /\ UNCHANGED <<save, finish, deletes, lost>>

CreateFails(b) ==
    /\ create[b] \in {"posted", "answered"}
    /\ create' = [create EXCEPT ![b] = "failed"]
    /\ lost' = TRUE
    /\ UNCHANGED <<session, save, finish, deletes>>

\* A session that is not found is a 404
CheckSave(c) ==
    /\ save[c].st = "posted"
    /\ save' = [save EXCEPT ![c] = IF Exists(save[c].session)
                                  THEN [save[c] EXCEPT !.st = "checked"] ELSE NoSave]
    /\ UNCHANGED <<session, create, finish, deletes, lost>>

\* Mutant: without the pragma
InsertSave_Unchecked(c) ==
    /\ save[c].st = "checked"
    /\ save' = [save EXCEPT ![c].st = "stored"]
    /\ UNCHANGED <<session, create, finish, deletes, lost>>

\* foreign_keys = ON: a row whose session is gone is refused
InsertSave(c) ==
    /\ save[c].st = "checked"
    /\ save' = [save EXCEPT ![c] = IF Exists(save[c].session)
                                  THEN [save[c] EXCEPT !.st = "stored"] ELSE NoSave]
    /\ UNCHANGED <<session, create, finish, deletes, lost>>

SaveFails(c) ==
    /\ save[c].st \in {"posted", "checked"}
    /\ save' = [save EXCEPT ![c] = NoSave]
    /\ lost' = TRUE
    /\ UNCHANGED <<session, create, finish, deletes>>

CheckFinish(c) ==
    /\ finish[c].st = "posted"
    /\ finish' = [finish EXCEPT ![c] = IF Exists(finish[c].session)
                                      THEN [finish[c] EXCEPT !.st = "checked"] ELSE NoFinish]
    /\ UNCHANGED <<session, create, save, deletes, lost>>

\* The UPDATE of a session that is gone changes no row.  status points into
\* the body, which json_object_put has freed by now.
UpdateStats(c) ==
    /\ finish[c].st = "checked"
    /\ finish' = [finish EXCEPT ![c] = NoFinish]
    /\ \E text \in Written :
        session' = IF Exists(finish[c].session)
                   THEN [session EXCEPT ![finish[c].session] =
                            [@ EXCEPT !.st = text, !.count = finish[c].count]]
                   ELSE session
    /\ UNCHANGED <<create, save, deletes, lost>>

FinishFails(c) ==
    /\ finish[c].st \in {"posted", "checked"}
    /\ finish' = [finish EXCEPT ![c] = NoFinish]
    /\ lost' = TRUE
    /\ UNCHANGED <<session, create, save, deletes>>

\* The session and, ON DELETE CASCADE, its results; a second DELETE finds none
Delete(s) ==
    /\ s \in deletes
    /\ deletes' = deletes \ {s}
    /\ session' = [session EXCEPT ![s] = IF Exists(s) THEN NoSession("deleted") ELSE @]
    /\ save' = [c \in Call |-> IF c \in Rows(s) THEN NoSave ELSE save[c]]
    /\ UNCHANGED <<create, finish, lost>>

DeleteFails(s) ==
    /\ s \in deletes
    /\ deletes' = deletes \ {s}
    /\ lost' = TRUE
    /\ UNCHANGED <<session, create, save, finish>>

StoreStep ==
    \/ \E b \in Batches : Create(b) \/ CreateFails(b) \/ Delete(b) \/ DeleteFails(b)
    \/ \E c \in Call :
        \/ CheckSave(c) \/ InsertSave(c) \/ SaveFails(c)
        \/ CheckFinish(c) \/ UpdateStats(c) \/ FinishFails(c)
=============================================================================
