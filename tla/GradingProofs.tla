--------------------------- MODULE GradingProofs ---------------------------
(***************************************************************************)
(* Proofs about Grading, for any number of batches, works and attempts,    *)
(* whether or not the user waits; the results, the statistics and the      *)
(* queue for a user who does.                                              *)
(***************************************************************************)
EXTENDS Grading, InductionLemmas, FiniteSetTheorems, TLAPS

LEMMA WorksCounted == Cardinality(Work) \in Nat
  BY FS_CardinalityType, BoundsAssumption

LEMMA IdsCounted ==
    ASSUME NEW S \in SUBSET Ids
    PROVE  Cardinality(S) \in 0 .. Cardinality(Work)
<1>1. IsFiniteSet(Ids) /\ Cardinality(Ids) = Cardinality(Work)
  BY WorksCounted, FS_Interval DEF Ids
<1>2. Cardinality(S) \in Nat /\ Cardinality(S) <= Cardinality(Ids)
  BY <1>1, FS_Subset, FS_CardinalityType
<1>3. QED
  BY <1>1, <1>2, WorksCounted

\* A batch has been started when there is anything to set up
Started == shown \in {"setup", "submissions"} => batch \in Batches

\* Every call that is out can be aborted
Cancellable == \A c \in Call : fetch[c].st = "out" => c \in controllers

FetchType == [Call -> [st : {"none", "out", "over"}, id : 0 .. Cardinality(Work),
                       rubric : 0 .. MaxBatches]]

LEMMA GradeFires ==
    ASSUME TypeOK, NEW ids \in SUBSET Ids, Grade(ids)
    PROVE  fetch' \in FetchType /\ controllers' \subseteq Call /\ (Cancellable => Cancellable')
<1> DEFINE idOf(w) == CHOOSE i \in ids : subs[i].work = w
           calls == {c \in Call : Unused(c) /\ \E i \in ids : subs[i].work = c[1]}
<1>1. /\ fetch' = [c \in Call |-> IF c \in calls
                                  THEN [st |-> "out", id |-> idOf(c[1]), rubric |-> rubric]
                                  ELSE fetch[c]]
      /\ controllers' = controllers \cup calls
  BY DEF Grade
<1>2. \A c \in calls : idOf(c[1]) \in 0 .. Cardinality(Work)
  <2>1. \A c \in calls : idOf(c[1]) \in ids
    OBVIOUS
  <2>2. ids \subseteq 0 .. Cardinality(Work)
    BY WorksCounted DEF Ids
  <2>3. QED
    BY <2>1, <2>2
<1> HIDE DEF idOf
<1>3. fetch \in FetchType /\ controllers \subseteq Call /\ rubric \in 0 .. MaxBatches
  BY DEF TypeOK, FetchType
<1>4. calls \subseteq Call
  OBVIOUS
<1> HIDE DEF calls
<1>5. fetch' \in FetchType
  BY <1>1, <1>2, <1>3, <1>4 DEF FetchType
<1>6. Cancellable => Cancellable'
  BY <1>1, <1>3, <1>4 DEF Cancellable, FetchType
<1>7. QED
  BY <1>1, <1>3, <1>4, <1>5, <1>6

LEMMA OutcomeIsTaken ==
    ASSUME TypeOK, NEW c \in Call, NEW ok \in BOOLEAN, Outcome(c, ok)
    PROVE  TypeOK' /\ (Cancellable => Cancellable')
<1>1. fetch' \in FetchType /\ controllers' \subseteq Call
  BY WorksCounted, BoundsAssumption DEF Outcome, TypeOK, FetchType, NoFetch, RemoveController
<1>2. Cancellable => Cancellable'
  BY DEF Cancellable, Outcome, TypeOK, FetchType, NoFetch, RemoveController
<1>3. /\ subs' \in [Ids -> [work : Work \cup {NoWork},
                            st : {"absent", "pending", "grading", "done", "error"}]]
      /\ save' \in [Call -> [st : {"none", "posted", "checked", "stored"},
                             session : 0 .. MaxBatches, work : Work \cup {NoWork},
                             rubric : 0 .. MaxBatches, ok : BOOLEAN]]
      /\ finish' \in [Call -> [st : {"none", "posted", "checked"},
                               session : 0 .. MaxBatches, count : 0 .. Cardinality(Work)]]
  <2>1. CASE UNCHANGED <<subs, save, finish>>
    BY <2>1 DEF TypeOK, StoreTypeOK
  <2>2. ASSUME NEW i \in Found(c),
               subs' = [subs EXCEPT ![i].st = IF ok THEN "done" ELSE "error"],
               SaveResult(c, i, ok), CheckAllDone(c)
        PROVE  <1>3!1 /\ <1>3!2 /\ <1>3!3
    <3>1. i \in Ids
      BY DEF Found, Present
    <3>2. <1>3!1
      BY <2>2, <3>1 DEF TypeOK
    <3>3. <1>3!2
      BY <2>2, <3>1 DEF TypeOK, StoreTypeOK, SaveResult
    <3>4. Cardinality({j \in Ids : subs'[j].st = "done"}) \in 0 .. Cardinality(Work)
      BY IdsCounted
    <3>5. <1>3!3
      BY <2>2, <3>4 DEF TypeOK, StoreTypeOK, CheckAllDone
    <3>6. QED
      BY <3>2, <3>3, <3>5
  <2>3. QED
    BY <2>1, <2>2 DEF Outcome
<1>4. UNCHANGED <<session, create, deletes, lost, shown, batch, rubric, sessionId, nextId, reading,
                  rubricReads, viewing, chosen>>
  BY DEF Outcome
<1>5. QED
  BY <1>1, <1>2, <1>3, <1>4 DEF TypeOK, StoreTypeOK, FetchType

(***************************************************************************)
(* Types and Cancellable                                                   *)
(***************************************************************************)

LEMMA StoreStepType ==
    ASSUME TypeOK, StoreStep
    PROVE  StoreTypeOK'
<1> DEFINE Saves == [st : {"none", "posted", "checked", "stored"}, session : 0 .. MaxBatches,
                     work : Work \cup {NoWork}, rubric : 0 .. MaxBatches, ok : BOOLEAN]
<1>1. 0 \in 0 .. MaxBatches /\ 0 \in 0 .. Cardinality(Work)
  BY WorksCounted, BoundsAssumption
<1>2. /\ save \in [Call -> Saves] /\ NoSave \in Saves
      /\ \A c \in Call, st \in {"checked", "stored"} : [save[c] EXCEPT !.st = st] \in Saves
  <2>1. NoSave \in Saves
    BY <1>1 DEF NoSave
  <2>2. save \in [Call -> Saves]
    BY DEF TypeOK, StoreTypeOK
  <2>3. \A x \in Saves, st \in {"checked", "stored"} : [x EXCEPT !.st = st] \in Saves
    OBVIOUS
  <2>4. QED
    BY <2>1, <2>2, <2>3
<1> HIDE DEF Saves
<1>0. ASSUME NEW c \in Call, NEW x \in Saves, save' = [save EXCEPT ![c] = x],
             UNCHANGED <<session, create, finish, deletes>>, lost' \in BOOLEAN
      PROVE  StoreTypeOK'
  <2>1. save' \in [Call -> Saves]
    BY <1>0, <1>2
  <2>2. QED
    BY <1>0, <2>1 DEF TypeOK, StoreTypeOK, Saves
<1>3. ASSUME NEW b \in Batches, Create(b) \/ CreateFails(b) \/ Delete(b) \/ DeleteFails(b)
      PROVE  StoreTypeOK'
  <2>1. CASE Create(b)
    BY <2>1 DEF Create, TypeOK, StoreTypeOK
  <2>2. CASE CreateFails(b)
    BY <2>2 DEF CreateFails, TypeOK, StoreTypeOK
  <2>3. CASE Delete(b)
    <3>1. save' \in [Call -> Saves]
      BY <1>2, <2>3 DEF Delete
    <3>2. QED
      BY <1>1, <2>3, <3>1 DEF Delete, NoSession, TypeOK, StoreTypeOK, Saves
  <2>4. CASE DeleteFails(b)
    BY <2>4 DEF DeleteFails, TypeOK, StoreTypeOK
  <2>5. QED
    BY <1>3, <2>1, <2>2, <2>3, <2>4
<1>4. ASSUME NEW c \in Call, CheckSave(c) \/ InsertSave(c) \/ SaveFails(c)
      PROVE  StoreTypeOK'
  <2>1. CASE CheckSave(c)
    BY <1>0, <1>2, <2>1 DEF CheckSave, TypeOK, StoreTypeOK
  <2>2. CASE InsertSave(c)
    BY <1>0, <1>2, <2>2 DEF InsertSave, TypeOK, StoreTypeOK
  <2>3. CASE SaveFails(c)
    BY <1>0, <1>2, <2>3 DEF SaveFails
  <2>4. QED
    BY <1>4, <2>1, <2>2, <2>3
<1>5. ASSUME NEW c \in Call, CheckFinish(c) \/ UpdateStats(c) \/ FinishFails(c)
      PROVE  StoreTypeOK'
  <2>1. CASE CheckFinish(c)
    BY <1>1, <2>1 DEF CheckFinish, NoFinish, TypeOK, StoreTypeOK
  <2>2. CASE UpdateStats(c)
    <3>1. finish' \in [Call -> [st : {"none", "posted", "checked"},
                                session : 0 .. MaxBatches, count : 0 .. Cardinality(Work)]]
      BY <1>1, <2>2 DEF UpdateStats, NoFinish, TypeOK, StoreTypeOK
    <3>2. finish[c].count \in 0 .. Cardinality(Work)
      BY DEF TypeOK, StoreTypeOK
    <3>3. session' \in [Batches -> [st : {"none", "in_progress", "deleted"} \cup Written,
                                    count : 0 .. Cardinality(Work), rubric : 0 .. MaxBatches]]
      <4>1. CASE session' = session
        BY <4>1 DEF TypeOK, StoreTypeOK
      <4>2. ASSUME NEW text \in Written, NEW s,
                   session' = [session EXCEPT ![s] =
                                  [@ EXCEPT !.st = text, !.count = finish[c].count]]
            PROVE  <3>3
        <5> DEFINE Sessions == [st : {"none", "in_progress", "deleted"} \cup Written,
                                count : 0 .. Cardinality(Work), rubric : 0 .. MaxBatches]
        <5>1. \A x \in Sessions, n \in 0 .. Cardinality(Work) :
                [x EXCEPT !.st = text, !.count = n] \in Sessions
          OBVIOUS
        <5>2. session \in [Batches -> Sessions]
          BY DEF TypeOK, StoreTypeOK
        <5> HIDE DEF Sessions
        <5>3. session' \in [Batches -> Sessions]
          BY <3>2, <4>2, <5>1, <5>2
        <5>4. QED
          BY <5>3 DEF Sessions
      <4>3. QED
        BY <2>2, <4>1, <4>2 DEF UpdateStats
    <3>4. QED
      BY <2>2, <3>1, <3>3 DEF UpdateStats, TypeOK, StoreTypeOK
  <2>3. CASE FinishFails(c)
    BY <1>1, <2>3 DEF FinishFails, NoFinish, TypeOK, StoreTypeOK
  <2>4. QED
    BY <1>5, <2>1, <2>2, <2>3
<1>6. QED
  BY <1>3, <1>4, <1>5 DEF StoreStep

\* The steps of the page that neither fire nor take a call
Setup ==
    \/ SetRubric \/ SetStep \/ LoggedOut \/ ToHistory \/ ViewSession \/ Viewed
    \/ \E w \in Work : ChooseWork(w) \/ WorkRead(w) \/ WorkUnread(w)
    \/ \E i \in Ids : RemoveSubmission(i)
    \/ \E b \in Batches : RubricRead(b)

LEMMA SetupKeepsCalls ==
    ASSUME Setup
    PROVE  UNCHANGED <<storeVars, batch, sessionId, fetch, controllers>>
  BY DEF Setup, SetRubric, SetStep, LoggedOut, ToHistory, ViewSession, Viewed, Shows, ChooseWork,
         WorkRead, WorkUnread, RemoveSubmission, RubricRead

LEMMA SetupType ==
    ASSUME TypeOK, Started, Setup
    PROVE  TypeOK'
<1>1. StoreTypeOK'
  BY SetupKeepsCalls DEF TypeOK, StoreTypeOK, storeVars
<1>2. CASE SetRubric
  <2>1. rubric' \in 0 .. MaxBatches
    BY <1>2, BoundsAssumption DEF SetRubric, TypeOK
  <2>2. rubricReads' \subseteq Batches
    <3>1. batch \in Batches
      BY <1>2 DEF SetRubric, Started
    <3>2. QED
      BY <1>2, <3>1 DEF SetRubric, TypeOK
  <2>3. QED
    BY <1>1, <1>2, <2>1, <2>2 DEF SetRubric, TypeOK
<1>3. CASE SetStep
  BY <1>1, <1>3 DEF SetStep, TypeOK
<1>4. CASE LoggedOut \/ ToHistory \/ ViewSession \/ Viewed
  BY <1>1, <1>4 DEF LoggedOut, ToHistory, ViewSession, Viewed, Shows, TypeOK
<1>5. ASSUME NEW w \in Work, ChooseWork(w) \/ WorkRead(w) \/ WorkUnread(w)
      PROVE  TypeOK'
  <2>1. CASE ChooseWork(w)
    BY <1>1, <2>1 DEF ChooseWork, TypeOK
  <2>2. CASE WorkRead(w)
    BY <1>1, <2>2, WorksCounted DEF WorkRead, TypeOK, Ids
  <2>3. CASE WorkUnread(w)
    BY <1>1, <2>3 DEF WorkUnread, TypeOK
  <2>4. QED
    BY <1>5, <2>1, <2>2, <2>3
<1>6. ASSUME NEW i \in Ids, RemoveSubmission(i)
      PROVE  TypeOK'
  BY <1>1, <1>6 DEF RemoveSubmission, Absent, TypeOK
<1>7. ASSUME NEW b \in Batches, RubricRead(b)
      PROVE  TypeOK'
  BY <1>1, <1>7, BoundsAssumption DEF RubricRead, Batches, TypeOK
<1>8. QED
  BY <1>2, <1>3, <1>4, <1>5, <1>6, <1>7 DEF Setup

LEMMA InitHolds == Init => TypeOK /\ Started /\ Cancellable
<1>1. Cardinality(Work) \in Nat /\ MaxBatches \in Nat
  BY WorksCounted, BoundsAssumption
<1>2. Init => StoreTypeOK
  <2>1. Init => session \in [Batches -> [st : {"none", "in_progress", "deleted"} \cup Written,
                                       count : 0 .. Cardinality(Work), rubric : 0 .. MaxBatches]]
    BY <1>1 DEF Init, StoreInit, NoSession
  <2>2. Init => save \in [Call -> [st : {"none", "posted", "checked", "stored"},
                                 session : 0 .. MaxBatches, work : Work \cup {NoWork},
                                 rubric : 0 .. MaxBatches, ok : BOOLEAN]]
    <3>1. NoSave \in [st : {"none", "posted", "checked", "stored"}, session : 0 .. MaxBatches,
                     work : Work \cup {NoWork}, rubric : 0 .. MaxBatches, ok : BOOLEAN]
      BY <1>1 DEF NoSave
    <3>2. QED
      BY <3>1 DEF Init, StoreInit
  <2>3. Init => finish \in [Call -> [st : {"none", "posted", "checked"},
                                   session : 0 .. MaxBatches, count : 0 .. Cardinality(Work)]]
    BY <1>1 DEF Init, StoreInit, NoFinish
  <2>4. QED
    BY <2>1, <2>2, <2>3 DEF Init, StoreInit, StoreTypeOK
<1>3. QED
  <2>1. Init => fetch \in FetchType /\ Cancellable
    BY <1>1 DEF Init, NoFetch, FetchType, Cancellable
  <2>2. Init => viewing \in BOOLEAN
    BY DEF Init
  <2>3. Init => subs \in [Ids -> [work : Work \cup {NoWork},
                                st : {"absent", "pending", "grading", "done", "error"}]]
    BY DEF Init, Absent
  <2>4. QED
    BY <1>1, <1>2, <2>1, <2>2, <2>3 DEF Init, TypeOK, Started, FetchType

LEMMA StepKeeps ==
    ASSUME TypeOK, Started, Cancellable, [Next]_vars
    PROVE  TypeOK' /\ Cancellable'
<1>1. CASE Setup
  <2>1. Cancellable'
    BY <1>1, SetupKeepsCalls DEF Cancellable
  <2>2. QED
    BY <1>1, <2>1, SetupType
<1>2. CASE StartNew
  BY <1>2, WorksCounted, BoundsAssumption
     DEF StartNew, TypeOK, StoreTypeOK, storeVars, Absent, Cancellable
<1>3. CASE GradeAll
  <2>1. subs' \in [Ids -> [work : Work \cup {NoWork},
                          st : {"absent", "pending", "grading", "done", "error"}]]
    BY <1>3 DEF GradeAll, TypeOK
  <2>2. StoreTypeOK'
    <3>0. batch \in Batches
      BY <1>3 DEF GradeAll, Started
    <3>1. /\ session' = [session EXCEPT ![batch].rubric = rubric]
          /\ create' = [create EXCEPT ![batch] = "posted"]
          /\ UNCHANGED <<save, finish, deletes, lost>> /\ rubric \in 0 .. MaxBatches
      BY <1>3 DEF GradeAll, TypeOK
    <3>2. session' \in [Batches -> [st : {"none", "in_progress", "deleted"} \cup Written,
                                    count : 0 .. Cardinality(Work), rubric : 0 .. MaxBatches]]
      BY <3>0, <3>1, SMTT(60) DEF TypeOK, StoreTypeOK
    <3>3. create' \in [Batches -> {"none", "posted", "answered", "failed", "heard"}]
      BY <3>1 DEF TypeOK, StoreTypeOK
    <3>4. QED
      BY <3>1, <3>2, <3>3 DEF TypeOK, StoreTypeOK
  <2>3. QED
    BY <1>3, <2>1, <2>2 DEF GradeAll, TypeOK, Cancellable
<1>4. CASE Leave
  <2>1. fetch' \in FetchType
    BY <1>4, WorksCounted, BoundsAssumption DEF Leave, TypeOK, NoFetch, FetchType
  <2>2. Cancellable'
    BY <1>4 DEF Leave, TypeOK, NoFetch, Cancellable
  <2>3. QED
    BY <1>4, <2>1, <2>2 DEF Leave, TypeOK, StoreTypeOK, FetchType
<1>5. ASSUME NEW b \in Batches, SessionCreated(b)
      PROVE  TypeOK' /\ Cancellable'
  <2>1. fetch' \in FetchType /\ controllers' \subseteq Call /\ Cancellable'
    BY <1>5, GradeFires DEF SessionCreated, With
  <2>2. create' \in [Batches -> {"none", "posted", "answered", "failed", "heard"}]
        /\ sessionId' \in 0 .. MaxBatches
    BY <1>5, BoundsAssumption DEF SessionCreated, TypeOK, StoreTypeOK, Batches
  <2>3. QED
    BY <1>5, <2>1, <2>2 DEF SessionCreated, TypeOK, StoreTypeOK, FetchType
<1>6. ASSUME NEW i \in Ids, RetrySubmission(i)
      PROVE  TypeOK' /\ Cancellable'
  <2>1. fetch' \in FetchType /\ controllers' \subseteq Call /\ Cancellable'
    BY <1>6, GradeFires DEF RetrySubmission
  <2>2. subs' \in [Ids -> [work : Work \cup {NoWork},
                          st : {"absent", "pending", "grading", "done", "error"}]]
    BY <1>6 DEF RetrySubmission, TypeOK
  <2>3. QED
    BY <1>6, <2>1, <2>2 DEF RetrySubmission, TypeOK, StoreTypeOK, storeVars, FetchType
<1>7. ASSUME NEW b \in Batches, DeleteSession(b)
      PROVE  TypeOK' /\ Cancellable'
  BY <1>7 DEF DeleteSession, TypeOK, StoreTypeOK, pageVars, Cancellable
<1>8. ASSUME NEW c \in Call, NEW ok \in BOOLEAN, Outcome(c, ok)
      PROVE  TypeOK' /\ Cancellable'
  BY <1>8, OutcomeIsTaken
<1>9. CASE StoreStep /\ UNCHANGED pageVars
  BY <1>9, StoreStepType DEF TypeOK, pageVars, Cancellable
<1>10. CASE UNCHANGED vars
  BY <1>10 DEF vars, storeVars, pageVars, TypeOK, StoreTypeOK, Cancellable
<1>11. QED
  BY <1>1, <1>2, <1>3, <1>4, <1>5, <1>6, <1>7, <1>8, <1>9, <1>10 DEF Next, PageStep, Setup

LEMMA StartedKept ==
    ASSUME TypeOK, Started, [Next]_vars
    PROVE  Started'
<1>1. CASE StartNew
  BY <1>1, BoundsAssumption DEF StartNew, Started, TypeOK, Batches
<1>2. CASE UNCHANGED <<shown, batch>>
  BY <1>2 DEF Started
<1>3. CASE shown \in {"setup", "submissions"} /\ UNCHANGED batch
  BY <1>3 DEF Started
<1>4. CASE shown' \notin {"setup", "submissions"}
  BY <1>4 DEF Started
<1>5. QED
  BY <1>1, <1>2, <1>3, <1>4
     DEF Next, PageStep, SetRubric, SetStep, GradeAll, Leave, LoggedOut, ToHistory, ViewSession,
         Viewed, Shows, ChooseWork, WorkRead, WorkUnread, RemoveSubmission, RetrySubmission, RubricRead,
         SessionCreated, DeleteSession, Outcome, vars, pageVars

\* Every variable of the grading page and of the store keeps its type.
THEOREM TypeCorrect == Spec => []TypeOK
<1>1. /\ TypeOK /\ Started /\ Cancellable /\ [Next]_vars
      => (TypeOK /\ Started /\ Cancellable)'
  BY StepKeeps, StartedKept
<1>2. QED
  BY InitHolds, <1>1, PTL DEF Spec

\* cancelAll: when the view has been left no grading call is out, because at
\* any moment every call that is out has its controller on the list.
THEOREM LeavingCancelsAll == Spec => LeavingCancels
<1>1. /\ TypeOK /\ Started /\ Cancellable /\ [Next]_vars
      => (TypeOK /\ Started /\ Cancellable)'
  BY StepKeeps, StartedKept
<1>2. TypeOK /\ Cancellable /\ [Next]_vars =>
        [Leave => \A c \in Call : fetch'[c].st # "out"]_vars
  BY DEF Leave, TypeOK, Cancellable, NoFetch
<1>3. QED
  BY InitHolds, <1>1, <1>2, PTL DEF Spec, LeavingCancels
(***************************************************************************)
(* Deletion                                                                *)
(***************************************************************************)

Fresh(b) == create[b] = "none" /\ session[b].st = "none"

\* Until its POST arrives there is no session, and each batch has one POST
OnePost ==
    /\ \A b \in Batches : b > batch => Fresh(b)
    /\ shown \in {"setup", "submissions"} => Fresh(batch)
    /\ \A b \in Batches : create[b] \in {"none", "posted"} => session[b].st = "none"

NoRowsLeft == \A s \in Batches : session[s].st = "deleted" => Rows(s) = {}

Gone(s) == session'[s].st = "deleted" /\ Rows(s)' = {}

LEMMA StoreDeletes ==
    ASSUME TypeOK, OnePost, NoRowsLeft, StoreStep, NEW s \in Batches,
           session[s].st = "deleted" \/ session'[s].st = "deleted"
    PROVE  Gone(s)
<1>1. ASSUME NEW b \in Batches, Create(b) \/ CreateFails(b) \/ DeleteFails(b)
      PROVE  Gone(s)
  <2>1. UNCHANGED save
    BY <1>1 DEF Create, CreateFails, DeleteFails
  <2>2. CASE Create(b)
    <3>1. session' = [session EXCEPT ![b].st = "in_progress"] /\ session[b].st = "none"
      BY <2>2 DEF Create, OnePost
    <3>2. s # b /\ session'[s] = session[s]
      BY <3>1 DEF TypeOK, StoreTypeOK
    <3>3. QED
      BY <2>1, <3>2 DEF NoRowsLeft, Rows, Gone
  <2>3. CASE UNCHANGED session
    BY <2>1, <2>3 DEF NoRowsLeft, Rows, Gone
  <2>4. QED
    BY <1>1, <2>2, <2>3 DEF CreateFails, DeleteFails
<1>2. ASSUME NEW b \in Batches, Delete(b)
      PROVE  Gone(s)
  <2>1. session' = [session EXCEPT ![b] = IF Exists(b) THEN NoSession("deleted") ELSE @]
        /\ save' = [c \in Call |-> IF c \in Rows(b) THEN NoSave ELSE save[c]]
    BY <1>2 DEF Delete
  <2>2. session'[s].st = "deleted"
    BY <2>1 DEF TypeOK, StoreTypeOK, Exists, NoSession
  <2>3. Rows(s)' \subseteq Rows(s) /\ Rows(b)' = {}
    BY <2>1 DEF Rows, NoSave
  <2>4. s # b => session[s].st = "deleted"
    BY <2>1 DEF TypeOK, StoreTypeOK
  <2>5. QED
    BY <2>2, <2>3, <2>4 DEF NoRowsLeft, Gone
<1>3. ASSUME NEW c \in Call, CheckSave(c) \/ InsertSave(c) \/ SaveFails(c)
      PROVE  Gone(s)
  <2>1. session' = session
    BY <1>3 DEF CheckSave, InsertSave, SaveFails
  <2>2. ~Exists(s) /\ Rows(s) = {}
    BY <2>1 DEF NoRowsLeft, Exists
  <2>3. \A d \in Call : d # c => save'[d] = save[d]
    BY <1>3 DEF CheckSave, InsertSave, SaveFails, TypeOK, StoreTypeOK
  <2>4. ~(save'[c].st = "stored" /\ save'[c].session = s)
    <3>1. CASE CheckSave(c)
      BY <3>1 DEF CheckSave, NoSave, TypeOK, StoreTypeOK
    <3>2. CASE InsertSave(c)
      BY <2>2, <3>2 DEF InsertSave, NoSave, TypeOK, StoreTypeOK
    <3>3. CASE SaveFails(c)
      BY <3>3 DEF SaveFails, NoSave, TypeOK, StoreTypeOK
    <3>4. QED
      BY <1>3, <3>1, <3>2, <3>3
  <2>5. QED
    BY <2>1, <2>2, <2>3, <2>4 DEF Rows, Gone
<1>4. ASSUME NEW c \in Call, CheckFinish(c) \/ FinishFails(c)
      PROVE  Gone(s)
  BY <1>4 DEF CheckFinish, FinishFails, NoRowsLeft, Rows, Gone
<1>5. ASSUME NEW c \in Call, UpdateStats(c)
      PROVE  Gone(s)
  <2>1. UNCHANGED save
    BY <1>5 DEF UpdateStats
  <2>2. session'[s].st = session[s].st \/ (Exists(s) /\ session'[s].st \in Written)
    <3>1. CASE session' = session
      BY <3>1
    <3>2. ASSUME NEW text \in Written, Exists(finish[c].session),
                 session' = [session EXCEPT ![finish[c].session] =
                                [@ EXCEPT !.st = text, !.count = finish[c].count]]
          PROVE  <2>2
      BY <3>2 DEF TypeOK, StoreTypeOK
    <3>3. QED
      BY <1>5, <3>1, <3>2 DEF UpdateStats
  <2>3. QED
    BY <2>1, <2>2 DEF NoRowsLeft, Rows, Gone, Exists, Written
<1>6. QED
  BY <1>1, <1>2, <1>3, <1>4, <1>5 DEF StoreStep

LEMMA PageDeletes ==
    ASSUME TypeOK, Started, NoRowsLeft, PageStep, NEW s \in Batches,
           session[s].st = "deleted" \/ session'[s].st = "deleted"
    PROVE  Gone(s)
<1>1. \/ UNCHANGED session
      \/ shown = "submissions" /\ session' = [session EXCEPT ![batch].rubric = rubric]
  BY SetupKeepsCalls
     DEF PageStep, Setup, storeVars, StartNew, GradeAll, Leave, SessionCreated, RetrySubmission,
         DeleteSession, Outcome
<1>2. session'[s].st = session[s].st
  BY <1>1 DEF TypeOK, StoreTypeOK, Started
<1>3. \A c \in Call : save'[c] = save[c] \/ save'[c].st = "posted"
  <2>1. ASSUME NEW c \in Call, NEW ok \in BOOLEAN, Outcome(c, ok), NEW d \in Call
        PROVE  save'[d] = save[d] \/ save'[d].st = "posted"
    BY <2>1 DEF Outcome, SaveResult, TypeOK, StoreTypeOK
  <2>2. UNCHANGED save \/ \E c \in Call, ok \in BOOLEAN : Outcome(c, ok)
    BY SetupKeepsCalls
       DEF PageStep, Setup, storeVars, StartNew, GradeAll, Leave, SessionCreated, RetrySubmission,
           DeleteSession
  <2>3. QED
    BY <2>1, <2>2
<1>4. Rows(s)' \subseteq Rows(s)
  BY <1>3 DEF Rows
<1>5. QED
  BY <1>2, <1>4 DEF NoRowsLeft, Gone

LEMMA OnePostKept ==
    ASSUME TypeOK, Started, OnePost, [Next]_vars
    PROVE  OnePost'
<1>0. batch \in Nat
  BY BoundsAssumption DEF TypeOK
<1>1. CASE StartNew
  <2>1. batch' = batch + 1 /\ batch' \in Batches /\ UNCHANGED <<session, create>>
    BY <1>0, <1>1, BoundsAssumption DEF StartNew, storeVars, Batches
  <2>2. \A b \in Batches : b > batch' => b > batch
    BY <1>0, <2>1 DEF Batches
  <2>3. batch' > batch
    BY <1>0, <2>1
  <2>4. QED
    BY <2>1, <2>2, <2>3 DEF OnePost, Fresh
<1>2. CASE GradeAll
  <2>1. batch \in Batches /\ Fresh(batch) /\ shown' = "results" /\ batch' = batch
        /\ create' = [create EXCEPT ![batch] = "posted"]
        /\ session' = [session EXCEPT ![batch].rubric = rubric]
    BY <1>2 DEF GradeAll, OnePost, Started
  <2>2. \A b \in Batches : session'[b].st = session[b].st /\ (b # batch => create'[b] = create[b])
    BY <2>1 DEF TypeOK, StoreTypeOK
  <2>3. QED
    BY <1>0, <2>1, <2>2 DEF OnePost, Fresh, TypeOK, StoreTypeOK, Batches
<1>3. ASSUME NEW b \in Batches, SessionCreated(b)
      PROVE  OnePost'
  BY <1>0, <1>3 DEF SessionCreated, OnePost, Fresh, Started, TypeOK, StoreTypeOK, Batches
<1>4. CASE UNCHANGED <<session, create, batch>>
           /\ (shown' \in {"setup", "submissions"} => shown \in {"setup", "submissions"})
  BY <1>4 DEF OnePost, Fresh
<1>5. CASE StoreStep /\ UNCHANGED pageVars
  <2>1. ASSUME NEW b \in Batches
        PROVE  /\ Fresh(b) => Fresh(b)'
               /\ (create[b] \in {"none", "posted"} => session[b].st = "none")
                  => (create'[b] \in {"none", "posted"} => session'[b].st = "none")
    <3>1. ASSUME NEW d \in Batches, Create(d) \/ CreateFails(d) \/ Delete(d) \/ DeleteFails(d)
          PROVE  <2>1!2
      BY <3>1, SMTT(60) DEF Create, CreateFails, Delete, DeleteFails, Exists, NoSession, Fresh, TypeOK,
                  StoreTypeOK
    <3>2. ASSUME NEW c \in Call, UpdateStats(c)
          PROVE  <2>1!2
      <4>1. session'[b].st = session[b].st \/ session[b].st \notin {"none", "deleted"}
        <5>1. ASSUME NEW text \in Written, Exists(finish[c].session),
                     session' = [session EXCEPT ![finish[c].session] =
                                    [@ EXCEPT !.st = text, !.count = finish[c].count]]
              PROVE  <4>1
          BY <5>1 DEF TypeOK, StoreTypeOK, Exists
        <5>2. QED
          BY <3>2, <5>1 DEF UpdateStats
      <4>2. QED
        BY <3>2, <4>1 DEF UpdateStats, Fresh
    <3>3. CASE UNCHANGED <<session, create>>
      BY <3>3 DEF Fresh
    <3>4. QED
      BY <1>5, <3>1, <3>2, <3>3 DEF StoreStep, CheckSave, InsertSave, SaveFails, CheckFinish, FinishFails
  <2>2. QED
    BY <1>5, <2>1 DEF OnePost, pageVars, Started
<1>6. QED
  BY <1>1, <1>2, <1>3, <1>4, <1>5, SetupKeepsCalls
     DEF Next, PageStep, Setup, SetRubric, SetStep, Leave, LoggedOut, ToHistory, ViewSession, Viewed,
         Shows, ChooseWork, WorkRead, WorkUnread, RemoveSubmission, RetrySubmission, RubricRead,
         DeleteSession, Outcome, vars, storeVars, pageVars

\* db_grading_session_delete: a session that was deleted does not come back,
\* and it neither keeps nor gets any result, whatever save_result and finish
\* found before.
THEOREM DeletionIsFinal == Spec => DeletionFinal
<1> DEFINE Inv == TypeOK /\ Started /\ Cancellable /\ OnePost /\ NoRowsLeft
<1>1. Init => Inv
  BY InitHolds, BoundsAssumption
     DEF Init, StoreInit, OnePost, NoRowsLeft, Fresh, NoSession, Batches
<1>2. Inv /\ [Next]_vars => \A s \in Batches :
        session[s].st = "deleted" \/ session'[s].st = "deleted" => Gone(s)
  <2>1. ASSUME Inv, NEW s \in Batches, session[s].st = "deleted", UNCHANGED vars
        PROVE  Gone(s)
    BY <2>1 DEF vars, storeVars, NoRowsLeft, Rows, Gone
  <2>2. ASSUME Inv, NEW s \in Batches, session'[s].st = "deleted", UNCHANGED vars
        PROVE  session[s].st = "deleted"
    BY <2>2 DEF vars, storeVars
  <2>3. QED
    BY <2>1, <2>2, StoreDeletes, PageDeletes DEF Next
<1>3. Inv /\ [Next]_vars => NoRowsLeft'
  BY <1>2 DEF NoRowsLeft, Gone
<1>4. Inv /\ [Next]_vars => Inv'
  BY <1>3, StepKeeps, StartedKept, OnePostKept
<1>5. Inv /\ [Next]_vars => [\A s \in Batches :
        session[s].st = "deleted" \/ session'[s].st = "deleted" =>
            session'[s].st = "deleted" /\ Rows(s)' = {}]_vars
  BY <1>2 DEF Gone
<1>6. QED
  BY <1>1, <1>4, <1>5, PTL DEF Spec, DeletionFinal

(***************************************************************************)
(* A user who waits                                                        *)
(***************************************************************************)

\* The session of the batch has been asked for: Grade All was pressed
Posted == batch \in Batches /\ create[batch] # "none"

\* Requests to create a session are made for one batch after the other
InTurn ==
    /\ \A b \in Batches :
        /\ b # batch => create[b] \in {"none", "heard"}
        /\ b > batch => create[b] = "none"
        /\ create[b] \in {"none", "posted"} => session[b].st = "none"
    /\ sessionId \in {0, batch}
    /\ sessionId # 0 => create[sessionId] = "heard"

\* A batch is put together before its session is asked for
SetUp ==
    /\ rubric \in {0, batch} /\ rubricReads \subseteq {batch}
    /\ shown = "submissions" => rubric = batch
    /\ shown = "results" => Posted
    /\ Posted => /\ shown \notin {"setup", "submissions"}
                 /\ reading = {} /\ rubricReads = {} /\ With("pending") = {}
                 /\ session[batch].st # "deleted" => session[batch].rubric = rubric
    /\ ~Posted => Present \subseteq With("pending")

\* Each work is in one place: in the reader or under one id
Chosen ==
    /\ \A i \in Present :
        /\ subs[i].work \in Work /\ chosen[subs[i].work] = batch /\ batch \in Batches
        /\ subs[i].work \notin reading /\ i < nextId
        /\ \A j \in Present : subs[i].work = subs[j].work => i = j
    /\ \A w \in reading : chosen[w] = batch /\ batch \in Batches

\* A call that is out grades the work it was made for, and no other does
Graded ==
    \A c \in Call : fetch[c].st = "out" =>
        /\ Posted /\ create[batch] = "heard"
        /\ fetch[c].id \in With("grading") /\ subs[fetch[c].id].work = c[1]
        /\ fetch[c].rubric = rubric
        /\ \A d \in Call : fetch[d].st = "out" /\ d[1] = c[1] => d = c

\* The last part of each is for calls that have not been answered
Saved ==
    \A c \in Call :
        /\ save[c].st # "none" =>
            /\ save[c].work = c[1] /\ save[c].session \in Batches
            /\ save[c].session <= batch /\ create[save[c].session] = "heard"
            /\ chosen[c[1]] = save[c].session
            /\ session[save[c].session].st # "deleted" =>
                save[c].rubric = session[save[c].session].rubric
        /\ fetch[c].st # "over" => save[c] = NoSave

\* What the results panel shows as under way is
Watched ==
    /\ Posted /\ create[batch] # "heard" => With("grading") # {} /\ Present = With("grading")
    /\ shown = "results" \/ ~lost =>
        (Posted /\ create[batch] = "heard" =>
            \A i \in With("grading") : \E c \in Call : fetch[c].st = "out" /\ fetch[c].id = i)

\* Statistics on their way are those of the submissions there are
Counted ==
    \A c \in Call : finish[c].st # "none" =>
        /\ finish[c].session = batch /\ sessionId = batch /\ batch \in Batches
        /\ With("grading") = {} /\ finish[c].count = Cardinality(With("done"))

\* Works that session s has a grade for, or is about to have
GradesFor(s) == {save[c].work : c \in {d \in Call : save[d].session = s /\ save[d].ok /\ save[d].st # "none"}}

\* The batch at hand: what is done is saved and, when all is, counted
Current ==
    ~lost /\ Posted =>
        /\ create[batch] # "failed"
        /\ create[batch] = "answered" => session[batch].st # "none"
        /\ create[batch] = "heard" =>
            /\ sessionId = batch /\ session[batch].st # "none"
            /\ Exists(batch) => /\ GradesFor(batch) = {subs[i].work : i \in With("done")}
                                /\ With("grading") = {} =>
                                    \/ \E c \in Call : finish[c].st # "none"
                                    \/ /\ session[batch].st \in Written
                                       /\ session[batch].count = Cardinality(With("done"))

\* The batches before are at rest, and counted
Earlier ==
    ~lost => \A s \in Batches : s < batch /\ Exists(s) =>
        /\ \A c \in Call : save[c].session = s => save[c].st \in {"none", "stored"}
        /\ Rows(s) # {} =>
            /\ session[s].st \in Written
            /\ session[s].count = Cardinality(GradesFor(s))

Calm ==
    /\ TypeOK /\ Started /\ Cancellable
    /\ InTurn /\ SetUp /\ Chosen /\ Graded /\ Saved /\ Watched /\ Counted /\ Current /\ Earlier

LEMMA BatchCounted == TypeOK => batch \in Nat /\ sessionId \in Nat
  BY BoundsAssumption DEF TypeOK

(* Setting up *)

LEMMA SetUpIsOver ==
    ASSUME SetUp, Posted, Setup
    PROVE  /\ UNCHANGED <<rubric, subs, nextId, reading, rubricReads, chosen>>
           /\ shown' \in {shown, "history", "away"}
<1>1. shown \notin {"setup", "submissions"} /\ reading = {} /\ rubricReads = {}
  BY DEF SetUp
<1>2. QED
  BY <1>1 DEF Setup, SetRubric, SetStep, LoggedOut, ToHistory, ViewSession, Viewed, Shows, ChooseWork,
              WorkRead, WorkUnread, RemoveSubmission, RubricRead

\* Nothing is graded, saved or counted before the session is asked for
LEMMA NothingYet ==
    ASSUME TypeOK, InTurn, Graded, Counted, ~Posted
    PROVE  /\ \A c \in Call : fetch[c].st # "out" /\ finish[c].st = "none"
           /\ sessionId = 0
<1>1. sessionId = 0
  BY DEF InTurn, Posted, TypeOK, Batches
<1>2. \A c \in Call : finish[c].st = "none"
  BY <1>1 DEF Counted, Batches
<1>3. QED
  BY <1>1, <1>2 DEF Graded

LEMMA RubricSet ==
    ASSUME TypeOK, Started, SetUp, ~Posted, Setup, UNCHANGED <<create, batch>>
    PROVE  /\ rubric' \in {0, batch} /\ rubricReads' \subseteq {batch}
           /\ shown' = "submissions" => rubric' = batch
           /\ shown' # "results"
<1> DEFINE Set == /\ rubric' \in {0, batch} /\ rubricReads' \subseteq {batch}
                  /\ shown' = "submissions" => rubric' = batch
                  /\ shown' # "results"
<1> SUFFICES Set
  OBVIOUS
<1>1. rubric \in {0, batch} /\ rubricReads \subseteq {batch} /\ shown # "results"
      /\ (shown = "submissions" => rubric = batch)
  BY DEF SetUp
<1>2. CASE SetRubric
  BY <1>1, <1>2 DEF SetRubric
<1>3. ASSUME NEW b \in Batches, RubricRead(b)
      PROVE  Set
  BY <1>1, <1>3 DEF RubricRead
<1>4. CASE SetStep
  BY <1>1, <1>4 DEF SetStep
<1>5. CASE UNCHANGED <<rubric, rubricReads>> /\ shown' \in {shown, "history", "away"}
  BY <1>1, <1>5
<1>6. QED
  BY <1>2, <1>3, <1>4, <1>5
     DEF Setup, LoggedOut, ToHistory, ViewSession, Viewed, Shows, ChooseWork, WorkRead, WorkUnread,
         RemoveSubmission

LEMMA WorkPlaced ==
    ASSUME TypeOK, Started, SetUp, Chosen, ~Posted, Setup, UNCHANGED batch
    PROVE  Chosen' /\ (Present \subseteq With("pending"))'
<1>0. batch \in Nat /\ nextId \in Nat /\ Ids \subseteq Nat
  BY BoundsAssumption, WorksCounted DEF TypeOK, Ids
<1>1. Present \subseteq With("pending")
  BY DEF SetUp
<1>2. ASSUME NEW w \in Work, ChooseWork(w)
      PROVE  Chosen' /\ (Present \subseteq With("pending"))'
  <2>1. \A i \in Present : subs[i].work # w
    BY <1>2 DEF Chosen, ChooseWork, Batches
  <2>2. batch \in Batches
    BY <1>2 DEF Started, ChooseWork
  <2>3. UNCHANGED <<subs, nextId>> /\ reading' = reading \cup {w} /\ chosen' = [chosen EXCEPT ![w] = batch]
    BY <1>2 DEF ChooseWork
  <2>4. QED
    BY <1>1, <2>1, <2>2, <2>3 DEF Chosen, Present, With, TypeOK
<1>3. ASSUME NEW w \in Work, WorkRead(w)
      PROVE  Chosen' /\ (Present \subseteq With("pending"))'
  <2>1. /\ w \in reading /\ reading' = reading \ {w} /\ nextId \in Ids /\ nextId' = nextId + 1
        /\ subs' = [subs EXCEPT ![nextId] = [work |-> w, st |-> "pending"]] /\ UNCHANGED chosen
    BY <1>3 DEF WorkRead
  <2>2. nextId \notin Present
    BY <1>0 DEF Chosen
  <2>3. Present' = Present \cup {nextId}
    BY <2>1 DEF Present, TypeOK
  <2>4. \A i \in Present : subs'[i] = subs[i] /\ i # nextId
    BY <2>1, <2>2 DEF Present, TypeOK
  <2>5. subs'[nextId] = [work |-> w, st |-> "pending"]
    BY <2>1 DEF TypeOK
  <2>6. (Present \subseteq With("pending"))'
    BY <1>1, <2>1, <2>3, <2>4, <2>5 DEF With
  <2>7. ASSUME NEW i \in Present'
        PROVE  /\ subs'[i].work \in Work /\ chosen'[subs'[i].work] = batch /\ batch \in Batches
               /\ subs'[i].work \notin reading' /\ i < nextId'
               /\ \A j \in Present' : subs'[i].work = subs'[j].work => i = j
    <3>1. CASE i = nextId
      BY <1>0, <2>1, <2>3, <2>4, <2>5, <3>1 DEF Chosen
    <3>2. CASE i \in Present
      <4>1. i < nextId /\ i \in Nat
        BY <1>0, <3>2 DEF Chosen, Present
      <4>2. subs[i].work # w
        BY <2>1, <3>2 DEF Chosen
      <4>3. i < nextId'
        BY <1>0, <2>1, <4>1
      <4>4. QED
        BY <2>1, <2>3, <2>4, <2>5, <3>2, <4>2, <4>3 DEF Chosen
    <3>3. QED
      BY <2>3, <3>1, <3>2
  <2>8. QED
    BY <2>1, <2>6, <2>7 DEF Chosen
<1>4. ASSUME NEW w \in Work, WorkUnread(w)
      PROVE  Chosen' /\ (Present \subseteq With("pending"))'
  BY <1>1, <1>4 DEF WorkUnread, Chosen, Present, With
<1>5. ASSUME NEW i \in Ids, RemoveSubmission(i)
      PROVE  Chosen' /\ (Present \subseteq With("pending"))'
  <2>1. Present' = Present \ {i} /\ (\A j \in Present' : subs'[j] = subs[j])
        /\ UNCHANGED <<nextId, reading, chosen>>
    BY <1>5 DEF RemoveSubmission, Present, Absent, TypeOK
  <2>2. QED
    BY <1>1, <2>1 DEF Chosen, With, Present
<1>6. CASE UNCHANGED <<subs, nextId, reading, chosen>>
  BY <1>1, <1>6 DEF Chosen, Present, With
<1>7. QED
  BY <1>2, <1>3, <1>4, <1>5, <1>6
     DEF Setup, SetRubric, SetStep, LoggedOut, ToHistory, ViewSession, Viewed, Shows, RubricRead

LEMMA SetupCalm ==
    ASSUME Calm, Setup
    PROVE  Calm'
<1>0. UNCHANGED <<session, create, save, finish, deletes, lost, batch, sessionId, fetch, controllers>>
  BY SetupKeepsCalls DEF storeVars
<1>1. TypeOK' /\ Started' /\ Cancellable'
  <2>1. [Next]_vars
    BY DEF Setup, Next, PageStep
  <2>2. QED
    BY <2>1, StepKeeps, StartedKept DEF Calm
<1>2. InTurn' /\ Earlier'
  BY <1>0 DEF Calm, InTurn, Earlier, Exists, Rows, GradesFor
<1>3. CASE Posted
  <2>1. /\ UNCHANGED <<rubric, subs, nextId, reading, rubricReads, chosen>>
        /\ shown' \in {shown, "history", "away"}
    BY <1>3, SetUpIsOver DEF Calm
  <2>2. SetUp' /\ Chosen' /\ Graded' /\ Saved'
    BY <1>0, <2>1 DEF Calm, SetUp, Chosen, Graded, Saved, Posted, Present, With
  <2>3. Watched' /\ Counted' /\ Current'
    <3>1. Watched' /\ Counted'
      BY <1>0, <2>1 DEF Calm, Watched, Counted, Posted, Present, With
    <3>2. Current'
      BY <1>0, <2>1 DEF Calm, Current, Posted, With, Exists, GradesFor
    <3>3. QED
      BY <3>1, <3>2
  <2>4. QED
    BY <1>1, <1>2, <2>2, <2>3 DEF Calm
<1>4. CASE ~Posted
  <2>1. ~Posted'
    BY <1>0, <1>4 DEF Posted
  <2>2. \A c \in Call : fetch'[c].st # "out" /\ finish'[c].st = "none"
    BY <1>0, <1>4, NothingYet DEF Calm
  <2>3. Graded' /\ Watched' /\ Counted' /\ Current'
    BY <2>1, <2>2 DEF Graded, Watched, Counted, Current
  <2>4. Chosen' /\ SetUp'
    BY <1>0, <1>4, <2>1, RubricSet, WorkPlaced DEF Calm, SetUp
  <2>5. Saved'
    <3>1. \A w \in Work : chosen[w] \in Batches => chosen'[w] = chosen[w]
      <4>1. UNCHANGED chosen \/ \E w \in Work : chosen[w] = 0 /\ chosen' = [chosen EXCEPT ![w] = batch]
        BY DEF Setup, SetRubric, SetStep, LoggedOut, ToHistory, ViewSession, Viewed, Shows, ChooseWork,
               WorkRead, WorkUnread, RemoveSubmission, RubricRead
      <4>2. QED
        BY <4>1 DEF Calm, TypeOK, Batches
    <3>2. \A c \in Call : c[1] \in Work
      BY DEF Call
    <3>3. QED
      BY <1>0, <3>1, <3>2 DEF Calm, Saved
  <2>6. QED
    BY <1>1, <1>2, <2>3, <2>4, <2>5 DEF Calm
<1>5. QED
  BY <1>3, <1>4

(* The store *)

\* The steps of a POST of a result; with failed they are lost
SaveSteps(c) ==
    /\ save[c].st \in {"posted", "checked"}
    /\ \/ \E st \in {"checked", "stored"} :
            save' = [save EXCEPT ![c] = IF Exists(save[c].session)
                                        THEN [save[c] EXCEPT !.st = st] ELSE NoSave]
       \/ save' = [save EXCEPT ![c] = NoSave] /\ lost' = TRUE
    /\ UNCHANGED <<session, create, finish, deletes, pageVars>>
    /\ lost => lost'

LEMMA SaveCalm ==
    ASSUME Calm, NEW c \in Call, SaveSteps(c)
    PROVE  /\ InTurn' /\ SetUp' /\ Chosen' /\ Graded' /\ Saved'
           /\ Watched' /\ Counted' /\ Current' /\ Earlier'
<1>0. /\ UNCHANGED <<session, create, finish, shown, batch, rubric, sessionId, subs, nextId, reading,
                     rubricReads, fetch, chosen>>
      /\ ~lost' => ~lost
  BY DEF SaveSteps, pageVars
<1>1. InTurn' /\ SetUp' /\ Chosen' /\ Graded' /\ Watched' /\ Counted'
  <2>1. InTurn' /\ SetUp' /\ Chosen'
    BY <1>0 DEF Calm, InTurn, SetUp, Chosen, Posted, Present, With
  <2>2. Graded' /\ Watched' /\ Counted'
    <3>1. Graded' /\ Counted'
      BY <1>0 DEF Calm, Graded, Counted, Posted, With
    <3>2. Watched'
      BY <1>0 DEF Calm, Watched, Posted, Present, With
    <3>3. QED
      BY <3>1, <3>2
  <2>3. QED
    BY <2>1, <2>2
<1>2. /\ \A d \in Call : d # c => save'[d] = save[d]
      /\ \/ save'[c] = NoSave /\ (lost' \/ ~Exists(save[c].session))
         \/ \E st \in {"checked", "stored"} : save'[c] = [save[c] EXCEPT !.st = st]
  BY DEF SaveSteps, Calm, TypeOK, StoreTypeOK
<1>3. /\ NoSave.st = "none" /\ NoSave.session = 0
      /\ save[c] \in [st : {"none", "posted", "checked", "stored"}, session : 0 .. MaxBatches,
                      work : Work \cup {NoWork}, rubric : 0 .. MaxBatches, ok : BOOLEAN]
  BY DEF NoSave, Calm, TypeOK, StoreTypeOK
<1>4. save[c].st \in {"posted", "checked"} /\ save[c].session \in Batches
  BY DEF SaveSteps, Calm, Saved
<1>5. \/ save'[c] = NoSave /\ (lost' \/ ~Exists(save[c].session))
      \/ /\ save'[c].st \in {"checked", "stored"} /\ save'[c].session = save[c].session
         /\ save'[c].work = save[c].work /\ save'[c].rubric = save[c].rubric /\ save'[c].ok = save[c].ok
  BY <1>2, <1>3
<1>6. Saved'
  <2>1. fetch[c].st = "over"
    BY <1>3, <1>4 DEF Calm, Saved
  <2>2. QED
    BY <1>0, <1>2, <1>3, <1>4, <1>5, <2>1 DEF Calm, Saved
<1>7. ASSUME NEW s \in Batches, ~lost', Exists(s)
      PROVE  GradesFor(s)' = GradesFor(s)
  <2>1. \A d \in Call : (save'[d].session = s /\ save'[d].ok /\ save'[d].st # "none")
                        <=> (save[d].session = s /\ save[d].ok /\ save[d].st # "none")
    BY <1>2, <1>3, <1>4, <1>5, <1>7 DEF Batches
  <2>2. \A d \in Call : save'[d].session = s /\ save'[d].st # "none" => save'[d].work = save[d].work
    BY <1>2, <1>3, <1>5 DEF Batches
  <2>3. QED
    BY <2>1, <2>2 DEF GradesFor
<1>8. Current'
  BY <1>0, <1>7 DEF Calm, Current, Exists, With, Posted
<1>9. Earlier'
  <2>1. SUFFICES ASSUME ~lost', NEW s \in Batches, s < batch, Exists(s)
                 PROVE  /\ \A d \in Call : save'[d].session = s => save'[d].st \in {"none", "stored"}
                        /\ Rows(s)' # {} =>
                            session[s].st \in Written /\ session[s].count = Cardinality(GradesFor(s)')
    BY <1>0 DEF Earlier, Exists
  <2>2. \A d \in Call : save[d].session = s => save[d].st \in {"none", "stored"}
    BY <1>0, <2>1 DEF Calm, Earlier
  <2>3. save[c].session # s /\ save'[c].session # s
    BY <1>3, <1>4, <1>5, <2>2 DEF Batches
  <2>4. Rows(s)' = Rows(s)
    BY <1>2, <2>3 DEF Rows
  <2>5. \A d \in Call : save'[d].session = s => save'[d].st \in {"none", "stored"}
    BY <1>2, <2>2, <2>3
  <2>6. Rows(s) # {} => session[s].st \in Written /\ session[s].count = Cardinality(GradesFor(s))
    BY <1>0, <2>1 DEF Calm, Earlier
  <2>7. QED
    BY <1>7, <2>1, <2>4, <2>5, <2>6
<1>10. QED
  BY <1>1, <1>6, <1>8, <1>9

\* The steps of a PUT of statistics
FinishSteps(c) ==
    /\ finish[c].st \in {"posted", "checked"}
    /\ \/ finish' = [finish EXCEPT ![c] = IF Exists(finish[c].session)
                                          THEN [finish[c] EXCEPT !.st = "checked"] ELSE NoFinish]
       \/ finish' = [finish EXCEPT ![c] = NoFinish] /\ lost' = TRUE
    /\ UNCHANGED <<session, create, save, deletes, pageVars>>
    /\ lost => lost'

LEMMA FinishCalm ==
    ASSUME Calm, NEW c \in Call, FinishSteps(c)
    PROVE  /\ InTurn' /\ SetUp' /\ Chosen' /\ Graded' /\ Saved'
           /\ Watched' /\ Counted' /\ Current' /\ Earlier'
<1>0. /\ UNCHANGED <<session, create, save, shown, batch, rubric, sessionId, subs, nextId, reading,
                     rubricReads, fetch, chosen>>
      /\ ~lost' => ~lost
  BY DEF FinishSteps, pageVars
<1>1. InTurn' /\ SetUp' /\ Chosen'
  BY <1>0 DEF Calm, InTurn, SetUp, Chosen, Posted, Present, With
<1>2. Graded' /\ Saved'
  BY <1>0 DEF Calm, Graded, Saved, Posted, With
<1>3. Watched' /\ Earlier'
  BY <1>0 DEF Calm, Watched, Earlier, Posted, Present, With, Exists, Rows, GradesFor
<1>4. /\ \A d \in Call : d # c => finish'[d] = finish[d]
      /\ \/ finish'[c] = NoFinish /\ (lost' \/ ~Exists(finish[c].session))
         \/ finish'[c] = [finish[c] EXCEPT !.st = "checked"]
  BY DEF FinishSteps, Calm, TypeOK, StoreTypeOK
<1>5. \/ finish'[c].st = "none" /\ (lost' \/ ~Exists(finish[c].session))
      \/ /\ finish'[c].st = "checked" /\ finish'[c].session = finish[c].session
         /\ finish'[c].count = finish[c].count
  BY <1>4 DEF NoFinish, Calm, TypeOK, StoreTypeOK
<1>6. finish[c].st # "none" /\ finish[c].session = batch
  BY DEF FinishSteps, Calm, Counted
<1>7. Counted'
  BY <1>0, <1>4, <1>5, <1>6 DEF Calm, Counted, With
<1>8. Current'
  <2>1. ~lost' /\ Exists(batch) => \E d \in Call : finish'[d].st # "none"
    BY <1>5, <1>6
  <2>2. QED
    BY <1>0, <2>1 DEF Calm, Current, Exists, With, Posted, GradesFor
<1>9. QED
  BY <1>1, <1>2, <1>3, <1>7, <1>8

LEMMA StatsCalm ==
    ASSUME Calm, NEW c \in Call, UpdateStats(c), UNCHANGED pageVars
    PROVE  /\ InTurn' /\ SetUp' /\ Chosen' /\ Graded' /\ Saved'
           /\ Watched' /\ Counted' /\ Current' /\ Earlier'
<1>0. /\ UNCHANGED <<create, save, lost, shown, batch, rubric, sessionId, subs, nextId, reading,
                     rubricReads, fetch, chosen>>
      /\ batch \in Nat
  BY BatchCounted DEF UpdateStats, pageVars, Calm
<1>1. /\ finish[c].session = batch /\ batch \in Batches
      /\ finish[c].count = Cardinality(With("done"))
  BY DEF UpdateStats, Calm, Counted
<1>2. /\ \A d \in Call : d # c => finish'[d] = finish[d]
      /\ finish'[c].st = "none"
  BY DEF UpdateStats, NoFinish, Calm, TypeOK, StoreTypeOK
<1>3. /\ \A s \in Batches : s # batch => session'[s] = session[s]
      /\ session'[batch].rubric = session[batch].rubric
      /\ Exists(batch) => /\ session'[batch].st \in Written
                          /\ session'[batch].count = Cardinality(With("done"))
      /\ ~Exists(batch) => session'[batch] = session[batch]
  <2>1. CASE ~Exists(batch)
    BY <1>1, <2>1 DEF UpdateStats
  <2>2. CASE Exists(batch)
    <3>1. PICK text \in Written :
            session' = [session EXCEPT ![batch] = [@ EXCEPT !.st = text, !.count = finish[c].count]]
      BY <1>1, <2>2 DEF UpdateStats
    <3>2. session \in [Batches -> [st : {"none", "in_progress", "deleted"} \cup Written,
                                   count : 0 .. Cardinality(Work), rubric : 0 .. MaxBatches]]
      BY DEF Calm, TypeOK, StoreTypeOK
    <3>3. session'[batch] = [session[batch] EXCEPT !.st = text, !.count = finish[c].count]
      BY <1>1, <3>1, <3>2
    <3>4. QED
      BY <1>1, <2>2, <3>1, <3>2, <3>3
  <2>3. QED
    BY <2>1, <2>2
<1>4. \A s \in Batches : /\ session'[s].st = "deleted" <=> session[s].st = "deleted"
                         /\ session'[s].st = "none" <=> session[s].st = "none"
                         /\ session'[s].rubric = session[s].rubric
  BY <1>3 DEF Exists, Written
<1>5. \A s \in Batches : Exists(s)' <=> Exists(s)
  BY <1>4 DEF Exists
<1>6. InTurn' /\ SetUp' /\ Chosen'
  BY <1>0, <1>4 DEF Calm, InTurn, SetUp, Chosen, Posted, Present, With
<1>7. Graded' /\ Saved' /\ Watched'
  BY <1>0, <1>4 DEF Calm, Graded, Saved, Watched, Posted, Present, With
<1>8. Counted'
  BY <1>0, <1>2 DEF Calm, Counted, With
<1>9. Current'
  <2>1. Exists(batch) => /\ session'[batch].st \in Written
                         /\ session'[batch].count = Cardinality(With("done"))
    BY <1>3
  <2>2. GradesFor(batch)' = GradesFor(batch) /\ With("done")' = With("done")
    BY <1>0 DEF GradesFor, With
  <2>3. QED
    BY <1>0, <1>1, <1>4, <1>5, <2>1, <2>2 DEF Calm, Current, Posted
<1>10. Earlier'
  <2>1. \A s \in Batches : s < batch => session'[s] = session[s]
    BY <1>0, <1>3 DEF Batches
  <2>2. \A s \in Batches : Rows(s)' = Rows(s) /\ GradesFor(s)' = GradesFor(s)
    BY <1>0 DEF Rows, GradesFor
  <2>3. QED
    BY <1>0, <1>5, <2>1, <2>2 DEF Calm, Earlier
<1>11. QED
  BY <1>6, <1>7, <1>8, <1>9, <1>10

LEMMA CreateCalm ==
    ASSUME Calm, NEW b \in Batches, Create(b) \/ CreateFails(b), UNCHANGED pageVars
    PROVE  /\ InTurn' /\ SetUp' /\ Chosen' /\ Graded' /\ Saved'
           /\ Watched' /\ Counted' /\ Current' /\ Earlier'
<1>0. /\ UNCHANGED <<save, finish, shown, batch, rubric, sessionId, subs, nextId, reading,
                     rubricReads, fetch, chosen>>
      /\ batch \in Nat /\ (~lost' => ~lost)
  BY BatchCounted DEF Create, CreateFails, pageVars, Calm
<1>1. b = batch /\ create[batch] \in {"posted", "answered"}
  BY DEF Create, CreateFails, Calm, InTurn
<1>2. /\ create'[batch] \in {"answered", "failed"}
      /\ \A s \in Batches : s # batch => create'[s] = create[s] /\ session'[s] = session[s]
      /\ session'[batch].rubric = session[batch].rubric
      /\ session'[batch].st \in {session[batch].st, "in_progress"}
      /\ ~lost' => create'[batch] = "answered" /\ session'[batch].st = "in_progress"
  BY <1>1 DEF Create, CreateFails, Calm, TypeOK, StoreTypeOK
<1>3. \A s \in Batches : /\ create'[s] = "heard" <=> create[s] = "heard"
                         /\ create'[s] = "none" <=> create[s] = "none"
  BY <1>1, <1>2
<1>4. session[batch].st # "deleted" \/ session'[batch] = session[batch]
  <2>1. CASE Create(b)
    BY <1>1, <2>1 DEF Create, Calm, InTurn
  <2>2. CASE CreateFails(b)
    BY <2>2 DEF CreateFails
  <2>3. QED
    BY <2>1, <2>2
<1>5. InTurn'
  BY <1>0, <1>1, <1>2, <1>3 DEF Calm, InTurn
<1>6. SetUp'
  BY <1>0, <1>1, <1>2, <1>3, <1>4 DEF Calm, SetUp, Posted, Present, With
<1>7. Chosen' /\ Graded'
  BY <1>0, <1>3 DEF Calm, Chosen, Graded, Posted, Present, With
<1>8. Saved'
  <2>1. \A s \in Batches : create[s] = "heard" => s # batch /\ session'[s] = session[s]
    BY <1>1, <1>2
  <2>2. QED
    BY <1>0, <1>3, <2>1 DEF Calm, Saved
<1>9. Watched'
  BY <1>0, <1>1, <1>3 DEF Calm, Watched, Posted, Present, With
<1>10. Counted' /\ Current'
  BY <1>0, <1>1, <1>2 DEF Calm, Counted, Current, Posted, With
<1>11. Earlier'
  <2>1. \A s \in Batches : s < batch => session'[s] = session[s]
    BY <1>0, <1>2 DEF Batches
  <2>2. \A s \in Batches : Rows(s)' = Rows(s) /\ GradesFor(s)' = GradesFor(s)
    BY <1>0 DEF Rows, GradesFor
  <2>3. QED
    BY <1>0, <2>1, <2>2 DEF Calm, Earlier, Exists
<1>12. QED
  BY <1>5, <1>6, <1>7, <1>8, <1>9, <1>10, <1>11

LEMMA DeleteCalm ==
    ASSUME Calm, NEW b \in Batches, Delete(b) \/ DeleteFails(b), UNCHANGED pageVars
    PROVE  /\ InTurn' /\ SetUp' /\ Chosen' /\ Graded' /\ Saved'
           /\ Watched' /\ Counted' /\ Current' /\ Earlier'
<1>0. /\ UNCHANGED <<create, finish, shown, batch, rubric, sessionId, subs, nextId, reading,
                     rubricReads, fetch, chosen>>
      /\ ~lost' => ~lost
  BY DEF Delete, DeleteFails, pageVars
<1>1. /\ \A s \in Batches : session'[s] = session[s] \/ (Exists(s) /\ session'[s].st = "deleted")
      /\ \A s \in Batches : s # b => session'[s] = session[s]
      /\ session' = session \/ ~Exists(b)'
  BY DEF Delete, DeleteFails, NoSession, Exists, Calm, TypeOK, StoreTypeOK
<1>2. \A c \in Call : save'[c] = save[c] \/ (save'[c] = NoSave /\ save[c].session = b /\ save[c].st = "stored"
                                             /\ ~Exists(b)')
  BY DEF Delete, DeleteFails, Rows, Exists, NoSession, Calm, TypeOK, StoreTypeOK
<1>3. \A s \in Batches : Exists(s)' => Exists(s) /\ session'[s] = session[s]
  BY <1>1 DEF Exists
<1>4. \A s \in Batches : Exists(s)' => Rows(s)' = Rows(s) /\ GradesFor(s)' = GradesFor(s)
                                       /\ \A c \in Call : save'[c].session = s => save'[c] = save[c]
  <2>1. ASSUME NEW s \in Batches, Exists(s)'
        PROVE  \A c \in Call : save[c].session = s \/ save'[c].session = s => save'[c] = save[c]
    BY <1>2, <2>1 DEF NoSave, Batches
  <2>2. QED
    BY <2>1 DEF Rows, GradesFor
<1>5. InTurn'
  BY <1>0, <1>1 DEF Calm, InTurn, Exists
<1>6. SetUp'
  BY <1>0, <1>1 DEF Calm, SetUp, Posted, Present, With
<1>7. Chosen' /\ Graded' /\ Watched' /\ Counted'
  <2>1. Chosen' /\ Graded'
    BY <1>0 DEF Calm, Chosen, Graded, Posted, Present, With
  <2>2. Watched' /\ Counted'
    BY <1>0, SMTT(60) DEF Calm, Watched, Counted, Posted, Present, With
  <2>3. QED
    BY <2>1, <2>2
<1>8. Saved'
  <2>1. NoSave.st = "none"
    BY DEF NoSave
  <2>2. \A s \in Batches : session'[s].st # "deleted" => session'[s].rubric = session[s].rubric
                                                        /\ session[s].st # "deleted"
    BY <1>1
  <2>3. QED
    BY <1>0, <1>2, <2>1, <2>2 DEF Calm, Saved
<1>9. Current'
  <2>1. \A s \in Batches : session[s].st # "none" => session'[s].st # "none"
    BY <1>1
  <2>2. QED
    BY <1>0, <1>3, <1>4, <2>1 DEF Calm, Current, Posted, With
<1>10. Earlier'
  BY <1>0, <1>3, <1>4 DEF Calm, Earlier
<1>11. QED
  BY <1>5, <1>6, <1>7, <1>8, <1>9, <1>10

LEMMA StoreCalm ==
    ASSUME Calm, StoreStep, UNCHANGED pageVars
    PROVE  Calm'
<1>1. TypeOK' /\ Started' /\ Cancellable'
  BY StepKeeps, StartedKept DEF Calm, Next
<1>2. ASSUME NEW c \in Call, CheckSave(c) \/ InsertSave(c) \/ SaveFails(c)
      PROVE  SaveSteps(c)
  BY <1>2 DEF CheckSave, InsertSave, SaveFails, SaveSteps
<1>3. ASSUME NEW c \in Call, CheckFinish(c) \/ FinishFails(c)
      PROVE  FinishSteps(c)
  BY <1>3 DEF CheckFinish, FinishFails, FinishSteps
<1>4. QED
  BY <1>1, <1>2, <1>3, SaveCalm, FinishCalm, StatsCalm, CreateCalm, DeleteCalm DEF StoreStep, Calm

(* Calls *)

\* No two submissions are the same work
LEMMA WorksDiffer ==
    ASSUME TypeOK, Chosen, NEW S \in SUBSET Present
    PROVE  /\ IsFiniteSet(S)
           /\ Cardinality({subs[i].work : i \in S}) = Cardinality(S)
<1> DEFINE T == {subs[i].work : i \in S}
           f == [i \in S |-> subs[i].work]
<1>1. IsFiniteSet(S)
  <2>1. IsFiniteSet(Ids)
    BY WorksCounted, FS_Interval DEF Ids
  <2>2. S \in SUBSET Ids
    BY DEF Present
  <2>3. QED
    BY <2>1, <2>2, FS_Subset
<1>2. f \in Injection(S, T)
  BY DEF Chosen, Injection, IsInjective
<1>3. f \in Surjection(S, T)
  BY DEF Surjection
<1>4. ExistsBijection(S, T)
  BY <1>2, <1>3 DEF ExistsBijection, Bijection
<1>5. QED
  BY <1>1, <1>4, FS_Bijection

\* Each of the submissions gets exactly one call, the first that is unused
LEMMA GradeLaunches ==
    ASSUME TypeOK, Chosen, NEW ids \in SUBSET Present, Grade(ids)
    PROVE  /\ \A c \in Call :
                \/ fetch'[c] = fetch[c]
                \/ /\ fetch[c].st = "none" /\ fetch'[c].st = "out" /\ fetch'[c].rubric = rubric
                   /\ fetch'[c].id \in ids /\ subs[fetch'[c].id].work = c[1]
           /\ \A c, d \in Call : fetch'[c] # fetch[c] /\ fetch'[d] # fetch[d] /\ c[1] = d[1] => c = d
           /\ \A i \in ids : \E c \in Call : fetch'[c].st = "out" /\ fetch'[c].id = i
<1> DEFINE idOf(w) == CHOOSE i \in ids : subs[i].work = w
           calls == {c \in Call : Unused(c) /\ \E i \in ids : subs[i].work = c[1]}
<1>0. ids \subseteq Ids /\ ids \subseteq Present
  BY DEF Present
<1>1. /\ \A i \in ids : fetch[<<subs[i].work, MaxTries>>].st = "none"
      /\ fetch' = [c \in Call |-> IF c \in calls
                                  THEN [st |-> "out", id |-> idOf(c[1]), rubric |-> rubric]
                                  ELSE fetch[c]]
  BY DEF Grade
<1>2. \A i \in ids : idOf(subs[i].work) \in ids /\ idOf(subs[i].work) = i
  BY <1>0 DEF Chosen
<1>3. \A c \in calls : c \in Call /\ Unused(c) /\ \E i \in ids : subs[i].work = c[1]
  OBVIOUS
<1>4. \A c \in Call, i \in ids : Unused(c) /\ subs[i].work = c[1] => c \in calls
  OBVIOUS
<1> HIDE DEF idOf, calls
<1>5. ASSUME NEW c \in Call
      PROVE  \/ fetch'[c] = fetch[c]
             \/ /\ fetch[c].st = "none" /\ fetch'[c].st = "out" /\ fetch'[c].rubric = rubric
                /\ fetch'[c].id \in ids /\ subs[fetch'[c].id].work = c[1]
  BY <1>1, <1>2, <1>3 DEF Unused
<1>6. ASSUME NEW c \in calls, NEW d \in calls, c[1] = d[1]
      PROVE  c = d
  <2>1. /\ c = <<c[1], c[2]>> /\ c[2] \in 1 .. MaxTries
        /\ d = <<c[1], d[2]>> /\ d[2] \in 1 .. MaxTries
    BY <1>3, <1>6 DEF Call
  <2>2. fetch[<<c[1], c[2]>>].st = "none" /\ fetch[<<c[1], d[2]>>].st = "none"
    BY <1>3, <2>1 DEF Unused
  <2>3. ~(c[2] < d[2])
    BY <1>3, <1>6, <2>1, <2>2, BoundsAssumption DEF Unused
  <2>4. ~(d[2] < c[2])
    BY <1>3, <1>6, <2>1, <2>2, BoundsAssumption DEF Unused
  <2>5. c[2] = d[2]
    BY <2>1, <2>3, <2>4, BoundsAssumption
  <2>6. QED
    BY <2>1, <2>5
<1>7. ASSUME NEW i \in ids
      PROVE  \E c \in Call : fetch'[c].st = "out" /\ fetch'[c].id = i
  <2> DEFINE w == subs[i].work
             Free == {n \in 1 .. MaxTries : fetch[<<w, n>>].st = "none"}
  <2>1. MaxTries \in Free /\ Free \in SUBSET Nat
    BY <1>1, BoundsAssumption
  <2>2. PICK n \in Free : \A m \in Free : n <= m
    <3> HIDE DEF Free
    <3>1. QED
      BY <2>1, LeastElement
  <2>3. w \in Work /\ n \in 1 .. MaxTries
    BY <1>0 DEF Chosen
  <2> DEFINE c == <<w, n>>
  <2>4. c \in Call
    BY <2>3 DEF Call
  <2>5. Unused(c)
    <3>1. ASSUME NEW m \in 1 .. (n - 1), fetch[<<w, m>>].st = "none"
          PROVE  FALSE
      <4>1. m \in 1 .. MaxTries /\ ~(n <= m)
        BY <2>3, BoundsAssumption
      <4>2. QED
        BY <2>2, <3>1, <4>1
    <3>2. fetch[c].st = "none"
      OBVIOUS
    <3>3. QED
      BY <3>1, <3>2 DEF Unused
  <2>6. c \in calls /\ idOf(c[1]) = i
    BY <1>2, <1>4, <2>4, <2>5
  <2>7. fetch'[c].st = "out" /\ fetch'[c].id = i
    BY <1>1, <2>4, <2>6
  <2>8. QED
    BY <2>4, <2>7
<1>8. \A c \in Call : fetch'[c] # fetch[c] => c \in calls
  BY <1>1
<1>9. QED
  BY <1>5, <1>6, <1>7, <1>8

(* The steps that start, make and end calls *)

LEMMA StartNewCalm ==
    ASSUME Calm, Patient, StartNew
    PROVE  Calm'
<1>0. /\ UNCHANGED <<session, create, save, finish, deletes, lost, reading, rubricReads, fetch, chosen>>
      /\ shown' = "setup" /\ batch' = batch + 1 /\ batch \in Nat /\ batch' \in Batches
      /\ rubric' = 0 /\ sessionId' = 0 /\ subs' = [i \in Ids |-> Absent] /\ nextId' = 1
  BY BatchCounted, BoundsAssumption DEF StartNew, storeVars, Calm, Batches
<1>1. TypeOK' /\ Started' /\ Cancellable'
  <2>1. [Next]_vars
    BY DEF Next, PageStep
  <2>2. QED
    BY <2>1, StepKeeps, StartedKept DEF Calm
<1>2. /\ reading = {} /\ rubricReads = {}
      /\ \A b \in Batches : create[b] \notin {"posted", "answered", "failed"}
      /\ \A c \in Call : /\ fetch[c].st # "out" /\ finish[c].st = "none"
                         /\ save[c].st \in {"none", "stored"}
  BY DEF StartNew, MayGoOn, UnderWay, Finishing, Calm, TypeOK, StoreTypeOK
<1>3. \A b \in Batches : create[b] \in {"none", "heard"}
  BY <1>2 DEF Calm, TypeOK, StoreTypeOK
<1>4. ~Posted'
  BY <1>0 DEF Posted, Calm, InTurn
<1>5. InTurn'
  <2>1. \A b \in Batches : b > batch' => b > batch
    BY <1>0 DEF Batches
  <2>2. QED
    BY <1>0, <1>3, <2>1 DEF Calm, InTurn
<1>6. SetUp' /\ Chosen'
  BY <1>0, <1>2, <1>4 DEF SetUp, Chosen, Present, Absent
<1>7. Graded' /\ Watched' /\ Counted' /\ Current'
  BY <1>0, <1>2, <1>4 DEF Graded, Watched, Counted, Current
<1>8. Saved'
  BY <1>0 DEF Calm, Saved, Batches
<1>9. Earlier'
  <2>1. SUFFICES ASSUME ~lost, NEW s \in Batches, s <= batch, Exists(s)
                 PROVE  Rows(s) # {} =>
                          session[s].st \in Written /\ session[s].count = Cardinality(GradesFor(s))
    BY <1>0, <1>2 DEF Earlier, Exists, Rows, GradesFor, Batches
  <2>2. CASE s < batch
    BY <2>1, <2>2 DEF Calm, Earlier
  <2>3. CASE s = batch
    <3>1. create[batch] = "heard" /\ Posted
      BY <1>3, <2>1, <2>3 DEF Calm, InTurn, Exists, Posted
    <3>2. With("grading") = {}
      BY <1>2, <2>1, <3>1 DEF Calm, Watched
    <3>3. /\ GradesFor(batch) = {subs[i].work : i \in With("done")}
          /\ session[batch].st \in Written /\ session[batch].count = Cardinality(With("done"))
      BY <1>2, <2>1, <2>3, <3>1, <3>2 DEF Calm, Current
    <3>4. Cardinality(GradesFor(batch)) = Cardinality(With("done"))
      <4>1. With("done") \in SUBSET Present
        BY DEF With, Present
      <4>2. QED
        BY <3>3, <4>1, WorksDiffer DEF Calm
    <3>5. QED
      BY <2>3, <3>3, <3>4
  <2>4. QED
    BY <1>0, <2>1, <2>2, <2>3 DEF Batches
<1>10. QED
  BY <1>1, <1>5, <1>6, <1>7, <1>8, <1>9 DEF Calm

LEMMA GradeAllCalm ==
    ASSUME Calm, Patient, GradeAll
    PROVE  Calm'
<1>0. /\ UNCHANGED <<save, finish, deletes, lost, batch, rubric, sessionId, nextId, reading, rubricReads,
                     fetch, chosen>>
      /\ shown = "submissions" /\ shown' = "results" /\ Present # {}
      /\ batch \in Batches /\ batch \in Nat /\ rubric = batch
  BY BatchCounted DEF GradeAll, Calm, Started, SetUp
<1>1. TypeOK' /\ Started' /\ Cancellable'
  <2>1. [Next]_vars
    BY DEF Next, PageStep
  <2>2. QED
    BY <2>1, StepKeeps, StartedKept DEF Calm
<1>2. ~Posted
  BY <1>0 DEF Calm, SetUp
<1>3. /\ create[batch] = "none" /\ session[batch].st = "none"
      /\ \A c \in Call : fetch[c].st # "out" /\ finish[c].st = "none"
  BY <1>0, <1>2, NothingYet DEF Calm, Posted, InTurn
<1>4. /\ create'[batch] = "posted" /\ \A b \in Batches : b # batch => create'[b] = create[b]
      /\ session'[batch].rubric = rubric /\ session'[batch].st = session[batch].st
      /\ \A b \in Batches : b # batch => session'[b] = session[b]
  BY <1>0 DEF GradeAll, Calm, TypeOK, StoreTypeOK
<1>5. /\ reading = {} /\ rubricReads = {}
  BY DEF GradeAll, MayGoOn, UnderWay
<1>6. /\ \A i \in Ids : subs'[i].work = subs[i].work
      /\ \A i \in Ids : subs'[i].st = IF i \in Present THEN "grading" ELSE "absent"
  <2>1. Present \subseteq With("pending")
    BY <1>2 DEF Calm, SetUp
  <2>2. \A i \in Ids : subs[i].st \in {"absent", "pending"}
    BY <2>1 DEF Present, With
  <2>3. \A i \in Ids : subs'[i] = IF subs[i].st = "absent" THEN subs[i]
                                  ELSE [subs[i] EXCEPT !.st = "grading"]
    BY <2>2 DEF GradeAll
  <2>4. QED
    BY <2>2, <2>3 DEF Present, Calm, TypeOK
<1>7. With("pending")' = {} /\ With("done")' = {} /\ With("grading")' # {} /\ Present' = Present
      /\ Present' = With("grading")'
  BY <1>0, <1>6 DEF With, Present
<1>8. InTurn'
  <2>1. sessionId' = 0
    BY <1>0, <1>3 DEF Calm, InTurn
  <2>2. \A b \in Batches : b > batch' => create'[b] = "none"
    BY <1>0, <1>4 DEF Calm, InTurn, Batches
  <2>3. QED
    BY <1>0, <1>3, <1>4, <2>1, <2>2 DEF Calm, InTurn
<1>9. SetUp'
  BY <1>0, <1>4, <1>5, <1>7 DEF Calm, SetUp, Posted
<1>10. Chosen'
  <2>1. \A i \in Present : i \in Ids
    BY DEF Present
  <2>2. QED
    BY <1>0, <1>6, <1>7, <2>1 DEF Calm, Chosen
<1>11. Graded' /\ Watched' /\ Counted' /\ Current'
  BY <1>0, <1>3, <1>4, <1>7 DEF Graded, Watched, Counted, Current, Posted
<1>12. Saved'
  <2>1. \A s \in Batches : create[s] = "heard" => create'[s] = "heard" /\ session'[s] = session[s]
    BY <1>3, <1>4
  <2>2. QED
    BY <1>0, <2>1 DEF Calm, Saved
<1>13. Earlier'
  <2>1. \A s \in Batches : s < batch => session'[s] = session[s]
    BY <1>0, <1>4 DEF Batches
  <2>2. \A s \in Batches : Rows(s)' = Rows(s) /\ GradesFor(s)' = GradesFor(s)
    BY <1>0 DEF Rows, GradesFor
  <2>3. QED
    BY <1>0, <2>1, <2>2 DEF Calm, Earlier, Exists
<1>14. QED
  BY <1>1, <1>8, <1>9, <1>10, <1>11, <1>12, <1>13 DEF Calm

LEMMA CreatedCalm ==
    ASSUME Calm, NEW b \in Batches, SessionCreated(b)
    PROVE  Calm'
<1>0. /\ UNCHANGED <<session, save, finish, deletes, lost, shown, batch, rubric, subs, nextId, reading,
                     rubricReads, chosen>>
      /\ b = batch /\ create[batch] \in {"answered", "failed"} /\ batch \in Batches
  BY DEF SessionCreated, Calm, InTurn
<1>1. TypeOK' /\ Started' /\ Cancellable'
  <2>1. [Next]_vars
    BY DEF Next, PageStep
  <2>2. QED
    BY <2>1, StepKeeps, StartedKept DEF Calm
<1>2. /\ create'[batch] = "heard" /\ \A s \in Batches : s # batch => create'[s] = create[s]
      /\ create[batch] = "answered" => sessionId' = batch
      /\ create[batch] = "failed" => sessionId' = sessionId
  BY <1>0 DEF SessionCreated, Calm, TypeOK, StoreTypeOK
<1>3. Posted /\ Posted'
  BY <1>0, <1>2 DEF Posted
<1>4. \A c \in Call : fetch[c].st # "out" /\ finish[c].st = "none"
  BY <1>0 DEF Calm, Graded, Counted, InTurn, Batches
<1>5. /\ \A c \in Call : fetch'[c].st = "out" =>
            /\ fetch[c].st = "none" /\ fetch'[c].rubric = rubric
            /\ fetch'[c].id \in With("grading") /\ subs[fetch'[c].id].work = c[1]
      /\ \A c, d \in Call : fetch'[c].st = "out" /\ fetch'[d].st = "out" /\ c[1] = d[1] => c = d
      /\ \A i \in With("grading") : \E c \in Call : fetch'[c].st = "out" /\ fetch'[c].id = i
      /\ \A c \in Call : fetch[c].st = "over" => fetch'[c].st = "over"
  <2>1. Grade(With("grading")) /\ With("grading") \in SUBSET Present
    BY DEF SessionCreated, With, Present
  <2>2. QED
    BY <1>4, <2>1, GradeLaunches DEF Calm
<1>6. InTurn' /\ SetUp'
  <2>1. InTurn'
    BY <1>0, <1>2 DEF Calm, InTurn
  <2>2. SetUp'
    BY <1>0, <1>3 DEF Calm, SetUp, Present, With
  <2>3. QED
    BY <2>1, <2>2
<1>7. Chosen' /\ Graded'
  BY <1>0, <1>2, <1>3, <1>5 DEF Calm, Chosen, Graded, Present, With
<1>8. Saved'
  BY <1>0, <1>2, <1>5 DEF Calm, Saved
<1>9. Watched' /\ Counted'
  BY <1>0, <1>2, <1>4, <1>5 DEF Watched, Counted, With
<1>10. Current'
  <2>1. SUFFICES ASSUME ~lost
                 PROVE  /\ sessionId' = batch /\ session[batch].st # "none"
                        /\ Exists(batch) => GradesFor(batch) = {subs[i].work : i \in With("done")}
                        /\ With("grading") # {}
    <3>1. With("done")' = With("done") /\ With("grading")' = With("grading")
          /\ GradesFor(batch)' = GradesFor(batch) /\ (Exists(batch)' <=> Exists(batch))
      BY <1>0 DEF With, GradesFor, Exists
    <3>2. {subs[i].work : i \in With("done")}' = {subs[i].work : i \in With("done")}
      BY <1>0, <3>1
    <3>3. QED
      BY <1>0, <1>2, <3>1, <3>2 DEF Current
  <2>2. create[batch] = "answered" /\ session[batch].st # "none"
    BY <1>0, <1>3, <2>1 DEF Calm, Current
  <2>3. With("grading") # {}
    BY <1>0, <1>3 DEF Calm, Watched
  <2>4. With("done") = {}
    BY <1>0, <1>3 DEF Calm, Watched, With, Present
  <2>5. GradesFor(batch) = {}
    BY <1>0 DEF Calm, Saved, GradesFor
  <2>6. QED
    BY <1>2, <2>2, <2>3, <2>4, <2>5
<1>11. Earlier'
  BY <1>0 DEF Calm, Earlier, Exists, Rows, GradesFor
<1>12. QED
  BY <1>1, <1>6, <1>7, <1>8, <1>9, <1>10, <1>11 DEF Calm

LEMMA RetryCalm ==
    ASSUME Calm, Patient, NEW i \in Ids, RetrySubmission(i)
    PROVE  Calm'
<1>0. /\ UNCHANGED <<session, create, save, finish, deletes, lost, shown, batch, rubric, sessionId,
                     nextId, reading, rubricReads, chosen>>
      /\ subs[i].st = "error" /\ i \in Present /\ i \notin With("grading")
  BY DEF RetrySubmission, storeVars, Present, With
<1>1. TypeOK' /\ Started' /\ Cancellable'
  <2>1. [Next]_vars
    BY DEF Next, PageStep
  <2>2. QED
    BY <2>1, StepKeeps, StartedKept DEF Calm
<1>2. Posted /\ Posted' /\ create[batch] = "heard"
  <2>1. Posted /\ Posted'
    BY <1>0 DEF RetrySubmission, Calm, SetUp, Posted
  <2>2. QED
    BY <1>0, <2>1 DEF Calm, Watched
<1>3. \A c \in Call : finish[c].st = "none"
  BY DEF RetrySubmission, Finishing, Calm, TypeOK, StoreTypeOK
<1>4. /\ \A j \in Ids : subs'[j].work = subs[j].work /\ (j # i => subs'[j].st = subs[j].st)
      /\ subs'[i].st = "grading"
  BY DEF RetrySubmission, Calm, TypeOK
<1>5. /\ Present' = Present /\ With("grading")' = With("grading") \cup {i}
      /\ With("done")' = With("done") /\ With("pending")' = With("pending")
  BY <1>0, <1>4 DEF With, Present
<1>6. /\ \A c \in Call :
            \/ fetch'[c] = fetch[c]
            \/ /\ fetch[c].st = "none" /\ fetch'[c].st = "out" /\ fetch'[c].rubric = rubric
               /\ fetch'[c].id = i /\ subs[i].work = c[1]
      /\ \A c, d \in Call : fetch'[c] # fetch[c] /\ fetch'[d] # fetch[d] /\ c[1] = d[1] => c = d
      /\ \E c \in Call : fetch'[c].st = "out" /\ fetch'[c].id = i
  <2>1. Grade({i}) /\ {i} \in SUBSET Present
    BY <1>0 DEF RetrySubmission
  <2>2. QED
    BY <2>1, GradeLaunches DEF Calm
<1>7. \A c \in Call : fetch[c].st = "out" => subs[i].work # c[1]
  BY <1>0 DEF Calm, Graded, Chosen, With, Present
<1>8. InTurn' /\ Earlier'
  BY <1>0 DEF Calm, InTurn, Earlier, Exists, Rows, GradesFor
<1>9. SetUp'
  BY <1>0, <1>2, <1>5 DEF Calm, SetUp
<1>10. Chosen'
  <2>1. Present \subseteq Ids
    BY DEF Present
  <2>2. QED
    BY <1>0, <1>4, <1>5, <2>1 DEF Calm, Chosen
<1>11. Graded'
  <2>1. ASSUME NEW c \in Call, fetch'[c].st = "out"
        PROVE  /\ fetch'[c].id \in With("grading")' /\ subs'[fetch'[c].id].work = c[1]
               /\ fetch'[c].rubric = rubric
               /\ \A d \in Call : fetch'[d].st = "out" /\ d[1] = c[1] => d = c
    <3>1. CASE fetch'[c] = fetch[c]
      <4>1. /\ fetch[c].st = "out" /\ fetch[c].id \in With("grading") /\ subs[fetch[c].id].work = c[1]
            /\ fetch[c].rubric = rubric /\ \A d \in Call : fetch[d].st = "out" /\ d[1] = c[1] => d = c
        BY <2>1, <3>1 DEF Calm, Graded
      <4>2. fetch[c].id \in Ids
        BY <4>1 DEF With
      <4>3. QED
        BY <1>4, <1>5, <1>6, <1>7, <3>1, <4>1, <4>2
    <3>2. CASE fetch'[c] # fetch[c]
      <4>1. fetch'[c].id = i /\ subs[i].work = c[1] /\ fetch'[c].rubric = rubric
        BY <1>6, <3>2
      <4>2. \A d \in Call : fetch'[d].st = "out" /\ d[1] = c[1] => fetch'[d] # fetch[d]
        BY <1>7, <4>1
      <4>3. QED
        BY <1>4, <1>5, <1>6, <3>2, <4>1, <4>2
    <3>3. QED
      BY <3>1, <3>2
  <2>2. QED
    BY <1>0, <1>2, <2>1 DEF Graded
<1>12. Saved'
  BY <1>0, <1>6 DEF Calm, Saved
<1>13. Watched'
  <2>1. \A c \in Call : fetch[c].st = "out" => fetch'[c] = fetch[c]
    BY <1>6
  <2>2. QED
    BY <1>0, <1>2, <1>5, <1>6, <2>1 DEF Calm, Watched
<1>14. Counted'
  BY <1>0, <1>3 DEF Counted
<1>15. Current'
  <2>1. {subs[j].work : j \in With("done")}' = {subs[j].work : j \in With("done")}
    <3>1. With("done") \subseteq Ids
      BY DEF With
    <3>2. QED
      BY <1>4, <1>5, <3>1
  <2>2. GradesFor(batch)' = GradesFor(batch) /\ (Exists(batch)' <=> Exists(batch))
    BY <1>0 DEF GradesFor, Exists
  <2>3. With("grading")' # {}
    BY <1>5
  <2>4. QED
    BY <1>0, <1>2, <2>1, <2>2, <2>3 DEF Calm, Current
<1>16. QED
  BY <1>1, <1>8, <1>9, <1>10, <1>11, <1>12, <1>13, <1>14, <1>15 DEF Calm

LEMMA LeaveCalm ==
    ASSUME Calm, Leave
    PROVE  Calm'
<1>0. /\ UNCHANGED <<session, create, save, finish, deletes, batch, rubric, sessionId, subs, nextId,
                     reading, rubricReads, chosen>>
      /\ shown' = "away" /\ (~lost' => ~lost /\ controllers = {})
  BY DEF Leave
<1>1. TypeOK' /\ Started' /\ Cancellable'
  <2>1. [Next]_vars
    BY DEF Next, PageStep
  <2>2. QED
    BY <2>1, StepKeeps, StartedKept DEF Calm
<1>2. \A c \in Call : fetch'[c].st # "out" /\ (fetch[c].st = "over" => fetch'[c].st = "over")
  BY DEF Leave, NoFetch, Calm, Cancellable
<1>3. ~lost' => \A c \in Call : fetch'[c] = fetch[c]
  BY <1>0 DEF Leave
<1>4. InTurn' /\ SetUp' /\ Chosen'
  BY <1>0 DEF Calm, InTurn, SetUp, Chosen, Posted, Present, With
<1>5. Graded' /\ Saved'
  BY <1>0, <1>2 DEF Calm, Graded, Saved
<1>6. Watched'
  BY <1>0, <1>3 DEF Calm, Watched, Posted, Present, With
<1>7. Counted' /\ Earlier'
  <2>1. Counted'
    BY <1>0 DEF Calm, Counted, With
  <2>2. Earlier'
    BY <1>0 DEF Calm, Earlier, Exists, Rows, GradesFor
  <2>3. QED
    BY <2>1, <2>2
<1>8. Current'
  BY <1>0 DEF Calm, Current, With, Exists, GradesFor, Posted
<1>9. QED
  BY <1>1, <1>4, <1>5, <1>6, <1>7, <1>8 DEF Calm

LEMMA DeleteSentCalm ==
    ASSUME Calm, NEW b \in Batches, DeleteSession(b)
    PROVE  Calm'
<1>0. UNCHANGED <<session, create, save, finish, lost, pageVars>>
  BY DEF DeleteSession
<1>1. TypeOK' /\ Started' /\ Cancellable'
  <2>1. [Next]_vars
    BY DEF Next, PageStep
  <2>2. QED
    BY <2>1, StepKeeps, StartedKept DEF Calm
<1>2. InTurn' /\ SetUp' /\ Chosen'
  BY <1>0 DEF pageVars, Calm, InTurn, SetUp, Chosen, Posted, Present, With
<1>3. Graded' /\ Saved'
  BY <1>0 DEF pageVars, Calm, Graded, Saved, Posted, With
<1>4. Watched' /\ Counted'
  BY <1>0 DEF pageVars, Calm, Watched, Counted, Posted, Present, With
<1>5. Current' /\ Earlier'
  <2>1. Current'
    BY <1>0, ZenonT(60) DEF pageVars, Calm, Current, With, Exists, GradesFor, Posted
  <2>2. Earlier'
    BY <1>0 DEF pageVars, Calm, Earlier, Exists, Rows, GradesFor
  <2>3. QED
    BY <2>1, <2>2
<1>6. QED
  BY <1>1, <1>2, <1>3, <1>4, <1>5 DEF Calm

LEMMA OutcomeCalm ==
    ASSUME Calm, NEW c \in Call, NEW ok \in BOOLEAN, Outcome(c, ok)
    PROVE  Calm'
<1> DEFINE i == fetch[c].id
<1>0. /\ UNCHANGED <<session, create, deletes, lost, shown, batch, rubric, sessionId, nextId, reading,
                     rubricReads, chosen>>
      /\ fetch[c].st = "out"
      /\ fetch'[c].st = "over" /\ \A d \in Call : d # c => fetch'[d] = fetch[d]
  BY DEF Outcome, NoFetch, Calm, TypeOK
<1>1. TypeOK' /\ Started' /\ Cancellable'
  <2>1. [Next]_vars
    BY DEF Next, PageStep
  <2>2. QED
    BY <2>1, StepKeeps, StartedKept DEF Calm
<1>2. /\ Posted /\ create[batch] = "heard" /\ batch \in Batches /\ batch \in Nat
      /\ i \in With("grading") /\ subs[i].work = c[1] /\ fetch[c].rubric = rubric
      /\ \A d \in Call : fetch[d].st = "out" /\ d[1] = c[1] => d = c
  BY <1>0, BatchCounted DEF Calm, Graded, Posted
<1>3. i \in Ids /\ i \in Present /\ Found(c) = {i}
  BY <1>2 DEF With, Present, Found
<1>4. /\ subs' = [subs EXCEPT ![i].st = IF ok THEN "done" ELSE "error"]
      /\ SaveResult(c, i, ok) /\ CheckAllDone(c)
  BY <1>3 DEF Outcome
<1>5. /\ \A j \in Ids : subs'[j].work = subs[j].work /\ (j # i => subs'[j].st = subs[j].st)
      /\ subs'[i].st = IF ok THEN "done" ELSE "error"
  BY <1>3, <1>4 DEF Calm, TypeOK
<1>6. /\ Present' = Present /\ With("grading")' = With("grading") \ {i}
      /\ With("done")' = With("done") \cup (IF ok THEN {i} ELSE {})
      /\ With("pending")' = With("pending")
  BY <1>2, <1>3, <1>5 DEF With, Present
<1>7. /\ save[c] = NoSave /\ \A d \in Call : d # c => save'[d] = save[d]
      /\ sessionId = 0 => save'[c] = NoSave
      /\ sessionId # 0 => save'[c] = [st |-> "posted", session |-> batch, work |-> c[1],
                                      rubric |-> rubric, ok |-> ok]
  <2>1. save[c] = NoSave
    BY <1>0 DEF Calm, Saved
  <2>2. sessionId \in {0, batch}
    BY DEF Calm, InTurn
  <2>3. save' = IF sessionId = 0 THEN save
                ELSE [save EXCEPT ![c] = [st |-> "posted", session |-> sessionId, work |-> c[1],
                                          rubric |-> rubric, ok |-> ok]]
    BY <1>2, <1>4 DEF SaveResult
  <2>4. QED
    BY <2>1, <2>2, <2>3 DEF Calm, TypeOK, StoreTypeOK
<1>8. /\ \A d \in Call : finish[d].st = "none" /\ (d # c => finish'[d] = finish[d])
      /\ finish'[c].st # "none" =>
            /\ finish'[c].session = batch /\ sessionId = batch
            /\ With("grading")' = {} /\ finish'[c].count = Cardinality(With("done")')
      /\ sessionId # 0 /\ With("grading")' = {} => finish'[c].st # "none"
  <2>1. \A d \in Call : finish[d].st = "none"
    BY <1>2 DEF Calm, Counted
  <2>2. sessionId \in {0, batch}
    BY DEF Calm, InTurn
  <2>3. With("pending")' = {}
    BY <1>2, <1>6 DEF Calm, SetUp
  <2>4. finish' = IF sessionId # 0 /\ With("grading")' = {}
                  THEN [finish EXCEPT ![c] = [st |-> "posted", session |-> sessionId,
                                              count |-> Cardinality(With("done")')]]
                  ELSE finish
    BY <1>4, <2>3 DEF CheckAllDone, With
  <2>5. QED
    BY <2>1, <2>2, <2>4 DEF Calm, TypeOK, StoreTypeOK
<1> HIDE DEF i
<1>9. InTurn' /\ SetUp'
  BY <1>0, <1>6 DEF Calm, InTurn, SetUp, Posted
<1>10. Chosen'
  <2>1. Present \subseteq Ids
    BY DEF Present
  <2>2. QED
    BY <1>0, <1>5, <1>6, <2>1 DEF Calm, Chosen
<1>11. Graded'
  <2>1. ASSUME NEW d \in Call, fetch'[d].st = "out"
        PROVE  /\ fetch'[d].id \in With("grading")' /\ subs'[fetch'[d].id].work = d[1]
               /\ fetch'[d].rubric = rubric
               /\ \A e \in Call : fetch'[e].st = "out" /\ e[1] = d[1] => e = d
    <3>1. d # c /\ fetch'[d] = fetch[d]
      BY <1>0, <2>1
    <3>2. /\ fetch[d].st = "out" /\ fetch[d].id \in With("grading") /\ subs[fetch[d].id].work = d[1]
          /\ fetch[d].rubric = rubric /\ \A e \in Call : fetch[e].st = "out" /\ e[1] = d[1] => e = d
      BY <2>1, <3>1 DEF Calm, Graded
    <3>3. fetch[d].id # i
      BY <1>2, <3>1, <3>2
    <3>4. fetch[d].id \in Ids
      BY <3>2 DEF With
    <3>5. \A e \in Call : fetch'[e].st = "out" => fetch[e].st = "out"
      BY <1>0
    <3>6. QED
      BY <1>5, <1>6, <3>1, <3>2, <3>3, <3>4, <3>5
  <2>2. Posted' /\ create'[batch'] = "heard"
    BY <1>0, <1>2 DEF Posted
  <2>3. QED
    BY <1>0, <2>1, <2>2 DEF Graded
<1>12. Saved'
  <2>1. chosen[c[1]] = batch /\ (session[batch].st # "deleted" => session[batch].rubric = rubric)
    BY <1>2, <1>3 DEF Calm, Chosen, SetUp
  <2>2. ASSUME NEW d \in Call, d # c
        PROVE  Saved!(d)'
    BY <1>0, <1>7, <2>2 DEF Calm, Saved
  <2>3. Saved!(c)'
    <3>1. NoSave.st = "none"
      BY DEF NoSave
    <3>2. CASE sessionId = 0
      BY <1>0, <1>7, <3>1, <3>2
    <3>3. CASE sessionId # 0
      <4>1. /\ save'[c].work = c[1] /\ save'[c].session = batch /\ save'[c].rubric = rubric
        BY <1>7, <3>3
      <4>2. fetch'[c].st = "over" /\ batch <= batch
        BY <1>0, <1>2
      <4>3. QED
        BY <1>0, <1>2, <2>1, <4>1, <4>2
    <3>4. QED
      BY <3>2, <3>3
  <2>4. QED
    BY <2>2, <2>3 DEF Saved
<1>13. Watched'
  <2>1. ASSUME NEW j \in With("grading"), j # i, NEW d \in Call, fetch[d].st = "out", fetch[d].id = j
        PROVE  fetch'[d].st = "out" /\ fetch'[d].id = j
    BY <1>0, <2>1 DEF i
  <2>2. QED
    BY <1>0, <1>2, <1>6, <2>1 DEF Calm, Watched, Posted
<1>14. Counted'
  BY <1>0, <1>2, <1>8 DEF Counted
<1>15. Current'
  <2>1. SUFFICES ASSUME ~lost
                 PROVE  /\ sessionId = batch /\ session[batch].st # "none"
                        /\ Exists(batch) => GradesFor(batch)' = {subs'[j].work : j \in With("done")'}
                        /\ With("grading")' = {} => finish'[c].st # "none"
    BY <1>0, <1>2 DEF Current, Exists
  <2>2. /\ sessionId = batch /\ session[batch].st # "none" /\ batch # 0
        /\ Exists(batch) => GradesFor(batch) = {subs[j].work : j \in With("done")}
    BY <1>2, <2>1 DEF Calm, Current, Batches
  <2>3. {subs'[j].work : j \in With("done")'}
            = {subs[j].work : j \in With("done")} \cup (IF ok THEN {c[1]} ELSE {})
    <3>1. With("done") \subseteq Ids
      BY DEF With
    <3>2. QED
      BY <1>2, <1>3, <1>5, <1>6, <3>1
  <2>4. GradesFor(batch)' = GradesFor(batch) \cup (IF ok THEN {c[1]} ELSE {})
    <3>1. NoSave.st = "none"
      BY DEF NoSave
    <3>2. /\ save[c].st = "none" /\ save'[c].st # "none" /\ save'[c].session = batch
          /\ save'[c].work = c[1] /\ save'[c].ok = ok
      BY <1>7, <2>2, <3>1
    <3>3. QED
      BY <1>0, <1>7, <3>2 DEF GradesFor
  <2>5. QED
    BY <1>8, <2>2, <2>3, <2>4
<1>16. Earlier'
  <2>1. \A s \in Batches : s < batch => save[c].session # s /\ save'[c].session # s
    BY <1>2, <1>7 DEF NoSave, Batches
  <2>2. \A s \in Batches : s < batch => Rows(s)' = Rows(s) /\ GradesFor(s)' = GradesFor(s)
    BY <1>7, <2>1 DEF Rows, GradesFor
  <2>3. QED
    BY <1>0, <1>7, <2>1, <2>2 DEF Calm, Earlier, Exists
<1>17. QED
  BY <1>1, <1>9, <1>10, <1>11, <1>12, <1>13, <1>14, <1>15, <1>16 DEF Calm

(***************************************************************************)
(* Results, statistics and the queue, for a user who waits                 *)
(***************************************************************************)

LEMMA InitCalm == Init => Calm
<1> SUFFICES ASSUME Init
             PROVE  Calm
  OBVIOUS
<1>1. TypeOK /\ Started /\ Cancellable
  BY InitHolds
<1>2. /\ batch = 0 /\ sessionId = 0 /\ rubric = 0 /\ rubricReads = {} /\ reading = {}
      /\ shown = "history" /\ Present = {} /\ ~Posted
      /\ \A b \in Batches : create[b] = "none" /\ session[b].st = "none"
      /\ \A c \in Call : /\ fetch[c].st = "none" /\ save[c] = NoSave /\ save[c].st = "none"
                         /\ finish[c].st = "none"
  BY BoundsAssumption DEF Init, StoreInit, Present, Absent, Posted, Batches, NoSession, NoFetch,
                          NoSave, NoFinish
<1>3. InTurn /\ SetUp /\ Chosen /\ Graded /\ Saved
  BY <1>2 DEF InTurn, SetUp, Chosen, Graded, Saved
<1>4. Watched /\ Counted /\ Current /\ Earlier
  BY <1>2 DEF Watched, Counted, Current, Earlier, Exists
<1>5. QED
  BY <1>1, <1>3, <1>4 DEF Calm

LEMMA StepCalm ==
    ASSUME Patient, Calm, [Next]_vars
    PROVE  Calm'
<1>1. CASE Setup
  BY <1>1, SetupCalm
<1>2. CASE StartNew \/ GradeAll \/ Leave
  BY <1>2, StartNewCalm, GradeAllCalm, LeaveCalm
<1>3. ASSUME NEW i \in Ids, RetrySubmission(i)
      PROVE  Calm'
  BY <1>3, RetryCalm
<1>4. ASSUME NEW b \in Batches, SessionCreated(b) \/ DeleteSession(b)
      PROVE  Calm'
  BY <1>4, CreatedCalm, DeleteSentCalm
<1>5. ASSUME NEW c \in Call, NEW ok \in BOOLEAN, Outcome(c, ok)
      PROVE  Calm'
  BY <1>5, OutcomeCalm
<1>6. CASE StoreStep /\ UNCHANGED pageVars
  BY <1>6, StoreCalm
<1>7. CASE UNCHANGED vars
  <2>1. TypeOK' /\ Started' /\ Cancellable'
    BY StepKeeps, StartedKept DEF Calm
  <2>2. InTurn' /\ SetUp' /\ Chosen' /\ Graded' /\ Saved'
    BY <1>7 DEF vars, storeVars, pageVars, Calm, InTurn, SetUp, Chosen, Graded, Saved, Posted, Present,
                With
  <2>3. Watched' /\ Counted'
    BY <1>7 DEF vars, storeVars, pageVars, Calm, Watched, Counted, Posted, Present, With
  <2>4. Current'
    BY <1>7, ZenonT(60) DEF vars, storeVars, pageVars, Calm, Current, With, Exists, GradesFor, Posted
  <2>5. Earlier'
    <3>1. UNCHANGED <<session, save, lost, batch>>
      BY <1>7 DEF vars, storeVars, pageVars
    <3>2. \A s \in Batches : /\ Rows(s)' = Rows(s) /\ GradesFor(s)' = GradesFor(s)
                             /\ Exists(s)' <=> Exists(s)
      BY <3>1 DEF Rows, GradesFor, Exists
    <3>3. QED
      BY <3>1, <3>2 DEF Calm, Earlier
  <2>6. QED
    BY <2>1, <2>2, <2>3, <2>4, <2>5 DEF Calm
<1>8. QED
  BY <1>1, <1>2, <1>3, <1>4, <1>5, <1>6, <1>7 DEF Next, PageStep, Setup

\* For a user who waits, whatever fails
LEMMA PatientCalm == Spec => [](Patient => Calm)
<1>1. Init => (Patient => Calm)
  BY InitCalm
<1>2. (Patient => Calm) /\ [Next]_vars => (Patient => Calm)'
  BY StepCalm
<1>3. QED
  BY <1>1, <1>2, PTL DEF Spec

\* saveResultToBackend: for a user who waits, a result is saved for the work
\* that was graded, in the session of the batch it was chosen for and with
\* the rubric on record, whatever is retried, lost, deleted or left.
THEOREM ResultsAreOwn == Spec => []OwnResults
<1>1. (Patient => Calm) => OwnResults
  BY DEF Calm, Saved, OwnResults, Rows, Exists
<1>2. QED
  BY <1>1, PatientCalm, PTL

\* checkAllDone: for a user who waits and if no request fails, a session at
\* rest is finished and counts the students that it has a grade for.
THEOREM StatsAreTrue == Spec => []StatsTrue
<1>1. ASSUME Calm, ~lost, AtRest, NEW s \in Batches, Exists(s), Rows(s) # {}
      PROVE  /\ session[s].st \in Written
             /\ session[s].count = Cardinality({save[c].work : c \in {d \in Rows(s) : save[d].ok}})
  <2>1. /\ \A b \in Batches : create[b] \in {"none", "heard"}
        /\ \A c \in Call : /\ fetch[c].st # "out" /\ finish[c].st = "none"
                           /\ save[c].st \in {"none", "stored"}
    BY <1>1 DEF AtRest, UnderWay, Finishing, Calm, TypeOK, StoreTypeOK
  <2>2. GradesFor(s) = {save[c].work : c \in {d \in Rows(s) : save[d].ok}}
    BY <2>1 DEF GradesFor, Rows
  <2>3. s <= batch /\ create[s] = "heard"
    BY <1>1 DEF Rows, Calm, Saved
  <2>4. CASE s = batch
    <3>1. Posted
      BY <2>3, <2>4 DEF Posted
    <3>2. With("grading") = {}
      BY <1>1, <2>1, <2>3, <2>4, <3>1 DEF Calm, Watched
    <3>3. /\ GradesFor(batch) = {subs[i].work : i \in With("done")}
          /\ session[batch].st \in Written /\ session[batch].count = Cardinality(With("done"))
      BY <1>1, <2>1, <2>3, <2>4, <3>1, <3>2 DEF Calm, Current
    <3>4. Cardinality(GradesFor(batch)) = Cardinality(With("done"))
      <4>1. With("done") \in SUBSET Present
        BY DEF With, Present
      <4>2. QED
        BY <1>1, <3>3, <4>1, WorksDiffer DEF Calm
    <3>5. QED
      BY <2>2, <2>4, <3>3, <3>4
  <2>5. CASE s # batch
    <3>1. s < batch
      BY <1>1, <2>3, <2>5, BatchCounted DEF Calm, Batches
    <3>2. QED
      BY <1>1, <2>2, <3>1 DEF Calm, Earlier
  <2>6. QED
    BY <2>4, <2>5
<1>2. (Patient => Calm) => StatsTrue
  BY <1>1 DEF StatsTrue
<1>3. QED
  BY <1>2, PatientCalm, PTL

\* gradeAll and checkAllDone: for a user who waits, nothing in the results
\* panel stays pending or grading once nothing is under way, after a failure
\* to create the session too.
THEOREM QueueIsGraded == Spec => []QueuedAreGraded
<1>1. ASSUME Calm, AtRest, shown = "results"
      PROVE  With("pending") \cup With("grading") = {}
  <2>1. Posted /\ With("pending") = {}
    BY <1>1 DEF Calm, SetUp
  <2>2. create[batch] = "heard" /\ \A c \in Call : fetch[c].st # "out"
    BY <1>1, <2>1 DEF AtRest, UnderWay, Posted, Calm, TypeOK, StoreTypeOK
  <2>3. With("grading") = {}
    BY <1>1, <2>1, <2>2 DEF Calm, Watched
  <2>4. QED
    BY <2>1, <2>3
<1>2. (Patient => Calm) => QueuedAreGraded
  BY <1>1 DEF QueuedAreGraded
<1>3. QED
  BY <1>2, PatientCalm, PTL
=============================================================================
