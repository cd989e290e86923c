-------------------------- MODULE CodingPageProofs --------------------------
(***************************************************************************)
(* Proofs about CodingPage, for any number of projects and of requests     *)
(* under way: first of what holds whether or not the user waits, then of   *)
(* what a user who waits is promised.                                      *)
(***************************************************************************)
EXTENDS CodingPage, TLAPS

LEMMA ReqTypes ==
    ASSUME TypeOK
    PROVE  /\ Free \in Req /\ Nothing \in [Project -> Row]
           /\ \A st \in {"none", "pending", "deleted"} : NoRow(st) \in Row
           /\ \A r \in Request : Created(r) \in Row
  BY DEF Free, Req, Nothing, NoRow, Row, Created

\* What a step of request r does to the requests: it stays the same request,
\* at another place, and the others stay
Moves(r, at) ==
    /\ req' \in [Request -> Req]
    /\ \A q \in Request \ {r} : req'[q] = req[q]
    /\ req'[r].kind = req[r].kind /\ req'[r].of = req[r].of /\ req'[r].at = at

LEMMA AnswersMoves ==
    ASSUME TypeOK, NEW r \in Request, NEW list \in [Project -> Row],
           NEW at \in {"found", "inspecting", "answered"}, Answers(r, at, list)
    PROVE  Moves(r, at)
<1>1. req[r] \in Req
  BY DEF TypeOK, StoreTypeOK
<1>2. [req[r] EXCEPT !.at = at, !.seen = list] \in Req
  BY <1>1 DEF Req
<1>3. QED
  BY <1>1, <1>2 DEF Answers, Moves, TypeOK, StoreTypeOK, Req

LEMMA SeesMoves ==
    ASSUME TypeOK, NEW r \in Request, NEW p \in Project, NEW what \in Row,
           NEW at \in {"found", "inspecting", "answered"}, Sees(r, p, what, at)
    PROVE  Moves(r, at)
<1>1. [Nothing EXCEPT ![p] = what] \in [Project -> Row]
  BY ReqTypes
<1>2. QED
  BY <1>1, AnswersMoves DEF Sees

LEMMA GoesMoves ==
    ASSUME TypeOK, NEW r \in Request,
           NEW at \in {"keyed", "inserted", "ran", "notRun", "removing", "deleting",
                       "exited", "answered"},
           Goes(r, at)
    PROVE  Moves(r, at)
  BY SMTT(60) DEF Goes, Moves, TypeOK, StoreTypeOK, Req

LEMMA EndsTypes ==
    ASSUME TypeOK, NEW r \in Request, Ends(r)
    PROVE  /\ req' \in [Request -> Req] /\ req'[r] = Free
           /\ \A q \in Request \ {r} : req'[q] = req[q]
  BY ReqTypes DEF Ends, TypeOK, StoreTypeOK

(***************************************************************************)
(* Strengthening of RowsTrue.  A create finds the row as it has left it,   *)
(* unless it has been deleted: no other request changes a row that is      *)
(* pending.                                                                *)
(***************************************************************************)

CreateOK(r) ==
    LET p == req[r].of IN
    req[r].kind = "create" =>
        /\ req[r].at \in {"posted", "keyed"} => row[p] = NoRow("none")
        /\ req[r].at \in {"inserted", "ran", "notRun"} => row[p] \in {NoRow("pending"), NoRow("deleted")}
        /\ req[r].at = "ran" => box[p] # "none"

\* A status request that has found the project running, and one that has found
\* its container to have ended
StatusOK(r) ==
    LET p == req[r].of IN
    /\ At(r, "status", "inspecting") => row[p].st \in {"running", "done", "deleted"}
    /\ At(r, "status", "exited") =>
        \/ row[p].st = "deleted"
        \/ row[p].st \in {"running", "done"} /\ box[p] \in {"exited", "removed"}

OneCreate ==
    \A r, s \in Request :
        req[r].kind = "create" /\ req[s].kind = "create" /\ req[r].of = req[s].of => r = s

IInv ==
    /\ TypeOK
    /\ RowsTrue
    /\ OneCreate
    /\ \A r \in Request : CreateOK(r) /\ StatusOK(r)

-----------------------------------------------------------------------------
\* A request that has gone away, or that has gone on to where nothing is
\* claimed of it, while the tables and the containers stay
LEMMA Quietly ==
    ASSUME IInv, NEW r \in Request, UNCHANGED <<row, box, pageVars>>,
           key' \in [Project -> {"none", "active", "deleted"}], calm' \in BOOLEAN,
           Ends(r) \/ \E at \in {"found", "removing", "deleting", "answered"} : Moves(r, at)
    PROVE  IInv'
<1>1. TypeOK'
  <2>1. CASE Ends(r)
    BY <2>1, EndsTypes DEF IInv, TypeOK, StoreTypeOK, pageVars, Free
  <2>2. ASSUME NEW at \in {"found", "removing", "deleting", "answered"}, Moves(r, at)
        PROVE  TypeOK'
    BY <2>2 DEF Moves, IInv, TypeOK, StoreTypeOK, pageVars
  <2>3. QED
    BY <2>1, <2>2
<1>2. RowsTrue'
  BY DEF IInv, RowsTrue
<1>3. /\ \A q \in Request \ {r} : req'[q] = req[q]
      /\ \/ req'[r] = Free
         \/ /\ req'[r].kind = req[r].kind /\ req'[r].of = req[r].of
            /\ req'[r].at \in {"found", "removing", "deleting", "answered"}
  <2>1. CASE Ends(r)
    <3>1. TypeOK
      BY DEF IInv
    <3>2. req'[r] = Free /\ \A q \in Request \ {r} : req'[q] = req[q]
      BY <2>1, <3>1, EndsTypes
    <3>3. QED
      BY <3>2
  <2>2. ASSUME NEW at \in {"found", "removing", "deleting", "answered"}, Moves(r, at)
        PROVE  <1>3
    BY <2>2 DEF Moves
  <2>3. QED
    BY <2>1, <2>2
<1>4. OneCreate'
  BY <1>3 DEF IInv, OneCreate, Free
<1>5. ASSUME NEW q \in Request
      PROVE  CreateOK(q)' /\ StatusOK(q)'
  BY <1>3 DEF IInv, CreateOK, StatusOK, At, Free
<1>6. QED
  BY <1>1, <1>2, <1>4, <1>5 DEF IInv

\* What the handlers do to their own request and leave to the others
LEMMA StepOf ==
    ASSUME IInv, NEW r \in Request, NEW at \in {"keyed", "inserted", "ran", "notRun", "exited",
                                              "inspecting", "answered", "deleting"},
           Moves(r, at), UNCHANGED pageVars, calm' \in BOOLEAN,
           row' \in [Project -> Row], key' \in [Project -> {"none", "active", "deleted"}],
           box' \in [Project -> {"none", "running", "exited", "removed"}],
           RowsTrue', CreateOK(r)', StatusOK(r)',
           \A q \in Request \ {r} : CreateOK(q)' /\ StatusOK(q)'
    PROVE  IInv'
<1>1. TypeOK'
  BY DEF Moves, IInv, TypeOK, StoreTypeOK, pageVars
<1>2. OneCreate'
  BY DEF Moves, IInv, OneCreate
<1>3. QED
  BY <1>1, <1>2 DEF IInv

LEMMA CreateSteps ==
    ASSUME IInv, NEW r \in Request, UNCHANGED pageVars,
           StoreKey(r) \/ InsertProject(r) \/ RunContainer(r) \/ SetContainer(r)
    PROVE  IInv'
<1> DEFINE p == req[r].of
<1>1. /\ TypeOK /\ req[r].kind = "create" /\ p \in Project
      /\ row \in [Project -> Row] /\ RowsTrue
      /\ \A q \in Request : CreateOK(q) /\ StatusOK(q)
      /\ \A q \in Request \ {r} : ~(req[q].kind = "create" /\ req[q].of = p)
  BY DEF IInv, OneCreate, TypeOK, StoreTypeOK, StoreKey, InsertProject, RunContainer, SetContainer, At
<1>2. CASE StoreKey(r)
  <2>1. Moves(r, "keyed")
    BY <1>1, <1>2, GoesMoves DEF StoreKey
  <2>2. /\ UNCHANGED <<row, box, calm>>
        /\ key' \in [Project -> {"none", "active", "deleted"}]
    BY <1>1, <1>2 DEF StoreKey, TypeOK, StoreTypeOK
  <2>3. RowsTrue'
    BY <1>1, <2>2 DEF RowsTrue
  <2>4. CreateOK(r)' /\ StatusOK(r)'
    BY <1>1, <1>2, <2>1, <2>2 DEF StoreKey, Moves, CreateOK, StatusOK, At
  <2>5. ASSUME NEW q \in Request \ {r} PROVE CreateOK(q)' /\ StatusOK(q)'
    BY <1>1, <2>1, <2>2 DEF Moves, CreateOK, StatusOK, At
  <2>6. QED
    BY <1>1, <2>1, <2>2, <2>3, <2>4, <2>5, StepOf DEF TypeOK, StoreTypeOK
<1>3. CASE InsertProject(r)
  <2>1. Moves(r, "inserted")
    BY <1>1, <1>3, GoesMoves DEF InsertProject
  <2>2. /\ UNCHANGED <<key, box, calm>>
        /\ row[p] = NoRow("none") /\ row' = [row EXCEPT ![p] = NoRow("pending")]
    BY <1>1, <1>3 DEF InsertProject, CreateOK, At
  <2>3. row' \in [Project -> Row]
    BY <1>1, <2>2, ReqTypes
  <2>4. RowsTrue'
    BY <1>1, <2>2 DEF RowsTrue, NoRow
  <2>5. CreateOK(r)' /\ StatusOK(r)'
    BY <1>1, <2>1, <2>2 DEF Moves, CreateOK, StatusOK, At
  <2>6. ASSUME NEW q \in Request \ {r} PROVE CreateOK(q)' /\ StatusOK(q)'
    BY <1>1, <2>1, <2>2 DEF Moves, CreateOK, StatusOK, At, NoRow
  <2>7. QED
    BY <1>1, <2>1, <2>2, <2>3, <2>4, <2>5, <2>6, StepOf DEF TypeOK, StoreTypeOK
<1>4. CASE RunContainer(r)
  <2>1. PICK at \in {"ran", "notRun"} :
            /\ Goes(r, at) /\ UNCHANGED <<row, key>> /\ calm' \in BOOLEAN
            /\ box' = [box EXCEPT ![p] = "running"] \/ (at = "notRun" /\ UNCHANGED box)
    BY <1>1, <1>4 DEF RunContainer, TypeOK, StoreTypeOK
  <2>2. Moves(r, at) /\ box \in [Project -> {"none", "running", "exited", "removed"}]
    BY <1>1, <2>1, GoesMoves DEF TypeOK, StoreTypeOK
  <2>3. row[p] \in {NoRow("pending"), NoRow("deleted")}
    BY <1>1, <1>4 DEF RunContainer, CreateOK, At
  <2>4. RowsTrue'
    BY <1>1, <2>1, <2>2, <2>3 DEF RowsTrue, NoRow
  <2>5. CreateOK(r)' /\ StatusOK(r)'
    BY <1>1, <2>1, <2>2, <2>3 DEF Moves, CreateOK, StatusOK, At
  <2>6. ASSUME NEW q \in Request \ {r} PROVE CreateOK(q)' /\ StatusOK(q)'
    <3>1. /\ req'[q] = req[q] /\ UNCHANGED row /\ CreateOK(q) /\ StatusOK(q)
          /\ req[q].kind \in {"create", "status"} => req[q].of \in Project
          /\ row[p].st \in {"pending", "deleted"}
      BY <1>1, <2>1, <2>2, <2>3 DEF Moves, TypeOK, StoreTypeOK, NoRow
    <3>2. \A x \in Project \ {p} : box'[x] = box[x]
      BY <2>1, <2>2
    <3>3. ~(req[q].kind = "create" /\ req[q].of = p)
      BY <1>1
    <3>4. QED
      BY <3>1, <3>2, <3>3 DEF CreateOK, StatusOK, At
  <2>7. box' \in [Project -> {"none", "running", "exited", "removed"}]
    BY <2>1, <2>2
  <2>8. QED
    BY <1>1, <2>1, <2>2, <2>4, <2>5, <2>6, <2>7, StepOf DEF TypeOK, StoreTypeOK
<1>5. CASE SetContainer(r)
  <2>1. Created(r) \in Row /\ Sees(r, p, Created(r), "answered")
    BY <1>1, <1>5, ReqTypes DEF SetContainer
  <2>2. Moves(r, "answered")
    BY <1>1, <2>1, SeesMoves
  <2>3. /\ UNCHANGED <<key, box, calm>>
        /\ row[p] \in {NoRow("pending"), NoRow("deleted")}
        /\ row' = IF row[p] = NoRow("pending") THEN [row EXCEPT ![p] = Created(r)] ELSE row
        /\ req[r].at \in {"ran", "notRun"} /\ (req[r].at = "ran" => box[p] # "none")
    <3>1. CreateOK(r) /\ req[r].at \in {"ran", "notRun"} /\ UNCHANGED <<key, box, calm>>
      BY <1>1, <1>5 DEF SetContainer
    <3>2. row[p] \in {NoRow("pending"), NoRow("deleted")} /\ (req[r].at = "ran" => box[p] # "none")
      BY <1>1, <3>1 DEF CreateOK
    <3>3. Exists(p) <=> row[p] = NoRow("pending")
      <4>1. NoRow("pending").st = "pending" /\ NoRow("deleted").st = "deleted"
        BY DEF NoRow
      <4>2. QED
        BY <3>2, <4>1 DEF Exists
    <3>4. row' = IF Exists(p) THEN [row EXCEPT ![p] = Created(r)] ELSE row
      BY <1>5 DEF SetContainer
    <3>5. QED
      BY <3>1, <3>2, <3>3, <3>4
  <2>4. row' \in [Project -> Row]
    BY <1>1, <2>1, <2>3
  <2>5. RowsTrue'
    BY <1>1, <2>3 DEF RowsTrue, NoRow, Created
  <2>6. CreateOK(r)' /\ StatusOK(r)'
    BY <1>1, <2>2 DEF Moves, CreateOK, StatusOK, At
  <2>7. ASSUME NEW q \in Request \ {r} PROVE CreateOK(q)' /\ StatusOK(q)'
    BY <1>1, <2>2, <2>3 DEF Moves, CreateOK, StatusOK, At, NoRow
  <2>8. QED
    BY <1>1, <2>2, <2>3, <2>4, <2>5, <2>6, <2>7, StepOf DEF TypeOK, StoreTypeOK
<1>6. QED
  BY <1>2, <1>3, <1>4, <1>5

LEMMA DeleteRowStep ==
    ASSUME IInv, NEW r \in Request, UNCHANGED pageVars, DeleteRow(r)
    PROVE  IInv'
<1> DEFINE p == req[r].of
<1>1. /\ TypeOK /\ At(r, "delete", "deleting") /\ p \in Project /\ UNCHANGED box
      /\ row \in [Project -> Row] /\ RowsTrue
      /\ \A q \in Request : CreateOK(q) /\ StatusOK(q)
  BY DEF IInv, TypeOK, StoreTypeOK, DeleteRow, At
<1>2. CASE ~Exists(p)
  <2>1. Ends(r) /\ UNCHANGED <<row, key, calm>>
    BY <1>2 DEF DeleteRow
  <2>2. QED
    BY <1>1, <2>1, Quietly DEF TypeOK, StoreTypeOK
<1>3. CASE Exists(p)
  <2>1. /\ Goes(r, "answered") /\ row' = [row EXCEPT ![p] = NoRow("deleted")]
        /\ key' \in [Project -> {"none", "active", "deleted"}] /\ calm' \in BOOLEAN
    BY <1>1, <1>3 DEF DeleteRow, TypeOK, StoreTypeOK
  <2>2. Moves(r, "answered") /\ row' \in [Project -> Row]
    BY <1>1, <2>1, GoesMoves, ReqTypes
  <2>3. row[p].st \notin {"none", "deleted"}
    BY <1>3 DEF Exists
  <2>4. /\ NoRow("deleted").st = "deleted" /\ NoRow("deleted").cid = FALSE
        /\ NoRow("none").st = "none"
    BY DEF NoRow
  <2>5. RowsTrue'
    BY <1>1, <2>1, <2>4 DEF RowsTrue
  <2>6. CreateOK(r)' /\ StatusOK(r)'
    BY <1>1, <2>2 DEF Moves, CreateOK, StatusOK, At
  <2>7. ASSUME NEW q \in Request \ {r} PROVE CreateOK(q)' /\ StatusOK(q)'
    <3>1. req'[q] = req[q] /\ CreateOK(q) /\ StatusOK(q)
      BY <1>1, <2>2 DEF Moves
    <3>2. CASE req[q].of = p
      BY <1>1, <2>1, <2>3, <2>4, <3>1, <3>2 DEF CreateOK, StatusOK, At
    <3>3. CASE req[q].of # p
      <4>1. CASE req[q].kind \in {"create", "status"}
        <5>1. req[q].of \in Project /\ row'[req[q].of] = row[req[q].of]
          BY <1>1, <2>1, <3>3, <4>1 DEF TypeOK, StoreTypeOK
        <5>2. QED
          BY <1>1, <3>1, <5>1 DEF CreateOK, StatusOK, At
      <4>2. CASE req[q].kind \notin {"create", "status"}
        BY <3>1, <4>2 DEF CreateOK, StatusOK, At
      <4>3. QED
        BY <4>1, <4>2
    <3>4. QED
      BY <3>2, <3>3
  <2>8. QED
    BY <1>1, <2>1, <2>2, <2>5, <2>6, <2>7, StepOf DEF TypeOK, StoreTypeOK
<1>4. QED
  BY <1>2, <1>3

LEMMA StatusSteps ==
    ASSUME IInv, NEW r \in Request, UNCHANGED pageVars,
           GetStatus(r) \/ Inspect(r) \/ SetDone(r)
    PROVE  IInv'
<1> DEFINE p == req[r].of
<1>1. /\ TypeOK /\ req[r].kind = "status" /\ p \in Project /\ UNCHANGED <<key, box, calm>>
      /\ row \in [Project -> Row] /\ RowsTrue /\ req[r] \in Req
      /\ \A q \in Request : CreateOK(q) /\ StatusOK(q)
  BY DEF IInv, TypeOK, StoreTypeOK, GetStatus, Inspect, SetDone, At
<1>2. CASE UNCHANGED row
  <2>1. CASE Ends(r) \/ Moves(r, "answered")
    BY <1>1, <1>2, <2>1, Quietly DEF TypeOK, StoreTypeOK
  <2>2. ASSUME NEW at \in {"inspecting", "exited"}, Moves(r, at), StatusOK(r)'
        PROVE  IInv'
    <3>1. RowsTrue'
      BY <1>1, <1>2 DEF RowsTrue
    <3>2. CreateOK(r)'
      BY <1>1, <2>2 DEF Moves, CreateOK
    <3>3. ASSUME NEW q \in Request \ {r} PROVE CreateOK(q)' /\ StatusOK(q)'
      BY <1>1, <1>2, <2>2 DEF Moves, CreateOK, StatusOK, At
    <3>4. QED
      BY <1>1, <1>2, <2>2, <3>1, <3>2, <3>3, StepOf DEF TypeOK, StoreTypeOK
  <2>3. CASE GetStatus(r) /\ Exists(p)
    <3>1. PICK at \in {"inspecting", "answered"} :
              Sees(r, p, row[p], at) /\ (at = "inspecting" => row[p].st = "running")
      BY <2>3 DEF GetStatus
    <3>2. Moves(r, at)
      BY <1>1, <3>1, SeesMoves
    <3>3. at = "inspecting" => StatusOK(r)'
      BY <1>1, <1>2, <3>1, <3>2 DEF StatusOK, Moves, At
    <3>4. QED
      BY <2>1, <2>2, <3>2, <3>3
  <2>4. CASE GetStatus(r) /\ ~Exists(p)
    BY <2>1, <2>4 DEF GetStatus
  <2>5. CASE Inspect(r)
    <3>1. PICK at \in {"exited", "answered"} :
              Goes(r, at) /\ (at = "exited" => box[p] = "exited")
      BY <2>5 DEF Inspect
    <3>2. Moves(r, at)
      BY <1>1, <3>1, GoesMoves
    <3>3. row[p].st \in {"running", "done", "deleted"}
      BY <1>1, <2>5 DEF Inspect, StatusOK
    <3>4. at = "exited" => StatusOK(r)'
      BY <1>1, <1>2, <3>1, <3>2, <3>3 DEF StatusOK, Moves, At
    <3>5. QED
      BY <2>1, <2>2, <3>2, <3>4
  <2>6. CASE SetDone(r)
    <3>1. [req[r].seen[p] EXCEPT !.st = "done"] \in Row
      BY <1>1 DEF Req, Row
    <3>2. Moves(r, "answered")
      BY <1>1, <2>6, <3>1, SeesMoves DEF SetDone
    <3>3. QED
      BY <2>1, <3>2
  <2>7. QED
    BY <2>3, <2>4, <2>5, <2>6
<1>3. CASE row' # row
  <2>1. /\ At(r, "status", "exited") /\ Exists(p) /\ row' = [row EXCEPT ![p].st = "done"]
        /\ Sees(r, p, [req[r].seen[p] EXCEPT !.st = "done"], "answered")
    BY <1>3 DEF GetStatus, Inspect, SetDone
  <2>2. [req[r].seen[p] EXCEPT !.st = "done"] \in Row /\ row' \in [Project -> Row]
    BY <1>1, <2>1 DEF Req, Row
  <2>3. Moves(r, "answered")
    BY <1>1, <2>1, <2>2, SeesMoves
  <2>4. row[p].st \in {"running", "done"} /\ box[p] \in {"exited", "removed"}
    BY <1>1, <2>1 DEF StatusOK, Exists
  <2>5. row'[p].st = "done" /\ row'[p].cid = row[p].cid
    BY <1>1, <2>1 DEF Row
  <2>6. \A x \in Project \ {p} : row'[x] = row[x]
    BY <1>1, <2>1
  <2>7. RowsTrue'
    BY <1>1, <2>4, <2>5, <2>6 DEF RowsTrue
  <2>8. CreateOK(r)' /\ StatusOK(r)'
    BY <1>1, <2>3 DEF Moves, CreateOK, StatusOK, At
  <2>9. ASSUME NEW q \in Request \ {r} PROVE CreateOK(q)' /\ StatusOK(q)'
    <3>1. /\ req'[q] = req[q] /\ CreateOK(q) /\ StatusOK(q)
          /\ req[q].kind \in {"create", "status"} => req[q].of \in Project
      BY <1>1, <2>3 DEF Moves, TypeOK, StoreTypeOK
    <3>2. \A st \in {"none", "pending", "deleted"} : NoRow(st).st = st
      BY DEF NoRow
    <3>3. CASE req[q].of = p
      BY <1>1, <2>4, <2>5, <3>1, <3>2, <3>3 DEF CreateOK, StatusOK, At
    <3>4. CASE req[q].of # p
      BY <1>1, <2>6, <3>1, <3>4 DEF CreateOK, StatusOK, At
    <3>5. QED
      BY <3>3, <3>4
  <2>10. QED
    BY <1>1, <2>2, <2>3, <2>7, <2>8, <2>9, StepOf DEF TypeOK, StoreTypeOK
<1>4. QED
  BY <1>2, <1>3

LEMMA OtherSteps ==
    ASSUME IInv, NEW r \in Request, UNCHANGED pageVars,
           \/ GetForDelete(r) \/ GetForUpdate(r) \/ WriteUpdate(r) \/ List(r)
           \/ Refuse(r) \/ WriteFails(r) \/ AnswerLost(r)
    PROVE  IInv'
<1>1. /\ TypeOK /\ UNCHANGED <<row, key, box>> /\ calm' \in BOOLEAN /\ req[r] \in Req
      /\ key \in [Project -> {"none", "active", "deleted"}] /\ row \in [Project -> Row]
      /\ req[r].kind \notin {"none", "list"} => req[r].of \in Project
  BY DEF IInv, TypeOK, StoreTypeOK, GetForDelete, GetForUpdate, WriteUpdate, List, Refuse,
         WriteFails, AnswerLost
<1>2. Ends(r) \/ \E at \in {"found", "removing", "deleting", "answered"} : Moves(r, at)
  <2>1. CASE GetForDelete(r)
    <3>1. PICK at \in {"removing", "deleting"} : Goes(r, at)
      BY <2>1 DEF GetForDelete
    <3>2. QED
      BY <1>1, <3>1, GoesMoves
  <2>2. CASE GetForUpdate(r)
    BY <1>1, <2>2, SeesMoves DEF GetForUpdate, At
  <2>3. CASE List(r)
    <3>1. [q \in Project |-> IF Exists(q) THEN row[q] ELSE NoRow("none")] \in [Project -> Row]
      BY <1>1, ReqTypes
    <3>2. QED
      BY <1>1, <2>3, <3>1, AnswersMoves DEF List
  <2>4. CASE WriteFails(r)
    <3>1. ASSUME NEW what \in Row, Sees(r, req[r].of, what, "answered")
          PROVE  Moves(r, "answered")
      <4>1. [Nothing EXCEPT ![req[r].of] = what] \in [Project -> Row]
        BY <1>1, <3>1, ReqTypes
      <4>2. QED
        BY <1>1, <3>1, <4>1, AnswersMoves DEF Sees
    <3>2. CASE Sees(r, req[r].of, Created(r), "answered")
      BY <1>1, <3>1, <3>2, ReqTypes
    <3>3. CASE req[r].at = "exited" /\ Sees(r, req[r].of, [req[r].seen[req[r].of] EXCEPT !.st = "done"],
                                           "answered")
      <4>1. CASE req[r].of \in Project
        <5>1. [req[r].seen[req[r].of] EXCEPT !.st = "done"] \in Row
          BY <1>1, <4>1 DEF Req, Row
        <5>2. QED
          BY <3>1, <3>3, <5>1
      <4>2. CASE req[r].of \notin Project
        <5>1. [Nothing EXCEPT ![req[r].of] = [req[r].seen[req[r].of] EXCEPT !.st = "done"]] = Nothing
          BY <1>1, <4>2, ReqTypes
        <5>2. QED
          BY <1>1, <3>3, <5>1, ReqTypes, AnswersMoves DEF Sees
      <4>3. QED
        BY <4>1, <4>2
    <3>4. QED
      BY <2>4, <3>2, <3>3 DEF WriteFails
  <2>5. CASE WriteUpdate(r) \/ Refuse(r) \/ AnswerLost(r)
    BY <2>5 DEF WriteUpdate, Refuse, AnswerLost
  <2>6. QED
    BY <2>1, <2>2, <2>3, <2>4, <2>5
<1>3. QED
  BY <1>1, <1>2, Quietly

LEMMA RemoveContainerStep ==
    ASSUME IInv, NEW r \in Request, UNCHANGED pageVars, RemoveContainer(r)
    PROVE  IInv'
<1> DEFINE p == req[r].of
<1>1. /\ TypeOK /\ req[r].kind = "delete" /\ p \in Project /\ UNCHANGED <<row, key>>
      /\ Goes(r, "deleting") /\ calm' \in BOOLEAN
      /\ box \in [Project -> {"none", "running", "exited", "removed"}] /\ RowsTrue
      /\ box' = [box EXCEPT ![p] = "removed"] \/ UNCHANGED box
      /\ \A q \in Request : CreateOK(q) /\ StatusOK(q)
  BY DEF IInv, TypeOK, StoreTypeOK, RemoveContainer, At
<1>2. Moves(r, "deleting")
  BY <1>1, GoesMoves
<1>3. \A x \in Project : box'[x] = box[x] \/ box'[x] = "removed"
  BY <1>1
<1>4. RowsTrue'
  BY <1>1, <1>3 DEF RowsTrue
<1>5. CreateOK(r)' /\ StatusOK(r)'
  BY <1>1, <1>2 DEF Moves, CreateOK, StatusOK, At
<1>6. ASSUME NEW q \in Request \ {r} PROVE CreateOK(q)' /\ StatusOK(q)'
  <2>1. /\ req'[q] = req[q] /\ CreateOK(q) /\ StatusOK(q)
        /\ req[q].kind \in {"create", "status"} => req[q].of \in Project
    BY <1>1, <1>2 DEF Moves, TypeOK, StoreTypeOK
  <2>2. QED
    BY <1>1, <1>3, <2>1 DEF CreateOK, StatusOK, At
<1>7. box' \in [Project -> {"none", "running", "exited", "removed"}]
  BY <1>1
<1>8. QED
  BY <1>1, <1>2, <1>4, <1>5, <1>6, <1>7, StepOf DEF TypeOK, StoreTypeOK

LEMMA EnvironmentSteps ==
    ASSUME IInv, UNCHANGED pageVars,
           Crash \/ \E p \in Project : Exit(p) \/ DeleteKey(p)
    PROVE  IInv'
<1>1. CASE Crash
  <2>1. /\ req' = [r \in Request |-> Free] /\ UNCHANGED <<row, key, box>> /\ calm' = FALSE
    BY <1>1 DEF Crash
  <2>2. Free \in Req /\ Free.kind = "none"
    BY ReqTypes DEF IInv, Free
  <2>3. TypeOK'
    BY <2>1, <2>2 DEF IInv, TypeOK, StoreTypeOK, pageVars
  <2>4. RowsTrue' /\ OneCreate'
    BY <2>1, <2>2 DEF IInv, RowsTrue, OneCreate
  <2>5. \A r \in Request : CreateOK(r)' /\ StatusOK(r)'
    BY <2>1, <2>2 DEF CreateOK, StatusOK, At
  <2>6. QED
    BY <2>3, <2>4, <2>5 DEF IInv
<1>2. ASSUME NEW p \in Project, Exit(p)
      PROVE  IInv'
  <2>1. TypeOK'
    BY <1>2 DEF Exit, IInv, TypeOK, StoreTypeOK, pageVars
  <2>2. /\ UNCHANGED <<row, req>>
        /\ \A x \in Project : \/ box'[x] = box[x]
                              \/ box[x] = "running" /\ box'[x] = "exited"
    <3>1. /\ box \in [Project -> {"none", "running", "exited", "removed"}]
          /\ box[p] = "running" /\ box' = [box EXCEPT ![p] = "exited"] /\ UNCHANGED <<row, req>>
      BY <1>2 DEF Exit, IInv, TypeOK, StoreTypeOK
    <3>2. \A x \in Project : box'[x] = IF x = p THEN "exited" ELSE box[x]
      BY <3>1
    <3>3. QED
      BY <3>1, <3>2
  <2>3. RowsTrue' /\ OneCreate'
    BY <2>2 DEF IInv, RowsTrue, OneCreate
  <2>4. ASSUME NEW r \in Request PROVE CreateOK(r)' /\ StatusOK(r)'
    <3>1. CreateOK(r) /\ StatusOK(r) /\ (req[r].kind \in {"create", "status"} => req[r].of \in Project)
      BY DEF IInv, TypeOK, StoreTypeOK
    <3>2. QED
      BY <2>2, <3>1 DEF CreateOK, StatusOK, At
  <2>5. QED
    BY <2>1, <2>3, <2>4 DEF IInv
<1>3. ASSUME NEW p \in Project, DeleteKey(p)
      PROVE  IInv'
  <2>1. TypeOK'
    BY <1>3 DEF DeleteKey, IInv, TypeOK, StoreTypeOK, pageVars
  <2>2. UNCHANGED <<row, box, req>>
    BY <1>3 DEF DeleteKey
  <2>3. QED
    BY <2>1, <2>2 DEF IInv, RowsTrue, OneCreate, CreateOK, StatusOK, At
<1>4. QED
  BY <1>1, <1>2, <1>3

-----------------------------------------------------------------------------
(* The page *)

\* A request that is sent is a create of a project that has no row, or
\* nothing is claimed of it
LEMMA SendKeeps ==
    ASSUME IInv, NEW kind \in {"create", "delete", "update", "status", "list"},
           NEW p \in Project \cup {NoProject}, Send(kind, p), UNCHANGED <<row, key, box>>,
           calm' \in BOOLEAN, kind # "list" => p \in Project,
           kind = "create" => /\ row[p].st = "none"
                              /\ \A r \in Request : ~(req[r].kind = "create" /\ req[r].of = p)
    PROVE  StoreTypeOK' /\ RowsTrue' /\ OneCreate' /\ \A r \in Request : CreateOK(r)' /\ StatusOK(r)'
<1> DEFINE new == [kind |-> kind, of |-> p, at |-> "posted", seen |-> Nothing, mine |-> TRUE]
<1>1. PICK r \in Request : req[r].at = "free" /\ req' = [req EXCEPT ![r] = new]
  BY DEF Send
<1>2. new \in Req /\ new.kind = kind /\ new.of = p /\ new.at = "posted"
  BY ReqTypes DEF IInv, Req
<1> HIDE DEF new
<1>3. req' \in [Request -> Req] /\ req'[r] = new /\ \A q \in Request \ {r} : req'[q] = req[q]
  BY <1>1, <1>2 DEF IInv, TypeOK, StoreTypeOK
<1>4. StoreTypeOK'
  BY <1>2, <1>3 DEF IInv, TypeOK, StoreTypeOK
<1>5. RowsTrue'
  BY DEF IInv, RowsTrue
<1>6. OneCreate'
  BY <1>2, <1>3 DEF IInv, OneCreate
<1>7. kind = "create" => row[p] = NoRow("none")
  <2>1. ASSUME kind = "create"
        PROVE  row[p] \in Row /\ row[p].st = "none" /\ ~row[p].cid
    BY <2>1 DEF IInv, TypeOK, StoreTypeOK, RowsTrue, Row
  <2>2. QED
    BY <2>1 DEF Row, NoRow
<1>8. ASSUME NEW q \in Request PROVE CreateOK(q)' /\ StatusOK(q)'
  <2>1. CASE q = r
    BY <1>2, <1>3, <1>7, <2>1 DEF CreateOK, StatusOK, At
  <2>2. CASE q # r
    BY <1>3, <2>2 DEF IInv, CreateOK, StatusOK, At
  <2>3. QED
    BY <2>1, <2>2
<1>9. QED
  BY <1>4, <1>5, <1>6, <1>8

\* Requests that are over, or that the page does not listen to any more
LEMMA RequestsFade ==
    ASSUME IInv, req' \in [Request -> Req], UNCHANGED <<row, key, box>>, calm' \in BOOLEAN,
           \A r \in Request :
               \/ req'[r] = Free
               \/ req'[r].kind = req[r].kind /\ req'[r].of = req[r].of /\ req'[r].at = req[r].at
    PROVE  StoreTypeOK' /\ RowsTrue' /\ OneCreate' /\ \A r \in Request : CreateOK(r)' /\ StatusOK(r)'
<1>1. Free.kind = "none"
  BY DEF Free
<1>2. StoreTypeOK'
  BY <1>1 DEF IInv, TypeOK, StoreTypeOK
<1>3. RowsTrue' /\ OneCreate'
  BY <1>1 DEF IInv, RowsTrue, OneCreate
<1>4. ASSUME NEW r \in Request PROVE CreateOK(r)' /\ StatusOK(r)'
  BY <1>1 DEF IInv, CreateOK, StatusOK, At
<1>5. QED
  BY <1>2, <1>3, <1>4

LEMMA PageSteps ==
    ASSUME IInv, PageStep
    PROVE  IInv'
<1> DEFINE Store == /\ StoreTypeOK' /\ RowsTrue' /\ OneCreate'
                    /\ \A r \in Request : CreateOK(r)' /\ StatusOK(r)'
           Page == /\ mounted' \in BOOLEAN /\ projects' \in [Project -> Row]
                   /\ current' \in Project \cup {NoProject} /\ timer' \in BOOLEAN
<1>1. /\ TypeOK /\ req \in [Request -> Req] /\ calm \in BOOLEAN /\ mounted \in BOOLEAN
      /\ projects \in [Project -> Row] /\ current \in Project \cup {NoProject} /\ timer \in BOOLEAN
      /\ NoRow("none") \in Row /\ Nothing \in [Project -> Row] /\ Free \in Req
      /\ Listed(projects) \subseteq Project
  BY ReqTypes DEF IInv, TypeOK, StoreTypeOK, Listed
<1>2. CASE Mount
  <2>1. Store
    BY <1>1, <1>2, SendKeeps DEF Mount, Acts
  <2>2. Page
    BY <1>1, <1>2 DEF Mount
  <2>3. QED
    BY <2>1, <2>2 DEF IInv, TypeOK
<1>3. CASE Unmount \/ LoggedOut
  <2>1. UNCHANGED <<row, key, box, req>> /\ calm' \in BOOLEAN
    BY <1>1, <1>3 DEF Unmount, LoggedOut, Acts
  <2>2. Store
    BY <1>1, <2>1, RequestsFade
  <2>3. Page
    BY <1>1, <1>3 DEF Unmount, LoggedOut
  <2>4. QED
    BY <2>2, <2>3 DEF IInv, TypeOK
<1>4. CASE Reload
  <2>1. /\ UNCHANGED <<row, key, box>> /\ calm' \in BOOLEAN
        /\ req' = [r \in Request |-> [req[r] EXCEPT !.mine = FALSE]]
    BY <1>1, <1>4 DEF Reload, Acts
  <2>2. \A r \in Request : /\ req'[r] \in Req /\ req'[r].kind = req[r].kind
                            /\ req'[r].of = req[r].of /\ req'[r].at = req[r].at
    BY <1>1, <2>1 DEF Req
  <2>3. req' \in [Request -> Req]
    BY <2>1, <2>2
  <2>4. Store
    BY <2>1, <2>2, <2>3, RequestsFade
  <2>5. Page
    BY <1>1, <1>4 DEF Reload
  <2>6. QED
    BY <2>4, <2>5 DEF IInv, TypeOK
<1>5. CASE OnModelChange \/ \E p \in Project : CreateProject(p) \/ DeleteProject(p) \/ Poll(p)
  <2>1. Page
    BY <1>1, <1>5 DEF OnModelChange, CreateProject, DeleteProject, Poll, pageVars
  <2>2. CASE OnModelChange
    <3>1. Store
      BY <1>1, <2>2, SendKeeps DEF OnModelChange, Acts
    <3>2. QED
      BY <2>1, <3>1 DEF IInv, TypeOK
  <2>3. ASSUME NEW p \in Project, CreateProject(p)
        PROVE  IInv'
    <3>1. /\ Send("create", p) /\ UNCHANGED <<row, key, box>> /\ calm' \in BOOLEAN
          /\ row[p].st = "none" /\ \A r \in Request : ~(req[r].kind = "create" /\ req[r].of = p)
      BY <1>1, <2>3 DEF CreateProject, Acts
    <3>2. Store
      BY <3>1, SendKeeps
    <3>3. QED
      BY <2>1, <3>2 DEF IInv, TypeOK
  <2>4. ASSUME NEW p \in Project, DeleteProject(p) \/ Poll(p)
        PROVE  IInv'
    <3>1. PICK kind \in {"delete", "status"} :
              Send(kind, p) /\ UNCHANGED <<row, key, box>> /\ calm' \in BOOLEAN
      BY <1>1, <2>4 DEF DeleteProject, Poll, Acts
    <3>2. Store
      BY <3>1, SendKeeps
    <3>3. QED
      BY <2>1, <3>2 DEF IInv, TypeOK
  <2>5. QED
    BY <1>5, <2>2, <2>3, <2>4
<1>6. ASSUME NEW p \in Project, SelectProject(p)
      PROVE  IInv'
  <2>1. UNCHANGED <<row, key, box, req, calm>> /\ Page
    BY <1>1, <1>6 DEF SelectProject, storeVars
  <2>2. Store
    BY <1>1, <2>1, RequestsFade
  <2>3. QED
    BY <2>1, <2>2 DEF IInv, TypeOK
<1>7. ASSUME NEW r \in Request,
             Loaded(r) \/ ProjectCreated(r) \/ ProjectDeleted(r) \/ Polled(r) \/ Ignored(r)
      PROVE  IInv'
  <2>1. req' = [req EXCEPT ![r] = Free] /\ UNCHANGED <<row, key, box, calm, mounted>>
    BY <1>7 DEF Loaded, ProjectCreated, ProjectDeleted, Polled, Ignored, Hears, pageVars
  <2>2. req' \in [Request -> Req] /\ \A q \in Request : req'[q] = Free \/ req'[q] = req[q]
    BY <1>1, <2>1
  <2>3. Store
    BY <1>1, <2>1, <2>2, RequestsFade
  <2>4. ASSUME NEW open \in Project \cup {NoProject}, NEW list \in [Project -> Row]
        PROVE  NextCurrent(open, list) \subseteq Project \cup {NoProject}
    BY DEF NextCurrent, Listed
  <2>5. /\ req[r].seen \in [Project -> Row]
        /\ req[r].kind \in {"create", "delete", "status"} => req[r].of \in Project
    BY <1>1 DEF Req, TypeOK, StoreTypeOK
  <2>6. CASE Loaded(r)
    BY <1>1, <2>1, <2>4, <2>5, <2>6, <2>3 DEF Loaded, IInv, TypeOK
  <2>7. CASE ProjectCreated(r)
    BY <1>1, <2>1, <2>5, <2>7, <2>3 DEF ProjectCreated, Hears, At, IInv, TypeOK
  <2>8. CASE ProjectDeleted(r)
    <3>1. projects' \in [Project -> Row] /\ timer' \in BOOLEAN
      BY <1>1, <2>8 DEF ProjectDeleted
    <3>2. \E open \in Project \cup {NoProject} : current' \in NextCurrent(open, projects')
      BY <1>1, <2>8 DEF ProjectDeleted
    <3>3. QED
      BY <1>1, <2>1, <2>3, <2>4, <3>1, <3>2 DEF IInv, TypeOK
  <2>9. CASE Polled(r)
    BY <1>1, <2>1, <2>5, <2>9, <2>3 DEF Polled, Hears, At, IInv, TypeOK
  <2>10. CASE Ignored(r)
    BY <1>1, <2>1, <2>3, <2>10 DEF Ignored, IInv, TypeOK, pageVars
  <2>11. QED
    BY <1>7, <2>6, <2>7, <2>8, <2>9, <2>10
<1>8. QED
  BY <1>2, <1>3, <1>4, <1>5, <1>6, <1>7 DEF PageStep

(***************************************************************************)
(* Theorems                                                                *)
(***************************************************************************)

LEMMA InvariantIsInductive == Spec => []IInv
<1>1. Init => IInv
  <2> SUFFICES ASSUME Init PROVE IInv
    OBVIOUS
  <2>1. /\ Free \in Req /\ Nothing \in [Project -> Row] /\ Free.kind = "none"
        /\ \A p \in Project : Nothing[p].st = "none" /\ Nothing[p].cid = FALSE
    BY DEF Free, Req, Nothing, NoRow, Row
  <2>2. TypeOK
    BY <2>1 DEF Init, StoreInit, TypeOK, StoreTypeOK
  <2>3. RowsTrue
    BY <2>1 DEF Init, StoreInit, RowsTrue
  <2>4. OneCreate /\ \A r \in Request : CreateOK(r) /\ StatusOK(r)
    BY <2>1 DEF Init, StoreInit, OneCreate, CreateOK, StatusOK, At
  <2>5. QED
    BY <2>2, <2>3, <2>4 DEF IInv
<1>2. IInv /\ [Next]_vars => IInv'
  <2> SUFFICES ASSUME IInv, [Next]_vars PROVE IInv'
    OBVIOUS
  <2>1. CASE PageStep
    BY <2>1, PageSteps
  <2>2. CASE StoreStep /\ UNCHANGED pageVars
    BY <2>2, CreateSteps, DeleteRowStep, StatusSteps, OtherSteps, RemoveContainerStep,
       EnvironmentSteps DEF StoreStep
  <2>3. CASE UNCHANGED vars
    BY <2>3 DEF vars, storeVars, pageVars, IInv, TypeOK, StoreTypeOK, RowsTrue, OneCreate,
                CreateOK, StatusOK, At
  <2>4. QED
    BY <2>1, <2>2, <2>3 DEF Next
<1>3. QED
  BY <1>1, <1>2, PTL DEF Spec

\* The handlers and the page only hold what they may hold, and what is asked of
\* the server names a project unless it asks for the list.
THEOREM TypeCorrect == Spec => []TypeOK
  BY InvariantIsInductive, PTL DEF IInv

\* However the handlers of creates, deletes and polls overlap, fail and crash: a
\* row that says running or done has the container on record that was started.
THEOREM RowsAreTrue == Spec => []RowsTrue
  BY InvariantIsInductive, PTL DEF IInv

LEMMA StepsGoForward ==
    ASSUME IInv, Next, row' # row
    PROVE  \A p \in Project : row'[p].st \in After[row[p].st]
<1>1. ~PageStep
  <2>1. PageStep => UNCHANGED row
    BY DEF PageStep, Mount, Unmount, LoggedOut, Reload, OnModelChange, CreateProject, DeleteProject,
           SelectProject, Poll, Loaded, ProjectCreated, ProjectDeleted, Polled, Ignored, Hears, storeVars
  <2>2. QED
    BY <2>1
<1>2. StoreStep
  BY <1>1 DEF Next
<1>3. PICK r \in Request : InsertProject(r) \/ SetContainer(r) \/ DeleteRow(r) \/ SetDone(r)
  BY <1>2 DEF StoreStep, StoreKey, RunContainer, GetForDelete, RemoveContainer, GetForUpdate,
              WriteUpdate, GetStatus, Inspect, List, Refuse, WriteFails, AnswerLost, Exit, DeleteKey, Crash
<1> DEFINE p == req[r].of
<1>4. /\ p \in Project /\ row \in [Project -> Row] /\ CreateOK(r) /\ StatusOK(r)
  BY <1>3 DEF IInv, TypeOK, StoreTypeOK, InsertProject, SetContainer, DeleteRow, SetDone, At
<1>5. \A st \in {"none", "pending", "deleted"} : NoRow(st).st = st
  BY DEF NoRow
<1>6. ASSUME NEW q \in Project, q # p
      PROVE  row'[q].st \in After[row[q].st]
  <2>1. row'[q] = row[q]
    BY <1>3, <1>4, <1>6 DEF InsertProject, SetContainer, DeleteRow, SetDone
  <2>2. row[q].st \in {"none", "pending", "running", "failed", "done", "deleted"}
    BY <1>4 DEF Row
  <2>3. QED
    BY <2>1, <2>2 DEF After
<1>7. row'[p].st \in After[row[p].st]
  <2>1. CASE InsertProject(r)
    <3>1. row[p] = NoRow("none") /\ row' = [row EXCEPT ![p] = NoRow("pending")]
      BY <1>4, <2>1 DEF InsertProject, CreateOK, At
    <3>2. row[p].st = "none" /\ row'[p].st = "pending"
      BY <1>4, <1>5, <3>1
    <3>3. QED
      BY <3>2 DEF After
  <2>2. CASE SetContainer(r)
    <3>1. row[p] \in {NoRow("pending"), NoRow("deleted")}
      BY <1>4, <2>2 DEF SetContainer, CreateOK
    <3>2. Exists(p) /\ row' = [row EXCEPT ![p] = Created(r)]
      BY <2>2 DEF SetContainer
    <3>3. row[p].st = "pending" /\ row'[p].st \in {"running", "failed"}
      BY <1>4, <1>5, <3>1, <3>2 DEF Exists, Created
    <3>4. QED
      BY <3>3 DEF After
  <2>3. CASE DeleteRow(r)
    <3>1. Exists(p) /\ row' = [row EXCEPT ![p] = NoRow("deleted")]
      BY <2>3 DEF DeleteRow
    <3>2. row[p].st \in {"pending", "running", "failed", "done"} /\ row'[p].st = "deleted"
      BY <1>4, <1>5, <3>1 DEF Exists, Row
    <3>3. QED
      BY <3>2 DEF After
  <2>4. CASE SetDone(r)
    <3>1. Exists(p) /\ row' = [row EXCEPT ![p].st = "done"] /\ At(r, "status", "exited")
      BY <2>4 DEF SetDone
    <3>2. row[p].st \in {"running", "done"}
      BY <1>4, <3>1 DEF StatusOK, Exists
    <3>3. row'[p].st = "done"
      BY <1>4, <3>1 DEF Row
    <3>4. QED
      BY <3>2, <3>3 DEF After
  <2>5. QED
    BY <1>3, <2>1, <2>2, <2>3, <2>4
<1>8. QED
  BY <1>6, <1>7

\* create and status write after they have waited for Docker, and whatever was
\* deleted or finished meanwhile stays so.
THEOREM StatusGoesForward == Spec => StatusForward
<1>1. IInv /\ [Next]_vars => [\A p \in Project : row'[p].st \in After[row[p].st]]_row
  BY StepsGoForward DEF vars, storeVars
<1>2. QED
  BY <1>1, InvariantIsInductive, PTL DEF Spec, StatusForward

(***************************************************************************)
(* A user who waits.  While nothing has failed and the user has waited for *)
(* each answer, there is one task at a time, and only polls beside it:     *)
(* what each request has done to the tables and at the Docker host, what   *)
(* it has read, and what the page holds then fit together.                 *)
(***************************************************************************)

\* A task of the user: any request but a poll
Task(r) == req[r].kind \notin {"none", "status"}

Live(p) == box[p] \in {"running", "exited"}

\* A status that was read of a project, which the project may have left since
Shown(x, p) == x.st \in {"running", "failed", "done"} /\ row[p].st \in After[x.st]

\* The user waits: one task at a time, and the page listens to it
OneTask ==
    /\ \A r, s \in Request : Task(r) /\ Task(s) => r = s
    /\ \A r \in Request : Task(r) => req[r].mine

CreateTidy(r) ==
    LET p == req[r].of IN
    req[r].kind = "create" =>
        /\ req[r].at \in {"posted", "keyed", "inserted", "notRun"} => ~Live(p)
        /\ req[r].at \in {"inserted", "ran", "notRun", "answered"} => Exists(p)
        /\ req[r].at = "answered" => Shown(req[r].seen[p], p)

DeleteTidy(r) ==
    LET p == req[r].of IN
    req[r].kind = "delete" =>
        /\ req[r].at = "deleting" => ~Live(p)
        /\ req[r].at = "answered" => row[p].st = "deleted"

StatusTidy(r) ==
    LET p == req[r].of IN
    req[r].kind = "status" =>
        /\ row[p].st \notin {"none", "pending"}
        /\ req[r].at \in {"inspecting", "exited", "answered"} => Shown(req[r].seen[p], p)

ListTidy(r) ==
    At(r, "list", "answered") =>
        \A p \in Project : IF Exists(p) THEN Shown(req[r].seen[p], p)
                           ELSE req[r].seen[p].st = "none"

\* What is there beside the rows has a row, or a task that sees to it
Owned(p) ==
    /\ Live(p) => \/ Exists(p) /\ row[p].cid
                  \/ \E r \in Request : At(r, "create", "ran") /\ req[r].of = p
    /\ key[p] = "active" => \/ Exists(p)
                            \/ \E r \in Request : At(r, "create", "keyed") /\ req[r].of = p
    /\ row[p].st = "pending" =>
        \E r \in Request : /\ req[r].kind = "create" /\ req[r].of = p
                           /\ req[r].at \in {"inserted", "ran", "notRun"}

\* A project that is gone and that the page will hear of
Deleted(p) == \E r \in Request : At(r, "delete", "answered") /\ req[r].of = p

Behind == \E r \in Request : req[r].kind = "list"

\* The list, the project that is open and the timer
PageTidy ==
    /\ \A p \in Listed(projects) : Shown(projects[p], p) /\ (Exists(p) \/ Deleted(p))
    /\ mounted /\ ~Behind =>
        /\ timer
        /\ \A p \in Project : Exists(p) => \/ p \in Listed(projects)
                                           \/ \E r \in Request : req[r].kind = "create" /\ req[r].of = p
    /\ current = NoProject \/ Exists(current) \/ Deleted(current)

Tidy ==
    /\ OneTask
    /\ \A r \in Request : CreateTidy(r) /\ DeleteTidy(r) /\ StatusTidy(r) /\ ListTidy(r)
    /\ \A p \in Project : Owned(p)
    /\ PageTidy

\* A request that is not under way is none
Idle == \A r \in Request : req[r].at = "free" <=> req[r].kind = "none"

Forward == \A p \in Project : row'[p].st \in After[row[p].st]

LEMMA RowsForward ==
    ASSUME IInv, [Next]_vars
    PROVE  Forward
<1>1. CASE row' = row
  <2>1. \A p \in Project : row[p].st \in {"none", "pending", "running", "failed", "done", "deleted"}
    BY DEF IInv, TypeOK, StoreTypeOK, Row
  <2>2. QED
    BY <1>1, <2>1 DEF Forward, After
<1>2. CASE row' # row
  BY <1>2, StepsGoForward DEF Forward, vars, storeVars
<1>3. QED
  BY <1>1, <1>2

LEMMA ShownStays ==
    ASSUME Forward, NEW p \in Project, NEW x, Shown(x, p)
    PROVE  Shown(x, p)'
  BY DEF Forward, Shown, After

LEMMA StartedStays ==
    ASSUME IInv, Forward, NEW p \in Project, row[p].st \notin {"none", "pending"}
    PROVE  row'[p].st \notin {"none", "pending"}
<1>1. row[p].st \in {"running", "failed", "done", "deleted"}
  BY DEF IInv, TypeOK, StoreTypeOK, Row
<1>2. QED
  BY <1>1 DEF Forward, After

\* What a step of request r leaves of it
Continues(r, at) ==
    /\ req'[r].kind = req[r].kind /\ req'[r].of = req[r].of /\ req'[r].mine = req[r].mine
    /\ req'[r].at = at

Others(r) == \A q \in Request \ {r} : req'[q] = req[q]

LEMMA GoesOn ==
    ASSUME IInv, NEW r \in Request, NEW at, Goes(r, at)
    PROVE  Continues(r, at) /\ Others(r) /\ req'[r].seen = req[r].seen
  BY DEF Goes, Continues, Others, IInv, TypeOK, StoreTypeOK, Req

LEMMA AnswersOn ==
    ASSUME IInv, NEW r \in Request, NEW at, NEW list, Answers(r, at, list)
    PROVE  Continues(r, at) /\ Others(r) /\ req'[r].seen = list
  BY DEF Answers, Continues, Others, IInv, TypeOK, StoreTypeOK, Req

LEMMA SeesOn ==
    ASSUME IInv, NEW r \in Request, NEW at, NEW p \in Project, NEW what, Sees(r, p, what, at)
    PROVE  Continues(r, at) /\ Others(r) /\ req'[r].seen[p] = what
<1>1. Continues(r, at) /\ Others(r) /\ req'[r].seen = [Nothing EXCEPT ![p] = what]
  BY AnswersOn DEF Sees
<1>2. QED
  BY <1>1 DEF Nothing

LEMMA EndsOn ==
    ASSUME IInv, NEW r \in Request, Ends(r)
    PROVE  req'[r] = Free /\ Others(r)
  BY DEF Ends, Others, IInv, TypeOK, StoreTypeOK

LEMMA FreeIsNothing == Free.kind = "none" /\ Free.at = "free"
  BY DEF Free

\* A task goes on while the polls wait
LEMMA TaskGoesOn ==
    ASSUME IInv, Tidy, Forward, NEW r \in Request, Task(r), Others(r),
           req'[r] = Free \/ \E at : Continues(r, at)
    PROVE  /\ OneTask'
           /\ \A q \in Request \ {r} : /\ ~Task(q)
                                       /\ CreateTidy(q)' /\ DeleteTidy(q)' /\ StatusTidy(q)' /\ ListTidy(q)'
<1>1. \A q \in Request \ {r} : ~Task(q)
  BY DEF Tidy, OneTask
<1>2. OneTask'
  BY <1>1, FreeIsNothing DEF Tidy, OneTask, Task, Others, Continues
<1>3. ASSUME NEW q \in Request \ {r}
      PROVE  CreateTidy(q)' /\ DeleteTidy(q)' /\ StatusTidy(q)' /\ ListTidy(q)'
  <2>1. req'[q] = req[q] /\ req[q].kind \in {"none", "status"}
    BY <1>1 DEF Others, Task
  <2>2. StatusTidy(q)'
    <3>1. StatusTidy(q) /\ (req[q].kind = "status" => req[q].of \in Project)
      BY DEF Tidy, IInv, TypeOK, StoreTypeOK
    <3>2. QED
      BY <2>1, <3>1, ShownStays, StartedStays DEF StatusTidy
  <2>3. QED
    BY <2>1, <2>2 DEF CreateTidy, DeleteTidy, ListTidy, At
<1>4. QED
  BY <1>1, <1>2, <1>3

\* A poll goes on while a task waits, or another poll does
LEMMA PollGoesOn ==
    ASSUME IInv, Tidy, Forward, NEW r \in Request, req[r].kind = "status", Others(r),
           req'[r] = Free \/ \E at : Continues(r, at),
           UNCHANGED box, \A p \in Project : Exists(p)' <=> Exists(p)
    PROVE  /\ OneTask'
           /\ \A q \in Request \ {r} :
                CreateTidy(q)' /\ DeleteTidy(q)' /\ StatusTidy(q)' /\ ListTidy(q)'
           /\ CreateTidy(r)' /\ DeleteTidy(r)' /\ ListTidy(r)'
<1>0. req'[r].kind \in {"none", "status"}
  BY FreeIsNothing DEF Continues
<1>1. OneTask'
  BY <1>0 DEF Tidy, OneTask, Task, Others
<1>2. ASSUME NEW q \in Request \ {r}
      PROVE  CreateTidy(q)' /\ DeleteTidy(q)' /\ StatusTidy(q)' /\ ListTidy(q)'
  <2>1. /\ req'[q] = req[q] /\ CreateTidy(q) /\ DeleteTidy(q) /\ StatusTidy(q) /\ ListTidy(q)
        /\ req[q].kind \notin {"none", "list"} => req[q].of \in Project
    BY DEF Tidy, Others, IInv, TypeOK, StoreTypeOK
  <2>2. CreateTidy(q)'
    BY <2>1, ShownStays DEF CreateTidy, Live
  <2>3. DeleteTidy(q)'
    <3>1. \A p \in Project : row[p].st = "deleted" => row'[p].st = "deleted"
      BY DEF Forward, After
    <3>2. QED
      BY <2>1, <3>1 DEF DeleteTidy, Live
  <2>4. StatusTidy(q)'
    BY <2>1, ShownStays, StartedStays DEF StatusTidy
  <2>5. ListTidy(q)'
    BY <2>1, ShownStays DEF ListTidy, At
  <2>6. QED
    BY <2>2, <2>3, <2>4, <2>5
<1>3. CreateTidy(r)' /\ DeleteTidy(r)' /\ ListTidy(r)'
  BY <1>0 DEF CreateTidy, DeleteTidy, ListTidy, At
<1>4. QED
  BY <1>1, <1>2, <1>3

\* What the page holds is not affected by a step of the server that neither
\* hides a project from it nor loses an answer
LEMMA PageLeft ==
    ASSUME IInv, Tidy, Forward, UNCHANGED pageVars, NEW r \in Request, Others(r),
           \/ \E at : Continues(r, at)
           \/ req'[r] = Free /\ req[r].kind \in {"delete", "update", "status"},
           ~At(r, "delete", "answered"),
           \A p \in Project : Exists(p) => Exists(p)' \/ Deleted(p)',
           \A p \in Project : Exists(p)' => Exists(p) \/ (req'[r].kind = "create" /\ req'[r].of = p)
    PROVE  PageTidy'
<1>0. /\ \A p \in Project : Deleted(p) => Deleted(p)'
      /\ Behind => Behind'
      /\ \A p \in Project : (\E q \in Request : req[q].kind = "create" /\ req[q].of = p)
                            => \E q \in Request : req'[q].kind = "create" /\ req'[q].of = p
  BY DEF Deleted, Behind, At, Others, Continues
<1>1. /\ PageTidy /\ UNCHANGED <<mounted, projects, current, timer>>
      /\ Listed(projects) \subseteq Project /\ current \in Project \cup {NoProject}
  BY DEF Tidy, pageVars, Listed, IInv, TypeOK
<1>2. \A p \in Listed(projects) : Shown(projects[p], p)' /\ (Exists(p)' \/ Deleted(p)')
  BY <1>0, <1>1, ShownStays DEF PageTidy
<1>3. mounted /\ ~Behind' =>
        /\ timer
        /\ \A p \in Project : Exists(p)' => \/ p \in Listed(projects)
                                            \/ \E q \in Request : req'[q].kind = "create" /\ req'[q].of = p
  BY <1>0, <1>1 DEF PageTidy
<1>4. current = NoProject \/ Exists(current)' \/ Deleted(current)'
  BY <1>0, <1>1 DEF PageTidy
<1>5. QED
  BY <1>1, <1>2, <1>3, <1>4 DEF PageTidy, Listed

(* The steps of the server, while nothing fails *)

LEMMA OwnedElsewhere ==
    ASSUME IInv, Tidy, NEW r \in Request, Task(r), NEW p \in Project, p # req[r].of,
           row'[p] = row[p], box'[p] = box[p], key'[p] = key[p]
    PROVE  Owned(p)'
<1>1. \A q \in Request : Task(q) => q = r
  BY DEF Tidy, OneTask
<1>2. \A q \in Request : req[q].kind = "create" /\ req[q].of = p => FALSE
  BY <1>1 DEF Task
<1>3. /\ Live(p) => Exists(p) /\ row[p].cid
      /\ key[p] = "active" => Exists(p)
      /\ row[p].st # "pending"
  BY <1>2 DEF Tidy, Owned, At
<1>4. QED
  BY <1>3 DEF Owned, Live, Exists

LEMMA TidyAfterTask ==
    ASSUME IInv, Tidy, Forward, UNCHANGED pageVars, NEW r \in Request, Task(r), Others(r),
           \/ \E at : Continues(r, at)
           \/ req'[r] = Free /\ req[r].kind \in {"delete", "update"},
           ~At(r, "delete", "answered"),
           CreateTidy(r)', DeleteTidy(r)', ListTidy(r)',
           \A p \in Project : Owned(p)',
           \A p \in Project : Exists(p) => Exists(p)' \/ Deleted(p)',
           \A p \in Project : Exists(p)' => Exists(p) \/ (req'[r].kind = "create" /\ req'[r].of = p)
    PROVE  Tidy'
<1>1. PageTidy'
  BY PageLeft
<1>2. /\ OneTask'
      /\ \A q \in Request \ {r} : CreateTidy(q)' /\ DeleteTidy(q)' /\ StatusTidy(q)' /\ ListTidy(q)'
  BY TaskGoesOn
<1>3. StatusTidy(r)'
  BY FreeIsNothing DEF StatusTidy, Task, Continues
<1>4. QED
  BY <1>1, <1>2, <1>3 DEF Tidy

LEMMA CreateTidies ==
    ASSUME IInv, Tidy, Forward, calm', UNCHANGED pageVars, NEW r \in Request,
           NEW p \in Project, p = req[r].of,
           StoreKey(r) \/ InsertProject(r) \/ RunContainer(r) \/ SetContainer(r)
    PROVE  Tidy'
<1>1. /\ req[r].kind = "create" /\ p \in Project /\ Task(r)
      /\ CreateOK(r) /\ CreateTidy(r) /\ Owned(p)
      /\ row \in [Project -> Row] /\ key \in [Project -> {"none", "active", "deleted"}]
      /\ box \in [Project -> {"none", "running", "exited", "removed"}]
      /\ NoRow("none").st = "none" /\ NoRow("pending").st = "pending"
  BY DEF StoreKey, InsertProject, RunContainer, SetContainer, At, Task, IInv, Tidy, TypeOK, StoreTypeOK,
         NoRow
<1>2. ASSUME NEW at, at \in {"keyed", "inserted", "ran", "notRun", "answered"},
             Continues(r, at), Others(r),
             \A q \in Project : q # p => row'[q] = row[q] /\ box'[q] = box[q] /\ key'[q] = key[q],
             CreateTidy(r)', Owned(p)', Exists(p) => Exists(p)'
      PROVE  Tidy'
  <2>1. DeleteTidy(r)' /\ ListTidy(r)'
    BY <1>1, <1>2 DEF Continues, DeleteTidy, ListTidy, At
  <2>2. \A q \in Project : Owned(q)'
    BY <1>1, <1>2, OwnedElsewhere
  <2>3. \A q \in Project : /\ Exists(q) => Exists(q)'
                           /\ Exists(q)' => Exists(q) \/ (req'[r].kind = "create" /\ req'[r].of = q)
    BY <1>1, <1>2 DEF Exists, Continues
  <2>4. QED
    BY <1>1, <1>2, <2>1, <2>2, <2>3, TidyAfterTask DEF At
<1>3. \A q \in Request : q # r => req[q].kind # "create"
  BY <1>1 DEF Tidy, OneTask, Task
<1>4. CASE StoreKey(r)
  <2>1. Continues(r, "keyed") /\ Others(r) /\ UNCHANGED <<row, box>>
    BY <1>4, GoesOn DEF StoreKey
  <2>2. key' = [key EXCEPT ![p] = "active"] /\ req[r].at = "posted"
    BY <1>4 DEF StoreKey, At
  <2>3. CreateTidy(r)'
    BY <1>1, <2>1, <2>2 DEF CreateTidy, Continues, Live
  <2>4. Owned(p)'
    <3>1. ~Live(p) /\ row[p].st # "pending"
      BY <1>1, <2>2 DEF CreateTidy, CreateOK
    <3>2. At(r, "create", "keyed")' /\ req'[r].of = p
      BY <1>1, <2>1 DEF Continues, At
    <3>3. QED
      BY <2>1, <3>1, <3>2 DEF Owned, Live
  <2>5. QED
    BY <1>1, <1>2, <2>1, <2>2, <2>3, <2>4 DEF Exists
<1>5. CASE InsertProject(r)
  <2>1. Continues(r, "inserted") /\ Others(r) /\ UNCHANGED <<key, box>>
    BY <1>5, GoesOn DEF InsertProject
  <2>2. row' = [row EXCEPT ![p] = NoRow("pending")] /\ req[r].at = "keyed"
    BY <1>5 DEF InsertProject, At
  <2>3. Exists(p)' /\ ~Live(p) /\ ~Live(p)'
    BY <1>1, <2>1, <2>2 DEF Exists, CreateTidy, Live
  <2>4. CreateTidy(r)' /\ Owned(p)'
    BY <1>1, <2>1, <2>3 DEF CreateTidy, Owned, Continues
  <2>5. QED
    BY <1>1, <1>2, <2>1, <2>2, <2>3, <2>4
<1>6. CASE RunContainer(r)
  <2>1. PICK at \in {"ran", "notRun"} :
            /\ Goes(r, at) /\ UNCHANGED <<row, key>> /\ req[r].at = "inserted"
            /\ IF at = "ran" THEN box' = [box EXCEPT ![p] = "running"] ELSE UNCHANGED box
    BY <1>6 DEF RunContainer, At
  <2>2. Continues(r, at) /\ Others(r)
    BY <2>1, GoesOn
  <2>3. Exists(p) /\ Exists(p)' /\ ~Live(p) /\ (at = "notRun" => ~Live(p)')
    BY <1>1, <2>1 DEF Exists, CreateTidy, Live
  <2>4. CreateTidy(r)' /\ Owned(p)'
    <3>1. CreateTidy(r)'
      BY <1>1, <2>1, <2>2, <2>3 DEF CreateTidy, Continues
    <3>2. at = "ran" => At(r, "create", "ran")' /\ req'[r].of = p
      BY <1>1, <2>2 DEF Continues, At
    <3>3. req'[r].kind = "create" /\ req'[r].of = p /\ req'[r].at \in {"inserted", "ran", "notRun"}
      BY <1>1, <2>1, <2>2 DEF Continues
    <3>4. QED
      BY <2>1, <2>3, <3>1, <3>2, <3>3 DEF Owned
  <2>5. QED
    BY <1>1, <1>2, <2>1, <2>2, <2>3, <2>4
<1>7. CASE SetContainer(r)
  <2>1. PICK x \in Row : x = Created(r)
    BY ReqTypes DEF IInv
  <2>2. /\ req[r].at \in {"ran", "notRun"} /\ Sees(r, p, x, "answered")
        /\ UNCHANGED <<key, box>> /\ Exists(p) /\ row' = [row EXCEPT ![p] = x]
    BY <1>1, <1>7, <2>1 DEF SetContainer, CreateTidy
  <2>3. Continues(r, "answered") /\ Others(r) /\ req'[r].seen[p] = x
    BY <2>2, SeesOn
  <2>4. row'[p] = x /\ x.st \in {"running", "failed"} /\ (x.cid <=> req[r].at = "ran")
    BY <1>1, <2>1, <2>2 DEF Created
  <2>5. Exists(p)' /\ Shown(x, p)'
    BY <2>4 DEF Exists, Shown, After
  <2>6. CreateTidy(r)'
    BY <1>1, <2>3, <2>5 DEF CreateTidy, Continues
  <2>7. Owned(p)'
    <3>1. Live(p)' => row'[p].cid
      BY <1>1, <2>2, <2>4 DEF CreateTidy, Live
    <3>2. row'[p].st # "pending"
      BY <2>4
    <3>3. QED
      BY <2>5, <3>1, <3>2 DEF Owned
  <2>8. QED
    BY <1>1, <1>2, <2>2, <2>3, <2>5, <2>6, <2>7
<1>8. QED
  BY <1>4, <1>5, <1>6, <1>7

LEMMA DeleteTidies ==
    ASSUME IInv, Tidy, Forward, calm', UNCHANGED pageVars, NEW r \in Request,
           NEW p \in Project, p = req[r].of,
           GetForDelete(r) \/ RemoveContainer(r) \/ DeleteRow(r)
    PROVE  Tidy'
<1>1. /\ req[r].kind = "delete" /\ req[r].at \in {"posted", "removing", "deleting"}
      /\ p \in Project /\ Task(r) /\ DeleteTidy(r) /\ Owned(p)
      /\ row \in [Project -> Row] /\ key \in [Project -> {"none", "active", "deleted"}]
      /\ box \in [Project -> {"none", "running", "exited", "removed"}]
      /\ NoRow("deleted").st = "deleted"
  BY DEF GetForDelete, RemoveContainer, DeleteRow, At, Task, IInv, Tidy, TypeOK, StoreTypeOK, NoRow
<1>2. \A q \in Request : req[q].kind # "create"
  BY <1>1 DEF Tidy, OneTask, Task
<1>3. /\ Live(p) => Exists(p) /\ row[p].cid
      /\ key[p] = "active" => Exists(p)
      /\ row[p].st # "pending"
  BY <1>1, <1>2 DEF Owned, At
<1>4. ASSUME Others(r), (\E at : Continues(r, at)) \/ req'[r] = Free,
             \A q \in Project : q # p => row'[q] = row[q] /\ box'[q] = box[q] /\ key'[q] = key[q],
             DeleteTidy(r)', Owned(p)', Exists(p) => Exists(p)' \/ Deleted(p)',
             Exists(p)' => Exists(p)
      PROVE  Tidy'
  <2>1. CreateTidy(r)' /\ ListTidy(r)'
    BY <1>1, <1>4, FreeIsNothing DEF Continues, CreateTidy, ListTidy, At
  <2>2. \A q \in Project : Owned(q)'
    BY <1>1, <1>4, OwnedElsewhere
  <2>3. \A q \in Project : /\ Exists(q) => Exists(q)' \/ Deleted(q)'
                           /\ Exists(q)' => Exists(q)
    BY <1>1, <1>4 DEF Exists
  <2>4. QED
    BY <1>1, <1>4, <2>1, <2>2, <2>3, TidyAfterTask DEF At
<1>5. CASE GetForDelete(r)
  <2>1. PICK at \in {"removing", "deleting"} :
            Goes(r, at) /\ UNCHANGED <<row, key, box>> /\ (at = "deleting" => ~row[p].cid)
    BY <1>5 DEF GetForDelete
  <2>2. Continues(r, at) /\ Others(r)
    BY <2>1, GoesOn
  <2>3. DeleteTidy(r)' /\ Owned(p)'
    BY <1>1, <1>3, <2>1, <2>2 DEF DeleteTidy, Continues, Live, Owned, Exists
  <2>4. QED
    BY <1>4, <2>1, <2>2, <2>3 DEF Exists
<1>6. CASE RemoveContainer(r)
  <2>1. Goes(r, "deleting") /\ UNCHANGED <<row, key>> /\ box' = [box EXCEPT ![p] = "removed"]
    BY <1>6 DEF RemoveContainer
  <2>2. Continues(r, "deleting") /\ Others(r) /\ ~Live(p)'
    BY <1>1, <2>1, GoesOn DEF Live
  <2>3. DeleteTidy(r)' /\ Owned(p)'
    BY <1>1, <1>3, <2>1, <2>2 DEF DeleteTidy, Continues, Owned, Exists
  <2>4. QED
    BY <1>1, <1>4, <2>1, <2>2, <2>3 DEF Exists
<1>7. CASE DeleteRow(r)
  <2>1. ~Live(p) /\ UNCHANGED box
    BY <1>1, <1>7 DEF DeleteRow, DeleteTidy, At
  <2>2. CASE Exists(p)
    <3>1. /\ row' = [row EXCEPT ![p] = NoRow("deleted")] /\ key' = [key EXCEPT ![p] = "deleted"]
          /\ Goes(r, "answered")
      BY <1>7, <2>2 DEF DeleteRow
    <3>2. Continues(r, "answered") /\ Others(r)
      BY <3>1, GoesOn
    <3>3. row'[p].st = "deleted" /\ key'[p] = "deleted" /\ ~Live(p)'
      BY <1>1, <2>1, <3>1 DEF Live
    <3>4. Deleted(p)' /\ DeleteTidy(r)' /\ Owned(p)'
      BY <1>1, <3>2, <3>3 DEF Deleted, DeleteTidy, Owned, Continues, At
    <3>5. ~Exists(p)'
      BY <3>3 DEF Exists
    <3>6. QED
      BY <1>1, <1>4, <2>1, <3>1, <3>2, <3>4, <3>5
  <2>3. CASE ~Exists(p)
    <3>1. req'[r] = Free /\ Others(r) /\ UNCHANGED <<row, key>>
      BY <1>7, <2>3, EndsOn DEF DeleteRow
    <3>2. DeleteTidy(r)' /\ Owned(p)'
      BY <1>3, <2>1, <3>1, FreeIsNothing DEF DeleteTidy, Owned, Live, Exists
    <3>3. QED
      BY <1>4, <2>1, <3>1, <3>2 DEF Exists
  <2>4. QED
    BY <2>2, <2>3
<1>8. QED
  BY <1>5, <1>6, <1>7

LEMMA TablesLeft ==
    ASSUME IInv, Tidy, NEW r \in Request, req[r].kind # "create", Others(r), UNCHANGED <<row, key, box>>
    PROVE  \A p \in Project : Owned(p)' /\ (Exists(p)' <=> Exists(p))
<1>1. ASSUME NEW p \in Project
      PROVE  Owned(p)'
  <2>1. \A q \in Request : req[q].kind = "create" => req'[q] = req[q]
    BY DEF Others
  <2>2. QED
    BY <2>1 DEF Tidy, Owned, Live, Exists, At
<1>2. QED
  BY <1>1 DEF Exists

LEMMA OtherTidies ==
    ASSUME IInv, Tidy, Forward, UNCHANGED pageVars, NEW r \in Request,
           GetForUpdate(r) \/ WriteUpdate(r) \/ List(r)
    PROVE  Tidy'
<1>1. /\ req[r].kind \in {"update", "list"} /\ Task(r) /\ UNCHANGED <<row, key, box>>
      /\ ~At(r, "delete", "answered")
  BY DEF GetForUpdate, WriteUpdate, List, At, Task
<1>2. row \in [Project -> Row]
  BY DEF IInv, TypeOK, StoreTypeOK
<1>3. ASSUME Others(r), \/ \E at : Continues(r, at)
                        \/ req'[r] = Free /\ req[r].kind = "update",
             ListTidy(r)'
      PROVE  Tidy'
  <2>1. CreateTidy(r)' /\ DeleteTidy(r)'
    BY <1>1, <1>3, FreeIsNothing DEF Continues, CreateTidy, DeleteTidy
  <2>2. \A p \in Project : Owned(p)' /\ (Exists(p)' <=> Exists(p))
    BY <1>1, <1>3, TablesLeft
  <2>3. QED
    BY <1>1, <1>3, <2>1, <2>2, TidyAfterTask
<1>4. CASE GetForUpdate(r) \/ WriteUpdate(r)
  <2>1. req[r].kind = "update"
    BY <1>4 DEF GetForUpdate, WriteUpdate, At
  <2>2. (\E at, list : Answers(r, at, list)) \/ Ends(r)
    BY <1>4 DEF GetForUpdate, WriteUpdate, Sees
  <2>3. Others(r) /\ ((\E at : Continues(r, at)) \/ req'[r] = Free)
    BY <2>2, AnswersOn, EndsOn
  <2>4. ListTidy(r)'
    BY <2>1, <2>3, FreeIsNothing DEF ListTidy, Continues, At
  <2>5. QED
    BY <1>3, <2>1, <2>3, <2>4
<1>5. CASE List(r)
  <2>1. Continues(r, "answered") /\ Others(r)
        /\ req'[r].seen = [p \in Project |-> IF Exists(p) THEN row[p] ELSE NoRow("none")]
    BY <1>5, AnswersOn DEF List
  <2>2. \A q \in Request : req[q].kind # "create"
    BY <1>5 DEF List, Tidy, OneTask, Task, At
  <2>3. ASSUME NEW p \in Project, Exists(p)
        PROVE  Shown(row[p], p)
    <3>1. row[p].st # "pending"
      BY <2>2 DEF Tidy, Owned
    <3>2. row[p].st \in {"running", "failed", "done"}
      BY <1>2, <2>3, <3>1 DEF Exists, Row
    <3>3. QED
      BY <3>2 DEF Shown, After
  <2>4. ASSUME NEW p \in Project
        PROVE  (IF Exists(p) THEN Shown(req[r].seen[p], p) ELSE req[r].seen[p].st = "none")'
    <3>1. PICK x : x = IF Exists(p) THEN row[p] ELSE NoRow("none")
      OBVIOUS
    <3>2. x = req'[r].seen[p] /\ (Exists(p)' <=> Exists(p))
      BY <1>1, <2>1, <3>1 DEF Exists
    <3>3. CASE Exists(p)
      <4>1. Shown(x, p)
        BY <2>3, <3>1, <3>3
      <4>2. Shown(x, p)'
        BY <4>1, ShownStays
      <4>3. QED
        BY <3>2, <3>3, <4>2
    <3>4. CASE ~Exists(p)
      BY <3>1, <3>2, <3>4 DEF NoRow
    <3>5. QED
      BY <3>3, <3>4
  <2>5. ListTidy(r)'
    BY <2>4 DEF ListTidy
  <2>6. QED
    BY <1>3, <2>1, <2>5
<1>6. QED
  BY <1>4, <1>5

\* A poll that leaves the tables or finds the project done
LEMMA TidyAfterPoll ==
    ASSUME IInv, Tidy, Forward, UNCHANGED <<pageVars, box, key>>, NEW r \in Request,
           req[r].kind = "status", Others(r), req'[r] = Free \/ \E at : Continues(r, at),
           \A p \in Project : /\ Exists(p)' <=> Exists(p)
                              /\ row'[p].cid = row[p].cid
                              /\ row'[p].st = "pending" => row[p].st = "pending",
           StatusTidy(r)'
    PROVE  Tidy'
<1>1. PageTidy'
  BY PageLeft DEF At
<1>2. /\ OneTask'
      /\ \A q \in Request : CreateTidy(q)' /\ DeleteTidy(q)' /\ StatusTidy(q)' /\ ListTidy(q)'
  BY PollGoesOn
<1>3. ASSUME NEW p \in Project
      PROVE  Owned(p)'
  <2>1. \A q \in Request : req[q].kind = "create" => req'[q] = req[q]
    BY DEF Others
  <2>2. QED
    BY <2>1 DEF Tidy, Owned, Live, At
<1>4. QED
  BY <1>1, <1>2, <1>3 DEF Tidy

LEMMA PollTidies ==
    ASSUME IInv, Tidy, Forward, UNCHANGED pageVars, NEW r \in Request,
           NEW p \in Project, p = req[r].of, GetStatus(r) \/ Inspect(r) \/ SetDone(r)
    PROVE  Tidy'
<1>1. /\ req[r].kind = "status" /\ StatusTidy(r) /\ StatusOK(r)
      /\ row \in [Project -> Row] /\ req[r].seen \in [Project -> Row]
      /\ UNCHANGED <<box, key>>
  BY DEF GetStatus, Inspect, SetDone, At, Tidy, IInv, TypeOK, StoreTypeOK, Req
<1>2. \A x : Shown(x, p) => Shown(x, p)'
  BY ShownStays
<1>3. row'[p].st \notin {"none", "pending"}
  BY <1>1, StartedStays DEF StatusTidy
<1>4. CASE GetStatus(r)
  <2>1. UNCHANGED row
    BY <1>4 DEF GetStatus
  <2>2. CASE Exists(p)
    <3>1. PICK at \in {"inspecting", "answered"} : Sees(r, p, row[p], at)
      BY <1>4, <2>2 DEF GetStatus
    <3>2. PICK x \in Row : x = row[p]
      BY <1>1
    <3>3. Continues(r, at) /\ Others(r) /\ req'[r].seen[p] = x
      BY <3>1, <3>2, SeesOn
    <3>4. Shown(x, p)
      <4>1. x.st \in {"running", "failed", "done"}
        BY <1>1, <2>2, <3>2 DEF Exists, StatusTidy, Row
      <4>2. QED
        BY <3>2, <4>1 DEF Shown, After
    <3>5. StatusTidy(r)'
      BY <1>1, <1>2, <1>3, <3>3, <3>4 DEF StatusTidy, Continues
    <3>6. QED
      BY <1>1, <2>1, <3>3, <3>5, TidyAfterPoll DEF Exists
  <2>3. CASE ~Exists(p)
    <3>1. req'[r] = Free /\ Others(r)
      BY <1>4, <2>3, EndsOn DEF GetStatus
    <3>2. StatusTidy(r)'
      BY <3>1, FreeIsNothing DEF StatusTidy
    <3>3. QED
      BY <1>1, <2>1, <3>1, <3>2, TidyAfterPoll DEF Exists
  <2>4. QED
    BY <2>2, <2>3
<1>5. CASE Inspect(r)
  <2>1. PICK at \in {"exited", "answered"} : Goes(r, at) /\ req[r].at = "inspecting" /\ UNCHANGED row
    BY <1>5 DEF Inspect, At
  <2>2. Continues(r, at) /\ Others(r) /\ req'[r].seen = req[r].seen
    BY <2>1, GoesOn
  <2>3. StatusTidy(r)'
    BY <1>1, <1>2, <1>3, <2>1, <2>2 DEF StatusTidy, Continues
  <2>4. QED
    BY <1>1, <2>1, <2>2, <2>3, TidyAfterPoll DEF Exists
<1>6. CASE SetDone(r)
  <2>0. req[r].seen[p] \in Row
    BY <1>1
  <2>1. PICK x \in Row : x = [req[r].seen[p] EXCEPT !.st = "done"] /\ x.st = "done"
    <3>1. /\ [req[r].seen[p] EXCEPT !.st = "done"] \in Row
          /\ [req[r].seen[p] EXCEPT !.st = "done"].st = "done"
      BY <2>0 DEF Row
    <3>2. QED
      BY <3>1
  <2>2. /\ Sees(r, p, x, "answered") /\ At(r, "status", "exited")
        /\ row' = IF Exists(p) THEN [row EXCEPT ![p].st = "done"] ELSE row
    BY <1>6, <2>1 DEF SetDone
  <2>3. Continues(r, "answered") /\ Others(r) /\ req'[r].seen[p] = x
    BY <2>2, SeesOn
  <2>4. row[p].st \in {"running", "done", "deleted"}
    BY <1>1, <2>2 DEF StatusOK
  <2>5. /\ \A q \in Project : q # p => row'[q] = row[q]
        /\ row'[p].cid = row[p].cid
        /\ row'[p].st = IF row[p].st = "deleted" THEN "deleted" ELSE "done"
    BY <1>1, <2>2, <2>4 DEF Exists, Row
  <2>6. Shown(x, p)'
    BY <2>1, <2>5 DEF Shown, After
  <2>7. StatusTidy(r)'
    BY <1>1, <1>3, <2>3, <2>6 DEF StatusTidy, Continues
  <2>8. \A q \in Project : /\ Exists(q)' <=> Exists(q)
                           /\ row'[q].cid = row[q].cid
                           /\ row'[q].st = "pending" => row[q].st = "pending"
    BY <2>4, <2>5 DEF Exists
  <2>9. QED
    BY <1>1, <2>3, <2>7, <2>8, TidyAfterPoll
<1>7. QED
  BY <1>4, <1>5, <1>6

LEMMA OutsideTidies ==
    ASSUME IInv, Tidy, UNCHANGED pageVars, NEW p \in Project, Exit(p) \/ DeleteKey(p),
           box \in [Project -> {"none", "running", "exited", "removed"}],
           key \in [Project -> {"none", "active", "deleted"}]
    PROVE  Tidy'
<1>1. /\ UNCHANGED <<row, req>>
      /\ \A q \in Project : Live(q)' => Live(q)
      /\ \A q \in Project : key'[q] = "active" => key[q] = "active"
  BY DEF Exit, DeleteKey, Live
<1>2. OneTask'
  BY <1>1 DEF Tidy, OneTask, Task
<1>3. ASSUME NEW r \in Request
      PROVE  CreateTidy(r)' /\ DeleteTidy(r)' /\ StatusTidy(r)' /\ ListTidy(r)'
  <2>1. /\ CreateTidy(r) /\ DeleteTidy(r) /\ StatusTidy(r) /\ ListTidy(r)
        /\ req[r].kind \in {"create", "delete"} => req[r].of \in Project
    BY DEF Tidy, IInv, TypeOK, StoreTypeOK
  <2>2. CreateTidy(r)' /\ DeleteTidy(r)'
    BY <1>1, <2>1 DEF CreateTidy, DeleteTidy, Exists, Shown
  <2>3. StatusTidy(r)' /\ ListTidy(r)'
    BY <1>1, <2>1 DEF StatusTidy, ListTidy, At, Exists, Shown
  <2>4. QED
    BY <2>2, <2>3
<1>4. ASSUME NEW q \in Project
      PROVE  Owned(q)'
  BY <1>1 DEF Tidy, Owned, Exists, At
<1>5. PageTidy'
  BY <1>1 DEF Tidy, PageTidy, pageVars, Deleted, Behind, Exists, Shown, At, Listed
<1>6. QED
  BY <1>2, <1>3, <1>4, <1>5 DEF Tidy

LEMMA StoreTidies ==
    ASSUME IInv, calm => Tidy, StoreStep, UNCHANGED pageVars
    PROVE  calm' => Tidy'
<1>0. Forward
  BY RowsForward DEF Next
<1> SUFFICES ASSUME calm'
             PROVE  Tidy'
  OBVIOUS
<1>1. calm /\ Tidy
  BY DEF StoreStep, StoreKey, InsertProject, RunContainer, SetContainer, GetForDelete, RemoveContainer,
         DeleteRow, GetForUpdate, WriteUpdate, GetStatus, Inspect, SetDone, List, Refuse, WriteFails,
         AnswerLost, Exit, DeleteKey, Crash
<1>2. ASSUME NEW r \in Request,
             \/ StoreKey(r) \/ InsertProject(r) \/ RunContainer(r) \/ SetContainer(r)
             \/ GetForDelete(r) \/ RemoveContainer(r) \/ DeleteRow(r)
             \/ GetStatus(r) \/ Inspect(r) \/ SetDone(r)
      PROVE  Tidy'
  <2>1. PICK p \in Project : p = req[r].of
    BY <1>2 DEF StoreKey, InsertProject, RunContainer, SetContainer, GetForDelete, RemoveContainer,
                DeleteRow, GetStatus, Inspect, SetDone, At, IInv, TypeOK, StoreTypeOK
  <2>2. QED
    BY <1>0, <1>1, <1>2, <2>1, CreateTidies, DeleteTidies, PollTidies
<1>3. ASSUME NEW r \in Request, GetForUpdate(r) \/ WriteUpdate(r) \/ List(r)
      PROVE  Tidy'
  BY <1>0, <1>1, <1>3, OtherTidies
<1>4. ASSUME NEW p \in Project, Exit(p) \/ DeleteKey(p)
      PROVE  Tidy'
  BY <1>1, <1>4, OutsideTidies DEF IInv, TypeOK, StoreTypeOK
<1>5. ~(\E r \in Request : Refuse(r) \/ WriteFails(r) \/ AnswerLost(r)) /\ ~Crash
  BY DEF Refuse, WriteFails, AnswerLost, Crash
<1>6. QED
  BY <1>2, <1>3, <1>4, <1>5 DEF StoreStep

(* The page *)

LEMMA NobodyActs ==
    ASSUME Idle, Acts, calm'
    PROVE  calm /\ \A r \in Request : ~Task(r)
  BY DEF Idle, Acts, Task

\* A request is sent: a task only when there is no other
LEMMA SendTidies ==
    ASSUME IInv, Tidy, Idle, NEW kind \in {"create", "delete", "update", "status", "list"},
           NEW p, Send(kind, p), UNCHANGED <<row, key, box, projects, current, timer>>,
           kind = "status" \/ \A r \in Request : ~Task(r),
           kind = "create" => ~Live(p),
           kind = "status" => row[p].st \notin {"none", "pending"},
           mounted' => mounted \/ kind = "list"
    PROVE  Tidy'
<1>1. PICK r \in Request : /\ req[r].at = "free" /\ req[r].kind = "none" /\ Others(r)
                           /\ req'[r].kind = kind /\ req'[r].of = p /\ req'[r].at = "posted"
                           /\ req'[r].mine = TRUE
  <2>1. PICK r \in Request :
            /\ req[r].at = "free"
            /\ req' = [req EXCEPT ![r] = [kind |-> kind, of |-> p, at |-> "posted",
                                          seen |-> Nothing, mine |-> TRUE]]
    BY DEF Send
  <2>2. req[r].kind = "none" /\ req \in [Request -> Req]
    BY <2>1 DEF Idle, IInv, TypeOK, StoreTypeOK
  <2>3. QED
    BY <2>1, <2>2 DEF Others
<1>2. \A q \in Request \ {r} : req'[q] = req[q]
  BY <1>1 DEF Others
<1>3. OneTask'
  BY <1>1, <1>2 DEF Tidy, OneTask, Task
<1>4. ASSUME NEW q \in Request
      PROVE  CreateTidy(q)' /\ DeleteTidy(q)' /\ StatusTidy(q)' /\ ListTidy(q)'
  <2>1. CASE q = r
    BY <1>1, <2>1 DEF CreateTidy, DeleteTidy, StatusTidy, ListTidy, At, Live
  <2>2. CASE q # r
    <3>1. req'[q] = req[q] /\ CreateTidy(q) /\ DeleteTidy(q) /\ StatusTidy(q) /\ ListTidy(q)
      BY <1>2, <2>2 DEF Tidy
    <3>2. QED
      BY <3>1 DEF CreateTidy, DeleteTidy, StatusTidy, ListTidy, At, Live, Exists, Shown
  <2>3. QED
    BY <2>1, <2>2
<1>5. ASSUME NEW q \in Project
      PROVE  Owned(q)'
  <2>1. \A s \in Request : req[s].kind # "none" => req'[s] = req[s]
    BY <1>1, <1>2
  <2>2. QED
    BY <2>1 DEF Tidy, Owned, Live, Exists, At
<1>6. PageTidy'
  <2>1. \A s \in Request : req[s].kind # "none" => req'[s] = req[s]
    BY <1>1, <1>2
  <2>2. (Behind => Behind') /\ (kind = "list" => Behind') /\ \A q : Deleted(q) => Deleted(q)'
    BY <1>1, <2>1 DEF Behind, Deleted, At
  <2>3. \A q \in Listed(projects) : Shown(projects[q], q)' /\ (Exists(q)' \/ Deleted(q)')
    BY <2>2 DEF Tidy, PageTidy, Shown, Exists
  <2>4. mounted' /\ ~Behind' =>
            /\ timer
            /\ \A q \in Project : Exists(q)' => \/ q \in Listed(projects)
                                                \/ \E s \in Request : req'[s].kind = "create" /\ req'[s].of = q
    BY <2>1, <2>2 DEF Tidy, PageTidy, Exists
  <2>5. current = NoProject \/ Exists(current)' \/ Deleted(current)'
    BY <2>2 DEF Tidy, PageTidy, Exists
  <2>6. QED
    BY <2>3, <2>4, <2>5 DEF PageTidy, Listed
<1>7. QED
  BY <1>3, <1>4, <1>5, <1>6 DEF Tidy

\* Nobody waits and the page has been left, or another project has been opened
LEMMA RestTidies ==
    ASSUME IInv, Tidy, UNCHANGED <<row, key, box>>,
           \A r \in Request : /\ req'[r].kind = req[r].kind /\ req'[r].of = req[r].of
                              /\ req'[r].at = req[r].at /\ req'[r].seen = req[r].seen,
           \A r \in Request : Task(r) => req'[r].mine,
           PageTidy'
    PROVE  Tidy'
<1>1. OneTask'
  BY DEF Tidy, OneTask, Task
<1>2. ASSUME NEW r \in Request
      PROVE  CreateTidy(r)' /\ DeleteTidy(r)' /\ StatusTidy(r)' /\ ListTidy(r)'
  <2>1. CreateTidy(r) /\ DeleteTidy(r) /\ StatusTidy(r) /\ ListTidy(r)
    BY DEF Tidy
  <2>2. CreateTidy(r)' /\ DeleteTidy(r)'
    BY <2>1 DEF CreateTidy, DeleteTidy, Live, Exists, Shown
  <2>3. StatusTidy(r)' /\ ListTidy(r)'
    BY <2>1 DEF StatusTidy, ListTidy, At, Exists, Shown
  <2>4. QED
    BY <2>2, <2>3
<1>3. ASSUME NEW p \in Project
      PROVE  Owned(p)'
  BY DEF Tidy, Owned, Live, Exists, At
<1>4. QED
  BY <1>1, <1>2, <1>3 DEF Tidy

LEMMA LeavesTidy ==
    ASSUME IInv, Tidy, Idle, calm', Unmount \/ LoggedOut \/ Reload \/ \E p \in Project : SelectProject(p)
    PROVE  Tidy'
<1>1. CASE Unmount \/ LoggedOut
  <2>1. UNCHANGED <<row, key, box, req, projects, current>> /\ ~mounted'
    BY <1>1 DEF Unmount, LoggedOut
  <2>2. PageTidy'
    BY <2>1 DEF Tidy, PageTidy, Listed, Shown, Exists, Deleted, At
  <2>3. \A r \in Request : Task(r) => req[r].mine
    BY DEF Tidy, OneTask
  <2>4. QED
    BY <2>1, <2>2, <2>3, RestTidies
<1>2. CASE Reload
  <2>1. \A r \in Request : ~Task(r)
    BY <1>2, NobodyActs DEF Reload
  <2>2. /\ UNCHANGED <<row, key, box>> /\ ~mounted' /\ projects' = Nothing /\ current' = NoProject
        /\ req' = [r \in Request |-> [req[r] EXCEPT !.mine = FALSE]]
    BY <1>2 DEF Reload
  <2>3. PageTidy'
    BY <2>2 DEF PageTidy, Listed, Nothing, NoRow
  <2>4. req \in [Request -> Req]
    BY DEF IInv, TypeOK, StoreTypeOK
  <2>5. ASSUME NEW r \in Request
        PROVE  /\ req'[r].kind = req[r].kind /\ req'[r].of = req[r].of
               /\ req'[r].at = req[r].at /\ req'[r].seen = req[r].seen
    BY <2>2, <2>4 DEF Req
  <2>6. QED
    BY <2>1, <2>2, <2>3, <2>5, RestTidies
<1>3. ASSUME NEW p \in Project, SelectProject(p)
      PROVE  Tidy'
  <2>1. UNCHANGED <<row, key, box, req, projects, mounted, timer>> /\ current' = p /\ p \in Listed(projects)
    BY <1>3 DEF SelectProject, storeVars
  <2>2. PageTidy'
    <3>1. PageTidy
      BY DEF Tidy
    <3>2. /\ \A q \in Listed(projects) : Shown(projects[q], q)' /\ (Exists(q)' \/ Deleted(q)')
          /\ Behind' <=> Behind
      BY <2>1, <3>1 DEF PageTidy, Shown, Exists, Deleted, At, Behind
    <3>3. QED
      BY <2>1, <3>1, <3>2 DEF PageTidy, Listed, Exists
  <2>3. \A r \in Request : Task(r) => req[r].mine
    BY DEF Tidy, OneTask
  <2>4. QED
    BY <2>1, <2>2, <2>3, RestTidies
<1>4. QED
  BY <1>1, <1>2, <1>3

\* An answer is heard: what it says is the page's now
LEMMA AnswerTidies ==
    ASSUME IInv, Tidy, Idle, NEW r \in Request, req[r].at = "answered",
           req' = [req EXCEPT ![r] = Free], UNCHANGED <<row, key, box>>, PageTidy'
    PROVE  Tidy'
<1>1. req'[r] = Free /\ \A q \in Request \ {r} : req'[q] = req[q]
  BY DEF IInv, TypeOK, StoreTypeOK
<1>2. OneTask'
  BY <1>1, FreeIsNothing DEF Tidy, OneTask, Task
<1>3. ASSUME NEW q \in Request
      PROVE  CreateTidy(q)' /\ DeleteTidy(q)' /\ StatusTidy(q)' /\ ListTidy(q)'
  <2>1. CASE q = r
    BY <1>1, <2>1, FreeIsNothing DEF CreateTidy, DeleteTidy, StatusTidy, ListTidy, At
  <2>2. CASE q # r
    <3>1. req'[q] = req[q] /\ CreateTidy(q) /\ DeleteTidy(q) /\ StatusTidy(q) /\ ListTidy(q)
      BY <1>1, <2>2 DEF Tidy
    <3>2. QED
      BY <3>1 DEF CreateTidy, DeleteTidy, StatusTidy, ListTidy, At, Live, Exists, Shown
  <2>3. QED
    BY <2>1, <2>2
<1>4. ASSUME NEW p \in Project
      PROVE  Owned(p)'
  <2>1. \A q \in Request : req[q].at # "answered" => req'[q] = req[q]
    BY <1>1
  <2>2. QED
    BY <2>1 DEF Tidy, Owned, Live, Exists, At
<1>5. QED
  BY <1>2, <1>3, <1>4 DEF Tidy

\* The parts of PageTidy, once the page has heard of the only task there was
LEMMA PageHears ==
    ASSUME UNCHANGED <<row, mounted>>,
           \A p \in Listed(projects') : Shown(projects'[p], p) /\ Exists(p),
           mounted /\ ~Behind' =>
               /\ timer'
               /\ \A p \in Project : Exists(p) => p \in Listed(projects'),
           current' = NoProject \/ Exists(current') \/ current' \in Listed(projects')
    PROVE  PageTidy'
<1>1. PICK cur, list : cur = current' /\ list = projects'
  OBVIOUS
<1>2. \A p \in Listed(list) : Shown(list[p], p)' /\ Exists(p)'
  BY <1>1 DEF Shown, Exists
<1>3. mounted' /\ ~Behind' => timer' /\ \A p \in Project : Exists(p)' => p \in Listed(list)
  BY <1>1 DEF Exists
<1>4. cur = NoProject \/ Exists(cur)'
  BY <1>1 DEF Exists
<1>5. QED
  BY <1>1, <1>2, <1>3, <1>4 DEF PageTidy

LEMMA NextIsListed ==
    ASSUME NEW open, NEW list, NEW cur \in NextCurrent(open, list)
    PROVE  cur = open \/ cur \in Listed(list)
  BY DEF NextCurrent

LEMMA HearsTidy ==
    ASSUME IInv, Tidy, Idle, NEW r \in Request,
           Loaded(r) \/ ProjectCreated(r) \/ ProjectDeleted(r)
    PROVE  Tidy'
<1>1. /\ req[r].at = "answered" /\ req' = [req EXCEPT ![r] = Free]
      /\ UNCHANGED <<row, key, box, mounted>> /\ Task(r)
  BY DEF Loaded, ProjectCreated, ProjectDeleted, Hears, At, Task
<1>2. /\ req \in [Request -> Req] /\ projects \in [Project -> Row] /\ current \in Project \cup {NoProject}
      /\ req[r].kind \in {"create", "delete"} => req[r].of \in Project
      /\ PageTidy /\ CreateTidy(r) /\ DeleteTidy(r) /\ ListTidy(r)
      /\ Listed(projects) \subseteq Project
  BY DEF IInv, TypeOK, StoreTypeOK, Tidy, Listed
<1>3. /\ req'[r] = Free /\ \A q \in Request \ {r} : req'[q] = req[q] /\ ~Task(q)
  BY <1>1, <1>2 DEF Tidy, OneTask
<1>4. \A p : Deleted(p) => req[r].kind = "delete" /\ req[r].of = p
  BY <1>3 DEF Deleted, Task, At
<1>5. CASE Loaded(r)
  <2>1. /\ req[r].kind = "list" /\ projects' = req[r].seen /\ timer'
        /\ current' \in NextCurrent(current, projects') /\ req[r].seen \in [Project -> Row]
    BY <1>2, <1>5 DEF Loaded, Hears, At, Req
  <2>2. \A p \in Project : IF Exists(p) THEN Shown(projects'[p], p) ELSE projects'[p].st = "none"
    BY <1>1, <1>2, <2>1 DEF ListTidy, At
  <2>3. /\ Listed(projects') \subseteq Project
        /\ \A p \in Project : p \in Listed(projects') <=> Exists(p)
    BY <2>2 DEF Listed, Shown
  <2>4. current' = current \/ current' \in Listed(projects')
    <3>1. PICK list, cur : cur = current' /\ list = projects' /\ cur \in NextCurrent(current, list)
      BY <2>1
    <3>2. QED
      BY <3>1, NextIsListed
  <2>5. current' = NoProject \/ Exists(current') \/ current' \in Listed(projects')
    BY <1>2, <1>4, <2>1, <2>4 DEF PageTidy
  <2>6. PageTidy'
    BY <1>1, <2>1, <2>2, <2>3, <2>5, PageHears
  <2>7. QED
    BY <1>1, <2>6, AnswerTidies
<1>6. CASE ProjectCreated(r)
  <2>1. PICK p \in Project : p = req[r].of
    BY <1>2, <1>6 DEF ProjectCreated, Hears, At
  <2>2. /\ req[r].kind = "create" /\ projects' = [projects EXCEPT ![p] = req[r].seen[p]]
        /\ current' = p /\ UNCHANGED timer /\ Exists(p) /\ Shown(req[r].seen[p], p)
    BY <1>1, <1>2, <1>6, <2>1 DEF ProjectCreated, Hears, At, CreateTidy
  <2>3. /\ \A q \in Project : projects'[q] = IF q = p THEN req[r].seen[p] ELSE projects[q]
        /\ Listed(projects') = Listed(projects) \cup {p}
    BY <1>2, <2>2 DEF Listed, Shown
  <2>4. \A q \in Listed(projects') : Shown(projects'[q], q) /\ Exists(q)
    BY <1>2, <1>4, <2>2, <2>3 DEF PageTidy
  <2>5. Behind => Behind'
    BY <1>3, <2>2 DEF Behind
  <2>6. mounted /\ ~Behind' =>
            /\ timer'
            /\ \A q \in Project : Exists(q) => q \in Listed(projects')
    <3>1. \A q \in Request : req[q].kind = "create" => q = r
      BY <1>3 DEF Task
    <3>2. QED
      BY <1>2, <2>1, <2>2, <2>3, <2>5, <3>1 DEF PageTidy
  <2>7. PageTidy'
    BY <1>1, <1>2, <2>2, <2>3, <2>4, <2>6, PageHears
  <2>8. QED
    BY <1>1, <2>7, AnswerTidies
<1>7. CASE ProjectDeleted(r)
  <2>1. PICK p \in Project : p = req[r].of
    BY <1>2, <1>7 DEF ProjectDeleted, Hears, At
  <2>2. PICK open \in {NoProject, current} :
            /\ req[r].kind = "delete" /\ projects' = [projects EXCEPT ![p] = NoRow("none")]
            /\ current' \in NextCurrent(open, projects')
            /\ UNCHANGED timer /\ row[p].st = "deleted" /\ (open # NoProject => open # p)
    BY <1>1, <1>2, <1>7, <2>1 DEF ProjectDeleted, Hears, At, DeleteTidy
  <2>3. /\ \A q \in Project : projects'[q] = IF q = p THEN NoRow("none") ELSE projects[q]
        /\ Listed(projects') = Listed(projects) \ {p}
    BY <1>2, <2>2 DEF Listed, NoRow
  <2>4. \A q \in Listed(projects') : Shown(projects'[q], q) /\ Exists(q)
    BY <1>2, <1>4, <2>1, <2>3 DEF PageTidy
  <2>5. Behind => Behind'
    BY <1>3, <2>2 DEF Behind
  <2>6. mounted /\ ~Behind' =>
            /\ timer'
            /\ \A q \in Project : Exists(q) => q \in Listed(projects')
    <3>1. \A q \in Request : req[q].kind # "create"
      BY <1>3, <2>2 DEF Task
    <3>2. ~Exists(p)
      BY <2>2 DEF Exists
    <3>3. QED
      BY <1>2, <2>2, <2>3, <2>5, <3>1, <3>2 DEF PageTidy
  <2>7. current' = NoProject \/ Exists(current') \/ current' \in Listed(projects')
    <3>1. open = NoProject \/ Exists(open)
      BY <1>2, <1>4, <2>1, <2>2 DEF PageTidy
    <3>2. PICK list, cur : cur = current' /\ list = projects' /\ cur \in NextCurrent(open, list)
      BY <2>2
    <3>3. QED
      BY <3>1, <3>2, NextIsListed
  <2>8. PageTidy'
    BY <1>1, <1>2, <2>3, <2>4, <2>6, <2>7, PageHears
  <2>9. QED
    BY <1>1, <2>8, AnswerTidies
<1>8. QED
  BY <1>5, <1>6, <1>7

LEMMA PolledTidies ==
    ASSUME IInv, Tidy, Idle, NEW r \in Request, Polled(r) \/ Ignored(r)
    PROVE  Tidy'
<1>1. /\ req[r].at = "answered" /\ req' = [req EXCEPT ![r] = Free] /\ req[r].kind = "status"
      /\ UNCHANGED <<row, key, box, mounted, current, timer>>
  <2>1. CASE Polled(r)
    BY <2>1 DEF Polled, Hears, At
  <2>2. CASE Ignored(r)
    BY <2>2 DEF Ignored, pageVars, Idle, Tidy, OneTask, Task
  <2>3. QED
    BY <2>1, <2>2
<1>2. PICK p \in Project : p = req[r].of
  BY <1>1 DEF IInv, TypeOK, StoreTypeOK
<1>3. /\ req \in [Request -> Req] /\ projects \in [Project -> Row]
      /\ PageTidy /\ Shown(req[r].seen[p], p)
  BY <1>1, <1>2 DEF IInv, TypeOK, StoreTypeOK, Tidy, StatusTidy
<1>4. req'[r] = Free /\ \A q \in Request \ {r} : req'[q] = req[q]
  BY <1>1, <1>3
<1>5. (Behind => Behind') /\ \A q : Deleted(q) => Deleted(q)'
  BY <1>1, <1>4 DEF Behind, Deleted, At
<1>6. /\ Listed(projects') = Listed(projects)
      /\ \A q \in Listed(projects) : projects'[q] = projects[q] \/ Shown(projects'[q], q)
  <2>1. CASE Polled(r) /\ p \in Listed(projects)
    <3>1. projects' = [projects EXCEPT ![p] = req[r].seen[p]]
      BY <1>2, <2>1 DEF Polled
    <3>2. QED
      BY <1>3, <2>1, <3>1 DEF Listed, Shown
  <2>2. CASE ~(Polled(r) /\ p \in Listed(projects))
    BY <1>2, <2>2 DEF Polled, Ignored, pageVars
  <2>3. QED
    BY <2>1, <2>2
<1>7. PageTidy'
  <2>1. PICK list : list = projects'
    OBVIOUS
  <2>2. \A q \in Listed(list) : Shown(list[q], q)' /\ (Exists(q)' \/ Deleted(q)')
    <3>1. ASSUME NEW q \in Listed(projects)
          PROVE  (Exists(q) \/ Deleted(q)') /\ Shown(list[q], q)
      BY <1>3, <1>5, <1>6, <2>1 DEF PageTidy
    <3>2. QED
      BY <1>1, <1>6, <2>1, <3>1 DEF Exists, Shown
  <2>3. mounted' /\ ~Behind' =>
            /\ timer'
            /\ \A q \in Project : Exists(q)' =>
                 \/ q \in Listed(list)
                 \/ \E s \in Request : req'[s].kind = "create" /\ req'[s].of = q
    <3>1. \A s \in Request : req[s].kind = "create" => req'[s] = req[s]
      BY <1>1, <1>4
    <3>2. QED
      BY <1>1, <1>3, <1>5, <1>6, <2>1, <3>1 DEF PageTidy, Exists
  <2>4. current = NoProject \/ Exists(current)' \/ Deleted(current)'
    BY <1>1, <1>3, <1>5 DEF PageTidy, Exists
  <2>5. current' = current
    BY <1>1
  <2>6. QED
    BY <2>1, <2>2, <2>3, <2>4, <2>5 DEF PageTidy
<1>8. QED
  BY <1>1, <1>7, AnswerTidies

LEMMA PageTidies ==
    ASSUME IInv, Idle, calm => Tidy, PageStep
    PROVE  calm' => Tidy'
<1> SUFFICES ASSUME calm'
             PROVE  Tidy'
  OBVIOUS
<1>1. calm /\ Tidy
  BY DEF PageStep, Mount, Unmount, LoggedOut, Reload, OnModelChange, CreateProject, DeleteProject, SelectProject,
         Poll, Loaded, ProjectCreated, ProjectDeleted, Polled, Ignored, Hears, Acts, storeVars
<1>2. CASE Mount
  <2>1. /\ Send("list", NoProject) /\ UNCHANGED <<row, key, box, projects, current, timer>>
        /\ \A r \in Request : ~Task(r)
    BY <1>2, NobodyActs DEF Mount
  <2>2. QED
    BY <1>1, <2>1, SendTidies
<1>3. CASE OnModelChange
  <2>1. /\ Send("update", current) /\ UNCHANGED <<row, key, box, projects, current, timer, mounted>>
        /\ \A r \in Request : ~Task(r)
    BY <1>3, NobodyActs DEF OnModelChange, pageVars
  <2>2. QED
    BY <1>1, <2>1, SendTidies
<1>4. ASSUME NEW p \in Project, CreateProject(p)
      PROVE  Tidy'
  <2>1. /\ Send("create", p) /\ UNCHANGED <<row, key, box, projects, current, timer, mounted>>
        /\ \A r \in Request : ~Task(r)
        /\ row[p].st = "none"
    BY <1>4, NobodyActs DEF CreateProject, pageVars
  <2>2. ~Live(p)
    BY <1>1, <2>1 DEF Tidy, Owned, Exists, Task, At
  <2>3. QED
    BY <1>1, <2>1, <2>2, SendTidies
<1>5. ASSUME NEW p \in Project, DeleteProject(p)
      PROVE  Tidy'
  <2>1. /\ Send("delete", p) /\ UNCHANGED <<row, key, box, projects, current, timer, mounted>>
        /\ \A r \in Request : ~Task(r)
    BY <1>5, NobodyActs DEF DeleteProject, pageVars
  <2>2. QED
    BY <1>1, <2>1, SendTidies
<1>6. ASSUME NEW p \in Project, Poll(p)
      PROVE  Tidy'
  <2>1. /\ Send("status", p) /\ UNCHANGED <<row, key, box, projects, current, timer, mounted>>
        /\ projects[p].st = "running"
    BY <1>6 DEF Poll, pageVars
  <2>2. row[p].st \notin {"none", "pending"}
    BY <1>1, <2>1 DEF Tidy, PageTidy, Listed, Shown, After
  <2>3. QED
    BY <1>1, <2>1, <2>2, SendTidies
<1>7. ASSUME NEW r \in Request,
             Loaded(r) \/ ProjectCreated(r) \/ ProjectDeleted(r) \/ Polled(r) \/ Ignored(r)
      PROVE  Tidy'
  BY <1>1, <1>7, HearsTidy, PolledTidies
<1>8. CASE Unmount \/ LoggedOut \/ Reload \/ \E p \in Project : SelectProject(p)
  BY <1>1, <1>8, LeavesTidy
<1>9. QED
  BY <1>2, <1>3, <1>4, <1>5, <1>6, <1>7, <1>8 DEF PageStep

\* A request is only under way from when it is sent to when it has ended
LEMMA IdleStays ==
    ASSUME IInv, Idle, [Next]_vars
    PROVE  Idle'
<1>1. req \in [Request -> Req] /\ Free.kind = "none" /\ Free.at = "free"
  BY DEF IInv, TypeOK, StoreTypeOK, Free
<1>2. ASSUME \A r \in Request : \/ req'[r] = Free
                                \/ req'[r].kind = req[r].kind /\ req'[r].at = req[r].at
                                \/ req'[r].kind # "none" /\ req'[r].at # "free"
      PROVE  Idle'
  BY <1>1, <1>2 DEF Idle
<1>3. ASSUME NEW r \in Request, req[r].kind # "none" \/ req[r].at # "free",
             \/ Ends(r)
             \/ \E at : at # "free" /\ Goes(r, at)
             \/ \E at, list : at # "free" /\ Answers(r, at, list)
      PROVE  Idle'
  <2>1. /\ req[r].kind # "none"
        /\ Others(r)
        /\ req'[r] = Free \/ \E at : at # "free" /\ Continues(r, at)
    BY <1>3, EndsOn, GoesOn, AnswersOn DEF Idle
  <2>2. QED
    BY <1>2, <2>1 DEF Others, Continues
<1>4. ASSUME NEW kind, NEW p, kind # "none", Send(kind, p)
      PROVE  Idle'
  <2>1. PICK r \in Request : req' = [req EXCEPT ![r] = [kind |-> kind, of |-> p, at |-> "posted",
                                                         seen |-> Nothing, mine |-> TRUE]]
    BY <1>4 DEF Send
  <2>2. QED
    BY <1>1, <1>2, <1>4, <2>1
<1>5. ASSUME NEW r \in Request, req' = [req EXCEPT ![r] = Free]
      PROVE  Idle'
  BY <1>1, <1>2, <1>5
<1>6. CASE PageStep
  <2>1. CASE Mount \/ OnModelChange \/ \E p \in Project : CreateProject(p) \/ DeleteProject(p) \/ Poll(p)
    <3>1. \E kind \in {"list", "update", "create", "delete", "status"} : \E p : Send(kind, p)
      BY <2>1 DEF Mount, OnModelChange, CreateProject, DeleteProject, Poll
    <3>2. QED
      BY <1>4, <3>1
  <2>2. CASE Unmount \/ LoggedOut \/ \E p \in Project : SelectProject(p)
    BY <2>2 DEF Unmount, LoggedOut, SelectProject, storeVars, Idle
  <2>3. CASE Reload
    <3>1. \A r \in Request : req'[r] = [req[r] EXCEPT !.mine = FALSE]
      BY <2>3 DEF Reload
    <3>2. \A r \in Request : req'[r].kind = req[r].kind /\ req'[r].at = req[r].at
      BY <1>1, <3>1 DEF Req
    <3>3. QED
      BY <1>2, <3>2
  <2>4. ASSUME NEW r \in Request,
               Loaded(r) \/ ProjectCreated(r) \/ ProjectDeleted(r) \/ Polled(r) \/ Ignored(r)
        PROVE  Idle'
    <3>1. req' = [req EXCEPT ![r] = Free]
      BY <2>4 DEF Loaded, ProjectCreated, ProjectDeleted, Polled, Ignored, Hears
    <3>2. QED
      BY <1>5, <3>1
  <2>5. QED
    BY <1>6, <2>1, <2>2, <2>3, <2>4 DEF PageStep
<1>7. CASE StoreStep
  <2>1. ASSUME NEW r \in Request,
               \/ StoreKey(r) \/ InsertProject(r) \/ RunContainer(r) \/ GetForDelete(r)
               \/ RemoveContainer(r) \/ DeleteRow(r) \/ Inspect(r)
        PROVE  Idle'
    <3>1. req[r].kind # "none" /\ (Ends(r) \/ \E at : at # "free" /\ Goes(r, at))
      BY <2>1 DEF StoreKey, InsertProject, RunContainer, GetForDelete, RemoveContainer, DeleteRow, Inspect, At
    <3>2. QED
      BY <1>3, <3>1
  <2>2. ASSUME NEW r \in Request,
               SetContainer(r) \/ GetForUpdate(r) \/ WriteUpdate(r) \/ GetStatus(r) \/ SetDone(r) \/ List(r)
        PROVE  Idle'
    <3>1. /\ req[r].kind # "none"
          /\ Ends(r) \/ \E at, list : at # "free" /\ Answers(r, at, list)
      BY <2>2 DEF SetContainer, GetForUpdate, WriteUpdate, GetStatus, SetDone, List, Sees, At
    <3>2. QED
      BY <1>3, <3>1
  <2>3. ASSUME NEW r \in Request, Refuse(r) \/ WriteFails(r) \/ AnswerLost(r)
        PROVE  Idle'
    <3>1. /\ req[r].at # "free"
          /\ Ends(r) \/ \E at, list : at # "free" /\ Answers(r, at, list)
      BY <2>3 DEF Refuse, WriteFails, AnswerLost, Sees
    <3>2. QED
      BY <1>3, <3>1
  <2>4. ASSUME NEW p \in Project, Exit(p) \/ DeleteKey(p)
        PROVE  Idle'
    BY <2>4 DEF Exit, DeleteKey, Idle
  <2>5. CASE Crash
    BY <1>1, <1>2, <2>5 DEF Crash
  <2>6. QED
    BY <1>7, <2>1, <2>2, <2>3, <2>4, <2>5 DEF StoreStep
<1>8. CASE UNCHANGED vars
  BY <1>8 DEF vars, storeVars, Idle
<1>9. QED
  BY <1>6, <1>7, <1>8 DEF Next

LEMMA WaitingIsTidy == Spec => [](Idle /\ (calm => Tidy))
<1>1. Init => Idle /\ (calm => Tidy)
  <2> SUFFICES ASSUME Init
               PROVE  Idle /\ Tidy
    OBVIOUS
  <2>1. /\ \A r \in Request : req[r].kind = "none" /\ req[r].at = "free"
        /\ \A p \in Project : row[p].st = "none" /\ box[p] = "none" /\ key[p] = "none"
                              /\ projects[p].st = "none"
        /\ ~mounted /\ current = NoProject
    BY DEF Init, StoreInit, Free, Nothing, NoRow
  <2>2. Idle /\ OneTask
    BY <2>1 DEF Idle, OneTask, Task
  <2>3. \A r \in Request : CreateTidy(r) /\ DeleteTidy(r) /\ StatusTidy(r) /\ ListTidy(r)
    BY <2>1 DEF CreateTidy, DeleteTidy, StatusTidy, ListTidy, At
  <2>4. (\A p \in Project : Owned(p)) /\ PageTidy
    BY <2>1 DEF Owned, Live, PageTidy, Listed
  <2>5. QED
    BY <2>2, <2>3, <2>4 DEF Tidy
<1>2. IInv /\ Idle /\ (calm => Tidy) /\ [Next]_vars => Idle' /\ (calm => Tidy)'
  <2> SUFFICES ASSUME IInv, Idle, calm => Tidy, [Next]_vars
               PROVE  calm' => Tidy'
    BY IdleStays
  <2>1. CASE PageStep
    BY <2>1, PageTidies
  <2>2. CASE StoreStep /\ UNCHANGED pageVars
    BY <2>2, StoreTidies
  <2>3. CASE UNCHANGED vars
    <3>1. UNCHANGED <<row, key, box, req, calm, mounted, projects, current, timer>>
      BY <2>3 DEF vars, storeVars, pageVars
    <3>2. ASSUME Tidy
          PROVE  Tidy'
      <4>1. PageTidy'
        BY <3>1, <3>2 DEF Tidy, PageTidy, Listed, Shown, Exists, Deleted, Behind, At
      <4>2. \A r \in Request : Task(r) => req[r].mine
        BY <3>2 DEF Tidy, OneTask
      <4>3. QED
        BY <3>1, <3>2, <4>1, <4>2, RestTidies
    <3>3. QED
      BY <3>1, <3>2
  <2>4. QED
    BY <2>1, <2>2, <2>3 DEF Next
<1>3. QED
  BY <1>1, <1>2, InvariantIsInductive, PTL DEF Spec

\* "Container will be removed": however polls, exits and deletes of keys come
\* between the steps of a user who waits, nothing that a project had at the
\* Docker host or among the keys is left when it has no row.
THEOREM NoneOrphaned == Spec => []NoOrphans
<1>1. Idle /\ (calm => Tidy) => NoOrphans
  BY DEF Idle, Tidy, NoOrphans, Quiet, Owned, Live, At
<1>2. QED
  BY <1>1, WaitingIsTidy, InvariantIsInductive, PTL

\* Answers to polls come in any order, and from before a delete: the list of a
\* user who waits is the list of the projects there are.
THEOREM ListIsTrue == Spec => []ListTrue
<1>1. IInv /\ Idle /\ (calm => Tidy) => ListTrue
  <2> SUFFICES ASSUME IInv, Idle, Tidy, Quiet, mounted
               PROVE  /\ timer
                      /\ \A p \in Project :
                          /\ p \in Listed(projects) <=> Exists(p)
                          /\ projects[p].st \in {"none", "running", row[p].st}
                      /\ current \in Listed(projects) \cup {NoProject}
    BY DEF ListTrue
  <2>1. /\ \A r \in Request : req[r].kind = "none"
        /\ current \in Project \cup {NoProject} /\ PageTidy
        /\ Listed(projects) \subseteq Project
    BY DEF Idle, Quiet, IInv, TypeOK, Tidy, Listed
  <2>2. (\A p : ~Deleted(p)) /\ ~Behind
    BY <2>1 DEF Deleted, Behind, At
  <2>3. timer /\ \A p \in Project : p \in Listed(projects) <=> Exists(p)
    BY <2>1, <2>2 DEF PageTidy
  <2>4. ASSUME NEW p \in Project
        PROVE  projects[p].st \in {"none", "running", row[p].st}
    <3>1. CASE p \in Listed(projects)
      BY <2>1, <2>3, <3>1 DEF PageTidy, Shown, After, Exists
    <3>2. CASE p \notin Listed(projects)
      BY <3>2 DEF Listed
    <3>3. QED
      BY <3>1, <3>2
  <2>5. current \in Listed(projects) \cup {NoProject}
    BY <2>1, <2>2, <2>3 DEF PageTidy
  <2>6. QED
    BY <2>3, <2>4, <2>5
<1>2. QED
  BY <1>1, WaitingIsTidy, InvariantIsInductive, PTL

=============================================================================
