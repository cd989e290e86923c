-------------------------- MODULE LoginPageProofs ---------------------------
(***************************************************************************)
(* The properties of LoginPage, for any number of accounts, sessions,      *)
(* requests and tokens.                                                    *)
(***************************************************************************)
EXTENDS LoginPage, TLAPS

-----------------------------------------------------------------------------
(* The inductive invariant *)

\* The places a handler can be at
Stage == [none |-> {"free"},
          start |-> {"sent", "ending", "starting", "answered"},
          status |-> {"sent", "saving", "dropping", "ending", "answered"},
          cancel |-> {"sent", "ending"}, logout |-> {"sent", "clearing"},
          me |-> {"sent", "answered"}, call |-> {"sent", "answered"}]

\* A request, and a session, taken alone
Knows(x) == x.kind \in {"status", "me"} /\ x.ans = "ok"

ReqOK(x) ==
    /\ x \in Req /\ x.at \in Stage[x.kind]
    /\ x.at = "ending" <=> x.of \in Session
    /\ x.at \in {"saving", "clearing"} => x.who \in Account
    /\ Knows(x) => x.who \in Account
    /\ x.at \in {"free", "sent", "saving"} => x.ans = "none"
    /\ x.at = "answered" => x.mine
    /\ x.kind = "none" => ~x.mine

SessOK(s) ==
    /\ s \in Login
    /\ s.status = "success" => s.who \in Account
    /\ s.status = "success" => s.thread = "none"
    /\ s.status = "pending" /\ s.thread = "checking" => s.who \in Account

SessTypes == sess \in [Session -> Login] /\ \A n \in Session : SessOK(sess[n])
ReqTypes == req \in [Request -> Req] /\ \A r \in Request : ReqOK(req[r])
ValueTypes ==
    /\ current \in Session \cup {NoSession}
    /\ users \in [Account -> Token \cup {NoToken}]
    /\ stored \in Token \cup {NoToken}
    /\ calm \in BOOLEAN
Types == SessTypes /\ ReqTypes /\ ValueTypes /\ PageTypeOK

\* A token belongs to one account, and whoever has it knows to which
KnownOwner(x) ==
    Knows(x) /\ x.tok # NoToken => \A a \in Account : users[a] = x.tok => a = x.who
TokensApart ==
    /\ \A a, b \in Account : users[a] = users[b] /\ users[a] # NoToken => a = b
    /\ \A r \in Request : KnownOwner(req[r])
    /\ ShownIsOwner

\* Between a reload and the answer to it nothing else goes on
Mine(r, kind) == req[r].mine /\ req[r].kind = kind
PageOK ==
    /\ view # "login" => button
    /\ ButtonComesBack
    /\ view = "none" => ~polling /\ ~leaked
    /\ \A r \in Request : req[r].mine => (req[r].kind = "me" <=> view = "none")
    /\ \A r \in Request : Mine(r, "me") => req[r].tok = stored
    /\ \A r, q \in Request : Mine(r, "me") /\ Mine(q, "me") => r = q

\* As long as it is calm: one request at a time, of a kind that fits the page
Doing == [none |-> {"me"}, login |-> {"start", "status", "cancel", "logout"}, app |-> {"call"}]
Busy(r) == req[r].at # "free"
Alone ==
    /\ \A r, q \in Request : Busy(r) /\ Busy(q) => r = q
    /\ \A r \in Request : Busy(r) => req[r].mine /\ req[r].kind \in Doing[view]
    /\ ~leaked /\ (polling => ~button /\ view = "login")
    /\ \A r \in Request : req[r].kind = "start" => ~polling /\ ~button

\* ... one session, and it is known,
OneSession ==
    /\ \A r \in Request : req[r].at = "starting" => current = NoSession
    /\ \A r \in Request : req[r].at = "ending" => req[r].of = current
    /\ \A n \in Session : Allocated(n) => n = current
    /\ \A n \in Session : Runs(n) => sess[n].status = "pending"

\* ... and the tokens that have been answered are in the table
Held(x) ==
    /\ x.kind = "call" => x.tok = stored /\ x.ans # "unauthorized"
    /\ Knows(x) => x.tok # NoToken /\ users[x.who] = x.tok
TokensHeld ==
    /\ \A r \in Request : Held(req[r])
    /\ view = "app" => stored # NoToken /\ users[shown] = stored

CalmOK == calm => Alone /\ OneSession /\ TokensHeld

IInv == Types /\ TokensApart /\ PageOK /\ CalmOK

\* What the handlers' steps have in common: the request goes on, or is over
Serves(r, x) ==
    /\ Becomes(r, x) /\ ReqOK(x) /\ Busy(r)
    /\ \/ x = Free /\ ~(req[r].mine /\ req[r].kind \in {"start", "status", "me", "call"})
       \/ /\ x.kind = req[r].kind /\ x.mine = req[r].mine /\ x.at # "free"
          /\ x.kind # "status" => x.tok = req[r].tok
    /\ UNCHANGED <<stored, calm, pageVars>>

-----------------------------------------------------------------------------
(* The invariant implies the properties *)

LEMMA InvImplies ==
  ASSUME IInv
  PROVE  /\ TypeOK /\ OneLogin /\ LoginHolds
         /\ ShownIsOwner /\ ButtonComesBack
<1>1. TypeOK
  BY DEF IInv, Types, SessTypes, ReqTypes, ValueTypes, TypeOK, LoginTypeOK, AuthTypeOK, ReqOK, SessOK, Knows
<1>2. OneLogin
  BY DEF IInv, CalmOK, OneSession, OneLogin, Ending
<1>3. LoginHolds
  BY DEF IInv, CalmOK, TokensHeld, LoginHolds
<1> QED BY <1>1, <1>2, <1>3 DEF IInv, TokensApart, PageOK

LEMMA InitInv == Init => IInv
<1> SUFFICES ASSUME Init PROVE IInv
  OBVIOUS
<1> USE DEF Init, LoginInit, AuthInit
<1>1. Types
  <2>1. SessOK(NoLogin) /\ NoLogin \in Login
    BY DEF SessOK, NoLogin, Login
  <2>2. ReqOK(Free) /\ Free \in Req
    BY LoginAssumption DEF ReqOK, Free, Req, Stage, Knows
  <2> QED BY <2>1, <2>2 DEF Types, SessTypes, ReqTypes, ValueTypes, PageTypeOK
<1>2. \A r \in Request : req[r] = Free
  OBVIOUS
<1>3. TokensApart
  BY <1>2 DEF TokensApart, ShownIsOwner, KnownOwner, Knows, Free
<1>4. PageOK
  BY <1>2 DEF PageOK, ButtonComesBack, Mine, Free
<1>5. CalmOK
  BY <1>2 DEF CalmOK, Alone, OneSession, TokensHeld, Busy, Free, Held, Knows, Allocated, Runs, NoLogin
<1> QED BY <1>1, <1>3, <1>4, <1>5 DEF IInv

-----------------------------------------------------------------------------
(* Requests *)

LEMMA FreeOK == ReqOK(Free) /\ Free \in Req
  BY LoginAssumption DEF ReqOK, Free, Req, Stage, Knows

LEMMA OneChanges ==
  ASSUME ReqTypes, NEW r \in Request, NEW x, ReqOK(x), Becomes(r, x)
  PROVE  ReqTypes' /\ req'[r] = x /\ \A q \in Request \ {r} : req'[q] = req[q]
  BY DEF ReqTypes, Becomes, ReqOK

\* A handler's step is none of the page's business until the answer comes
LEMMA ServesPage ==
  ASSUME IInv, NEW r \in Request, NEW x, Serves(r, x)
  PROVE  /\ ReqTypes' /\ PageTypeOK' /\ PageOK'
         /\ calm' => calm /\ Alone /\ Alone'
<1>1. ReqTypes' /\ req'[r] = x /\ \A q \in Request \ {r} : req'[q] = req[q]
  BY OneChanges DEF IInv, Types, Serves
<1>2. PageTypeOK'
  BY DEF IInv, Types, Serves, PageTypeOK, pageVars
<1>3. UNCHANGED <<view, button, polling, leaked, shown, stored, calm>>
  BY DEF Serves, pageVars
<1>4. \A q \in Request : req'[q].mine => req[q].mine /\ req'[q].kind = req[q].kind
  BY <1>1 DEF Serves, Free
<1>5. \A q \in Request : Mine(q, "me") /\ req'[q].mine => req'[q].tok = req[q].tok
  BY <1>1 DEF Serves, Free, Mine
<1>6. \A q \in Request : Mine(q, "start") => req'[q].kind = "start" /\ req'[q].mine
  BY <1>1 DEF Serves, Free, Mine
<1>7. PageOK'
  BY <1>3, <1>4, <1>5, <1>6 DEF IInv, PageOK, Mine, ButtonComesBack
<1>8. \A q \in Request : Busy(q)' => Busy(q) /\ req'[q].mine = req[q].mine /\ req'[q].kind = req[q].kind
  BY <1>1 DEF Serves, Free, Busy
<1>9. \A q \in Request : req'[q].kind = "start" => req[q].kind = "start"
  BY <1>1 DEF Serves, Free
<1> QED BY <1>1, <1>2, <1>3, <1>7, <1>8, <1>9 DEF IInv, CalmOK, Alone

\* A step that leaves the table of users alone and finds out nothing new
LEMMA ServesTokens ==
  ASSUME IInv, NEW r \in Request, NEW x, Serves(r, x), UNCHANGED users,
         KnownOwner(x), calm => Held(x)
  PROVE  TokensApart' /\ (calm' => TokensHeld')
<1>1. req'[r] = x /\ \A q \in Request \ {r} : req'[q] = req[q]
  BY OneChanges DEF IInv, Types, Serves
<1>2. UNCHANGED <<view, shown, stored, calm>>
  BY DEF Serves, pageVars
<1>3. TokensApart'
  BY <1>1, <1>2 DEF IInv, TokensApart, KnownOwner, Knows, ShownIsOwner
<1>4. calm' => TokensHeld'
  BY <1>1, <1>2 DEF IInv, CalmOK, TokensHeld, Held, Knows
<1> QED BY <1>3, <1>4

\* A step that leaves the sessions alone
LEMMA ServesSessions ==
  ASSUME IInv, NEW r \in Request, NEW x, Serves(r, x), UNCHANGED <<sess, current>>,
         x.at # "ending", x.at = "starting" => current = NoSession
  PROVE  SessTypes' /\ (calm' => OneSession')
<1>1. req'[r] = x /\ \A q \in Request \ {r} : req'[q] = req[q]
  BY OneChanges DEF IInv, Types, Serves
<1>2. UNCHANGED calm
  BY DEF Serves
<1> QED BY <1>1, <1>2 DEF IInv, Types, SessTypes, CalmOK, OneSession, Allocated, Runs

\* What a handler answers
LEMMA AnsweredServes ==
  ASSUME IInv, NEW r \in Request, NEW y, ReqOK(y), Busy(r),
         y.kind = req[r].kind, y.mine = req[r].mine, y.tok = req[r].tok \/ y.kind = "status",
         y.kind # "none",
         NEW ans \in {"none", "ok", "pending", "error", "failed", "unauthorized"},
         ans = "ok" /\ y.kind \in {"status", "me"} => y.who \in Account,
         Becomes(r, Answered(y, ans)), UNCHANGED <<stored, calm, pageVars>>
  PROVE  /\ Serves(r, Answered(y, ans))
         /\ Answered(y, ans).at \in {"free", "answered"}
         /\ \/ Answered(y, ans) = Free
            \/ /\ Answered(y, ans).kind = y.kind /\ Answered(y, ans).tok = y.tok
               /\ Answered(y, ans).who = y.who /\ Answered(y, ans).ans = ans
<1> DEFINE z == [y EXCEPT !.at = "answered", !.of = NoSession, !.ans = ans]
<1>1. CASE ~(y.mine /\ y.kind \in {"start", "status", "me", "call"})
  <2>1. Answered(y, ans) = Free
    BY <1>1 DEF Answered
  <2> QED BY <2>1, <1>1, FreeOK DEF Serves, Free
<1>2. CASE y.mine /\ y.kind \in {"start", "status", "me", "call"}
  <2>1. Answered(y, ans) = z
    BY <1>2 DEF Answered
  <2>2. /\ z \in Req /\ z.at = "answered" /\ z.of = NoSession /\ z.ans = ans /\ z.kind = y.kind
        /\ z.mine = y.mine /\ z.tok = y.tok /\ z.who = y.who
    BY ZenonT(60) DEF ReqOK, Req
  <2>3. ReqOK(z)
    BY <1>2, <2>2, LoginAssumption DEF ReqOK, Stage, Knows
  <2> QED BY <2>1, <2>2, <2>3 DEF Serves
<1> QED BY <1>1, <1>2

-----------------------------------------------------------------------------
(* The handlers *)

\* Waiting for the thread of the session that is current
LEMMA EndCurrentInv ==
  ASSUME IInv, NEW r \in Request, req[r].kind \in {"start", "status", "cancel"}, Busy(r),
         NEW ans \in {"none", "ok", "pending", "error", "failed", "unauthorized"},
         ans = "ok" /\ req[r].kind = "status" => req[r].ans = "ok",
         EndCurrent(r, ans), UNCHANGED <<users, stored, calm, pageVars>>
  PROVE  IInv'
<1> DEFINE x == [req[r] EXCEPT !.at = "ending", !.of = current, !.ans = ans]
<1>1. current \in Session /\ UNCHANGED current /\ req[r] \in Req /\ ReqOK(req[r])
  BY DEF EndCurrent, IInv, Types, ValueTypes, ReqTypes
<1>2. /\ x \in Req /\ x.at = "ending" /\ x.of = current /\ x.ans = ans /\ x.kind = req[r].kind
      /\ x.mine = req[r].mine /\ x.tok = req[r].tok /\ x.who = req[r].who
  BY <1>1, ZenonT(60) DEF Req
<1>3. ReqOK(x)
  BY <1>1, <1>2 DEF ReqOK, Stage, Knows
<1>4. Serves(r, x)
  BY <1>2, <1>3 DEF Serves, EndCurrent
<1>5. ReqTypes' /\ PageTypeOK' /\ PageOK' /\ (calm' => calm /\ Alone /\ Alone')
  BY <1>4, ServesPage
<1>6. KnownOwner(x) /\ (calm => Held(x))
  BY <1>2 DEF IInv, TokensApart, KnownOwner, CalmOK, TokensHeld, Held, Knows
<1>7. TokensApart' /\ (calm' => TokensHeld')
  BY <1>4, <1>6, ServesTokens
<1>8. sess' = [sess EXCEPT ![current] = [sess[current] EXCEPT !.cancelled = TRUE]]
  BY DEF EndCurrent, Cancelled
<1>9. SessTypes'
  <2>1. SessOK([sess[current] EXCEPT !.cancelled = TRUE])
    BY <1>1 DEF IInv, Types, SessTypes, SessOK, Login
  <2> QED BY <1>1, <1>8, <2>1 DEF IInv, Types, SessTypes, SessOK
<1>10. calm' => OneSession'
  <2>1. req'[r] = x /\ \A q \in Request \ {r} : req'[q] = req[q]
    BY <1>3, OneChanges DEF IInv, Types, EndCurrent
  <2>2. \A n \in Session : sess'[n].status = sess[n].status /\ sess'[n].thread = sess[n].thread
    BY <1>1, <1>8 DEF IInv, Types, SessTypes, Login
  <2> SUFFICES ASSUME calm' PROVE OneSession'
    OBVIOUS
  <2>3. OneSession
    BY <1>5 DEF IInv, CalmOK
  <2>4. req'[r].at # "starting" /\ req'[r].of = current
    BY <1>2, <2>1
  <2>5. \A q \in Request : req'[q].at = "starting" => current' = NoSession
    BY <1>1, <2>1, <2>3, <2>4 DEF OneSession
  <2>6. \A q \in Request : req'[q].at = "ending" => req'[q].of = current'
    BY <1>1, <2>1, <2>3, <2>4 DEF OneSession
  <2>7. \A n \in Session : Allocated(n)' => n = current'
    BY <1>1, <2>2, <2>3 DEF OneSession, Allocated
  <2>8. \A n \in Session : Runs(n)' => sess'[n].status = "pending"
    BY <2>2, <2>3 DEF OneSession, Runs
  <2> QED BY <2>5, <2>6, <2>7, <2>8 DEF OneSession
<1> QED BY <1>1, <1>5, <1>7, <1>9, <1>10 DEF IInv, Types, ValueTypes, CalmOK

\* A step of a handler that touches neither sessions nor users
LEMMA QuietStepInv ==
  ASSUME IInv, NEW r \in Request, NEW x, Serves(r, x), UNCHANGED <<sess, current, users>>,
         x.at # "ending", x.at = "starting" => current = NoSession,
         KnownOwner(x), calm => Held(x)
  PROVE  IInv'
<1>1. /\ ReqTypes' /\ PageTypeOK' /\ PageOK' /\ (calm' => Alone')
      /\ TokensApart' /\ (calm' => TokensHeld') /\ SessTypes' /\ (calm' => OneSession')
  BY ServesPage, ServesTokens, ServesSessions
<1> QED BY <1>1 DEF IInv, Types, ValueTypes, CalmOK, Serves

\* An answer with nothing in it
LEMMA PlainAnswerInv ==
  ASSUME IInv, NEW r \in Request, Busy(r),
         NEW ans \in {"none", "pending", "error", "failed"},
         Answers(r, ans), UNCHANGED <<sess, current, users, stored, calm, pageVars>>
  PROVE  IInv'
<1> DEFINE x == Answered(req[r], ans)
<1>1. ReqOK(req[r]) /\ req[r].kind # "none"
  BY DEF IInv, Types, ReqTypes, ReqOK, Stage, Busy, Req
<1>2. /\ Serves(r, x) /\ x.at \in {"free", "answered"}
      /\ x = Free \/ (x.kind = req[r].kind /\ x.tok = req[r].tok /\ x.ans = ans)
  BY <1>1, AnsweredServes DEF Answers
<1>3. KnownOwner(x) /\ (calm => Held(x))
  BY <1>2 DEF KnownOwner, Knows, Held, IInv, CalmOK, TokensHeld, Free
<1> QED BY <1>2, <1>3, QuietStepInv

LEMMA ReqFacts ==
  ASSUME IInv, NEW r \in Request
  PROVE  /\ req[r] \in Req /\ ReqOK(req[r]) /\ KnownOwner(req[r]) /\ (calm => Held(req[r]))
         /\ req[r].at # "free" => Busy(r) /\ req[r].kind # "none"
  BY DEF IInv, Types, ReqTypes, ReqOK, Stage, Busy, Req, TokensApart, CalmOK, TokensHeld

LEMMA StartInv ==
  ASSUME IInv, NEW r \in Request, Start(r), UNCHANGED pageVars
  PROVE  IInv'
<1> DEFINE x == [req[r] EXCEPT !.at = "starting"]
<1>1. req[r].kind = "start" /\ req[r].at = "sent" /\ Busy(r) /\ req[r] \in Req /\ ReqOK(req[r])
  BY ReqFacts DEF Start, At
<1>2. CASE EndCurrent(r, "none")
  BY <1>1, <1>2, EndCurrentInv DEF Start
<1>3. CASE current = NoSession /\ Becomes(r, x) /\ UNCHANGED <<sess, current>>
  <2>1. /\ x \in Req /\ x.at = "starting" /\ x.kind = "start" /\ x.mine = req[r].mine
        /\ x.tok = req[r].tok /\ x.of = req[r].of
    BY <1>1 DEF Req
  <2>2. ReqOK(x)
    BY <1>1, <2>1 DEF ReqOK, Stage, Knows
  <2>3. Serves(r, x)
    BY <1>1, <1>3, <2>1, <2>2 DEF Serves, Start
  <2>4. KnownOwner(x) /\ Held(x)
    BY <2>1 DEF KnownOwner, Knows, Held
  <2> QED BY <1>3, <2>1, <2>3, <2>4, QuietStepInv DEF Start
<1> QED BY <1>2, <1>3 DEF Start

\* The new session is the only one, or there is none
LEMMA StartSessionInv ==
  ASSUME IInv, NEW r \in Request, StartSession(r), UNCHANGED pageVars
  PROVE  IInv'
<1>1. req[r].kind = "start" /\ req[r].at = "starting" /\ Busy(r) /\ ReqOK(req[r])
  BY ReqFacts DEF StartSession, At
<1>2. CASE current' = NoSession /\ Answers(r, "failed") /\ UNCHANGED sess
  <2> DEFINE x == Answered(req[r], "failed")
  <2>1. /\ Serves(r, x) /\ x.at \in {"free", "answered"}
        /\ x = Free \/ (x.kind = req[r].kind /\ x.ans = "failed")
    BY <1>1, <1>2, AnsweredServes DEF Answers, StartSession
  <2>2. KnownOwner(x) /\ Held(x)
    BY <1>1, <2>1 DEF KnownOwner, Knows, Held, Free
  <2>3. /\ ReqTypes' /\ PageTypeOK' /\ PageOK' /\ (calm' => calm /\ Alone /\ Alone')
        /\ TokensApart' /\ (calm' => TokensHeld')
    BY <2>1, <2>2, ServesPage, ServesTokens DEF StartSession
  <2>4. req'[r] = x /\ \A q \in Request \ {r} : req'[q] = req[q]
    BY <2>1, OneChanges DEF IInv, Types, Serves
  <2>5. calm' => OneSession'
    BY <1>1, <1>2, <2>1, <2>3, <2>4 DEF IInv, CalmOK, OneSession, Allocated, Runs
  <2> QED BY <1>2, <2>3, <2>5 DEF IInv, Types, SessTypes, ValueTypes, CalmOK, StartSession
<1>3. ASSUME NEW n \in Session, NEW s \in Started, Available(n), current' = n,
             sess' = [sess EXCEPT ![n] = s], Answers(r, "ok")
      PROVE  IInv'
  <2> DEFINE x == Answered(req[r], "ok")
  <2>1. /\ Serves(r, x) /\ x.at \in {"free", "answered"}
        /\ x = Free \/ (x.kind = req[r].kind /\ x.ans = "ok")
    BY <1>1, <1>3, AnsweredServes DEF Answers, StartSession
  <2>2. KnownOwner(x) /\ Held(x)
    BY <1>1, <2>1 DEF KnownOwner, Knows, Held, Free
  <2>3. /\ ReqTypes' /\ PageTypeOK' /\ PageOK' /\ (calm' => calm /\ Alone /\ Alone')
        /\ TokensApart' /\ (calm' => TokensHeld')
    BY <2>1, <2>2, ServesPage, ServesTokens DEF StartSession
  <2>4. req'[r] = x /\ \A q \in Request \ {r} : req'[q] = req[q]
    BY <2>1, OneChanges DEF IInv, Types, Serves
  <2>5. SessOK(s) /\ (s.thread # "none" => s.status = "pending")
    BY DEF Started, SessOK, NoLogin, Login
  <2>6. sess'[n] = s /\ \A m \in Session \ {n} : sess'[m] = sess[m]
    BY <1>3 DEF IInv, Types, SessTypes
  <2>7. SessTypes'
    BY <1>3, <2>5, <2>6 DEF IInv, Types, SessTypes, SessOK
  <2>8. calm' => OneSession'
    <3> SUFFICES ASSUME calm' PROVE OneSession'
      OBVIOUS
    <3>1. Alone /\ OneSession /\ calm
      BY <2>3 DEF IInv, CalmOK
    <3>2. \A q \in Request \ {r} : ~Busy(q)
      BY <3>1, <1>1 DEF Alone
    <3>3. \A q \in Request : req'[q].at \notin {"starting", "ending"}
      BY <2>1, <2>4, <3>2 DEF Busy
    <3>4. current = NoSession
      BY <1>1, <3>1 DEF OneSession
    <3>5. \A m \in Session : ~Allocated(m)
      BY <3>1, <3>4, LoginAssumption DEF OneSession
    <3>6. \A m \in Session \ {n} : ~Runs(m)
      BY <3>1, <3>5 DEF OneSession, Allocated
    <3>7. \A m \in Session : Allocated(m)' => m = current'
      BY <1>3, <2>6, <3>5 DEF Allocated
    <3>8. \A m \in Session : Runs(m)' => sess'[m].status = "pending"
      BY <2>5, <2>6, <3>6 DEF Runs
    <3> QED BY <3>3, <3>7, <3>8 DEF OneSession
  <2> QED BY <1>3, <2>3, <2>7, <2>8 DEF IInv, Types, ValueTypes, CalmOK, StartSession
<1> QED BY <1>2, <1>3 DEF StartSession

LEMMA StatusInv ==
  ASSUME IInv, NEW r \in Request, Status(r), UNCHANGED pageVars
  PROVE  IInv'
<1> DEFINE x == [req[r] EXCEPT !.at = "saving", !.who = sess[current].who]
<1>1. /\ req[r].kind = "status" /\ req[r].at = "sent" /\ Busy(r)
      /\ req[r] \in Req /\ ReqOK(req[r]) /\ KnownOwner(req[r])
  BY ReqFacts DEF Status, At
<1>2. CASE Answers(r, "failed") /\ UNCHANGED <<sess, current>>
  BY <1>1, <1>2, PlainAnswerInv DEF Status
<1>3. CASE Answers(r, "pending") /\ UNCHANGED <<sess, current>>
  BY <1>1, <1>3, PlainAnswerInv DEF Status
<1>4. CASE EndCurrent(r, "error")
  BY <1>1, <1>4, EndCurrentInv DEF Status
<1>5. CASE /\ current # NoSession /\ sess[current].status = "success"
           /\ Becomes(r, x) /\ UNCHANGED <<sess, current>>
  <2>1. sess[current].who \in Account
    BY <1>5 DEF IInv, Types, ValueTypes, SessTypes, SessOK
  <2>2. /\ x \in Req /\ x.at = "saving" /\ x.kind = "status" /\ x.mine = req[r].mine
        /\ x.ans = req[r].ans /\ x.of = req[r].of /\ x.who \in Account
    BY <1>1, <2>1 DEF Req
  <2>3. ReqOK(x)
    BY <1>1, <2>2 DEF ReqOK, Stage, Knows
  <2>4. Serves(r, x)
    BY <1>1, <1>5, <2>2, <2>3 DEF Serves, Status
  <2>5. ~Knows(req[r])
    BY <1>1 DEF IInv, Types, ReqTypes, ReqOK, Knows
  <2>6. KnownOwner(x) /\ Held(x)
    BY <1>1, <2>2, <2>5 DEF KnownOwner, Knows, Held
  <2> QED BY <1>5, <2>2, <2>4, <2>6, QuietStepInv DEF Status
<1> QED BY <1>2, <1>3, <1>4, <1>5 DEF Status

\* A new token is nobody else's
LEMMA SaveTokenInv ==
  ASSUME IInv, NEW r \in Request, SaveToken(r), UNCHANGED pageVars
  PROVE  IInv'
<1>1. /\ req[r].kind = "status" /\ req[r].at = "saving" /\ Busy(r) /\ req[r].who \in Account
      /\ req[r] \in Req /\ ReqOK(req[r])
  <2>1. req[r].at = "saving" /\ Busy(r) /\ req[r] \in Req /\ ReqOK(req[r])
    BY ReqFacts DEF SaveToken
  <2>2. req[r].kind = "status"
    BY <2>1 DEF ReqOK, Stage, Req
  <2> QED BY <2>1, <2>2 DEF ReqOK
<1>2. CASE Becomes(r, [req[r] EXCEPT !.at = "dropping", !.ans = "failed"]) /\ UNCHANGED users
  <2> DEFINE x == [req[r] EXCEPT !.at = "dropping", !.ans = "failed"]
  <2>1. /\ x \in Req /\ x.at = "dropping" /\ x.kind = "status" /\ x.mine = req[r].mine
        /\ x.ans = "failed" /\ x.of = req[r].of
    BY <1>1 DEF Req
  <2>2. ReqOK(x)
    BY <1>1, <2>1 DEF ReqOK, Stage, Knows
  <2>3. Serves(r, x)
    BY <1>1, <1>2, <2>1, <2>2 DEF Serves, SaveToken
  <2>4. KnownOwner(x) /\ Held(x)
    BY <2>1 DEF KnownOwner, Knows, Held
  <2> QED BY <1>2, <2>1, <2>3, <2>4, QuietStepInv DEF SaveToken
<1>3. ASSUME NEW t \in Token, Fresh(t),
             Becomes(r, [req[r] EXCEPT !.at = "dropping", !.ans = "ok", !.tok = t]),
             users' = [users EXCEPT ![req[r].who] = t]
      PROVE  IInv'
  <2> DEFINE x == [req[r] EXCEPT !.at = "dropping", !.ans = "ok", !.tok = t]
  <2>1. /\ x \in Req /\ x.at = "dropping" /\ x.kind = "status" /\ x.mine = req[r].mine
        /\ x.ans = "ok" /\ x.of = req[r].of /\ x.tok = t /\ x.who = req[r].who
    BY <1>1 DEF Req
  <2>2. ReqOK(x)
    BY <1>1, <2>1 DEF ReqOK, Stage, Knows
  <2>3. Serves(r, x)
    BY <1>1, <1>3, <2>1, <2>2 DEF Serves, SaveToken
  <2>4. /\ ReqTypes' /\ PageTypeOK' /\ PageOK' /\ (calm' => calm /\ Alone /\ Alone')
        /\ SessTypes' /\ (calm' => OneSession')
    BY <2>1, <2>3, ServesPage, ServesSessions DEF SaveToken
  <2>5. req'[r] = x /\ \A q \in Request \ {r} : req'[q] = req[q]
    BY <2>3, OneChanges DEF IInv, Types, Serves
  <2>6. users \in [Account -> Token \cup {NoToken}] /\ users' \in [Account -> Token \cup {NoToken}]
    BY <1>3 DEF IInv, Types, ValueTypes
  <2>7. users'[req[r].who] = t /\ \A a \in Account \ {req[r].who} : users'[a] = users[a]
    BY <1>1, <1>3, <2>6
  <2>8. t # stored /\ t # NoToken /\ (\A a \in Account : users[a] # t) /\ \A q \in Request : req[q].tok # t
    BY <1>3, NoTokenAssumption DEF Fresh
  <2>9. UNCHANGED <<view, shown, stored, calm>>
    BY DEF SaveToken, pageVars
  <2>10. TokensApart'
    <3>1. \A a, b \in Account : users'[a] = users'[b] /\ users'[a] # NoToken => a = b
      BY <2>7, <2>8 DEF IInv, TokensApart
    <3>2. KnownOwner(req[r])'
      BY <2>1, <2>5, <2>7, <2>8 DEF KnownOwner, Knows
    <3>3. ASSUME NEW q \in Request \ {r} PROVE KnownOwner(req[q])'
      BY <1>1, <2>5, <2>7, <2>8 DEF IInv, TokensApart, KnownOwner, Knows
    <3>4. \A q \in Request : KnownOwner(req[q])'
      BY <2>5, <3>2, <3>3
    <3>5. ShownIsOwner'
      BY <2>7, <2>8, <2>9 DEF IInv, TokensApart, ShownIsOwner
    <3> QED BY <3>1, <3>4, <3>5 DEF TokensApart
  <2>11. calm' => TokensHeld'
    <3> SUFFICES ASSUME calm' PROVE TokensHeld'
      OBVIOUS
    <3>1. view # "app" /\ \A q \in Request \ {r} : ~Busy(q)
      BY <1>1, <2>4 DEF Alone, Doing, IInv, Types, PageTypeOK
    <3>2. Held(req[r])'
      BY <1>1, <2>1, <2>5, <2>7, <2>8 DEF Held, Knows
    <3>3. \A q \in Request \ {r} : req[q].kind = "none"
      BY <3>1 DEF IInv, Types, ReqTypes, ReqOK, Stage, Busy, Req
    <3>4. \A q \in Request \ {r} : Held(req[q])'
      BY <2>5, <3>3 DEF Held, Knows
    <3> QED BY <2>9, <3>1, <3>2, <3>4 DEF TokensHeld
  <2> QED BY <2>4, <2>6, <2>10, <2>11 DEF IInv, Types, ValueTypes, CalmOK, SaveToken
<1> QED BY <1>2, <1>3 DEF SaveToken

\* An answer, what is known of a login in it
LEMMA AnswerInv ==
  ASSUME IInv, NEW r \in Request, Busy(r), req[r].kind \in {"status", "cancel", "logout"},
         NEW ans \in {"none", "ok", "pending", "error", "failed", "unauthorized"},
         ans = "ok" /\ req[r].kind = "status" => req[r].ans = "ok",
         Answers(r, ans), UNCHANGED <<sess, current, users, stored, calm, pageVars>>
  PROVE  IInv'
<1> DEFINE x == Answered(req[r], ans)
<1>1. ReqOK(req[r]) /\ KnownOwner(req[r]) /\ (calm => Held(req[r]))
  BY ReqFacts
<1>2. /\ Serves(r, x) /\ x.at \in {"free", "answered"}
      /\ \/ x = Free
         \/ x.kind = req[r].kind /\ x.tok = req[r].tok /\ x.who = req[r].who /\ x.ans = ans
  BY <1>1, AnsweredServes DEF Answers, ReqOK, Knows
<1>3. KnownOwner(x) /\ (calm => Held(x))
  BY <1>1, <1>2 DEF KnownOwner, Knows, Held, Free
<1> QED BY <1>2, <1>3, QuietStepInv

LEMMA DropSessionInv ==
  ASSUME IInv, NEW r \in Request, DropSession(r), UNCHANGED pageVars
  PROVE  IInv'
<1>1. req[r].kind = "status" /\ Busy(r) /\ req[r] \in Req
  BY ReqFacts DEF DropSession, ReqOK, Stage, Req
<1>2. req[r].ans \in {"none", "ok", "pending", "error", "failed", "unauthorized"}
  BY <1>1 DEF Req
<1>3. CASE EndCurrent(r, req[r].ans)
  BY <1>1, <1>2, <1>3, EndCurrentInv DEF DropSession
<1>4. CASE Answers(r, req[r].ans) /\ UNCHANGED <<sess, current>>
  BY <1>1, <1>2, <1>4, AnswerInv DEF DropSession
<1> QED BY <1>3, <1>4 DEF DropSession

LEMMA CancelInv ==
  ASSUME IInv, NEW r \in Request, Cancel(r), UNCHANGED pageVars
  PROVE  IInv'
<1>1. req[r].kind = "cancel" /\ Busy(r)
  BY ReqFacts DEF Cancel, At
<1>2. CASE EndCurrent(r, "ok")
  BY <1>1, <1>2, EndCurrentInv DEF Cancel
<1>3. CASE Answers(r, "ok") /\ UNCHANGED <<sess, current>>
  BY <1>1, <1>3, AnswerInv DEF Cancel
<1> QED BY <1>2, <1>3 DEF Cancel

\* The session is freed; as long as it is calm its thread has ended before
LEMMA EndSessionInv ==
  ASSUME IInv, NEW r \in Request, EndSession(r), UNCHANGED pageVars
  PROVE  IInv'
<1> DEFINE n == req[r].of
           s == [NoLogin EXCEPT !.cancelled = Runs(n), !.thread = sess[n].thread]
           y == [req[r] EXCEPT !.at = "starting", !.of = NoSession]
           z == Answered(req[r], req[r].ans)
           x == IF req[r].kind = "start" THEN y ELSE z
<1>1. /\ req[r].at = "ending" /\ n \in Session /\ Busy(r)
      /\ req[r] \in Req /\ ReqOK(req[r]) /\ KnownOwner(req[r]) /\ (calm => Held(req[r]))
      /\ req[r].kind \in {"start", "status", "cancel"}
  BY ReqFacts DEF EndSession, ReqOK, Stage, Req
<1>2. req[r].kind = "start" => Becomes(r, y) /\ Serves(r, y) /\ y.at = "starting" /\ y.kind = "start"
  <2> SUFFICES ASSUME req[r].kind = "start"
               PROVE  Becomes(r, y) /\ Serves(r, y) /\ y.at = "starting" /\ y.kind = "start"
    OBVIOUS
  <2>1. /\ y \in Req /\ y.at = "starting" /\ y.kind = "start" /\ y.mine = req[r].mine
        /\ y.of = NoSession /\ y.tok = req[r].tok
    BY <1>1 DEF Req
  <2>2. ReqOK(y)
    BY <1>1, <2>1, LoginAssumption DEF ReqOK, Stage, Knows
  <2> QED BY <1>1, <2>1, <2>2 DEF Serves, EndSession
<1>3. req[r].kind # "start" =>
        /\ Becomes(r, z) /\ Serves(r, z) /\ z.at \in {"free", "answered"}
        /\ \/ z = Free
           \/ z.kind = req[r].kind /\ z.tok = req[r].tok /\ z.who = req[r].who /\ z.ans = req[r].ans
  <2>1. req[r].ans \in {"none", "ok", "pending", "error", "failed", "unauthorized"}
    BY <1>1 DEF Req
  <2> QED BY <1>1, <2>1, AnsweredServes DEF EndSession, Answers, ReqOK, Knows
<1>4. Serves(r, x) /\ x.at # "ending"
  BY <1>2, <1>3
<1>5. KnownOwner(x) /\ (calm => Held(x))
  BY <1>1, <1>2, <1>3 DEF KnownOwner, Knows, Held, Free
<1>6. UNCHANGED users /\ current' = NoSession /\ UNCHANGED <<stored, calm>>
  BY DEF EndSession
<1>7. /\ ReqTypes' /\ PageTypeOK' /\ PageOK' /\ (calm' => calm /\ Alone /\ Alone')
      /\ TokensApart' /\ (calm' => TokensHeld')
  <2> HIDE DEF x
  <2> QED BY <1>4, <1>5, <1>6, ServesPage, ServesTokens
<1>8. sess' = [sess EXCEPT ![n] = s]
  BY DEF EndSession, Freed
<1>9. s \in Login /\ SessOK(s) /\ s.status = "none" /\ s.thread = sess[n].thread
  BY <1>1 DEF IInv, Types, SessTypes, SessOK, NoLogin, Login, Runs
<1>10. SessTypes' /\ sess'[n] = s /\ \A m \in Session \ {n} : sess'[m] = sess[m]
  <2> HIDE DEF s
  <2> QED BY <1>1, <1>8, <1>9 DEF IInv, Types, SessTypes
<1>11. calm' => OneSession'
  <2> SUFFICES ASSUME calm' PROVE OneSession'
    OBVIOUS
  <2>1. Alone /\ OneSession
    BY <1>7 DEF IInv, CalmOK
  <2>2. req'[r].at # "ending" /\ \A q \in Request \ {r} : req'[q] = req[q] /\ ~Busy(q)
    BY <1>1, <1>4, <2>1, OneChanges DEF IInv, Types, Serves, Alone
  <2>3. n = current
    BY <1>1, <2>1 DEF OneSession
  <2>4. \A q \in Request \ {r} : req[q].of # n
    BY <1>1, <2>2, LoginAssumption DEF IInv, Types, ReqTypes, ReqOK, Busy
  <2>5. ~Runs(n)
    BY <2>4 DEF EndSession, Joined
  <2>6. \A m \in Session : ~Allocated(m)'
    <3> HIDE DEF s, x, y, z
    <3>1. sess'[n].status = "none"
      BY <1>9, <1>10
    <3>2. \A m \in Session \ {n} : sess[m].status = "none"
      BY <2>1, <2>3 DEF OneSession, Allocated
    <3> QED BY <1>10, <3>1, <3>2 DEF Allocated
  <2>7. \A m \in Session : ~Runs(m)'
    <3>1. sess'[n].thread = "none"
      BY <1>9, <1>10, <2>5 DEF Runs
    <3>2. \A m \in Session \ {n} : ~Runs(m)
      BY <2>1, <2>3 DEF OneSession, Allocated
    <3> QED BY <1>10, <3>1, <3>2 DEF Runs
  <2>8. \A q \in Request : req'[q].at # "ending"
    BY <2>2 DEF Busy
  <2> QED BY <1>6, <2>6, <2>7, <2>8 DEF OneSession
<1> QED BY <1>6, <1>7, <1>10, <1>11 DEF IInv, Types, ValueTypes, CalmOK

\* Another login takes the account's row over
LEMMA LoginElsewhereInv ==
  ASSUME IInv, NEW a \in Account, LoginElsewhere(a), UNCHANGED pageVars
  PROVE  IInv'
<1>1. PICK t \in Token : Fresh(t) /\ users' = [users EXCEPT ![a] = t]
  BY DEF LoginElsewhere
<1>2. users \in [Account -> Token \cup {NoToken}] /\ users' \in [Account -> Token \cup {NoToken}]
  BY <1>1 DEF IInv, Types, ValueTypes
<1>3. users'[a] = t /\ \A b \in Account \ {a} : users'[b] = users[b]
  BY <1>1, <1>2
<1>4. t # stored /\ t # NoToken /\ (\A b \in Account : users[b] # t) /\ \A q \in Request : req[q].tok # t
  BY <1>1, NoTokenAssumption DEF Fresh
<1>5. UNCHANGED <<sess, current, stored, req, view, button, polling, leaked, shown>> /\ calm' = FALSE
  BY DEF LoginElsewhere, pageVars
<1>6. Types'
  BY <1>2, <1>5 DEF IInv, Types, SessTypes, ReqTypes, ValueTypes, PageTypeOK
<1>7. TokensApart'
  <2>1. \A b, c \in Account : users'[b] = users'[c] /\ users'[b] # NoToken => b = c
    BY <1>3, <1>4 DEF IInv, TokensApart
  <2>2. \A q \in Request : KnownOwner(req[q])'
    BY <1>3, <1>4, <1>5 DEF IInv, TokensApart, KnownOwner, Knows
  <2>3. ShownIsOwner'
    BY <1>3, <1>4, <1>5 DEF IInv, TokensApart, ShownIsOwner
  <2> QED BY <2>1, <2>2, <2>3 DEF TokensApart
<1>8. PageOK'
  BY <1>5 DEF IInv, PageOK, Mine, ButtonComesBack
<1> QED BY <1>5, <1>6, <1>7, <1>8 DEF IInv, CalmOK

\* A token is found in the table or not
LEMMA AuthenticateInv ==
  ASSUME IInv, NEW r \in Request, Authenticate(r), UNCHANGED pageVars
  PROVE  IInv'
<1>1. /\ req[r].kind \in {"me", "call"} /\ req[r].at = "sent" /\ Busy(r)
      /\ req[r] \in Req /\ ReqOK(req[r]) /\ (calm => Held(req[r]))
  BY ReqFacts DEF Authenticate
<1>2. ASSUME NEW a \in Owners(req[r].tok), Becomes(r, Answered([req[r] EXCEPT !.who = a], "ok"))
      PROVE  IInv'
  <2> DEFINE y == [req[r] EXCEPT !.who = a]
             x == Answered(y, "ok")
  <2>1. a \in Account /\ req[r].tok # NoToken /\ users[a] = req[r].tok
    BY DEF Owners
  <2>2. /\ y \in Req /\ y.at = "sent" /\ y.kind = req[r].kind /\ y.mine = req[r].mine
        /\ y.of = req[r].of /\ y.tok = req[r].tok /\ y.who = a /\ y.ans = req[r].ans
    BY <1>1, <2>1 DEF Req
  <2>3. ReqOK(y)
    BY <1>1, <2>1, <2>2 DEF ReqOK, Knows
  <2>4. /\ Serves(r, x) /\ x.at \in {"free", "answered"}
        /\ \/ x = Free
           \/ x.kind = req[r].kind /\ x.tok = req[r].tok /\ x.who = a /\ x.ans = "ok"
    <3> HIDE DEF y
    <3>1. Becomes(r, Answered(y, "ok"))
      BY <1>2 DEF y
    <3> QED BY <1>1, <2>1, <2>2, <2>3, <3>1, AnsweredServes DEF Authenticate
  <2>5. KnownOwner(x)
    BY <2>1, <2>4 DEF KnownOwner, Knows, Free, IInv, TokensApart
  <2>6. calm => Held(x)
    BY <1>1, <2>1, <2>4 DEF Held, Knows, Free
  <2> QED BY <2>4, <2>5, <2>6, QuietStepInv DEF Authenticate
<1>3. CASE Owners(req[r].tok) = {} /\ Answers(r, "unauthorized")
  <2> DEFINE x == Answered(req[r], "unauthorized")
  <2>1. /\ Serves(r, x) /\ x.at \in {"free", "answered"}
        /\ \/ x = Free
           \/ x.kind = req[r].kind /\ x.tok = req[r].tok /\ x.ans = "unauthorized"
    BY <1>1, <1>3, AnsweredServes DEF Answers, Authenticate
  <2>2. KnownOwner(x)
    BY <2>1 DEF KnownOwner, Knows, Free
  <2>3. calm => Held(x)
    <3> SUFFICES ASSUME calm, req[r].kind = "call" PROVE FALSE
      BY <1>1, <2>1 DEF Held, Knows, Free
    <3>1. view = "app"
      BY <1>1 DEF IInv, CalmOK, Alone, Doing, Types, PageTypeOK
    <3>2. shown \in Account /\ stored # NoToken /\ users[shown] = stored /\ req[r].tok = stored
      BY <1>1, <3>1 DEF IInv, CalmOK, TokensHeld, Held, Types, PageTypeOK
    <3> QED BY <1>3, <3>2 DEF Owners
  <2> QED BY <2>1, <2>2, <2>3, QuietStepInv DEF Authenticate
<1> QED BY <1>2, <1>3 DEF Authenticate

LEMMA FindForLogoutInv ==
  ASSUME IInv, NEW r \in Request, FindForLogout(r), UNCHANGED pageVars
  PROVE  IInv'
<1>1. req[r].kind = "logout" /\ req[r].at = "sent" /\ Busy(r) /\ req[r] \in Req /\ ReqOK(req[r])
  BY ReqFacts DEF FindForLogout, At
<1>2. ASSUME NEW a \in Owners(req[r].tok), Becomes(r, [req[r] EXCEPT !.at = "clearing", !.who = a])
      PROVE  IInv'
  <2> DEFINE x == [req[r] EXCEPT !.at = "clearing", !.who = a]
  <2>1. a \in Account
    BY DEF Owners
  <2>2. /\ x \in Req /\ x.at = "clearing" /\ x.kind = "logout" /\ x.mine = req[r].mine
        /\ x.of = req[r].of /\ x.tok = req[r].tok /\ x.who = a
    BY <1>1, <2>1 DEF Req
  <2>3. ReqOK(x)
    BY <1>1, <2>1, <2>2 DEF ReqOK, Stage, Knows
  <2>4. Serves(r, x)
    BY <1>1, <1>2, <2>2, <2>3 DEF Serves, FindForLogout
  <2>5. KnownOwner(x) /\ Held(x)
    BY <2>2 DEF KnownOwner, Knows, Held
  <2> QED BY <2>2, <2>4, <2>5, QuietStepInv DEF FindForLogout
<1>3. CASE Answers(r, "ok")
  BY <1>1, <1>3, AnswerInv DEF FindForLogout
<1> QED BY <1>2, <1>3 DEF FindForLogout

\* As long as it is calm nobody has logged in meanwhile
LEMMA ClearTokenInv ==
  ASSUME IInv, NEW r \in Request, ClearToken(r), UNCHANGED pageVars
  PROVE  IInv'
<1> DEFINE x == Answered(req[r], "ok")
<1>1. /\ req[r].at = "clearing" /\ req[r].kind = "logout" /\ Busy(r) /\ req[r].who \in Account
      /\ ReqOK(req[r])
  <2>1. req[r].at = "clearing" /\ Busy(r) /\ req[r] \in Req /\ ReqOK(req[r])
    BY ReqFacts DEF ClearToken
  <2>2. req[r].kind = "logout"
    BY <2>1 DEF ReqOK, Stage, Req
  <2> QED BY <2>1, <2>2 DEF ReqOK
<1>2. Serves(r, x) /\ x = Free
  BY <1>1, AnsweredServes, ZenonT(60) DEF ClearToken, Answers, Answered
<1>3. /\ ReqTypes' /\ PageTypeOK' /\ PageOK' /\ (calm' => calm /\ Alone /\ Alone')
      /\ SessTypes' /\ (calm' => OneSession')
  BY <1>2, ServesPage, ServesSessions DEF ClearToken, Free
<1>4. req'[r] = Free /\ \A q \in Request \ {r} : req'[q] = req[q]
  BY <1>2, OneChanges DEF IInv, Types, Serves
<1>5. UNCHANGED <<current, view, shown, stored, calm>>
  BY DEF ClearToken, pageVars
<1>6. users' \in [Account -> Token \cup {NoToken}]
  BY DEF ClearToken, IInv, Types, ValueTypes
<1>7. \A a \in Account : users'[a] = users[a] \/ users'[a] = NoToken
  BY DEF ClearToken, IInv, Types, ValueTypes
<1>8. TokensApart'
  <2>1. \A a, b \in Account : users'[a] = users'[b] /\ users'[a] # NoToken => a = b
    BY <1>7 DEF IInv, TokensApart
  <2>2. \A q \in Request : KnownOwner(req[q])'
    BY <1>4, <1>7 DEF IInv, TokensApart, KnownOwner, Knows, Free
  <2>3. ShownIsOwner'
    BY <1>5, <1>7 DEF IInv, TokensApart, ShownIsOwner
  <2> QED BY <2>1, <2>2, <2>3 DEF TokensApart
<1>9. calm' => TokensHeld'
  <2> SUFFICES ASSUME calm' PROVE TokensHeld'
    OBVIOUS
  <2>1. view # "app" /\ \A q \in Request \ {r} : ~Busy(q)
    BY <1>1, <1>3 DEF Alone, Doing, IInv, Types, PageTypeOK
  <2>2. \A q \in Request \ {r} : req[q].kind = "none"
    BY <2>1 DEF IInv, Types, ReqTypes, ReqOK, Stage, Busy, Req
  <2>3. \A q \in Request : Held(req[q])'
    BY <1>4, <2>2 DEF Held, Knows, Free
  <2> QED BY <1>5, <2>1, <2>3 DEF TokensHeld
<1> QED BY <1>3, <1>5, <1>6, <1>8, <1>9 DEF IInv, Types, ValueTypes, CalmOK

-----------------------------------------------------------------------------
(* The process and the threads *)

LEMMA CrashInv ==
  ASSUME IInv, Crash, UNCHANGED pageVars
  PROVE  IInv'
<1>1. /\ sess' = [n \in Session |-> NoLogin] /\ current' = NoSession
      /\ UNCHANGED <<users, stored, calm, view, button, polling, leaked, shown>>
  BY DEF Crash, pageVars
<1>2. ASSUME NEW q \in Request
      PROVE  /\ ReqOK(req'[q])
             /\ \/ req'[q] = Free /\ ~(req[q].mine /\ req[q].kind \in {"start", "status", "me", "call"})
                \/ /\ req'[q].kind = req[q].kind /\ req'[q].mine /\ req[q].mine
                   /\ req'[q].tok = req[q].tok /\ req'[q].ans = "failed"
                   /\ req'[q].at = "answered" /\ Busy(q)
  <2>1. req'[q] = Answered(req[q], "failed") /\ req[q] \in Req /\ ReqOK(req[q])
    BY ReqFacts DEF Crash
  <2>2. CASE ~(req[q].mine /\ req[q].kind \in {"start", "status", "me", "call"})
    BY <2>1, <2>2, FreeOK DEF Answered
  <2>3. CASE req[q].mine /\ req[q].kind \in {"start", "status", "me", "call"}
    <3> DEFINE z == [req[q] EXCEPT !.at = "answered", !.of = NoSession, !.ans = "failed"]
    <3>1. /\ z \in Req /\ z.at = "answered" /\ z.of = NoSession /\ z.ans = "failed"
          /\ z.kind = req[q].kind /\ z.mine = req[q].mine /\ z.tok = req[q].tok
      BY <2>1 DEF Req
    <3>2. ReqOK(z)
      BY <2>3, <3>1, LoginAssumption DEF ReqOK, Stage, Knows
    <3>3. Busy(q)
      BY <2>1, <2>3 DEF Busy, ReqOK, Stage
    <3>4. req'[q] = z
      BY <2>1, <2>3 DEF Answered
    <3> QED BY <2>3, <3>1, <3>2, <3>3, <3>4
  <2> QED BY <2>2, <2>3
<1>3. Types'
  <2>1. SessTypes'
    BY <1>1 DEF SessTypes, SessOK, NoLogin, Login
  <2>2. ReqTypes'
    BY <1>2 DEF ReqTypes, ReqOK, Crash
  <2> QED BY <1>1, <2>1, <2>2 DEF IInv, Types, ValueTypes, PageTypeOK
<1>4. TokensApart'
  BY <1>1, <1>2 DEF IInv, TokensApart, KnownOwner, Knows, ShownIsOwner, Free
<1>5. PageOK'
  <2>1. \A q \in Request : req'[q].mine => req[q].mine /\ req'[q].kind = req[q].kind /\ req'[q].tok = req[q].tok
    BY <1>2 DEF Free
  <2>2. \A q \in Request : Mine(q, "start") => Mine(q, "start")'
    BY <1>2 DEF Mine
  <2>3. ButtonComesBack'
    BY <1>1, <2>2 DEF IInv, PageOK, ButtonComesBack, Mine
  <2> QED BY <1>1, <2>1, <2>3 DEF IInv, PageOK, Mine
<1>6. ASSUME calm' PROVE Alone' /\ OneSession' /\ TokensHeld'
  <2>1. Alone /\ TokensHeld
    BY <1>1, <1>6 DEF IInv, CalmOK
  <2>2. \A q \in Request : Busy(q)' => Busy(q) /\ req'[q].mine /\ req'[q].kind = req[q].kind
    BY <1>2 DEF Busy, Free
  <2>3. \A q \in Request : req'[q].kind = "start" => req[q].kind = "start"
    BY <1>2 DEF Free
  <2>4. Alone'
    BY <1>1, <2>1, <2>2, <2>3 DEF Alone
  <2>5. OneSession'
    BY <1>1, <1>2 DEF OneSession, Allocated, Runs, NoLogin, Free
  <2>6. \A q \in Request : Held(req[q])'
    BY <1>1, <1>2, <2>1 DEF TokensHeld, Held, Knows, Free
  <2> QED BY <1>1, <2>1, <2>4, <2>5, <2>6 DEF TokensHeld
<1> QED BY <1>3, <1>4, <1>5, <1>6 DEF IInv, CalmOK

\* A thread changes its own session, and one that has a thread is pending
LEMMA MonitorInv ==
  ASSUME IInv, NEW n \in Session, Monitor(n), UNCHANGED <<authVars, pageVars>>
  PROVE  IInv'
<1> DEFINE Works(s) == /\ sess' = [sess EXCEPT ![n] = s] /\ SessOK(s)
                       /\ s.status = "none" <=> sess[n].status = "none"
                       /\ s.thread # "none" => s.status = sess[n].status /\ Runs(n)
<1>1. PICK s : Works(s)
  <2>1. sess[n] \in Login /\ SessOK(sess[n])
    BY DEF IInv, Types, SessTypes
  <2>2. ASSUME NEW a \in Account, sess[n].thread = "waiting",
               sess' = [sess EXCEPT ![n] = [@ EXCEPT !.thread = "checking", !.who = a]]
        PROVE  \E s : Works(s)
    <3> DEFINE s == [sess[n] EXCEPT !.thread = "checking", !.who = a]
    <3>1. s \in Login /\ s.status = sess[n].status /\ s.who = a
      BY <2>1 DEF Login
    <3>2. SessOK(s)
      BY <2>1, <2>2, <3>1 DEF SessOK
    <3>3. sess' = [sess EXCEPT ![n] = s]
      BY <2>2
    <3>4. Works(s)
      BY <2>2, <3>1, <3>2, <3>3 DEF Runs
    <3> QED BY <3>4
  <2>3. CASE Rejected(n)
    <3> DEFINE s == [sess[n] EXCEPT !.thread = "waiting", !.who = NoAccount]
    <3>1. s \in Login /\ s.status = sess[n].status /\ s.thread = "waiting"
      BY <2>1 DEF Login
    <3>2. SessOK(s) \/ sess[n].status = "success"
      BY <3>1 DEF SessOK
    <3>3. sess' = [sess EXCEPT ![n] = s]
      BY <2>3 DEF Rejected
    <3>4. sess[n].status # "success"
      BY <2>3 DEF IInv, Types, SessTypes, SessOK, Rejected
    <3>5. Works(s)
      BY <2>3, <3>1, <3>2, <3>3, <3>4 DEF Runs, Rejected
    <3> QED BY <3>5
  <2>4. ASSUME NEW status \in {"success", "error", "timeout"}, Returns(n, status),
               status = "success" /\ sess[n].status = "pending" => sess[n].who \in Account
        PROVE  \E s : Works(s)
    <3> DEFINE s == [sess[n] EXCEPT !.thread = "none", !.cancelled = FALSE,
                        !.status = IF sess[n].status = "pending" THEN status ELSE sess[n].status]
    <3>1. /\ s \in Login /\ s.thread = "none" /\ s.who = sess[n].who
          /\ s.status = IF sess[n].status = "pending" THEN status ELSE sess[n].status
      BY <2>1 DEF Login
    <3>2. SessOK(s)
      BY <2>1, <2>4, <3>1 DEF SessOK
    <3>3. sess' = [sess EXCEPT ![n] = s]
      BY <2>4 DEF Returns
    <3>4. Works(s)
      BY <3>1, <3>2, <3>3
    <3> QED BY <3>4
  <2>5. CASE Attempt(n)
    BY <2>2, <2>5 DEF Attempt
  <2>6. CASE Accepted(n)
    BY <2>1, <2>4, <2>6 DEF Accepted, SessOK
  <2>7. CASE GiveUp(n)
    BY <2>4, <2>7 DEF GiveUp
  <2> QED BY <2>3, <2>5, <2>6, <2>7 DEF Monitor
<1>2. UNCHANGED <<current, users, stored, req, calm, view, button, polling, leaked, shown>>
  BY DEF authVars, pageVars
<1>3. sess'[n] = s /\ \A m \in Session \ {n} : sess'[m] = sess[m]
  BY <1>1 DEF IInv, Types, SessTypes
<1>4. Types'
  BY <1>1, <1>2, <1>3 DEF IInv, Types, SessTypes, ReqTypes, ValueTypes, PageTypeOK, SessOK
<1>5. TokensApart' /\ PageOK'
  BY <1>2 DEF IInv, TokensApart, KnownOwner, Knows, ShownIsOwner, PageOK, Mine, ButtonComesBack
<1>6. calm => Alone' /\ TokensHeld'
  BY <1>2 DEF IInv, CalmOK, Alone, TokensHeld, Held, Knows, Busy
<1>7. calm => OneSession'
  BY <1>1, <1>2, <1>3 DEF IInv, CalmOK, OneSession, Allocated, Runs
<1> QED BY <1>2, <1>4, <1>5, <1>6, <1>7 DEF IInv, CalmOK

-----------------------------------------------------------------------------
(* The page *)

LEMMA SentOK ==
  ASSUME IInv, NEW kind \in {"start", "status", "cancel", "logout", "me", "call"}
  PROVE  /\ Sent(kind) \in Req /\ ReqOK(Sent(kind)) /\ Sent(kind).kind = kind
         /\ Sent(kind).at = "sent" /\ Sent(kind).mine /\ Sent(kind).ans = "none"
         /\ kind \in {"me", "call", "logout"} => Sent(kind).tok = stored
<1>1. stored \in Token \cup {NoToken}
  BY DEF IInv, Types, ValueTypes
<1> DEFINE tok == IF kind \in {"me", "call", "logout"} THEN stored ELSE NoToken
<1>2. tok \in Token \cup {NoToken} /\ (kind \in {"me", "call", "logout"} => tok = stored)
  BY <1>1
<1>3. Sent(kind) = [Free EXCEPT !.kind = kind, !.at = "sent", !.mine = TRUE, !.tok = tok]
  BY DEF Sent
<1> HIDE DEF tok
<1>4. Sent(kind) \in Req
  BY <1>2, <1>3, FreeOK DEF Req
<1>5. /\ Sent(kind).kind = kind /\ Sent(kind).at = "sent" /\ Sent(kind).mine
      /\ Sent(kind).ans = "none" /\ Sent(kind).of = NoSession /\ Sent(kind).tok = tok
  BY <1>3 DEF Free
<1>6. ReqOK(Sent(kind))
  BY <1>4, <1>5, LoginAssumption DEF ReqOK, Stage, Knows
<1> QED BY <1>2, <1>4, <1>5, <1>6

\* A request is sent: the page stays as it is but for button and polling
LEMMA SendsInv ==
  ASSUME IInv, NEW r \in Request,
         NEW kind \in {"start", "status", "cancel", "call"}, Sends(r, kind),
         UNCHANGED <<sess, current, users, stored, view, leaked, shown>>,
         button' \in BOOLEAN, polling' \in BOOLEAN, polling' => polling,
         kind \in {"start", "status", "cancel"} => view # "none",
         kind = "call" => view = "app" /\ polling' = polling /\ button' = button,
         kind = "start" => view = "login" /\ button /\ ~button' /\ polling' = polling,
         kind = "status" => (polling \/ leaked) /\ polling' = polling /\ button' = button,
         kind = "cancel" => (polling \/ leaked) /\ button' /\ ~polling'
  PROVE  IInv'
<1>1. ReqOK(Sent(kind)) /\ Becomes(r, Sent(kind)) /\ req[r].at = "free"
  BY SentOK DEF Sends, Becomes
<1>2. ReqTypes' /\ req'[r] = Sent(kind) /\ \A q \in Request \ {r} : req'[q] = req[q]
  BY <1>1, OneChanges DEF IInv, Types
<1>3. /\ Sent(kind).kind = kind /\ Sent(kind).at = "sent" /\ Sent(kind).mine
      /\ Sent(kind).ans = "none" /\ (kind = "call" => Sent(kind).tok = stored)
  BY SentOK
<1>4. calm' = (calm /\ Quiet)
  BY DEF Sends
<1>5. Types'
  <2>1. SessTypes'
    BY DEF IInv, Types, SessTypes
  <2>2. ValueTypes'
    BY <1>4 DEF IInv, Types, ValueTypes
  <2>3. PageTypeOK'
    BY DEF IInv, Types, PageTypeOK
  <2> QED BY <1>2, <2>1, <2>2, <2>3 DEF Types
<1>6. TokensApart'
  <2>1. \A q \in Request : KnownOwner(req[q])'
    BY <1>2, <1>3 DEF IInv, TokensApart, KnownOwner, Knows
  <2> QED BY <2>1 DEF IInv, TokensApart, ShownIsOwner
<1>7. PageOK'
  <2>1. \A q \in Request : Mine(q, "start") => Mine(q, "start")'
    <3>1. ~Mine(r, "start")
      BY <1>1 DEF IInv, Types, ReqTypes, ReqOK, Stage, Mine
    <3> QED BY <1>2, <3>1 DEF Mine
  <2>2. ButtonComesBack'
    <3>1. CASE kind = "start"
      BY <1>2, <1>3, <3>1 DEF ButtonComesBack
    <3>2. CASE kind = "cancel"
      BY <3>2 DEF ButtonComesBack
    <3>3. CASE kind \in {"status", "call"}
      BY <2>1, <3>3 DEF IInv, PageOK, ButtonComesBack, Mine
    <3> QED BY <3>1, <3>2, <3>3
  <2>3. view' # "login" => button'
    BY DEF IInv, PageOK
  <2>4. view' = "none" => ~polling' /\ ~leaked'
    BY DEF IInv, PageOK
  <2>5. view # "none" /\ kind # "me"
    OBVIOUS
  <2>6. \A q \in Request : req'[q].mine => (req'[q].kind = "me" <=> view' = "none")
    BY <1>2, <1>3, <2>5 DEF IInv, PageOK
  <2>7. \A q \in Request : ~Mine(q, "me")'
    BY <2>5, <2>6 DEF Mine
  <2> QED BY <2>2, <2>3, <2>4, <2>6, <2>7 DEF PageOK
<1>8. ASSUME calm' PROVE Alone' /\ OneSession' /\ TokensHeld'
  <2>1. Alone /\ OneSession /\ TokensHeld /\ \A q \in Request : req[q].at = "free"
    BY <1>4, <1>8 DEF IInv, CalmOK, Quiet
  <2>2. \A q \in Request \ {r} : ~Busy(q)' /\ req'[q].at = "free" /\ req'[q].kind = "none"
    BY <1>2, <2>1 DEF Busy, IInv, Types, ReqTypes, ReqOK, Stage, Req
  <2>3. kind \in Doing[view]
    BY <2>1 DEF Alone, Doing, IInv, Types, PageTypeOK
  <2>4. ~leaked' /\ (polling' => ~button' /\ view' = "login")
    <3>1. ~leaked /\ ~leaked' /\ (polling => ~button /\ view = "login")
      BY <2>1 DEF Alone
    <3>2. CASE kind = "start"
      BY <3>1, <3>2
    <3>3. CASE kind = "cancel"
      BY <3>1, <3>3
    <3>4. CASE kind \in {"status", "call"}
      BY <3>1, <3>4, button \in BOOLEAN DEF IInv, Types, PageTypeOK
    <3> QED BY <3>2, <3>3, <3>4
  <2>5. kind = "start" => ~polling' /\ ~button'
    BY <2>1 DEF Alone
  <2>6. Alone'
    BY <1>2, <1>3, <2>2, <2>3, <2>4, <2>5 DEF Alone, Busy
  <2>7. OneSession'
    BY <1>2, <1>3, <2>1, <2>2 DEF OneSession, Allocated, Runs
  <2>8. \A q \in Request : Held(req[q])'
    BY <1>2, <1>3, <2>2 DEF Held, Knows
  <2> QED BY <2>1, <2>6, <2>7, <2>8 DEF TokensHeld
<1> QED BY <1>5, <1>6, <1>7, <1>8 DEF IInv, CalmOK

LEMMA AsksInv ==
  ASSUME IInv, NEW r \in Request, Asks(r)
  PROVE  IInv'
<1>1. view \in {"none", "login", "app"} /\ button \in BOOLEAN /\ polling \in BOOLEAN
  BY DEF IInv, Types, PageTypeOK
<1>2. view = "none" => ~polling /\ ~leaked
  BY DEF IInv, PageOK
<1>3. CASE Click(r)
  BY <1>1, <1>3, SendsInv DEF Click
<1>4. CASE Tick(r)
  BY <1>1, <1>2, <1>4, SendsInv DEF Tick, pageVars
<1>5. CASE TickLate(r)
  BY <1>1, <1>2, <1>5, SendsInv DEF TickLate
<1>6. CASE Call(r)
  BY <1>1, <1>6, SendsInv DEF Call, pageVars
<1> QED BY <1>3, <1>4, <1>5, <1>6 DEF Asks

\* An answer is taken, and nobody waits for it any more
LEMMA HeardFrees ==
  ASSUME IInv, NEW r \in Request, NEW kind, Heard(r, kind), UNCHANGED calm
  PROVE  /\ ReqTypes' /\ req'[r] = Free /\ \A q \in Request \ {r} : req'[q] = req[q]
         /\ Busy(r) /\ req[r].mine /\ req[r].kind = kind
         /\ calm' => calm /\ \A q \in Request \ {r} : ~Busy(q) /\ req[q].kind = "none"
<1>1. Busy(r) /\ req[r].kind = kind /\ req[r].mine
  BY ReqFacts DEF Heard, At, ReqOK
<1>2. ReqTypes' /\ req'[r] = Free /\ \A q \in Request \ {r} : req'[q] = req[q]
  BY FreeOK, OneChanges DEF Heard, Becomes, IInv, Types
<1>3. calm' => calm /\ \A q \in Request \ {r} : ~Busy(q)
  BY <1>1 DEF IInv, CalmOK, Alone
<1>4. \A q \in Request : ~Busy(q) => req[q].kind = "none"
  BY DEF IInv, Types, ReqTypes, ReqOK, Stage, Busy, Req
<1> QED BY <1>1, <1>2, <1>3, <1>4

\* As long as it is calm there is nothing left to do when it has been taken
LEMMA HeardCalm ==
  ASSUME IInv, NEW r \in Request, NEW kind, Heard(r, kind), UNCHANGED <<calm, sess, current, users>>,
         calm, ~leaked', polling' => ~button' /\ view' = "login",
         view' = "app" => stored' # NoToken /\ users[shown'] = stored'
  PROVE  Alone' /\ OneSession' /\ TokensHeld'
<1>1. /\ req'[r] = Free /\ \A q \in Request \ {r} : req'[q] = req[q]
      /\ \A q \in Request \ {r} : ~Busy(q) /\ req[q].kind = "none"
  BY HeardFrees
<1>2. \A q \in Request : req'[q].at = "free" /\ req'[q].kind = "none"
  BY <1>1 DEF Free, Busy
<1>3. Alone'
  BY <1>2 DEF Alone, Busy
<1>4. OneSession'
  BY <1>2 DEF IInv, CalmOK, OneSession, Allocated, Runs
<1>5. TokensHeld'
  BY <1>2 DEF TokensHeld, Held, Knows
<1> QED BY <1>3, <1>4, <1>5

LEMMA StartAnsweredInv ==
  ASSUME IInv, NEW r \in Request, StartAnswered(r)
  PROVE  IInv'
<1>1. /\ ReqTypes' /\ req'[r] = Free /\ \A q \in Request \ {r} : req'[q] = req[q]
      /\ req[r].mine /\ req[r].kind = "start"
  BY HeardFrees DEF StartAnswered
<1>2. UNCHANGED <<sess, current, users, stored, calm, view, shown>> /\ Heard(r, "start")
  BY DEF StartAnswered
<1>3. /\ view # "none" /\ (button' \/ polling') /\ (button => button')
      /\ button' \in BOOLEAN /\ polling' \in BOOLEAN /\ leaked' \in BOOLEAN
  <2>1. view # "none" /\ button \in BOOLEAN /\ polling \in BOOLEAN /\ leaked \in BOOLEAN
    BY <1>1 DEF IInv, PageOK, Types, PageTypeOK
  <2>2. CASE polling' = TRUE /\ leaked' = (leaked \/ polling) /\ button' = button
    BY <2>1, <2>2
  <2>3. CASE button' = TRUE /\ polling' = polling /\ leaked' = leaked
    BY <2>1, <2>3
  <2> QED BY <2>2, <2>3 DEF StartAnswered
<1>4. Types'
  BY <1>1, <1>2, <1>3 DEF IInv, Types, SessTypes, ValueTypes, PageTypeOK
<1>5. TokensApart'
  BY <1>1, <1>2 DEF IInv, TokensApart, KnownOwner, Knows, Free, ShownIsOwner
<1>6. PageOK'
  <2>1. \A q \in Request : req'[q].mine => req[q].mine /\ req'[q].kind = req[q].kind
    BY <1>1 DEF Free
  <2>2. \A q \in Request : ~Mine(q, "me")'
    BY <1>3, <2>1 DEF IInv, PageOK, Mine
  <2> QED BY <1>2, <1>3, <2>1, <2>2 DEF IInv, PageOK, ButtonComesBack
<1>7. ASSUME calm PROVE Alone' /\ OneSession' /\ TokensHeld'
  <2>1. ~leaked /\ ~polling /\ ~button /\ view = "login"
    BY <1>1, <1>3, <1>7, ReqFacts DEF IInv, CalmOK, Alone, Doing, Types, PageTypeOK, Busy, StartAnswered, Heard, At
  <2>2. ~leaked' /\ (polling' => ~button')
    <3>1. CASE leaked' = (leaked \/ polling) /\ button' = button
      BY <2>1, <3>1
    <3>2. CASE polling' = polling /\ leaked' = leaked
      BY <2>1, <3>2
    <3> QED BY <3>1, <3>2 DEF StartAnswered
  <2> QED BY <1>2, <1>7, <2>1, <2>2, HeardCalm
<1> QED BY <1>2, <1>4, <1>5, <1>6, <1>7 DEF IInv, CalmOK

\* What an answer leaves alone of the page's requests
LEMMA HeardPage ==
  ASSUME IInv, NEW r \in Request, NEW kind, Heard(r, kind), UNCHANGED calm, kind # "me",
         view' \in {"login", "app"}, view' # "login" => button',
         ~button' => polling' \/ leaked' \/ \E q \in Request : Mine(q, "start") /\ q # r
  PROVE  PageOK'
<1>1. /\ req'[r] = Free /\ \A q \in Request \ {r} : req'[q] = req[q]
      /\ req[r].mine /\ req[r].kind = kind
  BY HeardFrees
<1>2. view # "none"
  BY <1>1 DEF IInv, PageOK
<1>3. \A q \in Request : req'[q].mine => req'[q].kind # "me"
  BY <1>1, <1>2 DEF IInv, PageOK, Free
<1>4. ButtonComesBack'
  BY <1>1 DEF ButtonComesBack, Mine
<1> QED BY <1>3, <1>4 DEF PageOK, Mine

LEMMA StatusAnsweredInv ==
  ASSUME IInv, NEW r \in Request, StatusAnswered(r)
  PROVE  IInv'
<1>1. /\ ReqTypes' /\ req'[r] = Free /\ \A q \in Request \ {r} : req'[q] = req[q]
      /\ req[r].mine /\ req[r].kind = "status" /\ Heard(r, "status")
  BY HeardFrees DEF StatusAnswered
<1>2. UNCHANGED <<sess, current, users, calm>>
  BY DEF StatusAnswered
<1>3. ReqOK(req[r]) /\ KnownOwner(req[r]) /\ (calm => Held(req[r]))
  BY ReqFacts
<1>4. /\ view \in {"login", "app"} /\ button \in BOOLEAN /\ polling \in BOOLEAN /\ leaked \in BOOLEAN
      /\ view # "login" => button
  BY <1>1 DEF IInv, PageOK, Types, PageTypeOK
<1>5. SessTypes'
  BY <1>2 DEF IInv, Types, SessTypes
<1>6. \A q \in Request : KnownOwner(req'[q])
  BY <1>1 DEF IInv, TokensApart, KnownOwner, Knows, Free
<1>7. \A a, b \in Account : users'[a] = users'[b] /\ users'[a] # NoToken => a = b
  BY <1>2 DEF IInv, TokensApart
<1>8. ASSUME calm PROVE ~leaked /\ view = "login" /\ (polling => ~button)
  BY <1>1, <1>8, ReqFacts DEF IInv, CalmOK, Alone, Busy, Doing, Types, PageTypeOK, Heard, At
<1>9. CASE req[r].ans = "pending" /\ UNCHANGED <<stored, view, button, polling, leaked, shown>>
  <2>1. Types'
    BY <1>1, <1>2, <1>5, <1>9 DEF IInv, Types, ValueTypes, PageTypeOK
  <2>2. TokensApart'
    BY <1>2, <1>6, <1>7, <1>9 DEF IInv, TokensApart, ShownIsOwner, KnownOwner
  <2>3. ~button' => polling' \/ leaked' \/ \E q \in Request : Mine(q, "start") /\ q # r
    BY <1>1, <1>9 DEF IInv, PageOK, ButtonComesBack, Mine
  <2>4. PageOK'
    BY <1>1, <1>2, <1>4, <1>9, <2>3, HeardPage
  <2>5. ASSUME calm PROVE Alone' /\ OneSession' /\ TokensHeld'
    BY <1>1, <1>2, <1>8, <1>9, <2>5, HeardCalm
  <2> QED BY <1>2, <2>1, <2>2, <2>4, <2>5 DEF IInv, CalmOK
<1>10. CASE /\ req[r].ans = "ok" /\ stored' = req[r].tok /\ shown' = req[r].who /\ view' = "app"
            /\ polling' = FALSE /\ button' = TRUE /\ UNCHANGED leaked
  <2>1. req[r].who \in Account /\ req[r].tok \in Token \cup {NoToken} /\ Knows(req[r])
    BY <1>1, <1>3, <1>10 DEF ReqOK, Knows, Req
  <2>2. Types'
    BY <1>1, <1>2, <1>4, <1>5, <1>10, <2>1, LoginAssumption DEF IInv, Types, ValueTypes, PageTypeOK
  <2>3. ShownIsOwner'
    BY <1>2, <1>3, <1>10, <2>1 DEF ShownIsOwner, KnownOwner
  <2>4. TokensApart'
    BY <1>2, <1>6, <1>7, <2>3 DEF TokensApart, KnownOwner
  <2>5. PageOK'
    BY <1>1, <1>2, <1>10, HeardPage
  <2>6. ASSUME calm PROVE Alone' /\ OneSession' /\ TokensHeld'
    <3>1. stored' # NoToken /\ users[shown'] = stored'
      BY <1>3, <1>10, <2>1, <2>6 DEF Held
    <3> QED BY <1>1, <1>2, <1>8, <1>10, <2>6, <3>1, HeardCalm
  <2> QED BY <1>2, <2>2, <2>4, <2>5, <2>6 DEF IInv, CalmOK
<1>11. CASE polling' = FALSE /\ button' = TRUE /\ UNCHANGED <<stored, shown, view, leaked>>
  <2>1. Types'
    BY <1>1, <1>2, <1>4, <1>5, <1>11 DEF IInv, Types, ValueTypes, PageTypeOK
  <2>2. TokensApart'
    BY <1>2, <1>6, <1>7, <1>11 DEF IInv, TokensApart, ShownIsOwner, KnownOwner
  <2>3. PageOK'
    BY <1>1, <1>2, <1>4, <1>11, HeardPage
  <2>4. ASSUME calm PROVE Alone' /\ OneSession' /\ TokensHeld'
    BY <1>1, <1>2, <1>8, <1>11, <2>4, HeardCalm
  <2> QED BY <1>2, <2>1, <2>2, <2>3, <2>4 DEF IInv, CalmOK
<1> QED BY <1>9, <1>10, <1>11 DEF StatusAnswered, pageVars

LEMMA MeAnsweredInv ==
  ASSUME IInv, NEW r \in Request, MeAnswered(r)
  PROVE  IInv'
<1>1. /\ ReqTypes' /\ req'[r] = Free /\ \A q \in Request \ {r} : req'[q] = req[q]
      /\ req[r].mine /\ req[r].kind = "me" /\ Heard(r, "me")
  BY HeardFrees DEF MeAnswered
<1>2. UNCHANGED <<sess, current, users, calm, button, polling, leaked>>
  BY DEF MeAnswered
<1>3. ReqOK(req[r]) /\ KnownOwner(req[r]) /\ (calm => Held(req[r]))
  BY ReqFacts
<1>4. /\ view = "none" /\ button /\ ~polling /\ ~leaked /\ shown = NoAccount
      /\ req[r].tok = stored
  BY <1>1 DEF IInv, PageOK, Mine, Types, PageTypeOK
<1>5. SessTypes'
  BY <1>2 DEF IInv, Types, SessTypes
<1>6. \A q \in Request : KnownOwner(req'[q])
  BY <1>1 DEF IInv, TokensApart, KnownOwner, Knows, Free
<1>7. \A a, b \in Account : users'[a] = users'[b] /\ users'[a] # NoToken => a = b
  BY <1>2 DEF IInv, TokensApart
<1>8. \A q \in Request : ~req'[q].mine
  BY <1>1, <1>4 DEF IInv, PageOK, Mine, Free
<1>9. view' \in {"login", "app"} => PageOK'
  BY <1>2, <1>4, <1>8 DEF PageOK, Mine, ButtonComesBack
<1>10. CASE req[r].ans = "ok" /\ view' = "app" /\ shown' = req[r].who /\ UNCHANGED stored
  <2>1. req[r].who \in Account /\ Knows(req[r])
    BY <1>1, <1>3, <1>10 DEF ReqOK, Knows
  <2>2. Types'
    BY <1>1, <1>2, <1>5, <1>10, <2>1, LoginAssumption DEF IInv, Types, ValueTypes, PageTypeOK
  <2>3. ShownIsOwner'
    BY <1>2, <1>3, <1>4, <1>10, <2>1 DEF ShownIsOwner, KnownOwner
  <2>4. TokensApart'
    BY <1>2, <1>6, <1>7, <2>3 DEF TokensApart, KnownOwner
  <2>5. ASSUME calm PROVE Alone' /\ OneSession' /\ TokensHeld'
    <3>1. stored' # NoToken /\ users[shown'] = stored'
      BY <1>3, <1>4, <1>10, <2>1, <2>5 DEF Held
    <3> QED BY <1>1, <1>2, <1>4, <1>10, <2>5, <3>1, HeardCalm
  <2> QED BY <1>2, <1>9, <1>10, <2>2, <2>4, <2>5 DEF IInv, CalmOK
<1>11. CASE /\ view' = "login" /\ UNCHANGED shown
            /\ stored' = IF req[r].ans = "unauthorized" THEN NoToken ELSE stored
  <2>1. Types'
    BY <1>1, <1>2, <1>4, <1>5, <1>11 DEF IInv, Types, ValueTypes, PageTypeOK
  <2>2. TokensApart'
    BY <1>2, <1>6, <1>7, <1>11 DEF TokensApart, ShownIsOwner, KnownOwner
  <2>3. ASSUME calm PROVE Alone' /\ OneSession' /\ TokensHeld'
    BY <1>1, <1>2, <1>4, <1>11, <2>3, HeardCalm
  <2> QED BY <1>2, <1>9, <1>11, <2>1, <2>2, <2>3 DEF IInv, CalmOK
<1> QED BY <1>10, <1>11 DEF MeAnswered

LEMMA CallAnsweredInv ==
  ASSUME IInv, NEW r \in Request, CallAnswered(r)
  PROVE  IInv'
<1>1. /\ ReqTypes' /\ req'[r] = Free /\ \A q \in Request \ {r} : req'[q] = req[q]
      /\ req[r].mine /\ req[r].kind = "call" /\ Heard(r, "call")
  BY HeardFrees DEF CallAnswered
<1>2. UNCHANGED <<sess, current, users, calm, button, polling, leaked>>
  BY DEF CallAnswered
<1>3. calm => Held(req[r])
  BY ReqFacts
<1>4. /\ view \in {"login", "app"} /\ (view # "login" => button)
      /\ \/ UNCHANGED <<stored, view, shown>> /\ req[r].ans # "unauthorized"
         \/ /\ stored' = NoToken /\ view' = "login" /\ shown' = NoAccount
            /\ req[r].ans = "unauthorized"
  BY <1>1 DEF IInv, PageOK, Types, PageTypeOK, CallAnswered
<1>5. SessTypes'
  BY <1>2 DEF IInv, Types, SessTypes
<1>6. Types'
  BY <1>1, <1>2, <1>4, <1>5 DEF IInv, Types, ValueTypes, PageTypeOK
<1>7. \A q \in Request : KnownOwner(req'[q])
  BY <1>1 DEF IInv, TokensApart, KnownOwner, Knows, Free
<1>8. TokensApart'
  BY <1>2, <1>4, <1>7 DEF IInv, TokensApart, ShownIsOwner, KnownOwner
<1>9. ~button' => polling' \/ leaked' \/ \E q \in Request : Mine(q, "start") /\ q # r
  BY <1>1, <1>2 DEF IInv, PageOK, ButtonComesBack, Mine
<1>10. PageOK'
  BY <1>1, <1>2, <1>4, <1>9, HeardPage
<1>11. ASSUME calm PROVE Alone' /\ OneSession' /\ TokensHeld'
  <2>1. UNCHANGED <<stored, view, shown>>
    BY <1>1, <1>3, <1>4, <1>11 DEF Held
  <2>2. ~leaked /\ (polling => ~button /\ view = "login")
        /\ (view = "app" => stored # NoToken /\ users[shown] = stored)
    BY <1>11 DEF IInv, CalmOK, Alone, TokensHeld
  <2>3. ~leaked' /\ (polling' => ~button' /\ view' = "login")
    BY <1>2, <2>1, <2>2
  <2> QED BY <1>1, <1>2, <1>11, <2>1, <2>2, <2>3, HeardCalm
<1> QED BY <1>2, <1>6, <1>8, <1>10, <1>11 DEF IInv, CalmOK

\* The page logs out: the requests that are new are for that
LEMMA LogoutInv ==
  ASSUME IInv, Logout
  PROVE  IInv'
<1> DEFINE New(q) == /\ req[q].at = "free" /\ ReqOK(req'[q]) /\ req'[q].mine
                     /\ req'[q].kind \in {"cancel", "logout"}
                     /\ req'[q].at = "sent" /\ req'[q].ans = "none"
<1>1. /\ view = "app" /\ view' = "login" /\ stored' = NoToken /\ shown' = NoAccount
      /\ polling' = FALSE /\ UNCHANGED <<sess, current, users, button, leaked>>
  BY DEF Logout
<1>2. button
  BY <1>1 DEF IInv, PageOK
<1>3. /\ ReqTypes' /\ \A q \in Request : req'[q] = req[q] \/ New(q)
      /\ calm' \in BOOLEAN
      /\ calm' => /\ calm /\ Quiet
                  /\ \E r \in Request : /\ \A q \in Request \ {r} : req'[q] = req[q]
                                        /\ req'[r].kind = "logout"
  <2>1. CASE \E r \in Request : Sends(r, "logout")
    <3>1. PICK r \in Request : Sends(r, "logout")
      BY <2>1
    <3>2. ReqOK(Sent("logout")) /\ Becomes(r, Sent("logout")) /\ req[r].at = "free"
          /\ Sent("logout").kind = "logout" /\ Sent("logout").at = "sent"
          /\ Sent("logout").mine /\ Sent("logout").ans = "none"
      BY <3>1, SentOK DEF Sends, Becomes
    <3>3. ReqTypes' /\ req'[r] = Sent("logout") /\ \A q \in Request \ {r} : req'[q] = req[q]
      BY <3>2, OneChanges DEF IInv, Types
    <3>4. calm' = (calm /\ Quiet) /\ calm \in BOOLEAN
      BY <3>1 DEF Sends, IInv, Types, ValueTypes
    <3> QED BY <3>2, <3>3, <3>4
  <2>2. CASE \E r, q \in Request : SendsBoth(r, "cancel", q, "logout")
    <3>1. PICK r \in Request, p \in Request : SendsBoth(r, "cancel", p, "logout")
      BY <2>2
    <3>2. /\ Sent("cancel") \in Req /\ ReqOK(Sent("cancel")) /\ Sent("cancel").kind = "cancel"
          /\ Sent("cancel").at = "sent" /\ Sent("cancel").mine /\ Sent("cancel").ans = "none"
          /\ Sent("logout") \in Req /\ ReqOK(Sent("logout")) /\ Sent("logout").kind = "logout"
          /\ Sent("logout").at = "sent" /\ Sent("logout").mine /\ Sent("logout").ans = "none"
      BY SentOK
    <3>3. /\ req[r].at = "free" /\ req[p].at = "free" /\ r # p /\ calm' = FALSE
          /\ req' = [req EXCEPT ![r] = Sent("cancel"), ![p] = Sent("logout")]
      BY <3>1 DEF SendsBoth
    <3>4. /\ req'[r] = Sent("cancel") /\ req'[p] = Sent("logout")
          /\ \A q \in Request \ {r, p} : req'[q] = req[q]
      BY <3>3 DEF IInv, Types, ReqTypes
    <3>5. ReqTypes'
      BY <3>2, <3>3, <3>4 DEF IInv, Types, ReqTypes
    <3>6. \A q \in Request : req'[q] = req[q] \/ New(q)
      BY <3>2, <3>3, <3>4
    <3> QED BY <3>3, <3>5, <3>6
  <2> QED BY <2>1, <2>2 DEF Logout
<1>4. Types'
  BY <1>1, <1>3 DEF IInv, Types, SessTypes, ValueTypes, PageTypeOK
<1>5. TokensApart'
  <2>1. \A q \in Request : KnownOwner(req'[q])
    BY <1>3 DEF IInv, TokensApart, KnownOwner, Knows
  <2> QED BY <1>1, <2>1 DEF IInv, TokensApart, ShownIsOwner, KnownOwner
<1>6. PageOK'
  <2>1. \A q \in Request : req'[q].mine => req'[q].kind # "me"
    BY <1>1, <1>3 DEF IInv, PageOK
  <2> QED BY <1>1, <1>2, <2>1 DEF PageOK, Mine, ButtonComesBack
<1>7. ASSUME calm' PROVE Alone' /\ OneSession' /\ TokensHeld'
  <2>1. PICK r \in Request : /\ \A q \in Request \ {r} : req'[q] = req[q]
                             /\ req'[r].kind = "logout"
    BY <1>3, <1>7
  <2>2. /\ calm /\ Alone /\ OneSession /\ TokensHeld
        /\ \A q \in Request : req[q].at = "free" /\ req[q].kind = "none" /\ req[q].ans = "none"
    BY <1>3, <1>7 DEF IInv, CalmOK, Quiet, Types, ReqTypes, ReqOK, Stage, Req
  <2>3. New(r)
    BY <1>3, <2>1, <2>2
  <2>4. \A q \in Request \ {r} : req'[q].at = "free" /\ req'[q].kind = "none"
    BY <2>1, <2>2
  <2>5. Alone'
    BY <1>1, <2>1, <2>2, <2>3, <2>4 DEF Alone, Busy, Doing
  <2>6. OneSession'
    BY <1>1, <2>2, <2>3, <2>4 DEF OneSession, Allocated, Runs
  <2>7. TokensHeld'
    BY <1>1, <2>1, <2>3, <2>4 DEF TokensHeld, Held, Knows
  <2> QED BY <2>5, <2>6, <2>7
<1> QED BY <1>3, <1>4, <1>5, <1>6, <1>7 DEF IInv, CalmOK

\* The page is loaded again: nothing listens to what is under way
LEMMA AbandonedOK ==
  ASSUME IInv, NEW q \in Request
  PROVE  /\ ReqOK(Abandoned[q]) /\ Abandoned[q] \in Req /\ ~Abandoned[q].mine
         /\ KnownOwner(Abandoned[q])
         /\ req[q].at = "free" => Abandoned[q].at = "free" /\ Abandoned[q].kind = "none"
<1>1. req[q] \in Req /\ ReqOK(req[q]) /\ KnownOwner(req[q])
  BY ReqFacts
<1>2. CASE req[q].at = "answered"
  BY <1>2, FreeOK DEF Abandoned, Free, KnownOwner, Knows
<1>3. CASE req[q].at # "answered"
  <2> DEFINE x == [req[q] EXCEPT !.mine = FALSE]
  <2>1. Abandoned[q] = x
    BY <1>3 DEF Abandoned
  <2>2. /\ x \in Req /\ x.mine = FALSE /\ x.kind = req[q].kind /\ x.at = req[q].at
        /\ x.of = req[q].of /\ x.tok = req[q].tok /\ x.who = req[q].who /\ x.ans = req[q].ans
    BY <1>1 DEF Req
  <2>3. ReqOK(x)
    BY <1>1, <1>3, <2>2 DEF ReqOK, Knows
  <2>4. KnownOwner(x)
    BY <1>1, <2>2 DEF KnownOwner, Knows
  <2>5. x.at = "free" => x.kind = "none"
    BY <1>1, <2>2 DEF ReqOK, Stage, Req
  <2> QED BY <2>1, <2>2, <2>3, <2>4, <2>5
<1> QED BY <1>2, <1>3

LEMMA ReloadInv ==
  ASSUME IInv, Reload
  PROVE  IInv'
<1>1. /\ button' = TRUE /\ polling' = FALSE /\ leaked' = FALSE /\ shown' = NoAccount
      /\ UNCHANGED <<sess, current, users, stored>> /\ calm' = (calm /\ Quiet)
  BY DEF Reload
<1>2. calm' \in BOOLEAN /\ (calm' => calm /\ OneSession /\ \A q \in Request : req[q].at = "free")
  BY <1>1 DEF IInv, Types, ValueTypes, Quiet, CalmOK
<1>3. SessTypes' /\ ValueTypes'
  BY <1>1, <1>2 DEF IInv, Types, SessTypes, ValueTypes
<1>4. \A q \in Request : /\ ReqOK(Abandoned[q]) /\ Abandoned[q] \in Req /\ ~Abandoned[q].mine
                         /\ KnownOwner(Abandoned[q])
                         /\ req[q].at = "free" => Abandoned[q].at = "free" /\ Abandoned[q].kind = "none"
  BY AbandonedOK
<1>5. \A a, b \in Account : users'[a] = users'[b] /\ users'[a] # NoToken => a = b
  BY <1>1 DEF IInv, TokensApart
<1>6. ASSUME NEW r \in Request, req[r].at = "free", view' = "none",
             req' = [Abandoned EXCEPT ![r] = Sent("me")]
      PROVE  IInv'
  <2>1. /\ Sent("me") \in Req /\ ReqOK(Sent("me")) /\ Sent("me").kind = "me"
        /\ Sent("me").at = "sent" /\ Sent("me").mine /\ Sent("me").ans = "none"
        /\ Sent("me").tok = stored
    BY SentOK
  <2>2. req'[r] = Sent("me") /\ \A q \in Request \ {r} : req'[q] = Abandoned[q]
    BY <1>6 DEF Abandoned
  <2>3. req' \in [Request -> Req]
    BY <1>4, <1>6, <2>1 DEF Abandoned
  <2>4. ReqTypes'
    BY <1>4, <2>1, <2>2, <2>3 DEF ReqTypes
  <2>5. Types'
    BY <1>1, <1>3, <1>6, <2>4 DEF Types, PageTypeOK
  <2>6. \A q \in Request : KnownOwner(req'[q])
    BY <1>4, <2>1, <2>2 DEF KnownOwner, Knows
  <2>7. TokensApart'
    BY <1>1, <1>5, <1>6, <2>6 DEF TokensApart, ShownIsOwner, KnownOwner
  <2>8. PageOK'
    BY <1>1, <1>4, <1>6, <2>1, <2>2 DEF PageOK, Mine, ButtonComesBack
  <2>9. ASSUME calm' PROVE Alone' /\ OneSession' /\ TokensHeld'
    <3>1. \A q \in Request \ {r} : req'[q].at = "free" /\ req'[q].kind = "none"
      BY <1>2, <1>4, <2>2, <2>9
    <3>2. Alone'
      BY <1>1, <1>6, <2>1, <2>2, <3>1 DEF Alone, Busy, Doing
    <3>3. OneSession'
      BY <1>1, <1>2, <2>1, <2>2, <2>9, <3>1 DEF OneSession, Allocated, Runs
    <3>4. TokensHeld'
      BY <1>6, <2>1, <2>2, <3>1 DEF TokensHeld, Held, Knows
    <3> QED BY <3>2, <3>3, <3>4
  <2> QED BY <2>5, <2>7, <2>8, <2>9 DEF IInv, CalmOK
<1>7. CASE view' = "login" /\ req' = Abandoned
  <2>1. req' \in [Request -> Req]
    BY <1>4, <1>7 DEF Abandoned
  <2>2. Types'
    BY <1>1, <1>3, <1>4, <1>7, <2>1 DEF Types, PageTypeOK, ReqTypes
  <2>3. \A q \in Request : KnownOwner(req'[q])
    BY <1>4, <1>7
  <2>4. TokensApart'
    BY <1>1, <1>5, <1>7, <2>3 DEF TokensApart, ShownIsOwner, KnownOwner
  <2>5. PageOK'
    BY <1>1, <1>4, <1>7 DEF PageOK, Mine, ButtonComesBack
  <2>6. ASSUME calm' PROVE Alone' /\ OneSession' /\ TokensHeld'
    <3>1. \A q \in Request : req'[q].at = "free" /\ req'[q].kind = "none"
      BY <1>2, <1>4, <1>7, <2>6
    <3>2. Alone'
      BY <1>1, <3>1 DEF Alone, Busy
    <3>3. OneSession'
      BY <1>1, <1>2, <2>6, <3>1 DEF OneSession, Allocated, Runs
    <3>4. TokensHeld'
      BY <1>7, <3>1 DEF TokensHeld, Held, Knows
    <3> QED BY <3>2, <3>3, <3>4
  <2> QED BY <2>2, <2>4, <2>5, <2>6 DEF IInv, CalmOK
<1> QED BY <1>6, <1>7 DEF Reload

-----------------------------------------------------------------------------
(* Every step, and the properties *)

LEMMA AuthStepInv ==
  ASSUME IInv, AuthStep, UNCHANGED pageVars
  PROVE  IInv'
<1>1. ASSUME NEW r \in Request, Handle(r) PROVE IInv'
  BY <1>1, StartInv, StartSessionInv, StatusInv, SaveTokenInv, DropSessionInv, CancelInv,
     EndSessionInv, AuthenticateInv, FindForLogoutInv, ClearTokenInv DEF Handle
<1>2. ASSUME NEW a \in Account, LoginElsewhere(a) PROVE IInv'
  BY <1>2, LoginElsewhereInv
<1>3. CASE Crash
  BY <1>3, CrashInv
<1>4. ASSUME NEW n \in Session, Monitor(n), UNCHANGED authVars PROVE IInv'
  BY <1>4, MonitorInv
<1> QED BY <1>1, <1>2, <1>3, <1>4 DEF AuthStep

LEMMA NextInv == IInv /\ [Next]_vars => IInv'
<1> SUFFICES ASSUME IInv, [Next]_vars PROVE IInv'
  OBVIOUS
<1>1. CASE AuthStep /\ UNCHANGED pageVars
  BY <1>1, AuthStepInv
<1>2. ASSUME NEW r \in Request, Asks(r) PROVE IInv'
  BY <1>2, AsksInv
<1>3. ASSUME NEW r \in Request, Hears(r) PROVE IInv'
  BY <1>3, StartAnsweredInv, StatusAnsweredInv, MeAnsweredInv, CallAnsweredInv DEF Hears
<1>4. CASE Logout
  BY <1>4, LogoutInv
<1>5. CASE Reload
  BY <1>5, ReloadInv
<1>6. CASE UNCHANGED vars
  <2>1. UNCHANGED <<sess, current, users, stored, req, calm, view, button, polling, leaked, shown>>
    BY <1>6 DEF vars, authVars, pageVars
  <2>2. Types' /\ TokensApart'
    BY <2>1 DEF IInv, Types, SessTypes, ReqTypes, ValueTypes, PageTypeOK, TokensApart, KnownOwner, ShownIsOwner
  <2>3. PageOK'
    BY <2>1 DEF IInv, PageOK, ButtonComesBack, Mine
  <2>4. CalmOK'
    BY <2>1 DEF IInv, CalmOK, Alone, Busy, OneSession, Allocated, Runs, TokensHeld, Held
  <2> QED BY <2>2, <2>3, <2>4 DEF IInv
<1> QED BY <1>1, <1>2, <1>3, <1>4, <1>5, <1>6 DEF Next

LEMMA Invariant == Spec => []IInv
<1> QED BY InitInv, NextInv, PTL DEF Spec

\* Every session, request and page state is one the code knows; a handler that
\* ends a session or writes a token knows which (auth_browser.c)
THEOREM TypeCorrect == Spec => []TypeOK
<1>1. IInv => TypeOK
  BY InvImplies
<1> QED BY <1>1, Invariant, PTL

\* As long as login requests come one at a time there is one session, the
\* static's, and no thread works on one that has been freed (auth_browser.c:11,
\* browser_monitor.c)
THEOREM OneLoginAtATime == Spec => []OneLogin
<1>1. IInv => OneLogin
  BY InvImplies
<1> QED BY <1>1, Invariant, PTL

\* ... and the token of the application on the screen is the one in the table
\* (auth_browser.c, users.c, auth.js)
THEOREM LoginIsHeld == Spec => []LoginHolds
<1>1. IInv => LoginHolds
  BY InvImplies
<1> QED BY <1>1, Invariant, PTL

\* Whatever overlaps, the token the page sends is nobody else's than the
\* account's it shows
THEOREM ShownOwnsToken == Spec => []ShownIsOwner
<1>1. IInv => ShownIsOwner
  BY InvImplies
<1> QED BY <1>1, Invariant, PTL

\* A disabled login button has something that will enable it (auth.js)
THEOREM ButtonWorksAgain == Spec => []ButtonComesBack
<1>1. IInv => ButtonComesBack
  BY InvImplies
<1> QED BY <1>1, Invariant, PTL

\* In calm, only the button and a reload leave the application (api.js)
THEOREM NotThrownOut == Spec => StaysLoggedIn
<1> DEFINE Stays == calm' /\ view = "app" /\ view' # "app" => Logout \/ Reload
<1>1. IInv /\ [Next]_vars => [Stays]_vars
  <2> SUFFICES ASSUME IInv, Next, calm', view = "app", view' # "app", ~Logout, ~Reload
               PROVE  FALSE
    OBVIOUS
  <2>1. UNCHANGED view => FALSE
    OBVIOUS
  <2>2. PICK r \in Request : Asks(r) \/ Hears(r)
    BY <2>1 DEF Next, pageVars
  <2>3. ~Asks(r)
    BY <2>1 DEF Asks, Click, Tick, TickLate, Call, pageVars
  <2>4. ~StartAnswered(r) /\ ~StatusAnswered(r)
    BY <2>1 DEF StartAnswered, StatusAnswered, pageVars
  <2>5. ASSUME MeAnswered(r) PROVE FALSE
    <3>1. req[r].kind = "me" /\ req[r].mine
      BY <2>5, ReqFacts DEF MeAnswered, Heard, At, ReqOK
    <3> QED BY <3>1 DEF IInv, PageOK
  <2>6. ASSUME CallAnswered(r) PROVE FALSE
    <3>1. req[r].kind = "call" /\ req[r].ans = "unauthorized" /\ calm
      BY <2>1, <2>6 DEF CallAnswered, Heard, At
    <3> QED BY <3>1, ReqFacts DEF Held
  <2> QED BY <2>2, <2>3, <2>4, <2>5, <2>6 DEF Hears
<1> QED BY <1>1, Invariant, PTL DEF Spec, StaysLoggedIn
=============================================================================
