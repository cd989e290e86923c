----------------------------- MODULE LoginPage ------------------------------
(***************************************************************************)
(* The dashboard's page and its login: auth.js, api.js and app.js on top   *)
(* of the handlers of DashboardAuth.  The page starts a login, asks every  *)
(* two seconds how it went until it hears or two minutes are over, shows   *)
(* the application, logs out, and is reloaded; an answer may find the page *)
(* long gone on to something else.                                         *)
(***************************************************************************)
EXTENDS DashboardAuth

VARIABLES
    view,       \* "none" (both pages hidden), "login" or "app"
    button,     \* the login button is enabled
    polling,    \* pollInterval is set
    leaked,     \* an interval runs that pollInterval no longer names
    shown       \* whom the application on the screen shows

pageVars == <<view, button, polling, leaked, shown>>
vars == <<sess, authVars, pageVars>>

PageTypeOK ==
    /\ view \in {"none", "login", "app"}
    /\ button \in BOOLEAN /\ polling \in BOOLEAN /\ leaked \in BOOLEAN
    /\ shown \in Account \cup {NoAccount}
    /\ view = "app" <=> shown # NoAccount

\* The types; the application is shown only for somebody, and a handler that
\* ends a session or writes a token knows which
TypeOK == LoginTypeOK /\ AuthTypeOK /\ PageTypeOK

Init ==
    /\ LoginInit /\ AuthInit
    /\ view = "login" /\ button = TRUE /\ polling = FALSE /\ leaked = FALSE
    /\ shown = NoAccount

-----------------------------------------------------------------------------
(* Sending *)

Quiet == \A r \in Request : req[r].at = "free"

\* A request; those of api.js come with the token that is stored
Sent(kind) == [Free EXCEPT !.kind = kind, !.at = "sent", !.mine = TRUE,
                   !.tok = IF kind \in {"me", "call", "logout"} THEN stored ELSE NoToken]
Sends(r, kind) ==
    /\ req[r].at = "free"
    /\ req' = [req EXCEPT ![r] = Sent(kind)]
    /\ calm' = (calm /\ Quiet)
SendsBoth(r, kind1, q, kind2) ==
    /\ req[r].at = "free" /\ req[q].at = "free" /\ r # q
    /\ req' = [req EXCEPT ![r] = Sent(kind1), ![q] = Sent(kind2)]
    /\ calm' = FALSE

\* doBrowserLogin
Click(r) ==
    /\ view = "login" /\ button
    /\ Sends(r, "start") /\ button' = FALSE
    /\ UNCHANGED <<sess, current, users, stored, view, polling, leaked, shown>>

\* pollBrowserStatus, before and after POLL_TIMEOUT_MS
Tick(r) ==
    /\ polling \/ leaked
    /\ Sends(r, "status")
    /\ UNCHANGED <<sess, current, users, stored, pageVars>>

\* Mutant: the page stops asking and says nothing
TickLate_Mute(r) ==
    /\ polling \/ leaked
    /\ Sends(r, "cancel") /\ polling' = FALSE
    /\ UNCHANGED <<sess, current, users, stored, view, button, leaked, shown>>

TickLate(r) ==
    /\ polling \/ leaked
    /\ Sends(r, "cancel") /\ polling' = FALSE /\ button' = TRUE
    /\ UNCHANGED <<sess, current, users, stored, view, leaked, shown>>

\* doLogout.  The token is taken before it is cleared
Logout ==
    /\ view = "app"
    /\ \/ ~polling /\ \E r \in Request : Sends(r, "logout")
       \/ polling /\ \E r, q \in Request : SendsBoth(r, "cancel", q, "logout")
    /\ polling' = FALSE /\ stored' = NoToken /\ view' = "login" /\ shown' = NoAccount
    /\ UNCHANGED <<sess, current, users, button, leaked>>

\* Any request of the application through api.js
Call(r) ==
    /\ view = "app"
    /\ Sends(r, "call")
    /\ UNCHANGED <<sess, current, users, stored, pageVars>>

\* The page is loaded again and finds a token, or none; nothing that is under
\* way has a listener any more
Abandoned == [q \in Request |-> IF req[q].at = "answered" THEN Free
                                ELSE [req[q] EXCEPT !.mine = FALSE]]
Reload ==
    /\ \/ /\ stored # NoToken /\ view' = "none"
          /\ \E r \in Request : req[r].at = "free" /\ req' = [Abandoned EXCEPT ![r] = Sent("me")]
       \/ /\ stored = NoToken /\ view' = "login"
          /\ req' = Abandoned
    /\ calm' = (calm /\ Quiet)
    /\ button' = TRUE /\ polling' = FALSE /\ leaked' = FALSE /\ shown' = NoAccount
    /\ UNCHANGED <<sess, current, users, stored>>

-----------------------------------------------------------------------------
(* Answers *)

Heard(r, kind) ==
    /\ At(r, kind, "answered")
    /\ req' = [req EXCEPT ![r] = Free]

StartAnswered(r) ==
    /\ Heard(r, "start")
    /\ \/ /\ req[r].ans = "ok"
          /\ polling' = TRUE /\ leaked' = (leaked \/ polling)
          /\ UNCHANGED button
       \/ /\ req[r].ans # "ok" /\ button' = TRUE
          /\ UNCHANGED <<polling, leaked>>
    /\ UNCHANGED <<sess, current, users, stored, calm, view, shown>>

StatusAnswered(r) ==
    /\ Heard(r, "status")
    /\ \/ /\ req[r].ans = "pending"
          /\ UNCHANGED <<stored, pageVars>>
       \/ /\ req[r].ans = "ok"
          /\ stored' = req[r].tok /\ shown' = req[r].who /\ view' = "app"
          /\ polling' = FALSE /\ button' = TRUE
          /\ UNCHANGED leaked
       \/ /\ req[r].ans \in {"error", "failed"}
          /\ polling' = FALSE /\ button' = TRUE
          /\ UNCHANGED <<stored, shown, view, leaked>>
    /\ UNCHANGED <<sess, current, users, calm>>

\* app.js; an error of any kind shows the login page, a 401 clears the token too
MeAnswered(r) ==
    /\ Heard(r, "me")
    /\ \/ req[r].ans = "ok" /\ view' = "app" /\ shown' = req[r].who /\ UNCHANGED stored
       \/ /\ req[r].ans # "ok" /\ view' = "login"
          /\ stored' = IF req[r].ans = "unauthorized" THEN NoToken ELSE stored
          /\ UNCHANGED shown
    /\ UNCHANGED <<sess, current, users, calm, button, polling, leaked>>

\* Mutant: every error shows the login page
CallAnswered_AnyError(r) ==
    /\ Heard(r, "call")
    /\ \/ /\ req[r].ans # "ok"
          /\ stored' = NoToken /\ view' = "login" /\ shown' = NoAccount
       \/ req[r].ans = "ok" /\ UNCHANGED <<stored, view, shown>>
    /\ UNCHANGED <<sess, current, users, calm, button, polling, leaked>>

\* The 401 of an application's request, whatever token it was sent with
CallAnswered(r) ==
    /\ Heard(r, "call")
    /\ \/ /\ req[r].ans = "unauthorized"
          /\ stored' = NoToken /\ view' = "login" /\ shown' = NoAccount
       \/ req[r].ans # "unauthorized" /\ UNCHANGED <<stored, view, shown>>
    /\ UNCHANGED <<sess, current, users, calm, button, polling, leaked>>

-----------------------------------------------------------------------------
Asks(r) == Click(r) \/ Tick(r) \/ TickLate(r) \/ Call(r)
Hears(r) == StartAnswered(r) \/ StatusAnswered(r) \/ MeAnswered(r) \/ CallAnswered(r)

Next ==
    \/ AuthStep /\ UNCHANGED pageVars
    \/ \E r \in Request : Asks(r) \/ Hears(r)
    \/ Logout \/ Reload

Spec == Init /\ [][Next]_vars

-----------------------------------------------------------------------------
(* Properties *)

Allocated(n) == sess[n].status # "none"
Ending(n) == \E r \in Request : req[r].at = "ending" /\ req[r].of = n

\* auth_browser.c:11, "One active browser login session at a time": as long as
\* the login requests come one at a time, no session and no thread is left
\* behind when another takes its place, and the struct a thread works on is not
\* freed under it
OneLogin ==
    calm => /\ \A n \in Session : Allocated(n) => n = current
            /\ \A n \in Session : Ending(n) => n = current
            /\ \A n \in Session : Runs(n) => sess[n].status = "pending"

\* The application on the screen has a token and the token is the account's:
\* none of its requests is turned away
LoginHolds ==
    calm /\ view = "app" => stored # NoToken /\ users[shown] = stored

\* Whatever overlaps, the page never works as another account than it shows
ShownIsOwner ==
    view = "app" /\ stored # NoToken => \A a \in Account : users[a] = stored => a = shown

\* The user is not thrown out: only the button and a reload leave the
\* application
StaysLoggedIn ==
    [][calm' /\ view = "app" /\ view' # "app" => Logout \/ Reload]_vars

\* A button that is disabled is enabled again: an interval runs that will do it
\* at the latest when two minutes are over, or the answer that will start it or
\* do it is on its way
ButtonComesBack ==
    ~button => polling \/ leaked \/ \E r \in Request : req[r].kind = "start" /\ req[r].mine
=============================================================================
