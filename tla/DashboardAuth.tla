--------------------------- MODULE DashboardAuth ----------------------------
(***************************************************************************)
(* ui/dashboard/auth_browser.c and auth.c over core/database/users.c: the  *)
(* handlers that start, ask for and cancel a browser login, log out, and   *)
(* tell a page who it is.  Each request has a thread of its own;           *)
(* g_browser_session is a static that they read and write without a lock,  *)
(* and between two readings a handler may be in the database or wait for   *)
(* the monitor's thread in pthread_join.                                   *)
(***************************************************************************)
EXTENDS BrowserLogin

CONSTANTS
    Request,    \* requests under way at a time
    Token,      \* dashboard tokens; random, so that none is there twice
    NoToken

ASSUME NoTokenAssumption == NoToken \notin Token

VARIABLES
    current,    \* g_browser_session
    users,      \* column dashboard_token of table users
    stored,     \* the token in the localStorage of the page's browser
    req,        \* the requests
    calm        \* history: the login requests have come one at a time, and
                \* nobody has logged in elsewhere

authVars == <<current, users, stored, req, calm>>

\* at is the next step of the handler; of is the session browser_login_cancel
\* works on; tok is the token the request comes with or the one it answers;
\* who is the account that was found; mine is FALSE when no page listens
Req == [kind : {"none", "start", "status", "cancel", "logout", "me", "call"},
        at : {"free", "sent", "ending", "starting", "saving", "dropping", "clearing", "answered"},
        of : Session \cup {NoSession}, tok : Token \cup {NoToken},
        who : Account \cup {NoAccount},
        ans : {"none", "ok", "pending", "error", "failed", "unauthorized"},
        mine : BOOLEAN]
Free == [kind |-> "none", at |-> "free", of |-> NoSession, tok |-> NoToken,
         who |-> NoAccount, ans |-> "none", mine |-> FALSE]

AuthTypeOK ==
    /\ current \in Session \cup {NoSession}
    /\ users \in [Account -> Token \cup {NoToken}]
    /\ stored \in Token \cup {NoToken}
    /\ req \in [Request -> Req]
    /\ \A r \in Request :
        /\ req[r].at = "ending" <=> req[r].of \in Session
        /\ req[r].at \in {"saving", "clearing"} => req[r].who \in Account
        /\ req[r].ans = "ok" /\ req[r].kind \in {"status", "me"} => req[r].who \in Account
    /\ calm \in BOOLEAN

AuthInit ==
    /\ current = NoSession
    /\ users = [a \in Account |-> NoToken]
    /\ stored = NoToken
    /\ req = [r \in Request |-> Free]
    /\ calm = TRUE

\* The request x when it has been answered; nothing waits for the answer to a
\* cancel or a logout
Answered(x, ans) ==
    IF x.mine /\ x.kind \in {"start", "status", "me", "call"}
    THEN [x EXCEPT !.at = "answered", !.of = NoSession, !.ans = ans] ELSE Free

At(r, kind, at) == req[r].kind = kind /\ req[r].at = at
Becomes(r, x) == req' = [req EXCEPT ![r] = x]
Answers(r, ans) == Becomes(r, Answered(req[r], ans))

\* Who the token belongs to: db_user_find_by_token
Owners(t) == {a \in Account : t # NoToken /\ users[a] = t}

\* Structs that calloc may return, tokens that are nowhere to be found
Available(n) == n # current /\ ~Runs(n) /\ \A r \in Request : req[r].of # n
Fresh(t) == t # stored /\ t \notin {users[a] : a \in Account} \cup {req[r].tok : r \in Request}

-----------------------------------------------------------------------------
(* dashboard_auth_browser_start, _status, _cancel *)

\* browser_login_cancel(g_browser_session), up to pthread_join; ans is what
\* the handler will answer
EndCurrent(r, ans) ==
    /\ current # NoSession
    /\ sess' = Cancelled(current)
    /\ Becomes(r, [req[r] EXCEPT !.at = "ending", !.of = current, !.ans = ans])
    /\ UNCHANGED current

\* Mutant: the session that is there is forgotten
Start_Forgets(r) ==
    /\ At(r, "start", "sent")
    /\ Becomes(r, [req[r] EXCEPT !.at = "starting"])
    /\ UNCHANGED <<sess, current, users, stored, calm>>

Start(r) ==
    /\ At(r, "start", "sent")
    /\ \/ EndCurrent(r, "none")
       \/ /\ current = NoSession /\ Becomes(r, [req[r] EXCEPT !.at = "starting"])
          /\ UNCHANGED <<sess, current>>
    /\ UNCHANGED <<users, stored, calm>>

\* calloc, RAND_bytes or pthread_create may fail; validating takes seconds
StartSession(r) ==
    /\ At(r, "start", "starting")
    /\ \/ /\ current' = NoSession /\ Answers(r, "failed")
          /\ UNCHANGED sess
       \/ /\ \E n \in Session : /\ Available(n) /\ current' = n
                              /\ \E s \in Started : sess' = [sess EXCEPT ![n] = s]
          /\ Answers(r, "ok")
    /\ UNCHANGED <<users, stored, calm>>

Status(r) ==
    /\ At(r, "status", "sent")
    /\ \/ /\ current = NoSession /\ Answers(r, "failed")
          /\ UNCHANGED <<sess, current>>
       \/ /\ current # NoSession /\ sess[current].status = "pending" /\ Answers(r, "pending")
          /\ UNCHANGED <<sess, current>>
       \/ /\ current # NoSession /\ sess[current].status = "success"
          /\ Becomes(r, [req[r] EXCEPT !.at = "saving", !.who = sess[current].who])
          /\ UNCHANGED <<sess, current>>
       \/ /\ current # NoSession /\ sess[current].status \notin {"pending", "success"}
          /\ EndCurrent(r, "error")
    /\ UNCHANGED <<users, stored, calm>>

\* Mutant: the account is read from the session again
SaveToken_Again(r) ==
    /\ req[r].at = "saving" /\ current # NoSession /\ sess[current].who # NoAccount
    /\ \E t \in Token :
          /\ Fresh(t)
          /\ Becomes(r, [req[r] EXCEPT !.at = "dropping", !.ans = "ok", !.tok = t])
          /\ users' = [users EXCEPT ![sess[current].who] = t]
    /\ UNCHANGED <<sess, current, stored, calm>>

\* Mutant: a token that could not be written is answered all the same
SaveToken_Unchecked(r) ==
    /\ req[r].at = "saving"
    /\ \E t \in Token :
          /\ Fresh(t)
          /\ Becomes(r, [req[r] EXCEPT !.at = "dropping", !.ans = "ok", !.tok = t])
          /\ users' = [users EXCEPT ![req[r].who] = t] \/ UNCHANGED users
    /\ UNCHANGED <<sess, current, stored, calm>>

\* The database sections of a login: the account's row is written, found, and
\* given a token.  Each may fail
SaveToken(r) ==
    /\ req[r].at = "saving"
    /\ \/ /\ Becomes(r, [req[r] EXCEPT !.at = "dropping", !.ans = "failed"])
          /\ UNCHANGED users
       \/ \E t \in Token :
            /\ Fresh(t)
            /\ Becomes(r, [req[r] EXCEPT !.at = "dropping", !.ans = "ok", !.tok = t])
            /\ users' = [users EXCEPT ![req[r].who] = t]
    /\ UNCHANGED <<sess, current, stored, calm>>

\* The session is ended: the one that is current by now
DropSession(r) ==
    /\ req[r].at = "dropping"
    /\ \/ EndCurrent(r, req[r].ans)
       \/ current = NoSession /\ Answers(r, req[r].ans) /\ UNCHANGED <<sess, current>>
    /\ UNCHANGED <<users, stored, calm>>

Cancel(r) ==
    /\ At(r, "cancel", "sent")
    /\ \/ EndCurrent(r, "ok")
       \/ current = NoSession /\ Answers(r, "ok") /\ UNCHANGED <<sess, current>>
    /\ UNCHANGED <<users, stored, calm>>

\* pthread_join, free and g_browser_session = NULL.  Two handlers may be ending
\* the same session: what the second pthread_join and the second free do is not
\* defined; here the one returns, the other does nothing or ends the process
EndSession(r) ==
    /\ req[r].at = "ending"
    /\ Joined(req[r].of) \/ \E q \in Request \ {r} : req[q].of = req[r].of
    /\ sess' = Freed(req[r].of) /\ current' = NoSession
    /\ \/ /\ req[r].kind = "start"
          /\ Becomes(r, [req[r] EXCEPT !.at = "starting", !.of = NoSession])
       \/ req[r].kind # "start" /\ Answers(r, req[r].ans)
    /\ UNCHANGED <<users, stored, calm>>

-----------------------------------------------------------------------------
(* dashboard_auth_login, _me, _logout, and the other handlers *)

\* A client that has a cookie of its own logs in; what others see of it is
\* db_user_set_token
LoginElsewhere(a) ==
    /\ calm' = FALSE
    /\ \E t \in Token : Fresh(t) /\ users' = [users EXCEPT ![a] = t]
    /\ UNCHANGED <<sess, current, stored, req>>

\* dashboard_auth_me and authenticate_dashboard
Authenticate(r) ==
    /\ req[r].kind \in {"me", "call"} /\ req[r].at = "sent"
    /\ \/ \E a \in Owners(req[r].tok) : Becomes(r, Answered([req[r] EXCEPT !.who = a], "ok"))
       \/ Owners(req[r].tok) = {} /\ Answers(r, "unauthorized")
    /\ UNCHANGED <<sess, current, users, stored, calm>>

FindForLogout(r) ==
    /\ At(r, "logout", "sent")
    /\ \/ \E a \in Owners(req[r].tok) :
            Becomes(r, [req[r] EXCEPT !.at = "clearing", !.who = a])
       \/ Owners(req[r].tok) = {} /\ Answers(r, "ok")
    /\ UNCHANGED <<sess, current, users, stored, calm>>

\* db_user_clear_token: whatever token the row has by now
ClearToken(r) ==
    /\ req[r].at = "clearing" /\ Answers(r, "ok")
    /\ users' = [users EXCEPT ![req[r].who] = NoToken]
    /\ UNCHANGED <<sess, current, stored, calm>>

-----------------------------------------------------------------------------
\* The process dies, and the sessions, their threads and the handlers with it;
\* the table stays.  Pages see their requests fail
Crash ==
    /\ sess' = [n \in Session |-> NoLogin] /\ current' = NoSession
    /\ req' = [r \in Request |-> Answered(req[r], "failed")]
    /\ UNCHANGED <<users, stored, calm>>

Handle(r) ==
    \/ Start(r) \/ StartSession(r) \/ Status(r) \/ SaveToken(r) \/ DropSession(r)
    \/ Cancel(r) \/ EndSession(r) \/ Authenticate(r) \/ FindForLogout(r) \/ ClearToken(r)

AuthStep ==
    \/ \E r \in Request : Handle(r)
    \/ \E a \in Account : LoginElsewhere(a)
    \/ Crash
    \/ (\E n \in Session : Monitor(n)) /\ UNCHANGED authVars
=============================================================================
