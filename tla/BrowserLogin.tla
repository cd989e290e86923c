---------------------------- MODULE BrowserLogin ----------------------------
(***************************************************************************)
(* auth/session/browser_monitor.c: a login session and the thread that     *)
(* looks for the session cookie in the browsers' databases every two       *)
(* seconds until it finds one UvA accepts, is cancelled, or has looked 60  *)
(* times.  The cookie stands for the account it belongs to: the user may   *)
(* log in at UvA and out again at any time, so any may be found.  Looking  *)
(* and finding nothing changes nothing, and the attempts are not counted:  *)
(* the thread may give up at any of them.                                  *)
(***************************************************************************)
CONSTANTS
    Account,        \* accounts at UvA
    Session,        \* the structs that can be allocated at a time
    NoAccount, NoSession

ASSUME LoginAssumption == NoAccount \notin Account /\ NoSession \notin Session

VARIABLE sess       \* the sessions

\* status is "none" when the struct is not allocated, thread when no thread
\* runs; who is whose cookie has been found
Login == [status : {"none", "pending", "success", "error", "timeout"},
          thread : {"none", "waiting", "checking"}, cancelled : BOOLEAN,
          who : Account \cup {NoAccount}]
NoLogin == [status |-> "none", thread |-> "none", cancelled |-> FALSE, who |-> NoAccount]

Runs(n) == sess[n].thread # "none"

\* A session that has succeeded knows for whom
LoginTypeOK ==
    /\ sess \in [Session -> Login]
    /\ \A n \in Session : sess[n].status = "success" => sess[n].who \in Account

LoginInit == sess = [n \in Session |-> NoLogin]

-----------------------------------------------------------------------------
(* What the handlers call *)

\* browser_login_start: the cookie is there and UvA accepts it, or the browser
\* is opened and the thread is started
Started ==
    {[NoLogin EXCEPT !.status = "pending", !.thread = "waiting"]} \cup
    {[NoLogin EXCEPT !.status = "success", !.who = a] : a \in Account}

\* browser_login_cancel, up to pthread_join
Cancelled(n) == [sess EXCEPT ![n].cancelled = TRUE]

\* pthread_join returns; at once when thread_started is not set
Joined(n) == ~Runs(n)

\* ... and free, which does not stop a thread
Freed(n) == [sess EXCEPT ![n] = [NoLogin EXCEPT !.cancelled = Runs(n),
                                                !.thread = sess[n].thread]]

-----------------------------------------------------------------------------
(* monitor_thread *)

\* A cookie is found and sent to UvA
Attempt(n) ==
    /\ sess[n].thread = "waiting" /\ ~sess[n].cancelled
    /\ \E a \in Account :
        sess' = [sess EXCEPT ![n] = [@ EXCEPT !.thread = "checking", !.who = a]]

\* The thread returns; when the struct has been freed, what it writes is lost
Returns(n, status) ==
    sess' = [sess EXCEPT ![n] = [@ EXCEPT !.thread = "none", !.cancelled = FALSE,
                 !.status = IF sess[n].status = "pending" THEN status ELSE sess[n].status]]

\* upstream_validate_cookie; a cancel in the meantime makes no difference
Accepted(n) == sess[n].thread = "checking" /\ Returns(n, "success")

Rejected(n) ==
    /\ sess[n].thread = "checking"
    /\ sess' = [sess EXCEPT ![n] = [@ EXCEPT !.thread = "waiting", !.who = NoAccount]]

GiveUp(n) ==
    /\ sess[n].thread = "waiting"
    /\ Returns(n, IF sess[n].cancelled THEN "error" ELSE "timeout")

Monitor(n) == Attempt(n) \/ Accepted(n) \/ Rejected(n) \/ GiveUp(n)
=============================================================================
