\* Two accounts, two sessions, two requests
SPECIFICATION Spec
CONSTANTS
    Account = {a1, a2}
    NoAccount = NoAccount
    Session = {n1, n2}
    NoSession = NoSession
    Request = {r1, r2}
    Token = {t1, t2, t3, t4}
    NoToken = NoToken
INVARIANTS OneLogin LoginHolds ShownIsOwner ButtonComesBack
PROPERTIES StaysLoggedIn
SYMMETRY Symmetry
