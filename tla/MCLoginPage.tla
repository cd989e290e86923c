---------------------------- MODULE MCLoginPage -----------------------------
(* LoginPage for TLC *)
EXTENDS LoginPage, TLC

Symmetry ==
    Permutations(Token) \cup Permutations(Request) \cup Permutations(Session)
        \cup Permutations(Account)
=============================================================================
