---------------------------- MODULE MCCodingPage ----------------------------
(***************************************************************************)
(* CodingPage for TLC.                                                     *)
(***************************************************************************)
EXTENDS CodingPage, TLC

\* Projects and requests are only told apart by what happens to them
Symmetry == Permutations(Project) \cup Permutations(Request)
=============================================================================
