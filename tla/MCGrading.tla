----------------------------- MODULE MCGrading -----------------------------
(***************************************************************************)
(* Grading for TLC.                                                        *)
(***************************************************************************)
EXTENDS Grading, TLC

\* Works are only told apart by what happens to them
Symmetry == Permutations(Work)
=============================================================================
