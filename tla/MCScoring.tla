----------------------------- MODULE MCScoring -----------------------------
(***************************************************************************)
(* Small instances of Scoring for TLC.                                     *)
(***************************************************************************)
EXTENDS Scoring, TLC

\* Neither the score nor the operations on the tables tell these apart.
Symmetry == Permutations(Users) \cup Permutations(ReportIds)
                \cup Permutations(Companies)
=============================================================================
