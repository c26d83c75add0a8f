------------------------------ MODULE MCReads ------------------------------
(***************************************************************************)
(* Small instances of Reads for TLC.                                       *)
(***************************************************************************)
EXTENDS Reads, TLC

\* Neither the reads nor the operations on the tables tell these apart.
Symmetry == Permutations(Users) \cup Permutations(ReportIds)
                \cup Permutations(Companies)
=============================================================================
