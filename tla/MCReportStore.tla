--------------------------- MODULE MCReportStore ---------------------------
(***************************************************************************)
(* Small instances of ReportStore for TLC.                                 *)
(***************************************************************************)
EXTENDS ReportStoreInv, TLC

\* Nothing in the handlers tells users, requests, ids or texts apart.
Symmetry == Permutations(Users) \cup Permutations(Requests)
                \cup Permutations(ReportIds) \cup Permutations(Texts)
                \cup Permutations(Companies)
=============================================================================
