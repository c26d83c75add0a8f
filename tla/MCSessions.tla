----------------------------- MODULE MCSessions -----------------------------
(***************************************************************************)
(* Small instances of Sessions for TLC.                                    *)
(***************************************************************************)
EXTENDS Sessions, TLC

\* Nothing in the handlers tells requests, accounts or user ids apart.
Symmetry == Permutations(Requests) \cup Permutations(Accounts) \cup Permutations(Users)
=============================================================================
