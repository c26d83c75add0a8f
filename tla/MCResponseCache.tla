-------------------------- MODULE MCResponseCache --------------------------
(***************************************************************************)
(* Small instances of ResponseCache for TLC.                               *)
(***************************************************************************)
EXTENDS ResponseCache, TLC

\* Requests and replicas are interchangeable.
Symmetry == Permutations(Readers) \cup Permutations(Writers) \cup Permutations(Replicas)
=============================================================================
