-------------------------- MODULE MCScorePipeline --------------------------
(***************************************************************************)
(* Small instances of ScorePipeline for TLC.                               *)
(***************************************************************************)
EXTENDS ScorePipeline, TLC

\* Workers and their partitions are interchangeable.
Symmetry == Permutations(Workers)
=============================================================================
