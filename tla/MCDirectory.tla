---------------------------- MODULE MCDirectory ----------------------------
(***************************************************************************)
(* Small instances of Directory for TLC.                                   *)
(***************************************************************************)
EXTENDS Directory, TLC

=============================================================================
