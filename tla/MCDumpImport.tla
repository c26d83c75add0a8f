---------------------------- MODULE MCDumpImport ----------------------------
(***************************************************************************)
(* Small instances of DumpImport for TLC.                                  *)
(***************************************************************************)
EXTENDS DumpImport

CONSTANTS b1, b1x, b2, bx, A, B, t1, t2

\* b1x is b1 in the digits of another script; bx has a digit that is no decimal.
MCKeyOf == (b1 :> 1) @@ (b1x :> 1) @@ (b2 :> 2) @@ (bx :> NULL)

MCRows == {
    [code |-> b1,   product |-> t1,   company |-> A],
    [code |-> b1x,  product |-> t2,   company |-> B],
    [code |-> b2,   product |-> NULL, company |-> NULL],
    [code |-> bx,   product |-> t1,   company |-> A],
    [code |-> NULL, product |-> t1,   company |-> A]}
=============================================================================
