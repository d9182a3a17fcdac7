------------------------------- MODULE MC_TxBuild -------------------------------
(* One test account loaded at sequence 5 building three transactions of   *)
(* two operations: enough for a lost or rejected transaction to be        *)
(* followed by later ones, and for submissions to overtake each other.    *)
EXTENDS TxBuild

CONSTANTS o1, o2

MCOps == {o1, o2}
=============================================================================
