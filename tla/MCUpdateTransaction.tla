------------------------- MODULE MCUpdateTransaction -------------------------
(* Instances of UpdateTransaction for TLC.                                   *)
EXTENDS UpdateTransaction, TLC

CONSTANTS d1, d2

Files == {d1, d2}
=============================================================================
