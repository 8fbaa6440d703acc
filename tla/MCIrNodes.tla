------------------------------ MODULE MCIrNodes ------------------------------
(***************************************************************************)
(* IrNodes for TLC: the numbers that share a key or have none, control and *)
(* data types, and tuples narrow enough to be shared and too wide for a    *)
(* node.                                                                   *)
(***************************************************************************)
EXTENDS IrNodes

MCFloat64s == {NaN, MinusZero, Zero}
==============================================================================
