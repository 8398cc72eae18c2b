---------------------------- MODULE MCCheckpoint ----------------------------
(***************************************************************************)
(* Constants for model checking Checkpoint.                                *)
(***************************************************************************)
EXTENDS Checkpoint

Sizes2 == <<2>>
Sizes11 == <<1, 1>>
Sizes21 == <<2, 1>>
Sizes12 == <<1, 2>>
=============================================================================
