----------------------------- MODULE MCRowValues -----------------------------
(***************************************************************************)
(* An instance of RowValues with ints of three bits.                       *)
(***************************************************************************)
EXTENDS RowValuesProps, TLC

MCTimes == 0..18
=============================================================================
