------------------------------ MODULE MCMoney ------------------------------
(***************************************************************************)
(* Money with seven-bit integers and ten minor units to the unit.  Whole   *)
(* parts go beyond the largest integer, and their products with the scale  *)
(* wrap around several times.                                              *)
(***************************************************************************)
EXTENDS Money
=============================================================================
