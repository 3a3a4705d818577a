---------------------------- MODULE MCNumberText ----------------------------
(***************************************************************************)
(* NumberText with three decimals and a buffer of six bytes, at every      *)
(* number up to 12000: whole amounts and amounts below one, every pattern  *)
(* of trailing zeros, and texts that fit exactly, by one byte less, or not.*)
(***************************************************************************)
EXTENDS NumberText

EveryNumber == 0 .. 12000
=============================================================================
