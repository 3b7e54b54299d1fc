------------------------------- MODULE MC_Pbuf -------------------------------
(***************************************************************************)
(* Instances of Pbuf for TLC.  No property singles out a pbuf of the pool, *)
(* and there is no liveness property, so that symmetry is sound.           *)
(***************************************************************************)
EXTENDS Pbuf, TLC

Symmetry == Permutations(Pool)
=============================================================================
