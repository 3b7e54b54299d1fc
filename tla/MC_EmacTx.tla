------------------------------ MODULE MC_EmacTx ------------------------------
(***************************************************************************)
(* Instances of EmacTx for TLC.                                            *)
(***************************************************************************)
EXTENDS EmacTx
=============================================================================
