---------------------------- MODULE MC_MemHeapIrq ----------------------------
(***************************************************************************)
(* Instances of MemHeapIrq for TLC.                                        *)
(***************************************************************************)
EXTENDS MemHeapIrq
=============================================================================
