------------------------------ MODULE MC_EmacRx ------------------------------
(***************************************************************************)
(* Instances of EmacRx for TLC.                                            *)
(***************************************************************************)
EXTENDS EmacRx

Status(last, err, size) == [last |-> last, err |-> err, size |-> size]

(* A frame that is read and one that is not: all the ring can tell apart. *)
GoodOrBad == {Status(TRUE, FALSE, 63), Status(TRUE, TRUE, 63)}

(***************************************************************************)
(* A frame with an error, the longest frame that is read (1536 bytes, size *)
(* field 1539), and a size below 3, for which the 16-bit length wraps.     *)
(***************************************************************************)
Limits == {Status(TRUE, TRUE, 63), Status(TRUE, FALSE, 1539),
           Status(TRUE, FALSE, 2)}
=============================================================================
