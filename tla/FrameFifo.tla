------------------------------ MODULE FrameFifo ------------------------------
(***************************************************************************)
(* What either side of the Ethernet driver promises: a bounded, lossy      *)
(* FIFO.  Frames are numbered in the order in which the ring accepts them. *)
(* A frame taken from the queue is either handed on, once, or dropped;     *)
(* nothing is handed on twice or before an older frame still queued.       *)
(*                                                                         *)
(* EmacRx implements it from the controller to lwIP and, as long as its    *)
(* callers leave a descriptor free, EmacTx from lwIP to the controller.    *)
(***************************************************************************)
EXTENDS Naturals, Sequences

CONSTANTS
  Capacity,      (* Frames the queue can hold.                             *)
  NoFrame        (* The value of inHand when no frame is being handled.    *)

VARIABLES
  queue,         (* Frames accepted and not yet taken, oldest first.       *)
  accepted,      (* Number of frames accepted so far.                      *)
  inHand,        (* The frame taken from the queue and not yet handed up.  *)
  up             (* Frames handed to the client, oldest first.             *)

vars == <<queue, accepted, inHand, up>>

Init ==
  /\ queue = <<>>
  /\ accepted = 0
  /\ inHand = NoFrame
  /\ up = <<>>

Accept ==
  /\ Len(queue) < Capacity
  /\ accepted' = accepted + 1
  /\ queue' = Append(queue, accepted + 1)
  /\ UNCHANGED <<inHand, up>>

Take ==
  /\ queue # <<>>
  /\ inHand = NoFrame
  /\ queue' = Tail(queue)
  /\ inHand' \in {Head(queue), NoFrame}
  /\ UNCHANGED <<accepted, up>>

HandUp ==
  /\ inHand # NoFrame
  /\ up' = Append(up, inHand)
  /\ inHand' = NoFrame
  /\ UNCHANGED <<queue, accepted>>

Drop ==
  /\ inHand # NoFrame
  /\ inHand' = NoFrame
  /\ UNCHANGED <<queue, accepted, up>>

Next == Accept \/ Take \/ HandUp \/ Drop

Spec == Init /\ [][Next]_vars
=============================================================================
