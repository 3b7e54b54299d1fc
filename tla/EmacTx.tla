-------------------------------- MODULE EmacTx --------------------------------
(***************************************************************************)
(* The transmit path of the firmware:                                      *)
(*                                                                         *)
(*   ethernetif.c   low_level_output, which gathers the pbufs of a frame   *)
(*                  in gTxBuf, and ethernet_send                           *)
(*   emac.c         the ring of EMAC_NUM_TX_FRAG descriptors with the      *)
(*                  indices TxProduceIndex (driver) and TxConsumeIndex     *)
(*                  (controller)                                           *)
(*                                                                         *)
(* low_level_output is called from the main loop (the "hello" datagram)    *)
(* and from the interrupt handler (echoes, ARP and ICMP replies).          *)
(* SYS_ARCH_PROTECT expands to nothing in this port, so the handler may    *)
(* run between any two steps of the main loop's call; the main loop cannot *)
(* run while the handler does.  The controller runs in parallel with both. *)
(* A frame is modelled by the number of its pbufs and, in each place a     *)
(* pbuf's bytes are copied to, the number of the frame they come from.     *)
(***************************************************************************)
EXTENDS Integers, Sequences

CONSTANTS
  NumTxFrag,     (* EMAC_NUM_TX_FRAG, the descriptors in the ring.         *)
  Segments,      (* Number of pbufs in a frame.                            *)
  Callers,       (* Who calls low_level_output.                            *)
  MaxWaiting,    (* The stack offers a frame while fewer wait in the ring. *)
  MaxFrames      (* Bound on the calls of low_level_output.                *)

ASSUME NumTxFragAssumption == NumTxFrag \in Nat \ {0, 1}
ASSUME SegmentsAssumption == Segments \in Nat \ {0}
ASSUME CallersAssumption == Callers \subseteq {"main", "isr"}
ASSUME MaxWaitingAssumption == MaxWaiting \in Nat
ASSUME MaxFramesAssumption == MaxFrames \in Nat

VARIABLES
  txProduce,     (* Register TxProduceIndex.                               *)
  txConsume,     (* Register TxConsumeIndex.                               *)
  txBuf,         (* tx_buf: the frame of each segment of each fragment.    *)
  gTxBuf,        (* gTxBuf: the frame of each segment.                     *)
  pc,            (* Where each caller's low_level_output is.               *)
  frame,         (* The frame each caller is sending.                      *)
  seg,           (* Its loop counter, in the gather and in the copy.       *)
  idx,           (* Its local variable tmp, then idx.                      *)
  dmaSeg,        (* Segments the controller has read of the frame it sends.*)
  wire,          (* The segments it read so far.                           *)
  offered,       (* History: calls of low_level_output.                    *)
  queued,        (* History: frames put in the ring, in order.             *)
  returned,      (* History: frames for which ERR_OK was returned.         *)
  sent           (* History: frames put on the wire, by segments.          *)

dmaVars == <<txConsume, dmaSeg, wire, sent>>
vars == <<txProduce, txBuf, gTxBuf, pc, frame, seg, idx, dmaVars, offered,
          queued, returned>>

Slots     == 0 .. NumTxFrag - 1
Segs      == 1 .. Segments
NoFrame   == 0
Whole(f)  == [s \in Segs |-> f]

(* The index after i, as EMAC_UpdateTxProduceIndex wraps it. *)
NextIndex(i) == IF i + 1 = NumTxFrag THEN 0 ELSE i + 1

(* Frames the controller has still to send. *)
Waiting ==
  IF txProduce >= txConsume THEN txProduce - txConsume
                            ELSE txProduce - txConsume + NumTxFrag

(* SYS_ARCH_PROTECT does nothing: while the handler runs the main loop     *)
(* does not, and that is all that keeps callers apart.                     *)
MayRun(c) == \A d \in {"isr"} \cap Callers : c = d \/ pc[d] = "idle"

TypeOK ==
  /\ txProduce \in Slots
  /\ txConsume \in Slots
  /\ txBuf \in [Slots -> [Segs -> 0..MaxFrames]]
  /\ gTxBuf \in [Segs -> 0..MaxFrames]
  /\ pc \in [Callers -> {"idle", "gather", "read", "check", "slot", "copy",
                         "next", "publish", "return"}]
  /\ frame \in [Callers -> 0..MaxFrames]
  /\ seg \in [Callers -> Segs]
  /\ idx \in [Callers -> -1 .. NumTxFrag - 1]
  /\ dmaSeg \in 0..Segments
  /\ wire \in Seq(0..MaxFrames) /\ Len(wire) = dmaSeg
  /\ offered \in 0..MaxFrames
  /\ queued \in Seq(1..MaxFrames)
  /\ returned \subseteq 1..MaxFrames
  /\ sent \in Seq([Segs -> 0..MaxFrames])

(* tx_descr_init. *)
Init ==
  /\ txProduce = 0
  /\ txConsume = 0
  /\ txBuf = [i \in Slots |-> Whole(NoFrame)]
  /\ gTxBuf = Whole(NoFrame)
  /\ pc = [c \in Callers |-> "idle"]
  /\ frame = [c \in Callers |-> NoFrame]
  /\ seg = [c \in Callers |-> 1]
  /\ idx = [c \in Callers |-> 0]
  /\ dmaSeg = 0
  /\ wire = <<>>
  /\ offered = 0
  /\ queued = <<>>
  /\ returned = {}
  /\ sent = <<>>
-----------------------------------------------------------------------------
(***************************************************************************)
(* low_level_output, called by c.                                          *)
(***************************************************************************)

Goto(c, from, to) ==
  /\ MayRun(c)
  /\ pc[c] = from
  /\ pc' = [pc EXCEPT ![c] = to]

(* etharp_output calls netif->linkoutput for a new frame. *)
Call(c) ==
  /\ Goto(c, "idle", "gather")
  /\ offered < MaxFrames
  /\ Waiting < MaxWaiting
  /\ offered' = offered + 1
  /\ frame' = [frame EXCEPT ![c] = offered + 1]
  /\ seg' = [seg EXCEPT ![c] = 1]
  /\ UNCHANGED <<txProduce, txBuf, gTxBuf, idx, dmaVars, queued, returned>>

(* Mutant: the offset in gTxBuf does not advance. *)
MutGather(c) ==
  /\ Goto(c, "gather", IF seg[c] = Segments THEN "read" ELSE "gather")
  /\ gTxBuf' = [gTxBuf EXCEPT ![1] = frame[c]]
  /\ seg' = [seg EXCEPT ![c] = IF seg[c] = Segments THEN 1 ELSE seg[c] + 1]
  /\ UNCHANGED <<txProduce, txBuf, frame, idx, dmaVars, offered, queued,
                 returned>>

(* One memcpy of the loop over the pbufs. *)
Gather(c) ==
  /\ Goto(c, "gather", IF seg[c] = Segments THEN "read" ELSE "gather")
  /\ gTxBuf' = [gTxBuf EXCEPT ![seg[c]] = frame[c]]
  /\ seg' = [seg EXCEPT ![c] = IF seg[c] = Segments THEN 1 ELSE seg[c] + 1]
  /\ UNCHANGED <<txProduce, txBuf, frame, idx, dmaVars, offered, queued,
                 returned>>

(* EMAC_CheckTransmitIndex, first statement; -1 stands for 2^32 - 1, which  *)
(* is no index either.                                                     *)
ReadConsumeIndex(c) ==
  /\ Goto(c, "read", "check")
  /\ idx' = [idx EXCEPT ![c] = txConsume - 1]
  /\ UNCHANGED <<txProduce, txBuf, gTxBuf, frame, seg, dmaVars, offered,
                 queued, returned>>

(* Its test: FALSE makes ethernet_send return -1. *)
CheckTransmitIndex(c) ==
  /\ Goto(c, "check", IF txProduce = idx[c] THEN "return" ELSE "slot")
  /\ UNCHANGED <<txProduce, txBuf, gTxBuf, frame, seg, idx, dmaVars, offered,
                 queued, returned>>

(* Mutant: the slot after the produce index is written. *)
MutChooseSlot(c) ==
  /\ Goto(c, "slot", "copy")
  /\ idx' = [idx EXCEPT ![c] = NextIndex(txProduce)]
  /\ UNCHANGED <<txProduce, txBuf, gTxBuf, frame, seg, dmaVars, offered,
                 queued, returned>>

(* EMAC_WritePacketBuffer chooses the slot ... *)
ChooseSlot(c) ==
  /\ Goto(c, "slot", "copy")
  /\ idx' = [idx EXCEPT ![c] = txProduce]
  /\ UNCHANGED <<txProduce, txBuf, gTxBuf, frame, seg, dmaVars, offered,
                 queued, returned>>

(* ... and copies gTxBuf to it. *)
WritePacketBuffer(c) ==
  /\ Goto(c, "copy", IF seg[c] = Segments THEN "next" ELSE "copy")
  /\ txBuf' = [txBuf EXCEPT ![idx[c]][seg[c]] = gTxBuf[seg[c]]]
  /\ seg' = [seg EXCEPT ![c] = IF seg[c] = Segments THEN 1 ELSE seg[c] + 1]
  /\ UNCHANGED <<txProduce, gTxBuf, frame, idx, dmaVars, offered, queued,
                 returned>>

(* EMAC_UpdateTxProduceIndex reads the produce index ... *)
ReadProduceIndex(c) ==
  /\ Goto(c, "next", "publish")
  /\ idx' = [idx EXCEPT ![c] = txProduce]
  /\ UNCHANGED <<txProduce, txBuf, gTxBuf, frame, seg, dmaVars, offered,
                 queued, returned>>

(* Mutant: the index is written back as it was read. *)
MutUpdateTxProduceIndex(c) ==
  /\ Goto(c, "publish", "return")
  /\ txProduce' = idx[c]
  /\ queued' = Append(queued, frame[c])
  /\ UNCHANGED <<txBuf, gTxBuf, frame, seg, idx, dmaVars, offered, returned>>

(* ... and writes it back, incremented. *)
UpdateTxProduceIndex(c) ==
  /\ Goto(c, "publish", "return")
  /\ txProduce' = NextIndex(idx[c])
  /\ queued' = Append(queued, frame[c])
  /\ UNCHANGED <<txBuf, gTxBuf, frame, seg, idx, dmaVars, offered, returned>>

(* low_level_output returns ERR_OK, whatever ethernet_send returned. *)
Return(c) ==
  /\ Goto(c, "return", "idle")
  /\ returned' = returned \cup {frame[c]}
  /\ frame' = [frame EXCEPT ![c] = NoFrame]
  /\ UNCHANGED <<txProduce, txBuf, gTxBuf, seg, idx, dmaVars, offered, queued>>

Output(c) ==
  \/ Call(c) \/ Gather(c) \/ ReadConsumeIndex(c) \/ CheckTransmitIndex(c)
  \/ ChooseSlot(c) \/ WritePacketBuffer(c) \/ ReadProduceIndex(c)
  \/ UpdateTxProduceIndex(c) \/ Return(c)
-----------------------------------------------------------------------------
(***************************************************************************)
(* The controller (hardware, modelled from the way the driver uses it).    *)
(***************************************************************************)

(* It reads one more segment of the frame at the consume index. *)
DmaRead ==
  /\ dmaSeg > 0 \/ txConsume # txProduce
  /\ dmaSeg < Segments
  /\ dmaSeg' = dmaSeg + 1
  /\ wire' = Append(wire, txBuf[txConsume][dmaSeg + 1])
  /\ UNCHANGED <<txProduce, txConsume, txBuf, gTxBuf, pc, frame, seg, idx,
                 offered, queued, returned, sent>>

(* The frame is sent and its descriptor is free again. *)
DmaDone ==
  /\ dmaSeg = Segments
  /\ dmaSeg' = 0
  /\ wire' = <<>>
  /\ sent' = Append(sent, wire)
  /\ txConsume' = NextIndex(txConsume)
  /\ UNCHANGED <<txProduce, txBuf, gTxBuf, pc, frame, seg, idx, offered,
                 queued, returned>>

Controller == DmaRead \/ DmaDone
-----------------------------------------------------------------------------
Next == Controller \/ \E c \in Callers : Output(c)

Spec == Init /\ [][Next]_vars

(* The controller sends what is in the ring; nobody has to call.           *)
FairSpec == Spec /\ WF_vars(Controller)
-----------------------------------------------------------------------------
(***************************************************************************)
(* Properties.                                                             *)
(***************************************************************************)

(***************************************************************************)
(* What goes on the wire is one frame: no pbuf of another frame gets into  *)
(* it in gTxBuf or in the ring, though both are reused for every frame     *)
(* while the controller reads.                                             *)
(***************************************************************************)
WholeFrames ==
  \A i \in 1..Len(sent) : \E f \in 1..MaxFrames : sent[i] = Whole(f)

(***************************************************************************)
(* Frames leave in the order in which low_level_output was called, and no  *)
(* stale descriptor is sent again, even when calls outrun the controller.  *)
(***************************************************************************)
SentInOrder ==
  \A i, j \in 1..Len(sent) : i < j => sent[i][1] < sent[j][1]

(***************************************************************************)
(* The transmit path implements the bounded FIFO: UpdateTxProduceIndex     *)
(* accepts a frame, the controller takes it and sends it.                  *)
(***************************************************************************)
SlotAt(k) ==
  IF txConsume + k >= NumTxFrag THEN txConsume + k - NumTxFrag
                                ELSE txConsume + k

Taken == IF dmaSeg > 0 THEN 1 ELSE 0

Queue == [k \in 1 .. Waiting - Taken |-> txBuf[SlotAt(Taken + k - 1)][1]]

Fifo == INSTANCE FrameFifo WITH
  Capacity <- NumTxFrag - 1,
  queue    <- Queue,
  accepted <- Len(queued),
  inHand   <- IF dmaSeg > 0 THEN wire[1] ELSE NoFrame,
  up       <- [i \in 1..Len(sent) |-> sent[i][1]]

ImplementsFifo == Fifo!Spec

(***************************************************************************)
(* Every frame put in the ring is sent, whole (ethernet_send starts the    *)
(* transmission by advancing TxProduceIndex).                              *)
(***************************************************************************)
EveryQueuedSent ==
  \A f \in 1..MaxFrames :
    (\E i \in 1..Len(queued) : queued[i] = f)
      ~> (\E i \in 1..Len(sent) : sent[i] = Whole(f))

(***************************************************************************)
(* ethernet_send's "check Tx Slot is available": a frame that passed the   *)
(* test is written to the ring while there is room for it.                 *)
(***************************************************************************)
SlotAvailable ==
  \A c \in Callers :
    pc[c] \in {"slot", "copy", "next", "publish"} => Waiting < NumTxFrag - 1

(***************************************************************************)
(* low_level_output's contract: ERR_OK if the packet could be sent, an     *)
(* error value otherwise.                                                  *)
(***************************************************************************)
OkMeansQueued ==
  \A f \in returned : \E i \in 1..Len(queued) : queued[i] = f
=============================================================================
