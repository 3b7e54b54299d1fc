-------------------------------- MODULE EmacRx --------------------------------
(***************************************************************************)
(* The receive path of the firmware, from the Ethernet controller's DMA to *)
(* lwIP's input function:                                                  *)
(*                                                                         *)
(*   emac.c         the ring of EMAC_NUM_RX_FRAG descriptors with the      *)
(*                  indices RxProduceIndex (controller) and RxConsumeIndex *)
(*                  (driver)                                               *)
(*   LPC17xx_it.c   ENET_IRQHandler, which polls IntStatus, clears what it *)
(*                  read and handles at most one frame per RX_DONE         *)
(*   ethernetif.c   low_level_input and ethernetif_input                   *)
(*                                                                         *)
(* The controller runs in parallel with the handler, so every access of    *)
(* the handler to a register or to the ring is a step of its own.  Nothing *)
(* else on the board touches this state: the main loop only waits for the  *)
(* interrupt.                                                              *)
(***************************************************************************)
EXTENDS Integers, Sequences

CONSTANTS
  NumRxFrag,     (* EMAC_NUM_RX_FRAG, the descriptors in the ring.         *)
  Infos,         (* Status words the controller may write for a frame.     *)
  MaxPacket,     (* EMAC_MAX_PACKET_SIZE of ethernetif.c.                  *)
  MaxFrames      (* Bound on the frames the controller stores.             *)

ASSUME NumRxFragAssumption == NumRxFrag \in Nat \ {0, 1}
ASSUME MaxFramesAssumption == MaxFrames \in Nat
ASSUME MaxPacketAssumption == MaxPacket \in Nat /\ MaxPacket % 4 = 0
ASSUME InfosAssumption ==
  Infos \subseteq [last : BOOLEAN, err : BOOLEAN, size : 0..2047]

VARIABLES
  rxProduce,     (* Register RxProduceIndex.                               *)
  rxConsume,     (* Register RxConsumeIndex.                               *)
  rxBuf,         (* rx_buf: the frame, by number, in each fragment.        *)
  rxStat,        (* Rx_Stat[i].Info.                                       *)
  intStatus,     (* Register IntStatus, as a set of interrupt names.       *)
  raising,       (* The interrupts of a frame stored but not yet raised.   *)
  pc,            (* Where ENET_IRQHandler is; "main" outside the handler.  *)
  status,        (* The handler's local variable status.                   *)
  gRxBuf,        (* The frame in gRxBuf, 0 if none is being handled.       *)
  stored,        (* History: frames stored by the controller.              *)
  handed         (* History: frames passed to netif->input, in order.      *)

hwVars  == <<rxProduce, rxBuf, rxStat, stored>>
vars == <<hwVars, rxConsume, intStatus, raising, pc, status, gRxBuf, handed>>

NoFrame == 0
Slots   == 0 .. NumRxFrag - 1

(* EMAC_Init enables RX_DONE and TX_DONE, low_level_init adds RX_OVERRUN. *)
IntEnable == {"RX_DONE", "TX_DONE", "RX_OVERRUN"}

(* The index after idx, as EMAC_UpdateRxConsumeIndex wraps it. *)
NextIndex(idx) == IF idx + 1 = NumRxFrag THEN 0 ELSE idx + 1

(* EMAC_CheckReceiveIndex *)
FrameAvailable == rxConsume # rxProduce

(* Mutant: the length is computed in a signed int. *)
MutFrameLength(size) == size - 3

(***************************************************************************)
(* The length low_level_input computes in a uint16_t from the size field,  *)
(* which holds the length with its four CRC bytes minus one.               *)
(***************************************************************************)
FrameLength(size) == (size - 3) % 65536

(* The two tests of low_level_input that a frame must pass to be read. *)
Readable(info) ==
  /\ info.last
  /\ FrameLength(info.size) <= MaxPacket
  /\ ~info.err

TypeOK ==
  /\ rxProduce \in Slots
  /\ rxConsume \in Slots
  /\ rxBuf \in [Slots -> 0..MaxFrames]
  /\ rxStat \in [Slots -> Infos]
  /\ intStatus \subseteq IntEnable
  /\ raising \subseteq {"RX_DONE"}
  /\ pc \in {"main", "poll", "clear", "check", "copy", "release", "input"}
  /\ status \subseteq IntEnable
  /\ gRxBuf \in 0..MaxFrames
  /\ stored \in 0..MaxFrames
  /\ handed \in Seq(1..MaxFrames)

(***************************************************************************)
(* rx_descr_init and the end of EMAC_Init.  The status words are written   *)
(* by the controller before the driver may read them.                      *)
(***************************************************************************)
Init ==
  /\ rxProduce = 0
  /\ rxConsume = 0
  /\ rxBuf = [i \in Slots |-> NoFrame]
  /\ rxStat \in {[i \in Slots |-> info] : info \in Infos}
  /\ intStatus = {}
  /\ raising = {}
  /\ pc = "main"
  /\ status = {}
  /\ gRxBuf = NoFrame
  /\ stored = 0
  /\ handed = <<>>
-----------------------------------------------------------------------------
(***************************************************************************)
(* The controller (hardware, modelled from the way the driver uses it).    *)
(***************************************************************************)

(* A frame arrives and a descriptor is free: data, status and then the     *)
(* index are written.                                                      *)
RxStore ==
  /\ raising = {}
  /\ stored < MaxFrames
  /\ NextIndex(rxProduce) # rxConsume
  /\ \E info \in Infos : rxStat' = [rxStat EXCEPT ![rxProduce] = info]
  /\ rxBuf' = [rxBuf EXCEPT ![rxProduce] = stored + 1]
  /\ rxProduce' = NextIndex(rxProduce)
  /\ stored' = stored + 1
  /\ raising' = {"RX_DONE"}
  /\ UNCHANGED <<rxConsume, intStatus, pc, status, gRxBuf, handed>>

(* The descriptor's EMAC_RCTRL_INT bit makes the controller raise RX_DONE. *)
RxRaise ==
  /\ raising # {}
  /\ intStatus' = intStatus \cup raising
  /\ raising' = {}
  /\ UNCHANGED <<hwVars, rxConsume, pc, status, gRxBuf, handed>>

(* A frame arrives and every descriptor is in use: the frame is lost. *)
RxOverrun ==
  /\ raising = {}
  /\ NextIndex(rxProduce) = rxConsume
  /\ intStatus' = intStatus \cup {"RX_OVERRUN"}
  /\ UNCHANGED <<hwVars, rxConsume, raising, pc, status, gRxBuf, handed>>

(* The transmit side finishes a frame. *)
TxDone ==
  /\ intStatus' = intStatus \cup {"TX_DONE"}
  /\ UNCHANGED <<hwVars, rxConsume, raising, pc, status, gRxBuf, handed>>

Controller == RxStore \/ RxRaise \/ RxOverrun \/ TxDone
-----------------------------------------------------------------------------
(***************************************************************************)
(* ENET_IRQHandler.                                                        *)
(***************************************************************************)

IrqEnter ==
  /\ pc = "main"
  /\ intStatus \cap IntEnable # {}
  /\ pc' = "poll"
  /\ UNCHANGED <<hwVars, rxConsume, intStatus, raising, status, gRxBuf, handed>>

(* The condition of the while loop. *)
IrqPoll ==
  /\ pc = "poll"
  /\ status' = intStatus \cap IntEnable
  /\ pc' = IF status' = {} THEN "main" ELSE "clear"
  /\ UNCHANGED <<hwVars, rxConsume, intStatus, raising, gRxBuf, handed>>

(* Mutant: everything pending is cleared, not only what was read. *)
MutIrqClear ==
  /\ pc = "clear"
  /\ intStatus' = {}
  /\ pc' = IF "RX_DONE" \in status THEN "check" ELSE "poll"
  /\ UNCHANGED <<hwVars, rxConsume, raising, status, gRxBuf, handed>>

(* IntClear = status, then the test for RX_DONE. *)
IrqClear ==
  /\ pc = "clear"
  /\ intStatus' = intStatus \ status
  /\ pc' = IF "RX_DONE" \in status THEN "check" ELSE "poll"
  /\ UNCHANGED <<hwVars, rxConsume, raising, status, gRxBuf, handed>>

(* low_level_input up to the decision whether the frame is read. *)
CheckFrame ==
  /\ pc = "check"
  /\ pc' = CASE ~FrameAvailable             -> "poll"
             [] FrameAvailable /\ Readable(rxStat[rxConsume])  -> "copy"
             [] FrameAvailable /\ ~Readable(rxStat[rxConsume]) -> "release"
  /\ UNCHANGED <<hwVars, rxConsume, intStatus, raising, status, gRxBuf, handed>>

(* Mutant: the newest frame is read instead of the oldest. *)
MutReadPacketBuffer ==
  /\ pc = "copy"
  /\ gRxBuf' = rxBuf[IF rxProduce = 0 THEN NumRxFrag - 1 ELSE rxProduce - 1]
  /\ pc' = "release"
  /\ UNCHANGED <<hwVars, rxConsume, intStatus, raising, status, handed>>

(* Mutant: the read releases the descriptor, which is then released again. *)
MutReadAndRelease ==
  /\ pc = "copy"
  /\ gRxBuf' = rxBuf[rxConsume]
  /\ rxConsume' = NextIndex(rxConsume)
  /\ pc' = "release"
  /\ UNCHANGED <<hwVars, intStatus, raising, status, handed>>

(* EMAC_ReadPacketBuffer: the frame is copied out of the ring. *)
ReadPacketBuffer ==
  /\ pc = "copy"
  /\ gRxBuf' = rxBuf[rxConsume]
  /\ pc' = "release"
  /\ UNCHANGED <<hwVars, rxConsume, intStatus, raising, status, handed>>

(* Mutant: a frame that was not read is not released. *)
MutUpdateRxConsumeIndex ==
  /\ pc = "release"
  /\ rxConsume' = IF gRxBuf = NoFrame THEN rxConsume ELSE NextIndex(rxConsume)
  /\ pc' = IF gRxBuf = NoFrame THEN "poll" ELSE "input"
  /\ UNCHANGED <<hwVars, intStatus, raising, status, gRxBuf, handed>>

(* EMAC_UpdateRxConsumeIndex, on each of the three paths that call it. *)
UpdateRxConsumeIndex ==
  /\ pc = "release"
  /\ rxConsume' = NextIndex(rxConsume)
  /\ pc' = IF gRxBuf = NoFrame THEN "poll" ELSE "input"
  /\ UNCHANGED <<hwVars, intStatus, raising, status, gRxBuf, handed>>

(* pbuf_alloc gave a pbuf: it is filled and passed to netif->input. *)
Input ==
  /\ pc = "input"
  /\ handed' = Append(handed, gRxBuf)
  /\ gRxBuf' = NoFrame
  /\ pc' = "poll"
  /\ UNCHANGED <<hwVars, rxConsume, intStatus, raising, status>>

(* pbuf_alloc returned NULL: the frame, already released, is lost. *)
InputNoMemory ==
  /\ pc = "input"
  /\ gRxBuf' = NoFrame
  /\ pc' = "poll"
  /\ UNCHANGED <<hwVars, rxConsume, intStatus, raising, status, handed>>

Handler ==
  \/ IrqEnter \/ IrqPoll \/ IrqClear \/ CheckFrame \/ ReadPacketBuffer
  \/ UpdateRxConsumeIndex \/ Input \/ InputNoMemory
-----------------------------------------------------------------------------
Next == Controller \/ Handler

Spec == Init /\ [][Next]_vars

(***************************************************************************)
(* The processor serves an enabled interrupt and runs the handler; the     *)
(* controller raises the interrupt of a frame it stored.  Nothing makes    *)
(* further frames arrive.                                                  *)
(***************************************************************************)
FairSpec == Spec /\ WF_vars(Handler) /\ WF_vars(RxRaise)
-----------------------------------------------------------------------------
(***************************************************************************)
(* Properties.                                                             *)
(***************************************************************************)

(* Frames in the ring, and the index k places after the consume index. *)
Backlog ==
  IF rxProduce >= rxConsume THEN rxProduce - rxConsume
                            ELSE rxProduce - rxConsume + NumRxFrag

SlotAt(k) ==
  IF rxConsume + k >= NumRxFrag THEN rxConsume + k - NumRxFrag
                                ELSE rxConsume + k

Queue == [k \in 1..Backlog |-> rxBuf[SlotAt(k - 1)]]

RingFull == NextIndex(rxProduce) = rxConsume

(***************************************************************************)
(* The descriptors from the consume index to the produce index hold the    *)
(* newest frames of the controller, oldest first and without a gap: the    *)
(* driver never releases a descriptor that holds no frame, whatever the    *)
(* order of interrupts and arrivals (EMAC_UpdateRxConsumeIndex).           *)
(***************************************************************************)
RingHoldsNewest == \A k \in 1..Backlog : Queue[k] = stored - Backlog + k

(***************************************************************************)
(* lwIP sees each frame at most once and in the order of arrival, although *)
(* the ring is refilled while low_level_input copies and releases it.      *)
(***************************************************************************)
HandedInOrder ==
  \A i, j \in 1..Len(handed) : i < j => handed[i] < handed[j]

(***************************************************************************)
(* The handler has an interrupt to serve or is on its way to the ring.     *)
(***************************************************************************)
ReceptionPending ==
  \/ raising # {}
  \/ "RX_DONE" \in intStatus
  \/ pc = "clear" /\ "RX_DONE" \in status
  \/ pc \in {"check", "copy", "release"}

(***************************************************************************)
(* A full ring, into which no further frame can come to raise RX_DONE, is  *)
(* always on its way to being read: clearing IntStatus before the ring is  *)
(* read (ENET_IRQHandler) never loses the last wake-up.                    *)
(***************************************************************************)
NeverWedged == RingFull => ReceptionPending

(***************************************************************************)
(* EMAC_ReadPacketBuffer copies whole words: for a frame that passes the   *)
(* length test of low_level_input they fit in gRxBuf, also when the size   *)
(* field is below 3 and the 16-bit length wraps.                           *)
(***************************************************************************)
CopyFits ==
  pc = "copy" =>
    LET len == FrameLength(rxStat[rxConsume].size)
    IN  len >= 0 /\ 4 * ((len + 3) \div 4) <= MaxPacket

(***************************************************************************)
(* The receive path implements the bounded FIFO: frames are taken from the *)
(* ring in EMAC_UpdateRxConsumeIndex and handed up by ethernetif_input.    *)
(***************************************************************************)
Fifo == INSTANCE FrameFifo WITH
  Capacity <- NumRxFrag - 1,
  queue    <- Queue,
  accepted <- stored,
  inHand   <- IF pc = "input" THEN gRxBuf ELSE NoFrame,
  up       <- handed

ImplementsFifo == Fifo!Spec

(***************************************************************************)
(* A full ring gets room again: reception never stops for good, whatever   *)
(* the frames are and however the interrupts fall (ENET_IRQHandler).       *)
(***************************************************************************)
RingDrains == RingFull ~> ~RingFull

(***************************************************************************)
(* EMAC_CheckReceiveIndex's note says that data which is available should  *)
(* be read out and released: once the handler has returned and no          *)
(* interrupt is left to bring it back, no frame waits in the ring.         *)
(***************************************************************************)
IdleMeansEmpty ==
  (pc = "main" /\ intStatus = {} /\ raising = {}) => ~FrameAvailable
=============================================================================
