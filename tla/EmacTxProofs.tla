----------------------------- MODULE EmacTxProofs -----------------------------
(***************************************************************************)
(* Proofs about EmacTx for every ring size, number of segments and number  *)
(* of frames: type correctness for any callers, and, for one caller that   *)
(* leaves a descriptor free, that frames are sent whole and that the       *)
(* transmit path is a bounded FIFO.                                        *)
(***************************************************************************)
EXTENDS EmacTx, SequenceTheorems, TLAPS

USE NumTxFragAssumption, SegmentsAssumption, CallersAssumption,
    MaxWaitingAssumption, MaxFramesAssumption

(* One caller, which offers a frame only while the ring has a free         *)
(* descriptor left.                                                        *)
Paced(c) == Callers = {c} /\ MaxWaiting < NumTxFrag

(* The caller holds a frame and has not published it.                      *)
Busy(c) ==
  pc[c] \in {"gather", "read", "check", "slot", "copy", "next", "publish"}

(* The indices a caller read are still those of the ring.                  *)
IndexInv(c) ==
  /\ Busy(c) => Waiting <= NumTxFrag - 2
  /\ pc[c] = "check" => idx[c] # txProduce
  /\ pc[c] \in {"copy", "publish"} => idx[c] = txProduce

(* The frame in hand is the next one, and the copies of it are complete up *)
(* to the segment the caller is at.                                        *)
FrameInv(c) ==
  /\ offered = Len(queued) + (IF Busy(c) THEN 1 ELSE 0)
  /\ Busy(c) => frame[c] = offered
  /\ pc[c] \in {"read", "check", "slot"} => seg[c] = 1
  /\ pc[c] = "gather" => \A s \in 1 .. seg[c] - 1 : gTxBuf[s] = frame[c]
  /\ pc[c] \in {"read", "check", "slot", "copy"} =>
       \A s \in Segs : gTxBuf[s] = frame[c]
  /\ pc[c] = "copy" =>
       \A s \in 1 .. seg[c] - 1 : txBuf[txProduce][s] = frame[c]
  /\ pc[c] \in {"next", "publish"} =>
       \A s \in Segs : txBuf[txProduce][s] = frame[c]

(* The descriptors in use hold the frames queued last, whole.              *)
RingInv ==
  /\ Waiting <= Len(queued)
  /\ \A k \in 1 .. Waiting : \A s \in Segs :
       txBuf[SlotAt(k - 1)][s] = Len(queued) - Waiting + k

(* What the controller has read is the start of the oldest of them.        *)
DmaInv ==
  /\ dmaSeg > 0 => Waiting > 0
  /\ \A s \in 1 .. dmaSeg : wire[s] = Len(queued) - Waiting + 1

(* The controller sent, whole and in order, all frames queued before those. *)
SentInv ==
  /\ Len(sent) = Len(queued) - Waiting
  /\ \A i \in 1 .. Len(sent) : sent[i] = Whole(i)

TypeInv ==
  /\ TypeOK
  /\ \A c \in Callers : pc[c] # "idle" => frame[c] # NoFrame
  /\ \A c \in Callers : pc[c] \in {"copy", "publish"} => idx[c] \in Slots

TxInv(c) ==
  /\ TypeInv
  /\ IndexInv(c)
  /\ FrameInv(c)
  /\ RingInv
  /\ DmaInv
  /\ SentInv
-----------------------------------------------------------------------------
(***************************************************************************)
(* The ring.                                                               *)
(***************************************************************************)

(* The ring holds at most all descriptors but one.                         *)
LEMMA WaitingBounds ==
  ASSUME txProduce \in Slots, txConsume \in Slots
  PROVE  /\ Waiting \in 0 .. NumTxFrag - 1
         /\ Waiting = 0 <=> txConsume = txProduce
BY DEF Slots, Waiting

(* The frames in the ring are in distinct descriptors, from the consume    *)
(* index up to, and without, the produce index.                            *)
LEMMA SlotsInUse ==
  ASSUME txProduce \in Slots, txConsume \in Slots
  PROVE  /\ \A k \in 0 .. Waiting : SlotAt(k) \in Slots
         /\ \A k \in 0 .. Waiting - 1 : SlotAt(k) # txProduce
         /\ SlotAt(Waiting) = txProduce
         /\ SlotAt(0) = txConsume
BY DEF Slots, Waiting, SlotAt

(* A step that moves no index changes no place in the ring.                *)
LEMMA SameIndices ==
  ASSUME UNCHANGED <<txProduce, txConsume>>
  PROVE  /\ Waiting' = Waiting
         /\ \A k : SlotAt(k)' = SlotAt(k)
BY DEF Waiting, SlotAt

LEMMA NextIndexType ==
  ASSUME NEW i \in Slots
  PROVE  NextIndex(i) \in Slots
BY DEF Slots, NextIndex
-----------------------------------------------------------------------------
(***************************************************************************)
(* Type correctness, for any callers and any pace.                         *)
(***************************************************************************)

LEMMA TypeInvInit == Init => TypeInv
<1>. SUFFICES ASSUME Init PROVE TypeInv
  OBVIOUS
<1>1. wire = <<>> /\ queued = <<>> /\ sent = <<>>
  BY DEF Init
<1>2. /\ wire \in Seq(0..MaxFrames) /\ Len(wire) = 0
      /\ queued \in Seq(1..MaxFrames)
      /\ sent \in Seq([Segs -> 0..MaxFrames])
  BY <1>1, EmptySeq
<1>3. /\ txBuf \in [Slots -> [Segs -> 0..MaxFrames]]
      /\ gTxBuf \in [Segs -> 0..MaxFrames]
  BY DEF Init, Whole, NoFrame
<1>. QED BY <1>2, <1>3 DEF Init, TypeInv, TypeOK, Slots, Segs, NoFrame

LEMMA SegsStep ==
  /\ 1 \in Segs
  /\ \A s \in Segs : s # Segments => s + 1 \in Segs
  /\ \A n \in 0..Segments : n < Segments => n + 1 \in Segs
BY DEF Segs

(* The parts of TypeInv about a caller survive a step of another one.      *)
CallersInv ==
  /\ \A c \in Callers : pc[c] # "idle" => frame[c] # NoFrame
  /\ \A c \in Callers : pc[c] \in {"copy", "publish"} => idx[c] \in Slots

LEMMA CallersInvStep ==
  ASSUME TypeInv, NEW c \in Callers, NEW to,
         pc' = [pc EXCEPT ![c] = to],
         \A d \in Callers \ {c} : frame'[d] = frame[d] /\ idx'[d] = idx[d],
         to # "idle" => frame'[c] # NoFrame,
         to \in {"copy", "publish"} => idx'[c] \in Slots
  PROVE  CallersInv'
BY DEF TypeInv, TypeOK, CallersInv

LEMMA TypeInvStep == TypeInv /\ [Next]_vars => TypeInv'
<1>. SUFFICES ASSUME TypeInv, [Next]_vars PROVE TypeInv'
  OBVIOUS
<1>. USE DEF TypeOK, dmaVars
<1>1. CASE DmaRead
  <2>1. dmaSeg + 1 \in Segs /\ txConsume \in Slots
    BY <1>1, SegsStep DEF DmaRead, TypeInv
  <2>2. txBuf[txConsume][dmaSeg + 1] \in 0..MaxFrames
    BY <2>1 DEF TypeInv
  <2>3. wire' \in Seq(0..MaxFrames) /\ Len(wire') = dmaSeg + 1
    BY <1>1, <2>2 DEF DmaRead, TypeInv
  <2>4. dmaSeg' \in 0..Segments
    BY <1>1, <2>1 DEF DmaRead, Segs
  <2>5. TypeOK'
    BY <1>1, <2>3, <2>4 DEF DmaRead, TypeInv
  <2>. QED BY <1>1, <2>5 DEF DmaRead, TypeInv
<1>2. CASE DmaDone
  <2>1. wire \in [Segs -> 0..MaxFrames]
    BY <1>2, LenProperties DEF DmaDone, Segs, TypeInv
  <2>2. sent' \in Seq([Segs -> 0..MaxFrames])
    BY <1>2, <2>1 DEF DmaDone, TypeInv
  <2>3. wire' \in Seq(0..MaxFrames) /\ Len(wire') = 0
    BY <1>2, EmptySeq DEF DmaDone
  <2>4. TypeOK'
    BY <1>2, <2>2, <2>3, NextIndexType DEF DmaDone, TypeInv
  <2>. QED BY <1>2, <2>4 DEF DmaDone, TypeInv
<1>3. ASSUME NEW c \in Callers, Output(c)
      PROVE  TypeInv'
  <2>. SUFFICES TypeOK' /\ CallersInv'
    BY DEF TypeInv, CallersInv
  <2>. USE DEF TypeInv
  <2>1. CASE Call(c)
    <3>1. offered + 1 \in 1..MaxFrames
      BY <2>1 DEF Call
    <3>2. TypeOK'
      <4>1. pc' \in [Callers -> {"idle", "gather", "read", "check", "slot",
                                "copy", "next", "publish", "return"}]
        BY <2>1 DEF Call, Goto
      <4>2. frame' \in [Callers -> 0..MaxFrames] /\ seg' \in [Callers -> Segs]
        BY <2>1, <3>1, SegsStep DEF Call
      <4>. QED BY <2>1, <3>1, <4>1, <4>2 DEF Call
    <3>3. frame'[c] # NoFrame /\ \A d \in Callers \ {c} : frame'[d] = frame[d]
      BY <2>1, <3>1 DEF Call, NoFrame
    <3>. QED BY <2>1, <3>2, <3>3, CallersInvStep DEF Call, Goto
  <2>2. CASE Gather(c)
    <3>1. seg' \in [Callers -> Segs]
      BY <2>2, SegsStep DEF Gather
    <3>2. TypeOK'
      BY <2>2, <3>1 DEF Gather, Goto
    <3>. QED BY <2>2, <3>2, CallersInvStep DEF Gather, Goto
  <2>3. CASE ReadConsumeIndex(c)
    <3>1. idx' \in [Callers -> -1 .. NumTxFrag - 1]
      BY <2>3 DEF ReadConsumeIndex, Slots
    <3>2. TypeOK'
      BY <2>3, <3>1 DEF ReadConsumeIndex, Goto
    <3>. QED BY <2>3, <3>2, CallersInvStep DEF ReadConsumeIndex, Goto
  <2>4. CASE CheckTransmitIndex(c)
    <3>1. TypeOK'
      BY <2>4 DEF CheckTransmitIndex, Goto
    <3>. QED BY <2>4, <3>1, CallersInvStep DEF CheckTransmitIndex, Goto
  <2>5. CASE ChooseSlot(c)
    <3>1. idx' \in [Callers -> -1 .. NumTxFrag - 1] /\ idx'[c] \in Slots
      BY <2>5 DEF ChooseSlot, Slots
    <3>2. TypeOK'
      BY <2>5, <3>1 DEF ChooseSlot, Goto
    <3>. QED BY <2>5, <3>1, <3>2, CallersInvStep DEF ChooseSlot, Goto
  <2>6. CASE WritePacketBuffer(c)
    <3>1. idx[c] \in Slots /\ seg[c] \in Segs
      BY <2>6 DEF WritePacketBuffer, Goto
    <3>2. txBuf' \in [Slots -> [Segs -> 0..MaxFrames]]
      BY <2>6, <3>1 DEF WritePacketBuffer
    <3>3. seg' \in [Callers -> Segs]
      BY <2>6, SegsStep DEF WritePacketBuffer
    <3>4. TypeOK'
      BY <2>6, <3>2, <3>3 DEF WritePacketBuffer, Goto
    <3>. QED BY <2>6, <3>1, <3>4, CallersInvStep DEF WritePacketBuffer, Goto
  <2>7. CASE ReadProduceIndex(c)
    <3>1. idx' \in [Callers -> -1 .. NumTxFrag - 1] /\ idx'[c] \in Slots
      BY <2>7 DEF ReadProduceIndex, Slots
    <3>2. TypeOK'
      BY <2>7, <3>1 DEF ReadProduceIndex, Goto
    <3>. QED BY <2>7, <3>1, <3>2, CallersInvStep DEF ReadProduceIndex, Goto
  <2>8. CASE UpdateTxProduceIndex(c)
    <3>1. idx[c] \in Slots /\ frame[c] \in 1..MaxFrames
      BY <2>8 DEF UpdateTxProduceIndex, Goto, NoFrame
    <3>2. queued' \in Seq(1..MaxFrames)
      BY <2>8, <3>1 DEF UpdateTxProduceIndex
    <3>3. TypeOK'
      BY <2>8, <3>1, <3>2, NextIndexType DEF UpdateTxProduceIndex, Goto
    <3>. QED BY <2>8, <3>1, <3>3, CallersInvStep DEF UpdateTxProduceIndex, Goto
  <2>9. CASE Return(c)
    <3>1. frame[c] \in 1..MaxFrames
      BY <2>9 DEF Return, Goto, NoFrame
    <3>2. frame' \in [Callers -> 0..MaxFrames]
      BY <2>9 DEF Return, NoFrame
    <3>3. returned' \subseteq 1..MaxFrames
      BY <2>9, <3>1 DEF Return
    <3>4. pc' \in [Callers -> {"idle", "gather", "read", "check", "slot",
                              "copy", "next", "publish", "return"}]
      BY <2>9 DEF Return, Goto
    <3>5. TypeOK'
      BY <2>9, <3>2, <3>3, <3>4 DEF Return
    <3>. QED BY <2>9, <3>5, CallersInvStep DEF Return, Goto
  <2>. QED
    BY <1>3, <2>1, <2>2, <2>3, <2>4, <2>5, <2>6, <2>7, <2>8, <2>9 DEF Output
<1>4. CASE UNCHANGED vars
  BY <1>4 DEF vars, TypeInv
<1>. QED BY <1>1, <1>2, <1>3, <1>4 DEF Next, Controller

(***************************************************************************)
(* Indices, loop counters and frame numbers keep their types, whoever      *)
(* calls low_level_output and however often: no index leaves the ring.     *)
(***************************************************************************)
THEOREM TypeCorrect == Spec => []TypeOK
<1>1. TypeInv => TypeOK
  BY DEF TypeInv
<1>. QED BY <1>1, TypeInvInit, TypeInvStep, PTL DEF Spec
-----------------------------------------------------------------------------
(***************************************************************************)
(* The inductive invariant, for one paced caller.                          *)
(***************************************************************************)

LEMMA TxInvInit == ASSUME NEW c, Paced(c) PROVE Init => TxInv(c)
<1>. SUFFICES ASSUME Init PROVE TxInv(c)
  OBVIOUS
<1>1. TypeInv
  BY TypeInvInit
<1>2. Waiting = 0 /\ pc[c] = "idle" /\ Len(queued) = 0 /\ Len(sent) = 0
  BY DEF Init, Waiting, Paced
<1>. QED BY <1>1, <1>2 DEF Init, TxInv, IndexInv, FrameInv, Busy, RingInv,
                           DmaInv, SentInv

(* A step that moves no index and writes to no descriptor in use.          *)
LEMMA KeepRing ==
  ASSUME TypeOK, RingInv, DmaInv, SentInv,
         UNCHANGED <<txProduce, dmaVars, queued>>,
         \A i \in Slots \ {txProduce} : txBuf'[i] = txBuf[i]
  PROVE  Waiting' = Waiting /\ RingInv' /\ DmaInv' /\ SentInv'
<1>. USE DEF dmaVars
<1>1. /\ Waiting' = Waiting /\ Waiting \in Nat
      /\ \A k : SlotAt(k)' = SlotAt(k)
  BY SameIndices, WaitingBounds DEF TypeOK
<1>2. \A k \in 1 .. Waiting : txBuf'[SlotAt(k - 1)] = txBuf[SlotAt(k - 1)]
  <2>. SUFFICES ASSUME NEW k \in 1 .. Waiting
                PROVE  txBuf'[SlotAt(k - 1)] = txBuf[SlotAt(k - 1)]
    OBVIOUS
  <2>1. k - 1 \in 0 .. Waiting - 1 /\ k - 1 \in 0 .. Waiting
    BY <1>1
  <2>. QED BY <2>1, SlotsInUse DEF TypeOK
<1>3. RingInv'
  BY <1>1, <1>2 DEF RingInv
<1>4. DmaInv' /\ SentInv'
  BY <1>1 DEF DmaInv, SentInv, Whole
<1>. QED BY <1>1, <1>3, <1>4

(* Publishing adds the frame that was copied to the end of the ring.       *)
LEMMA PublishRing ==
  ASSUME TypeOK, Waiting <= NumTxFrag - 2, txProduce' = NextIndex(txProduce),
         txConsume' = txConsume
  PROVE  /\ Waiting' = Waiting + 1
         /\ \A k : SlotAt(k)' = SlotAt(k)
BY DEF TypeOK, Slots, Waiting, SlotAt, NextIndex

(* A frame that was sent leaves the front of the ring.                     *)
LEMMA ReleaseRing ==
  ASSUME TypeOK, Waiting > 0, txConsume' = NextIndex(txConsume),
         txProduce' = txProduce
  PROVE  /\ Waiting' = Waiting - 1
         /\ \A k \in 0 .. Waiting - 1 : SlotAt(k)' = SlotAt(k + 1)
BY DEF TypeOK, Slots, Waiting, SlotAt, NextIndex

LEMMA TxInvStep ==
  ASSUME NEW c, Paced(c), TxInv(c), [Next]_vars
  PROVE  TxInv(c)'
<1>. TypeInv /\ TypeOK /\ TypeInv' /\ TypeOK' /\ c \in Callers
  BY TypeInvStep DEF TxInv, TypeInv, Paced
<1>. SUFFICES /\ IndexInv(c)' /\ FrameInv(c)'
              /\ RingInv' /\ DmaInv' /\ SentInv'
  BY DEF TxInv
<1>a. /\ Waiting \in 0 .. NumTxFrag - 1 /\ Len(queued) \in Nat
      /\ Waiting = 0 <=> txConsume = txProduce
  BY WaitingBounds DEF TypeOK
<1>b. IndexInv(c) /\ FrameInv(c) /\ RingInv /\ DmaInv /\ SentInv
  BY DEF TxInv
<1>1. CASE DmaRead
  <2>1. Waiting > 0
    BY <1>1, <1>a, <1>b DEF DmaRead, DmaInv
  <2>2. Waiting' = Waiting /\ \A k : SlotAt(k)' = SlotAt(k)
    BY <1>1, SameIndices DEF DmaRead
  <2>3. IndexInv(c)' /\ FrameInv(c)' /\ SentInv'
    BY <1>1, <1>b, <2>2 DEF DmaRead, IndexInv, FrameInv, Busy, SentInv, Whole
  <2>4. RingInv'
    BY <1>1, <1>b, <2>2 DEF DmaRead, RingInv
  <2>5. DmaInv'
    <3>1. dmaSeg + 1 \in Segs /\ dmaSeg \in Nat /\ Len(wire) = dmaSeg
      BY <1>1, SegsStep DEF DmaRead, TypeOK
    <3>2. txBuf[txConsume][dmaSeg + 1] = Len(queued) - Waiting + 1
      <4>1. SlotAt(1 - 1) = txConsume /\ 1 \in 1 .. Waiting
        BY <1>a, <2>1, SlotsInUse DEF TypeOK
      <4>. QED BY <1>b, <3>1, <4>1 DEF RingInv
    <3>3. wire' = Append(wire, Len(queued) - Waiting + 1)
      BY <1>1, <3>2 DEF DmaRead
    <3>4. /\ \A s \in 1 .. dmaSeg : wire'[s] = wire[s]
          /\ wire'[dmaSeg + 1] = Len(queued) - Waiting + 1
      <4>1. wire \in Seq(0..MaxFrames) /\ txConsume \in Slots
        BY DEF TypeOK
      <4>2. txBuf[txConsume][dmaSeg + 1] \in 0..MaxFrames
        BY <3>1, <4>1 DEF TypeOK
      <4>3. Len(queued) - Waiting + 1 \in 0..MaxFrames
        BY <3>2, <4>2
      <4>. QED BY <3>1, <3>3, <4>1, <4>3, AppendProperties
    <3>5. dmaSeg' = dmaSeg + 1 /\ queued' = queued
      BY <1>1 DEF DmaRead
    <3>. QED BY <1>b, <2>1, <2>2, <3>1, <3>4, <3>5 DEF DmaInv
  <2>. QED BY <2>3, <2>4, <2>5
<1>2. CASE DmaDone
  <2>1. Waiting > 0
    BY <1>2, <1>b DEF DmaDone, DmaInv
  <2>2. /\ Waiting' = Waiting - 1
        /\ \A k \in 0 .. Waiting - 1 : SlotAt(k)' = SlotAt(k + 1)
    BY <1>2, <2>1, ReleaseRing DEF DmaDone
  <2>3. IndexInv(c)'
    BY <1>2, <1>a, <1>b, <2>2 DEF DmaDone, IndexInv, Busy
  <2>4. FrameInv(c)'
    BY <1>2, <1>b DEF DmaDone, FrameInv, Busy
  <2>5. RingInv'
    <3>1. \A k \in 1 .. Waiting' : SlotAt(k - 1)' = SlotAt(k + 1 - 1)
      <4>. SUFFICES ASSUME NEW k \in 1 .. Waiting'
                    PROVE  SlotAt(k - 1)' = SlotAt(k + 1 - 1)
        OBVIOUS
      <4>1. k - 1 \in 0 .. Waiting - 1 /\ k - 1 + 1 = k + 1 - 1
        BY <1>a, <2>2
      <4>. QED BY <2>2, <4>1
    <3>. SUFFICES ASSUME NEW k \in 1 .. Waiting', NEW s \in Segs
                  PROVE  txBuf'[SlotAt(k - 1)'][s] = Len(queued') - Waiting' + k
      BY <1>2, <1>a, <1>b, <2>2 DEF RingInv, DmaDone
    <3>2. k + 1 \in 1 .. Waiting
      BY <1>a, <2>2
    <3>3. txBuf[SlotAt(k + 1 - 1)][s] = Len(queued) - Waiting + (k + 1)
      BY <1>b, <3>2 DEF RingInv
    <3>4. txBuf' = txBuf /\ queued' = queued
      BY <1>2 DEF DmaDone
    <3>. QED BY <1>a, <2>2, <3>1, <3>3, <3>4
  <2>6. DmaInv'
    BY <1>2 DEF DmaDone, DmaInv
  <2>7. SentInv'
    <3>. DEFINE f == Len(queued) - Waiting + 1
    <3>1. f = Len(sent) + 1
      BY <1>b DEF SentInv
    <3>2. wire \in [Segs -> 0..MaxFrames] /\ \A s \in Segs : wire[s] = f
      BY <1>2, <1>b, LenProperties DEF DmaDone, DmaInv, Segs, TypeOK
    <3>. HIDE DEF f
    <3>3. wire = Whole(f)
      BY <3>2 DEF Whole
    <3>4. /\ Len(sent') = Len(sent) + 1 /\ Len(sent) \in Nat
          /\ \A i \in 1 .. Len(sent) : sent'[i] = sent[i]
          /\ sent'[Len(sent) + 1] = Whole(f)
      BY <1>2, <3>2, <3>3 DEF DmaDone, TypeOK
    <3>5. queued' = queued
      BY <1>2 DEF DmaDone
    <3>6. \A i \in 1 .. Len(sent) + 1 : i \in 1 .. Len(sent) \/ i = Len(sent) + 1
      BY <3>4
    <3>. SUFFICES /\ Len(sent') = Len(queued') - Waiting'
                  /\ \A i \in 1 .. Len(sent') : sent'[i] = Whole(i)
      BY DEF SentInv, Whole
    <3>. QED BY <1>a, <1>b, <2>2, <3>1, <3>4, <3>5, <3>6 DEF SentInv
  <2>. QED BY <2>3, <2>4, <2>5, <2>6, <2>7
<1>3. CASE Call(c)
  <2>1. /\ pc[c] = "idle" /\ pc'[c] = "gather" /\ Waiting < MaxWaiting
        /\ frame'[c] = offered + 1 /\ seg'[c] = 1 /\ offered' = offered + 1
        /\ UNCHANGED <<txProduce, txBuf, dmaVars, queued>>
    BY <1>3 DEF Call, Goto, TypeOK
  <2>2. Waiting' = Waiting /\ RingInv' /\ DmaInv' /\ SentInv'
    BY <1>b, <2>1, KeepRing
  <2>3. IndexInv(c)'
    BY <1>a, <2>1, <2>2 DEF IndexInv, Busy, Paced
  <2>4. FrameInv(c)'
    BY <1>a, <1>b, <2>1 DEF FrameInv, Busy
  <2>. QED BY <2>2, <2>3, <2>4
<1>4. CASE Gather(c)
  <2>1. /\ pc[c] = "gather" /\ UNCHANGED <<txProduce, txBuf, dmaVars, queued,
                                            frame, offered>>
        /\ pc'[c] = IF seg[c] = Segments THEN "read" ELSE "gather"
        /\ seg'[c] = IF seg[c] = Segments THEN 1 ELSE seg[c] + 1
    BY <1>4 DEF Gather, Goto, TypeOK
  <2>2. Waiting' = Waiting /\ RingInv' /\ DmaInv' /\ SentInv'
    BY <1>b, <2>1, KeepRing
  <2>3. IndexInv(c)'
    BY <1>b, <2>1, <2>2 DEF IndexInv, Busy
  <2>4. seg[c] \in Segs /\ \A s \in 1 .. seg[c] : gTxBuf'[s] = frame[c]
    <3>1. seg[c] \in Segs /\ \A s \in 1 .. seg[c] - 1 : gTxBuf[s] = frame[c]
      BY <1>b, <2>1 DEF FrameInv, TypeOK
    <3>2. /\ gTxBuf'[seg[c]] = frame[c]
          /\ \A s \in Segs \ {seg[c]} : gTxBuf'[s] = gTxBuf[s]
      BY <1>4, <3>1 DEF Gather, TypeOK
    <3>3. \A s \in 1 .. seg[c] : s = seg[c] \/ (s \in 1 .. seg[c] - 1 /\ s \in Segs)
      BY <3>1 DEF Segs
    <3>. QED BY <3>1, <3>2, <3>3
  <2>5. FrameInv(c)'
    BY <1>b, <2>1, <2>4 DEF FrameInv, Busy, Segs
  <2>. QED BY <2>2, <2>3, <2>5
<1>5. CASE ReadConsumeIndex(c)
  <2>1. /\ pc[c] = "read" /\ pc'[c] = "check" /\ idx'[c] = txConsume - 1
        /\ UNCHANGED <<txProduce, txBuf, gTxBuf, dmaVars, queued, frame, seg,
                       offered>>
    BY <1>5 DEF ReadConsumeIndex, Goto, TypeOK
  <2>2. Waiting' = Waiting /\ RingInv' /\ DmaInv' /\ SentInv'
    BY <1>b, <2>1, KeepRing
  <2>3. IndexInv(c)'
    <3>1. txConsume - 1 # txProduce
      BY <1>b, <2>1 DEF IndexInv, Busy, Waiting, TypeOK, Slots
    <3>. QED BY <1>b, <2>1, <2>2, <3>1 DEF IndexInv, Busy
  <2>4. FrameInv(c)'
    BY <1>b, <2>1 DEF FrameInv, Busy
  <2>. QED BY <2>2, <2>3, <2>4
<1>6. CASE CheckTransmitIndex(c)
  <2>1. /\ pc[c] = "check" /\ pc'[c] = "slot"
        /\ UNCHANGED <<txProduce, txBuf, gTxBuf, dmaVars, queued, frame, seg,
                       offered>>
    BY <1>6, <1>b DEF CheckTransmitIndex, Goto, TypeOK, IndexInv
  <2>2. Waiting' = Waiting /\ RingInv' /\ DmaInv' /\ SentInv'
    BY <1>b, <2>1, KeepRing
  <2>3. IndexInv(c)' /\ FrameInv(c)'
    BY <1>b, <2>1, <2>2 DEF IndexInv, FrameInv, Busy
  <2>. QED BY <2>2, <2>3
<1>7. CASE ChooseSlot(c)
  <2>1. /\ pc[c] = "slot" /\ pc'[c] = "copy" /\ idx'[c] = txProduce
        /\ UNCHANGED <<txProduce, txBuf, gTxBuf, dmaVars, queued, frame, seg,
                       offered>>
    BY <1>7 DEF ChooseSlot, Goto, TypeOK
  <2>2. Waiting' = Waiting /\ RingInv' /\ DmaInv' /\ SentInv'
    BY <1>b, <2>1, KeepRing
  <2>3. IndexInv(c)' /\ FrameInv(c)'
    BY <1>b, <2>1, <2>2 DEF IndexInv, FrameInv, Busy
  <2>. QED BY <2>2, <2>3
<1>8. CASE WritePacketBuffer(c)
  <2>1. /\ pc[c] = "copy" /\ UNCHANGED <<txProduce, gTxBuf, dmaVars, queued,
                                          frame, idx, offered>>
        /\ pc'[c] = IF seg[c] = Segments THEN "next" ELSE "copy"
        /\ seg'[c] = IF seg[c] = Segments THEN 1 ELSE seg[c] + 1
    BY <1>8 DEF WritePacketBuffer, Goto, TypeOK
  <2>2. idx[c] = txProduce /\ txProduce \in Slots /\ seg[c] \in Segs
    BY <1>b, <2>1 DEF IndexInv, TypeOK
  <2>3. txBuf' = [txBuf EXCEPT ![txProduce][seg[c]] = gTxBuf[seg[c]]]
    BY <1>8, <2>2 DEF WritePacketBuffer
  <2>4. /\ \A i \in Slots \ {txProduce} : txBuf'[i] = txBuf[i]
        /\ \A s \in Segs \ {seg[c]} : txBuf'[txProduce][s] = txBuf[txProduce][s]
        /\ txBuf'[txProduce][seg[c]] = gTxBuf[seg[c]]
    BY <2>2, <2>3 DEF TypeOK
  <2>5. Waiting' = Waiting /\ RingInv' /\ DmaInv' /\ SentInv'
    BY <1>b, <2>1, <2>4, KeepRing
  <2>6. IndexInv(c)'
    BY <1>b, <2>1, <2>5 DEF IndexInv, Busy
  <2>7. \A s \in 1 .. seg[c] : txBuf'[txProduce][s] = frame[c]
    BY <1>b, <2>1, <2>2, <2>4 DEF FrameInv, Segs
  <2>8. FrameInv(c)'
    BY <1>b, <2>1, <2>2, <2>7 DEF FrameInv, Busy, Segs
  <2>. QED BY <2>5, <2>6, <2>8
<1>9. CASE ReadProduceIndex(c)
  <2>1. /\ pc[c] = "next" /\ pc'[c] = "publish" /\ idx'[c] = txProduce
        /\ UNCHANGED <<txProduce, txBuf, gTxBuf, dmaVars, queued, frame, seg,
                       offered>>
    BY <1>9 DEF ReadProduceIndex, Goto, TypeOK
  <2>2. Waiting' = Waiting /\ RingInv' /\ DmaInv' /\ SentInv'
    BY <1>b, <2>1, KeepRing
  <2>3. IndexInv(c)' /\ FrameInv(c)'
    BY <1>b, <2>1, <2>2 DEF IndexInv, FrameInv, Busy
  <2>. QED BY <2>2, <2>3
<1>10. CASE UpdateTxProduceIndex(c)
  <2>1. /\ pc[c] = "publish" /\ pc'[c] = "return"
        /\ txProduce' = NextIndex(txProduce) /\ Waiting <= NumTxFrag - 2
        /\ queued' = Append(queued, frame[c])
        /\ UNCHANGED <<txBuf, gTxBuf, dmaVars, frame, seg, offered>>
    BY <1>10, <1>b DEF UpdateTxProduceIndex, Goto, TypeOK, IndexInv, Busy
  <2>2. Waiting' = Waiting + 1 /\ \A k : SlotAt(k)' = SlotAt(k)
    BY <2>1, PublishRing DEF dmaVars
  <2>3. Len(queued') = Len(queued) + 1 /\ offered = Len(queued) + 1
    BY <1>b, <2>1 DEF TypeOK, FrameInv, Busy
  <2>4. IndexInv(c)' /\ FrameInv(c)'
    BY <1>a, <2>1, <2>3 DEF IndexInv, FrameInv, Busy
  <2>5. RingInv'
    <3>1. \A s \in Segs : txBuf[SlotAt(Waiting)][s] = Len(queued) + 1
      BY <1>b, <2>1, <2>3, SlotsInUse DEF FrameInv, Busy, TypeOK
    <3>. SUFFICES ASSUME NEW k \in 1 .. Waiting', NEW s \in Segs
                  PROVE  txBuf'[SlotAt(k - 1)'][s] = Len(queued') - Waiting' + k
      BY <1>a, <1>b, <2>2, <2>3 DEF RingInv
    <3>2. txBuf' = txBuf /\ SlotAt(k - 1)' = SlotAt(k - 1)
      BY <2>1, <2>2
    <3>3. CASE k \in 1 .. Waiting
      BY <1>a, <1>b, <2>2, <2>3, <3>2, <3>3 DEF RingInv
    <3>4. CASE k = Waiting + 1
      <4>1. k - 1 = Waiting
        BY <1>a, <3>4
      <4>2. txBuf'[SlotAt(k - 1)'][s] = txBuf[SlotAt(Waiting)][s]
        BY <3>2, <4>1
      <4>3. Len(queued') - Waiting' + k = Len(queued) + 1
        BY <1>a, <2>2, <2>3, <3>4
      <4>. QED BY <3>1, <4>2, <4>3
    <3>. QED BY <1>a, <2>2, <3>3, <3>4
  <2>6. DmaInv'
    BY <1>a, <1>b, <2>1, <2>2, <2>3 DEF DmaInv, dmaVars
  <2>7. SentInv'
    <3>1. sent' = sent
      BY <2>1 DEF dmaVars
    <3>2. Len(queued') - Waiting' = Len(queued) - Waiting
      BY <1>a, <2>2, <2>3
    <3>. QED BY <1>b, <3>1, <3>2 DEF SentInv, Whole
  <2>. QED BY <2>4, <2>5, <2>6, <2>7
<1>11. CASE Return(c)
  <2>1. /\ pc[c] = "return" /\ pc'[c] = "idle"
        /\ UNCHANGED <<txProduce, txBuf, gTxBuf, dmaVars, queued, seg, offered>>
    BY <1>11 DEF Return, Goto, TypeOK
  <2>2. Waiting' = Waiting /\ RingInv' /\ DmaInv' /\ SentInv'
    BY <1>b, <2>1, KeepRing
  <2>3. IndexInv(c)' /\ FrameInv(c)'
    BY <1>b, <2>1, <2>2 DEF IndexInv, FrameInv, Busy
  <2>. QED BY <2>2, <2>3
<1>12. CASE UNCHANGED vars
  <2>1. UNCHANGED <<txProduce, txBuf, gTxBuf, dmaVars, queued, seg, offered,
                    pc, idx, frame>>
    BY <1>12 DEF vars
  <2>2. Waiting' = Waiting /\ RingInv' /\ DmaInv' /\ SentInv'
    BY <1>b, <2>1, KeepRing
  <2>3. IndexInv(c)' /\ FrameInv(c)'
    BY <1>b, <2>1, <2>2 DEF IndexInv, FrameInv, Busy
  <2>. QED BY <2>2, <2>3
<1>. QED
  BY <1>1, <1>2, <1>3, <1>4, <1>5, <1>6, <1>7, <1>8, <1>9, <1>10, <1>11, <1>12
  DEF Next, Controller, Output, Paced

LEMMA Invariance == ASSUME NEW c, Paced(c) PROVE Spec => []TxInv(c)
<1>1. TxInv(c) /\ [Next]_vars => TxInv(c)'
  BY TxInvStep
<1>. QED BY <1>1, TxInvInit, PTL DEF Spec

(***************************************************************************)
(* A caller that leaves a descriptor free puts whole frames on the wire:   *)
(* low_level_output never overwrites a fragment EMAC has still to send.    *)
(***************************************************************************)
THEOREM FramesWhole == ASSUME NEW c, Paced(c) PROVE Spec => []WholeFrames
<1>1. TxInv(c) => WholeFrames
  <2>. SUFFICES ASSUME TxInv(c), NEW i \in 1 .. Len(sent)
                PROVE  \E f \in 1..MaxFrames : sent[i] = Whole(f)
    BY DEF WholeFrames
  <2>1. Len(sent) <= Len(queued)
    BY WaitingBounds DEF TxInv, TypeInv, TypeOK, SentInv
  <2>2. Len(queued) <= MaxFrames
    BY DEF TxInv, TypeInv, TypeOK, FrameInv
  <2>3. i \in 1..MaxFrames
    BY <2>1, <2>2 DEF TxInv, TypeInv, TypeOK
  <2>. QED BY <2>3 DEF TxInv, SentInv
<1>. QED BY <1>1, Invariance, PTL

(***************************************************************************)
(* ... and in the order of the calls of low_level_output.                  *)
(***************************************************************************)
THEOREM FramesInOrder == ASSUME NEW c, Paced(c) PROVE Spec => []SentInOrder
<1>1. TxInv(c) => SentInOrder
  <2>. SUFFICES ASSUME TxInv(c), NEW i \in 1 .. Len(sent),
                       NEW j \in 1 .. Len(sent), i < j
                PROVE  sent[i][1] < sent[j][1]
    BY DEF SentInOrder
  <2>1. sent[i] = Whole(i) /\ sent[j] = Whole(j)
    BY DEF TxInv, SentInv
  <2>. QED BY <2>1, SegsStep DEF Whole
<1>. QED BY <1>1, Invariance, PTL
-----------------------------------------------------------------------------
(***************************************************************************)
(* The refinement of FrameFifo.                                            *)
(***************************************************************************)

(* Frames that left the queue: those sent and the one being sent.          *)
Gone == Len(queued) - Waiting + Taken

(* The queue the refinement maps to holds the frames after those.          *)
QueueHolds ==
  /\ Queue \in Seq(Nat) /\ Len(Queue) = Waiting - Taken
  /\ Gone \in Nat
  /\ \A k \in 1 .. Waiting - Taken : Queue[k] = Gone + k

LEMMA QueueIsRing == ASSUME NEW c PROVE TxInv(c) => QueueHolds
<1>. SUFFICES ASSUME TxInv(c) PROVE QueueHolds
  OBVIOUS
<1>1. Waiting \in Nat /\ Taken \in {0, 1} /\ Taken <= Waiting
  BY WaitingBounds DEF TxInv, TypeInv, TypeOK, DmaInv, Taken
<1>2. Len(queued) \in Nat /\ Waiting <= Len(queued)
  BY DEF TxInv, TypeInv, TypeOK, RingInv
<1>3. Gone \in Nat
  BY <1>1, <1>2 DEF Gone
<1>4. \A k \in 1 .. Waiting - Taken : txBuf[SlotAt(Taken + k - 1)][1] = Gone + k
  <2>. SUFFICES ASSUME NEW k \in 1 .. Waiting - Taken
                PROVE  txBuf[SlotAt(Taken + k - 1)][1] = Gone + k
    OBVIOUS
  <2>. DEFINE j == Taken + k
  <2>1. j \in 1 .. Waiting
    BY <1>1
  <2>. HIDE DEF j
  <2>2. txBuf[SlotAt(j - 1)][1] = Len(queued) - Waiting + j
    BY <2>1, SegsStep DEF TxInv, RingInv
  <2>. QED BY <1>1, <1>2, <2>2 DEF Gone, j
<1>5. Queue = [k \in 1 .. Waiting - Taken |-> Gone + k]
  BY <1>4 DEF Queue
<1>6. Queue \in [1 .. Waiting - Taken -> Nat] /\ Waiting - Taken \in Nat
  BY <1>1, <1>3, <1>5
<1>7. Queue \in Seq(Nat) /\ Len(Queue) = Waiting - Taken
  BY <1>6, SeqDef, LenProperties
<1>. QED BY <1>3, <1>5, <1>7 DEF QueueHolds

LEMMA QueueIsRingNext == ASSUME NEW c PROVE TxInv(c)' => QueueHolds'
BY QueueIsRing, PTL

(* The queue is that of before where it is as long and starts as late.     *)
LEMMA QueueStays ==
  ASSUME QueueHolds, QueueHolds',
         Waiting' - Taken' = Waiting - Taken, Gone' = Gone
  PROVE  Queue' = Queue
<1>1. /\ Queue \in Seq(Nat) /\ Len(Queue) = Waiting - Taken
      /\ \A k \in 1 .. Len(Queue) : Queue[k] = Gone + k
  BY DEF QueueHolds
<1>2. /\ Queue' \in Seq(Nat) /\ Len(Queue') = Waiting - Taken
      /\ \A k \in 1 .. Len(Queue') : Queue'[k] = Gone + k
  BY DEF QueueHolds
<1>3. \A k \in 1 .. Len(Queue) : Queue'[k] = Queue[k]
  BY <1>1, <1>2
<1>. QED BY <1>1, <1>2, <1>3, SeqEqual

LEMMA FifoInit == Init => Fifo!Init
<1>. SUFFICES ASSUME Init PROVE Fifo!Init
  OBVIOUS
<1>1. Waiting = 0 /\ Taken = 0
  BY DEF Init, Waiting, Taken
<1>2. Queue = <<>>
  BY <1>1 DEF Queue
<1>3. [i \in 1 .. Len(sent) |-> sent[i][1]] = <<>>
  BY DEF Init
<1>. QED BY <1>2, <1>3 DEF Init, Fifo!Init

(* A step that moves no frame through the ring.                            *)
LEMMA FifoStutter ==
  ASSUME UNCHANGED <<Queue, queued, sent, dmaSeg>>,
         dmaSeg > 0 => wire'[1] = wire[1]
  PROVE  UNCHANGED Fifo!vars
BY DEF Fifo!vars

LEMMA FifoStep ==
  ASSUME NEW c, Paced(c), TxInv(c), TxInv(c)', [Next]_vars
  PROVE  [Fifo!Next]_(Fifo!vars)
<1>. TypeOK /\ c \in Callers
  BY DEF TxInv, TypeInv, Paced
<1>1. QueueHolds /\ QueueHolds'
  BY QueueIsRing, QueueIsRingNext
<1>2. /\ Waiting \in 0 .. NumTxFrag - 1 /\ Len(queued) \in Nat
      /\ Taken \in {0, 1}
      /\ Waiting = 0 <=> txConsume = txProduce
  BY WaitingBounds DEF TypeOK, Taken
<1>3. ASSUME UNCHANGED <<txProduce, dmaVars, queued>>
      PROVE  UNCHANGED Fifo!vars
  <2>1. Waiting' = Waiting /\ Taken' = Taken /\ Gone' = Gone
    BY <1>3, SameIndices DEF dmaVars, Taken, Gone
  <2>2. Queue' = Queue
    BY <1>1, <2>1, QueueStays
  <2>. QED BY <1>3, <2>2, FifoStutter DEF dmaVars
<1>4. CASE UpdateTxProduceIndex(c)
  <2>1. /\ Waiting <= NumTxFrag - 2 /\ frame[c] = Len(queued) + 1
        /\ txProduce' = NextIndex(txProduce)
        /\ queued' = Append(queued, frame[c]) /\ UNCHANGED dmaVars
    BY <1>4 DEF UpdateTxProduceIndex, Goto, TxInv, IndexInv, FrameInv, Busy
  <2>2. Len(queued') = Len(queued) + 1
    BY <2>1 DEF TypeOK
  <2>3. Waiting' = Waiting + 1 /\ Taken' = Taken /\ Gone' = Gone
    BY <1>2, <2>1, <2>2, PublishRing DEF dmaVars, Taken, Gone
  <2>4. Queue' = Append(Queue, Len(queued) + 1)
    <3>. DEFINE q == Append(Queue, Len(queued) + 1)
    <3>1. /\ q \in Seq(Nat) /\ Len(q) = Len(Queue) + 1
          /\ \A k \in 1 .. Len(Queue) : q[k] = Queue[k]
          /\ q[Len(Queue) + 1] = Len(queued) + 1
      BY <1>1, <1>2, AppendProperties DEF QueueHolds
    <3>. HIDE DEF q
    <3>2. Len(Queue) \in Nat /\ Len(Queue') = Len(Queue) + 1
      BY <1>1, <1>2, <2>3 DEF QueueHolds
    <3>3. \A k \in 1 .. Len(Queue') : Queue'[k] = q[k]
      <4>. SUFFICES ASSUME NEW k \in 1 .. Len(Queue')
                    PROVE  Queue'[k] = q[k]
        OBVIOUS
      <4>1. Queue'[k] = Gone + k
        BY <1>1, <2>3 DEF QueueHolds
      <4>2. CASE k \in 1 .. Len(Queue)
        BY <1>1, <3>1, <4>1, <4>2 DEF QueueHolds
      <4>3. CASE k = Len(Queue) + 1
        <5>1. Gone + k = Len(queued) + 1
          BY <1>1, <1>2, <4>3 DEF QueueHolds, Gone
        <5>. QED BY <3>1, <4>1, <4>3, <5>1
      <4>. QED BY <3>2, <4>2, <4>3
    <3>4. Queue' = q
      <4>1. Queue' \in Seq(Nat)
        BY <1>1 DEF QueueHolds
      <4>. QED BY <3>1, <3>2, <3>3, <4>1, SeqEqual
    <3>. QED BY <3>4 DEF q
  <2>5. Len(Queue) < NumTxFrag - 1
    BY <1>1, <1>2, <2>1 DEF QueueHolds
  <2>6. Fifo!Accept
    BY <2>1, <2>2, <2>4, <2>5 DEF Fifo!Accept, dmaVars
  <2>. QED BY <2>6 DEF Fifo!Next
<1>5. CASE DmaRead /\ dmaSeg = 0
  <2>1. /\ Waiting > 0 /\ Waiting' = Waiting /\ dmaSeg' = 1
        /\ wire' = Append(wire, txBuf[txConsume][1])
        /\ UNCHANGED <<queued, sent>>
    BY <1>2, <1>5, SameIndices DEF DmaRead
  <2>2. Taken = 0 /\ Taken' = 1 /\ Gone' = Gone + 1
    BY <1>2, <1>5, <2>1 DEF Taken, Gone
  <2>3. Queue # <<>> /\ Head(Queue) = Gone + 1
    <3>1. Len(Queue) = Waiting
      BY <1>1, <1>2, <2>2 DEF QueueHolds
    <3>. QED BY <1>1, <1>2, <2>1, <2>2, <3>1 DEF QueueHolds
  <2>4. Queue' = Tail(Queue)
    <3>1. /\ Tail(Queue) \in Seq(Nat) /\ Len(Tail(Queue)) = Waiting - 1
          /\ \A k \in 1 .. Waiting - 1 : Tail(Queue)[k] = Queue[k + 1]
      BY <1>1, <1>2, <2>2, <2>3, HeadTailProperties DEF QueueHolds
    <3>2. Len(Queue') = Waiting - 1
      BY <1>1, <2>1, <2>2 DEF QueueHolds
    <3>3. \A k \in 1 .. Len(Queue') : Queue'[k] = Tail(Queue)[k]
      <4>. SUFFICES ASSUME NEW k \in 1 .. Waiting - 1
                    PROVE  Queue'[k] = Queue[k + 1]
        BY <3>1, <3>2
      <4>1. Queue'[k] = Gone + 1 + k
        BY <1>1, <2>1, <2>2 DEF QueueHolds
      <4>2. k + 1 \in 1 .. Waiting - Taken
        BY <1>2, <2>2
      <4>. QED BY <1>1, <4>1, <4>2 DEF QueueHolds
    <3>. QED BY <1>1, <3>1, <3>2, <3>3, SeqEqual DEF QueueHolds
  <2>5. wire'[1] = Head(Queue)
    BY <2>1, <2>2, <2>3 DEF TxInv, DmaInv, Gone
  <2>6. Fifo!Take
    BY <1>5, <2>1, <2>3, <2>4, <2>5 DEF Fifo!Take
  <2>. QED BY <2>6 DEF Fifo!Next
<1>6. CASE DmaRead /\ dmaSeg > 0
  <2>1. /\ dmaSeg \in Nat /\ wire \in Seq(0..MaxFrames) /\ Len(wire) = dmaSeg
        /\ dmaSeg + 1 \in Segs /\ txConsume \in Slots
    BY <1>6, SegsStep DEF TypeOK, DmaRead
  <2>2. txBuf[txConsume][dmaSeg + 1] \in 0..MaxFrames
    BY <2>1 DEF TypeOK
  <2>3. wire'[1] = wire[1]
    BY <1>6, <2>1, <2>2, AppendProperties DEF DmaRead
  <2>4. UNCHANGED <<queued, sent>> /\ dmaSeg' > 0
    BY <1>6, <2>1 DEF DmaRead
  <2>5. Waiting' = Waiting /\ Taken' = Taken /\ Gone' = Gone
    BY <1>6, <2>4, SameIndices DEF DmaRead, Taken, Gone
  <2>6. Queue' = Queue
    BY <1>1, <2>5, QueueStays
  <2>. QED BY <1>6, <2>3, <2>4, <2>6 DEF Fifo!vars
<1>7. CASE DmaDone
  <2>. DEFINE up == [i \in 1 .. Len(sent) |-> sent[i][1]]
  <2>1. /\ dmaSeg > 0 /\ dmaSeg' = 0 /\ Waiting > 0
        /\ sent' = Append(sent, wire) /\ queued' = queued
    BY <1>7 DEF DmaDone, TxInv, DmaInv
  <2>2. Waiting' = Waiting - 1
    BY <1>7, <2>1, ReleaseRing DEF DmaDone
  <2>3. Taken = 1 /\ Taken' = 0 /\ Gone' = Gone
    BY <1>2, <2>1, <2>2 DEF Taken, Gone
  <2>4. Queue' = Queue
    BY <1>1, <1>2, <2>2, <2>3, QueueStays
  <2>5. wire[1] # NoFrame
    <3>1. wire[1] = Gone
      BY <2>1, <2>3 DEF TxInv, DmaInv, TypeOK, Gone
    <3>2. Gone > 0
      BY <1>2, <2>1, <2>3 DEF TxInv, RingInv, Gone
    <3>. QED BY <3>1, <3>2 DEF NoFrame
  <2>6. up' = Append(up, wire[1])
    <3>1. /\ Len(sent') = Len(sent) + 1 /\ Len(sent) \in Nat
          /\ \A i \in 1 .. Len(sent) : sent'[i] = sent[i]
          /\ sent'[Len(sent) + 1] = wire
      <4>1. wire \in [Segs -> 0..MaxFrames]
        BY <1>7, LenProperties DEF DmaDone, Segs, TypeOK
      <4>2. sent \in Seq([Segs -> 0..MaxFrames])
        BY DEF TypeOK
      <4>. QED BY <2>1, <4>1, <4>2, AppendProperties
    <3>. QED BY <3>1
  <2>7. Fifo!HandUp
    BY <2>1, <2>4, <2>5, <2>6 DEF Fifo!HandUp
  <2>. QED BY <2>7 DEF Fifo!Next
<1>8. CASE \/ Call(c) \/ Gather(c) \/ ReadConsumeIndex(c)
           \/ CheckTransmitIndex(c) \/ ChooseSlot(c) \/ WritePacketBuffer(c)
           \/ ReadProduceIndex(c) \/ Return(c)
  BY <1>3, <1>8 DEF Call, Gather, ReadConsumeIndex, CheckTransmitIndex,
                    ChooseSlot, WritePacketBuffer, ReadProduceIndex, Return
<1>9. CASE UNCHANGED vars
  BY <1>3, <1>9 DEF vars
<1>. QED
  BY <1>4, <1>5, <1>6, <1>7, <1>8, <1>9
  DEF Next, Controller, Output, Paced, TypeOK, DmaRead

(***************************************************************************)
(* The transmit ring, written by a caller that leaves a descriptor free,   *)
(* is a bounded FIFO of NumTxFrag - 1 frames.                              *)
(***************************************************************************)
THEOREM Refinement == ASSUME NEW c, Paced(c) PROVE Spec => ImplementsFifo
<1>1. TxInv(c) /\ TxInv(c)' /\ [Next]_vars => [Fifo!Next]_(Fifo!vars)
  BY FifoStep
<1>. QED BY <1>1, FifoInit, Invariance, PTL DEF Spec, ImplementsFifo, Fifo!Spec
=============================================================================
