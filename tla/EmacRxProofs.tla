----------------------------- MODULE EmacRxProofs -----------------------------
(***************************************************************************)
(* Proofs about EmacRx for every ring size, packet size and number of      *)
(* frames.                                                                 *)
(***************************************************************************)
EXTENDS EmacRx, SequenceTheorems, TLAPS

(* Frames that have left the ring. *)
Released == stored - Backlog

(* The handler is about to use a descriptor only if it holds a frame. *)
HandlerInv ==
  /\ pc \in {"copy", "release"} => FrameAvailable
  /\ pc = "copy" => Readable(rxStat[rxConsume])
  /\ pc \notin {"release", "input"} => gRxBuf = NoFrame
  /\ (pc = "release" /\ gRxBuf # NoFrame) => gRxBuf = Released + 1
  /\ pc = "input" => (gRxBuf = Released /\ gRxBuf # NoFrame)

(* Everything handed up left the ring before the frame in hand. *)
HandedInv ==
  \A i \in 1..Len(handed) :
    /\ handed[i] <= Released
    /\ pc = "input" => handed[i] < Released

IInv ==
  /\ TypeOK
  /\ Backlog <= stored
  /\ RingHoldsNewest
  /\ HandlerInv
  /\ HandedInv
  /\ HandedInOrder
  /\ NeverWedged

(* The size field less the checksum is a length, as it is computed modulo  *)
(* 2^16; the words of what fits in whole words fit.                        *)
LEMMA LengthIsNat ==
  ASSUME NEW info \in Infos
  PROVE  FrameLength(info.size) \in Nat
<1>1. info \in [last : BOOLEAN, err : BOOLEAN, size : 0..2047]
  BY InfosAssumption
<1>2. info.size \in 0..2047
  BY <1>1
<1>3. ASSUME NEW n \in 0..2047 PROVE (n - 3) % 65536 \in Nat
  OBVIOUS
<1>. QED BY <1>2, <1>3 DEF FrameLength

LEMMA WholeWords ==
  ASSUME NEW len \in Nat, NEW m \in Nat, m % 4 = 0, len <= m
  PROVE  4 * ((len + 3) \div 4) <= m
OBVIOUS

USE NumRxFragAssumption, MaxFramesAssumption
-----------------------------------------------------------------------------
(***************************************************************************)
(* The ring.                                                               *)
(***************************************************************************)

(* The backlog is the number of descriptors in use: at most all but one.   *)
LEMMA BacklogBounds ==
  ASSUME rxProduce \in Slots, rxConsume \in Slots
  PROVE  /\ Backlog \in 0 .. NumRxFrag - 1
         /\ FrameAvailable <=> Backlog > 0
         /\ RingFull <=> Backlog = NumRxFrag - 1
BY DEF Slots, Backlog, FrameAvailable, RingFull, NextIndex

(* The frames in the ring are in distinct descriptors, from the consume    *)
(* index up to, and without, the produce index.                            *)
LEMMA SlotsInUse ==
  ASSUME rxProduce \in Slots, rxConsume \in Slots
  PROVE  /\ \A k \in 0 .. Backlog : SlotAt(k) \in Slots
         /\ \A k \in 0 .. Backlog - 1 : SlotAt(k) # rxProduce
         /\ SlotAt(Backlog) = rxProduce
         /\ SlotAt(0) = rxConsume
BY DEF Slots, Backlog, SlotAt

(* A step that leaves the ring alone leaves everything said of it alone.   *)
LEMMA SameRing ==
  ASSUME UNCHANGED <<hwVars, rxConsume>>
  PROVE  /\ Backlog' = Backlog
         /\ Released' = Released
         /\ Queue' = Queue
         /\ RingHoldsNewest' <=> RingHoldsNewest
         /\ RingFull' <=> RingFull
         /\ FrameAvailable' <=> FrameAvailable
BY DEF hwVars, Backlog, Released, Queue, SlotAt, RingHoldsNewest, RingFull,
       FrameAvailable

(* Storing a frame appends it to the ring.                                 *)
LEMMA StoreRing ==
  ASSUME TypeOK, Backlog <= stored, RingHoldsNewest, RxStore
  PROVE  /\ Backlog' = Backlog + 1
         /\ Released' = Released
         /\ \A k \in 1 .. Backlog : Queue'[k] = Queue[k]
         /\ Queue'[Backlog + 1] = stored + 1
         /\ RingHoldsNewest'
<1>. USE DEF TypeOK, RxStore, hwVars
<1>1. /\ Backlog \in 0 .. NumRxFrag - 2
      /\ Backlog' = Backlog + 1
  BY DEF Slots, Backlog, NextIndex
<1>2. \A k \in 0 .. Backlog : SlotAt(k)' = SlotAt(k)
  BY DEF SlotAt
<1>3. \A k \in 1 .. Backlog : Queue'[k] = Queue[k]
  <2>. SUFFICES ASSUME NEW k \in 1 .. Backlog
                PROVE  Queue'[k] = Queue[k]
    OBVIOUS
  <2>1. k - 1 \in 0 .. Backlog - 1 /\ k \in 1 .. Backlog'
    BY <1>1
  <2>2. Queue[k] = rxBuf[SlotAt(k - 1)] /\ Queue'[k] = rxBuf'[SlotAt(k - 1)']
    BY <2>1 DEF Queue
  <2>3. SlotAt(k - 1)' = SlotAt(k - 1) /\ SlotAt(k - 1) # rxProduce
    BY <1>1, <1>2, <2>1, SlotsInUse
  <2>4. SlotAt(k - 1) \in Slots
    BY <1>1, <2>1, SlotsInUse
  <2>. QED BY <2>2, <2>3, <2>4
<1>4. Queue'[Backlog + 1] = stored + 1
  <2>1. PICK b \in 0 .. NumRxFrag - 2 : b = Backlog
    BY <1>1
  <2>2. Queue'[b + 1] = rxBuf'[SlotAt(b + 1 - 1)']
    BY <1>1, <2>1 DEF Queue
  <2>3. SlotAt(b)' = rxProduce
    BY <1>1, <2>1 DEF SlotAt, Backlog, Slots
  <2>4. b + 1 - 1 = b
    BY <2>1
  <2>. QED BY <2>1, <2>2, <2>3, <2>4
<1>5. RingHoldsNewest'
  <2>. SUFFICES ASSUME NEW k \in 1 .. Backlog'
                PROVE  Queue'[k] = stored' - Backlog' + k
    BY DEF RingHoldsNewest
  <2>1. CASE k = Backlog + 1
    BY <1>1, <1>4, <2>1
  <2>2. CASE k \in 1 .. Backlog
    BY <1>1, <1>3, <2>2 DEF RingHoldsNewest
  <2>. QED BY <1>1, <2>1, <2>2
<1>. QED BY <1>1, <1>3, <1>4, <1>5 DEF Released

(* Releasing a descriptor takes the oldest frame out of the ring.          *)
LEMMA ReleaseRing ==
  ASSUME TypeOK, Backlog <= stored, RingHoldsNewest, FrameAvailable,
         UpdateRxConsumeIndex
  PROVE  /\ Backlog' = Backlog - 1
         /\ Released' = Released + 1
         /\ \A k \in 1 .. Backlog' : Queue'[k] = Queue[k + 1]
         /\ RingHoldsNewest'
<1>. USE DEF TypeOK, UpdateRxConsumeIndex, hwVars
<1>1. /\ Backlog \in 1 .. NumRxFrag - 1
      /\ Backlog' = Backlog - 1
  BY DEF Slots, Backlog, NextIndex, FrameAvailable
<1>2. \A k \in 0 .. Backlog - 1 : SlotAt(k)' = SlotAt(k + 1)
  BY <1>1 DEF SlotAt, Slots, NextIndex
<1>3. \A k \in 1 .. Backlog' : Queue'[k] = Queue[k + 1]
  <2>. SUFFICES ASSUME NEW k \in 1 .. Backlog'
                PROVE  Queue'[k] = Queue[k + 1]
    OBVIOUS
  <2>1. k + 1 \in 1 .. Backlog /\ k - 1 \in 0 .. Backlog - 1
    BY <1>1
  <2>2. Queue'[k] = rxBuf[SlotAt(k - 1)']
    BY DEF Queue
  <2>3. Queue[k + 1] = rxBuf[SlotAt(k + 1 - 1)]
    BY <2>1 DEF Queue
  <2>4. k - 1 + 1 = k + 1 - 1
    BY <1>1
  <2>. QED BY <1>2, <2>1, <2>2, <2>3, <2>4
<1>4. RingHoldsNewest'
  <2>. SUFFICES ASSUME NEW k \in 1 .. Backlog'
                PROVE  Queue'[k] = stored' - Backlog' + k
    BY DEF RingHoldsNewest
  <2>. QED BY <1>1, <1>3 DEF RingHoldsNewest
<1>. QED BY <1>1, <1>3, <1>4 DEF Released
-----------------------------------------------------------------------------
(***************************************************************************)
(* Type correctness.                                                       *)
(***************************************************************************)

TypeInv == TypeOK /\ (pc = "input" => gRxBuf # NoFrame)

LEMMA NextIndexType ==
  ASSUME NEW i \in Slots
  PROVE  NextIndex(i) \in Slots
BY DEF Slots, NextIndex

LEMMA TypeInvInit == Init => TypeInv
<1>. SUFFICES ASSUME Init PROVE TypeInv
  OBVIOUS
<1>1. handed \in Seq(1..MaxFrames)
  BY DEF Init
<1>2. rxStat \in [Slots -> Infos]
  BY DEF Init
<1>. QED BY <1>1, <1>2 DEF Init, TypeInv, TypeOK, Slots, IntEnable, NoFrame

LEMMA TypeInvStep == TypeInv /\ [Next]_vars => TypeInv'
<1>. SUFFICES ASSUME TypeInv, [Next]_vars PROVE TypeInv'
  OBVIOUS
<1>. USE DEF TypeInv, TypeOK, hwVars, IntEnable
<1>1. CASE RxStore
  <2>1. rxProduce' \in Slots
    BY <1>1, NextIndexType DEF RxStore
  <2>2. rxStat' \in [Slots -> Infos]
    BY <1>1 DEF RxStore
  <2>3. stored' \in 0..MaxFrames /\ rxBuf' \in [Slots -> 0..MaxFrames]
    BY <1>1 DEF RxStore
  <2>. QED BY <1>1, <2>1, <2>2, <2>3 DEF RxStore
<1>2. CASE RxRaise
  BY <1>2 DEF RxRaise
<1>3. CASE RxOverrun
  BY <1>3 DEF RxOverrun
<1>4. CASE TxDone
  BY <1>4 DEF TxDone
<1>5. CASE IrqEnter
  BY <1>5 DEF IrqEnter
<1>6. CASE IrqPoll
  BY <1>6 DEF IrqPoll
<1>7. CASE IrqClear
  BY <1>7 DEF IrqClear
<1>8. CASE CheckFrame
  <2>1. pc' \in {"poll", "copy", "release"}
    BY <1>8 DEF CheckFrame
  <2>. QED BY <1>8, <2>1 DEF CheckFrame
<1>9. CASE ReadPacketBuffer
  BY <1>9 DEF ReadPacketBuffer
<1>10. CASE UpdateRxConsumeIndex
  BY <1>10, NextIndexType DEF UpdateRxConsumeIndex
<1>11. CASE Input
  <2>1. gRxBuf \in 1..MaxFrames
    BY <1>11 DEF Input, NoFrame
  <2>2. handed' \in Seq(1..MaxFrames)
    BY <1>11, <2>1 DEF Input
  <2>. QED BY <1>11, <2>2 DEF Input, NoFrame
<1>12. CASE InputNoMemory
  BY <1>12 DEF InputNoMemory, NoFrame
<1>13. CASE UNCHANGED vars
  BY <1>13 DEF vars
<1>. HIDE DEF TypeInv
<1>. QED
  BY <1>1, <1>2, <1>3, <1>4, <1>5, <1>6, <1>7, <1>8, <1>9, <1>10, <1>11,
     <1>12, <1>13 DEF Next, Controller, Handler

(***************************************************************************)
(* Indices, status words, interrupt sets and frame numbers keep their      *)
(* types: no index of the ring ever leaves it.                             *)
(***************************************************************************)
THEOREM TypeCorrect == Spec => []TypeOK
<1>1. TypeInv => TypeOK
  BY DEF TypeInv
<1>. QED BY <1>1, TypeInvInit, TypeInvStep, PTL DEF Spec
-----------------------------------------------------------------------------
(***************************************************************************)
(* The inductive invariant.                                                *)
(***************************************************************************)

LEMMA IInvInit == Init => IInv
<1>. SUFFICES ASSUME Init PROVE IInv
  OBVIOUS
<1>1. TypeOK
  BY TypeInvInit DEF TypeInv
<1>2. Backlog = 0 /\ handed = <<>> /\ ~RingFull
  BY DEF Init, Backlog, RingFull, NextIndex
<1>. QED BY <1>1, <1>2 DEF Init, IInv, RingHoldsNewest, HandlerInv, HandedInv,
                           HandedInOrder, NeverWedged

(* A wake-up that stays pending while the ring stays as it is.             *)
LEMMA StillPending ==
  ASSUME NeverWedged, UNCHANGED <<hwVars, rxConsume>>,
         ReceptionPending => ReceptionPending'
  PROVE  NeverWedged'
BY SameRing DEF NeverWedged

(* The steps that change neither the ring nor the frames handed up.        *)
LEMMA QuietStep ==
  ASSUME IInv, TypeOK', UNCHANGED <<hwVars, rxConsume, handed>>,
         HandlerInv', NeverWedged',
         pc' = "input" => pc = "input"
  PROVE  IInv'
<1>1. /\ Backlog' = Backlog /\ Released' = Released
      /\ RingHoldsNewest' <=> RingHoldsNewest
  BY SameRing
<1>2. Backlog' <= stored' /\ RingHoldsNewest'
  BY <1>1 DEF IInv, hwVars
<1>3. HandedInv'
  BY <1>1 DEF IInv, HandedInv
<1>4. HandedInOrder'
  BY DEF IInv, HandedInOrder
<1>. QED BY <1>2, <1>3, <1>4 DEF IInv

LEMMA IInvStep == IInv /\ [Next]_vars => IInv'
<1>. SUFFICES ASSUME IInv, [Next]_vars PROVE IInv'
  OBVIOUS
<1>. TypeOK /\ TypeOK'
  <2>1. TypeInv
    BY DEF IInv, TypeInv, HandlerInv
  <2>. QED BY <2>1, TypeInvStep DEF TypeInv
<1>. USE DEF IInv
<1>1. CASE RxStore
  <2>1. /\ Backlog' = Backlog + 1 /\ Released' = Released /\ RingHoldsNewest'
        /\ Backlog' <= stored'
    <3>1. Backlog' = Backlog + 1 /\ Released' = Released /\ RingHoldsNewest'
      BY <1>1, StoreRing
    <3>2. Backlog \in Nat /\ stored \in Nat /\ stored' = stored + 1
      BY <1>1, BacklogBounds DEF TypeOK, RxStore
    <3>. QED BY <3>1, <3>2
  <2>2. HandlerInv'
    <3>1. FrameAvailable => FrameAvailable'
      BY <1>1 DEF RxStore, FrameAvailable
    <3>2. FrameAvailable => rxStat'[rxConsume'] = rxStat[rxConsume]
      BY <1>1 DEF RxStore, FrameAvailable, TypeOK
    <3>. QED BY <1>1, <2>1, <3>1, <3>2 DEF HandlerInv, RxStore
  <2>3. HandedInv' /\ HandedInOrder'
    BY <1>1, <2>1 DEF RxStore, HandedInv, HandedInOrder
  <2>4. NeverWedged'
    <3>1. raising' = {"RX_DONE"}
      BY <1>1 DEF RxStore
    <3>2. ReceptionPending'
      BY <3>1 DEF ReceptionPending
    <3>. QED BY <3>2 DEF NeverWedged
  <2>. QED BY <2>1, <2>2, <2>3, <2>4
<1>2. CASE RxRaise
  <2>1. HandlerInv'
    BY <1>2, SameRing DEF RxRaise, HandlerInv, hwVars
  <2>2. NeverWedged'
    <3>1. PICK int \in raising : TRUE
      BY <1>2 DEF RxRaise
    <3>2. "RX_DONE" \in raising
      BY <3>1 DEF TypeOK
    <3>3. intStatus' = intStatus \cup raising
      BY <1>2 DEF RxRaise
    <3>4. "RX_DONE" \in intStatus'
      BY <3>2, <3>3
    <3>. QED BY <3>4 DEF NeverWedged, ReceptionPending
  <2>. QED BY <1>2, <2>1, <2>2, QuietStep DEF RxRaise
<1>3. CASE RxOverrun
  <2>1. HandlerInv'
    BY <1>3, SameRing DEF RxOverrun, HandlerInv, hwVars
  <2>2. NeverWedged'
    <3>1. ReceptionPending => ReceptionPending'
      BY <1>3 DEF RxOverrun, ReceptionPending
    <3>. QED BY <1>3, <3>1, StillPending DEF RxOverrun
  <2>. QED BY <1>3, <2>1, <2>2, QuietStep DEF RxOverrun
<1>4. CASE TxDone
  <2>1. HandlerInv'
    BY <1>4, SameRing DEF TxDone, HandlerInv, hwVars
  <2>2. NeverWedged'
    <3>1. ReceptionPending => ReceptionPending'
      BY <1>4 DEF TxDone, ReceptionPending
    <3>. QED BY <1>4, <3>1, StillPending DEF TxDone
  <2>. QED BY <1>4, <2>1, <2>2, QuietStep DEF TxDone
<1>5. CASE IrqEnter
  <2>1. HandlerInv'
    BY <1>5, SameRing DEF IrqEnter, HandlerInv
  <2>2. NeverWedged'
    <3>1. ReceptionPending => ReceptionPending'
      BY <1>5 DEF IrqEnter, ReceptionPending
    <3>. QED BY <1>5, <3>1, StillPending DEF IrqEnter
  <2>. QED BY <1>5, <2>1, <2>2, QuietStep DEF IrqEnter
<1>6. CASE IrqPoll
  <2>1. HandlerInv'
    BY <1>6, SameRing DEF IrqPoll, HandlerInv
  <2>2. NeverWedged'
    <3>1. ReceptionPending => ReceptionPending'
      BY <1>6 DEF IrqPoll, ReceptionPending
    <3>. QED BY <1>6, <3>1, StillPending DEF IrqPoll
  <2>. QED BY <1>6, <2>1, <2>2, QuietStep DEF IrqPoll
<1>7. CASE IrqClear
  <2>1. HandlerInv'
    BY <1>7, SameRing DEF IrqClear, HandlerInv
  <2>2. NeverWedged'
    <3>1. ReceptionPending => ReceptionPending'
      BY <1>7 DEF IrqClear, ReceptionPending
    <3>. QED BY <1>7, <3>1, StillPending DEF IrqClear
  <2>. QED BY <1>7, <2>1, <2>2, QuietStep DEF IrqClear
<1>8. CASE CheckFrame
  <2>1. pc = "check" /\ UNCHANGED <<hwVars, rxConsume, gRxBuf, handed,
                                    intStatus, raising, status>>
    BY <1>8 DEF CheckFrame
  <2>2. \/ ~FrameAvailable /\ pc' = "poll"
        \/ FrameAvailable /\ Readable(rxStat[rxConsume]) /\ pc' = "copy"
        \/ FrameAvailable /\ pc' = "release"
    BY <1>8 DEF CheckFrame
  <2>3. HandlerInv'
    BY <2>1, <2>2, SameRing DEF HandlerInv, hwVars
  <2>4. NeverWedged'
    <3>1. RingFull => FrameAvailable
      BY BacklogBounds, NumRxFragAssumption DEF TypeOK
    <3>2. RingFull => ReceptionPending'
      BY <2>2, <3>1 DEF ReceptionPending
    <3>. QED BY <2>1, <3>2, SameRing DEF NeverWedged
  <2>. QED BY <2>1, <2>2, <2>3, <2>4, QuietStep
<1>9. CASE ReadPacketBuffer
  <2>1. rxBuf[rxConsume] = Released + 1
    <3>1. Backlog > 0 /\ Backlog \in Nat
      BY <1>9, BacklogBounds DEF ReadPacketBuffer, HandlerInv, TypeOK
    <3>2. 1 \in 1 .. Backlog
      BY <3>1
    <3>3. Queue[1] = rxBuf[rxConsume]
      BY <3>2 DEF Queue, SlotAt, TypeOK, Slots
    <3>4. Queue[1] = Released + 1
      BY <3>2 DEF RingHoldsNewest, Released
    <3>. QED BY <3>3, <3>4
  <2>2. HandlerInv'
    BY <1>9, <2>1, SameRing DEF ReadPacketBuffer, HandlerInv
  <2>3. NeverWedged'
    <3>1. ReceptionPending => ReceptionPending'
      BY <1>9 DEF ReadPacketBuffer, ReceptionPending
    <3>. QED BY <1>9, <3>1, StillPending DEF ReadPacketBuffer
  <2>. QED BY <1>9, <2>2, <2>3, QuietStep DEF ReadPacketBuffer
<1>10. CASE UpdateRxConsumeIndex
  <2>1. FrameAvailable
    BY <1>10 DEF UpdateRxConsumeIndex, HandlerInv
  <2>2. /\ Backlog' = Backlog - 1 /\ Released' = Released + 1
        /\ RingHoldsNewest'
    BY <1>10, <2>1, ReleaseRing
  <2>3. Backlog \in 1 .. NumRxFrag - 1 /\ Released \in Nat
    BY <2>1, BacklogBounds DEF TypeOK, Released
  <2>4. Backlog' <= stored'
    BY <1>10, <2>2, <2>3 DEF UpdateRxConsumeIndex, hwVars, TypeOK
  <2>5. HandlerInv'
    BY <1>10, <2>2 DEF UpdateRxConsumeIndex, HandlerInv
  <2>6. HandedInv'
    <3>1. handed' = handed
      BY <1>10 DEF UpdateRxConsumeIndex
    <3>2. \A i \in 1..Len(handed) : handed[i] \in Int
      <4>1. handed \in Seq(1..MaxFrames)
        BY DEF TypeOK
      <4>. QED BY <4>1, ElementOfSeq
    <3>3. \A i \in 1..Len(handed) : handed[i] <= Released
      BY DEF HandedInv
    <3>4. \A i \in 1..Len(handed) : handed[i] < Released + 1
      BY <2>3, <3>2, <3>3
    <3>5. \A i \in 1..Len(handed') : handed'[i] < Released'
      BY <2>2, <3>1, <3>4
    <3>6. \A i \in 1..Len(handed') : handed'[i] <= Released'
      BY <2>2, <2>3, <3>1, <3>2, <3>4
    <3>. QED BY <3>5, <3>6 DEF HandedInv
  <2>7. HandedInOrder'
    BY <1>10 DEF UpdateRxConsumeIndex, HandedInOrder
  <2>8. NeverWedged'
    <3>1. ~RingFull'
      BY <1>10, <2>1 DEF UpdateRxConsumeIndex, FrameAvailable, RingFull,
                         NextIndex, TypeOK, Slots, hwVars
    <3>. QED BY <3>1 DEF NeverWedged
  <2>. QED BY <2>2, <2>4, <2>5, <2>6, <2>7, <2>8
<1>11. CASE Input
  <2>1. /\ Backlog' = Backlog /\ Released' = Released
        /\ RingHoldsNewest' <=> RingHoldsNewest
    BY <1>11, SameRing DEF Input
  <2>2. /\ Len(handed') = Len(handed) + 1
        /\ \A i \in 1..Len(handed) : handed'[i] = handed[i]
        /\ handed'[Len(handed) + 1] = Released
    BY <1>11 DEF Input, HandlerInv, TypeOK
  <2>3. \A i \in 1..Len(handed) : handed[i] < Released
    BY <1>11 DEF Input, HandedInv
  <2>4. HandlerInv'
    BY <1>11, SameRing DEF Input, HandlerInv
  <2>5. HandedInv'
    BY <1>11, <2>1, <2>2, <2>3 DEF Input, HandedInv, TypeOK
  <2>6. HandedInOrder'
    <3>. SUFFICES ASSUME NEW i \in 1..Len(handed'), NEW j \in 1..Len(handed'),
                         i < j
                  PROVE  handed'[i] < handed'[j]
      BY DEF HandedInOrder
    <3>1. Len(handed) \in Nat
      BY DEF TypeOK
    <3>2. i \in 1..Len(handed)
      BY <2>2, <3>1
    <3>3. CASE j = Len(handed) + 1
      BY <2>2, <2>3, <3>2, <3>3
    <3>4. CASE j \in 1..Len(handed)
      BY <2>2, <3>2, <3>4 DEF HandedInOrder
    <3>. QED BY <2>2, <3>1, <3>3, <3>4
  <2>7. NeverWedged'
    <3>1. ReceptionPending => ReceptionPending'
      BY <1>11 DEF Input, ReceptionPending
    <3>. QED BY <1>11, <3>1, StillPending DEF Input
  <2>. QED BY <1>11, <2>1, <2>4, <2>5, <2>6, <2>7 DEF Input, hwVars
<1>12. CASE InputNoMemory
  <2>1. HandlerInv'
    BY <1>12, SameRing DEF InputNoMemory, HandlerInv
  <2>2. NeverWedged'
    <3>1. ReceptionPending => ReceptionPending'
      BY <1>12 DEF InputNoMemory, ReceptionPending
    <3>. QED BY <1>12, <3>1, StillPending DEF InputNoMemory
  <2>. QED BY <1>12, <2>1, <2>2, QuietStep DEF InputNoMemory
<1>13. CASE UNCHANGED vars
  <2>1. HandlerInv'
    BY <1>13, SameRing DEF vars, HandlerInv, hwVars
  <2>2. NeverWedged'
    <3>1. ReceptionPending => ReceptionPending'
      BY <1>13 DEF vars, ReceptionPending
    <3>. QED BY <1>13, <3>1, StillPending DEF vars
  <2>. QED BY <1>13, <2>1, <2>2, QuietStep DEF vars
<1>. QED
  BY <1>1, <1>2, <1>3, <1>4, <1>5, <1>6, <1>7, <1>8, <1>9, <1>10, <1>11,
     <1>12, <1>13 DEF Next, Controller, Handler

LEMMA Invariance == Spec => []IInv
BY IInvInit, IInvStep, PTL DEF Spec

(***************************************************************************)
(* The descriptors between the indices hold the newest frames, oldest      *)
(* first: EMAC_UpdateRxConsumeIndex never releases an empty descriptor.    *)
(***************************************************************************)
THEOREM RingContents == Spec => []RingHoldsNewest
<1>1. IInv => RingHoldsNewest
  BY DEF IInv
<1>. QED BY <1>1, Invariance, PTL

(***************************************************************************)
(* No frame reaches netif->input twice or after a younger one.             *)
(***************************************************************************)
THEOREM InOrder == Spec => []HandedInOrder
<1>1. IInv => HandedInOrder
  BY DEF IInv
<1>. QED BY <1>1, Invariance, PTL

(***************************************************************************)
(* ENET_IRQHandler, which clears IntStatus before it reads the ring, never *)
(* leaves a full ring without an interrupt that will bring it back.        *)
(***************************************************************************)
THEOREM NoLostWakeup == Spec => []NeverWedged
<1>1. IInv => NeverWedged
  BY DEF IInv
<1>. QED BY <1>1, Invariance, PTL

(***************************************************************************)
(* The whole words EMAC_ReadPacketBuffer copies fit in gRxBuf, whatever    *)
(* the size field the controller wrote.                                    *)
(***************************************************************************)
THEOREM CopyInBounds == Spec => []CopyFits
<1>1. IInv => CopyFits
  <2>. SUFFICES ASSUME IInv, pc = "copy"
                PROVE  LET len == FrameLength(rxStat[rxConsume].size)
                       IN  len >= 0 /\ 4 * ((len + 3) \div 4) <= MaxPacket
    BY DEF CopyFits
  <2>. DEFINE len == FrameLength(rxStat[rxConsume].size)
  <2>1. rxStat[rxConsume] \in Infos
    BY DEF IInv, TypeOK
  <2>2. len \in Nat
    BY <2>1, LengthIsNat
  <2>3. len <= MaxPacket
    BY DEF IInv, HandlerInv, Readable
  <2>. HIDE DEF len
  <2>4. 4 * ((len + 3) \div 4) <= MaxPacket
    BY <2>2, <2>3, WholeWords, MaxPacketAssumption
  <2>. QED BY <2>2, <2>4 DEF len
<1>. QED BY <1>1, Invariance, PTL
-----------------------------------------------------------------------------
(***************************************************************************)
(* The refinement of FrameFifo.                                            *)
(***************************************************************************)

QueueTyped == Queue \in Seq(0..MaxFrames) /\ Len(Queue) = Backlog

LEMMA QueueIsSeq == TypeOK => QueueTyped
<1>. SUFFICES ASSUME TypeOK PROVE QueueTyped
  OBVIOUS
<1>1. Backlog \in Nat
  BY BacklogBounds DEF TypeOK
<1>2. \A k \in 1..Backlog : rxBuf[SlotAt(k - 1)] \in 0..MaxFrames
  <2>. SUFFICES ASSUME NEW k \in 1..Backlog
                PROVE  rxBuf[SlotAt(k - 1)] \in 0..MaxFrames
    OBVIOUS
  <2>1. k - 1 \in 0..Backlog
    BY <1>1
  <2>2. SlotAt(k - 1) \in Slots
    BY <2>1, SlotsInUse DEF TypeOK
  <2>. QED BY <2>2 DEF TypeOK
<1>3. Queue \in [1..Backlog -> 0..MaxFrames]
  BY <1>2 DEF Queue
<1>. QED BY <1>1, <1>3, SeqDef DEF QueueTyped

LEMMA QueueIsSeqNext == TypeOK' => QueueTyped'
BY QueueIsSeq, PTL

LEMMA FifoInit == Init => Fifo!Init
<1>. SUFFICES ASSUME Init PROVE Fifo!Init
  OBVIOUS
<1>1. Queue = <<>>
  <2>1. Backlog = 0
    BY DEF Init, Backlog
  <2>. QED BY <2>1, TypeInvInit, QueueIsSeq, EmptySeq DEF TypeInv, QueueTyped
<1>. QED BY <1>1 DEF Init, Fifo!Init

LEMMA FifoStep == IInv /\ IInv' /\ [Next]_vars => [Fifo!Next]_(Fifo!vars)
<1>. SUFFICES ASSUME IInv, IInv', [Next]_vars
              PROVE  [Fifo!Next]_(Fifo!vars)
  OBVIOUS
<1>. USE DEF IInv
<1>1. /\ Queue \in Seq(0..MaxFrames) /\ Len(Queue) = Backlog
      /\ Queue' \in Seq(0..MaxFrames) /\ Len(Queue') = Backlog'
  BY QueueIsSeq, QueueIsSeqNext DEF QueueTyped
<1>2. CASE RxStore
  <2>1. Queue' = Append(Queue, stored + 1)
    <3>1. /\ Backlog' = Backlog + 1
          /\ \A k \in 1 .. Backlog : Queue'[k] = Queue[k]
          /\ Queue'[Backlog + 1] = stored + 1
      BY <1>2, StoreRing
    <3>2. Backlog \in Nat /\ stored + 1 \in 0..MaxFrames
      BY <1>2, BacklogBounds DEF RxStore, TypeOK
    <3>. DEFINE q == Append(Queue, stored + 1)
    <3>3. /\ q \in Seq(0..MaxFrames) /\ Len(q) = Backlog + 1
          /\ \A k \in 1 .. Backlog : q[k] = Queue[k]
          /\ q[Backlog + 1] = stored + 1
      BY <1>1, <3>2, AppendProperties
    <3>. HIDE DEF q
    <3>4. \A k \in 1 .. Len(Queue') : Queue'[k] = q[k]
      BY <1>1, <3>1, <3>2, <3>3
    <3>5. Queue' = q
      BY <1>1, <3>1, <3>3, <3>4, SeqEqual
    <3>. QED BY <3>5 DEF q
  <2>2. Len(Queue) < NumRxFrag - 1
    BY <1>1, <1>2, BacklogBounds DEF RxStore, RingFull, TypeOK
  <2>. QED BY <1>2, <2>1, <2>2 DEF RxStore, Fifo!Next, Fifo!Accept
<1>3. CASE UpdateRxConsumeIndex
  <2>1. /\ FrameAvailable /\ Backlog \in Nat /\ Backlog > 0
        /\ stored \in Nat
    BY <1>3, BacklogBounds DEF UpdateRxConsumeIndex, HandlerInv, TypeOK
  <2>2. Queue # <<>>
    BY <1>1, <2>1
  <2>3. Queue' = Tail(Queue)
    <3>1. /\ Backlog' = Backlog - 1
          /\ \A k \in 1 .. Backlog' : Queue'[k] = Queue[k + 1]
      BY <1>3, <2>1, ReleaseRing
    <3>2. /\ Tail(Queue) \in Seq(0..MaxFrames) /\ Len(Tail(Queue)) = Backlog - 1
          /\ \A k \in 1 .. Backlog - 1 : Tail(Queue)[k] = Queue[k + 1]
      BY <1>1, <2>2, HeadTailProperties
    <3>3. \A k \in 1 .. Len(Queue') : Queue'[k] = Tail(Queue)[k]
      BY <1>1, <3>1, <3>2
    <3>. QED BY <1>1, <3>1, <3>2, <3>3, SeqEqual
  <2>4. Head(Queue) = Released + 1
    <3>1. Head(Queue) = Queue[1]
      BY <1>1, <2>2
    <3>2. 1 \in 1 .. Backlog
      BY <2>1
    <3>. QED BY <3>1, <3>2 DEF RingHoldsNewest, Released
  <2>5. \/ pc' = "poll"
        \/ pc' = "input" /\ gRxBuf' = Head(Queue)
    BY <1>3, <2>4 DEF UpdateRxConsumeIndex, HandlerInv
  <2>. DEFINE inHand == IF pc = "input" THEN gRxBuf ELSE NoFrame
  <2>6. inHand = NoFrame /\ inHand' \in {Head(Queue), NoFrame}
    BY <1>3, <2>5 DEF UpdateRxConsumeIndex
  <2>7. UNCHANGED <<stored, handed>>
    BY <1>3 DEF UpdateRxConsumeIndex, hwVars
  <2>8. Fifo!Take
    BY <2>2, <2>3, <2>6, <2>7 DEF Fifo!Take
  <2>. QED BY <2>8 DEF Fifo!Next
<1>4. CASE Input
  <2>1. Queue' = Queue
    BY <1>4, SameRing DEF Input
  <2>. QED BY <1>4, <2>1 DEF Input, HandlerInv, hwVars, Fifo!Next, Fifo!HandUp
<1>5. CASE InputNoMemory
  <2>1. Queue' = Queue
    BY <1>5, SameRing DEF InputNoMemory
  <2>. QED BY <1>5, <2>1 DEF InputNoMemory, HandlerInv, hwVars, Fifo!Next,
                             Fifo!Drop
<1>6. CASE RxRaise \/ RxOverrun \/ TxDone
  <2>1. UNCHANGED <<hwVars, rxConsume, pc, gRxBuf, handed>>
    BY <1>6 DEF RxRaise, RxOverrun, TxDone
  <2>. QED BY <2>1, SameRing DEF hwVars, Fifo!vars
<1>7. CASE IrqEnter \/ IrqPoll \/ IrqClear \/ CheckFrame \/ ReadPacketBuffer
  <2>1. UNCHANGED <<hwVars, rxConsume, handed>> /\ pc # "input" /\ pc' # "input"
    BY <1>7 DEF IrqEnter, IrqPoll, IrqClear, CheckFrame, ReadPacketBuffer
  <2>. QED BY <2>1, SameRing DEF hwVars, Fifo!vars
<1>8. CASE UNCHANGED vars
  BY <1>8, SameRing DEF vars, hwVars, Fifo!vars
<1>. QED
  BY <1>2, <1>3, <1>4, <1>5, <1>6, <1>7, <1>8 DEF Next, Controller, Handler

(***************************************************************************)
(* The descriptor ring with its interrupt handler is a bounded FIFO of     *)
(* NumRxFrag - 1 frames that loses frames only at its client's side.       *)
(***************************************************************************)
THEOREM Refinement == Spec => ImplementsFifo
<1>1. IInv /\ IInv' /\ [Next]_vars => [Fifo!Next]_(Fifo!vars)
  BY FifoStep
<1>. QED BY <1>1, FifoInit, Invariance, PTL DEF Spec, ImplementsFifo, Fifo!Spec
=============================================================================
