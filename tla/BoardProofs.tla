------------------------------ MODULE BoardProofs ------------------------------
(***************************************************************************)
(* Proofs about Board, for strings of any number and length and for any    *)
(* times of a byte and of the delay that satisfy TimeAssumption.           *)
(***************************************************************************)
EXTENDS Board, SequenceTheorems, TLAPS

(* The bits until the transmitter is empty, and the bytes it holds. *)
Remaining == tsr + IF thr THEN ByteTime ELSE 0
Holding   == (IF tsr > 0 THEN 1 ELSE 0) + (IF thr THEN 1 ELSE 0)

(***************************************************************************)
(* Outside of the writing of a string and the delay after it nothing is    *)
(* being sent; that delay lasts as long as what is still to be sent; the   *)
(* bytes of the string are out, in the transmitter, or not yet written.    *)
(***************************************************************************)
SerialInv ==
  /\ thr => tsr > 0
  /\ pc \notin {"byte", "after"} => tsr = 0
  /\ pc = "after" => Remaining <= wait
  /\ pc \in {"before", "byte", "after"} => dir = "send" /\ pos = out + Holding
  /\ pc \in {"release", "pause", "dir_s"} \cup Booting => dir = "receive"
  /\ pc = "string" /\ dir = "send" => out = 0
  /\ pc = "before" => pos = 0
  /\ pc = "after" => pos = Lengths[str]

(***************************************************************************)
(* The loops of emac.c count from RespTout down to 1, and main has set up  *)
(* what comes before its place.                                            *)
(***************************************************************************)
BootInv ==
  /\ pc \in {"reset_wait", "link_wait"} => tout > 0
  /\ pc # "heap" => "heap" \in ready
  /\ pc \notin {"heap", "pools"} => "pools" \in ready
  /\ pc \notin {"heap", "pools", "netif"} => "netif" \in ready
  /\ pc \notin {"heap", "pools", "netif", "driver"} => "driver" \in ready
  /\ pc \in {"irq", "list", "up", "bind", "recv"} \cup Looping
       => "descriptors" \in ready
  /\ "irq" \in ready => pc \in {"list", "up", "bind", "recv"} \cup Looping
  /\ pc \in {"up", "bind", "recv"} \cup Looping => "listed" \in ready
  /\ pc \in {"bind", "recv"} \cup Looping => "up" \in ready
  /\ pc \in {"recv"} \cup Looping => "bound" \in ready
  /\ pc \in Looping => "recv" \in ready

IInv == TypeOK /\ SerialInv /\ BootInv
-----------------------------------------------------------------------------
(***************************************************************************)
(* The invariant holds when UART0_Init and MAX485_Init have been called.   *)
(***************************************************************************)
LEMMA InitEstablishes == Init => IInv
  <1> USE LengthsAssumption, TimeAssumption, RespToutAssumption
  <1> SUFFICES ASSUME Init PROVE IInv
    OBVIOUS
  <1>1. TypeOK
    <2>1. 1 \in DOMAIN Lengths
      BY EmptySeq, SeqDef
    <2>2. resetting \in BOOLEAN /\ link \in BOOLEAN /\ thr \in BOOLEAN
      BY Zenon DEF Init
    <2>3. tout \in 0 .. RespTout /\ tsr \in 0 .. ByteTime /\ wait \in 0 .. DelayTime
      BY DEF Init
    <2> QED
      BY <2>1, <2>2, <2>3 DEF Init, TypeOK, Booting, Looping, Parts
  <1>2. SerialInv
    BY DEF Init, SerialInv, Booting, Looping
  <1>3. BootInv
    BY DEF Init, BootInv, Booting, Looping
  <1> QED
    BY <1>1, <1>2, <1>3 DEF IInv

(***************************************************************************)
(* The transmitter holds what it held less what has gone out, and is empty *)
(* one bit earlier.                                                        *)
(***************************************************************************)
LEMMA BitShifts ==
  ASSUME TypeOK, thr => tsr > 0, Bit
  PROVE  /\ thr' \in BOOLEAN /\ tsr' \in 0 .. ByteTime /\ out' \in Nat
         /\ thr' => tsr' > 0
         /\ out' + Holding' = out + Holding
         /\ Remaining' = IF tsr = 0 THEN 0 ELSE Remaining - 1
         /\ tsr = 0 => tsr' = 0 /\ out' = out
  <1> USE TimeAssumption DEF TypeOK
  <1>1. CASE tsr = 0
    BY <1>1 DEF Bit, Holding, Remaining
  <1>2. CASE tsr > 1
    BY <1>2 DEF Bit, Holding, Remaining
  <1>3. CASE tsr = 1
    <2>1. out' = out + 1 /\ ~thr' /\ thr' \in BOOLEAN
      <3>1. out' = out + 1 /\ (thr' = FALSE)
        BY <1>3 DEF Bit
      <3> QED
        BY <3>1, Zenon
    <2>2. CASE thr
      BY <1>3, <2>1, <2>2 DEF Bit, Holding, Remaining
    <2>3. CASE ~thr
      BY <1>3, <2>1, <2>3 DEF Bit, Holding, Remaining
    <2> QED
      BY <2>2, <2>3
  <1> QED
    BY <1>1, <1>2, <1>3

(***************************************************************************)
(* Every step of main before its loop keeps the invariant.                 *)
(***************************************************************************)
LEMMA BootKeeps == IInv /\ Boot => IInv'
  <1> USE LengthsAssumption, TimeAssumption, RespToutAssumption
  <1> SUFFICES ASSUME IInv, Boot PROVE IInv'
    OBVIOUS
  <1> USE DEF IInv
  <1>1. UNCHANGED serialVars /\ pc \in Booting /\ pc' \in Booting \cup {"dir_s"}
    BY DEF Boot, Stack, NetifAdd, EthernetifInit, EmacReset, ResetWait, IdRight,
           IdWrong, LinkWait, EmacEnable, EnableIrq, UdpEchoInit, SetUp, Goto,
           Booting, netVars
  <1>2. TypeOK'
    <2>1. CASE Stack \/ NetifAdd \/ EthernetifInit \/ EmacEnable \/ EnableIrq
               \/ UdpEchoInit
      BY <1>1, <2>1 DEF Stack, NetifAdd, EthernetifInit, EmacEnable, EnableIrq,
           UdpEchoInit, SetUp, Goto, TypeOK, Booting, Looping, Parts, serialVars
    <2>2. CASE EmacReset \/ ResetWait \/ IdRight \/ IdWrong \/ LinkWait
      BY <1>1, <2>2 DEF EmacReset, ResetWait, IdRight, IdWrong, LinkWait, Goto,
           TypeOK, Booting, Looping, BootInv, serialVars, netVars
    <2> QED
      BY <2>1, <2>2 DEF Boot
  <1>3. SerialInv'
    BY <1>1 DEF SerialInv, Booting, Remaining, Holding, serialVars
  <1>4. BootInv'
    <2>1. CASE Stack
      BY <2>1 DEF Stack, SetUp, Goto, BootInv, Looping
    <2>2. CASE NetifAdd \/ EthernetifInit
      BY <2>2 DEF NetifAdd, EthernetifInit, SetUp, Goto, BootInv, Looping
    <2>3. CASE EmacEnable \/ EnableIrq
      BY <2>3 DEF EmacEnable, EnableIrq, SetUp, Goto, BootInv, Looping
    <2>4. CASE UdpEchoInit
      BY <2>4 DEF UdpEchoInit, SetUp, Goto, BootInv, Looping
    <2>5. CASE EmacReset
      BY <2>5 DEF EmacReset, Goto, BootInv, Looping
    <2>6. CASE ResetWait
      BY <2>6 DEF ResetWait, Goto, BootInv, Looping, TypeOK
    <2>7. CASE IdRight \/ IdWrong
      BY <2>7 DEF IdRight, IdWrong, Goto, BootInv, Looping, netVars
    <2>8. CASE LinkWait
      BY <2>8 DEF LinkWait, Goto, BootInv, Looping, TypeOK
    <2> QED
      BY <2>1, <2>2, <2>3, <2>4, <2>5, <2>6, <2>7, <2>8 DEF Boot
  <1> QED
    BY <1>2, <1>3, <1>4

(***************************************************************************)
(* Every step of the announcements keeps the invariant.                    *)
(***************************************************************************)
LEMMA AnnounceKeeps == IInv /\ Announce => IInv'
  <1> USE LengthsAssumption, TimeAssumption, RespToutAssumption
  <1> SUFFICES ASSUME IInv, Announce PROVE IInv'
    OBVIOUS
  <1> USE DEF IInv
  <1>1. UNCHANGED netVars /\ pc \in Looping /\ pc' \in Looping /\ answer' = "none"
    BY DEF Announce, DirSend, StringStart, Delay, DelayEnd, WriteByte,
           StringWritten, StringEnd, Release, Again, Goto, Looping
  <1>2. BootInv'
    BY <1>1 DEF BootInv, Looping, netVars
  <1>3. ASSUME UNCHANGED <<thr, tsr>> PROVE Holding' = Holding /\ Remaining' = Remaining
    BY <1>3 DEF Holding, Remaining
  <1>4. CASE DirSend
    <2>1. TypeOK'
      BY <1>1, <1>4 DEF DirSend, Drive, Goto, TypeOK, Looping, netVars
    <2>2. SerialInv'
      BY <1>4 DEF DirSend, Drive, Goto, SerialInv, Booting
    <2> QED
      BY <1>2, <2>1, <2>2
  <1>5. CASE StringStart
    <2>1. TypeOK'
      BY <1>1, <1>5 DEF StringStart, Drive, Goto, TypeOK, Looping, netVars
    <2>2. SerialInv'
      BY <1>5 DEF StringStart, Drive, Goto, SerialInv, Booting, Holding, TypeOK
    <2> QED
      BY <1>2, <2>1, <2>2
  <1>6. CASE Delay
    <2>1. /\ thr' \in BOOLEAN /\ tsr' \in 0 .. ByteTime /\ out' \in Nat
          /\ thr' => tsr' > 0
          /\ out' + Holding' = out + Holding
          /\ Remaining' = IF tsr = 0 THEN 0 ELSE Remaining - 1
          /\ tsr = 0 => tsr' = 0 /\ out' = out
      BY <1>6, BitShifts DEF SerialInv, Delay
    <2>2. TypeOK'
      BY <1>1, <1>6, <2>1 DEF Delay, TypeOK, netVars
    <2>3. SerialInv'
      <3> USE <1>6 DEF Delay
      <3>1. thr' => tsr' > 0
        BY <2>1
      <3>2. pc' \notin {"byte", "after"} => tsr' = 0
        BY <2>1 DEF SerialInv
      <3>3. pc' = "after" => Remaining' <= wait'
        <4>1. Remaining \in Nat
          BY TypeOK DEF TypeOK, Remaining
        <4> QED
          BY <2>1, <4>1 DEF SerialInv, TypeOK
      <3>4. pc' \in {"before", "byte", "after"} => dir' = "send" /\ pos' = out' + Holding'
        BY <2>1 DEF SerialInv
      <3> QED
        BY <3>1, <3>2, <3>3, <3>4 DEF SerialInv, Booting
    <2> QED
      BY <1>2, <2>2, <2>3
  <1>7. CASE DelayEnd \/ Again
    <2>1. TypeOK'
      BY <1>1, <1>7 DEF DelayEnd, Again, Goto, TypeOK, Looping, netVars, serialVars
    <2>2. SerialInv'
      BY <1>3, <1>7 DEF DelayEnd, Again, Goto, SerialInv, Booting, serialVars
    <2> QED
      BY <1>2, <2>1, <2>2
  <1>8. CASE WriteByte
    <2>1. TypeOK'
      <3>1. thr' \in BOOLEAN /\ tsr' \in 0 .. ByteTime
        <4>1. CASE tsr = 0
          BY <1>8, <4>1 DEF WriteByte, TypeOK
        <4>2. CASE tsr # 0
          <5>1. (thr' = TRUE) /\ tsr' = tsr
            BY <1>8, <4>2 DEF WriteByte
          <5>2. thr' \in BOOLEAN
            BY <5>1, Zenon
          <5> QED
            BY <5>1, <5>2 DEF TypeOK
        <4> QED
          BY <4>1, <4>2
      <3>2. pos' \in Nat /\ pc' \in Looping /\ answer' = "none"
        BY <1>1, <1>8 DEF WriteByte, TypeOK
      <3> QED
        BY <1>1, <1>8, <3>1, <3>2 DEF WriteByte, TypeOK, netVars
    <2>2. SerialInv'
      BY <1>8 DEF WriteByte, Goto, SerialInv, Booting, Holding, TypeOK
    <2> QED
      BY <1>2, <2>1, <2>2
  <1>9. CASE StringWritten
    <2>1. TypeOK'
      BY <1>1, <1>9 DEF StringWritten, Goto, TypeOK, Looping, netVars
    <2>2. Remaining <= DelayTime
      BY DEF Remaining, TypeOK
    <2>3. SerialInv'
      BY <1>3, <1>9, <2>2 DEF StringWritten, Goto, SerialInv, Booting
    <2> QED
      BY <1>2, <2>1, <2>3
  <1>10. CASE StringEnd
    <2>1. tsr = 0 /\ ~thr
      BY <1>10 DEF StringEnd, Goto, SerialInv, Remaining, TypeOK
    <2>2. TypeOK'
      BY <1>1, <1>10 DEF StringEnd, Goto, TypeOK, Looping, netVars
    <2>3. SerialInv'
      BY <1>10, <2>1 DEF StringEnd, Goto, SerialInv, Booting
    <2> QED
      BY <1>2, <2>2, <2>3
  <1>11. CASE Release
    <2>1. TypeOK'
      BY <1>1, <1>11 DEF Release, Goto, TypeOK, Looping, netVars
    <2>2. SerialInv'
      BY <1>11 DEF Release, Goto, SerialInv, Booting
    <2> QED
      BY <1>2, <2>1, <2>2
  <1> QED
    BY <1>4, <1>5, <1>6, <1>7, <1>8, <1>9, <1>10, <1>11 DEF Announce

(***************************************************************************)
(* So do the transmitter, the handler and the PHY.                         *)
(***************************************************************************)
LEMMA OthersKeep ==
  IInv /\ (Shift \/ (\E kind \in DOMAIN Needs : Frame(kind)) \/ PhyReady) => IInv'
  <1> USE LengthsAssumption, TimeAssumption, RespToutAssumption
  <1> USE DEF IInv
  <1>1. ASSUME IInv, Shift PROVE IInv'
    <2>1. /\ thr' \in BOOLEAN /\ tsr' \in 0 .. ByteTime /\ out' \in Nat
          /\ thr' => tsr' > 0
          /\ out' + Holding' = out + Holding
          /\ Remaining' = Remaining - 1
          /\ pc \in {"byte", "after"}
      BY <1>1, BitShifts DEF SerialInv, Shift, TypeOK
    <2>2. TypeOK'
      BY <1>1, <2>1 DEF Shift, TypeOK, netVars
    <2>3. SerialInv'
      <3>1. Remaining \in Nat /\ Remaining' <= Remaining
        <4>1. Remaining \in Nat
          BY <1>1 DEF TypeOK, Remaining
        <4> QED
          BY <2>1, <4>1
      <3>2. pc = "after" => Remaining' <= wait
        BY <1>1, <2>1, <3>1 DEF SerialInv, TypeOK
      <3> QED
        BY <1>1, <2>1, <3>2 DEF Shift, SerialInv, Booting
    <2>4. BootInv'
      BY <1>1 DEF Shift, BootInv, netVars
    <2> QED
      BY <2>2, <2>3, <2>4
  <1>2. ASSUME IInv, NEW kind \in DOMAIN Needs, Frame(kind) PROVE IInv'
    <2>1. TypeOK'
      BY <1>2 DEF Frame, TypeOK, netVars, serialVars
    <2>2. SerialInv'
      BY <1>2 DEF Frame, SerialInv, Remaining, Holding, serialVars
    <2>3. BootInv'
      BY <1>2 DEF Frame, BootInv, netVars
    <2> QED
      BY <2>1, <2>2, <2>3
  <1>3. ASSUME IInv, PhyReady PROVE IInv'
    <2>1. TypeOK'
      BY <1>3 DEF PhyReady, TypeOK, serialVars
    <2>2. SerialInv'
      BY <1>3 DEF PhyReady, SerialInv, Remaining, Holding, serialVars
    <2>3. BootInv'
      BY <1>3 DEF PhyReady, BootInv
    <2> QED
      BY <2>1, <2>2, <2>3
  <1> QED
    BY <1>1, <1>2, <1>3

LEMMA NextKeeps == IInv /\ [Next]_vars => IInv'
  <1> SUFFICES ASSUME IInv, [Next]_vars PROVE IInv'
    OBVIOUS
  <1>1. CASE Boot
    BY <1>1, BootKeeps
  <1>2. CASE Announce
    BY <1>2, AnnounceKeeps
  <1>3. CASE Shift \/ (\E kind \in DOMAIN Needs : Frame(kind)) \/ PhyReady
    BY <1>3, OthersKeep
  <1>4. CASE UNCHANGED vars
    BY <1>4 DEF IInv, TypeOK, SerialInv, BootInv, Remaining, Holding, vars,
                netVars, serialVars
  <1> QED
    BY <1>1, <1>2, <1>3, <1>4 DEF Next

LEMMA Invariance == Spec => []IInv
  BY InitEstablishes, NextKeeps, PTL DEF Spec
-----------------------------------------------------------------------------
(***************************************************************************)
(* The variables keep their types.                                         *)
(***************************************************************************)
THEOREM TypeCorrect == Spec => []TypeOK
  <1>1. IInv => TypeOK
    BY DEF IInv
  <1> QED
    BY <1>1, Invariance, PTL

(***************************************************************************)
(* The bus is driven as long as UART2 sends, if TDelay(10000) lasts at     *)
(* least as long as two bytes.                                             *)
(***************************************************************************)
THEOREM BusDriven == Spec => []DrivenWhileSending
  <1>1. IInv => DrivenWhileSending
    BY DEF IInv, TypeOK, SerialInv, DrivenWhileSending
  <1> QED
    BY <1>1, Invariance, PTL

(***************************************************************************)
(* No string is cut off or misses a byte when the bus is released.         *)
(***************************************************************************)
THEOREM StringsWhole == Spec => WholeStrings
  <1>1. IInv /\ [Next]_vars => [dir = "send" /\ dir' = "receive" => out = Lengths[str]]_vars
    <2> SUFFICES ASSUME IInv, Next, dir = "send", dir' = "receive"
                 PROVE  out = Lengths[str]
      BY DEF vars
    <2>1. pc = "after" /\ wait = 0
      BY DEF Next, Boot, Announce, Stack, NetifAdd, EthernetifInit, EmacReset,
             ResetWait, IdRight, IdWrong, LinkWait, EmacEnable, EnableIrq,
             UdpEchoInit, SetUp, DirSend, StringStart, Drive, Delay, DelayEnd,
             WriteByte, StringWritten, StringEnd, Release, Again, Shift, Frame,
             PhyReady, Goto, serialVars, IInv, SerialInv
    <2>2. Remaining = 0 /\ pos = out + Holding /\ pos = Lengths[str]
      BY <2>1, TimeAssumption DEF IInv, SerialInv, TypeOK, Remaining
    <2> QED
      BY <2>2, TimeAssumption DEF IInv, TypeOK, Remaining, Holding
  <1> QED
    BY <1>1, Invariance, PTL DEF Spec, WholeStrings

(***************************************************************************)
(* Interrupts are enabled only when the handler finds all it uses, and in  *)
(* main's loop it drops nothing for want of set-up.                        *)
(***************************************************************************)
THEOREM HandlerReady == Spec => HandlerFindsAll
  <1> DEFINE A == answer' # answer =>
                    /\ answer' # "broken"
                    /\ pc \in Looping => answer' # "dropped"
  <1>1. IInv /\ [Next]_vars => [A]_vars
    <2> SUFFICES ASSUME IInv, Next PROVE A
      BY DEF vars
    <2>1. ASSUME NEW kind \in DOMAIN Needs, Frame(kind) PROVE A
      <3>1. Uses \subseteq ready
        BY <2>1 DEF Frame, Uses, IInv, BootInv, Looping
      <3>2. pc \in Looping => Needs[kind] \subseteq ready
        BY <2>1 DEF Needs, IInv, BootInv, Looping
      <3> QED
        BY <2>1, <3>1, <3>2 DEF Frame
    <2>2. CASE Boot \/ Announce
      <3>1. answer' = "none"
        BY <2>2 DEF Boot, Announce, Stack, NetifAdd, EthernetifInit, EmacReset,
             ResetWait, IdRight, IdWrong, LinkWait, EmacEnable, EnableIrq,
             UdpEchoInit, SetUp, DirSend, StringStart, Delay, DelayEnd,
             WriteByte, StringWritten, StringEnd, Release, Again, Goto
      <3> QED
        BY <3>1
    <2>3. CASE Shift \/ PhyReady
      BY <2>3 DEF Shift, PhyReady
    <2> QED
      BY <2>1, <2>2, <2>3 DEF Next
  <1> QED
    BY <1>1, Invariance, PTL DEF Spec, HandlerFindsAll
=============================================================================
