------------------------------ MODULE PbufProofs ------------------------------
(***************************************************************************)
(* Proofs about Pbuf, for any number of pbufs of each kind and any lengths *)
(* of packets.                                                             *)
(***************************************************************************)
EXTENDS Pbuf, FiniteSetTheorems, WellFoundedInduction, TLAPS

(***************************************************************************)
(* What the proof needs of the types.                                      *)
(***************************************************************************)
FieldsOK ==
  /\ live \subseteq Bufs
  /\ next \in [Bufs -> Bufs \cup {NULL}]
  /\ ref \in [Bufs -> Nat]
  /\ len \in [Bufs -> Nat]
  /\ tot \in [Bufs -> Nat]
  /\ room \in [Bufs -> Nat]
  /\ held \in [Bufs -> Nat]

(***************************************************************************)
(* Links end: any pbufs, taken together, have one that links out of them.  *)
(***************************************************************************)
Acyclic == \A T \in SUBSET Bufs : T # {} => \E q \in T : next[q] \notin T

(***************************************************************************)
(* Links lead from live pbufs to live ones.                                *)
(***************************************************************************)
LinksLive ==
  /\ \A q \in live : next[q] # NULL => next[q] \in live
  /\ \A q \in Bufs \ live : next[q] = NULL /\ held[q] = 0

(***************************************************************************)
(* A live pbuf is referred to.                                             *)
(***************************************************************************)
Referred == \A q \in live : ref[q] > 0

Chained == FieldsOK /\ Acyclic /\ LinksLive

IInv == Chained /\ Referred /\ RefsCounted /\ TotalsAdd
-----------------------------------------------------------------------------
(***************************************************************************)
(* The recursive functions that follow next.                               *)
(***************************************************************************)
LEMMA Constants ==
  /\ IsFiniteSet(Bufs) /\ NULL \notin Bufs
  /\ BufSize \in Nat /\ BufSize > 1
  /\ \A n \in Lengths : n \in Nat /\ n > 0
  BY BufsAssumption, BufSizeAssumption, LengthsAssumption
  DEF BufsAssumption, BufSizeAssumption, LengthsAssumption

LEMMA SubsetsWellFounded ==
  ASSUME NEW T, IsFiniteSet(T), NEW bad, bad \subseteq SUBSET T, bad # {}
  PROVE  \E s \in bad : \A r \in bad : ~(r \subseteq s /\ r # s)
  <1>1. IsWellFoundedOn(StrictSubsetOrdering(T), SUBSET T)
    <2>1. IsWellFoundedOn(StrictSubsetOrdering(T), FiniteSubsetsOf(T))
      BY FS_StrictSubsetOrderingWellFounded
    <2>2. FiniteSubsetsOf(T) = SUBSET T
      BY FS_FiniteSubsetsOfFinite
    <2> QED
      BY <2>1, <2>2
  <1>2. PICK s \in bad :
          \A r \in bad : ~(<<r, s>> \in StrictSubsetOrdering(T))
    BY <1>1, WFMin
  <1>3. ASSUME NEW r \in bad, r \subseteq s, r # s PROVE FALSE
    <2>1. <<r, s>> \in StrictSubsetOrdering(T)
      BY <1>3 DEF StrictSubsetOrdering
    <2> QED
      BY <1>2, <2>1
  <1> QED
    BY <1>3

(***************************************************************************)
(* If the rest of any set of pbufs that is closed under next can be        *)
(* extended by one more, all pbufs can be reached so: what can be defined  *)
(* pbuf by pbuf against the links is defined for all.                      *)
(***************************************************************************)
LEMMA AllReached ==
  ASSUME NEW good, good \subseteq SUBSET Bufs, good # {},
         \A C \in good : C # Bufs =>
           \E D \in good : C \subseteq D /\ C # D
  PROVE  Bufs \in good
  <1> DEFINE rest == {Bufs \ C : C \in good}
  <1>1. rest \subseteq SUBSET Bufs /\ rest # {} /\ IsFiniteSet(Bufs)
    <2>1. \A C \in good : Bufs \ C \in SUBSET Bufs
      OBVIOUS
    <2>2. PICK C \in good : TRUE
      OBVIOUS
    <2>3. Bufs \ C \in rest
      OBVIOUS
    <2>4. rest \subseteq SUBSET Bufs
      BY <2>1
    <2> HIDE DEF rest
    <2> QED
      BY <2>3, <2>4, Constants
  <1>2. PICK s \in rest : \A r \in rest : ~(r \subseteq s /\ r # s)
    <2> HIDE DEF rest
    <2> QED
      BY <1>1, SubsetsWellFounded
  <1>3. PICK C \in good : s = Bufs \ C
    BY <1>2
  <1>4. SUFFICES ASSUME C # Bufs PROVE FALSE
    OBVIOUS
  <1>5. PICK D \in good : C \subseteq D /\ C # D
    BY <1>4
  <1>6. Bufs \ D \in rest /\ Bufs \ D \subseteq s /\ Bufs \ D # s
    <2>1. C \subseteq Bufs /\ D \subseteq Bufs
      OBVIOUS
    <2> QED
      BY <1>3, <1>5, <2>1
  <1> QED
    BY <1>2, <1>6

(* The pbufs of C link to one another, or to none. *)
Closed(C) == \A q \in C : next[q] # NULL => next[q] \in C

LEMMA OneMore ==
  ASSUME Chained, NEW C \in SUBSET Bufs, C # Bufs, Closed(C)
  PROVE  \E q \in Bufs \ C : next[q] \in C \cup {NULL} /\ Closed(C \cup {q})
  <1>1. PICK q \in Bufs \ C : next[q] \notin Bufs \ C
    <2>1. Bufs \ C \in SUBSET Bufs /\ Bufs \ C # {}
      OBVIOUS
    <2> QED
      BY <2>1 DEF Chained, Acyclic
  <1>2. next[q] \in C \cup {NULL}
    BY <1>1 DEF Chained, FieldsOK
  <1> QED
    BY <1>2 DEF Closed

(* The pbufs from q to the end of the packet. *)
SequelStep(s) ==
  [q \in Bufs \cup {NULL} |-> IF q = NULL THEN <<>> ELSE <<q>> \o s[next[q]]]

LEMMA SequelIs ==
  ASSUME Chained
  PROVE  /\ Sequel(NULL) = <<>>
         /\ \A q \in Bufs : Sequel(q) = <<q>> \o Sequel(next[q])
  <1> DEFINE Solves(C, f) ==
               /\ f[NULL] = <<>>
               /\ \A q \in C : f[q] = <<q>> \o f[next[q]]
             good == {C \in SUBSET Bufs :
                        /\ Closed(C)
                        /\ \E f : /\ f = [q \in Bufs \cup {NULL} |-> f[q]]
                                  /\ Solves(C, f)}
  <1>1. {} \in good
    <2>1. Closed({})
      BY DEF Closed
    <2> DEFINE f == [q \in Bufs \cup {NULL} |-> <<>>]
    <2>2. f = [q \in Bufs \cup {NULL} |-> f[q]] /\ Solves({}, f)
      OBVIOUS
    <2> QED
      BY <2>1, <2>2
  <1>2. ASSUME NEW C \in good, C # Bufs
        PROVE  \E D \in good : C \subseteq D /\ C # D
    <2>1. PICK f : f = [q \in Bufs \cup {NULL} |-> f[q]] /\ Solves(C, f)
      OBVIOUS
    <2>2. PICK q \in Bufs \ C : next[q] \in C \cup {NULL} /\ Closed(C \cup {q})
      BY <1>2, OneMore
    <2> DEFINE g == [x \in Bufs \cup {NULL} |->
                       IF x = q THEN <<q>> \o f[next[q]] ELSE f[x]]
    <2>3. NULL # q /\ next[q] # q
      BY <2>2, Constants
    <2>4. g = [x \in Bufs \cup {NULL} |-> g[x]]
      OBVIOUS
    <2>5. g[NULL] = <<>>
      BY <2>1, <2>3
    <2>6. ASSUME NEW x \in C \cup {q} PROVE g[x] = <<x>> \o g[next[x]]
      <3>1. CASE x = q
        <4>1. g[q] = <<q>> \o f[next[q]] /\ g[next[q]] = f[next[q]]
          BY <2>2, <2>3
        <4> QED
          BY <3>1, <4>1
      <3>2. CASE x \in C
        <4>1. next[x] \in C \cup {NULL}
          <5>1. Closed(C)
            OBVIOUS
          <5> QED
            BY <3>2, <5>1 DEF Closed
        <4>2. x # q /\ next[x] # q
          BY <2>2, <2>3, <3>2, <4>1
        <4>3. g[x] = f[x] /\ g[next[x]] = f[next[x]] /\ f[x] = <<x>> \o f[next[x]]
          BY <2>1, <3>2, <4>1, <4>2
        <4> QED
          BY <4>3
      <3> QED
        BY <3>1, <3>2
    <2> HIDE DEF g
    <2>7. Solves(C \cup {q}, g)
      BY <2>5, <2>6
    <2>8. C \cup {q} \in good
      BY <2>2, <2>4, <2>7
    <2> HIDE DEF good
    <2> QED
      BY <2>2, <2>8
  <1>3. Bufs \in good
    <2>1. good \subseteq SUBSET Bufs
      OBVIOUS
    <2> HIDE DEF good
    <2> QED
      BY <1>1, <1>2, <2>1, AllReached
  <1>4. PICK f : f = [q \in Bufs \cup {NULL} |-> f[q]] /\ Solves(Bufs, f)
    BY <1>3
  <1> DEFINE s == CHOOSE s : s = SequelStep(s)
  <1>5. f = SequelStep(f)
    <2>1. \A q \in Bufs \cup {NULL} :
            f[q] = IF q = NULL THEN <<>> ELSE <<q>> \o f[next[q]]
      BY <1>4
    <2> QED
      BY <1>4, <2>1 DEF SequelStep
  <1>6. s = SequelStep(s)
    BY <1>5
  <1>7. \A q : Sequel(q) = s[q]
    BY DEF Sequel, SequelStep
  <1> HIDE DEF s
  <1>8. s[NULL] = <<>> /\ \A q \in Bufs : s[q] = <<q>> \o s[next[q]]
    BY <1>6, Constants DEF SequelStep
  <1> QED
    BY <1>7, <1>8

(* The pbufs that are given back from q on. *)
DeallocStep(d) ==
  [q \in Bufs \cup {NULL} |->
     IF q = NULL THEN {} ELSE IF ref[q] > 1 THEN {} ELSE {q} \cup d[next[q]]]

LEMMA DeallocIs ==
  ASSUME Chained
  PROVE  /\ Dealloc(NULL) = {}
         /\ \A q \in Bufs : Dealloc(q) = IF ref[q] > 1 THEN {}
                                         ELSE {q} \cup Dealloc(next[q])
  <1> DEFINE Solves(C, f) ==
               /\ f[NULL] = {}
               /\ \A q \in C : f[q] = IF ref[q] > 1 THEN {}
                                      ELSE {q} \cup f[next[q]]
             good == {C \in SUBSET Bufs :
                        /\ Closed(C)
                        /\ \E f : /\ f = [q \in Bufs \cup {NULL} |-> f[q]]
                                  /\ Solves(C, f)}
  <1>1. {} \in good
    <2>1. Closed({})
      BY DEF Closed
    <2> DEFINE f == [q \in Bufs \cup {NULL} |-> {}]
    <2>2. f = [q \in Bufs \cup {NULL} |-> f[q]] /\ Solves({}, f)
      OBVIOUS
    <2> QED
      BY <2>1, <2>2
  <1>2. ASSUME NEW C \in good, C # Bufs
        PROVE  \E D \in good : C \subseteq D /\ C # D
    <2>1. PICK f : f = [q \in Bufs \cup {NULL} |-> f[q]] /\ Solves(C, f)
      OBVIOUS
    <2>2. PICK q \in Bufs \ C : next[q] \in C \cup {NULL} /\ Closed(C \cup {q})
      BY <1>2, OneMore
    <2> DEFINE g == [x \in Bufs \cup {NULL} |->
                       IF x = q THEN IF ref[q] > 1 THEN {}
                                     ELSE {q} \cup f[next[q]]
                       ELSE f[x]]
    <2>3. NULL # q /\ next[q] # q
      BY <2>2, Constants
    <2>4. g = [x \in Bufs \cup {NULL} |-> g[x]]
      OBVIOUS
    <2>5. g[NULL] = {}
      BY <2>1, <2>3
    <2>6. ASSUME NEW x \in C \cup {q}
          PROVE  g[x] = IF ref[x] > 1 THEN {} ELSE {x} \cup g[next[x]]
      <3>1. CASE x = q
        <4>1. g[q] = (IF ref[q] > 1 THEN {} ELSE {q} \cup f[next[q]])
              /\ g[next[q]] = f[next[q]]
          BY <2>2, <2>3
        <4> QED
          BY <3>1, <4>1
      <3>2. CASE x \in C
        <4>1. next[x] \in C \cup {NULL}
          <5>1. Closed(C)
            OBVIOUS
          <5> QED
            BY <3>2, <5>1 DEF Closed
        <4>2. x # q /\ next[x] # q
          BY <2>2, <2>3, <3>2, <4>1
        <4>3. /\ g[x] = f[x] /\ g[next[x]] = f[next[x]]
              /\ f[x] = IF ref[x] > 1 THEN {} ELSE {x} \cup f[next[x]]
          BY <2>1, <3>2, <4>1, <4>2
        <4> QED
          BY <4>3
      <3> QED
        BY <3>1, <3>2
    <2> HIDE DEF g
    <2>7. Solves(C \cup {q}, g)
      BY <2>5, <2>6
    <2>8. C \cup {q} \in good
      BY <2>2, <2>4, <2>7
    <2> HIDE DEF good
    <2> QED
      BY <2>2, <2>8
  <1>3. Bufs \in good
    <2>1. good \subseteq SUBSET Bufs
      OBVIOUS
    <2> HIDE DEF good
    <2> QED
      BY <1>1, <1>2, <2>1, AllReached
  <1>4. PICK f : f = [q \in Bufs \cup {NULL} |-> f[q]] /\ Solves(Bufs, f)
    BY <1>3
  <1> DEFINE d == CHOOSE d : d = DeallocStep(d)
  <1>5. f = DeallocStep(f)
    <2>1. \A q \in Bufs \cup {NULL} :
            f[q] = IF q = NULL THEN {}
                   ELSE IF ref[q] > 1 THEN {} ELSE {q} \cup f[next[q]]
      BY <1>4
    <2> QED
      BY <1>4, <2>1 DEF DeallocStep
  <1>6. d = DeallocStep(d)
    BY <1>5
  <1>7. \A q : Dealloc(q) = d[q]
    BY DEF Dealloc, DeallocStep
  <1> HIDE DEF d
  <1>8. d[NULL] = {} /\ \A q \in Bufs : d[q] = IF ref[q] > 1 THEN {}
                                               ELSE {q} \cup d[next[q]]
    BY <1>6, Constants DEF DeallocStep
  <1> QED
    BY <1>7, <1>8
-----------------------------------------------------------------------------
(***************************************************************************)
(* Packets: the pbufs reached from one by its links, and the last of them. *)
(***************************************************************************)

(***************************************************************************)
(* To show a fact of every pbuf, show it where it holds for the next one.  *)
(***************************************************************************)
LEMMA Lowest ==
  ASSUME Chained, NEW bad, bad \subseteq Bufs, bad # {}
  PROVE  \E q \in bad : next[q] \in (Bufs \ bad) \cup {NULL}
  BY DEF Chained, Acyclic, FieldsOK

LEMMA SequelSeq ==
  ASSUME Chained, NEW p \in Bufs \cup {NULL}
  PROVE  Sequel(p) \in Seq(Bufs)
  <1> DEFINE bad == {q \in Bufs : Sequel(q) \notin Seq(Bufs)}
  <1>1. Sequel(NULL) \in Seq(Bufs)
    BY SequelIs
  <1>2. SUFFICES ASSUME bad # {} PROVE FALSE
    BY <1>1
  <1>3. PICK q \in bad : next[q] \in (Bufs \ bad) \cup {NULL}
    <2>1. bad \subseteq Bufs
      OBVIOUS
    <2> HIDE DEF bad
    <2> QED
      BY <1>2, <2>1, Lowest
  <1>4. Sequel(next[q]) \in Seq(Bufs)
    BY <1>1, <1>3
  <1>5. <<q>> \in Seq(Bufs)
    OBVIOUS
  <1>6. Sequel(q) = <<q>> \o Sequel(next[q])
    BY SequelIs
  <1>7. Sequel(q) \in Seq(Bufs)
    BY <1>4, <1>5, <1>6
  <1> QED
    BY <1>7

LEMMA PacketIs ==
  ASSUME Chained
  PROVE  /\ Packet(NULL) = {}
         /\ \A q \in Bufs : /\ Packet(q) \subseteq Bufs
                            /\ Packet(q) = {q} \cup Packet(next[q])
                            /\ LastOf(q) = IF next[q] = NULL THEN q
                                           ELSE LastOf(next[q])
  <1>1. Packet(NULL) = {}
    BY SequelIs DEF Packet, ToSet
  <1>2. ASSUME NEW q \in Bufs
        PROVE  /\ Packet(q) \subseteq Bufs
               /\ Packet(q) = {q} \cup Packet(next[q])
               /\ LastOf(q) = IF next[q] = NULL THEN q ELSE LastOf(next[q])
    <2> DEFINE s == Sequel(q)
               t == Sequel(next[q])
    <2>1. s = <<q>> \o t /\ s \in Seq(Bufs) /\ t \in Seq(Bufs)
      <3>1. next[q] \in Bufs \cup {NULL}
        BY DEF Chained, FieldsOK
      <3> QED
        BY <3>1, SequelIs, SequelSeq
    <2>2. next[q] = NULL => t = <<>>
      BY SequelIs
    <2>3. next[q] # NULL => t # <<>>
      <3>1. next[q] # NULL => t = <<next[q]>> \o Sequel(next[next[q]])
                              /\ Sequel(next[next[q]]) \in Seq(Bufs)
        <4>1. next[q] # NULL => /\ next[q] \in Bufs
                                /\ next[next[q]] \in Bufs \cup {NULL}
          BY DEF Chained, FieldsOK
        <4> QED
          BY <4>1, SequelIs, SequelSeq
      <3> QED
        BY <3>1
    <2>4. Packet(q) = ToSet(s) /\ Packet(next[q]) = ToSet(t)
          /\ LastOf(q) = Last(s) /\ LastOf(next[q]) = Last(t)
      BY DEF Packet, LastOf
    <2> HIDE DEF s, t
    <2>5. /\ Len(s) = Len(t) + 1 /\ s[1] = q /\ Len(t) \in Nat
          /\ \A i \in 1 .. Len(t) : s[i + 1] = t[i]
          /\ \A i \in 2 .. Len(s) : s[i] = t[i - 1]
          /\ DOMAIN s = 1 .. Len(s) /\ DOMAIN t = 1 .. Len(t)
      BY <2>1
    <2>6. ToSet(s) = {q} \cup ToSet(t)
      <3>1. ASSUME NEW x \in ToSet(s) PROVE x \in {q} \cup ToSet(t)
        <4>1. PICK i \in 1 .. Len(s) : x = s[i]
          BY <2>5 DEF ToSet
        <4>2. CASE i = 1
          BY <2>5, <4>1, <4>2
        <4>3. CASE i # 1
          <5>1. i \in 2 .. Len(s) /\ i - 1 \in 1 .. Len(t)
            BY <2>5, <4>3
          <5> QED
            BY <2>5, <4>1, <5>1 DEF ToSet
        <4> QED
          BY <4>2, <4>3
      <3>2. q \in ToSet(s)
        BY <2>5 DEF ToSet
      <3>3. ASSUME NEW x \in ToSet(t) PROVE x \in ToSet(s)
        <4>1. PICK i \in 1 .. Len(t) : x = t[i]
          BY <2>5 DEF ToSet
        <4>2. i + 1 \in 1 .. Len(s) /\ s[i + 1] = x
          BY <2>5, <4>1
        <4> QED
          BY <2>5, <4>2 DEF ToSet
      <3> QED
        BY <3>1, <3>2, <3>3
    <2>7. ToSet(s) \subseteq Bufs
      BY <2>1 DEF ToSet
    <2>8. Last(s) = IF t = <<>> THEN q ELSE Last(t)
      <3>1. CASE t = <<>>
        <4>1. Len(s) = 1
          BY <2>5, <3>1
        <4> QED
          BY <2>5, <3>1, <4>1 DEF Last
      <3>2. CASE t # <<>>
        <4>1. Len(t) \in 1 .. Len(t)
          BY <2>1, <3>2
        <4>2. s[Len(s)] = t[Len(t)]
          BY <2>5, <4>1
        <4> QED
          BY <3>2, <4>2 DEF Last
      <3> QED
        BY <3>1, <3>2
    <2> QED
      BY <2>2, <2>3, <2>4, <2>6, <2>7, <2>8
  <1> QED
    BY <1>1, <1>2

LEMMA NextOf ==
  ASSUME Chained, NEW q \in Bufs
  PROVE  next[q] \in Bufs \cup {NULL}
  BY DEF Chained, FieldsOK

LEMMA PacketClosed ==
  ASSUME Chained, NEW p \in Bufs, NEW q \in Packet(p), next[q] # NULL
  PROVE  next[q] \in Packet(p)
  <1> DEFINE bad == {x \in Bufs : \E u \in Packet(x) :
                                    next[u] # NULL /\ next[u] \notin Packet(x)}
  <1>1. SUFFICES ASSUME bad # {} PROVE FALSE
    OBVIOUS
  <1>2. PICK x \in bad : next[x] \in (Bufs \ bad) \cup {NULL}
    <2>1. bad \subseteq Bufs
      OBVIOUS
    <2> HIDE DEF bad
    <2> QED
      BY <1>1, <2>1, Lowest
  <1>3. PICK u \in Packet(x) : next[u] # NULL /\ next[u] \notin Packet(x)
    OBVIOUS
  <1>4. Packet(x) = {x} \cup Packet(next[x])
    BY PacketIs
  <1>5. CASE u = x
    <2>1. next[x] \in Bufs
      BY <1>3, <1>5, NextOf
    <2>2. next[x] \in Packet(next[x])
      BY <2>1, PacketIs
    <2> QED
      BY <1>3, <1>4, <1>5, <2>2
  <1>6. CASE u # x
    <2>1. u \in Packet(next[x])
      BY <1>4, <1>6
    <2>2. next[x] # NULL
      BY <2>1, PacketIs
    <2>3. next[x] \in Bufs \ bad
      BY <1>2, <2>2
    <2>4. next[u] \in Packet(next[x])
      BY <1>3, <2>1, <2>3
    <2> QED
      BY <1>3, <1>4, <2>4
  <1> QED
    BY <1>5, <1>6

(***************************************************************************)
(* What is closed under next holds the packet of each of its pbufs.        *)
(***************************************************************************)
LEMMA PacketWithin ==
  ASSUME Chained, NEW C \in SUBSET Bufs, Closed(C), NEW p \in C
  PROVE  Packet(p) \subseteq C
  <1> DEFINE bad == {x \in C : ~ (Packet(x) \subseteq C)}
  <1>1. SUFFICES ASSUME bad # {} PROVE FALSE
    OBVIOUS
  <1>2. PICK x \in bad : next[x] \in (Bufs \ bad) \cup {NULL}
    <2>1. bad \subseteq Bufs
      OBVIOUS
    <2> HIDE DEF bad
    <2> QED
      BY <1>1, <2>1, Lowest
  <1>3. x \in C /\ x \in Bufs /\ ~ (Packet(x) \subseteq C)
    OBVIOUS
  <1>4. Packet(x) = {x} \cup Packet(next[x]) /\ Packet(NULL) = {}
    BY <1>3, PacketIs
  <1>5. next[x] # NULL
    BY <1>3, <1>4
  <1>6. next[x] \in C
    BY <1>3, <1>5 DEF Closed
  <1>7. Packet(next[x]) \subseteq C
    BY <1>2, <1>5, <1>6
  <1> QED
    BY <1>3, <1>4, <1>7

LEMMA PacketLive ==
  ASSUME Chained, NEW p \in live
  PROVE  Packet(p) \subseteq live
  <1>1. live \in SUBSET Bufs /\ Closed(live)
    BY DEF Chained, FieldsOK, LinksLive, Closed
  <1> QED
    BY <1>1, PacketWithin

LEMMA PacketTransitive ==
  ASSUME Chained, NEW p \in Bufs, NEW q \in Packet(p)
  PROVE  Packet(q) \subseteq Packet(p)
  <1>1. Packet(p) \in SUBSET Bufs
    BY PacketIs
  <1>2. Closed(Packet(p))
    BY PacketClosed DEF Closed
  <1> QED
    BY <1>1, <1>2, PacketWithin

(***************************************************************************)
(* A pbuf does not come again after itself.                                *)
(***************************************************************************)
LEMMA NotAfterItself ==
  ASSUME Chained, NEW q \in Bufs
  PROVE  q \notin Packet(next[q])
  <1>1. SUFFICES ASSUME q \in Packet(next[q]) PROVE FALSE
    OBVIOUS
  <1>2. next[q] \in Bufs
    BY <1>1, NextOf, PacketIs
  <1> DEFINE T == {u \in Packet(next[q]) : q \in Packet(u)}
  <1>3. T \in SUBSET Bufs /\ next[q] \in T
    <2>1. Packet(next[q]) \subseteq Bufs /\ next[q] \in Packet(next[q])
      BY <1>2, PacketIs
    <2> QED
      BY <1>1, <2>1
  <1>4. PICK u \in T : next[u] \notin T
    <2> HIDE DEF T
    <2> QED
      BY <1>3 DEF Chained, Acyclic
  <1>5. u \in Bufs /\ u \in Packet(next[q]) /\ q \in Packet(u)
    BY <1>3
  <1>6. u # q
    BY <1>3, <1>4
  <1>7. q \in Packet(next[u])
    BY <1>5, <1>6, PacketIs
  <1>8. next[u] # NULL
    BY <1>7, PacketIs
  <1>9. next[u] \in Packet(next[q])
    BY <1>2, <1>5, <1>8, PacketClosed
  <1> QED
    BY <1>4, <1>7, <1>9

(***************************************************************************)
(* The last pbuf is the one without a link.                                *)
(***************************************************************************)
LEMMA LastIs ==
  ASSUME Chained, NEW p \in Bufs
  PROVE  /\ LastOf(p) \in Packet(p) /\ next[LastOf(p)] = NULL
         /\ \A q \in Packet(p) : next[q] = NULL => q = LastOf(p)
  <1> DEFINE Ok(x) == /\ LastOf(x) \in Packet(x) /\ next[LastOf(x)] = NULL
                      /\ \A q \in Packet(x) : next[q] = NULL => q = LastOf(x)
             bad == {x \in Bufs : ~Ok(x)}
  <1>1. SUFFICES ASSUME bad # {} PROVE FALSE
    OBVIOUS
  <1>2. PICK x \in bad : next[x] \in (Bufs \ bad) \cup {NULL}
    <2>1. bad \subseteq Bufs
      OBVIOUS
    <2> HIDE DEF bad
    <2> QED
      BY <1>1, <2>1, Lowest
  <1>3. /\ x \in Bufs /\ Packet(x) = {x} \cup Packet(next[x])
        /\ LastOf(x) = IF next[x] = NULL THEN x ELSE LastOf(next[x])
        /\ Packet(NULL) = {}
    BY PacketIs
  <1>4. CASE next[x] = NULL
    <2>1. Ok(x)
      BY <1>3, <1>4
    <2> QED
      BY <2>1
  <1>5. CASE next[x] # NULL
    <2>1. Ok(next[x])
      BY <1>2, <1>5
    <2>2. Ok(x)
      BY <1>3, <1>5, <2>1
    <2> QED
      BY <2>2
  <1> QED
    BY <1>4, <1>5
-----------------------------------------------------------------------------
(***************************************************************************)
(* What pbuf_free gives back is a part of the packet from its start, all   *)
(* of it referred to once; only its last pbuf links on.                    *)
(***************************************************************************)
LEMMA DeallocPath ==
  ASSUME Chained, NEW x \in Bufs
  PROVE  LET gone == Dealloc(x)
         IN  /\ gone \subseteq Packet(x)
             /\ \A d \in gone : ~(ref[d] > 1)
             /\ ~(ref[x] > 1) => x \in gone
             /\ gone # {} => x \in gone
             /\ \A d \in gone \ {x} : \E e \in gone : next[e] = d
             /\ \A d \in gone : \/ next[d] \in gone \cup {NULL}
                                \/ ref[next[d]] > 1
             /\ \A d, e \in gone : next[d] \notin gone /\ next[e] \notin gone
                                     => d = e
  <1> DEFINE Ok(y) ==
               /\ Dealloc(y) \subseteq Packet(y)
               /\ \A d \in Dealloc(y) : ~(ref[d] > 1)
               /\ ~(ref[y] > 1) => y \in Dealloc(y)
               /\ Dealloc(y) # {} => y \in Dealloc(y)
               /\ \A d \in Dealloc(y) \ {y} : \E e \in Dealloc(y) : next[e] = d
               /\ \A d \in Dealloc(y) : \/ next[d] \in Dealloc(y) \cup {NULL}
                                        \/ ref[next[d]] > 1
               /\ \A d, e \in Dealloc(y) :
                    next[d] \notin Dealloc(y) /\ next[e] \notin Dealloc(y)
                      => d = e
             bad == {y \in Bufs : ~Ok(y)}
  <1>1. SUFFICES ASSUME bad # {} PROVE FALSE
    OBVIOUS
  <1>2. PICK y \in bad : next[y] \in (Bufs \ bad) \cup {NULL}
    <2>1. bad \subseteq Bufs
      OBVIOUS
    <2> HIDE DEF bad
    <2> QED
      BY <1>1, <2>1, Lowest
  <1>3. y \in Bufs /\ ~Ok(y)
    OBVIOUS
  <1> DEFINE z == next[y]
  <1>4. /\ Packet(y) = {y} \cup Packet(z)
        /\ y \notin Packet(z) /\ Dealloc(NULL) = {}
        /\ Dealloc(y) = IF ref[y] > 1 THEN {} ELSE {y} \cup Dealloc(z)
    BY <1>3, PacketIs, NotAfterItself, DeallocIs
  <1>5. CASE ref[y] > 1
    <2>1. Dealloc(y) = {}
      BY <1>4, <1>5
    <2>2. Ok(y)
      BY <1>5, <2>1
    <2> QED
      BY <1>3, <2>2
  <1>6. CASE ~(ref[y] > 1) /\ Dealloc(z) = {}
    <2>1. Dealloc(y) = {y}
      BY <1>4, <1>6
    <2>2. z = NULL \/ ref[z] > 1
      <3>1. z # NULL => z \in Bufs /\ Ok(z)
        BY <1>2
      <3> QED
        BY <1>6, <3>1
    <2>3. Ok(y)
      BY <1>4, <1>6, <2>1, <2>2
    <2> QED
      BY <1>3, <2>3
  <1>7. CASE ~(ref[y] > 1) /\ Dealloc(z) # {}
    <2>1. z # NULL
      BY <1>4, <1>7
    <2>2. Ok(z)
      BY <1>2, <2>1
    <2> DEFINE rest == Dealloc(z)
    <2>3. /\ Dealloc(y) = {y} \cup rest /\ z \in rest /\ y \notin rest
      BY <1>4, <1>7, <2>2
    <2>4. /\ rest \subseteq Packet(z)
          /\ \A d \in rest : ~(ref[d] > 1)
          /\ \A d \in rest \ {z} : \E e \in rest : next[e] = d
          /\ \A d \in rest : next[d] \in rest \cup {NULL} \/ ref[next[d]] > 1
          /\ \A d, e \in rest : next[d] \notin rest /\ next[e] \notin rest
                                  => d = e
      BY <2>2
    <2> HIDE DEF rest, Ok
    <2> DEFINE more == {y} \cup rest
    <2>5. more \subseteq Packet(y)
      BY <1>4, <2>4
    <2>6. \A d \in more : ~(ref[d] > 1)
      BY <1>7, <2>4
    <2>7. \A d \in more \ {y} : \E e \in more : next[e] = d
      <3>1. next[y] = z
        OBVIOUS
      <3> HIDE DEF z
      <3> QED
        BY <2>4, <3>1
    <2>8. \A d \in more : next[d] \in more \cup {NULL} \/ ref[next[d]] > 1
      BY <2>3, <2>4
    <2>9. ASSUME NEW d \in more, NEW e \in more,
                 next[d] \notin more, next[e] \notin more
          PROVE  d = e
      <3>1. d # y /\ e # y
        BY <2>3, <2>9
      <3>2. d \in rest /\ e \in rest /\ next[d] \notin rest /\ next[e] \notin rest
        BY <2>9, <3>1
      <3> QED
        BY <2>4, <3>2
    <2>10. Dealloc(y) = more /\ y \in more
      BY <2>3
    <2> HIDE DEF more
    <2>11. Ok(y)
      BY <2>5, <2>6, <2>7, <2>8, <2>9, <2>10 DEF Ok
    <2> QED
      BY <1>3, <2>11
  <1> QED
    BY <1>5, <1>6, <1>7

LEMMA SurvivorIs ==
  ASSUME Chained, NEW x \in Bufs, NEW q \in Bufs
  PROVE  q \in Survivor(x) <=>
           /\ q \notin Dealloc(x)
           /\ q = x \/ \E d \in Dealloc(x) : next[d] = q
  <1>1. x \in Packet(x)
    BY PacketIs
  <1>2. ASSUME NEW d \in Dealloc(x), next[d] = q PROVE q \in Packet(x)
    <2>1. d \in Packet(x)
      BY DeallocPath
    <2>2. next[d] # NULL
      BY <1>2, Constants
    <2> QED
      BY <1>2, <2>1, <2>2, PacketClosed
  <1> QED
    BY <1>1, <1>2 DEF Survivor

LEMMA NothingFreed ==
  ASSUME Chained
  PROVE  Dealloc(NULL) = {} /\ Survivor(NULL) = {}
  BY DeallocIs, PacketIs DEF Survivor

(***************************************************************************)
(* References, counted.                                                    *)
(***************************************************************************)
LEMMA LinksFinite ==
  ASSUME FieldsOK, NEW q
  PROVE  IsFiniteSet(LinkedTo(q)) /\ Cardinality(LinkedTo(q)) \in Nat
  <1>1. LinkedTo(q) \subseteq Bufs
    BY DEF LinkedTo, FieldsOK
  <1>2. IsFiniteSet(LinkedTo(q))
    BY <1>1, Constants, FS_Subset
  <1> QED
    BY <1>2, FS_CardinalityType

LEMMA OnlyLink ==
  ASSUME IInv, NEW q \in live, ~(ref[q] > 1), NEW e \in LinkedTo(q)
  PROVE  held[q] = 0 /\ LinkedTo(q) = {e}
  <1>1. /\ FieldsOK /\ q \in Bufs /\ ref[q] \in Nat /\ held[q] \in Nat
        /\ ref[q] = held[q] + Cardinality(LinkedTo(q))
    BY DEF IInv, Chained, FieldsOK, RefsCounted
  <1>2. IsFiniteSet(LinkedTo(q)) /\ Cardinality(LinkedTo(q)) \in Nat
    BY <1>1, LinksFinite
  <1>3. /\ IsFiniteSet(LinkedTo(q) \ {e})
        /\ Cardinality(LinkedTo(q) \ {e}) = Cardinality(LinkedTo(q)) - 1
    BY <1>2, FS_RemoveElement
  <1>4. Cardinality(LinkedTo(q) \ {e}) \in Nat
    BY <1>3, FS_CardinalityType
  <1>5. Cardinality(LinkedTo(q) \ {e}) = 0 /\ held[q] = 0
    BY <1>1, <1>2, <1>3, <1>4
  <1>6. LinkedTo(q) \ {e} = {}
    BY <1>3, <1>5, FS_EmptySet
  <1> QED
    BY <1>5, <1>6

LEMMA OnlyHolder ==
  ASSUME IInv, NEW q \in live, ~(ref[q] > 1), held[q] > 0
  PROVE  held[q] = 1 /\ LinkedTo(q) = {}
  <1>1. /\ FieldsOK /\ ref[q] \in Nat /\ held[q] \in Nat
        /\ ref[q] = held[q] + Cardinality(LinkedTo(q))
    BY DEF IInv, Chained, FieldsOK, RefsCounted
  <1>2. IsFiniteSet(LinkedTo(q)) /\ Cardinality(LinkedTo(q)) \in Nat
    BY <1>1, LinksFinite
  <1>3. Cardinality(LinkedTo(q)) = 0 /\ held[q] = 1
    BY <1>1, <1>2
  <1> QED
    BY <1>2, <1>3, FS_EmptySet

(***************************************************************************)
(* A pbuf that is given back, but for the first, only had the reference of *)
(* one given back before it.                                               *)
(***************************************************************************)
LEMMA GoneAlone ==
  ASSUME IInv, NEW x \in live
  PROVE  /\ Dealloc(x) \subseteq live
         /\ \A d \in Dealloc(x) \ {x} : /\ held[d] = 0
                                        /\ LinkedTo(d) \subseteq Dealloc(x)
  <1>1. Chained /\ x \in Bufs
    BY DEF IInv, Chained, FieldsOK
  <1>2. Dealloc(x) \subseteq live
    BY <1>1, DeallocPath, PacketLive
  <1>3. ASSUME NEW d \in Dealloc(x) \ {x}
        PROVE  held[d] = 0 /\ LinkedTo(d) \subseteq Dealloc(x)
    <2>1. ~(ref[d] > 1) /\ \E e \in Dealloc(x) : next[e] = d
      BY <1>1, DeallocPath
    <2>2. PICK e \in Dealloc(x) : next[e] = d
      BY <2>1
    <2>3. e \in LinkedTo(d) /\ d \in live
      BY <1>2, <2>2 DEF LinkedTo
    <2>4. held[d] = 0 /\ LinkedTo(d) = {e}
      BY <2>1, <2>3, OnlyLink
    <2> QED
      BY <2>4
  <1> QED
    BY <1>2, <1>3

(***************************************************************************)
(* A pbuf that stays loses one link if it is the survivor, and no other    *)
(* does.                                                                   *)
(***************************************************************************)
LEMMA LinksLost ==
  ASSUME IInv, NEW x \in live, NEW q \in live \ Dealloc(x)
  PROVE  /\ IsFiniteSet(LinkedTo(q) \ Dealloc(x))
         /\ (\E d \in Dealloc(x) : next[d] = q) =>
              Cardinality(LinkedTo(q) \ Dealloc(x))
                = Cardinality(LinkedTo(q)) - 1
         /\ ~(\E d \in Dealloc(x) : next[d] = q) =>
              LinkedTo(q) \ Dealloc(x) = LinkedTo(q)
  <1>1. /\ Chained /\ FieldsOK /\ x \in Bufs /\ Dealloc(x) \subseteq live
        /\ IsFiniteSet(LinkedTo(q))
    BY GoneAlone, LinksFinite DEF IInv, Chained, FieldsOK
  <1>2. IsFiniteSet(LinkedTo(q) \ Dealloc(x))
    BY <1>1, FS_Subset
  <1>3. ASSUME NEW d \in Dealloc(x), next[d] = q
        PROVE  Cardinality(LinkedTo(q) \ Dealloc(x)) = Cardinality(LinkedTo(q)) - 1
    <2>1. d \in LinkedTo(q)
      BY <1>1, <1>3 DEF LinkedTo
    <2>2. \A e \in LinkedTo(q) \cap Dealloc(x) : e = d
      BY <1>1, <1>3, DeallocPath DEF LinkedTo
    <2>3. LinkedTo(q) \ Dealloc(x) = LinkedTo(q) \ {d}
      BY <2>1, <2>2
    <2>4. Cardinality(LinkedTo(q) \ {d}) = Cardinality(LinkedTo(q)) - 1
      BY <1>1, <2>1, FS_RemoveElement
    <2> QED
      BY <2>3, <2>4
  <1>4. ~(\E d \in Dealloc(x) : next[d] = q) =>
          LinkedTo(q) \ Dealloc(x) = LinkedTo(q)
    BY DEF LinkedTo
  <1> QED
    BY <1>2, <1>3, <1>4

(***************************************************************************)
(* The counts when the reference to x is dropped.                          *)
(***************************************************************************)
LEMMA SurvivorShared ==
  ASSUME Chained, NEW x \in Bufs, NEW q \in Survivor(x)
  PROVE  q \in Bufs /\ ref[q] > 1 /\ (q = x => Dealloc(x) = {})
  <1>1. q \in Bufs
    BY PacketIs DEF Survivor
  <1>2. /\ q \notin Dealloc(x)
        /\ q = x \/ \E d \in Dealloc(x) : next[d] = q
    BY <1>1, SurvivorIs
  <1>3. CASE q = x
    BY <1>1, <1>2, <1>3, DeallocPath
  <1>4. CASE q # x
    <2>1. PICK d \in Dealloc(x) : next[d] = q
      BY <1>2, <1>4
    <2>2. next[d] \in Dealloc(x) \cup {NULL} \/ ref[next[d]] > 1
      BY DeallocPath
    <2> QED
      BY <1>1, <1>2, <1>4, <2>1, <2>2, Constants
  <1> QED
    BY <1>3, <1>4

LEMMA UnrefIs ==
  ASSUME Chained, NEW x \in Bufs
  PROVE  /\ Unref(x) \in [Bufs -> Nat]
         /\ \A q \in Bufs \ Dealloc(x) :
              Unref(x)[q] = IF q \in Survivor(x) THEN ref[q] - 1 ELSE ref[q]
         /\ \A q \in Bufs \ Dealloc(x) : ref[q] > 0 => Unref(x)[q] > 0
  <1>1. \A q \in Bufs : ref[q] \in Nat
    BY DEF Chained, FieldsOK
  <1>2. \A q \in Survivor(x) : ref[q] > 1
    BY SurvivorShared
  <1> DEFINE u == Unref(x)
  <1>3. u = [q \in Bufs |-> IF q \in Dealloc(x) THEN 0
                            ELSE IF q \in Survivor(x) THEN ref[q] - 1 ELSE ref[q]]
    BY DEF Unref
  <1> HIDE DEF u
  <1>4. ASSUME NEW q \in Bufs \ Dealloc(x)
        PROVE  /\ u[q] = IF q \in Survivor(x) THEN ref[q] - 1 ELSE ref[q]
               /\ u[q] \in Nat
               /\ ref[q] > 0 => u[q] > 0
    <2>1. u[q] = IF q \in Survivor(x) THEN ref[q] - 1 ELSE ref[q]
      BY <1>3
    <2>2. ref[q] \in Nat /\ (q \in Survivor(x) => ref[q] > 1)
      BY <1>1, <1>2
    <2> QED
      BY <2>1, <2>2
  <1>5. \A q \in Bufs : u[q] \in Nat
    <2>1. \A q \in Dealloc(x) : q \in Bufs => u[q] = 0
      BY <1>3
    <2> QED
      BY <1>4, <2>1
  <1>6. u \in [Bufs -> Nat]
    BY <1>3, <1>5
  <1> QED
    BY <1>4, <1>6 DEF u

LEMMA ClearedType ==
  ASSUME NEW V, NEW f \in [Bufs -> V], NEW gone, NEW v \in V
  PROVE  /\ Cleared(f, gone, v) \in [Bufs -> V]
         /\ \A q \in Bufs : Cleared(f, gone, v)[q]
                              = IF q \in gone THEN v ELSE f[q]
  BY DEF Cleared

LEMMA FewerLinks ==
  ASSUME Acyclic, \A q \in Bufs : next'[q] \in {next[q], NULL}
  PROVE  Acyclic'
  <1>1. ASSUME NEW T \in SUBSET Bufs, T # {}
        PROVE  \E q \in T : next'[q] \notin T
    <2>1. PICK q \in T : next[q] \notin T
      BY <1>1 DEF Acyclic
    <2>2. NULL \notin T
      BY Constants
    <2> QED
      BY <2>1, <2>2
  <1> QED
    BY <1>1 DEF Acyclic, Bufs

(***************************************************************************)
(* Where links lead when the reference to x is dropped.                    *)
(***************************************************************************)
LEMMA LinksAfter ==
  ASSUME IInv, NEW x \in live, NEW q \in live \ Dealloc(x), next[q] # NULL,
         next[q] = x => x \notin Dealloc(x)
  PROVE  next[q] \in live \ Dealloc(x)
  <1>1. next[q] \in live
    BY DEF IInv, Chained, LinksLive
  <1>2. ASSUME next[q] \in Dealloc(x) PROVE FALSE
    <2>1. next[q] # x
      BY <1>2
    <2>2. LinkedTo(next[q]) \subseteq Dealloc(x)
      BY <1>2, <2>1, GoneAlone
    <2>3. q \in LinkedTo(next[q])
      BY DEF LinkedTo
    <2> QED
      BY <2>2, <2>3
  <1> QED
    BY <1>1, <1>2

-----------------------------------------------------------------------------
LEMMA InitEstablishes == Init => IInv
  <1> SUFFICES ASSUME Init PROVE IInv
    OBVIOUS
  <1>1. FieldsOK
    BY DEF Init, FieldsOK
  <1>2. Acyclic
    BY Constants DEF Init, Acyclic
  <1>3. LinksLive /\ Referred /\ RefsCounted /\ TotalsAdd
    BY DEF Init, LinksLive, Referred, RefsCounted, TotalsAdd
  <1> QED
    BY <1>1, <1>2, <1>3 DEF IInv, Chained

(***************************************************************************)
(* A client drops a reference to p, and pbufs fresh from the pool or the   *)
(* heap become its own (pbuf_free takes none, pbuf_coalesce one).          *)
(***************************************************************************)
LEMMA DropKeeps ==
  ASSUME IInv, NEW p \in live, held[p] > 0,
         NEW fresh, fresh \subseteq Bufs \ live,
         FieldsOK', live' = (live \ Dealloc(p)) \cup fresh,
         \A q \in Bufs : next'[q] = IF q \in Dealloc(p) THEN NULL ELSE next[q],
         \A q \in Bufs \ fresh : held'[q] = IF q = p THEN held[q] - 1 ELSE held[q],
         \A q \in live \ Dealloc(p) : /\ ref'[q] = Unref(p)[q]
                                      /\ len'[q] = len[q] /\ tot'[q] = tot[q],
         \A q \in fresh : ref'[q] = 1 /\ held'[q] = 1 /\ len'[q] = tot'[q]
  PROVE  IInv'
  <1> DEFINE gone == Dealloc(p)
  <1>1. /\ Chained /\ FieldsOK /\ p \in Bufs
        /\ held[p] > 0 /\ held[p] \in Nat
    BY DEF IInv, Chained, FieldsOK
  <1>2. gone \subseteq live /\ live \subseteq Bufs /\ fresh \cap live = {}
    BY <1>1, GoneAlone DEF FieldsOK
  <1>3. ASSUME p \in gone PROVE held[p] = 1 /\ LinkedTo(p) = {}
    BY <1>1, <1>3, DeallocPath, OnlyHolder
  <1>4. live' = (live \ gone) \cup fresh
    OBVIOUS
  <1>5. /\ \A q \in Bufs : next'[q] = IF q \in gone THEN NULL ELSE next[q]
        /\ \A q \in live \ gone : /\ ref'[q] = Unref(p)[q]
                                  /\ len'[q] = len[q] /\ tot'[q] = tot[q]
    OBVIOUS
  <1> HIDE DEF gone
  <1>6. \A q \in fresh : q \in Bufs /\ next[q] = NULL /\ next'[q] = NULL
    BY <1>1, <1>5 DEF Chained, LinksLive
  <1>7. Acyclic'
    <2>1. \A q \in Bufs : next'[q] \in {next[q], NULL}
      BY <1>5
    <2> QED
      BY <1>1, <2>1, FewerLinks DEF Chained
  <1>8. ASSUME NEW q \in live \ gone, next[q] # NULL
        PROVE  next[q] \in live \ gone
    <2>1. next[q] = p => p \notin gone
      BY <1>3 DEF LinkedTo
    <2> QED
      BY <1>8, <2>1, LinksAfter DEF gone
  <1>9. LinksLive'
    <2>1. ASSUME NEW q \in live', next'[q] # NULL PROVE next'[q] \in live'
      <3>1. q \in live \ gone /\ q \in Bufs
        BY <1>2, <1>4, <1>6, <2>1
      <3> QED
        BY <1>4, <1>5, <1>8, <2>1, <3>1
    <2>2. ASSUME NEW q \in Bufs \ live' PROVE next'[q] = NULL /\ held'[q] = 0
      <3>1. q \notin fresh /\ held'[q] = IF q = p THEN held[q] - 1 ELSE held[q]
        BY <1>4
      <3>2. CASE q \in gone
        <4>1. next'[q] = NULL
          BY <1>5, <3>2
        <4>2. q # p => held[q] = 0
          BY <3>2, GoneAlone DEF gone
        <4> QED
          BY <1>3, <3>1, <3>2, <4>1, <4>2
      <3>3. CASE q \notin gone
        <4>1. q \notin live
          BY <1>4, <3>3
        <4>2. next[q] = NULL /\ held[q] = 0 /\ q # p
          BY <1>1, <4>1 DEF Chained, LinksLive
        <4> QED
          BY <1>5, <3>1, <3>3, <4>2
      <3> QED
        BY <3>2, <3>3
    <2> QED
      BY <2>1, <2>2 DEF LinksLive, Bufs
  <1>10. Referred'
    <2>1. ASSUME NEW q \in live \ gone PROVE ref'[q] > 0
      <3>1. q \in Bufs \ Dealloc(p) /\ ref[q] > 0
        BY <1>2 DEF gone, IInv, Referred
      <3>2. Unref(p)[q] > 0
        BY <1>1, <3>1, UnrefIs
      <3> QED
        BY <1>5, <3>2
    <2> QED
      BY <1>4, <2>1 DEF Referred
  <1>11. RefsCounted'
    <2> SUFFICES ASSUME NEW q \in live'
                 PROVE  ref'[q] = held'[q] + Cardinality(LinkedTo(q)')
      BY DEF RefsCounted
    <2>1. q \in Bufs /\ q # NULL
      BY <1>2, <1>4, Constants
    <2>2. LinkedTo(q)' = LinkedTo(q) \ gone
      <3>1. ASSUME NEW u \in LinkedTo(q)' PROVE u \in LinkedTo(q) \ gone
        <4>1. u \in live' /\ next'[u] = q
          BY DEF LinkedTo
        <4>2. u \in live \ gone /\ u \in Bufs
          BY <1>2, <1>4, <1>6, <2>1, <4>1
        <4> QED
          BY <1>5, <4>1, <4>2 DEF LinkedTo
      <3>2. ASSUME NEW u \in LinkedTo(q) \ gone PROVE u \in LinkedTo(q)'
        <4>1. u \in live \ gone /\ u \in Bufs /\ next[u] = q
          BY <1>2 DEF LinkedTo
        <4> QED
          BY <1>4, <1>5, <4>1 DEF LinkedTo
      <3> QED
        BY <3>1, <3>2
    <2>3. CASE q \in fresh
      <3>1. q \notin live
        BY <1>2, <2>3
      <3>2. LinkedTo(q) = {}
        BY <1>1, <2>1, <3>1 DEF Chained, LinksLive, LinkedTo
      <3>3. LinkedTo(q)' = {}
        BY <2>2, <3>2
      <3>4. Cardinality(LinkedTo(q)') = 0
        BY <3>3, FS_EmptySet
      <3> QED
        BY <2>3, <3>4
    <2>4. CASE q \notin fresh
      <3>1. q \in live \ Dealloc(p)
        BY <1>4, <2>4 DEF gone
      <3>2. /\ ref[q] \in Nat /\ held[q] \in Nat /\ Cardinality(LinkedTo(q)) \in Nat
            /\ ref[q] = held[q] + Cardinality(LinkedTo(q))
        BY <1>1, <3>1, LinksFinite DEF FieldsOK, IInv, RefsCounted
      <3>3. Unref(p)[q] = IF q \in Survivor(p) THEN ref[q] - 1 ELSE ref[q]
        BY <1>1, <2>1, <3>1, UnrefIs
      <3>4. ref'[q] = IF q \in Survivor(p) THEN ref[q] - 1 ELSE ref[q]
        BY <1>5, <3>1, <3>3 DEF gone
      <3>5. q \in Survivor(p) <=> q = p \/ \E d \in Dealloc(p) : next[d] = q
        BY <1>1, <2>1, <3>1, SurvivorIs
      <3>6. held'[q] = IF q = p THEN held[q] - 1 ELSE held[q]
        BY <2>1, <2>4
      <3>7. CASE q = p
        <4>1. Dealloc(p) = {}
          BY <1>1, <3>1, <3>7, DeallocPath
        <4>2. LinkedTo(q)' = LinkedTo(q)
          BY <2>2, <4>1 DEF gone
        <4> QED
          BY <3>2, <3>4, <3>5, <3>6, <3>7, <4>2
      <3>8. CASE q # p /\ \E d \in Dealloc(p) : next[d] = q
        <4>1. Cardinality(LinkedTo(q) \ Dealloc(p)) = Cardinality(LinkedTo(q)) - 1
          BY <3>1, <3>8, LinksLost
        <4>2. Cardinality(LinkedTo(q)') = Cardinality(LinkedTo(q)) - 1
          BY <2>2, <4>1 DEF gone
        <4> QED
          BY <3>2, <3>4, <3>5, <3>6, <3>8, <4>2
      <3>9. CASE q # p /\ ~ \E d \in Dealloc(p) : next[d] = q
        <4>1. LinkedTo(q) \ Dealloc(p) = LinkedTo(q)
          BY <3>1, <3>9, LinksLost
        <4>2. LinkedTo(q)' = LinkedTo(q)
          BY <2>2, <4>1 DEF gone
        <4> QED
          BY <3>2, <3>4, <3>5, <3>6, <3>9, <4>2
      <3> QED
        BY <3>7, <3>8, <3>9
    <2> QED
      BY <2>3, <2>4
  <1>12. TotalsAdd'
    <2> SUFFICES ASSUME NEW q \in live'
                 PROVE  tot'[q] = len'[q] + (IF next'[q] = NULL THEN 0
                                             ELSE tot'[next'[q]])
      BY DEF TotalsAdd
    <2>1. CASE q \in fresh
      <3>1. len'[q] = tot'[q] /\ next'[q] = NULL /\ tot'[q] \in Nat
        BY <1>6, <2>1 DEF FieldsOK
      <3> QED
        BY <3>1
    <2>2. CASE q \notin fresh
      <3>1. q \in live \ gone /\ q \in Bufs
        BY <1>2, <1>4, <2>2
      <3>2. next'[q] = next[q] /\ len'[q] = len[q] /\ tot'[q] = tot[q]
        BY <1>5, <3>1
      <3>3. next[q] # NULL => tot'[next[q]] = tot[next[q]]
        BY <1>5, <1>8, <3>1
      <3> QED
        BY <3>1, <3>2, <3>3 DEF IInv, TotalsAdd
    <2> QED
      BY <2>1, <2>2
  <1> QED
    BY <1>7, <1>9, <1>10, <1>11, <1>12 DEF IInv, Chained

LEMMA FreeKeeps ==
  ASSUME IInv, NEW p \in live, Free(p)
  PROVE  IInv'
  <1> DEFINE gone == Dealloc(p)
  <1>1. /\ Chained /\ FieldsOK /\ p \in Bufs /\ gone \subseteq live
        /\ held[p] > 0 /\ held[p] \in Nat
    BY GoneAlone DEF IInv, Chained, FieldsOK, Free
  <1>2. /\ live' = live \ gone /\ ref' = Unref(p)
        /\ next' = Cleared(next, gone, NULL)
        /\ len' = Cleared(len, gone, 0) /\ tot' = Cleared(tot, gone, 0)
        /\ room' = Cleared(room, gone, 0)
        /\ held' = [held EXCEPT ![p] = @ - 1]
    BY DEF Free
  <1> HIDE DEF gone
  <1>3. FieldsOK'
    <2>1. next' \in [Bufs -> Bufs \cup {NULL}]
      BY <1>1, <1>2, ClearedType DEF FieldsOK
    <2>2. len' \in [Bufs -> Nat] /\ tot' \in [Bufs -> Nat] /\ room' \in [Bufs -> Nat]
      BY <1>1, <1>2, ClearedType DEF FieldsOK
    <2>3. ref' \in [Bufs -> Nat]
      BY <1>1, <1>2, UnrefIs
    <2>4. held' \in [Bufs -> Nat]
      BY <1>1, <1>2 DEF FieldsOK
    <2>5. live' \subseteq Bufs
      BY <1>1, <1>2 DEF FieldsOK
    <2> QED
      BY <2>1, <2>2, <2>3, <2>4, <2>5 DEF FieldsOK, Bufs
  <1>4. \A q \in Bufs : /\ next'[q] = IF q \in gone THEN NULL ELSE next[q]
                        /\ len'[q] = IF q \in gone THEN 0 ELSE len[q]
                        /\ tot'[q] = IF q \in gone THEN 0 ELSE tot[q]
    BY <1>2 DEF Cleared
  <1>5. \A q \in Bufs : held'[q] = IF q = p THEN held[q] - 1 ELSE held[q]
    BY <1>1, <1>2 DEF FieldsOK
  <1>6. \A q \in live \ gone : /\ ref'[q] = Unref(p)[q]
                               /\ len'[q] = len[q] /\ tot'[q] = tot[q]
    BY <1>1, <1>2, <1>4 DEF FieldsOK
  <1>7. live' = (live \ gone) \cup {}
    BY <1>2
  <1> DEFINE fresh == {}
  <1>8. /\ fresh \subseteq Bufs \ live /\ live' = (live \ Dealloc(p)) \cup fresh
        /\ \A q \in Bufs : next'[q] = IF q \in Dealloc(p) THEN NULL ELSE next[q]
    BY <1>4, <1>7 DEF gone
  <1>9. \A q \in Bufs \ fresh :
          held'[q] = IF q = p THEN held[q] - 1 ELSE held[q]
    BY <1>5
  <1>10. \A q \in live \ Dealloc(p) : /\ ref'[q] = Unref(p)[q]
                                      /\ len'[q] = len[q] /\ tot'[q] = tot[q]
    BY <1>6 DEF gone
  <1>11. \A q \in fresh : ref'[q] = 1 /\ held'[q] = 1 /\ len'[q] = tot'[q]
    OBVIOUS
  <1> HIDE DEF fresh
  <1> QED
    BY <1>1, <1>3, <1>8, <1>9, <1>10, <1>11, DropKeeps

(***************************************************************************)
(* pbuf_coalesce                                                           *)
(***************************************************************************)
LEMMA CoalesceKeeps ==
  ASSUME IInv, NEW p \in live, NEW r \in Ram, Coalesce(p, r)
  PROVE  IInv'
  <1> DEFINE gone == Dealloc(p)
  <1>1. /\ Chained /\ FieldsOK /\ p \in Bufs /\ gone \subseteq live
        /\ held[p] > 0 /\ held[p] \in Nat
    BY GoneAlone DEF IInv, Chained, FieldsOK, Coalesce
  <1>2. /\ live' = (live \ gone) \cup {r} /\ ref' = [Unref(p) EXCEPT ![r] = 1]
        /\ next' = Cleared(next, gone, NULL)
        /\ len' = [Cleared(len, gone, 0) EXCEPT ![r] = tot[p]]
        /\ tot' = [Cleared(tot, gone, 0) EXCEPT ![r] = tot[p]]
        /\ room' = Cleared(room, gone, 0)
        /\ held' = [held EXCEPT ![p] = @ - 1, ![r] = 1]
        /\ r \notin live
    BY DEF Coalesce
  <1>3. r \in Bufs /\ r # p /\ tot[p] \in Nat
    BY <1>1, <1>2 DEF Bufs, FieldsOK
  <1> HIDE DEF gone
  <1>4. /\ Cleared(len, gone, 0) \in [Bufs -> Nat]
        /\ Cleared(tot, gone, 0) \in [Bufs -> Nat]
        /\ \A q \in Bufs : /\ Cleared(len, gone, 0)[q] = IF q \in gone THEN 0 ELSE len[q]
                           /\ Cleared(tot, gone, 0)[q] = IF q \in gone THEN 0 ELSE tot[q]
    BY <1>1 DEF Cleared, FieldsOK
  <1>5. Unref(p) \in [Bufs -> Nat]
    BY <1>1, UnrefIs
  <1>6. FieldsOK'
    <2>1. next' \in [Bufs -> Bufs \cup {NULL}]
      BY <1>1, <1>2, ClearedType DEF FieldsOK
    <2>2. room' \in [Bufs -> Nat]
      BY <1>1, <1>2, ClearedType DEF FieldsOK
    <2>3. len' \in [Bufs -> Nat] /\ tot' \in [Bufs -> Nat] /\ ref' \in [Bufs -> Nat]
      BY <1>2, <1>3, <1>4, <1>5
    <2>4. held' \in [Bufs -> Nat]
      <3> DEFINE h == [held EXCEPT ![p] = @ - 1]
      <3>1. h \in [Bufs -> Nat]
        BY <1>1 DEF FieldsOK
      <3>2. held' = [h EXCEPT ![r] = 1]
        BY <1>2
      <3> HIDE DEF h
      <3> QED
        BY <3>1, <3>2
    <2>5. live' \subseteq Bufs
      BY <1>1, <1>2, <1>3 DEF FieldsOK
    <2> QED
      BY <2>1, <2>2, <2>3, <2>4, <2>5 DEF FieldsOK, Bufs
  <1>7. \A q \in Bufs : next'[q] = IF q \in gone THEN NULL ELSE next[q]
    BY <1>2 DEF Cleared
  <1>8. \A q \in Bufs \ {r} : held'[q] = IF q = p THEN held[q] - 1 ELSE held[q]
    BY <1>1, <1>2 DEF FieldsOK
  <1>9. \A q \in live \ gone : /\ ref'[q] = Unref(p)[q]
                               /\ len'[q] = len[q] /\ tot'[q] = tot[q]
    <2>1. \A q \in live : q \in Bufs /\ q # r
      BY <1>1, <1>2 DEF FieldsOK
    <2> QED
      BY <1>2, <1>4, <1>5, <2>1
  <1>10. ref'[r] = 1 /\ held'[r] = 1 /\ len'[r] = tot'[r]
    BY <1>1, <1>2, <1>3, <1>4, <1>5 DEF FieldsOK
  <1> DEFINE fresh == {r}
  <1>11. /\ fresh \subseteq Bufs \ live /\ live' = (live \ Dealloc(p)) \cup fresh
         /\ \A q \in Bufs : next'[q] = IF q \in Dealloc(p) THEN NULL ELSE next[q]
    BY <1>2, <1>3, <1>7 DEF gone
  <1>12. \A q \in Bufs \ fresh :
           held'[q] = IF q = p THEN held[q] - 1 ELSE held[q]
    BY <1>8
  <1>13. \A q \in live \ Dealloc(p) : /\ ref'[q] = Unref(p)[q]
                                      /\ len'[q] = len[q] /\ tot'[q] = tot[q]
    BY <1>9 DEF gone
  <1>14. \A q \in fresh : ref'[q] = 1 /\ held'[q] = 1 /\ len'[q] = tot'[q]
    BY <1>10
  <1> HIDE DEF fresh
  <1> QED
    BY <1>1, <1>6, <1>11, <1>12, <1>13, <1>14, DropKeeps

(***************************************************************************)
(* A packet is cut behind last: the reference last has to the rest is      *)
(* dropped (pbuf_dechain, pbuf_realloc).                                   *)
(***************************************************************************)
LEMMA CutKeeps ==
  ASSUME IInv, NEW last \in live,
         live' = live \ Dealloc(next[last]), ref' = Unref(next[last]),
         next' = [Cleared(next, Dealloc(next[last]), NULL) EXCEPT ![last] = NULL],
         held' = held
  PROVE  /\ live' \subseteq Bufs /\ last \in live'
         /\ next' \in [Bufs -> Bufs \cup {NULL}]
         /\ ref' \in [Bufs -> Nat]
         /\ next'[last] = NULL
         /\ \A q \in live' \ {last} : /\ next'[q] = next[q]
                                      /\ next[q] \in live' \cup {NULL}
         /\ Acyclic' /\ LinksLive' /\ Referred' /\ RefsCounted'
  <1> DEFINE x == next[last]
             gone == Dealloc(x)
  <1>1. /\ Chained /\ FieldsOK /\ last \in Bufs /\ live \subseteq Bufs
        /\ next \in [Bufs -> Bufs \cup {NULL}] /\ ref \in [Bufs -> Nat]
    BY DEF IInv, Chained, FieldsOK
  <1>2. CASE x = NULL
    <2>1. gone = {} /\ Survivor(x) = {}
      BY <1>1, <1>2, NothingFreed
    <2>2. live' = live
      BY <2>1
    <2>3. ref' = ref
      <3>1. ref' = [q \in Bufs |-> ref[q]]
        BY <2>1 DEF Unref
      <3> QED
        BY <1>1, <3>1
    <2>4. next' = next
      <3>1. Cleared(next, gone, NULL) = next
        BY <1>1, <2>1 DEF Cleared
      <3> HIDE DEF gone
      <3> QED
        BY <1>1, <1>2, <3>1 DEF gone
    <2>5. Acyclic' /\ LinksLive' /\ Referred'
      BY <1>1, <2>2, <2>3, <2>4
      DEF IInv, Chained, Acyclic, LinksLive, Referred, Bufs
    <2>6. RefsCounted'
      <3>1. \A q \in live : LinkedTo(q)' = LinkedTo(q)
        BY <2>2, <2>4 DEF LinkedTo
      <3> HIDE DEF gone, x
      <3> QED
        BY <2>2, <2>3, <3>1 DEF IInv, RefsCounted
    <2>7. \A q \in live : next[q] \in live \cup {NULL}
      BY DEF IInv, Chained, LinksLive
    <2> QED
      BY <1>1, <1>2, <2>2, <2>3, <2>4, <2>5, <2>6, <2>7
  <1>3. CASE x # NULL
    <2>1. x \in live /\ x \in Bufs
      BY <1>1, <1>3 DEF IInv, Chained, LinksLive
    <2>2. gone \subseteq live /\ last \notin gone
      <3>1. last \notin Packet(x)
        BY <1>1, NotAfterItself
      <3> QED
        BY <1>1, <2>1, <3>1, GoneAlone, DeallocPath
    <2>3. last \in LinkedTo(x)
      BY DEF LinkedTo
    <2>4. x \in gone => held[x] = 0 /\ LinkedTo(x) = {last}
      BY <1>1, <2>1, <2>3, DeallocPath, OnlyLink
    <2>5. live' = live \ gone /\ last \in live'
      BY <2>2
    <2>6. ref' \in [Bufs -> Nat]
      BY <1>1, <2>1, UnrefIs
    <2>7. /\ next' \in [Bufs -> Bufs \cup {NULL}]
          /\ \A q \in Bufs : next'[q] = IF q = last \/ q \in gone THEN NULL
                                        ELSE next[q]
      <3> HIDE DEF gone
      <3> DEFINE c == Cleared(next, gone, NULL)
      <3>1. /\ c \in [Bufs -> Bufs \cup {NULL}]
            /\ \A q \in Bufs : c[q] = IF q \in gone THEN NULL ELSE next[q]
        <4>1. NULL \in Bufs \cup {NULL}
          OBVIOUS
        <4> QED
          BY <1>1, <4>1 DEF Cleared
      <3>2. next' = [c EXCEPT ![last] = NULL]
        BY DEF gone
      <3> HIDE DEF c
      <3> QED
        BY <1>1, <3>1, <3>2
    <2>8. \A u \in gone \ {x} : held[u] = 0
      BY <2>1, GoneAlone
    <2>9. ASSUME NEW q \in live' \ {last}
          PROVE  next'[q] = next[q] /\ next[q] \in live' \cup {NULL}
      <3>1. q \in live \ gone /\ q \in Bufs
        BY <1>1, <2>5
      <3>2. next[q] = x => x \notin gone
        BY <2>4, <3>1 DEF LinkedTo
      <3>3. next[q] # NULL => next[q] \in live \ gone
        BY <2>1, <3>1, <3>2, LinksAfter
      <3> QED
        BY <2>5, <2>7, <3>1, <3>3
    <2>10. Acyclic'
      <3>1. \A q \in Bufs : next'[q] \in {next[q], NULL}
        BY <2>7
      <3> QED
        BY <1>1, <3>1, FewerLinks DEF Chained
    <2>11. LinksLive'
      <3>1. ASSUME NEW q \in live', next'[q] # NULL PROVE next'[q] \in live'
        BY <1>1, <2>5, <2>7, <2>9, <3>1
      <3>2. ASSUME NEW q \in Bufs \ live' PROVE next'[q] = NULL /\ held'[q] = 0
        <4>1. CASE q \in gone
          BY <2>4, <2>7, <2>8, <4>1
        <4>2. CASE q \notin gone
          <5>1. q \notin live
            BY <2>5, <3>2, <4>2
          <5> QED
            BY <1>1, <2>7, <4>2, <5>1 DEF Chained, LinksLive
        <4> QED
          BY <4>1, <4>2
      <3> QED
        BY <3>1, <3>2 DEF LinksLive, Bufs
    <2>12. Referred'
      <3>1. ASSUME NEW q \in live' PROVE ref'[q] > 0
        <4>1. q \in Bufs \ Dealloc(x) /\ ref[q] > 0
          BY <1>1, <2>5 DEF IInv, Referred
        <4> HIDE DEF x
        <4> QED
          BY <1>1, <2>1, <4>1, UnrefIs DEF x
      <3> QED
        BY <3>1 DEF Referred
    <2>13. RefsCounted'
      <3> SUFFICES ASSUME NEW q \in live'
                   PROVE  ref'[q] = held'[q] + Cardinality(LinkedTo(q)')
        BY DEF RefsCounted
      <3>1. q \in live \ Dealloc(x) /\ q \in Bufs
        BY <1>1, <2>5
      <3>2. LinkedTo(q)' = {u \in LinkedTo(q) \ Dealloc(x) : u # last}
        <4>1. ASSUME NEW u \in LinkedTo(q)'
              PROVE  u \in LinkedTo(q) \ Dealloc(x) /\ u # last
          <5>1. u \in live' /\ next'[u] = q
            BY DEF LinkedTo
          <5>2. u # last
            BY <1>1, <2>7, <3>1, <5>1, Constants
          <5> QED
            BY <2>5, <2>9, <5>1, <5>2 DEF LinkedTo
        <4>2. ASSUME NEW u \in LinkedTo(q) \ Dealloc(x), u # last
              PROVE  u \in LinkedTo(q)'
          <5>1. u \in live' \ {last} /\ next[u] = q
            BY <2>5, <4>2 DEF LinkedTo
          <5> QED
            BY <2>9, <5>1 DEF LinkedTo
        <4> QED
          BY <4>1, <4>2
      <3>3. /\ ref[q] \in Nat /\ held[q] \in Nat
            /\ IsFiniteSet(LinkedTo(q)) /\ Cardinality(LinkedTo(q)) \in Nat
            /\ ref[q] = held[q] + Cardinality(LinkedTo(q))
        BY <1>1, <3>1, LinksFinite DEF FieldsOK, IInv, RefsCounted
      <3>4. ref'[q] = IF q \in Survivor(x) THEN ref[q] - 1 ELSE ref[q]
        BY <1>1, <2>1, <3>1, UnrefIs
      <3>5. q \in Survivor(x) <=> q = x \/ \E d \in Dealloc(x) : next[d] = q
        BY <1>1, <2>1, <3>1, SurvivorIs
      <3> HIDE DEF x, gone
      <3>6. CASE q = x
        <4>1. Dealloc(x) = {}
          BY <1>1, <2>1, <3>1, <3>6, DeallocPath
        <4>2. LinkedTo(q)' = LinkedTo(q) \ {last} /\ last \in LinkedTo(q)
          BY <2>3, <3>2, <3>6, <4>1
        <4>3. Cardinality(LinkedTo(q)') = Cardinality(LinkedTo(q)) - 1
          BY <3>3, <4>2, FS_RemoveElement
        <4> QED
          BY <3>3, <3>4, <3>5, <3>6, <4>3
      <3>7. CASE q # x
        <4>1. last \notin LinkedTo(q)
          BY <3>7 DEF LinkedTo, x
        <4>2. LinkedTo(q)' = LinkedTo(q) \ Dealloc(x)
          BY <3>2, <4>1
        <4>3. CASE \E d \in Dealloc(x) : next[d] = q
          <5>1. Cardinality(LinkedTo(q) \ Dealloc(x)) = Cardinality(LinkedTo(q)) - 1
            BY <2>1, <3>1, <4>3, LinksLost
          <5> QED
            BY <3>3, <3>4, <3>5, <4>2, <4>3, <5>1
        <4>4. CASE ~ \E d \in Dealloc(x) : next[d] = q
          <5>1. LinkedTo(q) \ Dealloc(x) = LinkedTo(q)
            BY <2>1, <3>1, <4>4, LinksLost
          <5> QED
            BY <3>3, <3>4, <3>5, <3>7, <4>2, <4>4, <5>1
        <4> QED
          BY <4>3, <4>4
      <3> QED
        BY <3>6, <3>7
    <2> QED
      BY <1>1, <2>5, <2>6, <2>7, <2>9, <2>10, <2>11, <2>12, <2>13
  <1> QED
    BY <1>2, <1>3

(***************************************************************************)
(* pbuf_dechain                                                            *)
(***************************************************************************)
LEMMA DechainKeeps ==
  ASSUME IInv, NEW p \in live, Dechain(p)
  PROVE  IInv'
  <1> DEFINE gone == Dealloc(next[p])
  <1>1. /\ Chained /\ FieldsOK /\ p \in Bufs /\ live \subseteq Bufs
        /\ next[p] # NULL /\ LinkedTo(p) = {}
    BY DEF IInv, Chained, FieldsOK, Dechain, First
  <1>2. /\ live' = live \ gone /\ ref' = Unref(next[p])
        /\ next' = [Cleared(next, gone, NULL) EXCEPT ![p] = NULL]
        /\ len' = Cleared(len, gone, 0) /\ room' = Cleared(room, gone, 0)
        /\ tot' = [q \in Bufs |-> IF q \in gone THEN 0
                                  ELSE IF q = p THEN len[p]
                                  ELSE IF q = next[p] THEN tot[p] - len[p]
                                  ELSE tot[q]]
        /\ held' = held
    BY DEF Dechain
  <1>3. /\ live' \subseteq Bufs /\ p \in live'
        /\ next' \in [Bufs -> Bufs \cup {NULL}]
        /\ ref' \in [Bufs -> Nat] /\ next'[p] = NULL
        /\ \A q \in live' \ {p} : /\ next'[q] = next[q]
                                  /\ next[q] \in live' \cup {NULL}
        /\ Acyclic' /\ LinksLive' /\ Referred' /\ RefsCounted'
    BY <1>2, CutKeeps
  <1>4. /\ next[p] \in Bufs /\ tot[p] = len[p] + tot[next[p]]
        /\ len[p] \in Nat /\ tot[next[p]] \in Nat
    BY <1>1 DEF IInv, Chained, LinksLive, TotalsAdd, FieldsOK
  <1>5. tot[p] - len[p] = tot[next[p]]
    BY <1>4
  <1> HIDE DEF gone
  <1>6. tot' = [q \in Bufs |-> IF q \in gone THEN 0
                               ELSE IF q = p THEN len[p] ELSE tot[q]]
    BY <1>2, <1>5
  <1>7. FieldsOK'
    <2>1. tot' \in [Bufs -> Nat]
      BY <1>1, <1>6 DEF FieldsOK
    <2>2. len' \in [Bufs -> Nat] /\ room' \in [Bufs -> Nat]
      BY <1>1, <1>2, ClearedType DEF FieldsOK
    <2> QED
      BY <1>1, <1>2, <1>3, <2>1, <2>2 DEF FieldsOK, Bufs
  <1>8. TotalsAdd'
    <2> SUFFICES ASSUME NEW q \in live'
                 PROVE  tot'[q] = len'[q] + (IF next'[q] = NULL THEN 0
                                             ELSE tot'[next'[q]])
      BY DEF TotalsAdd
    <2>1. \A u \in live' : u \in live /\ u \notin gone /\ u \in Bufs
      BY <1>1, <1>2
    <2>2. len'[q] = len[q]
      BY <1>2, <2>1 DEF Cleared
    <2>3. CASE q = p
      <3>1. tot'[p] = len[p] /\ len[p] \in Nat
        BY <1>3, <1>4, <1>6, <2>1
      <3> QED
        BY <1>3, <2>2, <2>3, <3>1
    <2>4. CASE q # p
      <3>1. tot'[q] = tot[q] /\ next'[q] = next[q]
        BY <1>3, <1>6, <2>1, <2>4
      <3>2. next[q] # NULL => /\ next[q] # p /\ next[q] \in live'
                              /\ tot'[next[q]] = tot[next[q]]
        <4>1. next[q] # p
          BY <1>1, <2>1 DEF LinkedTo
        <4>2. next[q] # NULL => next[q] \in live'
          BY <1>3, <2>4
        <4> QED
          BY <1>6, <2>1, <4>1, <4>2
      <3> QED
        BY <2>1, <2>2, <3>1, <3>2 DEF IInv, TotalsAdd
    <2> QED
      BY <2>3, <2>4
  <1> QED
    BY <1>3, <1>7, <1>8 DEF IInv, Chained

(***************************************************************************)
(* Links into a packet that a client owns come from itself.                *)
(***************************************************************************)
LEMMA LinkedWithin ==
  ASSUME Chained, NEW p \in Bufs, NEW y \in Packet(p) \ {p}
  PROVE  \E e \in Packet(p) : next[e] = y
  <1> DEFINE bad == {x \in Bufs : \E u \in Packet(x) \ {x} :
                                    ~ \E e \in Packet(x) : next[e] = u}
  <1>1. SUFFICES ASSUME bad # {} PROVE FALSE
    OBVIOUS
  <1>2. PICK x \in bad : next[x] \in (Bufs \ bad) \cup {NULL}
    <2>1. bad \subseteq Bufs
      OBVIOUS
    <2> HIDE DEF bad
    <2> QED
      BY <1>1, <2>1, Lowest
  <1>3. PICK u \in Packet(x) \ {x} : ~ \E e \in Packet(x) : next[e] = u
    OBVIOUS
  <1>4. /\ x \in Bufs /\ Packet(x) = {x} \cup Packet(next[x])
        /\ Packet(NULL) = {}
    BY PacketIs
  <1>5. u \in Packet(next[x]) /\ next[x] # NULL
    BY <1>3, <1>4
  <1>6. next[x] \notin bad /\ next[x] \in Bufs
    BY <1>2, <1>5
  <1>7. CASE u = next[x]
    BY <1>3, <1>4, <1>7
  <1>8. CASE u # next[x]
    <2>1. \E e \in Packet(next[x]) : next[e] = u
      BY <1>5, <1>6, <1>8
    <2> QED
      BY <1>3, <1>4, <2>1
  <1> QED
    BY <1>7, <1>8

LEMMA OwnedAlone ==
  ASSUME IInv, NEW p \in live, Owned(p), NEW q \in live, next[q] \in Packet(p)
  PROVE  q \in Packet(p)
  <1> DEFINE y == next[q]
  <1>1. Chained /\ p \in Bufs /\ Packet(p) \subseteq live
    BY PacketLive DEF IInv, Chained, FieldsOK
  <1>2. y # p
    BY DEF Owned, First, LinkedTo
  <1>3. PICK e \in Packet(p) : next[e] = y
    BY <1>1, <1>2, LinkedWithin
  <1>4. y \in live /\ ref[y] = 1 /\ e \in LinkedTo(y) /\ q \in LinkedTo(y)
    BY <1>1, <1>2, <1>3 DEF Owned, LinkedTo
  <1> HIDE DEF y
  <1>5. LinkedTo(y) = {e}
    BY <1>4, OnlyLink
  <1> QED
    BY <1>3, <1>4, <1>5

(***************************************************************************)
(* pbuf_cat and pbuf_chain: the packet at t is linked to the end of that   *)
(* at h.                                                                   *)
(***************************************************************************)
LEMMA JoinKeeps ==
  ASSUME IInv, NEW h \in live, NEW t \in live, Owned(h),
         Packet(h) \cap Packet(t) = {},
         live' = live, len' = len, room' = room,
         tot' = Added(h, tot[t]),
         next' = [next EXCEPT ![LastOf(h)] = t],
         ref' \in [Bufs -> Nat], held' \in [Bufs -> Nat],
         \A q \in Bufs \ {t} : ref'[q] = ref[q] /\ held'[q] = held[q],
         ref'[t] - held'[t] = ref[t] - held[t] + 1, ref'[t] > 0
  PROVE  IInv'
  <1> DEFINE z == LastOf(h)
  <1>1. /\ Chained /\ FieldsOK /\ h \in Bufs /\ t \in Bufs /\ live \subseteq Bufs
        /\ next \in [Bufs -> Bufs \cup {NULL}]
    BY DEF IInv, Chained, FieldsOK
  <1>2. /\ z \in Packet(h) /\ next[z] = NULL /\ z \in live /\ z \in Bufs
        /\ \A q \in Packet(h) : next[q] = NULL => q = z
    BY <1>1, LastIs, PacketLive
  <1>3. t \in Packet(t) /\ h \in Packet(h) /\ t \notin Packet(h)
        /\ z \notin Packet(t)
    BY <1>1, <1>2, PacketIs
  <1> HIDE DEF z
  <1>4. /\ next' \in [Bufs -> Bufs \cup {NULL}]
        /\ \A q \in Bufs : next'[q] = IF q = z THEN t ELSE next[q]
    BY <1>1, <1>2 DEF z
  <1>5. tot[t] \in Nat /\ \A q \in Bufs : tot[q] \in Nat
    BY <1>1 DEF FieldsOK
  <1>6. /\ tot' \in [Bufs -> Nat]
        /\ \A q \in Bufs : tot'[q] = IF q \in Packet(h) THEN tot[q] + tot[t]
                                     ELSE tot[q]
    BY <1>5 DEF Added
  <1>7. FieldsOK'
    BY <1>1, <1>4, <1>6 DEF FieldsOK, Bufs
  <1>8. Acyclic'
    <2>1. ASSUME NEW T \in SUBSET Bufs, T # {}
          PROVE  \E q \in T : next'[q] \notin T
      <3>1. CASE T \cap Packet(t) # {}
        <4>1. PICK q \in T \cap Packet(t) : next[q] \notin T \cap Packet(t)
          <5>1. T \cap Packet(t) \in SUBSET Bufs
            OBVIOUS
          <5> QED
            BY <1>1, <3>1, <5>1 DEF Chained, Acyclic
        <4>2. next[q] # NULL => next[q] \in Packet(t)
          BY <1>1, <4>1, PacketClosed
        <4>3. next[q] \notin T
          BY <4>1, <4>2, Constants
        <4>4. next'[q] = next[q]
          BY <1>3, <1>4, <4>1
        <4> QED
          BY <4>1, <4>3, <4>4
      <3>2. CASE T \cap Packet(t) = {}
        <4>1. PICK q \in T : next[q] \notin T
          BY <1>1, <2>1 DEF Chained, Acyclic
        <4>2. next'[q] = t \/ next'[q] = next[q]
          BY <1>4
        <4> QED
          BY <1>3, <3>2, <4>1, <4>2
      <3> QED
        BY <3>1, <3>2
    <2> QED
      BY <2>1 DEF Acyclic, Bufs
  <1>9. LinksLive'
    <2>1. ASSUME NEW q \in live', next'[q] # NULL PROVE next'[q] \in live'
      BY <1>1, <1>4, <2>1 DEF Chained, LinksLive
    <2>2. ASSUME NEW q \in Bufs \ live' PROVE next'[q] = NULL /\ held'[q] = 0
      BY <1>1, <1>2, <1>4, <2>2 DEF Chained, LinksLive
    <2> QED
      BY <2>1, <2>2 DEF LinksLive, Bufs
  <1>10. Referred'
    BY <1>1 DEF IInv, Referred
  <1>11. RefsCounted'
    <2> SUFFICES ASSUME NEW q \in live'
                 PROVE  ref'[q] = held'[q] + Cardinality(LinkedTo(q)')
      BY DEF RefsCounted
    <2>1. /\ q \in live /\ q \in Bufs /\ ref[q] \in Nat /\ held[q] \in Nat
          /\ IsFiniteSet(LinkedTo(q)) /\ Cardinality(LinkedTo(q)) \in Nat
          /\ ref[q] = held[q] + Cardinality(LinkedTo(q))
      BY <1>1, LinksFinite DEF FieldsOK, IInv, RefsCounted
    <2>2. CASE q = t
      <3>1. LinkedTo(q)' = LinkedTo(q) \cup {z}
        BY <1>1, <1>2, <1>4, <2>2 DEF LinkedTo
      <3>2. z \notin LinkedTo(q)
        BY <1>2, <2>1, Constants DEF LinkedTo
      <3>3. Cardinality(LinkedTo(q)') = Cardinality(LinkedTo(q)) + 1
        BY <2>1, <3>1, <3>2, FS_AddElement
      <3>4. ref'[q] \in Nat /\ held'[q] \in Nat
        BY <2>1
      <3> QED
        BY <2>1, <2>2, <3>3, <3>4
    <2>3. CASE q # t
      <3>1. LinkedTo(q)' = LinkedTo(q)
        BY <1>1, <1>2, <1>4, <2>1, <2>3, Constants DEF LinkedTo
      <3> QED
        BY <2>1, <2>3, <3>1
    <2> QED
      BY <2>2, <2>3
  <1>12. TotalsAdd'
    <2> SUFFICES ASSUME NEW q \in live'
                 PROVE  tot'[q] = len'[q] + (IF next'[q] = NULL THEN 0
                                             ELSE tot'[next'[q]])
      BY DEF TotalsAdd
    <2>1. /\ q \in live /\ q \in Bufs /\ len[q] \in Nat /\ tot[q] \in Nat
          /\ tot[q] = len[q] + (IF next[q] = NULL THEN 0 ELSE tot[next[q]])
      BY <1>1 DEF FieldsOK, IInv, TotalsAdd
    <2>2. next[q] # NULL => next[q] \in Bufs /\ tot[next[q]] \in Nat
      BY <1>5, <2>1, NextOf, <1>1
    <2>3. CASE q = z
      <3>1. next'[q] = t /\ t # NULL /\ tot'[t] = tot[t]
        BY <1>1, <1>3, <1>4, <1>6, <2>1, <2>3, Constants
      <3>2. tot'[q] = tot[q] + tot[t] /\ tot[q] = len[q]
        BY <1>2, <1>6, <2>1, <2>3
      <3> QED
        BY <2>1, <3>1, <3>2
    <2>4. CASE q # z /\ q \in Packet(h)
      <3>1. next[q] # NULL /\ next'[q] = next[q] /\ next[q] \in Packet(h)
        BY <1>1, <1>2, <1>4, <2>1, <2>4, PacketClosed
      <3>2. /\ tot'[q] = tot[q] + tot[t]
            /\ tot'[next[q]] = tot[next[q]] + tot[t]
        BY <1>6, <2>1, <2>2, <2>4, <3>1
      <3> QED
        BY <1>5, <2>1, <2>2, <3>1, <3>2
    <2>5. CASE q \notin Packet(h)
      <3>1. next'[q] = next[q] /\ tot'[q] = tot[q]
        BY <1>2, <1>4, <1>6, <2>1, <2>5
      <3>2. next[q] \notin Packet(h)
        BY <2>1, <2>5, OwnedAlone
      <3>3. next[q] # NULL => tot'[next[q]] = tot[next[q]]
        BY <1>6, <2>2, <3>2
      <3> QED
        BY <2>1, <3>1, <3>3
    <2> QED
      BY <2>3, <2>4, <2>5
  <1> QED
    BY <1>7, <1>8, <1>9, <1>10, <1>11, <1>12 DEF IInv, Chained

LEMMA CatKeeps ==
  ASSUME IInv, NEW h \in live, NEW t \in live, Cat(h, t)
  PROVE  IInv'
  <1>1. /\ t \in Bufs /\ ref \in [Bufs -> Nat] /\ held \in [Bufs -> Nat]
        /\ ref[t] > 0 /\ held[t] > 0
    BY DEF IInv, Chained, FieldsOK, Referred, Cat
  <1>2. held' = [held EXCEPT ![t] = @ - 1] /\ ref' = ref
    BY DEF Cat
  <1>3. held' \in [Bufs -> Nat] /\ held'[t] = held[t] - 1
        /\ \A q \in Bufs \ {t} : held'[q] = held[q]
    BY <1>1, <1>2
  <1>4. ref'[t] - held'[t] = ref[t] - held[t] + 1
    BY <1>1, <1>2, <1>3
  <1>5. /\ Owned(h) /\ Packet(h) \cap Packet(t) = {}
        /\ live' = live /\ len' = len /\ room' = room
        /\ tot' = Added(h, tot[t]) /\ next' = [next EXCEPT ![LastOf(h)] = t]
    BY DEF Cat
  <1> QED
    BY <1>1, <1>2, <1>3, <1>4, <1>5, JoinKeeps

LEMMA ChainKeeps ==
  ASSUME IInv, NEW h \in live, NEW t \in live, Chain(h, t)
  PROVE  IInv'
  <1>1. /\ t \in Bufs /\ ref \in [Bufs -> Nat] /\ held \in [Bufs -> Nat]
        /\ ref[t] > 0
    BY DEF IInv, Chained, FieldsOK, Referred
  <1>2. ref' = [ref EXCEPT ![t] = @ + 1] /\ held' = held
    BY DEF Chain
  <1>3. ref' \in [Bufs -> Nat] /\ ref'[t] = ref[t] + 1
        /\ \A q \in Bufs \ {t} : ref'[q] = ref[q]
    BY <1>1, <1>2
  <1>4. ref'[t] - held'[t] = ref[t] - held[t] + 1 /\ ref'[t] > 0
    BY <1>1, <1>2, <1>3
  <1>5. /\ Owned(h) /\ Packet(h) \cap Packet(t) = {}
        /\ live' = live /\ len' = len /\ room' = room
        /\ tot' = Added(h, tot[t]) /\ next' = [next EXCEPT ![LastOf(h)] = t]
    BY DEF Chain
  <1> QED
    BY <1>1, <1>2, <1>3, <1>4, <1>5, JoinKeeps

(***************************************************************************)
(* pbuf_header: the length of a first pbuf changes with its total.         *)
(***************************************************************************)
LEMMA FirstKeeps ==
  ASSUME IInv, NEW p \in live, First(p),
         live' = live, next' = next, ref' = ref, held' = held,
         FieldsOK', tot'[p] - len'[p] = tot[p] - len[p],
         \A q \in Bufs \ {p} : len'[q] = len[q] /\ tot'[q] = tot[q]
  PROVE  IInv'
  <1>1. FieldsOK /\ Acyclic /\ LinksLive /\ LinkedTo(p) = {}
    BY DEF IInv, Chained, First
  <1>2. Acyclic' /\ LinksLive' /\ Referred'
    BY <1>1 DEF IInv, Acyclic, LinksLive, Referred, Bufs
  <1>3. RefsCounted'
    BY DEF IInv, RefsCounted, LinkedTo
  <1>4. ASSUME NEW q \in live
        PROVE  tot'[q] = len'[q] + (IF next[q] = NULL THEN 0 ELSE tot'[next[q]])
    <2>1. /\ q \in Bufs /\ next[q] # p /\ next[q] \in Bufs \cup {NULL}
          /\ tot[q] = len[q] + (IF next[q] = NULL THEN 0 ELSE tot[next[q]])
      BY <1>1 DEF IInv, TotalsAdd, FieldsOK, LinkedTo
    <2>2. next[q] # NULL => /\ tot'[next[q]] = tot[next[q]]
                            /\ tot[next[q]] \in Nat
      BY <1>1, <2>1 DEF FieldsOK
    <2>3. /\ len[q] \in Nat /\ tot[q] \in Nat /\ len'[q] \in Nat /\ tot'[q] \in Nat
      BY <1>1, <2>1 DEF FieldsOK
    <2>4. tot'[q] - len'[q] = tot[q] - len[q]
      BY <2>1
    <2>5. CASE next[q] = NULL
      BY <2>1, <2>3, <2>4, <2>5
    <2>6. CASE next[q] # NULL
      BY <2>1, <2>2, <2>3, <2>4, <2>6
    <2> QED
      BY <2>5, <2>6
  <1>5. TotalsAdd'
    BY <1>4 DEF TotalsAdd
  <1> QED
    BY <1>2, <1>3, <1>5 DEF IInv, Chained

LEMMA AddHeaderKeeps ==
  ASSUME IInv, NEW p \in live, AddHeader(p)
  PROVE  IInv'
  <1>1. /\ FieldsOK /\ p \in Bufs /\ First(p)
        /\ room[p] \in Nat /\ room[p] > 0 /\ len[p] \in Nat /\ tot[p] \in Nat
    BY DEF IInv, Chained, FieldsOK, AddHeader
  <1>2. /\ room' = [room EXCEPT ![p] = @ - 1] /\ len' = [len EXCEPT ![p] = @ + 1]
        /\ tot' = [tot EXCEPT ![p] = @ + 1]
        /\ live' = live /\ next' = next /\ ref' = ref /\ held' = held
    BY DEF AddHeader
  <1>3. FieldsOK'
    BY <1>1, <1>2 DEF FieldsOK, Bufs
  <1>4. len'[p] = len[p] + 1 /\ tot'[p] = tot[p] + 1
        /\ \A q \in Bufs \ {p} : len'[q] = len[q] /\ tot'[q] = tot[q]
    BY <1>1, <1>2 DEF FieldsOK
  <1>5. tot'[p] - len'[p] = tot[p] - len[p]
    BY <1>1, <1>4
  <1> QED
    BY <1>1, <1>2, <1>3, <1>4, <1>5, FirstKeeps

LEMMA HideHeaderKeeps ==
  ASSUME IInv, NEW p \in live, HideHeader(p)
  PROVE  IInv'
  <1>1. /\ FieldsOK /\ p \in Bufs /\ First(p)
        /\ room[p] \in Nat /\ len[p] \in Nat /\ len[p] > 0 /\ tot[p] \in Nat
        /\ tot[p] = len[p] + (IF next[p] = NULL THEN 0 ELSE tot[next[p]])
        /\ next[p] # NULL => tot[next[p]] \in Nat
    BY DEF IInv, Chained, FieldsOK, TotalsAdd, HideHeader
  <1>2. /\ room' = IF p \in Rom THEN room ELSE [room EXCEPT ![p] = @ + 1]
        /\ len' = [len EXCEPT ![p] = @ - 1] /\ tot' = [tot EXCEPT ![p] = @ - 1]
        /\ live' = live /\ next' = next /\ ref' = ref /\ held' = held
    BY DEF HideHeader
  <1>3. len[p] - 1 \in Nat /\ tot[p] - 1 \in Nat
    BY <1>1
  <1>4. room' \in [Bufs -> Nat]
    BY <1>1, <1>2 DEF FieldsOK
  <1>5. len' \in [Bufs -> Nat] /\ tot' \in [Bufs -> Nat]
    BY <1>1, <1>2, <1>3 DEF FieldsOK
  <1>6. FieldsOK'
    BY <1>1, <1>2, <1>4, <1>5 DEF FieldsOK, Bufs
  <1>7. len'[p] = len[p] - 1 /\ tot'[p] = tot[p] - 1
        /\ \A q \in Bufs \ {p} : len'[q] = len[q] /\ tot'[q] = tot[q]
    BY <1>1, <1>2 DEF FieldsOK
  <1>8. tot'[p] - len'[p] = tot[p] - len[p]
    BY <1>1, <1>7
  <1> QED
    BY <1>1, <1>2, <1>6, <1>7, <1>8, FirstKeeps

(***************************************************************************)
(* pbuf_ref                                                                *)
(***************************************************************************)
LEMMA RefKeeps ==
  ASSUME IInv, NEW p \in live, Ref(p)
  PROVE  IInv'
  <1>1. /\ Chained /\ FieldsOK /\ p \in Bufs /\ p \in live
        /\ ref[p] \in Nat /\ held[p] \in Nat
    BY DEF IInv, Chained, FieldsOK
  <1>2. /\ ref' = [ref EXCEPT ![p] = @ + 1] /\ held' = [held EXCEPT ![p] = @ + 1]
        /\ live' = live /\ next' = next /\ len' = len /\ tot' = tot /\ room' = room
    BY DEF Ref
  <1>3. /\ ref'[p] = ref[p] + 1 /\ held'[p] = held[p] + 1
        /\ \A q \in Bufs \ {p} : ref'[q] = ref[q] /\ held'[q] = held[q]
    BY <1>1, <1>2 DEF FieldsOK
  <1>4. ref' \in [Bufs -> Nat] /\ held' \in [Bufs -> Nat]
    BY <1>1, <1>2 DEF FieldsOK
  <1>5. FieldsOK'
    BY <1>1, <1>2, <1>4 DEF FieldsOK, Bufs
  <1>6. Acyclic' /\ LinksLive'
    BY <1>1, <1>2, <1>3 DEF Chained, Acyclic, LinksLive, Bufs
  <1>7. Referred' /\ RefsCounted'
    <2>1. ASSUME NEW q \in live
          PROVE  ref'[q] > 0 /\ ref'[q] = held'[q] + Cardinality(LinkedTo(q))
      <3>1. /\ q \in Bufs /\ ref[q] > 0 /\ ref[q] \in Nat /\ held[q] \in Nat
            /\ ref[q] = held[q] + Cardinality(LinkedTo(q))
            /\ Cardinality(LinkedTo(q)) \in Nat
        BY <1>1, LinksFinite DEF FieldsOK, IInv, Referred, RefsCounted
      <3> QED
        BY <1>1, <1>3, <3>1
    <2> QED
      BY <1>2, <2>1 DEF Referred, RefsCounted, LinkedTo
  <1>8. TotalsAdd'
    BY <1>2 DEF IInv, TotalsAdd
  <1> QED
    BY <1>5, <1>6, <1>7, <1>8 DEF IInv, Chained

-----------------------------------------------------------------------------
(***************************************************************************)
(* The links make a chain of the pbufs in fresh, from first on.            *)
(***************************************************************************)
ChainOf(fresh, first, links) ==
  /\ \A q \in fresh : links[q] \in (fresh \ {first}) \cup {NULL}
  /\ \A q \in fresh \ {first} : \E e \in fresh : links[e] = q
  /\ \A d, e \in fresh : links[d] = links[e] /\ links[d] # NULL => d = e
  /\ \A T \in SUBSET fresh : T # {} => \E q \in T : links[q] \notin T

(***************************************************************************)
(* Pbufs that were free become a packet of a new client.                   *)
(***************************************************************************)
LEMMA AllocKeeps ==
  ASSUME IInv, NEW fresh, fresh \subseteq Bufs \ live, NEW first \in fresh,
         FieldsOK', live' = live \cup fresh,
         \A q \in Bufs \ fresh : /\ next'[q] = next[q] /\ ref'[q] = ref[q]
                                 /\ held'[q] = held[q] /\ len'[q] = len[q]
                                 /\ tot'[q] = tot[q],
         \A q \in fresh :
           /\ ref'[q] = 1 /\ held'[q] = IF q = first THEN 1 ELSE 0
           /\ tot'[q] = len'[q] + IF next'[q] = NULL THEN 0 ELSE tot'[next'[q]],
         ChainOf(fresh, first, next')
  PROVE  IInv'
  <1>1. /\ Chained /\ FieldsOK /\ Acyclic /\ LinksLive
        /\ live \subseteq Bufs /\ fresh \subseteq Bufs /\ fresh \cap live = {}
    BY DEF IInv, Chained, FieldsOK
  <1>2. \A q \in Bufs : next[q] \notin fresh
    BY <1>1, Constants DEF LinksLive
  <1>3. Acyclic'
    <2>1. ASSUME NEW T \in SUBSET Bufs, T # {}
          PROVE  \E q \in T : next'[q] \notin T
      <3>1. CASE T \ fresh = {}
        BY <2>1, <3>1 DEF ChainOf
      <3>2. CASE T \ fresh # {}
        <4>1. PICK q \in T \ fresh : next[q] \notin T \ fresh
          <5>1. T \ fresh \in SUBSET Bufs
            OBVIOUS
          <5> QED
            BY <1>1, <3>2, <5>1 DEF Acyclic
        <4>2. next[q] \notin T /\ next'[q] = next[q]
          BY <1>2, <4>1
        <4> QED
          BY <4>1, <4>2
      <3> QED
        BY <3>1, <3>2
    <2> QED
      BY <2>1 DEF Acyclic, Bufs
  <1>4. LinksLive'
    <2>1. ASSUME NEW q \in live', next'[q] # NULL PROVE next'[q] \in live'
      <3>1. CASE q \in fresh
        BY <2>1, <3>1 DEF ChainOf
      <3>2. CASE q \notin fresh
        <4>1. q \in live /\ q \in Bufs /\ next'[q] = next[q]
          BY <1>1, <3>2
        <4> QED
          BY <1>1, <2>1, <4>1 DEF LinksLive
      <3> QED
        BY <3>1, <3>2
    <2>2. ASSUME NEW q \in Bufs \ live' PROVE next'[q] = NULL /\ held'[q] = 0
      BY <1>1 DEF LinksLive
    <2> QED
      BY <2>1, <2>2 DEF LinksLive, Bufs
  <1>5. Referred'
    <2>1. ASSUME NEW q \in live PROVE ref'[q] > 0
      BY <1>1 DEF IInv, Referred
    <2> QED
      BY <2>1 DEF Referred
  <1>6. RefsCounted'
    <2> SUFFICES ASSUME NEW q \in live'
                 PROVE  ref'[q] = held'[q] + Cardinality(LinkedTo(q)')
      BY DEF RefsCounted
    <2>1. q \in Bufs /\ q # NULL
      BY <1>1, Constants
    <2>2. CASE q \in fresh
      <3>1. ASSUME NEW e \in LinkedTo(q)' PROVE e \in fresh /\ next'[e] = q
        <4>1. e \in live' /\ next'[e] = q
          BY DEF LinkedTo
        <4>2. CASE e \notin fresh
          <5>1. e \in Bufs /\ next'[e] = next[e]
            BY <1>1, <4>1, <4>2
          <5> QED
            BY <1>2, <2>2, <4>1, <5>1
        <4> QED
          BY <4>1, <4>2
      <3>2. CASE q = first
        <4>1. LinkedTo(q)' = {}
          BY <2>1, <3>1, <3>2 DEF ChainOf
        <4>2. Cardinality(LinkedTo(q)') = 0
          BY <4>1, FS_EmptySet
        <4> QED
          BY <2>2, <3>2, <4>2
      <3>3. CASE q # first
        <4>1. PICK e \in fresh : next'[e] = q
          BY <2>2, <3>3 DEF ChainOf
        <4>2. e \in LinkedTo(q)'
          BY <4>1 DEF LinkedTo
        <4>3. \A d \in LinkedTo(q)' : d = e
          BY <2>1, <3>1, <4>1 DEF ChainOf
        <4>4. LinkedTo(q)' = {e}
          BY <4>2, <4>3
        <4>5. Cardinality(LinkedTo(q)') = 1
          BY <4>4, FS_Singleton
        <4> QED
          BY <2>2, <3>3, <4>5
      <3> QED
        BY <3>2, <3>3
    <2>3. CASE q \notin fresh
      <3>1. q \in live
        BY <2>3
      <3>2. LinkedTo(q)' = LinkedTo(q)
        <4>1. ASSUME NEW e \in LinkedTo(q)' PROVE e \in LinkedTo(q)
          <5>1. e \in live' /\ next'[e] = q
            BY DEF LinkedTo
          <5>2. e \notin fresh
            BY <2>1, <2>3, <5>1 DEF ChainOf
          <5>3. e \in live /\ e \in Bufs
            BY <1>1, <5>1, <5>2
          <5> QED
            BY <5>1, <5>2, <5>3 DEF LinkedTo
        <4>2. ASSUME NEW e \in LinkedTo(q) PROVE e \in LinkedTo(q)'
          <5>1. e \in live /\ e \in Bufs /\ e \notin fresh /\ next[e] = q
            BY <1>1 DEF LinkedTo
          <5> QED
            BY <5>1 DEF LinkedTo
        <4> QED
          BY <4>1, <4>2
      <3>3. ref[q] = held[q] + Cardinality(LinkedTo(q))
        BY <3>1 DEF IInv, RefsCounted
      <3> QED
        BY <2>1, <2>3, <3>2, <3>3
    <2> QED
      BY <2>2, <2>3
  <1>7. TotalsAdd'
    <2> SUFFICES ASSUME NEW q \in live'
                 PROVE  tot'[q] = len'[q] + (IF next'[q] = NULL THEN 0
                                             ELSE tot'[next'[q]])
      BY DEF TotalsAdd
    <2>1. CASE q \in fresh
      BY <2>1
    <2>2. CASE q \notin fresh
      <3>1. q \in live /\ q \in Bufs
        BY <1>1, <2>2
      <3>2. next'[q] = next[q] /\ len'[q] = len[q] /\ tot'[q] = tot[q]
        BY <2>2, <3>1
      <3>3. next[q] # NULL => tot'[next[q]] = tot[next[q]]
        <4>1. next[q] # NULL => next[q] \in Bufs \ fresh
          BY <1>1, <1>2, <3>1, NextOf
        <4> QED
          BY <4>1
      <3> QED
        BY <3>1, <3>2, <3>3 DEF IInv, TotalsAdd
    <2> QED
      BY <2>1, <2>2
  <1> QED
    BY <1>3, <1>4, <1>5, <1>6, <1>7 DEF IInv, Chained

(***************************************************************************)
(* pbuf_alloc of a single pbuf                                             *)
(***************************************************************************)
LEMMA AllocSingleKeeps ==
  ASSUME IInv, NEW length \in Lengths, NEW offset \in Offsets,
         NEW p \in Ram \cup Rom, AllocSingle(p, length, offset)
  PROVE  IInv'
  <1>1. /\ FieldsOK /\ p \in Bufs /\ p \notin live
        /\ length \in Nat /\ offset \in Nat /\ next[p] = NULL
    BY Constants DEF IInv, Chained, LinksLive, AllocSingle, Bufs, Offsets
  <1>2. /\ live' = live \cup {p} /\ next' = next /\ ref' = [ref EXCEPT ![p] = 1]
        /\ len' = [len EXCEPT ![p] = length] /\ tot' = [tot EXCEPT ![p] = length]
        /\ room' = [room EXCEPT ![p] = offset] /\ held' = [held EXCEPT ![p] = 1]
    BY DEF AllocSingle
  <1>3. FieldsOK'
    <2>1. /\ ref' \in [Bufs -> Nat] /\ len' \in [Bufs -> Nat]
          /\ tot' \in [Bufs -> Nat]
      BY <1>1, <1>2 DEF FieldsOK
    <2>2. /\ room' \in [Bufs -> Nat] /\ held' \in [Bufs -> Nat]
          /\ live' \subseteq Bufs /\ next' \in [Bufs -> Bufs \cup {NULL}]
      BY <1>1, <1>2 DEF FieldsOK
    <2> QED
      BY <2>1, <2>2 DEF FieldsOK, Bufs
  <1> DEFINE fresh == {p}
  <1>4. \A q \in Bufs \ fresh : /\ next'[q] = next[q] /\ ref'[q] = ref[q]
                                /\ held'[q] = held[q] /\ len'[q] = len[q]
                                /\ tot'[q] = tot[q]
    BY <1>1, <1>2 DEF FieldsOK
  <1>5. /\ ref'[p] = 1 /\ held'[p] = 1 /\ len'[p] = length /\ tot'[p] = length
        /\ next'[p] = NULL
    BY <1>1, <1>2 DEF FieldsOK
  <1>6. \A q \in fresh :
          /\ ref'[q] = 1 /\ held'[q] = IF q = p THEN 1 ELSE 0
          /\ tot'[q] = len'[q] + IF next'[q] = NULL THEN 0 ELSE tot'[next'[q]]
    BY <1>1, <1>5
  <1>7. /\ fresh \subseteq Bufs \ live /\ p \in fresh /\ live' = live \cup fresh
    BY <1>1, <1>2
  <1>8. ChainOf(fresh, p, next')
    <2>1. \A T \in SUBSET fresh : T # {} => \E q \in T : next'[q] \notin T
      BY <1>1, <1>5, Constants
    <2> QED
      BY <1>5, <2>1 DEF ChainOf
  <1> HIDE DEF fresh
  <1> QED
    BY <1>3, <1>4, <1>6, <1>7, <1>8, AllocKeeps

(***************************************************************************)
(* How a length is cut into pool pbufs.                                    *)
(***************************************************************************)
LEMMA Least ==
  ASSUME NEW T, T \subseteq Nat, T # {}
  PROVE  \E x \in T : \A y \in T : x <= y
  <1>1. PICK x \in T : \A y \in T : ~(<<y, x>> \in OpToRel(<, Nat))
    BY NatLessThanWellFounded, WFMin
  <1>2. ASSUME NEW y \in T PROVE x <= y
    <2>1. <<y, x>> \notin OpToRel(<, Nat)
      BY <1>1
    <2>2. x \in Nat /\ y \in Nat
      OBVIOUS
    <2>3. ~(y < x)
      BY <2>1, <2>2 DEF OpToRel
    <2> QED
      BY <2>2, <2>3
  <1> QED
    BY <1>2

LEMMA Greatest ==
  ASSUME NEW n \in Nat, NEW T, T \subseteq 1 .. n, T # {}
  PROVE  \E x \in T : \A y \in T : y <= x
  <1> DEFINE left == {n - i : i \in T}
  <1>1. left \subseteq Nat /\ left # {}
    <2>1. \A i \in T : n - i \in Nat
      OBVIOUS
    <2> QED
      BY <2>1
  <1>2. PICK l \in left : \A k \in left : l <= k
    <2> HIDE DEF left
    <2> QED
      BY <1>1, Least
  <1>3. PICK x \in T : l = n - x
    BY <1>2
  <1>4. ASSUME NEW y \in T PROVE y <= x
    <2>1. n - x <= n - y
      BY <1>2, <1>3
    <2>2. x \in Int /\ y \in Int
      OBVIOUS
    <2> QED
      BY <2>1, <2>2
  <1> QED
    BY <1>4

LEMMA CutIs ==
  ASSUME NEW length \in Nat, length > 0, NEW offset \in Offsets
  PROVE  LET n == ChainLength(length, offset)
         IN  /\ n \in Nat /\ n >= 1 /\ Cut(length, offset, n) = length
             /\ Cut(length, offset, 0) = 0
             /\ \A i \in Nat : /\ Cut(length, offset, i) \in Nat
                               /\ Cut(length, offset, i) <= length
                               /\ Cut(length, offset, i) <= Cut(length, offset, i + 1)
  <1> DEFINE C(i) == Cut(length, offset, i)
             upto(i) == BufSize - offset + (i - 1) * BufSize
  <1>1. BufSize \in Nat /\ BufSize > 1 /\ BufSize - offset \in Nat
    BY Constants DEF Offsets
  <1>2. C(0) = 0
    BY DEF Cut
  <1>3. ASSUME NEW i \in Nat, i > 0
        PROVE  /\ upto(i) \in Nat /\ upto(i) <= upto(i + 1)
               /\ C(i) = IF upto(i) < length THEN upto(i) ELSE length
    <2>1. i - 1 \in Nat /\ (i - 1) * BufSize \in Nat
      BY <1>1, <1>3
    <2>2. upto(i) \in Nat
      BY <1>1, <2>1
    <2>3. (i + 1 - 1) * BufSize = (i - 1) * BufSize + BufSize
      BY <1>1
    <2>4. upto(i) <= upto(i + 1)
      BY <1>1, <2>1, <2>3
    <2>5. C(i) = IF upto(i) < length THEN upto(i) ELSE length
      BY <1>3 DEF Cut
    <2> QED
      BY <2>2, <2>4, <2>5
  <1>4. ASSUME NEW i \in Nat
        PROVE  C(i) \in Nat /\ C(i) <= length /\ C(i) <= C(i + 1)
    <2>1. CASE i = 0
      <3>1. /\ upto(1) \in Nat
            /\ C(1) = IF upto(1) < length THEN upto(1) ELSE length
        BY <1>3
      <3>2. C(i) = 0 /\ C(i + 1) = C(1)
        BY <1>2, <2>1
      <3> HIDE DEF C, upto
      <3> QED
        BY <3>1, <3>2
    <2>2. CASE i > 0
      <3>1. /\ upto(i) \in Nat /\ upto(i) <= upto(i + 1)
            /\ C(i) = IF upto(i) < length THEN upto(i) ELSE length
        BY <1>3, <2>2
      <3>2. i + 1 \in Nat /\ i + 1 > 0
        BY <2>2
      <3>3. /\ upto(i + 1) \in Nat
            /\ C(i + 1) = IF upto(i + 1) < length THEN upto(i + 1) ELSE length
        BY <1>3, <3>2
      <3> HIDE DEF C, upto
      <3> QED
        BY <3>1, <3>3
    <2> QED
      BY <2>1, <2>2
  <1>5. \E n \in 1 .. length + 1 : C(n) = length /\ C(n - 1) < length
    <2> DEFINE full == {n \in 1 .. length + 1 : C(n) = length}
    <2>1. length + 1 \in full
      <3>1. length * BufSize >= length
        BY <1>1
      <3>2. upto(length + 1) = BufSize - offset + length * BufSize
        OBVIOUS
      <3>3. /\ length + 1 \in Nat /\ length + 1 > 0
            /\ length * BufSize \in Nat
        BY <1>1
      <3>4. C(length + 1) = IF upto(length + 1) < length THEN upto(length + 1)
                            ELSE length
        BY <1>3, <3>3
      <3>5. ~(upto(length + 1) < length)
        BY <1>1, <3>1, <3>2, <3>3
      <3>6. C(length + 1) = length
        BY <3>4, <3>5
      <3> QED
        BY <3>3, <3>6
    <2>2. full \subseteq Nat
      OBVIOUS
    <2>3. PICK n \in full : \A k \in full : n <= k
      <3> HIDE DEF full
      <3> QED
        BY <2>1, <2>2, Least
    <2>4. n \in 1 .. length + 1 /\ C(n) = length
      OBVIOUS
    <2>5. C(n - 1) # length
      <3>1. CASE n = 1
        BY <1>2, <3>1
      <3>2. CASE n # 1
        <4>1. n - 1 \in 1 .. length + 1 /\ ~(n <= n - 1)
          BY <2>4, <3>2
        <4>2. n - 1 \notin full
          BY <2>3, <4>1
        <4> HIDE DEF C
        <4> QED
          BY <4>1, <4>2
      <3> QED
        BY <3>1, <3>2
    <2>6. n - 1 \in Nat
      BY <2>4
    <2>7. C(n - 1) \in Nat /\ C(n - 1) <= length
      BY <1>4, <2>6
    <2> HIDE DEF C, full
    <2>8. C(n - 1) < length
      BY <2>5, <2>7
    <2> QED
      BY <2>4, <2>8
  <1> DEFINE n == ChainLength(length, offset)
  <1>6. n \in 1 .. length + 1 /\ C(n) = length
    BY <1>5 DEF ChainLength
  <1> HIDE DEF n
  <1>7. n \in Nat /\ n >= 1
    BY <1>6
  <1> QED
    BY <1>2, <1>4, <1>6, <1>7 DEF n


(***************************************************************************)
(* pbuf_alloc of a chain from the pool                                     *)
(***************************************************************************)
LEMMA AllocPoolKeeps ==
  ASSUME IInv, NEW length \in Lengths, NEW offset \in Offsets,
         AllocPool(length, offset)
  PROVE  IInv'
  <1> DEFINE n == ChainLength(length, offset)
             C(i) == Cut(length, offset, i)
  <1>1. /\ FieldsOK /\ length \in Nat /\ length > 0 /\ offset \in Nat
    BY Constants DEF IInv, Chained, Offsets
  <1>2. /\ n \in Nat /\ n >= 1 /\ C(n) = length /\ C(0) = 0
        /\ \A i \in Nat : C(i) \in Nat /\ C(i) <= length /\ C(i) <= C(i + 1)
    BY <1>1, CutIs
  <1>3. PICK chain \in [1 .. n -> Pool \ live] :
          /\ IsInjective(chain)
          /\ live' = live \cup ToSet(chain)
          /\ ref' = Fill(ref, chain, LAMBDA i : 1)
          /\ next' = Fill(next, chain,
                          LAMBDA i : IF i = n THEN NULL ELSE chain[i + 1])
          /\ len' = Fill(len, chain, LAMBDA i : C(i) - C(i - 1))
          /\ tot' = Fill(tot, chain, LAMBDA i : length - C(i - 1))
          /\ room' = Fill(room, chain, LAMBDA i : IF i = 1 THEN offset ELSE 0)
          /\ held' = [held EXCEPT ![chain[1]] = 1]
    BY DEF AllocPool
  <1> DEFINE fresh == ToSet(chain)
             At(q) == CHOOSE i \in DOMAIN chain : chain[i] = q
  <1>4. /\ DOMAIN chain = 1 .. n
        /\ \A i \in 1 .. n : chain[i] \in fresh
        /\ \A q \in fresh : \E i \in 1 .. n : q = chain[i]
        /\ \A i, j \in 1 .. n : chain[i] = chain[j] => i = j
        /\ fresh \subseteq Bufs \ live
    <2>1. DOMAIN chain = 1 .. n
      BY <1>3
    <2>2. fresh = {chain[i] : i \in 1 .. n}
      BY <2>1 DEF ToSet
    <2> HIDE DEF n
    <2>3. \A i \in 1 .. n : chain[i] \in Pool \ live
      BY <1>3
    <2> QED
      BY <1>3, <2>1, <2>2, <2>3 DEF IsInjective, Bufs
  <1>5. \A i \in 1 .. n : At(chain[i]) = i
    <2> HIDE DEF n
    <2> QED
      BY <1>4
  <1>6. \A i \in 1 .. n :
          /\ i \in Nat /\ i - 1 \in Nat /\ i <= n /\ i >= 1
          /\ i # n => i + 1 \in 1 .. n
          /\ C(i) \in Nat /\ C(i - 1) \in Nat
          /\ C(i - 1) <= C(i) /\ C(i - 1) <= length
    <2> HIDE DEF n, C
    <2>1. ASSUME NEW i \in 1 .. n
          PROVE  i \in Nat /\ i - 1 \in Nat /\ i <= n /\ i >= 1 /\ i - 1 + 1 = i
                 /\ (i # n => i + 1 \in 1 .. n)
      BY <1>2
    <2>2. ASSUME NEW i \in 1 .. n
          PROVE  C(i) \in Nat /\ C(i - 1) \in Nat
                 /\ C(i - 1) <= C(i - 1 + 1) /\ C(i - 1) <= length
      BY <1>2, <2>1
    <2> QED
      BY <2>1, <2>2
  <1>7. /\ \A q \in fresh : q \in Bufs
        /\ live' = live \cup fresh
        /\ ref' = [q \in Bufs |-> IF q \in fresh THEN 1 ELSE ref[q]]
        /\ next' = [q \in Bufs |-> IF q \in fresh
                                     THEN IF At(q) = n THEN NULL ELSE chain[At(q) + 1]
                                     ELSE next[q]]
        /\ len' = [q \in Bufs |-> IF q \in fresh THEN C(At(q)) - C(At(q) - 1)
                                  ELSE len[q]]
        /\ tot' = [q \in Bufs |-> IF q \in fresh THEN length - C(At(q) - 1)
                                  ELSE tot[q]]
        /\ room' = [q \in Bufs |-> IF q \in fresh
                                     THEN IF At(q) = 1 THEN offset ELSE 0
                                     ELSE room[q]]
    BY <1>3, <1>4 DEF Fill
  <1>8. held' = [held EXCEPT ![chain[1]] = 1]
    BY <1>3
  <1> HIDE DEF n, C, fresh, At
  <1>9. \A q \in fresh : At(q) \in 1 .. n /\ chain[At(q)] = q
    BY <1>4, <1>5
  <1> DEFINE first == chain[1]
  <1>10. first \in fresh /\ first \in Bufs /\ At(first) = 1
    <2>1. 1 \in 1 .. n
      BY <1>2
    <2> QED
      BY <1>4, <1>5, <1>7, <2>1
  <1>11. FieldsOK'
    <2>1. ref' \in [Bufs -> Nat]
      BY <1>1, <1>7 DEF FieldsOK
    <2>2. next' \in [Bufs -> Bufs \cup {NULL}]
      <3>1. ASSUME NEW q \in fresh, At(q) # n PROVE chain[At(q) + 1] \in Bufs
        <4>1. At(q) + 1 \in 1 .. n
          BY <1>6, <1>9, <3>1
        <4> QED
          BY <1>4, <1>7, <4>1
      <3> QED
        BY <1>1, <1>7, <3>1 DEF FieldsOK
    <2>3. len' \in [Bufs -> Nat]
      <3>1. ASSUME NEW q \in fresh PROVE C(At(q)) - C(At(q) - 1) \in Nat
        <4>1. /\ C(At(q)) \in Nat /\ C(At(q) - 1) \in Nat
              /\ C(At(q) - 1) <= C(At(q))
          BY <1>6, <1>9
        <4> QED
          BY <4>1
      <3> QED
        BY <1>1, <1>7, <3>1 DEF FieldsOK
    <2>4. tot' \in [Bufs -> Nat]
      <3>1. ASSUME NEW q \in fresh PROVE length - C(At(q) - 1) \in Nat
        <4>1. C(At(q) - 1) \in Nat /\ C(At(q) - 1) <= length
          BY <1>6, <1>9
        <4> QED
          BY <1>1, <4>1
      <3> QED
        BY <1>1, <1>7, <3>1 DEF FieldsOK
    <2>5. room' \in [Bufs -> Nat]
      BY <1>1, <1>7 DEF FieldsOK
    <2>6. held' \in [Bufs -> Nat]
      BY <1>1, <1>8 DEF FieldsOK
    <2>7. live' \subseteq Bufs
      BY <1>1, <1>7 DEF FieldsOK
    <2> QED
      BY <2>1, <2>2, <2>3, <2>4, <2>5, <2>6, <2>7 DEF FieldsOK, Bufs
  <1>12. \A q \in Bufs \ fresh : /\ next'[q] = next[q] /\ ref'[q] = ref[q]
                                 /\ held'[q] = held[q] /\ len'[q] = len[q]
                                 /\ tot'[q] = tot[q]
    <2>1. \A q \in Bufs \ fresh : held'[q] = held[q]
      BY <1>1, <1>8, <1>10 DEF FieldsOK
    <2> QED
      BY <1>7, <2>1
  <1>13. \A q \in fresh :
           /\ q \in Bufs /\ ref'[q] = 1
           /\ next'[q] = IF At(q) = n THEN NULL ELSE chain[At(q) + 1]
           /\ len'[q] = C(At(q)) - C(At(q) - 1)
           /\ tot'[q] = length - C(At(q) - 1)
    BY <1>7
  <1>14. ASSUME NEW q \in fresh PROVE held'[q] = IF q = first THEN 1 ELSE 0
    <2>1. q \in Bufs \ live
      BY <1>4
    <2>2. held[q] = 0
      BY <2>1 DEF IInv, Chained, LinksLive
    <2> QED
      BY <1>1, <1>8, <1>10, <2>1, <2>2 DEF FieldsOK
  <1>15. ASSUME NEW q \in fresh, At(q) # n
         PROVE  /\ At(q) + 1 \in 1 .. n /\ next'[q] = chain[At(q) + 1]
                /\ next'[q] \in fresh /\ At(next'[q]) = At(q) + 1
                /\ next'[q] # NULL
    <2>1. At(q) + 1 \in 1 .. n
      BY <1>6, <1>9, <1>15
    <2>2. next'[q] = chain[At(q) + 1]
      BY <1>13, <1>15
    <2> QED
      BY <1>4, <1>5, <1>13, <2>1, <2>2, Constants
  <1>16. ASSUME NEW q \in fresh
         PROVE  tot'[q] = len'[q] + IF next'[q] = NULL THEN 0 ELSE tot'[next'[q]]
    <2>1. /\ len'[q] = C(At(q)) - C(At(q) - 1) /\ tot'[q] = length - C(At(q) - 1)
          /\ C(At(q)) \in Nat /\ C(At(q) - 1) \in Nat /\ At(q) \in Nat
      BY <1>6, <1>9, <1>13
    <2>2. CASE At(q) = n
      <3>1. next'[q] = NULL /\ C(At(q)) = length
        BY <1>2, <1>13, <2>2
      <3> QED
        BY <1>1, <2>1, <3>1
    <2>3. CASE At(q) # n
      <3>1. next'[q] \in fresh /\ At(next'[q]) = At(q) + 1 /\ next'[q] # NULL
        BY <1>15, <2>3
      <3>2. At(next'[q]) - 1 = At(q)
        BY <2>1, <3>1
      <3>3. tot'[next'[q]] = length - C(At(q))
        BY <1>13, <3>1, <3>2
      <3> QED
        BY <1>1, <2>1, <3>1, <3>3
    <2> QED
      BY <2>2, <2>3
  <1>17. ChainOf(fresh, first, next')
    <2>1. ASSUME NEW q \in fresh
          PROVE  next'[q] \in (fresh \ {first}) \cup {NULL}
      <3>1. CASE At(q) = n
        BY <1>13, <3>1
      <3>2. CASE At(q) # n
        <4>1. next'[q] \in fresh /\ At(next'[q]) = At(q) + 1
          BY <1>15, <3>2
        <4>2. At(q) + 1 # 1
          BY <1>6, <1>9
        <4> QED
          BY <1>10, <4>1, <4>2
      <3> QED
        BY <3>1, <3>2
    <2>2. ASSUME NEW q \in fresh \ {first}
          PROVE  \E e \in fresh : next'[e] = q
      <3>1. At(q) \in 1 .. n /\ At(q) # 1
        BY <1>9
      <3>2. At(q) - 1 \in 1 .. n /\ At(q) - 1 # n /\ At(q) - 1 + 1 = At(q)
        <4>1. n \in Nat
          BY <1>2
        <4>2. ASSUME NEW i \in 1 .. n, i # 1
              PROVE  i - 1 \in 1 .. n /\ i - 1 # n /\ i - 1 + 1 = i
          BY <4>1, <4>2
        <4> QED
          BY <3>1, <4>2
      <3>3. chain[At(q) - 1] \in fresh /\ At(chain[At(q) - 1]) = At(q) - 1
        BY <1>4, <1>5, <3>2
      <3>4. next'[chain[At(q) - 1]] = chain[At(q)]
        BY <1>13, <3>2, <3>3
      <3> QED
        BY <1>9, <3>3, <3>4
    <2>3. ASSUME NEW d \in fresh, NEW e \in fresh, next'[d] = next'[e],
                 next'[d] # NULL
          PROVE  d = e
      <3>1. At(d) # n /\ At(e) # n
        BY <1>13, <2>3
      <3>2. At(d) + 1 = At(e) + 1
        BY <1>15, <2>3, <3>1
      <3>3. At(d) = At(e)
        BY <1>6, <1>9, <3>2
      <3> QED
        BY <1>9, <3>3
    <2>4. ASSUME NEW T \in SUBSET fresh, T # {}
          PROVE  \E q \in T : next'[q] \notin T
      <3> DEFINE places == {i \in 1 .. n : chain[i] \in T}
      <3>1. places \subseteq 1 .. n /\ places # {}
        BY <1>9, <2>4
      <3>2. PICK i \in places : \A j \in places : j <= i
        <4> HIDE DEF places
        <4> QED
          BY <1>2, <3>1, Greatest
      <3>3. i \in 1 .. n /\ chain[i] \in T /\ chain[i] \in fresh
            /\ At(chain[i]) = i
        BY <1>5
      <3>4. CASE i = n
        <4>1. next'[chain[i]] = NULL
          BY <1>13, <3>3, <3>4
        <4>2. NULL \notin T
          BY <1>13, Constants
        <4> QED
          BY <3>3, <4>1, <4>2
      <3>5. CASE i # n
        <4>1. i + 1 \in 1 .. n /\ next'[chain[i]] = chain[i + 1]
          BY <1>15, <3>3, <3>5
        <4>2. ~(i + 1 <= i)
          BY <3>3
        <4>3. i + 1 \notin places
          BY <3>2, <4>2
        <4> QED
          BY <3>3, <4>1, <4>3
      <3> QED
        BY <3>4, <3>5
    <2> QED
      BY <2>1, <2>2, <2>3, <2>4 DEF ChainOf
  <1> HIDE DEF first
  <1>18. \A q \in fresh :
           /\ ref'[q] = 1 /\ held'[q] = IF q = first THEN 1 ELSE 0
           /\ tot'[q] = len'[q] + IF next'[q] = NULL THEN 0 ELSE tot'[next'[q]]
    BY <1>13, <1>14, <1>16
  <1>19. fresh \subseteq Bufs \ live /\ live' = live \cup fresh
    BY <1>4, <1>7
  <1> QED
    BY <1>10, <1>11, <1>12, <1>17, <1>18, <1>19, AllocKeeps

-----------------------------------------------------------------------------
(***************************************************************************)
(* The sequence of a packet's pbufs: each links to the one after it.       *)
(***************************************************************************)
LEMMA Prepended ==
  ASSUME NEW x \in Bufs, NEW t \in Seq(Bufs)
  PROVE  LET s == <<x>> \o t
         IN  /\ s \in Seq(Bufs) /\ Len(s) = Len(t) + 1 /\ s[1] = x
             /\ \A i \in 1 .. Len(t) : s[i + 1] = t[i]
  OBVIOUS

SequelOK(x) ==
  LET s == Sequel(x)
  IN  /\ s \in Seq(Bufs) /\ Len(s) >= 1 /\ s[1] = x
      /\ \A i \in 1 .. Len(s) : i < Len(s) => next[s[i]] = s[i + 1]
      /\ next[s[Len(s)]] = NULL
      /\ \A i, j \in 1 .. Len(s) : s[i] = s[j] => i = j

LEMMA SequelLinks ==
  ASSUME Chained, NEW p \in Bufs
  PROVE  SequelOK(p)
  <1> DEFINE bad == {x \in Bufs : ~SequelOK(x)}
  <1>1. SUFFICES ASSUME bad # {} PROVE FALSE
    OBVIOUS
  <1>2. PICK x \in bad : next[x] \in (Bufs \ bad) \cup {NULL}
    <2>1. bad \subseteq Bufs
      OBVIOUS
    <2> HIDE DEF bad
    <2> QED
      BY <1>1, <2>1, Lowest
  <1>3. x \in Bufs /\ ~SequelOK(x)
    OBVIOUS
  <1> DEFINE s == Sequel(x)
             t == Sequel(next[x])
  <1>4. /\ t \in Seq(Bufs) /\ s = <<x>> \o t
    BY <1>3, SequelIs, SequelSeq, NextOf
  <1>5. /\ s \in Seq(Bufs) /\ Len(s) = Len(t) + 1 /\ s[1] = x
        /\ \A i \in 1 .. Len(t) : s[i + 1] = t[i]
        /\ Len(t) \in Nat
    <2> HIDE DEF s, t
    <2>1. Len(t) \in Nat
      BY <1>4
    <2> QED
      BY <1>3, <1>4, <2>1, Prepended
  <1>6. CASE next[x] = NULL
    <2>1. t = <<>>
      BY <1>6, SequelIs
    <2>2. Len(s) = 1
      BY <1>5, <2>1
    <2> HIDE DEF s
    <2>3. \A i \in 1 .. Len(s) : i = 1
      BY <2>2
    <2>4. \A i, j \in 1 .. Len(s) : i = j
      BY <2>3
    <2>5. \A i \in 1 .. Len(s) : ~(i < Len(s))
      BY <2>2
    <2>6. next[s[Len(s)]] = NULL /\ Len(s) >= 1
      BY <1>5, <1>6, <2>2
    <2>7. SequelOK(x)
      BY <1>5, <2>4, <2>5, <2>6 DEF SequelOK, s
    <2> QED
      BY <1>3, <2>7
  <1>7. CASE next[x] # NULL
    <2>1. SequelOK(next[x])
      BY <1>2, <1>7
    <2>2. /\ Len(t) >= 1 /\ t[1] = next[x]
          /\ \A i \in 1 .. Len(t) : i < Len(t) => next[t[i]] = t[i + 1]
          /\ next[t[Len(t)]] = NULL
          /\ \A i, j \in 1 .. Len(t) : t[i] = t[j] => i = j
      BY <2>1 DEF SequelOK
    <2>3. \A i \in 1 .. Len(t) : t[i] # x
      <3>1. x \notin Packet(next[x])
        BY <1>3, NotAfterItself
      <3>2. \A i \in 1 .. Len(t) : t[i] \in Packet(next[x])
        BY <1>4 DEF Packet, ToSet
      <3> QED
        BY <3>1, <3>2
    <2> HIDE DEF s, t
    <2>4. ASSUME NEW i \in 1 .. Len(s)
          PROVE  i = 1 \/ (i - 1 \in 1 .. Len(t) /\ s[i] = t[i - 1])
      <3>1. CASE i # 1
        <4>1. i - 1 \in 1 .. Len(t) /\ i - 1 + 1 = i
          BY <1>5, <3>1
        <4>2. s[i - 1 + 1] = t[i - 1]
          BY <1>5, <4>1
        <4> QED
          BY <4>1, <4>2
      <3> QED
        BY <3>1
    <2>5. ASSUME NEW i \in 1 .. Len(s), i < Len(s)
          PROVE  next[s[i]] = s[i + 1]
      <3>0. s[i + 1] = t[i]
        <4>1. i \in 1 .. Len(t)
          BY <1>5, <2>5
        <4> QED
          BY <1>5, <4>1
      <3>1. CASE i = 1
        BY <1>5, <2>2, <3>0, <3>1
      <3>2. CASE i # 1
        <4>1. i - 1 \in 1 .. Len(t) /\ s[i] = t[i - 1]
          BY <2>4, <3>2
        <4>2. i - 1 < Len(t) /\ i - 1 + 1 = i
          BY <1>5, <2>5
        <4>3. next[t[i - 1]] = t[i - 1 + 1]
          BY <2>2, <4>1, <4>2
        <4> QED
          BY <3>0, <4>1, <4>2, <4>3
      <3> QED
        BY <3>1, <3>2
    <2>6. next[s[Len(s)]] = NULL
      <3>1. Len(t) \in 1 .. Len(t)
        BY <1>5, <2>2
      <3>2. s[Len(s)] = t[Len(t)]
        BY <1>5, <3>1
      <3> QED
        BY <2>2, <3>2
    <2>7. ASSUME NEW i \in 1 .. Len(s), NEW j \in 1 .. Len(s), s[i] = s[j]
          PROVE  i = j
      <3>1. CASE i = 1 /\ j = 1
        BY <3>1
      <3>2. CASE i = 1 /\ j # 1
        BY <1>5, <2>3, <2>4, <2>7, <3>2
      <3>3. CASE i # 1 /\ j = 1
        BY <1>5, <2>3, <2>4, <2>7, <3>3
      <3>4. CASE i # 1 /\ j # 1
        <4>1. /\ i - 1 \in 1 .. Len(t) /\ s[i] = t[i - 1]
              /\ j - 1 \in 1 .. Len(t) /\ s[j] = t[j - 1]
          BY <2>4, <3>4
        <4>2. i - 1 = j - 1
          BY <2>2, <2>7, <4>1
        <4> QED
          BY <4>2
      <3> QED
        BY <3>1, <3>2, <3>3, <3>4
    <2>8. Len(s) >= 1
      BY <1>5
    <2>9. SequelOK(x)
      BY <1>5, <2>5, <2>6, <2>7, <2>8 DEF SequelOK, s
    <2> QED
      BY <1>3, <2>9
  <1> QED
    BY <1>6, <1>7

(***************************************************************************)
(* The pbuf where pbuf_realloc cuts, number i: before each pbuf up to it   *)
(* is less of the packet than shall stay.                                  *)
(***************************************************************************)
LEMMA NewLastIs ==
  ASSUME IInv, NEW p \in live, NEW n \in 1 .. tot[p] - 1
  PROVE  LET s == Sequel(p)
             i == NewLast(p, n)
         IN  /\ i \in 1 .. Len(s)
             /\ \A j \in 1 .. i : /\ tot[s[j]] \in Nat
                                  /\ tot[p] - tot[s[j]] < n
  <1> DEFINE s == Sequel(p)
             End(j) == tot[p] - tot[s[j]] + len[s[j]]
             Ends == {j \in DOMAIN s : n <= End(j)}
             i == NewLast(p, n)
  <1>1. Chained /\ p \in Bufs /\ Packet(p) \subseteq live
    BY PacketLive DEF IInv, Chained, FieldsOK
  <1>2. /\ s \in Seq(Bufs) /\ Len(s) >= 1 /\ s[1] = p
        /\ \A j \in 1 .. Len(s) : j < Len(s) => next[s[j]] = s[j + 1]
        /\ next[s[Len(s)]] = NULL
    BY <1>1, SequelLinks DEF SequelOK
  <1>3. DOMAIN s = 1 .. Len(s) /\ Len(s) \in Nat
        /\ \A j \in 1 .. Len(s) : s[j] \in live
    <2>1. \A j \in DOMAIN s : s[j] \in Packet(p)
      BY DEF Packet, ToSet
    <2> HIDE DEF s
    <2> QED
      BY <1>1, <1>2, <2>1
  <1>4. i = CHOOSE j \in Ends : \A k \in Ends : j <= k
    BY DEF NewLast
  <1> HIDE DEF s
  <1>5. ASSUME NEW j \in 1 .. Len(s)
        PROVE  /\ tot[s[j]] \in Nat /\ len[s[j]] \in Nat /\ tot[p] \in Nat
               /\ tot[s[j]] = len[s[j]] + IF next[s[j]] = NULL THEN 0
                                          ELSE tot[next[s[j]]]
    BY <1>1, <1>3 DEF IInv, Chained, FieldsOK, TotalsAdd
  <1>6. ASSUME NEW j \in 1 .. Len(s), j < Len(s)
        PROVE  j + 1 \in 1 .. Len(s) /\ End(j) = tot[p] - tot[s[j + 1]]
    <2>1. j + 1 \in 1 .. Len(s)
      BY <1>3, <1>6
    <2>2. next[s[j]] = s[j + 1] /\ s[j + 1] # NULL
      BY <1>1, <1>2, <1>3, <1>6, <2>1, Constants DEF Chained, FieldsOK
    <2>3. tot[s[j]] = len[s[j]] + tot[s[j + 1]] /\ tot[s[j + 1]] \in Nat
      BY <1>5, <2>1, <2>2
    <2> QED
      BY <1>5, <2>1, <2>3
  <1>7. i \in Ends /\ \A k \in Ends : i <= k
    <2>1. Len(s) \in Ends
      <3>1. Len(s) \in 1 .. Len(s)
        BY <1>2, <1>3
      <3>2. tot[s[Len(s)]] = len[s[Len(s)]]
        BY <1>2, <1>5, <3>1
      <3>3. End(Len(s)) = tot[p] /\ n <= tot[p]
        BY <1>5, <3>1, <3>2
      <3> QED
        BY <1>3, <3>1, <3>3
    <2>2. Ends \subseteq Nat
      BY <1>3
    <2> HIDE DEF Ends, i
    <2>3. \E j \in Ends : \A k \in Ends : j <= k
      BY <2>1, <2>2, Least
    <2> QED
      BY <1>4, <2>3
  <1>8. i \in 1 .. Len(s)
    BY <1>3, <1>7
  <1>9. ASSUME NEW j \in 1 .. i
        PROVE  tot[s[j]] \in Nat /\ tot[p] - tot[s[j]] < n
    <2> HIDE DEF i
    <2>1. j \in 1 .. Len(s)
      BY <1>3, <1>8
    <2>2. CASE j = 1
      <3>1. tot[p] - tot[s[j]] = 0
        BY <1>2, <1>5, <2>1, <2>2
      <3> QED
        BY <1>5, <2>1, <3>1
    <2>3. CASE j # 1
      <3>1. /\ j - 1 \in 1 .. Len(s) /\ j - 1 < Len(s) /\ j - 1 + 1 = j
            /\ ~(i <= j - 1)
        BY <1>3, <1>8, <2>1, <2>3
      <3>2. j - 1 \notin Ends
        BY <1>7, <3>1
      <3>3. ~(n <= End(j - 1))
        BY <1>3, <3>1, <3>2
      <3>4. End(j - 1) = tot[p] - tot[s[j]]
        BY <1>6, <3>1
      <3> HIDE DEF End
      <3>5. tot[p] \in Nat /\ tot[s[j]] \in Nat /\ n \in Int
        BY <1>5, <2>1
      <3> QED
        BY <3>3, <3>4, <3>5
    <2> QED
      BY <2>2, <2>3
  <1> QED
    BY <1>8, <1>9 DEF s


LEMMA ReallocKeeps ==
  ASSUME IInv, NEW p \in live, NEW n \in 1 .. tot[p] - 1, Realloc(p, n)
  PROVE  IInv'
  <1> DEFINE s == Sequel(p)
             i == NewLast(p, n)
             last == s[i]
             gone == Dealloc(next[last])
             rest == n - (tot[p] - tot[last])
             head == {s[j] : j \in 1 .. i}
  <1>1. /\ Chained /\ FieldsOK /\ p \in Bufs /\ live \subseteq Bufs
        /\ Packet(p) \subseteq live
        /\ Owned(p) /\ LinkedTo(p) = {} /\ tot[p] \in Nat
    BY PacketLive DEF IInv, Chained, FieldsOK, Realloc, Owned, First
  <1>2. /\ live' = live \ gone /\ ref' = Unref(next[last])
        /\ next' = [Cleared(next, gone, NULL) EXCEPT ![last] = NULL]
        /\ len' = [Cleared(len, gone, 0) EXCEPT ![last] = rest]
        /\ room' = Cleared(room, gone, 0)
        /\ tot' = [q \in Bufs |->
                     IF q \in gone THEN 0
                     ELSE IF q = last THEN rest
                     ELSE IF q \in {s[j] : j \in 1 .. i - 1}
                       THEN tot[q] + n - tot[p] ELSE tot[q]]
        /\ held' = held
    BY DEF Realloc, Kept
  <1>3. /\ s \in Seq(Bufs) /\ Len(s) >= 1 /\ s[1] = p
        /\ \A j \in 1 .. Len(s) : j < Len(s) => next[s[j]] = s[j + 1]
        /\ next[s[Len(s)]] = NULL
        /\ \A j, k \in 1 .. Len(s) : s[j] = s[k] => j = k
    BY <1>1, SequelLinks DEF SequelOK
  <1>4. /\ i \in 1 .. Len(s)
        /\ \A j \in 1 .. i : tot[s[j]] \in Nat /\ tot[p] - tot[s[j]] < n
    BY NewLastIs
  <1>5. /\ DOMAIN s = 1 .. Len(s)
        /\ \A j \in DOMAIN s : s[j] \in Packet(p)
        /\ \A q \in Packet(p) : \E j \in DOMAIN s : q = s[j]
    BY <1>3 DEF Packet, ToSet
  <1> HIDE DEF s, i
  <1>6. /\ i \in Nat /\ i >= 1 /\ Len(s) \in Nat
        /\ \A j \in 1 .. i : /\ j \in 1 .. Len(s) /\ j \in Nat
                             /\ j # i => j \in 1 .. i - 1 /\ j < Len(s)
                             /\ j # 1 => j - 1 \in 1 .. i
    BY <1>3, <1>4
  <1>7. \A j \in 1 .. i : s[j] \in live /\ s[j] \in Bufs
    BY <1>1, <1>5, <1>6
  <1>8. last \in live /\ last \in Bufs /\ last \in head /\ p \in head
    BY <1>3, <1>6, <1>7
  <1> HIDE DEF last, gone, rest
  <1>9. /\ live' \subseteq Bufs /\ last \in live'
        /\ next' \in [Bufs -> Bufs \cup {NULL}]
        /\ ref' \in [Bufs -> Nat] /\ next'[last] = NULL
        /\ \A q \in live' \ {last} : /\ next'[q] = next[q]
                                     /\ next[q] \in live' \cup {NULL}
        /\ Acyclic' /\ LinksLive' /\ Referred' /\ RefsCounted'
    BY <1>2, <1>8, CutKeeps DEF gone
  <1>10. rest \in Nat /\ rest = tot[last] + n - tot[p]
    <2>1. i \in 1 .. i
      BY <1>6
    <2>2. tot[last] \in Nat /\ tot[p] - tot[last] < n
      BY <1>4, <2>1 DEF last
    <2> QED
      BY <1>1, <2>2 DEF rest
  <1>11. \A q \in head : tot[q] + n - tot[p] \in Nat
    <2>1. ASSUME NEW j \in 1 .. i PROVE tot[s[j]] + n - tot[p] \in Nat
      <3>1. tot[s[j]] \in Nat /\ tot[p] - tot[s[j]] < n /\ n \in Int
        BY <1>4
      <3> QED
        BY <1>1, <3>1
    <2> QED
      BY <2>1
  <1>12. tot' = [q \in Bufs |-> IF q \in gone THEN 0
                                ELSE IF q \in head THEN tot[q] + n - tot[p]
                                ELSE tot[q]]
    <2>1. ASSUME NEW q, q # last
          PROVE  q \in {s[j] : j \in 1 .. i - 1} <=> q \in head
      <3>1. \A j \in 1 .. i - 1 : j \in 1 .. i
        BY <1>6
      <3> QED
        BY <1>6, <2>1, <3>1 DEF last
    <2> HIDE DEF head
    <2> QED
      BY <1>2, <1>8, <1>10, <2>1
  <1>13. FieldsOK'
    <2>1. tot' \in [Bufs -> Nat]
      <3> HIDE DEF head
      <3> QED
        BY <1>1, <1>11, <1>12 DEF FieldsOK
    <2>2. room' \in [Bufs -> Nat]
      BY <1>1, <1>2 DEF Cleared, FieldsOK
    <2>3. len' \in [Bufs -> Nat]
      <3>1. Cleared(len, gone, 0) \in [Bufs -> Nat]
        BY <1>1 DEF Cleared, FieldsOK
      <3> QED
        BY <1>2, <1>10, <3>1
    <2> QED
      BY <1>1, <1>2, <1>9, <2>1, <2>2, <2>3 DEF FieldsOK, Bufs
  <1>14. \A q \in live' : q \in live /\ q \in Bufs /\ q \notin gone
    BY <1>1, <1>2
  <1>15. /\ len'[last] = rest
         /\ \A q \in live' \ {last} : len'[q] = len[q]
    <2>1. \A q \in Bufs : Cleared(len, gone, 0)[q] = IF q \in gone THEN 0 ELSE len[q]
      BY DEF Cleared
    <2>2. Cleared(len, gone, 0) \in [Bufs -> Nat]
      BY <1>1 DEF Cleared, FieldsOK
    <2> QED
      BY <1>2, <1>8, <1>14, <2>1, <2>2
  <1>16. ASSUME NEW q \in head, q # last PROVE next[q] \in head
    <2>1. PICK j \in 1 .. i : q = s[j]
      OBVIOUS
    <2>2. j # i
      BY <1>16, <2>1 DEF last
    <2>3. next[q] = s[j + 1]
      BY <1>3, <1>6, <2>1, <2>2
    <2>4. j + 1 \in 1 .. i
      BY <1>6, <2>2
    <2> QED
      BY <2>3, <2>4
  <1>17. ASSUME NEW q \in live, next[q] \in head PROVE q \in head
    <2>1. PICK j \in 1 .. i : next[q] = s[j]
      BY <1>17
    <2>2. next[q] # p
      BY <1>1 DEF LinkedTo
    <2>3. j # 1
      BY <1>3, <2>1, <2>2
    <2>4. next[q] \in Packet(p)
      BY <1>5, <1>6, <2>1
    <2>5. q \in Packet(p)
      BY <1>1, <2>4, OwnedAlone
    <2>6. PICK k \in 1 .. Len(s) : q = s[k]
      BY <1>5, <2>5
    <2>7. k < Len(s)
      <3>1. next[q] # NULL
        BY <1>7, <2>1, Constants
      <3> QED
        BY <1>3, <1>6, <2>6, <3>1
    <2>8. s[k + 1] = s[j]
      BY <1>3, <2>1, <2>6, <2>7
    <2>9. k + 1 \in 1 .. Len(s)
      BY <1>6, <2>7
    <2>10. k + 1 = j
      BY <1>3, <1>6, <2>8, <2>9
    <2>11. k \in 1 .. i
      BY <1>6, <2>10
    <2> QED
      BY <2>6, <2>11
  <1> HIDE DEF head
  <1>18. TotalsAdd'
    <2> SUFFICES ASSUME NEW q \in live'
                 PROVE  tot'[q] = len'[q] + (IF next'[q] = NULL THEN 0
                                             ELSE tot'[next'[q]])
      BY DEF TotalsAdd
    <2>1. /\ q \in live /\ q \in Bufs /\ len[q] \in Nat /\ tot[q] \in Nat
          /\ tot[q] = len[q] + (IF next[q] = NULL THEN 0 ELSE tot[next[q]])
      BY <1>1, <1>14 DEF FieldsOK, IInv, TotalsAdd
    <2>2. CASE q = last
      <3>1. tot'[q] = rest /\ len'[q] = rest /\ next'[q] = NULL
        BY <1>8, <1>9, <1>10, <1>12, <1>14, <1>15, <2>2
      <3> QED
        BY <1>10, <3>1
    <2>3. CASE q # last
      <3>1. /\ next'[q] = next[q] /\ next[q] \in live' \cup {NULL}
            /\ len'[q] = len[q]
        BY <1>9, <1>15, <2>3
      <3>2. next[q] # NULL => /\ next[q] \in Bufs /\ next[q] \notin gone
                              /\ tot[next[q]] \in Nat
        BY <1>1, <1>14, <3>1 DEF FieldsOK
      <3>3. CASE q \in head
        <4>1. next[q] \in head /\ next[q] # NULL
          BY <1>1, <1>7, <1>16, <2>3, <3>3, Constants DEF head
        <4>2. /\ tot'[q] = tot[q] + n - tot[p]
              /\ tot'[next[q]] = tot[next[q]] + n - tot[p]
          BY <1>12, <1>14, <2>1, <3>2, <3>3, <4>1
        <4>3. tot[q] = len[q] + tot[next[q]] /\ n \in Int
          BY <2>1, <4>1
        <4>4. tot'[q] = len[q] + tot'[next[q]]
          BY <1>1, <2>1, <3>2, <4>1, <4>2, <4>3
        <4> QED
          BY <3>1, <4>1, <4>4
      <3>4. CASE q \notin head
        <4>1. next[q] \notin head
          BY <1>17, <2>1, <3>4
        <4>2. tot'[q] = tot[q]
          BY <1>12, <1>14, <2>1, <3>4
        <4>3. next[q] # NULL => tot'[next[q]] = tot[next[q]]
          BY <1>12, <3>2, <4>1
        <4> QED
          BY <2>1, <3>1, <4>2, <4>3
      <3> QED
        BY <3>3, <3>4
    <2> QED
      BY <2>2, <2>3
  <1> QED
    BY <1>9, <1>13, <1>18 DEF IInv, Chained
-----------------------------------------------------------------------------
LEMMA StepKeeps == IInv /\ [Next]_vars => IInv'
  <1> SUFFICES ASSUME IInv, [Next]_vars PROVE IInv'
    OBVIOUS
  <1>1. ASSUME NEW length \in Lengths, NEW offset \in Offsets,
               AllocPool(length, offset)
        PROVE  IInv'
    BY <1>1, AllocPoolKeeps
  <1>2. ASSUME NEW length \in Lengths, NEW offset \in Offsets,
               NEW p \in Ram \cup Rom, AllocSingle(p, length, offset)
        PROVE  IInv'
    BY <1>2, AllocSingleKeeps
  <1>3. ASSUME NEW p \in live, Free(p) PROVE IInv'
    BY <1>3, FreeKeeps
  <1>4. ASSUME NEW p \in live, Ref(p) PROVE IInv'
    BY <1>4, RefKeeps
  <1>5. ASSUME NEW p \in live, Dechain(p) PROVE IInv'
    BY <1>5, DechainKeeps
  <1>6. ASSUME NEW p \in live, AddHeader(p) PROVE IInv'
    BY <1>6, AddHeaderKeeps
  <1>7. ASSUME NEW p \in live, HideHeader(p) PROVE IInv'
    BY <1>7, HideHeaderKeeps
  <1>8. ASSUME NEW p \in live, NEW n \in 1 .. tot[p] - 1, Realloc(p, n)
        PROVE  IInv'
    BY <1>8, ReallocKeeps
  <1>9. ASSUME NEW p \in live, NEW q \in Ram, Coalesce(p, q) PROVE IInv'
    BY <1>9, CoalesceKeeps
  <1>10. ASSUME NEW h \in live, NEW t \in live, Cat(h, t) PROVE IInv'
    BY <1>10, CatKeeps
  <1>11. ASSUME NEW h \in live, NEW t \in live, Chain(h, t) PROVE IInv'
    BY <1>11, ChainKeeps
  <1>12. CASE UNCHANGED vars
    BY <1>12
    DEF vars, IInv, Chained, FieldsOK, Acyclic, LinksLive, Referred,
        RefsCounted, TotalsAdd, LinkedTo, Bufs
  <1> QED
    BY <1>1, <1>2, <1>3, <1>4, <1>5, <1>6, <1>7, <1>8, <1>9, <1>10, <1>11,
       <1>12 DEF Next

LEMMA Invariance == Spec => []IInv
  BY InitEstablishes, StepKeeps, PTL DEF Spec

(***************************************************************************)
(* The count of references in a pbuf is the number of clients that refer   *)
(* to it and of pbufs linked to it (pbuf_alloc, pbuf_free, pbuf_ref,       *)
(* pbuf_cat, pbuf_chain, pbuf_dechain, pbuf_realloc, pbuf_coalesce).       *)
(***************************************************************************)
THEOREM ReferencesExact == Spec => []RefsCounted
  <1>1. IInv => RefsCounted
    BY DEF IInv
  <1> QED
    BY <1>1, Invariance, PTL

(***************************************************************************)
(* In every packet tot_len is len and the tot_len of the next pbuf.        *)
(***************************************************************************)
THEOREM TotalsExact == Spec => []TotalsAdd
  <1>1. IInv => TotalsAdd
    BY DEF IInv
  <1> QED
    BY <1>1, Invariance, PTL

(***************************************************************************)
(* A pbuf no client reaches would, as its count is exact, be linked from   *)
(* another such pbuf; as links end, there are none.                        *)
(***************************************************************************)
LEMMA Reached == IInv => LiveIsReachable
  <1> SUFFICES ASSUME IInv PROVE LiveIsReachable
    OBVIOUS
  <1> DEFINE reached == UNION {Packet(p) : p \in {q \in Bufs : held[q] > 0}}
             lost == live \ reached
  <1>1. Chained /\ FieldsOK /\ live \subseteq Bufs
    BY DEF IInv, Chained, FieldsOK
  <1>2. reached \subseteq live
    <2>1. ASSUME NEW p \in Bufs, held[p] > 0 PROVE Packet(p) \subseteq live
      <3>1. p \in live
        BY <2>1 DEF IInv, Chained, LinksLive
      <3> QED
        BY <1>1, <3>1, PacketLive
    <2> QED
      BY <2>1
  <1>3. ASSUME NEW q \in lost PROVE \E e \in lost : next[e] = q
    <2>1. q \in live /\ q \in Bufs /\ q # NULL
      BY <1>1, Constants
    <2>2. held[q] = 0
      <3>1. q \in Packet(q)
        BY <1>1, <2>1, PacketIs
      <3>2. ~(held[q] > 0)
        BY <2>1, <3>1
      <3> QED
        BY <1>1, <2>1, <3>2 DEF FieldsOK
    <2>3. ref[q] > 0 /\ ref[q] = held[q] + Cardinality(LinkedTo(q))
      BY <2>1 DEF IInv, Referred, RefsCounted
    <2>4. LinkedTo(q) # {}
      BY <2>2, <2>3, FS_EmptySet
    <2>5. PICK e \in live : next[e] = q
      BY <2>4 DEF LinkedTo
    <2>6. e \notin reached
      <3>1. ASSUME NEW p \in Bufs, held[p] > 0, e \in Packet(p) PROVE FALSE
        <4>1. q \in Packet(p)
          BY <1>1, <2>1, <2>5, <3>1, PacketClosed
        <4> QED
          BY <3>1, <4>1
      <3> QED
        BY <3>1
    <2> QED
      BY <2>5, <2>6
  <1>4. lost = {}
    <2>1. SUFFICES ASSUME lost # {} PROVE FALSE
      OBVIOUS
    <2> HIDE DEF lost
    <2>2. lost \subseteq Bufs /\ IsFiniteSet(lost)
      <3>1. lost \subseteq Bufs
        BY <1>1 DEF lost
      <3> QED
        BY <3>1, Constants, FS_Subset
    <2>3. PICK z \in lost : next[z] \notin lost
      BY <1>1, <2>1, <2>2 DEF Chained, Acyclic
    <2> DEFINE others == {e \in lost \ {z} : next[e] \in lost}
               f == [e \in others |-> next[e]]
    <2>4. /\ IsFiniteSet(lost \ {z})
          /\ Cardinality(lost \ {z}) = Cardinality(lost) - 1
      BY <2>2, FS_RemoveElement
    <2>5. IsFiniteSet(others) /\ Cardinality(others) <= Cardinality(lost \ {z})
      <3>1. others \in SUBSET (lost \ {z})
        OBVIOUS
      <3> HIDE DEF others
      <3> QED
        BY <2>4, <3>1, FS_Subset
    <2>6. \A q \in lost : \E e \in others : f[e] = q
      BY <1>3, <2>3
    <2>7. f \in Surjection(others, lost)
      <3>1. f \in [others -> lost]
        OBVIOUS
      <3> HIDE DEF f, others
      <3> QED
        BY <2>6, <3>1 DEF Surjection
    <2> HIDE DEF f, others
    <2>8. Cardinality(lost) <= Cardinality(others)
      BY <2>5, <2>7, FS_Surjection
    <2>9. Cardinality(lost) \in Nat /\ Cardinality(others) \in Nat
      BY <2>2, <2>5, FS_CardinalityType
    <2> QED
      BY <2>4, <2>5, <2>8, <2>9
  <1> QED
    BY <1>2, <1>4 DEF LiveIsReachable

(***************************************************************************)
(* Exactly the pbufs a client can reach are allocated: pbuf_free, and the  *)
(* functions that free the rest of a packet, give back neither too much    *)
(* nor too little.                                                         *)
(***************************************************************************)
THEOREM LiveExact == Spec => []LiveIsReachable
  BY Reached, Invariance, PTL

-----------------------------------------------------------------------------
(***************************************************************************)
(* pbuf_copy.  Its loop, as a function on the natural numbers, exists.     *)
(***************************************************************************)
LEMMA Iterated ==
  ASSUME NEW D, NEW b \in D, NEW f \in [D -> D]
  PROVE  \E c \in [Nat -> D] : c[0] = b /\ \A i \in Nat : c[i + 1] = f[c[i]]
  <1> DEFINE Partial(n, g) ==
               /\ g \in [0 .. n -> D] /\ g[0] = b
               /\ \A i \in 0 .. n : i < n => g[i + 1] = f[g[i]]
             G(n) == CHOOSE g : Partial(n, g)
  <1>1. ASSUME NEW n \in Nat PROVE \E g : Partial(n, g)
    <2> DEFINE bad == {k \in Nat : ~ \E g : Partial(k, g)}
    <2>1. SUFFICES ASSUME bad # {} PROVE FALSE
      OBVIOUS
    <2>2. PICK k \in bad : \A l \in bad : k <= l
      <3>1. bad \subseteq Nat
        OBVIOUS
      <3> HIDE DEF bad
      <3> QED
        BY <2>1, <3>1, Least
    <2>3. k \in Nat /\ ~ \E g : Partial(k, g)
      OBVIOUS
    <2>4. CASE k = 0
      <3>1. Partial(0, [i \in 0 .. 0 |-> b])
        OBVIOUS
      <3> QED
        BY <2>3, <2>4, <3>1
    <2>5. CASE k # 0
      <3>1. k - 1 \in Nat /\ ~(k <= k - 1)
        BY <2>3, <2>5
      <3>2. PICK g : Partial(k - 1, g)
        <4>1. k - 1 \notin bad
          <5> HIDE DEF bad
          <5> QED
            BY <2>2, <3>1
        <4> QED
          BY <3>1, <4>1
      <3> DEFINE h == [i \in 0 .. k |-> IF i = k THEN f[g[k - 1]] ELSE g[i]]
      <3>3. \A i \in 0 .. k : i # k => i \in 0 .. k - 1 /\ g[i] \in D
        BY <2>3, <3>1, <3>2
      <3>4. k - 1 \in 0 .. k - 1 /\ k - 1 # k /\ 0 \in 0 .. k /\ 0 # k
        BY <2>3, <2>5, <3>1
      <3>5. h \in [0 .. k -> D] /\ h[0] = b
        <4>1. g[k - 1] \in D
          BY <3>2, <3>4
        <4> QED
          BY <3>2, <3>3, <3>4, <4>1
      <3>6. ASSUME NEW i \in 0 .. k, i < k PROVE h[i + 1] = f[h[i]]
        <4>1. i + 1 \in 0 .. k /\ i # k /\ i \in 0 .. k - 1
          BY <2>3, <3>6
        <4>2. h[i] = g[i]
          BY <4>1
        <4>3. CASE i + 1 = k
          <5>1. i = k - 1
            BY <2>3, <4>3
          <5> QED
            BY <4>1, <4>2, <4>3, <5>1
        <4>4. CASE i + 1 # k
          <5>1. i < k - 1
            BY <2>3, <3>6, <4>4
          <5>2. h[i + 1] = g[i + 1]
            BY <4>1, <4>4
          <5> QED
            BY <3>2, <4>1, <4>2, <5>1, <5>2
        <4> QED
          BY <4>3, <4>4
      <3> HIDE DEF h
      <3>7. Partial(k, h)
        BY <3>5, <3>6
      <3> QED
        BY <2>3, <3>7
    <2> QED
      BY <2>4, <2>5
  <1>2. \A n \in Nat : Partial(n, G(n))
    BY <1>1
  <1> HIDE DEF G
  <1>3. ASSUME NEW n \in Nat, NEW i \in 0 .. n PROVE G(n + 1)[i] = G(n)[i]
    <2> DEFINE bad == {k \in 0 .. n : G(n + 1)[k] # G(n)[k]}
    <2>1. SUFFICES ASSUME bad # {} PROVE FALSE
      OBVIOUS
    <2>2. PICK k \in bad : \A l \in bad : k <= l
      <3>1. bad \subseteq Nat
        OBVIOUS
      <3> HIDE DEF bad
      <3> QED
        BY <2>1, <3>1, Least
    <2>3. k \in 0 .. n /\ G(n + 1)[k] # G(n)[k]
      OBVIOUS
    <2>4. Partial(n, G(n)) /\ Partial(n + 1, G(n + 1))
      BY <1>2
    <2>5. k # 0
      BY <2>3, <2>4
    <2>6. k - 1 \in 0 .. n /\ ~(k <= k - 1) /\ k - 1 \in 0 .. n + 1
          /\ k - 1 < n /\ k - 1 < n + 1 /\ k - 1 + 1 = k
      BY <2>3, <2>5
    <2>7. G(n + 1)[k - 1] = G(n)[k - 1]
      BY <2>2, <2>6
    <2>8. G(n + 1)[k - 1 + 1] = f[G(n + 1)[k - 1]]
      BY <2>4, <2>6
    <2>9. G(n)[k - 1 + 1] = f[G(n)[k - 1]]
      BY <2>4, <2>6
    <2> QED
      BY <2>3, <2>6, <2>7, <2>8, <2>9
  <1> DEFINE c == [n \in Nat |-> G(n)[n]]
  <1>4. c \in [Nat -> D]
    <2>1. ASSUME NEW n \in Nat PROVE G(n)[n] \in D
      <3>1. G(n) \in [0 .. n -> D] /\ n \in 0 .. n
        BY <1>2
      <3> QED
        BY <3>1
    <2> QED
      BY <2>1
  <1>5. c[0] = b
    BY <1>2
  <1>6. ASSUME NEW i \in Nat PROVE c[i + 1] = f[c[i]]
    <2>1. c[i + 1] = G(i + 1)[i + 1] /\ c[i] = G(i)[i]
      OBVIOUS
    <2>2. Partial(i + 1, G(i + 1)) /\ i \in 0 .. i + 1 /\ i < i + 1 /\ i \in 0 .. i
      BY <1>2
    <2>3. G(i + 1)[i + 1] = f[G(i + 1)[i]]
      BY <2>2
    <2>4. G(i + 1)[i] = G(i)[i]
      BY <1>3, <2>2
    <2> HIDE DEF c
    <2> QED
      BY <2>1, <2>3, <2>4
  <1> HIDE DEF c
  <1> QED
    BY <1>4, <1>5, <1>6

Moves == [to : Bufs, from : Bufs, length : Int, offsetTo : Int, offsetFrom : Int]

Progress ==
  [to : Bufs \cup {NULL}, from : Bufs \cup {NULL}, offsetTo : Int,
   offsetFrom : Int, moves : Seq(Moves), failed : BOOLEAN]

Ended(c) == c.failed \/ c.from = NULL \/ c.to = NULL

LEMMA CopyStepIs ==
  ASSUME FieldsOK, NEW c \in Progress, c.from # NULL, c.to # NULL
  PROVE  LET leftTo   == len[c.to] - c.offsetTo
             leftFrom == len[c.from] - c.offsetFrom
             n        == IF leftTo >= leftFrom THEN leftFrom ELSE leftTo
             d        == CopyStep(c)
         IN  /\ d \in Progress
             /\ <<d.to, d.offsetTo>> = Advance(c.to, c.offsetTo + n)
             /\ <<d.from, d.offsetFrom>> = Advance(c.from, c.offsetFrom + n)
             /\ d.failed = (Queue(d.to) \/ Queue(d.from))
             /\ d.moves = Append(c.moves,
                  [to |-> c.to, from |-> c.from, length |-> n,
                   offsetTo |-> c.offsetTo, offsetFrom |-> c.offsetFrom])
  <1> DEFINE leftTo   == len[c.to] - c.offsetTo
             leftFrom == len[c.from] - c.offsetFrom
             n        == IF leftTo >= leftFrom THEN leftFrom ELSE leftTo
             to       == Advance(c.to, c.offsetTo + n)
             from     == Advance(c.from, c.offsetFrom + n)
             m        == [to |-> c.to, from |-> c.from, length |-> n,
                          offsetTo |-> c.offsetTo, offsetFrom |-> c.offsetFrom]
             d        == CopyStep(c)
  <1>1. d = [to |-> to[1], offsetTo |-> to[2],
             from |-> from[1], offsetFrom |-> from[2],
             moves |-> Append(c.moves, m),
             failed |-> Queue(to[1]) \/ Queue(from[1])]
    BY DEF CopyStep
  <1>2. /\ c.to \in Bufs /\ c.from \in Bufs /\ c.offsetTo \in Int
        /\ c.offsetFrom \in Int /\ c.moves \in Seq(Moves)
        /\ len[c.to] \in Int /\ len[c.from] \in Int
    BY DEF Progress, FieldsOK
  <1>3. n \in Int
    BY <1>2
  <1> HIDE DEF n
  <1>4. m \in Moves
    BY <1>2, <1>3 DEF Moves
  <1>5. /\ to = <<to[1], to[2]>> /\ to[1] \in Bufs \cup {NULL} /\ to[2] \in Int
        /\ from = <<from[1], from[2]>> /\ from[1] \in Bufs \cup {NULL}
        /\ from[2] \in Int
    <2>1. ASSUME NEW q \in Bufs, NEW k \in Int
          PROVE  LET a == Advance(q, k)
                 IN  a = <<a[1], a[2]>> /\ a[1] \in Bufs \cup {NULL} /\ a[2] \in Int
      <3>1. next[q] \in Bufs \cup {NULL}
        BY DEF FieldsOK
      <3>2. CASE k = len[q]
        BY <3>1, <3>2 DEF Advance
      <3>3. CASE k # len[q]
        BY <3>3 DEF Advance
      <3> QED
        BY <3>2, <3>3
    <2>2. c.offsetTo + n \in Int /\ c.offsetFrom + n \in Int
      BY <1>2, <1>3
    <2> QED
      BY <1>2, <2>1, <2>2
  <1>6. Append(c.moves, m) \in Seq(Moves)
    BY <1>2, <1>4
  <1> HIDE DEF to, from, m, d
  <1>7. (Queue(to[1]) \/ Queue(from[1])) \in BOOLEAN
    BY DEF Queue
  <1>8. /\ d \in Progress /\ d.to = to[1] /\ d.offsetTo = to[2]
        /\ d.from = from[1] /\ d.offsetFrom = from[2]
        /\ d.moves = Append(c.moves, m)
        /\ d.failed = (Queue(to[1]) \/ Queue(from[1]))
    BY <1>1, <1>5, <1>6, <1>7 DEF Progress
  <1> QED
    BY <1>5, <1>8 DEF to, from, m, d, n

CopyLoop(to, from, c) ==
  [i \in Nat |-> IF i = 0 THEN CopyStart(to, from)
                 ELSE IF Ended(c[i - 1]) THEN c[i - 1] ELSE CopyStep(c[i - 1])]

LEMMA CopyIs ==
  ASSUME FieldsOK, NEW to \in Bufs, NEW from \in Bufs
  PROVE  \E c : /\ Copy(to, from) = c[2 * Cardinality(Bufs)]
                /\ c[0] = CopyStart(to, from)
                /\ \A i \in Nat : c[i + 1] = IF Ended(c[i]) THEN c[i]
                                             ELSE CopyStep(c[i])
  <1> DEFINE f == [d \in Progress |-> IF Ended(d) THEN d ELSE CopyStep(d)]
  <1>1. f \in [Progress -> Progress]
    <2>1. ASSUME NEW d \in Progress, ~Ended(d) PROVE CopyStep(d) \in Progress
      BY <2>1, CopyStepIs DEF Ended
    <2> QED
      BY <2>1
  <1>2. CopyStart(to, from) \in Progress
    BY DEF CopyStart, Progress
  <1>3. PICK c \in [Nat -> Progress] :
          c[0] = CopyStart(to, from) /\ \A i \in Nat : c[i + 1] = f[c[i]]
    <2> HIDE DEF f
    <2> QED
      BY <1>1, <1>2, Iterated
  <1>4. c = CopyLoop(to, from, c)
    <2>1. ASSUME NEW i \in Nat, i # 0
          PROVE  c[i] = IF Ended(c[i - 1]) THEN c[i - 1] ELSE CopyStep(c[i - 1])
      <3>1. i - 1 \in Nat /\ i - 1 + 1 = i
        BY <2>1
      <3>2. c[i - 1 + 1] = f[c[i - 1]] /\ c[i - 1] \in Progress
        BY <1>3, <3>1
      <3> QED
        BY <3>1, <3>2
    <2>2. c = [i \in Nat |-> c[i]]
      BY <1>3
    <2> QED
      BY <1>3, <2>1, <2>2 DEF CopyLoop
  <1> DEFINE e == CHOOSE e : e = CopyLoop(to, from, e)
  <1>5. e = CopyLoop(to, from, e)
    BY <1>4
  <1>6. Copy(to, from) = e[2 * Cardinality(Bufs)]
    BY DEF Copy, CopyLoop, Ended
  <1> HIDE DEF e
  <1>7. e[0] = CopyStart(to, from)
    BY <1>5 DEF CopyLoop
  <1>8. ASSUME NEW i \in Nat
        PROVE  e[i + 1] = IF Ended(e[i]) THEN e[i] ELSE CopyStep(e[i])
    <2>1. i + 1 \in Nat /\ i + 1 # 0 /\ i + 1 - 1 = i
      OBVIOUS
    <2> QED
      BY <1>5, <2>1 DEF CopyLoop
  <1> QED
    BY <1>6, <1>7, <1>8


(***************************************************************************)
(* A place in the packet at head is at an offset of a pbuf of it, or at    *)
(* its end; Where is what of the packet comes before.                      *)
(***************************************************************************)
InPacket(head, q, offset) ==
  q = NULL \/ (q \in Packet(head) /\ offset \in Nat /\ offset < len[q])

Where(head, q, offset) ==
  IF q = NULL THEN tot[head] ELSE tot[head] - tot[q] + offset

(* No pbuf of the packet is empty. *)
Filled(head) == \A q \in Packet(head) : len[q] > 0

LEMMA PacketTotals ==
  ASSUME IInv, NEW head \in live, NEW q \in Packet(head)
  PROVE  /\ q \in Bufs /\ len[q] \in Nat /\ tot[q] \in Nat /\ tot[head] \in Nat
         /\ tot[q] = len[q] + IF next[q] = NULL THEN 0 ELSE tot[next[q]]
         /\ next[q] # NULL => /\ next[q] \in Packet(head) /\ next[q] \in Bufs
                              /\ tot[next[q]] \in Nat /\ len[next[q]] \in Nat
                              /\ tot[next[q]] >= len[next[q]]
  <1>1. /\ Chained /\ FieldsOK /\ head \in Bufs /\ q \in live
        /\ Packet(head) \subseteq live /\ live \subseteq Bufs
    BY PacketLive DEF IInv, Chained, FieldsOK
  <1>2. \A u \in live : /\ u \in Bufs /\ len[u] \in Nat /\ tot[u] \in Nat
                        /\ tot[u] = len[u] + IF next[u] = NULL THEN 0
                                             ELSE tot[next[u]]
    BY <1>1 DEF FieldsOK, IInv, TotalsAdd
  <1>3. next[q] # NULL => next[q] \in Packet(head)
    BY <1>1, PacketClosed
  <1>4. \A u \in live : tot[u] >= len[u]
    <2>1. ASSUME NEW u \in live PROVE tot[u] >= len[u]
      <3>1. next[u] # NULL => next[u] \in live
        BY <1>1 DEF Chained, LinksLive
      <3> QED
        BY <1>2, <3>1
    <2> QED
      BY <2>1
  <1> QED
    BY <1>1, <1>2, <1>3, <1>4

LEMMA AdvanceIs ==
  ASSUME IInv, NEW head \in live, Filled(head), NEW q \in Packet(head),
         NEW k \in Nat, NEW n \in Nat, k + n <= len[q]
  PROVE  LET a == Advance(q, k + n)
         IN  /\ InPacket(head, a[1], a[2])
             /\ Where(head, a[1], a[2]) = Where(head, q, k) + n
             /\ ~Queue(a[1])
             /\ a[1] = IF k + n = len[q] THEN next[q] ELSE q
  <1>1. /\ q \in Bufs /\ len[q] \in Nat /\ tot[q] \in Nat /\ tot[head] \in Nat
        /\ tot[q] = len[q] + IF next[q] = NULL THEN 0 ELSE tot[next[q]]
        /\ next[q] # NULL => /\ next[q] \in Packet(head) /\ next[q] \in Bufs
                             /\ tot[next[q]] \in Nat
    BY PacketTotals
  <1>2. ASSUME NEW u \in Packet(head) PROVE ~Queue(u)
    <2>1. /\ len[u] \in Nat /\ tot[u] \in Nat
          /\ tot[u] = len[u] + IF next[u] = NULL THEN 0 ELSE tot[next[u]]
          /\ next[u] # NULL => /\ next[u] \in Packet(head)
                               /\ tot[next[u]] \in Nat /\ len[next[u]] \in Nat
                               /\ tot[next[u]] >= len[next[u]]
      BY PacketTotals
    <2>2. next[u] # NULL => len[next[u]] > 0
      BY <2>1 DEF Filled
    <2> QED
      BY <2>1, <2>2 DEF Queue
  <1>3. ~Queue(NULL)
    BY DEF Queue
  <1>4. q # NULL /\ Where(head, q, k) = tot[head] - tot[q] + k
    BY <1>1, Constants DEF Where
  <1>5. CASE k + n = len[q]
    <2>1. Advance(q, k + n) = <<next[q], 0>>
      BY <1>5 DEF Advance
    <2>2. InPacket(head, next[q], 0)
      BY <1>1 DEF InPacket, Filled
    <2>3. Where(head, next[q], 0) = Where(head, q, k) + n
      <3>1. CASE next[q] = NULL
        <4>1. Where(head, next[q], 0) = tot[head]
          BY <3>1 DEF Where
        <4> QED
          BY <1>1, <1>4, <1>5, <3>1, <4>1
      <3>2. CASE next[q] # NULL
        <4>1. Where(head, next[q], 0) = tot[head] - tot[next[q]] + 0
          BY <3>2 DEF Where
        <4> QED
          BY <1>1, <1>4, <1>5, <3>2, <4>1
      <3> QED
        BY <3>1, <3>2
    <2>4. ~Queue(next[q])
      BY <1>1, <1>2, <1>3
    <2> QED
      BY <1>5, <2>1, <2>2, <2>3, <2>4
  <1>6. CASE k + n # len[q]
    <2>1. Advance(q, k + n) = <<q, k + n>>
      BY <1>6 DEF Advance
    <2>2. InPacket(head, q, k + n)
      <3>1. k + n \in Nat /\ k + n < len[q]
        BY <1>1, <1>6
      <3> QED
        BY <3>1 DEF InPacket
    <2>3. Where(head, q, k + n) = Where(head, q, k) + n
      <3>1. Where(head, q, k + n) = tot[head] - tot[q] + (k + n)
        BY <1>4 DEF Where
      <3> QED
        BY <1>1, <1>4, <3>1
    <2> QED
      BY <1>2, <1>6, <2>1, <2>2, <2>3
  <1> QED
    BY <1>5, <1>6

LEMMA Shorter ==
  ASSUME IInv, NEW q \in Bufs
  PROVE  /\ Cardinality(Packet(q)) \in Nat
         /\ Cardinality(Packet(next[q])) \in Nat
         /\ Cardinality(Packet(q)) = Cardinality(Packet(next[q])) + 1
  <1>1. Chained
    BY DEF IInv
  <1>2. Packet(q) = {q} \cup Packet(next[q]) /\ q \notin Packet(next[q])
    BY <1>1, PacketIs, NotAfterItself
  <1>3. Packet(q) \subseteq Bufs
    BY <1>1, PacketIs
  <1>4. IsFiniteSet(Packet(next[q])) /\ IsFiniteSet(Packet(q))
    BY <1>2, <1>3, Constants, FS_Subset
  <1>5. Cardinality(Packet(next[q]) \cup {q}) = Cardinality(Packet(next[q])) + 1
    BY <1>2, <1>4, FS_AddElement
  <1>6. Packet(next[q]) \cup {q} = Packet(q)
    BY <1>2
  <1> QED
    BY <1>4, <1>5, <1>6, FS_CardinalityType

(***************************************************************************)
(* The loop's invariant: both places are as far into their packets, and    *)
(* each piece has gone from where the one before ended to the same place   *)
(* of the target.                                                          *)
(***************************************************************************)
FromOf(from, m) == tot[from] - tot[m.from] + m.offsetFrom
ToOf(to, m) == tot[to] - tot[m.to] + m.offsetTo

PiecesFit(to, from, c) ==
  \A i \in 1 .. Len(c.moves) :
    LET m == c.moves[i]
    IN  /\ FromOf(from, m) = ToOf(to, m)
        /\ FromOf(from, m) + m.length =
             IF i = Len(c.moves) THEN Where(from, c.from, c.offsetFrom)
             ELSE FromOf(from, c.moves[i + 1])

Sound(to, from, c) ==
  /\ c \in Progress /\ ~c.failed
  /\ InPacket(to, c.to, c.offsetTo) /\ InPacket(from, c.from, c.offsetFrom)
  /\ Where(to, c.to, c.offsetTo) = Where(from, c.from, c.offsetFrom)
  /\ PiecesFit(to, from, c)

(* The pbufs that are left of both. *)
Left(c) == Cardinality(Packet(c.to)) + Cardinality(Packet(c.from))

LEMMA Appended ==
  ASSUME NEW s \in Seq(Moves), NEW m \in Moves
  PROVE  LET t == Append(s, m)
         IN  /\ Len(s) \in Nat /\ Len(t) = Len(s) + 1 /\ t[Len(s) + 1] = m
             /\ \A i \in 1 .. Len(s) : t[i] = s[i]
  OBVIOUS

LEMMA CopyStepKeeps ==
  ASSUME IInv, NEW to \in live, NEW from \in live, Filled(to), Filled(from),
         NEW c, Sound(to, from, c), ~Ended(c)
  PROVE  Sound(to, from, CopyStep(c)) /\ Left(CopyStep(c)) + 1 <= Left(c)
  <1> DEFINE leftTo   == len[c.to] - c.offsetTo
             leftFrom == len[c.from] - c.offsetFrom
             n        == IF leftTo >= leftFrom THEN leftFrom ELSE leftTo
             d        == CopyStep(c)
             m        == [to |-> c.to, from |-> c.from, length |-> n,
                          offsetTo |-> c.offsetTo, offsetFrom |-> c.offsetFrom]
  <1>1. /\ FieldsOK /\ c \in Progress /\ c.to # NULL /\ c.from # NULL
        /\ c.to \in Packet(to) /\ c.offsetTo \in Nat /\ c.offsetTo < len[c.to]
        /\ c.from \in Packet(from) /\ c.offsetFrom \in Nat
        /\ c.offsetFrom < len[c.from]
        /\ c.moves \in Seq(Moves)
    BY DEF IInv, Chained, Sound, InPacket, Ended, Progress
  <1>2. /\ c.to \in Bufs /\ len[c.to] \in Nat /\ c.from \in Bufs
        /\ len[c.from] \in Nat
    BY <1>1, PacketTotals
  <1>3. /\ n \in Nat /\ c.offsetTo + n <= len[c.to]
        /\ c.offsetFrom + n <= len[c.from]
        /\ c.offsetTo + n = len[c.to] \/ c.offsetFrom + n = len[c.from]
    BY <1>1, <1>2
  <1>4. /\ d \in Progress
        /\ <<d.to, d.offsetTo>> = Advance(c.to, c.offsetTo + n)
        /\ <<d.from, d.offsetFrom>> = Advance(c.from, c.offsetFrom + n)
        /\ d.failed = (Queue(d.to) \/ Queue(d.from))
        /\ d.moves = Append(c.moves, m)
    BY <1>1, CopyStepIs
  <1> HIDE DEF n, d
  <1>5. /\ InPacket(to, d.to, d.offsetTo)
        /\ Where(to, d.to, d.offsetTo) = Where(to, c.to, c.offsetTo) + n
        /\ ~Queue(d.to)
        /\ d.to = IF c.offsetTo + n = len[c.to] THEN next[c.to] ELSE c.to
    <2> DEFINE a == Advance(c.to, c.offsetTo + n)
    <2>1. /\ InPacket(to, a[1], a[2])
          /\ Where(to, a[1], a[2]) = Where(to, c.to, c.offsetTo) + n
          /\ ~Queue(a[1])
          /\ a[1] = IF c.offsetTo + n = len[c.to] THEN next[c.to] ELSE c.to
      BY <1>1, <1>3, AdvanceIs
    <2>2. a = <<d.to, d.offsetTo>>
      BY <1>4
    <2> HIDE DEF a
    <2>3. a[1] = d.to /\ a[2] = d.offsetTo
      BY <2>2
    <2> QED
      BY <2>1, <2>3
  <1>6. /\ InPacket(from, d.from, d.offsetFrom)
        /\ Where(from, d.from, d.offsetFrom)
             = Where(from, c.from, c.offsetFrom) + n
        /\ ~Queue(d.from)
        /\ d.from = IF c.offsetFrom + n = len[c.from] THEN next[c.from]
                    ELSE c.from
    <2> DEFINE a == Advance(c.from, c.offsetFrom + n)
    <2>1. /\ InPacket(from, a[1], a[2])
          /\ Where(from, a[1], a[2]) = Where(from, c.from, c.offsetFrom) + n
          /\ ~Queue(a[1])
          /\ a[1] = IF c.offsetFrom + n = len[c.from] THEN next[c.from]
                    ELSE c.from
      BY <1>1, <1>3, AdvanceIs
    <2>2. a = <<d.from, d.offsetFrom>>
      BY <1>4
    <2> HIDE DEF a
    <2>3. a[1] = d.from /\ a[2] = d.offsetFrom
      BY <2>2
    <2> QED
      BY <2>1, <2>3
  <1>7. /\ Where(to, c.to, c.offsetTo) = ToOf(to, m)
        /\ Where(from, c.from, c.offsetFrom) = FromOf(from, m)
        /\ m.length = n /\ m \in Moves
    <2>1. m \in Moves
      BY <1>1, <1>2, <1>3 DEF Moves
    <2> QED
      BY <1>1, <2>1 DEF Where, ToOf, FromOf
  <1> HIDE DEF m
  <1>8. PiecesFit(to, from, d)
    <2> DEFINE k == Len(c.moves)
    <2>1. /\ k \in Nat /\ Len(d.moves) = k + 1 /\ d.moves[k + 1] = m
          /\ \A i \in 1 .. k : d.moves[i] = c.moves[i]
      <3> HIDE DEF k
      <3> QED
        BY <1>1, <1>4, <1>7, Appended DEF k
    <2>2. ASSUME NEW i \in 1 .. k + 1
          PROVE  /\ FromOf(from, d.moves[i]) = ToOf(to, d.moves[i])
                 /\ FromOf(from, d.moves[i]) + d.moves[i].length =
                      IF i = k + 1 THEN Where(from, d.from, d.offsetFrom)
                      ELSE FromOf(from, d.moves[i + 1])
      <3>1. CASE i = k + 1
        <4>1. d.moves[i] = m
          BY <2>1, <3>1
        <4>2. FromOf(from, m) = ToOf(to, m)
          BY <1>7 DEF Sound
        <4>3. FromOf(from, m) + m.length = Where(from, d.from, d.offsetFrom)
          BY <1>6, <1>7
        <4> QED
          BY <3>1, <4>1, <4>2, <4>3
      <3>2. CASE i # k + 1
        <4>1. i \in 1 .. k /\ d.moves[i] = c.moves[i]
          <5>1. i \in 1 .. k
            BY <2>1, <3>2
          <5> QED
            BY <2>1, <5>1
        <4>2. /\ FromOf(from, c.moves[i]) = ToOf(to, c.moves[i])
              /\ FromOf(from, c.moves[i]) + c.moves[i].length =
                   IF i = k THEN Where(from, c.from, c.offsetFrom)
                   ELSE FromOf(from, c.moves[i + 1])
          BY <4>1 DEF Sound, PiecesFit
        <4>3. CASE i = k
          <5>1. d.moves[i + 1] = m
            BY <2>1, <4>3
          <5> QED
            BY <1>7, <3>2, <4>1, <4>2, <4>3, <5>1
        <4>4. CASE i # k
          <5>1. i + 1 \in 1 .. k
            BY <2>1, <4>1, <4>4
          <5>2. d.moves[i + 1] = c.moves[i + 1]
            BY <2>1, <5>1
          <5> QED
            BY <3>2, <4>1, <4>2, <4>4, <5>2
        <4> QED
          BY <4>3, <4>4
      <3> QED
        BY <3>1, <3>2
    <2> HIDE DEF k
    <2> QED
      BY <2>1, <2>2 DEF PiecesFit
  <1>9. Sound(to, from, d)
    <2>1. ~d.failed
      BY <1>4, <1>5, <1>6
    <2>2. Where(to, d.to, d.offsetTo) = Where(from, d.from, d.offsetFrom)
      BY <1>5, <1>6 DEF Sound
    <2> QED
      BY <1>4, <1>5, <1>6, <1>8, <2>1, <2>2 DEF Sound
  <1>10. Left(d) + 1 <= Left(c)
    <2>1. /\ Cardinality(Packet(c.to)) \in Nat
          /\ Cardinality(Packet(next[c.to])) \in Nat
          /\ Cardinality(Packet(c.to)) = Cardinality(Packet(next[c.to])) + 1
          /\ Cardinality(Packet(c.from)) \in Nat
          /\ Cardinality(Packet(next[c.from])) \in Nat
          /\ Cardinality(Packet(c.from)) = Cardinality(Packet(next[c.from])) + 1
      BY <1>2, Shorter
    <2>2. \/ d.to = next[c.to] /\ d.from \in {next[c.from], c.from}
          \/ d.from = next[c.from] /\ d.to \in {next[c.to], c.to}
      BY <1>3, <1>5, <1>6
    <2>3. CASE d.to = next[c.to] /\ d.from = next[c.from]
      BY <2>1, <2>3 DEF Left
    <2>4. CASE d.to = next[c.to] /\ d.from = c.from
      BY <2>1, <2>4 DEF Left
    <2>5. CASE d.to = c.to /\ d.from = next[c.from]
      BY <2>1, <2>5 DEF Left
    <2> QED
      BY <2>2, <2>3, <2>4, <2>5
  <1> QED
    BY <1>9, <1>10 DEF d


LEMMA Copied ==
  ASSUME IInv, NEW to \in live, NEW from \in live, Filled(to), Filled(from),
         tot[to] >= tot[from]
  PROVE  LET c == Copy(to, from)
         IN  Sound(to, from, c) /\ c.from = NULL
  <1>1. /\ Chained /\ FieldsOK /\ to \in Bufs /\ from \in Bufs
        /\ tot[to] \in Nat /\ tot[from] \in Nat
    BY DEF IInv, Chained, FieldsOK
  <1> DEFINE N == 2 * Cardinality(Bufs)
  <1>2. Cardinality(Bufs) \in Nat /\ N \in Nat
    BY Constants, FS_CardinalityType
  <1>3. \A q \in Bufs \cup {NULL} :
          Cardinality(Packet(q)) \in Nat /\ Cardinality(Packet(q)) <= Cardinality(Bufs)
    <2>1. \A q \in Bufs \cup {NULL} : Packet(q) \in SUBSET Bufs
      BY <1>1, PacketIs
    <2>2. ASSUME NEW S \in SUBSET Bufs
          PROVE  Cardinality(S) \in Nat /\ Cardinality(S) <= Cardinality(Bufs)
      BY Constants, FS_Subset, FS_CardinalityType
    <2> QED
      BY <2>1, <2>2
  <1>4. PICK c : /\ Copy(to, from) = c[N] /\ c[0] = CopyStart(to, from)
                 /\ \A i \in Nat : c[i + 1] = IF Ended(c[i]) THEN c[i]
                                              ELSE CopyStep(c[i])
    BY <1>1, CopyIs
  <1> DEFINE Ok(i) == /\ Sound(to, from, c[i])
                      /\ Ended(c[i]) \/ Left(c[i]) + i <= N
  <1> HIDE DEF N
  <1>5. Ok(0)
    <2>1. /\ c[0] \in Progress /\ c[0].to = to /\ c[0].from = from
          /\ c[0].offsetTo = 0 /\ c[0].offsetFrom = 0 /\ c[0].moves = <<>>
          /\ ~c[0].failed
      <3>1. (tot[to] < tot[from]) = FALSE
        BY <1>1
      <3>2. c[0] = [to |-> to, from |-> from, offsetTo |-> 0, offsetFrom |-> 0,
                    moves |-> <<>>, failed |-> FALSE]
        BY <1>4, <3>1 DEF CopyStart
      <3> QED
        BY <1>1, <3>2 DEF Progress
    <2>2. to \in Packet(to) /\ from \in Packet(from) /\ to # NULL /\ from # NULL
      BY <1>1, PacketIs, Constants
    <2>3. InPacket(to, to, 0) /\ InPacket(from, from, 0)
      BY <2>2 DEF InPacket, Filled
    <2>4. Where(to, to, 0) = Where(from, from, 0)
      BY <1>1, <2>2 DEF Where
    <2>5. PiecesFit(to, from, c[0])
      BY <2>1 DEF PiecesFit
    <2>6. Left(c[0]) + 0 <= N
      BY <1>1, <1>2, <1>3, <2>1 DEF Left, N
    <2> QED
      BY <2>1, <2>3, <2>4, <2>5, <2>6 DEF Sound
  <1>6. ASSUME NEW i \in Nat, Ok(i) PROVE Ok(i + 1)
    <2>1. CASE Ended(c[i])
      <3>1. c[i + 1] = c[i]
        BY <1>4, <2>1
      <3> QED
        BY <1>6, <2>1, <3>1
    <2>2. CASE ~Ended(c[i])
      <3> DEFINE b == c[i]
      <3>1. c[i + 1] = CopyStep(b)
        BY <1>4, <2>2
      <3>2. Sound(to, from, b) /\ ~Ended(b) /\ Left(b) + i <= N
        BY <1>6, <2>2
      <3> HIDE DEF b
      <3>3. Sound(to, from, CopyStep(b)) /\ Left(CopyStep(b)) + 1 <= Left(b)
        BY <3>2, CopyStepKeeps
      <3>4. Left(b) \in Nat /\ Left(CopyStep(b)) \in Nat
        <4>1. ASSUME NEW x \in Progress PROVE Left(x) \in Nat
          <5>1. x.to \in Bufs \cup {NULL} /\ x.from \in Bufs \cup {NULL}
            BY DEF Progress
          <5>2. /\ Cardinality(Packet(x.to)) \in Nat
                /\ Cardinality(Packet(x.from)) \in Nat
            BY <1>3, <5>1
          <5> QED
            BY <5>2 DEF Left
        <4> QED
          BY <3>2, <3>3, <4>1 DEF Sound
      <3>5. Left(CopyStep(b)) + (i + 1) <= N
        BY <1>2, <3>2, <3>3, <3>4
      <3> QED
        BY <3>1, <3>3, <3>5
    <2> QED
      BY <2>1, <2>2
  <1>7. Ok(N)
    <2> HIDE DEF Ok
    <2> DEFINE bad == {i \in Nat : ~Ok(i)}
    <2>1. SUFFICES ASSUME bad # {} PROVE FALSE
      BY <1>2
    <2>2. PICK k \in bad : \A l \in bad : k <= l
      <3>1. bad \subseteq Nat
        OBVIOUS
      <3> HIDE DEF bad
      <3> QED
        BY <2>1, <3>1, Least
    <2>3. k \in Nat /\ ~Ok(k)
      OBVIOUS
    <2>4. k - 1 \in Nat /\ ~(k <= k - 1) /\ k - 1 + 1 = k
      BY <1>5, <2>3
    <2>5. Ok(k - 1)
      <3>1. k - 1 \notin bad
        <4> HIDE DEF bad
        <4> QED
          BY <2>2, <2>4
      <3> QED
        BY <2>4, <3>1
    <2>6. Ok(k - 1 + 1)
      BY <1>6, <2>4, <2>5
    <2> QED
      BY <2>3, <2>4, <2>6
  <1> DEFINE d == c[N]
  <1>8. Sound(to, from, d) /\ (Ended(d) \/ Left(d) + N <= N)
    BY <1>7
  <1> HIDE DEF d, Ok
  <1>9. /\ d.to \in Bufs \cup {NULL} /\ d.from \in Bufs \cup {NULL} /\ ~d.failed
        /\ InPacket(to, d.to, d.offsetTo) /\ InPacket(from, d.from, d.offsetFrom)
        /\ Where(to, d.to, d.offsetTo) = Where(from, d.from, d.offsetFrom)
    BY <1>8 DEF Sound, Progress
  <1>10. d.to = NULL \/ d.from = NULL
    <2>1. CASE Ended(d)
      BY <1>9, <2>1 DEF Ended
    <2>2. CASE d.to # NULL /\ d.from # NULL /\ ~Ended(d)
      <3>1. /\ Cardinality(Packet(d.to)) \in Nat
            /\ Cardinality(Packet(d.from)) \in Nat
            /\ Cardinality(Packet(next[d.to])) \in Nat
            /\ Cardinality(Packet(d.to)) = Cardinality(Packet(next[d.to])) + 1
        BY <1>3, <1>9, <2>2, Shorter
      <3>2. Left(d) >= 1 /\ Left(d) \in Nat
        BY <3>1 DEF Left
      <3> QED
        BY <1>2, <1>8, <2>2, <3>2
    <2> QED
      BY <2>1, <2>2
  <1>11. d.from = NULL
    <2>1. SUFFICES ASSUME d.from # NULL PROVE FALSE
      OBVIOUS
    <2>2. d.to = NULL /\ Where(to, d.to, d.offsetTo) = tot[to]
      BY <1>10, <2>1 DEF Where
    <2>3. /\ d.from \in Packet(from) /\ d.offsetFrom \in Nat
          /\ d.offsetFrom < len[d.from]
          /\ Where(from, d.from, d.offsetFrom)
               = tot[from] - tot[d.from] + d.offsetFrom
      BY <1>9, <2>1 DEF InPacket, Where
    <2>4. /\ len[d.from] \in Nat /\ tot[d.from] \in Nat
          /\ tot[d.from] >= len[d.from]
      <3>1. /\ len[d.from] \in Nat /\ tot[d.from] \in Nat
            /\ tot[d.from] = len[d.from] + IF next[d.from] = NULL THEN 0
                                           ELSE tot[next[d.from]]
            /\ next[d.from] # NULL => tot[next[d.from]] \in Nat
        BY <2>3, PacketTotals
      <3> QED
        BY <3>1
    <2> QED
      BY <1>1, <1>9, <2>2, <2>3, <2>4
  <1> QED
    BY <1>4, <1>8, <1>11 DEF d

LEMMA WholeCopied == IInv => CopyWhole
  <1> SUFFICES ASSUME IInv,
                      NEW to \in live, NEW from \in live,
                      tot[to] >= tot[from],
                      \A p \in Packet(to) \cup Packet(from) : len[p] > 0
               PROVE  LET c     == Copy(to, from)
                          At(m) == tot[from] - tot[m.from] + m.offsetFrom
                      IN  /\ ~c.failed /\ c.from = NULL
                          /\ \A i \in DOMAIN c.moves :
                               LET m == c.moves[i]
                               IN  /\ At(m) = tot[to] - tot[m.to] + m.offsetTo
                                   /\ At(m) + m.length =
                                        IF i = Len(c.moves) THEN tot[from]
                                        ELSE At(c.moves[i + 1])
    BY DEF CopyWhole
  <1>1. Filled(to) /\ Filled(from)
    BY DEF Filled
  <1> DEFINE c == Copy(to, from)
  <1>2. Sound(to, from, c) /\ c.from = NULL
    BY <1>1, Copied
  <1> HIDE DEF c
  <1>3. /\ ~c.failed /\ c.moves \in Seq(Moves) /\ DOMAIN c.moves = 1 .. Len(c.moves)
        /\ Where(from, c.from, c.offsetFrom) = tot[from]
    BY <1>2 DEF Sound, Progress, Where
  <1>4. \A i \in 1 .. Len(c.moves) :
          LET m == c.moves[i]
          IN  /\ FromOf(from, m) = ToOf(to, m)
              /\ FromOf(from, m) + m.length =
                   IF i = Len(c.moves) THEN tot[from]
                   ELSE FromOf(from, c.moves[i + 1])
    BY <1>2, <1>3 DEF Sound, PiecesFit
  <1> QED
    BY <1>2, <1>3, <1>4 DEF FromOf, ToOf, c

(***************************************************************************)
(* pbuf_copy copies every unit of a packet to the same place of the        *)
(* target, however many pbufs each is cut into, in whatever state of the   *)
(* rest: the loop never takes the place it has reached for the end of a    *)
(* packet in a queue.                                                      *)
(***************************************************************************)
THEOREM CopiesAreWhole == Spec => []CopyWhole
  BY WholeCopied, Invariance, PTL
=============================================================================
