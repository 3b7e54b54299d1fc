---------------------------- MODULE IpReassProofs ----------------------------
(***************************************************************************)
(* Theorems about IpReass, for any fragments and a list of any length: it  *)
(* breaks only where a datagram that is neither the first nor the last is  *)
(* given up; until then count and list are exact; a fragment that does not *)
(* break it costs nothing of its own datagram; and the last missing one    *)
(* completes it.                                                           *)
(* About IpFrag: the fragments it cuts leave neither gap nor overlap.      *)
(***************************************************************************)
EXTENDS IpReass, IpFrag, FiniteSetTheorems, SequenceTheorems,
        NaturalsInduction, WellFoundedInduction, TLAPS

Links == Elements \cup {NULL}

Datagrams == [id : Ids \cup {NULL}, p : Seq(Fragments), last : BOOLEAN,
              len : Nat, timer : 0 .. MaxAge]

States == [head : Links, free : Links, next : [Elements -> Links],
           data : [Elements -> Datagrams], count : Int]

(* Where the sequence s ends there is no element. *)
At(s, i) == IF i \in DOMAIN s THEN s[i] ELSE NULL

Distinct(s) == \A i, j \in DOMAIN s : s[i] = s[j] => i = j

(* The list from first is the sequence s. *)
Linked(next_, first, s) ==
  /\ s \in Seq(Elements) /\ Distinct(s)
  /\ first = At(s, 1)
  /\ \A i \in DOMAIN s : next_[s[i]] = At(s, i + 1)

(* list is the list of datagrams of st, pool the free elements. *)
Lists(st, list, pool) ==
  /\ Linked(st.next, st.head, list) /\ Linked(st.next, st.free, pool)
  /\ \A i \in DOMAIN list, j \in DOMAIN pool : list[i] # pool[j]
  /\ \A d \in Elements : (\E i \in DOMAIN list : list[i] = d)
                         \/ (\E i \in DOMAIN pool : pool[i] = d)
  /\ \A d \in Elements : (\E i \in DOMAIN list : list[i] = d) <=> st.data[d].id # NULL

(* The fragments of which a datagram that is delivered is whole. *)
Simple == EndsOnce(Fragments) /\ NoneBetween(Fragments)

(* The last fragment that told the length is there. *)
EndHeld(e) == e.last => \E j \in DOMAIN e.p : ~e.p[j].more /\ e.p[j].end = e.len

(* The fragments a datagram e holds, in the order of their offsets. *)
InOrder(e) ==
  /\ Simple => EndHeld(e)
  /\ \A i, j \in DOMAIN e.p : i < j => e.p[i].start < e.p[j].start
  /\ \A i \in DOMAIN e.p : e.p[i].id = e.id /\ (~e.p[i].more => e.last)

PbufsOf(data_, S) == MapThenSumSet(LAMBDA d : Clen(data_[d].p), S)

DataOK(st) ==
  /\ \A d \in Elements : st.data[d].id = NULL => st.data[d] = NoData
  /\ \A d, e \in Elements :
       st.data[d].id = st.data[e].id /\ st.data[d].id # NULL => d = e
  /\ \A d \in Elements : InOrder(st.data[d])
  /\ st.count = PbufsOf(st.data, Elements)

-----------------------------------------------------------------------------
(***************************************************************************)
(* Numbers, and loops as functions on the numbers of their passes.         *)
(***************************************************************************)
LEMMA Constants ==
  /\ NumReass \in Nat /\ NumReass > 0 /\ MaxPbufs \in Nat /\ MaxAge \in Nat
  /\ Elements = 1 .. NumReass /\ NULL \notin Elements /\ NULL \notin Ids
  /\ IsFiniteSet(Elements) /\ Cardinality(Elements) = NumReass
  <1>1. /\ NumReass \in Nat /\ NumReass > 0 /\ MaxPbufs \in Nat /\ MaxAge \in Nat
        /\ Elements = 1 .. NumReass /\ NULL \notin Elements /\ NULL \notin Ids
    BY SizeAssumption, NullAssumption DEF SizeAssumption, NullAssumption, Elements
  <1>2. IsFiniteSet(1 .. NumReass) /\ Cardinality(1 .. NumReass) = NumReass
    BY <1>1, FS_Interval
  <1> QED
    BY <1>1, <1>2

LEMMA FragmentIs ==
  \A f \in Fragments :
    /\ f.start \in Nat /\ f.end \in Nat /\ f.start < f.end
    /\ f.more \in BOOLEAN /\ f.clen \in Nat /\ f.clen > 0
    /\ f.more \/ f.start > 0
    /\ f.id \in Ids
  BY FragmentsAssumption DEF FragmentsAssumption, Ids

LEMMA Least ==
  ASSUME NEW T, T \subseteq Nat, T # {}
  PROVE  \E x \in T : \A y \in T : x <= y
  <1>1. PICK x \in T : \A y \in T : ~(<<y, x>> \in OpToRel(<, Nat))
    BY NatLessThanWellFounded, WFMin
  <1>2. ASSUME NEW y \in T PROVE x <= y
    <2>1. <<y, x>> \notin OpToRel(<, Nat)
      BY <1>1
    <2>2. x \in Nat /\ y \in Nat
      OBVIOUS
    <2>3. ~(y < x)
      BY <2>1, <2>2 DEF OpToRel
    <2> QED
      BY <2>2, <2>3
  <1> QED
    BY <1>2

(* What holds of the first pass and of each after the one before it. *)
LEMMA Along ==
  ASSUME NEW n \in Nat, NEW P, 0 \in P, \A i \in 1 .. n : i - 1 \in P => i \in P
  PROVE  \A i \in 0 .. n : i \in P
  <1> DEFINE bad == {i \in 0 .. n : i \notin P}
  <1>1. SUFFICES ASSUME bad # {} PROVE FALSE
    OBVIOUS
  <1>2. PICK k \in bad : \A j \in bad : k <= j
    <2>1. bad \subseteq Nat
      OBVIOUS
    <2> HIDE DEF bad
    <2> QED
      BY <1>1, <2>1, Least
  <1>3. k \in 0 .. n /\ k \notin P /\ k # 0
    OBVIOUS
  <1>4. k \in 1 .. n /\ k - 1 \in 0 .. n /\ ~(k <= k - 1)
    BY <1>3
  <1>5. k - 1 \in P
    BY <1>2, <1>4
  <1> QED
    BY <1>3, <1>4, <1>5

(* A loop whose i-th pass maps what it finds by f[i], n times from b.      *)
Loops(D) == [Nat -> [D -> D]]
Runs(D, b, n, f) ==
  {c \in [0 .. n -> D] : c[0] = b /\ \A i \in 1 .. n : c[i] = f[i][c[i - 1]]}

LEMMA Iterated ==
  ASSUME NEW D, NEW b \in D, NEW n \in Nat, NEW f \in Loops(D)
  PROVE  Runs(D, b, n, f) # {}
  <1> DEFINE Partial(k, c) == /\ c \in [0 .. k -> D] /\ c[0] = b
                              /\ \A i \in 1 .. k : c[i] = f[i][c[i - 1]]
             P == {k \in Nat : \E c : Partial(k, c)}
  <1>1. 0 \in P
    <2>1. Partial(0, [i \in 0 .. 0 |-> b])
      OBVIOUS
    <2> QED
      BY <2>1
  <1>2. ASSUME NEW k \in 1 .. n, k - 1 \in P PROVE k \in P
    <2>1. PICK c : Partial(k - 1, c)
      BY <1>2
    <2>2. k \in Nat /\ k - 1 \in Nat /\ k - 1 \in 0 .. k - 1
      OBVIOUS
    <2> DEFINE g == [i \in 0 .. k |-> IF i = k THEN f[k][c[k - 1]] ELSE c[i]]
    <2>3. c[k - 1] \in D /\ f[k][c[k - 1]] \in D
      BY <2>1, <2>2 DEF Loops
    <2>4. \A i \in 0 .. k : i # k => i \in 0 .. k - 1 /\ c[i] \in D
      BY <2>1, <2>2
    <2>5. g \in [0 .. k -> D] /\ g[0] = b
      BY <2>1, <2>2, <2>3, <2>4
    <2>6. ASSUME NEW i \in 1 .. k PROVE g[i] = f[i][g[i - 1]]
      <3>1. i \in 0 .. k /\ i - 1 \in 0 .. k /\ i - 1 # k
        BY <2>2
      <3>2. g[i - 1] = c[i - 1] /\ g[i] = IF i = k THEN f[k][c[k - 1]] ELSE c[i]
        BY <3>1
      <3>3. i # k => i \in 1 .. k - 1
        BY <2>2
      <3> HIDE DEF g
      <3> QED
        BY <2>1, <3>2, <3>3
    <2>7. Partial(k, g)
      <3> HIDE DEF g
      <3> QED
        BY <2>5, <2>6
    <2> QED
      BY <2>2, <2>7
  <1> HIDE DEF P
  <1>3. n \in P
    BY <1>1, <1>2, Along
  <1> QED
    BY <1>3 DEF P, Runs

-----------------------------------------------------------------------------
(***************************************************************************)
(* The walk along a list.                                                  *)
(***************************************************************************)
LEMMA WalkIs ==
  ASSUME NEW st \in States, NEW first \in Links
  PROVE  \E at \in [0 .. NumReass -> Links] :
           /\ at[0] = first
           /\ \A i \in 1 .. NumReass :
                at[i] = IF at[i - 1] = NULL THEN NULL ELSE st.next[at[i - 1]]
           /\ From(st, first) =
                [i \in 1 .. Cardinality({j \in 0 .. NumReass - 1 : at[j] # NULL})
                   |-> at[i - 1]]
  <1> DEFINE Step(g) == [i \in 0 .. NumReass |->
                           IF i = 0 THEN first
                           ELSE IF g[i - 1] = NULL THEN NULL ELSE st.next[g[i - 1]]]
             at == CHOOSE g : g = Step(g)
             f == [i \in Nat |-> [e \in Links |->
                     IF e = NULL THEN NULL ELSE st.next[e]]]
  <1>1. st.next \in [Elements -> Links] /\ NULL \in Links /\ NumReass \in Nat
    BY Constants DEF States, Links
  <1>2. f \in Loops(Links)
    BY <1>1 DEF Links, Loops
  <1>3. PICK c \in [0 .. NumReass -> Links] :
          c[0] = first /\ \A i \in 1 .. NumReass : c[i] = f[i][c[i - 1]]
    <2> HIDE DEF f
    <2>1. Runs(Links, first, NumReass, f) # {}
      BY <1>1, <1>2, Iterated
    <2> QED
      BY <2>1 DEF Runs
  <1>4. ASSUME NEW i \in 1 .. NumReass
        PROVE  c[i] = IF c[i - 1] = NULL THEN NULL ELSE st.next[c[i - 1]]
    <2>1. i - 1 \in 0 .. NumReass /\ i \in Nat
      BY <1>1
    <2>2. c[i - 1] \in Links
      BY <1>3, <2>1
    <2> QED
      BY <1>3, <2>1, <2>2
  <1>5. c = Step(c)
    <2>1. \A i \in 0 .. NumReass : i # 0 => i \in 1 .. NumReass
      BY <1>1
    <2>2. \A i \in 0 .. NumReass :
            c[i] = IF i = 0 THEN first
                   ELSE IF c[i - 1] = NULL THEN NULL ELSE st.next[c[i - 1]]
      BY <1>3, <1>4, <2>1
    <2>3. c = [i \in 0 .. NumReass |-> c[i]]
      BY <1>3
    <2> HIDE DEF f
    <2> QED
      BY <2>2, <2>3
  <1>6. at = Step(at)
    <2> HIDE DEF Step, f
    <2> QED
      BY <1>5
  <1>7. From(st, first) =
          [i \in 1 .. Cardinality({j \in 0 .. NumReass - 1 : at[j] # NULL})
             |-> at[i - 1]]
    BY DEF From
  <1> HIDE DEF at, f
  <1>8. /\ DOMAIN at = 0 .. NumReass /\ at[0] = first
        /\ \A i \in 1 .. NumReass :
             at[i] = IF at[i - 1] = NULL THEN NULL ELSE st.next[at[i - 1]]
    <2>1. \A i \in 1 .. NumReass : i \in 0 .. NumReass /\ i # 0
      BY <1>1
    <2>2. 0 \in 0 .. NumReass
      BY <1>1
    <2> QED
      BY <1>6, <2>1, <2>2
  <1>9. at \in [0 .. NumReass -> Links]
    <2> DEFINE P == {i \in 0 .. NumReass : at[i] \in Links}
    <2>1. 0 \in P
      BY <1>1, <1>8
    <2>2. ASSUME NEW i \in 1 .. NumReass, i - 1 \in P PROVE i \in P
      <3>1. at[i - 1] \in Links /\ i \in 0 .. NumReass
        BY <1>1, <2>2
      <3>2. at[i] \in Links
        BY <1>1, <1>8, <3>1 DEF Links
      <3> QED
        BY <3>1, <3>2
    <2>3. \A i \in 0 .. NumReass : i \in P
      <3> HIDE DEF P
      <3> QED
        BY <1>1, <2>1, <2>2, Along
    <2>4. at = [i \in 0 .. NumReass |-> at[i]]
      BY <1>6
    <2> QED
      BY <2>3, <2>4
  <1> QED
    BY <1>7, <1>8, <1>9

(* What a list is made of; no two of its elements are the same. *)
LEMMA LinkedIs ==
  ASSUME NEW nx, NEW first, NEW s, Linked(nx, first, s)
  PROVE  /\ Len(s) \in Nat /\ Len(s) <= NumReass /\ DOMAIN s = 1 .. Len(s)
         /\ \A i \in DOMAIN s : s[i] \in Elements /\ s[i] # NULL
  <1>1. s \in [1 .. Len(s) -> Elements] /\ Len(s) \in Nat
    BY DEF Linked
  <1>2. s \in Injection(1 .. Len(s), Elements)
    BY <1>1 DEF Linked, Distinct, Injection, IsInjective
  <1>3. Cardinality(1 .. Len(s)) <= NumReass
    BY <1>2, Constants, FS_Injection
  <1>4. Cardinality(1 .. Len(s)) = Len(s)
    <2>1. Cardinality(1 .. Len(s)) = IF 1 > Len(s) THEN 0 ELSE Len(s) - 1 + 1
      BY <1>1, FS_Interval
    <2> QED
      BY <1>1, <2>1
  <1> QED
    BY <1>1, <1>3, <1>4, Constants

LEMMA FromIs ==
  ASSUME NEW st \in States, NEW first \in Links, NEW s, Linked(st.next, first, s)
  PROVE  From(st, first) = s
  <1>1. PICK at \in [0 .. NumReass -> Links] :
           /\ at[0] = first
           /\ \A i \in 1 .. NumReass :
                at[i] = IF at[i - 1] = NULL THEN NULL ELSE st.next[at[i - 1]]
           /\ From(st, first) =
                [i \in 1 .. Cardinality({j \in 0 .. NumReass - 1 : at[j] # NULL})
                   |-> at[i - 1]]
    BY WalkIs
  <1>2. /\ Len(s) \in Nat /\ Len(s) <= NumReass /\ DOMAIN s = 1 .. Len(s)
        /\ \A i \in DOMAIN s : s[i] \in Elements /\ s[i] # NULL
    BY LinkedIs
  <1>3. NumReass \in Nat
    BY Constants
  <1> DEFINE P == {i \in 0 .. NumReass : at[i] = At(s, i + 1)}
  <1>4. 0 \in P
    <2>1. 0 + 1 = 1 /\ 0 \in 0 .. NumReass
      BY <1>3
    <2> QED
      BY <1>1, <2>1 DEF Linked
  <1>5. ASSUME NEW i \in 1 .. NumReass, i - 1 \in P PROVE i \in P
    <2>1. i - 1 + 1 = i /\ i \in 0 .. NumReass
      BY <1>3
    <2>2. at[i - 1] = At(s, i)
      BY <1>5, <2>1
    <2>3. CASE i \in DOMAIN s
      <3>1. at[i - 1] = s[i] /\ s[i] # NULL
        BY <1>2, <2>2, <2>3 DEF At
      <3>2. at[i] = At(s, i + 1)
        BY <1>1, <2>3, <3>1 DEF Linked
      <3> QED
        BY <2>1, <3>2
    <2>4. CASE i \notin DOMAIN s
      <3>1. at[i - 1] = NULL
        BY <2>2, <2>4 DEF At
      <3>2. i + 1 \notin DOMAIN s
        BY <1>2, <2>4
      <3>3. at[i] = NULL /\ At(s, i + 1) = NULL
        BY <1>1, <3>1, <3>2 DEF At
      <3> QED
        BY <2>1, <3>3
    <2> QED
      BY <2>3, <2>4
  <1>6. \A i \in 0 .. NumReass : i \in P
    <2> HIDE DEF P
    <2> QED
      BY <1>3, <1>4, <1>5, Along
  <1>7. \A i \in 0 .. NumReass : at[i] = At(s, i + 1)
    BY <1>6
  <1> HIDE DEF P
  <1>8. {j \in 0 .. NumReass - 1 : at[j] # NULL} = 0 .. Len(s) - 1
    <2>1. ASSUME NEW j \in 0 .. NumReass - 1
          PROVE  at[j] # NULL <=> j \in 0 .. Len(s) - 1
      <3>1. j \in 0 .. NumReass /\ (j + 1 \in DOMAIN s <=> j \in 0 .. Len(s) - 1)
        BY <1>2, <1>3
      <3> QED
        BY <1>2, <1>7, <3>1 DEF At
    <2>2. 0 .. Len(s) - 1 \subseteq 0 .. NumReass - 1
      BY <1>2, <1>3
    <2> QED
      BY <2>1, <2>2
  <1>9. Cardinality(0 .. Len(s) - 1) = Len(s)
    <2>1. 0 \in Int /\ Len(s) - 1 \in Int
      BY <1>2
    <2>2. Cardinality(0 .. Len(s) - 1) =
            IF 0 > Len(s) - 1 THEN 0 ELSE Len(s) - 1 - 0 + 1
      BY <2>1, FS_Interval
    <2> QED
      BY <1>2, <2>2
  <1>10. \A i \in 1 .. Len(s) : at[i - 1] = s[i]
    <2>1. \A i \in 1 .. Len(s) : i - 1 \in 0 .. NumReass /\ i - 1 + 1 = i
      BY <1>2, <1>3
    <2> QED
      BY <1>2, <1>7, <2>1 DEF At
  <1>11. From(st, first) = [i \in 1 .. Len(s) |-> s[i]]
    BY <1>1, <1>8, <1>9, <1>10
  <1>12. s = [i \in 1 .. Len(s) |-> s[i]]
    BY <1>2 DEF Linked
  <1> QED
    BY <1>11, <1>12

(* A walk meets elements only, also where the list is damaged. *)
LEMMA FromType ==
  ASSUME NEW st \in States, NEW first \in Links
  PROVE  /\ From(st, first) \in Seq(Elements)
         /\ Len(From(st, first)) <= NumReass
         /\ first # NULL => Len(From(st, first)) > 0 /\ From(st, first)[1] = first
  <1>1. PICK at \in [0 .. NumReass -> Links] :
           /\ at[0] = first
           /\ \A i \in 1 .. NumReass :
                at[i] = IF at[i - 1] = NULL THEN NULL ELSE st.next[at[i - 1]]
           /\ From(st, first) =
                [i \in 1 .. Cardinality({j \in 0 .. NumReass - 1 : at[j] # NULL})
                   |-> at[i - 1]]
    BY WalkIs
  <1>2. NumReass \in Nat /\ NumReass > 0
    BY Constants
  <1> DEFINE T == {j \in 0 .. NumReass - 1 : at[j] # NULL}
             Q == {n \in 0 .. NumReass : at[n] # NULL => 0 .. n \cap (0 .. NumReass - 1) \subseteq T}
  <1>3. 0 \in Q
    BY <1>2
  <1>4. ASSUME NEW i \in 1 .. NumReass, i - 1 \in Q PROVE i \in Q
    <2>1. i \in 0 .. NumReass /\ i - 1 \in 0 .. NumReass
      BY <1>2
    <2>2. SUFFICES ASSUME at[i] # NULL, NEW j \in 0 .. i, j \in 0 .. NumReass - 1
                   PROVE  j \in T
      BY <2>1
    <2>3. at[i - 1] # NULL
      BY <1>1, <2>2
    <2>4. CASE j = i
      BY <2>2, <2>4
    <2>5. CASE j # i
      <3>1. j \in 0 .. i - 1
        BY <2>1, <2>5
      <3> QED
        BY <1>4, <2>2, <2>3, <3>1
    <2> QED
      BY <2>4, <2>5
  <1>5. \A i \in 0 .. NumReass : i \in Q
    <2> HIDE DEF Q
    <2> QED
      BY <1>2, <1>3, <1>4, Along
  <1>6. \E n \in 0 .. NumReass : T = 0 .. n - 1 /\ (first # NULL => n > 0)
    <2>1. CASE T = {}
      <3>1. 0 .. 0 - 1 = {} /\ 0 \in 0 .. NumReass /\ 0 \in 0 .. NumReass - 1
        BY <1>2
      <3>2. first = NULL
        BY <1>1, <2>1, <3>1
      <3> QED
        BY <2>1, <3>1, <3>2
    <2>2. CASE T # {}
      <3> DEFINE left == {NumReass - j : j \in T}
      <3>1. left \subseteq Nat /\ left # {}
        <4>1. \A j \in T : NumReass - j \in Nat
          BY <1>2
        <4> QED
          BY <2>2, <4>1
      <3>2. PICK l \in left : \A k \in left : l <= k
        <4> HIDE DEF left
        <4> QED
          BY <3>1, Least
      <3>3. PICK m \in T : l = NumReass - m
        BY <3>2
      <3>4. \A j \in T : j <= m
        <4>1. \A j \in T : NumReass - m <= NumReass - j
          BY <3>2, <3>3
        <4> QED
          BY <1>2, <4>1
      <3>5. m \in 0 .. NumReass /\ m + 1 \in 0 .. NumReass /\ at[m] # NULL
            /\ m + 1 > 0 /\ m \in 0 .. NumReass - 1
        BY <1>2
      <3>6. 0 .. m \subseteq T
        <4>1. 0 .. m \cap (0 .. NumReass - 1) \subseteq T
          BY <1>5, <3>5
        <4>2. 0 .. m \subseteq 0 .. NumReass - 1
          BY <1>2, <3>5
        <4> HIDE DEF T
        <4> QED
          BY <4>1, <4>2
      <3>7. T = 0 .. (m + 1) - 1
        <4>1. T \subseteq 0 .. m
          BY <3>4
        <4>2. (m + 1) - 1 = m
          BY <3>5
        <4> HIDE DEF T
        <4> QED
          BY <3>6, <4>1, <4>2
      <3> QED
        BY <3>5, <3>7
    <2> QED
      BY <2>1, <2>2
  <1>7. PICK n \in 0 .. NumReass : T = 0 .. n - 1 /\ (first # NULL => n > 0)
    BY <1>6
  <1>8. Cardinality(T) = n
    <2>1. Cardinality(0 .. n - 1) = IF 0 > n - 1 THEN 0 ELSE n - 1 - 0 + 1
      BY FS_Interval
    <2> HIDE DEF T
    <2> QED
      BY <1>7, <2>1
  <1>9. \A i \in 1 .. n : at[i - 1] \in Elements
    <2>1. ASSUME NEW i \in 1 .. n PROVE at[i - 1] \in Elements
      <3>1. i - 1 \in T /\ i - 1 \in 0 .. NumReass
        <4>1. i - 1 \in 0 .. n - 1
          OBVIOUS
        <4>2. i - 1 \in 0 .. NumReass
          BY <1>2
        <4> HIDE DEF T
        <4> QED
          BY <1>7, <4>1, <4>2
      <3>2. at[i - 1] \in Links /\ at[i - 1] # NULL
        BY <3>1
      <3> QED
        BY <3>2 DEF Links
    <2> QED
      BY <2>1
  <1>10. From(st, first) = [i \in 1 .. n |-> at[i - 1]]
    BY <1>1, <1>8
  <1> HIDE DEF T, Q
  <1>11. From(st, first) \in [1 .. n -> Elements] /\ n \in Nat
    BY <1>9, <1>10
  <1>12. From(st, first) \in Seq(Elements) /\ Len(From(st, first)) = n
    BY <1>10, <1>11
  <1>13. first # NULL => From(st, first)[1] = first
    <2>1. first # NULL => 1 \in 1 .. n /\ 1 - 1 = 0
      BY <1>7
    <2> QED
      BY <1>1, <1>10, <2>1
  <1> QED
    BY <1>2, <1>7, <1>12, <1>13

-----------------------------------------------------------------------------
(***************************************************************************)
(* Taking an element off the list.                                         *)
(***************************************************************************)
LEMMA ListsAre ==
  ASSUME NEW st \in States, NEW list, NEW pool, Lists(st, list, pool)
  PROVE  /\ Listed(st) = list /\ Pool(st) = pool /\ Apart(st)
         /\ DOMAIN list = 1 .. Len(list) /\ Len(list) \in Nat /\ Len(list) <= NumReass
         /\ DOMAIN pool = 1 .. Len(pool) /\ Len(pool) \in Nat /\ Len(pool) <= NumReass
         /\ \A i \in DOMAIN list : list[i] \in Elements /\ list[i] # NULL
         /\ \A i \in DOMAIN pool : pool[i] \in Elements /\ pool[i] # NULL
  <1>1. st.head \in Links /\ st.free \in Links
    BY DEF States
  <1>2. Linked(st.next, st.head, list) /\ Linked(st.next, st.free, pool)
    BY DEF Lists
  <1>3. Listed(st) = list /\ Pool(st) = pool
    BY <1>1, <1>2, FromIs DEF Listed, Pool
  <1>4. Apart(st)
    BY <1>3 DEF Lists, Apart, ToSet
  <1> QED
    BY <1>2, <1>3, <1>4, LinkedIs

LEMMA BeforeIs ==
  ASSUME NEW st \in States, NEW list, NEW pool, Lists(st, list, pool),
         NEW k \in DOMAIN list
  PROVE  Before(st, list[k]) = At(list, k - 1)
  <1>1. Listed(st) = list /\ DOMAIN list = 1 .. Len(list) /\ Len(list) \in Nat
    BY ListsAre
  <1>2. \A j \in DOMAIN list : list[j] = list[k] => j = k
    BY DEF Lists, Linked, Distinct
  <1> DEFINE c == CHOOSE j \in DOMAIN Listed(st) : Listed(st)[j] = list[k]
  <1>3. c = k
    BY <1>1, <1>2
  <1>4. Before(st, list[k]) = IF c = 1 THEN NULL ELSE Listed(st)[c - 1]
    BY DEF Before
  <1> HIDE DEF c
  <1>5. k - 1 \in DOMAIN list <=> k # 1
    BY <1>1
  <1> QED
    BY <1>1, <1>3, <1>4, <1>5 DEF At

LEMMA NoDataIs ==
  NoData \in Datagrams /\ NoData.id = NULL /\ NoData.p = <<>> /\ NoData.last = FALSE
  BY Constants DEF NoData, Datagrams

LEMMA DequeueIs ==
  ASSUME NEW st \in States, NEW d \in Elements, NEW prev
  PROVE  /\ Dequeue(st, d, prev) \in States
         /\ Dequeue(st, d, prev).head = IF st.head = d THEN st.next[d] ELSE st.head
         /\ Dequeue(st, d, prev).free = d
         /\ Dequeue(st, d, prev).count = st.count
         /\ \A e \in Elements :
              /\ Dequeue(st, d, prev).next[e] =
                   IF e = d THEN st.free
                   ELSE IF st.head # d /\ e = prev THEN st.next[d] ELSE st.next[e]
              /\ Dequeue(st, d, prev).data[e] = IF e = d THEN NoData ELSE st.data[e]
  <1>1. /\ st.head \in Links /\ st.free \in Links /\ st.next \in [Elements -> Links]
        /\ st.data \in [Elements -> Datagrams] /\ st.count \in Int
    BY DEF States
  <1>2. d \in Links
    BY DEF Links
  <1> DEFINE link == IF st.head = d THEN st.next
                     ELSE [st.next EXCEPT ![prev] = st.next[d]]
             nx == [link EXCEPT ![d] = st.free]
             dt == [st.data EXCEPT ![d] = NoData]
             hd == IF st.head = d THEN st.next[d] ELSE st.head
             new == [head |-> hd, free |-> d, next |-> nx, data |-> dt,
                     count |-> st.count]
  <1>3. st.next[d] \in Links /\ hd \in Links
    BY <1>1
  <1>4. link \in [Elements -> Links]
    BY <1>1, <1>3
  <1>5. nx \in [Elements -> Links]
    <2> HIDE DEF link
    <2> QED
      BY <1>1, <1>4
  <1>6. dt \in [Elements -> Datagrams]
    BY <1>1, NoDataIs
  <1>7. st = [head |-> st.head, free |-> st.free, next |-> st.next,
              data |-> st.data, count |-> st.count]
    BY DEF States
  <1>8. Dequeue(st, d, prev) = new
    <2>1. Dequeue(st, d, prev) = [st EXCEPT !.head = hd, !.next = nx, !.free = d,
                                            !.data = dt]
      BY DEF Dequeue
    <2> HIDE DEF hd, nx, dt
    <2> QED
      BY <1>7, <2>1
  <1>9. \A e \in Elements :
          /\ nx[e] = IF e = d THEN st.free
                     ELSE IF st.head # d /\ e = prev THEN st.next[d] ELSE st.next[e]
          /\ dt[e] = IF e = d THEN NoData ELSE st.data[e]
    BY <1>1
  <1>10. new \in States
    <2> HIDE DEF nx, dt, hd
    <2> QED
      BY <1>1, <1>2, <1>3, <1>5, <1>6 DEF States
  <1> HIDE DEF nx, dt
  <1> QED
    BY <1>8, <1>9, <1>10

Without(s, k) == [i \in 1 .. Len(s) - 1 |-> IF i < k THEN s[i] ELSE s[i + 1]]
Push(d, s) == [i \in 1 .. Len(s) + 1 |-> IF i = 1 THEN d ELSE s[i - 1]]

LEMMA WithoutIs ==
  ASSUME NEW S, NEW s \in Seq(S), NEW k \in DOMAIN s
  PROVE  /\ Without(s, k) \in Seq(S) /\ Len(Without(s, k)) = Len(s) - 1
         /\ DOMAIN Without(s, k) = 1 .. Len(s) - 1
         /\ \A i \in 1 .. Len(s) - 1 : /\ i \in DOMAIN s /\ i + 1 \in DOMAIN s
                                       /\ Without(s, k)[i] = IF i < k THEN s[i] ELSE s[i + 1]
  <1>1. Len(s) \in Nat /\ DOMAIN s = 1 .. Len(s) /\ \A i \in DOMAIN s : s[i] \in S
    OBVIOUS
  <1>2. Len(s) - 1 \in Nat
    BY <1>1
  <1>3. \A i \in 1 .. Len(s) - 1 : i \in DOMAIN s /\ i + 1 \in DOMAIN s
    BY <1>1
  <1>4. Without(s, k) \in [1 .. Len(s) - 1 -> S]
    BY <1>1, <1>3 DEF Without
  <1>5. Without(s, k) \in Seq(S) /\ Len(Without(s, k)) = Len(s) - 1
    <2> DEFINE n == Len(s) - 1
               t == Without(s, k)
    <2>1. t \in [1 .. n -> S] /\ n \in Nat
      BY <1>2, <1>4
    <2> HIDE DEF n, t
    <2>2. t \in Seq(S) /\ Len(t) = n
      BY <2>1
    <2> QED
      BY <2>2 DEF n, t
  <1> QED
    BY <1>3, <1>4, <1>5 DEF Without

LEMMA PushIs ==
  ASSUME NEW S, NEW s \in Seq(S), NEW d \in S
  PROVE  /\ Push(d, s) \in Seq(S) /\ Len(Push(d, s)) = Len(s) + 1
         /\ DOMAIN Push(d, s) = 1 .. Len(s) + 1
         /\ \A i \in 1 .. Len(s) + 1 : /\ i # 1 => i - 1 \in DOMAIN s
                                       /\ Push(d, s)[i] = IF i = 1 THEN d ELSE s[i - 1]
  <1>1. Len(s) \in Nat /\ DOMAIN s = 1 .. Len(s) /\ \A i \in DOMAIN s : s[i] \in S
    OBVIOUS
  <1>2. Len(s) + 1 \in Nat
    BY <1>1
  <1>3. \A i \in 1 .. Len(s) + 1 : i # 1 => i - 1 \in DOMAIN s
    BY <1>1
  <1>4. Push(d, s) \in [1 .. Len(s) + 1 -> S]
    BY <1>1, <1>3 DEF Push
  <1>5. Push(d, s) \in Seq(S) /\ Len(Push(d, s)) = Len(s) + 1
    <2> DEFINE n == Len(s) + 1
               t == Push(d, s)
    <2>1. t \in [1 .. n -> S] /\ n \in Nat
      BY <1>2, <1>4
    <2> HIDE DEF n, t
    <2>2. t \in Seq(S) /\ Len(t) = n
      BY <2>1
    <2> QED
      BY <2>2 DEF n, t
  <1> QED
    BY <1>3, <1>4, <1>5 DEF Push

LEMMA AtWithout ==
  ASSUME NEW S, NEW s \in Seq(S), NEW k \in DOMAIN s, NEW i \in Nat \ {0}
  PROVE  At(Without(s, k), i) = IF i < k THEN At(s, i) ELSE At(s, i + 1)
  <1>1. /\ DOMAIN Without(s, k) = 1 .. Len(s) - 1
        /\ \A j \in 1 .. Len(s) - 1 : Without(s, k)[j] = IF j < k THEN s[j] ELSE s[j + 1]
    BY WithoutIs
  <1>2. Len(s) \in Nat /\ DOMAIN s = 1 .. Len(s) /\ k \in 1 .. Len(s)
    OBVIOUS
  <1>3. CASE i \in 1 .. Len(s) - 1
    <2>1. i \in DOMAIN s /\ i + 1 \in DOMAIN s
      BY <1>2, <1>3
    <2> QED
      BY <1>1, <1>3, <2>1 DEF At
  <1>4. CASE i \notin 1 .. Len(s) - 1
    <2>1. ~(i < k) /\ i + 1 \notin DOMAIN s
      BY <1>2, <1>4
    <2> QED
      BY <1>1, <1>4, <2>1 DEF At
  <1> QED
    BY <1>3, <1>4

LEMMA AtPush ==
  ASSUME NEW S, NEW s \in Seq(S), NEW d \in S, NEW i \in Nat \ {0}
  PROVE  At(Push(d, s), i) = IF i = 1 THEN d ELSE At(s, i - 1)
  <1>1. /\ DOMAIN Push(d, s) = 1 .. Len(s) + 1
        /\ \A j \in 1 .. Len(s) + 1 : Push(d, s)[j] = IF j = 1 THEN d ELSE s[j - 1]
    BY PushIs
  <1>2. Len(s) \in Nat /\ DOMAIN s = 1 .. Len(s)
    OBVIOUS
  <1>3. i \in 1 .. Len(s) + 1 <=> i = 1 \/ i - 1 \in DOMAIN s
    BY <1>2
  <1> QED
    BY <1>1, <1>3 DEF At

(* What is freed is the first free element. *)
LEMMA PoolGrows ==
  ASSUME NEW st \in States, NEW pool, Linked(st.next, st.free, pool),
         NEW d \in Elements, \A i \in DOMAIN pool : pool[i] # d,
         NEW prev, st.head # d => \A i \in DOMAIN pool : pool[i] # prev
  PROVE  Linked(Dequeue(st, d, prev).next, d, Push(d, pool))
  <1> DEFINE nx == Dequeue(st, d, prev).next
  <1>1. \A e \in Elements :
          nx[e] = IF e = d THEN st.free
                  ELSE IF st.head # d /\ e = prev THEN st.next[d] ELSE st.next[e]
    BY DequeueIs
  <1> HIDE DEF nx
  <1>2. /\ pool \in Seq(Elements) /\ Distinct(pool) /\ st.free = At(pool, 1)
        /\ \A i \in DOMAIN pool : st.next[pool[i]] = At(pool, i + 1)
    BY DEF Linked
  <1>3. Len(pool) \in Nat /\ DOMAIN pool = 1 .. Len(pool)
        /\ \A i \in DOMAIN pool : pool[i] \in Elements
    BY <1>2
  <1>4. /\ Push(d, pool) \in Seq(Elements)
        /\ DOMAIN Push(d, pool) = 1 .. Len(pool) + 1
        /\ \A i \in 1 .. Len(pool) + 1 :
             /\ i # 1 => i - 1 \in DOMAIN pool
             /\ Push(d, pool)[i] = IF i = 1 THEN d ELSE pool[i - 1]
    BY <1>2, PushIs
  <1>5. \A i \in Nat \ {0} : At(Push(d, pool), i) = IF i = 1 THEN d ELSE At(pool, i - 1)
    BY <1>2, AtPush
  <1>6. Distinct(Push(d, pool))
    <2>1. ASSUME NEW i \in 1 .. Len(pool) + 1, NEW j \in 1 .. Len(pool) + 1,
                 Push(d, pool)[i] = Push(d, pool)[j]
          PROVE  i = j
      <3>1. CASE i = 1 \/ j = 1
        BY <1>4, <2>1, <3>1
      <3>2. CASE i # 1 /\ j # 1
        <4>1. i - 1 = j - 1
          BY <1>2, <1>4, <2>1, <3>2 DEF Distinct
        <4> QED
          BY <1>3, <4>1
      <3> QED
        BY <3>1, <3>2
    <2> QED
      BY <1>4, <2>1 DEF Distinct
  <1>7. ASSUME NEW i \in 1 .. Len(pool) + 1
        PROVE  nx[Push(d, pool)[i]] = At(Push(d, pool), i + 1)
    <2>1. i + 1 \in Nat \ {0} /\ i + 1 # 1 /\ i + 1 - 1 = i /\ i \in Nat
      BY <1>3
    <2>2. At(Push(d, pool), i + 1) = At(pool, i)
      BY <1>5, <2>1
    <2>3. CASE i = 1
      BY <1>1, <1>2, <1>4, <2>2, <2>3
    <2>4. CASE i # 1
      <3>1. i - 1 \in DOMAIN pool /\ Push(d, pool)[i] = pool[i - 1] /\ i - 1 + 1 = i
        BY <1>4, <2>1, <2>4
      <3>2. nx[pool[i - 1]] = st.next[pool[i - 1]]
        BY <1>1, <1>3, <3>1
      <3> QED
        BY <1>2, <2>2, <3>1, <3>2
    <2> QED
      BY <2>3, <2>4
  <1>8. d = At(Push(d, pool), 1)
    BY <1>5
  <1>9. Linked(nx, d, Push(d, pool))
    BY <1>4, <1>6, <1>7, <1>8 DEF Linked
  <1> QED
    BY <1>9 DEF nx

(* With the element before it, an element is taken off as it should. *)
LEMMA DequeueRight ==
  ASSUME NEW st \in States, NEW list, NEW pool, Lists(st, list, pool),
         NEW k \in DOMAIN list
  PROVE  Lists(Dequeue(st, list[k], At(list, k - 1)),
               Without(list, k), Push(list[k], pool))
  <1> DEFINE d == list[k]
             prev == At(list, k - 1)
             new == Dequeue(st, d, prev)
             rest == Without(list, k)
             more == Push(d, pool)
  <1>1. /\ DOMAIN list = 1 .. Len(list) /\ Len(list) \in Nat
        /\ DOMAIN pool = 1 .. Len(pool) /\ Len(pool) \in Nat
        /\ \A i \in DOMAIN list : list[i] \in Elements /\ list[i] # NULL
        /\ \A i \in DOMAIN pool : pool[i] \in Elements /\ pool[i] # NULL
    BY ListsAre
  <1>2. /\ list \in Seq(Elements) /\ Distinct(list) /\ st.head = At(list, 1)
        /\ \A i \in DOMAIN list : st.next[list[i]] = At(list, i + 1)
        /\ pool \in Seq(Elements)
    BY DEF Lists, Linked
  <1>3. d \in Elements /\ \A i \in DOMAIN pool : pool[i] # d
    BY <1>1 DEF Lists
  <1>4. st.head = d <=> k = 1
    <2>1. 1 \in DOMAIN list
      BY <1>1
    <2> QED
      BY <1>2, <2>1 DEF At, Distinct
  <1>5. k # 1 => k - 1 \in DOMAIN list /\ prev = list[k - 1]
    BY <1>1 DEF At
  <1>6. /\ new.head = IF k = 1 THEN st.next[d] ELSE st.head
        /\ new.free = d
        /\ \A e \in Elements :
              /\ new.next[e] = IF e = d THEN st.free
                               ELSE IF k # 1 /\ e = prev THEN st.next[d] ELSE st.next[e]
              /\ new.data[e] = IF e = d THEN NoData ELSE st.data[e]
    <2> HIDE DEF d, prev
    <2> QED
      BY <1>3, <1>4, DequeueIs
  <1>7. Linked(new.next, new.free, more)
    <2>1. st.head # d => \A i \in DOMAIN pool : pool[i] # prev
      BY <1>4, <1>5 DEF Lists
    <2>2. Linked(st.next, st.free, pool)
      BY DEF Lists
    <2> HIDE DEF d, prev
    <2> QED
      BY <1>3, <1>6, <2>1, <2>2, PoolGrows
  <1>8. /\ rest \in Seq(Elements) /\ DOMAIN rest = 1 .. Len(list) - 1
        /\ \A i \in 1 .. Len(list) - 1 :
             /\ i \in DOMAIN list /\ i + 1 \in DOMAIN list
             /\ rest[i] = IF i < k THEN list[i] ELSE list[i + 1]
    BY <1>2, WithoutIs
  <1>9. \A i \in Nat \ {0} : At(rest, i) = IF i < k THEN At(list, i) ELSE At(list, i + 1)
    BY <1>2, AtWithout
  <1>10. /\ DOMAIN more = 1 .. Len(pool) + 1
         /\ \A i \in 1 .. Len(pool) + 1 :
              /\ i # 1 => i - 1 \in DOMAIN pool
              /\ more[i] = IF i = 1 THEN d ELSE pool[i - 1]
    BY <1>2, <1>3, PushIs
  <1> HIDE DEF new, rest, more
  <1>11. ASSUME NEW i \in 1 .. Len(list) - 1
         PROVE  \E m \in DOMAIN list : /\ rest[i] = list[m] /\ m # k
                                       /\ m = IF i < k THEN i ELSE i + 1
    <2>1. i < k => i # k
      BY <1>1
    <2>2. ~(i < k) => i + 1 # k
      BY <1>1
    <2> QED
      BY <1>8, <2>1, <2>2
  <1>12. Distinct(rest)
    <2>1. ASSUME NEW i \in 1 .. Len(list) - 1, NEW j \in 1 .. Len(list) - 1,
                 rest[i] = rest[j]
          PROVE  i = j
      <3>1. PICK m \in DOMAIN list : rest[i] = list[m] /\ m = IF i < k THEN i ELSE i + 1
        BY <1>11
      <3>2. PICK n \in DOMAIN list : rest[j] = list[n] /\ n = IF j < k THEN j ELSE j + 1
        BY <1>11
      <3>3. m = n
        BY <1>2, <2>1, <3>1, <3>2 DEF Distinct
      <3> QED
        BY <1>1, <3>1, <3>2, <3>3
    <2> QED
      BY <1>8, <2>1 DEF Distinct
  <1>13. new.head = At(rest, 1)
    <2>1. At(rest, 1) = IF 1 < k THEN At(list, 1) ELSE At(list, 1 + 1)
      BY <1>9
    <2>2. CASE k = 1
      <3>1. st.next[d] = At(list, 1 + 1)
        BY <1>2, <2>2
      <3> QED
        BY <1>6, <2>1, <2>2, <3>1
    <2>3. CASE k # 1
      <3>1. 1 < k
        BY <1>1, <2>3
      <3> QED
        BY <1>2, <1>6, <2>1, <2>3, <3>1
    <2> QED
      BY <2>2, <2>3
  <1>14. ASSUME NEW i \in 1 .. Len(list) - 1
         PROVE  new.next[rest[i]] = At(rest, i + 1)
    <2>1. PICK m \in DOMAIN list : /\ rest[i] = list[m] /\ m # k
                                   /\ m = IF i < k THEN i ELSE i + 1
      BY <1>11
    <2>2. i + 1 \in Nat \ {0} /\ m \in Nat
      BY <1>1
    <2>3. At(rest, i + 1) = IF i + 1 < k THEN At(list, i + 1) ELSE At(list, i + 1 + 1)
      BY <1>9, <2>2
    <2>4. list[m] # d /\ list[m] \in Elements
      BY <1>1, <1>2, <2>1 DEF Distinct
    <2>5. new.next[list[m]] = IF k # 1 /\ list[m] = prev THEN st.next[d] ELSE st.next[list[m]]
      BY <1>6, <2>4
    <2>6. st.next[list[m]] = At(list, m + 1) /\ st.next[d] = At(list, k + 1)
      BY <1>2
    <2>7. CASE i < k /\ i + 1 < k
      <3>1. ~(k # 1 /\ list[m] = prev)
        <4>1. k # 1 /\ m # k - 1
          BY <1>1, <2>1, <2>7
        <4> QED
          BY <1>2, <1>5, <4>1 DEF Distinct
      <3>2. m = i
        BY <2>1, <2>7
      <3> HIDE DEF d, prev
      <3> QED
        BY <2>1, <2>3, <2>5, <2>6, <2>7, <3>1, <3>2
    <2>8. CASE i < k /\ ~(i + 1 < k)
      <3>1. m = k - 1 /\ i + 1 = k /\ k # 1 /\ i + 1 + 1 = k + 1
        BY <1>1, <2>1, <2>8
      <3>2. list[m] = prev
        BY <1>5, <3>1
      <3> HIDE DEF d, prev
      <3> QED
        BY <2>1, <2>3, <2>5, <2>6, <2>8, <3>1, <3>2
    <2>9. CASE ~(i < k)
      <3>1. m = i + 1 /\ m # k - 1 /\ ~(i + 1 < k)
        BY <1>1, <2>1, <2>9
      <3>2. ~(k # 1 /\ list[m] = prev)
        BY <1>2, <1>5, <3>1 DEF Distinct
      <3> HIDE DEF d, prev
      <3> QED
        BY <2>1, <2>3, <2>5, <2>6, <3>1, <3>2
    <2> QED
      BY <2>7, <2>8, <2>9
  <1>15. Linked(new.next, new.head, rest)
    BY <1>8, <1>12, <1>13, <1>14 DEF Linked
  <1>16. \A e \in Elements :
           (\E i \in DOMAIN rest : rest[i] = e) <=> (\E i \in DOMAIN list : list[i] = e) /\ e # d
    <2>1. ASSUME NEW e \in Elements, NEW i \in DOMAIN rest, rest[i] = e
          PROVE  (\E j \in DOMAIN list : list[j] = e) /\ e # d
      <3>1. PICK m \in DOMAIN list : rest[i] = list[m] /\ m # k
        BY <1>8, <1>11
      <3>2. list[m] # list[k]
        BY <1>2, <3>1 DEF Distinct
      <3> QED
        BY <2>1, <3>1, <3>2
    <2>2. ASSUME NEW e \in Elements, NEW j \in DOMAIN list, list[j] = e, e # d
          PROVE  \E i \in DOMAIN rest : rest[i] = e
      <3>1. j # k
        BY <2>2
      <3>2. CASE j < k
        <4>1. j \in 1 .. Len(list) - 1
          BY <1>1, <3>2
        <4> QED
          BY <1>8, <2>2, <3>2, <4>1
      <3>3. CASE ~(j < k)
        <4>1. j - 1 \in 1 .. Len(list) - 1 /\ ~(j - 1 < k) /\ j - 1 + 1 = j
          BY <1>1, <3>1, <3>3
        <4> QED
          BY <1>8, <2>2, <4>1
      <3> QED
        BY <3>2, <3>3
    <2> QED
      BY <2>1, <2>2
  <1>17. \A e \in Elements :
           (\E i \in DOMAIN more : more[i] = e) <=> (\E i \in DOMAIN pool : pool[i] = e) \/ e = d
    <2>1. ASSUME NEW e \in Elements, NEW i \in DOMAIN pool, pool[i] = e
          PROVE  \E j \in DOMAIN more : more[j] = e
      <3>1. i + 1 \in 1 .. Len(pool) + 1 /\ i + 1 # 1 /\ i + 1 - 1 = i
        BY <1>1
      <3> QED
        BY <1>10, <2>1, <3>1
    <2>2. 1 \in 1 .. Len(pool) + 1
      BY <1>1
    <2> QED
      BY <1>10, <2>1, <2>2
  <1>18. \A i \in DOMAIN rest : rest[i] \in Elements
    BY <1>8
  <1>19. \A i \in DOMAIN more : more[i] \in Elements
    BY <1>1, <1>3, <1>10
  <1>20. \A e \in Elements :
           /\ (\E i \in DOMAIN list : list[i] = e) \/ (\E i \in DOMAIN pool : pool[i] = e)
           /\ ~((\E i \in DOMAIN list : list[i] = e) /\ (\E i \in DOMAIN pool : pool[i] = e))
           /\ (\E i \in DOMAIN list : list[i] = e) <=> st.data[e].id # NULL
    BY DEF Lists
  <1> HIDE DEF d, prev
  <1>21. \A i \in DOMAIN rest, j \in DOMAIN more : rest[i] # more[j]
    <2> SUFFICES ASSUME NEW i \in DOMAIN rest, NEW j \in DOMAIN more, rest[i] = more[j]
                 PROVE  FALSE
      OBVIOUS
    <2>1. PICK e \in Elements : rest[i] = e
      BY <1>18
    <2>2. (\E m \in DOMAIN list : list[m] = e) /\ e # d
      BY <1>16, <2>1
    <2>3. (\E m \in DOMAIN pool : pool[m] = e) \/ e = d
      BY <1>17, <2>1
    <2> QED
      BY <1>20, <2>2, <2>3
  <1>22. \A e \in Elements :
           (\E i \in DOMAIN rest : rest[i] = e) \/ (\E i \in DOMAIN more : more[i] = e)
    BY <1>16, <1>17, <1>20
  <1>23. \A e \in Elements : (\E i \in DOMAIN rest : rest[i] = e) <=> new.data[e].id # NULL
    <2>1. \A e \in Elements : new.data[e].id # NULL <=> st.data[e].id # NULL /\ e # d
      BY <1>6, NoDataIs
    <2> QED
      BY <1>16, <1>20, <2>1
  <1>24. Lists(new, rest, more)
    BY <1>7, <1>15, <1>21, <1>22, <1>23 DEF Lists
  <1> QED
    BY <1>24 DEF new, rest, more, d, prev

(* Without the element before it, the element stays on the list: what was  *)
(* free follows it there.                                                  *)
LEMMA DequeueWrong ==
  ASSUME NEW st \in States, NEW list, NEW pool, Lists(st, list, pool),
         NEW k \in DOMAIN list, k # 1, k # Len(list)
  PROVE  ~ Apart(Dequeue(st, list[k], list[Len(list) - 1]))
  <1> DEFINE d == list[k]
             prev == list[Len(list) - 1]
             new == Dequeue(st, d, prev)
             n == k + Len(pool)
             s == [i \in 1 .. n |-> IF i <= k THEN list[i] ELSE pool[i - k]]
  <1>1. /\ DOMAIN list = 1 .. Len(list) /\ Len(list) \in Nat
        /\ DOMAIN pool = 1 .. Len(pool) /\ Len(pool) \in Nat
        /\ \A i \in DOMAIN list : list[i] \in Elements /\ list[i] # NULL
        /\ \A i \in DOMAIN pool : pool[i] \in Elements /\ pool[i] # NULL
    BY ListsAre
  <1>2. /\ list \in Seq(Elements) /\ Distinct(list) /\ st.head = At(list, 1)
        /\ \A i \in DOMAIN list : st.next[list[i]] = At(list, i + 1)
        /\ pool \in Seq(Elements) /\ Distinct(pool) /\ st.free = At(pool, 1)
        /\ \A i \in DOMAIN pool : st.next[pool[i]] = At(pool, i + 1)
        /\ \A i \in DOMAIN list, j \in DOMAIN pool : list[i] # pool[j]
    BY DEF Lists, Linked
  <1>3. d \in Elements /\ \A i \in DOMAIN pool : pool[i] # d
    BY <1>1, <1>2
  <1>4. 1 \in DOMAIN list /\ st.head = list[1] /\ st.head # d
    <2>1. 1 \in DOMAIN list
      BY <1>1
    <2> QED
      BY <1>2, <2>1 DEF At, Distinct
  <1>5. Len(list) - 1 \in DOMAIN list /\ k < Len(list) /\ k \in Nat /\ 1 < k
    BY <1>1
  <1>6. /\ new \in States /\ new.head = list[1] /\ new.free = d
        /\ \A e \in Elements :
              new.next[e] = IF e = d THEN st.free
                            ELSE IF e = prev THEN st.next[d] ELSE st.next[e]
    <2> HIDE DEF d, prev
    <2> QED
      BY <1>3, <1>4, DequeueIs
  <1>7. Linked(new.next, new.free, Push(d, pool))
    <2>1. st.head # d => \A i \in DOMAIN pool : pool[i] # prev
      BY <1>2, <1>5
    <2>2. Linked(st.next, st.free, pool)
      BY DEF Lists
    <2> HIDE DEF d, prev
    <2> QED
      BY <1>3, <1>6, <2>1, <2>2, PoolGrows
  <1>8. n \in Nat /\ DOMAIN s = 1 .. n /\ 1 \in 1 .. n /\ k \in 1 .. n
    BY <1>1, <1>5
  <1>9. \A i \in 1 .. n : /\ i <= k => i \in DOMAIN list /\ s[i] = list[i]
                          /\ ~(i <= k) => i - k \in DOMAIN pool /\ s[i] = pool[i - k]
                          /\ s[i] \in Elements
    BY <1>1, <1>5, <1>8
  <1> HIDE DEF s
  <1>10. s \in Seq(Elements) /\ Len(s) = n
    <2>1. s \in [1 .. n -> Elements]
      <3>1. s = [i \in 1 .. n |-> s[i]]
        BY DEF s
      <3> HIDE DEF n
      <3> QED
        BY <1>9, <3>1
    <2> HIDE DEF n
    <2> QED
      BY <1>8, <2>1
  <1>11. Distinct(s)
    <2>1. ASSUME NEW i \in 1 .. n, NEW j \in 1 .. n, s[i] = s[j] PROVE i = j
      <3>1. CASE i <= k /\ j <= k
        BY <1>2, <1>9, <2>1, <3>1 DEF Distinct
      <3>2. CASE ~(i <= k) /\ ~(j <= k)
        <4>1. i - k = j - k
          BY <1>2, <1>9, <2>1, <3>2 DEF Distinct
        <4> QED
          BY <1>5, <1>8, <4>1
      <3>3. CASE (i <= k) # (j <= k)
        BY <1>2, <1>9, <2>1, <3>3
      <3> QED
        BY <3>1, <3>2, <3>3
    <2> QED
      BY <1>8, <2>1 DEF Distinct
  <1>12. new.head = At(s, 1)
    BY <1>5, <1>6, <1>8, <1>9 DEF At
  <1>13. ASSUME NEW i \in 1 .. n PROVE new.next[s[i]] = At(s, i + 1)
    <2>1. i + 1 \in 1 .. n <=> i # n
      BY <1>8
    <2>2. CASE i < k
      <3>1. i + 1 \in 1 .. n /\ i + 1 <= k /\ i <= k /\ i # k /\ i # Len(list) - 1
        <4> HIDE DEF d, prev, new
        <4>1. i \in Nat /\ k \in Nat /\ n \in Nat /\ Len(list) \in Nat /\ k <= n
          BY <1>1, <1>8
        <4> HIDE DEF n
        <4> QED
          BY <1>5, <2>2, <4>1
      <3>2. list[i] # d /\ list[i] # prev /\ list[i] \in Elements /\ s[i] = list[i]
        BY <1>1, <1>2, <1>5, <1>9, <3>1 DEF Distinct
      <3>3. new.next[list[i]] = At(list, i + 1)
        BY <1>2, <1>6, <1>9, <3>1, <3>2
      <3> QED
        BY <1>8, <1>9, <3>1, <3>2, <3>3 DEF At
    <2>3. CASE i = k
      <3>1. new.next[s[i]] = At(pool, 1)
        <4>1. s[i] = d
          BY <1>5, <1>9, <2>3
        <4>2. new.next[d] = st.free
          BY <1>3, <1>6
        <4> HIDE DEF d, new, prev, n
        <4> QED
          BY <1>2, <4>1, <4>2
      <3>2. CASE Len(pool) = 0
        <4>1. ~(1 \in DOMAIN pool) /\ ~(i + 1 \in 1 .. n)
          BY <1>1, <1>8, <2>3, <3>2
        <4> HIDE DEF d, prev, new, n
        <4> QED
          BY <1>8, <3>1, <4>1 DEF At
      <3>3. CASE Len(pool) # 0
        <4>1. 1 \in DOMAIN pool /\ i + 1 \in 1 .. n /\ i + 1 - k = 1 /\ ~(i + 1 <= k)
          BY <1>1, <1>5, <1>8, <2>3, <3>3
        <4> HIDE DEF d, prev, new, n
        <4> QED
          BY <1>8, <1>9, <3>1, <4>1 DEF At
      <3> QED
        BY <3>2, <3>3
    <2>4. CASE k < i
      <3>1. /\ ~(i <= k) /\ ~(i + 1 <= k) /\ i - k \in DOMAIN pool
            /\ i + 1 - k = i - k + 1
            /\ (i + 1 \in 1 .. n <=> i - k + 1 \in DOMAIN pool)
        BY <1>1, <1>5, <1>8, <2>4
      <3>2. s[i] = pool[i - k] /\ pool[i - k] # d /\ pool[i - k] # prev
            /\ pool[i - k] \in Elements
        BY <1>1, <1>2, <1>3, <1>5, <1>9, <3>1
      <3>3. new.next[pool[i - k]] = At(pool, i - k + 1)
        BY <1>2, <1>6, <3>1, <3>2
      <3> HIDE DEF d, prev, new, n
      <3> QED
        BY <1>8, <1>9, <3>1, <3>2, <3>3 DEF At
    <2> QED
      BY <1>5, <2>2, <2>3, <2>4
  <1>14. Linked(new.next, new.head, s)
    <2> HIDE DEF new, n
    <2> QED
      BY <1>8, <1>10, <1>11, <1>12, <1>13 DEF Linked
  <1>15. Listed(new) = s /\ Pool(new) = Push(d, pool)
    <2>1. new.head \in Links /\ new.free \in Links
      <3> HIDE DEF new
      <3> QED
        BY <1>6 DEF States
    <2> HIDE DEF new
    <2> QED
      BY <1>6, <1>7, <1>14, <2>1, FromIs DEF Listed, Pool
  <1>16. d \in ToSet(s)
    <2>1. k \in DOMAIN s /\ s[k] = d
      BY <1>5, <1>8, <1>9
    <2> QED
      BY <2>1 DEF ToSet
  <1>17. d \in ToSet(Push(d, pool))
    <2>1. 1 \in DOMAIN Push(d, pool) /\ Push(d, pool)[1] = d
      <3>1. 1 \in 1 .. Len(pool) + 1
        BY <1>1
      <3>2. pool \in Seq(Elements) /\ d \in Elements
        BY <1>2, <1>3
      <3> HIDE DEF d, prev, new, n
      <3>3. /\ DOMAIN Push(d, pool) = 1 .. Len(pool) + 1
            /\ \A i \in 1 .. Len(pool) + 1 :
                 Push(d, pool)[i] = IF i = 1 THEN d ELSE pool[i - 1]
        BY <3>2, PushIs
      <3> QED
        BY <3>1, <3>3
    <2> QED
      BY <2>1 DEF ToSet
  <1>18. ~ Apart(new)
    <2> HIDE DEF d, new, n
    <2> QED
      BY <1>15, <1>16, <1>17 DEF Apart
  <1> QED
    BY <1>18

(* The count, and what is held, say nothing of the lists.                  *)
LEMMA SameLists ==
  ASSUME NEW st, NEW new, NEW list, NEW pool,
         new.head = st.head, new.free = st.free, new.next = st.next,
         \A d \in Elements : new.data[d].id # NULL <=> st.data[d].id # NULL
  PROVE  /\ Lists(st, list, pool) => Lists(new, list, pool)
         /\ Apart(new) <=> Apart(st)
         /\ Listed(new) = Listed(st) /\ Pool(new) = Pool(st)
  <1>1. Listed(new) = Listed(st) /\ Pool(new) = Pool(st)
    BY DEF Listed, Pool, From
  <1> QED
    BY <1>1 DEF Lists, Apart

-----------------------------------------------------------------------------
(***************************************************************************)
(* Sums: w[s] is the sum of v over s.                                      *)
(***************************************************************************)
Additive(D, v, w) ==
  /\ w \in [SUBSET D -> Nat]
  /\ w[{}] = 0
  /\ \A s \in SUBSET D : \A x \in s : w[s] = v[x] + w[s \ {x}]

LEMMA SubsetsWellFounded ==
  ASSUME NEW T, IsFiniteSet(T), NEW bad, bad \subseteq SUBSET T, bad # {}
  PROVE  \E s \in bad : \A r \in bad : ~(r \subseteq s /\ r # s)
  <1>1. IsWellFoundedOn(StrictSubsetOrdering(T), SUBSET T)
    <2>1. IsWellFoundedOn(StrictSubsetOrdering(T), FiniteSubsetsOf(T))
      BY FS_StrictSubsetOrderingWellFounded
    <2>2. FiniteSubsetsOf(T) = SUBSET T
      BY FS_FiniteSubsetsOfFinite
    <2> QED
      BY <2>1, <2>2
  <1>2. PICK s \in bad : \A r \in bad : ~(<<r, s>> \in StrictSubsetOrdering(T))
    BY <1>1, WFMin
  <1>3. ASSUME NEW r \in bad, r \subseteq s, r # s PROVE FALSE
    <2>1. <<r, s>> \in StrictSubsetOrdering(T)
      BY <1>3 DEF StrictSubsetOrdering
    <2> QED
      BY <1>2, <2>1
  <1> QED
    BY <1>3

LEMMA SumExists ==
  ASSUME NEW D, IsFiniteSet(D), NEW v \in [D -> Nat]
  PROVE  \E w : Additive(D, v, w)
  <1> DEFINE bad == {s \in SUBSET D : ~ \E w : Additive(s, v, w)}
  <1>1. SUFFICES ASSUME bad # {} PROVE FALSE
    OBVIOUS
  <1>2. PICK s \in bad : \A r \in bad : ~(r \subseteq s /\ r # s)
    <2>1. bad \subseteq SUBSET D
      OBVIOUS
    <2> HIDE DEF bad
    <2> QED
      BY <1>1, <2>1, SubsetsWellFounded
  <1>3. s # {}
    <2>1. ASSUME s = {} PROVE FALSE
      <3>1. Additive({}, v, [r \in SUBSET {} |-> 0])
        BY DEF Additive
      <3> QED
        BY <1>2, <2>1, <3>1
    <2> QED
      BY <2>1
  <1>4. PICK x \in s : TRUE
    BY <1>3
  <1>5. PICK w : Additive(s \ {x}, v, w)
    <2>1. s \ {x} \in SUBSET D /\ s \ {x} # s
      BY <1>2, <1>4
    <2> QED
      BY <1>2, <2>1
  <1> DEFINE u == [r \in SUBSET s |-> IF x \in r THEN v[x] + w[r \ {x}] ELSE w[r]]
  <1>6. \A r \in SUBSET s : r \ {x} \in SUBSET (s \ {x})
                            /\ (x \notin r => r \in SUBSET (s \ {x}))
    OBVIOUS
  <1>7. v[x] \in Nat /\ \A y \in s : v[y] \in Nat
    BY <1>2, <1>4
  <1>8. u \in [SUBSET s -> Nat] /\ u[{}] = 0
    <2>1. w \in [SUBSET (s \ {x}) -> Nat] /\ w[{}] = 0
      BY <1>5 DEF Additive
    <2> QED
      BY <1>6, <1>7, <2>1
  <1>9. ASSUME NEW r \in SUBSET s, NEW y \in r
        PROVE  u[r] = v[y] + u[r \ {y}]
    <2>1. CASE y = x
      BY <1>6, <2>1
    <2>2. CASE y # x /\ x \notin r
      <3>1. r \in SUBSET (s \ {x}) /\ r \ {y} \in SUBSET s
        BY <2>2
      <3> QED
        BY <1>5, <2>2, <3>1 DEF Additive
    <2>3. CASE y # x /\ x \in r
      <3>1. /\ r \ {x} \in SUBSET (s \ {x}) /\ y \in r \ {x}
            /\ r \ {y} \in SUBSET s /\ x \in r \ {y}
            /\ (r \ {y}) \ {x} = (r \ {x}) \ {y}
            /\ (r \ {x}) \ {y} \in SUBSET (s \ {x})
        BY <2>3
      <3>2. w[r \ {x}] = v[y] + w[(r \ {x}) \ {y}]
        BY <1>5, <3>1 DEF Additive
      <3>3. /\ u[r] = v[x] + w[r \ {x}]
            /\ u[r \ {y}] = v[x] + w[(r \ {x}) \ {y}]
        BY <2>3, <3>1
      <3>4. v[y] \in Nat /\ w[(r \ {x}) \ {y}] \in Nat
        BY <1>5, <1>7, <3>1 DEF Additive
      <3> HIDE DEF u
      <3> QED
        BY <1>7, <3>2, <3>3, <3>4
    <2> QED
      BY <2>1, <2>2, <2>3
  <1>10. Additive(s, v, u)
    <2> HIDE DEF u
    <2> QED
      BY <1>8, <1>9 DEF Additive
  <1> QED
    BY <1>2, <1>10

(* What a fold computes in the order of its choices is the sum.            *)
AddsUp(D, v, g) ==
  /\ g[{}] = 0
  /\ \A s \in SUBSET D : s # {} => \E x \in s : g[s] = v[x] + g[s \ {x}]

LEMMA Unfolds ==
  ASSUME NEW D, IsFiniteSet(D), NEW v, NEW w, Additive(D, v, w),
         NEW g, AddsUp(D, v, g)
  PROVE  g[D] = w[D]
  <1> DEFINE bad == {s \in SUBSET D : g[s] # w[s]}
  <1>1. SUFFICES ASSUME bad # {} PROVE FALSE
    OBVIOUS
  <1>2. PICK s \in bad : \A r \in bad : ~(r \subseteq s /\ r # s)
    <2>1. bad \subseteq SUBSET D
      OBVIOUS
    <2> HIDE DEF bad
    <2> QED
      BY <1>1, <2>1, SubsetsWellFounded
  <1>3. s \in SUBSET D /\ g[s] # w[s] /\ s # {}
    BY DEF Additive, AddsUp
  <1>4. PICK x \in s : g[s] = v[x] + g[s \ {x}]
    BY <1>3 DEF AddsUp
  <1>5. w[s] = v[x] + w[s \ {x}] /\ s \ {x} \in SUBSET D /\ s \ {x} # s
    BY <1>3 DEF Additive
  <1>6. s \ {x} \notin bad
    <2> HIDE DEF bad
    <2> QED
      BY <1>2, <1>5
  <1> QED
    BY <1>3, <1>4, <1>5, <1>6

(* The sum over a part is that over the whole if the rest adds nothing.    *)
LEMMA SumOfPart ==
  ASSUME NEW D, IsFiniteSet(D), NEW v, NEW w, Additive(D, v, w),
         NEW S, S \subseteq D, \A x \in D \ S : v[x] = 0
  PROVE  w[S] = w[D]
  <1> DEFINE bad == {s \in SUBSET D : S \subseteq s /\ w[s] # w[S]}
  <1>1. SUFFICES ASSUME bad # {} PROVE FALSE
    OBVIOUS
  <1>2. PICK s \in bad : \A r \in bad : ~(r \subseteq s /\ r # s)
    <2>1. bad \subseteq SUBSET D
      OBVIOUS
    <2> HIDE DEF bad
    <2> QED
      BY <1>1, <2>1, SubsetsWellFounded
  <1>3. s \in SUBSET D /\ S \subseteq s /\ w[s] # w[S]
    OBVIOUS
  <1>4. PICK x \in s : x \notin S
    BY <1>3
  <1>5. /\ w[s] = v[x] + w[s \ {x}] /\ v[x] = 0 /\ w[s \ {x}] \in Nat
        /\ s \ {x} \in SUBSET D /\ S \subseteq s \ {x} /\ s \ {x} # s
    BY <1>3, <1>4 DEF Additive
  <1>6. s \ {x} \notin bad
    <2> HIDE DEF bad
    <2> QED
      BY <1>2, <1>5
  <1>7. w[s] = w[s \ {x}]
    <2> DEFINE a == w[s \ {x}]
               b == w[s]
    <2>1. b = 0 + a /\ a \in Nat
      BY <1>5
    <2> HIDE DEF a, b
    <2>2. b = a
      BY <2>1
    <2> QED
      BY <2>2 DEF a, b
  <1> QED
    BY <1>3, <1>5, <1>6, <1>7

(***************************************************************************)
(* The pbufs of a datagram, and of all of them.                            *)
(***************************************************************************)
Clens(s) == [i \in DOMAIN s |-> s[i].clen]

LEMMA DomainFinite ==
  ASSUME NEW s \in Seq(Fragments)
  PROVE  /\ IsFiniteSet(DOMAIN s) /\ DOMAIN s = 1 .. Len(s) /\ Len(s) \in Nat
         /\ \A i \in DOMAIN s : s[i] \in Fragments
         /\ Clens(s) \in [DOMAIN s -> Nat]
  <1>1. DOMAIN s = 1 .. Len(s) /\ Len(s) \in Nat /\ \A i \in DOMAIN s : s[i] \in Fragments
    OBVIOUS
  <1>2. IsFiniteSet(1 .. Len(s))
    BY <1>1, FS_Interval
  <1>3. Clens(s) \in [DOMAIN s -> Nat]
    BY <1>1, FragmentIs DEF Clens
  <1> QED
    BY <1>1, <1>2, <1>3

LEMMA ClenIs ==
  ASSUME NEW s \in Seq(Fragments), NEW w, Additive(DOMAIN s, Clens(s), w)
  PROVE  Clen(s) = w[DOMAIN s]
  <1> DEFINE pick(t) == CHOOSE x \in t : TRUE
             Step(g) == [t \in SUBSET DOMAIN s |->
                           IF t = {} THEN 0
                           ELSE s[pick(t)].clen + g[t \ {pick(t)}]]
             iter == CHOOSE g : g = Step(g)
  <1>1. Clen(s) = iter[DOMAIN s]
    BY DEF Clen, FoldSeq, FoldFunction, FoldFunctionOnSet, MapThenFoldSet
  <1>2. \A t \in SUBSET DOMAIN s : t # {} => pick(t) \in t
    OBVIOUS
  <1> HIDE DEF pick
  <1>3. w = Step(w)
    <2>1. ASSUME NEW t \in SUBSET DOMAIN s, t # {}
          PROVE  w[t] = s[pick(t)].clen + w[t \ {pick(t)}]
      <3>1. pick(t) \in t /\ pick(t) \in DOMAIN s
        BY <1>2, <2>1
      <3>2. Clens(s)[pick(t)] = s[pick(t)].clen
        BY <3>1 DEF Clens
      <3> QED
        BY <3>1, <3>2 DEF Additive
    <2>2. w = [t \in SUBSET DOMAIN s |-> w[t]] /\ w[{}] = 0
      BY DEF Additive
    <2>3. \A t \in SUBSET DOMAIN s :
            w[t] = IF t = {} THEN 0 ELSE s[pick(t)].clen + w[t \ {pick(t)}]
      BY <2>1, <2>2
    <2> QED
      BY <2>2, <2>3
  <1>4. iter = Step(iter)
    <2> HIDE DEF Step
    <2> QED
      BY <1>3
  <1> HIDE DEF iter
  <1>5. iter[{}] = 0
    BY <1>4
  <1>6. ASSUME NEW t \in SUBSET DOMAIN s, t # {}
        PROVE  \E x \in t : iter[t] = Clens(s)[x] + iter[t \ {x}]
    <2>1. pick(t) \in t /\ pick(t) \in DOMAIN s
      BY <1>2, <1>6
    <2>2. iter[t] = s[pick(t)].clen + iter[t \ {pick(t)}]
      BY <1>4, <1>6
    <2>3. Clens(s)[pick(t)] = s[pick(t)].clen
      BY <2>1 DEF Clens
    <2> QED
      BY <2>1, <2>2, <2>3
  <1>7. iter[DOMAIN s] = w[DOMAIN s]
    <2>1. IsFiniteSet(DOMAIN s)
      BY DomainFinite
    <2>2. \A t \in SUBSET DOMAIN s :
            t # {} => \E x \in t : iter[t] = Clens(s)[x] + iter[t \ {x}]
      BY <1>6
    <2> HIDE DEF Step
    <2>3. AddsUp(DOMAIN s, Clens(s), iter)
      BY <1>5, <2>2 DEF AddsUp
    <2> QED
      BY <2>1, <2>3, Unfolds
  <1> QED
    BY <1>1, <1>7

LEMMA ClenType ==
  /\ \A s \in Seq(Fragments) : Clen(s) \in Nat
  /\ Clen(<<>>) = 0
  <1>1. ASSUME NEW s \in Seq(Fragments)
        PROVE  Clen(s) \in Nat /\ (s = <<>> => Clen(s) = 0)
    <2>1. PICK w : Additive(DOMAIN s, Clens(s), w)
      BY DomainFinite, SumExists
    <2>2. Clen(s) = w[DOMAIN s] /\ w[DOMAIN s] \in Nat
      BY <2>1, ClenIs DEF Additive
    <2>3. s = <<>> => w[DOMAIN s] = 0
      BY <2>1 DEF Additive
    <2> QED
      BY <2>2, <2>3
  <1>2. <<>> \in Seq(Fragments)
    OBVIOUS
  <1> QED
    BY <1>1, <1>2

LEMMA InsertIs ==
  ASSUME NEW S, NEW s \in Seq(S), NEW f \in S, NEW i \in 1 .. Len(s) + 1
  PROVE  /\ InsertAt(s, i, f) \in Seq(S)
         /\ Len(InsertAt(s, i, f)) = Len(s) + 1
         /\ DOMAIN InsertAt(s, i, f) = 1 .. Len(s) + 1
         /\ \A j \in 1 .. Len(s) + 1 :
              /\ j < i => j \in DOMAIN s
              /\ i < j => j - 1 \in DOMAIN s
              /\ InsertAt(s, i, f)[j] = IF j < i THEN s[j] ELSE IF j = i THEN f
                                        ELSE s[j - 1]
  <1> DEFINE a == SubSeq(s, 1, i - 1)
             b == a \o <<f>>
             c == SubSeq(s, i, Len(s))
             t == b \o c
  <1>1. Len(s) \in Nat /\ DOMAIN s = 1 .. Len(s) /\ i \in Nat /\ i <= Len(s) + 1 /\ 1 <= i
    OBVIOUS
  <1>2. a \in Seq(S) /\ Len(a) = i - 1 /\ \A j \in 1 .. i - 1 : a[j] = s[j]
    BY <1>1
  <1>3. c \in Seq(S) /\ Len(c) = Len(s) - i + 1
        /\ \A j \in 1 .. Len(s) - i + 1 : c[j] = s[i + j - 1]
    BY <1>1
  <1> HIDE DEF a, c
  <1>4. /\ b \in Seq(S) /\ Len(b) = i
        /\ \A j \in 1 .. i : b[j] = IF j < i THEN a[j] ELSE f
    BY <1>1, <1>2
  <1> HIDE DEF b
  <1>5. /\ t \in Seq(S) /\ Len(t) = Len(s) + 1
        /\ \A j \in 1 .. Len(s) + 1 : t[j] = IF j <= i THEN b[j] ELSE c[j - i]
    <2>1. t \in Seq(S) /\ Len(t) = Len(b) + Len(c)
      BY <1>3, <1>4
    <2>2. \A j \in 1 .. Len(b) + Len(c) : t[j] = IF j <= Len(b) THEN b[j] ELSE c[j - Len(b)]
      BY <1>3, <1>4
    <2>3. Len(b) + Len(c) = Len(s) + 1 /\ Len(b) = i
      BY <1>1, <1>3, <1>4
    <2> HIDE DEF t
    <2> QED
      BY <2>1, <2>2, <2>3
  <1>6. InsertAt(s, i, f) = t
    BY DEF InsertAt, a, b, c
  <1> HIDE DEF t
  <1>7. ASSUME NEW j \in 1 .. Len(s) + 1
        PROVE  /\ j < i => j \in DOMAIN s
               /\ i < j => j - 1 \in DOMAIN s
               /\ t[j] = IF j < i THEN s[j] ELSE IF j = i THEN f ELSE s[j - 1]
    <2>1. CASE j < i
      <3>1. j \in 1 .. i - 1 /\ j \in 1 .. i /\ j <= i /\ j \in DOMAIN s
        BY <1>1, <2>1
      <3> QED
        BY <1>2, <1>4, <1>5, <2>1, <3>1
    <2>2. CASE j = i
      BY <1>1, <1>4, <1>5, <2>2
    <2>3. CASE i < j
      <3>1. /\ j - i \in 1 .. Len(s) - i + 1 /\ i + (j - i) - 1 = j - 1
            /\ j - 1 \in DOMAIN s /\ ~(j <= i)
        BY <1>1, <2>3
      <3>2. t[j] = c[j - i]
        BY <1>5, <3>1
      <3>3. c[j - i] = s[i + (j - i) - 1]
        BY <1>3, <3>1
      <3> QED
        BY <2>3, <3>1, <3>2, <3>3
    <2> QED
      BY <1>1, <2>1, <2>2, <2>3
  <1> QED
    BY <1>1, <1>5, <1>6, <1>7

(* One fragment more, wherever it is put, adds its pbufs.                  *)
LEMMA ClenInsert ==
  ASSUME NEW s \in Seq(Fragments), NEW f \in Fragments, NEW i \in 1 .. Len(s) + 1
  PROVE  Clen(InsertAt(s, i, f)) = Clen(s) + f.clen
  <1> DEFINE t == InsertAt(s, i, f)
             n == Len(s)
  <1>1. n \in Nat /\ DOMAIN s = 1 .. n /\ i \in 1 .. n + 1
    OBVIOUS
  <1>2. /\ t \in Seq(Fragments) /\ DOMAIN t = 1 .. n + 1
        /\ \A j \in 1 .. n + 1 :
             /\ j < i => j \in DOMAIN s
             /\ i < j => j - 1 \in DOMAIN s
             /\ t[j] = IF j < i THEN s[j] ELSE IF j = i THEN f ELSE s[j - 1]
    <2>1. s \in Seq(Fragments) /\ f \in Fragments /\ i \in 1 .. Len(s) + 1
      OBVIOUS
    <2> HIDE DEF t, n
    <2>2. /\ InsertAt(s, i, f) \in Seq(Fragments)
          /\ DOMAIN InsertAt(s, i, f) = 1 .. Len(s) + 1
          /\ \A j \in 1 .. Len(s) + 1 :
               /\ j < i => j \in DOMAIN s
               /\ i < j => j - 1 \in DOMAIN s
               /\ InsertAt(s, i, f)[j] = IF j < i THEN s[j] ELSE IF j = i THEN f
                                         ELSE s[j - 1]
      BY <2>1, InsertIs
    <2>3. t = InsertAt(s, i, f) /\ n = Len(s)
      BY DEF t, n
    <2> HIDE DEF t, n
    <2> QED
      BY <2>2, <2>3
  <1> HIDE DEF t
  <1>3. PICK w : Additive(DOMAIN s, Clens(s), w)
    BY DomainFinite, SumExists
  <1>4. PICK u : Additive(DOMAIN t, Clens(t), u)
    BY <1>2, DomainFinite, SumExists
  <1>5. Clen(s) = w[DOMAIN s] /\ Clen(t) = u[DOMAIN t]
    BY <1>2, <1>3, <1>4, ClenIs
  <1>6. f.clen \in Nat
    BY FragmentIs
  <1> HIDE DEF n
  <1>7. \A k \in 1 .. n : w[1 .. k] = s[k].clen + w[1 .. k - 1] /\ w[1 .. k - 1] \in Nat
                          /\ s[k].clen \in Nat
    <2>1. ASSUME NEW k \in 1 .. n
          PROVE  w[1 .. k] = s[k].clen + w[1 .. k - 1] /\ w[1 .. k - 1] \in Nat
                 /\ s[k].clen \in Nat
      <3>1. /\ 1 .. k \in SUBSET DOMAIN s /\ k \in 1 .. k /\ (1 .. k) \ {k} = 1 .. k - 1
            /\ 1 .. k - 1 \in SUBSET DOMAIN s
        BY <1>1
      <3>2. Clens(s)[k] = s[k].clen /\ Clens(s)[k] \in Nat
        BY <1>1, DomainFinite DEF Clens
      <3> DEFINE A == 1 .. k
                 B == 1 .. k - 1
      <3>3. A \in SUBSET DOMAIN s /\ k \in A /\ A \ {k} = B /\ B \in SUBSET DOMAIN s
        BY <3>1
      <3> HIDE DEF A, B
      <3>4. w[A] = s[k].clen + w[B] /\ w[B] \in Nat
        BY <1>3, <3>2, <3>3 DEF Additive
      <3> QED
        BY <3>2, <3>4 DEF A, B
    <2> QED
      BY <2>1
  <1>8. \A k \in 1 .. n + 1 : u[1 .. k] = t[k].clen + u[1 .. k - 1]
    <2>1. ASSUME NEW k \in 1 .. n + 1
          PROVE  u[1 .. k] = t[k].clen + u[1 .. k - 1]
      <3>1. /\ 1 .. k \in SUBSET DOMAIN t /\ k \in 1 .. k /\ (1 .. k) \ {k} = 1 .. k - 1
        BY <1>1, <1>2
      <3>2. Clens(t)[k] = t[k].clen
        BY <1>2 DEF Clens
      <3> DEFINE A == 1 .. k
                 B == 1 .. k - 1
      <3>3. A \in SUBSET DOMAIN t /\ k \in A /\ A \ {k} = B
        BY <3>1
      <3> HIDE DEF A, B
      <3>4. u[A] = t[k].clen + u[B]
        BY <1>4, <3>2, <3>3 DEF Additive
      <3> QED
        BY <3>4 DEF A, B
    <2> QED
      BY <2>1
  <1> DEFINE P == {k \in 0 .. n + 1 :
                     u[1 .. k] = IF k < i THEN w[1 .. k] ELSE w[1 .. k - 1] + f.clen}
  <1>9. 0 \in P
    <2>1. 1 .. 0 = {} /\ 0 < i /\ 0 \in 0 .. n + 1
      BY <1>1
    <2>2. u[{}] = 0 /\ w[{}] = 0
      BY <1>3, <1>4 DEF Additive
    <2> QED
      BY <2>1, <2>2
  <1>10. ASSUME NEW k \in 1 .. n + 1, k - 1 \in P PROVE k \in P
    <2>1. k \in 0 .. n + 1 /\ k \in Nat /\ i \in Nat
      BY <1>1
    <2>2. u[1 .. k - 1] = IF k - 1 < i THEN w[1 .. k - 1] ELSE w[1 .. (k - 1) - 1] + f.clen
      BY <1>10
    <2>3. u[1 .. k] = t[k].clen + u[1 .. k - 1]
      BY <1>8
    <2>4. CASE k < i
      <3>1. k \in 1 .. n /\ t[k] = s[k] /\ k - 1 < i
        BY <1>1, <1>2, <2>1, <2>4
      <3> QED
        BY <1>7, <2>1, <2>2, <2>3, <2>4, <3>1
    <2>5. CASE k = i
      <3>1. t[k] = f /\ k - 1 < i /\ 1 .. k - 1 \in SUBSET DOMAIN s
        BY <1>1, <1>2, <2>1, <2>5
      <3>2. w[1 .. k - 1] \in Nat
        BY <1>3, <3>1 DEF Additive
      <3> QED
        BY <1>6, <2>1, <2>2, <2>3, <2>5, <3>1, <3>2
    <2>6. CASE i < k
      <3>1. t[k] = s[k - 1] /\ k - 1 \in 1 .. n /\ ~(k - 1 < i) /\ ~(k < i)
        BY <1>1, <1>2, <2>1, <2>6
      <3> DEFINE x == w[1 .. (k - 1) - 1]
                 y == s[k - 1].clen
                 z == f.clen
                 v == w[1 .. k - 1]
      <3>2. v = y + x /\ x \in Nat /\ y \in Nat /\ z \in Nat
        BY <1>6, <1>7, <3>1
      <3>3. u[1 .. k] = y + (x + z)
        BY <2>2, <2>3, <3>1
      <3> HIDE DEF x, y, z, v
      <3>4. u[1 .. k] = v + z
        BY <3>2, <3>3
      <3> QED
        BY <2>1, <3>1, <3>4 DEF v, z
    <2> QED
      BY <2>1, <2>4, <2>5, <2>6
  <1>11. \A k \in 0 .. n + 1 : k \in P
    <2>1. n + 1 \in Nat
      BY <1>1
    <2> HIDE DEF P
    <2> QED
      BY <1>9, <1>10, <2>1, Along
  <1>12. u[1 .. n + 1] = w[1 .. n] + f.clen
    <2>1. n + 1 \in P /\ ~(n + 1 < i) /\ (n + 1) - 1 = n
      BY <1>1, <1>11
    <2> QED
      BY <2>1
  <1> QED
    BY <1>1, <1>2, <1>5, <1>12 DEF t

Held_(data_) == [d \in Elements |-> Clen(data_[d].p)]

LEMMA PbufsIs ==
  ASSUME NEW dt \in [Elements -> Datagrams], NEW w, Additive(Elements, Held_(dt), w),
         NEW S \in SUBSET Elements
  PROVE  PbufsOf(dt, S) = w[S]
  <1> DEFINE pick(t) == CHOOSE x \in t : TRUE
             Step(g) == [t \in SUBSET S |->
                           IF t = {} THEN 0
                           ELSE Clen(dt[pick(t)].p) + g[t \ {pick(t)}]]
             iter == CHOOSE g : g = Step(g)
             v == [t \in SUBSET S |-> w[t]]
  <1>1. PbufsOf(dt, S) = iter[S]
    BY DEF PbufsOf, MapThenSumSet, MapThenFoldSet
  <1>2. \A t \in SUBSET S : t # {} => pick(t) \in t
    OBVIOUS
  <1>3. /\ Additive(S, Held_(dt), v) /\ v[S] = w[S]
    <2>1. \A t \in SUBSET S : t \in SUBSET Elements /\ v[t] = w[t] /\ w[t] \in Nat
      BY DEF Additive
    <2>2. v = [t \in SUBSET S |-> v[t]]
      OBVIOUS
    <2> HIDE DEF v
    <2>3. v \in [SUBSET S -> Nat]
      BY <2>1, <2>2
    <2>4. ASSUME NEW t \in SUBSET S, NEW x \in t
          PROVE  v[t] = Held_(dt)[x] + v[t \ {x}]
      <3>1. t \in SUBSET Elements /\ t \ {x} \in SUBSET S
        BY <2>1
      <3> QED
        BY <2>1, <3>1 DEF Additive
    <2>5. v[{}] = 0
      BY <2>1 DEF Additive
    <2> QED
      BY <2>1, <2>3, <2>4, <2>5 DEF Additive
  <1> HIDE DEF pick, v
  <1>4. v = Step(v)
    <2>1. ASSUME NEW t \in SUBSET S, t # {}
          PROVE  v[t] = Clen(dt[pick(t)].p) + v[t \ {pick(t)}]
      <3>1. pick(t) \in t /\ pick(t) \in Elements
        BY <1>2, <2>1
      <3>2. Held_(dt)[pick(t)] = Clen(dt[pick(t)].p)
        BY <3>1 DEF Held_
      <3> QED
        BY <1>3, <3>1, <3>2 DEF Additive
    <2>2. v = [t \in SUBSET S |-> v[t]] /\ v[{}] = 0
      BY <1>3 DEF Additive
    <2>3. \A t \in SUBSET S :
            v[t] = IF t = {} THEN 0 ELSE Clen(dt[pick(t)].p) + v[t \ {pick(t)}]
      BY <2>1, <2>2
    <2> QED
      BY <2>2, <2>3
  <1>5. iter = Step(iter)
    <2> HIDE DEF Step
    <2> QED
      BY <1>4
  <1> HIDE DEF iter
  <1>6. iter[{}] = 0
    BY <1>5
  <1>7. ASSUME NEW t \in SUBSET S, t # {}
        PROVE  \E x \in t : iter[t] = Held_(dt)[x] + iter[t \ {x}]
    <2>1. pick(t) \in t /\ pick(t) \in Elements
      BY <1>2, <1>7
    <2>2. iter[t] = Clen(dt[pick(t)].p) + iter[t \ {pick(t)}]
      BY <1>5, <1>7
    <2>3. Held_(dt)[pick(t)] = Clen(dt[pick(t)].p)
      BY <2>1 DEF Held_
    <2> QED
      BY <2>1, <2>2, <2>3
  <1>8. AddsUp(S, Held_(dt), iter)
    <2> HIDE DEF Step
    <2> QED
      BY <1>6, <1>7 DEF AddsUp
  <1>9. IsFiniteSet(S)
    BY Constants, FS_Subset
  <1>10. iter[S] = v[S]
    BY <1>3, <1>8, <1>9, Unfolds
  <1> QED
    BY <1>1, <1>3, <1>10

LEMMA HeldType ==
  ASSUME NEW dt \in [Elements -> Datagrams]
  PROVE  Held_(dt) \in [Elements -> Nat] /\ \E w : Additive(Elements, Held_(dt), w)
  <1>1. \A d \in Elements : dt[d].p \in Seq(Fragments)
    BY DEF Datagrams
  <1>2. Held_(dt) \in [Elements -> Nat]
    BY <1>1, ClenType DEF Held_
  <1> QED
    BY <1>2, Constants, SumExists

(* When one datagram changes, the sum changes by as much.                  *)
LEMMA PbufsChange ==
  ASSUME NEW old \in [Elements -> Datagrams], NEW new \in [Elements -> Datagrams],
         NEW d \in Elements, \A e \in Elements \ {d} : new[e].p = old[e].p
  PROVE  /\ PbufsOf(old, Elements) \in Nat /\ PbufsOf(new, Elements) \in Nat
         /\ PbufsOf(new, Elements) + Clen(old[d].p)
              = PbufsOf(old, Elements) + Clen(new[d].p)
         /\ Clen(old[d].p) <= PbufsOf(old, Elements)
  <1>1. PICK w : Additive(Elements, Held_(old), w)
    BY HeldType
  <1>2. PICK u : Additive(Elements, Held_(new), u)
    BY HeldType
  <1> DEFINE E == Elements
             x == [s \in SUBSET E |-> IF d \in s THEN Held_(new)[d] + w[s \ {d}] ELSE w[s]]
  <1>3. Held_(old) \in [E -> Nat] /\ Held_(new) \in [E -> Nat]
    BY HeldType
  <1>4. w \in [SUBSET E -> Nat]
    BY <1>1 DEF Additive
  <1>5. \A e \in E \ {d} : Held_(new)[e] = Held_(old)[e]
    BY DEF Held_
  <1>6. x \in [SUBSET E -> Nat] /\ x[{}] = 0
    BY <1>1, <1>3, <1>4 DEF Additive
  <1>7. ASSUME NEW s \in SUBSET E, NEW y \in s
        PROVE  x[s] = Held_(new)[y] + x[s \ {y}]
    <2>1. CASE y = d
      BY <2>1
    <2>2. CASE y # d /\ d \notin s
      <3>1. w[s] = Held_(old)[y] + w[s \ {y}]
        BY <1>1 DEF Additive
      <3> QED
        BY <1>5, <2>2, <3>1
    <2>3. CASE y # d /\ d \in s
      <3>1. /\ s \ {d} \in SUBSET E /\ y \in s \ {d}
            /\ s \ {y} \in SUBSET E /\ d \in s \ {y}
            /\ (s \ {y}) \ {d} = (s \ {d}) \ {y}
            /\ (s \ {d}) \ {y} \in SUBSET E
        BY <2>3
      <3>2. w[s \ {d}] = Held_(old)[y] + w[(s \ {d}) \ {y}]
        BY <1>1, <3>1 DEF Additive
      <3>3. /\ x[s] = Held_(new)[d] + w[s \ {d}]
            /\ x[s \ {y}] = Held_(new)[d] + w[(s \ {d}) \ {y}]
        BY <2>3, <3>1
      <3>4. /\ Held_(new)[y] = Held_(old)[y] /\ Held_(new)[d] \in Nat
            /\ Held_(old)[y] \in Nat /\ w[(s \ {d}) \ {y}] \in Nat
        BY <1>3, <1>4, <1>5, <2>3, <3>1
      <3> HIDE DEF x
      <3> QED
        BY <3>2, <3>3, <3>4
    <2> QED
      BY <2>1, <2>2, <2>3
  <1>8. Additive(E, Held_(new), x)
    <2> HIDE DEF x
    <2> QED
      BY <1>6, <1>7 DEF Additive
  <1>9. /\ PbufsOf(old, E) = w[E] /\ PbufsOf(new, E) = x[E]
    <2> HIDE DEF x
    <2> QED
      BY <1>1, <1>8, PbufsIs
  <1> DEFINE a == Held_(old)[d]
             b == Held_(new)[d]
             c == w[E \ {d}]
  <1>10. w[E] = a + c /\ x[E] = b + c
    BY <1>1 DEF Additive
  <1>11. a \in Nat /\ b \in Nat /\ c \in Nat
    BY <1>3, <1>4
  <1>12. a = Clen(old[d].p) /\ b = Clen(new[d].p)
    BY DEF Held_
  <1> HIDE DEF a, b, c, x
  <1> QED
    BY <1>9, <1>10, <1>11, <1>12

(* What is free holds nothing.                                             *)
LEMMA PbufsOnList ==
  ASSUME NEW dt \in [Elements -> Datagrams], NEW S \in SUBSET Elements,
         \A d \in Elements \ S : dt[d].p = <<>>
  PROVE  PbufsOf(dt, S) = PbufsOf(dt, Elements)
  <1>1. PICK w : Additive(Elements, Held_(dt), w)
    BY HeldType
  <1>2. \A d \in Elements \ S : Held_(dt)[d] = 0
    BY ClenType DEF Held_
  <1>3. w[S] = w[Elements]
    <2> DEFINE v == Held_(dt)
    <2>1. IsFiniteSet(Elements) /\ S \subseteq Elements
      BY Constants
    <2>2. Additive(Elements, v, w) /\ \A d \in Elements \ S : v[d] = 0
      BY <1>1, <1>2
    <2> HIDE DEF v
    <2> QED
      BY <2>1, <2>2, SumOfPart
  <1> QED
    BY <1>1, <1>3, PbufsIs

-----------------------------------------------------------------------------
(***************************************************************************)
(* Giving up datagrams.                                                    *)
(***************************************************************************)
LEMMA DataType ==
  ASSUME NEW st \in States, NEW d \in Elements
  PROVE  /\ st.data \in [Elements -> Datagrams] /\ st.data[d] \in Datagrams
         /\ st.data[d].p \in Seq(Fragments) /\ Clen(st.data[d].p) \in Nat
         /\ st.data[d].id \in Ids \cup {NULL} /\ st.data[d].timer \in 0 .. MaxAge
         /\ st.data[d].timer \in Nat
  <1>1. st.data \in [Elements -> Datagrams] /\ st.data[d] \in Datagrams
    BY DEF States
  <1>2. /\ st.data[d].p \in Seq(Fragments) /\ st.data[d].id \in Ids \cup {NULL}
        /\ st.data[d].timer \in 0 .. MaxAge
    BY <1>1 DEF Datagrams
  <1>3. st.data[d].timer \in Nat
    BY <1>2, Constants
  <1> QED
    BY <1>1, <1>2, <1>3, ClenType

LEMMA FreeIs ==
  ASSUME NEW st \in States, NEW d \in Elements, NEW prev
  PROVE  /\ FreeDatagram(st, d, prev) \in States
         /\ FreeDatagram(st, d, prev).head = Dequeue(st, d, prev).head
         /\ FreeDatagram(st, d, prev).free = Dequeue(st, d, prev).free
         /\ FreeDatagram(st, d, prev).next = Dequeue(st, d, prev).next
         /\ FreeDatagram(st, d, prev).data = Dequeue(st, d, prev).data
         /\ FreeDatagram(st, d, prev).count = st.count - Clen(st.data[d].p)
  <1> DEFINE new == Dequeue(st, d, prev)
             n == new.count - Clen(st.data[d].p)
  <1>1. new \in States /\ new.count = st.count
    BY DequeueIs
  <1>2. Clen(st.data[d].p) \in Nat /\ st.count \in Int
    BY DataType DEF States
  <1>3. n \in Int
    BY <1>1, <1>2
  <1>4. FreeDatagram(st, d, prev) = [new EXCEPT !.count = n]
    BY DEF FreeDatagram
  <1> HIDE DEF new, n
  <1>5. new = [head |-> new.head, free |-> new.free, next |-> new.next,
               data |-> new.data, count |-> new.count]
    BY <1>1 DEF States
  <1>6. [new EXCEPT !.count = n]
          = [head |-> new.head, free |-> new.free, next |-> new.next,
             data |-> new.data, count |-> n]
    BY <1>5
  <1>7. [new EXCEPT !.count = n] \in States
    BY <1>1, <1>3, <1>6 DEF States
  <1>8. n = st.count - Clen(st.data[d].p)
    BY <1>1 DEF n
  <1> QED
    BY <1>4, <1>6, <1>7, <1>8 DEF new

LEMMA FreeKeeps ==
  ASSUME NEW st \in States, DataOK(st), NEW d \in Elements, NEW prev
  PROVE  /\ DataOK(FreeDatagram(st, d, prev))
         /\ FreeDatagram(st, d, prev).count <= st.count
         /\ \A e \in Elements :
              FreeDatagram(st, d, prev).data[e] = IF e = d THEN NoData ELSE st.data[e]
  <1> DEFINE new == FreeDatagram(st, d, prev)
  <1>1. new \in States /\ new.count = st.count - Clen(st.data[d].p)
    BY FreeIs
  <1>2. \A e \in Elements : new.data[e] = IF e = d THEN NoData ELSE st.data[e]
    BY FreeIs, DequeueIs
  <1> HIDE DEF new
  <1>3. Clen(st.data[d].p) \in Nat /\ st.count \in Int
    BY DataType DEF States
  <1>4. new.count = PbufsOf(new.data, Elements)
    <2>1. st.data \in [Elements -> Datagrams] /\ new.data \in [Elements -> Datagrams]
      BY <1>1 DEF States
    <2>2. \A e \in Elements \ {d} : new.data[e].p = st.data[e].p
      BY <1>2
    <2>3. /\ PbufsOf(st.data, Elements) \in Nat /\ PbufsOf(new.data, Elements) \in Nat
          /\ PbufsOf(new.data, Elements) + Clen(st.data[d].p)
               = PbufsOf(st.data, Elements) + Clen(new.data[d].p)
      BY <2>1, <2>2, PbufsChange
    <2>4. Clen(new.data[d].p) = 0
      BY <1>2, NoDataIs, ClenType
    <2>5. st.count = PbufsOf(st.data, Elements)
      BY DEF DataOK
    <2> QED
      BY <1>1, <1>3, <2>3, <2>4, <2>5
  <1>5. InOrder(NoData)
    BY NoDataIs DEF InOrder, EndHeld
  <1>6. \A e \in Elements : InOrder(new.data[e])
    BY <1>2, <1>5 DEF DataOK
  <1>7. \A e \in Elements : new.data[e].id = NULL => new.data[e] = NoData
    BY <1>2 DEF DataOK
  <1>8. \A e, g \in Elements :
          new.data[e].id = new.data[g].id /\ new.data[e].id # NULL => e = g
    BY <1>2, NoDataIs DEF DataOK
  <1>9. DataOK(new)
    BY <1>4, <1>6, <1>7, <1>8 DEF DataOK
  <1>10. new.count <= st.count
    BY <1>1, <1>3
  <1> QED
    BY <1>2, <1>9, <1>10 DEF new

(* The one that is given up is one of the others on the list.              *)
LEMMA RemoveOneIs ==
  ASSUME NEW st \in States, NEW id, Others(st, id) # {}
  PROVE  \E k \in DOMAIN Listed(st) :
           /\ Listed(st)[k] \in Elements /\ st.data[Listed(st)[k]].id # id
           /\ RemoveOne(st, id) =
                FreeDatagram(st, Listed(st)[k],
                             IF Len(Listed(st)) < 2 THEN NULL
                             ELSE Listed(st)[Len(Listed(st)) - 1])
  <1> DEFINE list == Listed(st)
             others == {i \in DOMAIN list : list[i] \in Others(st, id)}
             First(i) == \A j \in others :
                           \/ st.data[list[i]].timer < st.data[list[j]].timer
                           \/ st.data[list[i]].timer = st.data[list[j]].timer /\ j <= i
             oldest == CHOOSE i \in others : First(i)
  <1>1. list \in Seq(Elements)
    <2>1. st.head \in Links
      BY DEF States
    <2> QED
      BY <2>1, FromType DEF Listed
  <1>2. RemoveOne(st, id) =
          FreeDatagram(st, list[oldest],
                       IF Len(list) < 2 THEN NULL ELSE list[Len(list) - 1])
    BY DEF RemoveOne
  <1>3. others # {}
    BY DEF Others, ToSet
  <1> HIDE DEF list
  <1>4. \A i \in others : /\ i \in DOMAIN list /\ list[i] \in Elements
                          /\ st.data[list[i]].id # id
                          /\ st.data[list[i]].timer \in Nat
    <2>1. ASSUME NEW i \in others
          PROVE  /\ i \in DOMAIN list /\ list[i] \in Elements
                 /\ st.data[list[i]].id # id /\ st.data[list[i]].timer \in Nat
      <3>1. i \in DOMAIN list /\ list[i] \in Elements
        BY <1>1
      <3>2. st.data[list[i]].id # id
        BY DEF Others
      <3> QED
        BY <3>1, <3>2, DataType
    <2> QED
      BY <2>1
  <1>5. others \subseteq 1 .. Len(list) /\ Len(list) \in Nat
    BY <1>1
  <1> HIDE DEF others
  <1>6. \E i \in others : First(i)
    <2> DEFINE timers == {st.data[list[i]].timer : i \in others}
    <2>1. timers \subseteq Nat /\ timers # {}
      BY <1>3, <1>4
    <2>2. PICK t \in timers : \A s \in timers : t <= s
      <3> HIDE DEF timers
      <3> QED
        BY <2>1, Least
    <2> DEFINE low == {i \in others : st.data[list[i]].timer = t}
               left == {Len(list) - i : i \in low}
    <2>3. left \subseteq Nat /\ left # {}
      <3>1. \A i \in low : Len(list) - i \in Nat
        BY <1>5
      <3>2. low # {}
        BY <2>2
      <3> QED
        BY <3>1, <3>2
    <2>4. PICK l \in left : \A m \in left : l <= m
      <3> HIDE DEF left
      <3> QED
        BY <2>3, Least
    <2>5. PICK i \in low : l = Len(list) - i
      BY <2>4
    <2>6. ASSUME NEW j \in others
          PROVE  \/ st.data[list[i]].timer < st.data[list[j]].timer
                 \/ st.data[list[i]].timer = st.data[list[j]].timer /\ j <= i
      <3>1. i \in others /\ st.data[list[i]].timer = t
        OBVIOUS
      <3>2. t <= st.data[list[j]].timer
        BY <2>2
      <3>3. CASE st.data[list[j]].timer = t
        <4>1. Len(list) - i <= Len(list) - j
          BY <2>4, <2>5, <3>3
        <4>2. i \in Int /\ j \in Int
          BY <1>5, <3>1
        <4>3. j <= i
          BY <1>5, <4>1, <4>2
        <4> QED
          BY <3>1, <3>3, <4>3
      <3>4. CASE st.data[list[j]].timer # t
        <4>1. t \in Nat /\ st.data[list[j]].timer \in Nat
          BY <1>4, <3>1
        <4> HIDE DEF low, left, timers
        <4> QED
          BY <3>1, <3>2, <3>4, <4>1
      <3> QED
        BY <3>3, <3>4
    <2> QED
      BY <2>6
  <1>7. oldest \in others
    <2> HIDE DEF First
    <2> QED
      BY <1>6
  <1> HIDE DEF oldest
  <1> QED
    BY <1>2, <1>4, <1>7 DEF list

(***************************************************************************)
(* What giving up other datagrams than id may make of st: the rest is as   *)
(* it was, and the list is sound unless it meets the free elements, which  *)
(* takes one in its middle.                                                *)
(***************************************************************************)
Sound(st) == Apart(st) => \E list, pool : Lists(st, list, pool)

Inner(s) == {s[i] : i \in 2 .. Len(s) - 1}

(* Those that break the list when they are given up for a fragment of id.  *)
Loose(st, id) == {d \in Inner(Listed(st)) : st.data[d].id # id}

Reduced(st, id) ==
  {new \in States :
     /\ DataOK(new) /\ Sound(new) /\ new.count <= st.count
     /\ \A d \in Elements : st.data[d].id = id => new.data[d] = st.data[d]
     /\ \A d \in Elements : new.data[d] \in {st.data[d], NoData}
     /\ Apart(new) => Inner(Listed(new)) \subseteq Inner(Listed(st))
     /\ ~Apart(new) => new.free \in Loose(st, id)}

LEMMA InnerIs ==
  ASSUME NEW st \in States, NEW list, NEW pool, Lists(st, list, pool),
         NEW k \in DOMAIN list
  PROVE  /\ k # 1 /\ k # Len(list) => list[k] \in Inner(list)
         /\ k = 1 \/ k = Len(list) => Inner(Without(list, k)) \subseteq Inner(list)
  <1>1. list \in Seq(Elements) /\ DOMAIN list = 1 .. Len(list) /\ Len(list) \in Nat
    BY ListsAre DEF Lists, Linked
  <1>2. ASSUME k # 1, k # Len(list) PROVE list[k] \in Inner(list)
    <2>1. k \in 2 .. Len(list) - 1
      BY <1>1, <1>2
    <2> QED
      BY <2>1 DEF Inner
  <1>3. ASSUME k = 1 \/ k = Len(list), NEW i \in 2 .. Len(Without(list, k)) - 1
        PROVE  Without(list, k)[i] \in Inner(list)
    <2>1. /\ Len(Without(list, k)) = Len(list) - 1
          /\ \A j \in 1 .. Len(list) - 1 :
               Without(list, k)[j] = IF j < k THEN list[j] ELSE list[j + 1]
      BY <1>1, WithoutIs
    <2>2. i \in 1 .. Len(list) - 1 /\ i \in 2 .. Len(list) - 1 /\ i + 1 \in 2 .. Len(list) - 1
      BY <1>1, <1>3, <2>1
    <2> QED
      BY <2>1, <2>2 DEF Inner
  <1> QED
    BY <1>2, <1>3 DEF Inner

LEMMA InnerType ==
  ASSUME NEW st \in States
  PROVE  Inner(Listed(st)) \subseteq Elements
  <1>1. Listed(st) \in Seq(Elements)
    <2>1. st.head \in Links
      BY DEF States
    <2> QED
      BY <2>1, FromType DEF Listed
  <1> DEFINE list == Listed(st)
  <1>2. list \in Seq(Elements)
    BY <1>1
  <1> HIDE DEF list
  <1>3. ASSUME NEW i \in 2 .. Len(list) - 1 PROVE list[i] \in Elements
    <2>1. i \in DOMAIN list
      BY <1>2
    <2> QED
      BY <1>2, <2>1
  <1> QED
    BY <1>3 DEF Inner, list

LEMMA RemoveOneKeeps ==
  ASSUME NEW st \in States, NEW id, NEW s \in Reduced(st, id),
         Apart(s), Others(s, id) # {}
  PROVE  RemoveOne(s, id) \in Reduced(st, id)
  <1>1. /\ s \in States /\ DataOK(s) /\ s.count <= st.count
        /\ \A d \in Elements : st.data[d].id = id => s.data[d] = st.data[d]
        /\ \A d \in Elements : s.data[d] \in {st.data[d], NoData}
        /\ Inner(Listed(s)) \subseteq Inner(Listed(st))
    BY DEF Reduced
  <1>2. PICK list, pool : Lists(s, list, pool)
    BY DEF Reduced, Sound
  <1>3. /\ Listed(s) = list
        /\ DOMAIN list = 1 .. Len(list) /\ Len(list) \in Nat
        /\ \A i \in DOMAIN list : list[i] \in Elements /\ list[i] # NULL
    BY <1>1, <1>2, ListsAre
  <1> DEFINE prev == IF Len(list) < 2 THEN NULL ELSE list[Len(list) - 1]
  <1>4. PICK k \in DOMAIN list :
           /\ list[k] \in Elements /\ s.data[list[k]].id # id
           /\ RemoveOne(s, id) = FreeDatagram(s, list[k], prev)
    BY <1>1, <1>3, RemoveOneIs
  <1> DEFINE new == FreeDatagram(s, list[k], prev)
             deq == Dequeue(s, list[k], prev)
  <1>5. /\ new \in States /\ DataOK(new) /\ new.count <= s.count
        /\ \A e \in Elements : new.data[e] = IF e = list[k] THEN NoData ELSE s.data[e]
    BY <1>1, <1>4, FreeIs, FreeKeeps
  <1>6. new.count <= st.count
    <2>1. new.count \in Int /\ s.count \in Int /\ st.count \in Int
      <3> HIDE DEF new
      <3> QED
        BY <1>1, <1>5 DEF States
    <2> HIDE DEF new
    <2> QED
      BY <1>1, <1>5, <2>1
  <1>7. /\ new.head = deq.head /\ new.free = deq.free /\ new.next = deq.next
        /\ new.data = deq.data
    BY <1>1, <1>4, FreeIs
  <1>8. k \in 1 .. Len(list)
    BY <1>3
  <1>9. /\ Sound(new)
        /\ Apart(new) => Inner(Listed(new)) \subseteq Inner(Listed(st))
        /\ ~Apart(new) => new.free \in Loose(st, id)
    <2>1. CASE k = 1 \/ k = Len(list)
      <3>1. Dequeue(s, list[k], At(list, k - 1)) = deq
        <4>1. CASE k = 1
          <5>1. s.head = list[k]
            <6>1. Linked(s.next, s.head, list)
              BY <1>2 DEF Lists
            <6> QED
              BY <4>1, <6>1 DEF Linked, At
          <5> QED
            BY <5>1 DEF Dequeue
        <4>2. CASE k # 1
          <5>1. ~(Len(list) < 2) /\ k = Len(list) /\ k - 1 \in DOMAIN list
            BY <1>3, <1>8, <2>1, <4>2
          <5> QED
            BY <5>1 DEF At
        <4> QED
          BY <4>1, <4>2
      <3>2. Lists(deq, Without(list, k), Push(list[k], pool))
        BY <1>1, <1>2, <3>1, DequeueRight
      <3> HIDE DEF deq, new
      <3>3. Lists(new, Without(list, k), Push(list[k], pool))
        BY <1>7, <3>2, SameLists
      <3>4. Listed(new) = Without(list, k) /\ Apart(new)
        BY <1>5, <3>3, ListsAre
      <3>5. Inner(Listed(new)) \subseteq Inner(Listed(st))
        BY <1>1, <1>2, <1>3, <2>1, <3>4, InnerIs
      <3> QED
        BY <3>3, <3>4, <3>5 DEF Sound
    <2>2. CASE k # 1 /\ k # Len(list)
      <3>1. ~(Len(list) < 2)
        BY <1>3, <1>8, <2>2
      <3>2. ~ Apart(deq) /\ deq.free = list[k]
        BY <1>1, <1>2, <1>4, <2>2, <3>1, DequeueWrong, DequeueIs
      <3> HIDE DEF deq, new
      <3>3. ~ Apart(new) /\ new.free = list[k]
        BY <1>7, <3>2, SameLists
      <3>4. list[k] \in Inner(Listed(st))
        BY <1>1, <1>2, <1>3, <2>2, InnerIs
      <3>5. s.data[list[k]].id # NULL
        BY <1>2, <1>4 DEF Lists
      <3>6. s.data[list[k]] = st.data[list[k]]
        BY <1>1, <1>4, <3>5, NoDataIs
      <3> QED
        BY <1>4, <3>3, <3>4, <3>6 DEF Sound, Loose
    <2> QED
      BY <2>1, <2>2
  <1> HIDE DEF new, deq, prev
  <1>10. \A d \in Elements : st.data[d].id = id => new.data[d] = st.data[d]
    BY <1>1, <1>4, <1>5
  <1>11. \A d \in Elements : new.data[d] \in {st.data[d], NoData}
    BY <1>1, <1>5
  <1>12. new \in Reduced(st, id)
    BY <1>5, <1>6, <1>9, <1>10, <1>11 DEF Reduced
  <1> QED
    BY <1>4, <1>12 DEF new

LEMMA RemoveOldestKeeps ==
  ASSUME NEW st \in States, DataOK(st), Sound(st), Apart(st), NEW id, NEW needed
  PROVE  RemoveOldest(st, id, needed) \in Reduced(st, id)
  <1> DEFINE Ends(i, s) == \/ Others(s, id) = {} \/ ~Apart(s)
                           \/ i > 1 /\ st.count - s.count >= needed
             Step(g) == [i \in 0 .. NumReass |->
                           IF i = 0 THEN st
                           ELSE IF Ends(i, g[i - 1]) THEN g[i - 1]
                                ELSE RemoveOne(g[i - 1], id)]
             r == CHOOSE g : g = Step(g)
             f == [i \in Nat |-> [s \in States |->
                     IF Ends(i, s) THEN s ELSE RemoveOne(s, id)]]
  <1>1. NumReass \in Nat
    BY Constants
  <1>2. RemoveOldest(st, id, needed) = r[NumReass]
    BY DEF RemoveOldest
  <1>3. f \in Loops(States)
    <2>1. ASSUME NEW i \in Nat, NEW s \in States
          PROVE  (IF Ends(i, s) THEN s ELSE RemoveOne(s, id)) \in States
      <3>1. CASE Ends(i, s)
        BY <3>1
      <3>2. CASE ~Ends(i, s)
        <4>1. Others(s, id) # {}
          BY <3>2
        <4>2. PICK k \in DOMAIN Listed(s) :
                /\ Listed(s)[k] \in Elements
                /\ RemoveOne(s, id) =
                     FreeDatagram(s, Listed(s)[k],
                                  IF Len(Listed(s)) < 2 THEN NULL
                                  ELSE Listed(s)[Len(Listed(s)) - 1])
          BY <4>1, RemoveOneIs
        <4>3. RemoveOne(s, id) \in States
          BY <4>2, FreeIs
        <4> QED
          BY <3>2, <4>3
      <3> QED
        BY <3>1, <3>2
    <2> HIDE DEF Ends
    <2> QED
      BY <2>1 DEF Loops
  <1> HIDE DEF Ends
  <1>4. PICK c \in [0 .. NumReass -> States] :
          c[0] = st /\ \A i \in 1 .. NumReass : c[i] = f[i][c[i - 1]]
    <2> HIDE DEF f
    <2>1. Runs(States, st, NumReass, f) # {}
      BY <1>1, <1>3, Iterated
    <2> QED
      BY <2>1 DEF Runs
  <1>5. c = Step(c)
    <2>1. ASSUME NEW i \in 0 .. NumReass, i # 0
          PROVE  c[i] = IF Ends(i, c[i - 1]) THEN c[i - 1] ELSE RemoveOne(c[i - 1], id)
      <3>1. i \in 1 .. NumReass /\ i \in Nat /\ i - 1 \in 0 .. NumReass
        BY <1>1, <2>1
      <3>2. c[i - 1] \in States /\ c[i] = f[i][c[i - 1]]
        BY <1>4, <3>1
      <3> QED
        BY <3>1, <3>2
    <2>2. c = [i \in 0 .. NumReass |-> c[i]]
      BY <1>4
    <2>3. \A i \in 0 .. NumReass :
            c[i] = IF i = 0 THEN st
                   ELSE IF Ends(i, c[i - 1]) THEN c[i - 1] ELSE RemoveOne(c[i - 1], id)
      BY <1>4, <2>1
    <2> HIDE DEF f
    <2> QED
      BY <2>2, <2>3
  <1>6. r = Step(r)
    <2> HIDE DEF Step, f
    <2> QED
      BY <1>5
  <1> HIDE DEF r, f
  <1> DEFINE P == {i \in 0 .. NumReass : r[i] \in Reduced(st, id)}
  <1>7. 0 \in P
    <2>1. 0 \in 0 .. NumReass
      BY <1>1
    <2>2. r[0] = st
      BY <1>6, <2>1
    <2>3. st.count <= st.count
      BY DEF States
    <2>4. st \in Reduced(st, id)
      BY <2>3 DEF Reduced
    <2> QED
      BY <2>1, <2>2, <2>4
  <1>8. ASSUME NEW i \in 1 .. NumReass, i - 1 \in P PROVE i \in P
    <2>1. i \in 0 .. NumReass /\ i # 0
      BY <1>1
    <2>2. r[i] = IF Ends(i, r[i - 1]) THEN r[i - 1] ELSE RemoveOne(r[i - 1], id)
      BY <1>6, <2>1
    <2>3. r[i - 1] \in Reduced(st, id)
      BY <1>8
    <2>4. ~Ends(i, r[i - 1]) => Apart(r[i - 1]) /\ Others(r[i - 1], id) # {}
      BY DEF Ends
    <2>5. r[i] \in Reduced(st, id)
      BY <2>2, <2>3, <2>4, RemoveOneKeeps
    <2> QED
      BY <2>1, <2>5
  <1>9. NumReass \in P
    <2>1. NumReass \in 0 .. NumReass
      BY <1>1
    <2> HIDE DEF P
    <2> QED
      BY <1>1, <1>7, <1>8, <2>1, Along
  <1> QED
    BY <1>2, <1>9

-----------------------------------------------------------------------------
(***************************************************************************)
(* A new datagram.                                                         *)
(***************************************************************************)
LEMMA TakeIs ==
  ASSUME NEW st \in States, st.free # NULL, NEW id \in Ids
  PROVE  /\ Take(st, id) \in States /\ st.free \in Elements
         /\ Take(st, id).head = st.free /\ Take(st, id).free = st.next[st.free]
         /\ Take(st, id).count = st.count
         /\ \A e \in Elements :
              /\ Take(st, id).next[e] = IF e = st.free THEN st.head ELSE st.next[e]
              /\ e # st.free => Take(st, id).data[e] = st.data[e]
         /\ Take(st, id).data[st.free].id = id /\ Take(st, id).data[st.free].p = <<>>
         /\ Take(st, id).data[st.free].last = FALSE
  <1> DEFINE d == st.free
             fresh == [NoData EXCEPT !.id = id, !.timer = MaxAge]
             nx == [st.next EXCEPT ![d] = st.head]
             dt == [st.data EXCEPT ![d] = fresh]
             new == [head |-> d, free |-> st.next[d], next |-> nx, data |-> dt,
                     count |-> st.count]
  <1>1. /\ st = [head |-> st.head, free |-> st.free, next |-> st.next,
                 data |-> st.data, count |-> st.count]
        /\ st.head \in Links /\ st.free \in Links /\ st.next \in [Elements -> Links]
        /\ st.data \in [Elements -> Datagrams] /\ st.count \in Int
    BY DEF States
  <1>2. d \in Elements /\ st.next[d] \in Links
    BY <1>1 DEF Links
  <1>3. fresh \in Datagrams /\ fresh.id = id /\ fresh.p = <<>> /\ fresh.last = FALSE
    <2>1. MaxAge \in 0 .. MaxAge
      BY Constants
    <2>2. fresh = [id |-> id, p |-> <<>>, last |-> FALSE, len |-> 0, timer |-> MaxAge]
      <3> DEFINE none == NoData
      <3>1. none = [id |-> NULL, p |-> <<>>, last |-> FALSE, len |-> 0, timer |-> 0]
        BY DEF NoData
      <3>2. fresh = [none EXCEPT !.id = id, !.timer = MaxAge]
        OBVIOUS
      <3> HIDE DEF none, d, nx, dt, new, fresh
      <3> QED
        BY <3>1, <3>2
    <2>3. <<>> \in Seq(Fragments) /\ id \in Ids \cup {NULL} /\ 0 \in Nat
      OBVIOUS
    <2> HIDE DEF fresh
    <2> QED
      BY <2>1, <2>2, <2>3 DEF Datagrams
  <1>4. Take(st, id) = [st EXCEPT !.head = d, !.free = st.next[d], !.next = nx, !.data = dt]
    <2>1. Take(st, id) = [st EXCEPT !.head = st.free, !.free = st.next[st.free],
                                    !.next = [@ EXCEPT ![st.free] = st.head],
                                    !.data = [@ EXCEPT ![st.free] = fresh]]
      BY DEF Take
    <2> HIDE DEF fresh
    <2> QED
      BY <2>1, <1>1
  <1> HIDE DEF fresh
  <1>5. nx \in [Elements -> Links] /\ dt \in [Elements -> Datagrams]
    BY <1>1, <1>2, <1>3
  <1>6. /\ \A e \in Elements : nx[e] = IF e = d THEN st.head ELSE st.next[e]
        /\ \A e \in Elements : dt[e] = IF e = d THEN fresh ELSE st.data[e]
    BY <1>1
  <1> HIDE DEF nx, dt
  <1>7. Take(st, id) = new
    BY <1>1, <1>4
  <1>8. new \in States
    BY <1>1, <1>2, <1>5 DEF States, Links
  <1>9. /\ new.head = d /\ new.free = st.next[d] /\ new.count = st.count
        /\ new.next = nx /\ new.data = dt
    OBVIOUS
  <1> HIDE DEF new
  <1> QED
    BY <1>2, <1>3, <1>6, <1>7, <1>8, <1>9

LEMMA TakeKeeps ==
  ASSUME NEW st \in States, DataOK(st), NEW list, NEW pool, Lists(st, list, pool),
         st.free # NULL, NEW id \in Ids, \A d \in Elements : st.data[d].id # id
  PROVE  /\ Take(st, id) \in States /\ DataOK(Take(st, id))
         /\ Take(st, id).count = st.count
         /\ Lists(Take(st, id), Push(st.free, list), Without(pool, 1))
  <1> DEFINE new == Take(st, id)
             d == st.free
             l == Push(d, list)
             q == Without(pool, 1)
  <1>1. /\ new \in States /\ d \in Elements
        /\ new.head = d /\ new.free = st.next[d] /\ new.count = st.count
        /\ \A e \in Elements :
              /\ new.next[e] = IF e = d THEN st.head ELSE st.next[e]
              /\ e # d => new.data[e] = st.data[e]
        /\ new.data[d].id = id /\ new.data[d].p = <<>> /\ new.data[d].last = FALSE
    <2>1. /\ new \in States /\ d \in Elements
          /\ new.head = d /\ new.free = st.next[d] /\ new.count = st.count
      BY TakeIs
    <2>2. /\ new.data[d].id = id /\ new.data[d].p = <<>> /\ new.data[d].last = FALSE
      BY TakeIs
    <2>3. \A e \in Elements :
             /\ new.next[e] = IF e = d THEN st.head ELSE st.next[e]
             /\ e # d => new.data[e] = st.data[e]
      BY TakeIs
    <2> HIDE DEF new, d
    <2> QED
      BY <2>1, <2>2, <2>3
  <1>2. id # NULL
    BY Constants
  <1> HIDE DEF new
  <1>3. /\ Linked(st.next, st.head, list) /\ Linked(st.next, d, pool)
        /\ \A i \in DOMAIN list, j \in DOMAIN pool : list[i] # pool[j]
        /\ \A e \in Elements : (\E i \in DOMAIN list : list[i] = e)
                               \/ (\E i \in DOMAIN pool : pool[i] = e)
        /\ \A e \in Elements : (\E i \in DOMAIN list : list[i] = e) <=> st.data[e].id # NULL
    BY DEF Lists
  <1>4. /\ DOMAIN list = 1 .. Len(list) /\ Len(list) \in Nat
        /\ DOMAIN pool = 1 .. Len(pool) /\ Len(pool) \in Nat
        /\ \A i \in DOMAIN list : list[i] \in Elements
        /\ \A i \in DOMAIN pool : pool[i] \in Elements
    BY ListsAre
  <1>5. list \in Seq(Elements) /\ pool \in Seq(Elements)
    BY <1>3 DEF Linked
  <1>6. 1 \in DOMAIN pool /\ pool[1] = d
    BY <1>3 DEF Linked, At
  <1> HIDE DEF d
  <1>7. /\ l \in Seq(Elements) /\ DOMAIN l = 1 .. Len(list) + 1
        /\ \A i \in 1 .. Len(list) + 1 : /\ i # 1 => i - 1 \in DOMAIN list
                                         /\ l[i] = IF i = 1 THEN d ELSE list[i - 1]
    BY <1>1, <1>5, PushIs
  <1>8. /\ q \in Seq(Elements) /\ DOMAIN q = 1 .. Len(pool) - 1
        /\ \A i \in 1 .. Len(pool) - 1 : /\ i \in DOMAIN pool /\ i + 1 \in DOMAIN pool
                                         /\ q[i] = IF i < 1 THEN pool[i] ELSE pool[i + 1]
    BY <1>5, <1>6, WithoutIs
  <1>9. \A i \in 1 .. Len(pool) - 1 : q[i] = pool[i + 1]
    BY <1>4, <1>8
  <1>10. /\ \A i \in Nat \ {0} : At(l, i) = IF i = 1 THEN d ELSE At(list, i - 1)
         /\ \A i \in Nat \ {0} : At(q, i) = At(pool, i + 1)
    <2>1. ASSUME NEW i \in Nat \ {0}
          PROVE  /\ At(l, i) = IF i = 1 THEN d ELSE At(list, i - 1)
                 /\ At(q, i) = IF i < 1 THEN At(pool, i) ELSE At(pool, i + 1)
      <3>1. At(l, i) = IF i = 1 THEN d ELSE At(list, i - 1)
        BY <1>1, <1>5, AtPush
      <3>2. At(q, i) = IF i < 1 THEN At(pool, i) ELSE At(pool, i + 1)
        BY <1>5, <1>6, AtWithout
      <3> QED
        BY <3>1, <3>2
    <2> QED
      BY <2>1
  <1> HIDE DEF l, q
  <1>11. Distinct(list) /\ Distinct(pool)
    BY <1>3 DEF Linked
  <1>12. \A i \in DOMAIN list : list[i] # d
    BY <1>3, <1>6
  <1>13. \A i \in DOMAIN pool : i # 1 => pool[i] # d
    BY <1>6, <1>11 DEF Distinct
  <1>14. Linked(new.next, new.head, l)
    <2>1. Distinct(l)
      <3>1. ASSUME NEW i \in DOMAIN l, NEW j \in DOMAIN l, l[i] = l[j] PROVE i = j
        <4>1. i \in 1 .. Len(list) + 1 /\ j \in 1 .. Len(list) + 1
          BY <1>7
        <4>2. CASE i = 1 \/ j = 1
          BY <1>7, <1>12, <3>1, <4>1, <4>2
        <4>3. CASE i # 1 /\ j # 1
          <5>1. list[i - 1] = list[j - 1] /\ i - 1 \in DOMAIN list /\ j - 1 \in DOMAIN list
            BY <1>7, <3>1, <4>1, <4>3
          <5>2. i - 1 = j - 1
            BY <1>11, <5>1 DEF Distinct
          <5> QED
            BY <4>1, <5>2
        <4> QED
          BY <4>2, <4>3
      <3> QED
        BY <3>1 DEF Distinct
    <2>2. new.head = At(l, 1)
      BY <1>1, <1>10
    <2>3. ASSUME NEW i \in DOMAIN l PROVE new.next[l[i]] = At(l, i + 1)
      <3>1. i \in 1 .. Len(list) + 1 /\ i + 1 \in Nat \ {0} /\ i + 1 # 1 /\ i + 1 - 1 = i
        BY <1>4, <1>7
      <3>2. At(l, i + 1) = At(list, i)
        BY <1>10, <3>1
      <3>3. CASE i = 1
        <4>1. l[i] = d /\ st.head = At(list, 1)
          BY <1>3, <1>7, <3>1, <3>3 DEF Linked
        <4> QED
          BY <1>1, <3>2, <3>3, <4>1
      <3>4. CASE i # 1
        <4>1. l[i] = list[i - 1] /\ i - 1 \in DOMAIN list /\ i - 1 + 1 = i
          BY <1>4, <1>7, <3>1, <3>4
        <4>2. new.next[list[i - 1]] = st.next[list[i - 1]]
          BY <1>1, <1>4, <1>12, <4>1
        <4>3. st.next[list[i - 1]] = At(list, i - 1 + 1)
          BY <1>3, <4>1 DEF Linked
        <4> QED
          BY <3>2, <4>1, <4>2, <4>3
      <3> QED
        BY <3>3, <3>4
    <2> QED
      BY <1>7, <2>1, <2>2, <2>3 DEF Linked
  <1>15. Linked(new.next, new.free, q)
    <2>1. Distinct(q)
      <3>1. ASSUME NEW i \in DOMAIN q, NEW j \in DOMAIN q, q[i] = q[j] PROVE i = j
        <4>1. /\ i \in 1 .. Len(pool) - 1 /\ j \in 1 .. Len(pool) - 1
              /\ i + 1 \in DOMAIN pool /\ j + 1 \in DOMAIN pool
          BY <1>8
        <4>2. pool[i + 1] = pool[j + 1]
          BY <1>9, <3>1, <4>1
        <4>3. i + 1 = j + 1
          BY <1>11, <4>1, <4>2 DEF Distinct
        <4> QED
          BY <4>1, <4>3
      <3> QED
        BY <3>1 DEF Distinct
    <2>2. new.free = At(q, 1)
      <3>1. st.next[pool[1]] = At(pool, 1 + 1)
        BY <1>3, <1>6 DEF Linked
      <3>2. At(q, 1) = At(pool, 1 + 1)
        BY <1>10
      <3> QED
        BY <1>1, <1>6, <3>1, <3>2
    <2>3. ASSUME NEW i \in DOMAIN q PROVE new.next[q[i]] = At(q, i + 1)
      <3>1. i \in 1 .. Len(pool) - 1 /\ i + 1 \in DOMAIN pool /\ i + 1 \in Nat \ {0} /\ i + 1 # 1
        BY <1>4, <1>8
      <3>2. q[i] = pool[i + 1] /\ pool[i + 1] # d /\ pool[i + 1] \in Elements
        BY <1>4, <1>9, <1>13, <3>1
      <3>3. new.next[q[i]] = st.next[pool[i + 1]]
        BY <1>1, <3>2
      <3>4. st.next[pool[i + 1]] = At(pool, i + 1 + 1)
        BY <1>3, <3>1 DEF Linked
      <3>5. At(q, i + 1) = At(pool, i + 1 + 1)
        BY <1>10, <3>1
      <3> QED
        BY <3>3, <3>4, <3>5
    <2> QED
      BY <1>8, <2>1, <2>2, <2>3 DEF Linked
  <1>16. ASSUME NEW e \in Elements
         PROVE  (\E i \in DOMAIN l : l[i] = e) <=> e = d \/ \E i \in DOMAIN list : list[i] = e
    <2>1. ASSUME NEW i \in DOMAIN l, l[i] = e
          PROVE  e = d \/ \E j \in DOMAIN list : list[j] = e
      BY <1>7, <2>1
    <2>2. ASSUME e = d PROVE \E i \in DOMAIN l : l[i] = e
      <3>1. 1 \in 1 .. Len(list) + 1
        BY <1>4
      <3> QED
        BY <1>7, <2>2, <3>1
    <2>3. ASSUME NEW i \in DOMAIN list, list[i] = e PROVE \E j \in DOMAIN l : l[j] = e
      <3>1. i + 1 \in 1 .. Len(list) + 1 /\ i + 1 # 1 /\ i + 1 - 1 = i
        BY <1>4
      <3> QED
        BY <1>7, <2>3, <3>1
    <2> QED
      BY <2>1, <2>2, <2>3
  <1>17. ASSUME NEW e \in Elements
         PROVE  (\E i \in DOMAIN q : q[i] = e) <=> e # d /\ \E i \in DOMAIN pool : pool[i] = e
    <2>1. ASSUME NEW i \in DOMAIN q, q[i] = e
          PROVE  e # d /\ \E j \in DOMAIN pool : pool[j] = e
      <3>1. i \in 1 .. Len(pool) - 1 /\ i + 1 \in DOMAIN pool /\ i + 1 # 1
        BY <1>4, <1>8
      <3> QED
        BY <1>9, <1>13, <2>1, <3>1
    <2>2. ASSUME NEW i \in DOMAIN pool, pool[i] = e, e # d PROVE \E j \in DOMAIN q : q[j] = e
      <3>1. i # 1
        BY <1>6, <2>2
      <3>2. i - 1 \in 1 .. Len(pool) - 1 /\ i - 1 + 1 = i
        BY <1>4, <3>1
      <3> QED
        BY <1>8, <1>9, <2>2, <3>2
    <2> QED
      BY <2>1, <2>2
  <1>18. Lists(new, l, q)
    <2>1. ASSUME NEW i \in DOMAIN l, NEW j \in DOMAIN q, l[i] = q[j] PROVE FALSE
      <3>1. l[i] \in Elements
        BY <1>7
      <3>2. l[i] = d \/ \E k \in DOMAIN list : list[k] = l[i]
        BY <1>16, <3>1
      <3>3. l[i] # d /\ \E k \in DOMAIN pool : pool[k] = l[i]
        BY <1>17, <2>1, <3>1
      <3> QED
        BY <1>3, <3>2, <3>3
    <2>2. \A e \in Elements : (\E i \in DOMAIN l : l[i] = e) \/ (\E i \in DOMAIN q : q[i] = e)
      BY <1>3, <1>16, <1>17
    <2>3. \A e \in Elements : (\E i \in DOMAIN l : l[i] = e) <=> new.data[e].id # NULL
      BY <1>1, <1>2, <1>3, <1>16
    <2> QED
      BY <1>14, <1>15, <2>1, <2>2, <2>3 DEF Lists
  <1>19. DataOK(new)
    <2>1. st.data[d].id = NULL
      BY <1>1, <1>3, <1>12
    <2>2. st.data[d].p = <<>>
      BY <1>1, <2>1, NoDataIs DEF DataOK
    <2>3. \A e \in Elements : new.data[e].p = st.data[e].p
      BY <1>1, <2>2
    <2>4. PbufsOf(new.data, Elements) = PbufsOf(st.data, Elements)
      <3>1. st.data \in [Elements -> Datagrams] /\ new.data \in [Elements -> Datagrams]
        BY <1>1 DEF States
      <3>2. /\ PbufsOf(st.data, Elements) \in Nat /\ PbufsOf(new.data, Elements) \in Nat
            /\ PbufsOf(new.data, Elements) + Clen(st.data[d].p)
                 = PbufsOf(st.data, Elements) + Clen(new.data[d].p)
        BY <1>1, <2>3, <3>1, PbufsChange
      <3>3. Clen(st.data[d].p) = 0 /\ Clen(new.data[d].p) = 0
        BY <1>1, <2>2, ClenType
      <3> QED
        BY <3>2, <3>3
    <2>5. InOrder(new.data[d])
      BY <1>1 DEF InOrder, EndHeld
    <2>6. \A e \in Elements : InOrder(new.data[e])
      BY <1>1, <2>5 DEF DataOK
    <2>7. \A e \in Elements : new.data[e].id = NULL => new.data[e] = NoData
      BY <1>1, <1>2 DEF DataOK
    <2>8. \A e, g \in Elements :
            new.data[e].id = new.data[g].id /\ new.data[e].id # NULL => e = g
      BY <1>1 DEF DataOK
    <2> QED
      BY <1>1, <2>4, <2>6, <2>7, <2>8 DEF DataOK
  <1> QED
    BY <1>1, <1>18, <1>19 DEF new, l, q, d

LEMMA EnqueueKeeps ==
  ASSUME NEW st \in States, DataOK(st), Sound(st), Apart(st), NEW f \in Fragments,
         \A d \in Elements : st.data[d].id # f.id
  PROVE  /\ EnqueueNew(st, f) \in States /\ DataOK(EnqueueNew(st, f))
         /\ Sound(EnqueueNew(st, f)) /\ EnqueueNew(st, f).count <= st.count
         /\ ~Apart(EnqueueNew(st, f)) => EnqueueNew(st, f).free \in Loose(st, f.id)
  <1> DEFINE cut == RemoveOldest(st, f.id, f.clen)
  <1>1. cut \in Reduced(st, f.id)
    BY RemoveOldestKeeps
  <1>2. EnqueueNew(st, f) =
          IF st.free # NULL THEN Take(st, f.id)
          ELSE IF st.count - cut.count >= f.clen /\ Apart(cut) THEN Take(cut, f.id)
          ELSE cut
    BY DEF EnqueueNew
  <1> HIDE DEF cut
  <1>3. /\ cut \in States /\ DataOK(cut) /\ Sound(cut) /\ cut.count <= st.count
        /\ \A d \in Elements : cut.data[d] \in {st.data[d], NoData}
        /\ ~Apart(cut) => cut.free \in Loose(st, f.id)
    BY <1>1 DEF Reduced
  <1>4. f.id \in Ids /\ f.clen \in Nat /\ f.clen > 0 /\ NULL \notin Ids
    BY FragmentIs, Constants
  <1>5. CASE st.free # NULL
    <2>1. PICK list, pool : Lists(st, list, pool)
      BY DEF Sound
    <2>2. /\ Take(st, f.id) \in States /\ DataOK(Take(st, f.id))
          /\ Take(st, f.id).count = st.count
          /\ \E l, p : Lists(Take(st, f.id), l, p)
      BY <1>4, <1>5, <2>1, TakeKeeps
    <2>3. st.count <= st.count
      BY DEF States
    <2>4. Apart(Take(st, f.id))
      BY <2>2, ListsAre
    <2> QED
      BY <1>2, <1>5, <2>2, <2>3, <2>4 DEF Sound
  <1>6. CASE st.free = NULL /\ st.count - cut.count >= f.clen /\ Apart(cut)
    <2>1. PICK list, pool : Lists(cut, list, pool)
      BY <1>3, <1>6 DEF Sound
    <2>2. cut.free # NULL
      <3>1. SUFFICES ASSUME cut.free = NULL PROVE FALSE
        OBVIOUS
      <3>2. /\ DOMAIN pool = 1 .. Len(pool) /\ Len(pool) \in Nat
            /\ \A i \in DOMAIN pool : pool[i] # NULL
        BY <1>3, <2>1, ListsAre
      <3>3. cut.free = At(pool, 1)
        BY <2>1 DEF Lists, Linked
      <3>4. 1 \notin DOMAIN pool
        BY <3>1, <3>2, <3>3 DEF At
      <3>5. DOMAIN pool = {}
        BY <3>2, <3>4
      <3>6. \A d \in Elements : cut.data[d].id # NULL
        BY <2>1, <3>5 DEF Lists
      <3>7. \A d \in Elements : cut.data[d] = st.data[d]
        BY <1>3, <3>6, NoDataIs
      <3>8. cut.data = st.data
        <4>1. cut.data \in [Elements -> Datagrams] /\ st.data \in [Elements -> Datagrams]
          BY <1>3 DEF States
        <4> QED
          BY <3>7, <4>1
      <3>9. cut.count = st.count
        BY <1>3, <3>8 DEF DataOK
      <3>10. st.count \in Int
        BY DEF States
      <3> QED
        BY <1>4, <1>6, <3>9, <3>10
    <2>3. \A d \in Elements : cut.data[d].id # f.id
      BY <1>3, <1>4, NoDataIs
    <2>4. /\ Take(cut, f.id) \in States /\ DataOK(Take(cut, f.id))
          /\ Take(cut, f.id).count = cut.count
          /\ \E l, p : Lists(Take(cut, f.id), l, p)
      BY <1>3, <1>4, <2>1, <2>2, <2>3, TakeKeeps
    <2>5. Apart(Take(cut, f.id))
      BY <2>4, ListsAre
    <2> QED
      BY <1>2, <1>3, <1>6, <2>4, <2>5 DEF Sound
  <1>7. CASE st.free = NULL /\ ~(st.count - cut.count >= f.clen /\ Apart(cut))
    BY <1>2, <1>3, <1>7
  <1> QED
    BY <1>5, <1>6, <1>7

-----------------------------------------------------------------------------
(***************************************************************************)
(* A fragment of a datagram.                                               *)
(***************************************************************************)
Sorted(s) == \A i, j \in DOMAIN s : i < j => s[i].start < s[j].start

(* The fragments behind its place are those that start later. *)
LEMMA PlaceIs ==
  ASSUME NEW s \in Seq(Fragments), Sorted(s), NEW start \in Nat
  PROVE  /\ Place(s, start) \in 1 .. Len(s) + 1
         /\ \A j \in DOMAIN s : s[j].start <= start <=> j < Place(s, start)
  <1> DEFINE T == {j \in DOMAIN s : s[j].start <= start}
             late == DOMAIN s \ T
  <1>1. /\ DOMAIN s = 1 .. Len(s) /\ Len(s) \in Nat
        /\ \A j \in DOMAIN s : s[j].start \in Nat
    BY DomainFinite, FragmentIs
  <1>2. Place(s, start) = Cardinality(T) + 1
    BY DEF Place
  <1>3. \E m \in 0 .. Len(s) : T = 1 .. m
    <2>1. CASE late = {}
      <3>1. T = 1 .. Len(s) /\ Len(s) \in 0 .. Len(s)
        BY <1>1, <2>1
      <3> QED
        BY <3>1
    <2>2. CASE late # {}
      <3>1. late \subseteq Nat
        BY <1>1
      <3>2. PICK x \in late : \A y \in late : x <= y
        <4> HIDE DEF late
        <4> QED
          BY <2>2, <3>1, Least
      <3>3. x \in 1 .. Len(s) /\ s[x].start \in Nat /\ ~(s[x].start <= start)
        BY <1>1, <3>2
      <3>4. ASSUME NEW j \in T PROVE j < x
        <4>1. j \in 1 .. Len(s) /\ s[j].start <= start /\ s[j].start \in Nat
          BY <1>1
        <4>2. SUFFICES ASSUME ~(j < x) PROVE FALSE
          OBVIOUS
        <4>3. CASE j = x
          BY <3>3, <4>1, <4>3
        <4>4. CASE x < j
          <5>1. s[x].start < s[j].start
            BY <1>1, <3>3, <4>1, <4>4 DEF Sorted
          <5> QED
            BY <3>3, <4>1, <5>1
        <4> QED
          BY <1>1, <3>3, <4>1, <4>2, <4>3, <4>4
      <3>5. ASSUME NEW j \in 1 .. x - 1 PROVE j \in T
        <4>1. j \in DOMAIN s /\ ~(x <= j)
          BY <1>1, <3>3
        <4> QED
          BY <3>2, <4>1
      <3>6. T = 1 .. x - 1
        <4>1. \A j \in T : j \in 1 .. x - 1
          <5>1. \A j \in T : j \in 1 .. Len(s)
            BY <1>1
          <5> HIDE DEF T
          <5> QED
            BY <1>1, <3>3, <3>4, <5>1
        <4> HIDE DEF T
        <4> QED
          BY <3>5, <4>1
      <3>7. x - 1 \in 0 .. Len(s)
        BY <1>1, <3>3
      <3> QED
        BY <3>6, <3>7
    <2> QED
      BY <2>1, <2>2
  <1>4. PICK m \in 0 .. Len(s) : T = 1 .. m
    BY <1>3
  <1>5. Cardinality(T) = m
    <2>1. m \in Nat
      BY <1>1
    <2>2. Cardinality(1 .. m) = IF 1 > m THEN 0 ELSE m - 1 + 1
      BY <2>1, FS_Interval
    <2> HIDE DEF T
    <2> QED
      BY <1>4, <2>1, <2>2
  <1>6. \A j \in DOMAIN s : s[j].start <= start <=> j \in 1 .. m
    BY <1>4
  <1> HIDE DEF T, late
  <1> QED
    BY <1>1, <1>2, <1>5, <1>6

(* What is not thrown away keeps the fragments in order. *)
LEMMA InsertSorted ==
  ASSUME NEW s \in Seq(Fragments), Sorted(s), NEW f \in Fragments, ~Thrown(s, f)
  PROVE  Sorted(InsertAt(s, Place(s, f.start), f))
  <1> DEFINE i == Place(s, f.start)
             t == InsertAt(s, i, f)
  <1>1. /\ DOMAIN s = 1 .. Len(s) /\ Len(s) \in Nat
        /\ \A j \in DOMAIN s : s[j] \in Fragments
    BY DomainFinite
  <1>2. /\ f.start \in Nat
        /\ \A j \in DOMAIN s : /\ s[j].start \in Nat /\ s[j].end \in Nat
                               /\ s[j].start < s[j].end
    BY <1>1, FragmentIs
  <1>3. /\ i \in 1 .. Len(s) + 1
        /\ \A j \in DOMAIN s : s[j].start <= f.start <=> j < i
    BY <1>2, PlaceIs
  <1>4. \A j \in 1 .. i - 1 : ~(f.start < s[j].end)
    BY DEF Thrown
  <1> HIDE DEF i
  <1>5. /\ DOMAIN t = 1 .. Len(s) + 1
        /\ \A j \in 1 .. Len(s) + 1 :
             /\ j < i => j \in DOMAIN s
             /\ i < j => j - 1 \in DOMAIN s
             /\ t[j] = IF j < i THEN s[j] ELSE IF j = i THEN f ELSE s[j - 1]
    <2>1. s \in Seq(Fragments) /\ f \in Fragments /\ i \in 1 .. Len(s) + 1
      BY <1>3
    <2> HIDE DEF t
    <2> QED
      BY <2>1, InsertIs DEF t
  <1> HIDE DEF t
  <1>6. ASSUME NEW j \in DOMAIN t, NEW k \in DOMAIN t, j < k
        PROVE  t[j].start < t[k].start
    <2>1. j \in 1 .. Len(s) + 1 /\ k \in 1 .. Len(s) + 1
      BY <1>5
    <2>2. CASE k < i
      <3>1. j < i /\ j \in DOMAIN s /\ k \in DOMAIN s
        BY <1>3, <1>5, <1>6, <2>1, <2>2
      <3> QED
        BY <1>5, <1>6, <2>1, <2>2, <3>1 DEF Sorted
    <2>3. CASE k = i
      <3>1. j < i /\ j \in DOMAIN s /\ j \in 1 .. i - 1
        BY <1>3, <1>5, <1>6, <2>1, <2>3
      <3>2. s[j].start < f.start
        BY <1>2, <1>4, <3>1
      <3>3. ~(k < i)
        BY <1>3, <2>3
      <3> QED
        BY <1>5, <2>1, <2>3, <3>1, <3>2, <3>3
    <2>4. CASE i < k /\ j < i
      <3>1. j \in DOMAIN s /\ k - 1 \in DOMAIN s /\ j < k - 1 /\ ~(k < i) /\ k # i
        BY <1>3, <1>5, <2>1, <2>4
      <3> QED
        BY <1>5, <2>1, <2>4, <3>1 DEF Sorted
    <2>5. CASE i < k /\ j = i
      <3>1. k - 1 \in DOMAIN s /\ ~(k - 1 < i) /\ ~(k < i) /\ k # i /\ ~(j < i)
        BY <1>3, <1>5, <2>1, <2>5
      <3>2. f.start < s[k - 1].start
        BY <1>2, <1>3, <3>1
      <3> QED
        BY <1>5, <2>1, <2>5, <3>1, <3>2
    <2>6. CASE i < j
      <3>1. /\ j - 1 \in DOMAIN s /\ k - 1 \in DOMAIN s /\ j - 1 < k - 1
            /\ ~(k < i) /\ k # i /\ ~(j < i) /\ j # i
        BY <1>3, <1>5, <1>6, <2>1, <2>6
      <3> QED
        BY <1>5, <2>1, <3>1 DEF Sorted
    <2> QED
      BY <1>3, <1>6, <2>1, <2>2, <2>3, <2>4, <2>5, <2>6
  <1>7. Sorted(t)
    BY <1>6 DEF Sorted
  <1> QED
    BY <1>7 DEF t, i

(* Fragments and count of a datagram change, its place does not. *)
Put(st, d, x, n) == [st EXCEPT !.data[d] = x, !.count = n]

LEMMA PutIs ==
  ASSUME NEW st \in States, NEW d \in Elements, NEW x \in Datagrams, NEW n \in Int
  PROVE  /\ Put(st, d, x, n) \in States
         /\ n = st.count => Put(st, d, x, n) = [st EXCEPT !.data[d] = x]
         /\ Put(st, d, x, n).head = st.head /\ Put(st, d, x, n).free = st.free
         /\ Put(st, d, x, n).next = st.next /\ Put(st, d, x, n).count = n
         /\ \A e \in Elements :
              Put(st, d, x, n).data[e] = IF e = d THEN x ELSE st.data[e]
  <1> DEFINE dt == [st.data EXCEPT ![d] = x]
             new == [head |-> st.head, free |-> st.free, next |-> st.next,
                     data |-> dt, count |-> n]
  <1>1. /\ st = [head |-> st.head, free |-> st.free, next |-> st.next,
                 data |-> st.data, count |-> st.count]
        /\ st.head \in Links /\ st.free \in Links /\ st.next \in [Elements -> Links]
        /\ st.data \in [Elements -> Datagrams] /\ st.count \in Int
    BY DEF States
  <1>2. /\ dt \in [Elements -> Datagrams]
        /\ \A e \in Elements : dt[e] = IF e = d THEN x ELSE st.data[e]
    BY <1>1
  <1>3. /\ [st EXCEPT !.data[d] = x, !.count = n] = [st EXCEPT !.data = dt, !.count = n]
        /\ [st EXCEPT !.data[d] = x] = [st EXCEPT !.data = dt]
    BY <1>1
  <1> HIDE DEF dt
  <1>4. /\ [st EXCEPT !.data = dt, !.count = n] = new
        /\ n = st.count => [st EXCEPT !.data = dt] = new
    <2>1. [st EXCEPT !.data = dt, !.count = n] = new
      <3> DEFINE one == [st EXCEPT !.data = dt]
      <3>1. [st EXCEPT !.data = dt, !.count = n] = [one EXCEPT !.count = n]
        BY <1>1
      <3>2. one = [head |-> st.head, free |-> st.free, next |-> st.next,
                   data |-> dt, count |-> st.count]
        BY <1>1
      <3> HIDE DEF one
      <3>3. [one EXCEPT !.count = n] = new
        BY <3>2
      <3> QED
        BY <3>1, <3>3
    <2>2. [st EXCEPT !.data = dt]
            = [head |-> st.head, free |-> st.free, next |-> st.next,
               data |-> dt, count |-> st.count]
      BY <1>1
    <2> QED
      BY <2>1, <2>2
  <1>5. new \in States
    BY <1>1, <1>2 DEF States
  <1>6. /\ new.head = st.head /\ new.free = st.free /\ new.next = st.next
        /\ new.data = dt /\ new.count = n
    OBVIOUS
  <1> HIDE DEF new
  <1> QED
    BY <1>2, <1>3, <1>4, <1>5, <1>6 DEF Put

LEMMA PutKeeps ==
  ASSUME NEW st \in States, DataOK(st), NEW list, NEW pool, Lists(st, list, pool),
         NEW d \in Elements, NEW x \in Datagrams, NEW n \in Int,
         x.id = st.data[d].id, x.id # NULL, InOrder(x),
         n + Clen(st.data[d].p) = st.count + Clen(x.p)
  PROVE  DataOK(Put(st, d, x, n)) /\ Lists(Put(st, d, x, n), list, pool)
  <1> DEFINE new == Put(st, d, x, n)
  <1>0. /\ new \in States
        /\ new.head = st.head /\ new.free = st.free /\ new.next = st.next /\ new.count = n
        /\ \A e \in Elements : new.data[e] = IF e = d THEN x ELSE st.data[e]
    BY PutIs
  <1> HIDE DEF new
  <1>1. \A e \in Elements : new.data[e].id = st.data[e].id
    BY <1>0
  <1>2. Lists(new, list, pool)
    <2>1. \A e \in Elements : new.data[e].id # NULL <=> st.data[e].id # NULL
      BY <1>1
    <2> QED
      BY <1>0, <2>1, SameLists
  <1>3. new.count = PbufsOf(new.data, Elements)
    <2>1. st.data \in [Elements -> Datagrams] /\ new.data \in [Elements -> Datagrams]
      BY <1>0 DEF States
    <2>2. \A e \in Elements \ {d} : new.data[e].p = st.data[e].p
      BY <1>0
    <2>3. /\ PbufsOf(st.data, Elements) \in Nat /\ PbufsOf(new.data, Elements) \in Nat
          /\ PbufsOf(new.data, Elements) + Clen(st.data[d].p)
               = PbufsOf(st.data, Elements) + Clen(new.data[d].p)
      BY <2>1, <2>2, PbufsChange
    <2>4. new.data[d].p = x.p /\ Clen(st.data[d].p) \in Nat
      BY <1>0, DataType
    <2>5. st.count = PbufsOf(st.data, Elements)
      BY DEF DataOK
    <2> QED
      BY <1>0, <2>3, <2>4, <2>5
  <1>4. \A e \in Elements : InOrder(new.data[e])
    BY <1>0 DEF DataOK
  <1>5. \A e \in Elements : new.data[e].id = NULL => new.data[e] = NoData
    BY <1>0, <1>1 DEF DataOK
  <1>6. \A e, g \in Elements :
          new.data[e].id = new.data[g].id /\ new.data[e].id # NULL => e = g
    BY <1>0, <1>1 DEF DataOK
  <1>7. DataOK(new)
    BY <1>3, <1>4, <1>5, <1>6 DEF DataOK
  <1> QED
    BY <1>2, <1>7 DEF new

(* A state of the module in which all is as it should be, unless the list  *)
(* meets the free elements.                                                *)
Good(st) == st \in States /\ DataOK(st) /\ Sound(st) /\ st.count <= MaxPbufs

(* What is delivered, if anything, is whole. *)
Whole(p, len) ==
  /\ \A i \in DOMAIN p : p[i].id = p[1].id
  /\ p[1].start = 0 /\ ~Last(p).more
  /\ \A i \in 1 .. Len(p) - 1 : Adjoin(p, i)
  /\ len = Last(p).end

Delivers(result) == /\ result \in Seq(Fragments) \X Nat
                    /\ Simple /\ result[1] # <<>> => Whole(result[1], result[2])

(* What a call leaves behind: a good state, in which nothing that was held *)
(* of the datagrams S is lost, and the list is whole if none of T was      *)
(* given up.                                                               *)
Kept(st, S, T) ==
  \E new, result :
    /\ Good(new) /\ Delivers(result) /\ Return(new, result)
    /\ ~Apart(new) => new.free \in T
    /\ \A d \in S : ToSet(st.data[d].p) \subseteq ToSet(new.data[d].p) \cup ToSet(result[1])

LEMMA NothingIs == Delivers(Nothing) /\ Nothing[1] = <<>>
  <1>1. <<>> \in Seq(Fragments) /\ 0 \in Nat
    OBVIOUS
  <1> DEFINE none == <<>>
  <1>2. Nothing = <<none, 0>>
    BY DEF Nothing
  <1>3. none \in Seq(Fragments) /\ none = <<>>
    BY <1>1
  <1> HIDE DEF none
  <1>4. Nothing \in Seq(Fragments) \X Nat /\ Nothing[1] = <<>>
    BY <1>1, <1>2, <1>3
  <1> QED
    BY <1>4 DEF Delivers

(* A last fragment that is thrown away is one that ends where a last one   *)
(* that is there does.                                                     *)
LEMMA ThrownEnds ==
  ASSUME NEW s \in Seq(Fragments), Sorted(s), NEW f \in Fragments,
         \A j \in DOMAIN s : s[j].id = f.id, EndsOnce(Fragments), ~f.more, Thrown(s, f)
  PROVE  \E j \in DOMAIN s : ~s[j].more /\ s[j].end = f.end
  <1> DEFINE i == Place(s, f.start)
  <1>1. /\ DOMAIN s = 1 .. Len(s) /\ Len(s) \in Nat
        /\ \A j \in DOMAIN s : /\ s[j] \in Fragments
                               /\ s[j].start \in Nat /\ s[j].end \in Nat
                               /\ s[j].start < s[j].end
    BY DomainFinite, FragmentIs
  <1>2. f.start \in Nat /\ f.end \in Nat
    BY FragmentIs
  <1>3. /\ i \in 1 .. Len(s) + 1
        /\ \A j \in DOMAIN s : s[j].start <= f.start <=> j < i
    BY <1>2, PlaceIs
  <1>4. \A j \in DOMAIN s : s[j].end <= f.start \/ (~s[j].more /\ s[j].end = f.end)
    BY <1>1 DEF EndsOnce
  <1>5. (\E j \in 1 .. i - 1 : f.start < s[j].end) \/ (1 < i /\ i <= Len(s) /\ f.end > s[i].start)
    BY DEF Thrown
  <1> HIDE DEF i
  <1>6. CASE \E j \in 1 .. i - 1 : f.start < s[j].end
    <2>1. PICK j \in 1 .. i - 1 : f.start < s[j].end
      BY <1>6
    <2>2. j \in DOMAIN s
      BY <1>1, <1>3
    <2>3. ~(s[j].end <= f.start)
      BY <1>1, <1>2, <2>1, <2>2
    <2> QED
      BY <1>4, <2>2, <2>3
  <1>7. CASE 1 < i /\ i <= Len(s) /\ f.end > s[i].start
    <2>1. i \in DOMAIN s /\ ~(i < i)
      BY <1>1, <1>3, <1>7
    <2>2. ~(s[i].start <= f.start)
      BY <1>3, <2>1
    <2>3. ~(s[i].end <= f.start)
      BY <1>1, <1>2, <2>1, <2>2
    <2> QED
      BY <1>4, <2>1, <2>3
  <1> QED
    BY <1>5, <1>6, <1>7

(* Where no fragment may be missing before two that adjoin, what the walk  *)
(* does not look at is right, too.                                         *)
LEMMA ValidWhole ==
  ASSUME NEW s \in Seq(Fragments), Sorted(s), NEW f \in Fragments,
         \A j \in DOMAIN s : s[j].id = f.id, Simple, ~Thrown(s, f), Valid(s, f),
         NEW p, p = InsertAt(s, Place(s, f.start), f), NEW len,
         \E k \in DOMAIN p : ~p[k].more /\ p[k].end = len
  PROVE  Whole(p, len)
  <1> DEFINE i == Place(s, f.start)
  <1>1. /\ DOMAIN s = 1 .. Len(s) /\ Len(s) \in Nat
        /\ \A j \in DOMAIN s : s[j] \in Fragments
    BY DomainFinite
  <1>2. i \in 1 .. Len(s) + 1 /\ \A j \in DOMAIN s : s[j].start <= f.start <=> j < i
    BY FragmentIs, PlaceIs
  <1>3. Sorted(p)
    BY InsertSorted
  <1>4. /\ \A j \in 1 .. i - 2 : Adjoin(p, j)
        /\ i = Len(p) /\ i > 1 => Adjoin(p, i - 1)
        /\ p[1].start = 0
        /\ \A j \in i .. Len(p) - 1 : Adjoin(p, j)
    BY DEF Valid
  <1>5. \A j \in 1 .. i - 1 : ~(f.start < s[j].end)
    BY DEF Thrown
  <1>6. p = InsertAt(s, i, f)
    OBVIOUS
  <1> HIDE DEF i
  <1>7. /\ p \in Seq(Fragments) /\ Len(p) = Len(s) + 1 /\ DOMAIN p = 1 .. Len(s) + 1
        /\ \A j \in 1 .. Len(s) + 1 :
             /\ j < i => j \in DOMAIN s
             /\ i < j => j - 1 \in DOMAIN s
             /\ p[j] = IF j < i THEN s[j] ELSE IF j = i THEN f ELSE s[j - 1]
    <2>1. s \in Seq(Fragments) /\ f \in Fragments /\ i \in 1 .. Len(s) + 1
      BY <1>2
    <2>2. /\ InsertAt(s, i, f) \in Seq(Fragments) /\ Len(InsertAt(s, i, f)) = Len(s) + 1
          /\ DOMAIN InsertAt(s, i, f) = 1 .. Len(s) + 1
          /\ \A j \in 1 .. Len(s) + 1 :
               /\ j < i => j \in DOMAIN s
               /\ i < j => j - 1 \in DOMAIN s
               /\ InsertAt(s, i, f)[j] = IF j < i THEN s[j] ELSE IF j = i THEN f
                                         ELSE s[j - 1]
      BY <2>1, InsertIs
    <2> QED
      BY <1>6, <2>2
  <1>8. \A j \in DOMAIN p : /\ p[j] \in Fragments /\ p[j].id = f.id
                           /\ p[j].start \in Nat /\ p[j].end \in Nat
                           /\ p[j].start < p[j].end
    <2>1. ASSUME NEW j \in DOMAIN p PROVE p[j] \in Fragments /\ p[j].id = f.id
      <3>1. j \in 1 .. Len(s) + 1 /\ j \in Int /\ i \in Int
        BY <1>1, <1>2, <1>7, <2>1
      <3>2. CASE j < i
        <4>1. p[j] = s[j] /\ j \in DOMAIN s
          BY <1>7, <3>1, <3>2
        <4> QED
          BY <1>1, <4>1
      <3>3. CASE j = i
        <4>1. p[j] = f
          BY <1>7, <3>1, <3>3
        <4> QED
          BY <4>1
      <3>4. CASE i < j
        <4>1. p[j] = s[j - 1] /\ j - 1 \in DOMAIN s
          BY <1>7, <3>1, <3>4
        <4> QED
          BY <1>1, <4>1
      <3> QED
        BY <3>1, <3>2, <3>3, <3>4
    <2> QED
      BY <2>1, FragmentIs
  <1>9. ASSUME 1 < i, i < Len(p) PROVE Adjoin(p, i - 1)
    <2>1. /\ i \in DOMAIN p /\ i - 1 \in DOMAIN p /\ i + 1 \in DOMAIN p
          /\ i - 1 \in DOMAIN s /\ i - 1 \in 1 .. i - 1 /\ i \in i .. Len(p) - 1
          /\ i - 1 < i
      BY <1>1, <1>2, <1>7, <1>9
    <2>2. p[i] = f /\ p[i - 1] = s[i - 1]
      BY <1>7, <2>1
    <2>3. ~(f.start < p[i - 1].end)
      BY <1>5, <2>1, <2>2
    <2>4. p[i].end = p[i + 1].start
      BY <1>4, <2>1 DEF Adjoin
    <2>5. ~(p[i - 1].end < p[i].start)
      <3>1. NoneBetween(Fragments)
        BY DEF Simple
      <3>2. /\ p[i - 1] \in Fragments /\ p[i] \in Fragments /\ p[i + 1] \in Fragments
            /\ p[i - 1].id = p[i].id /\ p[i].id = p[i + 1].id
        BY <1>8, <2>1
      <3> QED
        BY <2>4, <3>1, <3>2 DEF NoneBetween
    <2>6. p[i - 1].end = p[i].start
      BY <1>8, <2>1, <2>2, <2>3, <2>5
    <2>7. i - 1 + 1 = i
      BY <1>2
    <2> QED
      BY <2>6, <2>7 DEF Adjoin
  <1>10. ASSUME NEW j \in 1 .. Len(p) - 1 PROVE Adjoin(p, j)
    <2>1. i \in Nat /\ i >= 1 /\ i <= Len(p) /\ Len(p) \in Nat
      BY <1>1, <1>2, <1>7
    <2>2. CASE j \in 1 .. i - 2
      BY <1>4, <2>2
    <2>3. CASE j \in i .. Len(p) - 1
      BY <1>4, <2>3
    <2>4. CASE j = i - 1 /\ i = Len(p)
      <3>1. i > 1
        BY <2>1, <2>4
      <3> QED
        BY <1>4, <2>4, <3>1
    <2>5. CASE j = i - 1 /\ i # Len(p)
      <3>1. 1 < i /\ i < Len(p)
        BY <2>1, <2>5
      <3> QED
        BY <1>9, <2>5, <3>1
    <2>6. j \in 1 .. i - 2 \/ j \in i .. Len(p) - 1 \/ j = i - 1
      BY <2>1
    <2> QED
      BY <2>2, <2>3, <2>4, <2>5, <2>6
  <1>11. PICK k \in DOMAIN p : ~p[k].more /\ p[k].end = len
    OBVIOUS
  <1>12. k = Len(p)
    <2>1. SUFFICES ASSUME k # Len(p) PROVE FALSE
      OBVIOUS
    <2>2. k \in 1 .. Len(p) - 1 /\ k + 1 \in DOMAIN p /\ k < k + 1
      BY <1>1, <1>7, <2>1
    <2>3. p[k].end = p[k + 1].start /\ p[k].start < p[k + 1].start
      BY <1>3, <1>10, <2>2 DEF Adjoin, Sorted
    <2>4. p[k + 1].end <= p[k].start \/ p[k + 1].end = p[k].end
      BY <1>8, <1>11, <2>2 DEF Simple, EndsOnce
    <2> QED
      BY <1>8, <2>2, <2>3, <2>4
  <1>13. Last(p) = p[Len(p)]
    BY DEF Last
  <1>14. \A j \in DOMAIN p : p[j].id = p[1].id
    <2>1. 1 \in DOMAIN p
      BY <1>1, <1>7
    <2> QED
      BY <1>8, <2>1
  <1> QED
    BY <1>4, <1>10, <1>11, <1>12, <1>13, <1>14 DEF Whole

LEMMA AcceptKeeps ==
  ASSUME NEW st, Good(st), NEW list, NEW pool, Lists(st, list, pool),
         NEW f \in Fragments, st.count + f.clen <= MaxPbufs,
         NEW k \in DOMAIN list, st.data[list[k]].id = f.id, Accept(st, f, list[k])
  PROVE  Kept(st, {list[k]}, {})
  <1> DEFINE d == list[k]
             old == st.data[d]
             i == Place(old.p, f.start)
             e == [old EXCEPT !.last = @ \/ ~f.more, !.len = IF f.more THEN @ ELSE f.end]
             p == InsertAt(old.p, i, f)
             x == [e EXCEPT !.p = p]
             flagged == [st EXCEPT !.data[d] = e]
             kept == [st EXCEPT !.data[d] = x, !.count = @ + f.clen]
             prev == Before(st, d)
             done == [Dequeue(kept, d, prev) EXCEPT !.count = @ - Clen(p)]
  <1>1. /\ Thrown(old.p, f) => Return(flagged, Nothing)
        /\ ~Thrown(old.p, f) /\ e.last /\ Valid(old.p, f) => Return(done, <<p, e.len>>)
        /\ ~Thrown(old.p, f) /\ ~(e.last /\ Valid(old.p, f)) => Return(kept, Nothing)
    BY DEF Accept
  <1>2. st \in States /\ DataOK(st) /\ st.count <= MaxPbufs /\ st.count \in Int
    BY DEF Good, States
  <1>3. d \in Elements
    BY <1>2, ListsAre
  <1>4. prev = At(list, k - 1)
    BY <1>2, BeforeIs
  <1>5. old \in Datagrams /\ old.p \in Seq(Fragments) /\ Clen(old.p) \in Nat
    BY <1>2, <1>3, DataType
  <1>6. InOrder(old)
    BY <1>2, <1>3 DEF DataOK
  <1>7. old.id = f.id /\ f.id # NULL
    BY FragmentIs, Constants
  <1>8. /\ f.start \in Nat /\ f.end \in Nat /\ f.more \in BOOLEAN
        /\ f.clen \in Nat /\ f.clen > 0
    BY FragmentIs
  <1> HIDE DEF d, old
  <1>9. Sorted(old.p)
    BY <1>6 DEF Sorted, InOrder
  <1>10. i \in 1 .. Len(old.p) + 1
    BY <1>5, <1>8, <1>9, PlaceIs
  <1> HIDE DEF i
  <1>16. kept = [st EXCEPT !.data[d] = x, !.count = st.count + f.clen]
    BY <1>2 DEF States
  <1> HIDE DEF flagged, kept, prev, done
  <1>11. /\ p \in Seq(Fragments) /\ DOMAIN p = 1 .. Len(old.p) + 1
         /\ \A j \in 1 .. Len(old.p) + 1 :
              /\ j < i => j \in DOMAIN old.p
              /\ i < j => j - 1 \in DOMAIN old.p
              /\ p[j] = IF j < i THEN old.p[j] ELSE IF j = i THEN f ELSE old.p[j - 1]
    <2> DEFINE s == old.p
    <2>1. s \in Seq(Fragments) /\ f \in Fragments /\ i \in 1 .. Len(s) + 1
      BY <1>5, <1>10
    <2> HIDE DEF p, e, x, s
    <2>2. /\ InsertAt(s, i, f) \in Seq(Fragments)
          /\ DOMAIN InsertAt(s, i, f) = 1 .. Len(s) + 1
          /\ \A j \in 1 .. Len(s) + 1 :
               /\ j < i => j \in DOMAIN s
               /\ i < j => j - 1 \in DOMAIN s
               /\ InsertAt(s, i, f)[j] = IF j < i THEN s[j] ELSE IF j = i THEN f
                                         ELSE s[j - 1]
      <3>1. /\ InsertAt(s, i, f) \in Seq(Fragments)
            /\ DOMAIN InsertAt(s, i, f) = 1 .. Len(s) + 1
        BY <2>1, InsertIs
      <3>2. ASSUME NEW j \in 1 .. Len(s) + 1
            PROVE  /\ j < i => j \in DOMAIN s
                   /\ i < j => j - 1 \in DOMAIN s
        BY <2>1, InsertIs
      <3>3. ASSUME NEW j \in 1 .. Len(s) + 1
            PROVE  InsertAt(s, i, f)[j] = IF j < i THEN s[j] ELSE IF j = i THEN f
                                          ELSE s[j - 1]
        BY <2>1, InsertIs
      <3> QED
        BY <3>1, <3>2, <3>3
    <2>3. p = InsertAt(s, i, f)
      BY DEF p, s
    <2> QED
      BY <2>2, <2>3 DEF s
  <1>12. Clen(p) = Clen(old.p) + f.clen
    <2> HIDE DEF p
    <2> QED
      BY <1>5, <1>10, ClenInsert DEF p
  <1>13. ~Thrown(old.p, f) => Sorted(p)
    <2> HIDE DEF p
    <2> QED
      BY <1>5, <1>9, InsertSorted DEF p, i
  <1> HIDE DEF p
  <1>14. /\ e \in Datagrams /\ e.p = old.p /\ e.id = old.id /\ e.len \in Nat
         /\ e.last \in BOOLEAN /\ e.last = (old.last \/ ~f.more)
         /\ e.len = IF f.more THEN old.len ELSE f.end
    <2>1. /\ old = [id |-> old.id, p |-> old.p, last |-> old.last, len |-> old.len,
                    timer |-> old.timer]
          /\ old.id \in Ids \cup {NULL} /\ old.last \in BOOLEAN /\ old.len \in Nat
          /\ old.timer \in 0 .. MaxAge
      BY <1>5 DEF Datagrams
    <2> DEFINE len_ == IF f.more THEN old.len ELSE f.end
               last_ == old.last \/ ~f.more
    <2>2. len_ \in Nat /\ last_ \in BOOLEAN
      BY <1>8, <2>1
    <2>3. e = [old EXCEPT !.last = last_, !.len = len_]
      BY <2>1
    <2> HIDE DEF len_, last_
    <2>4. e = [id |-> old.id, p |-> old.p, last |-> last_, len |-> len_, timer |-> old.timer]
      <3> DEFINE one == [old EXCEPT !.last = last_]
      <3>1. e = [one EXCEPT !.len = len_]
        BY <2>1, <2>3
      <3>2. one = [id |-> old.id, p |-> old.p, last |-> last_, len |-> old.len,
                   timer |-> old.timer]
        BY <2>1
      <3> HIDE DEF e, one, x
      <3> QED
        BY <3>1, <3>2
    <2> HIDE DEF e
    <2> QED
      BY <1>5, <2>1, <2>2, <2>4 DEF Datagrams, last_, len_
  <1> HIDE DEF e
  <1>15. /\ x \in Datagrams /\ x.p = p /\ x.id = old.id /\ x.last = e.last
         /\ x.len = e.len
    <2>1. e = [id |-> e.id, p |-> e.p, last |-> e.last, len |-> e.len, timer |-> e.timer]
      BY <1>14 DEF Datagrams
    <2>2. x = [id |-> e.id, p |-> p, last |-> e.last, len |-> e.len, timer |-> e.timer]
      BY <2>1
    <2> HIDE DEF x
    <2> QED
      BY <1>11, <1>14, <2>2 DEF Datagrams
  <1> HIDE DEF x
  <1>17. Thrown(old.p, f) => InOrder(e)
    <2>1. \A j \in DOMAIN old.p : old.p[j].id = old.id /\ (~old.p[j].more => old.last)
      BY <1>6 DEF InOrder
    <2>2. ASSUME Thrown(old.p, f), Simple PROVE EndHeld(e)
      <3>1. CASE f.more
        <4>1. EndHeld(old)
          BY <1>6, <2>2 DEF InOrder
        <4> QED
          BY <1>14, <3>1, <4>1 DEF EndHeld
      <3>2. CASE ~f.more
        <4>1. EndsOnce(Fragments) /\ \A j \in DOMAIN old.p : old.p[j].id = f.id
          BY <1>7, <2>1, <2>2 DEF Simple
        <4>2. \E j \in DOMAIN old.p : ~old.p[j].more /\ old.p[j].end = f.end
          BY <1>5, <1>9, <2>2, <3>2, <4>1, ThrownEnds
        <4> QED
          BY <1>14, <3>2, <4>2 DEF EndHeld
      <3> QED
        BY <3>1, <3>2
    <2> QED
      BY <1>9, <1>14, <2>1, <2>2 DEF InOrder, Sorted
  <1>21. ToSet(old.p) \subseteq ToSet(p)
    <2>1. ASSUME NEW j \in DOMAIN old.p PROVE \E l \in DOMAIN p : p[l] = old.p[j]
      <3>1. j \in 1 .. Len(old.p) /\ Len(old.p) \in Nat
        BY <1>5
      <3>2. CASE j < i
        <4>1. j \in 1 .. Len(old.p) + 1
          BY <3>1
        <4> QED
          BY <1>11, <3>2, <4>1
      <3>3. CASE ~(j < i)
        <4>1. j + 1 \in 1 .. Len(old.p) + 1 /\ ~(j + 1 < i) /\ j + 1 # i /\ j + 1 - 1 = j
          BY <1>10, <3>1, <3>3
        <4> QED
          BY <1>11, <4>1
      <3> QED
        BY <3>2, <3>3
    <2> QED
      BY <2>1 DEF ToSet
  <1>18. ~Thrown(old.p, f) => InOrder(x)
    <2>1. ASSUME NEW j \in DOMAIN p PROVE p[j].id = x.id /\ (~p[j].more => x.last)
      <3>1. \A l \in DOMAIN old.p : old.p[l].id = old.id /\ (~old.p[l].more => old.last)
        BY <1>6 DEF InOrder
      <3>2. p[j] = f \/ \E l \in DOMAIN old.p : p[j] = old.p[l]
        BY <1>10, <1>11
      <3> QED
        BY <1>7, <1>8, <1>14, <1>15, <3>1, <3>2
    <2>2. ASSUME Simple PROVE EndHeld(x)
      <3>1. CASE f.more
        <4>1. EndHeld(old)
          BY <1>6, <2>2 DEF InOrder
        <4>2. \A j \in DOMAIN old.p : \E l \in DOMAIN p : p[l] = old.p[j]
          BY <1>21 DEF ToSet
        <4>3. x.last = old.last /\ x.len = old.len
          <5>1. e.last = old.last /\ e.len = old.len
            BY <1>5, <1>14, <3>1 DEF Datagrams
          <5> QED
            BY <1>15, <5>1
        <4>4. ASSUME x.last
              PROVE  \E l \in DOMAIN p : ~p[l].more /\ p[l].end = x.len
          <5>1. PICK j \in DOMAIN old.p : ~old.p[j].more /\ old.p[j].end = old.len
            BY <4>1, <4>3, <4>4 DEF EndHeld
          <5>2. PICK l \in DOMAIN p : p[l] = old.p[j]
            BY <4>2
          <5> QED
            BY <4>3, <5>1, <5>2
        <4>5. x.p = p
          BY <1>15
        <4> QED
          BY <4>4, <4>5 DEF EndHeld
      <3>2. CASE ~f.more
        <4>1. i \in DOMAIN p /\ p[i] = f
          BY <1>10, <1>11
        <4> QED
          BY <1>14, <1>15, <3>2, <4>1 DEF EndHeld
      <3> QED
        BY <3>1, <3>2
    <2> QED
      BY <1>13, <1>15, <2>1, <2>2 DEF InOrder, Sorted
  <1>19. CASE Thrown(old.p, f)
    <2> DEFINE new == Put(st, d, e, st.count)
    <2>1. /\ new \in States /\ new = [st EXCEPT !.data[d] = e] /\ new.count = st.count
          /\ \A g \in Elements : new.data[g] = IF g = d THEN e ELSE st.data[g]
      BY <1>2, <1>3, <1>14, PutIs
    <2>2. DataOK(new) /\ Lists(new, list, pool)
      <3>1. e.id = st.data[d].id /\ e.id # NULL
        BY <1>7, <1>14 DEF old
      <3>2. st.count + Clen(st.data[d].p) = st.count + Clen(e.p)
        BY <1>14 DEF old
      <3> QED
        BY <1>2, <1>3, <1>14, <1>17, <1>19, <3>1, <3>2, PutKeeps
    <2> HIDE DEF new
    <2>3. Good(new) /\ Apart(new)
      BY <1>2, <2>1, <2>2, ListsAre DEF Good, Sound
    <2>4. ToSet(st.data[d].p) \subseteq ToSet(new.data[d].p)
      BY <1>3, <1>14, <2>1 DEF old
    <2> QED
      <3>1. new = flagged
        BY <2>1 DEF flagged
      <3> QED
        BY <1>1, <1>19, <2>3, <2>4, <3>1, NothingIs DEF Kept, d
  <1>20. ASSUME ~Thrown(old.p, f)
         PROVE  \E new \in States :
                  /\ new = kept /\ DataOK(new) /\ Lists(new, list, pool)
                  /\ new.count = st.count + f.clen
                  /\ \A g \in Elements : new.data[g] = IF g = d THEN x ELSE st.data[g]
    <2>1. st.count + f.clen \in Int
      BY <1>2, <1>8
    <2> DEFINE new == Put(st, d, x, st.count + f.clen)
    <2>2. /\ new \in States /\ new.count = st.count + f.clen
          /\ \A g \in Elements : new.data[g] = IF g = d THEN x ELSE st.data[g]
      BY <1>2, <1>3, <1>15, <2>1, PutIs
    <2>3. DataOK(new) /\ Lists(new, list, pool)
      <3>1. x.id = st.data[d].id /\ x.id # NULL
        BY <1>7, <1>15 DEF old
      <3>2. st.count + f.clen + Clen(st.data[d].p) = st.count + Clen(x.p)
        <4>1. Clen(st.data[d].p) = Clen(old.p) /\ Clen(x.p) = Clen(old.p) + f.clen
          BY <1>12, <1>15 DEF old
        <4> QED
          BY <1>2, <1>5, <1>8, <4>1
      <3> QED
        BY <1>2, <1>3, <1>15, <1>18, <1>20, <2>1, <3>1, <3>2, PutKeeps
    <2>4. new = kept
      BY <1>16 DEF Put
    <2> HIDE DEF new
    <2> QED
      BY <2>2, <2>3, <2>4
  <1>22. CASE ~Thrown(old.p, f) /\ ~(e.last /\ Valid(old.p, f))
    <2>1. PICK new \in States :
            /\ new = kept /\ DataOK(new) /\ Lists(new, list, pool)
            /\ new.count = st.count + f.clen
            /\ \A g \in Elements : new.data[g] = IF g = d THEN x ELSE st.data[g]
      BY <1>20, <1>22
    <2>2. Good(new) /\ Apart(new)
      BY <2>1, ListsAre DEF Good, Sound
    <2>3. ToSet(st.data[d].p) \subseteq ToSet(new.data[d].p)
      BY <1>3, <1>15, <1>21, <2>1 DEF old
    <2> QED
      BY <1>1, <1>22, <2>1, <2>2, <2>3, NothingIs DEF Kept, d
  <1>23. CASE ~Thrown(old.p, f) /\ e.last /\ Valid(old.p, f)
    <2>1. PICK mid \in States :
            /\ mid = kept /\ DataOK(mid) /\ Lists(mid, list, pool)
            /\ mid.count = st.count + f.clen
            /\ \A g \in Elements : mid.data[g] = IF g = d THEN x ELSE st.data[g]
      BY <1>20, <1>23
    <2> DEFINE new == FreeDatagram(mid, d, prev)
               deq == Dequeue(mid, d, prev)
    <2>2. new = done
      <3>1. mid.data[d].p = p
        BY <1>3, <1>15, <2>1
      <3> QED
        BY <2>1, <3>1 DEF FreeDatagram, done
    <2>3. /\ new \in States /\ DataOK(new) /\ new.count <= mid.count
          /\ new.count = mid.count - Clen(mid.data[d].p)
          /\ new.head = deq.head /\ new.free = deq.free /\ new.next = deq.next
          /\ new.data = deq.data
      <3>1. DataOK(new) /\ new.count <= mid.count
        BY <1>3, <2>1, FreeKeeps
      <3>2. /\ new \in States
            /\ new.count = mid.count - Clen(mid.data[d].p)
            /\ new.head = deq.head /\ new.free = deq.free /\ new.next = deq.next
            /\ new.data = deq.data
        BY <1>3, <2>1, FreeIs
      <3> QED
        BY <3>1, <3>2
    <2>4. Lists(deq, Without(list, k), Push(list[k], pool))
      BY <1>4, <2>1, DequeueRight DEF d
    <2> HIDE DEF deq, new
    <2>5. Lists(new, Without(list, k), Push(list[k], pool))
      BY <2>3, <2>4, SameLists
    <2>6. new.count <= MaxPbufs
      <3>1. new.count \in Int /\ mid.count \in Int /\ mid.count <= MaxPbufs /\ MaxPbufs \in Int
        BY <2>1, <2>3, Constants DEF States
      <3> QED
        BY <2>3, <3>1
    <2>7. Good(new) /\ Apart(new)
      BY <2>3, <2>5, <2>6, ListsAre DEF Good, Sound
    <2>8. Delivers(<<p, e.len>>) /\ <<p, e.len>>[1] = p
      <3>1. /\ <<p, e.len>> \in Seq(Fragments) \X Nat
            /\ <<p, e.len>>[1] = p /\ <<p, e.len>>[2] = e.len
        BY <1>11, <1>14
      <3>2. ASSUME Simple PROVE Whole(p, e.len)
        <4>1. \E j \in DOMAIN p : ~p[j].more /\ p[j].end = e.len
          BY <1>15, <1>18, <1>23, <3>2 DEF InOrder, EndHeld
        <4>2. \A j \in DOMAIN old.p : old.p[j].id = f.id
          BY <1>6, <1>7 DEF InOrder
        <4>3. p = InsertAt(old.p, Place(old.p, f.start), f)
          BY DEF p, i
        <4> HIDE DEF p, i
        <4> QED
          BY <1>5, <1>9, <1>23, <3>2, <4>1, <4>2, <4>3, ValidWhole
      <3> QED
        BY <3>1, <3>2 DEF Delivers
    <2>9. Return(new, <<p, e.len>>)
      BY <1>1, <1>23, <2>2
    <2>10. ToSet(st.data[d].p) \subseteq ToSet(<<p, e.len>>[1])
      BY <1>21, <2>8 DEF old
    <2> QED
      BY <2>7, <2>8, <2>9, <2>10 DEF Kept, d
  <1> QED
    BY <1>19, <1>22, <1>23

LEMMA ReducedKeeps ==
  ASSUME NEW st, Good(st), NEW id, NEW new \in Reduced(st, id)
  PROVE  Good(new) /\ \A d \in Elements : st.data[d].id = id => new.data[d] = st.data[d]
  <1>1. st.count \in Int /\ new.count \in Int /\ MaxPbufs \in Int
    BY Constants DEF Good, Reduced, States
  <1>2. new \in States /\ new.count <= st.count /\ st.count <= MaxPbufs
    BY DEF Good, Reduced
  <1>3. new.count <= MaxPbufs
    BY <1>1, <1>2
  <1> QED
    BY <1>3 DEF Good, Reduced

(* A fragment loses nothing of its own datagram. *)
LEMMA ReassKeeps ==
  ASSUME Good(State), Apart(State), NEW f \in Fragments, Reass(f)
  PROVE  Kept(State, {d \in Elements : data[d].id = f.id}, Loose(State, f.id))
  <1> DEFINE room == IF count + f.clen > MaxPbufs
                     THEN RemoveOldest(State, f.id, f.clen) ELSE State
             Own(s) == {d \in ToSet(Listed(s)) : s.data[d].id = f.id}
             st == IF Own(room) # {} THEN room ELSE EnqueueNew(room, f)
             own == CHOOSE d \in Own(st) : TRUE
             S == {d \in Elements : data[d].id = f.id}
  <1>1. /\ room.count + f.clen > MaxPbufs \/ ~Apart(room) => Return(room, Nothing)
        /\ ~(room.count + f.clen > MaxPbufs \/ ~Apart(room)) /\ (Own(st) = {} \/ ~Apart(st))
             => Return(st, Nothing)
        /\ ~(room.count + f.clen > MaxPbufs \/ ~Apart(room)) /\ ~(Own(st) = {} \/ ~Apart(st))
             => Accept(st, f, own)
    BY DEF Reass
  <1>2. f.id \in Ids /\ f.id # NULL /\ f.clen \in Nat
    BY FragmentIs, Constants
  <1>3. State.count = count /\ State.data = data
    BY DEF State
  <1> DEFINE old == State
  <1>4. Good(old) /\ old \in States /\ old.data = data /\ Apart(old)
    BY <1>3 DEF Good
  <1> HIDE DEF old
  <1>5. room \in Reduced(old, f.id)
    <2>1. CASE count + f.clen > MaxPbufs
      BY <1>4, <2>1, RemoveOldestKeeps DEF Good, old
    <2>2. CASE ~(count + f.clen > MaxPbufs)
      <3>1. room = old
        BY <2>2 DEF old
      <3>2. old.count <= old.count
        BY <1>4 DEF States
      <3> HIDE DEF room
      <3> QED
        BY <1>4, <3>1, <3>2 DEF Reduced, Good
    <2> QED
      BY <2>1, <2>2
  <1> HIDE DEF room
  <1>6. Good(room) /\ \A d \in S : room.data[d] = data[d]
    BY <1>4, <1>5, ReducedKeeps
  <1>12. /\ Apart(room) => Inner(Listed(room)) \subseteq Inner(Listed(old))
         /\ ~Apart(room) => room.free \in Loose(old, f.id)
    BY <1>5 DEF Reduced
  <1>7. room \in States /\ DataOK(room) /\ Sound(room) /\ room.count \in Int
    BY <1>6 DEF Good, States
  <1>8. CASE room.count + f.clen > MaxPbufs \/ ~Apart(room)
    <2>1. Return(room, Nothing)
      BY <1>1, <1>8
    <2>2. \A d \in S : ToSet(old.data[d].p) \subseteq ToSet(room.data[d].p)
      BY <1>4, <1>6
    <2> QED
      BY <1>6, <1>12, <2>1, <2>2, NothingIs DEF Kept, old
  <1>9. ASSUME ~(room.count + f.clen > MaxPbufs \/ ~Apart(room))
        PROVE  /\ Good(st) /\ st.count + f.clen <= MaxPbufs
               /\ \A d \in S : st.data[d] = data[d]
               /\ ~Apart(st) => st.free \in Loose(old, f.id)
    <2>1. room.count + f.clen <= MaxPbufs /\ MaxPbufs \in Nat
      BY <1>2, <1>7, <1>9, Constants
    <2>2. CASE Own(room) # {}
      BY <1>6, <1>9, <2>1, <2>2
    <2>3. CASE Own(room) = {}
      <3>1. PICK list, pool : Lists(room, list, pool)
        BY <1>7, <1>9 DEF Sound
      <3>2. Listed(room) = list
        BY <1>7, <3>1, ListsAre
      <3>3. ASSUME NEW d \in Elements, room.data[d].id = f.id PROVE FALSE
        <4>1. \E i \in DOMAIN list : list[i] = d
          BY <1>2, <3>1, <3>3 DEF Lists
        <4>2. d \in Own(room)
          BY <3>2, <3>3, <4>1 DEF ToSet
        <4> QED
          BY <2>3, <4>2
      <3>4. S = {}
        <4>1. ASSUME NEW d \in S PROVE FALSE
          <5>1. d \in Elements /\ room.data[d].id = f.id
            BY <1>6
          <5> QED
            BY <3>3, <5>1
        <4> QED
          BY <4>1
      <3>5. st = EnqueueNew(room, f)
        BY <2>3
      <3>9. \A d \in Elements : old.data[d].id # f.id
        BY <1>4, <3>4
      <3> HIDE DEF st, Own, S
      <3>6. /\ st \in States /\ DataOK(st) /\ Sound(st) /\ st.count <= room.count
            /\ ~Apart(st) => st.free \in Loose(room, f.id)
        BY <1>7, <1>9, <3>3, <3>5, EnqueueKeeps
      <3>10. Loose(room, f.id) \subseteq Loose(old, f.id)
        BY <1>4, <1>9, <1>12, <3>9, InnerType DEF Loose
      <3>7. st.count \in Int
        BY <3>6 DEF States
      <3>8. st.count + f.clen <= MaxPbufs /\ st.count <= MaxPbufs
        BY <1>2, <1>7, <2>1, <3>6, <3>7
      <3> QED
        BY <3>4, <3>6, <3>8, <3>10 DEF Good
    <2> QED
      BY <2>2, <2>3
  <1>10. CASE /\ ~(room.count + f.clen > MaxPbufs \/ ~Apart(room))
              /\ Own(st) = {} \/ ~Apart(st)
    <2>1. Return(st, Nothing)
      BY <1>1, <1>10
    <2>2. /\ Good(st) /\ \A d \in S : ToSet(old.data[d].p) \subseteq ToSet(st.data[d].p)
          /\ ~Apart(st) => st.free \in Loose(old, f.id)
      BY <1>4, <1>9, <1>10
    <2> HIDE DEF st, S
    <2> QED
      BY <2>1, <2>2, NothingIs DEF Kept, old, S
  <1>11. CASE /\ ~(room.count + f.clen > MaxPbufs \/ ~Apart(room))
              /\ ~(Own(st) = {} \/ ~Apart(st))
    <2>1. own \in Own(st)
      BY <1>11
    <2>2. /\ Good(st) /\ st.count + f.clen <= MaxPbufs
          /\ \A d \in S : st.data[d] = data[d]
      BY <1>9, <1>11
    <2>3. Accept(st, f, own) /\ Apart(st)
      BY <1>1, <1>11
    <2>4. own \in ToSet(Listed(st)) /\ st.data[own].id = f.id
      BY <2>1
    <2> HIDE DEF st, own, Own
    <2>5. PICK list, pool : Lists(st, list, pool)
      BY <2>2, <2>3 DEF Good, Sound
    <2>6. Listed(st) = list /\ \A i \in DOMAIN list : list[i] \in Elements
      BY <2>2, <2>5, ListsAre DEF Good
    <2>7. PICK k \in DOMAIN list : list[k] = own
      BY <2>4, <2>6 DEF ToSet
    <2>8. Kept(st, {list[k]}, {})
      <3>1. st.data[list[k]].id = f.id /\ Accept(st, f, list[k])
        BY <2>3, <2>4, <2>7
      <3> QED
        BY <2>2, <2>5, <3>1, AcceptKeeps
    <2>9. PICK new, result :
            /\ Good(new) /\ Delivers(result) /\ Return(new, result) /\ Apart(new)
            /\ \A d \in {own} : ToSet(st.data[d].p) \subseteq ToSet(new.data[d].p) \cup ToSet(result[1])
      BY <2>7, <2>8 DEF Kept
    <2>10. ASSUME NEW d \in S
           PROVE  ToSet(old.data[d].p) \subseteq ToSet(new.data[d].p) \cup ToSet(result[1])
      <3>1. d \in Elements /\ st.data[d] = data[d] /\ data[d].id = f.id
        BY <2>2
      <3>2. own \in Elements
        BY <2>6, <2>7
      <3>3. d = own
        BY <1>2, <2>2, <2>4, <3>1, <3>2 DEF Good, DataOK
      <3> QED
        BY <1>4, <2>9, <3>1, <3>3
    <2> QED
      BY <2>9, <2>10 DEF Kept, old
  <1> QED
    BY <1>8, <1>10, <1>11

-----------------------------------------------------------------------------
(***************************************************************************)
(* The timer.                                                              *)
(***************************************************************************)
LEMMA TimerRuns ==
  ASSUME NEW st \in States, NEW d \in Elements, st.data[d].timer > 0
  PROVE  \E x \in Datagrams :
           /\ x.p = st.data[d].p /\ x.id = st.data[d].id /\ x.last = st.data[d].last
           /\ x.len = st.data[d].len
           /\ Aged(st, d) = Put(st, d, x, st.count)
  <1> DEFINE old == st.data[d]
             x == [old EXCEPT !.timer = @ - 1]
  <1>1. old \in Datagrams /\ st.count \in Int
    BY DataType DEF States
  <1>2. Aged(st, d) = [st EXCEPT !.data[d] = x]
    <2>1. Aged(st, d) = [st EXCEPT !.data[d].timer = @ - 1]
      BY DEF Aged
    <2>2. st.data \in [Elements -> Datagrams]
      BY DEF States
    <2> QED
      BY <2>1, <2>2
  <1> HIDE DEF old
  <1>3. /\ old = [id |-> old.id, p |-> old.p, last |-> old.last, len |-> old.len,
                  timer |-> old.timer]
        /\ old.timer \in 0 .. MaxAge
    BY <1>1 DEF Datagrams
  <1>4. old.timer - 1 \in 0 .. MaxAge
    <2>1. old.timer > 0
      BY DEF old
    <2> QED
      BY <1>3, <2>1, Constants
  <1>5. x = [id |-> old.id, p |-> old.p, last |-> old.last, len |-> old.len,
             timer |-> old.timer - 1]
    BY <1>3
  <1> HIDE DEF x
  <1>6. /\ x \in Datagrams /\ x.p = old.p /\ x.id = old.id /\ x.last = old.last
        /\ x.len = old.len
    BY <1>1, <1>4, <1>5 DEF Datagrams
  <1>7. Put(st, d, x, st.count) = [st EXCEPT !.data[d] = x]
    <2> DEFINE n == st.count
    <2>1. n \in Int /\ x \in Datagrams /\ st \in States /\ d \in Elements
      BY <1>1, <1>6
    <2>2. n = st.count
      OBVIOUS
    <2> HIDE DEF n
    <2>3. Put(st, d, x, n) = [st EXCEPT !.data[d] = x]
      BY <2>1, <2>2, PutIs
    <2> QED
      BY <2>3 DEF n
  <1> QED
    BY <1>2, <1>6, <1>7 DEF old

LEMMA AgedType ==
  ASSUME NEW st \in States, NEW d \in Elements
  PROVE  Aged(st, d) \in States
  <1>1. CASE st.data[d].timer > 0
    <2>1. PICK x \in Datagrams : Aged(st, d) = Put(st, d, x, st.count)
      BY <1>1, TimerRuns
    <2>2. st.count \in Int
      BY DEF States
    <2> QED
      BY <2>1, <2>2, PutIs
  <1>2. CASE ~(st.data[d].timer > 0)
    <2>1. Aged(st, d) = FreeDatagram(st, d, Before(st, d))
      BY <1>2 DEF Aged
    <2> QED
      BY <2>1, FreeIs
  <1> QED
    BY <1>1, <1>2

(* A datagram of the list gets older or is given up, no other one changes. *)
LEMMA AgedKeeps ==
  ASSUME NEW st \in States, DataOK(st), NEW list, NEW pool, Lists(st, list, pool),
         NEW k \in DOMAIN list
  PROVE  /\ DataOK(Aged(st, list[k])) /\ Aged(st, list[k]).count <= st.count
         /\ \E l, q : Lists(Aged(st, list[k]), l, q)
         /\ \A e \in Elements \ {list[k]} : Aged(st, list[k]).data[e] = st.data[e]
  <1> DEFINE d == list[k]
  <1>1. d \in Elements
    BY ListsAre
  <1>2. st.count \in Int /\ st.count <= st.count
    BY DEF States
  <1>3. st.data[d].id # NULL
    BY <1>1 DEF Lists
  <1>4. CASE st.data[d].timer > 0
    <2> HIDE DEF d
    <2>1. PICK x \in Datagrams :
            /\ x.p = st.data[d].p /\ x.id = st.data[d].id /\ x.last = st.data[d].last
            /\ x.len = st.data[d].len
            /\ Aged(st, d) = Put(st, d, x, st.count)
      BY <1>1, <1>4, TimerRuns
    <2>2. InOrder(x)
      <3>1. InOrder(st.data[d])
        BY <1>1 DEF DataOK
      <3> QED
        BY <2>1, <3>1 DEF InOrder, EndHeld
    <2>3. x.id # NULL /\ st.count + Clen(st.data[d].p) = st.count + Clen(x.p)
      BY <1>3, <2>1
    <2>4. DataOK(Put(st, d, x, st.count)) /\ Lists(Put(st, d, x, st.count), list, pool)
      BY <1>1, <1>2, <2>1, <2>2, <2>3, PutKeeps
    <2>5. /\ Put(st, d, x, st.count).count = st.count
          /\ \A e \in Elements :
               Put(st, d, x, st.count).data[e] = IF e = d THEN x ELSE st.data[e]
      BY <1>1, <1>2, PutIs
    <2> QED
      BY <1>2, <2>1, <2>4, <2>5 DEF d
  <1>5. CASE ~(st.data[d].timer > 0)
    <2> DEFINE prev == Before(st, d)
               new == FreeDatagram(st, d, prev)
               deq == Dequeue(st, d, prev)
    <2>1. Aged(st, d) = new
      BY <1>5 DEF Aged
    <2>2. prev = At(list, k - 1)
      BY BeforeIs
    <2>3. Lists(deq, Without(list, k), Push(list[k], pool))
      BY <2>2, DequeueRight
    <2>4. /\ new.head = deq.head /\ new.free = deq.free /\ new.next = deq.next
          /\ new.data = deq.data
      BY <1>1, FreeIs
    <2>5. /\ DataOK(new) /\ new.count <= st.count
          /\ \A e \in Elements : new.data[e] = IF e = d THEN NoData ELSE st.data[e]
      BY <1>1, FreeKeeps
    <2> HIDE DEF new, deq, prev
    <2>6. Lists(new, Without(list, k), Push(list[k], pool))
      BY <2>3, <2>4, SameLists
    <2> QED
      BY <2>1, <2>5, <2>6
  <1> QED
    BY <1>4, <1>5

LEMMA AllAgedKeeps ==
  ASSUME NEW st, Good(st), Apart(st)
  PROVE  Good(AllAged(st)) /\ Apart(AllAged(st))
  <1>1. st \in States /\ DataOK(st) /\ st.count <= MaxPbufs /\ st.count \in Int
    BY DEF Good, States
  <1>2. PICK list, pool : Lists(st, list, pool)
    BY DEF Good, Sound
  <1>3. /\ Listed(st) = list /\ DOMAIN list = 1 .. Len(list) /\ Len(list) \in Nat
        /\ \A i \in DOMAIN list : list[i] \in Elements
    BY <1>1, <1>2, ListsAre
  <1> DEFINE n == Len(list)
             Step(g) == [i \in 0 .. n |-> IF i = 0 THEN st ELSE Aged(g[i - 1], list[i])]
             r == CHOOSE g : g = Step(g)
             f == [i \in Nat |-> [s \in States |->
                     IF i \in 1 .. n THEN Aged(s, list[i]) ELSE s]]
  <1>4. AllAged(st) = r[n]
    BY <1>3 DEF AllAged
  <1>5. f \in Loops(States)
    <2>1. \A i \in Nat, s \in States :
            (IF i \in 1 .. n THEN Aged(s, list[i]) ELSE s) \in States
      BY <1>3, AgedType
    <2> QED
      BY <2>1 DEF Loops
  <1>6. n \in Nat
    BY <1>3
  <1>7. PICK c \in [0 .. n -> States] :
          c[0] = st /\ \A i \in 1 .. n : c[i] = f[i][c[i - 1]]
    <2> HIDE DEF f, n
    <2>1. Runs(States, st, n, f) # {}
      BY <1>1, <1>5, <1>6, Iterated
    <2> QED
      BY <2>1 DEF Runs
  <1> HIDE DEF n
  <1>8. c = Step(c)
    <2>1. ASSUME NEW i \in 0 .. n, i # 0 PROVE c[i] = Aged(c[i - 1], list[i])
      <3>1. i \in 1 .. n /\ i \in Nat /\ i - 1 \in 0 .. n
        BY <1>6, <2>1
      <3>2. c[i - 1] \in States /\ c[i] = f[i][c[i - 1]]
        BY <1>7, <3>1
      <3> QED
        BY <3>1, <3>2
    <2>2. c = [i \in 0 .. n |-> c[i]]
      BY <1>7
    <2>3. \A i \in 0 .. n : c[i] = IF i = 0 THEN st ELSE Aged(c[i - 1], list[i])
      BY <1>7, <2>1
    <2> HIDE DEF f
    <2> QED
      BY <2>2, <2>3
  <1>9. r = Step(r)
    <2> HIDE DEF Step, f
    <2> QED
      BY <1>8
  <1> HIDE DEF r, f
  <1> DEFINE Fine(i, s) == /\ s \in States /\ DataOK(s) /\ s.count <= st.count
                           /\ \E l, q : Lists(s, l, q)
                           /\ \A j \in 1 .. n : i < j => s.data[list[j]].id # NULL
             P == {i \in 0 .. n : Fine(i, r[i])}
  <1>10. 0 \in P
    <2>1. 0 \in 0 .. n
      BY <1>6
    <2>2. r[0] = st
      BY <1>9, <2>1
    <2>3. \A j \in 1 .. n : st.data[list[j]].id # NULL
      BY <1>2, <1>3 DEF Lists, n
    <2>4. st.count <= st.count
      BY <1>1
    <2> QED
      BY <1>1, <1>2, <2>1, <2>2, <2>3, <2>4
  <1>11. ASSUME NEW i \in 1 .. n, i - 1 \in P PROVE i \in P
    <2>1. i \in 0 .. n /\ i # 0
      BY <1>6
    <2>2. r[i] = Aged(r[i - 1], list[i])
      BY <1>9, <2>1
    <2> DEFINE s == r[i - 1]
               d == list[i]
    <2>3. /\ s \in States /\ DataOK(s) /\ s.count <= st.count
          /\ \E l, q : Lists(s, l, q)
          /\ \A j \in 1 .. n : i - 1 < j => s.data[list[j]].id # NULL
      BY <1>11
    <2>4. d \in Elements
      BY <1>3 DEF n
    <2>5. s.data[d].id # NULL
      <3>1. i - 1 < i
        BY <1>6
      <3> QED
        BY <2>3, <3>1
    <2>6. \A j \in 1 .. n : i < j => list[j] \in Elements \ {d} /\ s.data[list[j]].id # NULL
      <3>1. ASSUME NEW j \in 1 .. n, i < j
            PROVE  list[j] \in Elements \ {d} /\ s.data[list[j]].id # NULL
        <4>1. i # j /\ i - 1 < j
          BY <1>6, <3>1
        <4>2. list[j] # list[i] /\ list[j] \in Elements
          BY <1>2, <1>3, <4>1 DEF Lists, Linked, Distinct, n
        <4> QED
          BY <2>3, <4>1, <4>2
      <3> QED
        BY <3>1
    <2> HIDE DEF s, d
    <2>7. PICK l, q : Lists(s, l, q)
      BY <2>3
    <2>8. PICK k \in DOMAIN l : l[k] = d
      BY <2>4, <2>5, <2>7 DEF Lists
    <2>9. Aged(s, d) \in States
      BY <2>3, <2>4, AgedType
    <2>10. /\ DataOK(Aged(s, d)) /\ Aged(s, d).count <= s.count
           /\ \E l2, q2 : Lists(Aged(s, d), l2, q2)
           /\ \A e \in Elements \ {d} : Aged(s, d).data[e] = s.data[e]
      BY <2>3, <2>7, <2>8, AgedKeeps
    <2>11. Aged(s, d).count <= st.count
      <3>1. Aged(s, d).count \in Int /\ s.count \in Int
        BY <2>3, <2>9 DEF States
      <3> QED
        BY <1>1, <2>3, <2>10, <3>1
    <2>12. Fine(i, Aged(s, d))
      BY <2>6, <2>9, <2>10, <2>11
    <2> HIDE DEF Fine
    <2> QED
      BY <2>1, <2>2, <2>12 DEF s, d
  <1>12. n \in P
    <2>1. n \in 0 .. n
      BY <1>6
    <2> HIDE DEF P
    <2> QED
      BY <1>6, <1>10, <1>11, <2>1, Along
  <1>13. /\ r[n] \in States /\ DataOK(r[n]) /\ r[n].count <= st.count
         /\ \E l, q : Lists(r[n], l, q)
    BY <1>12
  <1>14. r[n].count <= MaxPbufs
    <2>1. r[n].count \in Int /\ MaxPbufs \in Int
      BY <1>13, Constants DEF States
    <2> QED
      BY <1>1, <1>13, <2>1
  <1> QED
    BY <1>4, <1>13, <1>14, ListsAre DEF Good, Sound

-----------------------------------------------------------------------------
(***************************************************************************)
(* The invariant.                                                          *)
(***************************************************************************)
IInv == Good(State) /\ Delivers(given)

LEMMA InitSound == Init => IInv
  <1> SUFFICES ASSUME Init PROVE IInv
    OBVIOUS
  <1> DEFINE st == State
             pool == [i \in 1 .. NumReass |-> i]
  <1>1. /\ st.head = NULL /\ st.free = 1 /\ st.count = 0
        /\ st.next = [d \in Elements |-> IF d = NumReass THEN NULL ELSE d + 1]
        /\ st.data = [d \in Elements |-> NoData]
        /\ st = [head |-> st.head, free |-> st.free, next |-> st.next,
                 data |-> st.data, count |-> st.count]
    BY DEF State, Init
  <1> HIDE DEF st
  <1>2. /\ NumReass \in Nat /\ NumReass > 0 /\ MaxPbufs \in Nat
        /\ Elements = 1 .. NumReass /\ NULL \notin Elements
    BY Constants
  <1>3. st \in States
    <2>1. st.next \in [Elements -> Links]
      BY <1>1, <1>2 DEF Links
    <2>2. st.data \in [Elements -> Datagrams]
      BY <1>1, NoDataIs
    <2>3. st.head \in Links /\ st.free \in Links /\ st.count \in Int
      BY <1>1, <1>2 DEF Links
    <2> QED
      BY <1>1, <2>1, <2>2, <2>3 DEF States
  <1>4. \A d \in Elements : st.data[d] = NoData
    BY <1>1
  <1>5. DataOK(st)
    <2>1. PbufsOf(st.data, Elements) = 0
      <3>1. PICK w : Additive(Elements, Held_(st.data), w)
        BY <1>3, HeldType DEF States
      <3>2. \A d \in Elements : Held_(st.data)[d] = 0
        BY <1>4, NoDataIs, ClenType DEF Held_
      <3>3. w[{}] = w[Elements]
        <4> DEFINE v == Held_(st.data)
                   S == {}
        <4>1. IsFiniteSet(Elements) /\ S \subseteq Elements
          BY Constants
        <4>2. Additive(Elements, v, w) /\ \A d \in Elements \ S : v[d] = 0
          BY <3>1, <3>2
        <4> HIDE DEF v, S
        <4>3. w[S] = w[Elements]
          BY <4>1, <4>2, SumOfPart
        <4> QED
          BY <4>3 DEF S
      <3>4. w[{}] = 0
        BY <3>1 DEF Additive
      <3>5. PbufsOf(st.data, Elements) = w[Elements]
        BY <1>3, <3>1, PbufsIs DEF States
      <3> QED
        BY <3>3, <3>4, <3>5
    <2>2. InOrder(NoData)
      BY NoDataIs DEF InOrder, EndHeld
    <2> QED
      BY <1>1, <1>4, <2>1, <2>2, NoDataIs DEF DataOK
  <1>6. Lists(st, <<>>, pool)
    <2>1. /\ pool \in Seq(Elements) /\ DOMAIN pool = 1 .. NumReass
          /\ \A i \in 1 .. NumReass : pool[i] = i
      <3>1. pool \in [1 .. NumReass -> Elements]
        BY <1>2
      <3>2. pool \in Seq(Elements)
        BY <1>2, <3>1
      <3> QED
        BY <3>1, <3>2
    <2>2. <<>> \in Seq(Elements) /\ DOMAIN <<>> = {}
      OBVIOUS
    <2> DEFINE none == <<>>
    <2>3. none \in Seq(Elements) /\ DOMAIN none = {}
      BY <2>2
    <2> HIDE DEF none, pool
    <2>4. Linked(st.next, st.head, none)
      BY <1>1, <2>3 DEF Linked, Distinct, At
    <2>5. Linked(st.next, st.free, pool)
      <3>1. Distinct(pool)
        BY <2>1 DEF Distinct
      <3>2. 1 \in DOMAIN pool /\ pool[1] = 1
        BY <1>2, <2>1
      <3>3. ASSUME NEW i \in DOMAIN pool PROVE st.next[pool[i]] = At(pool, i + 1)
        <4>1. i \in 1 .. NumReass /\ pool[i] = i /\ i \in Elements
          BY <1>2, <2>1
        <4>2. CASE i = NumReass
          <5>1. i + 1 \notin DOMAIN pool
            BY <1>2, <2>1, <4>2
          <5> QED
            BY <1>1, <4>1, <4>2, <5>1 DEF At
        <4>3. CASE i # NumReass
          <5>1. i + 1 \in DOMAIN pool /\ pool[i + 1] = i + 1
            BY <1>2, <2>1, <4>1, <4>3
          <5> QED
            BY <1>1, <4>1, <4>3, <5>1 DEF At
        <4> QED
          BY <4>2, <4>3
      <3> QED
        BY <1>1, <2>1, <3>1, <3>2, <3>3 DEF Linked, At
    <2>6. \A d \in Elements : \E i \in DOMAIN pool : pool[i] = d
      BY <1>2, <2>1
    <2>7. Lists(st, none, pool)
      BY <1>4, <2>3, <2>4, <2>5, <2>6, NoDataIs DEF Lists
    <2> QED
      BY <2>7 DEF none
  <1>7. Good(st)
    BY <1>1, <1>2, <1>3, <1>5, <1>6 DEF Good, Sound
  <1>8. Delivers(given)
    <2>1. given = Nothing
      BY DEF Init, Nothing
    <2> QED
      BY <2>1, NothingIs
  <1> QED
    BY <1>7, <1>8 DEF IInv, st

LEMMA ReturnIs ==
  ASSUME NEW new \in States, NEW result, Return(new, result)
  PROVE  State' = new /\ given' = result /\ data' = new.data
  BY DEF Return, State, States

LEMMA KeptIs ==
  ASSUME NEW S, NEW T, Kept(State, S, T)
  PROVE  /\ IInv'
         /\ ~Apart(State)' => free' \in T
         /\ \A d \in S : ToSet(data[d].p) \subseteq ToSet(data'[d].p) \cup ToSet(given'[1])
  <1>1. PICK new, result :
          /\ Good(new) /\ Delivers(result) /\ Return(new, result)
          /\ ~Apart(new) => new.free \in T
          /\ \A d \in S : ToSet(State.data[d].p)
                            \subseteq ToSet(new.data[d].p) \cup ToSet(result[1])
    BY DEF Kept
  <1>2. State' = new /\ given' = result /\ data' = new.data /\ free' = new.free
    BY <1>1, ReturnIs DEF Good, Return
  <1>3. State.data = data
    BY DEF State
  <1>4. IInv'
    BY <1>1, <1>2 DEF IInv
  <1>5. Apart(State)' <=> Apart(new)
    BY <1>2
  <1> QED
    BY <1>1, <1>2, <1>3, <1>4, <1>5

LEMMA NextSound == IInv /\ [Next]_vars => IInv'
  <1> SUFFICES ASSUME IInv, [Next]_vars PROVE IInv'
    OBVIOUS
  <1>1. CASE Apart(State) /\ ((\E f \in Fragments : Reass(f)) \/ Tmr)
    <2>1. Apart(State) /\ Good(State)
      BY <1>1 DEF IInv
    <2>2. ASSUME NEW f \in Fragments, Reass(f) PROVE IInv'
      BY <2>1, <2>2, ReassKeeps, KeptIs
    <2>3. ASSUME Tmr PROVE IInv'
      <3>1. Return(AllAged(State), Nothing)
        BY <2>3 DEF Tmr
      <3>2. Good(AllAged(State))
        BY <2>1, AllAgedKeeps
      <3> DEFINE new == AllAged(State)
      <3> HIDE DEF new
      <3>3. new \in States /\ Good(new) /\ Return(new, Nothing)
        BY <3>1, <3>2 DEF Good, new
      <3>4. State' = new /\ given' = Nothing
        BY <3>3, ReturnIs
      <3> QED
        BY <3>3, <3>4, NothingIs DEF IInv
    <2> QED
      BY <1>1, <2>2, <2>3
  <1>2. CASE UNCHANGED vars
    <2>1. State' = State /\ given' = given
      BY <1>2 DEF vars, State
    <2> QED
      BY <2>1 DEF IInv
  <1> QED
    BY <1>1, <1>2 DEF Next, Ended

THEOREM Invariance == Spec => []IInv
  BY InitSound, NextSound, PTL DEF Spec

(***************************************************************************)
(* Type correctness, also where an element of the list is free.            *)
(***************************************************************************)
THEOREM TypeCorrect == Spec => []TypeOK
  <1>1. IInv => TypeOK
    <2> SUFFICES ASSUME IInv PROVE TypeOK
      OBVIOUS
    <2>1. /\ head \in Links /\ free \in Links /\ next \in [Elements -> Links]
          /\ data \in [Elements -> Datagrams]
      BY DEF IInv, Good, States, State
    <2>2. count = PbufsOf(data, Elements)
      BY DEF IInv, Good, DataOK, State
    <2>3. PbufsOf(data, Elements) \in Nat
      <3>1. 1 \in Elements
        BY Constants
      <3> QED
        BY <2>1, <3>1, PbufsChange
    <2> QED
      BY <2>1, <2>2, <2>3 DEF TypeOK, Links, Datagrams, IInv, Delivers
  <1> QED
    BY <1>1, Invariance, PTL

-----------------------------------------------------------------------------
LEMMA SoundIs ==
  ASSUME IInv
  PROVE  PbufsCounted /\ ListSound
  <1>0. count <= MaxPbufs
    BY DEF IInv, Good, State
  <1> SUFFICES ASSUME Apart(State) PROVE PbufsCounted /\ ListSound
    BY <1>0 DEF PbufsCounted, ListSound
  <1>1. State \in States /\ DataOK(State) /\ Sound(State) /\ count <= MaxPbufs
    BY DEF IInv, Good, State
  <1>2. PICK list, pool : Lists(State, list, pool)
    BY <1>1 DEF Sound
  <1>3. /\ Listed(State) = list /\ Pool(State) = pool /\ Apart(State)
        /\ \A i \in DOMAIN list : list[i] \in Elements
        /\ \A i \in DOMAIN pool : pool[i] \in Elements
    BY <1>1, <1>2, ListsAre
  <1>4. State.data = data /\ State.count = count
    BY DEF State
  <1> DEFINE L == ToSet(Listed(State))
  <1>5. \A d \in Elements : d \in L <=> data[d].id # NULL
    BY <1>2, <1>3, <1>4 DEF Lists, ToSet
  <1>6. L \in SUBSET Elements /\ ToSet(Pool(State)) \subseteq Elements
    BY <1>3 DEF ToSet
  <1> HIDE DEF L
  <1>7. PbufsCounted
    <2>1. \A d \in Elements \ L : data[d].p = <<>>
      BY <1>1, <1>4, <1>5, NoDataIs DEF DataOK
    <2>2. PbufsOf(data, L) = PbufsOf(data, Elements)
      BY <1>1, <1>4, <1>6, <2>1, PbufsOnList DEF States
    <2>3. count = PbufsOf(data, L)
      BY <1>1, <1>4, <2>2 DEF DataOK
    <2> QED
      BY <1>1, <2>3 DEF PbufsCounted, PbufsOf, L
  <1>8. ListSound
    <2>1. \A d \in Elements : d \in L \/ d \in ToSet(Pool(State))
      BY <1>2, <1>3 DEF Lists, ToSet, L
    <2>2. L \cup ToSet(Pool(State)) = Elements
      BY <1>6, <2>1
    <2>3. \A d, e \in L : data[d].id = data[e].id => d = e
      BY <1>1, <1>4, <1>5, <1>6 DEF DataOK
    <2> QED
      BY <1>3, <2>2, <2>3 DEF ListSound, L
  <1> QED
    BY <1>7, <1>8

(***************************************************************************)
(* However many datagrams are reassembled at a time: the limit on pbufs is *)
(* never exceeded, and until the list breaks the count is that of the      *)
(* pbufs held.                                                             *)
(***************************************************************************)
THEOREM CountExact == Spec => []PbufsCounted
  <1>1. IInv => PbufsCounted
    BY SoundIs
  <1> QED
    BY <1>1, Invariance, PTL

(***************************************************************************)
(* Until it breaks every element is on the list or free, and no two of the *)
(* list are the same datagram.                                             *)
(***************************************************************************)
THEOREM ListExact == Spec => []ListSound
  <1>1. IInv => ListSound
    BY SoundIs
  <1> QED
    BY <1>1, Invariance, PTL

(***************************************************************************)
(* The list breaks only where a datagram that is neither the first nor the *)
(* last is given up for a fragment of another one.                         *)
(***************************************************************************)
THEOREM BreaksThereOnly == Spec => BreaksInTheMiddle
  <1> DEFINE A == ~Apart(State)' =>
                    \E f \in Fragments, i \in 2 .. Len(Listed(State)) - 1 :
                      /\ Reass(f) /\ data[Listed(State)[i]].id # f.id
                      /\ free' = Listed(State)[i]
  <1>1. IInv /\ [Next]_vars => [A]_vars
    <2> SUFFICES ASSUME IInv, Apart(State), ~Apart(State)',
                        (\E f \in Fragments : Reass(f)) \/ Tmr
                 PROVE  \E f \in Fragments, i \in 2 .. Len(Listed(State)) - 1 :
                          /\ Reass(f) /\ data[Listed(State)[i]].id # f.id
                          /\ free' = Listed(State)[i]
      BY DEF Next, Ended
    <2>1. Good(State)
      BY DEF IInv
    <2>2. CASE Tmr
      <3> DEFINE new == AllAged(State)
      <3>1. Good(new) /\ Apart(new)
        BY <2>1, AllAgedKeeps
      <3>2. Return(new, Nothing)
        BY <2>2 DEF Tmr
      <3> HIDE DEF new
      <3>3. State' = new
        BY <3>1, <3>2, ReturnIs DEF Good
      <3> QED
        BY <3>1, <3>3
    <2>3. ASSUME NEW f \in Fragments, Reass(f)
          PROVE  \E i \in 2 .. Len(Listed(State)) - 1 :
                   data[Listed(State)[i]].id # f.id /\ free' = Listed(State)[i]
      <3> DEFINE S == {d \in Elements : data[d].id = f.id}
      <3>1. Kept(State, S, Loose(State, f.id))
        BY <2>1, <2>3, ReassKeeps
      <3> HIDE DEF S
      <3>2. free' \in Loose(State, f.id)
        BY <3>1, KeptIs
      <3>3. State.data = data
        BY DEF State
      <3> QED
        BY <3>2, <3>3 DEF Loose, Inner
    <2> QED
      BY <2>2, <2>3
  <1> QED
    BY <1>1, Invariance, PTL DEF Spec, BreaksInTheMiddle

(***************************************************************************)
(* What is delivered is whole, for datagrams in up to three fragments, or  *)
(* any others with no room for a missing one before two that adjoin.       *)
(***************************************************************************)
THEOREM DeliveredWhole ==
  ASSUME EndsOnce(Fragments), NoneBetween(Fragments)
  PROVE  Spec => []CompleteIsWhole
  <1>1. IInv => CompleteIsWhole
    BY DEF IInv, Delivers, Simple, Whole, CompleteIsWhole
  <1> QED
    BY <1>1, Invariance, PTL

(***************************************************************************)
(* Unless a fragment breaks the list, all that is held of its datagram is  *)
(* still found on the list or is delivered with it, though anything else   *)
(* may be given up.                                                        *)
(***************************************************************************)
THEOREM OwnKept == Spec => OwnIsKept
  <1> DEFINE A == \A f \in Fragments : \A d \in ToSet(Listed(State)) :
                    data[d].id = f.id /\ Apart(State)' /\ Reass(f) =>
                      Held(d) \subseteq
                        (UNION {Held(e)' : e \in ToSet(Listed(State)')})
                        \cup ToSet(given'[1])
  <1>1. IInv /\ [Next]_vars => [A]_vars
    <2> SUFFICES ASSUME IInv, Apart(State) PROVE A
      BY DEF Next, Ended
    <2>1. Good(State) /\ State.data = data
      BY DEF IInv, State
    <2> SUFFICES ASSUME NEW f \in Fragments, NEW d \in ToSet(Listed(State)),
                        data[d].id = f.id, Apart(State)', Reass(f),
                        NEW g \in Held(d), g \notin ToSet(given'[1])
                 PROVE  \E e \in ToSet(Listed(State)') : g \in Held(e)'
      OBVIOUS
    <2>2. d \in Elements
      <3>1. PICK list, pool : Lists(State, list, pool)
        BY <2>1 DEF Good, Sound
      <3> QED
        BY <2>1, <3>1, ListsAre DEF Good, ToSet
    <2>3. /\ IInv'
          /\ ToSet(data[d].p) \subseteq ToSet(data'[d].p) \cup ToSet(given'[1])
      <3> DEFINE S == {e \in Elements : data[e].id = f.id}
      <3>1. Kept(State, S, Loose(State, f.id)) /\ d \in S
        BY <2>1, <2>2, ReassKeeps
      <3> HIDE DEF S
      <3> QED
        BY <3>1, KeptIs
    <2>4. g \in ToSet(data'[d].p)
      BY <2>3 DEF Held
    <2>5. d \in ToSet(Listed(State)')
      <3> DEFINE new == State'
      <3>1. Good(new) /\ Apart(new) /\ new.data = data'
        BY <2>3 DEF IInv, State
      <3> HIDE DEF new
      <3>2. PICK list, pool : Lists(new, list, pool)
        BY <3>1 DEF Good, Sound
      <3>3. Listed(new) = list
        BY <3>1, <3>2, ListsAre DEF Good
      <3>4. new.data[d] # NoData
        <4>1. ToSet(NoData.p) = {}
          BY NoDataIs DEF ToSet
        <4> QED
          BY <2>4, <3>1, <4>1
      <3>5. new.data[d].id # NULL
        BY <2>2, <3>1, <3>4 DEF Good, DataOK
      <3>6. d \in ToSet(Listed(new))
        BY <2>2, <3>2, <3>3, <3>5 DEF Lists, ToSet
      <3> QED
        BY <3>6 DEF new
    <2> QED
      BY <2>4, <2>5 DEF Held
  <1> QED
    BY <1>1, Invariance, PTL DEF Spec, OwnIsKept

-----------------------------------------------------------------------------
(* The fragments of one datagram, cut without gap or overlap, in order.    *)
LEMMA PiecesAdjoin ==
  ASSUME NEW t \in Seq(Fragments), Sorted(t), Pieces(ToSet(t))
  PROVE  /\ t # <<>> => t[1].start = 0
         /\ \A i \in 1 .. Len(t) - 1 : Adjoin(t, i)
  <1>1. /\ DOMAIN t = 1 .. Len(t) /\ Len(t) \in Nat
        /\ \A i \in DOMAIN t : /\ t[i] \in ToSet(t)
                               /\ t[i].start \in Nat /\ t[i].end \in Nat
                               /\ t[i].start < t[i].end
    BY DomainFinite, FragmentIs DEF ToSet
  <1>2. ASSUME NEW i \in DOMAIN t, t[i].start # 0
        PROVE  \E k \in DOMAIN t : t[k].end = t[i].start /\ k < i
    <2>1. PICK g \in ToSet(t) : g.end = t[i].start
      BY <1>1, <1>2 DEF Pieces
    <2>2. PICK k \in DOMAIN t : t[k] = g
      BY <2>1 DEF ToSet
    <2>3. t[k].start < t[i].start
      BY <1>1, <2>1, <2>2
    <2>4. ~(i < k) /\ i # k
      BY <1>1, <2>3 DEF Sorted
    <2> QED
      BY <1>1, <2>1, <2>2, <2>4
  <1>3. t # <<>> => t[1].start = 0
    <2>1. SUFFICES ASSUME t # <<>>, t[1].start # 0 PROVE FALSE
      OBVIOUS
    <2>2. 1 \in DOMAIN t
      BY <1>1, <2>1
    <2>3. PICK k \in DOMAIN t : k < 1
      BY <1>2, <2>1, <2>2
    <2> QED
      BY <1>1, <2>3
  <1>4. ASSUME NEW i \in 1 .. Len(t) - 1 PROVE Adjoin(t, i)
    <2>1. i \in DOMAIN t /\ i + 1 \in DOMAIN t /\ i < i + 1
      BY <1>1
    <2>2. t[i].start < t[i + 1].start
      BY <2>1 DEF Sorted
    <2>3. t[i + 1].start # 0
      BY <1>1, <2>1, <2>2
    <2>4. PICK k \in DOMAIN t : t[k].end = t[i + 1].start /\ k < i + 1
      BY <1>2, <2>1, <2>3
    <2>5. CASE k = i
      BY <2>4, <2>5 DEF Adjoin
    <2>6. CASE k # i
      <3>1. k < i
        BY <1>1, <2>1, <2>4, <2>6
      <3>2. t[k].start < t[i].start
        BY <2>1, <3>1 DEF Sorted
      <3>3. t[k].end <= t[i].start
        <4>1. ~(t[i].start <= t[k].start) /\ t[i] # t[k]
          BY <1>1, <2>1, <3>2
        <4>2. t[k].start <= t[i].start /\ t[k] # t[i]
          BY <1>1, <2>1, <3>2
        <4> QED
          BY <1>1, <2>1, <4>2 DEF Pieces
      <3> QED
        BY <1>1, <2>1, <2>2, <2>4, <3>3
    <2> QED
      BY <2>5, <2>6
  <1> QED
    BY <1>3, <1>4

(***************************************************************************)
(* The last missing fragment of a datagram completes it.                   *)
(***************************************************************************)
LEMMA Completes ==
  ASSUME IInv, Apart(State), NEW f \in Fragments, NEW d \in ToSet(Listed(State)),
         f \notin Held(d), Pieces(Held(d) \cup {f}), count + f.clen <= MaxPbufs,
         Reass(f)
  PROVE  ToSet(given'[1]) = Held(d) \cup {f}
  <1> DEFINE C == Held(d) \cup {f}
             Own(s) == {g \in ToSet(Listed(s)) : s.data[g].id = f.id}
             own == CHOOSE g \in Own(State) : TRUE
  <1>1. State \in States /\ DataOK(State) /\ Sound(State) /\ State.data = data
        /\ State.count = count
    BY DEF IInv, Good, State
  <1>2. PICK list, pool : Lists(State, list, pool)
    BY <1>1 DEF Sound
  <1>3. Listed(State) = list /\ \A i \in DOMAIN list : list[i] \in Elements
    BY <1>1, <1>2, ListsAre
  <1>4. d \in Elements /\ data[d].id # NULL
    BY <1>1, <1>2, <1>3 DEF Lists, ToSet
  <1> DEFINE old == data[d]
             s == old.p
  <1>5. s \in Seq(Fragments) /\ old \in Datagrams
    BY <1>1, <1>4, DataType
  <1>6. InOrder(old)
    BY <1>1, <1>4 DEF DataOK
  <1>7. Held(d) = ToSet(s)
    BY DEF Held
  <1> HIDE DEF old, s
  <1>8. /\ \A i \in DOMAIN s : s[i].id = old.id /\ (~s[i].more => old.last)
        /\ Sorted(s)
    BY <1>6 DEF InOrder, Sorted, s
  <1>9. /\ DOMAIN s = 1 .. Len(s) /\ Len(s) \in Nat
        /\ \A i \in DOMAIN s : /\ s[i] \in ToSet(s) /\ s[i] \in Fragments
                               /\ s[i].start \in Nat /\ s[i].end \in Nat
                               /\ s[i].start < s[i].end
    BY <1>5, DomainFinite, FragmentIs DEF ToSet
  <1>10. /\ f.start \in Nat /\ f.end \in Nat /\ f.start < f.end /\ f.clen \in Nat
         /\ f.more \in BOOLEAN /\ (f.more \/ f.start > 0)
    BY FragmentIs
  <1>11. \A i \in DOMAIN s : /\ s[i] # f /\ s[i].id = f.id
                             /\ s[i].start <= f.start => s[i].end <= f.start
                             /\ f.start <= s[i].start => f.end <= s[i].start
    BY <1>7, <1>9 DEF Pieces
  <1>12. s # <<>>
    <2>1. SUFFICES ASSUME s = <<>> PROVE FALSE
      OBVIOUS
    <2>2. C = {f}
      BY <1>7, <2>1 DEF ToSet
    <2>3. ~f.more /\ (f.start = 0 \/ f.end = f.start)
      BY <2>2 DEF Pieces
    <2> QED
      BY <1>10, <2>3
  <1>13. old.id = f.id
    <2>1. 1 \in DOMAIN s
      BY <1>5, <1>9, <1>12
    <2> QED
      BY <1>8, <1>11, <2>1
  <1>14. d \in Own(State)
    BY <1>1, <1>13 DEF old
  <1>15. own = d
    <2>1. own \in Own(State)
      BY <1>14
    <2>2. own \in ToSet(list) /\ data[own].id = f.id
      BY <1>1, <1>3, <2>1
    <2>3. own \in Elements
      BY <1>3, <2>2 DEF ToSet
    <2>4. data[own].id = data[d].id
      BY <1>13, <2>2 DEF old
    <2> HIDE DEF own
    <2> QED
      BY <1>1, <1>4, <2>3, <2>4 DEF DataOK
  <1>16. Accept(State, f, d)
    <2>1. count \in Int /\ MaxPbufs \in Int
      BY <1>1, Constants DEF States
    <2>2. ~(count + f.clen > MaxPbufs)
      BY <1>10, <2>1
    <2>3. Own(State) # {}
      BY <1>14
    <2>4. Accept(State, f, own)
      BY <1>1, <2>2, <2>3 DEF Reass
    <2> QED
      BY <1>15, <2>4
  <1> DEFINE i == Place(s, f.start)
             p == InsertAt(s, i, f)
             e == [old EXCEPT !.last = @ \/ ~f.more, !.len = IF f.more THEN @ ELSE f.end]
  <1>17. i \in 1 .. Len(s) + 1 /\ \A j \in DOMAIN s : s[j].start <= f.start <=> j < i
    BY <1>5, <1>8, <1>10, PlaceIs
  <1>18. ~Thrown(s, f)
    <2>1. ASSUME NEW j \in 1 .. i - 1 PROVE ~(f.start < s[j].end)
      <3>1. j \in DOMAIN s /\ j < i
        BY <1>9, <1>17
      <3>2. s[j].end <= f.start
        BY <1>11, <1>17, <3>1
      <3> QED
        BY <1>9, <1>10, <3>1, <3>2
    <2>2. ASSUME 1 < i, i <= Len(s) PROVE ~(f.end > s[i].start)
      <3>1. i \in DOMAIN s /\ ~(i < i)
        BY <1>9, <1>17, <2>2
      <3>2. f.start <= s[i].start
        BY <1>9, <1>10, <1>17, <3>1
      <3>3. f.end <= s[i].start
        BY <1>11, <3>1, <3>2
      <3> QED
        BY <1>9, <1>10, <3>1, <3>3
    <2> QED
      BY <2>1, <2>2 DEF Thrown
  <1>19. Sorted(p)
    BY <1>5, <1>8, <1>18, InsertSorted
  <1>20. p \in Seq(Fragments) /\ ToSet(p) = C /\ Len(p) = Len(s) + 1
    <2>1. s \in Seq(Fragments) /\ f \in Fragments /\ i \in 1 .. Len(s) + 1
      BY <1>5, <1>17
    <2> HIDE DEF i, p
    <2>2. /\ InsertAt(s, i, f) \in Seq(Fragments) /\ Len(InsertAt(s, i, f)) = Len(s) + 1
          /\ DOMAIN InsertAt(s, i, f) = 1 .. Len(s) + 1
          /\ \A j \in 1 .. Len(s) + 1 :
               /\ j < i => j \in DOMAIN s
               /\ i < j => j - 1 \in DOMAIN s
               /\ InsertAt(s, i, f)[j] = IF j < i THEN s[j] ELSE IF j = i THEN f
                                         ELSE s[j - 1]
      BY <2>1, InsertIs
    <2>3. /\ p \in Seq(Fragments) /\ Len(p) = Len(s) + 1 /\ DOMAIN p = 1 .. Len(s) + 1
          /\ \A j \in 1 .. Len(s) + 1 :
               /\ j < i => j \in DOMAIN s
               /\ i < j => j - 1 \in DOMAIN s
               /\ p[j] = IF j < i THEN s[j] ELSE IF j = i THEN f ELSE s[j - 1]
      BY <2>2 DEF p
    <2>4. ASSUME NEW j \in DOMAIN p PROVE p[j] \in C
      <3>1. p[j] = f \/ \E l \in DOMAIN s : p[j] = s[l]
        BY <1>9, <2>1, <2>3
      <3> QED
        BY <1>7, <1>9, <3>1
    <2>5. ASSUME NEW j \in DOMAIN s PROVE \E l \in DOMAIN p : p[l] = s[j]
      <3>1. j \in 1 .. Len(s)
        BY <1>9
      <3>2. CASE j < i
        <4>1. j \in 1 .. Len(s) + 1
          BY <1>9, <3>1
        <4> QED
          BY <2>3, <3>2, <4>1
      <3>3. CASE ~(j < i)
        <4>1. j + 1 \in 1 .. Len(s) + 1 /\ ~(j + 1 < i) /\ j + 1 # i /\ j + 1 - 1 = j
          BY <1>9, <2>1, <3>1, <3>3
        <4> QED
          BY <2>3, <4>1
      <3> QED
        BY <3>2, <3>3
    <2>6. p[i] = f /\ i \in DOMAIN p
      BY <1>9, <2>1, <2>3
    <2>7. \A g \in C : \E l \in DOMAIN p : p[l] = g
      <3>1. ASSUME NEW g \in C PROVE \E l \in DOMAIN p : p[l] = g
        <4>1. CASE g = f
          BY <2>6, <4>1
        <4>2. CASE g # f
          <5>1. PICK j \in DOMAIN s : s[j] = g
            BY <1>7, <4>2 DEF ToSet
          <5> QED
            BY <2>5, <5>1
        <4> QED
          BY <4>1, <4>2
      <3> QED
        BY <3>1
    <2> HIDE DEF C
    <2>8. ToSet(p) = C
      BY <2>4, <2>7 DEF ToSet
    <2> QED
      BY <2>3, <2>8
  <1>21. /\ p[1].start = 0 /\ \A j \in 1 .. Len(p) - 1 : Adjoin(p, j)
    <2>1. p # <<>>
      <3> HIDE DEF p
      <3> QED
        BY <1>9, <1>20
    <2> HIDE DEF p
    <2> QED
      BY <1>19, <1>20, <2>1, PiecesAdjoin
  <1>22. Valid(s, f)
    <2>1. Len(p) \in Nat /\ i \in Nat /\ i > 0 /\ i <= Len(p)
      <3> HIDE DEF p, i
      <3> QED
        BY <1>9, <1>17, <1>20
    <2>2. \A j \in 1 .. i - 2 : j \in 1 .. Len(p) - 1
      <3> HIDE DEF p, i
      <3> QED
        BY <2>1
    <2>3. \A j \in i .. Len(p) - 1 : j \in 1 .. Len(p) - 1
      <3> HIDE DEF p, i
      <3> QED
        BY <2>1
    <2>4. i = Len(p) /\ i > 1 => i - 1 \in 1 .. Len(p) - 1
      <3> HIDE DEF p, i
      <3> QED
        BY <2>1
    <2> HIDE DEF p, i
    <2>5. /\ \A j \in 1 .. i - 2 : Adjoin(p, j)
          /\ i = Len(p) /\ i > 1 => Adjoin(p, i - 1)
          /\ p[1].start = 0
          /\ \A j \in i .. Len(p) - 1 : Adjoin(p, j)
      BY <1>21, <2>2, <2>3, <2>4
    <2> QED
      BY <2>5 DEF Valid, p, i
  <1>23. e.last
    <2>1. PICK g \in C : ~g.more
      BY DEF Pieces
    <2>2. old.last \/ ~f.more
      <3>1. CASE g = f
        BY <2>1, <3>1
      <3>2. CASE g # f
        <4>1. PICK j \in DOMAIN s : s[j] = g
          BY <1>7, <2>1, <3>2 DEF ToSet
        <4> QED
          BY <1>8, <2>1, <4>1
      <3> QED
        BY <3>1, <3>2
    <2>3. old = [id |-> old.id, p |-> old.p, last |-> old.last, len |-> old.len,
                 timer |-> old.timer]
      BY <1>5 DEF Datagrams
    <2>4. e.last = (old.last \/ ~f.more)
      BY <2>3
    <2> QED
      BY <2>2, <2>4
  <1>24. given'[1] = p
    <2>1. State.data[d] = old
      BY <1>1 DEF old
    <2>2. given' = <<p, e.len>>
      <3> HIDE DEF Own, own
      <3> QED
        BY <1>16, <1>18, <1>22, <1>23, <2>1 DEF Accept, Return, s
    <2> QED
      BY <2>2
  <1> QED
    BY <1>20, <1>24

THEOREM LastPieceCompletes == Spec => LastCompletes
  <1> DEFINE A == \A f \in Fragments : \A d \in ToSet(Listed(State)) :
                    (/\ f \notin Held(d) /\ Pieces(Held(d) \cup {f})
                     /\ count + f.clen <= MaxPbufs /\ Reass(f))
                    => ToSet(given'[1]) = Held(d) \cup {f}
  <1>1. IInv /\ [Next]_vars => [A]_vars
    <2> SUFFICES ASSUME IInv, Apart(State) PROVE A
      BY DEF Next, Ended
    <2> QED
      BY Completes
  <1> QED
    BY <1>1, Invariance, PTL DEF Spec, LastCompletes

-----------------------------------------------------------------------------
(***************************************************************************)
(* ip_frag.                                                                *)
(***************************************************************************)
Piece == [start : Int, end : Int, more : BOOLEAN]

(* S are the bytes from x up to y, with neither gap nor overlap. *)
Tiles(S, x, y) ==
  /\ S \subseteq Piece /\ (x < y => S # {})
  /\ \A g \in S : x <= g.start /\ g.start < g.end /\ g.end <= y
  /\ \A g, h \in S : g.start <= h.start /\ g # h => g.end <= h.start
  /\ \A g \in S : g.start = x \/ \E h \in S : h.end = g.start
  /\ \A g \in S : g.end = y \/ \E h \in S : h.start = g.end

(* One piece more behind the others. *)
LEMMA TilesGrow ==
  ASSUME NEW S, NEW x \in Int, NEW y \in Int, Tiles(S, x, y),
         NEW g \in Piece, g.start = y, x <= y, y < g.end
  PROVE  Tiles(S \cup {g}, x, g.end)
  <1>1. /\ \A h \in S : /\ h \in Piece /\ h.start \in Int /\ h.end \in Int
                        /\ x <= h.start /\ h.start < h.end /\ h.end <= y
        /\ g.start \in Int /\ g.end \in Int
    BY DEF Tiles, Piece
  <1> DEFINE T == S \cup {g}
  <1>2. T \subseteq Piece /\ T # {}
    BY <1>1
  <1>3. \A h \in T : x <= h.start /\ h.start < h.end /\ h.end <= g.end
    BY <1>1
  <1>4. \A h, k \in T : h.start <= k.start /\ h # k => h.end <= k.start
    <2>1. ASSUME NEW h \in T, NEW k \in T, h.start <= k.start, h # k
          PROVE  h.end <= k.start
      <3>1. CASE h \in S /\ k \in S
        BY <2>1, <3>1 DEF Tiles
      <3>2. CASE h \in S /\ k = g
        BY <1>1, <3>2
      <3>3. CASE h = g /\ k \in S
        BY <1>1, <2>1, <3>3
      <3> QED
        BY <2>1, <3>1, <3>2, <3>3
    <2> QED
      BY <2>1
  <1>5. \A h \in S : h.start = x \/ \E k \in T : k.end = h.start
    BY DEF Tiles
  <1>6. g.start = x \/ \E k \in S : k.end = g.start
    <2>1. CASE x = y
      BY <2>1
    <2>2. CASE x # y
      <3>1. S # {} /\ \A h \in S : h.end = y \/ \E k \in S : k.start = h.end
        BY <2>2 DEF Tiles
      <3> DEFINE ends == {y - h.end : h \in S}
      <3>2. ends \subseteq Nat /\ ends # {}
        BY <1>1, <3>1
      <3>3. PICK l \in ends : \A m \in ends : l <= m
        <4> HIDE DEF ends
        <4> QED
          BY <3>2, Least
      <3>4. PICK h \in S : l = y - h.end
        BY <3>3
      <3>5. ASSUME NEW k \in S, k.start = h.end PROVE FALSE
        <4>1. y - k.end \in ends
          OBVIOUS
        <4>2. y - h.end <= y - k.end
          BY <3>3, <3>4, <4>1
        <4>3. h.end < k.end
          BY <1>1, <3>5
        <4> HIDE DEF ends
        <4> QED
          BY <1>1, <4>2, <4>3
      <3>6. h.end = y
        BY <3>1, <3>5
      <3> QED
        BY <3>6
    <2> QED
      BY <2>1, <2>2
  <1>7. \A h \in S : h.end = g.end \/ \E k \in T : k.start = h.end
    <2>1. \A h \in S : h.end = y \/ \E k \in S : k.start = h.end
      BY DEF Tiles
    <2> QED
      BY <2>1
  <1>8. \A h \in T : h.start = x \/ \E k \in T : k.end = h.start
    BY <1>5, <1>6
  <1>9. \A h \in T : h.end = g.end \/ \E k \in T : k.start = h.end
    BY <1>7
  <1> HIDE DEF T
  <1>10. Tiles(T, x, g.end)
    BY <1>2, <1>3, <1>4, <1>8, <1>9 DEF Tiles
  <1> QED
    BY <1>10 DEF T

(***************************************************************************)
(* What ip_frag makes of a datagram or a fragment, where a fragment has    *)
(* room for eight bytes: fragments that fit and start where an offset in   *)
(* units of eight bytes can say, with neither gap nor overlap; only the    *)
(* last of the datagram has no IP_MF.                                      *)
(***************************************************************************)
THEOREM CutIsWhole ==
  ASSUME NEW len \in Nat, len > 0, NEW ofo \in Nat, NEW more \in BOOLEAN,
         NEW mtu \in Nat, mtu >= IpHlen + 8
  PROVE  /\ Tiles(Cut(len, ofo, more, mtu), 8 * ofo, 8 * ofo + len)
         /\ \A g \in Cut(len, ofo, more, mtu) :
              /\ g.end - g.start <= mtu - IpHlen
              /\ \E u \in Nat : g.start = 8 * u
              /\ g.more <=> more \/ g.end < 8 * ofo + len
  <1> DEFINE nfb == (mtu - IpHlen) \div 8
             w == nfb * 8
             passes == len \div (nfb * 8) + 1
             x == 8 * ofo
             y == 8 * ofo + len
             D == [left : Int, ofo : Int, sent : SUBSET Piece]
             Cop(st) == IF IsLast(st.left, mtu) THEN st.left ELSE nfb * 8
             New(st) == [start |-> 8 * st.ofo, end |-> 8 * st.ofo + Cop(st),
                         more |-> more \/ ~IsLast(st.left, mtu)]
             Body(st) == IF st.left = 0 THEN st
                         ELSE [left |-> st.left - Cop(st), ofo |-> st.ofo + nfb,
                               sent |-> st.sent \cup {New(st)}]
             b == [left |-> len, ofo |-> ofo, sent |-> {}]
             Step(g) == [i \in 0 .. passes |-> IF i = 0 THEN b ELSE Body(g[i - 1])]
             pass == CHOOSE g : g = Step(g)
             f == [i \in Nat |-> [st \in D |-> Body(st)]]
  <1>1. Cut(len, ofo, more, mtu) = pass[passes].sent
    BY DEF Cut
  <1>2. nfb \in Nat /\ nfb > 0 /\ w \in Nat /\ w > 0 /\ w <= mtu - IpHlen
    BY DEF IpHlen
  <1>3. passes \in Nat /\ ~(passes * w <= len)
    <2>1. w \in Nat /\ w > 0 /\ passes = len \div w + 1
      BY <1>2
    <2> HIDE DEF w, passes, nfb
    <2>2. len \div w \in Nat /\ len < (len \div w + 1) * w
      BY <2>1
    <2> QED
      BY <2>1, <2>2
  <1>4. \A st \in D : Cop(st) \in Int /\ New(st) \in Piece /\ Body(st) \in D
    <2>1. ASSUME NEW st \in D PROVE Cop(st) \in Int /\ New(st) \in Piece /\ Body(st) \in D
      <3>1. st.left \in Int /\ st.ofo \in Int /\ st.sent \in SUBSET Piece
        OBVIOUS
      <3> HIDE DEF nfb
      <3>2. Cop(st) \in Int
        BY <1>2, <3>1
      <3> HIDE DEF Cop
      <3>3. New(st) \in Piece
        BY <3>1, <3>2 DEF Piece
      <3> HIDE DEF New
      <3>4. Body(st) \in D
        BY <1>2, <3>1, <3>2, <3>3
      <3> QED
        BY <3>2, <3>3, <3>4
    <2> QED
      BY <2>1
  <1>5. b \in D
    OBVIOUS
  <1>6. f \in Loops(D)
    <2> HIDE DEF Body, D
    <2> QED
      BY <1>4 DEF Loops
  <1> HIDE DEF passes, nfb
  <1>7. PICK c \in [0 .. passes -> D] :
          c[0] = b /\ \A i \in 1 .. passes : c[i] = f[i][c[i - 1]]
    <2> HIDE DEF f, D, b
    <2>1. Runs(D, b, passes, f) # {}
      BY <1>3, <1>5, <1>6, Iterated
    <2> QED
      BY <2>1 DEF Runs
  <1>8. c = Step(c)
    <2> HIDE DEF Body, D, b
    <2>1. ASSUME NEW i \in 0 .. passes, i # 0 PROVE c[i] = Body(c[i - 1])
      <3>1. i \in 1 .. passes /\ i \in Nat /\ i - 1 \in 0 .. passes
        BY <1>3, <2>1
      <3>2. c[i - 1] \in D /\ c[i] = f[i][c[i - 1]]
        BY <1>7, <3>1
      <3> QED
        BY <3>1, <3>2
    <2>2. c = [i \in 0 .. passes |-> c[i]]
      BY <1>7
    <2>3. \A i \in 0 .. passes : c[i] = IF i = 0 THEN b ELSE Body(c[i - 1])
      BY <1>7, <2>1
    <2> HIDE DEF f
    <2> QED
      BY <2>2, <2>3
  <1>9. pass = Step(pass)
    <2> HIDE DEF Step, f
    <2> QED
      BY <1>8
  <1> HIDE DEF pass, f
  <1> DEFINE Fine(i, st) ==
               /\ st \in D /\ 0 <= st.left /\ st.left <= len
               /\ Tiles(st.sent, x, y - st.left)
               /\ st.left > 0 => 8 * st.ofo = y - st.left /\ st.left + i * w = len
                                 /\ st.ofo \in Nat
               /\ \A g \in st.sent :
                    /\ g.end - g.start <= mtu - IpHlen
                    /\ \E u \in Nat : g.start = 8 * u
                    /\ g.more <=> more \/ g.end < y
             P == {i \in 0 .. passes : Fine(i, pass[i])}
  <1>10. 0 \in P
    <2>1. 0 \in 0 .. passes
      BY <1>3
    <2>2. pass[0] = b
      BY <1>9, <2>1
    <2>3. b.left = len /\ b.ofo = ofo /\ b.sent = {}
      OBVIOUS
    <2>4. Tiles({}, x, x) /\ y - len = x
      BY DEF Tiles
    <2>5. 0 * w = 0
      BY <1>2
    <2> HIDE DEF b, D, w
    <2>6. Fine(0, b)
      BY <1>5, <2>3, <2>4, <2>5
    <2> HIDE DEF Fine
    <2> QED
      BY <2>1, <2>2, <2>6
  <1>11. ASSUME NEW i \in 1 .. passes, i - 1 \in P PROVE i \in P
    <2> DEFINE st == pass[i - 1]
    <2>1. i \in 0 .. passes /\ i # 0 /\ i \in Nat
      BY <1>3
    <2>2. pass[i] = Body(st)
      <3> HIDE DEF Body
      <3> QED
        BY <1>9, <2>1
    <2>3. Fine(i - 1, st)
      BY <1>11
    <2> HIDE DEF st
    <2>4. st.left \in Int /\ st.ofo \in Int /\ st \in D /\ x \in Int /\ y \in Int
      BY <2>3
    <2>0. y = x + len
      OBVIOUS
    <2>5. CASE st.left = 0
      <3>1. Fine(i, st)
        BY <2>3, <2>5
      <3>2. Body(st) = st
        BY <2>5
      <3> HIDE DEF Fine, Body
      <3> QED
        BY <2>1, <2>2, <3>1, <3>2
    <2>6. CASE st.left # 0
      <3>1. /\ st.left > 0 /\ st.left <= len /\ 8 * st.ofo = y - st.left
            /\ st.left + (i - 1) * w = len /\ st.ofo \in Nat
        BY <2>3, <2>4, <2>6
      <3> DEFINE cop == Cop(st)
                 g == New(st)
                 new == [left |-> st.left - Cop(st), ofo |-> st.ofo + nfb,
                         sent |-> st.sent \cup {New(st)}]
      <3>2. Body(st) = new
        BY <2>6
      <3>3. /\ cop \in Int /\ cop > 0 /\ cop <= st.left /\ cop <= mtu - IpHlen
            /\ cop < st.left => cop = w
            /\ IsLast(st.left, mtu) <=> cop = st.left
        BY <1>2, <2>4, <3>1 DEF IsLast, IpHlen
      <3>4. g \in Piece /\ new \in D
        <4> HIDE DEF Cop, New, D
        <4> QED
          BY <1>4, <2>4, <3>2
      <3>5. /\ g.start = 8 * st.ofo /\ g.end = 8 * st.ofo + cop
            /\ g.more = (more \/ ~IsLast(st.left, mtu))
        OBVIOUS
      <3>6. new.left = st.left - cop /\ new.ofo = st.ofo + nfb /\ new.sent = st.sent \cup {g}
        OBVIOUS
      <3> HIDE DEF g, cop, new, Cop, New
      <3>7. Tiles(new.sent, x, y - new.left)
        <4>1. Tiles(st.sent, x, y - st.left)
          BY <2>3
        <4>2. /\ y - st.left \in Int /\ g.start = y - st.left /\ x <= y - st.left
              /\ y - st.left < g.end /\ g.end = y - new.left
          <5> HIDE DEF x, y, D, Fine
          <5>1. y - st.left \in Int /\ g.start = y - st.left
            BY <2>4, <3>1, <3>5
          <5>2. x <= y - st.left
            BY <2>4, <2>0, <3>1
          <5>3. g.end = y - st.left + cop /\ y - new.left = y - st.left + cop
            BY <2>4, <3>1, <3>3, <3>5, <3>6
          <5>4. y - st.left < g.end
            BY <3>3, <5>1, <5>3
          <5> QED
            BY <5>1, <5>2, <5>3, <5>4
        <4> DEFINE T == st.sent
                   z == y - st.left
        <4>3. x \in Int /\ z \in Int /\ Tiles(T, x, z) /\ g \in Piece /\ g.start = z
              /\ x <= z /\ z < g.end
          BY <2>4, <3>4, <4>1, <4>2
        <4> HIDE DEF x, y, z, T, Fine, D
        <4>4. Tiles(T \cup {g}, x, g.end)
          BY <4>3, TilesGrow
        <4> QED
          BY <3>6, <4>2, <4>4 DEF T
      <3>8. ASSUME NEW h \in new.sent
            PROVE  /\ h.end - h.start <= mtu - IpHlen
                   /\ \E u \in Nat : h.start = 8 * u
                   /\ h.more <=> more \/ h.end < y
        <4>1. CASE h \in st.sent
          BY <2>3, <4>1
        <4>2. CASE h = g
          <5>1. g.end - g.start = cop
            BY <2>4, <3>3, <3>5
          <5>2. cop = st.left <=> ~(g.end < y)
            BY <2>4, <3>1, <3>3, <3>5
          <5> QED
            BY <3>1, <3>3, <3>5, <4>2, <5>1, <5>2
        <4> QED
          BY <3>6, <4>1, <4>2
      <3>9. ASSUME new.left > 0
            PROVE  /\ 8 * new.ofo = y - new.left /\ new.left + i * w = len
                   /\ new.ofo \in Nat
        <4>1. cop = w
          BY <2>4, <3>3, <3>6, <3>9
        <4>2. 8 * new.ofo = y - new.left
          <5>1. w = nfb * 8 /\ nfb \in Nat
            BY <1>2
          <5> HIDE DEF x, y, D, w
          <5>2. 8 * (st.ofo + nfb) = 8 * st.ofo + nfb * 8
            BY <2>4, <5>1
          <5>3. new.left = st.left - w /\ w \in Int
            BY <3>6, <4>1, <5>1
          <5>4. y - (st.left - w) = (y - st.left) + w
            BY <2>4, <5>3
          <5> QED
            BY <3>1, <3>6, <5>1, <5>2, <5>3, <5>4
        <4>3. (i - 1) * w + w = i * w /\ i * w \in Int /\ (i - 1) * w \in Int
          <5>1. w \in Nat
            BY <1>2
          <5> HIDE DEF w
          <5> QED
            BY <2>1, <5>1
        <4>4. new.left + i * w = len
          <5>1. w \in Nat
            BY <1>2
          <5> HIDE DEF w
          <5> QED
            BY <2>1, <2>4, <3>1, <3>6, <4>1, <4>3, <5>1
        <4>5. new.ofo \in Nat
          BY <1>2, <3>1, <3>6
        <4> QED
          BY <4>2, <4>4, <4>5
      <3>10. 0 <= new.left /\ new.left <= len
        BY <2>4, <3>1, <3>3, <3>6
      <3> HIDE DEF D, w, x, y
      <3>11. Fine(i, new)
        BY <3>4, <3>7, <3>8, <3>9, <3>10
      <3> HIDE DEF Fine, Body
      <3> QED
        BY <2>1, <2>2, <3>2, <3>11
    <2> QED
      BY <2>5, <2>6
  <1>12. passes \in P
    <2>1. passes \in 0 .. passes
      BY <1>3
    <2> HIDE DEF P
    <2> QED
      BY <1>3, <1>10, <1>11, <2>1, Along
  <1>13. Fine(passes, pass[passes])
    BY <1>12
  <1> DEFINE last == pass[passes]
  <1> HIDE DEF last, w
  <1>14. last.left = 0
    <2>1. last.left \in Int /\ 0 <= last.left
          /\ (last.left > 0 => last.left + passes * w = len)
      BY <1>13 DEF last
    <2>2. passes * w \in Int
      BY <1>2, <1>3
    <2> QED
      BY <1>3, <2>1, <2>2
  <1>15. Tiles(last.sent, x, y)
    <2>1. Tiles(last.sent, x, y - last.left)
      BY <1>13 DEF last
    <2>2. y - last.left = y
      BY <1>14
    <2> HIDE DEF x, y
    <2> QED
      BY <2>1, <2>2
  <1> QED
    BY <1>1, <1>13, <1>15 DEF last

(***************************************************************************)
(* So what ip_frag makes of a datagram is what LastCompletes is about.     *)
(***************************************************************************)
THEOREM CutsArePieces ==
  ASSUME NEW len \in Nat, len > 0, NEW mtu \in Nat, mtu >= IpHlen + 8,
         NEW id, NEW Pbufs(_)
  PROVE  Pieces({[id |-> id, start |-> f.start, end |-> f.end, more |-> f.more,
                  clen |-> Pbufs(f)] : f \in Cut(len, 0, FALSE, mtu)})
  <1> DEFINE S == Cut(len, 0, FALSE, mtu)
             Sent(f) == [id |-> id, start |-> f.start, end |-> f.end, more |-> f.more,
                         clen |-> Pbufs(f)]
             C == {Sent(f) : f \in S}
  <1>1. 8 * 0 = 0 /\ 8 * 0 + len = len
    OBVIOUS
  <1>2. /\ Tiles(S, 0, len)
        /\ \A g \in S : g.more <=> FALSE \/ g.end < len
    <2> DEFINE T == Cut(len, 0, FALSE, mtu)
    <2>1. 0 \in Nat /\ FALSE \in BOOLEAN
      OBVIOUS
    <2>2. /\ Tiles(T, 8 * 0, 8 * 0 + len)
          /\ \A g \in T : g.more <=> FALSE \/ g.end < 8 * 0 + len
      BY <2>1, CutIsWhole
    <2> HIDE DEF T
    <2>3. /\ Tiles(T, 0, len)
          /\ \A g \in T : g.more <=> FALSE \/ g.end < len
      BY <1>1, <2>2
    <2> QED
      BY <2>3 DEF T
  <1> HIDE DEF S
  <1>3. \A f \in S : /\ Sent(f).id = id /\ Sent(f).start = f.start
                     /\ Sent(f).end = f.end /\ Sent(f).more = f.more
    OBVIOUS
  <1>4. \A g \in S : g.start \in Int /\ g.end \in Int /\ g.end <= len /\ g.more \in BOOLEAN
    BY <1>2 DEF Tiles, Piece
  <1> HIDE DEF Sent
  <1>5. \A f, g \in C : f.id = g.id /\ (f.start <= g.start /\ f # g => f.end <= g.start)
    <2>1. ASSUME NEW f \in S, NEW g \in S, f.start <= g.start, Sent(f) # Sent(g)
          PROVE  f.end <= g.start
      <3>1. f # g
        BY <2>1
      <3> QED
        BY <1>2, <2>1, <3>1 DEF Tiles
    <2> QED
      BY <1>3, <2>1
  <1>6. \A f \in C : f.start = 0 \/ \E g \in C : g.end = f.start
    <2>1. \A f \in S : f.start = 0 \/ \E g \in S : g.end = f.start
      BY <1>2 DEF Tiles
    <2> QED
      BY <1>3, <2>1
  <1>7. \E f \in C : ~f.more
    <2>1. S # {}
      BY <1>2 DEF Tiles
    <2> DEFINE ends == {len - h.end : h \in S}
    <2>2. ends \subseteq Nat /\ ends # {}
      BY <1>4, <2>1
    <2>3. PICK l \in ends : \A m \in ends : l <= m
      <3> HIDE DEF ends
      <3> QED
        BY <2>2, Least
    <2>4. PICK h \in S : l = len - h.end
      BY <2>3
    <2>5. ASSUME NEW k \in S, k.start = h.end PROVE FALSE
      <3>1. len - h.end <= len - k.end
        BY <2>3, <2>4
      <3>2. k.start < k.end
        BY <1>2 DEF Tiles
      <3> HIDE DEF ends
      <3> QED
        BY <1>4, <2>5, <3>1, <3>2
    <2>6. h.end = len
      BY <1>2, <2>5 DEF Tiles
    <2>7. ~h.more
      BY <1>2, <1>4, <2>6
    <2> QED
      BY <1>3, <2>7
  <1> HIDE DEF C
  <1>8. Pieces(C)
    BY <1>5, <1>6, <1>7 DEF Pieces
  <1> QED
    BY <1>8 DEF C, Sent, S
=============================================================================
