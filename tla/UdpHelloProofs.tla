---------------------------- MODULE UdpHelloProofs ----------------------------
(***************************************************************************)
(* Proofs about UdpHello, for a pool of any size and any datagrams.        *)
(***************************************************************************)
EXTENDS UdpHello, WellFoundedInduction, FiniteSetTheorems, SequenceTheorems,
        TLAPS

USE PcbsAssumption, SourcesAssumption, MaxFlagAssumption, MaxDatagramsAssumption
-----------------------------------------------------------------------------
(***************************************************************************)
(* The walk along the list.                                                *)
(***************************************************************************)
Walks == 1 .. Cardinality(Pcbs) + 1

WalkStep(v) ==
  [k \in Walks |-> IF k = 1 THEN udp_pcbs
                            ELSE IF v[k - 1] = NULL THEN NULL ELSE next[v[k - 1]]]

(* There is room for two control blocks and the end. *)
LEMMA WalkLength == Cardinality(Pcbs) \in Nat /\ {1, 2, 3} \subseteq Walks
  <1>1. Cardinality(Pcbs) \in Nat
    BY FS_CardinalityType
  <1>2. PICK p \in Pcbs : p # Echo
    OBVIOUS
  <1>3. IsFiniteSet({Echo, p}) /\ Cardinality({Echo, p}) = 2
    <2>1. IsFiniteSet({Echo}) /\ Cardinality({Echo}) = 1
      BY FS_Singleton
    <2>2. {Echo} \cup {p} = {Echo, p} /\ p \notin {Echo}
      BY <1>2
    <2>3. IsFiniteSet({Echo} \cup {p}) /\ Cardinality({Echo} \cup {p}) = 1 + 1
      BY <2>1, <2>2, FS_AddElement, Zenon
    <2>4. IsFiniteSet({Echo, p}) /\ Cardinality({Echo, p}) = 1 + 1
      BY <2>2, <2>3, Zenon
    <2> QED
      BY <2>4
  <1>4. Cardinality({Echo, p}) <= Cardinality(Pcbs)
    BY <1>2, FS_Subset
  <1> QED
    BY <1>1, <1>3, <1>4 DEF Walks

LEMMA Minimum ==
  ASSUME NEW T, T \subseteq Nat, T # {}
  PROVE  \E x \in T : \A y \in T : x <= y
  <1>1. PICK x \in T : \A y \in T : ~(<<y, x>> \in OpToRel(<, Nat))
    BY NatLessThanWellFounded, WFMin
  <1>2. ASSUME NEW y \in T PROVE x <= y
    <2>1. <<y, x>> \notin OpToRel(<, Nat)
      BY <1>1
    <2>2. x \in Nat /\ y \in Nat
      OBVIOUS
    <2>3. ~(y < x)
      BY <2>1, <2>2 DEF OpToRel
    <2> QED
      BY <2>2, <2>3
  <1> QED
    BY <1>2

(* A list of one or two control blocks is walked to its end. *)
LEMMA Walk ==
  ASSUME udp_pcbs \in Pcbs,
         next[udp_pcbs] = NULL
           \/ (next[udp_pcbs] \in Pcbs /\ next[next[udp_pcbs]] = NULL)
  PROVE  /\ DOMAIN Visited = Walks
         /\ Visited[1] = udp_pcbs /\ Visited[2] = next[udp_pcbs]
         /\ \A k \in Walks \ {1, 2} : Visited[k] = NULL
  <1> DEFINE g == [k \in Walks |-> IF k = 1 THEN udp_pcbs
                                   ELSE IF k = 2 THEN next[udp_pcbs] ELSE NULL]
  <1>1. Walks \subseteq Nat \ {0} /\ {1, 2, 3} \subseteq Walks
        /\ \A k \in Walks : k # 1 => k - 1 \in Walks
    BY WalkLength DEF Walks
  <1>2. g = WalkStep(g)
    <2> SUFFICES ASSUME NEW k \in Walks
                 PROVE  g[k] = IF k = 1 THEN udp_pcbs
                               ELSE IF g[k - 1] = NULL THEN NULL ELSE next[g[k - 1]]
      BY DEF WalkStep
    <2>1. CASE k = 1
      BY <2>1
    <2>2. CASE k = 2
      BY <2>2, <1>1
    <2>3. CASE k = 3
      BY <2>3, <1>1
    <2>4. CASE k \notin {1, 2, 3}
      <3>1. k - 1 \in Walks /\ k - 1 \notin {1, 2}
        BY <2>4, <1>1
      <3>2. g[k - 1] = NULL
        BY <3>1
      <3> QED
        BY <2>4, <3>2
    <2> QED
      BY <2>1, <2>2, <2>3, <2>4
  <1>3. Visited = CHOOSE v : v = WalkStep(v)
    BY DEF Visited, WalkStep, Walks
  <1>4. Visited = WalkStep(Visited)
    <2> HIDE DEF g, Visited, WalkStep
    <2>1. \E v : v = WalkStep(v)
      BY <1>2, Zenon
    <2> QED
      BY <1>3, <2>1
  <1> HIDE DEF Visited
  <1>5. DOMAIN Visited = Walks
    BY <1>4 DEF WalkStep
  <1>6. \A k \in Walks :
          Visited[k] = IF k = 1 THEN udp_pcbs
                       ELSE IF Visited[k - 1] = NULL THEN NULL ELSE next[Visited[k - 1]]
    <2> DEFINE w == Visited
    <2>1. w = [k \in Walks |-> IF k = 1 THEN udp_pcbs
                 ELSE IF w[k - 1] = NULL THEN NULL ELSE next[w[k - 1]]]
      BY <1>4 DEF WalkStep
    <2> HIDE DEF w
    <2>2. \A k \in Walks : w[k] = IF k = 1 THEN udp_pcbs
                 ELSE IF w[k - 1] = NULL THEN NULL ELSE next[w[k - 1]]
      BY <2>1
    <2> QED
      BY <2>2 DEF w
  <1>7. Visited[1] = udp_pcbs /\ Visited[2] = next[udp_pcbs] /\ Visited[3] = NULL
    <2>1. Visited[1] = udp_pcbs
      BY <1>1, <1>6
    <2>2. Visited[2] = next[udp_pcbs]
      BY <1>1, <1>6, <2>1
    <2>3. Visited[3] = IF Visited[2] = NULL THEN NULL ELSE next[Visited[2]]
      BY <1>1, <1>6
    <2> QED
      BY <2>1, <2>2, <2>3
  <1>8. \A k \in Walks \ {1, 2} : Visited[k] = NULL
    <2> DEFINE T == {k \in Walks \ {1, 2} : Visited[k] # NULL}
    <2>1. ASSUME T # {} PROVE FALSE
      <3>1. T \subseteq Nat
        BY <1>1
      <3>2. PICK k \in T : \A l \in T : k <= l
        <4> HIDE DEF T
        <4> QED
          BY <2>1, <3>1, Minimum
      <3>3. k \in Walks \ {1, 2, 3} /\ Visited[k] # NULL
        BY <1>7
      <3>4. k - 1 \in Walks \ {1, 2} /\ ~(k <= k - 1) /\ k # 1
        BY <1>1, <3>3
      <3>5. Visited[k - 1] = NULL
        BY <3>2, <3>4
      <3> QED
        BY <1>6, <3>3, <3>4, <3>5
    <2> QED
      BY <2>1
  <1> QED
    BY <1>5, <1>7, <1>8

(* Any list is walked, from one control block to the next.                 *)
Links == Pcbs \cup {NULL}

LEMMA AnyWalk ==
  ASSUME udp_pcbs \in Links, next \in [Pcbs -> Links]
  PROVE  /\ DOMAIN Visited = Walks
         /\ \A k \in Walks : Visited[k] \in Links
         /\ \A k \in Walks \ {1} : Visited[k - 1] = NULL => Visited[k] = NULL
  <1> DEFINE n == Cardinality(Pcbs) + 1
             After(p) == IF p = NULL THEN NULL ELSE next[p]
             Partial(k, c) == /\ c \in [1 .. k -> Links] /\ c[1] = udp_pcbs
                              /\ \A i \in 2 .. k : c[i] = After(c[i - 1])
             Missing == {k \in Nat \ {0} : ~ \E c : Partial(k, c)}
  <1>1. n \in Nat \ {0} /\ Walks = 1 .. n /\ 1 \in Walks
    BY WalkLength DEF Walks
  <1>2. \A p \in Links : After(p) \in Links
    BY DEF Links
  <1> HIDE DEF n, After
  <1>3. Missing = {}
    <2> SUFFICES ASSUME Missing # {} PROVE FALSE
      OBVIOUS
    <2>1. PICK k \in Missing : \A l \in Missing : k <= l
      <3>1. Missing \subseteq Nat
        OBVIOUS
      <3> HIDE DEF Missing
      <3> QED
        BY <3>1, Minimum
    <2>2. k # 1
      <3>1. Partial(1, [i \in 1 .. 1 |-> udp_pcbs])
        OBVIOUS
      <3> QED
        BY <2>1, <3>1
    <2>3. k \in Nat /\ k - 1 \in Nat \ {0} /\ ~(k <= k - 1)
      BY <2>1, <2>2
    <2>4. PICK c : Partial(k - 1, c)
      BY <2>1, <2>3
    <2> DEFINE g == [i \in 1 .. k |-> IF i = k THEN After(c[k - 1]) ELSE c[i]]
    <2>5. /\ c \in [1 .. k - 1 -> Links] /\ c[1] = udp_pcbs
          /\ \A i \in 2 .. k - 1 : c[i] = After(c[i - 1])
      BY <2>4
    <2>6. c[k - 1] \in Links /\ After(c[k - 1]) \in Links
      BY <1>2, <2>3, <2>5
    <2>7. \A i \in 1 .. k : i # k => i \in 1 .. k - 1 /\ c[i] \in Links
      BY <2>3, <2>5
    <2>8. g \in [1 .. k -> Links]
      BY <2>6, <2>7
    <2>9. g[1] = udp_pcbs
      BY <2>2, <2>3, <2>5
    <2>10. ASSUME NEW i \in 2 .. k PROVE g[i] = After(g[i - 1])
      <3>1. i \in 1 .. k /\ i - 1 \in 1 .. k /\ i - 1 # k
        BY <2>3
      <3>2. g[i - 1] = c[i - 1] /\ g[i] = IF i = k THEN After(c[k - 1]) ELSE c[i]
        BY <3>1
      <3>3. i # k => i \in 2 .. k - 1
        BY <2>3
      <3> HIDE DEF g
      <3> QED
        BY <2>5, <3>2, <3>3
    <2>11. Partial(k, g)
      <3> HIDE DEF g
      <3> QED
        BY <2>8, <2>9, <2>10
    <2> HIDE DEF Partial, g
    <2> QED
      BY <2>1, <2>11
  <1>4. PICK c : Partial(n, c)
    BY <1>1, <1>3
  <1>5. c = WalkStep(c)
    <2>1. c \in [Walks -> Links]
      BY <1>1, <1>4
    <2>2. ASSUME NEW k \in Walks
          PROVE  c[k] = IF k = 1 THEN udp_pcbs
                        ELSE IF c[k - 1] = NULL THEN NULL ELSE next[c[k - 1]]
      <3>1. k # 1 => k \in 2 .. n
        BY <1>1
      <3> QED
        BY <1>4, <3>1 DEF After
    <2> QED
      BY <2>1, <2>2 DEF WalkStep
  <1>6. Visited = WalkStep(Visited)
    <2>1. Visited = CHOOSE v : v = WalkStep(v)
      BY DEF Visited, WalkStep, Walks
    <2> HIDE DEF Visited, WalkStep, Partial
    <2>2. \E v : v = WalkStep(v)
      BY <1>5, Zenon
    <2> QED
      BY <2>1, <2>2
  <1> DEFINE w == Visited
  <1>7. w = [k \in Walks |-> IF k = 1 THEN udp_pcbs
               ELSE IF w[k - 1] = NULL THEN NULL ELSE next[w[k - 1]]]
    BY <1>6 DEF WalkStep
  <1> HIDE DEF w
  <1>8. DOMAIN w = Walks
        /\ \A k \in Walks : w[k] = IF k = 1 THEN udp_pcbs
             ELSE IF w[k - 1] = NULL THEN NULL ELSE next[w[k - 1]]
    BY <1>7
  <1> DEFINE Untyped == {k \in Walks : w[k] \notin Links}
  <1>9. Untyped = {}
    <2> SUFFICES ASSUME Untyped # {} PROVE FALSE
      OBVIOUS
    <2>1. PICK k \in Untyped : \A l \in Untyped : k <= l
      <3>1. Untyped \subseteq Nat
        BY <1>1
      <3> HIDE DEF Untyped
      <3> QED
        BY <2>1, <3>1, Minimum
    <2>2. k \in Walks /\ w[k] \notin Links /\ k # 1
      BY <2>1, <1>8
    <2>3. k - 1 \in Walks /\ ~(k <= k - 1)
      BY <1>1, <2>2
    <2>4. w[k - 1] \in Links
      BY <2>1, <2>3
    <2> QED
      BY <1>8, <2>2, <2>4 DEF Links
  <1>10. \A k \in Walks : w[k] \in Links
    BY <1>9
  <1>11. \A k \in Walks \ {1} : w[k - 1] = NULL => w[k] = NULL
    BY <1>8
  <1> QED
    BY <1>8, <1>10, <1>11 DEF w

-----------------------------------------------------------------------------
(***************************************************************************)
(* The invariant.                                                          *)
(***************************************************************************)

(* udp_pcbs leads to Echo alone, or to Echo and pcb. *)
EchoOnly  == udp_pcbs = Echo /\ next[Echo] = NULL
PcbFirst  == udp_pcbs = pcb /\ next[pcb] = Echo /\ next[Echo] = NULL
EchoFirst == udp_pcbs = Echo /\ next[Echo] = pcb /\ next[pcb] = NULL

NoPcb      == {"delay", "increment", "test", "new"}
OutOfList  == NoPcb \cup {"bind", "bind_loop", "link", "free"}
Connected  == {"connect", "connect_loop"}
InList     == Connected \cup
              {"connect_ip", "connect_port", "connect_flag", "relink", "send",
               "disconnect_ip", "disconnect_port", "disconnect_flag", "remove"}
Removing   == {"unlink_head", "scan", "unlink"}

(* zzsend has a control block of its own from udp_new to the end of        *)
(* udp_remove.                                                             *)
PcbInv ==
  /\ pc \in NoPcb => pcb = NULL
  /\ pc \notin NoPcb => pcb \in Pcbs \ {Echo}
  /\ pc = "unlink" => ipcb \in Pcbs

(* Where zzsend's block is while the main loop is at each place: once it   *)
(* is disconnected no datagram can move it.                                *)
ListInv ==
  /\ pc \in OutOfList => EchoOnly
  /\ pc = "bind_loop" => ipcb \in {Echo, NULL} /\ first = Echo /\ ~rebind
  /\ pc = "link" => next[pcb] = Echo
  /\ pc \in InList => PcbFirst \/ EchoFirst
  /\ pc # "relink_head"
  /\ pc = "unlink_head" => PcbFirst
  /\ pc = "scan" => (EchoFirst /\ ipcb = Echo) \/ (EchoOnly /\ ipcb = NULL)
  /\ pc = "unlink" => EchoFirst /\ ipcb = Echo

(* It is so until udp_connect links the block a second time.               *)
UntilRelink == ~relinked => ListInv /\ ~hung

(* The echo service's block is never connected, zzsend's is connected by   *)
(* udp_connect and disconnected when udp_remove begins.                    *)
FieldInv ==
  /\ local[Echo] /\ remoteIp[Echo] = Any /\ remotePort[Echo] = 0 /\ ~connected[Echo]
  /\ pc \in {"link", "relink_head"} \cup InList \cup Removing => local[pcb]
  /\ pc \in {"connect_port", "connect_flag"} \cup Connected => remoteIp[pcb] = Peer
  /\ pc \in {"connect_flag"} \cup Connected => remotePort[pcb] = HelloPort
  /\ pc \in {"disconnect_port", "disconnect_flag", "remove"} \cup Removing
       => remoteIp[pcb] = Any
  /\ pc \in {"disconnect_flag", "remove"} \cup Removing => remotePort[pcb] = 0
  /\ pc \in {"remove"} \cup Removing => ~connected[pcb]

(* flag counts the rounds since the last echo, or that echo's reset was    *)
(* overwritten.                                                            *)
FlagInv ==
  /\ flag <= quiet \/ lost
  /\ pc = "increment" => reg <= quiet \/ lost

(* The free control blocks are those of no one. *)
PoolInv ==
  /\ \A i, j \in 1..Len(pool) : i # j => pool[i] # pool[j]
  /\ {pool[i] : i \in 1..Len(pool)} = Pcbs \ {Echo, pcb}

IInv == TypeOK /\ PoolInv /\ PcbInv /\ FieldInv /\ FlagInv /\ UntilRelink

LEMMA InitEstablishes == Init => IInv
  <1> SUFFICES ASSUME Init PROVE IInv
    OBVIOUS
  <1>1. /\ pool \in [1 .. Cardinality(Pcbs) - 1 -> Pcbs \ {Echo}]
        /\ \A i, j \in DOMAIN pool : i # j => pool[i] # pool[j]
    BY DEF Init
  <1>2. IsFiniteSet(Pcbs \ {Echo}) /\ Cardinality(Pcbs \ {Echo}) = Cardinality(Pcbs) - 1
        /\ Cardinality(Pcbs) - 1 \in Nat
    <2>1. IsFiniteSet(Pcbs \ {Echo}) /\ Cardinality(Pcbs \ {Echo}) = Cardinality(Pcbs) - 1
      BY FS_RemoveElement
    <2> QED
      BY <2>1, FS_CardinalityType
  <1> DEFINE n == Cardinality(Pcbs) - 1
             D == 1..n
             R == Pcbs \ {Echo}
  <1>3. n \in Nat /\ IsFiniteSet(R) /\ Cardinality(R) = n
    BY <1>2
  <1> HIDE DEF n
  <1>4. IsFiniteSet(D) /\ Cardinality(D) = n
    <2>1. IsFiniteSet(1..n) /\ Cardinality(1..n) = IF 1 > n THEN 0 ELSE n - 1 + 1
      BY <1>3, FS_Interval
    <2> QED
      BY <1>3, <2>1
  <1>5. pool \in Injection(D, R)
    BY <1>1 DEF n, Injection, IsInjective
  <1>6. pool \in Surjection(D, R)
    BY <1>3, <1>4, <1>5, FS_Injection
  <1>7. pool \in Seq(Pcbs) /\ Len(pool) = n
    BY <1>1, <1>3 DEF n
  <1>8. {pool[i] : i \in 1..Len(pool)} = Pcbs \ {Echo}
    BY <1>1, <1>6, <1>7 DEF n, Surjection
  <1>9. PoolInv
    <2>1. pcb = NULL /\ Pcbs \ {Echo, NULL} = Pcbs \ {Echo}
      BY DEF Init
    <2>2. \A i, j \in 1..Len(pool) : i # j => pool[i] # pool[j]
      BY <1>1, <1>7 DEF n
    <2> QED
      BY <1>8, <2>1, <2>2 DEF PoolInv
  <1>10. TypeOK
    <2>1. local \in [Pcbs -> BOOLEAN] /\ connected \in [Pcbs -> BOOLEAN] /\ lost \in BOOLEAN
      BY Zenon DEF Init
    <2>2. /\ next \in [Pcbs -> Pcbs \cup {NULL}]
          /\ remoteIp \in [Pcbs -> {Any, Peer}]
          /\ remotePort \in [Pcbs -> {0, HelloPort}]
          /\ udp_pcbs \in Pcbs \cup {NULL} /\ pcb \in Pcbs \cup {NULL}
          /\ ipcb \in Pcbs \cup {NULL} /\ first \in Pcbs \cup {NULL}
      BY DEF Init
    <2>3. /\ flag \in 0..MaxFlag /\ reg \in 0..MaxFlag /\ quiet \in 0..MaxFlag
          /\ came \in 0..MaxDatagrams /\ echoed \in 0..came
      BY DEF Init
    <2>4. pc \in Places /\ rebind \in BOOLEAN /\ hung \in BOOLEAN /\ relinked \in BOOLEAN
      BY DEF Init, Places
    <2> QED
      BY <1>7, <2>1, <2>2, <2>3, <2>4 DEF TypeOK
  <1>11. PcbInv /\ UntilRelink /\ FieldInv /\ FlagInv
    <2>1. local[Echo] /\ ~connected[Echo]
      BY Zenon DEF Init
    <2>2. remoteIp[Echo] = Any /\ remotePort[Echo] = 0 /\ next[Echo] = NULL
      BY DEF Init
    <2>3. /\ pc = "delay" /\ udp_pcbs = Echo /\ pcb = NULL /\ flag = 0 /\ quiet = 0
          /\ ~hung
      BY DEF Init
    <2> QED
      BY <2>1, <2>2, <2>3 DEF PcbInv, UntilRelink, ListInv, FieldInv, FlagInv, NoPcb,
                              OutOfList, Connected, InList, Removing, EchoOnly
  <1> QED
    BY <1>9, <1>10, <1>11 DEF IInv

-----------------------------------------------------------------------------
(***************************************************************************)
(* The steps of the main loop.                                             *)
(***************************************************************************)

USE DEF Goto, listVars, pcbVars, loopVars, mainVars, history, linkVars, NoPcb, OutOfList,
        Connected, InList, Removing

LEMMA ReadFlagKeeps == IInv /\ ReadFlag => IInv'
  <1> SUFFICES ASSUME IInv, ReadFlag PROVE IInv'
    OBVIOUS
  <1> USE DEF IInv, ReadFlag
  <1>1. TypeOK'
    BY DEF TypeOK, Places
  <1>2. PoolInv' /\ PcbInv'
    BY DEF PoolInv, PcbInv
  <1>3. UntilRelink' /\ FieldInv'
    BY DEF UntilRelink, ListInv, FieldInv, EchoOnly, PcbFirst, EchoFirst
  <1>4. FlagInv'
    BY DEF FlagInv
  <1> QED
    BY <1>1, <1>2, <1>3, <1>4

LEMMA WriteFlagKeeps == IInv /\ WriteFlag => IInv'
  <1> SUFFICES ASSUME IInv, WriteFlag PROVE IInv'
    OBVIOUS
  <1> USE DEF IInv, WriteFlag
  <1>1. reg \in 0..MaxFlag /\ quiet \in 0..MaxFlag
    BY DEF TypeOK
  <1>2. Capped(reg + 1) \in 0..MaxFlag /\ Capped(quiet + 1) \in 0..MaxFlag
    BY <1>1 DEF Capped
  <1>3. TypeOK'
    BY <1>2 DEF TypeOK, Places
  <1>4. PoolInv' /\ PcbInv'
    BY DEF PoolInv, PcbInv
  <1>5. UntilRelink' /\ FieldInv'
    BY DEF UntilRelink, ListInv, FieldInv, EchoOnly, PcbFirst, EchoFirst
  <1>6. FlagInv'
    <2>1. reg <= quiet => Capped(reg + 1) <= Capped(quiet + 1)
      BY <1>1 DEF Capped
    <2> QED
      BY <2>1 DEF FlagInv
  <1> QED
    BY <1>3, <1>4, <1>5, <1>6

LEMMA TestFlagKeeps == IInv /\ TestFlag => IInv'
  <1> SUFFICES ASSUME IInv, TestFlag PROVE IInv'
    OBVIOUS
  <1> USE DEF IInv, TestFlag
  <1>1. TypeOK'
    BY DEF TypeOK, Places
  <1>2. PoolInv' /\ PcbInv'
    BY DEF PoolInv, PcbInv
  <1>3. UntilRelink' /\ FieldInv'
    BY DEF UntilRelink, ListInv, FieldInv, EchoOnly, PcbFirst, EchoFirst
  <1>4. FlagInv'
    BY DEF FlagInv
  <1> QED
    BY <1>1, <1>2, <1>3, <1>4

LEMMA UdpNewKeeps == IInv /\ UdpNew => IInv'
  <1> SUFFICES ASSUME IInv, UdpNew PROVE IInv'
    OBVIOUS
  <1> DEFINE p == Head(pool)
  <1>1. /\ pc = "new" /\ pc' = "bind" /\ pool # <<>> /\ pcb' = p /\ pool' = Tail(pool)
        /\ next' = [next EXCEPT ![p] = NULL]
        /\ local' = [local EXCEPT ![p] = FALSE]
        /\ remoteIp' = [remoteIp EXCEPT ![p] = Any]
        /\ remotePort' = [remotePort EXCEPT ![p] = 0]
        /\ connected' = [connected EXCEPT ![p] = FALSE]
        /\ UNCHANGED <<udp_pcbs, flag, reg, ipcb, first, rebind, came, echoed, quiet,
                       lost, hung, relinked>>
    BY DEF UdpNew
  <1>2. pool \in Seq(Pcbs) /\ pcb = NULL
    BY <1>1 DEF IInv, TypeOK, PcbInv
  <1>3. /\ p = pool[1] /\ Len(pool) \in Nat \ {0}
        /\ pool' \in Seq(Pcbs) /\ Len(pool') = Len(pool) - 1
        /\ \A i \in 1..Len(pool') : pool'[i] = pool[i + 1] /\ i + 1 \in 1..Len(pool)
    BY <1>1, <1>2, HeadTailProperties, EmptySeq
  <1>4. /\ \A i, j \in 1..Len(pool) : i # j => pool[i] # pool[j]
        /\ {pool[i] : i \in 1..Len(pool)} = Pcbs \ {Echo, NULL}
    BY <1>2 DEF IInv, PoolInv
  <1>5. p \in Pcbs \ {Echo}
    BY <1>3, <1>4
  <1> HIDE DEF p
  <1>6. TypeOK'
    BY <1>1, <1>3, <1>5 DEF IInv, TypeOK, Places
  <1>7. PcbInv'
    BY <1>1, <1>5 DEF PcbInv
  <1>8. PoolInv'
    <2>1. \A i, j \in 1..Len(pool') : i # j => pool'[i] # pool'[j]
      <3> SUFFICES ASSUME NEW i \in 1..Len(pool'), NEW j \in 1..Len(pool'), i # j
                   PROVE  pool'[i] # pool'[j]
        OBVIOUS
      <3>1. i + 1 \in 1..Len(pool) /\ j + 1 \in 1..Len(pool) /\ i + 1 # j + 1
        BY <1>3
      <3> QED
        BY <1>3, <1>4, <3>1
    <2>2. ASSUME NEW i \in 1..Len(pool') PROVE pool'[i] \in Pcbs \ {Echo, p}
      <3>1. i + 1 \in 1..Len(pool) /\ i + 1 # 1 /\ 1 \in 1..Len(pool)
        BY <1>3
      <3>2. pool[i + 1] # pool[1] /\ pool[i + 1] \in Pcbs \ {Echo, NULL}
        BY <1>4, <3>1
      <3> QED
        BY <1>3, <3>2
    <2>3. ASSUME NEW q \in Pcbs \ {Echo, p} PROVE \E i \in 1..Len(pool') : q = pool'[i]
      <3>1. PICK i \in 1..Len(pool) : q = pool[i]
        BY <1>4
      <3>2. i - 1 \in 1..Len(pool') /\ (i - 1) + 1 = i
        BY <1>3, <3>1
      <3>3. pool'[i - 1] = pool[(i - 1) + 1]
        BY <1>3, <3>2
      <3> QED
        BY <3>1, <3>2, <3>3
    <2>4. {pool'[i] : i \in 1..Len(pool')} = Pcbs \ {Echo, p}
      BY <2>2, <2>3
    <2> QED
      BY <1>1, <2>1, <2>4 DEF PoolInv
  <1>9. UntilRelink'
    BY <1>1, <1>5 DEF IInv, TypeOK, UntilRelink, ListInv, EchoOnly
  <1>10. FieldInv'
    BY <1>1, <1>5 DEF IInv, TypeOK, FieldInv
  <1>11. FlagInv'
    BY <1>1 DEF IInv, FlagInv
  <1> QED
    BY <1>6, <1>7, <1>8, <1>9, <1>10, <1>11 DEF IInv

LEMMA EchoListed == ASSUME IInv, EchoOnly PROVE ~Endless /\ Listed = {Echo}
  <1>1. /\ DOMAIN Visited = Walks
        /\ Visited[1] = Echo /\ Visited[2] = NULL
        /\ \A k \in Walks \ {1, 2} : Visited[k] = NULL
    BY Walk DEF EchoOnly
  <1>2. {1, 2, 3} \subseteq Walks
    BY WalkLength
  <1> HIDE DEF Visited
  <1>3. Visited[1] \in Listed /\ Listed \subseteq {Echo}
    BY <1>1, <1>2 DEF Listed
  <1>4. NULL \in {Visited[k] : k \in DOMAIN Visited}
    BY <1>1, <1>2
  <1> QED
    BY <1>1, <1>3, <1>4 DEF Endless

(* The loops of udp_bind and udp_connect. *)
LEMMA LoopStartKeeps ==
  ASSUME IInv, NEW from, NEW to, LoopStart(from, to),
         \/ from = "bind" /\ to = "bind_loop"
         \/ from = "connect" /\ to = "connect_loop"
  PROVE  IInv'
  <1> USE DEF IInv, LoopStart
  <1>1. TypeOK'
    BY DEF TypeOK, Places
  <1>2. PoolInv' /\ PcbInv' /\ FlagInv'
    BY DEF PoolInv, PcbInv, FlagInv
  <1>3. UntilRelink'
    BY DEF UntilRelink, ListInv, EchoOnly, PcbFirst, EchoFirst
  <1>4. FieldInv'
    BY DEF FieldInv
  <1> QED
    BY <1>1, <1>2, <1>3, <1>4

LEMMA BindLoopKeeps == IInv /\ BindLoop => IInv'
  <1> SUFFICES ASSUME IInv, BindLoop PROVE IInv'
    OBVIOUS
  <1> USE DEF IInv, BindLoop
  <1>0. pc = "bind_loop" /\ ipcb \in Pcbs /\ rebind' \in BOOLEAN
    <2>1. rebind' = (rebind \/ ipcb = pcb)
      BY DEF BindLoop
    <2>2. rebind' \in BOOLEAN
      BY <2>1, Zenon
    <2> QED
      BY <2>2 DEF TypeOK
  <1>1. TypeOK'
    BY <1>0 DEF TypeOK, Places
  <1>2. PoolInv' /\ PcbInv' /\ FlagInv'
    BY DEF PoolInv, PcbInv, FlagInv
  <1>3. UntilRelink'
    <2> SUFFICES ASSUME ~relinked PROVE UntilRelink'
      BY DEF UntilRelink
    <2>1. /\ EchoOnly /\ ipcb = Echo /\ first = Echo /\ ~rebind /\ ~hung
          /\ pcb \in Pcbs \ {Echo}
      BY <1>0 DEF UntilRelink, ListInv, PcbInv
    <2>2. ~rebind' /\ ipcb' = NULL
      BY <2>1 DEF EchoOnly
    <2> QED
      BY <1>0, <2>1, <2>2 DEF UntilRelink, ListInv, EchoOnly
  <1>4. FieldInv'
    BY DEF FieldInv
  <1> QED
    BY <1>1, <1>2, <1>3, <1>4

LEMMA UdpBindKeeps == IInv /\ UdpBind => IInv'
  <1> SUFFICES ASSUME IInv, UdpBind PROVE IInv'
    OBVIOUS
  <1>1. /\ pc = "bind_loop" /\ pcb \in Pcbs \ {Echo}
        /\ first \in Pcbs \cup {NULL} /\ udp_pcbs \in Pcbs \cup {NULL}
    BY DEF IInv, UdpBind, PcbInv, TypeOK
  <1>2. /\ pc' = IF rebind THEN "connect_ip" ELSE "link"
        /\ local' = [local EXCEPT ![pcb] = TRUE]
        /\ \/ next' = next
           \/ next' = [next EXCEPT ![pcb] = first]
           \/ next' = [next EXCEPT ![pcb] = udp_pcbs]
        /\ UNCHANGED <<udp_pcbs, remoteIp, remotePort, connected, pool, flag, reg, pcb,
                       ipcb, first, rebind, came, echoed, quiet, lost, hung, relinked>>
    BY DEF UdpBind
  <1>3. next' \in [Pcbs -> Pcbs \cup {NULL}]
    BY <1>1, <1>2 DEF IInv, TypeOK
  <1>4. local' \in [Pcbs -> BOOLEAN]
    BY <1>1, <1>2 DEF IInv, TypeOK
  <1>5. TypeOK'
    BY <1>2, <1>3, <1>4 DEF IInv, TypeOK, Places
  <1>6. PoolInv' /\ PcbInv' /\ FlagInv'
    BY <1>1, <1>2 DEF IInv, PoolInv, PcbInv, FlagInv
  <1>7. UntilRelink'
    <2> SUFFICES ASSUME ~relinked PROVE UntilRelink'
      BY <1>2 DEF UntilRelink
    <2>1. EchoOnly /\ first = Echo /\ ~rebind /\ ~hung /\ next \in [Pcbs -> Pcbs \cup {NULL}]
      BY <1>1 DEF IInv, UntilRelink, ListInv, TypeOK
    <2>2. next' = [next EXCEPT ![pcb] = Echo]
      BY <2>1 DEF UdpBind, EchoOnly
    <2> QED
      BY <1>1, <1>2, <2>1, <2>2 DEF UntilRelink, ListInv, EchoOnly
  <1>8. FieldInv'
    BY <1>1, <1>2 DEF IInv, TypeOK, FieldInv
  <1> QED
    BY <1>5, <1>6, <1>7, <1>8 DEF IInv

LEMMA BindLinkKeeps == IInv /\ BindLink => IInv'
  <1> SUFFICES ASSUME IInv, BindLink PROVE IInv'
    OBVIOUS
  <1> USE DEF IInv, BindLink
  <1>1. TypeOK'
    BY DEF TypeOK, Places
  <1>2. PoolInv' /\ PcbInv' /\ FlagInv'
    BY DEF PoolInv, PcbInv, FlagInv
  <1>3. UntilRelink'
    BY DEF UntilRelink, ListInv, EchoOnly, PcbFirst, EchoFirst
  <1>4. FieldInv'
    BY DEF FieldInv
  <1> QED
    BY <1>1, <1>2, <1>3, <1>4

(* udp_connect, udp_send and udp_disconnect, which only set pcb's fields.  *)
LEMMA SetIpKeeps ==
  ASSUME IInv, NEW from, NEW to, NEW ip \in {Any, Peer}, SetIp(from, to, ip),
         \/ from = "connect_ip" /\ to = "connect_port" /\ ip = Peer
         \/ from = "disconnect_ip" /\ to = "disconnect_port" /\ ip = Any
  PROVE  IInv'
  <1> USE DEF IInv, SetIp
  <1>1. pcb \in Pcbs \ {Echo}
    BY DEF PcbInv
  <1>2. TypeOK'
    BY <1>1 DEF TypeOK, Places
  <1>3. PoolInv' /\ PcbInv' /\ FlagInv'
    BY DEF PoolInv, PcbInv, FlagInv
  <1>4. UntilRelink'
    BY DEF UntilRelink, ListInv, EchoOnly, PcbFirst, EchoFirst
  <1>5. FieldInv'
    BY <1>1 DEF TypeOK, FieldInv
  <1> QED
    BY <1>2, <1>3, <1>4, <1>5

LEMMA SetPortKeeps ==
  ASSUME IInv, NEW from, NEW to, NEW port \in {0, HelloPort}, SetPort(from, to, port),
         \/ from = "connect_port" /\ to = "connect_flag" /\ port = HelloPort
         \/ from = "disconnect_port" /\ to = "disconnect_flag" /\ port = 0
  PROVE  IInv'
  <1> USE DEF IInv, SetPort
  <1>1. pcb \in Pcbs \ {Echo}
    BY DEF PcbInv
  <1>2. TypeOK'
    BY <1>1 DEF TypeOK, Places
  <1>3. PoolInv' /\ PcbInv' /\ FlagInv'
    BY DEF PoolInv, PcbInv, FlagInv
  <1>4. UntilRelink'
    BY DEF UntilRelink, ListInv, EchoOnly, PcbFirst, EchoFirst
  <1>5. FieldInv'
    BY <1>1 DEF TypeOK, FieldInv
  <1> QED
    BY <1>2, <1>3, <1>4, <1>5

LEMMA SetConnectedKeeps ==
  ASSUME IInv, NEW from, NEW to, NEW on \in BOOLEAN, SetConnected(from, to, on),
         \/ from = "connect_flag" /\ to = "connect"
         \/ from = "disconnect_flag" /\ to = "remove" /\ ~on
  PROVE  IInv'
  <1> USE DEF IInv, SetConnected
  <1>1. pcb \in Pcbs \ {Echo}
    BY DEF PcbInv
  <1>2. TypeOK'
    BY <1>1 DEF TypeOK, Places
  <1>3. PoolInv' /\ PcbInv' /\ FlagInv'
    BY DEF PoolInv, PcbInv, FlagInv
  <1>4. UntilRelink'
    BY DEF UntilRelink, ListInv, EchoOnly, PcbFirst, EchoFirst
  <1>5. FieldInv'
    BY <1>1 DEF TypeOK, FieldInv
  <1> QED
    BY <1>2, <1>3, <1>4, <1>5

LEMMA UdpSendKeeps == IInv /\ UdpSend => IInv'
  <1> SUFFICES ASSUME IInv, UdpSend PROVE IInv'
    OBVIOUS
  <1> USE DEF IInv, UdpSend
  <1>1. TypeOK'
    BY DEF TypeOK, Places
  <1>2. PoolInv' /\ PcbInv' /\ FlagInv'
    BY DEF PoolInv, PcbInv, FlagInv
  <1>3. UntilRelink' /\ FieldInv'
    BY DEF UntilRelink, ListInv, FieldInv, EchoOnly, PcbFirst, EchoFirst
  <1> QED
    BY <1>1, <1>2, <1>3

LEMMA ConnectingKeeps == IInv /\ (UdpConnect \/ UdpDisconnect) => IInv'
  <1> SUFFICES ASSUME IInv, UdpConnect \/ UdpDisconnect PROVE IInv'
    OBVIOUS
  <1>1. CASE UdpConnect
    BY <1>1, SetIpKeeps, SetPortKeeps, SetConnectedKeeps DEF UdpConnect
  <1>2. CASE UdpDisconnect
    BY <1>2, SetIpKeeps, SetPortKeeps, SetConnectedKeeps DEF UdpDisconnect
  <1> QED
    BY <1>1, <1>2

LEMMA ConnectLoopKeeps == IInv /\ ConnectLoop => IInv'
  <1> SUFFICES ASSUME IInv, ConnectLoop PROVE IInv'
    OBVIOUS
  <1> USE DEF IInv, ConnectLoop
  <1>1. TypeOK'
    BY DEF TypeOK, Places
  <1>2. PoolInv' /\ PcbInv' /\ FlagInv'
    BY DEF PoolInv, PcbInv, FlagInv
  <1>3. UntilRelink'
    BY DEF UntilRelink, ListInv, EchoOnly, PcbFirst, EchoFirst
  <1>4. FieldInv'
    BY DEF FieldInv
  <1> QED
    BY <1>1, <1>2, <1>3, <1>4

LEMMA RelinkKeeps == IInv /\ Relink => IInv'
  <1> SUFFICES ASSUME IInv, Relink PROVE IInv'
    OBVIOUS
  <1> USE DEF IInv, Relink
  <1>1. pcb \in Pcbs \ {Echo}
    BY DEF PcbInv
  <1>2. TypeOK'
    BY <1>1 DEF TypeOK, Places
  <1>3. PoolInv' /\ PcbInv' /\ FlagInv'
    BY DEF PoolInv, PcbInv, FlagInv
  <1>4. UntilRelink'
    BY DEF UntilRelink
  <1>5. FieldInv'
    BY DEF FieldInv
  <1> QED
    BY <1>2, <1>3, <1>4, <1>5

LEMMA RelinkHeadKeeps == IInv /\ RelinkHead => IInv'
  <1> SUFFICES ASSUME IInv, RelinkHead PROVE IInv'
    OBVIOUS
  <1> USE DEF IInv, RelinkHead
  <1>1. TypeOK'
    BY DEF TypeOK, Places
  <1>2. PoolInv' /\ PcbInv' /\ FlagInv'
    BY DEF PoolInv, PcbInv, FlagInv
  <1>3. UntilRelink'
    BY DEF UntilRelink, ListInv
  <1>4. FieldInv'
    BY DEF FieldInv
  <1> QED
    BY <1>1, <1>2, <1>3, <1>4

(* udp_remove: the block is the first of the list, or the one after Echo. *)
LEMMA RemoveTestKeeps == IInv /\ RemoveTest => IInv'
  <1> SUFFICES ASSUME IInv, RemoveTest PROVE IInv'
    OBVIOUS
  <1> USE DEF IInv, RemoveTest
  <1>1. TypeOK'
    BY DEF TypeOK, Places
  <1>2. PoolInv' /\ PcbInv' /\ FlagInv'
    BY DEF PoolInv, PcbInv, FlagInv
  <1>3. UntilRelink'
    BY DEF UntilRelink, ListInv, PcbInv, EchoOnly, PcbFirst, EchoFirst
  <1>4. FieldInv'
    BY DEF FieldInv
  <1> QED
    BY <1>1, <1>2, <1>3, <1>4

LEMMA UnlinkHeadKeeps == IInv /\ UnlinkHead => IInv'
  <1> SUFFICES ASSUME IInv, UnlinkHead PROVE IInv'
    OBVIOUS
  <1> USE DEF IInv, UnlinkHead
  <1>1. pcb \in Pcbs \ {Echo}
    BY DEF PcbInv
  <1>2. udp_pcbs' \in Pcbs \cup {NULL}
    BY DEF TypeOK
  <1>3. TypeOK'
    BY <1>2 DEF TypeOK, Places
  <1>4. PoolInv' /\ PcbInv' /\ FlagInv'
    BY DEF PoolInv, PcbInv, FlagInv
  <1>5. FieldInv'
    BY DEF FieldInv
  <1>6. UntilRelink'
    <2> SUFFICES ASSUME ~relinked PROVE UntilRelink'
      BY DEF UntilRelink
    <2>1. PcbFirst /\ ~hung
      BY DEF UntilRelink, ListInv
    <2>2. udp_pcbs' = Echo
      BY <2>1 DEF PcbFirst
    <2> QED
      BY <1>1, <2>1, <2>2 DEF UntilRelink, ListInv, PcbFirst, EchoOnly
  <1> QED
    BY <1>3, <1>4, <1>5, <1>6

LEMMA ScanKeeps == IInv /\ Scan => IInv'
  <1> SUFFICES ASSUME IInv, Scan PROVE IInv'
    OBVIOUS
  <1> USE DEF IInv, Scan
  <1>1. TypeOK'
    BY DEF TypeOK, Places, UntilRelink, ListInv, EchoFirst
  <1>2. PoolInv' /\ PcbInv' /\ FlagInv'
    BY DEF TypeOK, PoolInv, PcbInv, FlagInv
  <1>3. UntilRelink'
    BY DEF UntilRelink, ListInv, PcbInv, EchoOnly, PcbFirst, EchoFirst
  <1>4. FieldInv'
    BY DEF FieldInv
  <1> QED
    BY <1>1, <1>2, <1>3, <1>4

LEMMA UnlinkKeeps == IInv /\ Unlink => IInv'
  <1> SUFFICES ASSUME IInv, Unlink PROVE IInv'
    OBVIOUS
  <1> USE DEF IInv, Unlink
  <1>1. pcb \in Pcbs \ {Echo} /\ ipcb \in Pcbs
    BY DEF PcbInv
  <1>2. next[pcb] \in Pcbs \cup {NULL} /\ next' \in [Pcbs -> Pcbs \cup {NULL}]
    BY <1>1 DEF TypeOK
  <1>3. TypeOK'
    BY <1>2 DEF TypeOK, Places
  <1>4. PoolInv' /\ PcbInv' /\ FlagInv'
    BY DEF PoolInv, PcbInv, FlagInv
  <1>5. FieldInv'
    BY DEF FieldInv
  <1>6. UntilRelink'
    <2> SUFFICES ASSUME ~relinked PROVE UntilRelink'
      BY DEF UntilRelink
    <2>1. EchoFirst /\ ipcb = Echo /\ ~hung
      BY DEF UntilRelink, ListInv
    <2>2. next' = [next EXCEPT ![Echo] = NULL] /\ ipcb' = NULL
      BY <2>1 DEF EchoFirst
    <2> QED
      BY <1>1, <2>1, <2>2 DEF TypeOK, UntilRelink, ListInv, EchoFirst, EchoOnly
  <1> QED
    BY <1>3, <1>4, <1>5, <1>6

LEMMA UdpFreeKeeps == IInv /\ UdpFree => IInv'
  <1> SUFFICES ASSUME IInv, UdpFree PROVE IInv'
    OBVIOUS
  <1>1. /\ pc = "free" /\ pc' = "delay" /\ pool' = <<pcb>> \o pool
        /\ local' = [local EXCEPT ![pcb] = local[pcb] /\ pool = <<>>]
        /\ pcb' = NULL /\ ipcb' = NULL
        /\ UNCHANGED <<udp_pcbs, next, remoteIp, remotePort, connected, flag, reg,
                       first, rebind, came, echoed, quiet, lost, hung, relinked>>
    BY DEF UdpFree
  <1>2. pcb \in Pcbs \ {Echo} /\ pool \in Seq(Pcbs)
    BY <1>1 DEF IInv, PcbInv, TypeOK
  <1>3. /\ pool' \in Seq(Pcbs) /\ Len(pool') = Len(pool) + 1 /\ Len(pool) \in Nat
        /\ \A i \in 1..Len(pool') : pool'[i] = IF i = 1 THEN pcb ELSE pool[i - 1]
    <2>1. <<pcb>> \in Seq(Pcbs) /\ Len(<<pcb>>) = 1 /\ <<pcb>>[1] = pcb
      BY <1>2
    <2>2. /\ pool' \in Seq(Pcbs) /\ Len(pool') = 1 + Len(pool)
          /\ \A i \in 1 .. 1 + Len(pool) :
               pool'[i] = IF i <= 1 THEN <<pcb>>[i] ELSE pool[i - 1]
      BY <1>1, <1>2, <2>1, ConcatProperties
    <2>3. Len(pool) \in Nat
      BY <1>2
    <2> QED
      BY <2>1, <2>2, <2>3
  <1>4. /\ \A i, j \in 1..Len(pool) : i # j => pool[i] # pool[j]
        /\ {pool[i] : i \in 1..Len(pool)} = Pcbs \ {Echo, pcb}
    BY DEF IInv, PoolInv
  <1>5. local' \in [Pcbs -> BOOLEAN]
    BY <1>1, <1>2 DEF IInv, TypeOK
  <1>6. TypeOK'
    BY <1>1, <1>3, <1>5 DEF IInv, TypeOK, Places
  <1>7. PoolInv'
    <2>1. \A i, j \in 1..Len(pool') : i # j => pool'[i] # pool'[j]
      <3> SUFFICES ASSUME NEW i \in 1..Len(pool'), NEW j \in 1..Len(pool'), i # j
                   PROVE  pool'[i] # pool'[j]
        OBVIOUS
      <3>1. ASSUME NEW k \in 1..Len(pool'), k # 1
            PROVE  k - 1 \in 1..Len(pool) /\ pool[k - 1] # pcb
        <4>1. k - 1 \in 1..Len(pool)
          BY <1>3, <3>1
        <4> QED
          BY <1>4, <4>1
      <3>2. CASE i = 1 \/ j = 1
        BY <1>3, <3>1, <3>2
      <3>3. CASE i # 1 /\ j # 1
        <4>1. i - 1 \in 1..Len(pool) /\ j - 1 \in 1..Len(pool) /\ i - 1 # j - 1
          BY <3>1, <3>3
        <4>2. pool[i - 1] # pool[j - 1]
          BY <1>4, <4>1
        <4> QED
          BY <1>3, <3>3, <4>2
      <3> QED
        BY <3>2, <3>3
    <2>2. ASSUME NEW i \in 1..Len(pool') PROVE pool'[i] \in Pcbs \ {Echo, NULL}
      <3>1. i # 1 => i - 1 \in 1..Len(pool) /\ pool[i - 1] \in Pcbs \ {Echo, pcb}
        BY <1>3, <1>4
      <3> QED
        BY <1>2, <1>3, <3>1
    <2>3. ASSUME NEW q \in Pcbs \ {Echo, NULL} PROVE \E i \in 1..Len(pool') : q = pool'[i]
      <3>1. CASE q = pcb
        BY <1>3, <3>1
      <3>2. CASE q # pcb
        <4>1. PICK i \in 1..Len(pool) : q = pool[i]
          BY <1>4, <3>2
        <4>2. i + 1 \in 1..Len(pool') /\ i + 1 # 1 /\ (i + 1) - 1 = i
          BY <1>3, <4>1
        <4> QED
          BY <1>3, <4>1, <4>2
      <3> QED
        BY <3>1, <3>2
    <2>4. {pool'[i] : i \in 1..Len(pool')} = Pcbs \ {Echo, NULL}
      BY <2>2, <2>3
    <2> QED
      BY <1>1, <2>1, <2>4 DEF PoolInv
  <1>8. PcbInv' /\ FlagInv'
    BY <1>1 DEF IInv, PcbInv, FlagInv
  <1>9. UntilRelink'
    BY <1>1 DEF IInv, UntilRelink, ListInv, EchoOnly
  <1>10. FieldInv'
    BY <1>1, <1>2 DEF IInv, TypeOK, FieldInv
  <1> QED
    BY <1>6, <1>7, <1>8, <1>9, <1>10 DEF IInv

-----------------------------------------------------------------------------
(***************************************************************************)
(* A datagram.                                                             *)
(***************************************************************************)

LEMMA BothListed ==
  ASSUME PcbFirst \/ EchoFirst, pcb \in Pcbs \ {Echo}
  PROVE  ~Endless /\ Listed = {Echo, pcb}
  <1>1. /\ DOMAIN Visited = Walks
        /\ {Visited[1], Visited[2]} = {Echo, pcb}
        /\ \A k \in Walks \ {1, 2} : Visited[k] = NULL
    BY Walk DEF PcbFirst, EchoFirst
  <1>2. {1, 2, 3} \subseteq Walks
    BY WalkLength
  <1> HIDE DEF Visited
  <1>3. Listed = {Echo, pcb}
    BY <1>1, <1>2 DEF Listed
  <1>4. ~Endless
    BY <1>1, <1>2 DEF Endless
  <1> QED
    BY <1>3, <1>4

LEMMA FirstIs ==
  ASSUME NEW S, NEW k \in S, \A l \in S : k <= l, S \subseteq Nat
  PROVE  First(S) = k
  <1>1. First(S) \in S /\ \A l \in S : First(S) <= l
    BY DEF First
  <1>2. First(S) <= k /\ k <= First(S)
    BY <1>1
  <1>3. First(S) \in Nat /\ k \in Nat
    BY <1>1
  <1> HIDE DEF First
  <1> QED
    BY <1>2, <1>3

LEMMA EchoMatches ==
  ASSUME IInv, NEW src \in Sources
  PROVE  /\ PerfectMatch(Echo, src) <=> src.port = 0
         /\ local[Echo] /\ ~connected[Echo]
  BY DEF IInv, FieldInv, PerfectMatch

(* While only Echo's control block is on the list, the datagram is echoed. *)
LEMMA EchoAlone ==
  ASSUME IInv, EchoOnly, NEW src \in Sources,
         DatagramMatched(src) \/ DatagramUnmatched(src)
  PROVE  UNCHANGED <<udp_pcbs, next>> /\ Deliver(Echo)
  <1>1. /\ DOMAIN Visited = Walks
        /\ Visited[1] = Echo /\ Visited[2] = NULL
        /\ \A k \in Walks \ {1, 2} : Visited[k] = NULL
    BY Walk DEF EchoOnly
  <1>2. {1, 2, 3} \subseteq Walks
    BY WalkLength
  <1> HIDE DEF Visited
  <1>3. Perfect(src) \subseteq {1} /\ Unconnected = {1}
    <2>1. \A k \in Walks : Visited[k] # NULL => k = 1
      BY <1>1
    <2>2. Perfect(src) \subseteq {1} /\ Unconnected \subseteq {1}
      BY <1>1, <2>1 DEF Perfect, Unconnected
    <2>3. Visited[1] # NULL /\ 1 \in DOMAIN Visited
      BY <1>1, <1>2, PcbsAssumption
    <2>4. 1 \in Unconnected
      BY <1>1, <2>3, EchoMatches DEF Unconnected
    <2> QED
      BY <2>2, <2>4
  <1>4. First({1}) = 1
    <2>1. 1 \in {1} /\ (\A l \in {1} : 1 <= l) /\ {1} \subseteq Nat
      OBVIOUS
    <2> QED
      BY <2>1, FirstIs
  <1>5. CASE DatagramMatched(src)
    <2>1. Perfect(src) = {1}
      BY <1>3, <1>5 DEF DatagramMatched
    <2> QED
      BY <1>1, <1>4, <1>5, <2>1 DEF DatagramMatched, MoveToFront
  <1>6. CASE DatagramUnmatched(src)
    BY <1>1, <1>3, <1>4, <1>6 DEF DatagramUnmatched
  <1> QED
    BY <1>5, <1>6

(* With zzsend's block on the list the two may change places. *)
LEMMA TwoBlocks ==
  ASSUME IInv, PcbFirst \/ EchoFirst, pcb \in Pcbs \ {Echo}, NEW src \in Sources,
         DatagramMatched(src) \/ DatagramUnmatched(src)
  PROVE  /\ \E p \in {Echo, pcb, NULL} : Deliver(p)
         /\ \/ UNCHANGED <<udp_pcbs, next>>
            \/ /\ PcbFirst /\ PerfectMatch(Echo, src) /\ ~PerfectMatch(pcb, src)
               /\ udp_pcbs' = Echo
               /\ next' = [next EXCEPT ![pcb] = NULL, ![Echo] = pcb]
            \/ /\ EchoFirst /\ PerfectMatch(pcb, src) /\ ~PerfectMatch(Echo, src)
               /\ udp_pcbs' = pcb
               /\ next' = [next EXCEPT ![Echo] = NULL, ![pcb] = Echo]
         /\ EchoFirst /\ (PerfectMatch(pcb, src) => PerfectMatch(Echo, src))
              => Deliver(Echo)
  <1> DEFINE a == IF PcbFirst THEN pcb ELSE Echo
             b == IF PcbFirst THEN Echo ELSE pcb
  <1>0. PcbFirst => ~EchoFirst
    BY DEF PcbFirst, EchoFirst
  <1>1. /\ udp_pcbs = a /\ next[a] = b /\ next[b] = NULL /\ a # b
        /\ a \in Pcbs /\ b \in Pcbs
    BY DEF PcbFirst, EchoFirst
  <1> HIDE DEF a, b
  <1>2. /\ DOMAIN Visited = Walks
        /\ Visited[1] = a /\ Visited[2] = b
        /\ \A k \in Walks \ {1, 2} : Visited[k] = NULL
    BY <1>1, Walk
  <1>3. {1, 2, 3} \subseteq Walks
    BY WalkLength
  <1> HIDE DEF Visited
  <1>4. /\ Perfect(src) \subseteq {1, 2}
        /\ 1 \in Perfect(src) <=> PerfectMatch(a, src)
        /\ 2 \in Perfect(src) <=> PerfectMatch(b, src)
        /\ Unconnected \subseteq {1, 2}
        /\ a = Echo => 1 \in Unconnected
    BY <1>1, <1>2, <1>3, EchoMatches DEF Perfect, Unconnected
  <1>5. \A S : S \subseteq {1, 2} /\ S # {} => First(S) = IF 1 \in S THEN 1 ELSE 2
    <2> SUFFICES ASSUME NEW S, S \subseteq {1, 2}, S # {}
                 PROVE  First(S) = IF 1 \in S THEN 1 ELSE 2
      OBVIOUS
    <2>1. CASE 1 \in S
      <3>1. (\A l \in S : 1 <= l) /\ S \subseteq Nat
        OBVIOUS
      <3>2. First(S) = 1
        BY <2>1, <3>1, FirstIs
      <3> QED
        BY <2>1, <3>2
    <2>2. CASE 1 \notin S
      <3>0. S = {2}
        BY <2>2
      <3>1. (\A l \in S : 2 <= l) /\ S \subseteq Nat /\ 2 \in S
        BY <3>0
      <3>2. First(S) = 2
        BY <3>1, FirstIs
      <3> QED
        BY <2>2, <3>2
    <2> QED
      BY <2>1, <2>2
  <1>6. CASE DatagramMatched(src)
    <2>1. Perfect(src) # {} /\ First(Perfect(src)) = IF 1 \in Perfect(src) THEN 1 ELSE 2
      BY <1>4, <1>5, <1>6 DEF DatagramMatched
    <2>2. CASE PerfectMatch(a, src)
      <3>1. First(Perfect(src)) = 1
        BY <1>4, <2>1, <2>2
      <3>2. UNCHANGED <<udp_pcbs, next>> /\ Deliver(a)
        BY <1>2, <1>6, <3>1 DEF DatagramMatched, MoveToFront
      <3> QED
        BY <1>0, <3>2 DEF a
    <2>3. CASE ~PerfectMatch(a, src)
      <3>1. First(Perfect(src)) = 2 /\ PerfectMatch(b, src)
        BY <1>4, <2>1, <2>3
      <3>2. /\ next' = [next EXCEPT ![a] = NULL, ![b] = a] /\ udp_pcbs' = b
            /\ Deliver(b)
        BY <1>1, <1>2, <1>6, <3>1 DEF DatagramMatched, MoveToFront
      <3> QED
        BY <1>0, <2>3, <3>1, <3>2 DEF a, b
    <2> QED
      BY <2>2, <2>3
  <1>7. CASE DatagramUnmatched(src)
    <2>1. UNCHANGED <<udp_pcbs, next>>
      BY <1>7 DEF DatagramUnmatched
    <2>2. CASE Unconnected = {}
      BY <1>0, <1>4, <1>7, <2>1, <2>2 DEF DatagramUnmatched, a
    <2>3. CASE Unconnected # {}
      <3>1. First(Unconnected) = IF 1 \in Unconnected THEN 1 ELSE 2
        BY <1>4, <1>5, <2>3
      <3>2. Deliver(IF 1 \in Unconnected THEN a ELSE b)
        BY <1>2, <1>7, <2>3, <3>1 DEF DatagramUnmatched
      <3> QED
        BY <1>0, <1>4, <2>1, <3>2 DEF a, b
    <2> QED
      BY <2>2, <2>3
  <1> QED
    BY <1>6, <1>7

(* A list that udp_connect has broken still holds nothing but control      *)
(* blocks, wherever the match is found in it.                              *)
LEMMA MoveTyped ==
  ASSUME IInv, NEW src \in Sources, DatagramMatched(src) \/ DatagramUnmatched(src)
  PROVE  udp_pcbs' \in Links /\ next' \in [Pcbs -> Links]
  <1>1. udp_pcbs \in Links /\ next \in [Pcbs -> Links]
    BY DEF IInv, TypeOK, Links
  <1>2. CASE DatagramUnmatched(src)
    BY <1>1, <1>2 DEF DatagramUnmatched, listVars
  <1>3. CASE DatagramMatched(src)
    <2>1. /\ DOMAIN Visited = Walks
          /\ \A k \in Walks : Visited[k] \in Links
          /\ \A k \in Walks \ {1} : Visited[k - 1] = NULL => Visited[k] = NULL
      BY <1>1, AnyWalk
    <2> HIDE DEF Visited
    <2>2. Walks \subseteq Nat /\ \A k \in Walks : k # 1 => k - 1 \in Walks
      BY WalkLength DEF Walks
    <2>3. Perfect(src) \subseteq Nat /\ Perfect(src) # {}
      BY <1>3, <2>1, <2>2 DEF Perfect, DatagramMatched
    <2>4. PICK k \in Perfect(src) : \A l \in Perfect(src) : k <= l
      BY <2>3, Minimum
    <2>5. First(Perfect(src)) = k
      BY <2>3, <2>4, FirstIs
    <2>6. k \in Walks /\ Visited[k] \in Pcbs
      BY <2>1, <2>4 DEF Perfect, Links
    <2>7. MoveToFront(k)
      BY <1>3, <2>5 DEF DatagramMatched
    <2>8. k # 1 => Visited[k - 1] \in Pcbs
      BY <2>1, <2>2, <2>6 DEF Links
    <2> QED
      BY <1>1, <2>6, <2>7, <2>8 DEF MoveToFront, Links
  <1> QED
    BY <1>2, <1>3

LEMMA DatagramKeeps == ASSUME IInv, NEW src \in Sources, Datagram(src) PROVE IInv'
  <1>1. /\ came < MaxDatagrams /\ came' = came + 1
        /\ DatagramMatched(src) \/ DatagramUnmatched(src)
        /\ UNCHANGED <<local, remoteIp, remotePort, connected, pool, pc, reg, pcb, ipcb,
                       first, rebind, hung, relinked>>
    BY DEF Datagram
  <1>2. pc \in OutOfList \/ pc \in InList \/ pc \in Removing \/ pc = "relink_head"
    BY DEF IInv, TypeOK, Places
  <1>3. \E p : Deliver(p)
    BY <1>1 DEF DatagramMatched, DatagramUnmatched
  <1>4. flag \in Nat /\ quiet \in Nat /\ echoed \in 0..came /\ came \in 0..MaxDatagrams
    BY DEF IInv, TypeOK
  <1>5. /\ flag' \in {0, flag} /\ echoed' \in {echoed, echoed + 1}
        /\ quiet' \in {0, quiet} /\ lost' \in BOOLEAN
        /\ \/ flag' = 0 /\ quiet' = 0 /\ (pc = "increment" => lost')
           \/ flag' = flag /\ quiet' = quiet /\ lost' = lost
    <2>1. PICK p : Deliver(p)
      BY <1>3
    <2>2. lost' \in BOOLEAN
      <3>1. lost \in BOOLEAN
        BY DEF IInv, TypeOK
      <3>2. CASE p = Echo
        BY <2>1, <3>2, Zenon DEF Deliver
      <3>3. CASE p # Echo
        BY <2>1, <3>1, <3>3 DEF Deliver
      <3> QED
        BY <3>2, <3>3
    <2>3. CASE p = Echo
      BY <2>1, <2>2, <2>3 DEF Deliver
    <2>4. CASE p # Echo
      BY <2>1, <2>2, <2>4 DEF Deliver
    <2> QED
      BY <2>3, <2>4
  <1>6. FlagInv'
    BY <1>1, <1>4, <1>5 DEF IInv, FlagInv
  <1>7. PoolInv' /\ PcbInv' /\ FieldInv'
    BY <1>1 DEF IInv, PoolInv, PcbInv, FieldInv
  <1>8. TypeOK'
    <2>1. udp_pcbs' \in Pcbs \cup {NULL} /\ next' \in [Pcbs -> Pcbs \cup {NULL}]
      BY <1>1, MoveTyped DEF Links
    <2> QED
      BY <1>1, <1>4, <1>5, <2>1 DEF IInv, TypeOK
  <1>9. UntilRelink'
    <2> SUFFICES ASSUME ~relinked PROVE UntilRelink'
      BY <1>1 DEF UntilRelink
    <2>1. ListInv /\ ~hung
      BY DEF IInv, UntilRelink
    <2>2. CASE EchoOnly
      <3>1. UNCHANGED <<udp_pcbs, next>>
        BY <1>1, <2>2, EchoAlone
      <3> QED
        BY <1>1, <2>1, <3>1 DEF UntilRelink, ListInv, EchoOnly, PcbFirst, EchoFirst
    <2>3. CASE ~EchoOnly
      <3>1. (PcbFirst \/ EchoFirst) /\ pcb \in Pcbs \ {Echo} /\ pc \notin OutOfList
        BY <1>2, <2>1, <2>3 DEF IInv, PcbInv, ListInv
      <3>2. \/ UNCHANGED <<udp_pcbs, next>>
            \/ /\ PcbFirst /\ PerfectMatch(Echo, src) /\ ~PerfectMatch(pcb, src)
               /\ udp_pcbs' = Echo
               /\ next' = [next EXCEPT ![pcb] = NULL, ![Echo] = pcb]
            \/ /\ EchoFirst /\ PerfectMatch(pcb, src) /\ ~PerfectMatch(Echo, src)
               /\ udp_pcbs' = pcb
               /\ next' = [next EXCEPT ![Echo] = NULL, ![pcb] = Echo]
        BY <1>1, <3>1, TwoBlocks
      <3>3. CASE UNCHANGED <<udp_pcbs, next>>
        BY <1>1, <2>1, <3>3 DEF UntilRelink, ListInv, EchoOnly, PcbFirst, EchoFirst
      <3>4. CASE ~UNCHANGED <<udp_pcbs, next>>
        <4>1. \/ PerfectMatch(Echo, src) /\ ~PerfectMatch(pcb, src)
              \/ PerfectMatch(pcb, src) /\ ~PerfectMatch(Echo, src)
          BY <3>2, <3>4
        <4>2. pc \notin Removing
          <5>1. pc \in Removing => (PerfectMatch(pcb, src) <=> src.port = 0)
            BY DEF IInv, FieldInv, PerfectMatch
          <5> QED
            BY <4>1, <5>1, EchoMatches
        <4>3. pc \in InList
          BY <1>2, <2>1, <3>1, <4>2 DEF ListInv
        <4>4. (PcbFirst \/ EchoFirst)'
          BY <1>1, <3>1, <3>2, <3>4 DEF IInv, TypeOK, PcbFirst, EchoFirst
        <4> QED
          BY <1>1, <2>1, <4>3, <4>4 DEF UntilRelink, ListInv
      <3> QED
        BY <3>3, <3>4
    <2> QED
      BY <2>2, <2>3
  <1> QED
    BY <1>6, <1>7, <1>8, <1>9 DEF IInv

(* The handler stays in its loop only when the list is closed.             *)
LEMMA OpenList ==
  ASSUME IInv, ~relinked
  PROVE  /\ ~Endless
         /\ \/ EchoOnly /\ Listed = {Echo}
            \/ /\ (PcbFirst \/ EchoFirst) /\ pcb \in Pcbs \ {Echo}
               /\ Listed = {Echo, pcb}
  <1>1. EchoOnly \/ ((PcbFirst \/ EchoFirst) /\ pcb \in Pcbs \ {Echo})
    BY DEF IInv, TypeOK, Places, UntilRelink, ListInv, PcbInv
  <1>2. CASE EchoOnly
    BY <1>2, EchoListed
  <1>3. CASE (PcbFirst \/ EchoFirst) /\ pcb \in Pcbs \ {Echo}
    BY <1>3, BothListed
  <1> QED
    BY <1>1, <1>2, <1>3

LEMMA DatagramHangsKeeps == ASSUME IInv, NEW src \in Sources, DatagramHangs(src) PROVE IInv'
  <1> USE DEF IInv, DatagramHangs
  <1>1. came \in 0..MaxDatagrams /\ echoed \in 0..came
    BY DEF TypeOK
  <1>2. TypeOK'
    BY <1>1 DEF TypeOK, Places
  <1>3. PoolInv' /\ PcbInv' /\ FlagInv'
    BY DEF PoolInv, PcbInv, FlagInv
  <1>4. FieldInv'
    BY DEF FieldInv
  <1>5. relinked' /\ UntilRelink'
    BY OpenList DEF UntilRelink
  <1> QED
    BY <1>2, <1>3, <1>4, <1>5

-----------------------------------------------------------------------------
(***************************************************************************)
(* The theorems.                                                           *)
(***************************************************************************)

LEMMA MainKeeps == IInv /\ MainStep => IInv'
  <1> SUFFICES ASSUME IInv, MainStep PROVE IInv'
    OBVIOUS
  <1>1. CASE ReadFlag \/ WriteFlag \/ TestFlag \/ UdpNew
    BY <1>1, ReadFlagKeeps, WriteFlagKeeps, TestFlagKeeps, UdpNewKeeps
  <1>2. CASE BindStart \/ ConnectStart
    BY <1>2, LoopStartKeeps DEF BindStart, ConnectStart
  <1>3. CASE BindLoop \/ UdpBind \/ BindLink
    BY <1>3, BindLoopKeeps, UdpBindKeeps, BindLinkKeeps
  <1>4. CASE UdpConnect \/ UdpDisconnect \/ UdpSend
    BY <1>4, ConnectingKeeps, UdpSendKeeps
  <1>5. CASE ConnectLoop \/ Relink \/ RelinkHead
    BY <1>5, ConnectLoopKeeps, RelinkKeeps, RelinkHeadKeeps
  <1>6. CASE RemoveTest \/ UnlinkHead \/ Scan \/ Unlink \/ UdpFree
    BY <1>6, RemoveTestKeeps, UnlinkHeadKeeps, ScanKeeps, UnlinkKeeps, UdpFreeKeeps
  <1> QED
    BY <1>1, <1>2, <1>3, <1>4, <1>5, <1>6 DEF MainStep

LEMMA StutterKeeps == IInv /\ UNCHANGED vars => IInv'
  <1> SUFFICES ASSUME IInv, UNCHANGED vars PROVE IInv'
    OBVIOUS
  <1> USE DEF IInv, vars
  <1>1. TypeOK' /\ PoolInv'
    BY DEF TypeOK, PoolInv
  <1>2. PcbInv' /\ FieldInv' /\ FlagInv'
    BY DEF PcbInv, FieldInv, FlagInv
  <1>3. UntilRelink'
    BY DEF UntilRelink, ListInv, EchoOnly, PcbFirst, EchoFirst
  <1> QED
    BY <1>1, <1>2, <1>3

LEMMA InvariantStep == IInv /\ [Next]_vars => IInv'
  <1> SUFFICES ASSUME IInv, [Next]_vars PROVE IInv'
    OBVIOUS
  <1>1. CASE UNCHANGED vars \/ Looping
    BY <1>1, StutterKeeps DEF Looping
  <1>2. CASE Main
    BY <1>2, MainKeeps DEF Main
  <1>3. CASE \E src \in Sources : Datagram(src) \/ DatagramHangs(src)
    BY <1>3, DatagramKeeps, DatagramHangsKeeps
  <1> QED
    BY <1>1, <1>2, <1>3 DEF Next

LEMMA Invariance == Spec => []IInv
  BY InitEstablishes, InvariantStep, PTL DEF Spec

(* Every variable keeps its type. *)
THEOREM TypeCorrect == Spec => []TypeOK
  <1>1. IInv => TypeOK
    BY DEF IInv
  <1> QED
    BY <1>1, Invariance, PTL

(* Control blocks are neither lost nor freed twice, so that udp_new always *)
(* finds one for zzsend, which does not test for NULL.                     *)
THEOREM PoolNeverEmpty == Spec => []PoolSound
  <1>1. ASSUME IInv, pc = "new" PROVE pool # <<>>
    <2>1. {pool[i] : i \in 1..Len(pool)} = Pcbs \ {Echo, NULL}
      BY <1>1 DEF IInv, PoolInv, PcbInv
    <2>2. PICK p \in Pcbs : p # Echo
      OBVIOUS
    <2>3. PICK i \in 1..Len(pool) : p = pool[i]
      BY <2>1, <2>2
    <2>4. Len(<<>>) = 0
      OBVIOUS
    <2> QED
      BY <2>3, <2>4
  <1>2. IInv => PoolSound
    BY <1>1 DEF IInv, PoolInv, PoolSound
  <1> QED
    BY <1>2, Invariance, PTL

(* Until udp_connect links a block, the list is intact at every statement  *)
(* of udp_bind, udp_connect and udp_remove, however the handler walks and  *)
(* reorders it in between, and the handler comes to its end.               *)
THEOREM ListAlwaysIntact == Spec => []ListIntact
  <1>1. ASSUME IInv, ~relinked PROVE ListIntact
    <2>1. ListInv /\ ~hung /\ ~Endless
      BY <1>1, OpenList DEF IInv, UntilRelink
    <2>2. CASE EchoOnly /\ Listed = {Echo}
      <3>1. pcb # Echo /\ ~HelloBound
        BY <2>1, <2>2, <1>1 DEF IInv, PcbInv, ListInv, HelloBound, EchoOnly, PcbFirst, EchoFirst
      <3> QED
        BY <2>1, <2>2, <3>1 DEF ListIntact
    <2>3. CASE ~EchoOnly
      <3>1. HelloBound \/ pc \in {"scan", "unlink"}
        BY <1>1, <2>1, <2>3 DEF IInv, TypeOK, Places, ListInv, HelloBound
      <3>2. Listed = {Echo, pcb}
        BY <1>1, <2>3, OpenList
      <3> QED
        BY <2>1, <3>1, <3>2 DEF ListIntact
    <2> QED
      BY <1>1, <2>2, <2>3, OpenList, EchoListed
  <1>2. IInv => ListIntact
    BY <1>1 DEF ListIntact
  <1> QED
    BY <1>2, Invariance, PTL

(* A datagram with source port 0 and one from the peer and port of "hello!"*)
(* can make udp_connect link a block that is on the list; one of them      *)
(* alone cannot, however many come.                                        *)
NeverBoth ==
  \/ \A src \in Sources : src.port # 0
  \/ \A src \in Sources : ~(src.ip = Peer /\ src.port = HelloPort)

Unbroken ==
  /\ ~relinked /\ pc \notin {"relink", "relink_head"}
  /\ pc = "connect_loop" => ipcb = pcb \/ (ipcb = Echo /\ EchoFirst)
  /\ (\A src \in Sources : src.port # 0) /\ pc \in InList => PcbFirst

(* The steps of the main loop as far as Unbroken goes.                     *)
LEMMA UnbrokenMain ==
  ASSUME IInv, Unbroken, MainStep
  PROVE  Unbroken'
  <1>1. ListInv /\ PcbInv
    BY DEF IInv, UntilRelink, Unbroken
  <1>2. CASE ConnectStart
    BY <1>1, <1>2 DEF ConnectStart, LoopStart, Unbroken, ListInv, PcbFirst, EchoFirst
  <1>3. CASE ConnectLoop
    <2>1. pc = "connect_loop" /\ pcb \in Pcbs \ {Echo}
      BY <1>1, <1>3 DEF ConnectLoop, PcbInv
    <2>2. CASE ipcb = pcb
      BY <1>3, <2>1, <2>2 DEF ConnectLoop, Unbroken, PcbFirst
    <2>3. CASE ipcb = Echo /\ EchoFirst
      <3>1. ipcb' = pcb /\ pc' = "connect_loop"
        BY <1>3, <2>1, <2>3 DEF ConnectLoop, EchoFirst
      <3> QED
        BY <1>3, <2>1, <3>1 DEF ConnectLoop, Unbroken, PcbFirst
    <2> QED
      BY <2>1, <2>2, <2>3 DEF Unbroken
  <1>4. CASE Relink \/ RelinkHead
    BY <1>4 DEF Relink, RelinkHead, Unbroken
  <1>5. CASE BindLink
    BY <1>1, <1>5 DEF BindLink, Unbroken, ListInv, EchoOnly, PcbFirst
  <1>6. CASE BindStart \/ BindLoop \/ UdpBind
    <2>1. pc \in {"bind", "bind_loop"} /\ (pc = "bind_loop" => ~rebind)
      BY <1>1, <1>6 DEF BindStart, LoopStart, BindLoop, UdpBind, ListInv
    <2>2. pc' \in {"bind_loop", "link"} /\ relinked' = relinked
      BY <1>6, <2>1 DEF BindStart, LoopStart, BindLoop, UdpBind
    <2> QED
      BY <2>2 DEF Unbroken
  <1>7. CASE UdpConnect \/ UdpSend \/ UdpDisconnect
    <2>1. /\ pc \in InList /\ pc' \in InList /\ pc' \notin {"connect_loop", "relink"}
          /\ UNCHANGED <<udp_pcbs, next, pcb, relinked>>
      BY <1>7 DEF UdpConnect, UdpSend, UdpDisconnect, SetIp, SetPort, SetConnected
    <2> QED
      BY <2>1 DEF Unbroken, PcbFirst
  <1>8. CASE ReadFlag \/ WriteFlag \/ TestFlag \/ UdpNew \/ RemoveTest \/ UnlinkHead
             \/ Scan \/ Unlink \/ UdpFree
    <2>1. pc' \in NoPcb \cup Removing \cup {"bind", "free"} /\ relinked' = relinked
      BY <1>8 DEF ReadFlag, WriteFlag, TestFlag, UdpNew, RemoveTest, UnlinkHead, Scan,
                  Unlink, UdpFree
    <2> QED
      BY <2>1 DEF Unbroken
  <1> QED
    BY <1>2, <1>3, <1>4, <1>5, <1>6, <1>7, <1>8 DEF MainStep

LEMMA UnbrokenDatagram ==
  ASSUME IInv, Unbroken, NeverBoth, NEW src \in Sources, Datagram(src)
  PROVE  Unbroken'
  <1>1. /\ DatagramMatched(src) \/ DatagramUnmatched(src)
        /\ UNCHANGED <<pc, pcb, ipcb, relinked>>
    BY DEF Datagram
  <1>2. CASE UNCHANGED <<udp_pcbs, next>>
    BY <1>1, <1>2 DEF Unbroken, PcbFirst, EchoFirst
  <1>3. CASE ~UNCHANGED <<udp_pcbs, next>>
    <2>1. (PcbFirst \/ EchoFirst) /\ pcb \in Pcbs \ {Echo}
      BY <1>1, <1>3, OpenList, EchoAlone DEF Unbroken
    <2>2. \/ PcbFirst /\ PerfectMatch(Echo, src)
          \/ EchoFirst /\ PerfectMatch(pcb, src) /\ ~PerfectMatch(Echo, src)
      BY <1>1, <1>3, <2>1, TwoBlocks
    <2>3. ~(PcbFirst /\ EchoFirst)
      BY <2>1 DEF PcbFirst, EchoFirst
    <2>4. (\A s \in Sources : s.port # 0) => pc \notin InList
      BY <2>2, <2>3, EchoMatches DEF Unbroken
    <2>5. pc = "connect_loop" => ipcb = pcb
      <3> SUFFICES ASSUME pc = "connect_loop", ipcb # pcb PROVE FALSE
        OBVIOUS
      <3>1. EchoFirst
        BY DEF Unbroken
      <3>2. remoteIp[pcb] = Peer /\ remotePort[pcb] = HelloPort
        BY DEF IInv, FieldInv
      <3>3. src.port = HelloPort /\ src.ip = Peer
        BY <2>2, <2>3, <3>1, <3>2, SourcesAssumption DEF PerfectMatch
      <3>4. \A s \in Sources : s.port # 0
        BY <3>3 DEF NeverBoth
      <3> QED
        BY <2>4, <3>4
    <2> QED
      BY <1>1, <2>4, <2>5 DEF Unbroken
  <1> QED
    BY <1>2, <1>3

(* Where datagrams of only one of the two kinds come, udp_connect never    *)
(* links a block that is on the list: ListIntact and MissedOnlyWhileBound  *)
(* then hold for ever.                                                     *)
THEOREM NeverRelinked == ASSUME NeverBoth PROVE Spec => []~relinked
  <1>1. Init => Unbroken
    BY DEF Init, Unbroken
  <1>2. ASSUME IInv, Unbroken, [Next]_vars PROVE Unbroken'
    <2>1. CASE UNCHANGED vars \/ Looping
      BY <1>2, <2>1 DEF Looping, vars, Unbroken, PcbFirst, EchoFirst
    <2>2. CASE Main
      BY <1>2, <2>2, UnbrokenMain DEF Main
    <2>3. CASE \E src \in Sources : Datagram(src)
      BY <1>2, <2>3, UnbrokenDatagram
    <2>4. CASE \E src \in Sources : DatagramHangs(src)
      BY <1>2, <2>4, OpenList DEF DatagramHangs, Unbroken
    <2> QED
      BY <1>2, <2>1, <2>2, <2>3, <2>4 DEF Next
  <1>3. IInv /\ Unbroken /\ [Next]_vars => Unbroken'
    BY <1>2
  <1>4. Unbroken => ~relinked
    BY DEF Unbroken
  <1> QED
    BY <1>1, <1>3, <1>4, Invariance, PTL DEF Spec

(* Only the main loop's test leads to udp_new, and only a datagram counts. *)
LEMMA StepsOf ==
  ASSUME IInv, [Next]_vars
  PROVE  /\ pc = "test" /\ pc' = "new" => TestFlag
         /\ came' # came => \E src \in Sources : Datagram(src) \/ DatagramHangs(src)
  <1>1. CASE UNCHANGED vars \/ Looping
    BY <1>1 DEF vars, Looping
  <1>2. CASE \E src \in Sources : Datagram(src) \/ DatagramHangs(src)
    BY <1>2 DEF Datagram, DatagramHangs
  <1>3. CASE Main
    BY <1>3 DEF Main, MainStep, ReadFlag, WriteFlag, TestFlag, UdpNew, BindStart,
       LoopStart, BindLoop, UdpBind, BindLink, UdpConnect, ConnectStart, ConnectLoop,
       Relink, RelinkHead, UdpSend, UdpDisconnect, RemoveTest, UnlinkHead, Scan, Unlink,
       UdpFree, SetIp, SetPort, SetConnected
  <1> QED
    BY <1>1, <1>2, <1>3 DEF Next

(* "hello!" needs two quiet rounds, or an echo that fell into flag++.      *)
THEOREM HelloOnlyAfterQuiet == Spec => HelloNeedsQuiet
  <1>1. ASSUME IInv, [Next]_vars, pc = "test", pc' = "new" PROVE quiet >= 2 \/ lost
    <2>1. flag > 1
      BY <1>1, StepsOf DEF TestFlag
    <2>2. flag \in Nat /\ quiet \in Nat /\ (flag <= quiet \/ lost)
      BY <1>1 DEF IInv, TypeOK, FlagInv
    <2> QED
      BY <2>1, <2>2
  <1>2. IInv /\ [Next]_vars => [(pc = "test" /\ pc' = "new") => (quiet >= 2 \/ lost)]_vars
    BY <1>1
  <1> QED
    BY <1>2, Invariance, PTL DEF Spec, HelloNeedsQuiet

(* Until udp_connect links a block, a datagram misses the echo service     *)
(* only while zzsend is bound, and not while udp_remove looks for its      *)
(* block behind Echo's.                                                    *)
THEOREM MissedOnlyThen == Spec => MissedOnlyWhileBound
  <1>1. ASSUME IInv, [Next]_vars, came' > came, echoed' = echoed
        PROVE  HelloBound \/ relinked
    <2> SUFFICES ASSUME ~relinked PROVE HelloBound
      OBVIOUS
    <2>1. came \in Nat /\ echoed \in Nat
      BY <1>1 DEF IInv, TypeOK
    <2>2. PICK src \in Sources : Datagram(src)
      <3>1. PICK src \in Sources : Datagram(src) \/ DatagramHangs(src)
        BY <1>1, <2>1, StepsOf
      <3>2. ~DatagramHangs(src)
        BY <1>1, OpenList DEF DatagramHangs
      <3> QED
        BY <3>1, <3>2
    <2>3. ASSUME ~HelloBound PROVE Deliver(Echo)
      <3>1. CASE EchoOnly
        BY <1>1, <2>2, <3>1, EchoAlone DEF Datagram
      <3>2. CASE ~EchoOnly
        <4>1. pc \in {"scan", "unlink"} /\ EchoFirst /\ pcb \in Pcbs \ {Echo}
          BY <1>1, <2>3, <3>2 DEF IInv, TypeOK, Places, PcbInv, UntilRelink, ListInv,
                                 HelloBound
        <4>2. PerfectMatch(pcb, src) <=> PerfectMatch(Echo, src)
          BY <1>1, <4>1 DEF IInv, FieldInv, PerfectMatch
        <4>3. DatagramMatched(src) \/ DatagramUnmatched(src)
          BY <2>2 DEF Datagram
        <4> QED
          BY <1>1, <4>1, <4>2, <4>3, TwoBlocks
      <3> QED
        BY <3>1, <3>2
    <2>4. ~Deliver(Echo)
      BY <1>1, <2>1 DEF Deliver
    <2> QED
      BY <2>3, <2>4
  <1>2. IInv /\ [Next]_vars
          => [(came' > came /\ echoed' = echoed) => HelloBound \/ relinked]_vars
    BY <1>1
  <1> QED
    BY <1>2, Invariance, PTL DEF Spec, MissedOnlyWhileBound
=============================================================================
