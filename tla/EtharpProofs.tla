----------------------------- MODULE EtharpProofs -----------------------------
(***************************************************************************)
(* Proofs about Etharp, for a table of any size, any hosts, any number of  *)
(* hardware addresses and a pool of any size, with a timer or without.     *)
(* Addresses and entries come first; the queues rest on them.              *)
(***************************************************************************)
EXTENDS Etharp, FiniteSetTheorems, WellFoundedInduction, TLAPS

(***************************************************************************)
(* What the proof needs of the types.                                      *)
(***************************************************************************)
TableOK ==
  /\ table \in [Entries -> Entry]
  /\ cached \in Entries
  /\ made \in 0 .. MaxPackets
  /\ heard \in [Hosts -> Macs]

(***************************************************************************)
(* An entry in use is that of a host, and no other is.                     *)
(***************************************************************************)
KeyInv ==
  /\ \A i \in Entries \ Empty : table[i].ip \in Hosts
  /\ \A i, j \in Entries \ Empty : table[i].ip = table[j].ip => i = j

(***************************************************************************)
(* A stable entry has the hardware address last heard: who is heard has    *)
(* the entry, or there is none.                                            *)
(***************************************************************************)
MacInv == \A i \in Stable : table[i].mac = heard[table[i].ip]

IInv == TableOK /\ KeyInv /\ MacInv
-----------------------------------------------------------------------------
(***************************************************************************)
(* What the assumptions on the constants say, part by part.                *)
(***************************************************************************)
LEMMA Addresses ==
  /\ Gateway \in Hosts /\ AnyAddr \notin Hosts
  /\ Macs # {} /\ NULL \notin Entries
  BY AddressAssumption DEF AddressAssumption, Entries

LEMMA Sizes ==
  /\ TableSize \in Nat /\ TableSize > 0 /\ MaxPackets \in Nat
  /\ MaxAge \in Nat /\ MaxPending \in Nat
  /\ MaxPending > 0 /\ MaxPending <= MaxAge
  BY SizeAssumption DEF SizeAssumption

(***************************************************************************)
(* A set of numbers that is not empty has a least element, and one that is *)
(* bounded a greatest.                                                     *)
(***************************************************************************)
LEMMA Least ==
  ASSUME NEW T, T \subseteq Nat, T # {}
  PROVE  Min(T) \in T
  <1>1. PICK x \in T : \A y \in T : ~(<<y, x>> \in OpToRel(<, Nat))
    BY NatLessThanWellFounded, WFMin
  <1>2. \A y \in T : x <= y
    <2>1. ASSUME NEW y \in T PROVE x <= y
      <3>1. <<y, x>> \notin OpToRel(<, Nat)
        BY <1>1
      <3>2. x \in Nat /\ y \in Nat
        OBVIOUS
      <3>3. ~(y < x)
        BY <3>1, <3>2 DEF OpToRel
      <3> QED
        BY <3>2, <3>3
    <2> QED
      BY <2>1
  <1> QED
    BY <1>2 DEF Min

LEMMA Greatest ==
  ASSUME NEW T, NEW n \in Nat, T \subseteq 0 .. n, T # {}
  PROVE  \E x \in T : \A y \in T : y <= x
  <1> DEFINE U == {n - x : x \in T}
  <1>1. U \subseteq Nat /\ U # {}
    <2>1. \A x \in T : n - x \in Nat
      OBVIOUS
    <2> QED
      BY <2>1
  <1>2. PICK u \in U : \A v \in U : ~(<<v, u>> \in OpToRel(<, Nat))
    BY <1>1, NatLessThanWellFounded, WFMin
  <1>3. PICK x \in T : u = n - x
    BY <1>2
  <1>4. ASSUME NEW y \in T PROVE y <= x
    <2>1. n - y \in U /\ n - y \in Nat /\ n - x \in Nat /\ x \in Nat /\ y \in Nat
      BY <1>1
    <2>2. <<n - y, n - x>> \notin OpToRel(<, Nat)
      BY <1>2, <1>3, <2>1
    <2>3. ~(n - y < n - x)
      BY <2>1, <2>2 DEF OpToRel
    <2> QED
      BY <2>1, <2>3
  <1> QED
    BY <1>4

(***************************************************************************)
(* There is an oldest of the entries of a set, and of several a last one.  *)
(***************************************************************************)
LEMMA OldestIs ==
  ASSUME TableOK, NEW S, S \subseteq Entries, S # {}
  PROVE  Oldest(S) \in S
  <1> DEFINE times == {table[i].ctime : i \in S}
  <1>1. \A i \in S : table[i].ctime \in 0 .. MaxAge - 1
    BY DEF TableOK, Entry
  <1>2. PICK t \in times : \A u \in times : u <= t
    <2>1. times \subseteq 0 .. MaxAge /\ times # {} /\ MaxAge \in Nat
      BY <1>1, Sizes
    <2> QED
      BY <2>1, Greatest
  <1> DEFINE old == {i \in S : table[i].ctime = t}
  <1>3. PICK i \in old : \A j \in old : j <= i
    <2>1. old \subseteq 0 .. TableSize /\ TableSize \in Nat
      <3>1. Entries \subseteq 0 .. TableSize /\ TableSize \in Nat
        BY Sizes DEF Entries
      <3>2. old \subseteq S
        OBVIOUS
      <3> QED
        BY <3>1, <3>2
    <2>2. old # {}
      BY <1>2
    <2> QED
      BY <2>1, <2>2, Greatest
  <1>4. i \in S /\ table[i].ctime = t /\ i \in Nat
    BY <1>3, Sizes DEF Entries
  <1>5. ASSUME NEW j \in S \ {i}
        PROVE  \/ table[j].ctime < table[i].ctime
               \/ table[j].ctime = table[i].ctime /\ j < i
    <2>1. table[j].ctime \in Nat /\ t \in Nat /\ j \in Nat /\ j # i
      BY <1>1, <1>2, <1>4, Sizes DEF Entries
    <2>2. table[j].ctime <= t
      BY <1>2
    <2>3. table[j].ctime = t => j <= i
      BY <1>3
    <2> QED
      BY <1>4, <2>1, <2>2, <2>3
  <1> QED
    BY <1>4, <1>5 DEF Oldest

(***************************************************************************)
(* What find_entry returns is the one entry of the address or, if it has   *)
(* none, an entry to recycle or an error, and the latter only when no      *)
(* entry may be recycled.                                                  *)
(***************************************************************************)
LEMMA FindEntryIs ==
  ASSUME TableOK, KeyInv, NEW ip \in Hosts, NEW hard \in BOOLEAN
  PROVE  LET i == FindEntry(ip, hard)
         IN  /\ Matches(ip) \subseteq {i}
             /\ i \in Entries \/ (i = NULL /\ Matches(ip) = {} /\ ~hard)
  <1>1. /\ Matches(ip) \subseteq Entries /\ Entries \subseteq Nat
        /\ Empty \subseteq Entries /\ Stable \subseteq Entries
        /\ Pending \subseteq Entries /\ Queueing \subseteq Pending
    BY DEF Matches, Entries, Empty, Stable, Pending, Queueing
  <1>2. \A i, j \in Matches(ip) : i = j
    BY DEF Matches, KeyInv
  <1>3. CASE Matches(ip) # {}
    <2>1. Found(ip) \in Matches(ip)
      <3>1. Min(Matches(ip)) \in Matches(ip)
        BY <1>1, <1>3, Least
      <3> QED
        BY <3>1 DEF Found
    <2>2. FindEntry(ip, hard) = Found(ip)
      BY <1>3 DEF FindEntry
    <2> QED
      BY <1>1, <1>2, <2>1, <2>2
  <1>4. CASE Matches(ip) = {}
    <2>1. Victim \in Entries
      <3>1. Empty # {} => Min(Empty) \in Entries
        BY <1>1, Least
      <3>2. \A S \in SUBSET Entries : S # {} => Oldest(S) \in Entries
        BY OldestIs
      <3>3. Empty = {} /\ Stable = {} /\ Pending \ Queueing = {} => Queueing # {}
        <4>1. 1 \in Entries
          BY Sizes DEF Entries
        <4>2. table[1].state \in {"empty", "pending", "stable"}
          BY <4>1 DEF TableOK, Entry
        <4> QED
          BY <4>1, <4>2 DEF Empty, Stable, Pending
      <3> QED
        BY <1>1, <3>1, <3>2, <3>3 DEF Victim
    <2> QED
      BY <1>4, <2>1 DEF FindEntry
  <1> QED
    BY <1>3, <1>4
-----------------------------------------------------------------------------
LEMMA InitEstablishes == Init => IInv
  <1> SUFFICES ASSUME Init PROVE IInv
    OBVIOUS
  <1>1. NoEntry \in Entry /\ NoEntry.state = "empty"
    BY Sizes DEF NoEntry, Entry
  <1>2. (CHOOSE m \in Macs : TRUE) \in Macs
    BY Addresses
  <1>3. TableOK
    BY <1>1, <1>2, Sizes DEF Init, TableOK, Entries
  <1>4. Empty = Entries
    BY <1>1 DEF Init, Empty
  <1>5. Stable = {}
    BY <1>1 DEF Init, Stable
  <1> QED
    BY <1>3, <1>4, <1>5 DEF IInv, KeyInv, MacInv

(***************************************************************************)
(* A change of the one entry that may be that of ip keeps the invariant,   *)
(* also when ip is heard at the same time.                                 *)
(***************************************************************************)
LEMMA EntryKeeps ==
  ASSUME IInv, NEW ip \in Hosts, NEW i \in Entries, Matches(ip) \subseteq {i},
         NEW e \in Entry, e.state # "empty", e.ip = ip,
         table' = [table EXCEPT ![i] = e],
         heard' \in [Hosts -> Macs],
         \A h \in Hosts \ {ip} : heard'[h] = heard[h],
         e.state = "stable" => e.mac = heard'[ip]
  PROVE  /\ table' \in [Entries -> Entry]
         /\ KeyInv' /\ MacInv'
  <1>1. table \in [Entries -> Entry]
    BY DEF IInv, TableOK
  <1>2. table' \in [Entries -> Entry] /\ table'[i] = e
        /\ \A j \in Entries \ {i} : table'[j] = table[j]
    BY <1>1
  <1>3. ASSUME NEW j \in Entries \ {i}, j \notin Empty'
        PROVE  j \notin Empty /\ table[j].ip \in Hosts \ {ip}
    <2>1. j \notin Empty
      BY <1>2, <1>3 DEF Empty
    <2>2. table[j].ip \in Hosts
      BY <2>1 DEF IInv, KeyInv
    <2>3. j \notin Matches(ip)
      OBVIOUS
    <2> QED
      BY <2>1, <2>2, <2>3 DEF Matches
  <1>4. KeyInv'
    <2>1. ASSUME NEW j \in (Entries \ Empty)' PROVE table'[j].ip \in Hosts
      BY <1>2, <1>3 DEF Entries
    <2>2. ASSUME NEW j \in (Entries \ Empty)', NEW k \in (Entries \ Empty)',
                 table'[j].ip = table'[k].ip
          PROVE  j = k
      <3>1. CASE j # i /\ k # i
        BY <1>2, <1>3, <2>2, <3>1 DEF IInv, KeyInv, Entries
      <3>2. CASE j = i /\ k # i
        BY <1>2, <1>3, <2>2, <3>2 DEF Entries
      <3>3. CASE j # i /\ k = i
        BY <1>2, <1>3, <2>2, <3>3 DEF Entries
      <3> QED
        BY <3>1, <3>2, <3>3
    <2> QED
      BY <2>1, <2>2 DEF KeyInv
  <1>5. MacInv'
    <2> SUFFICES ASSUME NEW j \in Stable' PROVE table'[j].mac = heard'[table'[j].ip]
      BY DEF MacInv
    <2>1. j \in Entries /\ table'[j].state = "stable" /\ j \notin Empty'
      BY DEF Stable, Empty, Entries
    <2>2. CASE j = i
      BY <1>2, <2>1, <2>2
    <2>3. CASE j # i
      <3>1. j \in Stable /\ table[j].ip \in Hosts \ {ip} /\ table'[j] = table[j]
        BY <1>2, <1>3, <2>1, <2>3 DEF Stable
      <3> QED
        BY <3>1 DEF IInv, MacInv
    <2> QED
      BY <2>2, <2>3
  <1> QED
    BY <1>2, <1>4, <1>5

(***************************************************************************)
(* update_arp_entry, when the sender it is called for has just been heard. *)
(***************************************************************************)
LEMMA UpdateKeeps ==
  ASSUME IInv, NEW ip \in Hosts \cup {AnyAddr}, NEW mac \in Macs,
         NEW hard \in BOOLEAN, Update(ip, mac, hard), UNCHANGED made,
         heard' = IF ip = AnyAddr THEN heard ELSE [heard EXCEPT ![ip] = mac]
  PROVE  IInv' /\ \A k \in DOMAIN out' : out'[k].to = heard'[out'[k].hop]
  <1> USE DEF IInv
  <1>1. CASE ip = AnyAddr
    <2>1. out' = <<>> /\ UNCHANGED <<table, cached, made, heard>>
      BY <1>1 DEF Update, SendNothing
    <2>2. IInv'
      BY <2>1 DEF TableOK, KeyInv, MacInv, Stable, Empty
    <2> QED
      BY <2>1, <2>2
  <1>2. CASE ip # AnyAddr
    <2> DEFINE i == FindEntry(ip, hard)
    <2>1. ip \in Hosts /\ heard' = [heard EXCEPT ![ip] = mac]
      BY <1>2
    <2>2. /\ heard' \in [Hosts -> Macs] /\ heard'[ip] = mac
          /\ \A h \in Hosts \ {ip} : heard'[h] = heard[h]
      BY <2>1 DEF TableOK
    <2>3. /\ Matches(ip) \subseteq {i}
          /\ i \in Entries \/ (i = NULL /\ Matches(ip) = {} /\ ~hard)
      BY <2>1, FindEntryIs
    <2>4. CASE i = NULL
      <3>1. out' = <<>> /\ UNCHANGED <<table, cached>> /\ Matches(ip) = {}
        <4> QED
          BY <1>2, <2>3, <2>4, Addresses DEF Update, SendNothing
      <3>2. KeyInv' /\ Stable' = Stable
        BY <3>1 DEF KeyInv, Empty, Stable
      <3>3. MacInv'
        <4> SUFFICES ASSUME NEW j \in Stable
                     PROVE  table[j].mac = heard'[table[j].ip]
          BY <3>1, <3>2 DEF MacInv
        <4>1. j \in Entries \ Empty /\ j \notin Matches(ip)
          BY <3>1 DEF Stable, Empty
        <4>2. table[j].ip \in Hosts \ {ip}
          BY <4>1 DEF Matches, KeyInv
        <4> QED
          BY <2>2, <4>2 DEF MacInv
      <3> QED
        BY <2>2, <3>1, <3>2, <3>3 DEF TableOK
    <2>5. CASE i # NULL
      <3> DEFINE e == Confirmed(i, ip, mac)
      <3>1. /\ i \in Entries
            /\ table' = [table EXCEPT ![i] = e] /\ cached' = i
            /\ Send(Flushed(i, ip), ip, mac)
        BY <1>2, <2>3, <2>5 DEF Update
      <3>2. /\ e \in Entry /\ e.state = "stable" /\ e.ip = ip /\ e.mac = mac
        BY <2>1, Sizes DEF Confirmed, Entry
      <3>3. table' \in [Entries -> Entry] /\ KeyInv' /\ MacInv'
        <4> HIDE DEF i, e
        <4> QED
          BY <2>1, <2>2, <2>3, <3>1, <3>2, EntryKeeps
      <3>4. IInv'
        BY <2>2, <3>1, <3>3 DEF TableOK, Entries
      <3>5. ASSUME NEW k \in DOMAIN out' PROVE out'[k].to = heard'[out'[k].hop]
        BY <2>2, <3>1, <3>5 DEF Send
      <3> QED
        BY <3>4, <3>5
    <2> QED
      BY <2>4, <2>5
  <1> QED
    BY <1>1, <1>2

(***************************************************************************)
(* etharp_query: the packet is sent to what a stable entry says, or joins  *)
(* the queue of a pending one.                                             *)
(***************************************************************************)
LEMMA QueryKeeps ==
  ASSUME IInv, NEW ip \in Hosts, made < MaxPackets, made' = made + 1,
         Query(ip, made + 1), UNCHANGED heard
  PROVE  IInv' /\ \A k \in DOMAIN out' : out'[k].to = heard'[out'[k].hop]
  <1> USE DEF IInv
  <1> DEFINE i == FindEntry(ip, TRUE)
  <1>1. i \in Entries /\ Matches(ip) \subseteq {i} /\ cached' = i
    BY FindEntryIs DEF Query
  <1>2. made' \in 0 .. MaxPackets /\ made + 1 \in Packets
    BY Sizes DEF TableOK, Packets
  <1>3. CASE /\ i \in Matches(ip) \cap Stable
             /\ Send(<<made + 1>>, ip, table[i].mac)
             /\ UNCHANGED table
    <2>1. table[i].mac = heard'[ip]
      BY <1>3 DEF Matches, MacInv
    <2>2. IInv'
      BY <1>1, <1>2, <1>3
      DEF TableOK, KeyInv, MacInv, Stable, Empty, Entries
    <2> QED
      BY <1>3, <2>1, <2>2 DEF Send
  <1>4. CASE /\ i \notin Matches(ip) \cap Stable /\ SendNothing
             /\ \E copied \in BOOLEAN : Enqueue(i, ip, made + 1, copied)
    <2> DEFINE old == IF i \in Matches(ip) THEN table[i]
                      ELSE [NoEntry EXCEPT !.state = "pending", !.ip = ip]
               more == [old EXCEPT !.q = Joined(@, made + 1)]
    <2>1. /\ old \in Entry /\ old.state = "pending" /\ old.ip = ip
      <3>1. CASE i \in Matches(ip)
        <4>1. /\ table[i] \in Entry /\ table[i].state # "empty"
              /\ table[i].state # "stable" /\ table[i].ip = ip
          BY <1>1, <1>4, <3>1 DEF TableOK, Matches, Empty, Stable
        <4> QED
          BY <3>1, <4>1 DEF Entry
      <3>2. CASE i \notin Matches(ip)
        <4>1. old = [state |-> "pending", ip |-> ip, mac |-> NULL,
                     ctime |-> 0, q |-> <<>>]
          BY <3>2 DEF NoEntry
        <4>2. 0 \in 0 .. MaxAge - 1 /\ <<>> \in Seq(Packets)
          BY Sizes
        <4>3. [state |-> "pending", ip |-> ip, mac |-> NULL, ctime |-> 0,
               q |-> <<>>] \in Entry
          BY <4>2 DEF Entry
        <4> HIDE DEF old
        <4> QED
          BY <4>1, <4>3
      <3> QED
        BY <3>1, <3>2
    <2>2. /\ more \in Entry /\ more.state = "pending" /\ more.ip = ip
      <3> HIDE DEF old
      <3>1. Append(old.q, made + 1) \in Seq(Packets)
        BY <1>2, <2>1 DEF Entry
      <3> QED
        BY <2>1, <3>1 DEF Entry, Joined
    <2>3. PICK e \in {old, more} : table' = [table EXCEPT ![i] = e]
      BY <1>4 DEF Enqueue
    <2>4. e \in Entry /\ e.state = "pending" /\ e.ip = ip
      BY <2>1, <2>2, <2>3
    <2>5. table' \in [Entries -> Entry] /\ KeyInv' /\ MacInv'
      <3>1. heard' \in [Hosts -> Macs] /\ \A h \in Hosts \ {ip} : heard'[h] = heard[h]
        BY DEF TableOK
      <3> HIDE DEF i, old, more
      <3> QED
        BY <1>1, <2>3, <2>4, <3>1, EntryKeeps
    <2>6. IInv'
      BY <1>1, <1>2, <2>5 DEF TableOK, Entries
    <2> QED
      BY <1>4, <2>6 DEF SendNothing
  <1> QED
    BY <1>3, <1>4 DEF Query

(***************************************************************************)
(* etharp_tmr only empties entries and adds to their age, which stays      *)
(* below ARP_MAXAGE.                                                       *)
(***************************************************************************)
LEMMA TmrKeeps ==
  ASSUME IInv, Tmr
  PROVE  IInv' /\ out' = <<>>
  <1> USE DEF IInv
  <1>1. out' = <<>> /\ UNCHANGED <<cached, made, heard>>
    BY DEF Tmr, SendNothing
  <1>2. ASSUME NEW i \in Entries
        PROVE  /\ table'[i] \in Entry
               /\ \/ table'[i].state = "empty"
                  \/ /\ i \notin Empty /\ table'[i].state = table[i].state
                     /\ table'[i].ip = table[i].ip /\ table'[i].mac = table[i].mac
    <2>1. \/ table'[i] = NoEntry
          \/ /\ i \notin Empty /\ ~Expired(table[i])
             /\ table'[i] = Older(table[i])
      BY DEF Tmr
    <2>2. CASE table'[i] = NoEntry
      BY <2>2, Sizes DEF NoEntry, Entry
    <2>3. CASE i \notin Empty /\ ~Expired(table[i]) /\ table'[i] = Older(table[i])
      <3>1. table[i] \in Entry
        BY DEF TableOK
      <3>2. table[i].state \in {"stable", "pending"}
        BY <2>3, <3>1 DEF Entry, Empty
      <3>3. table[i].ctime \in Nat
        BY <3>1 DEF Entry
      <3>4. table[i].ctime + 1 \in 0 .. MaxAge - 1
        BY <2>3, <3>2, <3>3, Sizes DEF Expired
      <3> QED
        BY <2>3, <3>1, <3>4 DEF Older, Entry
    <2> QED
      BY <2>1, <2>2, <2>3
  <1>3. table' \in [Entries -> Entry]
    <2>1. table' = [i \in Entries |-> table'[i]]
      BY DEF Tmr
    <2> QED
      BY <1>2, <2>1
  <1>4. KeyInv'
    BY <1>2 DEF KeyInv, Empty, Entries
  <1>5. MacInv'
    BY <1>1, <1>2 DEF MacInv, Stable, Entries
  <1> QED
    BY <1>1, <1>3, <1>4, <1>5 DEF TableOK, Entries

(***************************************************************************)
(* Every step keeps the invariant, and sends to where its hop is.          *)
(***************************************************************************)
LEMMA StepKeeps ==
  ASSUME IInv, [Next]_vars
  PROVE  /\ IInv'
         /\ UNCHANGED vars
            \/ \A k \in DOMAIN out' :
                 out'[k].hop # Broadcast => out'[k].to = heard'[out'[k].hop]
  <1>1. CASE \E ip \in Hosts, mac \in Macs : IpInput(ip, mac)
    <2>1. PICK ip \in Hosts, mac \in Macs : IpInput(ip, mac)
      BY <1>1
    <2>2. ip # AnyAddr
      BY Addresses
    <2>3. /\ Update(ip, mac, FALSE) /\ UNCHANGED made
          /\ heard' = IF ip = AnyAddr THEN heard ELSE [heard EXCEPT ![ip] = mac]
      BY <2>1, <2>2 DEF IpInput
    <2> QED
      BY <2>3, UpdateKeeps
  <1>2. CASE \E ip \in Hosts \cup {AnyAddr}, mac \in Macs, forUs \in BOOLEAN :
               ArpInput(ip, mac, forUs)
    <2>1. PICK ip \in Hosts \cup {AnyAddr}, mac \in Macs, forUs \in BOOLEAN :
            ArpInput(ip, mac, forUs)
      BY <1>2
    <2>2. /\ Update(ip, mac, forUs) /\ UNCHANGED made
          /\ heard' = IF ip = AnyAddr THEN heard ELSE [heard EXCEPT ![ip] = mac]
      BY <2>1 DEF ArpInput
    <2> QED
      BY <2>2, UpdateKeeps
  <1>3. CASE \E ip \in Hosts : FindAddr(ip)
    <2>1. PICK ip \in Hosts : FindAddr(ip)
      BY <1>3
    <2>2. out' = <<>> /\ UNCHANGED <<table, made, heard>> /\ cached' = Found(ip)
      BY <2>1 DEF FindAddr, SendNothing
    <2>3. Found(ip) \in Entries
      <3>1. FindEntry(ip, TRUE) = Found(ip)
        BY <2>1 DEF FindAddr, FindEntry
      <3> QED
        BY <3>1, FindEntryIs DEF IInv
    <2>4. IInv'
      BY <2>2, <2>3 DEF IInv, TableOK, KeyInv, MacInv, Stable, Empty, Entries
    <2> QED
      BY <2>2, <2>4
  <1>4. CASE \E ip \in Hosts \cup {Remote, Broadcast} : Output(ip)
    <2>1. PICK ip \in Hosts \cup {Remote, Broadcast} : Output(ip)
      BY <1>4
    <2>2. made < MaxPackets /\ made' = made + 1 /\ UNCHANGED heard
      BY <2>1 DEF Output
    <2>3. CASE ip = Broadcast
      <3>1. /\ Send(<<made + 1>>, Broadcast, Broadcast)
            /\ UNCHANGED <<table, cached>>
        BY <2>1, <2>3 DEF Output
      <3>2. IInv'
        BY <2>2, <3>1, Sizes
        DEF IInv, TableOK, KeyInv, MacInv, Stable, Empty, Entries
      <3> QED
        BY <3>1, <3>2 DEF Send
    <2>4. CASE ip # Broadcast
      <3> DEFINE hop == IF ip = Remote THEN Gateway ELSE ip
      <3>1. hop \in Hosts /\ Query(hop, made + 1)
        BY <2>1, <2>4, Addresses DEF Output
      <3> HIDE DEF hop
      <3>2. hop \in Hosts
        BY <3>1
      <3>3. Query(hop, made + 1)
        BY <3>1
      <3>4. IInv' /\ \A k \in DOMAIN out' : out'[k].to = heard'[out'[k].hop]
        BY <2>2, <3>2, <3>3, QueryKeeps, Zenon
      <3> QED
        BY <3>4
    <2> QED
      BY <2>3, <2>4
  <1>5. CASE Tmr
    BY <1>5, TmrKeeps
  <1>6. CASE UNCHANGED vars
    BY <1>6
    DEF vars, IInv, TableOK, KeyInv, MacInv, Stable, Empty, Entries
  <1> QED
    BY <1>1, <1>2, <1>3, <1>4, <1>5, <1>6 DEF Next

LEMMA Invariance == Spec => []IInv
  BY InitEstablishes, StepKeeps, PTL DEF Spec
-----------------------------------------------------------------------------
(***************************************************************************)
(* An address never has two entries in arp_table, of any size, whichever   *)
(* entries find_entry recycles.                                            *)
(***************************************************************************)
THEOREM OneEntry == Spec => []OneEntryPerAddress
  <1>1. IInv => OneEntryPerAddress
    <2> SUFFICES ASSUME IInv, NEW ip \in Hosts PROVE Cardinality(Matches(ip)) <= 1
      BY DEF OneEntryPerAddress
    <2>1. \A i, j \in Matches(ip) : i = j
      BY DEF IInv, KeyInv, Matches
    <2>2. Matches(ip) = {} \/ \E i : Matches(ip) = {i}
      BY <2>1
    <2> QED
      <3>1. Cardinality({}) = 0 /\ \A i : Cardinality({i}) = 1
        BY FS_EmptySet, FS_Singleton
      <3>2. CASE Matches(ip) = {}
        BY <3>1, <3>2
      <3>3. CASE \E i : Matches(ip) = {i}
        BY <3>1, <3>3
      <3> QED
        BY <2>2, <3>2, <3>3
  <1> QED
    BY <1>1, Invariance, PTL

(***************************************************************************)
(* Whatever etharp_output and update_arp_entry send goes to the hardware   *)
(* address its hop was last heard from.                                    *)
(***************************************************************************)
THEOREM ToLatest == Spec => SentToLatest
  <1>1. IInv /\ [Next]_vars =>
          [\A k \in DOMAIN out' :
             out'[k].hop # Broadcast => out'[k].to = heard'[out'[k].hop]]_vars
    BY StepKeeps
  <1> QED
    BY <1>1, Invariance, PTL DEF Spec, SentToLatest

-----------------------------------------------------------------------------
(***************************************************************************)
(* The lengths of queues, summed.                                          *)
(***************************************************************************)

(* The packets that wait in the entries T of the table tbl. *)
QueuedIn(tbl, T) == MapThenSumSet(LAMBDA i : Len(tbl[i].q), T)

(* w[s] is the sum of the lengths of the queues in s. *)
Additive(tbl, T, w) ==
  /\ w \in [SUBSET T -> Nat]
  /\ w[{}] = 0
  /\ \A s \in SUBSET T : \A x \in s : w[s] = Len(tbl[x].q) + w[s \ {x}]

LEMMA SubsetsWellFounded ==
  ASSUME NEW T, IsFiniteSet(T), NEW bad, bad \subseteq SUBSET T, bad # {}
  PROVE  \E s \in bad : \A r \in bad : ~(r \subseteq s /\ r # s)
  <1>1. IsWellFoundedOn(StrictSubsetOrdering(T), SUBSET T)
    <2>1. IsWellFoundedOn(StrictSubsetOrdering(T), FiniteSubsetsOf(T))
      BY FS_StrictSubsetOrderingWellFounded
    <2>2. FiniteSubsetsOf(T) = SUBSET T
      BY FS_FiniteSubsetsOfFinite
    <2> QED
      BY <2>1, <2>2
  <1>2. PICK s \in bad : \A r \in bad : ~(<<r, s>> \in StrictSubsetOrdering(T))
    BY <1>1, WFMin
  <1>3. ASSUME NEW r \in bad, r \subseteq s, r # s PROVE FALSE
    <2>1. <<r, s>> \in StrictSubsetOrdering(T)
      BY <1>3 DEF StrictSubsetOrdering
    <2> QED
      BY <1>2, <2>1
  <1> QED
    BY <1>3

(***************************************************************************)
(* What is additive is what the library's fold computes, in whatever order *)
(* that takes the entries.                                                 *)
(***************************************************************************)
LEMMA SumIs ==
  ASSUME NEW tbl, NEW D, IsFiniteSet(D), NEW w, Additive(tbl, D, w),
         NEW T \in SUBSET D
  PROVE  QueuedIn(tbl, T) = w[T]
  <1> DEFINE pick(s) == CHOOSE x \in s : TRUE
             Step(g) == [s \in SUBSET T |->
                           IF s = {} THEN 0
                           ELSE Len(tbl[pick(s)].q) + g[s \ {pick(s)}]]
             iter == CHOOSE g : g = Step(g)
             v == [s \in SUBSET T |-> w[s]]
  <1>1. QueuedIn(tbl, T) = iter[T]
    BY DEF QueuedIn, MapThenSumSet, MapThenFoldSet
  <1>2. /\ v[{}] = 0 /\ v[T] = w[T]
        /\ \A s \in SUBSET T : \A x \in s : v[s] = Len(tbl[x].q) + v[s \ {x}]
    <2>1. \A s \in SUBSET T : s \in SUBSET D /\ v[s] = w[s]
      OBVIOUS
    <2> HIDE DEF v
    <2>2. ASSUME NEW s \in SUBSET T, NEW x \in s
          PROVE  v[s] = Len(tbl[x].q) + v[s \ {x}]
      <3>1. s \in SUBSET D /\ s \ {x} \in SUBSET T
        BY <2>1
      <3> QED
        BY <2>1, <3>1 DEF Additive
    <2> QED
      BY <2>1, <2>2 DEF Additive
  <1>3. v = Step(v)
    <2>1. ASSUME NEW s \in SUBSET T, s # {}
          PROVE  v[s] = Len(tbl[pick(s)].q) + v[s \ {pick(s)}]
      <3>1. pick(s) \in s
        BY <2>1
      <3> HIDE DEF pick, v
      <3> QED
        BY <1>2, <3>1
    <2>2. v = [s \in SUBSET T |-> v[s]]
      OBVIOUS
    <2>3. \A s \in SUBSET T :
            v[s] = IF s = {} THEN 0
                   ELSE Len(tbl[pick(s)].q) + v[s \ {pick(s)}]
      <3> HIDE DEF pick, v
      <3> QED
        BY <1>2, <2>1
    <2> HIDE DEF pick, v
    <2> QED
      BY <2>2, <2>3
  <1>4. iter = Step(iter)
    <2> HIDE DEF Step, v
    <2> QED
      BY <1>3
  <1> DEFINE bad == {s \in SUBSET T : iter[s] # v[s]}
  <1>5. SUFFICES ASSUME bad # {} PROVE FALSE
    BY <1>1, <1>2
  <1>6. PICK s \in bad : \A r \in bad : ~(r \subseteq s /\ r # s)
    <2>1. IsFiniteSet(T) /\ bad \subseteq SUBSET T
      BY FS_Subset
    <2> HIDE DEF bad
    <2> QED
      BY <1>5, <2>1, SubsetsWellFounded
  <1> HIDE DEF iter, v
  <1>7. iter[{}] = 0
    BY <1>4
  <1>8. s # {}
    BY <1>2, <1>7
  <1>9. /\ pick(s) \in s /\ s \ {pick(s)} \in SUBSET T
        /\ v[s] = Len(tbl[pick(s)].q) + v[s \ {pick(s)}]
        /\ iter[s] = Len(tbl[pick(s)].q) + iter[s \ {pick(s)}]
    <2>1. pick(s) \in s /\ s \in SUBSET T
      BY <1>8
    <2> HIDE DEF pick, bad
    <2> QED
      BY <1>2, <1>4, <1>8, <2>1
  <1> HIDE DEF pick
  <1>10. s \ {pick(s)} \in bad
    BY <1>6, <1>9
  <1> QED
    BY <1>6, <1>9, <1>10

LEMMA SumsExist ==
  ASSUME NEW tbl, NEW D, IsFiniteSet(D), \A i \in D : Len(tbl[i].q) \in Nat
  PROVE  \E w : Additive(tbl, D, w)
  <1> DEFINE bad == {s \in SUBSET D : ~ \E w : Additive(tbl, s, w)}
  <1>1. SUFFICES ASSUME bad # {} PROVE FALSE
    OBVIOUS
  <1>2. PICK s \in bad : \A r \in bad : ~(r \subseteq s /\ r # s)
    <2>1. bad \subseteq SUBSET D
      OBVIOUS
    <2> HIDE DEF bad
    <2> QED
      BY <1>1, <2>1, SubsetsWellFounded
  <1>3. s # {}
    <2>1. ASSUME s = {} PROVE FALSE
      <3>1. Additive(tbl, {}, [r \in SUBSET {} |-> 0])
        BY DEF Additive
      <3> QED
        BY <1>2, <2>1, <3>1
    <2> QED
      BY <2>1
  <1>4. PICK x \in s : TRUE
    BY <1>3
  <1>5. PICK w : Additive(tbl, s \ {x}, w)
    <2>1. s \ {x} \in SUBSET D /\ s \ {x} # s
      BY <1>2, <1>4
    <2> QED
      BY <1>2, <2>1
  <1> DEFINE v == [r \in SUBSET s |->
                     IF x \in r THEN Len(tbl[x].q) + w[r \ {x}] ELSE w[r]]
  <1>6. \A r \in SUBSET s : r \ {x} \in SUBSET (s \ {x})
                            /\ (x \notin r => r \in SUBSET (s \ {x}))
    OBVIOUS
  <1>7. v \in [SUBSET s -> Nat] /\ v[{}] = 0
    <2>1. Len(tbl[x].q) \in Nat
      BY <1>2, <1>4
    <2>2. w \in [SUBSET (s \ {x}) -> Nat] /\ w[{}] = 0
      BY <1>5 DEF Additive
    <2> QED
      BY <1>6, <2>1, <2>2
  <1>8. ASSUME NEW r \in SUBSET s, NEW y \in r
        PROVE  v[r] = Len(tbl[y].q) + v[r \ {y}]
    <2>1. CASE y = x
      BY <1>6, <2>1
    <2>2. CASE y # x /\ x \notin r
      <3>1. r \in SUBSET (s \ {x}) /\ r \ {y} \in SUBSET s
        BY <2>2
      <3> QED
        BY <1>5, <2>2, <3>1 DEF Additive
    <2>3. CASE y # x /\ x \in r
      <3>1. /\ r \ {x} \in SUBSET (s \ {x}) /\ y \in r \ {x}
            /\ r \ {y} \in SUBSET s /\ x \in r \ {y}
            /\ (r \ {y}) \ {x} = (r \ {x}) \ {y}
            /\ (r \ {x}) \ {y} \in SUBSET (s \ {x})
        BY <2>3
      <3>2. w[r \ {x}] = Len(tbl[y].q) + w[(r \ {x}) \ {y}]
        BY <1>5, <3>1 DEF Additive
      <3>3. /\ v[r] = Len(tbl[x].q) + w[r \ {x}]
            /\ v[r \ {y}] = Len(tbl[x].q) + w[(r \ {x}) \ {y}]
        BY <2>3, <3>1
      <3>4. /\ Len(tbl[x].q) \in Nat /\ Len(tbl[y].q) \in Nat
            /\ w[(r \ {x}) \ {y}] \in Nat
        BY <1>2, <1>4, <1>5, <3>1 DEF Additive
      <3> HIDE DEF v
      <3> QED
        BY <3>2, <3>3, <3>4
    <2> QED
      BY <2>1, <2>2, <2>3
  <1>9. Additive(tbl, s, v)
    <2> HIDE DEF v
    <2> QED
      BY <1>7, <1>8 DEF Additive
  <1> QED
    BY <1>2, <1>9

(***************************************************************************)
(* When one queue changes, the sum changes by as much.                     *)
(***************************************************************************)
LEMMA SumChanges ==
  ASSUME NEW D, IsFiniteSet(D), NEW tbl, NEW new, NEW i \in D,
         \A j \in D : Len(tbl[j].q) \in Nat /\ Len(new[j].q) \in Nat,
         \A j \in D \ {i} : new[j] = tbl[j]
  PROVE  /\ QueuedIn(tbl, D) \in Nat
         /\ QueuedIn(new, D) \in Nat
         /\ QueuedIn(new, D) + Len(tbl[i].q)
              = QueuedIn(tbl, D) + Len(new[i].q)
  <1>1. PICK w : Additive(tbl, D, w)
    BY SumsExist
  <1> DEFINE v == [s \in SUBSET D |-> IF i \in s THEN Len(new[i].q) + w[s \ {i}]
                                      ELSE w[s]]
  <1>2. w \in [SUBSET D -> Nat]
    BY <1>1 DEF Additive
  <1>3. v \in [SUBSET D -> Nat]
    BY <1>2
  <1>4. v[{}] = 0
    BY <1>1 DEF Additive
  <1>5. ASSUME NEW s \in SUBSET D, NEW x \in s
        PROVE  v[s] = Len(new[x].q) + v[s \ {x}]
    <2>1. CASE x = i
      BY <2>1
    <2>2. CASE x # i /\ i \notin s
      <3>1. new[x] = tbl[x] /\ w[s] = Len(tbl[x].q) + w[s \ {x}]
        BY <1>1, <2>2 DEF Additive
      <3> QED
        BY <2>2, <3>1
    <2>3. CASE x # i /\ i \in s
      <3>1. /\ s \ {i} \in SUBSET D /\ x \in s \ {i}
            /\ s \ {x} \in SUBSET D /\ i \in s \ {x}
            /\ (s \ {x}) \ {i} = (s \ {i}) \ {x}
            /\ (s \ {i}) \ {x} \in SUBSET D
        BY <2>3
      <3>2. w[s \ {i}] = Len(tbl[x].q) + w[(s \ {i}) \ {x}]
        BY <1>1, <3>1 DEF Additive
      <3>3. /\ v[s] = Len(new[i].q) + w[s \ {i}]
            /\ v[s \ {x}] = Len(new[i].q) + w[(s \ {i}) \ {x}]
        BY <2>3, <3>1
      <3>4. /\ new[x] = tbl[x] /\ Len(new[i].q) \in Nat
            /\ Len(tbl[x].q) \in Nat /\ w[(s \ {i}) \ {x}] \in Nat
        BY <1>2, <2>3, <3>1
      <3> HIDE DEF v
      <3> QED
        BY <3>2, <3>3, <3>4
    <2> QED
      BY <2>1, <2>2, <2>3
  <1>6. Additive(new, D, v)
    <2> HIDE DEF v
    <2> QED
      BY <1>3, <1>4, <1>5 DEF Additive
  <1>7. /\ QueuedIn(tbl, D) = w[D] /\ QueuedIn(new, D) = v[D]
    <2> HIDE DEF v
    <2> QED
      BY <1>1, <1>6, SumIs
  <1>8. w[D] = Len(tbl[i].q) + w[D \ {i}] /\ v[D] = Len(new[i].q) + w[D \ {i}]
    BY <1>1 DEF Additive
  <1>9. w[D] \in Nat /\ v[D] \in Nat /\ w[D \ {i}] \in Nat
    BY <1>2, <1>3
  <1> HIDE DEF v
  <1>10. QueuedIn(tbl, D) \in Nat /\ QueuedIn(new, D) \in Nat
    BY <1>7, <1>9
  <1>11. v[D] + Len(tbl[i].q) = w[D] + Len(new[i].q)
    <2>1. Len(tbl[i].q) \in Nat /\ Len(new[i].q) \in Nat
      OBVIOUS
    <2> DEFINE a == Len(tbl[i].q)
               b == Len(new[i].q)
               c == w[D \ {i}]
               x == w[D]
               y == v[D]
    <2>2. x = a + c /\ y = b + c /\ a \in Nat /\ b \in Nat /\ c \in Nat
      BY <1>8, <1>9, <2>1
    <2> HIDE DEF a, b, c, x, y
    <2>3. y + a = x + b
      BY <2>2
    <2> QED
      BY <2>3 DEF a, b, x, y
  <1> QED
    BY <1>7, <1>10, <1>11

(***************************************************************************)
(* When the queues in old are emptied, the sum loses what they held.       *)
(***************************************************************************)
LEMMA SumLoses ==
  ASSUME NEW D, IsFiniteSet(D), NEW old \in SUBSET D, NEW tbl, NEW new,
         \A j \in D : Len(tbl[j].q) \in Nat,
         \A j \in old : Len(new[j].q) = 0,
         \A j \in D \ old : Len(new[j].q) = Len(tbl[j].q)
  PROVE  /\ QueuedIn(tbl, D) \in Nat
         /\ QueuedIn(new, D) \in Nat
         /\ QueuedIn(tbl, old) \in Nat
         /\ QueuedIn(new, D) + QueuedIn(tbl, old) = QueuedIn(tbl, D)
  <1>1. PICK w : Additive(tbl, D, w)
    BY SumsExist
  <1>2. w \in [SUBSET D -> Nat]
    BY <1>1 DEF Additive
  <1>3. w[{}] = 0 /\ \A s \in SUBSET D : \A x \in s : w[s] = Len(tbl[x].q) + w[s \ {x}]
    BY <1>1 DEF Additive
  <1> DEFINE v == [s \in SUBSET D |-> w[s \ old]]
             u == [s \in SUBSET D |-> w[s \cap old] + w[s \ old]]
  <1>4. Additive(new, D, v)
    <2>1. v \in [SUBSET D -> Nat] /\ v[{}] = 0
      BY <1>2, <1>3
    <2>2. ASSUME NEW s \in SUBSET D, NEW x \in s
          PROVE  v[s] = Len(new[x].q) + v[s \ {x}]
      <3>1. /\ s \ old \in SUBSET D /\ s \ {x} \in SUBSET D
            /\ v[s] = w[s \ old] /\ v[s \ {x}] = w[(s \ {x}) \ old]
            /\ w[s \ old] \in Nat
        BY <1>2
      <3> HIDE DEF v
      <3>2. CASE x \in old
        <4>1. (s \ {x}) \ old = s \ old
          BY <3>2
        <4>2. v[s \ {x}] = v[s]
          BY <3>1, <4>1
        <4>3. v[s] \in Nat /\ Len(new[x].q) = 0
          BY <3>1, <3>2
        <4> QED
          BY <4>2, <4>3
      <3>3. CASE x \notin old
        <4>1. (s \ {x}) \ old = (s \ old) \ {x} /\ x \in s \ old
          BY <3>3
        <4> QED
          BY <1>3, <3>1, <3>3, <4>1
      <3> QED
        BY <3>2, <3>3
    <2> HIDE DEF v
    <2> QED
      BY <2>1, <2>2 DEF Additive
  <1>5. Additive(tbl, D, u)
    <2>1. u \in [SUBSET D -> Nat]
      <3>1. ASSUME NEW s \in SUBSET D PROVE w[s \cap old] + w[s \ old] \in Nat
        <4>1. w[s \cap old] \in Nat /\ w[s \ old] \in Nat
          BY <1>2
        <4> QED
          BY <4>1
      <3> QED
        BY <3>1
    <2>2. u[{}] = 0
      <3>1. {} \in SUBSET D /\ {} \cap old = {} /\ {} \ old = {}
        OBVIOUS
      <3>2. u[{}] = w[{}] + w[{}]
        BY <3>1
      <3> QED
        BY <1>3, <3>2
    <2>3. ASSUME NEW s \in SUBSET D, NEW x \in s
          PROVE  u[s] = Len(tbl[x].q) + u[s \ {x}]
      <3>1. /\ s \ old \in SUBSET D /\ s \cap old \in SUBSET D
            /\ s \ {x} \in SUBSET D
            /\ (s \ {x}) \ old \in SUBSET D /\ (s \ {x}) \cap old \in SUBSET D
        OBVIOUS
      <3>2. /\ u[s] = w[s \cap old] + w[s \ old]
            /\ u[s \ {x}] = w[(s \ {x}) \cap old] + w[(s \ {x}) \ old]
        BY <3>1
      <3>3. /\ Len(tbl[x].q) \in Nat
            /\ w[(s \ {x}) \cap old] \in Nat /\ w[(s \ {x}) \ old] \in Nat
        BY <1>2, <3>1
      <3> HIDE DEF u
      <3>4. CASE x \in old
        <4>1. /\ (s \ {x}) \ old = s \ old
              /\ (s \ {x}) \cap old = (s \cap old) \ {x} /\ x \in s \cap old
          BY <3>4
        <4>2. w[s \cap old] = Len(tbl[x].q) + w[(s \cap old) \ {x}]
          BY <1>3, <3>1, <4>1
        <4>3. /\ w[(s \ {x}) \ old] = w[s \ old]
              /\ w[(s \ {x}) \cap old] = w[(s \cap old) \ {x}]
          BY <4>1
        <4> QED
          BY <3>2, <3>3, <4>2, <4>3
      <3>5. CASE x \notin old
        <4>1. /\ (s \ {x}) \cap old = s \cap old
              /\ (s \ {x}) \ old = (s \ old) \ {x} /\ x \in s \ old
          BY <3>5
        <4>2. w[s \ old] = Len(tbl[x].q) + w[(s \ old) \ {x}]
          BY <1>3, <3>1, <4>1
        <4>3. /\ w[(s \ {x}) \cap old] = w[s \cap old]
              /\ w[(s \ {x}) \ old] = w[(s \ old) \ {x}]
          BY <4>1
        <4> QED
          BY <3>2, <3>3, <4>2, <4>3
      <3> QED
        BY <3>4, <3>5
    <2> HIDE DEF u
    <2> QED
      BY <2>1, <2>2, <2>3 DEF Additive
  <1>6. /\ QueuedIn(new, D) = v[D] /\ QueuedIn(tbl, D) = u[D]
        /\ QueuedIn(tbl, old) = w[old]
    <2> HIDE DEF v, u
    <2> QED
      BY <1>1, <1>4, <1>5, SumIs
  <1>7. v[D] = w[D \ old] /\ u[D] = w[old] + w[D \ old]
    <2>1. D \cap old = old
      OBVIOUS
    <2> QED
      BY <2>1
  <1>8. w[D \ old] \in Nat /\ w[old] \in Nat
    BY <1>2
  <1> HIDE DEF v, u
  <1> QED
    BY <1>6, <1>7, <1>8

-----------------------------------------------------------------------------
(***************************************************************************)
(* The pool of queue elements, the packets sent and their order.           *)
(***************************************************************************)
Sent == [packet : Packets, hop : Hosts \cup {Broadcast},
         to : Macs \cup {Broadcast}]

SentOK == out \in Seq(Sent) /\ last \in [Hosts -> 0 .. MaxPackets]

Accounted(tbl, free) ==
  free \in Nat /\ free + QueuedIn(tbl, Entries) = QueueSize

PoolInv == Accounted(table, freeQ)

(* Only a pending entry has a queue; its packets are in order, none newer  *)
(* than n, the newest, and all newer than those sent, which l has.         *)
Ordered(e, l, n) ==
  /\ e.state # "pending" => e.q = <<>>
  /\ \A k \in 1 .. Len(e.q) : /\ l[e.ip] < e.q[k]
                              /\ e.q[k] <= n
                              /\ \A m \in 1 .. k - 1 : e.q[m] < e.q[k]

OrderInv ==
  /\ \A i \in Entries : Ordered(table[i], last, made)
  /\ \A h \in Hosts : last[h] <= made

QueueInv == IInv /\ SentOK /\ PoolInv /\ OrderInv

(***************************************************************************)
(* What the steps of etharp.c do to the queues: nothing, a confirmed entry *)
(* gives up its own, a packet joins one, a packet is sent past them all,   *)
(* or the timer drops some.                                                *)
(***************************************************************************)
Quiet == UNCHANGED <<table, freeQ, last, made>> /\ out' = <<>>

Confirms(i, ip, mac) ==
  /\ Matches(ip) \subseteq {i}
  /\ table' = [table EXCEPT ![i] = Confirmed(i, ip, mac)]
  /\ freeQ' = freeQ + Len(table[i].q)
  /\ Send(Flushed(i, ip), ip, mac)
  /\ UNCHANGED made

Queues(i, ip, copied) ==
  /\ Matches(ip) \subseteq {i} /\ i \notin Matches(ip) \cap Stable
  /\ Enqueue(i, ip, made + 1, copied)
  /\ SendNothing
  /\ made < MaxPackets /\ made' = made + 1

SendsNow(hop, mac) ==
  /\ hop \in Hosts => Matches(hop) \subseteq Stable
  /\ Send(<<made + 1>>, hop, mac)
  /\ UNCHANGED <<table, freeQ>>
  /\ made < MaxPackets /\ made' = made + 1

LEMMA UpdateIs ==
  ASSUME IInv, NEW ip \in Hosts \cup {AnyAddr}, NEW mac \in Macs,
         NEW hard \in BOOLEAN, Update(ip, mac, hard), UNCHANGED made
  PROVE  Quiet \/ \E i \in Entries, h \in Hosts : Confirms(i, h, mac)
  <1> DEFINE i == FindEntry(ip, hard)
  <1>1. CASE ip = AnyAddr
    BY <1>1 DEF Update, SendNothing, Quiet
  <1>2. CASE ip # AnyAddr
    <2>1. ip \in Hosts
      BY <1>2
    <2>2. /\ Matches(ip) \subseteq {i}
          /\ i \in Entries \/ (i = NULL /\ Matches(ip) = {} /\ ~hard)
      BY <2>1, FindEntryIs DEF IInv
    <2>3. CASE i = NULL
      BY <1>2, <2>3 DEF Update, SendNothing, Quiet
    <2>4. CASE i # NULL
      BY <1>2, <2>1, <2>2, <2>4 DEF Update, Confirms
    <2> QED
      BY <2>3, <2>4
  <1> QED
    BY <1>1, <1>2

LEMMA QueryIs ==
  ASSUME IInv, NEW ip \in Hosts, made < MaxPackets, made' = made + 1,
         Query(ip, made + 1)
  PROVE  \/ \E i \in Entries, copied \in BOOLEAN : Queues(i, ip, copied)
         \/ \E mac \in Macs : SendsNow(ip, mac)
  <1> DEFINE i == FindEntry(ip, TRUE)
  <1>1. i \in Entries /\ Matches(ip) \subseteq {i}
    BY FindEntryIs DEF IInv
  <1>2. CASE /\ i \in Matches(ip) \cap Stable
             /\ Send(<<made + 1>>, ip, table[i].mac)
             /\ UNCHANGED <<table, freeQ>>
    <2>1. table[i].mac \in Macs
      <3>1. table[i].mac = heard[ip]
        BY <1>2 DEF IInv, MacInv, Matches
      <3> QED
        BY <3>1 DEF IInv, TableOK
    <2>2. SendsNow(ip, table[i].mac)
      BY <1>1, <1>2 DEF SendsNow
    <2> QED
      BY <2>1, <2>2
  <1>3. CASE /\ i \notin Matches(ip) \cap Stable /\ SendNothing
             /\ \E copied \in BOOLEAN : Enqueue(i, ip, made + 1, copied)
    BY <1>1, <1>3 DEF Queues
  <1> QED
    BY <1>2, <1>3 DEF Query

LEMMA StepIs ==
  ASSUME IInv, Next
  PROVE  \/ Quiet
         \/ \E i \in Entries, ip \in Hosts, mac \in Macs : Confirms(i, ip, mac)
         \/ \E i \in Entries, ip \in Hosts, copied \in BOOLEAN :
              Queues(i, ip, copied)
         \/ \E ip \in Hosts, mac \in Macs : SendsNow(ip, mac)
         \/ SendsNow(Broadcast, Broadcast)
         \/ Tmr
  <1>1. ASSUME NEW ip \in Hosts, NEW mac \in Macs, IpInput(ip, mac)
        PROVE  Quiet \/ \E i \in Entries, h \in Hosts : Confirms(i, h, mac)
    BY <1>1, UpdateIs DEF IpInput
  <1>2. ASSUME NEW ip \in Hosts \cup {AnyAddr}, NEW mac \in Macs,
               NEW forUs \in BOOLEAN, ArpInput(ip, mac, forUs)
        PROVE  Quiet \/ \E i \in Entries, h \in Hosts : Confirms(i, h, mac)
    BY <1>2, UpdateIs DEF ArpInput
  <1>3. ASSUME NEW ip \in Hosts, FindAddr(ip) PROVE Quiet
    BY <1>3 DEF FindAddr, SendNothing, Quiet
  <1>4. ASSUME NEW ip \in Hosts \cup {Remote, Broadcast}, Output(ip)
        PROVE  \/ \E h \in Hosts, i \in Entries, copied \in BOOLEAN :
                    Queues(i, h, copied)
               \/ \E h \in Hosts, mac \in Macs : SendsNow(h, mac)
               \/ SendsNow(Broadcast, Broadcast)
    <2>1. CASE ip = Broadcast
      <3>1. Broadcast \notin Hosts
        BY AddressAssumption DEF AddressAssumption
      <3> QED
        BY <1>4, <2>1, <3>1 DEF Output, SendsNow
    <2>2. CASE ip # Broadcast
      <3> DEFINE hop == IF ip = Remote THEN Gateway ELSE ip
      <3>1. hop \in Hosts /\ Query(hop, made + 1)
        BY <1>4, <2>2, Addresses DEF Output
      <3>2. made < MaxPackets /\ made' = made + 1
        BY <1>4 DEF Output
      <3> HIDE DEF hop
      <3>3. \/ \E i \in Entries, copied \in BOOLEAN : Queues(i, hop, copied)
            \/ \E mac \in Macs : SendsNow(hop, mac)
        BY <3>1, <3>2, QueryIs
      <3> QED
        BY <3>1, <3>3
    <2> QED
      BY <2>1, <2>2
  <1> QED
    BY <1>1, <1>2, <1>3, <1>4, Zenon DEF Next

(***************************************************************************)
(* What Send does: the packets it is given go out, in that order.          *)
(***************************************************************************)
LEMMA SendIs ==
  ASSUME SentOK, NEW ns \in Seq(Packets), NEW hop \in Hosts \cup {Broadcast},
         NEW mac \in Macs \cup {Broadcast}, Send(ns, hop, mac)
  PROVE  /\ SentOK'
         /\ DOMAIN out' = 1 .. Len(ns)
         /\ \A k \in 1 .. Len(ns) : out'[k].packet = ns[k] /\ out'[k].hop = hop
         /\ \A h \in Hosts \ {hop} : last'[h] = last[h]
         /\ hop \in Hosts =>
              last'[hop] = IF ns = <<>> THEN last[hop] ELSE ns[Len(ns)]
  <1>1. /\ Len(ns) \in Nat /\ DOMAIN ns = 1 .. Len(ns)
        /\ \A k \in 1 .. Len(ns) : ns[k] \in Packets
    OBVIOUS
  <1> DEFINE o == [k \in 1 .. Len(ns) |-> [packet |-> ns[k], hop |-> hop, to |-> mac]]
  <1>2. out' = o
    BY <1>1 DEF Send
  <1>3. o \in Seq(Sent)
    <2>1. \A k \in 1 .. Len(ns) : o[k] \in Sent
      BY <1>1 DEF Sent
    <2>2. o \in [1 .. Len(ns) -> Sent]
      BY <2>1
    <2> HIDE DEF o
    <2> QED
      BY <1>1, <2>2
  <1>4. Broadcast \notin Hosts
    BY AddressAssumption DEF AddressAssumption
  <1>5. last' = IF ns = <<>> \/ hop = Broadcast THEN last
                ELSE [last EXCEPT ![hop] = ns[Len(ns)]]
    BY DEF Send, Last
  <1>6. ns # <<>> => ns[Len(ns)] \in 0 .. MaxPackets
    BY <1>1, Sizes DEF Packets
  <1>7. last \in [Hosts -> 0 .. MaxPackets]
    BY DEF SentOK
  <1>8. last' \in [Hosts -> 0 .. MaxPackets]
    BY <1>5, <1>6, <1>7
  <1>9. \A h \in Hosts \ {hop} : last'[h] = last[h]
    BY <1>5, <1>7
  <1>10. hop \in Hosts =>
           last'[hop] = IF ns = <<>> THEN last[hop] ELSE ns[Len(ns)]
    BY <1>4, <1>5, <1>7
  <1>11. DOMAIN o = 1 .. Len(ns)
         /\ \A k \in 1 .. Len(ns) : o[k].packet = ns[k] /\ o[k].hop = hop
    OBVIOUS
  <1> HIDE DEF o
  <1>12. SentOK'
    BY <1>2, <1>3, <1>8 DEF SentOK, Sent, Packets
  <1> QED
    BY <1>2, <1>9, <1>10, <1>11, <1>12

(***************************************************************************)
(* Each step gives back as many elements as it takes from queues, and      *)
(* takes as many as it puts there.                                         *)
(***************************************************************************)
LEMMA EntriesFinite == IsFiniteSet(Entries)
  BY FS_Interval, Sizes DEF Entries

LEMMA QueueLength ==
  ASSUME NEW tbl \in [Entries -> Entry], NEW i \in Entries
  PROVE  tbl[i].q \in Seq(Packets) /\ Len(tbl[i].q) \in Nat
  <1>1. tbl[i].q \in Seq(Packets)
    BY DEF Entry
  <1> QED
    BY <1>1

LEMMA Balance ==
  ASSUME NEW a \in Nat, NEW b \in Nat, NEW c \in Nat, NEW d \in Nat,
         NEW x \in Nat, NEW y \in Nat, y + c = x + d, b + d = a + c
  PROVE  b + y = a + x
  OBVIOUS

LEMMA OneQueueChanges ==
  ASSUME NEW tbl, NEW new, NEW i \in Entries,
         \A j \in Entries : Len(tbl[j].q) \in Nat /\ Len(new[j].q) \in Nat,
         \A j \in Entries \ {i} : new[j] = tbl[j],
         NEW free, NEW more \in Nat, Accounted(tbl, free),
         more + Len(new[i].q) = free + Len(tbl[i].q)
  PROVE  Accounted(new, more)
  <1>1. /\ QueuedIn(tbl, Entries) \in Nat
        /\ QueuedIn(new, Entries) \in Nat
        /\ QueuedIn(new, Entries) + Len(tbl[i].q)
             = QueuedIn(tbl, Entries) + Len(new[i].q)
    BY EntriesFinite, SumChanges
  <1>2. free \in Nat /\ free + QueuedIn(tbl, Entries) = QueueSize
    BY DEF Accounted
  <1>3. Len(tbl[i].q) \in Nat /\ Len(new[i].q) \in Nat
    OBVIOUS
  <1>4. more + QueuedIn(new, Entries) = free + QueuedIn(tbl, Entries)
    <2> DEFINE c == Len(tbl[i].q)
               d == Len(new[i].q)
               x == QueuedIn(tbl, Entries)
               y == QueuedIn(new, Entries)
    <2>1. /\ free \in Nat /\ c \in Nat /\ d \in Nat /\ x \in Nat /\ y \in Nat
          /\ y + c = x + d /\ more + d = free + c
      BY <1>1, <1>2, <1>3
    <2> HIDE DEF c, d, x, y
    <2>2. more + y = free + x
      BY <2>1, Balance
    <2> QED
      BY <2>2 DEF x, y
  <1> QED
    BY <1>2, <1>4 DEF Accounted

LEMMA ConfirmsAccounts ==
  ASSUME IInv, IInv', PoolInv, NEW i \in Entries, NEW ip \in Hosts,
         NEW mac \in Macs, Confirms(i, ip, mac)
  PROVE  PoolInv'
  <1>1. table \in [Entries -> Entry] /\ table' \in [Entries -> Entry]
    BY DEF IInv, TableOK, Entry, Entries, Packets
  <1>2. /\ table'[i].q = <<>>
        /\ \A j \in Entries \ {i} : table'[j] = table[j]
    BY <1>1 DEF Confirms, Confirmed
  <1>3. freeQ' = freeQ + Len(table[i].q) /\ Len(table[i].q) \in Nat /\ freeQ \in Nat
    BY <1>1, QueueLength DEF Confirms, PoolInv, Accounted
  <1>4. freeQ' \in Nat /\ freeQ' + Len(table'[i].q) = freeQ + Len(table[i].q)
    <2>1. Len(table'[i].q) = 0
      BY <1>2
    <2> QED
      BY <1>3, <2>1
  <1>5. Accounted(table, freeQ)
    BY DEF PoolInv
  <1>6. \A j \in Entries : Len(table[j].q) \in Nat /\ Len(table'[j].q) \in Nat
    BY <1>1, QueueLength
  <1>7. Accounted(table', freeQ')
    BY <1>2, <1>4, <1>5, <1>6, OneQueueChanges
  <1> QED
    BY <1>7 DEF PoolInv, Accounted, Entries

(***************************************************************************)
(* A packet that finds no copy or no element leaves the entry without it.  *)
(***************************************************************************)
LEMMA QueueAfter ==
  ASSUME IInv, NEW i \in Entries, NEW ip \in Hosts, NEW copied \in BOOLEAN,
         Queues(i, ip, copied)
  PROVE  LET q == IF i \in Matches(ip) THEN table[i].q ELSE <<>>
             free == IF i \in Matches(ip) THEN freeQ
                     ELSE freeQ + Len(table[i].q)
         IN  /\ q \in Seq(Packets)
             /\ table'[i].ip = ip /\ table'[i].state = "pending"
             /\ \/ table'[i].q = q /\ freeQ' = free
                \/ /\ table'[i].q = Append(q, made + 1)
                   /\ free > 0 /\ freeQ' = free - 1
             /\ \A j \in Entries \ {i} : table'[j] = table[j]
  <1> DEFINE q == IF i \in Matches(ip) THEN table[i].q ELSE <<>>
             free == IF i \in Matches(ip) THEN freeQ
                     ELSE freeQ + Len(table[i].q)
             old == IF i \in Matches(ip) THEN table[i]
                    ELSE [NoEntry EXCEPT !.state = "pending", !.ip = ip]
             more == [old EXCEPT !.q = Joined(@, made + 1)]
  <1>1. table \in [Entries -> Entry] /\ table[i] \in Entry
    BY DEF IInv, TableOK
  <1>2. q \in Seq(Packets)
    BY <1>1 DEF Entry
  <1>3. old.q = q /\ old.ip = ip /\ old.state = "pending"
        /\ more.q = Append(q, made + 1) /\ more.ip = ip /\ more.state = "pending"
    <2>1. CASE i \in Matches(ip)
      <3>1. table[i].state = "pending" /\ table[i].ip = ip
        BY <1>1, <2>1 DEF Queues, Matches, Empty, Stable, Entry
      <3>2. old = table[i] /\ q = table[i].q
        BY <2>1
      <3>3. more.q = Append(old.q, made + 1) /\ more.ip = old.ip /\ more.state = old.state
        BY <1>1, <3>2 DEF Entry, Joined
      <3> HIDE DEF old, more, q
      <3> QED
        BY <3>1, <3>2, <3>3
    <2>2. CASE i \notin Matches(ip)
      <3>1. old = [state |-> "pending", ip |-> ip, mac |-> NULL,
                   ctime |-> 0, q |-> <<>>] /\ q = <<>>
        BY <2>2 DEF NoEntry
      <3>2. more = [old EXCEPT !.q = Append(@, made + 1)]
        BY DEF Joined
      <3> HIDE DEF old, more, q
      <3> QED
        BY <3>1, <3>2
    <2> QED
      BY <2>1, <2>2
  <1>4. \/ table' = [table EXCEPT ![i] = old] /\ freeQ' = free
        \/ /\ table' = [table EXCEPT ![i] = more]
           /\ free > 0 /\ freeQ' = free - 1
    BY DEF Queues, Enqueue, Taken
  <1> HIDE DEF q, free, old, more
  <1>5. \/ table'[i] = old /\ freeQ' = free
        \/ table'[i] = more /\ free > 0 /\ freeQ' = free - 1
    BY <1>1, <1>4
  <1>6. \A j \in Entries \ {i} : table'[j] = table[j]
    BY <1>1, <1>4
  <1>7. /\ table'[i].ip = ip /\ table'[i].state = "pending"
        /\ \/ table'[i].q = q /\ freeQ' = free
           \/ table'[i].q = Append(q, made + 1) /\ free > 0 /\ freeQ' = free - 1
    BY <1>3, <1>5
  <1> QED
    BY <1>2, <1>6, <1>7 DEF q, free

LEMMA QueuesAccounts ==
  ASSUME IInv, IInv', PoolInv, NEW i \in Entries, NEW ip \in Hosts,
         NEW copied \in BOOLEAN, Queues(i, ip, copied)
  PROVE  PoolInv'
  <1> DEFINE q == IF i \in Matches(ip) THEN table[i].q ELSE <<>>
             free == IF i \in Matches(ip) THEN freeQ
                     ELSE freeQ + Len(table[i].q)
  <1>1. table \in [Entries -> Entry] /\ table' \in [Entries -> Entry]
    BY DEF IInv, TableOK, Entry, Entries, Packets
  <1>2. /\ q \in Seq(Packets)
        /\ \/ table'[i].q = q /\ freeQ' = free
           \/ table'[i].q = Append(q, made + 1) /\ free > 0 /\ freeQ' = free - 1
        /\ \A j \in Entries \ {i} : table'[j] = table[j]
    BY QueueAfter
  <1>3. Len(table[i].q) \in Nat /\ freeQ \in Nat
    BY <1>1, QueueLength DEF PoolInv, Accounted
  <1>4. free \in Nat /\ free + Len(q) = freeQ + Len(table[i].q) /\ Len(q) \in Nat
    <2>1. i \notin Matches(ip) => Len(q) = 0
      OBVIOUS
    <2> QED
      BY <1>3, <2>1
  <1> HIDE DEF q, free
  <1>5. freeQ' \in Nat /\ freeQ' + Len(table'[i].q) = freeQ + Len(table[i].q)
    <2>1. CASE table'[i].q = q /\ freeQ' = free
      BY <1>4, <2>1
    <2>2. CASE table'[i].q = Append(q, made + 1) /\ free > 0 /\ freeQ' = free - 1
      <3>1. Len(table'[i].q) = Len(q) + 1
        BY <1>2, <2>2
      <3> QED
        BY <1>3, <1>4, <2>2, <3>1
    <2> QED
      BY <1>2, <2>1, <2>2
  <1>6. Accounted(table, freeQ)
    BY DEF PoolInv
  <1>7. \A j \in Entries : Len(table[j].q) \in Nat /\ Len(table'[j].q) \in Nat
    BY <1>1, QueueLength
  <1>8. Accounted(table', freeQ')
    BY <1>2, <1>5, <1>6, <1>7, OneQueueChanges
  <1> QED
    BY <1>8 DEF PoolInv, Accounted, Entries

LEMMA TmrAccounts ==
  ASSUME IInv, PoolInv, OrderInv, Tmr
  PROVE  PoolInv'
  <1> DEFINE old == {i \in Entries \ Empty : Expired(table[i])}
  <1>1. freeQ' = freeQ + QueuedIn(table, old)
    BY DEF Tmr, QueuedIn
  <1>2. IsFiniteSet(Entries) /\ \A j \in Entries : Len(table[j].q) \in Nat
    BY EntriesFinite, QueueLength DEF IInv, TableOK
  <1>3. ASSUME NEW j \in old PROVE Len(table'[j].q) = 0
    BY DEF Tmr, NoEntry
  <1>4. ASSUME NEW j \in Entries \ old PROVE Len(table'[j].q) = Len(table[j].q)
    <2>1. CASE j \in Empty
      <3>1. table'[j].q = <<>>
        BY <2>1 DEF Tmr, NoEntry
      <3>2. table[j].q = <<>>
        BY <2>1 DEF OrderInv, Ordered, Empty
      <3> QED
        BY <3>1, <3>2
    <2>2. CASE j \notin Empty
      <3>1. table'[j] = Older(table[j]) /\ table[j] \in Entry
        BY <1>4, <2>2 DEF Tmr, IInv, TableOK
      <3>2. table'[j].q = table[j].q
        BY <3>1 DEF Older, Entry
      <3> QED
        BY <3>2
    <2> QED
      BY <2>1, <2>2
  <1>5. old \in SUBSET Entries
    OBVIOUS
  <1> HIDE DEF old
  <1>6. /\ QueuedIn(table, Entries) \in Nat
        /\ QueuedIn(table', Entries) \in Nat
        /\ QueuedIn(table, old) \in Nat
        /\ QueuedIn(table', Entries) + QueuedIn(table, old)
             = QueuedIn(table, Entries)
    BY <1>2, <1>3, <1>4, <1>5, SumLoses
  <1>7. freeQ \in Nat /\ freeQ + QueuedIn(table, Entries) = QueueSize
    BY DEF PoolInv, Accounted
  <1>8. freeQ' \in Nat /\ freeQ' + QueuedIn(table', Entries) = QueueSize
    BY <1>1, <1>6, <1>7
  <1> QED
    BY <1>8 DEF PoolInv, Accounted, Entries

LEMMA PacketsNumbered ==
  ASSUME NEW q \in Seq(Packets)
  PROVE  Len(q) \in Nat /\ \A k \in 1 .. Len(q) : q[k] \in Nat
  <1>1. Len(q) \in Nat /\ \A k \in 1 .. Len(q) : q[k] \in Packets
    OBVIOUS
  <1>2. Packets \subseteq Nat
    BY Sizes DEF Packets
  <1> QED
    BY <1>1, <1>2

(***************************************************************************)
(* What a step sends is in order: each packet is newer than all that went  *)
(* to its hop before.                                                      *)
(***************************************************************************)
SentNewer ==
  \A k \in DOMAIN out' :
    LET o == out'[k]
    IN  o.hop \in Hosts =>
          /\ last[o.hop] < o.packet
          /\ \A m \in 1 .. k - 1 :
               out'[m].hop = o.hop => out'[m].packet < o.packet

LEMMA ConfirmsOrdered ==
  ASSUME QueueInv, IInv', NEW i \in Entries, NEW ip \in Hosts,
         NEW mac \in Macs, Confirms(i, ip, mac)
  PROVE  SentOK' /\ OrderInv' /\ SentNewer
  <1> DEFINE ns == Flushed(i, ip)
  <1>1. table \in [Entries -> Entry] /\ table' = [table EXCEPT ![i] = Confirmed(i, ip, mac)]
    BY DEF QueueInv, IInv, TableOK, Confirms
  <1>2. ns \in Seq(Packets)
    BY <1>1, QueueLength DEF Flushed
  <1>3. \A k \in 1 .. Len(ns) : /\ last[ip] < ns[k] /\ ns[k] <= made
                                /\ \A m \in 1 .. k - 1 : ns[m] < ns[k]
    <2>1. CASE i \in Matches(ip)
      BY <2>1 DEF Flushed, QueueInv, OrderInv, Ordered, Matches
    <2>2. CASE i \notin Matches(ip)
      BY <2>2 DEF Flushed
    <2> QED
      BY <2>1, <2>2
  <1>4. SentOK /\ Send(ns, ip, mac)
    BY DEF QueueInv, Confirms
  <1> HIDE DEF ns
  <1>5. /\ SentOK'
        /\ DOMAIN out' = 1 .. Len(ns)
        /\ \A k \in 1 .. Len(ns) : out'[k].packet = ns[k] /\ out'[k].hop = ip
        /\ \A h \in Hosts \ {ip} : last'[h] = last[h]
        /\ last'[ip] = IF ns = <<>> THEN last[ip] ELSE ns[Len(ns)]
    BY <1>2, <1>4, SendIs
  <1>6. SentNewer
    BY <1>2, <1>3, <1>5 DEF SentNewer
  <1>7. made' = made /\ \A h \in Hosts : last[h] <= made
    BY DEF Confirms, QueueInv, OrderInv
  <1>8. last'[ip] <= made'
    <2>1. ns # <<>> => Len(ns) \in 1 .. Len(ns)
      BY <1>2
    <2> QED
      BY <1>3, <1>5, <1>7, <2>1
  <1>9. ASSUME NEW j \in Entries PROVE Ordered(table'[j], last', made')
    <2>1. CASE j = i
      <3>1. table'[j].q = <<>>
        BY <1>1, <2>1 DEF Confirmed
      <3> QED
        BY <3>1 DEF Ordered
    <2>2. CASE j # i
      <3>1. table'[j] = table[j] /\ Ordered(table[j], last, made)
        BY <1>1, <2>2 DEF QueueInv, OrderInv
      <3>2. CASE table[j].state = "pending"
        <4>1. j \notin Empty /\ j \notin Matches(ip)
          BY <2>2, <3>2 DEF Confirms, Empty
        <4>2. table[j].ip \in Hosts \ {ip}
          BY <4>1 DEF Matches, QueueInv, IInv, KeyInv
        <4>3. last'[table[j].ip] = last[table[j].ip]
          BY <1>5, <4>2
        <4> QED
          BY <1>7, <3>1, <4>3 DEF Ordered
      <3>3. CASE table[j].state # "pending"
        BY <3>1, <3>3 DEF Ordered
      <3> QED
        BY <3>2, <3>3
    <2> QED
      BY <2>1, <2>2
  <1>10. OrderInv'
    BY <1>5, <1>7, <1>8, <1>9 DEF OrderInv, Ordered, Entries
  <1> QED
    BY <1>5, <1>6, <1>10

LEMMA QueuesOrdered ==
  ASSUME QueueInv, IInv', NEW i \in Entries, NEW ip \in Hosts,
         NEW copied \in BOOLEAN, Queues(i, ip, copied)
  PROVE  SentOK' /\ OrderInv' /\ SentNewer
  <1> DEFINE q == IF i \in Matches(ip) THEN table[i].q ELSE <<>>
  <1>1. /\ q \in Seq(Packets)
        /\ table'[i].ip = ip /\ table'[i].state = "pending"
        /\ table'[i].q = q \/ table'[i].q = Append(q, made + 1)
        /\ \A j \in Entries \ {i} : table'[j] = table[j]
    BY QueueAfter DEF QueueInv
  <1>2. out' = <<>> /\ last' = last /\ made' = made + 1
    BY DEF Queues, SendNothing
  <1>3. made \in Nat /\ \A h \in Hosts : last[h] \in Nat /\ last[h] <= made
    BY DEF QueueInv, OrderInv, SentOK, IInv, TableOK
  <1>4. \A k \in 1 .. Len(q) : /\ last[ip] < q[k] /\ q[k] <= made
                               /\ \A m \in 1 .. k - 1 : q[m] < q[k]
    <2>1. CASE i \in Matches(ip)
      BY <2>1 DEF QueueInv, OrderInv, Ordered, Matches
    <2>2. CASE i \notin Matches(ip)
      BY <2>2
    <2> QED
      BY <2>1, <2>2
  <1> HIDE DEF q
  <1>5. Len(q) \in Nat /\ \A k \in 1 .. Len(q) : q[k] \in Nat
    BY <1>1, PacketsNumbered
  <1>6. Ordered(table'[i], last', made')
    <2>1. CASE table'[i].q = q
      <3>1. \A k \in 1 .. Len(q) : q[k] <= made + 1
        BY <1>3, <1>4, <1>5
      <3> QED
        BY <1>1, <1>2, <1>4, <2>1, <3>1 DEF Ordered
    <2>2. CASE table'[i].q = Append(q, made + 1)
      <3> DEFINE r == Append(q, made + 1)
      <3>1. /\ Len(r) = Len(q) + 1 /\ r[Len(q) + 1] = made + 1
            /\ \A k \in 1 .. Len(q) : r[k] = q[k]
        BY <1>1
      <3> HIDE DEF r
      <3>2. ASSUME NEW k \in 1 .. Len(r)
            PROVE  /\ last[ip] < r[k] /\ r[k] <= made + 1
                   /\ \A m \in 1 .. k - 1 : r[m] < r[k]
        <4>1. CASE k \in 1 .. Len(q)
          <5>1. \A m \in 1 .. k - 1 : m \in 1 .. Len(q) /\ r[m] = q[m]
            BY <1>5, <3>1, <4>1
          <5> QED
            BY <1>3, <1>4, <1>5, <3>1, <4>1, <5>1
        <4>2. CASE k = Len(q) + 1
          <5>1. \A m \in 1 .. k - 1 : r[m] = q[m] /\ q[m] \in Nat /\ q[m] <= made
            BY <1>4, <1>5, <3>1, <4>2
          <5> QED
            BY <1>3, <3>1, <4>2, <5>1
        <4> QED
          BY <1>5, <3>1, <4>1, <4>2
      <3>3. table'[i].q = r
        BY <2>2 DEF r
      <3> QED
        BY <1>1, <1>2, <3>2, <3>3 DEF Ordered
    <2> QED
      BY <1>1, <2>1, <2>2
  <1>7. ASSUME NEW j \in Entries \ {i} PROVE Ordered(table'[j], last', made')
    <2>1. table'[j] = table[j] /\ Ordered(table[j], last, made)
      BY <1>1 DEF QueueInv, OrderInv
    <2>2. \A k \in 1 .. Len(table[j].q) : table[j].q[k] \in Nat
      <3>1. table[j].q \in Seq(Packets)
        BY QueueLength DEF QueueInv, IInv, TableOK
      <3> QED
        BY <3>1, PacketsNumbered
    <2> QED
      BY <1>2, <1>3, <2>1, <2>2 DEF Ordered
  <1>8. \A h \in Hosts : last'[h] <= made'
    BY <1>2, <1>3
  <1>9. OrderInv'
    BY <1>6, <1>7, <1>8 DEF OrderInv, Ordered, Entries
  <1>10. SentOK'
    BY <1>2 DEF QueueInv, SentOK, Sent, Packets
  <1> QED
    BY <1>2, <1>9, <1>10 DEF SentNewer

LEMMA SendsNowOrdered ==
  ASSUME QueueInv, IInv', NEW hop \in Hosts \cup {Broadcast},
         NEW mac \in Macs \cup {Broadcast}, SendsNow(hop, mac)
  PROVE  SentOK' /\ OrderInv' /\ SentNewer
  <1> DEFINE ns == <<made + 1>>
  <1>1. made \in Nat /\ made' = made + 1 /\ table' = table
        /\ SentOK /\ Send(ns, hop, mac)
    BY DEF QueueInv, IInv, TableOK, SendsNow
  <1>2. ns \in Seq(Packets) /\ Len(ns) = 1 /\ ns[1] = made + 1 /\ ns # <<>>
    <2>1. made + 1 \in Packets
      BY Sizes DEF QueueInv, IInv, TableOK, SendsNow, Packets
    <2> QED
      BY <2>1
  <1> HIDE DEF ns
  <1>3. /\ SentOK'
        /\ DOMAIN out' = 1 .. 1
        /\ out'[1].packet = made + 1 /\ out'[1].hop = hop
        /\ \A h \in Hosts \ {hop} : last'[h] = last[h]
        /\ hop \in Hosts => last'[hop] = made + 1
    BY <1>1, <1>2, SendIs
  <1>4. \A h \in Hosts : last[h] \in Nat /\ last[h] <= made
    BY DEF QueueInv, OrderInv, SentOK
  <1>5. SentNewer
    <2>1. \A k \in DOMAIN out' : k = 1
      BY <1>3
    <2> QED
      BY <1>1, <1>3, <1>4, <2>1 DEF SentNewer
  <1>6. \A h \in Hosts : last'[h] <= made'
    BY <1>1, <1>3, <1>4
  <1>7. ASSUME NEW j \in Entries PROVE Ordered(table'[j], last', made')
    <2>1. table'[j] = table[j] /\ Ordered(table[j], last, made)
      BY <1>1 DEF QueueInv, OrderInv
    <2>2. CASE table[j].state = "pending"
      <3>1. j \notin Empty /\ j \notin Stable
        BY <2>2 DEF Empty, Stable
      <3>2. table[j].ip \in Hosts \ {hop}
        BY <3>1 DEF Matches, SendsNow, QueueInv, IInv, KeyInv
      <3>3. last'[table[j].ip] = last[table[j].ip]
        BY <1>3, <3>2
      <3>4. \A k \in 1 .. Len(table[j].q) : table[j].q[k] \in Nat
        <4>1. table[j].q \in Seq(Packets)
          BY QueueLength DEF QueueInv, IInv, TableOK
        <4> QED
          BY <4>1, PacketsNumbered
      <3> QED
        BY <1>1, <2>1, <3>3, <3>4 DEF Ordered
    <2>3. CASE table[j].state # "pending"
      BY <2>1, <2>3 DEF Ordered
    <2> QED
      BY <2>2, <2>3
  <1>8. OrderInv'
    BY <1>6, <1>7 DEF OrderInv, Ordered, Entries
  <1> QED
    BY <1>3, <1>5, <1>8

LEMMA TmrOrdered ==
  ASSUME QueueInv, Tmr
  PROVE  SentOK' /\ OrderInv' /\ SentNewer
  <1>1. out' = <<>> /\ last' = last /\ made' = made
    BY DEF Tmr, SendNothing
  <1>2. ASSUME NEW j \in Entries PROVE Ordered(table'[j], last, made)
    <2>1. table[j] \in Entry /\ Ordered(table[j], last, made)
      BY DEF QueueInv, IInv, TableOK, OrderInv
    <2>2. table'[j] = NoEntry \/ table'[j] = Older(table[j])
      BY DEF Tmr
    <2>3. CASE table'[j] = NoEntry
      BY <2>3 DEF NoEntry, Ordered
    <2>4. CASE table'[j] = Older(table[j])
      <3>1. /\ table'[j].q = table[j].q /\ table'[j].ip = table[j].ip
            /\ table'[j].state = table[j].state
        BY <2>1, <2>4 DEF Older, Entry
      <3> QED
        BY <2>1, <3>1 DEF Ordered
    <2> QED
      BY <2>2, <2>3, <2>4
  <1>3. OrderInv'
    BY <1>1, <1>2 DEF QueueInv, OrderInv, Ordered, Entries
  <1> QED
    BY <1>1, <1>3 DEF SentNewer, QueueInv, SentOK, Sent, Packets

LEMMA QuietKeeps ==
  ASSUME QueueInv, IInv', Quiet
  PROVE  QueueInv' /\ SentNewer
  BY DEF Quiet, QueueInv, SentOK, Sent, Packets, PoolInv, Accounted, OrderInv,
         Ordered, Entries, SentNewer

LEMMA QueueInit == Init => QueueInv
  <1> SUFFICES ASSUME Init PROVE QueueInv
    OBVIOUS
  <1>1. IInv
    BY InitEstablishes
  <1>2. /\ table \in [Entries -> Entry]
        /\ \A i \in Entries : table[i].q = <<>>
    BY <1>1 DEF IInv, TableOK, Init, NoEntry
  <1>3. PoolInv
    <2> DEFINE none == [s \in SUBSET Entries |-> 0]
    <2>1. Additive(table, Entries, none)
      <3>1. \A i \in Entries : Len(table[i].q) = 0
        BY <1>2
      <3>2. none \in [SUBSET Entries -> Nat] /\ none[{}] = 0
        OBVIOUS
      <3>3. \A s \in SUBSET Entries : \A x \in s :
              none[s] = Len(table[x].q) + none[s \ {x}]
        BY <3>1
      <3> HIDE DEF none
      <3> QED
        BY <3>2, <3>3 DEF Additive
    <2>2. QueuedIn(table, Entries) = none[Entries]
      <3> HIDE DEF none
      <3> QED
        BY <2>1, EntriesFinite, SumIs
    <2>3. QueuedIn(table, Entries) = 0
      BY <2>2
    <2>4. freeQ = QueueSize /\ QueueSize \in Nat
      BY SizeAssumption DEF SizeAssumption, Init
    <2> QED
      BY <2>3, <2>4 DEF PoolInv, Accounted
  <1>4. OrderInv
    BY <1>2 DEF Init, OrderInv, Ordered
  <1>5. SentOK
    <2>1. <<>> \in Seq(Sent) /\ 0 \in 0 .. MaxPackets
      BY Sizes
    <2> QED
      BY <2>1 DEF Init, SentOK
  <1> QED
    BY <1>1, <1>3, <1>4, <1>5 DEF QueueInv

LEMMA QueueStep ==
  ASSUME QueueInv, [Next]_vars
  PROVE  QueueInv' /\ (UNCHANGED vars \/ SentNewer)
  <1>1. IInv /\ PoolInv /\ OrderInv /\ IInv'
    BY StepKeeps DEF QueueInv
  <1>2. CASE UNCHANGED vars
    BY <1>1, <1>2
    DEF vars, QueueInv, SentOK, Sent, Packets, PoolInv, Accounted, OrderInv,
        Ordered, Entries
  <1>3. CASE Quiet
    BY <1>1, <1>3, QuietKeeps
  <1>4. ASSUME NEW i \in Entries, NEW ip \in Hosts, NEW mac \in Macs,
               Confirms(i, ip, mac)
        PROVE  QueueInv' /\ SentNewer
    BY <1>1, <1>4, ConfirmsAccounts, ConfirmsOrdered DEF QueueInv
  <1>5. ASSUME NEW i \in Entries, NEW ip \in Hosts, NEW copied \in BOOLEAN,
               Queues(i, ip, copied)
        PROVE  QueueInv' /\ SentNewer
    BY <1>1, <1>5, QueuesAccounts, QueuesOrdered DEF QueueInv
  <1>6. ASSUME NEW hop \in Hosts \cup {Broadcast},
               NEW mac \in Macs \cup {Broadcast}, SendsNow(hop, mac)
        PROVE  QueueInv' /\ SentNewer
    <2>1. PoolInv'
      BY <1>1, <1>6 DEF SendsNow, PoolInv, Accounted, Entries
    <2>2. SentOK' /\ OrderInv' /\ SentNewer
      BY <1>1, <1>6, SendsNowOrdered
    <2> QED
      BY <1>1, <2>1, <2>2 DEF QueueInv
  <1>7. CASE Tmr
    BY <1>1, <1>7, TmrAccounts, TmrOrdered DEF QueueInv
  <1>8. CASE Next
    <2>1. \/ Quiet
          \/ \E i \in Entries, ip \in Hosts, mac \in Macs : Confirms(i, ip, mac)
          \/ \E i \in Entries, ip \in Hosts, copied \in BOOLEAN :
               Queues(i, ip, copied)
          \/ \E ip \in Hosts, mac \in Macs : SendsNow(ip, mac)
          \/ SendsNow(Broadcast, Broadcast)
          \/ Tmr
      BY <1>1, <1>8, StepIs
    <2> QED
      BY <1>3, <1>4, <1>5, <1>6, <1>7, <2>1
  <1> QED
    BY <1>2, <1>8

LEMMA QueueInvariance == Spec => []QueueInv
  BY QueueInit, QueueStep, PTL DEF Spec

(***************************************************************************)
(* The types, of which the bound of the pool takes the sum of the queues.  *)
(***************************************************************************)
THEOREM TypeCorrect == Spec => []TypeOK
  <1>1. QueueInv => TypeOK
    <2> SUFFICES ASSUME QueueInv PROVE TypeOK
      OBVIOUS
    <2>1. TableOK /\ SentOK
      BY DEF QueueInv, IInv
    <2>2. freeQ \in 0 .. QueueSize
      <3>1. QueuedIn(table, Entries) \in Nat
        <4>1. PICK w : Additive(table, Entries, w)
          BY <2>1, EntriesFinite, QueueLength, SumsExist DEF TableOK
        <4>2. QueuedIn(table, Entries) = w[Entries]
          BY <4>1, EntriesFinite, SumIs
        <4>3. w[Entries] \in Nat
          BY <4>1 DEF Additive
        <4> QED
          BY <4>2, <4>3
      <3>2. freeQ \in Nat /\ freeQ + QueuedIn(table, Entries) = QueueSize
        BY DEF QueueInv, PoolInv, Accounted
      <3> QED
        BY <3>1, <3>2
    <2> QED
      BY <2>1, <2>2 DEF TypeOK, TableOK, SentOK, Sent
  <1> QED
    BY <1>1, QueueInvariance, PTL

(***************************************************************************)
(* No element of MEMP_ARP_QUEUE is ever lost or given back twice, however  *)
(* many entries find_entry recycles and etharp_tmr drops.                  *)
(***************************************************************************)
THEOREM NoElementLost == Spec => []ElementsAccounted
  <1>1. QueueInv => ElementsAccounted
    BY DEF QueueInv, PoolInv, Accounted, QueuedIn, ElementsAccounted
  <1> QED
    BY <1>1, QueueInvariance, PTL

(***************************************************************************)
(* Packets to one address leave once, and in the order of etharp_output,   *)
(* whether they wait in a queue, wait again for a new entry or do not.     *)
(***************************************************************************)
THEOREM InOrder == Spec => SentInOrder
  <1>1. QueueInv /\ [Next]_vars =>
          [\A k \in DOMAIN out' :
             LET o == out'[k]
             IN  o.hop \in Hosts =>
                   /\ last[o.hop] < o.packet
                   /\ \A m \in 1 .. k - 1 :
                        out'[m].hop = o.hop => out'[m].packet < o.packet]_vars
    BY QueueStep DEF SentNewer
  <1> QED
    BY <1>1, QueueInvariance, PTL DEF Spec, SentInOrder
=============================================================================
