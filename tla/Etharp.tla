-------------------------------- MODULE Etharp --------------------------------
(***************************************************************************)
(* lwIP's ARP (etharp.c): a table from IP addresses to hardware addresses, *)
(* with the packets that wait for an address queued on its entry.          *)
(*                                                                         *)
(* A packet is its number in the order in which IP hands them to           *)
(* etharp_output.  Of the wire only those packets are modelled; ARP        *)
(* requests and replies change nothing here.  The fields of an empty entry *)
(* are never read, so they have one value.                                 *)
(***************************************************************************)
EXTENDS Integers, Sequences, FiniteSets, FiniteSetsExt, SequencesExt

CONSTANTS
  Hosts,         (* Unicast addresses on the local network.                *)
  Remote,        (* One that is not.                                       *)
  Gateway,       (* netif->gw                                              *)
  Broadcast,     (* The broadcast address.                                 *)
  AnyAddr,       (* 0.0.0.0, the sender of a probe.                        *)
  Macs,          (* Hardware addresses.                                    *)
  NULL,
  TableSize,     (* ARP_TABLE_SIZE                                         *)
  QueueSize,     (* MEMP_NUM_ARP_QUEUE                                     *)
  MaxAge,        (* ARP_MAXAGE                                             *)
  MaxPending,    (* ARP_MAXPENDING                                         *)
  MaxPackets     (* Bound on the number of packets.                        *)

ASSUME AddressAssumption ==
  /\ Gateway \in Hosts
  /\ Cardinality({Remote, Broadcast, AnyAddr, NULL}) = 4
  /\ {Remote, Broadcast, AnyAddr, NULL} \cap Hosts = {}
  /\ Macs # {} /\ NULL \notin Macs \cup 1 .. TableSize /\ Broadcast \notin Macs
ASSUME SizeAssumption ==
  /\ TableSize \in Nat \ {0} /\ QueueSize \in Nat
  /\ MaxPending \in Nat \ {0} /\ MaxAge \in Nat /\ MaxAge <= 256
  /\ MaxPending <= MaxAge /\ MaxPackets \in Nat

VARIABLES
  table,         (* arp_table                                              *)
  cached,        (* etharp_cached_entry                                    *)
  freeQ,         (* Free elements of MEMP_ARP_QUEUE.                       *)
  made,          (* Number of packets so far.                              *)
  out,           (* The packets the last step sent, with where they went.  *)
  last,          (* History: the last packet sent to each address.         *)
  heard          (* History: the hardware address each host last claimed   *)
                 (* (any, as long as it has claimed none).                 *)

vars == <<table, cached, freeQ, made, out, last, heard>>

Entries == 1 .. TableSize
Packets == 1 .. MaxPackets

Entry == [state : {"empty", "pending", "stable"}, ip : Hosts \cup {NULL},
          mac : Macs \cup {NULL}, ctime : 0 .. MaxAge - 1, q : Seq(Packets)]

NoEntry ==
  [state |-> "empty", ip |-> NULL, mac |-> NULL, ctime |-> 0, q |-> <<>>]

TypeOK ==
  /\ table \in [Entries -> Entry]
  /\ cached \in Entries
  /\ freeQ \in 0 .. QueueSize
  /\ made \in 0 .. MaxPackets
  /\ out \in Seq([packet : Packets, hop : Hosts \cup {Broadcast},
                  to : Macs \cup {Broadcast}])
  /\ last \in [Hosts -> 0 .. MaxPackets]
  /\ heard \in [Hosts -> Macs]

Init ==
  /\ table = [i \in Entries |-> NoEntry]
  /\ cached = 1
  /\ freeQ = QueueSize
  /\ made = 0
  /\ out = <<>>
  /\ last = [h \in Hosts |-> 0]
  /\ heard = [h \in Hosts |-> CHOOSE m \in Macs : TRUE]
-----------------------------------------------------------------------------
(* find_entry *)

Empty    == {i \in Entries : table[i].state = "empty"}
Stable   == {i \in Entries : table[i].state = "stable"}
Pending  == {i \in Entries : table[i].state = "pending"}
Queueing == {i \in Pending : table[i].q # <<>>}

Matches(ip) == {i \in Entries \ Empty : table[i].ip = ip}

(* The entry of ip: the cached one, if it is stable, or the first. *)
Found(ip) ==
  IF cached \in Matches(ip) \cap Stable THEN cached ELSE Min(Matches(ip))

(* Of the oldest entries in S the last. *)
Oldest(S) ==
  CHOOSE i \in S :
    \A j \in S \ {i} : \/ table[j].ctime < table[i].ctime
                       \/ table[j].ctime = table[i].ctime /\ j < i

(* The entry that is taken for a new address. *)
Victim ==
  IF Empty # {} THEN Min(Empty)
  ELSE IF Stable # {} THEN Oldest(Stable)
  ELSE IF Pending \ Queueing # {} THEN Oldest(Pending \ Queueing)
  ELSE Oldest(Queueing)

(* Mutant: a new entry is made without a search. *)
MutFindEntry(ip, hard) == Victim

(* The entry find_entry returns; with hard (ETHARP_TRY_HARD) an entry in   *)
(* use may be recycled.                                                    *)
FindEntry(ip, hard) ==
  IF Matches(ip) # {} THEN Found(ip)
  ELSE IF Empty = {} /\ ~hard THEN NULL
  ELSE Victim
-----------------------------------------------------------------------------
(* The packets update_arp_entry sends: those of a recycled entry were      *)
(* freed by find_entry.                                                    *)
Flushed(i, ip) == IF i \in Matches(ip) THEN table[i].q ELSE <<>>

(* Mutant: only a new entry gets the hardware address. *)
MutConfirmed(i, ip, mac) ==
  [state |-> "stable", ip |-> ip, ctime |-> 0, q |-> <<>>,
   mac |-> IF i \in Stable /\ table[i].ip = ip THEN table[i].mac ELSE mac]

Confirmed(i, ip, mac) ==
  [state |-> "stable", ip |-> ip, mac |-> mac, ctime |-> 0, q |-> <<>>]

(* The packets ns go out for the address hop to mac. *)
Send(ns, hop, mac) ==
  /\ out' = [k \in DOMAIN ns |-> [packet |-> ns[k], hop |-> hop, to |-> mac]]
  /\ last' = IF ns = <<>> \/ hop = Broadcast THEN last
             ELSE [last EXCEPT ![hop] = Last(ns)]

SendNothing == out' = <<>> /\ UNCHANGED last

(* update_arp_entry *)
Update(ip, mac, hard) ==
  LET i == IF ip = AnyAddr THEN NULL ELSE FindEntry(ip, hard)
  IN  IF i = NULL
      THEN SendNothing /\ UNCHANGED <<table, cached, freeQ>>
      ELSE /\ table' = [table EXCEPT ![i] = Confirmed(i, ip, mac)]
           /\ cached' = i
           /\ freeQ' = freeQ + Len(table[i].q)
           /\ Send(Flushed(i, ip), ip, mac)

(* ethernet_input of an IP packet, up to ip_input: etharp_ip_input learns  *)
(* from a sender on the local network, and from no other.                  *)
IpInput(ip, mac) ==
  /\ Update(ip, mac, FALSE)
  /\ heard' = [heard EXCEPT ![ip] = mac]
  /\ UNCHANGED made

(* etharp_arp_input, of a request or a reply. *)
ArpInput(ip, mac, forUs) ==
  /\ Update(ip, mac, forUs)
  /\ heard' = IF ip = AnyAddr THEN heard ELSE [heard EXCEPT ![ip] = mac]
  /\ UNCHANGED made

(* etharp_find_addr: only the cache of find_entry changes. *)
FindAddr(ip) ==
  /\ Matches(ip) # {}
  /\ cached' = Found(ip)
  /\ SendNothing
  /\ UNCHANGED <<table, freeQ, made, heard>>
-----------------------------------------------------------------------------
(* Mutant: a packet is put before those that wait. *)
MutJoined(q, n) == <<n>> \o q

Joined(q, n) == Append(q, n)

(* Mutant: the element is taken from the pool though there is no copy. *)
MutTaken(queued, free) == IF free > 0 THEN free - 1 ELSE free

Taken(queued, free) == IF queued THEN free - 1 ELSE free

(* The packet n joins the queue of entry i, which is made pending for ip   *)
(* if it is not; it is dropped where there is no memory for a copy or no   *)
(* element for the queue.                                                  *)
Enqueue(i, ip, n, copied) ==
  LET old == IF i \in Matches(ip) THEN table[i]
             ELSE [NoEntry EXCEPT !.state = "pending", !.ip = ip]
      free == IF i \in Matches(ip) THEN freeQ ELSE freeQ + Len(table[i].q)
      queued == copied /\ free > 0
  IN  /\ table' = [table EXCEPT ![i] =
                     IF queued THEN [old EXCEPT !.q = Joined(@, n)] ELSE old]
      /\ freeQ' = Taken(queued, free)

(* etharp_query with a packet *)
Query(ip, n) ==
  LET i == FindEntry(ip, TRUE)
  IN  /\ cached' = i
      /\ \/ /\ i \in Matches(ip) \cap Stable
            /\ Send(<<n>>, ip, table[i].mac)
            /\ UNCHANGED <<table, freeQ>>
         \/ /\ i \notin Matches(ip) \cap Stable
            /\ \E copied \in BOOLEAN : Enqueue(i, ip, n, copied)
            /\ SendNothing

(* etharp_output, which finds room for the Ethernet header. *)
Output(ip) ==
  /\ made < MaxPackets
  /\ made' = made + 1
  /\ IF ip = Broadcast
     THEN Send(<<made + 1>>, Broadcast, Broadcast)
          /\ UNCHANGED <<table, cached, freeQ>>
     ELSE Query(IF ip = Remote THEN Gateway ELSE ip, made + 1)
  /\ UNCHANGED heard
-----------------------------------------------------------------------------
(* Mutant: an entry is kept for one period too long. *)
MutExpired(e) ==
  \/ e.state = "stable" /\ e.ctime + 1 > MaxAge
  \/ e.state = "pending" /\ e.ctime + 1 > MaxPending

Expired(e) ==
  \/ e.state = "stable" /\ e.ctime + 1 >= MaxAge
  \/ e.state = "pending" /\ e.ctime + 1 >= MaxPending

Older(e) == [e EXCEPT !.ctime = @ + 1]

(* etharp_tmr, whenever the application calls it; this one never does. *)
Tmr ==
  LET old == {i \in Entries \ Empty : Expired(table[i])}
  IN  /\ table' = [i \in Entries |->
                     IF i \in old \cup Empty THEN NoEntry
                     ELSE Older(table[i])]
      /\ freeQ' = freeQ + MapThenSumSet(LAMBDA i : Len(table[i].q), old)
      /\ SendNothing
      /\ UNCHANGED <<cached, made, heard>>

Next ==
  \/ \E ip \in Hosts, mac \in Macs : IpInput(ip, mac)
  \/ \E ip \in Hosts \cup {AnyAddr}, mac \in Macs, forUs \in BOOLEAN :
       ArpInput(ip, mac, forUs)
  \/ \E ip \in Hosts : FindAddr(ip)
  \/ \E ip \in Hosts \cup {Remote, Broadcast} : Output(ip)
  \/ Tmr

Spec == Init /\ [][Next]_vars
-----------------------------------------------------------------------------
(***************************************************************************)
(* Properties.                                                             *)
(***************************************************************************)

(***************************************************************************)
(* An address has one entry, though entries are made from three places,    *)
(* recycled, and found through a cache of their index that nothing resets. *)
(***************************************************************************)
OneEntryPerAddress == \A ip \in Hosts : Cardinality(Matches(ip)) <= 1

(***************************************************************************)
(* Each element of MEMP_ARP_QUEUE is free or in a queue: none is lost when *)
(* an entry is confirmed, recycled or expires.                             *)
(***************************************************************************)
ElementsAccounted ==
  freeQ + MapThenSumSet(LAMBDA i : Len(table[i].q), Entries) = QueueSize

(***************************************************************************)
(* Packets to one address leave once and in the order in which IP handed   *)
(* them over, whether they waited or not.                                  *)
(***************************************************************************)
SentInOrder ==
  [][\A k \in DOMAIN out' :
       LET o == out'[k]
       IN  o.hop \in Hosts =>
             /\ last[o.hop] < o.packet
             /\ \A m \in 1 .. k - 1 :
                  out'[m].hop = o.hop => out'[m].packet < o.packet]_vars

(***************************************************************************)
(* A packet goes to where its next hop was last heard.                     *)
(***************************************************************************)
SentToLatest ==
  [][\A k \in DOMAIN out' :
       out'[k].hop # Broadcast => out'[k].to = heard'[out'[k].hop]]_vars
=============================================================================
