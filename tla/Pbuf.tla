--------------------------------- MODULE Pbuf ---------------------------------
(***************************************************************************)
(* lwIP's packet buffers (pbuf.c): chains of reference-counted pbufs.      *)
(*                                                                         *)
(* A packet is what a pbuf and those its next pointers lead to hold.  A    *)
(* client that allocates a packet, or calls pbuf_ref, has a reference; it  *)
(* gives it up with pbuf_free, or hands it to a chain with pbuf_cat.       *)
(* Lengths are in units that stand for the parts of a packet (a header is  *)
(* one); room is the space before payload, what pbuf_header checks.        *)
(*                                                                         *)
(* Clients change only packets that are theirs: pbuf_header, pbuf_cat,     *)
(* pbuf_realloc and pbuf_dechain are not called for a pbuf that another    *)
(* one is linked to, nor the last three when pbufs further on are shared.  *)
(* That is how udp.c, ip_frag.c, etharp.c and tcp_in.c use them.           *)
(***************************************************************************)
EXTENDS Integers, FiniteSets, Sequences, SequencesExt

CONSTANTS
  Pool,          (* The pbufs of MEMP_PBUF_POOL.                           *)
  Rom,           (* The pbufs of MEMP_PBUF, for PBUF_ROM and PBUF_REF.     *)
  Ram,           (* Blocks of the heap, for PBUF_RAM.                      *)
  NULL,
  BufSize,       (* PBUF_POOL_BUFSIZE_ALIGNED                              *)
  Lengths,       (* The lengths of packets when they are allocated.        *)
  MaxRoom,       (* Bound on the space before payload.                     *)
  MaxHeld        (* Bound on the references clients have in all.           *)

Bufs == Pool \cup Rom \cup Ram

ASSUME BufsAssumption ==
  /\ IsFiniteSet(Bufs) /\ NULL \notin Bufs
  /\ Pool \cap Rom = {} /\ Pool \cap Ram = {} /\ Rom \cap Ram = {}
ASSUME BufSizeAssumption == BufSize \in Nat /\ BufSize > 1
ASSUME LengthsAssumption == \A n \in Lengths : n \in Nat \ {0}
ASSUME MaxRoomAssumption == MaxRoom \in Nat \ {0}
ASSUME MaxHeldAssumption == MaxHeld \in Nat \ {0}

VARIABLES
  live,          (* The pbufs that are allocated.                          *)
  next,          (* p->next                                                *)
  ref,           (* p->ref                                                 *)
  len,           (* p->len                                                 *)
  tot,           (* p->tot_len                                             *)
  room,          (* Space between the struct and p->payload.               *)
  held           (* History: the references clients have.                  *)

vars == <<live, next, ref, len, tot, room, held>>

TypeOK ==
  /\ live \subseteq Bufs
  /\ next \in [Bufs -> Bufs \cup {NULL}]
  /\ ref \in [Bufs -> Nat]
  /\ len \in [Bufs -> Nat]
  /\ tot \in [Bufs -> Nat]
  /\ room \in [Bufs -> Nat]
  /\ held \in [Bufs -> 0..MaxHeld]

Init ==
  /\ live = {}
  /\ next = [p \in Bufs |-> NULL]
  /\ ref = [p \in Bufs |-> 0]
  /\ len = [p \in Bufs |-> 0]
  /\ tot = [p \in Bufs |-> 0]
  /\ room = [p \in Bufs |-> 0]
  /\ held = [p \in Bufs |-> 0]

(* The packet at p, from one pbuf to that it links on. *)
Sequel(p) ==
  LET s[q \in Bufs \cup {NULL}] ==
        IF q = NULL THEN <<>> ELSE <<q>> \o s[next[q]]
  IN  s[p]

(* Its pbufs, and the last of them. *)
Packet(p) == ToSet(Sequel(p))
LastOf(p) == Last(Sequel(p))

(* The pbufs that are linked to p. *)
LinkedTo(p) == {q \in live : next[q] = p}

(* The references clients have in all. *)
AllHeld == SumFunctionOnSet(held, live)

(* A client may change the packet at p: all of it, or only its first pbuf. *)
First(p) == held[p] > 0 /\ LinkedTo(p) = {}
Owned(p) == First(p) /\ \A q \in Packet(p) \ {p} : ref[q] = 1
-----------------------------------------------------------------------------
(* pbuf_free *)

(* Mutant: the whole packet goes with its first pbuf. *)
MutDealloc(p) == IF p = NULL \/ ref[p] > 1 THEN {} ELSE Packet(p)

(* The pbufs that pbuf_free(p) gives back: up to the first that somebody   *)
(* else refers to.                                                         *)
Dealloc(p) ==
  LET d[q \in Bufs \cup {NULL}] ==
        IF q = NULL THEN {} ELSE IF ref[q] > 1 THEN {} ELSE {q} \cup d[next[q]]
  IN  d[p]

(* Mutant: the pbuf where the walk stops keeps its count. *)
MutSurvivor(p) == {}

(* The one it stops at: its count is decremented. *)
Survivor(p) ==
  LET gone == Dealloc(p)
  IN  {q \in Packet(p) \ gone : q = p \/ \E d \in gone : next[d] = q}

(* The fields f when the reference to p is dropped; a pbuf given back has  *)
(* no values any more.                                                     *)
Cleared(f, gone, value) == [q \in Bufs |-> IF q \in gone THEN value ELSE f[q]]

Unref(p) ==
  LET gone == Dealloc(p)
      left == Survivor(p)
  IN  [q \in Bufs |-> IF q \in gone THEN 0
                      ELSE IF q \in left THEN ref[q] - 1 ELSE ref[q]]

Free(p) ==
  LET gone == Dealloc(p)
  IN  /\ held[p] > 0
      /\ live' = live \ gone
      /\ ref' = Unref(p)
      /\ next' = Cleared(next, gone, NULL)
      /\ len' = Cleared(len, gone, 0)
      /\ tot' = Cleared(tot, gone, 0)
      /\ room' = Cleared(room, gone, 0)
      /\ held' = [held EXCEPT ![p] = @ - 1]
-----------------------------------------------------------------------------
(* pbuf_alloc *)

(* Layers: room for the headers before payload is reserved, or not.        *)
Offsets == {0, 1}

(* The sum of the lengths of the first i pbufs of a pool chain.            *)
Cut(length, offset, i) ==
  LET first == BufSize - offset
      upto  == first + (i - 1) * BufSize
  IN  IF i = 0 THEN 0 ELSE IF upto < length THEN upto ELSE length

ChainLength(length, offset) ==
  CHOOSE n \in 1 .. length + 1 :
    Cut(length, offset, n) = length /\ Cut(length, offset, n - 1) < length

(* The fields f of new pbufs, chain, with the values g gives for them. *)
Fill(f, chain, g(_)) ==
  [q \in Bufs |-> IF q \in ToSet(chain)
                    THEN g(CHOOSE i \in DOMAIN chain : chain[i] = q) ELSE f[q]]

(* If the pool has too few, what was taken is freed again and the result   *)
(* is NULL: nothing has changed.                                           *)
AllocPool(length, offset) ==
  LET n == ChainLength(length, offset)
  IN  /\ AllHeld < MaxHeld
      /\ \E chain \in [1..n -> Pool \ live] :
          /\ IsInjective(chain)
          /\ live' = live \cup ToSet(chain)
          /\ ref' = Fill(ref, chain, LAMBDA i : 1)
          /\ next' = Fill(next, chain,
                          LAMBDA i : IF i = n THEN NULL ELSE chain[i + 1])
          /\ len' = Fill(len, chain, LAMBDA i :
                           Cut(length, offset, i) - Cut(length, offset, i - 1))
          /\ tot' = Fill(tot, chain,
                         LAMBDA i : length - Cut(length, offset, i - 1))
          /\ room' = Fill(room, chain, LAMBDA i : IF i = 1 THEN offset ELSE 0)
          /\ held' = [held EXCEPT ![chain[1]] = 1]

(* PBUF_RAM, and PBUF_ROM or PBUF_REF, which has no room for headers. *)
AllocSingle(p, length, offset) ==
  /\ AllHeld < MaxHeld
  /\ p \in (Ram \cup Rom) \ live
  /\ p \in Rom => offset = 0
  /\ live' = live \cup {p}
  /\ ref' = [ref EXCEPT ![p] = 1]
  /\ len' = [len EXCEPT ![p] = length]
  /\ tot' = [tot EXCEPT ![p] = length]
  /\ room' = [room EXCEPT ![p] = offset]
  /\ held' = [held EXCEPT ![p] = 1]
  /\ UNCHANGED next
-----------------------------------------------------------------------------
(* pbuf_ref *)
Ref(p) ==
  /\ held[p] > 0 /\ AllHeld < MaxHeld
  /\ ref' = [ref EXCEPT ![p] = @ + 1]
  /\ held' = [held EXCEPT ![p] = @ + 1]
  /\ UNCHANGED <<live, next, len, tot, room>>

(* The totals when the packet at h grows by n. *)
Added(h, n) ==
  LET grown == Packet(h)
  IN  [q \in Bufs |-> IF q \in grown THEN tot[q] + n ELSE tot[q]]

(* pbuf_cat: the client's reference to t becomes the chain's. *)
Cat(h, t) ==
  /\ Owned(h) /\ held[t] > 0
  /\ Packet(h) \cap Packet(t) = {}
  /\ tot' = Added(h, tot[t])
  /\ next' = [next EXCEPT ![LastOf(h)] = t]
  /\ held' = [held EXCEPT ![t] = @ - 1]
  /\ UNCHANGED <<live, ref, len, room>>

(* pbuf_chain: the client keeps its reference to t. *)
Chain(h, t) ==
  /\ Owned(h) /\ held[t] > 0
  /\ Packet(h) \cap Packet(t) = {}
  /\ tot' = Added(h, tot[t])
  /\ next' = [next EXCEPT ![LastOf(h)] = t]
  /\ ref' = [ref EXCEPT ![t] = @ + 1]
  /\ UNCHANGED <<live, len, room, held>>

(* pbuf_dechain: the rest of the packet loses the reference of its first.  *)
Dechain(p) ==
  LET gone == Dealloc(next[p])
  IN  /\ First(p) /\ next[p] # NULL
      /\ live' = live \ gone
      /\ ref' = Unref(next[p])
      /\ next' = [Cleared(next, gone, NULL) EXCEPT ![p] = NULL]
      /\ len' = Cleared(len, gone, 0)
      /\ tot' = [q \in Bufs |-> IF q \in gone THEN 0
                                ELSE IF q = p THEN len[p]
                                ELSE IF q = next[p] THEN tot[p] - len[p]
                                ELSE tot[q]]
      /\ room' = Cleared(room, gone, 0)
      /\ UNCHANGED held
-----------------------------------------------------------------------------
(* The position in the packet at p where its first newLength end. *)
NewLast(p, newLength) ==
  LET End(i) == LET q == Sequel(p)[i] IN tot[p] - tot[q] + len[q]
      Ends   == {i \in DOMAIN Sequel(p) : newLength <= End(i)}
  IN  CHOOSE i \in Ends : \A j \in Ends : i <= j

(* Mutant: the totals before the new last pbuf stay as they were. *)
MutKept(p, i) == {}

(* pbuf_realloc: the pbufs before the new last one, number i. *)
Kept(p, i) == {Sequel(p)[j] : j \in 1 .. i - 1}

Realloc(p, newLength) ==
  LET i    == NewLast(p, newLength)
      last == Sequel(p)[i]
      gone == Dealloc(next[last])
      rest == newLength - (tot[p] - tot[last])
  IN  /\ Owned(p)
      /\ live' = live \ gone
      /\ ref' = Unref(next[last])
      /\ next' = [Cleared(next, gone, NULL) EXCEPT ![last] = NULL]
      /\ len' = [Cleared(len, gone, 0) EXCEPT ![last] = rest]
      /\ tot' = [q \in Bufs |->
                   IF q \in gone THEN 0
                   ELSE IF q = last THEN rest
                   ELSE IF q \in Kept(p, i) THEN tot[q] + newLength - tot[p]
                   ELSE tot[q]]
      /\ room' = Cleared(room, gone, 0)
      /\ UNCHANGED held

(* pbuf_header: a header of one unit is added before payload, if there is  *)
(* room, or hidden; where it fails nothing changes.                        *)
AddHeader(p) ==
  /\ First(p) /\ p \notin Rom /\ room[p] > 0
  /\ room' = [room EXCEPT ![p] = @ - 1]
  /\ len' = [len EXCEPT ![p] = @ + 1]
  /\ tot' = [tot EXCEPT ![p] = @ + 1]
  /\ UNCHANGED <<live, next, ref, held>>

HideHeader(p) ==
  /\ First(p) /\ len[p] > 0 /\ room[p] < MaxRoom
  /\ room' = IF p \in Rom THEN room ELSE [room EXCEPT ![p] = @ + 1]
  /\ len' = [len EXCEPT ![p] = @ - 1]
  /\ tot' = [tot EXCEPT ![p] = @ - 1]
  /\ UNCHANGED <<live, next, ref, held>>

(* pbuf_coalesce of a chain: its data is copied to a new pbuf of the heap  *)
(* and it is freed.                                                        *)
Coalesce(p, q) ==
  LET gone == Dealloc(p)
  IN  /\ held[p] > 0 /\ next[p] # NULL
      /\ q \in Ram \ live
      /\ live' = (live \ gone) \cup {q}
      /\ ref' = [Unref(p) EXCEPT ![q] = 1]
      /\ next' = Cleared(next, gone, NULL)
      /\ len' = [Cleared(len, gone, 0) EXCEPT ![q] = tot[p]]
      /\ tot' = [Cleared(tot, gone, 0) EXCEPT ![q] = tot[p]]
      /\ room' = Cleared(room, gone, 0)
      /\ held' = [held EXCEPT ![p] = @ - 1, ![q] = 1]
-----------------------------------------------------------------------------
(***************************************************************************)
(* pbuf_copy.  Its state is the pbufs it is at and the offsets in them;    *)
(* what matters of the data is from which place of the source packet to    *)
(* which place of the target each piece goes: moves.                       *)
(***************************************************************************)
CopyStart(to, from) ==
  [to |-> to, from |-> from, offsetTo |-> 0, offsetFrom |-> 0, moves |-> <<>>,
   failed |-> tot[to] < tot[from]]

(* A pbuf that looks like the last of a packet and is not. *)
Queue(p) == p # NULL /\ len[p] = tot[p] /\ next[p] # NULL

(* Mutant: the offset in the source is kept when its next pbuf is begun. *)
MutAdvance(p, offset) ==
  IF offset = len[p] THEN <<next[p], IF next[p] = NULL THEN 0 ELSE offset>>
  ELSE <<p, offset>>

(* The place after offset, in the pbuf p or at the start of the next. *)
Advance(p, offset) == IF offset = len[p] THEN <<next[p], 0>> ELSE <<p, offset>>

CopyStep(c) ==
  LET leftTo   == len[c.to] - c.offsetTo
      leftFrom == len[c.from] - c.offsetFrom
      n        == IF leftTo >= leftFrom THEN leftFrom ELSE leftTo
      to       == Advance(c.to, c.offsetTo + n)
      from     == Advance(c.from, c.offsetFrom + n)
  IN  [to |-> to[1], offsetTo |-> to[2],
       from |-> from[1], offsetFrom |-> from[2],
       moves |-> Append(c.moves, [to |-> c.to, from |-> c.from, length |-> n,
                        offsetTo |-> c.offsetTo, offsetFrom |-> c.offsetFrom]),
       failed |-> Queue(to[1]) \/ Queue(from[1])]

(* The loop; with a target that ended too early it would follow NULL. *)
Copy(to, from) ==
  LET Ends(c) == c.failed \/ c.from = NULL \/ c.to = NULL
      c[i \in Nat] ==
        IF i = 0 THEN CopyStart(to, from)
        ELSE LET b == c[i - 1] IN IF Ends(b) THEN b ELSE CopyStep(b)
  IN  c[2 * Cardinality(Bufs)]
-----------------------------------------------------------------------------
Next ==
  \/ \E length \in Lengths, offset \in Offsets :
       AllocPool(length, offset) \/ \E p \in Ram \cup Rom :
                                      AllocSingle(p, length, offset)
  \/ \E p \in live : \/ Free(p) \/ Ref(p) \/ Dechain(p)
                     \/ AddHeader(p) \/ HideHeader(p)
                     \/ \E n \in 1 .. tot[p] - 1 : Realloc(p, n)
                     \/ \E q \in Ram : Coalesce(p, q)
  \/ \E h, t \in live : Cat(h, t) \/ Chain(h, t)

Spec == Init /\ [][Next]_vars
-----------------------------------------------------------------------------
(***************************************************************************)
(* Properties.                                                             *)
(***************************************************************************)

(***************************************************************************)
(* A count is exact: the clients that refer to the pbuf and the pbufs that *)
(* are linked to it.                                                       *)
(***************************************************************************)
RefsCounted ==
  \A p \in live : ref[p] = held[p] + Cardinality(LinkedTo(p))

(***************************************************************************)
(* Nothing is freed that a client can still reach, and nothing is kept     *)
(* that none can: pbuf_free walks down a chain exactly as far as it must.  *)
(***************************************************************************)
LiveIsReachable ==
  live = UNION {Packet(p) : p \in {q \in Bufs : held[q] > 0}}

(***************************************************************************)
(* In a packet each tot_len is the length from its pbuf to the end; all    *)
(* that walk a chain stop where it equals len.                             *)
(***************************************************************************)
TotalsAdd ==
  \A p \in live :
    tot[p] = len[p] + (IF next[p] = NULL THEN 0 ELSE tot[next[p]])

(***************************************************************************)
(* pbuf_copy (what a packet that waits for ARP goes through) copies all of *)
(* a packet to the same places of any packet as long, however the two are  *)
(* cut.  Only an empty pbuf in one of them makes it stop early.            *)
(***************************************************************************)
CopyWhole ==
  \A to, from \in live :
    (/\ First(to) /\ held[from] > 0 /\ tot[to] >= tot[from]
     /\ Packet(to) \cap Packet(from) = {}
     /\ \A p \in Packet(to) \cup Packet(from) : len[p] > 0)
    => LET c     == Copy(to, from)
           At(m) == tot[from] - tot[m.from] + m.offsetFrom
       IN  /\ ~c.failed /\ c.from = NULL
           /\ \A i \in DOMAIN c.moves :
                LET m == c.moves[i]
                IN  /\ At(m) = tot[to] - tot[m.to] + m.offsetTo
                    /\ At(m) + m.length =
                         IF i = Len(c.moves) THEN tot[from]
                         ELSE At(c.moves[i + 1])
=============================================================================
