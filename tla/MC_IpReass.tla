----------------------------- MODULE MC_IpReass -----------------------------
(***************************************************************************)
(* Instances of IpReass for TLC: datagrams as ip_frag cuts them, at their  *)
(* sender and once more on their way.                                      *)
(***************************************************************************)
EXTENDS IpReass, IpFrag, TLC

CONSTANTS a, b, c1, c2

(* The pbufs of PBUF_POOL_BUFSIZE bytes a received frame takes, with the   *)
(* headers of IP and Ethernet.                                             *)
Pbufs(f) == (f.end - f.start + IpHlen + 14 + 1499) \div 1500

Named(id, S) ==
  {[id |-> id, start |-> f.start, end |-> f.end, more |-> f.more,
    clen |-> Pbufs(f)] : f \in S}

(* A datagram of len bytes of payload on a network with frames of mtu. *)
Datagram(id, len, mtu) == Named(id, Cut(len, 0, FALSE, mtu))

(* The same fragments after a network with smaller frames. *)
Recut(id, S, mtu) ==
  Named(id, UNION {Cut(f.end - f.start, f.start \div 8, f.more, mtu) : f \in S})

(***************************************************************************)
(* Three datagrams of two fragments, two of them alike; one of two, which  *)
(* may have come over two ways, one of which cuts its first fragment in    *)
(* two.  One more than the elements of IpReass_all.cfg.                    *)
(***************************************************************************)
Whole   == Datagram(a, 1500, 1500)
Twice   == Recut(a, Whole, 764)
Likes   == {Datagram(id, 2000, 1500) : id \in {c1, c2}}
Cuts    == {Whole, Twice, Datagram(b, 2960, 1500)} \cup Likes
Mixed   == UNION Cuts

(* Exchanging c1 and c2 exchanges what they stand for. *)
Alike == Permutations({c1, c2})

ThreeOfTwo == UNION {Datagram(id, 2000, 1500) : id \in {a, b, c1}}
OneOfFour  == Datagram(a, 4 * 1480, 1500)

(* The fragments of which CompleteIsWhole is proved. *)
ASSUME MixedIsSimple == EndsOnce(Mixed) /\ NoneBetween(Mixed)

(* ip_frag leaves neither gap nor overlap. *)
ASSUME CutsAreWhole == \A C \in Cuts \cup {OneOfFour} : Pieces(C)
=============================================================================
