------------------------------- MODULE IpReass -------------------------------
(***************************************************************************)
(* Reassembly of IP datagrams (ip_frag.c).                                 *)
(*                                                                         *)
(* Offsets are in units that stand for the pieces a datagram is cut into;  *)
(* a fragment is [id, start, end, more, clen]: its datagram, the units it  *)
(* holds, IP_MF, and its number of pbufs.  The network may lose, reorder   *)
(* and repeat fragments.                                                   *)
(*                                                                         *)
(* The elements of the pool MEMP_REASSDATA keep the link of the free list  *)
(* where the list of datagrams has its own (the first field of both), so   *)
(* that an element which is freed and stays on the list shows.  What would *)
(* follow is not modelled (Ended).  The assertions of the code have no     *)
(* effect in this port (cc.h:80).                                          *)
(***************************************************************************)
EXTENDS Integers, Sequences, FiniteSets, FiniteSetsExt, SequencesExt

CONSTANTS
  Fragments,     (* The fragments that may arrive.                         *)
  NULL,
  NumReass,      (* MEMP_NUM_REASSDATA                                     *)
  MaxPbufs,      (* IP_REASS_MAX_PBUFS                                     *)
  MaxAge         (* IP_REASS_MAXAGE                                        *)

Ids == {f.id : f \in Fragments}

ASSUME FragmentsAssumption ==
  \A f \in Fragments :
    /\ f.start \in Nat /\ f.end \in Nat /\ f.start < f.end
    /\ f.more \in BOOLEAN /\ f.clen \in Nat \ {0}
    /\ f.more \/ f.start > 0
ASSUME SizeAssumption ==
  NumReass \in Nat \ {0} /\ MaxPbufs \in Nat /\ MaxAge \in Nat
ASSUME NullAssumption == NULL \notin Ids /\ NULL \notin 1 .. NumReass

VARIABLES
  head,          (* reassdatagrams                                         *)
  free,          (* memp_tab[MEMP_REASSDATA]                               *)
  next,          (* The link of each element, in whichever list it is.     *)
  data,          (* The other fields of an element.                        *)
  count,         (* ip_reass_pbufcount                                     *)
  given          (* History: what the last step returned to ip_input.      *)

vars == <<head, free, next, data, count, given>>

Elements == 1 .. NumReass

NoData == [id |-> NULL, p |-> <<>>, last |-> FALSE, len |-> 0, timer |-> 0]

TypeOK ==
  /\ head \in Elements \cup {NULL} /\ free \in Elements \cup {NULL}
  /\ next \in [Elements -> Elements \cup {NULL}]
  /\ data \in [Elements -> [id : Ids \cup {NULL}, p : Seq(Fragments),
                            last : BOOLEAN, len : Nat, timer : 0 .. MaxAge]]
  /\ count \in Nat
  /\ given \in Seq(Fragments) \X Nat

Init ==
  /\ head = NULL
  /\ free = 1
  /\ next = [d \in Elements |-> IF d = NumReass THEN NULL ELSE d + 1]
  /\ data = [d \in Elements |-> NoData]
  /\ count = 0
  /\ given = <<<<>>, 0>>

Clen(s) == FoldSeq(LAMBDA f, n : f.clen + n, 0, s)
-----------------------------------------------------------------------------
(* The list of datagrams.  Its operations are functions of [head, free,    *)
(* next, data, count], the state of the module as the call changes it.     *)

State == [head |-> head, free |-> free, next |-> next, data |-> data,
          count |-> count]

(* The elements on a list, from the first; NumReass of them at most. *)
From(st, first) ==
  LET at[i \in 0 .. NumReass] ==
        IF i = 0 THEN first
        ELSE LET d == at[i - 1] IN IF d = NULL THEN NULL ELSE st.next[d]
  IN  [i \in 1 .. Cardinality({j \in 0 .. NumReass - 1 : at[j] # NULL})
         |-> at[i - 1]]

Listed(st) == From(st, st.head)
Pool(st)   == From(st, st.free)

(* No element is on the list of datagrams and free. *)
Apart(st) == ToSet(Listed(st)) \cap ToSet(Pool(st)) = {}

(* Mutant: the walk to d keeps the last but one of the list. *)
MutBefore(st, d) ==
  LET list == Listed(st)
  IN  IF Len(list) < 2 THEN NULL ELSE list[Len(list) - 1]

(* The element before d on the list. *)
Before(st, d) ==
  LET list == Listed(st)
      i    == CHOOSE j \in DOMAIN list : list[j] = d
  IN  IF i = 1 THEN NULL ELSE list[i - 1]

(* Mutant: an element that is not the first is not given back to the pool. *)
MutDequeue(st, d, prev) ==
  [st EXCEPT !.head = IF @ = d THEN st.next[d] ELSE @,
             !.next = IF st.head = d THEN [@ EXCEPT ![d] = st.free]
                      ELSE [@ EXCEPT ![prev] = st.next[d]],
             !.free = IF st.head = d THEN d ELSE @,
             !.data[d] = NoData]

(* ip_reass_dequeue_datagram, with memp_free *)
Dequeue(st, d, prev) ==
  LET first == st.head = d
      link  == IF first THEN st.next
               ELSE [st.next EXCEPT ![prev] = st.next[d]]
  IN  [st EXCEPT !.head = IF first THEN st.next[d] ELSE st.head,
                 !.next = [link EXCEPT ![d] = st.free],
                 !.free = d,
                 !.data[d] = NoData]

(* Mutant: the pbufs of a datagram that is freed stay counted. *)
MutFreeDatagram(st, d, prev) == Dequeue(st, d, prev)

(* ip_reass_free_complete_datagram *)
FreeDatagram(st, d, prev) ==
  [Dequeue(st, d, prev) EXCEPT !.count = @ - Clen(st.data[d].p)]

(* Mutant: the datagram a fragment belongs to may be freed for it. *)
MutOthers(st, id) == ToSet(Listed(st))

Others(st, id) == {d \in ToSet(Listed(st)) : st.data[d].id # id}

(* The oldest of the others is the last on the list with the lowest timer; *)
(* prev is the last but one of the list, whichever is the oldest.          *)
RemoveOne(st, id) ==
  LET list   == Listed(st)
      others == {i \in DOMAIN list : list[i] \in Others(st, id)}
      oldest == CHOOSE i \in others :
                  \A j \in others :
                    \/ st.data[list[i]].timer < st.data[list[j]].timer
                    \/ st.data[list[i]].timer = st.data[list[j]].timer /\ j <= i
      prev   == IF Len(list) < 2 THEN NULL ELSE list[Len(list) - 1]
  IN  FreeDatagram(st, list[oldest], prev)

(* ip_reass_remove_oldest_datagram: again until needed pbufs are free or   *)
(* there is no other datagram left.                                        *)
RemoveOldest(st, id, needed) ==
  LET r[i \in 0 .. NumReass] ==
        IF i = 0 THEN st
        ELSE LET s == r[i - 1]
             IN  IF \/ Others(s, id) = {} \/ ~Apart(s)
                    \/ i > 1 /\ st.count - s.count >= needed
                 THEN s ELSE RemoveOne(s, id)
  IN  r[NumReass]

(* ip_reass_enqueue_new_datagram *)
Take(st, id) ==
  [st EXCEPT !.head = st.free, !.free = st.next[st.free],
             !.next[st.free] = st.head,
             !.data[st.free] = [NoData EXCEPT !.id = id, !.timer = MaxAge]]

EnqueueNew(st, f) ==
  LET cut == RemoveOldest(st, f.id, f.clen)
  IN  IF st.free # NULL THEN Take(st, f.id)
      ELSE IF st.count - cut.count >= f.clen /\ Apart(cut) THEN Take(cut, f.id)
      ELSE cut
-----------------------------------------------------------------------------
(* ip_reass_chain_frag_into_datagram_and_validate, on the fragments s of a *)
(* datagram in the order of their offsets.                                 *)

(* Mutant: a new fragment goes before the one it follows. *)
MutPlace(s, start) == Cardinality({i \in DOMAIN s : s[i].end < start}) + 1

(* The place of a fragment that starts at start. *)
Place(s, start) == Cardinality({i \in DOMAIN s : s[i].start <= start}) + 1

(* A fragment that came already or overlaps its neighbours is thrown away; *)
(* one before all others is not compared with the next.                    *)
Thrown(s, f) ==
  LET i == Place(s, f.start)
  IN  \/ \E j \in 1 .. i - 1 : f.start < s[j].end
      \/ 1 < i /\ i <= Len(s) /\ f.end > s[i].start

Adjoin(s, i) == s[i].end = s[i + 1].start

(* Mutant: the fragments behind the new one are not looked at. *)
MutValid(s, f) ==
  LET i == Place(s, f.start)
      t == InsertAt(s, i, f)
  IN  /\ \A j \in 1 .. i - 2 : Adjoin(t, j)
      /\ i = Len(t) /\ i > 1 => Adjoin(t, i - 1)
      /\ t[1].start = 0

(* No hole is noticed: before the new fragment, between it and the one     *)
(* before when it is the last, and behind it.                              *)
Valid(s, f) ==
  LET i == Place(s, f.start)
      t == InsertAt(s, i, f)
  IN  /\ \A j \in 1 .. i - 2 : Adjoin(t, j)
      /\ i = Len(t) /\ i > 1 => Adjoin(t, i - 1)
      /\ t[1].start = 0
      /\ \A j \in i .. Len(t) - 1 : Adjoin(t, j)
-----------------------------------------------------------------------------
Return(st, result) ==
  /\ head' = st.head /\ free' = st.free /\ next' = st.next
  /\ data' = st.data /\ count' = st.count
  /\ given' = result

Nothing == <<<<>>, 0>>

(* The element of the datagram of f is d: the rest of ip_reass.  The last  *)
(* fragment sets flag and length even if it is thrown away.                *)
Accept(st, f, d) ==
  LET old  == st.data[d]
      prev == Before(st, d)
      e    == [old EXCEPT !.last = @ \/ ~f.more,
                          !.len = IF f.more THEN @ ELSE f.end]
      p    == InsertAt(old.p, Place(old.p, f.start), f)
      kept == [st EXCEPT !.data[d] = [e EXCEPT !.p = p], !.count = @ + f.clen]
  IN  IF Thrown(old.p, f) THEN Return([st EXCEPT !.data[d] = e], Nothing)
      ELSE IF e.last /\ Valid(old.p, f)
      THEN Return([Dequeue(kept, d, prev) EXCEPT !.count = @ - Clen(p)],
                  <<p, e.len>>)
      ELSE Return(kept, Nothing)

(* ip_reass *)
Reass(f) ==
  LET room     == IF count + f.clen > MaxPbufs
                  THEN RemoveOldest(State, f.id, f.clen) ELSE State
      Own(st)  == {d \in ToSet(Listed(st)) : st.data[d].id = f.id}
      st       == IF Own(room) # {} THEN room ELSE EnqueueNew(room, f)
  IN  IF room.count + f.clen > MaxPbufs \/ ~Apart(room) THEN Return(room, Nothing)
      ELSE IF Own(st) = {} \/ ~Apart(st) THEN Return(st, Nothing)
      ELSE Accept(st, f, CHOOSE d \in Own(st) : TRUE)

(* One datagram in ip_reass_tmr. *)
Aged(st, d) ==
  IF st.data[d].timer > 0 THEN [st EXCEPT !.data[d].timer = @ - 1]
  ELSE FreeDatagram(st, d, Before(st, d))

(* ip_reass_tmr, whenever the application calls it; this one never does. *)
AllAged(st) ==
  LET list == Listed(st)
      r[i \in 0 .. Len(list)] ==
        IF i = 0 THEN st ELSE Aged(r[i - 1], list[i])
  IN  r[Len(list)]

Tmr ==
  /\ head # NULL
  /\ Return(AllAged(State), Nothing)

(* The model ends where an element of the list is free. *)
Ended == ~Apart(State) /\ UNCHANGED vars

Next ==
  \/ Apart(State) /\ ((\E f \in Fragments : Reass(f)) \/ Tmr)
  \/ Ended

Spec == Init /\ [][Next]_vars
-----------------------------------------------------------------------------
(***************************************************************************)
(* Properties.                                                             *)
(***************************************************************************)

(***************************************************************************)
(* "If still valid, all fragments are received" (ip_frag.c:434): what      *)
(* ip_input gets is one datagram from its start to its end with no hole,   *)
(* as long as its length says.                                             *)
(***************************************************************************)
CompleteIsWhole ==
  LET p == given[1]
  IN  p # <<>> =>
        /\ \A i \in DOMAIN p : p[i].id = p[1].id
        /\ p[1].start = 0 /\ ~Last(p).more
        /\ \A i \in 1 .. Len(p) - 1 : Adjoin(p, i)
        /\ given[2] = Last(p).end

(***************************************************************************)
(* For which fragments S it can be relied on: nothing of a datagram goes   *)
(* beyond or into its last fragment, and there is no room for a missing    *)
(* one before two that adjoin, as in a datagram of three.                  *)
(***************************************************************************)
EndsOnce(S) ==
  \A f, g \in S : f.id = g.id /\ ~f.more =>
    g.end <= f.start \/ (~g.more /\ g.end = f.end)

NoneBetween(S) ==
  \A f, g, h \in S : f.id = g.id /\ g.id = h.id /\ g.end = h.start =>
    ~(f.end < g.start)

(***************************************************************************)
(* What ip_reass_remove_oldest_datagram (ip_frag.c:225) keeps as prev is   *)
(* the last but one of the list, whichever datagram it gives up; the       *)
(* assertion prev->next == ipr (ip_frag.c:164), were it compiled, says     *)
(* otherwise.  The list therefore breaks, but only there: where a datagram *)
(* that is neither the first nor the last is given up for a fragment of    *)
(* another one, and never when one times out or is completed.              *)
(***************************************************************************)
BreaksInTheMiddle ==
  [][~Apart(State)' =>
       \E f \in Fragments, i \in 2 .. Len(Listed(State)) - 1 :
         /\ Reass(f) /\ data[Listed(State)[i]].id # f.id
         /\ free' = Listed(State)[i]]_vars

(* What the assertion would give; not so with three elements or more. *)
StaysApart == Apart(State)

(***************************************************************************)
(* The limit on pbufs is never exceeded, and until the list breaks it      *)
(* counts what is held: fragments that are thrown away, datagrams that are *)
(* completed, time out or are given up leave it exact, so that it does not *)
(* block reassembly.                                                       *)
(***************************************************************************)
PbufsCounted ==
  /\ Apart(State) =>
       count = MapThenSumSet(LAMBDA d : Clen(data[d].p), ToSet(Listed(State)))
  /\ count <= MaxPbufs

(***************************************************************************)
(* Until the list breaks none of MEMP_REASSDATA is lost: an element is     *)
(* free or on the list, which no other datagram shares with it.            *)
(***************************************************************************)
ListSound ==
  Apart(State) =>
    /\ ToSet(Listed(State)) \cup ToSet(Pool(State)) = Elements
    /\ \A d, e \in ToSet(Listed(State)) : data[d].id = data[e].id => d = e

(***************************************************************************)
(* "The datagram 'fraghdr' belongs to is not freed" (ip_frag.c:206): what  *)
(* is held of a datagram can still be found on the list when another       *)
(* fragment of it has come, or is delivered with it.  Not so where the     *)
(* list breaks: the datagram that falls off may be this one.               *)
(***************************************************************************)
Held(d) == ToSet(data[d].p)

OwnIsKept ==
  [][\A f \in Fragments : \A d \in ToSet(Listed(State)) :
       data[d].id = f.id /\ Apart(State)' /\ Reass(f) =>
         Held(d) \subseteq
           (UNION {Held(e)' : e \in ToSet(Listed(State)')}) \cup ToSet(given'[1])]_vars

(***************************************************************************)
(* What a datagram was cut into ip_reass puts together: the last fragment  *)
(* that is missing completes it, whatever the order in which the others    *)
(* came, if the limit on pbufs leaves room for it.  Pieces(C): C is one    *)
(* datagram, cut somehow with neither gap nor overlap.                     *)
(***************************************************************************)
Pieces(C) ==
  /\ \A f, g \in C : /\ f.id = g.id
                     /\ f.start <= g.start /\ f # g => f.end <= g.start
  /\ \A f \in C : f.start = 0 \/ \E g \in C : g.end = f.start
  /\ \E f \in C : ~f.more

LastCompletes ==
  [][\A f \in Fragments : \A d \in ToSet(Listed(State)) :
       (/\ f \notin Held(d) /\ Pieces(Held(d) \cup {f})
        /\ count + f.clen <= MaxPbufs /\ Reass(f))
       => ToSet(given'[1]) = Held(d) \cup {f}]_vars
=============================================================================
