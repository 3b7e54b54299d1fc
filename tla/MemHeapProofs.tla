---------------------------- MODULE MemHeapProofs ----------------------------
(***************************************************************************)
(* Proofs about MemHeapIrq, for a heap and headers of any size and for any *)
(* requests, with the handler's calls between any two steps of the main    *)
(* loop's, until one of them tears a call apart (torn).                    *)
(***************************************************************************)
EXTENDS MemHeapIrq, WellFoundedInduction, TLAPS

USE HeaderSizeAssumption, MinSizeAssumption, MemSizeAssumption,
    RequestsAssumption

(* TypeOK, without lfree. *)
Shape ==
  /\ headers \subseteq Addrs \ {MemSize}
  /\ next \in [Addrs -> Addrs]
  /\ prev \in [Addrs -> Addrs]
  /\ used \in [Addrs -> BOOLEAN]
  /\ held \in [Addrs -> Addrs]

(* prev leads from each header but the first to the one before it. *)
Linked == \A a \in headers \ {0} : prev[a] \in headers /\ next[prev[a]] = a

List == Shape /\ Tiled /\ Linked
-----------------------------------------------------------------------------
(***************************************************************************)
(* The list of headers.                                                    *)
(***************************************************************************)

(* A header, its successor and its predecessor are in this order. *)
LEMMA Order ==
  ASSUME List, NEW a \in headers
  PROVE  /\ a \in Nat /\ a \in Addrs /\ a < MemSize
         /\ next[a] \in Nat /\ next[a] \in Addrs /\ next[a] <= MemSize
         /\ a + HeaderSize + MinSize <= next[a]
         /\ \A b \in headers : b <= a \/ next[a] <= b
         /\ a # 0 => prev[a] \in headers /\ prev[a] < a /\ next[prev[a]] = a
  <1>1. /\ a \in Nat /\ a \in Addrs /\ a < MemSize
        /\ next[a] \in Nat /\ next[a] \in Addrs /\ next[a] <= MemSize
    BY DEF List, Shape, Addrs
  <1>2. a + HeaderSize + MinSize <= next[a]
    BY <1>1 DEF List, Tiled, Space
  <1>3. \A b \in headers : b <= a \/ next[a] <= b
    BY DEF List, Tiled
  <1>4. ASSUME a # 0
        PROVE  prev[a] \in headers /\ prev[a] < a /\ next[prev[a]] = a
    <2>1. prev[a] \in headers /\ next[prev[a]] = a
      BY <1>4 DEF List, Linked
    <2>2. prev[a] \in Nat /\ Space(prev[a]) >= MinSize
      BY <2>1 DEF List, Tiled, Shape, Addrs
    <2> QED
      BY <1>1, <2>1, <2>2 DEF Space
  <1> QED
    BY <1>1, <1>2, <1>3, <1>4

(* The headers between lo and end can be taken off the list. *)
LEMMA Merge ==
  ASSUME List, NEW lo \in headers, NEW end \in headers \cup {MemSize},
         lo < end, Shape', used'[MemSize],
         headers' = headers \ {b \in headers : lo < b /\ b < end},
         next'[lo] = end,
         \A b \in headers' \ {lo} : next'[b] = next[b],
         end # MemSize => prev'[end] = lo,
         \A b \in headers' \ {end} : prev'[b] = prev[b]
  PROVE  List'
  <1>1. lo \in Nat /\ end \in Nat /\ lo < MemSize /\ end <= MemSize
    BY DEF List, Shape, Addrs
  <1>2. \A b \in headers :
          /\ b \in Nat /\ b < MemSize /\ next[b] \in Nat
          /\ next[b] \in headers \cup {MemSize}
          /\ b + HeaderSize + MinSize <= next[b]
          /\ \A c \in headers : c <= b \/ next[b] <= c
          /\ b # 0 => prev[b] \in headers /\ prev[b] < b /\ next[prev[b]] = b
          /\ next[b] # MemSize => prev[next[b]] = b
    BY Order DEF List, Tiled
  <1>3. 0 \in headers /\ prev[0] = 0
    BY DEF List, Tiled
  <1>4. \A b \in headers' : b \in headers /\ (b <= lo \/ end <= b)
    BY <1>1, <1>2
  <1>5. lo \in headers' /\ (end # MemSize => end \in headers')
    BY <1>1
  <1>6. lo + HeaderSize + MinSize <= end
    BY <1>1, <1>2
  <1>7. \A b \in headers' \ {lo} : (b < lo /\ next[b] <= lo) \/ (end <= b /\ end < next[b])
    BY <1>1, <1>2, <1>4
  <1>8. ASSUME NEW b \in headers'
        PROVE  /\ next'[b] \in headers' \cup {MemSize}
               /\ next'[b] \in Nat /\ b \in Nat
               /\ b + HeaderSize + MinSize <= next'[b]
               /\ \A c \in headers' : c <= b \/ next'[b] <= c
               /\ next'[b] # MemSize => prev'[next'[b]] = b
    <2>1. CASE b = lo
      BY <2>1, <1>1, <1>2, <1>4, <1>5, <1>6
    <2>2. CASE b # lo
      <3>1. next'[b] = next[b] /\ b \in headers
        BY <2>2, <1>4
      <3>2. next[b] \in headers' \cup {MemSize}
        BY <1>1, <1>2, <1>7, <2>2, <3>1
      <3>3. next[b] # end
        BY <1>1, <1>2, <1>7, <2>2, <3>1, <1>6
      <3> QED
        BY <1>2, <1>4, <3>1, <3>2, <3>3
    <2> QED
      BY <2>1, <2>2
  <1>9. 0 \in headers' /\ prev'[0] = 0
    BY <1>1, <1>3
  <1>10. Tiled'
    <2>1. ASSUME NEW b \in headers' PROVE Space(b)' >= MinSize
      BY <1>8 DEF Space
    <2> QED
      BY <1>8, <1>9, <2>1 DEF Tiled
  <1>11. ASSUME NEW b \in headers', b # 0
         PROVE  prev'[b] \in headers' /\ next'[prev'[b]] = b
    <2>1. CASE b = end
      BY <2>1, <1>4, <1>5, <1>2
    <2>2. CASE b # end
      <3>1. prev'[b] = prev[b] /\ prev[b] \in headers /\ next[prev[b]] = b /\ prev[b] < b
        BY <2>2, <1>2, <1>4, <1>11
      <3>2. b <= lo \/ end < b
        BY <1>1, <1>2, <1>4, <2>2
      <3>3. ~(lo < prev[b] /\ prev[b] < end)
        <4>0. b \in Nat /\ prev[b] \in Nat /\ prev[b] < b /\ b < MemSize
          BY <1>2, <3>1, <1>4, <2>2
        <4>1. CASE b <= lo
          BY <4>0, <4>1, <1>1
        <4>2. CASE end < b
          <5>1. end \in headers
            BY <4>2, <1>1, <1>2, <3>1
          <5>2. end <= prev[b] \/ b <= end
            BY <5>1, <1>2, <3>1
          <5> QED
            BY <4>0, <4>2, <5>2, <1>1
        <4> QED
          BY <3>2, <4>1, <4>2
      <3>4. prev[b] # lo
        BY <1>1, <1>2, <3>1, <3>2, <1>4, <2>2
      <3> QED
        BY <3>1, <3>3, <3>4
    <2> QED
      BY <2>1, <2>2
  <1> QED
    BY <1>10, <1>11 DEF List, Linked

(* A free block of the rest of lo's space can be put on the list at mid,   *)
(* in the place of the headers between lo and end.                         *)
LEMMA Cut ==
  ASSUME List, NEW lo \in headers, NEW end \in headers \cup {MemSize},
         NEW mid \in Addrs, lo + HeaderSize + MinSize <= mid,
         mid + HeaderSize + MinSize <= end, Shape', used'[MemSize],
         headers' = (headers \ {b \in headers : lo < b /\ b < end}) \cup {mid},
         next'[lo] = mid, next'[mid] = end,
         \A b \in headers' \ {lo, mid} : next'[b] = next[b],
         prev'[mid] = lo, end # MemSize => prev'[end] = mid,
         \A b \in headers' \ {mid, end} : prev'[b] = prev[b]
  PROVE  List'
  <1>1. lo \in Nat /\ end \in Nat /\ lo < MemSize /\ end <= MemSize /\ mid \in Nat
    BY DEF List, Shape, Addrs
  <1>2. \A b \in headers :
          /\ b \in Nat /\ b < MemSize /\ next[b] \in Nat
          /\ next[b] \in headers \cup {MemSize}
          /\ b + HeaderSize + MinSize <= next[b]
          /\ \A c \in headers : c <= b \/ next[b] <= c
          /\ b # 0 => prev[b] \in headers /\ prev[b] < b /\ next[prev[b]] = b
          /\ next[b] # MemSize => prev[next[b]] = b
    BY Order DEF List, Tiled
  <1>3. 0 \in headers /\ prev[0] = 0
    BY DEF List, Tiled
  <1>4. \A b \in headers' : b = mid \/ (b \in headers /\ (b <= lo \/ end <= b))
    BY <1>1, <1>2
  <1>5. lo \in headers' /\ mid \in headers' /\ (end # MemSize => end \in headers')
    BY <1>1
  <1>6. lo < mid /\ mid < end
    BY <1>1
  <1>7. \A b \in headers' \ {lo, mid} :
          (b < lo /\ next[b] <= lo) \/ (end <= b /\ end < next[b])
    BY <1>1, <1>2, <1>4
  <1>8. ASSUME NEW b \in headers'
        PROVE  /\ next'[b] \in headers' \cup {MemSize}
               /\ next'[b] \in Nat /\ b \in Nat
               /\ b + HeaderSize + MinSize <= next'[b]
               /\ \A c \in headers' : c <= b \/ next'[b] <= c
               /\ next'[b] # MemSize => prev'[next'[b]] = b
    <2>1. CASE b = lo
      BY <2>1, <1>1, <1>2, <1>4, <1>5, <1>6
    <2>2. CASE b = mid
      <3>1. \A c \in headers' : c <= mid \/ end <= c
        BY <1>1, <1>4, <1>6, Order
      <3> QED
        BY <2>2, <3>1, <1>1, <1>5, <1>6
    <2>3. CASE b \notin {lo, mid}
      <3>1. next'[b] = next[b] /\ b \in headers
        BY <2>3, <1>4
      <3>2. next[b] \in headers' \cup {MemSize}
        BY <1>1, <1>2, <1>7, <2>3, <3>1
      <3>3. next[b] # end /\ next[b] # mid
        BY <1>1, <1>2, <1>7, <2>3, <3>1, <1>6
      <3>4. mid <= b \/ next[b] <= mid
        BY <1>1, <1>2, <1>7, <2>3, <3>1, <1>6
      <3> QED
        BY <1>2, <1>4, <3>1, <3>2, <3>3, <3>4
    <2> QED
      BY <2>1, <2>2, <2>3
  <1>9. 0 \in headers' /\ prev'[0] = 0
    BY <1>1, <1>3
  <1>10. Tiled'
    <2>1. ASSUME NEW b \in headers' PROVE Space(b)' >= MinSize
      BY <1>8 DEF Space
    <2> QED
      BY <1>8, <1>9, <2>1 DEF Tiled
  <1>11. ASSUME NEW b \in headers', b # 0
         PROVE  prev'[b] \in headers' /\ next'[prev'[b]] = b
    <2>1. CASE b = end
      BY <2>1, <1>1, <1>2, <1>4, <1>5, <1>6
    <2>2. CASE b = mid
      BY <2>2, <1>1, <1>5, <1>6
    <2>3. CASE b \notin {mid, end}
      <3>1. prev'[b] = prev[b] /\ prev[b] \in headers /\ next[prev[b]] = b /\ prev[b] < b
        BY <2>3, <1>2, <1>4, <1>11
      <3>2. b <= lo \/ end < b
        BY <1>1, <1>2, <1>4, <2>3
      <3>3. prev[b] < lo \/ end <= prev[b]
        <4>0. b \in Nat /\ prev[b] \in Nat /\ prev[b] < b /\ b < MemSize
          BY <1>2, <3>1, <1>4, <2>3
        <4>1. CASE b <= lo
          BY <4>0, <4>1, <1>1
        <4>2. CASE end < b
          <5>1. end \in headers
            BY <4>2, <1>1, <1>2, <1>4, <2>3
          <5>2. end <= prev[b] \/ b <= end
            BY <5>1, <1>2, <3>1
          <5> QED
            BY <4>0, <4>2, <5>2, <1>1
        <4> QED
          BY <3>2, <4>1, <4>2
      <3>4. prev[b] \in headers' \ {lo, mid}
        <4>0. prev[b] \in Nat
          BY <1>2, <3>1
        <4> QED
          BY <4>0, <1>1, <1>6, <3>1, <3>3
      <3> QED
        BY <3>1, <3>4
    <2> QED
      BY <2>1, <2>2, <2>3
  <1> QED
    BY <1>10, <1>11 DEF List, Linked

-----------------------------------------------------------------------------
(***************************************************************************)
(* The operations on the list.  What each does to the other blocks is part *)
(* of its lemma: the invariants about free blocks and lfree need it.       *)
(***************************************************************************)
Sound == List /\ HeldBlocksUsed

LEMMA TakeKeeps ==
  ASSUME Sound, NEW a \in headers, ~used[a], NEW n \in Nat, n >= MinSize,
         Space(a) >= n, Take(a, n)
  PROVE  /\ Sound'
         /\ a \in headers' /\ used'[a]
         /\ \A b \in headers' \ {a} :
              \/ b \in headers /\ used'[b] = used[b] /\ next'[b] = next[b]
              \/ b \notin headers /\ ~used'[b] /\ a < b /\ next'[b] = next[a]
         /\ headers \subseteq headers'
         /\ used'[MemSize]
  <1> DEFINE m == a + HeaderSize + n
  <1>1. /\ a \in Nat /\ a < MemSize /\ a \in Addrs /\ next[a] \in Nat
        /\ next[a] <= MemSize /\ next[a] \in Addrs
        /\ a + HeaderSize + n <= next[a]
        /\ \A b \in headers : b <= a \/ next[a] <= b
    BY Order DEF Sound, Space
  <1>2. m \in Addrs /\ n \in Addrs /\ a < m /\ a # m
    BY <1>1 DEF Addrs
  <1>3. /\ next \in [Addrs -> Addrs] /\ prev \in [Addrs -> Addrs]
        /\ used \in [Addrs -> BOOLEAN] /\ held \in [Addrs -> Addrs]
        /\ headers \subseteq Addrs \ {MemSize} /\ MemSize \in Addrs
        /\ used[MemSize] /\ next[a] \in headers \cup {MemSize}
    <2>1. MemSize \in Addrs
      BY DEF Addrs
    <2>2. Shape /\ used[MemSize] /\ next[a] \in headers \cup {MemSize}
      BY DEF Sound, List, Tiled
    <2> QED
      BY <2>1, <2>2 DEF Shape
  <1>4. held' = [held EXCEPT ![a] = n]
    BY DEF Take
  <1>5. \A b \in Addrs : IF held[b] # 0
                           THEN b \in headers /\ used[b] /\ held[b] <= Space(b)
                           ELSE b \in headers => ~used[b]
    BY DEF Sound, HeldBlocksUsed
  <1>6. CASE CanSplit(Space(a), n)
    <2>1. /\ headers' = headers \cup {m}
          /\ next' = [next EXCEPT ![a] = m, ![m] = next[a]]
          /\ used' = [used EXCEPT ![a] = TRUE, ![m] = FALSE]
      BY <1>6 DEF Take
    <2>2. prev' = IF next[a] = MemSize
                    THEN [prev EXCEPT ![m] = a]
                    ELSE [prev EXCEPT ![m] = a, ![next[a]] = m]
      BY <1>6 DEF Take
    <2>3. m + HeaderSize + MinSize <= next[a]
      BY <1>1, <1>6 DEF CanSplit, Space
    <2>4. m # next[a] /\ m # MemSize /\ m \notin headers
      BY <1>1, <1>2, <2>3
    <2>5. next'[a] = m /\ next'[m] = next[a]
          /\ \A b \in Addrs \ {a, m} : next'[b] = next[b]
      BY <1>1, <1>2, <1>3, <2>1
    <2>6. used'[a] /\ ~used'[m] /\ \A b \in Addrs \ {a, m} : used'[b] = used[b]
      BY <1>1, <1>2, <1>3, <2>1
    <2>7. prev'[m] = a /\ (next[a] # MemSize => prev'[next[a]] = m)
          /\ \A b \in Addrs \ {m, next[a]} : prev'[b] = prev[b]
      BY <1>1, <1>2, <1>3, <2>2, <2>4
    <2>8. Shape'
      BY <1>1, <1>2, <1>3, <1>4, <2>1, <2>2, <2>4 DEF Shape, Addrs
    <2>9. headers' = (headers \ {b \in headers : a < b /\ b < next[a]}) \cup {m}
      <3>1. {b \in headers : a < b /\ b < next[a]} = {}
        <4>1. ASSUME NEW b \in headers PROVE ~(a < b /\ b < next[a])
          BY <1>1, Order DEF Sound
        <4> QED
          BY <4>1
      <3> QED
        BY <2>1, <3>1
    <2>10. used'[MemSize]
      BY <1>1, <1>3, <2>4, <2>6
    <2>11. /\ \A b \in headers' \ {a, m} : next'[b] = next[b]
           /\ next[a] # MemSize => prev'[next[a]] = m
           /\ \A b \in headers' \ {m, next[a]} : prev'[b] = prev[b]
      BY <1>3, <2>1, <2>5, <2>7
    <2>12. a + HeaderSize + MinSize <= m
      BY <1>1
    <2>13. List'
      <3>1. List /\ next'[a] = m /\ next'[m] = next[a] /\ prev'[m] = a
            /\ m \in Addrs /\ next[a] \in headers \cup {MemSize}
        BY <1>2, <1>3, <2>5, <2>7 DEF Sound
      <3> HIDE DEF m
      <3> QED
        BY Cut, <3>1, <2>3, <2>8, <2>9, <2>10, <2>11, <2>12
    <2>14. HeldBlocksUsed'
      <3> SUFFICES ASSUME NEW b \in Addrs
                   PROVE  IF held'[b] # 0
                            THEN b \in headers' /\ used'[b] /\ held'[b] <= Space(b)'
                            ELSE b \in headers' => ~used'[b]
        BY DEF HeldBlocksUsed, Addrs
      <3>1. CASE b = a
        <4>1. Space(a)' = n /\ held'[a] = n
          BY <1>1, <1>3, <1>4, <2>5 DEF Space
        <4> QED
          BY <3>1, <4>1, <2>1, <2>6
      <3>2. CASE b = m
        <4>1. held'[m] = 0
          BY <1>2, <1>3, <1>4, <1>5, <2>4
        <4> QED
          BY <3>2, <4>1, <2>6
      <3>3. CASE b \notin {a, m}
        <4>1. held'[b] = held[b] /\ used'[b] = used[b] /\ next'[b] = next[b]
          BY <3>3, <1>3, <1>4, <2>5, <2>6
        <4>2. Space(b)' = Space(b)
          BY <4>1 DEF Space
        <4> QED
          BY <3>3, <4>1, <4>2, <1>5, <2>1
      <3> QED
        BY <3>1, <3>2, <3>3
    <2>15. \A b \in headers' \ {a} :
              \/ b \in headers /\ used'[b] = used[b] /\ next'[b] = next[b]
              \/ b \notin headers /\ ~used'[b] /\ a < b /\ next'[b] = next[a]
      BY <1>2, <1>3, <2>1, <2>4, <2>5, <2>6
    <2>16. /\ a \in headers' /\ headers \subseteq headers'
      BY <2>1
    <2>17. Sound' /\ used'[a]
      BY <2>6, <2>13, <2>14 DEF Sound
    <2> QED
      BY <2>10, <2>15, <2>16, <2>17, Zenon
  <1>7. CASE ~CanSplit(Space(a), n)
    <2>1. /\ headers' = headers /\ next' = next /\ prev' = prev
          /\ used' = [used EXCEPT ![a] = TRUE]
      BY <1>7 DEF Take
    <2>2. used'[a] /\ \A b \in Addrs \ {a} : used'[b] = used[b]
      BY <1>1, <1>3, <2>1
    <2>3. used'[MemSize]
      BY <1>1, <1>3, <2>2
    <2>4. List'
      <3>1. Shape'
        BY <1>1, <1>2, <1>3, <1>4, <2>1 DEF Shape, Addrs
      <3>2. Tiled'
        BY <2>1, <2>3 DEF Sound, List, Tiled, Space
      <3> QED
        BY <2>1, <3>1, <3>2 DEF Sound, List, Linked
    <2>5. HeldBlocksUsed'
      <3> SUFFICES ASSUME NEW b \in Addrs
                   PROVE  IF held'[b] # 0
                            THEN b \in headers' /\ used'[b] /\ held'[b] <= Space(b)'
                            ELSE b \in headers' => ~used'[b]
        BY DEF HeldBlocksUsed, Addrs
      <3>1. Space(b)' = Space(b)
        BY <2>1 DEF Space
      <3>2. CASE b = a
        BY <3>1, <3>2, <1>1, <1>3, <1>4, <2>1, <2>2
      <3>3. CASE b # a
        BY <3>1, <3>3, <1>3, <1>4, <1>5, <2>1, <2>2
      <3> QED
        BY <3>2, <3>3
    <2> QED
      BY <1>1, <1>3, <2>1, <2>2, <2>3, <2>4, <2>5 DEF Sound
  <1> QED
    BY <1>6, <1>7

(* The block that plug_holes leaves around a, and the one after it. *)
PlugFirst(a) == IF PlugBackward(a) THEN prev[a] ELSE a
PlugEnd(a)   == IF PlugForward(a) THEN next[next[a]] ELSE next[a]

(* The headers in between are a's, or belong to the free block after it. *)
LEMMA PlugRange ==
  ASSUME List, NEW a \in headers
  PROVE  /\ PlugFirst(a) \in headers /\ PlugEnd(a) \in headers \cup {MemSize}
         /\ PlugFirst(a) <= a /\ a < PlugEnd(a)
         /\ PlugFirst(a) # a => ~used[PlugFirst(a)]
         /\ next[a] <= PlugEnd(a)
         /\ \A b \in headers :
              PlugFirst(a) < b /\ b < PlugEnd(a)
                => b = a \/ (b = next[a] /\ ~used[b])
  <1>1. /\ a \in Nat /\ next[a] \in Nat /\ a < next[a]
        /\ next[a] \in headers \cup {MemSize}
        /\ \A b \in headers : b \in Nat /\ (b <= a \/ next[a] <= b)
    BY Order DEF List, Tiled
  <1>2. CASE PlugForward(a)
    <2>1. next[a] \in headers /\ ~used[next[a]] /\ PlugEnd(a) = next[next[a]]
      BY <1>1, <1>2 DEF PlugForward, PlugEnd
    <2>2. /\ next[next[a]] \in headers \cup {MemSize}
          /\ next[next[a]] \in Nat /\ next[a] < next[next[a]]
          /\ \A b \in headers : b <= next[a] \/ next[next[a]] <= b
      BY <2>1, Order DEF List, Tiled
    <2>3. CASE PlugBackward(a)
      <3>1. PlugFirst(a) = prev[a] /\ ~used[prev[a]] /\ a # 0
        BY <2>3 DEF PlugBackward, PlugFirst, List, Tiled
      <3>2. prev[a] \in headers /\ prev[a] \in Nat /\ prev[a] < a
            /\ \A b \in headers : b <= prev[a] \/ a <= b
        BY <3>1, Order
      <3> QED
        BY <1>1, <2>1, <2>2, <3>1, <3>2
    <2>4. CASE ~PlugBackward(a)
      BY <1>1, <2>1, <2>2, <2>4 DEF PlugFirst
    <2> QED
      BY <2>3, <2>4
  <1>3. CASE ~PlugForward(a)
    <2>1. PlugEnd(a) = next[a]
      BY <1>3 DEF PlugEnd
    <2>3. CASE PlugBackward(a)
      <3>1. PlugFirst(a) = prev[a] /\ ~used[prev[a]] /\ a # 0
        BY <2>3 DEF PlugBackward, PlugFirst, List, Tiled
      <3>2. prev[a] \in headers /\ prev[a] \in Nat /\ prev[a] < a
            /\ \A b \in headers : b <= prev[a] \/ a <= b
        BY <3>1, Order
      <3> QED
        BY <1>1, <2>1, <3>1, <3>2
    <2>4. CASE ~PlugBackward(a)
      BY <1>1, <2>1, <2>4 DEF PlugFirst
    <2> QED
      BY <2>3, <2>4
  <1> QED
    BY <1>2, <1>3

LEMMA PlugKeeps ==
  ASSUME List, NEW a \in headers, NEW low \in Addrs, PlugHoles(a, low),
         used' \in [Addrs -> BOOLEAN], held' \in [Addrs -> Addrs],
         ~used'[a], \A b \in Addrs \ {a} : used'[b] = used[b],
         \A b \in Addrs : IF held'[b] # 0
                            THEN b \in headers /\ used'[b] /\ held'[b] <= Space(b)
                            ELSE b \in headers => ~used'[b]
  PROVE  /\ Sound'
         /\ headers' \subseteq headers
         /\ PlugFirst(a) \in headers' /\ ~used'[PlugFirst(a)]
         /\ next'[PlugFirst(a)] = PlugEnd(a)
         /\ \A b \in headers \ headers' : PlugFirst(a) < b
         /\ \A b \in headers' \ {PlugFirst(a)} : next'[b] = next[b]
         /\ lfree' = IF low \in headers \ headers' THEN PlugFirst(a) ELSE low
  <1> DEFINE first == PlugFirst(a)
             end   == PlugEnd(a)
             gone  == {b \in headers : first < b /\ b < end}
  <1>1. /\ headers' = headers \ gone
        /\ next' = Forget([next EXCEPT ![first] = end], gone, 0)
        /\ prev' = IF gone = {}
                     THEN prev ELSE Forget([prev EXCEPT ![end] = first], gone, 0)
        /\ lfree' = IF low \in gone THEN first ELSE low
    BY DEF PlugHoles, PlugFirst, PlugEnd
  <1>2. /\ first \in headers /\ end \in headers \cup {MemSize}
        /\ first <= a /\ a < end /\ next[a] <= end
        /\ first # a => ~used[first]
        /\ \A b \in gone : b = a \/ (b = next[a] /\ ~used[b])
    BY PlugRange
  <1>3. /\ next \in [Addrs -> Addrs] /\ prev \in [Addrs -> Addrs]
        /\ used \in [Addrs -> BOOLEAN]
        /\ headers \subseteq Addrs \ {MemSize}
        /\ used[MemSize]
    BY DEF List, Shape, Tiled
  <1>4. /\ first \in Nat /\ first \in Addrs /\ end \in Nat /\ end \in Addrs
        /\ a \in Nat /\ a \in Addrs /\ a < MemSize
        /\ MemSize \in Addrs /\ 0 \in Addrs /\ first < end
        /\ end <= MemSize
    <2> HIDE DEF first, end
    <2>1. first \in 0..MemSize /\ a \in 0..MemSize /\ a # MemSize
      BY <1>2, <1>3 DEF Addrs
    <2>2. end \in 0..MemSize
      BY <1>2, <1>3 DEF Addrs
    <2> QED
      BY <1>2, <2>1, <2>2 DEF Addrs
  <1> HIDE DEF first, end
  <1>5. \A b \in gone : b \in headers /\ first < b /\ b < end /\ ~used'[b]
    BY <1>2, <1>3
  <1>6. first \notin gone /\ end \notin gone /\ MemSize \notin gone
    BY <1>3, <1>4
  <1>7. next'[first] = end /\ \A b \in Addrs \ gone : b # first => next'[b] = next[b]
    BY <1>1, <1>3, <1>4, <1>6 DEF Forget
  <1>8. used'[MemSize]
    BY <1>3, <1>4
  <1>9. Shape'
    <2>1. headers' \subseteq Addrs \ {MemSize}
      BY <1>1, <1>3
    <2>2. next' \in [Addrs -> Addrs] /\ prev' \in [Addrs -> Addrs]
      BY <1>1, <1>3, <1>4 DEF Forget
    <2> QED
      BY <2>1, <2>2 DEF Shape, Addrs
  <1>10. /\ end # MemSize => prev'[end] = first
         /\ \A b \in headers' \ {end} : prev'[b] = prev[b]
    <2>1. CASE gone = {}
      <3>1. prev' = prev
        BY <1>1, <2>1
      <3>2. next[first] = end
        <4>1. end <= next[first]
          <5>1. next[first] \in headers \cup {MemSize} /\ next[first] \in Nat /\ first < next[first]
            BY <1>2, <1>4, Order DEF List, Tiled
          <5>2. ASSUME next[first] < end PROVE FALSE
            <6>1. next[first] \in headers
              BY <5>1, <5>2, <1>4
            <6>2. next[first] \in gone
              BY <5>1, <5>2, <6>1
            <6> QED
              BY <2>1, <6>2
          <5> QED
            BY <5>1, <5>2, <1>4
        <4>2. next[first] <= end
          BY <1>2, <1>4, Order
        <4> QED
          BY <4>1, <4>2, <1>2, <1>4, Order
      <3>3. end # MemSize => prev[end] = first
        BY <3>2, <1>2 DEF List, Tiled
      <3> QED
        BY <3>1, <3>3
    <2>2. CASE gone # {}
      <3>1. prev' = Forget([prev EXCEPT ![end] = first], gone, 0)
        BY <1>1, <2>2
      <3> HIDE DEF gone
      <3>2. headers' \subseteq Addrs \ gone
        BY <1>1, <1>3
      <3> QED
        BY <3>1, <3>2, <1>3, <1>4, <1>6 DEF Forget
    <2> QED
      BY <2>1, <2>2
  <1>11. \A b \in headers' \ {first} : next'[b] = next[b]
    BY <1>1, <1>3, <1>7
  <1>12. List'
    BY Merge, <1>1, <1>2, <1>4, <1>7, <1>8, <1>9, <1>10, <1>11
  <1>13. HeldBlocksUsed'
    <2> SUFFICES ASSUME NEW b \in Addrs
                 PROVE  IF held'[b] # 0
                          THEN b \in headers' /\ used'[b] /\ held'[b] <= Space(b)'
                          ELSE b \in headers' => ~used'[b]
      BY DEF HeldBlocksUsed, Addrs
    <2>1. CASE held'[b] = 0
      BY <2>1, <1>1
    <2>2. CASE held'[b] # 0
      <3>1. b \in headers /\ used'[b] /\ held'[b] <= Space(b)
        BY <2>2
      <3>2. b \in headers'
        BY <3>1, <1>1, <1>5
      <3>3. b # a
        BY <3>1
      <3>4. b # first
        BY <3>1, <3>3, <1>2, <1>4
      <3>5. Space(b)' = Space(b)
        BY <3>2, <3>4, <1>11 DEF Space
      <3> QED
        BY <3>1, <3>2, <3>5, <2>2
    <2> QED
      BY <2>1, <2>2
  <1>14. ~used'[first]
    BY <1>2, <1>4
  <1>15. /\ headers' \subseteq headers /\ first \in headers'
         /\ headers \ headers' = gone
    BY <1>1, <1>2, <1>6
  <1>16. Sound'
    BY <1>12, <1>13 DEF Sound
  <1> QED
    BY <1>1, <1>5, <1>7, <1>11, <1>14, <1>15, <1>16, Zenon DEF first, end

(* The free block after a that mem_realloc makes or extends, and its end. *)
BackAt(a, n) == a + HeaderSize + n
BackEnd(a)   == IF used[next[a]] THEN next[a] ELSE next[next[a]]

LEMMA GiveBackKeeps ==
  ASSUME Sound, NEW a \in headers, held[a] # 0, NEW n \in Nat, n >= MinSize,
         n < Space(a), ~used[next[a]] \/ CanSplit(Space(a), n), GiveBack(a, n),
         held' = [held EXCEPT ![a] = IF n < @ THEN n ELSE @]
  PROVE  /\ Sound'
         /\ a \in headers' /\ used'[a] /\ next'[a] = BackAt(a, n)
         /\ BackAt(a, n) \in headers' /\ ~used'[BackAt(a, n)]
         /\ a < BackAt(a, n) /\ BackAt(a, n) < BackEnd(a)
         /\ BackAt(a, n) \notin headers
         /\ next'[BackAt(a, n)] = BackEnd(a)
         /\ BackEnd(a) \in headers \cup {MemSize}
         /\ headers' = (headers \ IF used[next[a]] THEN {} ELSE {next[a]})
                         \cup {BackAt(a, n)}
         /\ \A b \in headers' \ {a, BackAt(a, n)} :
              b \in headers /\ next'[b] = next[b] /\ used'[b] = used[b]
         /\ used'[MemSize] /\ (BackEnd(a) \in headers => used'[BackEnd(a)] = used[BackEnd(a)])
  <1> DEFINE m    == BackAt(a, n)
             end  == BackEnd(a)
             gone == IF used[next[a]] THEN {} ELSE {next[a]}
  <1>1. /\ headers' = (headers \ gone) \cup {m}
        /\ next' = Forget([next EXCEPT ![a] = m, ![m] = end], gone, 0)
        /\ prev' = IF end = MemSize
                     THEN Forget([prev EXCEPT ![m] = a], gone, 0)
                     ELSE Forget([prev EXCEPT ![m] = a, ![end] = m], gone, 0)
        /\ used' = [used EXCEPT ![m] = FALSE]
    BY DEF GiveBack, BackAt, BackEnd
  <1>2. /\ next \in [Addrs -> Addrs] /\ prev \in [Addrs -> Addrs]
        /\ used \in [Addrs -> BOOLEAN] /\ held \in [Addrs -> Addrs]
        /\ headers \subseteq Addrs \ {MemSize}
        /\ used[MemSize]
    BY DEF Sound, List, Shape, Tiled
  <1>3. \A b \in Addrs : IF held[b] # 0
                           THEN b \in headers /\ used[b] /\ held[b] <= Space(b)
                           ELSE b \in headers => ~used[b]
    BY DEF Sound, HeldBlocksUsed
  <1>4. /\ a \in Nat /\ a \in Addrs /\ a < MemSize /\ next[a] \in Nat
        /\ next[a] \in Addrs /\ next[a] <= MemSize /\ a < next[a]
        /\ next[a] \in headers \cup {MemSize}
        /\ \A b \in headers : b \in Nat /\ (b <= a \/ next[a] <= b)
    BY Order DEF Sound, List, Tiled
  <1>5. m \in Nat /\ a + HeaderSize + MinSize <= m /\ m < next[a]
    BY <1>4 DEF BackAt, Space
  <1>6. /\ end \in headers \cup {MemSize} /\ end \in Nat /\ end \in Addrs
        /\ next[a] <= end /\ m + HeaderSize + MinSize <= end
        /\ gone = {b \in headers : a < b /\ b < end}
    <2>1. CASE used[next[a]]
      <3>1. end = next[a] /\ gone = {}
        BY <2>1 DEF BackEnd
      <3>2. m + HeaderSize + MinSize <= next[a]
        BY <2>1, <1>4 DEF CanSplit, Space, BackAt
      <3>3. \A b \in headers : ~(a < b /\ b < next[a])
        BY <1>4
      <3> HIDE DEF m, end, gone
      <3>4. gone = {b \in headers : a < b /\ b < end}
        BY <3>1, <3>3
      <3>5. /\ end \in headers \cup {MemSize} /\ end \in Nat /\ end \in Addrs
            /\ next[a] <= end /\ m + HeaderSize + MinSize <= end
        BY <3>1, <3>2, <1>4
      <3> QED
        BY <3>4, <3>5
    <2>2. CASE ~used[next[a]]
      <3>1. end = next[next[a]] /\ gone = {next[a]}
        BY <2>2 DEF BackEnd
      <3>2. next[a] \in headers
        BY <2>2, <1>2, <1>4
      <3>3. /\ end \in headers \cup {MemSize} /\ end \in Nat /\ end \in Addrs
            /\ next[a] + HeaderSize + MinSize <= end
            /\ \A b \in headers : b <= next[a] \/ end <= b
        BY <3>1, <3>2, Order DEF Sound, List, Tiled
      <3> HIDE DEF m, end
      <3>4. ASSUME NEW b \in headers PROVE (a < b /\ b < end) <=> b = next[a]
        BY <3>2, <3>3, <1>4
      <3> HIDE DEF gone
      <3>5. gone = {b \in headers : a < b /\ b < end}
        BY <3>1, <3>2, <3>4
      <3> QED
        BY <3>3, <3>5, <1>4, <1>5
    <2> QED
      BY <2>1, <2>2
  <1>7. \A b \in gone : b \in headers /\ ~used[b] /\ a < b /\ b < end
    BY <1>6
  <1> HIDE DEF m, end, gone
  <1>8. m \in Addrs /\ m # a /\ m # end /\ m \notin headers /\ m # MemSize
        /\ a # end /\ MemSize \in Addrs /\ 0 \in Addrs
    BY <1>4, <1>5, <1>6 DEF Addrs
  <1>9. a \notin gone /\ end \notin gone /\ m \notin gone /\ MemSize \notin gone
    BY <1>2, <1>4, <1>6, <1>7, <1>8
  <1>10. /\ next'[a] = m /\ next'[m] = end
         /\ \A b \in Addrs \ gone : b \notin {a, m} => next'[b] = next[b]
    BY <1>1, <1>2, <1>4, <1>8, <1>9 DEF Forget
  <1>11. /\ prev'[m] = a /\ (end # MemSize => prev'[end] = m)
         /\ \A b \in Addrs \ gone : b \notin {m, end} => prev'[b] = prev[b]
    BY <1>1, <1>2, <1>6, <1>8, <1>9 DEF Forget
  <1>12. /\ ~used'[m] /\ \A b \in Addrs \ {m} : used'[b] = used[b]
    BY <1>1, <1>2, <1>8
  <1>13. used'[MemSize]
    BY <1>2, <1>8, <1>12
  <1>14. Shape'
    <2>1. headers' \subseteq Addrs \ {MemSize}
      BY <1>1, <1>2, <1>8
    <2>2. next' \in [Addrs -> Addrs] /\ prev' \in [Addrs -> Addrs]
      BY <1>1, <1>2, <1>4, <1>6, <1>8 DEF Forget
    <2>3. used' \in [Addrs -> BOOLEAN]
      BY <1>1, <1>2, <1>8
    <2>4. held' \in [Addrs -> Addrs]
      <3>1. n \in Addrs
        BY <1>4 DEF Addrs, Space
      <3> QED
        BY <3>1, <1>2, <1>4
    <2> QED
      BY <2>1, <2>2, <2>3, <2>4 DEF Shape, Addrs
  <1>15. headers' \subseteq Addrs \ gone
    BY <1>1, <1>2, <1>8, <1>9
  <1>16. List'
    <2>1. headers' = (headers \ {b \in headers : a < b /\ b < end}) \cup {m}
      BY <1>1, <1>6
    <2>2. \A b \in headers' \ {a, m} : next'[b] = next[b]
      BY <1>10, <1>15
    <2>3. \A b \in headers' \ {m, end} : prev'[b] = prev[b]
      BY <1>11, <1>15
    <2>4. List
      BY DEF Sound
    <2> QED
      BY Cut, <2>1, <2>2, <2>3, <2>4, <1>5, <1>6, <1>8, <1>10, <1>11, <1>13, <1>14
  <1>17. HeldBlocksUsed'
    <2> SUFFICES ASSUME NEW b \in Addrs
                 PROVE  IF held'[b] # 0
                          THEN b \in headers' /\ used'[b] /\ held'[b] <= Space(b)'
                          ELSE b \in headers' => ~used'[b]
      BY DEF HeldBlocksUsed, Addrs
    <2>1. CASE b = a
      <3>1. Space(a)' = n
        BY <1>4, <1>10 DEF Space, m, BackAt
      <3>2. held'[a] # 0 /\ held'[a] <= n
        <4>1. held[a] \in Nat /\ held'[a] = IF n < held[a] THEN n ELSE held[a]
          BY <1>2, <1>4 DEF Addrs
        <4> QED
          BY <4>1
      <3>3. used'[a] /\ a \in headers'
        BY <1>1, <1>3, <1>4, <1>8, <1>9, <1>12
      <3> QED
        BY <2>1, <3>1, <3>2, <3>3
    <2>2. CASE b = m
      <3>1. held'[m] = held[m] /\ held[m] = 0
        BY <1>2, <1>3, <1>8
      <3> QED
        BY <2>2, <3>1, <1>12
    <2>3. CASE b \notin {a, m}
      <3>1. held'[b] = held[b] /\ used'[b] = used[b]
        BY <2>3, <1>2, <1>12
      <3>2. CASE held[b] = 0
        BY <3>1, <3>2, <2>3, <1>1, <1>3
      <3>3. CASE held[b] # 0
        <4>1. b \in headers /\ used[b] /\ held[b] <= Space(b)
          BY <3>3, <1>3
        <4>2. b \in headers' /\ b \notin gone
          BY <4>1, <1>1, <1>7
        <4>3. Space(b)' = Space(b)
          BY <4>2, <2>3, <1>10 DEF Space
        <4> QED
          BY <3>1, <3>3, <4>1, <4>2, <4>3
      <3> QED
        BY <3>2, <3>3
    <2> QED
      BY <2>1, <2>2, <2>3
  <1>18. a \in headers' /\ m \in headers' /\ used'[a]
    BY <1>1, <1>3, <1>4, <1>8, <1>9, <1>12
  <1>19. \A b \in headers' \ {a, m} :
           b \in headers /\ next'[b] = next[b] /\ used'[b] = used[b]
    BY <1>1, <1>2, <1>10, <1>12, <1>15
  <1>20. end \in headers => used'[end] = used[end]
    BY <1>6, <1>8, <1>12
  <1>21. a < m /\ m < end
    BY <1>4, <1>5, <1>6
  <1>22. Sound'
    BY <1>16, <1>17 DEF Sound
  <1> QED
    BY <1>1, <1>6, <1>8, <1>10, <1>12, <1>13, <1>18, <1>19, <1>20, <1>21, <1>22, Zenon
       DEF m, end, gone

-----------------------------------------------------------------------------
(***************************************************************************)
(* The lowest free block.                                                  *)
(***************************************************************************)
LEMMA Minimum ==
  ASSUME NEW T, T \subseteq Nat, T # {}
  PROVE  \E x \in T : \A y \in T : x <= y
  <1>1. \E x \in T : \A y \in T : ~(<<y, x>> \in OpToRel(<, Nat))
    BY NatLessThanWellFounded, WFMin
  <1>2. PICK x \in T : \A y \in T : ~(<<y, x>> \in OpToRel(<, Nat))
    BY <1>1
  <1>3. ASSUME NEW y \in T PROVE x <= y
    <2>1. <<y, x>> \notin OpToRel(<, Nat)
      BY <1>2
    <2>2. x \in Nat /\ y \in Nat
      OBVIOUS
    <2>3. ~(y < x)
      BY <2>1, <2>2 DEF OpToRel
    <2> QED
      BY <2>2, <2>3
  <1> QED
    BY <1>3

LEMMA LowestFreeIs ==
  ASSUME NEW S, S \subseteq Nat, NEW inUse, NEW a \in Nat
  PROVE  \/ /\ LowestFree(S, inUse, a) = MemSize
            /\ \A b \in S : b >= a => inUse[b]
         \/ /\ LowestFree(S, inUse, a) \in S
            /\ ~inUse[LowestFree(S, inUse, a)]
            /\ LowestFree(S, inUse, a) >= a
            /\ \A b \in S : b >= a /\ ~inUse[b] => LowestFree(S, inUse, a) <= b
  <1> DEFINE free == {b \in S : b >= a /\ ~inUse[b]}
  <1>1. CASE free = {}
    BY <1>1 DEF LowestFree
  <1>2. CASE free # {}
    <2>1. LowestFree(S, inUse, a) = CHOOSE b \in free : \A c \in free : b <= c
      BY <1>2 DEF LowestFree
    <2> HIDE DEF free
    <2>2. \E b \in free : \A c \in free : b <= c
      <3>1. free \subseteq Nat
        BY DEF free
      <3> QED
        BY <1>2, <3>1, Minimum
    <2>3. /\ LowestFree(S, inUse, a) \in free
          /\ \A c \in free : LowestFree(S, inUse, a) <= c
      BY <2>1, <2>2
    <2> QED
      BY <2>3 DEF free
  <1> QED
    BY <1>1, <1>2

-----------------------------------------------------------------------------
(***************************************************************************)
(* The invariant.                                                          *)
(***************************************************************************)

(* What the main loop knows of the block at ptr. *)
Places ==
  /\ pc \in {"idle", "search", "take", "advance", "plug"}
  /\ want \in Addrs /\ ptr \in Addrs /\ lfree \in Addrs
  /\ pc \in {"search", "take"} => want >= MinSize
  /\ pc = "search" => ptr \in headers \cup {MemSize}
  /\ pc \in {"take", "advance", "plug"} => ptr \in headers
  /\ pc \in {"take", "plug"} => ~used[ptr]
  /\ pc = "take" => want <= Space(ptr)
  /\ pc = "advance" => used[ptr]

(* Free blocks are side by side only where plug_holes is about to run. *)
Plugged ==
  \A a \in headers : ~used[a] /\ ~used[next[a]] => pc = "plug" /\ ptr \in {a, next[a]}

(* No free block is below lfree, and lfree is one, unless mem_malloc has   *)
(* just taken it.                                                          *)
Lowest ==
  /\ \A b \in headers : ~used[b] => lfree <= b
  /\ \/ lfree = MemSize
     \/ lfree \in headers /\ ~used[lfree]
     \/ pc = "advance" /\ lfree = ptr

(* The search has passed no block that fits, if it was left alone.         *)
Searched ==
  pc = "search" /\ ~overlapped =>
    \A b \in headers : ~used[b] /\ b < ptr => Space(b) < want

(* Where the handler may call: outside the main loop's calls, and in its   *)
(* search if that is still at a block or at the end.                       *)
AtRest ==
  \/ pc = "idle"
  \/ pc = "search" /\ want >= MinSize /\ ptr \in headers \cup {MemSize} /\ overlapped

IInv == Sound /\ Places /\ Plugged /\ Lowest /\ Searched

LEMMA InitEstablishes == IrqInit => IInv
  <1> SUFFICES ASSUME IrqInit PROVE IInv
    OBVIOUS
  <1> USE DEF IrqInit, Init, Addrs
  <1>1. 0 \in Addrs /\ MemSize \in Addrs /\ 0 # MemSize
    OBVIOUS
  <1>2. headers = {0} /\ next[0] = MemSize /\ prev[0] = 0 /\ used[MemSize] /\ ~used[0]
    BY <1>1
  <1>3. Shape
    BY <1>1 DEF Shape
  <1>4. Tiled /\ Linked
    BY <1>2 DEF Tiled, Linked, Space
  <1>5. HeldBlocksUsed
    BY <1>2 DEF HeldBlocksUsed
  <1>6. Places /\ Plugged /\ Lowest /\ Searched
    BY <1>1, <1>2 DEF Places, Plugged, Lowest, Searched
  <1> QED
    BY <1>3, <1>4, <1>5, <1>6 DEF IInv, Sound, List

(* What the operations' lemmas need of a state. *)
LEMMA Facts ==
  ASSUME IInv
  PROVE  /\ headers \subseteq Nat /\ headers \subseteq Addrs /\ MemSize \notin headers
         /\ next \in [Addrs -> Addrs]
         /\ used \in [Addrs -> BOOLEAN] /\ held \in [Addrs -> Addrs]
         /\ used[MemSize] /\ List
         /\ \A a \in headers : /\ next[a] \in headers \cup {MemSize}
                               /\ a < next[a] /\ a < MemSize
                               /\ next[a] \in Addrs /\ next[a] \in Nat
         /\ 0 \in Addrs /\ MemSize \in Addrs /\ lfree \in Addrs /\ lfree \in Nat
  <1>1. Shape /\ List /\ used[MemSize] /\ \A a \in headers : next[a] \in headers \cup {MemSize}
    BY DEF IInv, Sound, List, Tiled
  <1>2. \A a \in headers : /\ a < next[a] /\ a < MemSize
                           /\ next[a] \in Addrs /\ next[a] \in Nat
    BY <1>1, Order
  <1>3. headers \subseteq Addrs \ {MemSize} /\ Addrs \subseteq Nat
    BY <1>1 DEF Shape, Addrs
  <1>4. 0 \in Addrs /\ MemSize \in Addrs /\ lfree \in Addrs /\ lfree \in Nat
    BY DEF IInv, Places, Addrs
  <1> QED
    BY <1>1, <1>2, <1>3, <1>4 DEF Shape

-----------------------------------------------------------------------------
(***************************************************************************)
(* The steps keep it.                                                      *)
(***************************************************************************)

LEMMA AlignedSize ==
  ASSUME NEW size \in Requests
  PROVE  Aligned(size) \in Nat /\ Aligned(size) >= MinSize /\ Aligned(size) > 0
  BY DEF Aligned

(* mem_malloc's first half, by whoever calls it: the free blocks that are  *)
(* left are those there were, but for the rest of a's.                     *)
LEMMA TakeFree ==
  ASSUME IInv, pc \in {"idle", "search", "take"}, NEW a \in headers, ~used[a],
         NEW n \in Nat, n >= MinSize, Space(a) >= n, Take(a, n)
  PROVE  /\ Sound' /\ a \in headers' /\ used'[a]
         /\ \A b \in headers' : ~used'[b] => used'[next'[b]]
         /\ \A b \in headers' : ~used'[b] => lfree <= b
         /\ lfree = MemSize \/ lfree = a \/ (lfree \in headers' /\ ~used'[lfree])
  <1>1. /\ Sound'
        /\ a \in headers' /\ used'[a]
        /\ \A b \in headers' \ {a} :
             \/ b \in headers /\ used'[b] = used[b] /\ next'[b] = next[b]
             \/ b \notin headers /\ ~used'[b] /\ a < b /\ next'[b] = next[a]
        /\ headers \subseteq headers'
        /\ used'[MemSize]
    BY TakeKeeps DEF IInv
  <1>2. /\ headers \subseteq Nat /\ MemSize \notin headers
        /\ \A b \in headers : next[b] \in headers \cup {MemSize} /\ b < next[b]
    BY Facts
  <1>3. \A b \in headers : ~used[b] => used[next[b]]
    BY DEF IInv, Plugged
  <1>4. /\ \A b \in headers : ~used[b] => lfree <= b
        /\ lfree = MemSize \/ (lfree \in headers /\ ~used[lfree])
        /\ lfree \in Nat
    BY DEF IInv, Lowest, Places, Addrs
  <1>5. \A b \in headers \ {a} : used'[b] = used[b]
    BY <1>1
  <1>6. ASSUME NEW b \in headers', ~used'[b]
        PROVE  used'[next'[b]] /\ lfree <= b
    <2>1. CASE b \in headers
      <3>1. b # a /\ next'[b] = next[b] /\ ~used[b]
        BY <1>1, <1>6, <2>1
      <3>2. used[next[b]] /\ next[b] \in headers \cup {MemSize} /\ lfree <= b
        BY <1>2, <1>3, <1>4, <2>1, <3>1
      <3>3. used'[next[b]]
        BY <1>1, <1>5, <3>2
      <3> QED
        BY <3>1, <3>2, <3>3
    <2>2. CASE b \notin headers
      <3>1. b # a /\ next'[b] = next[a] /\ a < b
        BY <1>1, <2>2
      <3>2. used[next[a]] /\ next[a] \in headers \cup {MemSize} /\ next[a] # a
        BY <1>2, <1>3
      <3>3. used'[next[a]]
        BY <1>1, <1>5, <3>2
      <3>4. b \in Nat
        BY <1>1 DEF Sound, List, Shape, Addrs
      <3>5. lfree <= a /\ a \in Nat
        BY <1>2, <1>4
      <3>6. lfree <= b
        BY <1>4, <3>1, <3>4, <3>5
      <3> QED
        BY <3>1, <3>3, <3>6
    <2> QED
      BY <2>1, <2>2
  <1>7. lfree = MemSize \/ lfree = a \/ (lfree \in headers' /\ ~used'[lfree])
    BY <1>1, <1>4, <1>5
  <1> QED
    BY <1>1, <1>6, <1>7

LEMMA HeapUnchanged ==
  ASSUME IInv, UNCHANGED heapVars
  PROVE  Sound' /\ lfree' \in Addrs
  BY DEF IInv, Sound, List, Shape, Tiled, Linked, HeldBlocksUsed, Space, Addrs,
         Places, heapVars

LEMMA StartMallocKeeps == IInv /\ StartMalloc => IInv'
  <1> SUFFICES ASSUME IInv, StartMalloc PROVE IInv'
    OBVIOUS
  <1>1. /\ pc = "idle" /\ pc' = "search" /\ ptr' = lfree
        /\ want' \in Addrs /\ want' >= MinSize
    BY AlignedSize DEF StartMalloc, Addrs
  <1>2. UNCHANGED heapVars /\ UNCHANGED <<headers, next, prev, used, lfree, held>>
    BY DEF StartMalloc, heapVars
  <1>3. lfree \in headers \cup {MemSize} /\ lfree \in Addrs /\ lfree \in Nat
    BY <1>1 DEF IInv, Lowest, Places, Addrs
  <1>4. Places'
    BY <1>1, <1>2, <1>3 DEF Places, Addrs
  <1>5. Plugged' /\ Lowest'
    BY <1>1, <1>2 DEF IInv, Plugged, Lowest
  <1>6. Searched'
    BY <1>1, <1>2, <1>3, Facts DEF IInv, Lowest, Searched
  <1> QED
    BY <1>2, <1>4, <1>5, <1>6, HeapUnchanged DEF IInv

LEMMA SearchEndsKeeps == IInv /\ SearchEnds => IInv'
  <1> SUFFICES ASSUME IInv, SearchEnds PROVE IInv'
    OBVIOUS
  <1>1. /\ pc = "search" /\ pc' = "idle" /\ want' = 0 /\ ptr' = 0
        /\ UNCHANGED heapVars /\ UNCHANGED <<headers, next, prev, used, lfree, held>>
    BY DEF SearchEnds, heapVars
  <1>2. Places' /\ Plugged' /\ Lowest' /\ Searched'
    BY <1>1 DEF IInv, Places, Plugged, Lowest, Searched, Addrs
  <1> QED
    BY <1>1, <1>2, HeapUnchanged DEF IInv

LEMMA SearchFindsKeeps == IInv /\ SearchFinds => IInv'
  <1> SUFFICES ASSUME IInv, SearchFinds PROVE IInv'
    OBVIOUS
  <1>1. /\ pc = "search" /\ pc' = "take" /\ want' = want /\ ptr' = ptr
        /\ ptr < MemSize - want /\ ~used[ptr] /\ Space(ptr) >= want
        /\ UNCHANGED heapVars /\ UNCHANGED <<headers, next, prev, used, lfree, held>>
    BY DEF SearchFinds, heapVars
  <1>2. ptr \in headers /\ want \in Nat /\ Space(ptr) \in Int
    <2>1. ptr \in headers \cup {MemSize} /\ want \in Nat
      BY <1>1 DEF IInv, Places, Addrs
    <2>2. ptr # MemSize
      BY <1>1, <2>1
    <2>3. ptr \in headers
      BY <2>1, <2>2
    <2>4. next[ptr] \in Nat /\ ptr \in Nat
      BY <2>3, Facts
    <2> QED
      BY <2>1, <2>3, <2>4 DEF Space
  <1>3. Places'
    BY <1>1, <1>2 DEF IInv, Places, Addrs, Space
  <1>4. Plugged' /\ Lowest' /\ Searched'
    BY <1>1 DEF IInv, Plugged, Lowest, Searched
  <1> QED
    BY <1>1, <1>3, <1>4, HeapUnchanged DEF IInv

LEMMA SearchGoesOnKeeps == IInv /\ SearchGoesOn => IInv'
  <1> SUFFICES ASSUME IInv, SearchGoesOn PROVE IInv'
    OBVIOUS
  <1>1. /\ pc = "search" /\ pc' = "search" /\ want' = want /\ ptr' = next[ptr]
        /\ ptr < MemSize - want /\ (used[ptr] \/ Space(ptr) < want)
        /\ UNCHANGED heapVars /\ UNCHANGED <<headers, next, prev, used, lfree, held>>
        /\ overlapped' = overlapped
    BY DEF SearchGoesOn, heapVars, overVars
  <1>0. ptr \in headers
    <2>1. ptr \in headers \cup {MemSize} /\ want \in Nat
      BY <1>1 DEF IInv, Places, Addrs
    <2>2. ptr # MemSize
      BY <1>1, <2>1
    <2> QED
      BY <2>1, <2>2
  <1>2. /\ next[ptr] \in headers \cup {MemSize} /\ next[ptr] \in Addrs
        /\ ptr \in Nat
        /\ \A b \in headers : b \in Nat /\ (b <= ptr \/ next[ptr] <= b)
    BY <1>0, Facts, Order
  <1>3. Places'
    BY <1>1, <1>2 DEF IInv, Places, Addrs
  <1>4. Plugged' /\ Lowest'
    BY <1>1 DEF IInv, Plugged, Lowest
  <1>5. Searched'
    <2> SUFFICES ASSUME ~overlapped, NEW b \in headers, ~used[b], b < next[ptr]
                 PROVE  Space(b) < want
      BY <1>1 DEF Searched, Space
    <2>1. b \in Nat /\ next[ptr] \in Nat /\ b <= ptr
      BY <1>2 DEF Addrs
    <2>2. CASE b = ptr
      BY <2>2, <1>1
    <2>3. CASE b < ptr
      BY <2>3, <1>1 DEF IInv, Searched
    <2> QED
      BY <1>2, <2>1, <2>2, <2>3
  <1> QED
    BY <1>1, <1>3, <1>4, <1>5, HeapUnchanged DEF IInv

LEMMA TakeBlockKeeps == IInv /\ TakeBlock => IInv'
  <1> SUFFICES ASSUME IInv, TakeBlock PROVE IInv'
    OBVIOUS
  <1>1. /\ pc = "take" /\ pc' = "advance" /\ ptr \in headers /\ Take(ptr, want)
        /\ lfree' = lfree /\ want' = want /\ ptr' = ptr
    BY DEF TakeBlock, IInv, Places
  <1>2. /\ ~used[ptr] /\ want \in Nat /\ want >= MinSize /\ Space(ptr) >= want
        /\ lfree \in Addrs /\ want \in Addrs /\ ptr \in Addrs
    BY <1>1, Facts DEF IInv, Places, Addrs, Space
  <1>3. /\ Sound' /\ ptr \in headers' /\ used'[ptr]
        /\ \A b \in headers' : ~used'[b] => used'[next'[b]]
        /\ \A b \in headers' : ~used'[b] => lfree <= b
        /\ lfree = MemSize \/ lfree = ptr \/ (lfree \in headers' /\ ~used'[lfree])
    BY <1>1, <1>2, TakeFree
  <1>4. Places'
    BY <1>1, <1>2, <1>3 DEF Places, Addrs
  <1>5. Plugged' /\ Lowest' /\ Searched'
    BY <1>1, <1>3 DEF Plugged, Lowest, Searched
  <1> QED
    BY <1>3, <1>4, <1>5 DEF IInv

(* mem_malloc's second half: the lowest free block is not below one that   *)
(* was the lowest.                                                         *)
LEMMA Advance ==
  ASSUME NEW S, S \subseteq Addrs \ {MemSize}, NEW inUse, NEW low \in Addrs, NEW a \in S,
         \A b \in S : ~inUse[b] => low <= b,
         low = MemSize \/ low = a \/ (low \in S /\ ~inUse[low]), inUse[a],
         NEW low2, low2 = IF low = a THEN LowestFree(S, inUse, a) ELSE low
  PROVE  /\ low2 \in Addrs
         /\ \A b \in S : ~inUse[b] => low2 <= b
         /\ low2 = MemSize \/ (low2 \in S /\ ~inUse[low2])
  <1>1. CASE low = a
    <2>1. S \subseteq Nat /\ a \in Nat /\ MemSize \in Addrs
      BY DEF Addrs
    <2>2. \/ /\ low2 = MemSize
             /\ \A b \in S : b >= a => inUse[b]
          \/ /\ low2 \in S
             /\ ~inUse[low2]
             /\ \A b \in S : b >= a /\ ~inUse[b] => low2 <= b
      BY <1>1, <2>1, LowestFreeIs
    <2>3. \A b \in S : ~inUse[b] => b >= a
      BY <1>1, <2>1
    <2> QED
      BY <2>1, <2>2, <2>3
  <1>2. CASE low # a
    BY <1>2
  <1> QED
    BY <1>1, <1>2

LEMMA AdvanceLfreeKeeps == IInv /\ AdvanceLfree => IInv'
  <1> SUFFICES ASSUME IInv, AdvanceLfree PROVE IInv'
    OBVIOUS
  <1>1. /\ pc = "advance" /\ pc' = "idle" /\ want' = 0 /\ ptr' = 0
        /\ lfree' = IF lfree = ptr THEN LowestFree(headers, used, ptr) ELSE lfree
        /\ UNCHANGED <<headers, next, prev, used, held>>
    BY DEF AdvanceLfree
  <1>2. /\ ptr \in headers /\ used[ptr] /\ lfree \in Addrs
        /\ \A b \in headers : ~used[b] => lfree <= b
        /\ lfree = MemSize \/ lfree = ptr \/ (lfree \in headers /\ ~used[lfree])
    BY <1>1 DEF IInv, Places, Lowest
  <1>3. /\ lfree' \in Addrs
        /\ \A b \in headers : ~used[b] => lfree' <= b
        /\ lfree' = MemSize \/ (lfree' \in headers /\ ~used[lfree'])
    BY <1>1, <1>2, Facts, Advance
  <1>4. Sound'
    BY <1>1 DEF IInv, Sound, List, Shape, Tiled, Linked, HeldBlocksUsed, Space, Addrs
  <1>5. Places' /\ Plugged' /\ Lowest' /\ Searched'
    BY <1>1, <1>3 DEF IInv, Places, Plugged, Lowest, Searched, Addrs
  <1> QED
    BY <1>4, <1>5 DEF IInv

(* lfree once the block at a is free. *)
LEMMA FreedIsLowest ==
  ASSUME IInv, pc \in {"idle", "search"}, NEW a \in headers,
         used' = [used EXCEPT ![a] = FALSE]
  PROVE  /\ FreedLowest(a) \in headers /\ ~used'[FreedLowest(a)]
         /\ \A b \in headers : ~used'[b] => FreedLowest(a) <= b
  <1>1. /\ a \in Nat /\ a \in Addrs /\ a < MemSize /\ headers \subseteq Nat
        /\ headers \subseteq Addrs
        /\ used \in [Addrs -> BOOLEAN] /\ lfree \in Nat
    BY Facts
  <1>2. ~used'[a] /\ \A b \in Addrs \ {a} : used'[b] = used[b]
    BY <1>1
  <1>3. /\ \A b \in headers : ~used[b] => lfree <= b
        /\ lfree = MemSize \/ (lfree \in headers /\ ~used[lfree])
    BY DEF IInv, Lowest
  <1>4. CASE a < lfree
    BY <1>1, <1>2, <1>3, <1>4 DEF FreedLowest
  <1>5. CASE ~(a < lfree)
    BY <1>1, <1>2, <1>3, <1>5 DEF FreedLowest
  <1> QED
    BY <1>4, <1>5

LEMMA StartFreeKeeps == IInv /\ StartFree => IInv'
  <1> SUFFICES ASSUME IInv, StartFree PROVE IInv'
    OBVIOUS
  <1>1. PICK a \in headers :
          /\ held[a] # 0
          /\ used' = [used EXCEPT ![a] = FALSE]
          /\ held' = [held EXCEPT ![a] = 0]
          /\ lfree' = FreedLowest(a)
          /\ ptr' = a
    BY DEF StartFree
  <1>2. pc = "idle" /\ pc' = "plug" /\ UNCHANGED <<headers, next, prev, want>>
    BY DEF StartFree
  <1>3. /\ a \in Addrs /\ 0 \in Addrs /\ MemSize \in Addrs /\ a # MemSize
        /\ used \in [Addrs -> BOOLEAN] /\ held \in [Addrs -> Addrs]
        /\ headers \subseteq Addrs /\ used[MemSize] /\ List
        /\ \A b \in headers : next[b] \in Addrs
    BY Facts
  <1>4. /\ ~used'[a] /\ \A b \in Addrs \ {a} : used'[b] = used[b]
        /\ held'[a] = 0 /\ \A b \in Addrs \ {a} : held'[b] = held[b]
    BY <1>1, <1>3
  <1>5. Sound'
    <2>1. Shape'
      BY <1>1, <1>2, <1>3 DEF List, Shape, Addrs
    <2>2. used'[MemSize]
      BY <1>3, <1>4
    <2>3. Tiled' /\ Linked'
      BY <1>2, <1>3, <2>2 DEF List, Tiled, Linked, Space
    <2>4. HeldBlocksUsed'
      <3> SUFFICES ASSUME NEW b \in Addrs
                   PROVE  IF held'[b] # 0
                            THEN b \in headers' /\ used'[b] /\ held'[b] <= Space(b)'
                            ELSE b \in headers' => ~used'[b]
        BY DEF HeldBlocksUsed, Addrs
      <3>1. Space(b)' = Space(b)
        BY <1>2 DEF Space
      <3>2. CASE b = a
        BY <3>2, <1>4
      <3>3. CASE b # a
        BY <3>1, <3>3, <1>2, <1>4 DEF IInv, Sound, HeldBlocksUsed
      <3> QED
        BY <3>2, <3>3
    <2> QED
      BY <2>1, <2>3, <2>4 DEF Sound, List
  <1>6. /\ lfree' \in headers /\ ~used'[lfree']
        /\ \A b \in headers : ~used'[b] => lfree' <= b
    BY <1>1, <1>2, FreedIsLowest
  <1>7. Places'
    BY <1>1, <1>2, <1>3, <1>4, <1>6 DEF IInv, Places, Addrs
  <1>8. Plugged'
    <2> SUFFICES ASSUME NEW b \in headers, ~used'[b], ~used'[next[b]]
                 PROVE  a \in {b, next[b]}
      BY <1>1, <1>2 DEF Plugged
    <2> QED
      BY <1>2, <1>3, <1>4 DEF IInv, Plugged
  <1>9. Lowest' /\ Searched'
    BY <1>2, <1>6 DEF Lowest, Searched
  <1> QED
    BY <1>5, <1>7, <1>8, <1>9 DEF IInv

(* plug_holes leaves no two free blocks side by side, and keeps lfree. *)
LEMMA PlugHolesKeeps ==
  ASSUME IInv, NEW a \in headers, NEW low \in headers, PlugHoles(a, low),
         used' \in [Addrs -> BOOLEAN], held' \in [Addrs -> Addrs],
         ~used'[a], \A b \in Addrs \ {a} : used'[b] = used[b],
         \A b \in Addrs : IF held'[b] # 0
                            THEN b \in headers /\ used'[b] /\ held'[b] <= Space(b)
                            ELSE b \in headers => ~used'[b],
         \A b \in headers : ~used'[b] /\ ~used'[next[b]] => a \in {b, next[b]},
         ~used'[low], \A b \in headers : ~used'[b] => low <= b,
         AtRest', want' \in Addrs, ptr' \in Addrs
  PROVE  IInv'
  <1>1. /\ Sound'
        /\ headers' \subseteq headers
        /\ PlugFirst(a) \in headers' /\ ~used'[PlugFirst(a)]
        /\ next'[PlugFirst(a)] = PlugEnd(a)
        /\ \A b \in headers \ headers' : PlugFirst(a) < b
        /\ \A b \in headers' \ {PlugFirst(a)} : next'[b] = next[b]
        /\ lfree' = IF low \in headers \ headers' THEN PlugFirst(a) ELSE low
    BY PlugKeeps, Facts
  <1>2. /\ headers \subseteq Nat /\ headers \subseteq Addrs /\ MemSize \notin headers
        /\ used[MemSize] /\ List
        /\ \A b \in headers : next[b] \in headers \cup {MemSize} /\ b < next[b]
        /\ MemSize \in Addrs /\ a \in Nat
    BY Facts
  <1>3. low \in headers' /\ lfree' = low
    <2>1. low <= PlugFirst(a) /\ low \in Nat /\ PlugFirst(a) \in Nat
      BY <1>1, <1>2
    <2> QED
      BY <1>1, <2>1
  <1>4. Places'
    BY <1>2, <1>3 DEF Places, AtRest, Addrs
  <1>5. Plugged'
    <2> SUFFICES ASSUME NEW b \in headers', ~used'[b] PROVE used'[next'[b]]
      BY DEF Plugged
    <2>1. CASE b = PlugFirst(a)
      <3>1. CASE PlugForward(a)
        <4>1. next[a] \in headers /\ PlugEnd(a) = next[next[a]] /\ ~used[next[a]]
          BY <1>2, <3>1 DEF PlugForward, PlugEnd
        <4>2. /\ next[a] \in Nat /\ next[next[a]] \in Nat
              /\ a < next[a] /\ next[a] < next[next[a]]
          BY <4>1, Facts
        <4>3. ~used'[next[a]] /\ a # next[a] /\ a # next[next[a]]
          BY <1>2, <4>1, <4>2
        <4> QED
          BY <1>1, <2>1, <4>1, <4>3
      <3>2. CASE ~PlugForward(a)
        <4>1. PlugEnd(a) = next[a] /\ (used[next[a]] \/ next[a] = MemSize)
          BY <3>2 DEF PlugForward, PlugEnd
        <4>2. used[next[a]] /\ next[a] \in Addrs \ {a}
          <5>1. next[a] \in Addrs /\ next[a] \in Nat /\ a < next[a]
            BY Facts
          <5> QED
            BY <1>2, <4>1, <5>1
        <4> QED
          BY <1>1, <2>1, <4>1, <4>2
      <3> QED
        BY <3>1, <3>2
    <2>2. CASE b # PlugFirst(a)
      <3>1. b \in headers /\ next'[b] = next[b]
        BY <1>1, <2>2
      <3>2. CASE b = a
        <4>1. PlugFirst(a) < a
          <5>1. PlugFirst(a) \in Nat /\ PlugFirst(a) <= a /\ PlugFirst(a) # a
            BY <1>2, <2>2, <3>2, PlugRange
          <5> QED
            BY <1>2, <5>1
        <4>2. a \notin headers'
          <5>1. headers' = headers \ {c \in headers : PlugFirst(a) < c /\ c < PlugEnd(a)}
            BY DEF PlugHoles, PlugFirst, PlugEnd
          <5> QED
            BY <1>2, <4>1, <5>1, PlugRange
        <4> QED
          BY <3>2, <4>2
      <3>3. CASE next[b] = a
        <4>1. prev[a] = b /\ a # b
          BY <1>2, <3>1, <3>3 DEF List, Tiled
        <4>2. ~used[b]
          BY <1>2, <3>1, <4>1
        <4> QED
          BY <2>2, <4>1, <4>2 DEF PlugFirst, PlugBackward
      <3>4. CASE b # a /\ next[b] # a
        BY <3>1, <3>4
      <3> QED
        BY <3>2, <3>3, <3>4
    <2> QED
      BY <2>1, <2>2
  <1>6. Lowest' /\ Searched'
    BY <1>1, <1>3 DEF Lowest, Searched, AtRest
  <1> QED
    BY <1>1, <1>4, <1>5, <1>6 DEF IInv

LEMMA FinishFreeKeeps == IInv /\ FinishFree => IInv'
  <1> SUFFICES ASSUME IInv, FinishFree PROVE IInv'
    OBVIOUS
  <1>1. /\ pc = "plug" /\ ptr \in headers /\ PlugHoles(ptr, lfree)
        /\ pc' = "idle" /\ ptr' = 0 /\ UNCHANGED <<used, held, want>>
    BY DEF FinishFree, IInv, Places
  <1>2. /\ ~used[ptr] /\ want \in Addrs
        /\ \A b \in headers : ~used[b] => lfree <= b
        /\ lfree = MemSize \/ (lfree \in headers /\ ~used[lfree])
    BY <1>1 DEF IInv, Places, Lowest
  <1>3. headers \subseteq Addrs /\ MemSize \notin headers
        /\ used \in [Addrs -> BOOLEAN] /\ held \in [Addrs -> Addrs]
    BY Facts
  <1>4. lfree \in headers /\ ~used[lfree]
    <2>1. ptr \in 0..MemSize /\ lfree <= ptr /\ ptr # MemSize
      BY <1>1, <1>2, <1>3 DEF Addrs
    <2>2. lfree # MemSize
      BY <2>1
    <2> QED
      BY <1>2, <2>2
  <1>5. \A b \in Addrs : IF held'[b] # 0
                           THEN b \in headers /\ used'[b] /\ held'[b] <= Space(b)
                           ELSE b \in headers => ~used'[b]
    BY <1>1 DEF IInv, Sound, HeldBlocksUsed
  <1>6. \A b \in headers : ~used'[b] /\ ~used'[next[b]] => ptr \in {b, next[b]}
    BY <1>1 DEF IInv, Plugged
  <1> QED
    BY <1>1, <1>2, <1>3, <1>4, <1>5, <1>6, Facts, PlugHolesKeeps DEF AtRest

(***************************************************************************)
(* The handler's calls, which run to their end.                            *)
(***************************************************************************)
LEMMA MallocKeeps ==
  ASSUME IInv, pc \in {"idle", "search"}, AtRest', NEW size \in Requests, Malloc(size),
         UNCHANGED <<pc, want, ptr>>
  PROVE  IInv'
  <1> DEFINE n == Aligned(size)
  <1>1. PICK a \in Candidates(n) :
          /\ Take(a, n)
          /\ lfree' = IF lfree = a THEN LowestFree(headers', used', a) ELSE lfree
    BY DEF Malloc
  <1>2. n \in Nat /\ n >= MinSize
    BY AlignedSize
  <1>3. a \in headers /\ ~used[a] /\ Space(a) >= n
    BY DEF Candidates
  <1> HIDE DEF n
  <1>4. /\ Sound' /\ a \in headers' /\ used'[a]
        /\ \A b \in headers' : ~used'[b] => used'[next'[b]]
        /\ \A b \in headers' : ~used'[b] => lfree <= b
        /\ lfree = MemSize \/ lfree = a \/ (lfree \in headers' /\ ~used'[lfree])
    BY <1>1, <1>2, <1>3, TakeFree
  <1>5. headers' \subseteq Addrs \ {MemSize}
    BY <1>4 DEF Sound, List, Shape, Addrs
  <1>6. lfree \in Addrs
    BY Facts
  <1>7. /\ lfree' \in Addrs
        /\ \A b \in headers' : ~used'[b] => lfree' <= b
        /\ lfree' = MemSize \/ (lfree' \in headers' /\ ~used'[lfree'])
    BY <1>1, <1>4, <1>5, <1>6, Advance
  <1>8. Places' /\ Plugged' /\ Lowest' /\ Searched'
    BY <1>4, <1>7 DEF IInv, Places, AtRest, Plugged, Lowest, Searched, Addrs
  <1> QED
    BY <1>4, <1>8 DEF IInv

LEMMA FreeKeeps ==
  ASSUME IInv, pc \in {"idle", "search"}, AtRest', NEW a \in headers, Free(a),
         UNCHANGED <<pc, want, ptr>>
  PROVE  IInv'
  <1>1. /\ held[a] # 0
        /\ used' = [used EXCEPT ![a] = FALSE]
        /\ held' = [held EXCEPT ![a] = 0]
        /\ PlugHoles(a, FreedLowest(a))
    BY DEF Free
  <1>2. /\ used \in [Addrs -> BOOLEAN] /\ held \in [Addrs -> Addrs]
        /\ headers \subseteq Addrs /\ used[MemSize] /\ 0 \in Addrs /\ MemSize \notin headers
        /\ MemSize \in Addrs
        /\ \A b \in headers : next[b] \in headers \cup {MemSize}
    BY Facts
  <1>3. /\ ~used'[a] /\ \A b \in Addrs \ {a} : used'[b] = used[b]
        /\ held'[a] = 0 /\ \A b \in Addrs \ {a} : held'[b] = held[b]
        /\ used' \in [Addrs -> BOOLEAN] /\ held' \in [Addrs -> Addrs]
    BY <1>1, <1>2
  <1>4. /\ FreedLowest(a) \in headers /\ ~used'[FreedLowest(a)]
        /\ \A b \in headers : ~used'[b] => FreedLowest(a) <= b
    BY <1>1, FreedIsLowest
  <1>5. \A b \in Addrs : IF held'[b] # 0
                           THEN b \in headers /\ used'[b] /\ held'[b] <= Space(b)
                           ELSE b \in headers => ~used'[b]
    <2> SUFFICES ASSUME NEW b \in Addrs
                 PROVE  IF held'[b] # 0
                          THEN b \in headers /\ used'[b] /\ held'[b] <= Space(b)
                          ELSE b \in headers => ~used'[b]
      OBVIOUS
    <2>1. CASE b = a
      BY <2>1, <1>3
    <2>2. CASE b # a
      BY <2>2, <1>3 DEF IInv, Sound, HeldBlocksUsed
    <2> QED
      BY <2>1, <2>2
  <1>6. \A b \in headers : ~used'[b] /\ ~used'[next[b]] => a \in {b, next[b]}
    BY <1>2, <1>3 DEF IInv, Plugged
  <1>7. AtRest' /\ want' \in Addrs /\ ptr' \in Addrs
    BY DEF IInv, Places
  <1>8. PlugHoles(a, FreedLowest(a))
    BY <1>1
  <1> QED
    BY <1>3, <1>4, <1>5, <1>6, <1>7, <1>8, PlugHolesKeeps

LEMMA ReallocKeeps ==
  ASSUME IInv, pc \in {"idle", "search"}, AtRest', NEW a \in headers, NEW size \in Requests,
         Realloc(a, size), UNCHANGED <<pc, want, ptr>>
  PROVE  IInv'
  <1> DEFINE n == Aligned(size)
  <1>1. /\ held[a] # 0 /\ n < Space(a)
        /\ held' = [held EXCEPT ![a] = IF n < @ THEN n ELSE @]
        /\ IF used[next[a]] /\ ~CanSplit(Space(a), n)
             THEN UNCHANGED <<headers, next, prev, used, lfree>>
             ELSE GiveBack(a, n)
    BY DEF Realloc
  <1>2. n \in Nat /\ n >= MinSize /\ n > 0
    BY AlignedSize
  <1> HIDE DEF n
  <1>3. /\ headers \subseteq Addrs /\ headers \subseteq Nat /\ held \in [Addrs -> Addrs]
        /\ used[MemSize] /\ MemSize \notin headers /\ MemSize \in Addrs
        /\ \A b \in headers : /\ next[b] \in headers \cup {MemSize}
                              /\ b < next[b] /\ next[b] \in Nat /\ next[b] \in Addrs
        /\ lfree \in Addrs /\ lfree \in Nat
    BY Facts
  <1>4. used[a] /\ held[a] <= Space(a) /\ held[a] \in Nat
    BY <1>1, <1>3 DEF IInv, Sound, HeldBlocksUsed, Addrs
  <1>5. CASE used[next[a]] /\ ~CanSplit(Space(a), n)
    <2>1. UNCHANGED <<headers, next, prev, used, lfree>>
      BY <1>1, <1>5
    <2>2. /\ held'[a] \in Nat /\ held'[a] # 0 /\ held'[a] <= Space(a)
          /\ \A b \in Addrs \ {a} : held'[b] = held[b]
          /\ held' \in [Addrs -> Addrs]
      <3>1. held' = [held EXCEPT ![a] = IF n < held[a] THEN n ELSE held[a]]
        BY <1>1
      <3>2. n < held[a] => n \in Addrs
        <4>1. held[a] \in 0 .. MemSize /\ MemSize \in Nat
          BY <1>3, MemSizeAssumption DEF Addrs
        <4> QED
          BY <1>2, <4>1 DEF Addrs
      <3>3. held'[a] = IF n < held[a] THEN n ELSE held[a]
        BY <1>3, <3>1
      <3>4. held'[a] \in Nat /\ held'[a] # 0 /\ held'[a] <= held[a]
        BY <1>1, <1>2, <1>4, <3>3
      <3>5. held'[a] <= Space(a)
        <4>1. Space(a) \in Int
          BY <1>3 DEF Space
        <4> QED
          BY <1>4, <3>4, <4>1
      <3>6. /\ \A b \in Addrs \ {a} : held'[b] = held[b]
            /\ held' \in [Addrs -> Addrs]
        <4>1. (IF n < held[a] THEN n ELSE held[a]) \in Addrs
          BY <1>3, <3>2
        <4> QED
          BY <1>3, <3>1, <4>1
      <3> QED
        BY <3>4, <3>5, <3>6
    <2>3. HeldBlocksUsed'
      <3> SUFFICES ASSUME NEW b \in Addrs
                   PROVE  IF held'[b] # 0
                            THEN b \in headers' /\ used'[b] /\ held'[b] <= Space(b)'
                            ELSE b \in headers' => ~used'[b]
        BY DEF HeldBlocksUsed, Addrs
      <3>1. Space(b)' = Space(b)
        BY <2>1 DEF Space
      <3>2. CASE b = a
        BY <3>1, <3>2, <1>4, <2>1, <2>2
      <3>3. CASE b # a
        BY <3>1, <3>3, <2>1, <2>2 DEF IInv, Sound, HeldBlocksUsed
      <3> QED
        BY <3>2, <3>3
    <2>4. List'
      BY <2>1, <2>2 DEF IInv, Sound, List, Shape, Tiled, Linked, Space, Addrs
    <2>5. Places' /\ Plugged' /\ Lowest' /\ Searched'
      BY <2>1 DEF IInv, Places, AtRest, Plugged, Lowest, Searched, Addrs
    <2> QED
      BY <2>3, <2>4, <2>5 DEF IInv, Sound
  <1>6. CASE ~(used[next[a]] /\ ~CanSplit(Space(a), n))
    <2> DEFINE m   == BackAt(a, n)
               end == BackEnd(a)
    <2>0. GiveBack(a, n)
      BY <1>1, <1>6
    <2>1. /\ Sound'
          /\ a \in headers' /\ used'[a] /\ next'[a] = m
          /\ m \in headers' /\ ~used'[m]
          /\ a < m /\ m < end
          /\ m \notin headers
          /\ next'[m] = end
          /\ end \in headers \cup {MemSize}
          /\ headers' = (headers \ IF used[next[a]] THEN {} ELSE {next[a]}) \cup {m}
          /\ \A b \in headers' \ {a, m} :
               b \in headers /\ next'[b] = next[b] /\ used'[b] = used[b]
          /\ used'[MemSize] /\ (end \in headers => used'[end] = used[end])
      BY <1>1, <1>2, <1>6, <2>0, GiveBackKeeps DEF IInv
    <2>2. lfree' = IF (IF used[next[a]] THEN m < lfree ELSE lfree = next[a])
                     THEN m ELSE lfree
      BY <2>0 DEF GiveBack, BackAt
    <2>3. end = IF used[next[a]] THEN next[a] ELSE next[next[a]]
      BY DEF BackEnd
    <2> HIDE DEF m, end
    <2>4. m \in Nat /\ m \in Addrs /\ m < MemSize /\ end \in Nat
      <3>1. headers' \subseteq Addrs \ {MemSize}
        BY <2>1 DEF Sound, List, Shape, Addrs
      <3> QED
        BY <1>3, <2>1, <3>1 DEF Addrs
    <2>5. \A b \in headers : ~used[b] => used[next[b]] /\ lfree <= b
      BY DEF IInv, Plugged, Lowest
    <2>6. lfree = MemSize \/ (lfree \in headers /\ ~used[lfree])
      BY DEF IInv, Lowest
    <2>7. ASSUME NEW b \in headers', ~used'[b] PROVE used'[next'[b]]
      <3>1. CASE b = m
        <4>1. used[end]
          BY <1>3, <2>3, <2>5
        <4> QED
          BY <2>1, <3>1, <4>1
      <3>2. CASE b # m
        <4>1. b # a /\ b \in headers /\ next'[b] = next[b] /\ ~used[b]
          BY <2>1, <2>7, <3>2
        <4>2. used[next[b]] /\ next[b] \in headers \cup {MemSize}
          BY <1>3, <2>5, <4>1
        <4>3. next[b] # MemSize => next[b] \in headers' /\ next[b] # m
          BY <2>1, <4>2
        <4> QED
          BY <2>1, <4>1, <4>2, <4>3
      <3> QED
        BY <3>1, <3>2
    <2>8. /\ lfree' \in Addrs
          /\ \A b \in headers' : ~used'[b] => lfree' <= b
          /\ lfree' = MemSize \/ (lfree' \in headers' /\ ~used'[lfree'])
      <3>1. CASE used[next[a]]
        <4>1. lfree' = IF m < lfree THEN m ELSE lfree
          BY <2>2, <3>1
        <4>2. \A b \in headers' : ~used'[b] => b = m \/ (b \in headers /\ ~used[b])
          BY <2>1
        <4>3. ASSUME NEW b \in headers', ~used'[b] PROVE lfree' <= b
          <5>1. CASE b = m
            BY <1>3, <2>4, <4>1, <5>1
          <5>2. CASE b # m
            <6>1. lfree <= b /\ b \in Nat
              BY <1>3, <2>5, <4>2, <4>3, <5>2
            <6> QED
              BY <1>3, <2>4, <4>1, <6>1
          <5> QED
            BY <5>1, <5>2
        <4>4. CASE m < lfree
          BY <2>1, <2>4, <4>1, <4>3, <4>4
        <4>5. CASE ~(m < lfree)
          <5>1. lfree \in headers /\ ~used[lfree]
            BY <1>3, <2>4, <2>6, <4>5
          <5>2. lfree \in headers' /\ lfree \notin {a, m}
            BY <1>4, <2>1, <3>1, <5>1
          <5>3. ~used'[lfree]
            BY <2>1, <5>1, <5>2
          <5> QED
            BY <1>3, <4>1, <4>3, <4>5, <5>2, <5>3
        <4> QED
          BY <4>4, <4>5
      <3>2. CASE ~used[next[a]]
        <4>1. next[a] \in headers /\ lfree <= next[a] /\ m < next[a]
          <5>1. next[a] \in headers
            BY <1>3, <3>2
          <5>2. m < next[a]
            <6>1. a + HeaderSize + n < next[a]
              BY <1>1, <1>2, <1>3 DEF Space
            <6> QED
              BY <6>1 DEF m, BackAt
          <5> QED
            BY <2>5, <3>2, <5>1, <5>2
        <4>2. \A b \in headers : b <= a \/ next[a] <= b
          BY Order DEF IInv, Sound
        <4>3. headers' = (headers \ {next[a]}) \cup {m}
          BY <2>1, <3>2
        <4>4. CASE lfree = next[a]
          <5>1. lfree' = m
            BY <2>2, <3>2, <4>4
          <5>2. ASSUME NEW b \in headers', ~used'[b] PROVE m <= b
            <6>1. CASE b = m
              BY <2>4, <6>1
            <6>2. CASE b # m
              <7>1. b \in headers /\ ~used[b] /\ b \in Nat
                BY <1>3, <2>1, <5>2, <6>2
              <7>2. lfree <= b
                BY <2>5, <7>1
              <7> QED
                BY <1>3, <2>4, <4>1, <4>4, <7>1, <7>2
            <6> QED
              BY <6>1, <6>2
          <5> QED
            BY <2>1, <2>4, <5>1, <5>2
        <4>5. CASE lfree # next[a]
          <5>1. lfree' = lfree
            BY <2>2, <3>2, <4>5
          <5>2. lfree # MemSize
            <6>1. next[a] < MemSize /\ next[a] \in Nat
              BY <4>1, Facts
            <6> QED
              BY <4>1, <6>1
          <5>3. lfree \in headers' /\ lfree < a /\ lfree # m
            BY <1>3, <1>4, <2>1, <2>6, <4>1, <4>2, <4>3, <4>5, <5>2
          <5>4. ~used'[lfree]
            BY <1>3, <2>1, <2>6, <5>2, <5>3
          <5>5. ASSUME NEW b \in headers', ~used'[b] PROVE lfree <= b
            BY <1>3, <2>1, <2>4, <2>5, <5>3, <5>5
          <5> QED
            BY <1>3, <5>1, <5>3, <5>4, <5>5
        <4> QED
          BY <4>4, <4>5
      <3> QED
        BY <3>1, <3>2
    <2>9. Places' /\ Plugged' /\ Lowest' /\ Searched'
      BY <2>7, <2>8 DEF IInv, Places, AtRest, Plugged, Lowest, Searched, Addrs
    <2> QED
      BY <2>1, <2>9 DEF IInv
  <1> QED
    BY <1>5, <1>6

(* It holds until a call is torn apart.                                    *)
UntilTorn ==
  overlapped \in BOOLEAN /\ torn \in BOOLEAN /\ (~torn => IInv)

LEMMA HandlerKeeps == IInv /\ Handler /\ ~torn' => IInv'
  <1> SUFFICES ASSUME IInv, Handler, ~torn' PROVE IInv'
    OBVIOUS
  <1>1. /\ Next /\ UNCHANGED <<pc, want, ptr>>
        /\ pc \notin {"take", "advance", "plug"}
        /\ pc = "search" => ptr \in headers' \cup {MemSize} /\ overlapped'
    BY DEF Handler, mainVars
  <1>2. pc \in {"idle", "search"} /\ AtRest'
    BY <1>1 DEF IInv, Places, AtRest
  <1>3. ASSUME NEW size \in Requests, Malloc(size) PROVE IInv'
    BY <1>1, <1>2, <1>3, MallocKeeps
  <1>4. ASSUME NEW a \in headers, Free(a) PROVE IInv'
    BY <1>1, <1>2, <1>4, FreeKeeps
  <1>5. ASSUME NEW a \in headers, NEW size \in Requests, Realloc(a, size)
        PROVE  IInv'
    BY <1>1, <1>2, <1>5, ReallocKeeps
  <1> QED
    BY <1>1, <1>3, <1>4, <1>5 DEF Next

LEMMA StutterKeeps == IInv /\ UNCHANGED irqVars => IInv'
  <1> SUFFICES ASSUME IInv, UNCHANGED irqVars PROVE IInv'
    OBVIOUS
  <1>1. /\ UNCHANGED heapVars
        /\ UNCHANGED <<headers, next, prev, used, lfree, held, pc, want, ptr, overlapped>>
    BY DEF irqVars, heapVars, mainVars, overVars
  <1>2. Places' /\ Plugged' /\ Lowest' /\ Searched'
    BY <1>1 DEF IInv, Places, Plugged, Lowest, Searched, Space, Addrs
  <1> QED
    BY <1>1, <1>2, HeapUnchanged DEF IInv

LEMMA OverTyped ==
  ASSUME UntilTorn, [IrqNext]_irqVars
  PROVE  overlapped' \in BOOLEAN /\ torn' \in BOOLEAN /\ (torn => torn')
  <1>0. overlapped \in BOOLEAN /\ torn \in BOOLEAN
    BY DEF UntilTorn
  <1>1. CASE Handler
    <2>1. /\ overlapped' = (overlapped \/ pc = "search")
          /\ torn' = (torn \/ pc \in {"take", "advance", "plug"}
                           \/ (pc = "search" /\ ptr \notin headers' \cup {MemSize}))
      BY <1>1 DEF Handler
    <2> QED
      BY <2>1, Zenon
  <1>2. CASE Main
    BY <1>0, <1>2 DEF Main, StartMalloc, SearchEnds, SearchFinds, SearchGoesOn, TakeBlock,
       AdvanceLfree, StartFree, FinishFree, overVars
  <1>3. CASE Ended \/ UNCHANGED irqVars
    BY <1>0, <1>3 DEF Ended, irqVars, overVars
  <1> QED
    BY <1>1, <1>2, <1>3 DEF IrqNext

LEMMA InvariantStep ==
  ASSUME UntilTorn, [IrqNext]_irqVars
  PROVE  UntilTorn'
  <1>1. ASSUME ~torn' PROVE IInv'
    <2>1. IInv /\ ~torn
      BY <1>1, OverTyped DEF UntilTorn
    <2>2. CASE UNCHANGED irqVars
      BY <2>1, <2>2, StutterKeeps
    <2>3. CASE Main
      BY <2>1, <2>3, StartMallocKeeps, SearchEndsKeeps, SearchFindsKeeps,
         SearchGoesOnKeeps, TakeBlockKeeps, AdvanceLfreeKeeps, StartFreeKeeps,
         FinishFreeKeeps DEF Main
    <2>4. CASE Handler
      BY <1>1, <2>1, <2>4, HandlerKeeps
    <2> QED
      BY <2>1, <2>2, <2>3, <2>4 DEF IrqNext, Ended
  <1> QED
    BY <1>1, OverTyped DEF UntilTorn

LEMMA Invariance == IrqSpec => []UntilTorn
  <1>1. UntilTorn /\ [IrqNext]_irqVars => UntilTorn'
    BY InvariantStep
  <1>2. IrqInit => UntilTorn
    BY InitEstablishes DEF IrqInit, UntilTorn
  <1> QED
    BY <1>1, <1>2, PTL DEF IrqSpec
-----------------------------------------------------------------------------
(***************************************************************************)
(* The theorems.                                                           *)
(***************************************************************************)

(* Addresses stay in the heap, sizes within its size, until the handler    *)
(* has torn a call of the main loop apart.                                 *)
THEOREM TypeCorrect == IrqSpec => [](~torn => IrqTypeOK)
  <1>1. UntilTorn => (~torn => IrqTypeOK)
    BY DEF UntilTorn, IInv, Sound, List, Shape, Places, IrqTypeOK, TypeOK
  <1> QED
    BY <1>1, Invariance, PTL

(* The headers divide the heap at every step of mem_malloc and mem_free,   *)
(* with the handler's calls in between, until one has torn them apart.     *)
THEOREM ListSound == IrqSpec => []StaysTiled
  <1>1. UntilTorn => StaysTiled
    BY DEF UntilTorn, IInv, Sound, List, StaysTiled
  <1> QED
    BY <1>1, Invariance, PTL

(* The blocks in use are those that clients hold, with the space they were *)
(* granted, until the handler has torn a call apart.                       *)
THEOREM ClientsKeepTheirBlocks == IrqSpec => []HeldStayUsed
  <1>1. UntilTorn => HeldStayUsed
    BY DEF UntilTorn, IInv, Sound, HeldStayUsed
  <1> QED
    BY <1>1, Invariance, PTL

(* Between two calls no two free blocks are side by side, and lfree is the *)
(* lowest, until the handler has torn a call apart.                        *)
THEOREM CallsRestore == IrqSpec => []SoundBetweenCalls
  <1>1. ASSUME IInv, pc = "idle" PROVE NoFreeNeighbours
    BY <1>1 DEF IInv, Plugged, NoFreeNeighbours
  <1>2. ASSUME IInv, pc = "idle" PROVE LfreeIsLowest
    <2> DEFINE low == LowestFree(headers, used, 0)
    <2>1. headers \subseteq Nat /\ MemSize \notin headers /\ lfree \in Nat
      BY <1>2, Facts
    <2>2. \/ low = MemSize /\ \A b \in headers : b >= 0 => used[b]
          \/ low \in headers /\ ~used[low]
             /\ \A b \in headers : b >= 0 /\ ~used[b] => low <= b
      BY <2>1, LowestFreeIs
    <2>3. /\ \A b \in headers : ~used[b] => lfree <= b
          /\ lfree = MemSize \/ (lfree \in headers /\ ~used[lfree])
      BY <1>2 DEF IInv, Lowest
    <2> HIDE DEF low
    <2>4. \A b \in headers : b \in Nat /\ b >= 0 /\ b < MemSize
      BY <1>2, <2>1, Facts
    <2>5. lfree = low
      <3>1. CASE lfree = MemSize
        BY <2>2, <2>3, <2>4, <3>1
      <3>2. CASE lfree \in headers /\ ~used[lfree]
        <4>1. low \in headers /\ ~used[low]
          BY <2>1, <2>2, <2>4, <3>2
        <4>2. lfree <= low /\ low <= lfree
          BY <2>2, <2>3, <2>4, <3>2, <4>1
        <4> QED
          BY <2>1, <4>1, <4>2
      <3> QED
        BY <2>3, <3>1, <3>2
    <2> QED
      BY <2>5 DEF LfreeIsLowest, low
  <1>3. UntilTorn => SoundBetweenCalls
    BY <1>1, <1>2 DEF UntilTorn, SoundBetweenCalls
  <1> QED
    BY <1>3, Invariance, PTL

(* mem_malloc returns NULL only if no free block has the space: neither    *)
(* below lfree, where it does not look, nor where it stops short of the    *)
(* end of the heap, if the handler did not run in the search.              *)
THEOREM NullOnlyIfFull == IrqSpec => NullMeansFull
  <1>1. ASSUME IInv, SearchEnds, ~overlapped, NEW a \in headers, ~used[a]
        PROVE  Space(a) < want
    <2>1. pc = "search" /\ ptr >= MemSize - want
      BY <1>1 DEF SearchEnds
    <2>2. ptr \in Nat /\ want \in Nat /\ a \in Nat /\ next[a] \in Nat /\ next[a] <= MemSize
      BY <1>1, Facts, Order DEF IInv, Places, Addrs
    <2>3. CASE a < ptr
      BY <1>1, <2>1, <2>3 DEF IInv, Searched
    <2>4. CASE ~(a < ptr)
      BY <2>1, <2>2, <2>4 DEF Space
    <2> QED
      BY <2>3, <2>4
  <1>2. ASSUME UntilTorn, [IrqNext]_irqVars, SearchEnds, ~overlapped, NEW a \in headers,
               ~used[a]
        PROVE  Space(a) < want
    <2>1. ~torn
      BY <1>2 DEF IrqNext, Ended, SearchEnds, irqVars, mainVars
    <2> QED
      BY <1>1, <1>2, <2>1 DEF UntilTorn
  <1>3. UntilTorn /\ [IrqNext]_irqVars
          => [SearchEnds /\ ~overlapped
                => \A a \in headers : ~used[a] => Space(a) < want]_irqVars
    BY <1>2
  <1> QED
    BY <1>3, Invariance, PTL DEF IrqSpec, NullMeansFull

-----------------------------------------------------------------------------
(***************************************************************************)
(* The heap implements the allocator of disjoint blocks.                   *)
(***************************************************************************)

(* The block at a when its client was granted len, and the blocks held.    *)
Grant(a, len) == [at |-> a + HeaderSize, len |-> len]
Holders(h)    == {a \in Addrs : h[a] # 0}
Granted(h)    == {Grant(a, h[a]) : a \in Holders(h)}

LEMMA GrantInjective ==
  ASSUME NEW a \in Addrs, NEW b \in Addrs, NEW k, NEW l, Grant(a, k) = Grant(b, l)
  PROVE  a = b /\ k = l
  <1>1. a + HeaderSize = b + HeaderSize /\ k = l
    BY DEF Grant
  <1> QED
    BY <1>1 DEF Addrs

LEMMA SameGrants ==
  ASSUME NEW S, NEW h, NEW h2, \A b \in S : h2[b] = h[b]
  PROVE  {Grant(b, h2[b]) : b \in S} = {Grant(b, h[b]) : b \in S}
  OBVIOUS

LEMMA OneMoreGrant ==
  ASSUME NEW S, NEW a, NEW h
  PROVE  {Grant(b, h[b]) : b \in S \cup {a}} = {Grant(b, h[b]) : b \in S} \cup {Grant(a, h[a])}
  OBVIOUS

LEMMA Grants ==
  ASSUME NEW h \in [Addrs -> Addrs], NEW a \in Addrs, NEW n \in Addrs,
         NEW h2, h2[a] = n, \A b \in Addrs \ {a} : h2[b] = h[b],
         h2 \in [Addrs -> Addrs]
  PROVE  /\ h[a] = 0 /\ n # 0 => Granted(h2) = Granted(h) \cup {Grant(a, n)}
         /\ h[a] # 0 /\ n = 0 => Granted(h2) = Granted(h) \ {Grant(a, h[a])}
         /\ h[a] # 0 /\ n # 0
              => Granted(h2) = (Granted(h) \ {Grant(a, h[a])}) \cup {Grant(a, n)}
  <1>1. h2[a] = n /\ \A b \in Addrs \ {a} : h2[b] = h[b]
    OBVIOUS
  <1>2. ASSUME h[a] = 0, n # 0 PROVE Granted(h2) = Granted(h) \cup {Grant(a, n)}
    <2>1. Holders(h2) = Holders(h) \cup {a}
      BY <1>1, <1>2 DEF Holders
    <2>2. \A b \in Holders(h) : b \in Addrs /\ b # a /\ h2[b] = h[b]
      BY <1>1, <1>2 DEF Holders
    <2>3. {Grant(b, h2[b]) : b \in Holders(h)} = Granted(h)
      BY <2>2, SameGrants DEF Granted
    <2>4. Granted(h2) = {Grant(b, h2[b]) : b \in Holders(h) \cup {a}}
      BY <2>1 DEF Granted
    <2> QED
      <3>1. Granted(h2) = {Grant(b, h2[b]) : b \in Holders(h)} \cup {Grant(a, h2[a])}
        BY <2>4, OneMoreGrant, Zenon
      <3> QED
        BY <1>1, <2>3, <3>1, Zenon
  <1>3. ASSUME h[a] # 0 PROVE Granted(h) \ {Grant(a, h[a])}
                               = {Grant(b, h[b]) : b \in Holders(h) \ {a}}
    <2>1. \A b \in Holders(h) : b # a => Grant(b, h[b]) # Grant(a, h[a])
      BY GrantInjective DEF Holders
    <2> QED
      BY <1>3, <2>1 DEF Granted
  <1>4. {Grant(b, h2[b]) : b \in Holders(h) \ {a}}
          = {Grant(b, h[b]) : b \in Holders(h) \ {a}}
    <2>1. \A b \in Holders(h) \ {a} : h2[b] = h[b]
      BY <1>1 DEF Holders
    <2> HIDE DEF Holders
    <2> QED
      BY <2>1, SameGrants
  <1>5. ASSUME h[a] # 0, n = 0 PROVE Granted(h2) = Granted(h) \ {Grant(a, h[a])}
    <2>1. Holders(h2) = Holders(h) \ {a}
      BY <1>1, <1>5 DEF Holders
    <2>2. Granted(h2) = {Grant(b, h2[b]) : b \in Holders(h) \ {a}}
      BY <2>1 DEF Granted
    <2> QED
      BY <1>3, <1>4, <1>5, <2>2
  <1>6. ASSUME h[a] # 0, n # 0
        PROVE  Granted(h2) = (Granted(h) \ {Grant(a, h[a])}) \cup {Grant(a, n)}
    <2>1. Holders(h2) = (Holders(h) \ {a}) \cup {a}
      BY <1>1, <1>6 DEF Holders
    <2>2. Granted(h2) = {Grant(b, h2[b]) : b \in (Holders(h) \ {a}) \cup {a}}
      BY <2>1 DEF Granted
    <2>3. Granted(h2) = {Grant(b, h2[b]) : b \in Holders(h) \ {a}} \cup {Grant(a, n)}
      <3>1. Granted(h2)
              = {Grant(b, h2[b]) : b \in Holders(h) \ {a}} \cup {Grant(a, h2[a])}
        BY <2>2, OneMoreGrant, Zenon
      <3> QED
        BY <1>1, <3>1, Zenon
    <2> QED
      BY <1>3, <1>4, <1>6, <2>3
  <1> QED
    BY <1>2, <1>5, <1>6

(* What the allocator's definitions say of the heap. *)
AllocatorBlock == [at : 0 .. MemSize - 1, len : 1 .. MemSize]
Cells(b)       == b.at .. b.at + b.len - 1

AllocatorGive ==
  \E b \in AllocatorBlock :
    /\ b.at + b.len <= MemSize
    /\ Granted(held') = Granted(held) \cup {b}
    /\ \A g \in Granted(held) : Cells(b) \cap Cells(g) = {}
AllocatorTakeBack == \E b \in Granted(held) : Granted(held') = Granted(held) \ {b}
AllocatorShrink ==
  \E b \in Granted(held) : \E n \in 1 .. b.len - 1 :
    Granted(held') = (Granted(held) \ {b}) \cup {[b EXCEPT !.len = n]}

LEMMA TakeGives ==
  ASSUME IInv, NEW a \in headers, ~used[a], NEW n \in Nat, n >= MinSize,
         Space(a) >= n, Take(a, n)
  PROVE  AllocatorGive
  <1>1. /\ a \in Nat /\ a \in Addrs /\ a < MemSize /\ next[a] \in Nat /\ next[a] <= MemSize
        /\ a + HeaderSize + n <= next[a]
        /\ \A b \in headers : b <= a \/ next[a] <= b
    BY Facts, Order DEF Space
  <1>2. n \in Addrs /\ n # 0
    BY <1>1 DEF Addrs
  <1>3. held \in [Addrs -> Addrs]
    BY Facts
  <1>4. held[a] = 0
    BY <1>1 DEF IInv, Sound, HeldBlocksUsed
  <1>5. held' = [held EXCEPT ![a] = n]
    BY DEF Take
  <1>6. Granted(held') = Granted(held) \cup {Grant(a, n)}
    <2> DEFINE h2 == held'
    <2>1. h2[a] = n /\ (\A b \in Addrs \ {a} : h2[b] = held[b]) /\ h2 \in [Addrs -> Addrs]
      BY <1>1, <1>2, <1>3, <1>5
    <2> HIDE DEF h2
    <2>2. held[a] = 0 /\ n # 0 => Granted(h2) = Granted(held) \cup {Grant(a, n)}
      BY <1>1, <1>2, <1>3, <2>1, Grants
    <2>3. Granted(h2) = Granted(held) \cup {Grant(a, n)}
      BY <1>2, <1>4, <2>2
    <2> QED
      BY <2>3 DEF h2
  <1>7. /\ Grant(a, n) \in AllocatorBlock
        /\ Grant(a, n).at + Grant(a, n).len <= MemSize
    BY <1>1, <1>2 DEF Grant, AllocatorBlock
  <1>8. ASSUME NEW c \in Holders(held)
        PROVE  Cells(Grant(a, n)) \cap Cells(Grant(c, held[c])) = {}
    <2>1. c \in headers /\ used[c] /\ held[c] <= Space(c) /\ c \in Addrs
      BY DEF Holders, IInv, Sound, HeldBlocksUsed
    <2>2. /\ c \in Nat /\ next[c] \in Nat /\ held[c] \in Nat
          /\ c + HeaderSize + held[c] <= next[c]
          /\ c <= a \/ next[a] <= c
          /\ a <= c \/ next[c] <= a
          /\ c # a
      <3>1. c \in Nat /\ next[c] \in Nat /\ held[c] \in Nat
        BY <1>3, <2>1, Facts DEF Addrs
      <3>2. a <= c \/ next[c] <= a
        BY <2>1, Facts, Order
      <3> QED
        BY <1>1, <2>1, <3>1, <3>2 DEF Space
    <2>3. CASE c < a
      BY <1>1, <2>2, <2>3 DEF Cells, Grant
    <2>4. CASE a < c
      BY <1>1, <2>2, <2>4 DEF Cells, Grant
    <2> QED
      BY <1>1, <2>2, <2>3, <2>4
  <1>9. \A g \in Granted(held) : Cells(Grant(a, n)) \cap Cells(g) = {}
    BY <1>8 DEF Granted
  <1> QED
    BY <1>6, <1>7, <1>9 DEF AllocatorGive

LEMMA FreeTakesBack ==
  ASSUME IInv, NEW a \in headers, held[a] # 0, held' = [held EXCEPT ![a] = 0]
  PROVE  AllocatorTakeBack
  <1>1. a \in Addrs /\ 0 \in Addrs /\ held \in [Addrs -> Addrs]
    BY Facts
  <1>2. Granted(held') = Granted(held) \ {Grant(a, held[a])}
    <2> DEFINE h2 == held'
    <2>1. h2[a] = 0 /\ (\A b \in Addrs \ {a} : h2[b] = held[b]) /\ h2 \in [Addrs -> Addrs]
      BY <1>1
    <2> HIDE DEF h2
    <2>2. held[a] # 0 => Granted(h2) = Granted(held) \ {Grant(a, held[a])}
      BY <1>1, <2>1, Grants
    <2> QED
      BY <2>2 DEF h2
  <1>3. Grant(a, held[a]) \in Granted(held)
    BY <1>1 DEF Granted, Holders
  <1> QED
    BY <1>2, <1>3 DEF AllocatorTakeBack

LEMMA ReallocShrinks ==
  ASSUME IInv, NEW a \in headers, NEW size \in Requests, Realloc(a, size)
  PROVE  AllocatorShrink \/ Granted(held') = Granted(held)
  <1> DEFINE n == Aligned(size)
  <1>1. held[a] # 0 /\ held' = [held EXCEPT ![a] = IF n < held[a] THEN n ELSE held[a]]
    BY DEF Realloc
  <1>2. n \in Nat /\ n > 0
    BY AlignedSize
  <1>3. a \in Addrs /\ held \in [Addrs -> Addrs]
    BY Facts
  <1> HIDE DEF n
  <1>4. CASE n < held[a]
    <2>1. n \in Addrs /\ n # 0 /\ held[a] \in Nat
      BY <1>2, <1>3, <1>4 DEF Addrs
    <2>2. held' = [held EXCEPT ![a] = n]
      BY <1>1, <1>4
    <2>3. Granted(held') = (Granted(held) \ {Grant(a, held[a])}) \cup {Grant(a, n)}
      <3> DEFINE h2 == held'
      <3>1. h2[a] = n /\ (\A b \in Addrs \ {a} : h2[b] = held[b]) /\ h2 \in [Addrs -> Addrs]
        BY <1>3, <2>1, <2>2
      <3> HIDE DEF h2
      <3>2. held[a] # 0 /\ n # 0
              => Granted(h2) = (Granted(held) \ {Grant(a, held[a])}) \cup {Grant(a, n)}
        BY <1>3, <2>1, <3>1, Grants
      <3> QED
        BY <1>1, <2>1, <3>2 DEF h2
    <2>4. Grant(a, held[a]) \in Granted(held)
      BY <1>1, <1>3 DEF Granted, Holders
    <2>5. /\ Grant(a, n) = [Grant(a, held[a]) EXCEPT !.len = n]
          /\ n \in 1 .. Grant(a, held[a]).len - 1
      BY <1>2, <1>4, <2>1 DEF Grant
    <2> QED
      BY <2>3, <2>4, <2>5 DEF AllocatorShrink
  <1>5. CASE ~(n < held[a])
    <2>1. held' = held
      BY <1>1, <1>3, <1>5
    <2> QED
      BY <2>1
  <1> QED
    BY <1>4, <1>5

(* mem_malloc, mem_free and mem_realloc, with the main loop's calls step   *)
(* by step, implement MemAllocator, until the handler has torn a call of   *)
(* the main loop apart.                                                    *)
THEOREM ImplementsAllocatorOfBlocks == IrqSpec => ImplementsAllocator
  <1>1. ASSUME IrqInit PROVE Allocator!Init
    <2>1. {b \in Addrs : held[b] # 0} = {}
      BY <1>1 DEF IrqInit, Init
    <2> QED
      BY <2>1 DEF Allocator!Init, Given
  <1>2. ASSUME IInv, [IrqNext]_irqVars
        PROVE  AllocatorGive \/ AllocatorTakeBack \/ AllocatorShrink
                 \/ Granted(held') = Granted(held)
    <2>1. ASSUME TakeBlock PROVE AllocatorGive
      <3>1. pc = "take" /\ ptr \in headers /\ Take(ptr, want)
        BY <1>2, <2>1 DEF TakeBlock, IInv, Places
      <3>2. ~used[ptr] /\ want \in Nat /\ want >= MinSize /\ Space(ptr) >= want
        BY <1>2, <3>1, Facts DEF IInv, Places, Addrs, Space
      <3> QED
        BY <1>2, <3>1, <3>2, TakeGives
    <2>2. ASSUME StartFree PROVE AllocatorTakeBack
      BY <1>2, <2>2, FreeTakesBack DEF StartFree
    <2>3. ASSUME NEW size \in Requests, Malloc(size) PROVE AllocatorGive
      <3>1. PICK a \in Candidates(Aligned(size)) : Take(a, Aligned(size))
        BY <2>3 DEF Malloc
      <3>2. a \in headers /\ ~used[a] /\ Space(a) >= Aligned(size)
        BY DEF Candidates
      <3> QED
        BY <1>2, <3>1, <3>2, AlignedSize, TakeGives
    <2>4. ASSUME NEW a \in headers, Free(a) PROVE AllocatorTakeBack
      BY <1>2, <2>4, FreeTakesBack DEF Free
    <2>5. ASSUME NEW a \in headers, NEW size \in Requests, Realloc(a, size)
          PROVE  AllocatorShrink \/ Granted(held') = Granted(held)
      BY <1>2, <2>5, ReallocShrinks
    <2>6. ASSUME StartMalloc \/ SearchEnds \/ SearchFinds \/ SearchGoesOn
                   \/ AdvanceLfree \/ FinishFree \/ Ended \/ UNCHANGED irqVars
          PROVE  held' = held
      BY <2>6 DEF StartMalloc, SearchEnds, SearchFinds, SearchGoesOn,
                  AdvanceLfree, FinishFree, Ended, irqVars, heapVars
    <2>7. CASE Handler
      BY <1>2, <2>3, <2>4, <2>5, <2>7 DEF Handler, Next
    <2> QED
      BY <1>2, <2>1, <2>2, <2>6, <2>7 DEF IrqNext, Main
  <1>3. ASSUME AllocatorGive \/ AllocatorTakeBack \/ AllocatorShrink
                 \/ Granted(held') = Granted(held)
        PROVE  [Allocator!Next]_Given
    BY <1>3 DEF AllocatorGive, AllocatorTakeBack, AllocatorShrink, AllocatorBlock,
                Granted, Holders, Grant, Cells, Given, Allocator!Next, Allocator!Give,
                Allocator!TakeBack, Allocator!Shrink, Allocator!Block,
                Allocator!Cells
  <1>4. ASSUME UntilTorn, [IrqNext]_irqVars PROVE [torn' \/ Allocator!Next]_Given
    <2>1. CASE torn
      BY <1>4, <2>1, OverTyped
    <2>2. CASE ~torn
      <3>1. IInv
        BY <1>4, <2>2 DEF UntilTorn
      <3> QED
        BY <1>2, <1>3, <1>4, <3>1
    <2> QED
      BY <2>1, <2>2
  <1>5. UntilTorn /\ [IrqNext]_irqVars => [torn' \/ Allocator!Next]_Given
    BY <1>4
  <1> QED
    BY <1>1, <1>5, Invariance, PTL DEF IrqSpec, ImplementsAllocator
=============================================================================
