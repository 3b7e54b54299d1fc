------------------------------- MODULE MemHeap -------------------------------
(***************************************************************************)
(* lwIP's heap (mem.c), as one caller at a time sees it: mem_malloc,       *)
(* mem_free with plug_holes, and mem_realloc, which only shrinks.          *)
(*                                                                         *)
(* Addresses and sizes are in words of MEM_ALIGNMENT bytes.  Every block   *)
(* has a header, struct mem, with the addresses of the next and the        *)
(* previous header.  A header that plug_holes takes out of the list        *)
(* becomes free space: the model forgets it.                               *)
(***************************************************************************)
EXTENDS Integers, FiniteSets

CONSTANTS
  MemSize,       (* MEM_SIZE_ALIGNED, the address of ram_end.              *)
  HeaderSize,    (* SIZEOF_STRUCT_MEM                                      *)
  MinSize,       (* MIN_SIZE_ALIGNED                                       *)
  Requests       (* The sizes callers ask for.                             *)

ASSUME HeaderSizeAssumption == HeaderSize \in Nat \ {0}
ASSUME MinSizeAssumption == MinSize \in Nat \ {0}
ASSUME MemSizeAssumption == MemSize \in Nat /\ MemSize >= HeaderSize + MinSize
ASSUME RequestsAssumption == Requests \subseteq Nat \ {0}

VARIABLES
  headers,       (* Addresses of the headers on the list, ram_end without. *)
  next,          (* mem->next                                              *)
  prev,          (* mem->prev                                              *)
  used,          (* mem->used                                              *)
  lfree,         (* The lowest free block, ram_end if there is none.       *)
  held           (* History: the size granted for each block, 0 if none.   *)

vars == <<headers, next, prev, used, lfree, held>>

Addrs == 0..MemSize

TypeOK ==
  /\ headers \subseteq Addrs \ {MemSize}
  /\ next \in [Addrs -> Addrs]
  /\ prev \in [Addrs -> Addrs]
  /\ used \in [Addrs -> BOOLEAN]
  /\ lfree \in Addrs
  /\ held \in [Addrs -> Addrs]

(* mem_init *)
Init ==
  /\ headers = {0}
  /\ next = [a \in Addrs |-> IF a \in {0, MemSize} THEN MemSize ELSE 0]
  /\ prev = [a \in Addrs |-> IF a = MemSize THEN MemSize ELSE 0]
  /\ used = [a \in Addrs |-> a = MemSize]
  /\ lfree = 0
  /\ held = [a \in Addrs |-> 0]

(* The data space of the block at a. *)
Space(a) == next[a] - (a + HeaderSize)

(* A block is at least MIN_SIZE_ALIGNED long. *)
Aligned(n) == IF n < MinSize THEN MinSize ELSE n

(* Mutant: the header of what is left is not counted. *)
MutCanSplit(space, n) == space >= n + MinSize

(* A block of n is cut off one with this space only if what is left can    *)
(* be a block.                                                             *)
CanSplit(space, n) == space >= n + HeaderSize + MinSize

(* A field of the headers, f, when gone are no headers any more. *)
Forget(f, gone, value) == [a \in Addrs |-> IF a \in gone THEN value ELSE f[a]]

(* The lowest free block among S at or after a, else ram_end. *)
LowestFree(S, inUse, a) ==
  LET free == {b \in S : b >= a /\ ~inUse[b]}
  IN  IF free = {} THEN MemSize
                   ELSE CHOOSE b \in free : \A c \in free : b <= c
-----------------------------------------------------------------------------
(* Mutant: blocks in use are taken again. *)
MutCandidatesUsed(n) ==
  {a \in headers : a >= lfree /\ a < MemSize - n /\ Space(a) >= n}

(* Mutant: the space is compared with its header. *)
MutCandidatesSmall(n) ==
  {a \in headers :
     a >= lfree /\ a < MemSize - n /\ ~used[a] /\ Space(a) + HeaderSize >= n}

(* The blocks that the search of mem_malloc for n stops at. *)
Candidates(n) ==
  {a \in headers : a >= lfree /\ a < MemSize - n /\ ~used[a] /\ Space(a) >= n}

(* mem_malloc gives the block at a, n long.  A header is written after it  *)
(* if the rest can be a block.                                             *)
Take(a, n) ==
  LET a2    == a + HeaderSize + n
      split == CanSplit(Space(a), n)
  IN  /\ headers' = IF split THEN headers \cup {a2} ELSE headers
      /\ next' = IF split THEN [next EXCEPT ![a] = a2, ![a2] = next[a]]
                          ELSE next
      /\ prev' = IF ~split THEN prev
                 ELSE IF next[a] = MemSize
                   THEN [prev EXCEPT ![a2] = a]
                   ELSE [prev EXCEPT ![a2] = a, ![next[a]] = a2]
      /\ used' = IF split THEN [used EXCEPT ![a] = TRUE, ![a2] = FALSE]
                          ELSE [used EXCEPT ![a] = TRUE]
      /\ held' = [held EXCEPT ![a] = n]

(* A request no block fits gets NULL and changes nothing. *)
Malloc(size) ==
  LET n == Aligned(size)
  IN  /\ n <= MemSize
      /\ \E a \in Candidates(n) :
           /\ \A b \in Candidates(n) : a <= b
           /\ Take(a, n)
           /\ lfree' = IF lfree = a THEN LowestFree(headers', used', a)
                                   ELSE lfree
-----------------------------------------------------------------------------
(* Mutant: holes are plugged forward only. *)
MutPlugBackward(a) == FALSE

(* The two tests of plug_holes: the block after a and the one before it    *)
(* are free.                                                               *)
PlugForward(a)  == ~used[next[a]] /\ next[a] # MemSize
PlugBackward(a) == prev[a] # a /\ ~used[prev[a]]

(* Mutant: a free block below lfree does not lower it. *)
MutFreedLowest(a) == lfree

(* lfree when the block at a has been marked free. *)
FreedLowest(a) == IF a < lfree THEN a ELSE lfree

(* plug_holes for the free block at a; low is lfree on its entry. *)
PlugHoles(a, low) ==
  LET first == IF PlugBackward(a) THEN prev[a] ELSE a
      end   == IF PlugForward(a) THEN next[next[a]] ELSE next[a]
      gone  == {b \in headers : first < b /\ b < end}
  IN  /\ headers' = headers \ gone
      /\ next' = Forget([next EXCEPT ![first] = end], gone, 0)
      /\ prev' = IF gone = {}
                   THEN prev ELSE Forget([prev EXCEPT ![end] = first], gone, 0)
      /\ lfree' = IF low \in gone THEN first ELSE low

(* mem_free of the block at a. *)
Free(a) ==
  /\ held[a] # 0
  /\ used' = [used EXCEPT ![a] = FALSE]
  /\ held' = [held EXCEPT ![a] = 0]
  /\ PlugHoles(a, FreedLowest(a))
-----------------------------------------------------------------------------
(* mem_realloc of the block at a: the space after n goes to a free block   *)
(* there.  If one follows already, its header moves down; if not, one is   *)
(* made, provided the space is enough for it.                              *)
GiveBack(a, n) ==
  LET a2   == a + HeaderSize + n
      gone == IF used[next[a]] THEN {} ELSE {next[a]}
      end  == IF used[next[a]] THEN next[a] ELSE next[next[a]]
      low  == IF used[next[a]] THEN a2 < lfree ELSE lfree = next[a]
  IN  /\ headers' = (headers \ gone) \cup {a2}
      /\ next' = Forget([next EXCEPT ![a] = a2, ![a2] = end], gone, 0)
      /\ prev' = IF end = MemSize
                   THEN Forget([prev EXCEPT ![a2] = a], gone, 0)
                   ELSE Forget([prev EXCEPT ![a2] = a, ![end] = a2], gone, 0)
      /\ used' = [used EXCEPT ![a2] = FALSE]
      /\ lfree' = IF low THEN a2 ELSE lfree

(* mem_realloc only shrinks: a block at least as long is left alone.       *)
Realloc(a, size) ==
  LET n == Aligned(size)
  IN  /\ held[a] # 0
      /\ n < Space(a)
      /\ IF used[next[a]] /\ ~CanSplit(Space(a), n)
           THEN UNCHANGED <<headers, next, prev, used, lfree>>
           ELSE GiveBack(a, n)
      /\ held' = [held EXCEPT ![a] = IF n < @ THEN n ELSE @]
-----------------------------------------------------------------------------
Next ==
  \/ \E size \in Requests : Malloc(size)
  \/ \E a \in headers : Free(a)
  \/ \E a \in headers : \E size \in Requests : Realloc(a, size)

Spec == Init /\ [][Next]_vars
-----------------------------------------------------------------------------
(***************************************************************************)
(* Properties.                                                             *)
(***************************************************************************)

(***************************************************************************)
(* The headers divide the heap: each leads to the one after it and back,   *)
(* with room for its own header and a minimal block in between.            *)
(***************************************************************************)
Tiled ==
  /\ 0 \in headers /\ prev[0] = 0
  /\ used[MemSize]
  /\ \A a \in headers :
       /\ next[a] \in headers \cup {MemSize}
       /\ Space(a) >= MinSize
       /\ \A b \in headers : b <= a \/ next[a] <= b
       /\ next[a] # MemSize => prev[next[a]] = a

(***************************************************************************)
(* plug_holes leaves no two free blocks side by side, whatever the order   *)
(* in which blocks are freed and shrunk: mem_malloc and mem_realloc rely   *)
(* on it.                                                                  *)
(***************************************************************************)
NoFreeNeighbours ==
  \A a \in headers : ~used[a] => used[next[a]]

(***************************************************************************)
(* lfree is the lowest free block, so that the search from it misses none. *)
(***************************************************************************)
LfreeIsLowest == lfree = LowestFree(headers, used, 0)

(***************************************************************************)
(* The blocks in use are those that clients hold, and each still has the   *)
(* space that was granted: no other call cut into it or freed it.          *)
(***************************************************************************)
HeldBlocksUsed ==
  \A a \in Addrs :
    IF held[a] # 0 THEN a \in headers /\ used[a] /\ held[a] <= Space(a)
                   ELSE a \in headers => ~used[a]

(***************************************************************************)
(* What a client sees of the heap: the blocks it was granted.              *)
(***************************************************************************)
Given ==
  {[at |-> a + HeaderSize, len |-> held[a]] : a \in {b \in Addrs : held[b] # 0}}

Allocator == INSTANCE MemAllocator WITH Size <- MemSize, given <- Given
=============================================================================
