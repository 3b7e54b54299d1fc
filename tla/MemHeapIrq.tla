------------------------------ MODULE MemHeapIrq ------------------------------
(***************************************************************************)
(* The heap with its two callers: the main loop is in mem_malloc or        *)
(* mem_free, for the pbufs of "hello!", when the handler runs and calls    *)
(* mem_malloc (an ARP request, a packet kept until it is answered) and     *)
(* mem_free (a kept packet, also one of the main loop's, has been sent).   *)
(* mem.c asks for a semaphore; in this port sys_arch_sem_wait is empty.    *)
(*                                                                         *)
(* The main loop's mem_malloc is modelled by its search, block by block,   *)
(* and two steps more: the block is taken, and lfree is moved; its         *)
(* mem_free by two: the block is marked free, and the holes are plugged.   *)
(* The handler may run between any two of them; it runs to its end.  Where *)
(* it has torn a call of the main loop apart the model ends.               *)
(***************************************************************************)
EXTENDS MemHeap

VARIABLES
  pc,            (* Where the main loop is.                                *)
  want,          (* The aligned size it asks for.                          *)
  ptr,           (* The block its search has come to, or that it frees.    *)
  overlapped,    (* History: the handler has run in the present search.    *)
  torn           (* History: it has run elsewhere in a call, or taken the  *)
                 (*   block the search was at off the list.                *)

heapVars == <<headers, next, prev, used, lfree, held>>
mainVars == <<pc, want, ptr>>
overVars == <<overlapped, torn>>
irqVars  == <<heapVars, mainVars, overVars>>

IrqTypeOK ==
  /\ TypeOK
  /\ pc \in {"idle", "search", "take", "advance", "plug"}
  /\ want \in Addrs
  /\ ptr \in Addrs
  /\ overlapped \in BOOLEAN /\ torn \in BOOLEAN

IrqInit ==
  /\ Init
  /\ pc = "idle"
  /\ want = 0
  /\ ptr = 0
  /\ overlapped = FALSE /\ torn = FALSE
-----------------------------------------------------------------------------
(* mem_malloc starts at the lowest free block. *)
StartMalloc ==
  /\ pc = "idle"
  /\ \E size \in Requests :
       /\ Aligned(size) <= MemSize
       /\ want' = Aligned(size)
  /\ ptr' = lfree
  /\ pc' = "search"
  /\ overlapped' = FALSE
  /\ UNCHANGED <<heapVars, torn>>

(* One round of its loop: the end of the heap, a block that fits, or one   *)
(* that does not.                                                          *)
SearchEnds ==
  /\ pc = "search"
  /\ ptr >= MemSize - want
  /\ pc' = "idle" /\ want' = 0 /\ ptr' = 0
  /\ UNCHANGED <<heapVars, overVars>>

SearchFinds ==
  /\ pc = "search"
  /\ ptr < MemSize - want /\ ~used[ptr] /\ Space(ptr) >= want
  /\ pc' = "take"
  /\ UNCHANGED <<heapVars, want, ptr, overVars>>

SearchGoesOn ==
  /\ pc = "search"
  /\ ptr < MemSize - want /\ (used[ptr] \/ Space(ptr) < want)
  /\ ptr' = next[ptr]
  /\ UNCHANGED <<heapVars, pc, want, overVars>>

TakeBlock ==
  /\ pc = "take"
  /\ Take(ptr, want)
  /\ pc' = "advance"
  /\ UNCHANGED <<lfree, want, ptr, overVars>>

AdvanceLfree ==
  /\ pc = "advance"
  /\ lfree' = IF lfree = ptr THEN LowestFree(headers, used, ptr) ELSE lfree
  /\ pc' = "idle" /\ want' = 0 /\ ptr' = 0
  /\ UNCHANGED <<headers, next, prev, used, held, overVars>>

(* mem_free *)
StartFree ==
  /\ pc = "idle"
  /\ \E a \in headers :
       /\ held[a] # 0
       /\ used' = [used EXCEPT ![a] = FALSE]
       /\ held' = [held EXCEPT ![a] = 0]
       /\ lfree' = FreedLowest(a)
       /\ ptr' = a
  /\ pc' = "plug"
  /\ UNCHANGED <<headers, next, prev, want, overVars>>

FinishFree ==
  /\ pc = "plug"
  /\ PlugHoles(ptr, lfree)
  /\ pc' = "idle" /\ ptr' = 0
  /\ UNCHANGED <<used, held, want, overVars>>

Main ==
  \/ StartMalloc \/ SearchEnds \/ SearchFinds \/ SearchGoesOn \/ TakeBlock
  \/ AdvanceLfree \/ StartFree \/ FinishFree

(* The handler, between two steps of the main loop, calls any function of  *)
(* the heap: mem_malloc, mem_free, or mem_realloc, if it shortens a pbuf.   *)
Handler ==
  /\ Next
  /\ overlapped' = (overlapped \/ pc = "search")
  /\ torn' = (torn \/ pc \in {"take", "advance", "plug"}
                   \/ (pc = "search" /\ ptr \notin headers' \cup {MemSize}))
  /\ UNCHANGED mainVars
-----------------------------------------------------------------------------
(* What a torn call does to the list is not followed: the model ends.      *)
Ended == torn /\ UNCHANGED irqVars

IrqNext == (~torn /\ (Main \/ Handler)) \/ Ended

IrqSpec == IrqInit /\ [][IrqNext]_irqVars
-----------------------------------------------------------------------------
(***************************************************************************)
(* Properties.                                                             *)
(***************************************************************************)

(***************************************************************************)
(* List and clients agree at each step of the main loop's calls, also when *)
(* the handler allocates and frees in the middle of its search, until it   *)
(* takes away the block the search is at, or runs between finding a block, *)
(* taking it and moving lfree, or between marking one free and plugging    *)
(* the holes.                                                              *)
(***************************************************************************)
StaysTiled   == ~torn => Tiled
HeldStayUsed == ~torn => HeldBlocksUsed

(***************************************************************************)
(* plug_holes and the search for lfree have restored, whenever the main    *)
(* loop has left the heap, what the next call relies on, the same long.    *)
(***************************************************************************)
SoundBetweenCalls == pc = "idle" /\ ~torn => NoFreeNeighbours /\ LfreeIsLowest

(***************************************************************************)
(* mem_malloc returns NULL only if no free block has the space, below      *)
(* where the search began or at the end of the heap where it stops short,  *)
(* unless the handler has run during that very search.                     *)
(***************************************************************************)
NullMeansFull ==
  [][SearchEnds /\ ~overlapped
       => \A a \in headers : ~used[a] => Space(a) < want]_irqVars

(***************************************************************************)
(* To its clients the heap is an allocator of disjoint blocks, until the   *)
(* handler has torn a call of the main loop apart.                         *)
(***************************************************************************)
ImplementsAllocator == Allocator!Init /\ [][torn' \/ Allocator!Next]_Given

(***************************************************************************)
(* mem_malloc is to "protect the heap from concurrent access": the block   *)
(* its search found free is still free when it is taken.                   *)
(***************************************************************************)
TakenIsFree == pc = "take" => ptr \in headers /\ ~used[ptr]
=============================================================================
