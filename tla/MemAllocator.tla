----------------------------- MODULE MemAllocator -----------------------------
(***************************************************************************)
(* What a heap promises its clients: a block it gives out lies in the      *)
(* heap, overlaps no block a client still holds, and keeps its place until *)
(* it is given back.  A block may be shrunk.                               *)
(***************************************************************************)
EXTENDS Naturals

CONSTANT Size    (* Places in the heap.                                    *)

VARIABLE given   (* The blocks clients hold.                               *)

Block    == [at : 0 .. Size - 1, len : 1..Size]
Cells(b) == b.at .. b.at + b.len - 1

Init == given = {}

Give ==
  \E b \in Block :
    /\ b.at + b.len <= Size
    /\ given' = given \cup {b}
    /\ \A g \in given : Cells(b) \cap Cells(g) = {}

TakeBack == \E b \in given : given' = given \ {b}

Shrink ==
  \E b \in given : \E n \in 1 .. b.len - 1 :
    given' = (given \ {b}) \cup {[b EXCEPT !.len = n]}

Next == Give \/ TakeBack \/ Shrink

Spec == Init /\ [][Next]_given
=============================================================================
