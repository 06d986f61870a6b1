------------------------------ MODULE Allocator ------------------------------
(***************************************************************************)
(* What either memory manager of the kernel promises to the callers of     *)
(* malloc and free: the blocks in use lie in the arena and never overlap.  *)
(* Where a block is placed, and when malloc refuses one, is left open.     *)
(***************************************************************************)
EXTENDS Integers

CONSTANTS Arena,    \* the number of cells; they are numbered from 0
          Lengths   \* the lengths a block may have

VARIABLE blocks     \* the blocks in use: records with a start and a length

Cells(b) == b.start .. (b.start + b.len - 1)

Init == blocks = {}

Alloc(start, len) ==
  LET b == [start |-> start, len |-> len]
  IN /\ Cells(b) \subseteq 0..(Arena - 1)
     /\ \A c \in blocks : Cells(b) \cap Cells(c) = {}
     /\ blocks' = blocks \cup {b}

Free(b) == blocks' = blocks \ {b}

Next ==
  \/ \E start \in 0..(Arena - 1), len \in Lengths : Alloc(start, len)
  \/ \E b \in blocks : Free(b)

Spec == Init /\ [][Next]_blocks
=============================================================================
