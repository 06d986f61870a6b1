----------------------------- MODULE FreeListMM -----------------------------
(***************************************************************************)
(* The free-list memory manager                                            *)
(* (Kernel/memoryManagement/memoryManager.c), the one the default build    *)
(* links: a circular list of free blocks, walked by malloc (first fit from *)
(* free_node on) and by free (to the place of the block in address order). *)
(*                                                                         *)
(* Addresses and sizes are counted in units of one Header; an address is   *)
(* the unit the header of a block stands in.  Both loops are modelled      *)
(* iteration by iteration.  Callers only give back what they were given.   *)
(***************************************************************************)
EXTENDS Integers

CONSTANTS
  HeapBytes,     \* heap_size
  RequestBytes   \* the values of nbytes

SizeOfHeader == 16

ASSUME MMAssumption ==
  /\ HeapBytes \in Nat /\ HeapBytes >= SizeOfHeader
  /\ RequestBytes \subseteq Nat \ {0}

(* The expression for the units of nbytes bytes and a header, in both      *)
(* initializeMemoryManager and malloc.                                     *)
Units(nbytes) == (nbytes + SizeOfHeader - 1) \div SizeOfHeader + 1

totalUnits == Units(HeapBytes)
Addresses == 0..(totalUnits - 1)

VARIABLES
  size,         \* header -> data.size, of the blocks on the list or in use
  ptr,          \* header -> data.ptr, of the blocks on the list
  freeNode,     \* free_node
  allocated,    \* the blocks in use
  op,           \* the call being executed: "idle", "malloc" or "free"
  arg,          \* nunits in malloc, free_block in free
  prevptr,      \* the locals of the walk
  currentNode

listVars == <<size, ptr, freeNode, allocated>>
walkVars == <<prevptr, currentNode>>
vars == <<listVars, op, arg, walkVars>>

(* The blocks on the free list. *)
FreeBlocks == DOMAIN ptr

(* initializeMemoryManager *)
Init ==
  /\ size = [a \in {0} |-> totalUnits]
  /\ ptr = [a \in {0} |-> 0]
  /\ freeNode = 0
  /\ allocated = {}
  /\ op = "idle"
  /\ arg = 0
  /\ prevptr = 0
  /\ currentNode = 0

(* The call returns. *)
Return == op' = "idle" /\ arg' = 0 /\ prevptr' = 0 /\ currentNode' = 0
-----------------------------------------------------------------------------
(* Mutant of MallocCall: the walk starts at free_node itself. *)
MallocCallAtFreeNode(nbytes) ==
  /\ op = "idle"
  /\ op' = "malloc"
  /\ arg' = Units(nbytes)
  /\ prevptr' = freeNode
  /\ currentNode' = freeNode
  /\ UNCHANGED listVars

(* malloc(nbytes), up to the loop. *)
MallocCall(nbytes) ==
  /\ op = "idle"
  /\ op' = "malloc"
  /\ arg' = Units(nbytes)
  /\ prevptr' = freeNode
  /\ currentNode' = ptr[freeNode]
  /\ UNCHANGED listVars

(* A block that is too small, and not the last one: on to the next. *)
MallocSkip ==
  /\ op = "malloc"
  /\ size[currentNode] < arg
  /\ currentNode # freeNode
  /\ prevptr' = currentNode
  /\ currentNode' = ptr[currentNode]
  /\ UNCHANGED <<listVars, op, arg>>

(* Back at free_node without a fit: NULL. *)
MallocFails ==
  /\ op = "malloc"
  /\ size[currentNode] < arg
  /\ currentNode = freeNode
  /\ UNCHANGED listVars
  /\ Return

(* An exact fit leaves the list.  If it is the only block of the list,     *)
(* current_node is still free_node afterwards: nothing has changed and     *)
(* malloc returns NULL.                                                    *)
MallocExact ==
  /\ op = "malloc"
  /\ size[currentNode] = arg
  /\ IF prevptr = currentNode
     THEN UNCHANGED <<ptr, allocated>>
     ELSE /\ ptr' = [a \in FreeBlocks \ {currentNode} |->
                       IF a = prevptr THEN ptr[currentNode] ELSE ptr[a]]
          /\ allocated' = allocated \cup {currentNode}
  /\ freeNode' = prevptr
  /\ UNCHANGED size
  /\ Return

(* Mutant of MallocSplit: the size of the rest is off by one. *)
MallocSplitKeepsUnit ==
  /\ op = "malloc"
  /\ size[currentNode] > arg
  /\ LET rest == size[currentNode] - arg
         block == currentNode + rest
     IN /\ size' = [a \in DOMAIN size \cup {block} |->
                      CASE a = currentNode -> rest + 1
                        [] a = block -> arg
                        [] OTHER -> size[a]]
        /\ allocated' = allocated \cup {block}
  /\ freeNode' = prevptr
  /\ UNCHANGED ptr
  /\ Return

(* A larger block is split; its tail is handed out. *)
MallocSplit ==
  /\ op = "malloc"
  /\ size[currentNode] > arg
  /\ LET rest == size[currentNode] - arg
         block == currentNode + rest
     IN /\ size' = [a \in DOMAIN size \cup {block} |->
                      CASE a = currentNode -> rest
                        [] a = block -> arg
                        [] OTHER -> size[a]]
        /\ allocated' = allocated \cup {block}
  /\ freeNode' = prevptr
  /\ UNCHANGED ptr
  /\ Return
-----------------------------------------------------------------------------
(* free(block), up to the loop; free_block is the header of block. *)
FreeCall(freeBlock) ==
  /\ op = "idle"
  /\ op' = "free"
  /\ arg' = freeBlock
  /\ currentNode' = freeNode
  /\ UNCHANGED <<listVars, prevptr>>

(* free_block lies between current_node and the next node. *)
Between == currentNode < arg /\ arg < ptr[currentNode]

(* free_block is on the list already. *)
Listed == arg \in {currentNode, ptr[currentNode]}

(* Mutant of External: the test for the highest node is strict. *)
ExternalStrict ==
  /\ currentNode > ptr[currentNode]
  /\ currentNode < arg \/ arg < ptr[currentNode]

(* Mutant of External: any block is linked behind the highest node. *)
ExternalAnywhere == currentNode >= ptr[currentNode]

(* current_node is the highest node, and free_block lies above it or below *)
(* the lowest.                                                             *)
External ==
  /\ currentNode >= ptr[currentNode]
  /\ currentNode < arg \/ arg < ptr[currentNode]

FreeSkip ==
  /\ op = "free"
  /\ ~Between /\ ~Listed /\ ~External
  /\ currentNode' = ptr[currentNode]
  /\ UNCHANGED <<listVars, op, arg, prevptr>>

(* free gives up on a block that is listed or overlaps a neighbour. *)
Refused ==
  \/ ~Between /\ Listed
  \/ Between /\ \/ currentNode + size[currentNode] > arg
                \/ arg + size[arg] > ptr[currentNode]

(* Mutant of Link: does not merge with the node above. *)
LinkNoMergeUp ==
  LET joined == currentNode + size[currentNode] = arg
      nodes == FreeBlocks \cup {currentNode} \cup (IF joined THEN {} ELSE {arg})
  IN /\ ptr' = [a \in nodes |->
                  CASE a = currentNode -> IF joined THEN ptr[currentNode] ELSE arg
                    [] a = arg -> ptr[currentNode]
                    [] OTHER -> ptr[a]]
     /\ size' = [a \in nodes \cup (allocated \ {arg}) |->
                  IF a = currentNode /\ joined THEN size[a] + size[arg] ELSE size[a]]

(* Link free_block between current_node and the next node, and merge it    *)
(* with the next node first, then with current_node.                       *)
Link ==
  LET up == ptr[currentNode]
      mergeUp == arg + size[arg] = up
      mergeDown == currentNode + size[currentNode] = arg
      merged == IF mergeUp THEN size[arg] + size[up] ELSE size[arg]
      after == IF mergeUp THEN ptr[up] ELSE up
      nodes == (FreeBlocks \ (IF mergeUp THEN {up} ELSE {})) \cup {currentNode}
                 \cup (IF mergeDown THEN {} ELSE {arg})
  IN /\ ptr' = [a \in nodes |->
                  CASE a = currentNode -> IF mergeDown THEN after ELSE arg
                    [] a = arg -> after
                    [] OTHER -> ptr[a]]
     /\ size' = [a \in nodes \cup (allocated \ {arg}) |->
                  CASE a = currentNode ->
                         IF mergeDown THEN size[a] + merged ELSE size[a]
                    [] a = arg -> merged
                    [] OTHER -> size[a]]

FreeStop ==
  /\ op = "free"
  /\ Between \/ Listed \/ External
  /\ IF Refused
     THEN UNCHANGED <<size, ptr, freeNode>>
     ELSE Link /\ freeNode' = currentNode
  /\ allocated' = allocated \ {arg}
  /\ Return
-----------------------------------------------------------------------------
Steps == MallocSkip \/ MallocFails \/ MallocExact \/ MallocSplit
           \/ FreeSkip \/ FreeStop

(* Any calls at all. *)
AnyNext ==
  \/ \E nbytes \in RequestBytes : MallocCall(nbytes)
  \/ \E block \in allocated : FreeCall(block)
  \/ Steps

AnySpec == Init /\ [][AnyNext]_vars

(* The lowest block of the heap is never handed out as a whole: what is    *)
(* left of the 64 MB at the low end is never used up to the last unit.  It *)
(* may be asked for when it is the only block: malloc refuses it then.     *)
LeavesLowest(nbytes) ==
  0 \in FreeBlocks => size[0] # Units(nbytes) \/ FreeBlocks = {0}

Next ==
  \/ \E nbytes \in RequestBytes : LeavesLowest(nbytes) /\ MallocCall(nbytes)
  \/ \E block \in allocated : FreeCall(block)
  \/ Steps

Spec == Init /\ [][Next]_vars

(* A call runs to its end: nothing preempts it. *)
FairSpec == Spec /\ WF_vars(Steps)
-----------------------------------------------------------------------------
TypeOK ==
  /\ FreeBlocks \subseteq Addresses
  /\ allocated \subseteq Addresses
  /\ size \in [FreeBlocks \cup allocated -> 1..totalUnits]
  /\ ptr \in [FreeBlocks -> FreeBlocks]
  /\ freeNode \in FreeBlocks
  /\ op \in {"idle", "malloc", "free"}
  /\ op = "malloc" => /\ arg \in {Units(n) : n \in RequestBytes}
                      /\ prevptr \in FreeBlocks
                      /\ currentNode = ptr[prevptr]
  /\ op = "free" => arg \in allocated /\ currentNode \in FreeBlocks

(* Every unit of the heap belongs to exactly one block, which is either    *)
(* free or in use: nothing malloc and free do, in whatever order, makes    *)
(* two blocks overlap or loses a unit.                                     *)
HeapPartition ==
  /\ FreeBlocks \cap allocated = {}
  /\ \A u \in Addresses : \E a \in DOMAIN size : a <= u /\ u < a + size[a]
  /\ \A a, b \in DOMAIN size : a < b => a + size[a] <= b
  /\ \A a \in DOMAIN size : a + size[a] <= totalUnits

(* Two free blocks never touch: free merges what it gives back with both   *)
(* neighbours, so freeing everything restores one block.                   *)
Coalesced == \A a, b \in FreeBlocks : a + size[a] # b

(* The list visits the free blocks in the order of their addresses and     *)
(* wraps around once; free relies on it to find the neighbours.            *)
Ordered ==
  \A a \in FreeBlocks :
    IF ptr[a] > a
    THEN \A b \in FreeBlocks : ~(a < b /\ b < ptr[a])
    ELSE \A b \in FreeBlocks : ptr[a] <= b /\ b <= a

(* malloc refuses a request only if no free block is large enough, or if   *)
(* the list has one block and that is an exact fit.  The test for the end  *)
(* of the walk, behind the allocation, is wrong in that one case and in no *)
(* other: no longer walk, from wherever free_node happens to stand, ends   *)
(* before a block that fits.                                               *)
Refuses == op = "malloc" /\ op' = "idle" /\ allocated' = allocated
SoleExactFit(a) == FreeBlocks = {a} /\ size[a] = arg
RefusesFitOnlyIfSole ==
  [][Refuses => \A a \in FreeBlocks : size[a] < arg \/ SoleExactFit(a)]_vars

(* Every malloc and every free returns: the list stays closed and neither  *)
(* loop runs around it for ever.                                           *)
CallsReturn == (op # "idle") ~> (op = "idle")

(* malloc and free implement the abstract allocator. *)
Abstract == INSTANCE Allocator WITH
  Arena <- totalUnits,
  Lengths <- {Units(n) : n \in RequestBytes},
  blocks <- {[start |-> a, len |-> size[a]] : a \in allocated}

ImplementsAllocator == Abstract!Spec

(* memoryTest.c:43-45 reports "ERROR!" when a block in use was overwritten *)
(* through another one: malloc returns units that no block in use covers.  *)
Takes == \/ size[currentNode] > arg
         \/ size[currentNode] = arg /\ prevptr # currentNode
Taken == currentNode + size[currentNode] - arg
MallocFresh ==
  [][op = "malloc" /\ op' = "idle" /\ Takes =>
       \A a \in allocated : a + size[a] <= Taken \/ Taken + arg <= a]_vars
=============================================================================
