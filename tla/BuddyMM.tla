------------------------------ MODULE BuddyMM -------------------------------
(***************************************************************************)
(* The buddy memory manager (Kernel/memoryManagement/buddy.c and           *)
(* buddyList.c), the one a build with MEMORY_MANAGER_BUDDY links: one list *)
(* of free blocks per power of two; malloc splits a block, free merges a   *)
(* block with its buddy.                                                   *)
(*                                                                         *)
(* Addresses are offsets in bytes from base_ptr; the lists are sequences,  *)
(* their end is the end that listPush and listPop use.  Both loops are     *)
(* modelled iteration by iteration.  Callers only give back what they were *)
(* given.  A request that malloc refuses outright (0 bytes or too many)    *)
(* changes nothing and has no action.                                      *)
(***************************************************************************)
EXTENDS Integers, Sequences, SequencesExt, FiniteSets

CONSTANTS
  HeapLog2,      \* heap_size is 2^HeapLog2
  RequestBytes   \* the values of nbytes

MIN_ALLOC_LOG2 == 4
MAX_ALLOC_LOG2 == 31
SizeOfNode == 24   \* sizeof(list_t)

ASSUME BuddyAssumption ==
  /\ HeapLog2 \in (MIN_ALLOC_LOG2 + 1)..(MAX_ALLOC_LOG2 - 1)
  /\ RequestBytes \subseteq Nat \ {0}

maximumBucketSize == 2^HeapLog2
bucketsAmount == HeapLog2 - MIN_ALLOC_LOG2 + 1
Buckets == 0..(bucketsAmount - 1)
BlockSize(bucket) == 2^(MIN_ALLOC_LOG2 + bucket)

(* Where a block may start. *)
Offsets == {BlockSize(0) * i : i \in 0..(BlockSize(bucketsAmount - 1) \div BlockSize(0) - 1)}

VARIABLES
  buckets,          \* the lists of free blocks
  header,           \* offset -> the bucket and free fields of the block there
  asked,            \* offset of a block in use -> the bytes asked for
  op,               \* "idle", the call being executed ("malloc" or "free"), or
                    \* "lost" when malloc has popped from beyond the lists
  nbytes,           \* the argument of malloc
  node,             \* resultNode in malloc, freeNode in free
  availableBucket   \* in malloc

callVars == <<op, nbytes, node, availableBucket>>
vars == <<buckets, header, asked, callVars>>

Blocks == DOMAIN header

(* initializeMemoryManager *)
Init ==
  /\ buckets = [k \in Buckets |-> IF k = bucketsAmount - 1 THEN <<0>> ELSE <<>>]
  /\ header = [n \in {0} |-> [bucket |-> bucketsAmount - 1, free |-> TRUE]]
  /\ asked = [n \in {} |-> 0]
  /\ op = "idle"
  /\ nbytes = 0
  /\ node = 0
  /\ availableBucket = 0

(* The call returns. *)
Return == op' = "idle" /\ nbytes' = 0 /\ node' = 0 /\ availableBucket' = 0
-----------------------------------------------------------------------------
(* buddyList.c: a list is known by its head, whose prev is its last block. *)
ListPush(list, n) == Append(list, n)
ListRemove(list, n) == RemoveAt(list, CHOOSE i \in DOMAIN list : list[i] = n)
ListPop(list) == [back |-> Last(list), list |-> Front(list)]
ListIsEmpty(list) == list = <<>>

Log2(n) == CHOOSE k \in 0..(MAX_ALLOC_LOG2 - 1) : 2^k <= n /\ n < 2^(k + 1)

(* Mutant of GetMinimumSuitableBucket: rounded down. *)
GetMinimumRoundedDown(request) ==
  IF Log2(request) < MIN_ALLOC_LOG2 THEN 0 ELSE Log2(request) - MIN_ALLOC_LOG2

GetMinimumSuitableBucket(request) ==
  IF Log2(request) < MIN_ALLOC_LOG2 THEN 0
  ELSE Log2(request) - MIN_ALLOC_LOG2 + (IF request = 2^Log2(request) THEN 0 ELSE 1)

(* Mutant of GetAvailableBucket: the search ends before the last list. *)
GetAvailableBucketShort(minBucketRequired) ==
  LET candidates == {k \in minBucketRequired..(bucketsAmount - 2) : ~ListIsEmpty(buckets[k])}
  IN IF candidates = {} THEN bucketsAmount
     ELSE CHOOSE k \in candidates : \A j \in candidates : k <= j

(* The first list that is not empty.  When all are, the code compares with *)
(* > where it means >=, and returns a list beyond the ones in use.         *)
GetAvailableBucket(minBucketRequired) ==
  LET candidates == {k \in minBucketRequired..(bucketsAmount - 1) : ~ListIsEmpty(buckets[k])}
  IN IF candidates = {} THEN bucketsAmount
     ELSE CHOOSE k \in candidates : \A j \in candidates : k <= j

(* The offset of n with the bit of its bucket flipped, and cleared.        *)
GetNodeBuddy(n, bucket) ==
  IF (n \div BlockSize(bucket)) % 2 = 0 THEN n + BlockSize(bucket) ELSE n - BlockSize(bucket)

GetNodeAddress(n, bucket) ==
  IF (n \div BlockSize(bucket)) % 2 = 0 THEN n ELSE n - BlockSize(bucket)
-----------------------------------------------------------------------------
IdealBucket(request) == GetMinimumSuitableBucket(request + SizeOfNode)

(* malloc(nbytes), up to the loop.  Popping from beyond the lists follows  *)
(* a NULL pointer; nothing is said of what comes then.                     *)
MallocCall(request) ==
  LET available == GetAvailableBucket(IdealBucket(request))
  IN /\ op = "idle"
     /\ request + SizeOfNode <= maximumBucketSize + 1
     /\ nbytes' = request
     /\ availableBucket' = available
     /\ UNCHANGED <<asked, header>>
     /\ \/ /\ available < bucketsAmount
           /\ op' = "malloc"
           /\ node' = ListPop(buckets[available]).back
           /\ buckets' = [buckets EXCEPT ![available] = ListPop(@).list]
        \/ /\ available = bucketsAmount
           /\ op' = "lost"
           /\ UNCHANGED <<node, buckets>>

(* Mutant of Split: the block keeps its bucket. *)
SplitKeepsBucket ==
  /\ op = "malloc"
  /\ IdealBucket(nbytes) < availableBucket
  /\ LET lower == header[node].bucket - 1
         buddy == GetNodeBuddy(node, lower)
     IN /\ header' = [n \in Blocks \cup {buddy} |->
                        IF n = buddy THEN [bucket |-> availableBucket - 1, free |-> TRUE]
                        ELSE header[n]]
        /\ buckets' = [buckets EXCEPT ![availableBucket - 1] = ListPush(@, buddy)]
  /\ availableBucket' = availableBucket - 1
  /\ UNCHANGED <<asked, op, nbytes, node>>

(* One iteration of malloc's loop: the upper half becomes a free block. *)
Split ==
  /\ op = "malloc"
  /\ IdealBucket(nbytes) < availableBucket
  /\ LET lower == header[node].bucket - 1
         buddy == GetNodeBuddy(node, lower)
     IN /\ header' = [n \in Blocks \cup {buddy} |->
                        IF n = buddy THEN [bucket |-> availableBucket - 1, free |-> TRUE]
                        ELSE IF n = node THEN [header[n] EXCEPT !.bucket = lower]
                        ELSE header[n]]
        /\ buckets' = [buckets EXCEPT ![availableBucket - 1] = ListPush(@, buddy)]
  /\ availableBucket' = availableBucket - 1
  /\ UNCHANGED <<asked, op, nbytes, node>>

(* malloc returns its node. *)
MallocReturns ==
  /\ op = "malloc"
  /\ IdealBucket(nbytes) >= availableBucket
  /\ header' = [header EXCEPT ![node].free = FALSE]
  /\ asked' = [n \in DOMAIN asked \cup {node} |-> IF n = node THEN nbytes ELSE asked[n]]
  /\ UNCHANGED buckets
  /\ Return
-----------------------------------------------------------------------------
(* free(block), up to the loop. *)
FreeCall(n) ==
  /\ op = "idle"
  /\ n \in DOMAIN asked
  /\ op' = "free"
  /\ node' = n
  /\ header' = [header EXCEPT ![n].free = TRUE]
  /\ asked' = [m \in DOMAIN asked \ {n} |-> asked[m]]
  /\ UNCHANGED <<buckets, nbytes, availableBucket>>

(* The condition of free's loop. *)
Mergeable ==
  LET bucket == header[node].bucket
      buddy == header[GetNodeBuddy(node, bucket)]
  IN /\ bucket # bucketsAmount - 1
     /\ buddy.bucket = bucket
     /\ buddy.free

(* Mutant of Merge: the buddy stays on its list. *)
MergeNoRemove ==
  /\ op = "free"
  /\ Mergeable
  /\ LET bucket == header[node].bucket
         merged == GetNodeAddress(node, bucket)
     IN /\ node' = merged
        /\ header' = [n \in Blocks \ {merged + BlockSize(bucket)} |->
                        IF n = merged THEN [header[n] EXCEPT !.bucket = bucket + 1] ELSE header[n]]
  /\ UNCHANGED <<buckets, asked, op, nbytes, availableBucket>>

(* One iteration of free's loop: listRemove of the buddy, and on with the  *)
(* lower of the two.                                                       *)
Merge ==
  /\ op = "free"
  /\ Mergeable
  /\ LET bucket == header[node].bucket
         buddy == GetNodeBuddy(node, bucket)
         merged == GetNodeAddress(node, bucket)
     IN /\ buckets' = [buckets EXCEPT ![bucket] = ListRemove(@, buddy)]
        /\ node' = merged
        /\ header' = [n \in Blocks \ {merged + BlockSize(bucket)} |->
                        IF n = merged THEN [header[n] EXCEPT !.bucket = bucket + 1] ELSE header[n]]
  /\ UNCHANGED <<asked, op, nbytes, availableBucket>>

(* Mutant of FreeReturns: without the loop. *)
FreeReturnsAtOnce ==
  /\ op = "free"
  /\ buckets' = [buckets EXCEPT ![header[node].bucket] = ListPush(@, node)]
  /\ UNCHANGED <<header, asked>>
  /\ Return

(* free's last statement. *)
FreeReturns ==
  /\ op = "free"
  /\ ~Mergeable
  /\ buckets' = [buckets EXCEPT ![header[node].bucket] = ListPush(@, node)]
  /\ UNCHANGED <<header, asked>>
  /\ Return
-----------------------------------------------------------------------------
Next ==
  \/ \E request \in RequestBytes : MallocCall(request)
  \/ Split
  \/ MallocReturns
  \/ \E n \in DOMAIN asked : FreeCall(n)
  \/ Merge
  \/ FreeReturns

Spec == Init /\ [][Next]_vars

Cells(n) == n..(n + BlockSize(header[n].bucket) - 1)

(* The blocks on list k. *)
Listed(k) == ToSet(buckets[k])

(* Splits and merges neither lose nor double memory: every 16 bytes of the *)
(* heap belong to exactly one block, between the iterations of the loops  *)
(* too.                                                                    *)
HeapPartition ==
  \A cell \in Offsets :
    Cardinality({n \in Blocks : cell \in Cells(n)}) = 1

(* What a header says and where the block is agree: a block is on the list *)
(* of its bucket, once, if its header says free, and on no list otherwise. *)
(* free decides by the header alone what it unlinks.  The node of the call *)
(* being executed is on no list yet.                                       *)
HeadersMatchLists ==
  \A k \in Buckets :
    /\ Listed(k) = {n \in Blocks : /\ header[n].bucket = k
                                   /\ header[n].free
                                   /\ op \in {"malloc", "free"} => n # node}
    /\ Len(buckets[k]) = Cardinality(Listed(k))

(* Between calls no two buddies are both free: free merges as far as it    *)
(* can, whatever the order of the frees.                                   *)
Coalesced ==
  op = "idle" =>
    \A m, n \in Blocks :
      /\ m # n
      /\ header[m].bucket = header[n].bucket
      /\ header[m].free
      /\ header[n].free
      => n # GetNodeBuddy(m, header[m].bucket)

(* malloc gets lost only when no free block is large enough, the case in   *)
(* which it should return NULL: a list that has a block is always found.   *)
LostOnlyIfNoFit ==
  op = "lost" =>
    \A n \in Blocks :
      header[n].free => BlockSize(header[n].bucket) < nbytes + SizeOfNode

(* The bytes asked for, with their header, of the blocks in use. *)
Served == INSTANCE Allocator WITH
  Arena <- maximumBucketSize,
  Lengths <- {request + SizeOfNode : request \in RequestBytes},
  blocks <- {[start |-> n, len |-> asked[n] + SizeOfNode] : n \in DOMAIN asked}

(* The manager implements the abstract allocator: every caller gets as     *)
(* many bytes as it asked for, in the heap, and nobody else's.             *)
ImplementsAllocator == Served!Spec
=============================================================================
