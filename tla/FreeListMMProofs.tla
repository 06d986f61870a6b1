-------------------------- MODULE FreeListMMProofs --------------------------
(***************************************************************************)
(* Proofs about the free-list memory manager, for every heap size and      *)
(* every set of requests, as long as the block at the low end of the heap  *)
(* is not handed out whole (Spec).                                         *)
(*                                                                         *)
(* The invariant that carries them all joins the partition of the heap     *)
(* with the order of the list: free finds the neighbours of a block only   *)
(* because the list is in address order, and the list stays in order only  *)
(* because the blocks do not overlap.  That the lowest unit is always free *)
(* is what stands in for the missing sentinel: it makes the node behind    *)
(* the highest one a node below every block in use.                        *)
(***************************************************************************)
EXTENDS FreeListMM, TLAPS

Inv ==
  /\ TypeOK
  /\ 0 \in FreeBlocks
  /\ HeapPartition
  /\ Ordered
  /\ Coalesced
  /\ op = "malloc" => size[0] # arg \/ FreeBlocks = {0}

(* A request is at least two units long: the header and one of data. *)
LEMMA UnitsAtLeastTwo == \A n \in Nat \ {0} : Units(n) \in Nat /\ Units(n) >= 2
  BY DEF Units, SizeOfHeader

LEMMA TotalUnits == totalUnits \in Nat /\ totalUnits >= 2
  BY UnitsAtLeastTwo, MMAssumption DEF totalUnits, SizeOfHeader

LEMMA InitInv == Init => Inv
<1> SUFFICES ASSUME Init PROVE Inv
  OBVIOUS
<1> USE TotalUnits DEF Init, FreeBlocks, Addresses
<1>1. DOMAIN size = {0} /\ DOMAIN ptr = {0} /\ size[0] = totalUnits /\ ptr[0] = 0
  OBVIOUS
<1>2. TypeOK
  BY <1>1 DEF TypeOK
<1>3. HeapPartition
  BY <1>1 DEF HeapPartition
<1>4. Ordered /\ Coalesced
  BY <1>1 DEF Ordered, Coalesced
<1> QED
  BY <1>1, <1>2, <1>3, <1>4 DEF Inv

(* The cyclic order of a set of addresses F under a successor function p. *)
Cyclic(F, p) ==
  /\ p \in [F -> F]
  /\ \A a \in F :
       IF p[a] > a
       THEN \A b \in F : ~(a < b /\ b < p[a])
       ELSE \A b \in F : p[a] <= b /\ b <= a

Unlinked(F, p, x) ==
  [a \in F \ {p[x]} |-> IF a = x THEN p[p[x]] ELSE p[a]]

Linked(F, p, c, f) ==
  [a \in F \cup {f} |-> CASE a = c -> f [] a = f -> p[c] [] OTHER -> p[a]]

(* Taking the successor of x out keeps the order. *)
LEMMA UnlinkCyclic ==
  ASSUME NEW F, F \subseteq Nat, NEW p, Cyclic(F, p), NEW x \in F, p[x] # x
  PROVE  Cyclic(F \ {p[x]}, Unlinked(F, p, x))
<1> DEFINE u == p[x]
           n == p[u]
           G == F \ {u}
           q == Unlinked(F, p, x)
<1>1. /\ u \in F /\ n \in F /\ u # x
      /\ \A a \in F : p[a] \in F
      /\ \A a \in F : a \in Nat
  BY DEF Cyclic
<1>2. \A a \in F : IF p[a] > a
                   THEN \A b \in F : ~(a < b /\ b < p[a])
                   ELSE \A b \in F : p[a] <= b /\ b <= a
  BY DEF Cyclic
<1>3. q = [a \in G |-> IF a = x THEN n ELSE p[a]]
  BY DEF Unlinked
<1>4. IF u > x THEN \A b \in F : ~(x < b /\ b < u)
               ELSE \A b \in F : u <= b /\ b <= x
  BY <1>2
<1>5. IF n > u THEN \A b \in F : ~(u < b /\ b < n)
               ELSE \A b \in F : n <= b /\ b <= u
  BY <1>1, <1>2
<1> HIDE DEF u, n, G, q
<1>6. n # u
  BY <1>1, <1>4, <1>5
<1>7. \A a \in F : a # x => p[a] # u
  <2> SUFFICES ASSUME NEW a \in F, a # x, p[a] = u PROVE FALSE
    OBVIOUS
  <2>1. IF u > a THEN \A b \in F : ~(a < b /\ b < u)
                 ELSE \A b \in F : u <= b /\ b <= a
    BY <1>2
  <2> QED
    BY <1>1, <1>4, <2>1
<1>8. q \in [G -> G]
  BY <1>1, <1>3, <1>6, <1>7 DEF G
<1>9. ASSUME NEW a \in G
      PROVE  IF q[a] > a
             THEN \A b \in G : ~(a < b /\ b < q[a])
             ELSE \A b \in G : q[a] <= b /\ b <= a
  <2>1. CASE a # x
    <3>1. q[a] = p[a]
      BY <1>3, <2>1
    <3> QED
      BY <1>2, <3>1 DEF G
  <2>2. CASE a = x
    <3>1. q[a] = n
      BY <1>3, <2>2
    <3>2. CASE n > x
      BY <1>1, <1>4, <1>5, <2>2, <3>1, <3>2 DEF G
    <3>3. CASE ~(n > x)
      BY <1>1, <1>4, <1>5, <2>2, <3>1, <3>3 DEF G
    <3> QED
      BY <3>2, <3>3
  <2> QED
    BY <2>1, <2>2
<1> QED
  BY <1>8, <1>9 DEF Cyclic, G, q, u

(* Linking f behind c keeps the order if f belongs there. *)
LEMMA LinkCyclic ==
  ASSUME NEW F, F \subseteq Nat, NEW p, Cyclic(F, p), NEW c \in F,
         NEW f \in Nat \ F, c < f,
         \/ f < p[c]
         \/ \A b \in F : p[c] <= b /\ b <= c
  PROVE  Cyclic(F \cup {f}, Linked(F, p, c, f))
<1> DEFINE u == p[c]
           G == F \cup {f}
           q == Linked(F, p, c, f)
<1>1. /\ u \in F
      /\ \A a \in F : p[a] \in F
      /\ \A a \in F : a \in Nat /\ a # f
  BY DEF Cyclic
<1>2. \A a \in F : IF p[a] > a
                   THEN \A b \in F : ~(a < b /\ b < p[a])
                   ELSE \A b \in F : p[a] <= b /\ b <= a
  BY DEF Cyclic
<1>3. /\ DOMAIN q = G /\ q[c] = f /\ q[f] = u
      /\ \A a \in F \ {c} : q[a] = p[a]
      /\ q \in [G -> G]
  BY <1>1 DEF Linked
<1>4. IF u > c THEN \A b \in F : ~(c < b /\ b < u)
               ELSE \A b \in F : u <= b /\ b <= c
  BY <1>2
<1>5. f < u \/ \A b \in F : u <= b /\ b <= c
  OBVIOUS
<1> HIDE DEF u, G, q
<1>6. ASSUME NEW a \in G
      PROVE  IF q[a] > a
             THEN \A b \in G : ~(a < b /\ b < q[a])
             ELSE \A b \in G : q[a] <= b /\ b <= a
  <2>1. CASE a = c
    BY <1>1, <1>3, <1>4, <1>5, <2>1 DEF G
  <2>2. CASE a = f
    <3>1. CASE f < u
      BY <1>1, <1>3, <1>4, <2>2, <3>1 DEF G
    <3>2. CASE ~(f < u)
      BY <1>1, <1>3, <1>5, <2>2, <3>2 DEF G
    <3> QED
      BY <3>1, <3>2
  <2>3. CASE a \in F \ {c}
    <3>1. q[a] = p[a] /\ a \in Nat /\ p[a] \in Nat /\ a # f
      BY <1>1, <1>3, <2>3
    <3>2. IF p[a] > a
          THEN \A b \in F : ~(a < b /\ b < p[a])
          ELSE \A b \in F : p[a] <= b /\ b <= a
      BY <1>2, <2>3
    <3>3. IF p[a] > a
          THEN ~(a < f /\ f < p[a])
          ELSE p[a] <= f /\ f <= a
      <4>1. c \in F /\ u \in F /\ c \in Nat /\ u \in Nat
        BY <1>1
      <4>2. a < c \/ u <= a
        BY <1>4, <1>5, <2>3, <3>1, <4>1
      <4> QED
        BY <1>1, <1>4, <1>5, <2>3, <3>1, <3>2, <4>1, <4>2
    <3> QED
      BY <3>1, <3>2, <3>3 DEF G
  <2> QED
    BY <2>1, <2>2, <2>3 DEF G
<1> QED
  BY <1>3, <1>6 DEF Cyclic, G, q

(* The invariant says that of the free list. *)
LEMMA InvCyclic ==
  ASSUME Inv
  PROVE  FreeBlocks \subseteq Nat /\ Cyclic(FreeBlocks, ptr)
<1>1. \A a \in Addresses : a \in Nat
  BY TotalUnits DEF Addresses
<1> QED
  BY <1>1 DEF Inv, TypeOK, Ordered, Cyclic

(* Taking a call in touches no block. *)
LEMMA CallStep ==
  ASSUME Inv,
         \/ \E nbytes \in RequestBytes : LeavesLowest(nbytes) /\ MallocCall(nbytes)
         \/ \E block \in allocated : FreeCall(block)
  PROVE  Inv'
<1> USE DEF FreeBlocks
<1>0. UNCHANGED listVars
  BY DEF MallocCall, FreeCall
<1>1. FreeBlocks' = FreeBlocks /\ 0 \in FreeBlocks'
  BY <1>0 DEF Inv, listVars
<1>2. HeapPartition' /\ Ordered' /\ Coalesced'
  BY <1>0 DEF Inv, listVars, HeapPartition, Ordered, Coalesced
<1>3. TypeOK' /\ (op = "malloc" => size[0] # arg \/ FreeBlocks = {0})'
  BY <1>0 DEF Inv, listVars, TypeOK, MallocCall, FreeCall, LeavesLowest
<1> QED
  BY <1>1, <1>2, <1>3 DEF Inv

(* Neither does a step of a walk. *)
LEMMA WalkStep ==
  ASSUME Inv, UNCHANGED <<listVars, op, arg>>,
         \/ op = "malloc" /\ prevptr' = currentNode /\ currentNode' = ptr[currentNode]
         \/ op = "free" /\ currentNode' = ptr[currentNode]
  PROVE  Inv'
<1> USE DEF FreeBlocks
<1>1. FreeBlocks' = FreeBlocks /\ 0 \in FreeBlocks'
  BY DEF Inv, listVars
<1>2. HeapPartition' /\ Ordered' /\ Coalesced'
  BY DEF Inv, listVars, HeapPartition, Ordered, Coalesced
<1>3. TypeOK' /\ (op = "malloc" => size[0] # arg \/ FreeBlocks = {0})'
  BY DEF Inv, listVars, TypeOK
<1> QED
  BY <1>1, <1>2, <1>3 DEF Inv

LEMMA MallocFailsStep == Inv /\ MallocFails => Inv'
<1> SUFFICES ASSUME Inv, MallocFails PROVE Inv'
  OBVIOUS
<1> USE DEF FreeBlocks, MallocFails, Return
<1>1. FreeBlocks' = FreeBlocks /\ 0 \in FreeBlocks'
  BY DEF Inv, listVars
<1>2. HeapPartition' /\ Ordered' /\ Coalesced'
  BY DEF Inv, listVars, HeapPartition, Ordered, Coalesced
<1>3. TypeOK' /\ (op = "malloc" => size[0] # arg \/ FreeBlocks = {0})'
  BY DEF Inv, listVars, TypeOK
<1> QED
  BY <1>1, <1>2, <1>3 DEF Inv

(* A block that fits exactly is either the only one of the list or not the *)
(* lowest one.                                                             *)
LEMMA ExactSoleOrHigh ==
  ASSUME Inv, MallocExact
  PROVE  IF prevptr = currentNode THEN FreeBlocks = {currentNode}
                                  ELSE currentNode # 0
<1>1. op = "malloc" /\ prevptr \in FreeBlocks /\ currentNode = ptr[prevptr]
      /\ size[currentNode] = arg /\ (size[0] # arg \/ FreeBlocks = {0})
      /\ FreeBlocks \subseteq Addresses
  BY DEF Inv, TypeOK, MallocExact
<1>2. CASE prevptr = currentNode
  <2>1. \A b \in FreeBlocks : b \in Nat
    BY InvCyclic
  <2>2. \A b \in FreeBlocks : currentNode <= b /\ b <= currentNode
    BY <1>1, <1>2, <2>1 DEF Inv, Ordered
  <2>3. \A b \in FreeBlocks : b = currentNode
    BY <1>1, <1>2, <2>1, <2>2
  <2> QED
    BY <1>1, <1>2, <2>3
<1>3. CASE prevptr # currentNode
  BY <1>1, <1>3
<1> QED
  BY <1>2, <1>3

(* The only block of the list is refused: nothing changes. *)
LEMMA MallocSoleStep == Inv /\ MallocExact /\ prevptr = currentNode => Inv'
<1> SUFFICES ASSUME Inv, MallocExact, prevptr = currentNode PROVE Inv'
  OBVIOUS
<1> USE DEF FreeBlocks
<1>1. /\ UNCHANGED <<size, ptr, allocated>> /\ freeNode' = prevptr /\ op' = "idle"
      /\ prevptr \in FreeBlocks
  BY DEF MallocExact, Return, Inv, TypeOK
<1>2. HeapPartition' /\ Ordered' /\ Coalesced'
  BY <1>1 DEF Inv, HeapPartition, Ordered, Coalesced
<1>3. TypeOK'
  BY <1>1 DEF Inv, TypeOK
<1> QED
  BY <1>1, <1>2, <1>3 DEF Inv

LEMMA MallocExactStep == Inv /\ MallocExact /\ prevptr # currentNode => Inv'
<1> SUFFICES ASSUME Inv, MallocExact, prevptr # currentNode PROVE Inv'
  OBVIOUS
<1>1. prevptr # currentNode /\ currentNode # 0
  BY ExactSoleOrHigh
<1>2. /\ ptr' = [a \in FreeBlocks \ {currentNode} |->
                   IF a = prevptr THEN ptr[currentNode] ELSE ptr[a]]
      /\ allocated' = allocated \cup {currentNode}
      /\ freeNode' = prevptr /\ size' = size /\ op' = "idle"
  BY <1>1 DEF MallocExact, Return
<1>3. /\ prevptr \in FreeBlocks /\ currentNode \in FreeBlocks
      /\ currentNode = ptr[prevptr]
      /\ FreeBlocks \subseteq Addresses /\ 0 \in FreeBlocks
      /\ ptr \in [FreeBlocks -> FreeBlocks]
      /\ DOMAIN size = FreeBlocks \cup allocated
  BY DEF Inv, TypeOK, MallocExact
<1>4. FreeBlocks' = FreeBlocks \ {currentNode}
  BY <1>2 DEF FreeBlocks
<1>5. ptr[currentNode] # currentNode
  BY <1>1, <1>3, TotalUnits DEF Inv, Ordered, Addresses
<1>6. Cyclic(FreeBlocks', ptr')
  <2>1. ptr' = Unlinked(FreeBlocks, ptr, prevptr)
    BY <1>2, <1>3 DEF Unlinked
  <2> QED
    BY <1>1, <1>3, <1>4, <2>1, InvCyclic, UnlinkCyclic
<1>7. TypeOK' /\ Ordered'
  <2>1. FreeBlocks' \cup allocated' = FreeBlocks \cup allocated
    BY <1>2, <1>3, <1>4
  <2> QED
    BY <1>1, <1>2, <1>3, <1>4, <1>6, <2>1 DEF Inv, TypeOK, Ordered, Cyclic
<1>8. HeapPartition'
  BY <1>2, <1>3, <1>4 DEF Inv, HeapPartition
<1>9. Coalesced'
  BY <1>2, <1>4 DEF Inv, Coalesced
<1> QED
  BY <1>1, <1>2, <1>3, <1>4, <1>6, <1>7, <1>8, <1>9 DEF Inv

LEMMA MallocSplitStep == Inv /\ MallocSplit => Inv'
<1> SUFFICES ASSUME Inv, MallocSplit PROVE Inv'
  OBVIOUS
<1> DEFINE rest == size[currentNode] - arg
           block == currentNode + rest
<1>1. /\ size' = [a \in DOMAIN size \cup {block} |->
                    CASE a = currentNode -> rest
                      [] a = block -> arg
                      [] OTHER -> size[a]]
      /\ allocated' = allocated \cup {block}
      /\ freeNode' = prevptr /\ ptr' = ptr /\ op' = "idle"
  BY DEF MallocSplit, Return
<1>2. /\ op = "malloc" /\ size[currentNode] > arg
      /\ prevptr \in FreeBlocks /\ currentNode \in FreeBlocks
      /\ FreeBlocks \subseteq Addresses /\ allocated \subseteq Addresses
      /\ 0 \in FreeBlocks
      /\ DOMAIN size = FreeBlocks \cup allocated
      /\ \A a \in DOMAIN size : size[a] \in 1..totalUnits
      /\ arg \in Nat /\ arg >= 2
  BY UnitsAtLeastTwo, MMAssumption DEF Inv, TypeOK, MallocSplit
<1>3. FreeBlocks' = FreeBlocks
  BY <1>1 DEF FreeBlocks
<1> HIDE DEF rest, block
<1>4. /\ rest \in Nat /\ rest >= 1 /\ rest + arg = size[currentNode]
      /\ block = currentNode + rest
      /\ block \in Addresses
      /\ block + arg = currentNode + size[currentNode]
      /\ block > currentNode
      /\ block + arg <= totalUnits
  BY <1>2, TotalUnits DEF rest, block, Addresses, Inv, HeapPartition
<1>5. block \notin DOMAIN size
  <2> SUFFICES ASSUME block \in DOMAIN size PROVE FALSE
    OBVIOUS
  <2>1. currentNode + size[currentNode] <= block
    BY <1>2, <1>4 DEF Inv, HeapPartition
  <2> QED
    BY <1>2, <1>4, <2>1, TotalUnits DEF Addresses
<1>6. /\ DOMAIN size' = DOMAIN size \cup {block}
      /\ size'[currentNode] = rest
      /\ size'[block] = arg
      /\ \A a \in DOMAIN size \ {currentNode} : size'[a] = size[a]
  BY <1>1, <1>2, <1>4, <1>5, TotalUnits DEF Addresses
<1>7. TypeOK'
  <2>1. size' \in [FreeBlocks' \cup allocated' -> 1..totalUnits]
    <3>1. arg \in 1..totalUnits /\ rest \in 1..totalUnits
      BY <1>2, <1>4, TotalUnits DEF Addresses
    <3>2. \A a \in DOMAIN size \cup {block} : size'[a] \in 1..totalUnits
      BY <1>2, <1>6, <3>1
    <3> QED
      BY <1>1, <1>2, <1>3, <1>6, <3>2
  <2> QED
    BY <1>1, <1>2, <1>3, <1>4, <2>1 DEF Inv, TypeOK
<1>8. HeapPartition'
  <2>1. FreeBlocks' \cap allocated' = {}
    BY <1>1, <1>2, <1>3, <1>5 DEF Inv, HeapPartition
  <2>2. ASSUME NEW u \in Addresses
        PROVE  \E a \in DOMAIN size' : a <= u /\ u < a + size'[a]
    <3>1. PICK a \in DOMAIN size : a <= u /\ u < a + size[a]
      BY DEF Inv, HeapPartition
    <3>2. CASE a # currentNode
      BY <1>6, <3>1, <3>2
    <3>3. CASE a = currentNode /\ u < block
      BY <1>2, <1>4, <1>6, <3>1, <3>3
    <3>4. CASE a = currentNode /\ u >= block
      BY <1>2, <1>4, <1>6, <3>1, <3>4
    <3> QED
      BY <1>4, <3>2, <3>3, <3>4 DEF Addresses
  <2>3. ASSUME NEW a \in DOMAIN size', NEW b \in DOMAIN size', a < b
        PROVE  a + size'[a] <= b
    <3>0. /\ a \in Nat /\ b \in Nat /\ currentNode \in Nat
          /\ size[currentNode] \in Nat
      <4>1. DOMAIN size' \subseteq Addresses
        BY <1>2, <1>4, <1>6
      <4>2. currentNode \in Addresses /\ size[currentNode] \in 1..totalUnits
        BY <1>2
      <4> QED
        BY <4>1, <4>2, TotalUnits DEF Addresses
    <3>1. CASE a \in DOMAIN size /\ b \in DOMAIN size
      <4>1. a + size[a] <= b
        BY <2>3, <3>1 DEF Inv, HeapPartition
      <4>2. CASE a = currentNode
        <5>1. size'[a] = rest /\ size[a] = size[currentNode]
          BY <1>6, <4>2
        <5>2. rest <= size[currentNode]
          BY <1>2, <1>4, <3>0
        <5> QED
          BY <1>4, <3>0, <4>1, <5>1, <5>2
      <4>3. CASE a # currentNode
        BY <1>6, <3>1, <4>1, <4>3
      <4> QED
        BY <4>2, <4>3
    <3>2. CASE a = block /\ b \in DOMAIN size
      <4>1. currentNode + size[currentNode] <= b
        BY <1>2, <1>4, <2>3, <3>0, <3>2 DEF Inv, HeapPartition
      <4> QED
        BY <1>4, <1>6, <3>2, <4>1
    <3>3. CASE a \in DOMAIN size /\ b = block
      <4>1. CASE a = currentNode
        BY <1>4, <1>6, <3>0, <3>3, <4>1
      <4>2. CASE a # currentNode
        <5>1. size[a] \in Nat /\ size'[a] = size[a]
          BY <1>2, <1>6, <3>3, <4>2, TotalUnits
        <5>2. a < currentNode \/ currentNode < a
          BY <3>0, <4>2
        <5>3. currentNode < a => currentNode + size[currentNode] <= a
          BY <1>2, <3>3 DEF Inv, HeapPartition
        <5>4. a < currentNode => a + size[a] <= currentNode
          BY <1>2, <3>3 DEF Inv, HeapPartition
        <5> QED
          BY <1>2, <1>4, <2>3, <3>0, <3>3, <5>1, <5>2, <5>3, <5>4
      <4> QED
        BY <4>1, <4>2
    <3> QED
      BY <1>6, <2>3, <3>0, <3>1, <3>2, <3>3
  <2>4. ASSUME NEW a \in DOMAIN size' PROVE a + size'[a] <= totalUnits
    <3>1. CASE a = block
      BY <1>4, <1>6, <3>1
    <3>2. CASE a = currentNode
      BY <1>2, <1>4, <1>6, <3>2, TotalUnits DEF Addresses
    <3>3. CASE a \notin {block, currentNode}
      BY <1>6, <3>3 DEF Inv, HeapPartition
    <3> QED
      BY <3>1, <3>2, <3>3
  <2> QED
    BY <2>1, <2>2, <2>3, <2>4 DEF HeapPartition
<1>9. Ordered'
  BY <1>1, <1>3 DEF Inv, Ordered
<1>10. Coalesced'
  <2> SUFFICES ASSUME NEW a \in FreeBlocks, NEW b \in FreeBlocks
               PROVE  a + size'[a] # b
    BY <1>3 DEF Coalesced
  <2>1. CASE a # currentNode
    BY <1>2, <1>6, <2>1 DEF Inv, Coalesced
  <2>2. CASE a = currentNode
    BY <1>2, <1>4, <1>5, <1>6, <2>2
  <2> QED
    BY <2>1, <2>2
<1> QED
  BY <1>1, <1>2, <1>3, <1>7, <1>8, <1>9, <1>10 DEF Inv

(* Where free stops, free_block stands right behind current_node in        *)
(* address order, and before the next free block if there is one.          *)
LEMMA StopPlace ==
  ASSUME Inv, op = "free", Between \/ Listed \/ External
  PROVE  /\ currentNode \in FreeBlocks /\ arg \in allocated
         /\ ptr[currentNode] \in FreeBlocks
         /\ currentNode + size[currentNode] <= arg
         /\ \/ /\ arg + size[arg] <= ptr[currentNode]
               /\ \A b \in FreeBlocks : b <= currentNode \/ ptr[currentNode] <= b
            \/ /\ ptr[currentNode] = 0
               /\ \A b \in FreeBlocks : b <= currentNode
<1>1. /\ currentNode \in FreeBlocks /\ arg \in allocated
      /\ ptr[currentNode] \in FreeBlocks /\ 0 \in FreeBlocks
      /\ DOMAIN size = FreeBlocks \cup allocated
      /\ FreeBlocks \subseteq Addresses /\ allocated \subseteq Addresses
      /\ FreeBlocks \cap allocated = {}
  BY DEF Inv, TypeOK, HeapPartition
<1>2. \A a \in Addresses : a \in Nat
  BY TotalUnits DEF Addresses
<1>3. /\ currentNode \in Nat /\ arg \in Nat /\ ptr[currentNode] \in Nat
      /\ \A b \in FreeBlocks : b \in Nat
  BY <1>1, <1>2
<1>4. ~Listed
  BY <1>1 DEF Listed
<1>5. IF ptr[currentNode] > currentNode
      THEN \A b \in FreeBlocks : ~(currentNode < b /\ b < ptr[currentNode])
      ELSE \A b \in FreeBlocks : ptr[currentNode] <= b /\ b <= currentNode
  BY <1>1 DEF Inv, Ordered
<1>6. currentNode < arg => currentNode + size[currentNode] <= arg
  BY <1>1 DEF Inv, HeapPartition
<1>7. arg < ptr[currentNode] => arg + size[arg] <= ptr[currentNode]
  BY <1>1 DEF Inv, HeapPartition
<1>8. CASE Between
  <2>1. currentNode < arg /\ arg < ptr[currentNode] /\ ptr[currentNode] > currentNode
    BY <1>3, <1>8 DEF Between
  <2>2. \A b \in FreeBlocks : b <= currentNode \/ ptr[currentNode] <= b
    BY <1>3, <1>5, <2>1
  <2> QED
    BY <1>1, <1>6, <1>7, <2>1, <2>2
<1>9. CASE External
  <2>1. \A b \in FreeBlocks : ptr[currentNode] <= b /\ b <= currentNode
    BY <1>3, <1>5, <1>9 DEF External
  <2>2. ptr[currentNode] = 0
    BY <1>1, <1>3, <2>1
  <2>3. currentNode < arg
    BY <1>3, <1>9, <2>2 DEF External
  <2> QED
    BY <1>1, <1>6, <2>1, <2>2, <2>3
<1> QED
  BY <1>4, <1>8, <1>9

(* free never refuses a block that is in use. *)
LEMMA NeverRefused ==
  ASSUME Inv, op = "free", Between \/ Listed \/ External
  PROVE  ~Refused
<1>1. arg \in Nat /\ size[arg] \in Nat /\ currentNode \in Nat /\ size[currentNode] \in Nat
      /\ ptr[currentNode] \in Nat
  <2>1. \A a \in Addresses : a \in Nat
    BY TotalUnits DEF Addresses
  <2>2. \A n \in 1..totalUnits : n \in Nat
    BY TotalUnits
  <2> QED
    BY <2>1, <2>2, StopPlace DEF Inv, TypeOK
<1>2. ~Listed
  BY StopPlace DEF Listed, Inv, HeapPartition
<1>3. Between => arg + size[arg] <= ptr[currentNode]
  BY <1>1, StopPlace DEF Between
<1> QED
  BY <1>1, <1>2, <1>3, StopPlace DEF Refused

(* What Link writes, said case by case. *)
LinkResult(mergeUp, mergeDown) ==
  LET c == currentNode
      u == ptr[currentNode]
      linked == Linked(FreeBlocks, ptr, c, arg)
  IN /\ ptr' = CASE mergeDown /\ ~mergeUp -> ptr
                 [] mergeDown /\ mergeUp -> Unlinked(FreeBlocks, ptr, c)
                 [] ~mergeDown /\ ~mergeUp -> linked
                 [] OTHER -> Unlinked(FreeBlocks \cup {arg}, linked, arg)
     /\ DOMAIN size' = DOMAIN size \ ((IF mergeUp THEN {u} ELSE {})
                                        \cup (IF mergeDown THEN {arg} ELSE {}))
     /\ \A a \in DOMAIN size' :
          size'[a] = CASE a = c /\ mergeDown /\ ~mergeUp -> size[c] + size[arg]
                       [] a = c /\ mergeDown /\ mergeUp -> size[c] + size[arg] + size[u]
                       [] a = arg /\ mergeUp -> size[arg] + size[u]
                       [] OTHER -> size[a]

MergesUp == arg + size[arg] = ptr[currentNode]
MergesDown == currentNode + size[currentNode] = arg

(* The facts about the neighbours of the block being freed. *)
LEMMA Neighbours ==
  ASSUME Inv, op = "free", Between \/ Listed \/ External
  PROVE  /\ currentNode \in FreeBlocks /\ arg \in allocated \ FreeBlocks
         /\ ptr[currentNode] \in FreeBlocks
         /\ ptr[ptr[currentNode]] \in FreeBlocks
         /\ \A a \in DOMAIN size : a \in Nat /\ size[a] \in Nat /\ size[a] >= 1
         /\ DOMAIN size = FreeBlocks \cup allocated
         /\ FreeBlocks \cap allocated = {}
         /\ currentNode < arg
         /\ MergesUp => ptr[currentNode] > arg
         /\ MergesUp => ptr[ptr[currentNode]] # ptr[currentNode]
<1>1. /\ currentNode \in FreeBlocks /\ arg \in allocated
      /\ ptr[currentNode] \in FreeBlocks
      /\ ptr[ptr[currentNode]] \in FreeBlocks
      /\ DOMAIN size = FreeBlocks \cup allocated
      /\ FreeBlocks \cap allocated = {}
  BY StopPlace DEF Inv, TypeOK, HeapPartition
<1>2. \A a \in DOMAIN size : a \in Nat /\ size[a] \in Nat /\ size[a] >= 1
  <2>1. \A a \in Addresses : a \in Nat
    BY TotalUnits DEF Addresses
  <2>2. \A n \in 1..totalUnits : n \in Nat /\ n >= 1
    BY TotalUnits
  <2> QED
    BY <2>1, <2>2 DEF Inv, TypeOK
<1>3. currentNode + size[currentNode] <= arg
  BY StopPlace
<1>4. currentNode < arg
  BY <1>1, <1>2, <1>3
<1>5. MergesUp => ptr[currentNode] > arg
  BY <1>1, <1>2 DEF MergesUp
<1>6. MergesUp => ptr[ptr[currentNode]] # ptr[currentNode]
  <2> SUFFICES ASSUME MergesUp, ptr[ptr[currentNode]] = ptr[currentNode] PROVE FALSE
    OBVIOUS
  <2>1. ptr[currentNode] <= currentNode
    BY <1>1, <1>2 DEF Inv, Ordered
  <2> QED
    BY <1>1, <1>2, <1>4, <1>5, <2>1
<1> QED
  BY <1>1, <1>2, <1>4, <1>5, <1>6

LEMMA LinkWrites ==
  ASSUME Inv, op = "free", Between \/ Listed \/ External, Link
  PROVE  LinkResult(MergesUp, MergesDown)
<1> DEFINE c == currentNode
           u == ptr[c]
<1>0. /\ c \in FreeBlocks /\ u \in FreeBlocks /\ ptr[u] \in FreeBlocks
      /\ arg \in allocated \ FreeBlocks /\ c # arg
      /\ DOMAIN size = FreeBlocks \cup allocated
      /\ FreeBlocks \cap allocated = {}
      /\ MergesUp => u # c
      /\ FreeBlocks = DOMAIN ptr
      /\ c \in Nat /\ u \in Nat /\ arg \in Nat
      /\ size[c] \in Nat /\ size[u] \in Nat /\ size[arg] \in Nat
      /\ ptr = [a \in FreeBlocks |-> ptr[a]]
  BY Neighbours DEF FreeBlocks, Inv, TypeOK
<1>1. CASE MergesUp /\ MergesDown
  <2>1. /\ ptr' = [a \in FreeBlocks \ {u} |-> IF a = c THEN ptr[u] ELSE ptr[a]]
        /\ size' = [a \in (FreeBlocks \ {u}) \cup (allocated \ {arg}) |->
                      CASE a = c -> size[a] + (size[arg] + size[u])
                        [] a = arg -> size[arg] + size[u]
                        [] OTHER -> size[a]]
    BY <1>0, <1>1 DEF Link, MergesUp, MergesDown
  <2> QED
    BY <1>0, <1>1, <2>1 DEF LinkResult, Unlinked
<1>2. CASE ~MergesUp /\ MergesDown
  <2>1. /\ ptr' = [a \in FreeBlocks |-> IF a = c THEN u ELSE ptr[a]]
        /\ size' = [a \in FreeBlocks \cup (allocated \ {arg}) |->
                      CASE a = c -> size[a] + size[arg]
                        [] a = arg -> size[arg]
                        [] OTHER -> size[a]]
    BY <1>0, <1>2 DEF Link, MergesUp, MergesDown
  <2> QED
    BY <1>0, <1>2, <2>1 DEF LinkResult
<1>3. CASE MergesUp /\ ~MergesDown
  <2>1. /\ ptr' = [a \in (FreeBlocks \ {u}) \cup {arg} |->
                     CASE a = c -> arg [] a = arg -> ptr[u] [] OTHER -> ptr[a]]
        /\ size' = [a \in (FreeBlocks \ {u}) \cup {arg} \cup (allocated \ {arg}) |->
                      CASE a = c -> size[a]
                        [] a = arg -> size[arg] + size[u]
                        [] OTHER -> size[a]]
    BY <1>0, <1>3 DEF Link, MergesUp, MergesDown
  <2>2. LET linked == Linked(FreeBlocks, ptr, c, arg)
        IN /\ linked[arg] = u
           /\ linked[u] = ptr[u]
           /\ \A a \in FreeBlocks \ {c} : linked[a] = ptr[a]
           /\ linked[c] = arg
    BY <1>0, <1>3 DEF Linked
  <2>3. ptr' = Unlinked(FreeBlocks \cup {arg}, Linked(FreeBlocks, ptr, c, arg), arg)
    BY <1>0, <1>3, <2>1, <2>2 DEF Unlinked
  <2>4. DOMAIN size' = DOMAIN size \ {u}
    BY <1>0, <2>1
  <2>5. \A a \in DOMAIN size' :
          size'[a] = IF a = arg THEN size[arg] + size[u] ELSE size[a]
    BY <1>0, <2>1, <2>4
  <2> QED
    BY <1>0, <1>3, <2>3, <2>4, <2>5 DEF LinkResult
<1>4. CASE ~MergesUp /\ ~MergesDown
  <2>1. /\ ptr' = [a \in FreeBlocks \cup {arg} |->
                     CASE a = c -> arg [] a = arg -> u [] OTHER -> ptr[a]]
        /\ size' = [a \in FreeBlocks \cup {arg} \cup (allocated \ {arg}) |->
                      CASE a = c -> size[a]
                        [] a = arg -> size[arg]
                        [] OTHER -> size[a]]
    BY <1>0, <1>4 DEF Link, MergesUp, MergesDown
  <2> QED
    BY <1>0, <1>4, <2>1 DEF LinkResult, Linked
<1> QED
  BY <1>1, <1>2, <1>3, <1>4

LEMMA FreeStopStep == Inv /\ FreeStop => Inv'
<1> SUFFICES ASSUME Inv, FreeStop PROVE Inv'
  OBVIOUS
<1> DEFINE c == currentNode
           u == ptr[c]
<1>0. op = "free" /\ (Between \/ Listed \/ External)
  BY DEF FreeStop
<1>1. Link /\ freeNode' = c /\ allocated' = allocated \ {arg} /\ op' = "idle"
  BY <1>0, NeverRefused DEF FreeStop, Return
<1>2. LinkResult(MergesUp, MergesDown)
  BY <1>0, <1>1, LinkWrites
<1>3. /\ c \in FreeBlocks /\ arg \in allocated \ FreeBlocks
      /\ u \in FreeBlocks /\ ptr[u] \in FreeBlocks
      /\ \A a \in DOMAIN size : a \in Nat /\ size[a] \in Nat /\ size[a] >= 1
      /\ DOMAIN size = FreeBlocks \cup allocated
      /\ FreeBlocks \cap allocated = {}
      /\ c < arg
      /\ MergesUp => u > arg /\ ptr[u] # u
      /\ c + size[c] <= arg
      /\ \/ arg + size[arg] <= u /\ \A b \in FreeBlocks : b <= c \/ u <= b
         \/ u = 0 /\ \A b \in FreeBlocks : b <= c
  BY <1>0, Neighbours, StopPlace
<1>4. FreeBlocks \subseteq Nat /\ Cyclic(FreeBlocks, ptr) /\ 0 \in FreeBlocks
  BY InvCyclic DEF Inv
<1>5. Cyclic(FreeBlocks \cup {arg}, Linked(FreeBlocks, ptr, c, arg))
  <2>1. arg < u \/ \A b \in FreeBlocks : u <= b /\ b <= c
    BY <1>3, <1>4
  <2> QED
    BY <1>3, <1>4, <2>1, LinkCyclic
<1>6. Cyclic(FreeBlocks', ptr')
  <2>1. CASE MergesDown /\ ~MergesUp
    BY <1>2, <1>4, <2>1 DEF LinkResult, FreeBlocks
  <2>2. CASE MergesDown /\ MergesUp
    <3>1. Cyclic(FreeBlocks \ {u}, Unlinked(FreeBlocks, ptr, c))
      BY <1>3, <1>4, <2>2, UnlinkCyclic
    <3>2. ptr' = Unlinked(FreeBlocks, ptr, c)
      BY <1>2, <2>2 DEF LinkResult
    <3> QED
      BY <3>1, <3>2 DEF FreeBlocks, Cyclic
  <2>3. CASE ~MergesDown /\ ~MergesUp
    BY <1>2, <1>5, <2>3 DEF LinkResult, FreeBlocks, Cyclic
  <2>4. CASE ~MergesDown /\ MergesUp
    <3> DEFINE F == FreeBlocks \cup {arg}
               q == Linked(FreeBlocks, ptr, c, arg)
    <3>1. F \subseteq Nat /\ arg \in F /\ q[arg] = u /\ u # arg
      BY <1>3, <1>4, <2>4 DEF Linked
    <3>2. Cyclic(F \ {u}, Unlinked(F, q, arg))
      BY <1>5, <3>1, UnlinkCyclic
    <3>3. ptr' = Unlinked(F, q, arg)
      BY <1>2, <2>4 DEF LinkResult
    <3> QED
      BY <3>2, <3>3 DEF FreeBlocks, Cyclic
  <2> QED
    BY <2>1, <2>2, <2>3, <2>4
<1>7. FreeBlocks' = (FreeBlocks \ (IF MergesUp THEN {u} ELSE {}))
                      \cup (IF MergesDown THEN {} ELSE {arg})
  BY <1>2, <1>3 DEF LinkResult, FreeBlocks, Linked, Unlinked
<1>8. /\ DOMAIN size' = FreeBlocks' \cup allocated'
      /\ DOMAIN size' \subseteq DOMAIN size
      /\ c \in DOMAIN size'
      /\ 0 \in FreeBlocks'
      /\ FreeBlocks' \cap allocated' = {}
      /\ MergesUp => u \notin DOMAIN size'
      /\ MergesDown => arg \notin DOMAIN size'
      /\ ~MergesDown => arg \in DOMAIN size'
  <2>1. MergesUp => u # 0 /\ u # c /\ u # arg
    BY <1>3
  <2>2. DOMAIN size' = DOMAIN size \ ((IF MergesUp THEN {u} ELSE {})
                                        \cup (IF MergesDown THEN {arg} ELSE {}))
    BY <1>2 DEF LinkResult
  <2> QED
    BY <1>1, <1>3, <1>4, <1>7, <2>1, <2>2
(* Where the blocks end now. *)
<1>9. \A a \in DOMAIN size' :
        size'[a] = CASE a = c /\ MergesDown /\ ~MergesUp -> size[c] + size[arg]
                     [] a = c /\ MergesDown /\ MergesUp -> size[c] + size[arg] + size[u]
                     [] a = arg /\ MergesUp -> size[arg] + size[u]
                     [] OTHER -> size[a]
  BY <1>2 DEF LinkResult
<1>10. \A a \in DOMAIN size' :
         /\ size'[a] \in Nat /\ size'[a] >= size[a]
         /\ a + size'[a] = CASE a = c /\ MergesDown /\ ~MergesUp -> arg + size[arg]
                             [] a = c /\ MergesDown /\ MergesUp -> u + size[u]
                             [] a = arg /\ MergesUp -> u + size[u]
                             [] OTHER -> a + size[a]
  <2> SUFFICES ASSUME NEW a \in DOMAIN size'
               PROVE  /\ size'[a] \in Nat /\ size'[a] >= size[a]
                      /\ a + size'[a] = CASE a = c /\ MergesDown /\ ~MergesUp -> arg + size[arg]
                             [] a = c /\ MergesDown /\ MergesUp -> u + size[u]
                             [] a = arg /\ MergesUp -> u + size[u]
                             [] OTHER -> a + size[a]
    OBVIOUS
  <2>1. /\ a \in Nat /\ size[a] \in Nat
        /\ c \in Nat /\ arg \in Nat /\ u \in Nat
        /\ size[c] \in Nat /\ size[arg] \in Nat /\ size[u] \in Nat
    BY <1>3, <1>8
  <2>2. MergesUp => arg + size[arg] = u
    BY DEF MergesUp
  <2>3. MergesDown => c + size[c] = arg
    BY DEF MergesDown
  <2>4. CASE MergesUp /\ MergesDown
    BY <1>3, <1>9, <2>1, <2>2, <2>3, <2>4
  <2>5. CASE MergesUp /\ ~MergesDown
    BY <1>3, <1>9, <2>1, <2>2, <2>5
  <2>6. CASE ~MergesUp /\ MergesDown
    BY <1>3, <1>9, <2>1, <2>3, <2>6
  <2>7. CASE ~MergesUp /\ ~MergesDown
    BY <1>3, <1>9, <2>1, <2>7
  <2> QED
    BY <2>4, <2>5, <2>6, <2>7
<1>11. \A a, b \in DOMAIN size : a < b => a + size[a] <= b
  BY DEF Inv, HeapPartition
<1>12. ASSUME NEW a \in DOMAIN size', NEW b \in DOMAIN size', a < b
       PROVE  a + size'[a] <= b
  <2>0. /\ a \in DOMAIN size /\ b \in DOMAIN size /\ a \in Nat /\ b \in Nat
        /\ c \in DOMAIN size /\ arg \in DOMAIN size /\ u \in DOMAIN size
        /\ c \in Nat /\ arg \in Nat /\ u \in Nat
        /\ size[c] \in Nat /\ size[arg] \in Nat /\ size[arg] >= 1 /\ size[u] \in Nat
    BY <1>3, <1>8
  <2>1. CASE ~(a = c /\ MergesDown) /\ ~(a = arg /\ MergesUp)
    BY <1>10, <1>11, <1>12, <2>0, <2>1
  <2>2. CASE a = c /\ MergesDown
    <3>1. b # arg /\ (MergesUp => b # u)
      BY <1>8, <2>2
    <3>2. c + size[c] = arg /\ c + size[c] <= b
      BY <1>11, <1>12, <2>0, <2>2 DEF MergesDown
    <3>3. arg < b /\ arg + size[arg] <= b
      BY <1>11, <2>0, <3>1, <3>2
    <3>4. MergesUp => u < b /\ u + size[u] <= b
      BY <1>11, <2>0, <3>1, <3>3 DEF MergesUp
    <3> QED
      BY <1>10, <2>2, <3>3, <3>4
  <2>3. CASE a = arg /\ MergesUp
    <3>1. b # u /\ arg + size[arg] = u /\ arg # c
      BY <1>3, <1>8, <2>0, <2>3 DEF MergesUp
    <3>2. u < b /\ u + size[u] <= b
      BY <1>11, <1>12, <2>0, <2>3, <3>1
    <3> QED
      BY <1>10, <2>3, <3>1, <3>2
  <2> QED
    BY <2>1, <2>2, <2>3
<1>13. ASSUME NEW v \in Addresses
       PROVE  \E a \in DOMAIN size' : a <= v /\ v < a + size'[a]
  <2>0. /\ c \in DOMAIN size /\ arg \in DOMAIN size /\ u \in DOMAIN size
        /\ c \in Nat /\ arg \in Nat /\ u \in Nat /\ v \in Nat /\ c # arg
        /\ size[c] \in Nat /\ size[arg] \in Nat /\ size[u] \in Nat
    BY <1>3, TotalUnits DEF Addresses
  <2>1. PICK a \in DOMAIN size : a <= v /\ v < a + size[a]
    BY DEF Inv, HeapPartition
  <2>2. a \in Nat /\ size[a] \in Nat
    BY <1>3
  <2>3. CASE a \in DOMAIN size'
    <3>1. size'[a] \in Nat /\ size'[a] >= size[a]
      BY <1>10, <2>3
    <3>2. v < a + size'[a]
      BY <2>0, <2>1, <2>2, <3>1
    <3> QED
      BY <2>1, <2>3, <3>2
  <2>4. a \notin DOMAIN size' => (a = u /\ MergesUp) \/ (a = arg /\ MergesDown)
    BY <1>2 DEF LinkResult
  <2>5. CASE a = arg /\ MergesDown
    <3>1. c \in DOMAIN size' /\ c <= v
      BY <1>3, <1>8, <2>0, <2>1, <2>5
    <3>2. CASE MergesUp
      <4>1. c + size'[c] = u + size[u] /\ arg + size[arg] = u
        BY <1>10, <2>5, <3>1, <3>2 DEF MergesUp
      <4>2. v < c + size'[c]
        BY <2>0, <2>1, <2>5, <4>1
      <4> QED
        BY <3>1, <4>2
    <3>3. CASE ~MergesUp
      <4>1. c + size'[c] = arg + size[arg]
        BY <1>10, <2>5, <3>1, <3>3
      <4>2. v < c + size'[c]
        BY <2>1, <2>5, <4>1
      <4> QED
        BY <3>1, <4>2
    <3> QED
      BY <3>2, <3>3
  <2>6. CASE a = u /\ MergesUp
    <3>1. CASE MergesDown
      <4>1. c \in DOMAIN size' /\ c <= v
        BY <1>3, <1>8, <2>0, <2>1, <2>6
      <4>2. c + size'[c] = u + size[u]
        BY <1>10, <2>6, <3>1, <4>1
      <4>3. v < c + size'[c]
        BY <2>1, <2>6, <4>2
      <4> QED
        BY <4>1, <4>3
    <3>2. CASE ~MergesDown
      <4>1. arg \in DOMAIN size' /\ arg <= v
        BY <1>3, <1>8, <2>0, <2>1, <2>6, <3>2
      <4>2. arg + size'[arg] = u + size[u]
        BY <1>10, <2>0, <2>6, <3>2, <4>1
      <4>3. v < arg + size'[arg]
        BY <2>1, <2>6, <4>2
      <4> QED
        BY <4>1, <4>3
    <3> QED
      BY <3>1, <3>2
  <2> QED
    BY <2>3, <2>4, <2>5, <2>6
<1>14. \A a \in DOMAIN size' : a + size'[a] <= totalUnits
  <2>1. \A a \in DOMAIN size : a + size[a] <= totalUnits
    BY DEF Inv, HeapPartition
  <2> QED
    BY <1>3, <1>8, <1>10, <2>1
<1>15. HeapPartition'
  BY <1>8, <1>12, <1>13, <1>14 DEF HeapPartition, Addresses
<1>16. Coalesced'
  <2> SUFFICES ASSUME NEW a \in FreeBlocks', NEW b \in FreeBlocks'
               PROVE  a + size'[a] # b
    BY DEF Coalesced
  <2>0. /\ a \in DOMAIN size /\ b \in DOMAIN size /\ a \in Nat /\ b \in Nat
        /\ a \in DOMAIN size' /\ b \in DOMAIN size'
        /\ a \in FreeBlocks \cup {arg} /\ b \in FreeBlocks \cup {arg}
        /\ c \in DOMAIN size /\ arg \in DOMAIN size /\ u \in DOMAIN size
        /\ c \in Nat /\ arg \in Nat /\ u \in Nat
        /\ size[c] \in Nat /\ size[arg] \in Nat /\ size[arg] >= 1
        /\ size[u] \in Nat /\ size[u] >= 1 /\ size[a] \in Nat /\ size[a] >= 1
    BY <1>3, <1>7, <1>8
  <2>1. \A x, y \in FreeBlocks : x + size[x] # y
    BY DEF Inv, Coalesced
  <2>2. MergesUp => u + size[u] # b
    <3>1. b = arg => (MergesUp => u + size[u] # b)
      BY <1>3, <2>0
    <3> QED
      BY <1>3, <2>0, <2>1, <3>1
  <2>3. ~MergesUp => arg + size[arg] # b
    <3> SUFFICES ASSUME ~MergesUp, arg + size[arg] = b PROVE FALSE
      OBVIOUS
    <3>1. b # arg /\ b \in FreeBlocks /\ b > arg
      BY <2>0
    <3> QED
      BY <1>3, <2>0, <3>1 DEF MergesUp
  <2>4. CASE a = arg
    <3>1. ~MergesDown
      BY <1>8, <2>0, <2>4
    <3>2. MergesUp => a + size'[a] = u + size[u]
      BY <1>10, <2>0, <2>4, <1>3
    <3>3. ~MergesUp => a + size'[a] = arg + size[arg]
      BY <1>10, <2>0, <2>4, <1>3
    <3> QED
      BY <2>2, <2>3, <3>2, <3>3
  <2>5. CASE a = c /\ MergesDown
    <3>1. MergesUp => a + size'[a] = u + size[u]
      BY <1>10, <2>0, <2>5
    <3>2. ~MergesUp => a + size'[a] = arg + size[arg]
      BY <1>10, <2>0, <2>5
    <3> QED
      BY <2>2, <2>3, <3>1, <3>2
  <2>6. CASE a # arg /\ ~(a = c /\ MergesDown)
    <3>1. a + size'[a] = a + size[a] /\ a \in FreeBlocks
      BY <1>10, <2>0, <2>6
    <3>2. a + size[a] # arg
      <4> SUFFICES ASSUME a + size[a] = arg PROVE FALSE
        OBVIOUS
      <4>1. a # c
        BY <2>6 DEF MergesDown
      <4>2. a < arg
        BY <2>0
      <4>3. a < c
        BY <1>3, <2>0, <3>1, <4>1, <4>2
      <4>4. a + size[a] <= c
        BY <1>11, <2>0, <4>3
      <4> QED
        BY <1>3, <2>0, <4>4
    <3> QED
      BY <2>0, <2>1, <3>1, <3>2
  <2> QED
    BY <2>4, <2>5, <2>6
<1>17. TypeOK'
  <2>1. DOMAIN size' \subseteq Addresses
    BY <1>3, <1>8 DEF Inv, TypeOK
  <2>2. \A a \in DOMAIN size' : size'[a] \in 1..totalUnits
    <3> SUFFICES ASSUME NEW a \in DOMAIN size' PROVE size'[a] \in 1..totalUnits
      OBVIOUS
    <3>1. a + size'[a] <= totalUnits /\ size'[a] \in Nat /\ size'[a] >= size[a]
          /\ a \in Nat /\ size[a] \in Nat /\ size[a] >= 1
      BY <1>3, <1>8, <1>10, <1>14
    <3> QED
      BY <3>1, TotalUnits
  <2>3. size' = [a \in DOMAIN size' |-> size'[a]]
    BY <1>1 DEF Link
  <2>4. size' \in [FreeBlocks' \cup allocated' -> 1..totalUnits]
    BY <1>8, <2>2, <2>3
  <2>5. freeNode' \in FreeBlocks'
    <3>1. c # arg /\ (MergesUp => c # u)
      BY <1>3
    <3> QED
      BY <1>1, <1>3, <1>7, <3>1
  <2> QED
    BY <1>1, <1>6, <1>8, <2>1, <2>4, <2>5 DEF TypeOK, Cyclic, Addresses
<1>18. Ordered'
  BY <1>6 DEF Cyclic, Ordered
<1> QED
  BY <1>1, <1>8, <1>15, <1>16, <1>17, <1>18 DEF Inv

LEMMA StutterStep == Inv /\ UNCHANGED vars => Inv'
  BY DEF Inv, vars, listVars, walkVars, TypeOK, HeapPartition, Ordered,
         Coalesced, FreeBlocks

LEMMA NextStep == Inv /\ [Next]_vars => Inv'
<1> SUFFICES ASSUME Inv, [Next]_vars PROVE Inv'
  OBVIOUS
<1>1. CASE \E nbytes \in RequestBytes : LeavesLowest(nbytes) /\ MallocCall(nbytes)
  BY <1>1, CallStep
<1>2. CASE \E block \in allocated : FreeCall(block)
  BY <1>2, CallStep
<1>3. CASE MallocSkip
  BY <1>3, WalkStep DEF MallocSkip
<1>4. CASE MallocFails
  BY <1>4, MallocFailsStep
<1>5. CASE MallocExact
  BY <1>5, MallocSoleStep, MallocExactStep
<1>6. CASE MallocSplit
  BY <1>6, MallocSplitStep
<1>7. CASE FreeSkip
  BY <1>7, WalkStep DEF FreeSkip
<1>8. CASE FreeStop
  BY <1>8, FreeStopStep
<1>9. CASE UNCHANGED vars
  BY <1>9, StutterStep
<1> QED
  BY <1>1, <1>2, <1>3, <1>4, <1>5, <1>6, <1>7, <1>8, <1>9 DEF Next, Steps

(* The invariant holds of every reachable state. *)
THEOREM Invariance == Spec => []Inv
<1> QED
  BY InitInv, NextStep, PTL DEF Spec

(* The list and the blocks keep their types; the node a walk stands at is  *)
(* always on the list.                                                     *)
THEOREM TypeCorrect == Spec => []TypeOK
<1>1. Inv => TypeOK
  BY DEF Inv
<1> QED
  BY <1>1, Invariance, PTL

(* Every unit of the heap belongs to exactly one block, free or in use.    *)
THEOREM HeapPartitionHolds == Spec => []HeapPartition
<1>1. Inv => HeapPartition
  BY DEF Inv
<1> QED
  BY <1>1, Invariance, PTL

(* The list of free blocks is in address order, once around. *)
THEOREM ListInOrder == Spec => []Ordered
<1>1. Inv => Ordered
  BY DEF Inv
<1> QED
  BY <1>1, Invariance, PTL

(* No two free blocks touch: free joins a block with the free block right  *)
(* before it and the one right after it, whatever the order of the frees.  *)
THEOREM FreeBlocksCoalesced == Spec => []Coalesced
<1>1. Inv => Coalesced
  BY DEF Inv
<1> QED
  BY <1>1, Invariance, PTL
-----------------------------------------------------------------------------
(* The step of the abstract allocator each step of malloc and free is. *)
Block(a) == [start |-> a, len |-> size[a]]
Blocks == {Block(a) : a \in allocated}

(* What the abstract allocator may do, said of the blocks in use. *)
LEMMA AbstractAlloc ==
  ASSUME NEW start \in 0..(totalUnits - 1), NEW n \in RequestBytes,
         start + Units(n) <= totalUnits, Units(n) \in Nat,
         \A a \in allocated : /\ a \in Nat /\ size[a] \in Nat
                              /\ a + size[a] <= start \/ start + Units(n) <= a,
         Blocks' = Blocks \cup {[start |-> start, len |-> Units(n)]}
  PROVE  Abstract!Next
<1> DEFINE b == [start |-> start, len |-> Units(n)]
<1>1. Abstract!Cells(b) \subseteq 0..(totalUnits - 1)
  BY TotalUnits DEF Abstract!Cells
<1>2. ASSUME NEW a \in allocated
      PROVE  Abstract!Cells(b) \cap Abstract!Cells(Block(a)) = {}
  BY <1>2 DEF Abstract!Cells, Block
<1>3. Abstract!Alloc(start, Units(n))
  BY <1>1, <1>2 DEF Abstract!Alloc, Blocks, Block
<1> QED
  BY <1>3 DEF Abstract!Next

LEMMA StepRefines ==
  ASSUME Inv, Inv', [Next]_vars
  PROVE  Abstract!Next \/ Blocks' = Blocks
<1>0. /\ \A a \in DOMAIN size : a \in Nat /\ size[a] \in Nat /\ size[a] >= 1
      /\ DOMAIN size = FreeBlocks \cup allocated
      /\ FreeBlocks \cap allocated = {}
      /\ \A a, b \in DOMAIN size : a < b => a + size[a] <= b
      /\ \A a \in DOMAIN size : a + size[a] <= totalUnits
  <2>1. \A a \in Addresses : a \in Nat
    BY TotalUnits DEF Addresses
  <2>2. \A n \in 1..totalUnits : n \in Nat /\ n >= 1
    BY TotalUnits
  <2> QED
    BY <2>1, <2>2 DEF Inv, TypeOK, HeapPartition
<1>1. CASE UNCHANGED <<size, allocated>>
  BY <1>1 DEF Blocks, Block
<1>2. CASE MallocExact /\ prevptr # currentNode
  <2>1. prevptr # currentNode
    BY <1>2
  <2>2. /\ allocated' = allocated \cup {currentNode} /\ size' = size
        /\ size[currentNode] = arg /\ currentNode \in FreeBlocks
    BY <1>2, <2>1 DEF MallocExact, Inv, TypeOK
  <2>3. PICK n \in RequestBytes : arg = Units(n)
    BY <1>2 DEF MallocExact, Inv, TypeOK
  <2>4. Blocks' = Blocks \cup {[start |-> currentNode, len |-> Units(n)]}
    BY <2>2, <2>3 DEF Blocks, Block
  <2>5. /\ currentNode \in 0..(totalUnits - 1)
        /\ currentNode + Units(n) <= totalUnits /\ Units(n) \in Nat
    BY <1>0, <2>2, <2>3, TotalUnits
  <2>6. \A a \in allocated : /\ a \in Nat /\ size[a] \in Nat
                             /\ a + size[a] <= currentNode \/ currentNode + Units(n) <= a
    <3> SUFFICES ASSUME NEW a \in allocated
                 PROVE  /\ a \in Nat /\ size[a] \in Nat
                        /\ a + size[a] <= currentNode \/ currentNode + Units(n) <= a
      OBVIOUS
    <3>1. a # currentNode /\ a \in DOMAIN size /\ currentNode \in DOMAIN size
      BY <1>0, <2>2
    <3>2. a < currentNode \/ currentNode < a
      BY <1>0, <3>1
    <3> QED
      BY <1>0, <2>2, <2>3, <3>1, <3>2
  <2> QED
    BY <2>4, <2>5, <2>6, AbstractAlloc
<1>3. CASE MallocSplit
  <2> DEFINE block == currentNode + (size[currentNode] - arg)
  <2>1. /\ allocated' = allocated \cup {block}
        /\ size' = [a \in DOMAIN size \cup {block} |->
                      CASE a = currentNode -> size[currentNode] - arg
                        [] a = block -> arg
                        [] OTHER -> size[a]]
        /\ size[currentNode] > arg /\ currentNode \in FreeBlocks
    BY <1>3 DEF MallocSplit, Inv, TypeOK
  <2>2. PICK n \in RequestBytes : arg = Units(n)
    BY <1>3 DEF MallocSplit, Inv, TypeOK
  <2>3. arg \in Nat /\ arg >= 2
    BY <2>2, UnitsAtLeastTwo, MMAssumption
  <2>4. /\ currentNode \in Nat /\ size[currentNode] \in Nat
        /\ currentNode + size[currentNode] <= totalUnits
        /\ currentNode \in DOMAIN size
    BY <1>0, <2>1
  <2>5. /\ block \in 0..(totalUnits - 1) /\ block # currentNode
        /\ block + arg = currentNode + size[currentNode] /\ currentNode < block
    BY <2>1, <2>3, <2>4, TotalUnits
  <2> HIDE DEF block
  <2>6. \A a \in allocated : /\ a \in Nat /\ size[a] \in Nat /\ a # currentNode
                             /\ a + size[a] <= block \/ block + arg <= a
    <3> SUFFICES ASSUME NEW a \in allocated
                 PROVE  /\ a \in Nat /\ size[a] \in Nat /\ a # currentNode
                        /\ a + size[a] <= block \/ block + arg <= a
      OBVIOUS
    <3>1. a # currentNode /\ a \in DOMAIN size
      BY <1>0, <2>1
    <3>2. a + size[a] <= currentNode \/ currentNode + size[currentNode] <= a
      BY <1>0, <2>4, <3>1
    <3> QED
      BY <1>0, <2>4, <2>5, <3>1, <3>2
  <2>7. \A a \in allocated : a # block
    BY <1>0, <2>3, <2>5, <2>6
  <2>8. Blocks' = Blocks \cup {[start |-> block, len |-> Units(n)]}
    <3>1. size'[block] = arg
      BY <2>1, <2>5
    <3>2. \A a \in allocated : size'[a] = size[a]
      BY <1>0, <2>1, <2>6, <2>7
    <3> QED
      BY <2>1, <2>2, <3>1, <3>2 DEF Blocks, Block
  <2> QED
    BY <2>2, <2>3, <2>4, <2>5, <2>6, <2>8, AbstractAlloc
<1>4. CASE FreeStop
  <2>1. op = "free" /\ (Between \/ Listed \/ External)
    BY <1>4 DEF FreeStop
  <2>2. Link /\ allocated' = allocated \ {arg}
    BY <1>4, <2>1, NeverRefused DEF FreeStop
  <2>3. LinkResult(MergesUp, MergesDown)
    BY <2>1, <2>2, LinkWrites
  <2>4. arg \in allocated /\ currentNode \in FreeBlocks
    BY <2>1 DEF Inv, TypeOK
  <2>5. \A a \in allocated \ {arg} : size'[a] = size[a]
    <3>1. \A a \in allocated' : a \in DOMAIN size'
      BY DEF Inv, TypeOK
    <3>2. \A a \in allocated \ {arg} : a \in DOMAIN size' /\ a # currentNode /\ a # arg
      BY <1>0, <2>2, <2>4, <3>1
    <3> QED
      BY <2>3, <3>2 DEF LinkResult
  <2>6. Blocks' = Blocks \ {Block(arg)}
    BY <2>2, <2>5 DEF Blocks, Block
  <2>7. Block(arg) \in Blocks
    BY <2>4 DEF Blocks
  <2> QED
    BY <2>6, <2>7 DEF Abstract!Next, Abstract!Free, Blocks, Block
<1>5. CASE MallocExact /\ prevptr = currentNode
  BY <1>1, <1>5 DEF MallocExact
<1> QED
  BY <1>1, <1>2, <1>3, <1>4, <1>5
  DEF Next, Steps, MallocCall, FreeCall, MallocSkip, MallocFails, FreeSkip,
      vars, listVars

(* malloc and free implement the abstract allocator, for every heap and    *)
(* every set of requests: blocks in use never overlap and stay in the      *)
(* arena, and only free takes one away.                                    *)
THEOREM Refinement == Spec => ImplementsAllocator
<1>1. Init => Abstract!Init
  BY DEF Init, Abstract!Init
<1>2. Inv /\ Inv' /\ [Next]_vars
        => [Abstract!Next]_({[start |-> a, len |-> size[a]] : a \in allocated})
  BY StepRefines DEF Blocks, Block
<1> QED
  BY <1>1, <1>2, Invariance, PTL DEF Spec, ImplementsAllocator, Abstract!Spec
-----------------------------------------------------------------------------
(* The nodes malloc has passed lie between free_node and prevptr in the    *)
(* order of the list, which is the order of the addresses, wrapped around; *)
(* all of them are too small.                                              *)
Passed(a) ==
  IF freeNode <= prevptr
  THEN freeNode < a /\ a <= prevptr
  ELSE freeNode < a \/ a <= prevptr

PassedTooSmall ==
  op = "malloc" => \A a \in FreeBlocks : Passed(a) => size[a] < arg

(* The types the arithmetic about a walk of malloc needs. *)
LEMMA MallocTypes ==
  ASSUME Inv, op = "malloc"
  PROVE  /\ prevptr \in FreeBlocks /\ currentNode \in FreeBlocks /\ freeNode \in FreeBlocks
         /\ currentNode = ptr[prevptr]
         /\ \A a \in FreeBlocks : a \in Nat
         /\ IF currentNode > prevptr
            THEN \A b \in FreeBlocks : ~(prevptr < b /\ b < currentNode)
            ELSE \A b \in FreeBlocks : currentNode <= b /\ b <= prevptr
<1>1. /\ prevptr \in FreeBlocks /\ currentNode \in FreeBlocks /\ freeNode \in FreeBlocks
      /\ currentNode = ptr[prevptr]
  BY DEF Inv, TypeOK
<1>2. \A a \in FreeBlocks : a \in Nat
  BY InvCyclic
<1> QED
  BY <1>1, <1>2 DEF Inv, Ordered

LEMMA PassedStep ==
  ASSUME Inv, PassedTooSmall, [Next]_vars
  PROVE  PassedTooSmall'
<1> USE DEF FreeBlocks
<1>1. CASE \E nbytes \in RequestBytes : LeavesLowest(nbytes) /\ MallocCall(nbytes)
  <2>1. /\ freeNode' = freeNode /\ prevptr' = freeNode /\ ptr' = ptr
        /\ freeNode \in FreeBlocks
    BY <1>1 DEF MallocCall, listVars, Inv, TypeOK
  <2>2. \A a \in FreeBlocks' : a \in Nat
    BY <2>1, InvCyclic
  <2>3. \A a \in FreeBlocks' : ~Passed(a)'
    BY <2>1, <2>2 DEF Passed
  <2> QED
    BY <2>3 DEF PassedTooSmall
<1>2. CASE MallocSkip
  <2>1. /\ op = "malloc" /\ size[currentNode] < arg /\ currentNode # freeNode
        /\ prevptr' = currentNode /\ freeNode' = freeNode /\ arg' = arg
        /\ size' = size /\ FreeBlocks' = FreeBlocks
    BY <1>2 DEF MallocSkip, listVars
  <2>2. ASSUME NEW a \in FreeBlocks, Passed(a)' PROVE a = currentNode \/ Passed(a)
    BY <2>1, <2>2, MallocTypes DEF Passed
  <2> QED
    BY <2>1, <2>2 DEF PassedTooSmall
<1>3. CASE op' # "malloc"
  BY <1>3 DEF PassedTooSmall
<1>4. CASE UNCHANGED vars
  BY <1>4 DEF vars, listVars, walkVars, PassedTooSmall, Passed
<1>5. \/ \E nbytes \in RequestBytes : LeavesLowest(nbytes) /\ MallocCall(nbytes)
      \/ MallocSkip \/ op' # "malloc" \/ UNCHANGED vars
  BY DEF Next, Steps, FreeCall, MallocFails, MallocExact, MallocSplit,
         FreeSkip, FreeStop, Return
<1> QED
  BY <1>1, <1>2, <1>3, <1>4, <1>5

(* malloc refuses a request only if no free block is large enough, or if   *)
(* the list has a single block, an exact fit, which the test behind the    *)
(* allocation takes for the end of the walk.                               *)
THEOREM RefusesFitOnlyIfSoleHolds == Spec => RefusesFitOnlyIfSole
<1>1. Init => PassedTooSmall
  BY DEF Init, PassedTooSmall
<1>2. ASSUME Inv, PassedTooSmall, [Next]_vars
      PROVE  [Refuses => \A a \in FreeBlocks : size[a] < arg \/ SoleExactFit(a)]_vars
  <2> SUFFICES ASSUME Next, Refuses, NEW a \in FreeBlocks, ~SoleExactFit(a)
               PROVE  size[a] < arg
    BY <1>2
  <2>1. op = "malloc" /\ op' = "idle" /\ allocated' = allocated
    BY DEF Refuses
  <2>2. ~MallocExact
    <3> SUFFICES ASSUME MallocExact PROVE FALSE
      OBVIOUS
    <3>2. prevptr # currentNode
      BY <1>2, ExactSoleOrHigh DEF MallocExact, SoleExactFit
    <3>1. currentNode \in allocated' /\ currentNode \in FreeBlocks
      BY <1>2, <2>1, <3>2, MallocTypes DEF MallocExact
    <3> QED
      BY <1>2, <2>1, <3>1 DEF Inv, HeapPartition
  <2>3. ~MallocSplit
    <3> SUFFICES ASSUME MallocSplit PROVE FALSE
      OBVIOUS
    <3> DEFINE block == currentNode + (size[currentNode] - arg)
    <3>1. block \in allocated /\ size[currentNode] > arg
      BY <2>1 DEF MallocSplit
    <3>2. /\ currentNode \in Nat /\ size[currentNode] \in Nat
          /\ currentNode \in DOMAIN size /\ block \in DOMAIN size
      BY <1>2, <2>1, <3>1, MallocTypes, TotalUnits DEF Inv, TypeOK
    <3>3. arg \in Nat /\ arg >= 2
      BY <1>2, <2>1, UnitsAtLeastTwo, MMAssumption DEF Inv, TypeOK
    <3>4. currentNode + size[currentNode] <= block
      BY <1>2, <3>1, <3>2, <3>3 DEF Inv, HeapPartition
    <3> QED
      BY <3>2, <3>3, <3>4
  <2>4. MallocFails
    BY <2>1, <2>2, <2>3
    DEF Next, Steps, MallocCall, FreeCall, MallocSkip, FreeSkip, FreeStop
  <2>5. size[currentNode] < arg /\ currentNode = freeNode
    BY <2>4 DEF MallocFails
  <2>6. a = freeNode \/ Passed(a)
    BY <1>2, <2>1, <2>5, MallocTypes DEF Passed
  <2> QED
    BY <1>2, <2>1, <2>5, <2>6 DEF PassedTooSmall
<1>3. ASSUME Inv, PassedTooSmall, [Next]_vars PROVE PassedTooSmall'
  BY <1>3, PassedStep
<1> QED
  BY <1>1, <1>2, <1>3, Invariance, PTL DEF Spec, RefusesFitOnlyIfSole
=============================================================================
