--------------------------- MODULE BuddyMMProofs ---------------------------
(***************************************************************************)
(* Proofs about BuddyMM, for every heap from 32 bytes to the largest that  *)
(* MAX_ALLOC_LOG2 allows and any set of requests.                          *)
(*                                                                         *)
(* BInv says that the blocks tile the heap, each at a multiple of its size *)
(* (so that the buddy of a block is a block, of no larger size), that each *)
(* list holds the free blocks of its bucket, that only the node of the     *)
(* call being executed may have a free buddy, and that what a caller holds *)
(* is as large as it asked for.  The lemmas before it are about multiples  *)
(* and powers of two, about the halves of a block and about the lists.     *)
(***************************************************************************)
EXTENDS BuddyMM, FiniteSetTheorems, SequenceTheorems, TLAPS

-----------------------------------------------------------------------------
(* Multiples.                                                              *)
LEMMA Quotient ==
  ASSUME NEW n \in Nat, NEW S \in Nat \ {0}
  PROVE  n = S * (n \div S) + (n % S) /\ n % S < S /\ n % S >= 0 /\ n \div S \in Nat
OBVIOUS

LEMMA Multiple ==
  ASSUME NEW q \in Nat, NEW S \in Nat \ {0}
  PROVE  (S * q) \div S = q /\ (S * q) % S = 0
OBVIOUS

LEMMA Gap ==
  ASSUME NEW q \in Nat, NEW p \in Nat, NEW S \in Nat \ {0}, S * q < S * p
  PROVE  S * q + S <= S * p
OBVIOUS

(* Two multiples of S are S apart. *)
LEMMA MultiplesApart ==
  ASSUME NEW x \in Nat, NEW y \in Nat, NEW S \in Nat \ {0}, x % S = 0, y % S = 0, x < y
  PROVE  x + S <= y
<1>1. PICK q \in Nat : q = x \div S /\ x = S * q
  BY Quotient
<1>2. PICK p \in Nat : p = y \div S /\ y = S * p
  BY Quotient
<1> QED BY <1>1, <1>2, Gap

LEMMA SumOfMultiples ==
  ASSUME NEW x \in Nat, NEW S \in Nat \ {0}, x % S = 0
  PROVE  (x + S) % S = 0
<1>1. PICK q \in Nat : q = x \div S /\ x = S * q
  BY Quotient
<1>2. PICK p \in Nat : p = q + 1
  OBVIOUS
<1>3. x + S = S * p
  BY <1>1, <1>2
<1> QED BY <1>3, Multiple

(* The two halves of a block. *)
LEMMA EvenHalf ==
  ASSUME NEW n \in Nat, NEW S \in Nat \ {0}, n % (2 * S) = 0
  PROVE  n % S = 0 /\ (n \div S) % 2 = 0 /\ (n + S) % S = 0 /\ ((n + S) \div S) % 2 = 1
<1>1. PICK h \in Nat : h = n \div (2 * S) /\ n = (2 * S) * h
  OBVIOUS
<1>2. PICK q \in Nat, p \in Nat : q = 2 * h /\ p = q + 1
  OBVIOUS
<1>3. n = S * q
  BY <1>1, <1>2
<1>5. n + S = S * p
  BY <1>2, <1>3
<1>4. n \div S = q /\ n % S = 0 /\ (n + S) \div S = p /\ (n + S) % S = 0
  BY <1>3, <1>5, Multiple
<1> QED BY <1>2, <1>4

LEMMA EvenMultiple ==
  ASSUME NEW n \in Nat, NEW S \in Nat \ {0}, n % S = 0, (n \div S) % 2 = 0
  PROVE  n % (2 * S) = 0
<1>1. PICK q \in Nat : q = n \div S /\ n = S * q
  BY Quotient
<1>2. PICK h \in Nat : q = 2 * h
  BY <1>1
<1>3. n = (2 * S) * h
  BY <1>1, <1>2
<1> QED BY <1>3, Multiple

LEMMA OddMultiple ==
  ASSUME NEW n \in Nat, NEW S \in Nat \ {0}, n % S = 0, (n \div S) % 2 # 0
  PROVE  n - S \in Nat /\ (n - S) % (2 * S) = 0
<1>1. PICK q \in Nat : q = n \div S /\ n = S * q
  BY Quotient
<1>2. PICK h \in Nat : q = 2 * h + 1
  BY <1>1
<1>3. n - S = (2 * S) * h
  BY <1>1, <1>2
<1>4. (2 * S) * h \in Nat
  OBVIOUS
<1> QED BY <1>3, <1>4, Multiple

(* A set of numbers that has a member has a least one.                     *)
LEMMA Least ==
  ASSUME NEW T, T \subseteq Nat, T # {}
  PROVE  \E x \in T : \A y \in T : x <= y
<1>1. PICK x \in T : \A y \in T : <<y, x>> \notin OpToRel(<, Nat)
  BY WFMin, NatLessThanWellFounded
<1>2. ASSUME NEW y \in T PROVE ~(y < x)
  <2>1. y \in Nat /\ x \in Nat
    OBVIOUS
  <2>2. y < x => <<y, x>> \in OpToRel(<, Nat)
    BY <2>1 DEF OpToRel
  <2> QED BY <1>1, <2>2
<1>3. \A y \in T : x <= y
  BY <1>2
<1> QED BY <1>3

-----------------------------------------------------------------------------
(* The sizes of the blocks.  BuddyAssumption bounds the exponents, as      *)
(* MAX_ALLOC_LOG2 does in the code, so the powers of two are looked at one *)
(* by one.                                                                 *)
Top == bucketsAmount - 1

Power(k) == 2^k

LEMMA Powers ==
  /\ \A k \in 0..31 : Power(k) \in Nat \ {0}
  /\ \A k \in 0..30 : Power(k + 1) = 2 * Power(k)
  /\ Power(0) = 1 /\ Power(4) = 16
<1> SUFFICES ASSUME NEW f, f = [i \in 0..31 |-> Power(i)]
             PROVE  /\ \A k \in 0..31 : f[k] \in Nat \ {0}
                    /\ \A k \in 0..30 : f[k + 1] = 2 * f[k]
                    /\ f[0] = 1 /\ f[4] = 16
  <2> DEFINE g == [i \in 0..31 |-> Power(i)]
  <2>1. /\ \A k \in 0..31 : g[k] \in Nat \ {0}
        /\ \A k \in 0..30 : g[k + 1] = 2 * g[k]
        /\ g[0] = 1 /\ g[4] = 16
    OBVIOUS
  <2>2. \A k \in 0..31 : g[k] = Power(k)
    OBVIOUS
  <2> HIDE DEF g
  <2> QED BY <2>1, <2>2
<1>1. \A i \in 0..31 : f[i] = 2^i
  BY DEF Power
<1>2. /\ f[1] = 2 * f[0] /\ f[2] = 2 * f[1] /\ f[3] = 2 * f[2] /\ f[4] = 2 * f[3]
      /\ f[5] = 2 * f[4] /\ f[6] = 2 * f[5] /\ f[7] = 2 * f[6] /\ f[8] = 2 * f[7]
      /\ f[9] = 2 * f[8] /\ f[10] = 2 * f[9] /\ f[11] = 2 * f[10] /\ f[12] = 2 * f[11]
      /\ f[13] = 2 * f[12] /\ f[14] = 2 * f[13] /\ f[15] = 2 * f[14] /\ f[16] = 2 * f[15]
      /\ f[17] = 2 * f[16] /\ f[18] = 2 * f[17] /\ f[19] = 2 * f[18] /\ f[20] = 2 * f[19]
      /\ f[21] = 2 * f[20] /\ f[22] = 2 * f[21] /\ f[23] = 2 * f[22] /\ f[24] = 2 * f[23]
      /\ f[25] = 2 * f[24] /\ f[26] = 2 * f[25] /\ f[27] = 2 * f[26] /\ f[28] = 2 * f[27]
      /\ f[29] = 2 * f[28] /\ f[30] = 2 * f[29] /\ f[31] = 2 * f[30]
      /\ f[0] = 1
  BY <1>1
<1> QED BY <1>2

(* They grow: the least counterexample would have a smaller one.           *)
LEMMA PowersGrow ==
  ASSUME NEW a \in 0..31, NEW b \in 0..31, a <= b
  PROVE  /\ Power(a) \in Nat \ {0} /\ Power(b) \in Nat \ {0} /\ Power(a) <= Power(b)
         /\ a < b => 2 * Power(a) <= Power(b)
<1>1. ASSUME NEW c \in 0..31, c <= b
      PROVE  Power(c) <= Power(b)
  <2> DEFINE T == {k \in c..b : Power(k) < Power(c)}
  <2>1. Power(c) \in Nat /\ Power(b) \in Nat
    BY Powers
  <2>2. CASE T = {}
    <3>1. b \in c..b /\ b \notin T
      BY <1>1, <2>2
    <3> QED BY <2>1, <3>1
  <2>3. CASE T # {}
    <3>0. T \subseteq Nat
      OBVIOUS
    <3>1. PICK k \in T : \A j \in T : k <= j
      BY <2>3, <3>0, Least
    <3>2. k \in c..b /\ Power(k) < Power(c) /\ k # c
      BY <2>1, <3>1
    <3>3. PICK j \in c..b : k = j + 1
      <4>1. k \in c..b /\ k # c /\ c \in Int /\ b \in Int
        BY <3>2
      <4>2. k - 1 \in c..b /\ k = (k - 1) + 1
        BY <4>1
      <4> QED BY <4>2
    <3>4. j \notin T /\ j \in 0..30
      BY <3>1, <3>2, <3>3
    <3>5. Power(j) >= Power(c) /\ Power(k) = 2 * Power(j) /\ Power(j) \in Nat
      BY <2>1, <3>3, <3>4, Powers
    <3> QED BY <2>1, <3>2, <3>5
  <2> QED BY <2>2, <2>3
<1>2. CASE a < b
  <2>1. Power(a + 1) = 2 * Power(a)
    BY <1>2, Powers
  <2>2. Power(a + 1) <= Power(b)
    BY <1>1, <1>2
  <2> QED BY <1>1, <1>2, <2>1, <2>2, Powers
<1> QED BY <1>1, <1>2, Powers

(* The sizes in use. *)
LEMMA Sizes ==
  /\ HeapLog2 \in 5..30 /\ bucketsAmount = HeapLog2 - 3 /\ Top = HeapLog2 - 4
  /\ Top \in Buckets /\ 0 \in Buckets /\ bucketsAmount \in Nat /\ Buckets = 0..Top
  /\ maximumBucketSize = Power(HeapLog2) /\ BlockSize(Top) = maximumBucketSize
  /\ BlockSize(0) = 16 /\ maximumBucketSize \in Nat \ {0}
  /\ \A k \in Buckets : BlockSize(k) = Power(4 + k) /\ BlockSize(k) \in Nat \ {0} /\ BlockSize(k) >= 16
  /\ \A k \in Buckets : k # Top => k + 1 \in Buckets /\ BlockSize(k + 1) = 2 * BlockSize(k)
<1>1. /\ HeapLog2 \in 5..30 /\ bucketsAmount = HeapLog2 - 3 /\ Top = HeapLog2 - 4
      /\ Buckets = 0..(HeapLog2 - 4)
  BY BuddyAssumption DEF MIN_ALLOC_LOG2, MAX_ALLOC_LOG2, bucketsAmount, Top, Buckets
<1>2. \A k \in Int : BlockSize(k) = Power(4 + k)
  BY Zenon DEF BlockSize, MIN_ALLOC_LOG2, Power
<1>3. maximumBucketSize = Power(HeapLog2)
  BY Zenon DEF maximumBucketSize, Power
<1>4. BlockSize(Top) = maximumBucketSize
  <2>1. 4 + Top = HeapLog2 /\ Top \in Int
    BY <1>1
  <2> QED BY <1>2, <1>3, <2>1, Zenon
<1>5. BlockSize(0) = 16
  BY <1>2, Powers
<1>6. \A k \in Buckets : BlockSize(k) \in Nat \ {0} /\ BlockSize(k) >= 16
  <2> SUFFICES ASSUME NEW k \in Buckets
               PROVE  BlockSize(k) \in Nat \ {0} /\ BlockSize(k) >= 16
    OBVIOUS
  <2>1. 4 \in 0..31 /\ 4 + k \in 0..31 /\ 4 <= 4 + k
    BY <1>1
  <2>2. Power(4) <= Power(4 + k) /\ Power(4 + k) \in Nat \ {0}
    BY <2>1, PowersGrow
  <2>3. BlockSize(k) = Power(4 + k) /\ Power(4) = 16
    BY <1>1, <1>2, Powers
  <2> QED BY <2>2, <2>3
<1>7. \A k \in Buckets : k # Top => k + 1 \in Buckets /\ BlockSize(k + 1) = 2 * BlockSize(k)
  <2> SUFFICES ASSUME NEW k \in Buckets, k # Top
               PROVE  k + 1 \in Buckets /\ BlockSize(k + 1) = 2 * BlockSize(k)
    OBVIOUS
  <2>1. PICK j \in 0..30 : j = 4 + k
    <3>1. 4 + k \in 0..30
      BY <1>1
    <3> QED BY <3>1
  <2>2. Power(j + 1) = 2 * Power(j)
    BY Powers
  <2>3. 4 + (k + 1) = j + 1 /\ k + 1 \in Buckets /\ k \in Int /\ k + 1 \in Int
    BY <1>1, <2>1
  <2> QED BY <1>2, <2>1, <2>2, <2>3
<1>8. Top \in Buckets /\ 0 \in Buckets /\ bucketsAmount \in Nat /\ Buckets = 0..Top
  BY <1>1
<1>9. \A k \in Buckets : BlockSize(k) = Power(4 + k)
  BY <1>1, <1>2
<1>10. maximumBucketSize \in Nat \ {0}
  BY <1>4, <1>6, <1>8
<1> QED BY <1>1, <1>3, <1>4, <1>5, <1>6, <1>7, <1>8, <1>9, <1>10

LEMMA BucketNumbers == \A k \in Buckets : k \in Nat /\ k <= Top /\ 4 + k \in 0..30
<1>1. Buckets = 0..Top /\ Top = HeapLog2 - 4 /\ HeapLog2 \in 5..30
  BY Sizes
<1> QED BY <1>1

LEMMA SizesGrow ==
  ASSUME NEW a \in Buckets, NEW b \in Buckets, a < b
  PROVE  BlockSize(a) < BlockSize(b) /\ 2 * BlockSize(a) <= BlockSize(b)
<1>1. 4 + a \in 0..31 /\ 4 + b \in 0..31 /\ 4 + a < 4 + b
  BY BucketNumbers
<1>2. 2 * Power(4 + a) <= Power(4 + b) /\ Power(4 + a) \in Nat \ {0} /\ Power(4 + b) \in Nat \ {0}
  BY <1>1, PowersGrow
<1>3. BlockSize(a) = Power(4 + a) /\ BlockSize(b) = Power(4 + b)
  BY Sizes, Zenon
<1> QED BY <1>2, <1>3

(* What is a multiple of the size of a large block is one of a small one's. *)
LEMMA SmallerMultiple ==
  ASSUME NEW x \in Nat, NEW a \in Buckets, NEW b \in Buckets, a <= b, x % BlockSize(b) = 0
  PROVE  x % BlockSize(a) = 0
<1> DEFINE T == {k \in a..b : x % BlockSize(k) = 0}
<1>1. b \in T /\ T \subseteq Nat
  BY Sizes
<1>2. PICK k \in T : \A j \in T : k <= j
  BY <1>1, Least
<1>3. SUFFICES k = a
  BY <1>2
<1>4. SUFFICES ASSUME k # a PROVE FALSE
  OBVIOUS
<1>5. PICK j \in a..b : k = j + 1
  <2>1. k - 1 \in a..b /\ k = (k - 1) + 1
    BY <1>2, <1>4, Sizes
  <2> QED BY <2>1
<1>6. j \in Buckets /\ j # Top
  <2>1. Buckets = 0..Top /\ Top \in Nat
    BY Sizes
  <2>2. k <= b /\ k \in Int
    BY <1>2, <2>1
  <2> QED BY <1>5, <2>1, <2>2
<1>7. x % (2 * BlockSize(j)) = 0
  BY <1>2, <1>5, <1>6, Sizes
<1>8. x % BlockSize(j) = 0
  BY <1>6, <1>7, EvenHalf, Sizes
<1> QED BY <1>2, <1>5, <1>8, Sizes

(* A block and its buddy are the halves of one block of the next size. *)
LEMMA Pair ==
  ASSUME NEW n \in Nat, NEW b \in Buckets, b # Top, n % BlockSize(b) = 0
  PROVE  \E p \in Nat :
           /\ p % BlockSize(b + 1) = 0 /\ p % BlockSize(b) = 0 /\ (p + BlockSize(b)) % BlockSize(b) = 0
           /\ GetNodeAddress(n, b) = p
           /\ GetNodeBuddy(p, b) = p + BlockSize(b) /\ GetNodeBuddy(p + BlockSize(b), b) = p
           /\ \/ n = p /\ GetNodeBuddy(n, b) = p + BlockSize(b)
              \/ n = p + BlockSize(b) /\ GetNodeBuddy(n, b) = p
<1>1. PICK S \in Nat \ {0} : S = BlockSize(b) /\ BlockSize(b + 1) = 2 * S
  BY Sizes
<1>2. PICK p \in Nat : p % (2 * S) = 0 /\ GetNodeAddress(n, b) = p /\ (n = p \/ n = p + S)
  <2>1. CASE (n \div S) % 2 = 0
    BY <1>1, <2>1, EvenMultiple DEF GetNodeAddress
  <2>2. CASE (n \div S) % 2 # 0
    <3>1. n - S \in Nat /\ (n - S) % (2 * S) = 0
      BY <1>1, <2>2, OddMultiple
    <3>2. GetNodeAddress(n, b) = n - S
      BY <1>1, <2>2 DEF GetNodeAddress
    <3>3. n = (n - S) + S
      BY <3>1
    <3> QED BY <3>1, <3>2, <3>3
  <2> QED BY <2>1, <2>2
<1>3. p % S = 0 /\ (p \div S) % 2 = 0 /\ (p + S) % S = 0 /\ ((p + S) \div S) % 2 = 1
  BY <1>2, EvenHalf
<1>4. GetNodeBuddy(p, b) = p + S
  BY <1>1, <1>3 DEF GetNodeBuddy
<1>5. GetNodeBuddy(p + S, b) = p
  <2>1. GetNodeBuddy(p + S, b) = (p + S) - S
    BY <1>1, <1>3 DEF GetNodeBuddy
  <2> QED BY <2>1
<1> QED BY <1>1, <1>2, <1>3, <1>4, <1>5

-----------------------------------------------------------------------------
(* The blocks tile the heap, each at a multiple of its size.               *)
Level(n) == header[n].bucket
Size(n) == BlockSize(Level(n))

Aligned == \A n \in Blocks :
  /\ n \in Nat /\ Level(n) \in Buckets
  /\ n % Size(n) = 0 /\ n + Size(n) <= maximumBucketSize
Apart == \A m, n \in Blocks : m < n => m + Size(m) <= n
Covered == \A x \in 0..(maximumBucketSize - 1) : \E n \in Blocks : n <= x /\ x < n + Size(n)
Tiled == Aligned /\ Apart /\ Covered

LEMMA SizeOfBlock ==
  ASSUME Aligned, NEW n \in Blocks
  PROVE  n \in Nat /\ Level(n) \in Buckets /\ Level(n) \in Nat /\ Size(n) \in Nat \ {0} /\ n % Size(n) = 0
BY Sizes, BucketNumbers DEF Aligned, Size

LEMMA OneOwner ==
  ASSUME Tiled, NEW m \in Blocks, NEW n \in Blocks, NEW x \in Nat,
         m <= x, x < m + Size(m), n <= x, x < n + Size(n)
  PROVE  m = n
<1>1. m \in Nat /\ n \in Nat /\ Size(m) \in Nat /\ Size(n) \in Nat
  BY SizeOfBlock DEF Tiled
<1>2. m < n => m + Size(m) <= n
  BY DEF Tiled, Apart
<1>3. n < m => n + Size(n) <= m
  BY DEF Tiled, Apart
<1> QED BY <1>1, <1>2, <1>3

(* free may look at the header of a block's buddy: there is one, of no     *)
(* larger block.                                                           *)
LEMMA BuddyIsBlock ==
  ASSUME Tiled, NEW n \in Blocks, Level(n) # Top
  PROVE  /\ GetNodeBuddy(n, Level(n)) \in Blocks /\ GetNodeBuddy(n, Level(n)) # n
         /\ Level(GetNodeBuddy(n, Level(n))) <= Level(n)
<1>1. PICK b \in Buckets : b = Level(n) /\ b # Top /\ b \in Nat
  BY SizeOfBlock DEF Tiled
<1>2. PICK S \in Nat \ {0} : S = BlockSize(b) /\ S = Size(n) /\ BlockSize(b + 1) = 2 * S /\ b + 1 \in Buckets
  BY <1>1, Sizes DEF Size
<1>3. PICK T \in Nat \ {0} : T = 2 * S /\ T = BlockSize(b + 1)
  BY <1>2
<1>4. n \in Nat /\ n % S = 0 /\ n + S <= maximumBucketSize /\ maximumBucketSize \in Nat
  BY <1>2, Sizes DEF Tiled, Aligned
<1>5. PICK p \in Nat : /\ p % T = 0 /\ p % S = 0 /\ (p + S) % S = 0
                       /\ \/ n = p /\ GetNodeBuddy(n, b) = p + S
                          \/ n = p + S /\ GetNodeBuddy(n, b) = p
  <2>1. n % BlockSize(b) = 0
    BY <1>2, <1>4
  <2>2. PICK p \in Nat :
           /\ p % BlockSize(b + 1) = 0 /\ p % BlockSize(b) = 0 /\ (p + BlockSize(b)) % BlockSize(b) = 0
           /\ \/ n = p /\ GetNodeBuddy(n, b) = p + BlockSize(b)
              \/ n = p + BlockSize(b) /\ GetNodeBuddy(n, b) = p
    BY <1>1, <1>4, <2>1, Pair
  <2> QED BY <1>2, <1>3, <2>2
<1>6. PICK d \in Nat : /\ d = GetNodeBuddy(n, b) /\ d # n /\ d % S = 0
                       /\ p <= d /\ d < p + T /\ p <= n /\ n < p + T
  <2>1. CASE n = p /\ GetNodeBuddy(n, b) = p + S
    BY <1>3, <1>5, <2>1
  <2>2. CASE n = p + S /\ GetNodeBuddy(n, b) = p
    BY <1>3, <1>5, <2>2
  <2> QED BY <1>5, <2>1, <2>2
<1>7. p + T <= maximumBucketSize
  <2>1. maximumBucketSize % BlockSize(Top) = 0
    BY Sizes
  <2>2. b + 1 <= Top /\ Top \in Buckets
    BY <1>2, BucketNumbers, Sizes
  <2>3. maximumBucketSize % T = 0
    BY <1>2, <1>3, <1>4, <2>1, <2>2, SmallerMultiple
  <2>4. p < maximumBucketSize
    BY <1>4, <1>6
  <2> QED BY <1>4, <1>5, <2>3, <2>4, MultiplesApart
<1>8. PICK m \in Blocks : m <= d /\ d < m + Size(m)
  <2>1. d \in 0..(maximumBucketSize - 1)
    BY <1>4, <1>6, <1>7
  <2> QED BY <2>1 DEF Tiled, Covered
<1>9. m \in Nat /\ Level(m) \in Buckets /\ Level(m) \in Nat /\ Size(m) \in Nat \ {0} /\ m % Size(m) = 0
      /\ Size(m) = BlockSize(Level(m))
  BY SizeOfBlock DEF Tiled, Size
<1>10. CASE Level(m) <= b
  <2>1. d % Size(m) = 0
    BY <1>2, <1>6, <1>9, <1>10, SmallerMultiple
  <2>2. m = d
    <3>1. m < d => m + Size(m) <= d
      BY <1>6, <1>9, <2>1, MultiplesApart
    <3> QED BY <1>6, <1>8, <1>9, <3>1
  <2> QED BY <1>1, <1>6, <1>10, <2>2
<1>11. CASE b < Level(m)
  <2>1. PICK e \in Nat : e = m + Size(m)
    BY <1>9
  <2>2. e % Size(m) = 0
    BY <1>9, <2>1, SumOfMultiples
  <2>3. b + 1 <= Level(m)
    BY <1>1, <1>9, <1>11
  <2>4. m % T = 0 /\ e % T = 0
    BY <1>2, <1>3, <1>9, <2>2, <2>3, SmallerMultiple
  <2>5. m <= p
    <3>1. p < m => p + T <= m
      BY <1>5, <1>9, <2>4, MultiplesApart
    <3> QED BY <1>6, <1>8, <1>9, <3>1
  <2>6. p + T <= e
    <3>1. p < e
      BY <1>6, <1>8, <1>9, <2>1
    <3> QED BY <1>5, <2>4, <3>1, MultiplesApart
  <2>7. m <= n /\ n < m + Size(m) /\ n < n + Size(n)
    BY <1>2, <1>4, <1>6, <1>9, <2>1, <2>5, <2>6
  <2>8. m = n
    BY <1>4, <2>7, OneOwner
  <2> QED BY <1>1, <1>9, <1>11, <2>8
<1> QED BY <1>1, <1>9, <1>10, <1>11

(* A block gives way to its two halves, ... *)
LEMMA HalvesTile ==
  ASSUME Tiled, NEW n \in Blocks, NEW b \in Buckets, b # Top, Level(n) = b + 1,
         NEW d, d = n + BlockSize(b), Blocks' = Blocks \cup {d},
         Level(n)' = b, Level(d)' = b, \A m \in Blocks : m # n => Level(m)' = Level(m)
  PROVE  Tiled' /\ d \notin Blocks
<1>1. PICK S \in Nat \ {0} : S = BlockSize(b) /\ Size(n) = 2 * S
  BY Sizes DEF Size
<1>2. /\ n \in Nat /\ d \in Nat /\ d = n + S /\ n % (2 * S) = 0
      /\ n + 2 * S <= maximumBucketSize /\ maximumBucketSize \in Nat
  <2>1. maximumBucketSize \in Nat
    BY Sizes
  <2>2. n \in Nat /\ n % Size(n) = 0 /\ n + Size(n) <= maximumBucketSize
    BY DEF Tiled, Aligned
  <2>3. d = n + S /\ d \in Nat
    BY <1>1, <2>2
  <2> QED BY <1>1, <2>1, <2>2, <2>3
<1>3. n % S = 0 /\ d % S = 0
  <2>1. n % S = 0 /\ (n + S) % S = 0
    BY <1>2, EvenHalf, Zenon
  <2> QED BY <1>2, <2>1, Zenon
<1>4. \A m \in Blocks : m \in Nat /\ Level(m) \in Buckets /\ Size(m) \in Nat \ {0}
  BY SizeOfBlock DEF Tiled
<1>5. d \notin Blocks
  <2> SUFFICES ASSUME d \in Blocks PROVE FALSE
    OBVIOUS
  <2>1. n <= d /\ d < n + Size(n) /\ d <= d /\ d < d + Size(d)
    BY <1>1, <1>2, <1>4
  <2>2. n = d
    BY <1>2, <2>1, OneOwner
  <2> QED BY <1>1, <1>2, <2>2
<1>6. Size(n)' = S /\ Size(d)' = S
  BY <1>1 DEF Size
<1>7. \A m \in Blocks : m # n => Size(m)' = Size(m)
  BY DEF Size
<1>8. Aligned'
  <2>1. SUFFICES ASSUME NEW m \in Blocks'
                 PROVE  /\ m \in Nat /\ Level(m)' \in Buckets
                        /\ m % Size(m)' = 0 /\ m + Size(m)' <= maximumBucketSize
    BY DEF Aligned, Buckets, bucketsAmount, maximumBucketSize
  <2>2. CASE m \in Blocks /\ m # n
    BY <1>7, <2>2 DEF Tiled, Aligned
  <2>3. CASE m = n
    BY <1>1, <1>2, <1>3, <1>6, <2>3
  <2>4. CASE m = d
    BY <1>1, <1>2, <1>3, <1>6, <2>4
  <2> QED BY <2>1, <2>2, <2>3, <2>4
<1>9. Apart'
  <2>1. SUFFICES ASSUME NEW j \in Blocks', NEW k \in Blocks', j < k
                 PROVE  j + Size(j)' <= k
    BY DEF Apart
  <2>2. \A m \in Blocks : m # n /\ n < m => d + S <= m
    <3> SUFFICES ASSUME NEW m \in Blocks, m # n, n < m PROVE d + S <= m
      OBVIOUS
    <3>1. n + Size(n) <= m
      BY DEF Tiled, Apart
    <3> QED BY <1>1, <1>2, <1>4, <3>1
  <2>3. CASE j \in Blocks /\ j # n /\ k \in Blocks
    BY <1>7, <2>1, <2>3 DEF Tiled, Apart
  <2>4. CASE j \in Blocks /\ j # n /\ k = d
    <3>1. j < n
      BY <1>2, <1>4, <2>1, <2>2, <2>4
    <3>2. j + Size(j) <= n
      BY <2>4, <3>1 DEF Tiled, Apart
    <3> QED BY <1>2, <1>4, <1>7, <2>4, <3>2
  <2>5. CASE j = n /\ k = d
    BY <1>2, <1>6, <2>5
  <2>6. CASE j = n /\ k \in Blocks
    BY <1>1, <1>2, <1>4, <1>6, <2>1, <2>2, <2>6
  <2>7. CASE j = d /\ k \in Blocks
    BY <1>1, <1>2, <1>4, <1>6, <2>1, <2>2, <2>7
  <2> QED BY <1>2, <2>1, <2>3, <2>4, <2>5, <2>6, <2>7
<1>10. Covered'
  <2>1. SUFFICES ASSUME NEW x \in 0..(maximumBucketSize - 1)
                 PROVE  \E m \in Blocks' : m <= x /\ x < m + Size(m)'
    BY DEF Covered, maximumBucketSize
  <2>2. PICK m \in Blocks : m <= x /\ x < m + Size(m)
    BY DEF Tiled, Covered
  <2>3. CASE m # n
    BY <1>7, <2>2, <2>3
  <2>4. CASE m = n /\ x < d
    BY <1>2, <1>6, <2>2, <2>4
  <2>5. CASE m = n /\ ~(x < d)
    <3>1. d <= x /\ x < d + S
      BY <1>1, <1>2, <2>2, <2>5
    <3> QED BY <1>6, <3>1
  <2> QED BY <2>3, <2>4, <2>5
<1> QED BY <1>5, <1>8, <1>9, <1>10 DEF Tiled

(* ... and two buddies to the block they are halves of. *)
LEMMA PairTiles ==
  ASSUME Tiled, NEW p \in Blocks, NEW u \in Blocks, NEW b \in Buckets, b # Top,
         u = p + BlockSize(b), Level(p) = b, Level(u) = b, p % BlockSize(b + 1) = 0,
         Blocks' = Blocks \ {u}, Level(p)' = b + 1,
         \A m \in Blocks : m \notin {p, u} => Level(m)' = Level(m)
  PROVE  Tiled'
<1>1. PICK S \in Nat \ {0} : /\ S = BlockSize(b) /\ Size(p) = S /\ Size(u) = S
                             /\ Size(p)' = 2 * S /\ b + 1 \in Buckets /\ BlockSize(b + 1) = 2 * S
  BY Sizes DEF Size
<1>2. /\ p \in Nat /\ u = p + S /\ u \in Nat /\ u + S <= maximumBucketSize
      /\ maximumBucketSize \in Nat
  BY <1>1, Sizes DEF Tiled, Aligned
<1>3. \A m \in Blocks : m \in Nat /\ Level(m) \in Buckets /\ Size(m) \in Nat \ {0}
  BY SizeOfBlock DEF Tiled
<1>4. \A m \in Blocks : m \notin {p, u} => Size(m)' = Size(m)
  BY DEF Size
<1>5. Aligned'
  <2>1. SUFFICES ASSUME NEW m \in Blocks'
                 PROVE  /\ m \in Nat /\ Level(m)' \in Buckets
                        /\ m % Size(m)' = 0 /\ m + Size(m)' <= maximumBucketSize
    BY DEF Aligned, Buckets, bucketsAmount, maximumBucketSize
  <2>2. CASE m # p
    BY <1>4, <2>1, <2>2 DEF Tiled, Aligned
  <2>3. CASE m = p
    BY <1>1, <1>2, <2>3
  <2> QED BY <2>2, <2>3
<1>6. Apart'
  <2>1. SUFFICES ASSUME NEW j \in Blocks', NEW k \in Blocks', j < k
                 PROVE  j + Size(j)' <= k
    BY DEF Apart
  <2>2. CASE j # p
    BY <1>4, <2>1, <2>2 DEF Tiled, Apart
  <2>3. CASE j = p
    <3>1. p + S <= k
      BY <1>1, <2>1, <2>3 DEF Tiled, Apart
    <3>2. u < k
      BY <1>2, <1>3, <2>1, <3>1
    <3>3. u + S <= k
      BY <1>1, <2>1, <3>2 DEF Tiled, Apart
    <3> QED BY <1>1, <1>2, <1>3, <2>1, <2>3, <3>3
  <2> QED BY <2>2, <2>3
<1>7. Covered'
  <2>1. SUFFICES ASSUME NEW x \in 0..(maximumBucketSize - 1)
                 PROVE  \E m \in Blocks' : m <= x /\ x < m + Size(m)'
    BY DEF Covered, maximumBucketSize
  <2>2. PICK m \in Blocks : m <= x /\ x < m + Size(m)
    BY DEF Tiled, Covered
  <2>3. CASE m \notin {p, u}
    BY <1>4, <2>2, <2>3
  <2>4. CASE m \in {p, u}
    <3>1. p <= x /\ x < p + 2 * S
      BY <1>1, <1>2, <2>2, <2>4
    <3>2. p \in Blocks'
      BY <1>1, <1>2
    <3> QED BY <1>1, <3>1, <3>2
  <2> QED BY <2>3, <2>4
<1> QED BY <1>5, <1>6, <1>7 DEF Tiled

-----------------------------------------------------------------------------
(* The lists: s holds the blocks of F, each once.                          *)
OnList(s, F) ==
  /\ s \in Seq(Nat)
  /\ \A i \in 1..Len(s) : s[i] \in F
  /\ \A n \in F : \E i \in 1..Len(s) : s[i] = n
  /\ \A i, j \in 1..Len(s) : s[i] = s[j] => i = j

(* listPush adds one node, at the end.                                     *)
LEMMA PushOnList ==
  ASSUME NEW s, NEW F, OnList(s, F), NEW n \in Nat, n \notin F
  PROVE  OnList(ListPush(s, n), F \cup {n})
<1>1. s \in Seq(Nat) /\ Len(s) \in Nat
  BY LenProperties DEF OnList
<1>2. PICK t \in Seq(Nat) : /\ t = ListPush(s, n) /\ Len(t) = Len(s) + 1
                            /\ \A i \in 1..Len(s) : t[i] = s[i]
                            /\ t[Len(s) + 1] = n
  BY <1>1, AppendProperties DEF ListPush
<1>3. Len(t) = Len(s) + 1 /\ t[Len(s) + 1] = n /\ \A i \in 1..Len(s) : t[i] = s[i]
  BY <1>2
<1>4. \A i \in 1..Len(t) : t[i] \in F \cup {n}
  BY <1>1, <1>3 DEF OnList
<1>5. \A m \in F \cup {n} : \E i \in 1..Len(t) : t[i] = m
  <2>1. Len(s) + 1 \in 1..Len(t) /\ \A i \in 1..Len(s) : i \in 1..Len(t)
    BY <1>1, <1>3
  <2> QED BY <1>3, <2>1 DEF OnList
<1>6. ASSUME NEW i \in 1..Len(t), NEW j \in 1..Len(t), t[i] = t[j]
      PROVE  i = j
  <2>1. CASE i \in 1..Len(s) /\ j \in 1..Len(s)
    BY <1>3, <1>6, <2>1 DEF OnList
  <2>2. CASE i = Len(s) + 1 /\ j \in 1..Len(s)
    BY <1>3, <1>6, <2>2 DEF OnList
  <2>3. CASE j = Len(s) + 1 /\ i \in 1..Len(s)
    BY <1>3, <1>6, <2>3 DEF OnList
  <2> QED BY <1>1, <1>3, <2>1, <2>2, <2>3
<1> QED BY <1>2, <1>4, <1>5, <1>6 DEF OnList

LEMMA SubSeqFacts ==
  ASSUME NEW s \in Seq(Nat), NEW L \in Nat, L = Len(s), NEW k \in 1..L
  PROVE  /\ SubSeq(s, 1, k - 1) \in Seq(Nat) /\ Len(SubSeq(s, 1, k - 1)) = k - 1
         /\ \A i \in 1..(k - 1) : SubSeq(s, 1, k - 1)[i] = s[i]
         /\ SubSeq(s, k + 1, L) \in Seq(Nat) /\ Len(SubSeq(s, k + 1, L)) = L - k
         /\ \A i \in 1..(L - k) : SubSeq(s, k + 1, L)[i] = s[i + k]
<1>1. \A i \in 1..L : s[i] \in Nat
  BY ElementOfSeq
<1>3. /\ SubSeq(s, 1, k - 1) \in Seq(Nat)
      /\ Len(SubSeq(s, 1, k - 1)) = (IF 1 <= k - 1 THEN (k - 1) - 1 + 1 ELSE 0)
      /\ \A i \in 1..((k - 1) - 1 + 1) : SubSeq(s, 1, k - 1)[i] = s[1 + i - 1]
  <2>1. 1 \in Int /\ k - 1 \in Int /\ \A i \in 1..(k - 1) : s[i] \in Nat
    BY <1>1
  <2> QED BY <2>1, SubSeqProperties
<1>4. /\ SubSeq(s, k + 1, L) \in Seq(Nat)
      /\ Len(SubSeq(s, k + 1, L)) = (IF k + 1 <= L THEN L - (k + 1) + 1 ELSE 0)
      /\ \A i \in 1..(L - (k + 1) + 1) : SubSeq(s, k + 1, L)[i] = s[(k + 1) + i - 1]
  <2>1. L \in Int /\ k + 1 \in Int /\ \A i \in (k + 1)..L : s[i] \in Nat
    BY <1>1
  <2> QED BY <2>1, SubSeqProperties
<1>5. \A i \in 1..(k - 1) : SubSeq(s, 1, k - 1)[i] = s[i]
  <2> SUFFICES ASSUME NEW i \in 1..(k - 1) PROVE SubSeq(s, 1, k - 1)[i] = s[i]
    OBVIOUS
  <2>1. i \in 1..((k - 1) - 1 + 1) /\ 1 + i - 1 = i
    OBVIOUS
  <2> QED BY <1>3, <2>1
<1>6. \A i \in 1..(L - k) : SubSeq(s, k + 1, L)[i] = s[i + k]
  <2> SUFFICES ASSUME NEW i \in 1..(L - k) PROVE SubSeq(s, k + 1, L)[i] = s[i + k]
    OBVIOUS
  <2>1. i \in 1..(L - (k + 1) + 1) /\ (k + 1) + i - 1 = i + k
    OBVIOUS
  <2>2. SubSeq(s, k + 1, L)[i] = s[(k + 1) + i - 1]
    BY <1>4, <2>1, Zenon
  <2>3. s[(k + 1) + i - 1] = s[i + k]
    <3>1. PICK j : j = i + k /\ j = (k + 1) + i - 1
      BY <2>1
    <3> QED BY ONLY <3>1
  <2> QED BY ONLY <2>2, <2>3, Zenon
<1>7. Len(SubSeq(s, 1, k - 1)) = k - 1
  BY <1>3
<1>8. Len(SubSeq(s, k + 1, L)) = L - k
  BY <1>4
<1> QED BY <1>3, <1>4, <1>5, <1>6, <1>7, <1>8, Zenon

LEMMA OnListFacts ==
  ASSUME NEW s, NEW F, OnList(s, F)
  PROVE  \E L \in Nat :
           /\ L = Len(s) /\ s \in Seq(Nat) /\ DOMAIN s = 1..L
           /\ \A i \in 1..L : s[i] \in F
           /\ \A n \in F : \E i \in 1..L : s[i] = n
           /\ \A i, j \in 1..L : s[i] = s[j] => i = j
BY LenProperties DEF OnList

(* listPop takes off a node of the list.                                   *)
LEMMA PopOffList ==
  ASSUME NEW s, NEW F, OnList(s, F), ~ListIsEmpty(s)
  PROVE  ListPop(s).back \in F /\ OnList(ListPop(s).list, F \ {ListPop(s).back})
<1>1. PICK L \in Nat : /\ L = Len(s) /\ s \in Seq(Nat)
                       /\ \A i \in 1..L : s[i] \in F
                       /\ \A n \in F : \E i \in 1..L : s[i] = n
                       /\ \A i, j \in 1..L : s[i] = s[j] => i = j
  BY OnListFacts
<1>2. L # 0 /\ L \in 1..L
  <2>1. L # 0
    BY <1>1, EmptySeq DEF ListIsEmpty
  <2> QED BY <2>1
<1>3. ListPop(s).back = s[L] /\ ListPop(s).list = SubSeq(s, 1, L - 1)
  BY <1>1 DEF ListPop, Last, Front
<1>4. PICK n \in F : n = ListPop(s).back /\ n = s[L]
  BY <1>1, <1>2, <1>3
<1>5. PICK t \in Seq(Nat) : /\ t = ListPop(s).list /\ Len(t) = L - 1
                            /\ \A i \in 1..(L - 1) : t[i] = s[i]
  <2>1. /\ SubSeq(s, 1, L - 1) \in Seq(Nat) /\ Len(SubSeq(s, 1, L - 1)) = L - 1
        /\ \A i \in 1..(L - 1) : SubSeq(s, 1, L - 1)[i] = s[i]
    BY <1>1, <1>2, SubSeqFacts
  <2> QED BY <1>3, <2>1
<1>6. \A i \in 1..(L - 1) : i \in 1..L /\ i # L /\ t[i] = s[i]
  BY <1>1, <1>5
<1>7. \A i \in 1..(L - 1) : t[i] \in F \ {n}
  BY <1>1, <1>2, <1>4, <1>6
<1>8. \A m \in F \ {n} : \E i \in 1..(L - 1) : t[i] = m
  <2> SUFFICES ASSUME NEW m \in F, m # n PROVE \E i \in 1..(L - 1) : t[i] = m
    OBVIOUS
  <2>1. PICK i \in 1..L : s[i] = m
    BY <1>1
  <2>2. i \in 1..(L - 1)
    BY <1>2, <1>4, <2>1
  <2> QED BY <1>6, <2>1, <2>2
<1>9. \A i, j \in 1..(L - 1) : t[i] = t[j] => i = j
  BY <1>1, <1>6
<1> QED BY <1>4, <1>5, <1>7, <1>8, <1>9 DEF OnList

LEMMA RemoveAtFacts ==
  ASSUME NEW s \in Seq(Nat), NEW L \in Nat, L = Len(s), NEW k \in 1..L
  PROVE  \E t \in Seq(Nat) : /\ t = RemoveAt(s, k) /\ Len(t) = L - 1
                             /\ \A i \in 1..(L - 1) : i < k => t[i] = s[i]
                             /\ \A i \in 1..(L - 1) : ~(i < k) => t[i] = s[i + 1]
<1>1. PICK b \in Seq(Nat), e \in Seq(Nat) :
        /\ b = SubSeq(s, 1, k - 1) /\ Len(b) = k - 1 /\ \A i \in 1..(k - 1) : b[i] = s[i]
        /\ e = SubSeq(s, k + 1, L) /\ Len(e) = L - k
        /\ \A i \in 1..(L - k) : e[i] = s[i + k]
  BY SubSeqFacts
<1>2. /\ b \o e \in Seq(Nat) /\ Len(b \o e) = Len(b) + Len(e)
      /\ \A i \in 1..(Len(b) + Len(e)) : (b \o e)[i] = IF i <= Len(b) THEN b[i] ELSE e[i - Len(b)]
  BY ConcatProperties
<1>3. PICK t \in Seq(Nat) : /\ t = RemoveAt(s, k) /\ Len(t) = (k - 1) + (L - k)
        /\ \A i \in 1..((k - 1) + (L - k)) : t[i] = IF i <= k - 1 THEN b[i] ELSE e[i - (k - 1)]
  <2>1. RemoveAt(s, k) = b \o e
    BY <1>1 DEF RemoveAt
  <2>2. /\ b \o e \in Seq(Nat) /\ Len(b \o e) = (k - 1) + (L - k)
        /\ \A i \in 1..((k - 1) + (L - k)) :
             (b \o e)[i] = IF i <= k - 1 THEN b[i] ELSE e[i - (k - 1)]
    BY <1>1, <1>2
  <2> QED BY <2>1, <2>2
<1>4. (k - 1) + (L - k) = L - 1
  OBVIOUS
<1>5. ASSUME NEW i \in 1..(L - 1), i < k
      PROVE  t[i] = s[i]
  <2>1. i \in 1..((k - 1) + (L - k)) /\ i <= k - 1 /\ i \in 1..(k - 1)
    BY <1>5
  <2> QED BY <1>1, <1>3, <2>1
<1>6. ASSUME NEW i \in 1..(L - 1), ~(i < k)
      PROVE  t[i] = s[i + 1]
  <2>1. i \in 1..((k - 1) + (L - k)) /\ ~(i <= k - 1)
    BY <1>6
  <2>2. PICK j \in 1..(L - k) : j = i - (k - 1) /\ j + k = i + 1
    <3>1. i - (k - 1) \in 1..(L - k) /\ (i - (k - 1)) + k = i + 1
      BY <1>6
    <3> QED BY <3>1
  <2> QED BY <1>1, <1>3, <2>1, <2>2
<1> QED BY <1>3, <1>4, <1>5, <1>6

(* listRemove takes off the node it is given and keeps the others.         *)
LEMMA RemoveOffList ==
  ASSUME NEW s, NEW F, OnList(s, F), NEW n \in F
  PROVE  OnList(ListRemove(s, n), F \ {n})
<1>1. PICK L \in Nat : /\ L = Len(s) /\ s \in Seq(Nat) /\ DOMAIN s = 1..L
                       /\ \A i \in 1..L : s[i] \in F
                       /\ \A m \in F : \E i \in 1..L : s[i] = m
                       /\ \A i, j \in 1..L : s[i] = s[j] => i = j
  BY OnListFacts
<1>2. PICK k \in 1..L : s[k] = n /\ ListRemove(s, n) = RemoveAt(s, k)
  <2>1. \E i \in DOMAIN s : s[i] = n
    BY <1>1
  <2>2. PICK k : k = CHOOSE i \in DOMAIN s : s[i] = n
    OBVIOUS
  <2>3. k \in DOMAIN s /\ s[k] = n
    BY <2>1, <2>2
  <2> QED BY <1>1, <2>2, <2>3 DEF ListRemove
<1>3. PICK t \in Seq(Nat) : /\ t = ListRemove(s, n) /\ Len(t) = L - 1
                            /\ \A i \in 1..(L - 1) : i < k => t[i] = s[i]
                            /\ \A i \in 1..(L - 1) : ~(i < k) => t[i] = s[i + 1]
  <2>1. s \in Seq(Nat) /\ L = Len(s)
    BY <1>1
  <2>2. \E t \in Seq(Nat) : /\ t = RemoveAt(s, k) /\ Len(t) = L - 1
                            /\ \A i \in 1..(L - 1) : i < k => t[i] = s[i]
                            /\ \A i \in 1..(L - 1) : ~(i < k) => t[i] = s[i + 1]
    BY <2>1, RemoveAtFacts
  <2> QED BY <1>2, <2>2
(* The cell of s that cell i of t was. *)
<1> DEFINE Old(i) == IF i < k THEN i ELSE i + 1
<1>4. \A i \in 1..(L - 1) : Old(i) \in 1..L /\ Old(i) # k /\ t[i] = s[Old(i)]
  <2> SUFFICES ASSUME NEW i \in 1..(L - 1) PROVE Old(i) \in 1..L /\ Old(i) # k /\ t[i] = s[Old(i)]
    OBVIOUS
  <2>1. CASE i < k
    BY <1>3, <2>1
  <2>2. CASE ~(i < k)
    BY <1>3, <2>2
  <2> QED BY <2>1, <2>2
<1>5. \A i, j \in 1..(L - 1) : Old(i) = Old(j) => i = j
  OBVIOUS
<1>6. \A j \in 1..L : j # k => \E i \in 1..(L - 1) : Old(i) = j
  <2> SUFFICES ASSUME NEW j \in 1..L, j # k PROVE \E i \in 1..(L - 1) : Old(i) = j
    OBVIOUS
  <2>1. CASE j < k
    <3>1. j \in 1..(L - 1) /\ Old(j) = j
      BY <2>1
    <3> QED BY <3>1
  <2>2. CASE ~(j < k)
    <3>1. j - 1 \in 1..(L - 1) /\ ~(j - 1 < k) /\ (j - 1) + 1 = j
      BY <2>2
    <3>2. Old(j - 1) = j
      BY <3>1
    <3> QED BY <3>1, <3>2
  <2> QED BY <2>1, <2>2
<1> HIDE DEF Old
<1>7. \A i \in 1..(L - 1) : t[i] \in F \ {n}
  BY <1>1, <1>2, <1>4
<1>8. \A m \in F \ {n} : \E i \in 1..(L - 1) : t[i] = m
  <2> SUFFICES ASSUME NEW m \in F, m # n PROVE \E i \in 1..(L - 1) : t[i] = m
    OBVIOUS
  <2>1. PICK j \in 1..L : s[j] = m /\ j # k
    BY <1>1, <1>2
  <2>2. PICK i \in 1..(L - 1) : Old(i) = j
    BY <1>6, <2>1
  <2> QED BY <1>4, <2>1, <2>2
<1>9. \A i, j \in 1..(L - 1) : t[i] = t[j] => i = j
  <2> SUFFICES ASSUME NEW i \in 1..(L - 1), NEW j \in 1..(L - 1), t[i] = t[j] PROVE i = j
    OBVIOUS
  <2>1. PICK x \in 1..L, y \in 1..L : x = Old(i) /\ y = Old(j) /\ s[x] = s[y]
    BY <1>4
  <2>2. x = y
    BY <1>1, <2>1
  <2> QED BY <1>5, <2>1, <2>2
<1> QED BY <1>3, <1>7, <1>8, <1>9 DEF OnList

(* Each of them once, so the length counts them.                           *)
LEMMA CountOnList ==
  ASSUME NEW s, NEW F, OnList(s, F)
  PROVE  ToSet(s) = F /\ Len(s) = Cardinality(F)
<1>1. PICK L \in Nat : /\ L = Len(s) /\ s \in Seq(Nat) /\ DOMAIN s = 1..L
                       /\ \A i \in 1..L : s[i] \in F
                       /\ \A m \in F : \E i \in 1..L : s[i] = m
                       /\ \A i, j \in 1..L : s[i] = s[j] => i = j
  BY OnListFacts
<1>2. s \in [1..L -> F]
  BY <1>1, LenProperties
<1>3. s \in Bijection(1..L, F)
  BY <1>1, <1>2 DEF Bijection, Injection, Surjection, IsInjective
<1>4. ToSet(s) = F
  BY <1>1 DEF ToSet
<1> QED BY <1>1, <1>3, <1>4, FS_CountingElements DEF ExistsBijection

-----------------------------------------------------------------------------
(* The bucket of a request is the first whose blocks are large enough.     *)
LEMMA Log2Brackets ==
  ASSUME NEW r \in Nat \ {0}, r <= maximumBucketSize + 1
  PROVE  Log2(r) \in 0..HeapLog2 /\ Power(Log2(r)) <= r /\ r < Power(Log2(r) + 1)
<1>1. HeapLog2 \in 5..30 /\ maximumBucketSize = Power(HeapLog2) /\ maximumBucketSize \in Nat
  BY Sizes
<1>2. PICK H \in 5..30 : H = HeapLog2 /\ H + 1 \in 0..31 /\ r <= Power(H) + 1
                         /\ Power(H) \in Nat /\ Power(H) >= 16 /\ Power(H + 1) = 2 * Power(H)
  <2>1. PICK H \in 5..30 : H = HeapLog2 /\ r <= Power(H) + 1
    BY <1>1
  <2>2. H \in 0..31 /\ H \in 0..30 /\ 4 \in 0..31 /\ 4 <= H /\ H + 1 \in 0..31
    OBVIOUS
  <2>3. Power(4) <= Power(H) /\ Power(4) = 16 /\ Power(H) \in Nat /\ Power(H + 1) = 2 * Power(H)
    BY <2>2, PowersGrow, Powers
  <2> QED BY <2>1, <2>2, <2>3
<1>3. r < Power(H + 1)
  BY <1>2
<1> DEFINE T == {k \in 0..31 : r < Power(k)}
<1>4. PICK c \in T : \A k \in T : c <= k
  <2>1. H + 1 \in T /\ T \subseteq Nat
    BY <1>2, <1>3
  <2> QED BY <2>1, Least
<1>5. c # 0
  <2>1. Power(0) = 1
    BY Powers
  <2> QED BY <1>4, <2>1
<1>6. PICK k \in 0..H : c = k + 1
  <2>1. H + 1 \in T
    BY <1>2, <1>3
  <2>2. c - 1 \in 0..H /\ c = (c - 1) + 1
    BY <1>4, <1>5, <2>1
  <2> QED BY <2>2
<1>7. Power(k) <= r /\ r < Power(k + 1) /\ k \in 0..30
  <2>1. k \in 0..30 /\ k \in 0..31 /\ k \notin T
    BY <1>4, <1>6
  <2>2. Power(k) \in Nat
    BY <2>1, Powers
  <2> QED BY <1>4, <1>6, <2>1, <2>2
<1>8. Log2(r) = CHOOSE j \in 0..30 : Power(j) <= r /\ r < Power(j + 1)
  <2>1. MAX_ALLOC_LOG2 - 1 = 30
    BY DEF MAX_ALLOC_LOG2
  <2> QED BY <2>1, Zenon DEF Log2, Power
<1>9. PICK l : l = Log2(r)
  OBVIOUS
<1>10. l \in 0..30 /\ Power(l) <= r /\ r < Power(l + 1)
  <2>1. \E j \in 0..30 : Power(j) <= r /\ r < Power(j + 1)
    BY <1>7
  <2> QED BY <1>8, <1>9, <2>1, Zenon
<1>11. l <= H
  <2> SUFFICES ASSUME H + 1 <= l PROVE FALSE
    BY <1>2, <1>10
  <2>1. l \in 0..31
    BY <1>10
  <2>2. Power(H + 1) <= Power(l) /\ Power(l) \in Nat /\ Power(H + 1) \in Nat
    BY <1>2, <2>1, PowersGrow
  <2> QED BY <1>3, <1>10, <2>2
<1> QED BY <1>2, <1>9, <1>10, <1>11

LEMMA SuitableBucket ==
  ASSUME NEW r \in Nat \ {0}, r <= maximumBucketSize + 1
  PROVE  /\ GetMinimumSuitableBucket(r) \in 0..bucketsAmount
         /\ GetMinimumSuitableBucket(r) \in Buckets => r <= BlockSize(GetMinimumSuitableBucket(r))
         /\ \A k \in Buckets : k < GetMinimumSuitableBucket(r) => BlockSize(k) < r
<1>1. PICK l \in 0..HeapLog2 : l = Log2(r) /\ Power(l) <= r /\ r < Power(l + 1)
  BY Log2Brackets
<1>2. /\ HeapLog2 \in 5..30 /\ bucketsAmount = HeapLog2 - 3 /\ Buckets = 0..(HeapLog2 - 4)
      /\ \A k \in Buckets : BlockSize(k) = Power(4 + k)
  BY Sizes
<1>3. \A k \in 0..31 : Power(k) \in Nat
  BY Powers
<1>4. PICK i : i = GetMinimumSuitableBucket(r)
  OBVIOUS
<1>5. CASE l < 4
  <2>1. i = 0
    BY <1>1, <1>4, <1>5 DEF GetMinimumSuitableBucket, MIN_ALLOC_LOG2
  <2>2. Power(l + 1) <= Power(4)
    <3>1. l + 1 \in 0..31 /\ 4 \in 0..31 /\ l + 1 <= 4
      BY <1>5
    <3> QED BY <3>1, PowersGrow
  <2>3. BlockSize(0) = Power(4) /\ Power(4) \in Nat /\ Power(l + 1) \in Nat
    <3>1. 4 \in 0..31 /\ l + 1 \in 0..31 /\ 0 \in Buckets /\ 4 + 0 = 4
      BY <1>2, <1>5
    <3> QED BY <1>2, <1>3, <3>1
  <2>4. 0 \in 0..bucketsAmount /\ r <= BlockSize(0) /\ \A k \in Buckets : ~(k < 0)
    BY <1>1, <1>2, <2>2, <2>3
  <2> QED BY <1>4, <2>1, <2>4
<1>6. ASSUME ~(l < 4), NEW k \in Buckets, k <= l - 4
      PROVE  Power(4 + k) <= Power(l) /\ Power(4 + k) \in Nat /\ (k < l - 4 => Power(4 + k) < Power(l))
  <2>1. 4 + k \in 0..31 /\ l \in 0..31 /\ 4 + k <= l /\ (k < l - 4 => 4 + k < l)
    BY <1>2, <1>6
  <2> QED BY <1>3, <2>1, PowersGrow
<1>7. CASE ~(l < 4) /\ r = Power(l)
  <2>1. i = l - 4
    <3>1. r = 2^Log2(r)
      BY <1>1, <1>7, Zenon DEF Power
    <3> QED BY <1>1, <1>4, <1>7, <3>1 DEF GetMinimumSuitableBucket, MIN_ALLOC_LOG2
  <2>2. i \in Buckets /\ i \in 0..bucketsAmount /\ 4 + i = l
    BY <1>2, <1>7, <2>1
  <2>3. BlockSize(i) = r
    BY <1>2, <1>7, <2>2
  <2>4. \A k \in Buckets : k < i => BlockSize(k) < r
    BY <1>2, <1>6, <1>7, <2>1
  <2> QED BY <1>4, <2>2, <2>3, <2>4
<1>8. CASE ~(l < 4) /\ r # Power(l)
  <2>1. i = l - 3
    <3>1. r # 2^Log2(r)
      BY <1>1, <1>8, Zenon DEF Power
    <3> QED BY <1>1, <1>4, <1>8, <3>1 DEF GetMinimumSuitableBucket, MIN_ALLOC_LOG2
  <2>2. i \in 0..bucketsAmount /\ 4 + i = l + 1
    BY <1>2, <1>8, <2>1
  <2>3. i \in Buckets => r <= BlockSize(i)
    <3>1. l + 1 \in 0..31
      BY <1>2
    <3>2. Power(l + 1) \in Nat
      BY <1>3, <3>1
    <3> QED BY <1>1, <1>2, <2>2, <3>2
  <2>4. \A k \in Buckets : k < i => BlockSize(k) < r
    <3> SUFFICES ASSUME NEW k \in Buckets, k < i PROVE BlockSize(k) < r
      OBVIOUS
    <3>1. k <= l - 4 /\ l \in 0..31
      BY <1>2, <2>1
    <3>2. Power(4 + k) <= Power(l) /\ Power(4 + k) \in Nat /\ Power(l) \in Nat
      BY <1>3, <1>6, <1>8, <3>1
    <3> QED BY <1>1, <1>2, <1>8, <3>2
  <2> QED BY <1>4, <2>2, <2>3, <2>4
<1> QED BY <1>5, <1>7, <1>8
-----------------------------------------------------------------------------
(* The invariant.  The node of the call being executed is on no list.      *)
Busy(n) == op \in {"malloc", "free"} /\ n = node
FreeAt(k) == {n \in Blocks : Level(n) = k /\ header[n].free /\ ~Busy(n)}
Twins(m, n) ==
  /\ m # n /\ Level(m) = Level(n) /\ header[m].free /\ header[n].free
  /\ n = GetNodeBuddy(m, Level(m))

Typed ==
  /\ buckets \in [Buckets -> Seq(Nat)]
  /\ \A n \in Blocks : header[n] \in [bucket : Buckets, free : BOOLEAN]
  /\ op \in {"idle", "malloc", "free", "lost"}
ListsHoldFree == \A k \in Buckets : OnList(buckets[k], FreeAt(k))
OnlyBusyTwins == \A m, n \in Blocks : Twins(m, n) => Busy(m) \/ Busy(n)
CallOK ==
  /\ op \in {"malloc", "free"} => node \in Blocks /\ header[node].free
  /\ op = "malloc" =>
       /\ nbytes \in RequestBytes /\ nbytes + SizeOfNode <= maximumBucketSize + 1
       /\ Level(node) = availableBucket /\ IdealBucket(nbytes) <= availableBucket
AskedFit ==
  /\ DOMAIN asked = {n \in Blocks : ~header[n].free}
  /\ \A n \in DOMAIN asked : asked[n] \in RequestBytes /\ asked[n] + SizeOfNode <= Size(n)

BInv == Typed /\ Tiled /\ ListsHoldFree /\ OnlyBusyTwins /\ CallOK /\ AskedFit /\ LostOnlyIfNoFit

-----------------------------------------------------------------------------
(* The buddy of the buddy is the block.                                    *)
LEMMA BuddyBack ==
  ASSUME NEW n \in Nat, NEW b \in Buckets, b # Top, n % BlockSize(b) = 0
  PROVE  GetNodeBuddy(GetNodeBuddy(n, b), b) = n
BY Pair

(* No two blocks are as large as the heap. *)
LEMMA TwinsBelowTop ==
  ASSUME Tiled, NEW m \in Blocks, NEW n \in Blocks, Twins(m, n)
  PROVE  Level(m) # Top
<1> SUFFICES ASSUME Level(m) = Top PROVE FALSE
  OBVIOUS
<1>1. Size(m) = maximumBucketSize /\ Size(n) = maximumBucketSize /\ maximumBucketSize \in Nat \ {0}
  BY Sizes DEF Size, Twins
<1>2. m \in Nat /\ n \in Nat /\ m + Size(m) <= maximumBucketSize /\ n + Size(n) <= maximumBucketSize
  BY DEF Tiled, Aligned
<1>3. m = 0 /\ n = 0
  BY <1>1, <1>2
<1> QED BY <1>3 DEF Twins

(* A step that changes no bucket leaves the tiling as it was.              *)
LEMMA SameTiling ==
  ASSUME Tiled, Blocks' = Blocks, \A n \in Blocks : Level(n)' = Level(n)
  PROVE  Tiled' /\ \A n \in Blocks : Size(n)' = Size(n)
<1>1. \A n \in Blocks : Size(n)' = Size(n)
  BY DEF Size
<1>2. Aligned'
  BY <1>1 DEF Tiled, Aligned, Buckets, bucketsAmount, maximumBucketSize
<1>3. Apart'
  BY <1>1 DEF Tiled, Apart
<1>4. Covered'
  BY <1>1 DEF Tiled, Covered, maximumBucketSize
<1> QED BY <1>1, <1>2, <1>3, <1>4 DEF Tiled

(* The search of malloc. *)
LEMMA AvailableBucket ==
  ASSUME NEW i \in 0..bucketsAmount
  PROVE  \/ /\ GetAvailableBucket(i) \in Buckets /\ GetAvailableBucket(i) >= i
            /\ ~ListIsEmpty(buckets[GetAvailableBucket(i)])
         \/ /\ GetAvailableBucket(i) = bucketsAmount
            /\ \A k \in Buckets : k >= i => ListIsEmpty(buckets[k])
<1> DEFINE candidates == {k \in i..(bucketsAmount - 1) : ~ListIsEmpty(buckets[k])}
<1>1. bucketsAmount \in Nat /\ Buckets = 0..(bucketsAmount - 1)
  BY Sizes DEF Buckets
<1>2. CASE candidates = {}
  <2>1. GetAvailableBucket(i) = bucketsAmount
    BY <1>2 DEF GetAvailableBucket
  <2>2. \A k \in Buckets : k >= i => k \in i..(bucketsAmount - 1)
    BY <1>1
  <2> QED BY <1>2, <2>1, <2>2
<1>3. CASE candidates # {}
  <2>1. PICK a : a = CHOOSE k \in candidates : \A j \in candidates : k <= j
    OBVIOUS
  <2>2. \E k \in candidates : \A j \in candidates : k <= j
    <3>1. candidates \subseteq Nat
      BY <1>1
    <3> QED BY <1>3, <3>1, Least
  <2>3. a \in candidates
    BY <2>1, <2>2
  <2>4. GetAvailableBucket(i) = a
    BY <1>3, <2>1 DEF GetAvailableBucket
  <2>5. a \in Buckets /\ a >= i
    BY <1>1, <2>3
  <2> QED BY <2>3, <2>4, <2>5
<1> QED BY <1>2, <1>3

(* The bucket malloc starts to search from is the first that fits.         *)
LEMMA Ideal ==
  ASSUME NEW request \in RequestBytes, request + SizeOfNode <= maximumBucketSize + 1
  PROVE  /\ IdealBucket(request) \in 0..bucketsAmount
         /\ IdealBucket(request) \in Buckets => request + SizeOfNode <= BlockSize(IdealBucket(request))
         /\ \A k \in Buckets : k < IdealBucket(request) => BlockSize(k) < request + SizeOfNode
<1>1. request + SizeOfNode \in Nat \ {0}
  BY BuddyAssumption DEF SizeOfNode
<1> QED BY <1>1, SuitableBucket DEF IdealBucket
-----------------------------------------------------------------------------
(* What a step that touches no header leaves alone.                        *)
LEMMA SameHeaders ==
  ASSUME header' = header
  PROVE  /\ Blocks' = Blocks /\ \A n \in Blocks : Level(n)' = Level(n)
         /\ \A m, n \in Blocks : Twins(m, n)' <=> Twins(m, n)
BY DEF Level, Twins, Blocks

(* A free block is on the list of its bucket, so the search would find it. *)
LEMMA ListedFits ==
  ASSUME BInv, NEW n \in Blocks, header[n].free, ~Busy(n)
  PROVE  n \in FreeAt(Level(n)) /\ ~ListIsEmpty(buckets[Level(n)])
<1>1. PICK k \in Buckets : k = Level(n) /\ n \in FreeAt(k)
  BY SizeOfBlock DEF BInv, Tiled, FreeAt
<1>2. OnList(buckets[k], FreeAt(k))
  BY DEF BInv, ListsHoldFree
<1>3. PICK s : s = buckets[k]
  OBVIOUS
<1>4. PICK L \in Nat : L = Len(s) /\ s \in Seq(Nat) /\ \A m \in FreeAt(k) : \E i \in 1..L : s[i] = m
  BY <1>2, <1>3, OnListFacts
<1>5. L # 0
  BY <1>1, <1>4
<1>6. s # << >>
  BY <1>4, <1>5
<1> QED BY <1>1, <1>3, <1>6 DEF ListIsEmpty

(* malloc takes the last block of the first list that has one, or of none. *)
LEMMA MallocCallStep ==
  ASSUME BInv, NEW request \in RequestBytes, MallocCall(request)
  PROVE  BInv'
<1>1. /\ op = "idle" /\ header' = header /\ asked' = asked /\ nbytes' = request
      /\ request + SizeOfNode <= maximumBucketSize + 1
  BY DEF MallocCall
<1>2. PICK i \in 0..bucketsAmount :
        /\ i = IdealBucket(request)
        /\ \A k \in Buckets : k < i => BlockSize(k) < request + SizeOfNode
  BY <1>1, Ideal
<1>3. PICK a : a = GetAvailableBucket(i) /\ availableBucket' = a
  BY <1>2 DEF MallocCall
<1>4. bucketsAmount \in Nat /\ bucketsAmount \notin Buckets /\ \A k \in Buckets : k \in Nat /\ k < bucketsAmount
  BY Sizes DEF Buckets
<1>5. /\ Blocks' = Blocks /\ \A n \in Blocks : Level(n)' = Level(n)
      /\ \A m, n \in Blocks : Twins(m, n)' <=> Twins(m, n)
  BY <1>1, SameHeaders
<1>6. Tiled' /\ \A n \in Blocks : Size(n)' = Size(n)
  BY <1>5, SameTiling DEF BInv
<1>7. \A n \in Blocks : ~Busy(n)
  BY <1>1 DEF Busy
<1>8. OnlyBusyTwins'
  BY <1>5, <1>7 DEF OnlyBusyTwins, BInv
<1>9. AskedFit'
  BY <1>1, <1>5, <1>6 DEF AskedFit, BInv
<1>10. \A n \in Blocks : header[n] \in [bucket : Buckets, free : BOOLEAN]
  BY DEF BInv, Typed
<1>11. CASE a \in Buckets /\ a >= i /\ ~ListIsEmpty(buckets[a])
  <2>1. /\ op' = "malloc" /\ node' = ListPop(buckets[a]).back
        /\ buckets' = [buckets EXCEPT ![a] = ListPop(@).list]
    <3>1. a # bucketsAmount
      BY <1>4, <1>11
    <3> QED BY <1>2, <1>3, <3>1 DEF MallocCall
  <2>2. PICK n : n = ListPop(buckets[a]).back /\ node' = n
    BY <2>1
  <2>3. n \in FreeAt(a) /\ OnList(ListPop(buckets[a]).list, FreeAt(a) \ {n})
    BY <1>11, <2>2, PopOffList DEF BInv, ListsHoldFree
  <2>4. n \in Blocks /\ Level(n) = a /\ header[n].free
    BY <2>3 DEF FreeAt
  <2>5. FreeAt(a)' = FreeAt(a) \ {n}
    BY <1>1, <1>5, <1>7, <2>1, <2>2 DEF FreeAt, Busy
  <2>6. \A k \in Buckets : k # a => FreeAt(k)' = FreeAt(k)
    BY <1>1, <1>5, <1>7, <2>1, <2>2, <2>4 DEF FreeAt, Busy
  <2>7. /\ buckets \in [Buckets -> Seq(Nat)] /\ ListPop(buckets[a]).list \in Seq(Nat)
    BY <2>3 DEF BInv, Typed, OnList
  <2>8. /\ buckets' \in [Buckets -> Seq(Nat)] /\ buckets'[a] = ListPop(buckets[a]).list
        /\ \A k \in Buckets : k # a => buckets'[k] = buckets[k]
    BY <1>11, <2>1, <2>7
  <2>9. ListsHoldFree'
    <3>1. SUFFICES ASSUME NEW k \in Buckets PROVE OnList(buckets'[k], FreeAt(k)')
      BY DEF ListsHoldFree, Buckets, bucketsAmount, OnList
    <3>2. CASE k = a
      BY <2>3, <2>5, <2>8, <3>2
    <3>3. CASE k # a
      BY <2>6, <2>8, <3>3 DEF BInv, ListsHoldFree
    <3> QED BY <3>2, <3>3
  <2>10. Typed'
    BY <1>1, <1>5, <1>10, <2>1, <2>8 DEF Typed, Buckets, bucketsAmount
  <2>11. CallOK'
    BY <1>1, <1>2, <1>3, <1>5, <1>11, <2>1, <2>2, <2>4 DEF CallOK, SizeOfNode, maximumBucketSize
  <2>12. LostOnlyIfNoFit'
    BY <2>1 DEF LostOnlyIfNoFit
  <2> QED BY <1>6, <1>8, <1>9, <2>9, <2>10, <2>11, <2>12 DEF BInv
<1>12. CASE a = bucketsAmount /\ \A k \in Buckets : k >= i => ListIsEmpty(buckets[k])
  <2>1. op' = "lost" /\ node' = node /\ buckets' = buckets
    BY <1>2, <1>3, <1>4, <1>12 DEF MallocCall
  <2>2. \A k \in Buckets : FreeAt(k)' = FreeAt(k)
    BY <1>1, <1>5, <1>7, <2>1 DEF FreeAt, Busy
  <2>3. ListsHoldFree'
    <3>1. SUFFICES ASSUME NEW k \in Buckets PROVE OnList(buckets[k], FreeAt(k)')
      BY <2>1 DEF ListsHoldFree, Buckets, bucketsAmount, OnList
    <3> QED BY <2>2 DEF BInv, ListsHoldFree
  <2>4. Typed'
    BY <1>1, <1>5, <1>10, <2>1 DEF BInv, Typed, Buckets, bucketsAmount
  <2>5. CallOK'
    BY <2>1 DEF CallOK
  <2>6. LostOnlyIfNoFit'
    <3>1. SUFFICES ASSUME NEW n \in Blocks, header[n].free
                   PROVE  BlockSize(Level(n)) < request + SizeOfNode
      BY <1>1, <1>5 DEF LostOnlyIfNoFit, Level, SizeOfNode
    <3>2. Level(n) \in Buckets /\ Level(n) \in Nat
      BY SizeOfBlock DEF BInv, Tiled
    <3>3. ~(Level(n) >= i)
      BY <1>7, <1>12, <3>1, <3>2, ListedFits
    <3> QED BY <1>2, <3>2, <3>3
  <2> QED BY <1>6, <1>8, <1>9, <2>3, <2>4, <2>5, <2>6 DEF BInv
<1> QED BY <1>2, <1>3, <1>11, <1>12, AvailableBucket

(* A split makes one block two; the one on the list is the buddy of the    *)
(* one in hand.                                                            *)
LEMMA SplitStep ==
  ASSUME BInv, Split
  PROVE  BInv'
<1>1. PICK n \in Blocks : n = node /\ header[n].free
  BY DEF BInv, CallOK, Split
<1>2. PICK b \in Buckets : /\ b # Top /\ b + 1 = Level(n) /\ b = header[n].bucket - 1 /\ b \in Nat
                           /\ Level(n) = availableBucket /\ b = availableBucket - 1
                           /\ IdealBucket(nbytes) <= b
  <2>1. Level(n) \in Buckets /\ Level(n) \in Nat
    BY SizeOfBlock DEF BInv, Tiled
  <2>2. Level(n) = availableBucket /\ IdealBucket(nbytes) < availableBucket
    BY <1>1 DEF BInv, CallOK, Split
  <2>3. IdealBucket(nbytes) \in Nat
    <3>1. IdealBucket(nbytes) \in 0..bucketsAmount
      BY Ideal DEF BInv, CallOK, Split
    <3> QED BY <3>1, Sizes
  <2>4. Level(n) - 1 \in Buckets /\ Level(n) - 1 # Top
    <3>1. Buckets = 0..Top /\ Top \in Nat /\ Level(n) <= Top
      BY <2>1, Sizes, BucketNumbers
    <3>2. Level(n) >= 1
      BY <2>1, <2>2, <2>3
    <3>3. Level(n) - 1 \in 0..Top /\ Level(n) - 1 # Top
      BY <2>1, <3>1, <3>2
    <3> QED BY <3>1, <3>3
  <2>5. Level(n) - 1 \in Nat /\ (Level(n) - 1) + 1 = Level(n) /\ IdealBucket(nbytes) <= Level(n) - 1
    BY <2>1, <2>2, <2>3
  <2> QED BY <2>2, <2>4, <2>5 DEF Level
<1>3. PICK S \in Nat \ {0} : S = BlockSize(b) /\ Size(n) = 2 * S
  BY <1>2, Sizes DEF Size
<1>4. n \in Nat /\ n % (2 * S) = 0
  BY <1>3, SizeOfBlock DEF BInv, Tiled
<1>5. n % S = 0 /\ GetNodeBuddy(n, b) = n + S
  BY <1>3, <1>4, EvenHalf DEF GetNodeBuddy
<1>6. PICK d \in Nat : d = GetNodeBuddy(n, b) /\ d = n + BlockSize(b) /\ d # n
  BY <1>3, <1>4, <1>5
<1>7. /\ header' = [m \in Blocks \cup {d} |->
                      IF m = d THEN [bucket |-> b, free |-> TRUE]
                      ELSE IF m = n THEN [header[m] EXCEPT !.bucket = b]
                      ELSE header[m]]
      /\ buckets' = [buckets EXCEPT ![b] = ListPush(@, d)]
  BY <1>1, <1>2, <1>6 DEF Split
<1>8. /\ op = "malloc" /\ op' = "malloc" /\ availableBucket' = b
      /\ asked' = asked /\ nbytes' = nbytes /\ node' = n
  BY <1>1, <1>2 DEF Split
<1>9. \A m \in Blocks : header[m] \in [bucket : Buckets, free : BOOLEAN]
  BY DEF BInv, Typed
<1>10. /\ Blocks' = Blocks \cup {d}
       /\ header'[d] = [bucket |-> b, free |-> TRUE]
       /\ header'[n] = [header[n] EXCEPT !.bucket = b]
       /\ \A m \in Blocks : m # n /\ m # d => header'[m] = header[m]
  BY <1>6, <1>7 DEF Blocks
<1>11. /\ Level(n)' = b /\ Level(d)' = b /\ header'[n].free /\ header'[d].free
       /\ header'[n] \in [bucket : Buckets, free : BOOLEAN]
       /\ header'[d] \in [bucket : Buckets, free : BOOLEAN]
  BY <1>1, <1>9, <1>10 DEF Level
<1>12. Tiled' /\ d \notin Blocks
  <2>1. \A m \in Blocks : m # n => Level(m)' = Level(m)
    <3>1. d \notin Blocks
      <4> SUFFICES ASSUME d \in Blocks PROVE FALSE
        OBVIOUS
      <4>1. Size(d) \in Nat \ {0}
        BY SizeOfBlock DEF BInv, Tiled
      <4>2. n <= d /\ d < n + Size(n) /\ d <= d /\ d < d + Size(d)
        BY <1>3, <1>4, <1>6, <4>1
      <4> QED BY <1>6, <4>2, OneOwner DEF BInv
    <3> QED BY <1>10, <3>1 DEF Level
  <2>2. Tiled /\ Blocks' = Blocks \cup {d} /\ Level(n) = b + 1 /\ d = n + BlockSize(b)
    BY <1>2, <1>6, <1>10 DEF BInv
  <2> QED BY <1>2, <1>11, <2>1, <2>2, HalvesTile
<1>13. \A m \in Blocks : m # n => header'[m] = header[m] /\ Level(m)' = Level(m)
  BY <1>10, <1>12 DEF Level
<1>14. FreeAt(b)' = FreeAt(b) \cup {d}
  BY <1>1, <1>2, <1>6, <1>8, <1>10, <1>11, <1>12, <1>13 DEF FreeAt, Busy
<1>15. \A k \in Buckets : k # b => FreeAt(k)' = FreeAt(k)
  BY <1>1, <1>6, <1>8, <1>10, <1>11, <1>12, <1>13 DEF FreeAt, Busy
<1>16. d \notin FreeAt(b) /\ OnList(ListPush(buckets[b], d), FreeAt(b) \cup {d})
  <2>1. d \notin FreeAt(b)
    BY <1>12 DEF FreeAt
  <2> QED BY <2>1, PushOnList DEF BInv, ListsHoldFree
<1>17. /\ buckets' \in [Buckets -> Seq(Nat)] /\ buckets'[b] = ListPush(buckets[b], d)
       /\ \A k \in Buckets : k # b => buckets'[k] = buckets[k]
  BY <1>7, <1>16 DEF BInv, Typed, OnList
<1>18. ListsHoldFree'
  <2>1. SUFFICES ASSUME NEW k \in Buckets PROVE OnList(buckets'[k], FreeAt(k)')
    BY DEF ListsHoldFree, Buckets, bucketsAmount, OnList
  <2>2. CASE k = b
    BY <1>14, <1>16, <1>17, <2>2
  <2>3. CASE k # b
    BY <1>15, <1>17, <2>3 DEF BInv, ListsHoldFree
  <2> QED BY <2>2, <2>3
<1>19. Typed'
  BY <1>8, <1>9, <1>10, <1>11, <1>13, <1>17 DEF Typed, Buckets, bucketsAmount
<1>20. OnlyBusyTwins'
  <2>1. SUFFICES ASSUME NEW x \in Blocks', NEW y \in Blocks', Twins(x, y)', x # n, y # n
                 PROVE  FALSE
    BY <1>8 DEF OnlyBusyTwins, Busy
  <2>2. CASE x \in Blocks /\ y \in Blocks
    <3>1. Twins(x, y)
      BY <1>13, <2>1, <2>2 DEF Twins
    <3> QED BY <1>1, <2>1, <2>2, <3>1 DEF BInv, OnlyBusyTwins, Busy
  <2>3. GetNodeBuddy(d, b) = n
    BY <1>2, <1>3, <1>4, <1>5, <1>6, BuddyBack
  <2>4. CASE x = d
    BY <1>11, <2>1, <2>3, <2>4 DEF Twins
  <2>5. CASE y = d
    <3>1. Level(x)' = b /\ d = GetNodeBuddy(x, b) /\ x # d
      BY <1>11, <2>1, <2>5 DEF Twins
    <3>2. x \in Blocks /\ Level(x) = b
      BY <1>10, <1>13, <2>1, <3>1
    <3>3. x \in Nat /\ x % BlockSize(b) = 0
      BY <3>2, SizeOfBlock DEF BInv, Tiled, Size
    <3>4. GetNodeBuddy(d, b) = x
      BY <1>2, <3>1, <3>3, BuddyBack
    <3> QED BY <2>1, <2>3, <3>4
  <2> QED BY <1>10, <2>1, <2>2, <2>4, <2>5
<1>21. CallOK'
  BY <1>2, <1>8, <1>10, <1>11 DEF BInv, CallOK, SizeOfNode, maximumBucketSize
<1>22. AskedFit'
  <2>1. DOMAIN asked = {m \in Blocks' : ~header'[m].free}
    BY <1>1, <1>10, <1>11, <1>13 DEF BInv, AskedFit
  <2>2. \A m \in DOMAIN asked : asked[m] \in RequestBytes /\ asked[m] + SizeOfNode <= Size(m)'
    <3>1. \A m \in DOMAIN asked : m \in Blocks /\ m # n
      BY <1>1 DEF BInv, AskedFit
    <3>2. \A m \in DOMAIN asked : Size(m)' = Size(m)
      BY <1>13, <3>1 DEF Size
    <3> QED BY <3>2 DEF BInv, AskedFit
  <2> QED BY <1>8, <2>1, <2>2 DEF AskedFit, SizeOfNode
<1>23. LostOnlyIfNoFit'
  BY <1>8 DEF LostOnlyIfNoFit
<1> QED BY <1>12, <1>18, <1>19, <1>20, <1>21, <1>22, <1>23 DEF BInv
-----------------------------------------------------------------------------
(* The loop ends with a block of the ideal bucket, which is large enough.  *)
LEMMA MallocReturnsStep ==
  ASSUME BInv, MallocReturns
  PROVE  BInv'
<1>1. PICK n \in Blocks : n = node /\ header[n].free
  BY DEF BInv, CallOK, MallocReturns
<1>2. /\ op = "malloc" /\ op' = "idle" /\ buckets' = buckets
      /\ header' = [header EXCEPT ![n].free = FALSE]
      /\ asked' = [m \in DOMAIN asked \cup {n} |-> IF m = n THEN nbytes ELSE asked[m]]
  BY <1>1 DEF MallocReturns, Return
<1>3. nbytes \in RequestBytes /\ nbytes + SizeOfNode <= Size(n)
  <2>1. /\ nbytes \in RequestBytes /\ nbytes + SizeOfNode <= maximumBucketSize + 1
        /\ Level(n) = availableBucket /\ IdealBucket(nbytes) <= availableBucket
        /\ IdealBucket(nbytes) >= availableBucket
    BY <1>1 DEF BInv, CallOK, MallocReturns
  <2>2. Level(n) \in Buckets /\ Level(n) \in Nat
    BY SizeOfBlock DEF BInv, Tiled
  <2>3. IdealBucket(nbytes) \in Nat
    <3>1. IdealBucket(nbytes) \in 0..bucketsAmount
      BY <2>1, Ideal
    <3> QED BY <3>1, Sizes
  <2>4. IdealBucket(nbytes) = Level(n)
    BY <2>1, <2>2, <2>3
  <2> QED BY <2>1, <2>2, <2>4, Ideal DEF Size
<1>4. \A m \in Blocks : header[m] \in [bucket : Buckets, free : BOOLEAN]
  BY DEF BInv, Typed
<1>5. /\ Blocks' = Blocks /\ header'[n] = [header[n] EXCEPT !.free = FALSE]
      /\ \A m \in Blocks : m # n => header'[m] = header[m]
  BY <1>2 DEF Blocks
<1>6. /\ header'[n].bucket = header[n].bucket /\ ~header'[n].free
      /\ \A m \in Blocks : header'[m] \in [bucket : Buckets, free : BOOLEAN]
  BY <1>4, <1>5
<1>7. \A m \in Blocks : Level(m)' = Level(m)
  BY <1>5, <1>6 DEF Level
<1>8. Tiled' /\ \A m \in Blocks : Size(m)' = Size(m)
  BY <1>5, <1>7, SameTiling DEF BInv
<1>9. \A k \in Buckets : FreeAt(k)' = FreeAt(k)
  BY <1>1, <1>2, <1>5, <1>6, <1>7 DEF FreeAt, Busy
<1>10. ListsHoldFree'
  <2>1. SUFFICES ASSUME NEW k \in Buckets PROVE OnList(buckets[k], FreeAt(k)')
    BY <1>2 DEF ListsHoldFree, Buckets, bucketsAmount, OnList
  <2> QED BY <1>9 DEF BInv, ListsHoldFree
<1>11. Typed'
  BY <1>2, <1>5, <1>6 DEF BInv, Typed, Buckets, bucketsAmount
<1>12. OnlyBusyTwins'
  <2>1. SUFFICES ASSUME NEW x \in Blocks, NEW y \in Blocks, Twins(x, y)'
                 PROVE  FALSE
    BY <1>5 DEF OnlyBusyTwins
  <2>2. x # n /\ y # n
    BY <1>6, <2>1 DEF Twins
  <2>3. Twins(x, y)
    BY <1>5, <1>7, <2>1, <2>2 DEF Twins
  <2> QED BY <1>1, <2>2, <2>3 DEF BInv, OnlyBusyTwins, Busy
<1>13. CallOK'
  BY <1>2 DEF CallOK
<1>14. AskedFit'
  <2>1. DOMAIN asked' = {m \in Blocks : ~header'[m].free}
    BY <1>1, <1>2, <1>5, <1>6 DEF BInv, AskedFit
  <2>2. ASSUME NEW m \in DOMAIN asked'
        PROVE  asked'[m] \in RequestBytes /\ asked'[m] + SizeOfNode <= Size(m)'
    <3>1. CASE m = n
      BY <1>2, <1>3, <1>8, <3>1
    <3>2. CASE m # n
      <4>1. m \in DOMAIN asked /\ asked'[m] = asked[m] /\ m \in Blocks
        BY <1>2, <2>1, <2>2, <3>2
      <4> QED BY <1>8, <4>1 DEF BInv, AskedFit
    <3> QED BY <3>1, <3>2
  <2> QED BY <1>5, <2>1, <2>2 DEF AskedFit, SizeOfNode
<1>15. LostOnlyIfNoFit'
  BY <1>2 DEF LostOnlyIfNoFit
<1> QED BY <1>8, <1>10, <1>11, <1>12, <1>13, <1>14, <1>15 DEF BInv

(* free marks its block before it puts it on a list.                       *)
LEMMA FreeCallStep ==
  ASSUME BInv, NEW n \in DOMAIN asked, FreeCall(n)
  PROVE  BInv'
<1>1. n \in Blocks /\ ~header[n].free
  BY DEF BInv, AskedFit
<1>2. /\ op = "idle" /\ op' = "free" /\ buckets' = buckets /\ node' = n
      /\ header' = [header EXCEPT ![n].free = TRUE]
      /\ asked' = [m \in DOMAIN asked \ {n} |-> asked[m]]
  BY DEF FreeCall
<1>4. \A m \in Blocks : header[m] \in [bucket : Buckets, free : BOOLEAN]
  BY DEF BInv, Typed
<1>5. /\ Blocks' = Blocks /\ header'[n] = [header[n] EXCEPT !.free = TRUE]
      /\ \A m \in Blocks : m # n => header'[m] = header[m]
  BY <1>1, <1>2 DEF Blocks
<1>6. /\ header'[n].bucket = header[n].bucket /\ header'[n].free
      /\ \A m \in Blocks : header'[m] \in [bucket : Buckets, free : BOOLEAN]
  BY <1>1, <1>4, <1>5
<1>7. \A m \in Blocks : Level(m)' = Level(m)
  BY <1>5, <1>6 DEF Level
<1>8. Tiled' /\ \A m \in Blocks : Size(m)' = Size(m)
  BY <1>5, <1>7, SameTiling DEF BInv
<1>9. \A k \in Buckets : FreeAt(k)' = FreeAt(k)
  BY <1>1, <1>2, <1>5, <1>6, <1>7 DEF FreeAt, Busy
<1>10. ListsHoldFree'
  <2>1. SUFFICES ASSUME NEW k \in Buckets PROVE OnList(buckets[k], FreeAt(k)')
    BY <1>2 DEF ListsHoldFree, Buckets, bucketsAmount, OnList
  <2> QED BY <1>9 DEF BInv, ListsHoldFree
<1>11. Typed'
  BY <1>2, <1>5, <1>6 DEF BInv, Typed, Buckets, bucketsAmount
<1>12. OnlyBusyTwins'
  <2>1. SUFFICES ASSUME NEW x \in Blocks, NEW y \in Blocks, Twins(x, y)', x # n, y # n
                 PROVE  FALSE
    BY <1>2, <1>5 DEF OnlyBusyTwins, Busy
  <2>3. Twins(x, y)
    BY <1>5, <1>7, <2>1 DEF Twins
  <2> QED BY <1>2, <2>3 DEF BInv, OnlyBusyTwins, Busy
<1>13. CallOK'
  BY <1>1, <1>2, <1>5, <1>6 DEF CallOK
<1>14. AskedFit'
  <2>1. DOMAIN asked' = {m \in Blocks : ~header'[m].free}
    BY <1>1, <1>2, <1>5, <1>6 DEF BInv, AskedFit
  <2>2. ASSUME NEW m \in DOMAIN asked'
        PROVE  asked'[m] \in RequestBytes /\ asked'[m] + SizeOfNode <= Size(m)'
    <3>1. m \in DOMAIN asked /\ asked'[m] = asked[m] /\ m \in Blocks
      BY <1>2, <2>1, <2>2
    <3> QED BY <1>8, <3>1 DEF BInv, AskedFit
  <2> QED BY <1>5, <2>1, <2>2 DEF AskedFit, SizeOfNode
<1>15. LostOnlyIfNoFit'
  BY <1>2 DEF LostOnlyIfNoFit
<1> QED BY <1>8, <1>10, <1>11, <1>12, <1>13, <1>14, <1>15 DEF BInv

(* free puts its block on a list when its buddy is not free or is split.   *)
LEMMA FreeReturnsStep ==
  ASSUME BInv, FreeReturns
  PROVE  BInv'
<1>1. PICK n \in Blocks : n = node /\ header[n].free
  BY DEF BInv, CallOK, FreeReturns
<1>2. PICK b \in Buckets : b = Level(n) /\ b = header[n].bucket /\ n \in Nat
  BY SizeOfBlock DEF BInv, Tiled, Level
<1>3. /\ op = "free" /\ op' = "idle" /\ asked' = asked /\ header' = header
      /\ buckets' = [buckets EXCEPT ![b] = ListPush(@, n)]
  BY <1>1, <1>2 DEF FreeReturns, Return
<1>5. /\ Blocks' = Blocks /\ \A m \in Blocks : Level(m)' = Level(m)
      /\ \A x, y \in Blocks : Twins(x, y)' <=> Twins(x, y)
  BY <1>3, SameHeaders
<1>6. Tiled' /\ \A m \in Blocks : Size(m)' = Size(m)
  BY <1>5, SameTiling DEF BInv
<1>7. FreeAt(b)' = FreeAt(b) \cup {n}
  BY <1>1, <1>2, <1>3, <1>5 DEF FreeAt, Busy
<1>8. \A k \in Buckets : k # b => FreeAt(k)' = FreeAt(k)
  BY <1>1, <1>2, <1>3, <1>5 DEF FreeAt, Busy
<1>9. n \notin FreeAt(b) /\ OnList(ListPush(buckets[b], n), FreeAt(b) \cup {n})
  <2>1. n \notin FreeAt(b)
    BY <1>1, <1>3 DEF FreeAt, Busy
  <2> QED BY <1>2, <2>1, PushOnList DEF BInv, ListsHoldFree
<1>10. /\ buckets' \in [Buckets -> Seq(Nat)] /\ buckets'[b] = ListPush(buckets[b], n)
       /\ \A k \in Buckets : k # b => buckets'[k] = buckets[k]
  BY <1>3, <1>9 DEF BInv, Typed, OnList
<1>11. ListsHoldFree'
  <2>1. SUFFICES ASSUME NEW k \in Buckets PROVE OnList(buckets'[k], FreeAt(k)')
    BY DEF ListsHoldFree, Buckets, bucketsAmount, OnList
  <2>2. CASE k = b
    BY <1>7, <1>9, <1>10, <2>2
  <2>3. CASE k # b
    BY <1>8, <1>10, <2>3 DEF BInv, ListsHoldFree
  <2> QED BY <2>2, <2>3
<1>12. Typed'
  BY <1>3, <1>5, <1>10 DEF BInv, Typed, Buckets, bucketsAmount
<1>13. OnlyBusyTwins'
  <2>1. SUFFICES ASSUME NEW x \in Blocks, NEW y \in Blocks, Twins(x, y)
                 PROVE  FALSE
    BY <1>5 DEF OnlyBusyTwins
  <2>2. /\ Level(x) # Top /\ Level(x) \in Buckets /\ x \in Nat /\ x % BlockSize(Level(x)) = 0
    BY <2>1, TwinsBelowTop, SizeOfBlock DEF BInv, Tiled, Size
  <2>3. GetNodeBuddy(y, Level(x)) = x /\ y = GetNodeBuddy(x, Level(x)) /\ Level(y) = Level(x)
        /\ header[x].free /\ header[y].free
    BY <2>1, <2>2, BuddyBack DEF Twins
  <2>4. x = n \/ y = n
    BY <1>1, <2>1 DEF BInv, OnlyBusyTwins, Busy
  <2>5. ~Mergeable
    BY DEF FreeReturns
  <2>6. ~(/\ b # Top
          /\ header[GetNodeBuddy(n, b)].bucket = b
          /\ header[GetNodeBuddy(n, b)].free)
    BY <1>1, <1>2, <2>5 DEF Mergeable, Top
  <2> QED BY <1>2, <2>2, <2>3, <2>4, <2>6 DEF Level
<1>14. CallOK'
  BY <1>3 DEF CallOK
<1>15. AskedFit'
  BY <1>3, <1>5, <1>6 DEF BInv, AskedFit
<1>16. LostOnlyIfNoFit'
  BY <1>3 DEF LostOnlyIfNoFit
<1> QED BY <1>6, <1>11, <1>12, <1>13, <1>14, <1>15, <1>16 DEF BInv

(* A merge makes one block of two, whose buddy may be free in turn.        *)
LEMMA MergeStep ==
  ASSUME BInv, Merge
  PROVE  BInv'
<1>1. PICK n \in Blocks : n = node /\ header[n].free
  BY DEF BInv, CallOK, Merge
<1>2. PICK b \in Buckets : b = Level(n) /\ b = header[n].bucket /\ n \in Nat /\ n % BlockSize(b) = 0
  BY SizeOfBlock DEF BInv, Tiled, Level, Size
<1>3. b # Top
  BY <1>1, <1>2 DEF Merge, Mergeable, Top
<1>4. PICK d \in Blocks : d = GetNodeBuddy(n, b) /\ d # n
  BY <1>2, <1>3, BuddyIsBlock DEF BInv
<1>5. Level(d) = b /\ header[d].free
  BY <1>1, <1>2, <1>4 DEF Merge, Mergeable, Level
<1>6. PICK p \in Blocks, u \in Blocks :
        /\ p = GetNodeAddress(n, b) /\ u = p + BlockSize(b) /\ p % BlockSize(b + 1) = 0
        /\ \/ n = p /\ d = u
           \/ n = u /\ d = p
  <2>1. PICK q \in Nat :
           /\ q % BlockSize(b + 1) = 0 /\ GetNodeAddress(n, b) = q
           /\ \/ n = q /\ GetNodeBuddy(n, b) = q + BlockSize(b)
              \/ n = q + BlockSize(b) /\ GetNodeBuddy(n, b) = q
    BY <1>2, <1>3, Pair
  <2>2. q \in Blocks /\ q + BlockSize(b) \in Blocks
    BY <1>4, <2>1
  <2> QED BY <1>4, <2>1, <2>2
<1>7. /\ p # u /\ p \in Nat /\ Level(p) = b /\ Level(u) = b /\ header[p].free /\ header[u].free
  BY <1>1, <1>2, <1>4, <1>5, <1>6, SizeOfBlock DEF BInv, Tiled
<1>8. /\ op = "free" /\ op' = "free" /\ asked' = asked /\ node' = p
      /\ buckets' = [buckets EXCEPT ![b] = ListRemove(@, d)]
      /\ header' = [m \in Blocks \ {u} |->
                      IF m = p THEN [header[m] EXCEPT !.bucket = b + 1] ELSE header[m]]
  BY <1>1, <1>2, <1>4, <1>6 DEF Merge
<1>9. \A m \in Blocks : header[m] \in [bucket : Buckets, free : BOOLEAN]
  BY DEF BInv, Typed
<1>10. /\ Blocks' = Blocks \ {u}
       /\ header'[p] = [header[p] EXCEPT !.bucket = b + 1]
       /\ \A m \in Blocks : m \notin {p, u} => header'[m] = header[m]
  BY <1>7, <1>8 DEF Blocks
<1>11. /\ Level(p)' = b + 1 /\ header'[p].free /\ b + 1 # b
       /\ header'[p] \in [bucket : Buckets, free : BOOLEAN]
  <2>1. b + 1 \in Buckets /\ b \in Nat
    BY <1>2, <1>3, Sizes, BucketNumbers
  <2>2. header[p] \in [bucket : Buckets, free : BOOLEAN]
    BY <1>9
  <2> QED BY <1>7, <1>10, <2>1, <2>2 DEF Level
<1>12. \A m \in Blocks : m \notin {p, u} => Level(m)' = Level(m)
  BY <1>10 DEF Level
<1>13. Tiled'
  BY <1>3, <1>6, <1>7, <1>10, <1>11, <1>12, PairTiles DEF BInv
<1>14. FreeAt(b)' = FreeAt(b) \ {d}
  BY <1>1, <1>2, <1>6, <1>7, <1>8, <1>10, <1>11, <1>12 DEF FreeAt, Busy
<1>15. \A k \in Buckets : k # b => FreeAt(k)' = FreeAt(k)
  BY <1>1, <1>6, <1>7, <1>8, <1>10, <1>11, <1>12 DEF FreeAt, Busy
<1>16. d \in FreeAt(b) /\ OnList(ListRemove(buckets[b], d), FreeAt(b) \ {d})
  <2>1. d \in FreeAt(b)
    BY <1>1, <1>4, <1>5 DEF FreeAt, Busy
  <2> QED BY <2>1, RemoveOffList DEF BInv, ListsHoldFree
<1>17. /\ buckets' \in [Buckets -> Seq(Nat)] /\ buckets'[b] = ListRemove(buckets[b], d)
       /\ \A k \in Buckets : k # b => buckets'[k] = buckets[k]
  BY <1>8, <1>16 DEF BInv, Typed, OnList
<1>18. ListsHoldFree'
  <2>1. SUFFICES ASSUME NEW k \in Buckets PROVE OnList(buckets'[k], FreeAt(k)')
    BY DEF ListsHoldFree, Buckets, bucketsAmount, OnList
  <2>2. CASE k = b
    BY <1>14, <1>16, <1>17, <2>2
  <2>3. CASE k # b
    BY <1>15, <1>17, <2>3 DEF BInv, ListsHoldFree
  <2> QED BY <2>2, <2>3
<1>19. Typed'
  BY <1>8, <1>9, <1>10, <1>11, <1>17 DEF Typed, Buckets, bucketsAmount
<1>20. OnlyBusyTwins'
  <2>1. SUFFICES ASSUME NEW x \in Blocks', NEW y \in Blocks', Twins(x, y)', x # p, y # p
                 PROVE  FALSE
    BY <1>8 DEF OnlyBusyTwins, Busy
  <2>2. x \in Blocks /\ x \notin {p, u} /\ y \in Blocks /\ y \notin {p, u}
    BY <1>10, <2>1
  <2>3. Twins(x, y)
    BY <1>10, <1>12, <2>1, <2>2 DEF Twins
  <2> QED BY <1>1, <1>6, <2>2, <2>3 DEF BInv, OnlyBusyTwins, Busy
<1>21. CallOK'
  BY <1>7, <1>8, <1>10, <1>11 DEF CallOK
<1>22. AskedFit'
  <2>1. DOMAIN asked = {m \in Blocks' : ~header'[m].free}
    BY <1>7, <1>10, <1>11 DEF BInv, AskedFit
  <2>2. \A m \in DOMAIN asked : asked[m] \in RequestBytes /\ asked[m] + SizeOfNode <= Size(m)'
    <3>1. \A m \in DOMAIN asked : m \in Blocks /\ m \notin {p, u}
      BY <1>7 DEF BInv, AskedFit
    <3>2. \A m \in DOMAIN asked : Size(m)' = Size(m)
      BY <1>12, <3>1 DEF Size
    <3> QED BY <3>2 DEF BInv, AskedFit
  <2> QED BY <1>8, <2>1, <2>2 DEF AskedFit, SizeOfNode
<1>23. LostOnlyIfNoFit'
  BY <1>8 DEF LostOnlyIfNoFit
<1> QED BY <1>13, <1>18, <1>19, <1>20, <1>21, <1>22, <1>23 DEF BInv
-----------------------------------------------------------------------------
LEMMA InitBInv == Init => BInv
<1> SUFFICES ASSUME Init PROVE BInv
  OBVIOUS
<1>1. /\ maximumBucketSize \in Nat \ {0} /\ Top \in Buckets /\ BlockSize(Top) = maximumBucketSize
      /\ Top = bucketsAmount - 1
  BY Sizes DEF Top
<1>2. Blocks = {0} /\ header[0] = [bucket |-> Top, free |-> TRUE] /\ op = "idle"
  BY <1>1 DEF Init, Blocks
<1>3. Level(0) = Top /\ Size(0) = maximumBucketSize /\ header[0].free
  BY <1>1, <1>2 DEF Level, Size
<1>4. buckets \in [Buckets -> Seq(Nat)] /\ buckets[Top] = <<0>>
      /\ \A k \in Buckets : k # Top => buckets[k] = << >>
  BY <1>1 DEF Init
<1>5. Typed
  <2>1. header[0] \in [bucket : Buckets, free : BOOLEAN]
    BY <1>1, <1>2
  <2> QED BY <1>2, <1>4, <2>1 DEF Typed
<1>6. Tiled
  <2>1. 0 % maximumBucketSize = 0
    BY <1>1
  <2>2. Aligned
    BY <1>1, <1>2, <1>3, <2>1 DEF Aligned
  <2>3. Apart
    BY <1>2 DEF Apart
  <2>4. Covered
    BY <1>1, <1>2, <1>3 DEF Covered
  <2> QED BY <2>2, <2>3, <2>4 DEF Tiled
<1>7. ListsHoldFree
  <2> SUFFICES ASSUME NEW k \in Buckets PROVE OnList(buckets[k], FreeAt(k))
    BY DEF ListsHoldFree
  <2>1. CASE k = Top
    <3>1. FreeAt(Top) = {0}
      BY <1>2, <1>3 DEF FreeAt, Busy
    <3>2. /\ <<0>> \in Seq(Nat) /\ Len(<<0>>) = 1 /\ <<0>>[1] = 0
      OBVIOUS
    <3>3. OnList(<<0>>, {0})
      BY <3>2 DEF OnList
    <3> QED BY <1>4, <2>1, <3>1, <3>3
  <2>2. CASE k # Top
    <3>1. FreeAt(k) = {}
      BY <1>2, <1>3, <2>2 DEF FreeAt
    <3>2. OnList(<< >>, {})
      BY DEF OnList
    <3> QED BY <1>4, <2>2, <3>1, <3>2
  <2> QED BY <2>1, <2>2
<1>8. OnlyBusyTwins
  BY <1>2 DEF OnlyBusyTwins, Twins
<1>9. CallOK
  BY <1>2 DEF CallOK
<1>10. AskedFit
  <2>1. DOMAIN asked = {}
    BY DEF Init
  <2> QED BY <1>2, <1>3, <2>1 DEF AskedFit
<1>11. LostOnlyIfNoFit
  BY <1>2 DEF LostOnlyIfNoFit
<1> QED BY <1>5, <1>6, <1>7, <1>8, <1>9, <1>10, <1>11 DEF BInv

LEMMA StutterStep ==
  ASSUME BInv, UNCHANGED vars
  PROVE  BInv'
<1>1. /\ header' = header /\ buckets' = buckets /\ asked' = asked /\ op' = op
      /\ node' = node /\ nbytes' = nbytes /\ availableBucket' = availableBucket
  BY DEF vars, callVars
<1>2. /\ Blocks' = Blocks /\ \A n \in Blocks : Level(n)' = Level(n)
      /\ \A m, n \in Blocks : Twins(m, n)' <=> Twins(m, n)
  BY <1>1, SameHeaders
<1>3. Tiled' /\ \A n \in Blocks : Size(n)' = Size(n)
  BY <1>2, SameTiling DEF BInv
<1>4. \A n : Busy(n)' <=> Busy(n)
  BY <1>1 DEF Busy
<1>5. Typed'
  BY <1>1, <1>2 DEF BInv, Typed, Buckets, bucketsAmount
<1>6. ListsHoldFree'
  <2>1. SUFFICES ASSUME NEW k \in Buckets PROVE OnList(buckets[k], FreeAt(k)')
    BY <1>1 DEF ListsHoldFree, Buckets, bucketsAmount, OnList
  <2>2. FreeAt(k)' = FreeAt(k)
    BY <1>1, <1>2, <1>4 DEF FreeAt
  <2> QED BY <2>2 DEF BInv, ListsHoldFree
<1>7. OnlyBusyTwins'
  BY <1>2, <1>4 DEF BInv, OnlyBusyTwins
<1>8. CallOK'
  BY <1>1, <1>2 DEF BInv, CallOK, SizeOfNode, maximumBucketSize
<1>9. AskedFit'
  BY <1>1, <1>2, <1>3 DEF BInv, AskedFit
<1>10. LostOnlyIfNoFit'
  BY <1>1, <1>2 DEF BInv, LostOnlyIfNoFit, SizeOfNode
<1> QED BY <1>3, <1>5, <1>6, <1>7, <1>8, <1>9, <1>10 DEF BInv

LEMMA NextBInv == BInv /\ [Next]_vars => BInv'
<1> SUFFICES ASSUME BInv, [Next]_vars PROVE BInv'
  OBVIOUS
<1>1. ASSUME NEW request \in RequestBytes, MallocCall(request) PROVE BInv'
  BY <1>1, MallocCallStep
<1>2. CASE Split
  BY <1>2, SplitStep
<1>3. CASE MallocReturns
  BY <1>3, MallocReturnsStep
<1>4. ASSUME NEW n \in DOMAIN asked, FreeCall(n) PROVE BInv'
  BY <1>4, FreeCallStep
<1>5. CASE Merge
  BY <1>5, MergeStep
<1>6. CASE FreeReturns
  BY <1>6, FreeReturnsStep
<1>7. CASE UNCHANGED vars
  BY <1>7, StutterStep
<1> QED BY <1>1, <1>2, <1>3, <1>4, <1>5, <1>6, <1>7 DEF Next

LEMMA Invariance == Spec => []BInv
<1> QED
  BY InitBInv, NextBInv, PTL DEF Spec

(* Every 16 bytes of the heap belong to exactly one block, between the     *)
(* iterations of malloc's and free's loops too.                            *)
THEOREM HeapPartitionHolds == Spec => []HeapPartition
<1>1. ASSUME BInv PROVE HeapPartition
  <2> SUFFICES ASSUME NEW cell \in Offsets
               PROVE  Cardinality({n \in Blocks : cell \in Cells(n)}) = 1
    BY DEF HeapPartition
  <2>1. PICK M \in Nat \ {0} : M = maximumBucketSize /\ M = BlockSize(bucketsAmount - 1) /\ BlockSize(0) = 16
    BY Sizes DEF Top
  <2>2. PICK i \in 0..(M \div 16 - 1) : cell = 16 * i
    BY <2>1 DEF Offsets
  <2>3. cell \in 0..(M - 1)
    <3>1. PICK q \in Nat : q = M \div 16 /\ M >= 16 * q
      BY Quotient
    <3> QED BY <2>2, <3>1
  <2>4. PICK m \in Blocks : m <= cell /\ cell < m + Size(m)
    BY <1>1, <2>1, <2>3 DEF BInv, Tiled, Covered
  <2>5. \A n \in Blocks : cell \in Cells(n) <=> n <= cell /\ cell < n + Size(n)
    <3> SUFFICES ASSUME NEW n \in Blocks
                 PROVE  cell \in Cells(n) <=> n <= cell /\ cell < n + Size(n)
      OBVIOUS
    <3>1. n \in Nat /\ Size(n) \in Nat /\ Cells(n) = n..(n + Size(n) - 1)
      BY <1>1, SizeOfBlock DEF BInv, Tiled, Cells, Size, Level
    <3> QED BY <2>3, <3>1
  <2>6. \A n \in Blocks : n <= cell /\ cell < n + Size(n) => n = m
    BY <1>1, <2>3, <2>4, OneOwner DEF BInv
  <2>7. {n \in Blocks : cell \in Cells(n)} = {m}
    BY <2>4, <2>5, <2>6
  <2> QED BY <2>7, FS_Singleton
<1> QED
  BY <1>1, Invariance, PTL

(* A block is on the list of its bucket, once, if its header says free, and *)
(* on no list otherwise: free, which decides by the header, unlinks only   *)
(* what is linked.                                                         *)
THEOREM HeadersMatchListsHolds == Spec => []HeadersMatchLists
<1>1. ASSUME BInv PROVE HeadersMatchLists
  <2> SUFFICES ASSUME NEW k \in Buckets
               PROVE  /\ Listed(k) = {n \in Blocks : /\ header[n].bucket = k
                                                     /\ header[n].free
                                                     /\ op \in {"malloc", "free"} => n # node}
                      /\ Len(buckets[k]) = Cardinality(Listed(k))
    BY DEF HeadersMatchLists
  <2>1. FreeAt(k) = {n \in Blocks : /\ header[n].bucket = k
                                    /\ header[n].free
                                    /\ op \in {"malloc", "free"} => n # node}
    BY DEF FreeAt, Level, Busy
  <2>2. ToSet(buckets[k]) = FreeAt(k) /\ Len(buckets[k]) = Cardinality(FreeAt(k))
    BY <1>1, CountOnList DEF BInv, ListsHoldFree
  <2> QED BY <2>1, <2>2 DEF Listed
<1> QED
  BY <1>1, Invariance, PTL

(* Between calls no two buddies are both free: free merges as far as it    *)
(* can, whatever the order of the frees.                                   *)
THEOREM BuddiesCoalesced == Spec => []Coalesced
<1>1. ASSUME BInv PROVE Coalesced
  <2> SUFFICES ASSUME op = "idle", NEW m \in Blocks, NEW n \in Blocks, Twins(m, n)
               PROVE  FALSE
    BY DEF Coalesced, Twins, Level
  <2> QED BY <1>1 DEF BInv, OnlyBusyTwins, Busy
<1> QED
  BY <1>1, Invariance, PTL

(* malloc pops from beyond the lists only when no free block is as large   *)
(* as the request and its header.                                          *)
THEOREM LostOnlyIfNoFitHolds == Spec => []LostOnlyIfNoFit
<1>1. BInv => LostOnlyIfNoFit
  BY DEF BInv
<1> QED
  BY <1>1, Invariance, PTL

-----------------------------------------------------------------------------
(* The blocks in use, as the abstract allocator sees them.                 *)
Held(n) == [start |-> n, len |-> asked[n] + SizeOfNode]
HeldBlocks == {Held(n) : n \in DOMAIN asked}

(* What is in use lies in its block.                                       *)
LEMMA HeldFit ==
  ASSUME BInv, NEW n \in DOMAIN asked
  PROVE  /\ n \in Blocks /\ ~header[n].free /\ n \in Nat /\ Size(n) \in Nat
         /\ asked[n] + SizeOfNode \in Nat /\ asked[n] + SizeOfNode <= Size(n)
<1>1. n \in Blocks /\ ~header[n].free /\ asked[n] \in RequestBytes /\ asked[n] + SizeOfNode <= Size(n)
  BY DEF BInv, AskedFit
<1>2. asked[n] + SizeOfNode \in Nat
  <2>1. PICK r \in Nat : r = asked[n]
    BY <1>1, BuddyAssumption
  <2>2. r + 24 \in Nat
    OBVIOUS
  <2> QED BY <2>1, <2>2 DEF SizeOfNode
<1> QED BY <1>1, <1>2, SizeOfBlock DEF BInv, Tiled

(* The return of malloc is the step Alloc, and the call of free is Free.   *)
LEMMA MallocRefines ==
  ASSUME BInv, MallocReturns
  PROVE  \E start \in 0..(maximumBucketSize - 1), len \in {request + SizeOfNode : request \in RequestBytes} :
           /\ start..(start + len - 1) \subseteq 0..(maximumBucketSize - 1)
           /\ \A c \in HeldBlocks : (start..(start + len - 1)) \cap (c.start..(c.start + c.len - 1)) = {}
           /\ HeldBlocks' = HeldBlocks \cup {[start |-> start, len |-> len]}
<1>1. PICK n \in Blocks : n = node /\ header[n].free
  BY DEF BInv, CallOK, MallocReturns
<1>2. BInv'
  BY MallocReturnsStep
<1>3. asked' = [m \in DOMAIN asked \cup {n} |-> IF m = n THEN nbytes ELSE asked[m]]
  BY <1>1 DEF MallocReturns
<1>4. nbytes \in RequestBytes
  BY DEF BInv, CallOK, MallocReturns
<1>5. PICK len \in Nat : len = nbytes + SizeOfNode
  BY <1>4, BuddyAssumption DEF SizeOfNode
<1>6. \A m \in Blocks : Level(m)' = Level(m) /\ Size(m)' = Size(m)
  <2>1. \A m \in Blocks : header[m] \in [bucket : Buckets, free : BOOLEAN]
    BY DEF BInv, Typed
  <2>2. \A m \in Blocks : header'[m].bucket = header[m].bucket
    BY <1>1, <2>1 DEF MallocReturns, Blocks
  <2> QED BY <2>2 DEF Level, Size
<1>7. n \in Nat /\ Size(n) \in Nat \ {0} /\ n + Size(n) <= maximumBucketSize /\ maximumBucketSize \in Nat
  BY SizeOfBlock, Sizes DEF BInv, Tiled, Aligned
<1>8. len <= Size(n)
  <2>1. n \in DOMAIN asked' /\ asked'[n] = nbytes
    BY <1>3
  <2>2. asked'[n] + SizeOfNode <= Size(n)'
    BY <1>2, <2>1 DEF BInv, AskedFit, SizeOfNode
  <2> QED BY <1>1, <1>5, <1>6, <2>1, <2>2
<1>9. n \notin DOMAIN asked
  BY <1>1, HeldFit
<1>10. n \in 0..(maximumBucketSize - 1) /\ n..(n + len - 1) \subseteq 0..(maximumBucketSize - 1)
  BY <1>5, <1>7, <1>8
<1>11. \A c \in HeldBlocks : (n..(n + len - 1)) \cap (c.start..(c.start + c.len - 1)) = {}
  <2> SUFFICES ASSUME NEW m \in DOMAIN asked, NEW x \in n..(n + len - 1),
                      x \in m..(m + (asked[m] + SizeOfNode) - 1)
               PROVE  FALSE
    BY DEF HeldBlocks, Held
  <2>1. /\ m \in Blocks /\ m \in Nat /\ Size(m) \in Nat
        /\ asked[m] + SizeOfNode \in Nat /\ asked[m] + SizeOfNode <= Size(m)
    BY HeldFit
  <2>2. x \in Nat /\ n <= x /\ x < n + Size(n) /\ m <= x /\ x < m + Size(m)
    BY <1>5, <1>7, <1>8, <2>1
  <2>3. m = n
    BY <2>1, <2>2, OneOwner DEF BInv
  <2> QED BY <1>9, <2>3
<1>12. HeldBlocks' = HeldBlocks \cup {[start |-> n, len |-> len]}
  <2>1. DOMAIN asked' = DOMAIN asked \cup {n} /\ asked'[n] = nbytes
    BY <1>3
  <2>2. \A m \in DOMAIN asked : asked'[m] = asked[m]
    BY <1>3, <1>9
  <2>3. Held(n)' = [start |-> n, len |-> len]
    BY <1>5, <2>1 DEF Held, SizeOfNode
  <2>4. \A m \in DOMAIN asked : Held(m)' = Held(m)
    BY <2>2 DEF Held, SizeOfNode
  <2> QED BY <2>1, <2>3, <2>4 DEF HeldBlocks
<1> QED BY <1>4, <1>5, <1>10, <1>11, <1>12

LEMMA FreeRefines ==
  ASSUME BInv, NEW n \in DOMAIN asked, FreeCall(n)
  PROVE  \E b \in HeldBlocks : HeldBlocks' = HeldBlocks \ {b}
<1>1. asked' = [m \in DOMAIN asked \ {n} |-> asked[m]]
  BY DEF FreeCall
<1>2. DOMAIN asked' = DOMAIN asked \ {n} /\ \A m \in DOMAIN asked : m # n => asked'[m] = asked[m]
  BY <1>1
<1>3. \A m \in DOMAIN asked : m # n => Held(m)' = Held(m) /\ Held(m) # Held(n)
  BY <1>2 DEF Held, SizeOfNode
<1>4. HeldBlocks' = HeldBlocks \ {Held(n)}
  BY <1>2, <1>3 DEF HeldBlocks
<1>5. Held(n) \in HeldBlocks
  BY DEF HeldBlocks
<1> QED BY <1>4, <1>5

LEMMA StepRefines ==
  ASSUME BInv, [Next]_vars
  PROVE  [Served!Next]_HeldBlocks
<1>1. ASSUME asked' = asked PROVE HeldBlocks' = HeldBlocks
  BY <1>1 DEF HeldBlocks, Held, SizeOfNode
<1>2. ASSUME NEW request \in RequestBytes, MallocCall(request) PROVE asked' = asked
  BY <1>2 DEF MallocCall
<1>3. Split \/ Merge \/ FreeReturns \/ UNCHANGED vars => asked' = asked
  BY DEF Split, Merge, FreeReturns, vars
<1>4. CASE MallocReturns
  BY <1>4, MallocRefines
     DEF Served!Next, Served!Alloc, Served!Cells, HeldBlocks, Held
<1>5. ASSUME NEW n \in DOMAIN asked, FreeCall(n) PROVE Served!Next
  BY <1>5, FreeRefines DEF Served!Next, Served!Free, HeldBlocks, Held
<1> QED BY <1>1, <1>2, <1>3, <1>4, <1>5 DEF Next

(* The buddy manager implements the abstract allocator: the bytes a caller *)
(* asked for, and the header before them, lie in the heap and in nobody    *)
(* else's.                                                                 *)
THEOREM Refinement == Spec => ImplementsAllocator
<1>1. Init => Served!Init
  BY DEF Init, Served!Init
<1>2. BInv /\ [Next]_vars
        => [Served!Next]_({[start |-> n, len |-> asked[n] + SizeOfNode] : n \in DOMAIN asked})
  BY StepRefines DEF HeldBlocks, Held
<1> QED
  BY <1>1, <1>2, Invariance, PTL DEF Spec, ImplementsAllocator, Served!Spec
============================================================================
