----------------------------- MODULE RingLemmas -----------------------------
(***************************************************************************)
(* Ring buffers: n elements of an array of N cells, from cell r on and     *)
(* around its end, are a queue.                                            *)
(***************************************************************************)
EXTENDS Integers, Sequences, SequenceTheorems, TLAPS

(* An index that has gone past the end of the array at most once. *)
Place(x, N) == IF x < N THEN x ELSE x - N

Arrays(S, N) == [0..(N - 1) -> S]

(* The array with c in cell w. *)
Written(b, w, c) == [b EXCEPT ![w] = c]

(* The n elements from cell r on. *)
Queue(b, n, r, N) == [i \in 1..n |-> b[(r + i - 1) % N]]

LEMMA Around ==
  ASSUME NEW N \in Nat \ {0}, NEW x \in Nat, x < 2 * N
  PROVE  x % N = Place(x, N)
BY DEF Place

(* Moving the read index on and taking one element off, or writing one     *)
(* more, keeps the distance of the indices.                                *)
LEMMA RingAdvance ==
  ASSUME NEW N \in Nat \ {0}, NEW r \in 0..(N - 1), NEW n \in 1..N
  PROVE  /\ (r + 1) % N \in 0..(N - 1)
         /\ (((r + 1) % N) + (n - 1)) % N = (r + n) % N
<1>1. N \in Nat /\ r \in Nat /\ n \in Nat /\ r < N /\ n <= N /\ n >= 1
  OBVIOUS
<1>2. (r + 1) % N = IF r + 1 < N THEN r + 1 ELSE 0
  BY <1>1, Around DEF Place
<1>3. (r + n) % N = IF r + n < N THEN r + n ELSE r + n - N
  <2>1. PICK x \in Nat : x = r + n /\ x < 2 * N
    BY <1>1
  <2>2. x % N = IF x < N THEN x ELSE x - N
    BY <2>1, Around DEF Place
  <2> QED BY <2>1, <2>2
<1>4. CASE r + 1 < N
  BY <1>1, <1>2, <1>4
<1>5. CASE ~(r + 1 < N)
  <2>1. r + n - N = n - 1 /\ ~(r + n < N) /\ n - 1 \in Nat /\ n - 1 < N
    BY <1>1, <1>5
  <2>2. (0 + (n - 1)) % N = n - 1
    BY <1>1, <2>1
  <2> QED BY <1>1, <1>2, <1>3, <1>5, <2>1, <2>2
<1> QED BY <1>4, <1>5

LEMMA RingGrow ==
  ASSUME NEW N \in Nat \ {0}, NEW r \in 0..(N - 1), NEW n \in 0..(N - 1)
  PROVE  /\ (r + n) % N \in 0..(N - 1)
         /\ (((r + n) % N) + 1) % N = (r + (n + 1)) % N
<1>1. N \in Nat /\ N > 0 /\ r \in Nat /\ n \in Nat /\ r < N /\ n < N
  OBVIOUS
<1>2. (r + n) % N = IF r + n < N THEN r + n ELSE r + n - N
  BY <1>1, Around DEF Place
<1>3. (r + (n + 1)) % N = IF r + n + 1 < N THEN r + n + 1 ELSE r + n + 1 - N
  <2>1. PICK x \in Nat : x = r + (n + 1) /\ x < 2 * N
    BY <1>1
  <2> QED BY <1>1, <2>1, Around DEF Place
<1>4. PICK w \in 0..(N - 1) : w = (r + n) % N
  BY <1>1, <1>2
<1>5. (w + 1) % N = IF w + 1 < N THEN w + 1 ELSE 0
  <2>1. PICK x \in Nat : x = w + 1 /\ x < 2 * N
    BY <1>1
  <2> QED BY <1>1, <2>1, Around DEF Place
<1> QED BY <1>1, <1>2, <1>3, <1>4, <1>5

LEMMA FunctionSeq ==
  ASSUME NEW S, NEW n \in Nat, NEW f \in [1..n -> S]
  PROVE  f \in Seq(S) /\ Len(f) = n
OBVIOUS

(* The sequence q is the n cells of b from r on. *)
Reads(q, S, b, n, r, N) ==
  q \in Seq(S) /\ Len(q) = n /\ \A i \in 1..n : q[i] = b[Place(r + i - 1, N)]

LEMMA RingReads ==
  ASSUME NEW S, NEW N \in Nat \ {0},
         NEW b \in Arrays(S, N), NEW n \in 0..N, NEW r \in 0..(N - 1)
  PROVE  Reads(Queue(b, n, r, N), S, b, n, r, N)
<1>1. N \in Nat /\ N > 0 /\ n \in Nat /\ r \in Nat /\ r < N /\ n <= N
  OBVIOUS
<1>2. \A i \in 1..n : (r + i - 1) % N = Place(r + i - 1, N)
  <2>1. SUFFICES ASSUME NEW i \in 1..n
                 PROVE  (r + i - 1) % N = Place(r + i - 1, N)
    OBVIOUS
  <2>2. PICK x \in Nat : x = r + i - 1 /\ x < 2 * N
    BY <1>1
  <2>3. x % N = Place(x, N)
    BY <2>2, Around DEF Place
  <2> QED BY <2>2, <2>3
<1>3. \A i \in 1..n : Place(r + i - 1, N) \in 0..(N - 1)
  BY <1>1 DEF Place
<1>4. Queue(b, n, r, N) \in [1..n -> S]
  BY <1>2, <1>3 DEF Queue, Arrays
<1>5. \A i \in 1..n : Queue(b, n, r, N)[i] = b[Place(r + i - 1, N)]
  BY <1>2 DEF Queue
<1> QED BY <1>1, <1>4, <1>5, FunctionSeq DEF Reads

LEMMA RingType ==
  ASSUME NEW S, NEW N \in Nat \ {0},
         NEW b \in Arrays(S, N), NEW n \in 0..N, NEW r \in 0..(N - 1)
  PROVE  /\ Queue(b, n, r, N) \in Seq(S)
         /\ Len(Queue(b, n, r, N)) = n
         /\ \A i \in 1..n : Queue(b, n, r, N)[i] = b[Place(r + i - 1, N)]
<1> DEFINE q == Queue(b, n, r, N)
<1>1. Reads(q, S, b, n, r, N)
  BY RingReads
<1> HIDE DEF q
<1>2. q \in Seq(S) /\ Len(q) = n /\ \A i \in 1..n : q[i] = b[Place(r + i - 1, N)]
  BY <1>1 DEF Reads
<1> QED BY <1>2 DEF q

(* Taking the first element moves the read index. *)
LEMMA RingTail ==
  ASSUME NEW S, NEW N \in Nat \ {0},
         NEW b \in Arrays(S, N), NEW n \in 1..N, NEW r \in 0..(N - 1)
  PROVE  /\ Queue(b, n, r, N) # <<>>
         /\ Head(Queue(b, n, r, N)) = b[r]
         /\ Tail(Queue(b, n, r, N)) = Queue(b, n - 1, Place(r + 1, N), N)
<1> DEFINE q == Queue(b, n, r, N)
           s == Place(r + 1, N)
           t == Queue(b, n - 1, s, N)
<1>1. N \in Nat /\ N > 0 /\ n \in Nat /\ r \in Nat /\ r < N /\ n <= N /\ n >= 1
  OBVIOUS
<1>2. s \in 0..(N - 1) /\ n - 1 \in 0..N /\ n \in 0..N
  BY <1>1 DEF Place
<1>3. q \in Seq(S) /\ Len(q) = n /\ \A i \in 1..n : q[i] = b[Place(r + i - 1, N)]
  <2>1. Reads(q, S, b, n, r, N)
    BY <1>2, RingReads
  <2> HIDE DEF q
  <2> QED BY <2>1 DEF Reads
<1>4. t \in Seq(S) /\ Len(t) = n - 1 /\ \A i \in 1..(n - 1) : t[i] = b[Place(s + i - 1, N)]
  <2>1. Reads(t, S, b, n - 1, s, N)
    <3> HIDE DEF s
    <3> QED BY <1>2, RingReads
  <2> HIDE DEF t, s
  <2> QED BY <2>1 DEF Reads
<1>5. \A i \in 1..(n - 1) : Place(s + i - 1, N) = Place(r + (i + 1) - 1, N) /\ i + 1 \in 1..n
  BY <1>1 DEF Place
<1>6. Place(r + 1 - 1, N) = r /\ 1 \in 1..n
  BY <1>1 DEF Place
<1> HIDE DEF q, t, s
<1>7. q # <<>>
  BY <1>1, <1>3, EmptySeq
<1>8. Head(q) = q[1] /\ q[1] = b[r]
  BY <1>3, <1>6, <1>7
<1>9. /\ Tail(q) \in Seq(S) /\ Len(Tail(q)) = n - 1
      /\ \A i \in 1..(n - 1) : Tail(q)[i] = q[i + 1]
  BY <1>3, <1>7, HeadTailProperties
<1>10. \A i \in 1..(n - 1) : Tail(q)[i] = t[i]
  BY <1>3, <1>4, <1>5, <1>9
<1>11. Tail(q) = t
  BY <1>4, <1>9, <1>10, SeqEqual
<1> QED BY <1>7, <1>8, <1>11 DEF q, t, s

(* An element written behind the last one is appended. *)
LEMMA RingAppend ==
  ASSUME NEW S, NEW N \in Nat \ {0},
         NEW b \in Arrays(S, N), NEW n \in 0..(N - 1), NEW r \in 0..(N - 1), NEW c \in S,
         NEW w, NEW m
  PROVE  w = Place(r + n, N) /\ m = n + 1
           => Queue(Written(b, w, c), m, r, N) = Append(Queue(b, n, r, N), c)
<1>0. SUFFICES ASSUME w = Place(r + n, N), m = n + 1
               PROVE  Queue(Written(b, w, c), m, r, N) = Append(Queue(b, n, r, N), c)
  OBVIOUS
<1> DEFINE d == Written(b, w, c)
           q == Queue(b, n, r, N)
           s == Queue(d, m, r, N)
<1>1. N \in Nat /\ N > 0 /\ n \in Nat /\ r \in Nat /\ r < N /\ n < N
  OBVIOUS
<1>2. w \in 0..(N - 1) /\ m \in 0..N /\ n \in 0..N
  BY <1>0, <1>1 DEF Place
<1>3. d \in Arrays(S, N)
  BY <1>2 DEF Arrays, Written
<1>4. q \in Seq(S) /\ Len(q) = n /\ \A i \in 1..n : q[i] = b[Place(r + i - 1, N)]
  <2>1. Reads(q, S, b, n, r, N)
    BY <1>2, RingReads
  <2> HIDE DEF q
  <2> QED BY <2>1 DEF Reads
<1>5. s \in Seq(S) /\ Len(s) = m /\ \A i \in 1..m : s[i] = d[Place(r + i - 1, N)]
  <2>1. Reads(s, S, d, m, r, N)
    <3> HIDE DEF d
    <3> QED BY <1>2, <1>3, RingReads
  <2> HIDE DEF s, d
  <2> QED BY <2>1 DEF Reads
<1>6. \A i \in 1..n : Place(r + i - 1, N) \in 0..(N - 1) /\ Place(r + i - 1, N) # w
  BY <1>0, <1>1 DEF Place
<1>7. Place(r + m - 1, N) = w /\ m \in 1..m
  BY <1>0, <1>1 DEF Place
<1>8. d[w] = c /\ \A j \in 0..(N - 1) : j # w => d[j] = b[j]
  BY <1>2 DEF Arrays, Written
<1> HIDE DEF d, q, s
<1>9. /\ Append(q, c) \in Seq(S) /\ Len(Append(q, c)) = m
      /\ \A i \in 1..n : Append(q, c)[i] = q[i]
      /\ Append(q, c)[m] = c
  BY <1>0, <1>4, AppendProperties
<1>10. \A i \in 1..m : i \in 1..n \/ i = m
  BY <1>0, <1>1
<1>11. \A i \in 1..m : s[i] = Append(q, c)[i]
  <2>1. ASSUME NEW i \in 1..n PROVE s[i] = Append(q, c)[i]
    <3>1. i \in 1..m
      BY <1>0, <1>1
    <3> QED BY <3>1, <1>4, <1>5, <1>6, <1>8, <1>9
  <2>2. s[m] = Append(q, c)[m]
    BY <1>5, <1>7, <1>8, <1>9
  <2> QED BY <1>10, <2>1, <2>2
<1>12. s = Append(q, c)
  BY <1>5, <1>9, <1>11, SeqEqual
<1> QED BY <1>12 DEF s, q, d
=============================================================================
