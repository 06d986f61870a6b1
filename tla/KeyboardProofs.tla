--------------------------- MODULE KeyboardProofs ---------------------------
(***************************************************************************)
(* The keyboard, for any readers and a buffer of any length: no reader     *)
(* sleeps over a key, and the ring buffer is a queue.                      *)
(*                                                                         *)
(* TokenForEveryKey is not inductive: semPost hands its token to the first *)
(* of the waiters, which adds a woken reader only if that one is asleep    *)
(* and stands in the list once (WaitersOK).  The queue needs the two       *)
(* indices to be as far apart as the buffer has keys (RingOK).             *)
(***************************************************************************)
EXTENDS Keyboard, RingLemmas, FiniteSetTheorems

RingOK ==
  /\ buffer \in [0..(BUFF_LEN - 1) -> Keys]
  /\ buffSize \in 0..BUFF_LEN
  /\ ridx \in 0..(BUFF_LEN - 1)
  /\ widx = (ridx + buffSize) % BUFF_LEN

WaitersOK ==
  /\ value \in Nat
  /\ status \in [Readers -> {"user", "asleep", "woken", "halted"}]
  /\ waiters \in Seq(Readers)
  /\ \A i \in 1..Len(waiters) : status[waiters[i]] = "asleep"
  /\ \A i, j \in 1..Len(waiters) : waiters[i] = waiters[j] => i = j

IInv == RingOK /\ WaitersOK /\ TokenForEveryKey
-----------------------------------------------------------------------------
LEMMA WokenType == IsFiniteSet(Woken) /\ Cardinality(Woken) \in Nat
BY KeyboardAssumption, FS_Subset, FS_CardinalityType DEF Woken

(* An index that runs past the end of the ring once. *)
LEMMA AroundRing ==
  ASSUME NEW x \in Nat, x < 2 * BUFF_LEN
  PROVE  x % BUFF_LEN = IF x < BUFF_LEN THEN x ELSE x - BUFF_LEN
BY KeyboardAssumption, Around DEF Place

LEMMA WholeTurn ==
  ASSUME NEW r \in 0..(BUFF_LEN - 1)
  PROVE  (r + BUFF_LEN) % BUFF_LEN = r
<1>1. BUFF_LEN \in Nat /\ BUFF_LEN > 0 /\ r \in Nat /\ r < BUFF_LEN
  BY KeyboardAssumption
<1>2. r + BUFF_LEN \in Nat /\ r + BUFF_LEN < 2 * BUFF_LEN /\ ~(r + BUFF_LEN < BUFF_LEN)
  BY <1>1
<1>3. (r + BUFF_LEN) % BUFF_LEN = (r + BUFF_LEN) - BUFF_LEN
  BY <1>2, AroundRing
<1> QED BY <1>1, <1>3

(* The indices stay in the ring and as far apart as they say. *)
LEMMA PutKeepsRing ==
  ASSUME RingOK, NEW c \in Keys, PutInRing(c, buffSize, ridx, widx)
  PROVE  RingOK' /\ buffSize' <= buffSize + 1
<1>1. BUFF_LEN \in Nat /\ BUFF_LEN > 0 /\ buffSize \in 0..BUFF_LEN /\ ridx \in 0..(BUFF_LEN - 1)
  BY KeyboardAssumption DEF RingOK
<1>2. widx = IF ridx + buffSize < BUFF_LEN THEN ridx + buffSize ELSE ridx + buffSize - BUFF_LEN
  BY <1>1, AroundRing DEF RingOK
<1>3. widx \in 0..(BUFF_LEN - 1)
  BY <1>1, <1>2
<1>4. widx' = IF widx + 1 < BUFF_LEN THEN widx + 1 ELSE 0
  BY <1>1, <1>3, AroundRing DEF PutInRing
<1>5. buffer' \in [0..(BUFF_LEN - 1) -> Keys]
  BY <1>3 DEF PutInRing, RingOK
<1>6. CASE buffSize < BUFF_LEN
  <2>1. buffSize' = buffSize + 1 /\ ridx' = ridx
    BY <1>6 DEF PutInRing
  <2>2. widx' = (ridx' + buffSize') % BUFF_LEN
    BY <1>1, <1>2, <1>4, <1>6, <2>1, AroundRing
  <2> QED BY <1>1, <1>5, <1>6, <2>1, <2>2 DEF RingOK
<1>7. CASE ~(buffSize < BUFF_LEN)
  <2>1. buffSize = BUFF_LEN /\ buffSize' = BUFF_LEN /\ ridx' = (ridx + 1) % BUFF_LEN
    BY <1>1, <1>7 DEF PutInRing
  <2>2. ridx' = (IF ridx + 1 < BUFF_LEN THEN ridx + 1 ELSE 0) /\ widx = ridx
    BY <1>1, <1>2, <2>1, AroundRing
  <2>3. ridx' \in 0..(BUFF_LEN - 1) /\ widx' = ridx'
    BY <1>1, <1>4, <2>2
  <2>4. (ridx' + BUFF_LEN) % BUFF_LEN = ridx'
    BY <2>3, WholeTurn
  <2> QED BY <1>1, <1>5, <2>1, <2>3, <2>4 DEF RingOK
<1> QED BY <1>6, <1>7

LEMMA RemoveKeepsRing ==
  ASSUME RingOK, NEW n \in 1..2, Remove(n), buffSize > 0
  PROVE  RingOK' /\ buffSize' < buffSize
<1> DEFINE taken == IF n <= buffSize THEN n ELSE buffSize
<1>1. BUFF_LEN \in Nat /\ BUFF_LEN > 0 /\ buffSize \in 0..BUFF_LEN /\ ridx \in 0..(BUFF_LEN - 1)
  BY KeyboardAssumption DEF RingOK
<1>2. taken \in 1..buffSize
  BY <1>1
<1>3. /\ ridx' = (ridx + taken) % BUFF_LEN
      /\ buffSize' = buffSize - taken
      /\ buffer' = buffer /\ widx' = widx
  BY DEF Remove
<1> HIDE DEF taken
<1>4. ridx' = IF ridx + taken < BUFF_LEN THEN ridx + taken ELSE ridx + taken - BUFF_LEN
  BY <1>1, <1>2, <1>3, AroundRing
<1>5. ridx' \in 0..(BUFF_LEN - 1) /\ buffSize' \in 0..BUFF_LEN /\ buffSize' < buffSize
  BY <1>1, <1>2, <1>3, <1>4
<1>6. (ridx' + buffSize') % BUFF_LEN = (ridx + buffSize) % BUFF_LEN
  <2>1. CASE ridx + taken < BUFF_LEN
    BY <1>1, <1>2, <1>3, <1>4, <2>1
  <2>2. CASE ~(ridx + taken < BUFF_LEN)
    <3>1. ridx' + buffSize' = ridx + buffSize - BUFF_LEN
      BY <1>1, <1>2, <1>3, <1>4, <2>2
    <3>2. ridx + buffSize - BUFF_LEN \in 0..(BUFF_LEN - 1)
      BY <1>1, <1>2, <2>2
    <3> QED BY <1>1, <3>1, <3>2, AroundRing
  <2> QED BY <2>1, <2>2
<1> QED BY <1>3, <1>5, <1>6 DEF RingOK
(* semPost adds one to the tokens and woken readers together. *)
LEMMA PostCounts ==
  ASSUME WaitersOK, Post
  PROVE  WaitersOK' /\ value' + Cardinality(Woken') = value + Cardinality(Woken) + 1
<1>1. CASE waiters = <<>>
  <2>1. value' = value + 1 /\ waiters' = waiters /\ status' = status
    BY <1>1 DEF Post
  <2>2. Woken' = Woken
    BY <2>1 DEF Woken
  <2> QED BY <2>1, <2>2, WokenType DEF WaitersOK
<1>2. CASE waiters # <<>>
  <2> DEFINE h == Head(waiters)
  <2>1. waiters' = Tail(waiters) /\ status' = [status EXCEPT ![h] = "woken"] /\ value' = value
    BY <1>2 DEF Post
  <2>2. /\ Len(waiters) \in Nat /\ Len(waiters) >= 1 /\ h = waiters[1] /\ h \in Readers
    BY <1>2, LenProperties, EmptySeq, HeadTailProperties DEF WaitersOK
  <2>3. /\ waiters' \in Seq(Readers)
        /\ Len(waiters') = Len(waiters) - 1
        /\ \A i \in 1..Len(waiters') : waiters'[i] = waiters[i + 1]
    BY <1>2, <2>1, HeadTailProperties DEF WaitersOK
  <2>4. \A i \in 1..Len(waiters') : i + 1 \in 1..Len(waiters) /\ i + 1 # 1
    BY <2>2, <2>3
  <2>5. \A i \in 1..Len(waiters') : waiters'[i] # h
    BY <2>2, <2>3, <2>4 DEF WaitersOK
  <2>6. \A i \in 1..Len(waiters') : waiters'[i] \in Readers
    BY <2>3, ElementOfSeq
  <2>7. \A i \in 1..Len(waiters') : status'[waiters'[i]] = "asleep"
    BY <2>1, <2>3, <2>4, <2>5, <2>6 DEF WaitersOK
  <2>8. \A i, j \in 1..Len(waiters') : waiters'[i] = waiters'[j] => i = j
    <3>1. SUFFICES ASSUME NEW i \in 1..Len(waiters'), NEW j \in 1..Len(waiters'),
                          waiters'[i] = waiters'[j]
                   PROVE  i = j
      OBVIOUS
    <3>2. waiters[i + 1] = waiters[j + 1]
      BY <2>3, <3>1
    <3>3. i + 1 = j + 1
      BY <2>4, <3>2 DEF WaitersOK
    <3> QED BY <3>3, <2>2, <2>3
  <2>9. WaitersOK'
    BY <2>1, <2>2, <2>3, <2>7, <2>8 DEF WaitersOK
  <2>10. h \notin Woken /\ Woken' = Woken \cup {h}
    BY <2>1, <2>2 DEF Woken, WaitersOK
  <2>11. Cardinality(Woken') = Cardinality(Woken) + 1
    BY <2>10, WokenType, FS_AddElement
  <2> QED BY <2>1, <2>9, <2>11, WokenType DEF WaitersOK
<1> QED BY <1>1, <1>2

(* A reader that is not in the list goes elsewhere than to sleep.          *)
LEMMA ReaderMoves ==
  ASSUME WaitersOK, NEW p \in Readers, status[p] # "asleep",
         NEW s \in {"user", "halted"},
         status' = [status EXCEPT ![p] = s], waiters' = waiters, value' \in Nat
  PROVE  /\ WaitersOK'
         /\ Cardinality(Woken') =
              IF status[p] = "woken" THEN Cardinality(Woken) - 1 ELSE Cardinality(Woken)
<1>1. \A i \in 1..Len(waiters) : waiters[i] \in Readers /\ waiters[i] # p
  BY ElementOfSeq DEF WaitersOK
<1>2. WaitersOK'
  BY <1>1 DEF WaitersOK
<1>3. Woken' = Woken \ {p}
  BY DEF Woken, WaitersOK
<1>4. p \in Woken <=> status[p] = "woken"
  BY DEF Woken
<1> QED BY <1>2, <1>3, <1>4, WokenType, FS_RemoveElement

(* A key is taken, or there is none and the reader halts. *)
LEMMA ReturnsOK ==
  ASSUME RingOK, WaitersOK, NEW p \in Readers, NEW pair \in BOOLEAN,
         status[p] # "asleep", waiters' = waiters, value' \in Nat,
         Returns(p, pair)
  PROVE  /\ RingOK' /\ WaitersOK' /\ buffSize' < buffSize
         /\ Cardinality(Woken') =
              IF status[p] = "woken" THEN Cardinality(Woken) - 1 ELSE Cardinality(Woken)
<1>1. PICK n \in 1..2 : Remove(n) /\ buffSize > 0
  BY DEF Returns
<1>2. status' = [status EXCEPT ![p] = "user"]
  BY DEF Returns
<1> QED BY <1>1, <1>2, RemoveKeepsRing, ReaderMoves

LEMMA TakeKeyOK ==
  ASSUME RingOK, WaitersOK, NEW p \in Readers,
         status[p] # "asleep", waiters' = waiters, value' \in Nat,
         TakeKey(p)
  PROVE  /\ RingOK' /\ WaitersOK' /\ (buffSize' < buffSize \/ buffSize' = 0)
         /\ Cardinality(Woken') =
              IF status[p] = "woken" THEN Cardinality(Woken) - 1 ELSE Cardinality(Woken)
<1>1. CASE Returns(p, TRUE)
  BY <1>1, ReturnsOK
<1>2. CASE /\ buffSize = 0
           /\ status' = [status EXCEPT ![p] = "halted"]
           /\ UNCHANGED <<ring, char>>
  BY <1>2, ReaderMoves DEF RingOK, ring
<1> QED BY <1>1, <1>2 DEF TakeKey
-----------------------------------------------------------------------------
LEMMA InitInvariant == Init => IInv
<1> SUFFICES ASSUME Init PROVE IInv
  OBVIOUS
<1>1. BUFF_LEN \in Nat /\ BUFF_LEN > 0
  BY KeyboardAssumption
<1>2. 0 \in 0..(BUFF_LEN - 1) /\ 0 \in 0..BUFF_LEN
  BY <1>1
<1>3. Tab \in Keys
  BY DEF Keys
<1>4. (0 + 0) % BUFF_LEN = 0
  BY <1>1
<1>5. RingOK
  BY <1>2, <1>3, <1>4 DEF Init, RingOK
<1>6. WaitersOK
  BY EmptySeq DEF Init, WaitersOK
<1>7. TokenForEveryKey
  BY WokenType DEF Init, TokenForEveryKey
<1> QED BY <1>5, <1>6, <1>7 DEF IInv

LEMMA PutKeyOK ==
  ASSUME IInv, NEW c \in Keys, PutCharInBuffer(c)
  PROVE  IInv'
<1>1. RingOK' /\ buffSize' <= buffSize + 1
  BY PutKeepsRing DEF IInv, PutCharInBuffer
<1>2. WaitersOK' /\ value' + Cardinality(Woken') = value + Cardinality(Woken) + 1
  BY PostCounts DEF IInv, PutCharInBuffer
<1>3. buffSize' \in Nat /\ buffSize \in Nat
  BY <1>1, KeyboardAssumption DEF RingOK, IInv
<1>4. TokenForEveryKey'
  BY <1>1, <1>2, <1>3, WokenType DEF IInv, TokenForEveryKey, WaitersOK
<1> QED BY <1>1, <1>2, <1>4 DEF IInv

(* A screen switch leaves the tab in a ring that starts at 0. *)
LEMMA SwitchRing ==
  ASSUME RingOK, PutInRing(Tab, 0, 0, 0)
  PROVE  /\ RingOK' /\ buffSize' = 1 /\ ridx' = 0
         /\ buffer'[0] = Tab
<1>1. BUFF_LEN \in Nat /\ BUFF_LEN > 0
  BY KeyboardAssumption
<1>2. buffSize' = 1 /\ ridx' = 0 /\ widx' = (0 + 1) % BUFF_LEN
  BY <1>1 DEF PutInRing
<1>3. Tab \in Keys /\ 0 \in 0..(BUFF_LEN - 1) /\ 1 \in 0..BUFF_LEN
  BY <1>1 DEF Keys
<1>4. buffer' \in [0..(BUFF_LEN - 1) -> Keys] /\ buffer'[0] = Tab
  BY <1>3 DEF PutInRing, RingOK
<1> QED BY <1>2, <1>3, <1>4 DEF RingOK

LEMMA HandlerKeepsInvariant == IInv /\ KeyboardHandler => IInv'
<1> SUFFICES ASSUME IInv, KeyboardHandler PROVE IInv'
  OBVIOUS
<1>1. CASE CtrlKey
  BY <1>1 DEF CtrlKey, IInv, RingOK, WaitersOK, TokenForEveryKey, Woken, ring, sem
<1>2. CASE CharKey
  BY <1>2, PutKeyOK DEF CharKey, Keys
<1>3. CASE CtrlD
  BY <1>3, PutKeyOK DEF CtrlD, Keys
<1>4. CASE CtrlTab
  <2>1. RingOK' /\ buffSize' = 1
    BY <1>4, SwitchRing DEF IInv, CtrlTab
  <2>2. WaitersOK' /\ value' + Cardinality(Woken') = value + Cardinality(Woken) + 1
    BY <1>4, PostCounts DEF IInv, CtrlTab
  <2>3. TokenForEveryKey'
    BY <2>1, <2>2, WokenType DEF IInv, WaitersOK, TokenForEveryKey
  <2> QED BY <2>1, <2>2, <2>3 DEF IInv
<1>5. CASE CtrlC
  <2>1. PICK p \in Readers : status[p] = "halted" /\ status' = [status EXCEPT ![p] = "user"]
    BY <1>5 DEF CtrlC
  <2>2. UNCHANGED <<ring, sem>>
    BY <1>5 DEF CtrlC
  <2>3. WaitersOK' /\ Cardinality(Woken') = Cardinality(Woken)
    BY <2>1, <2>2, ReaderMoves DEF IInv, WaitersOK, sem
  <2> QED BY <2>2, <2>3 DEF IInv, RingOK, TokenForEveryKey, ring, sem
<1> QED BY <1>1, <1>2, <1>3, <1>4, <1>5 DEF KeyboardHandler

(* A reader that takes a key gives up a token for it, or waits for one     *)
(* with an empty buffer.                                                   *)
LEMMA ReadersKeepInvariant ==
  ASSUME IInv, NEW p \in Readers, GetChar(p) \/ GoesOn(p) \/ HaltEnds(p)
  PROVE  IInv'
<1>1. CASE GetChar(p) /\ value > 0
  <2>1. /\ status[p] = "user" /\ value' = value - 1 /\ waiters' = waiters /\ TakeKey(p)
        /\ value \in Nat /\ value' \in Nat
    BY <1>1 DEF GetChar, IInv, WaitersOK
  <2>2. /\ RingOK' /\ WaitersOK' /\ (buffSize' < buffSize \/ buffSize' = 0)
        /\ Cardinality(Woken') = Cardinality(Woken)
    BY <2>1, TakeKeyOK DEF IInv
  <2>3. TokenForEveryKey'
    BY <2>1, <2>2, WokenType, KeyboardAssumption DEF IInv, RingOK, TokenForEveryKey
  <2> QED BY <2>2, <2>3 DEF IInv
<1>2. CASE GetChar(p) /\ ~(value > 0)
  <2>1. /\ status[p] = "user" /\ waiters' = Append(waiters, p)
        /\ status' = [status EXCEPT ![p] = "asleep"]
        /\ UNCHANGED <<ring, value>>
    BY <1>2 DEF GetChar
  <2>2. /\ waiters' \in Seq(Readers) /\ Len(waiters') = Len(waiters) + 1
        /\ \A i \in 1..Len(waiters) : waiters'[i] = waiters[i]
        /\ waiters'[Len(waiters) + 1] = p
        /\ Len(waiters) \in Nat
    BY <2>1, AppendProperties, LenProperties DEF IInv, WaitersOK
  <2>3. \A i \in 1..Len(waiters) : waiters[i] \in Readers /\ waiters[i] # p
    BY <2>1, ElementOfSeq DEF IInv, WaitersOK
  <2>4. \A i \in 1..Len(waiters') : i \in 1..Len(waiters) \/ i = Len(waiters) + 1
    BY <2>2
  <2>5. \A i \in 1..Len(waiters') : status'[waiters'[i]] = "asleep"
    BY <2>1, <2>2, <2>3, <2>4 DEF IInv, WaitersOK
  <2>6. \A i, j \in 1..Len(waiters') : waiters'[i] = waiters'[j] => i = j
    BY <2>2, <2>3, <2>4 DEF IInv, WaitersOK
  <2>7. WaitersOK'
    BY <2>1, <2>2, <2>5, <2>6 DEF IInv, WaitersOK
  <2>8. Woken' = Woken
    BY <2>1 DEF Woken, IInv, WaitersOK
  <2> QED BY <2>1, <2>7, <2>8 DEF IInv, RingOK, TokenForEveryKey, ring
<1>3. CASE GoesOn(p)
  <2>1. /\ status[p] = "woken" /\ value' = value /\ waiters' = waiters /\ TakeKey(p)
        /\ value \in Nat /\ value' \in Nat
    BY <1>3 DEF GoesOn, IInv, WaitersOK, sem
  <2>2. /\ RingOK' /\ WaitersOK' /\ (buffSize' < buffSize \/ buffSize' = 0)
        /\ Cardinality(Woken') = Cardinality(Woken) - 1
    BY <2>1, TakeKeyOK DEF IInv
  <2>3. Cardinality(Woken') \in Nat
    BY KeyboardAssumption, FS_Subset, FS_CardinalityType DEF Woken
  <2>4. TokenForEveryKey'
    BY <2>1, <2>2, <2>3, WokenType, KeyboardAssumption DEF IInv, RingOK, TokenForEveryKey
  <2> QED BY <2>2, <2>4 DEF IInv
<1>4. CASE HaltEnds(p)
  <2>1. /\ status[p] = "halted" /\ value' = value /\ waiters' = waiters /\ Returns(p, FALSE)
        /\ value \in Nat /\ value' \in Nat
    BY <1>4 DEF HaltEnds, IInv, WaitersOK, sem
  <2>2. /\ RingOK' /\ WaitersOK' /\ buffSize' < buffSize
        /\ Cardinality(Woken') = Cardinality(Woken)
    BY <2>1, ReturnsOK DEF IInv
  <2>3. TokenForEveryKey'
    BY <2>1, <2>2, WokenType, KeyboardAssumption DEF IInv, RingOK, TokenForEveryKey
  <2> QED BY <2>2, <2>3 DEF IInv
<1> QED BY <1>1, <1>2, <1>3, <1>4

LEMMA StepInvariant == IInv /\ [Next]_vars => IInv'
<1> SUFFICES ASSUME IInv, [Next]_vars PROVE IInv'
  OBVIOUS
<1>1. CASE Next
  BY <1>1, HandlerKeepsInvariant, ReadersKeepInvariant DEF Next
<1>2. CASE UNCHANGED vars
  BY <1>2 DEF vars, ring, sem, IInv, RingOK, WaitersOK, TokenForEveryKey, Woken
<1> QED BY <1>1, <1>2

LEMMA Invariance == Spec => []IInv
BY InitInvariant, StepInvariant, PTL DEF Spec

(* No reader sleeps over a key, with any number of readers, any keys and a *)
(* buffer of any length.                                                   *)
THEOREM TokensCoverKeys == Spec => []TokenForEveryKey
BY Invariance, PTL DEF IInv
-----------------------------------------------------------------------------
(* The ring buffer as a queue: RingLemmas for the buffer of the keyboard.  *)
Rings == Arrays(Keys, BUFF_LEN)
Cell(x) == Place(x, BUFF_LEN)
KeysIn(b, n, r) == Queue(b, n, r, BUFF_LEN)

LEMMA KeysType ==
  ASSUME NEW b \in Rings, NEW n \in 0..BUFF_LEN, NEW r \in 0..(BUFF_LEN - 1)
  PROVE  Len(KeysIn(b, n, r)) = n
BY KeyboardAssumption, RingType DEF KeysIn, Rings

LEMMA KeysTail ==
  ASSUME NEW b \in Rings, NEW n \in 1..BUFF_LEN, NEW r \in 0..(BUFF_LEN - 1)
  PROVE  /\ KeysIn(b, n, r) # <<>>
         /\ Head(KeysIn(b, n, r)) = b[r]
         /\ Tail(KeysIn(b, n, r)) = KeysIn(b, n - 1, Cell(r + 1))
BY KeyboardAssumption, RingTail DEF KeysIn, Cell, Rings

LEMMA KeysAppend ==
  ASSUME NEW b \in Rings, NEW n \in 0..(BUFF_LEN - 1), NEW r \in 0..(BUFF_LEN - 1), NEW c \in Keys
  PROVE  KeysIn([b EXCEPT ![Cell(r + n)] = c], n + 1, r) = Append(KeysIn(b, n, r), c)
<1>1. BUFF_LEN \in Nat \ {0} /\ b \in Arrays(Keys, BUFF_LEN)
  BY KeyboardAssumption DEF Rings
<1>2. \A w, m : w = Place(r + n, BUFF_LEN) /\ m = n + 1
                  => Queue(Written(b, w, c), m, r, BUFF_LEN) = Append(Queue(b, n, r, BUFF_LEN), c)
  BY <1>1, RingAppend
<1> QED BY <1>2 DEF KeysIn, Cell, Written

LEMMA KeysFull ==
  ASSUME NEW b \in Rings, NEW r \in 0..(BUFF_LEN - 1), NEW c \in Keys
  PROVE  KeysIn([b EXCEPT ![r] = c], BUFF_LEN, Cell(r + 1)) = Append(Tail(KeysIn(b, BUFF_LEN, r)), c)
<1>1. BUFF_LEN \in Nat /\ BUFF_LEN > 0 /\ r \in Nat /\ r < BUFF_LEN
  BY KeyboardAssumption
<1>2. PICK s \in 0..(BUFF_LEN - 1) : s = Cell(r + 1)
  BY <1>1 DEF Cell, Place
<1>3. PICK n \in 0..(BUFF_LEN - 1) : n = BUFF_LEN - 1 /\ n + 1 = BUFF_LEN
  BY <1>1
<1>4. Cell(s + n) = r
  BY <1>1, <1>2, <1>3 DEF Cell, Place
<1>5. BUFF_LEN \in 1..BUFF_LEN
  BY <1>1
<1>6. Tail(KeysIn(b, BUFF_LEN, r)) = KeysIn(b, n, s)
  BY <1>2, <1>3, <1>5, KeysTail
<1>7. KeysIn([b EXCEPT ![r] = c], BUFF_LEN, s) = Append(KeysIn(b, n, s), c)
  <2>1. KeysIn([b EXCEPT ![Cell(s + n)] = c], n + 1, s) = Append(KeysIn(b, n, s), c)
    BY KeysAppend
  <2> QED BY <2>1, <1>3, <1>4
<1> QED BY <1>2, <1>6, <1>7

(* putCharInBuffer is a key press of the abstract queue, ... *)
LEMMA PutAppends ==
  ASSUME RingOK, NEW c \in Keys, PutInRing(c, buffSize, ridx, widx)
  PROVE  LET q == KeysIn(buffer, buffSize, ridx)
         IN KeysIn(buffer', buffSize', ridx') =
              Append(IF Len(q) = BUFF_LEN THEN Tail(q) ELSE q, c)
<1>1. /\ BUFF_LEN \in Nat /\ BUFF_LEN > 0 /\ buffSize \in 0..BUFF_LEN /\ ridx \in 0..(BUFF_LEN - 1)
      /\ buffer \in Rings
  BY KeyboardAssumption DEF RingOK, Rings, Arrays
<1>2. widx = Cell(ridx + buffSize)
  <2>1. PICK x \in Nat : x = ridx + buffSize /\ x < 2 * BUFF_LEN
    BY <1>1
  <2> QED BY <2>1, AroundRing DEF RingOK, Cell, Place
<1>3. Len(KeysIn(buffer, buffSize, ridx)) = buffSize
  BY <1>1, KeysType
<1>4. buffer' = [buffer EXCEPT ![widx] = c]
  BY DEF PutInRing
<1>5. CASE buffSize < BUFF_LEN
  <2>1. buffSize' = buffSize + 1 /\ ridx' = ridx
    BY <1>5 DEF PutInRing
  <2>2. buffSize \in 0..(BUFF_LEN - 1) /\ buffSize # BUFF_LEN
    BY <1>1, <1>5
  <2>3. KeysIn(buffer', buffSize', ridx') = Append(KeysIn(buffer, buffSize, ridx), c)
    BY <1>1, <1>2, <1>4, <2>1, <2>2, KeysAppend
  <2> QED BY <1>3, <2>2, <2>3
<1>6. CASE ~(buffSize < BUFF_LEN)
  <2>1. buffSize = BUFF_LEN /\ buffSize' = BUFF_LEN /\ ridx' = (ridx + 1) % BUFF_LEN
    BY <1>1, <1>6 DEF PutInRing
  <2>2. widx = ridx
    BY <1>1, <1>2, <2>1 DEF Cell, Place
  <2>3. ridx' = Cell(ridx + 1)
    <3>1. PICK x \in Nat : x = ridx + 1 /\ x < 2 * BUFF_LEN
      BY <1>1
    <3> QED BY <2>1, <3>1, AroundRing DEF Cell, Place
  <2>4. KeysIn(buffer', buffSize', ridx') = Append(Tail(KeysIn(buffer, buffSize, ridx)), c)
    BY <1>1, <1>4, <2>1, <2>2, <2>3, KeysFull
  <2> QED BY <1>3, <2>1, <2>4
<1> QED BY <1>5, <1>6

(* ... and removeCharFromBuffer a read. *)
LEMMA RemoveTakes ==
  ASSUME RingOK, Remove(1), buffSize > 0
  PROVE  LET q == KeysIn(buffer, buffSize, ridx)
         IN /\ q # <<>> /\ Head(q) = buffer[ridx] /\ Len(q) = buffSize
            /\ KeysIn(buffer', buffSize', ridx') = Tail(q)
<1>1. /\ BUFF_LEN \in Nat /\ BUFF_LEN > 0 /\ buffSize \in 1..BUFF_LEN /\ ridx \in 0..(BUFF_LEN - 1)
      /\ buffer \in Rings
  BY KeyboardAssumption DEF RingOK, Rings, Arrays
<1>2. buffSize' = buffSize - 1 /\ ridx' = (ridx + 1) % BUFF_LEN /\ buffer' = buffer
  BY <1>1 DEF Remove
<1>3. ridx' = Cell(ridx + 1)
  <2>1. PICK x \in Nat : x = ridx + 1 /\ x < 2 * BUFF_LEN
    BY <1>1
  <2> QED BY <1>2, <2>1, AroundRing DEF Cell, Place
<1>4. buffSize \in 0..BUFF_LEN
  BY <1>1
<1>5. Len(KeysIn(buffer, buffSize, ridx)) = buffSize
  BY <1>1, <1>4, KeysType
<1>6. /\ KeysIn(buffer, buffSize, ridx) # <<>>
      /\ Head(KeysIn(buffer, buffSize, ridx)) = buffer[ridx]
      /\ Tail(KeysIn(buffer, buffSize, ridx)) = KeysIn(buffer, buffSize - 1, Cell(ridx + 1))
  BY <1>1, KeysTail
<1> QED BY <1>2, <1>3, <1>5, <1>6

LEMMA RemoveTakesPair ==
  ASSUME RingOK, Remove(2), buffSize >= 2
  PROVE  LET q == KeysIn(buffer, buffSize, ridx)
         IN /\ Head(q) = buffer[ridx] /\ Len(q) >= 2
            /\ KeysIn(buffer', buffSize', ridx') = Tail(Tail(q))
<1>1. /\ BUFF_LEN \in Nat /\ BUFF_LEN > 0 /\ buffSize \in 1..BUFF_LEN /\ ridx \in 0..(BUFF_LEN - 1)
      /\ buffer \in Rings /\ buffSize - 1 \in 1..BUFF_LEN /\ BUFF_LEN >= 2
  BY KeyboardAssumption DEF RingOK, Rings, Arrays
<1>2. buffSize' = buffSize - 2 /\ ridx' = (ridx + 2) % BUFF_LEN /\ buffer' = buffer
  BY <1>1 DEF Remove
<1>3. PICK s \in 0..(BUFF_LEN - 1) : s = Cell(ridx + 1)
  BY <1>1 DEF Cell, Place
<1>4. ridx' = Cell(s + 1)
  <2>1. PICK x \in Nat : x = ridx + 2 /\ x < 2 * BUFF_LEN
    BY <1>1
  <2>2. ridx' = IF x < BUFF_LEN THEN x ELSE x - BUFF_LEN
    BY <1>2, <2>1, AroundRing
  <2> QED BY <1>1, <1>3, <2>1, <2>2 DEF Cell, Place
<1>5. /\ Head(KeysIn(buffer, buffSize, ridx)) = buffer[ridx]
      /\ Tail(KeysIn(buffer, buffSize, ridx)) = KeysIn(buffer, buffSize - 1, s)
  BY <1>1, <1>3, KeysTail
<1>6. Tail(KeysIn(buffer, buffSize - 1, s)) = KeysIn(buffer, (buffSize - 1) - 1, Cell(s + 1))
  BY <1>1, <1>3, KeysTail
<1>7. (buffSize - 1) - 1 = buffSize - 2 /\ buffSize \in 0..BUFF_LEN
  BY <1>1
<1>8. Len(KeysIn(buffer, buffSize, ridx)) = buffSize
  BY <1>1, <1>7, KeysType
<1> QED BY <1>2, <1>4, <1>5, <1>6, <1>7, <1>8
-----------------------------------------------------------------------------
(* getChar reads: the next key, or a backspace with the key behind it.     *)
LEMMA ReturnsRefines ==
  ASSUME RingOK, NEW p, NEW pair \in BOOLEAN, Returns(p, pair)
  PROVE  KeysRead!Read \/ KeysRead!ReadPair
<1> DEFINE q == KeysIn(buffer, buffSize, ridx)
<1>1. buffSize \in Nat /\ buffSize > 0 /\ char' = buffer[ridx]
  BY KeyboardAssumption DEF Returns, RingOK
<1>2. CASE pair /\ buffer[ridx] = Backspace /\ buffSize >= 2
  <2>1. Remove(2)
    BY <1>2 DEF Returns
  <2>2. /\ Head(q) = buffer[ridx] /\ Len(q) >= 2
        /\ KeysIn(buffer', buffSize', ridx') = Tail(Tail(q))
    BY <1>2, <2>1, RemoveTakesPair
  <2>3. KeysRead!ReadPair
    BY <1>1, <1>2, <2>2 DEF KeysRead!ReadPair, KeysIn, Queue
  <2> QED BY <2>3
<1>3. CASE ~(pair /\ buffer[ridx] = Backspace /\ buffSize >= 2)
  <2>1. Remove(1)
    BY <1>1, <1>3 DEF Returns, Remove
  <2>2. /\ q # <<>> /\ Head(q) = buffer[ridx]
        /\ KeysIn(buffer', buffSize', ridx') = Tail(q)
    BY <1>1, <2>1, RemoveTakes
  <2>3. KeysRead!Read
    BY <1>1, <2>2 DEF KeysRead!Read, KeysIn, Queue
  <2> QED BY <2>3
<1> QED BY <1>2, <1>3

LEMMA PutRefines ==
  ASSUME RingOK, NEW c \in Keys, PutInRing(c, buffSize, ridx, widx), char' = char
  PROVE  KeysRead!Press(c)
<1>1. KeysIn(buffer', buffSize', ridx') =
        Append(IF Len(KeysIn(buffer, buffSize, ridx)) = BUFF_LEN
               THEN Tail(KeysIn(buffer, buffSize, ridx))
               ELSE KeysIn(buffer, buffSize, ridx), c)
  BY PutAppends
<1> QED BY <1>1 DEF KeysRead!Press, KeysIn, Queue

LEMMA SwitchRefines ==
  ASSUME RingOK, PutInRing(Tab, 0, 0, 0), char' = char
  PROVE  KeysRead!Switch
<1>1. BUFF_LEN \in Nat /\ BUFF_LEN > 0
  BY KeyboardAssumption
<1>2. buffSize' = 1 /\ ridx' = 0 /\ buffer'[0] = Tab
  BY SwitchRing
<1>3. (0 + 1 - 1) % BUFF_LEN = 0
  BY <1>1
<1>4. [i \in 1..1 |-> buffer'[(0 + i - 1) % BUFF_LEN]] = <<Tab>>
  BY <1>2, <1>3
<1> QED BY <1>2, <1>4 DEF KeysRead!Switch

LEMMA StepRefines == IInv /\ [Next]_vars => [KeysRead!Next]_KeysRead!vars
<1> SUFFICES ASSUME IInv, [Next]_vars
             PROVE  KeysRead!Next \/ UNCHANGED KeysRead!vars
  OBVIOUS
<1>1. RingOK
  BY DEF IInv
<1>2. ASSUME UNCHANGED <<ring, char>> PROVE UNCHANGED KeysRead!vars
  BY <1>2 DEF ring, KeysRead!vars
<1>3. CASE CtrlKey \/ CtrlC \/ UNCHANGED vars
  BY <1>2, <1>3 DEF CtrlKey, CtrlC, vars
<1>4. ASSUME NEW c \in Keys, PutCharInBuffer(c), char' = char PROVE KeysRead!Next
  BY <1>1, <1>4, PutRefines DEF PutCharInBuffer, KeysRead!Next
<1>5. CASE CharKey
  BY <1>4, <1>5 DEF CharKey, Keys
<1>6. CASE CtrlD
  BY <1>4, <1>6 DEF CtrlD, Keys
<1>7. CASE CtrlTab
  BY <1>1, <1>7, SwitchRefines DEF CtrlTab, KeysRead!Next
<1>8. ASSUME NEW p \in Readers, GetChar(p) \/ GoesOn(p) \/ HaltEnds(p)
      PROVE  KeysRead!Next \/ UNCHANGED KeysRead!vars
  <2>1. \/ \E pair \in BOOLEAN : Returns(p, pair)
        \/ UNCHANGED <<ring, char>>
    BY <1>8 DEF GetChar, GoesOn, HaltEnds, TakeKey
  <2> QED BY <1>1, <1>2, <2>1, ReturnsRefines DEF KeysRead!Next
<1> QED BY <1>3, <1>5, <1>6, <1>7, <1>8 DEF Next, KeyboardHandler

(* getChar reads a queue of keys that loses its oldest, for any number of  *)
(* readers and a buffer of any length.                                     *)
THEOREM Refinement == Spec => ImplementsKeyQueue
<1>1. Init => KeysRead!Init
  <2> SUFFICES ASSUME Init PROVE KeysRead!Init
    OBVIOUS
  <2>1. buffSize = 0 /\ char = Tab /\ Tab \in Keys
    BY DEF Init, Keys
  <2>2. [i \in 1..0 |-> buffer[(ridx + i - 1) % BUFF_LEN]] = <<>>
    OBVIOUS
  <2> QED BY <2>1, <2>2 DEF KeysRead!Init
<1> QED
  BY <1>1, StepRefines, Invariance, PTL DEF Spec, ImplementsKeyQueue, KeysRead!Spec
=============================================================================
