---------------------------- MODULE PipesProofs ----------------------------
(***************************************************************************)
(* The pipes, for any processes, pipe ids and strings and a buffer of any  *)
(* length: the semaphores count the ring buffer, and it is a queue.        *)
(*                                                                         *)
(* RingExact is not inductive.  A woken reader or writer goes on in its    *)
(* slot without looking, so a call must stay on a slot that is in use      *)
(* (CallsOK); a post adds exactly one to what it counts only if the first  *)
(* of the list is asleep, in a call of that list (WaitersOK).              *)
(***************************************************************************)
EXTENDS Pipes, RingLemmas, FiniteSetTheorems

OpOf(l) == IF l = "readLock" THEN "read" ELSE "write"
Calls == [op : {"none", "read", "write"}, slot : Slots, rest : Seq(Chars)]
Elements == Chars \cup {Nothing}

TableOK ==
  /\ inUse \subseteq Slots
  /\ id \in [Slots -> Nat]
  /\ \A s, t \in inUse : id[s] = id[t] => s = t
  /\ buffer \in [Slots -> Arrays(Elements, PIPE_BUFFER_SIZE)]
  /\ readIndex \in [Slots -> Cells]
  /\ writeIndex \in [Slots -> Cells]

CallsOK ==
  /\ call \in [Procs -> Calls]
  /\ inKernel \in Procs \cup {Nothing}
  /\ \A p \in Procs : call[p].op # "none" => call[p].slot \in inUse
  /\ \A p \in Procs : call[p].op = "write" /\ p # inKernel => call[p].rest # <<>>
  /\ inKernel \in Procs => call[inKernel].op = "write" /\ inKernel \notin asleep

WaitersOK ==
  /\ value \in [Slots -> [Locks -> Nat]]
  /\ waiters \in [Slots -> [Locks -> Seq(Procs)]]
  /\ asleep \subseteq Procs
  /\ \A s \in Slots \ inUse, l \in Locks : waiters[s][l] = <<>>
  /\ \A s \in Slots, l \in Locks : waiters[s][l] # <<>> => value[s][l] = 0
  /\ \A s \in Slots, l \in Locks : \A i \in 1..Len(waiters[s][l]) :
       LET p == waiters[s][l][i]
       IN p \in asleep /\ call[p].op = OpOf(l) /\ call[p].slot = s
  /\ \A s \in Slots, l \in Locks : \A i, j \in 1..Len(waiters[s][l]) :
       waiters[s][l][i] = waiters[s][l][j] => i = j

IInv == TableOK /\ CallsOK /\ WaitersOK /\ SleepersListed /\ RingExact

(* What a lock counts: Filled(s) and Room(s). *)
Held(s, l) == value[s][l] + Cardinality(Woken(s, OpOf(l)))
-----------------------------------------------------------------------------
LEMMA Sizes ==
  /\ PIPE_BUFFER_SIZE \in Nat \ {0}
  /\ MAX_PIPES \in Nat \ {0}
  /\ 0 \in Slots /\ 0 \in Cells
  /\ Locks = {"readLock", "writeLock"}
  /\ Nothing \notin Procs
BY PipesAssumption DEF Slots, Cells, Locks

LEMMA WokenType ==
  ASSUME NEW s, NEW op
  PROVE  IsFiniteSet(Woken(s, op)) /\ Cardinality(Woken(s, op)) \in Nat
BY PipesAssumption, FS_Subset, FS_CardinalityType DEF Woken

LEMMA HeldRing ==
  \A s : Filled(s) = Held(s, "readLock") /\ Room(s) = Held(s, "writeLock")
BY DEF Filled, Room, Held, OpOf

LEMMA HeldType ==
  ASSUME WaitersOK, NEW s \in Slots, NEW l \in Locks
  PROVE  Held(s, l) \in Nat
BY WokenType DEF Held, WaitersOK

(* A process that leaves a call, goes on in one or enters the kernel is    *)
(* not counted by a lock any more; the others are, as before.              *)
LEMMA WokenWithout ==
  ASSUME NEW p \in Procs, inKernel \in {Nothing, p}, inKernel' \in {Nothing, p},
         \A q \in Procs : q # p => call'[q] = call[q],
         call'[p].op = "none" \/ inKernel' = p \/ p \in asleep',
         NEW s, NEW l \in Locks
  PROVE  /\ asleep' = asleep => Woken(s, OpOf(l))' = Woken(s, OpOf(l)) \ {p}
         /\ asleep' = asleep \cup {p} => Woken(s, OpOf(l))' = Woken(s, OpOf(l)) \ {p}
         /\ \A h \in Procs : h \in asleep /\ h # p /\ asleep' = asleep \ {h} =>
              Woken(s, OpOf(l))' = (Woken(s, OpOf(l)) \ {p})
                                     \cup (IF call[h].op = OpOf(l) /\ call[h].slot = s THEN {h} ELSE {})
<1>1. \A q \in Procs : q # p => (q # inKernel /\ q # inKernel')
  BY Sizes
<1>2. OpOf(l) # "none"
  BY DEF OpOf
<1>3. p \notin Woken(s, OpOf(l))'
  BY <1>2 DEF Woken
<1>4. \A q \in Procs : q # p =>
        /\ q \in Woken(s, OpOf(l))' <=> (call[q].op = OpOf(l) /\ call[q].slot = s /\ q \notin asleep')
        /\ q \in Woken(s, OpOf(l)) <=> (call[q].op = OpOf(l) /\ call[q].slot = s /\ q \notin asleep)
  BY <1>1 DEF Woken
<1>5. \A q : q \in Woken(s, OpOf(l)) \/ q \in Woken(s, OpOf(l))' => q \in Procs
  BY DEF Woken
<1> QED BY <1>3, <1>4, <1>5
-----------------------------------------------------------------------------
(* What remains of a list when its first process is woken. *)
LEMMA TailWaits ==
  ASSUME NEW w \in Seq(Procs), w # <<>>,
         \A i, j \in 1..Len(w) : w[i] = w[j] => i = j
  PROVE  /\ Head(w) = w[1] /\ Head(w) \in Procs /\ 1 \in 1..Len(w)
         /\ Tail(w) \in Seq(Procs)
         /\ \A i \in 1..Len(Tail(w)) : /\ i + 1 \in 1..Len(w)
                                      /\ Tail(w)[i] = w[i + 1]
                                      /\ Tail(w)[i] # Head(w)
         /\ \A i \in 1..Len(w) : i = 1 \/ (i - 1 \in 1..Len(Tail(w)) /\ w[i] = Tail(w)[i - 1])
         /\ \A i, j \in 1..Len(Tail(w)) : Tail(w)[i] = Tail(w)[j] => i = j
<1>1. Len(w) \in Nat /\ Len(w) >= 1 /\ Head(w) = w[1] /\ Head(w) \in Procs
  BY LenProperties, EmptySeq, HeadTailProperties
<1>2. /\ Tail(w) \in Seq(Procs) /\ Len(Tail(w)) = Len(w) - 1
      /\ \A i \in 1..Len(Tail(w)) : Tail(w)[i] = w[i + 1]
  BY HeadTailProperties
<1>3. \A i \in 1..Len(Tail(w)) : i + 1 \in 1..Len(w) /\ i + 1 # 1
  BY <1>1, <1>2
<1>4. \A i \in 1..Len(w) : i = 1 \/ (i - 1 \in 1..Len(Tail(w)) /\ (i - 1) + 1 = i)
  BY <1>1, <1>2
<1>5. 1 \in 1..Len(w)
  BY <1>1
<1>6. \A i \in 1..Len(Tail(w)) : Tail(w)[i] # Head(w)
  BY <1>1, <1>2, <1>3, <1>5
<1>7. \A i \in 1..Len(w) : i = 1 \/ w[i] = Tail(w)[i - 1]
  BY <1>2, <1>4
<1>8. \A i, j \in 1..Len(Tail(w)) : Tail(w)[i] = Tail(w)[j] => i = j
  <2>1. SUFFICES ASSUME NEW i \in 1..Len(Tail(w)), NEW j \in 1..Len(Tail(w)),
                        Tail(w)[i] = Tail(w)[j]
                 PROVE  i = j
    OBVIOUS
  <2>2. i + 1 = j + 1
    BY <1>2, <1>3, <2>1
  <2> QED BY <1>1, <1>2, <2>2
<1> QED BY <1>1, <1>2, <1>3, <1>4, <1>5, <1>6, <1>7, <1>8

Tables == [Slots -> [Locks -> Nat]]

OneMore(f, s, l) == [f EXCEPT ![s][l] = @ + 1]

LEMMA OneMoreThere ==
  ASSUME NEW f \in Tables, NEW s \in Slots, NEW l \in Locks
  PROVE  /\ OneMore(f, s, l) \in Tables
         /\ \A t \in Slots, k \in Locks :
              OneMore(f, s, l)[t][k] = f[t][k] + (IF t = s /\ k = l THEN 1 ELSE 0)
BY DEF Tables, OneMore

(* A call that passes a semWait, or has been woken in one, and posts the   *)
(* other lock moves one token from the first to the second.                *)
MovesToken(p, s, from, to) ==
  /\ Held(s, from)' = Held(s, from) - 1
  /\ Held(s, to)' = Held(s, to) + 1
  /\ \A t \in Slots, l \in Locks : t # s => Held(t, l)' = Held(t, l)

LEMMA PostCounts ==
  ASSUME CallsOK, WaitersOK, SleepersListed, inUse \subseteq Slots, inUse' = inUse,
         NEW p \in Procs, p \notin asleep,
         NEW s \in inUse, NEW from \in Locks, NEW to \in Locks, from # to, NEW v,
         inKernel \in {Nothing, p}, inKernel' \in {Nothing, p},
         \A q \in Procs : q # p => call'[q] = call[q],
         call'[p].op = "none" \/ inKernel' = p,
         \/ v = Taken(s, from) /\ Passes(s, from) /\ (call[p].op = "none" \/ inKernel = p)
         \/ v = value /\ inKernel = Nothing /\ call[p].op = OpOf(from) /\ call[p].slot = s,
         SemPost(s, to, v)
  PROVE  WaitersOK' /\ SleepersListed' /\ MovesToken(p, s, from, to)
<1> DEFINE W(t, l) == Woken(t, OpOf(l)) \ {p}
<1>1. s \in Slots /\ value \in [Slots -> [Locks -> Nat]]
  BY DEF WaitersOK
<1>2. /\ v \in [Slots -> [Locks -> Nat]]
      /\ \A t \in Slots, l \in Locks : waiters[t][l] # <<>> => v[t][l] = 0
      /\ \A t \in Slots, l \in Locks :
           v[t][l] + Cardinality(W(t, l)) =
             Held(t, l) - (IF t = s /\ l = from THEN 1 ELSE 0)
  <2>1. \A t \in Slots, l \in Locks :
          Cardinality(W(t, l)) = IF p \in Woken(t, OpOf(l))
                                 THEN Cardinality(Woken(t, OpOf(l))) - 1
                                 ELSE Cardinality(Woken(t, OpOf(l)))
    BY WokenType, FS_RemoveElement
  <2>2. CASE v = Taken(s, from) /\ Passes(s, from) /\ (call[p].op = "none" \/ inKernel = p)
    <3>1. value[s][from] > 0 /\ v = [value EXCEPT ![s][from] = @ - 1]
      BY <2>2 DEF Taken, Passes
    <3>2. v \in [Slots -> [Locks -> Nat]]
      BY <1>1, <3>1
    <3>3. \A t \in Slots, l \in Locks :
            v[t][l] = value[t][l] - (IF t = s /\ l = from THEN 1 ELSE 0)
      BY <1>1, <3>1
    <3>4. \A t \in Slots, l \in Locks : p \notin Woken(t, OpOf(l))
      BY <2>2 DEF Woken, OpOf
    <3>5. \A t \in Slots, l \in Locks : waiters[t][l] # <<>> => v[t][l] = 0
      BY <1>1, <3>1, <3>3 DEF WaitersOK
    <3> HIDE DEF W
    <3>6. \A t \in Slots, l \in Locks : Cardinality(Woken(t, OpOf(l))) \in Nat
      BY WokenType
    <3>7. ASSUME NEW t \in Slots, NEW l \in Locks
          PROVE  v[t][l] + Cardinality(W(t, l)) =
                   Held(t, l) - (IF t = s /\ l = from THEN 1 ELSE 0)
      <4>1. /\ value[t][l] \in Nat
            /\ v[t][l] = value[t][l] - (IF t = s /\ l = from THEN 1 ELSE 0)
            /\ Cardinality(W(t, l)) = Cardinality(Woken(t, OpOf(l)))
        BY <1>1, <2>1, <3>3, <3>4
      <4> QED BY <3>6, <4>1 DEF Held
    <3> QED BY <3>2, <3>5, <3>7
  <2>3. CASE v = value /\ inKernel = Nothing /\ call[p].op = OpOf(from) /\ call[p].slot = s
    <3>1. \A t \in Slots, l \in Locks : p \in Woken(t, OpOf(l)) <=> (t = s /\ l = from)
      BY <2>3, Sizes DEF Woken, OpOf
    <3> HIDE DEF W
    <3>2. \A t \in Slots, l \in Locks : Cardinality(Woken(t, OpOf(l))) \in Nat
      BY WokenType
    <3>3. \A t \in Slots, l \in Locks :
           v[t][l] + Cardinality(W(t, l)) =
             Held(t, l) - (IF t = s /\ l = from THEN 1 ELSE 0)
      BY <1>1, <2>1, <2>3, <3>1, <3>2 DEF Held
    <3> QED BY <1>1, <2>3, <3>3 DEF WaitersOK
  <2> QED BY <2>2, <2>3
<1>3. CASE waiters[s][to] = <<>>
  <2>1. /\ value' = [v EXCEPT ![s][to] = @ + 1]
        /\ waiters' = waiters /\ asleep' = asleep
    BY <1>3 DEF SemPost
  <2>2. /\ value' \in [Slots -> [Locks -> Nat]]
        /\ \A t \in Slots, l \in Locks : value'[t][l] = v[t][l] + (IF t = s /\ l = to THEN 1 ELSE 0)
    <3>1. value' = OneMore(v, s, to) /\ v \in Tables
      BY <1>2, <2>1 DEF OneMore, Tables
    <3>2. /\ OneMore(v, s, to) \in Tables
          /\ \A t \in Slots, l \in Locks :
               OneMore(v, s, to)[t][l] = v[t][l] + (IF t = s /\ l = to THEN 1 ELSE 0)
      BY <1>1, <3>1, OneMoreThere
    <3> QED BY <3>1, <3>2 DEF Tables
  <2>3. \A t \in Slots, l \in Locks : Woken(t, OpOf(l))' = W(t, l)
    BY <2>1, WokenWithout
  <2>4. \A t \in Slots, l \in Locks : waiters'[t][l] # <<>> => value'[t][l] = 0
    BY <1>2, <1>3, <2>1, <2>2
  <2>5. \A t \in Slots, l \in Locks : \A i \in 1..Len(waiters[t][l]) :
          waiters[t][l][i] \in Procs /\ waiters[t][l][i] # p
    BY DEF WaitersOK
  <2>6. WaitersOK'
    <3>1. \A t \in Slots, l \in Locks : \A i \in 1..Len(waiters[t][l]) :
            LET q == waiters[t][l][i]
            IN q \in asleep' /\ call'[q].op = OpOf(l) /\ call'[q].slot = t
      <4> SUFFICES ASSUME NEW t \in Slots, NEW l \in Locks, NEW i \in 1..Len(waiters[t][l])
                   PROVE  LET q == waiters[t][l][i]
                          IN q \in asleep' /\ call'[q].op = OpOf(l) /\ call'[q].slot = t
        OBVIOUS
      <4>1. PICK q : q = waiters[t][l][i]
        OBVIOUS
      <4>2. q \in asleep /\ call[q].op = OpOf(l) /\ call[q].slot = t
        BY <4>1 DEF WaitersOK
      <4>3. q \in Procs /\ q # p
        BY <2>5, <4>1
      <4> QED BY <2>1, <4>1, <4>2, <4>3
    <3>2. \A t \in Slots \ inUse', l \in Locks : waiters'[t][l] = <<>>
      BY <2>1 DEF WaitersOK
    <3>3. \A t \in Slots, l \in Locks : \A i, j \in 1..Len(waiters'[t][l]) :
            waiters'[t][l][i] = waiters'[t][l][j] => i = j
      BY <2>1 DEF WaitersOK
    <3>4. waiters' \in [Slots -> [Locks -> Seq(Procs)]] /\ asleep' \subseteq Procs
      BY <2>1 DEF WaitersOK
    <3>5. \A t \in Slots, l \in Locks : \A i \in 1..Len(waiters'[t][l]) :
            LET q == waiters'[t][l][i]
            IN q \in asleep' /\ call'[q].op = OpOf(l) /\ call'[q].slot = t
      BY <2>1, <3>1
    <3> QED BY <2>2, <2>4, <3>2, <3>3, <3>4, <3>5 DEF WaitersOK
  <2>7. SleepersListed'
    BY <2>1 DEF SleepersListed
  <2>8. \A t \in Slots, l \in Locks :
          Held(t, l)' = v[t][l] + (IF t = s /\ l = to THEN 1 ELSE 0) + Cardinality(W(t, l))
    BY <2>2, <2>3 DEF Held
  <2>9. \A t \in Slots, l \in Locks : Cardinality(W(t, l)) \in Nat /\ Held(t, l) \in Nat
    BY HeldType, WokenType, FS_RemoveElement, FS_CardinalityType
  <2> HIDE DEF W
  <2>10. \A t \in Slots, l \in Locks :
          Held(t, l)' = Held(t, l) - (IF t = s /\ l = from THEN 1 ELSE 0)
                                   + (IF t = s /\ l = to THEN 1 ELSE 0)
    <3> SUFFICES ASSUME NEW t \in Slots, NEW l \in Locks
                 PROVE  Held(t, l)' = Held(t, l) - (IF t = s /\ l = from THEN 1 ELSE 0)
                                                 + (IF t = s /\ l = to THEN 1 ELSE 0)
      OBVIOUS
    <3>1. /\ v[t][l] \in Nat /\ Cardinality(W(t, l)) \in Nat /\ Held(t, l) \in Nat
          /\ v[t][l] + Cardinality(W(t, l)) = Held(t, l) - (IF t = s /\ l = from THEN 1 ELSE 0)
      BY <1>2, <2>9
    <3>2. Held(t, l)' = v[t][l] + (IF t = s /\ l = to THEN 1 ELSE 0) + Cardinality(W(t, l))
      BY <2>8
    <3> QED BY <3>1, <3>2
  <2>11. MovesToken(p, s, from, to)
    BY <1>1, <2>9, <2>10 DEF MovesToken
  <2> QED BY <2>6, <2>7, <2>11
<1>4. CASE waiters[s][to] # <<>>
  <2> DEFINE w == waiters[s][to]
             h == Head(w)
  <2>1. /\ value' = v
        /\ waiters' = [waiters EXCEPT ![s][to] = Tail(@)]
        /\ asleep' = asleep \ {h}
    BY <1>4 DEF SemPost
  <2>2. /\ w \in Seq(Procs) /\ \A i, j \in 1..Len(w) : w[i] = w[j] => i = j
        /\ \A i \in 1..Len(w) : w[i] \in asleep /\ call[w[i]].op = OpOf(to) /\ call[w[i]].slot = s
    BY <1>1 DEF WaitersOK
  <2>3. h \in Procs /\ h \in asleep /\ h # p /\ call[h].op = OpOf(to) /\ call[h].slot = s
    BY <1>4, <2>2, TailWaits
  <2>4. \A t \in Slots, l \in Locks :
          Woken(t, OpOf(l))' = W(t, l) \cup (IF t = s /\ l = to THEN {h} ELSE {})
    <3>1. \A t \in Slots, l \in Locks :
            Woken(t, OpOf(l))' =
              W(t, l) \cup (IF call[h].op = OpOf(l) /\ call[h].slot = t THEN {h} ELSE {})
      BY <2>1, <2>3, WokenWithout
    <3>2. \A t \in Slots, l \in Locks :
            (call[h].op = OpOf(l) /\ call[h].slot = t) <=> (t = s /\ l = to)
      BY <2>3, Sizes DEF OpOf
    <3> QED BY <3>1, <3>2
  <2>5. \A t \in Slots, l \in Locks : h \notin W(t, l)
    BY <2>3 DEF Woken
  <2>6. \A t \in Slots, l \in Locks : IsFiniteSet(W(t, l)) /\ Cardinality(W(t, l)) \in Nat
    BY WokenType, FS_RemoveElement, FS_CardinalityType
  <2>7. \A t \in Slots, l \in Locks :
          Cardinality(Woken(t, OpOf(l))') = Cardinality(W(t, l)) + (IF t = s /\ l = to THEN 1 ELSE 0)
    <3>1. SUFFICES ASSUME NEW t \in Slots, NEW l \in Locks
                   PROVE  Cardinality(Woken(t, OpOf(l))') =
                            Cardinality(W(t, l)) + (IF t = s /\ l = to THEN 1 ELSE 0)
      OBVIOUS
    <3>2. CASE t = s /\ l = to
      <4>1. Woken(t, OpOf(l))' = W(t, l) \cup {h}
        BY <2>4, <3>2
      <4>2. Cardinality(W(t, l) \cup {h}) = Cardinality(W(t, l)) + 1
        BY <2>5, <2>6, FS_AddElement
      <4> QED BY <3>2, <4>1, <4>2
    <3>3. CASE ~(t = s /\ l = to)
      <4>1. Woken(t, OpOf(l))' = W(t, l)
        BY <2>4, <3>3
      <4> HIDE DEF W
      <4> QED BY <2>6, <3>3, <4>1
    <3> QED BY <3>2, <3>3
  <2>8. MovesToken(p, s, from, to)
    <3>1. \A t \in Slots, l \in Locks : Held(t, l) \in Nat
      BY HeldType
    <3> HIDE DEF W
    <3>2. \A t \in Slots, l \in Locks :
            Held(t, l)' = Held(t, l) - (IF t = s /\ l = from THEN 1 ELSE 0)
                                     + (IF t = s /\ l = to THEN 1 ELSE 0)
      <4> SUFFICES ASSUME NEW t \in Slots, NEW l \in Locks
                   PROVE  Held(t, l)' = Held(t, l) - (IF t = s /\ l = from THEN 1 ELSE 0)
                                                   + (IF t = s /\ l = to THEN 1 ELSE 0)
        OBVIOUS
      <4>1. /\ v[t][l] \in Nat /\ Cardinality(W(t, l)) \in Nat /\ Held(t, l) \in Nat
            /\ v[t][l] + Cardinality(W(t, l)) = Held(t, l) - (IF t = s /\ l = from THEN 1 ELSE 0)
        BY <1>2, <2>6, <3>1
      <4>2. Held(t, l)' = v[t][l] + Cardinality(Woken(t, OpOf(l))')
        BY <2>1 DEF Held
      <4>3. Cardinality(Woken(t, OpOf(l))') = Cardinality(W(t, l)) + (IF t = s /\ l = to THEN 1 ELSE 0)
        BY <2>7
      <4> QED BY <4>1, <4>2, <4>3
    <3> QED BY <1>1, <3>1, <3>2 DEF MovesToken
  <2>9. /\ \A t \in Slots, l \in Locks :
             waiters'[t][l] = IF t = s /\ l = to THEN Tail(w) ELSE waiters[t][l]
        /\ waiters' \in [Slots -> [Locks -> Seq(Procs)]]
    BY <1>1, <1>4, <2>1, <2>2, TailWaits DEF WaitersOK
  <2>10. \A t \in Slots, l \in Locks : \A i \in 1..Len(waiters'[t][l]) :
           /\ waiters'[t][l][i] \in Procs /\ waiters'[t][l][i] \in asleep
           /\ waiters'[t][l][i] # h /\ waiters'[t][l][i] # p
           /\ call[waiters'[t][l][i]].op = OpOf(l) /\ call[waiters'[t][l][i]].slot = t
    <3>1. SUFFICES ASSUME NEW t \in Slots, NEW l \in Locks, NEW i \in 1..Len(waiters'[t][l])
                   PROVE  /\ waiters'[t][l][i] \in Procs /\ waiters'[t][l][i] \in asleep
                          /\ waiters'[t][l][i] # h /\ waiters'[t][l][i] # p
                          /\ call[waiters'[t][l][i]].op = OpOf(l)
                          /\ call[waiters'[t][l][i]].slot = t
      OBVIOUS
    <3>2. CASE t = s /\ l = to
      <4>1. waiters'[t][l] = Tail(w)
        BY <2>9, <3>2
      <4>2. Tail(w)[i] # h /\ i + 1 \in 1..Len(w) /\ Tail(w)[i] = w[i + 1]
        BY <1>4, <2>2, <3>1, <4>1, TailWaits
      <4> HIDE DEF w, h
      <4>3. w[i + 1] \in asleep /\ call[w[i + 1]].op = OpOf(to) /\ call[w[i + 1]].slot = s
        BY <2>2, <4>2
      <4> QED BY <3>2, <4>1, <4>2, <4>3 DEF WaitersOK
    <3>3. CASE ~(t = s /\ l = to)
      <4>1. waiters'[t][l] = waiters[t][l]
        BY <2>9, <3>3
      <4>2. /\ waiters[t][l][i] \in asleep /\ call[waiters[t][l][i]].op = OpOf(l)
            /\ call[waiters[t][l][i]].slot = t
        BY <3>1, <4>1 DEF WaitersOK
      <4>3. waiters[t][l][i] # h
        BY <2>3, <3>3, <4>2, Sizes DEF OpOf
      <4> QED BY <4>1, <4>2, <4>3 DEF WaitersOK
    <3> QED BY <3>2, <3>3
  <2>11. \A t \in Slots, l \in Locks : \A i, j \in 1..Len(waiters'[t][l]) :
           waiters'[t][l][i] = waiters'[t][l][j] => i = j
    <3>1. \A i, j \in 1..Len(Tail(w)) : Tail(w)[i] = Tail(w)[j] => i = j
      BY <1>4, <2>2, TailWaits
    <3>2. \A t \in Slots, l \in Locks : \A i, j \in 1..Len(waiters[t][l]) :
           waiters[t][l][i] = waiters[t][l][j] => i = j
      BY DEF WaitersOK
    <3> SUFFICES ASSUME NEW t \in Slots, NEW l \in Locks
                 PROVE  \A i, j \in 1..Len(waiters'[t][l]) :
                          waiters'[t][l][i] = waiters'[t][l][j] => i = j
      OBVIOUS
    <3>3. waiters'[t][l] = Tail(w) \/ waiters'[t][l] = waiters[t][l]
      BY <2>9
    <3> HIDE DEF w
    <3>4. CASE waiters'[t][l] = Tail(w)
      BY <3>1, <3>4, Zenon
    <3>5. CASE waiters'[t][l] = waiters[t][l]
      BY <3>2, <3>5, Zenon
    <3> QED BY <3>3, <3>4, <3>5
  <2>12. WaitersOK'
    <3>1. \A t \in Slots, l \in Locks : waiters'[t][l] # <<>> => waiters[t][l] # <<>>
      BY <1>4, <2>9
    <3>2. \A t \in Slots \ inUse', l \in Locks : waiters'[t][l] = <<>>
      <4>1. \A t \in Slots \ inUse, l \in Locks : waiters[t][l] = <<>>
        BY DEF WaitersOK
      <4> QED BY <3>1, <4>1, Zenon
    <3>3. \A t \in Slots, l \in Locks : waiters'[t][l] # <<>> => value'[t][l] = 0
      BY <1>2, <2>1, <3>1
    <3>4. \A t \in Slots, l \in Locks : \A i \in 1..Len(waiters'[t][l]) :
            LET q == waiters'[t][l][i]
            IN q \in asleep' /\ call'[q].op = OpOf(l) /\ call'[q].slot = t
      <4>1. SUFFICES ASSUME NEW t \in Slots, NEW l \in Locks, NEW i \in 1..Len(waiters'[t][l])
                     PROVE  LET q == waiters'[t][l][i]
                            IN q \in asleep' /\ call'[q].op = OpOf(l) /\ call'[q].slot = t
        OBVIOUS
      <4>2. PICK q : q = waiters'[t][l][i]
        OBVIOUS
      <4>3. /\ q \in Procs /\ q \in asleep /\ q # h /\ q # p
            /\ call[q].op = OpOf(l) /\ call[q].slot = t
        BY <2>10, <4>2
      <4> HIDE DEF h
      <4> QED BY <2>1, <4>2, <4>3
    <3>5. asleep' \subseteq Procs
      BY <2>1 DEF WaitersOK
    <3>6. value' \in [Slots -> [Locks -> Nat]]
      BY <1>2, <2>1
    <3> QED BY <2>9, <2>11, <3>2, <3>3, <3>4, <3>5, <3>6 DEF WaitersOK
  <2>13. SleepersListed'
    <3>1. SUFFICES ASSUME NEW q \in Procs, q \in asleep, q # h
                   PROVE  \E t \in inUse, l \in Locks : \E i \in 1..Len(waiters'[t][l]) :
                            waiters'[t][l][i] = q
      BY <2>1 DEF SleepersListed
    <3>2. PICK t \in inUse, l \in Locks : \E i \in 1..Len(waiters[t][l]) : waiters[t][l][i] = q
      BY <3>1 DEF SleepersListed
    <3>3. PICK i \in 1..Len(waiters[t][l]) : waiters[t][l][i] = q
      BY <3>2
    <3>4. CASE t = s /\ l = to
      <4>1. i # 1 /\ i - 1 \in 1..Len(Tail(w)) /\ w[i] = Tail(w)[i - 1]
        BY <1>4, <2>2, <3>1, <3>3, <3>4, TailWaits
      <4>2. waiters'[t][l] = Tail(w)
        BY <1>1, <2>9, <3>4
      <4> QED BY <3>3, <3>4, <4>1, <4>2
    <3>5. CASE ~(t = s /\ l = to)
      BY <2>9, <3>3, <3>5
    <3> QED BY <3>4, <3>5
  <2> QED BY <2>8, <2>12, <2>13
<1> QED BY <1>3, <1>4
-----------------------------------------------------------------------------
(* A call that goes to sleep: the last of its list, counted by no lock.    *)
LEMMA AppendWaits ==
  ASSUME NEW w \in Seq(Procs), NEW p \in Procs,
         \A i, j \in 1..Len(w) : w[i] = w[j] => i = j,
         \A i \in 1..Len(w) : w[i] # p
  PROVE  /\ Append(w, p) \in Seq(Procs) /\ Append(w, p) # <<>>
         /\ \A i \in 1..Len(w) : i \in 1..Len(Append(w, p)) /\ Append(w, p)[i] = w[i]
         /\ \A i \in 1..Len(Append(w, p)) :
              \/ i \in 1..Len(w) /\ Append(w, p)[i] = w[i]
              \/ Append(w, p)[i] = p
         /\ \E i \in 1..Len(Append(w, p)) : Append(w, p)[i] = p
         /\ \A i, j \in 1..Len(Append(w, p)) : Append(w, p)[i] = Append(w, p)[j] => i = j
<1> DEFINE a == Append(w, p)
<1>1. /\ a \in Seq(Procs) /\ Len(a) = Len(w) + 1 /\ Len(w) \in Nat
      /\ \A i \in 1..Len(w) : a[i] = w[i]
      /\ a[Len(w) + 1] = p
  BY AppendProperties, LenProperties
<1> HIDE DEF a
<1>2. \A i \in 1..Len(w) : i \in 1..Len(a)
  BY <1>1
<1>3. \A i \in 1..Len(a) : i \in 1..Len(w) \/ i = Len(w) + 1
  BY <1>1
<1>4. Len(w) + 1 \in 1..Len(a) /\ a # <<>>
  BY <1>1, EmptySeq
<1>5. \A i, j \in 1..Len(a) : a[i] = a[j] => i = j
  BY <1>1, <1>3
<1> QED BY <1>1, <1>2, <1>3, <1>4, <1>5 DEF a

LEMMA SleepCounts ==
  ASSUME CallsOK, WaitersOK, SleepersListed, inUse \subseteq Slots, inUse' = inUse,
         NEW p \in Procs, p \notin asleep,
         NEW s \in inUse, NEW lock \in Locks, ~Passes(s, lock), Sleep(p, s, lock),
         inKernel \in {Nothing, p}, inKernel' = Nothing,
         \A q \in Procs : q # p => call'[q] = call[q],
         call'[p].op = OpOf(lock) /\ call'[p].slot = s,
         call[p].op = "none" \/ inKernel = p
  PROVE  /\ WaitersOK' /\ SleepersListed'
         /\ \A t \in Slots, l \in Locks : Held(t, l)' = Held(t, l)
<1> DEFINE w == waiters[s][lock]
<1>1. /\ s \in Slots /\ value[s][lock] = 0
      /\ value' = value /\ asleep' = asleep \cup {p}
      /\ waiters' = [waiters EXCEPT ![s][lock] = Append(@, p)]
  BY DEF WaitersOK, Passes, Sleep
<1>2. /\ w \in Seq(Procs) /\ \A i, j \in 1..Len(w) : w[i] = w[j] => i = j
      /\ \A i \in 1..Len(w) : w[i] # p
  BY <1>1 DEF WaitersOK
<1>3. /\ \A t \in Slots, l \in Locks :
           waiters'[t][l] = IF t = s /\ l = lock THEN Append(w, p) ELSE waiters[t][l]
      /\ waiters' \in [Slots -> [Locks -> Seq(Procs)]]
  BY <1>1, <1>2, AppendWaits DEF WaitersOK
<1>4. ASSUME NEW t \in Slots, NEW l \in Locks
      PROVE  /\ \A i \in 1..Len(waiters'[t][l]) :
                  LET q == waiters'[t][l][i]
                  IN q \in asleep' /\ call'[q].op = OpOf(l) /\ call'[q].slot = t
             /\ \A i, j \in 1..Len(waiters'[t][l]) : waiters'[t][l][i] = waiters'[t][l][j] => i = j
             /\ waiters'[t][l] # <<>> => value[t][l] = 0
             /\ \A q \in asleep : (\E i \in 1..Len(waiters[t][l]) : waiters[t][l][i] = q)
                  => \E i \in 1..Len(waiters'[t][l]) : waiters'[t][l][i] = q
  <2>1. /\ \A i \in 1..Len(waiters[t][l]) :
             LET q == waiters[t][l][i]
             IN q \in asleep /\ q \in Procs /\ q # p /\ call[q].op = OpOf(l) /\ call[q].slot = t
        /\ \A i, j \in 1..Len(waiters[t][l]) : waiters[t][l][i] = waiters[t][l][j] => i = j
        /\ waiters[t][l] # <<>> => value[t][l] = 0
    BY DEF WaitersOK
  <2>2. \A i \in 1..Len(waiters[t][l]) :
          LET q == waiters[t][l][i]
          IN q \in asleep' /\ call'[q].op = OpOf(l) /\ call'[q].slot = t
    <3> SUFFICES ASSUME NEW i \in 1..Len(waiters[t][l])
                 PROVE  LET q == waiters[t][l][i]
                        IN q \in asleep' /\ call'[q].op = OpOf(l) /\ call'[q].slot = t
      OBVIOUS
    <3>1. PICK q : q = waiters[t][l][i]
      OBVIOUS
    <3>2. q \in asleep /\ q \in Procs /\ q # p /\ call[q].op = OpOf(l) /\ call[q].slot = t
      BY <2>1, <3>1
    <3> QED BY <1>1, <3>1, <3>2
  <2>3. CASE t = s /\ l = lock
    <3>1. waiters'[t][l] = Append(w, p) /\ waiters[t][l] = w
      BY <1>3, <2>3
    <3>2. /\ \A i \in 1..Len(Append(w, p)) :
               \/ i \in 1..Len(w) /\ Append(w, p)[i] = w[i]
               \/ Append(w, p)[i] = p
          /\ \A i \in 1..Len(w) : i \in 1..Len(Append(w, p)) /\ Append(w, p)[i] = w[i]
          /\ \A i, j \in 1..Len(Append(w, p)) : Append(w, p)[i] = Append(w, p)[j] => i = j
      BY <1>2, AppendWaits
    <3>3. p \in asleep' /\ call'[p].op = OpOf(l) /\ call'[p].slot = t /\ value[t][l] = 0
      BY <1>1, <2>3
    <3> HIDE DEF w
    <3> QED BY <2>2, <3>1, <3>2, <3>3
  <2>4. CASE ~(t = s /\ l = lock)
    <3>1. waiters'[t][l] = waiters[t][l]
      BY <1>3, <2>4
    <3> QED BY <2>1, <2>2, <3>1
  <2> QED BY <2>3, <2>4
<1>5. WaitersOK'
  <2>1. \A t \in Slots \ inUse', l \in Locks : waiters'[t][l] = <<>>
    BY <1>1, <1>3 DEF WaitersOK
  <2>2. asleep' \subseteq Procs /\ value' \in [Slots -> [Locks -> Nat]]
    BY <1>1 DEF WaitersOK
  <2>3. \A t \in Slots, l \in Locks : waiters'[t][l] # <<>> => value'[t][l] = 0
    BY <1>1, <1>4
  <2>4. \A t \in Slots, l \in Locks : \A i \in 1..Len(waiters'[t][l]) :
          LET q == waiters'[t][l][i]
          IN q \in asleep' /\ call'[q].op = OpOf(l) /\ call'[q].slot = t
    BY <1>4
  <2>5. \A t \in Slots, l \in Locks : \A i, j \in 1..Len(waiters'[t][l]) :
          waiters'[t][l][i] = waiters'[t][l][j] => i = j
    BY <1>4
  <2> QED BY <1>3, <2>1, <2>2, <2>3, <2>4, <2>5 DEF WaitersOK
<1>6. SleepersListed'
  <2>1. SUFFICES ASSUME NEW q \in Procs, q \in asleep'
                 PROVE  \E t \in inUse, l \in Locks : \E i \in 1..Len(waiters'[t][l]) :
                          waiters'[t][l][i] = q
    BY DEF SleepersListed
  <2>2. CASE q = p
    <3>1. \E i \in 1..Len(waiters'[s][lock]) : waiters'[s][lock][i] = p
      BY <1>1, <1>2, <1>3, AppendWaits
    <3> QED BY <2>2, <3>1
  <2>3. CASE q # p
    <3>1. PICK t \in inUse, l \in Locks : \E i \in 1..Len(waiters[t][l]) : waiters[t][l][i] = q
      BY <1>1, <2>1, <2>3 DEF SleepersListed
    <3>2. \E i \in 1..Len(waiters'[t][l]) : waiters'[t][l][i] = q
      BY <1>1, <1>4, <2>1, <2>3, <3>1
    <3> QED BY <3>2
  <2> QED BY <2>2, <2>3
<1>7. \A t \in Slots, l \in Locks : Held(t, l)' = Held(t, l)
  <2>1. \A t \in Slots, l \in Locks : p \notin Woken(t, OpOf(l))
    BY DEF Woken, OpOf
  <2>2. \A t \in Slots, l \in Locks : Woken(t, OpOf(l))' = Woken(t, OpOf(l)) \ {p}
    BY <1>1, WokenWithout
  <2>3. ASSUME NEW t \in Slots, NEW l \in Locks PROVE Woken(t, OpOf(l))' = Woken(t, OpOf(l))
    <3>1. Woken(t, OpOf(l)) \ {p} = Woken(t, OpOf(l))
      BY <2>1
    <3> QED BY <2>2, <3>1
  <2> QED BY <1>1, <2>3 DEF Held
<1> QED BY <1>5, <1>6, <1>7

(* A step that leaves the semaphores alone. *)
LEMMA StayCounts ==
  ASSUME CallsOK, WaitersOK, SleepersListed, inUse \subseteq Slots,
         UNCHANGED <<inUse, semaphores>>,
         NEW p \in Procs, p \notin asleep,
         inKernel \in {Nothing, p}, inKernel' \in {Nothing, p},
         \A q \in Procs : q # p => call'[q] = call[q],
         call'[p].op = "none" \/ inKernel' = p,
         call[p].op = "none" \/ inKernel = p
  PROVE  /\ WaitersOK' /\ SleepersListed'
         /\ \A t \in Slots, l \in Locks : Held(t, l)' = Held(t, l)
<1>1. value' = value /\ waiters' = waiters /\ asleep' = asleep /\ inUse' = inUse
  BY DEF semaphores
<1>2. WaitersOK'
  <2>1. ASSUME NEW t \in Slots, NEW l \in Locks, NEW i \in 1..Len(waiters[t][l])
        PROVE  LET q == waiters[t][l][i]
               IN q \in asleep /\ call'[q].op = OpOf(l) /\ call'[q].slot = t
    <3>1. PICK q : q = waiters[t][l][i]
      OBVIOUS
    <3>2. q \in asleep /\ q \in Procs /\ call[q].op = OpOf(l) /\ call[q].slot = t
      BY <3>1 DEF WaitersOK
    <3> QED BY <3>1, <3>2
  <2>2. \A t \in Slots, l \in Locks : \A i \in 1..Len(waiters[t][l]) :
          LET q == waiters[t][l][i]
          IN q \in asleep /\ call'[q].op = OpOf(l) /\ call'[q].slot = t
    BY <2>1
  <2> QED BY <1>1, <2>2 DEF WaitersOK
<1>3. SleepersListed'
  BY <1>1 DEF SleepersListed
<1>4. \A t \in Slots, l \in Locks : p \notin Woken(t, OpOf(l))
  BY DEF Woken, OpOf
<1>5. \A t \in Slots, l \in Locks : Woken(t, OpOf(l))' = Woken(t, OpOf(l)) \ {p}
  BY <1>1, WokenWithout
<1>6. \A t \in Slots, l \in Locks : Held(t, l)' = Held(t, l)
  BY <1>1, <1>4, <1>5 DEF Held
<1> QED BY <1>2, <1>3, <1>6
-----------------------------------------------------------------------------
(* The ring buffer of a pipe as a queue. *)
LEMMA ContentsRing ==
  \A s : Contents(s) = IF s \in inUse
                       THEN Queue(buffer[s], Filled(s), readIndex[s], PIPE_BUFFER_SIZE)
                       ELSE <<>>
BY DEF Contents, Queue

LEMMA FilledFits ==
  ASSUME WaitersOK, RingExact, inUse \subseteq Slots, NEW s \in inUse
  PROVE  /\ Held(s, "readLock") \in 0..PIPE_BUFFER_SIZE
         /\ Held(s, "writeLock") = PIPE_BUFFER_SIZE - Held(s, "readLock")
         /\ writeIndex[s] = (readIndex[s] + Held(s, "readLock")) % PIPE_BUFFER_SIZE
<1>1. Held(s, "readLock") \in Nat /\ Held(s, "writeLock") \in Nat
  BY HeldType, Sizes
<1>2. Held(s, "readLock") + Held(s, "writeLock") = PIPE_BUFFER_SIZE
  BY HeldRing DEF RingExact
<1>3. writeIndex[s] = (readIndex[s] + Held(s, "readLock")) % PIPE_BUFFER_SIZE
  BY HeldRing DEF RingExact
<1> QED BY <1>1, <1>2, <1>3, Sizes

LEMMA TakeStep ==
  ASSUME TableOK, WaitersOK, RingExact, NEW p, NEW s \in inUse, UNCHANGED <<inUse, id, buffer, writeIndex>>,
         MovesToken(p, s, "readLock", "writeLock"), WaitersOK',
         readIndex' = [readIndex EXCEPT ![s] = (@ + 1) % PIPE_BUFFER_SIZE],
         returned' = buffer[s][readIndex[s]]
  PROVE  TableOK' /\ RingExact' /\ Queues!Get(s)
<1> DEFINE N == PIPE_BUFFER_SIZE
<1>1. /\ s \in Slots /\ readIndex[s] \in 0..(N - 1) /\ readIndex'[s] = (readIndex[s] + 1) % N
      /\ buffer[s] \in Arrays(Elements, N)
      /\ \A t \in Slots : t # s => readIndex'[t] = readIndex[t]
  BY DEF TableOK, Cells
<1>2. PICK n \in 0..N : n = Held(s, "readLock")
  BY FilledFits DEF TableOK
<1>3. Held(s, "readLock")' = n - 1 /\ Held(s, "writeLock")' = (N - n) + 1
  BY <1>2, FilledFits DEF MovesToken, TableOK
<1>4. n \in 1..N /\ n - 1 \in Nat
  <2>1. Held(s, "readLock")' \in Nat
    <3>1. inUse' \subseteq Slots /\ s \in Slots /\ "readLock" \in Locks
      BY <1>1, Sizes DEF TableOK
    <3>2. value' \in [Slots -> [Locks -> Nat]]
      BY DEF WaitersOK
    <3>3. Cardinality(Woken(s, OpOf("readLock"))') \in Nat
      BY PipesAssumption, FS_Subset, FS_CardinalityType DEF Woken
    <3> QED BY <3>1, <3>2, <3>3 DEF Held
  <2> QED BY <1>2, <1>3, <2>1, Sizes
<1>5. /\ readIndex'[s] \in 0..(N - 1)
      /\ (readIndex'[s] + (n - 1)) % N = (readIndex[s] + n) % N
  BY <1>1, <1>4, Sizes, RingAdvance
<1>6. TableOK'
  <2>1. readIndex' \in [Slots -> Cells]
    BY <1>1, <1>5 DEF TableOK, Cells
  <2> QED BY <2>1 DEF TableOK
<1>7. \A t \in inUse : t # s => Filled(t)' = Filled(t) /\ Room(t)' = Room(t)
  BY HeldRing, Sizes DEF MovesToken, TableOK, Held, OpOf, Filled, Room
<1>8. Filled(s) = n /\ Filled(s)' = n - 1 /\ Room(s)' = (N - n) + 1
  BY <1>2, <1>3 DEF Held, OpOf, Filled, Room
<1>9. RingExact'
  <2>1. ASSUME NEW t \in inUse
        PROVE  /\ Filled(t)' + Room(t)' = N
               /\ writeIndex'[t] = (readIndex'[t] + Filled(t)') % N
    <3>1. CASE t = s
      <4>1. writeIndex[s] = (readIndex[s] + n) % N
        BY <1>2, FilledFits DEF TableOK
      <4>2. (n - 1) + ((N - n) + 1) = N
        BY <1>4, Sizes
      <4> QED BY <1>5, <1>8, <3>1, <4>1, <4>2
    <3>2. CASE t # s
      BY <1>1, <1>7, <3>2 DEF RingExact, TableOK
    <3> QED BY <3>1, <3>2
  <2> QED BY <2>1 DEF RingExact
<1>10. ASSUME NEW t \in Slots, t # s PROVE Contents(t)' = Contents(t)
  <2>1. CASE t \in inUse
    <3>1. readIndex'[t] = readIndex[t] /\ buffer'[t] = buffer[t] /\ Filled(t)' = Filled(t)
      BY <1>1, <1>7, <1>10, <2>1
    <3> QED BY <2>1, <3>1 DEF Contents
  <2>2. CASE t \notin inUse
    BY <2>2 DEF Contents
  <2> QED BY <2>1, <2>2
<1>11. /\ Contents(s) = Queue(buffer[s], n, readIndex[s], N)
       /\ Contents(s)' = Queue(buffer[s], n - 1, readIndex'[s], N)
  BY <1>8 DEF Contents, Queue
<1>12. Place(readIndex[s] + 1, N) = readIndex'[s]
  <2>1. PICK x \in Nat : x = readIndex[s] + 1 /\ x < 2 * N
    BY <1>1, Sizes
  <2> QED BY <1>1, <2>1, Sizes, Around
<1>13. /\ Contents(s) # <<>>
       /\ Head(Contents(s)) = returned'
       /\ Contents(s)' = Tail(Contents(s))
  <2>1. PICK r \in 0..(N - 1) : r = readIndex[s]
    BY <1>1
  <2>2. PICK b \in Arrays(Elements, N) : b = buffer[s]
    BY <1>1
  <2>3. /\ Queue(b, n, r, N) # <<>>
        /\ Head(Queue(b, n, r, N)) = b[r]
        /\ Tail(Queue(b, n, r, N)) = Queue(b, n - 1, Place(r + 1, N), N)
    BY <1>4, Sizes, RingTail
  <2> QED BY <1>11, <1>12, <2>1, <2>2, <2>3
<1>14. [t \in Slots |-> Contents(t)]' = [[t \in Slots |-> Contents(t)] EXCEPT ![s] = Tail(@)]
  BY <1>1, <1>10, <1>13
<1>15. Queues!Get(s)
  BY <1>1, <1>13, <1>14 DEF Queues!Get
<1> QED BY <1>6, <1>9, <1>15

LEMMA PutStep ==
  ASSUME TableOK, WaitersOK, RingExact, NEW p, NEW s \in inUse, NEW c \in Chars,
         UNCHANGED <<inUse, id, readIndex, returned>>,
         MovesToken(p, s, "writeLock", "readLock"), WaitersOK',
         buffer' = [buffer EXCEPT ![s][writeIndex[s]] = c],
         writeIndex' = [writeIndex EXCEPT ![s] = (@ + 1) % PIPE_BUFFER_SIZE]
  PROVE  TableOK' /\ RingExact' /\ Queues!Put(s)
<1> DEFINE N == PIPE_BUFFER_SIZE
<1>1. /\ s \in Slots /\ readIndex[s] \in 0..(N - 1) /\ writeIndex'[s] = (writeIndex[s] + 1) % N
      /\ buffer[s] \in Arrays(Elements, N) /\ writeIndex[s] \in 0..(N - 1)
      /\ buffer'[s] = Written(buffer[s], writeIndex[s], c)
      /\ \A t \in Slots : t # s => writeIndex'[t] = writeIndex[t] /\ buffer'[t] = buffer[t]
  BY DEF TableOK, Cells, Written
<1>2. PICK n \in 0..N : n = Held(s, "readLock")
  BY FilledFits DEF TableOK
<1>3. Held(s, "readLock")' = n + 1 /\ Held(s, "writeLock")' = (N - n) - 1
  BY <1>2, FilledFits DEF MovesToken, TableOK
<1>4. n \in 0..(N - 1) /\ n + 1 \in Nat
  <2>1. Held(s, "writeLock")' \in Nat
    <3>1. s \in Slots /\ "writeLock" \in Locks
      BY <1>1, Sizes
    <3>2. value' \in [Slots -> [Locks -> Nat]]
      BY DEF WaitersOK
    <3>3. Cardinality(Woken(s, OpOf("writeLock"))') \in Nat
      BY PipesAssumption, FS_Subset, FS_CardinalityType DEF Woken
    <3> QED BY <3>1, <3>2, <3>3 DEF Held
  <2> QED BY <1>2, <1>3, <2>1, Sizes
<1>5. writeIndex[s] = (readIndex[s] + n) % N
  BY <1>2, FilledFits DEF TableOK
<1>6. /\ writeIndex'[s] \in 0..(N - 1)
      /\ writeIndex'[s] = (readIndex[s] + (n + 1)) % N
  <2>1. PICK r \in 0..(N - 1) : r = readIndex[s]
    BY <1>1
  <2>2. (((r + n) % N) + 1) % N = (r + (n + 1)) % N
    BY <1>4, Sizes, RingGrow
  <2>3. writeIndex'[s] = (r + (n + 1)) % N
    BY <1>1, <1>5, <2>1, <2>2
  <2>4. N \in Nat /\ N > 0 /\ r + (n + 1) \in Nat
    BY <1>4, Sizes
  <2>5. (r + (n + 1)) % N \in 0..(N - 1)
    BY <2>4
  <2> QED BY <2>1, <2>3, <2>5
<1>7. TableOK'
  <2>1. Written(buffer[s], writeIndex[s], c) \in Arrays(Elements, N)
    BY <1>1 DEF Written, Arrays, Elements
  <2>2. buffer' \in [Slots -> Arrays(Elements, N)]
    BY <1>1, <2>1 DEF TableOK, Written
  <2>3. writeIndex' \in [Slots -> Cells]
    BY <1>1, <1>6 DEF TableOK, Cells
  <2> QED BY <2>2, <2>3 DEF TableOK
<1>8. \A t \in inUse : t # s => Filled(t)' = Filled(t) /\ Room(t)' = Room(t)
  BY HeldRing, Sizes DEF MovesToken, TableOK, Held, OpOf, Filled, Room
<1>9. Filled(s) = n /\ Filled(s)' = n + 1 /\ Room(s)' = (N - n) - 1
  BY <1>2, <1>3 DEF Held, OpOf, Filled, Room
<1>10. RingExact'
  <2>1. ASSUME NEW t \in inUse
        PROVE  /\ Filled(t)' + Room(t)' = N
               /\ writeIndex'[t] = (readIndex'[t] + Filled(t)') % N
    <3>1. CASE t = s
      <4>1. (n + 1) + ((N - n) - 1) = N
        BY <1>4, Sizes
      <4> QED BY <1>6, <1>9, <3>1, <4>1
    <3>2. CASE t # s
      BY <1>1, <1>8, <3>2 DEF RingExact, TableOK
    <3> QED BY <3>1, <3>2
  <2> QED BY <2>1 DEF RingExact
<1>11. ASSUME NEW t \in Slots, t # s PROVE Contents(t)' = Contents(t)
  <2>1. CASE t \in inUse
    <3>1. readIndex'[t] = readIndex[t] /\ buffer'[t] = buffer[t] /\ Filled(t)' = Filled(t)
      BY <1>1, <1>8, <1>11, <2>1
    <3> QED BY <2>1, <3>1 DEF Contents
  <2>2. CASE t \notin inUse
    BY <2>2 DEF Contents
  <2> QED BY <2>1, <2>2
<1>12. /\ Contents(s) = Queue(buffer[s], n, readIndex[s], N)
       /\ Contents(s)' = Queue(buffer'[s], n + 1, readIndex[s], N)
  BY <1>9 DEF Contents, Queue
<1>13. writeIndex[s] = Place(readIndex[s] + n, N)
  <2>1. PICK x \in Nat : x = readIndex[s] + n /\ x < 2 * N
    BY <1>1, <1>4, Sizes
  <2>2. x % N = Place(x, N)
    BY <2>1, Sizes, Around
  <2> QED BY <1>5, <2>1, <2>2
<1>14. Len(Contents(s)) < N /\ Contents(s)' = Append(Contents(s), c)
  <2>1. PICK r \in 0..(N - 1) : r = readIndex[s]
    BY <1>1
  <2>2. PICK b \in Arrays(Elements, N) : b = buffer[s]
    BY <1>1
  <2>3. PICK w : w = writeIndex[s]
    OBVIOUS
  <2>4. c \in Elements
    BY DEF Elements
  <2>5. \A m : w = Place(r + n, N) /\ m = n + 1
                 => Queue(Written(b, w, c), m, r, N) = Append(Queue(b, n, r, N), c)
    BY <1>4, <2>4, Sizes, RingAppend
  <2>6. Queue(Written(b, w, c), n + 1, r, N) = Append(Queue(b, n, r, N), c)
    BY <1>13, <2>1, <2>3, <2>5
  <2>7. Len(Queue(b, n, r, N)) = n
    BY Sizes, RingType
  <2> QED BY <1>1, <1>4, <1>12, <2>1, <2>2, <2>3, <2>6, <2>7, Sizes
<1>15. [t \in Slots |-> Contents(t)]' = [[t \in Slots |-> Contents(t)] EXCEPT ![s] = Append(@, c)]
  BY <1>1, <1>11, <1>14
<1>16. Queues!Put(s)
  BY <1>1, <1>14, <1>15 DEF Queues!Put
<1> QED BY <1>7, <1>10, <1>16

LEMMA StayStep ==
  ASSUME TableOK, RingExact, UNCHANGED <<inUse, id, rings>>,
         \A t \in Slots, l \in Locks : Held(t, l)' = Held(t, l)
  PROVE  /\ TableOK' /\ RingExact'
         /\ [t \in Slots |-> Contents(t)]' = [t \in Slots |-> Contents(t)]
<1>1. UNCHANGED <<inUse, id, buffer, readIndex, writeIndex>>
  BY DEF rings
<1>2. TableOK'
  BY <1>1 DEF TableOK
<1>3. \A t \in inUse : Filled(t)' = Filled(t) /\ Room(t)' = Room(t)
  BY HeldRing, Sizes DEF TableOK, Held, OpOf, Filled, Room
<1>4. RingExact'
  BY <1>1, <1>3 DEF RingExact
<1>5. ASSUME NEW t \in Slots PROVE Contents(t)' = Contents(t)
  BY <1>1, <1>3 DEF Contents
<1> QED BY <1>2, <1>4, <1>5
-----------------------------------------------------------------------------
LEMMA AsleepInCall ==
  ASSUME WaitersOK, SleepersListed, inUse \subseteq Slots, NEW p \in Procs, call[p].op = "none"
  PROVE  p \notin asleep
<1> SUFFICES ASSUME p \in asleep PROVE FALSE
  OBVIOUS
<1>1. PICK s \in inUse, l \in Locks : \E i \in 1..Len(waiters[s][l]) : waiters[s][l][i] = p
  BY DEF SleepersListed
<1>2. call[p].op = OpOf(l)
  BY <1>1 DEF WaitersOK
<1> QED BY <1>2 DEF OpOf

LEMMA CallsKept ==
  ASSUME CallsOK, inUse' = inUse, NEW p \in Procs, NEW c \in Calls,
         call' = [call EXCEPT ![p] = c],
         c.op # "none" => c.slot \in inUse,
         c.op = "write" /\ inKernel' = Nothing => c.rest # <<>>,
         inKernel \in {Nothing, p}, inKernel' \in {Nothing, p},
         inKernel' = p => c.op = "write" /\ p \notin asleep'
  PROVE  CallsOK' /\ \A q \in Procs : q # p => call'[q] = call[q]
<1>1. call' \in [Procs -> Calls] /\ call'[p] = c /\ \A q \in Procs : q # p => call'[q] = call[q]
  BY DEF CallsOK
<1>2. \A q \in Procs : q # p => q # inKernel /\ q # inKernel'
  BY Sizes
<1>3. \A q \in Procs : call'[q].op # "none" => call'[q].slot \in inUse'
  BY <1>1 DEF CallsOK
<1>4. ASSUME NEW q \in Procs, call'[q].op = "write", q # inKernel' PROVE call'[q].rest # <<>>
  <2>1. CASE q = p
    BY <1>1, <1>4, <2>1
  <2>2. CASE q # p
    BY <1>1, <1>2, <1>4, <2>2 DEF CallsOK
  <2> QED BY <2>1, <2>2
<1>5. inKernel' \in Procs => call'[inKernel'].op = "write" /\ inKernel' \notin asleep'
  BY <1>1, Sizes
<1> QED BY <1>1, <1>3, <1>4, <1>5 DEF CallsOK

Goal == IInv' /\ (Queues!Next \/ UNCHANGED Queues!vars)

LEMMA Stays ==
  ASSUME TableOK', CallsOK', WaitersOK', SleepersListed', RingExact', returned' = returned,
         [t \in Slots |-> Contents(t)]' = [t \in Slots |-> Contents(t)]
  PROVE  Goal
BY DEF Goal, IInv, Queues!vars

(* p takes a character from the ring of s. *)
LEMMA TakesChar ==
  ASSUME IInv, NEW p \in Procs, p \notin asleep, NEW s \in inUse, NEW v, TakeChar(s, v),
         UNCHANGED <<pipeTable, buffer, writeIndex, inKernel>>, inKernel = Nothing,
         call' = [call EXCEPT ![p] = NoCall],
         \/ v = Taken(s, "readLock") /\ Passes(s, "readLock") /\ call[p].op = "none"
         \/ v = value /\ call[p].op = "read" /\ call[p].slot = s
  PROVE  Goal
<1>1. NoCall \in Calls /\ NoCall.op = "none"
  BY Sizes, EmptySeq DEF NoCall, Calls
<1>2. inUse' = inUse /\ inUse \subseteq Slots /\ id' = id
  BY DEF pipeTable, IInv, TableOK
<1>3. CallsOK' /\ \A q \in Procs : q # p => call'[q] = call[q]
  BY <1>1, <1>2, CallsKept, Sizes DEF IInv
<1>4. call'[p].op = "none"
  BY <1>1 DEF IInv, CallsOK
<1>5. WaitersOK' /\ SleepersListed' /\ MovesToken(p, s, "readLock", "writeLock")
  <2>1. SemPost(s, "writeLock", v)
    BY DEF TakeChar
  <2>2. "readLock" \in Locks /\ "writeLock" \in Locks /\ OpOf("readLock") = "read"
    BY DEF Locks, OpOf
  <2> QED BY <1>2, <1>3, <1>4, <2>1, <2>2, PostCounts DEF IInv
<1>6. TableOK' /\ RingExact' /\ Queues!Get(s)
  BY <1>2, <1>5, TakeStep DEF IInv, TakeChar
<1>7. s \in Slots
  BY <1>2
<1> QED BY <1>3, <1>5, <1>6, <1>7 DEF Goal, IInv, Queues!Next

(* p writes a character into the ring of s. *)
LEMMA PutsChar ==
  ASSUME IInv, NEW p \in Procs, p \notin asleep, NEW s \in inUse, NEW v, PutChar(p, s, v),
         UNCHANGED <<pipeTable, readIndex, returned>>,
         call[p].op = "write" /\ call[p].slot = s /\ call[p].rest # <<>>,
         inKernel \in {Nothing, p}, inKernel' = p,
         \/ v = Taken(s, "writeLock") /\ Passes(s, "writeLock") /\ inKernel = p
         \/ v = value /\ inKernel = Nothing
  PROVE  Goal
<1>1. inUse' = inUse /\ inUse \subseteq Slots /\ id' = id
  BY DEF pipeTable, IInv, TableOK
<1>2. /\ call[p] \in Calls /\ call[p].rest \in Seq(Chars)
      /\ Head(call[p].rest) \in Chars /\ Tail(call[p].rest) \in Seq(Chars)
  BY HeadTailProperties DEF IInv, CallsOK, Calls
<1>3. PICK c \in Calls : /\ c = [call[p] EXCEPT !.rest = Tail(@)]
                         /\ c.op = "write" /\ c.slot = s
  <2> DEFINE d == [call[p] EXCEPT !.rest = Tail(@)]
  <2>1. d \in Calls
    BY <1>2 DEF Calls
  <2>2. d.op = "write" /\ d.slot = s
    BY <1>2 DEF Calls
  <2> HIDE DEF d
  <2>3. \E c \in Calls : c = d /\ c.op = "write" /\ c.slot = s
    BY <2>1, <2>2
  <2> QED BY <2>3 DEF d
<1>4. call' = [call EXCEPT ![p] = c]
  BY <1>3 DEF PutChar
<1>5. asleep' \subseteq asleep
  BY DEF PutChar, SemPost
<1>6. CallsOK' /\ \A q \in Procs : q # p => call'[q] = call[q]
  BY <1>1, <1>3, <1>4, <1>5, CallsKept, Sizes DEF IInv
<1>7. WaitersOK' /\ SleepersListed' /\ MovesToken(p, s, "writeLock", "readLock")
  <2>1. SemPost(s, "readLock", v)
    BY DEF PutChar
  <2>2. "readLock" \in Locks /\ "writeLock" \in Locks /\ OpOf("writeLock") = "write"
    BY DEF Locks, OpOf
  <2> QED BY <1>1, <1>6, <2>1, <2>2, PostCounts DEF IInv
<1>8. TableOK' /\ RingExact' /\ Queues!Put(s)
  <2>1. /\ buffer' = [buffer EXCEPT ![s][writeIndex[s]] = Head(call[p].rest)]
        /\ writeIndex' = [writeIndex EXCEPT ![s] = (@ + 1) % PIPE_BUFFER_SIZE]
    BY DEF PutChar
  <2>2. PICK c1 \in Chars : c1 = Head(call[p].rest)
    BY <1>2
  <2>3. buffer' = [buffer EXCEPT ![s][writeIndex[s]] = c1]
    BY <2>1, <2>2
  <2> QED BY <1>1, <1>7, <2>1, <2>3, PutStep DEF IInv
<1>9. s \in Slots
  BY <1>1
<1> QED BY <1>6, <1>7, <1>8, <1>9 DEF Goal, IInv, Queues!Next

(* p goes to sleep in a call on s. *)
LEMMA Sleeps ==
  ASSUME IInv, NEW p \in Procs, p \notin asleep, NEW s \in inUse, NEW lock \in Locks,
         ~Passes(s, lock), Sleep(p, s, lock),
         UNCHANGED <<pipeTable, rings, returned>>,
         inKernel \in {Nothing, p}, inKernel' = Nothing,
         NEW c \in Calls, call' = [call EXCEPT ![p] = c],
         c.op = OpOf(lock) /\ c.slot = s, c.op = "write" => c.rest # <<>>,
         call[p].op = "none" \/ inKernel = p
  PROVE  Goal
<1>1. inUse' = inUse /\ inUse \subseteq Slots /\ id' = id
  BY DEF pipeTable, IInv, TableOK
<1>2. CallsOK' /\ \A q \in Procs : q # p => call'[q] = call[q]
  BY <1>1, CallsKept, Sizes DEF IInv
<1>3. call'[p] = c
  BY DEF IInv, CallsOK
<1>4. /\ WaitersOK' /\ SleepersListed'
      /\ \A t \in Slots, l \in Locks : Held(t, l)' = Held(t, l)
  BY <1>1, <1>2, <1>3, SleepCounts DEF IInv
<1> QED BY <1>1, <1>2, <1>4, StayStep, Stays DEF IInv

(* p enters or leaves the kernel without touching a semaphore. *)
LEMMA Moves ==
  ASSUME IInv, NEW p \in Procs, p \notin asleep,
         UNCHANGED <<pipeTable, rings, semaphores, returned>>,
         inKernel \in {Nothing, p}, inKernel' \in {Nothing, p},
         NEW c \in Calls, call' = [call EXCEPT ![p] = c],
         \/ c.op = "none" /\ inKernel' = Nothing
         \/ c.op = "write" /\ c.slot \in inUse /\ inKernel' = p,
         call[p].op = "none" \/ inKernel = p
  PROVE  Goal
<1>1. inUse' = inUse /\ inUse \subseteq Slots /\ id' = id /\ asleep' = asleep
  BY DEF pipeTable, IInv, TableOK, semaphores
<1>2. CallsOK' /\ \A q \in Procs : q # p => call'[q] = call[q]
  BY <1>1, CallsKept, Sizes DEF IInv
<1>3. call'[p] = c
  BY DEF IInv, CallsOK
<1>4. /\ WaitersOK' /\ SleepersListed'
      /\ \A t \in Slots, l \in Locks : Held(t, l)' = Held(t, l)
  BY <1>1, <1>2, <1>3, StayCounts DEF IInv
<1> QED BY <1>1, <1>2, <1>4, StayStep, Stays DEF IInv
-----------------------------------------------------------------------------
LEMMA InUserCodeFacts ==
  ASSUME IInv, NEW p \in Procs, InUserCode(p)
  PROVE  inKernel = Nothing /\ call[p].op = "none" /\ p \notin asleep
<1>1. inKernel = Nothing /\ call[p].op = "none"
  BY DEF InUserCode, NoCall
<1> QED BY <1>1, AsleepInCall DEF IInv, TableOK

LEMMA CallType ==
  /\ NoCall \in Calls /\ NoCall.op = "none"
  /\ \A s \in Slots, op \in {"read", "write"}, str \in Seq(Chars) :
       /\ Call(op, s, str) \in Calls
       /\ Call(op, s, str).op = op /\ Call(op, s, str).slot = s /\ Call(op, s, str).rest = str
  /\ \A s \in Slots : /\ Call("read", s, <<>>) \in Calls
                       /\ Call("read", s, <<>>).op = "read" /\ Call("read", s, <<>>).slot = s
BY Sizes, EmptySeq DEF NoCall, Calls, Call

LEMMA Untouched ==
  ASSUME IInv,
         UNCHANGED <<inUse, id, buffer, readIndex, writeIndex, value, waiters, asleep, call, inKernel>>
  PROVE  IInv' /\ [t \in Slots |-> Contents(t)]' = [t \in Slots |-> Contents(t)]
<1>1. TableOK' /\ CallsOK'
  BY DEF IInv, TableOK, CallsOK
<1>2. WaitersOK'
  BY DEF IInv, WaitersOK
<1>3. SleepersListed' /\ RingExact'
  BY DEF IInv, SleepersListed, RingExact, Filled, Room, Woken
<1>4. [t \in Slots |-> Contents(t)]' = [t \in Slots |-> Contents(t)]
  BY DEF Contents, Filled, Woken
<1> QED BY <1>1, <1>2, <1>3, <1>4 DEF IInv

LEMMA ReadNothingOK ==
  ASSUME IInv, NEW p \in Procs, NEW pipeId \in PipeIds, ReadNothing(p, pipeId)
  PROVE  Goal
<1>1. /\ UNCHANGED <<inUse, id, buffer, readIndex, writeIndex, value, waiters, asleep, call, inKernel>>
      /\ returned' = Nothing
  BY DEF ReadNothing, pipeTable, rings, semaphores
<1> QED BY <1>1, Untouched DEF Goal, Queues!Next, Queues!GetNothing

LEMMA PipeReadOK ==
  ASSUME IInv, NEW p \in Procs, NEW pipeId \in PipeIds, PipeRead(p, pipeId)
  PROVE  Goal
<1>1. inKernel = Nothing /\ call[p].op = "none" /\ call[p] = NoCall /\ p \notin asleep
  BY InUserCodeFacts DEF PipeRead, InUserCode
<1>2. PICK s \in Index(pipeId) :
        IF Passes(s, "readLock")
        THEN /\ TakeChar(s, Taken(s, "readLock"))
             /\ UNCHANGED call
        ELSE /\ Sleep(p, s, "readLock")
             /\ call' = [call EXCEPT ![p] = Call("read", s, <<>>)]
             /\ UNCHANGED <<readIndex, returned>>
  BY DEF PipeRead
<1>3. s \in inUse /\ s \in Slots
  BY DEF Index, IInv, TableOK
<1>4. UNCHANGED <<pipeTable, buffer, writeIndex, inKernel>>
  BY DEF PipeRead
<1>5. CASE Passes(s, "readLock")
  <2>1. call' = [call EXCEPT ![p] = NoCall]
    BY <1>1, <1>2, <1>5 DEF IInv, CallsOK
  <2> QED BY <1>1, <1>2, <1>3, <1>4, <1>5, <2>1, TakesChar
<1>6. CASE ~Passes(s, "readLock")
  <2>1. PICK c \in Calls : c = Call("read", s, <<>>) /\ c.op = "read" /\ c.slot = s
    <3>1. /\ Call("read", s, <<>>) \in Calls
          /\ Call("read", s, <<>>).op = "read" /\ Call("read", s, <<>>).slot = s
      BY <1>3, CallType
    <3> QED BY <3>1
  <2>2. UNCHANGED <<pipeTable, rings, returned>>
    BY <1>2, <1>4, <1>6 DEF rings
  <2>3. "readLock" \in Locks /\ OpOf("readLock") = "read"
    BY DEF Locks, OpOf
  <2>4. call' = [call EXCEPT ![p] = c] /\ Sleep(p, s, "readLock")
    BY <1>2, <1>6, <2>1
  <2> QED BY <1>1, <1>3, <1>4, <1>6, <2>1, <2>2, <2>3, <2>4, Sleeps
<1> QED BY <1>5, <1>6

LEMMA ReadGoesOnOK ==
  ASSUME IInv, NEW p \in Procs, ReadGoesOn(p)
  PROVE  Goal
<1>1. inKernel = Nothing /\ call[p].op = "read" /\ p \notin asleep
  BY DEF ReadGoesOn, Wakes
<1>2. PICK s \in inUse : s = call[p].slot
  BY <1>1 DEF IInv, CallsOK
<1>3. /\ TakeChar(s, value) /\ call' = [call EXCEPT ![p] = NoCall]
      /\ UNCHANGED <<pipeTable, buffer, writeIndex, inKernel>>
  BY <1>2 DEF ReadGoesOn
<1> QED BY <1>1, <1>2, <1>3, TakesChar

LEMMA PipeWriteOK ==
  ASSUME IInv, NEW p \in Procs, NEW pipeId \in PipeIds, NEW str \in Strings, PipeWrite(p, pipeId, str)
  PROVE  Goal
<1>1. inKernel = Nothing /\ call[p].op = "none" /\ p \notin asleep
  BY InUserCodeFacts DEF PipeWrite
<1>2. PICK s \in Index(pipeId) : call' = [call EXCEPT ![p] = Call("write", s, str)]
  BY DEF PipeWrite
<1>3. s \in inUse /\ s \in Slots /\ str \in Seq(Chars)
  BY PipesAssumption DEF Index, IInv, TableOK
<1>4. PICK c \in Calls : c = Call("write", s, str) /\ c.op = "write" /\ c.slot = s
  BY <1>3, CallType
<1>5. inKernel' = p /\ UNCHANGED <<pipeTable, rings, semaphores, returned>>
  BY DEF PipeWrite
<1>6. call' = [call EXCEPT ![p] = c] /\ c.slot \in inUse
  BY <1>2, <1>3, <1>4
<1> QED BY <1>1, <1>4, <1>5, <1>6, Moves

LEMMA InKernelFacts ==
  ASSUME IInv, NEW p \in Procs, inKernel = p
  PROVE  call[p].op = "write" /\ p \notin asleep /\ call[p].slot \in inUse /\ call[p] \in Calls
BY DEF IInv, CallsOK

LEMMA WriteCharOK ==
  ASSUME IInv, NEW p \in Procs, WriteChar(p)
  PROVE  Goal
<1>1. inKernel = p /\ call[p].rest # <<>> /\ call[p].op = "write" /\ p \notin asleep /\ call[p] \in Calls
  BY InKernelFacts DEF WriteChar
<1>2. PICK s \in inUse : s = call[p].slot
  BY <1>1, InKernelFacts
<1>3. /\ UNCHANGED <<pipeTable, readIndex, returned>>
      /\ IF Passes(s, "writeLock")
         THEN /\ PutChar(p, s, Taken(s, "writeLock"))
              /\ UNCHANGED inKernel
         ELSE /\ Sleep(p, s, "writeLock")
              /\ inKernel' = Nothing
              /\ UNCHANGED <<buffer, writeIndex, call>>
  BY <1>2 DEF WriteChar
<1>4. CASE Passes(s, "writeLock")
  BY <1>1, <1>2, <1>3, <1>4, PutsChar
<1>5. CASE ~Passes(s, "writeLock")
  <2>1. PICK c \in Calls : c = call[p]
    BY <1>1
  <2>2. call' = [call EXCEPT ![p] = c]
    BY <1>3, <1>5, <2>1 DEF IInv, CallsOK
  <2>3. "writeLock" \in Locks /\ OpOf("writeLock") = "write"
    BY DEF Locks, OpOf
  <2>4. /\ UNCHANGED <<pipeTable, rings, returned>>
        /\ Sleep(p, s, "writeLock") /\ inKernel' = Nothing
    BY <1>3, <1>5 DEF rings
  <2>5. c.op = "write" /\ c.slot = s /\ c.rest # <<>>
    BY <1>1, <1>2, <2>1
  <2> QED BY <1>1, <1>5, <2>2, <2>3, <2>4, <2>5, Sleeps
<1> QED BY <1>4, <1>5

LEMMA WriteGoesOnOK ==
  ASSUME IInv, NEW p \in Procs, WriteGoesOn(p)
  PROVE  Goal
<1>1. inKernel = Nothing /\ call[p].op = "write" /\ p \notin asleep
  BY DEF WriteGoesOn, Wakes
<1>2. PICK s \in inUse : s = call[p].slot
  BY <1>1 DEF IInv, CallsOK
<1>3. call[p].rest # <<>>
  BY <1>1, Sizes DEF IInv, CallsOK
<1>4. PutChar(p, s, value) /\ inKernel' = p /\ UNCHANGED <<pipeTable, readIndex, returned>>
  BY <1>2 DEF WriteGoesOn
<1> QED BY <1>1, <1>2, <1>3, <1>4, PutsChar

LEMMA WriteReturnsOK ==
  ASSUME IInv, NEW p \in Procs, WriteReturns(p)
  PROVE  Goal
<1>1. /\ inKernel \in {Nothing, p} /\ p \notin asleep
      /\ call[p].op = "none" \/ inKernel = p
  BY InKernelFacts DEF WriteReturns
<1>2. NoCall \in Calls /\ NoCall.op = "none"
  BY CallType
<1>3. /\ call' = [call EXCEPT ![p] = NoCall] /\ inKernel' = Nothing
      /\ UNCHANGED <<pipeTable, rings, semaphores, returned>>
  BY DEF WriteReturns
<1> QED BY <1>1, <1>2, <1>3, Moves
-----------------------------------------------------------------------------
(* A pipe that is opened, or freed, leaves the other slots alone. *)
OtherSlot(s, in) ==
  /\ \A t \in Slots : t # s => (t \in in <=> t \in inUse)
  /\ \A t \in Slots : t # s => /\ value'[t] = value[t] /\ waiters'[t] = waiters[t]
                               /\ id'[t] = id[t] /\ buffer'[t] = buffer[t]
                               /\ readIndex'[t] = readIndex[t] /\ writeIndex'[t] = writeIndex[t]
  /\ UNCHANGED <<asleep, call, inKernel>>

LEMMA OtherSlots ==
  ASSUME IInv, NEW s \in Slots, inUse' \subseteq Slots, OtherSlot(s, inUse'),
         \A q \in Procs : call[q].op # "none" => call[q].slot # s,
         NEW n \in Nat, value'[s] = Tokens(0, n), waiters'[s] = NoWaiters,
         value' \in [Slots -> [Locks -> Nat]], waiters' \in [Slots -> [Locks -> Seq(Procs)]]
  PROVE  /\ WaitersOK' /\ SleepersListed' /\ CallsOK'
         /\ \A t \in inUse : t # s => Filled(t)' = Filled(t) /\ Room(t)' = Room(t)
         /\ Filled(s)' = 0 /\ Room(s)' = n
<1>1. UNCHANGED <<asleep, call, inKernel>>
  BY DEF OtherSlot
<1>2. ASSUME NEW q \in asleep, NEW t \in Slots, NEW l \in Locks, NEW i \in 1..Len(waiters[t][l]),
             waiters[t][l][i] = q
      PROVE  t # s
  <2>1. q \in Procs /\ call[q].op = OpOf(l) /\ call[q].slot = t
    <3>1. asleep \subseteq Procs
      BY DEF IInv, WaitersOK
    <3>2. \A u \in Slots, k \in Locks : \A j \in 1..Len(waiters[u][k]) :
            LET p == waiters[u][k][j]
            IN p \in asleep /\ call[p].op = OpOf(k) /\ call[p].slot = u
      BY DEF IInv, WaitersOK
    <3>3. call[waiters[t][l][i]].op = OpOf(l) /\ call[waiters[t][l][i]].slot = t
      BY <1>2, <3>2
    <3> QED BY <1>2, <3>1, <3>3
  <2>2. OpOf(l) # "none"
    BY DEF OpOf
  <2>3. call[q].op # "none" => call[q].slot # s
    BY <2>1
  <2> QED BY <2>1, <2>2, <2>3
<1>3. \A l \in Locks : waiters'[s][l] = <<>>
  BY DEF NoWaiters
<1>4. WaitersOK'
  <2>1. \A t \in Slots, l \in Locks : \A i \in 1..Len(waiters'[t][l]) :
          t # s /\ waiters'[t][l] = waiters[t][l]
    BY <1>3, EmptySeq DEF OtherSlot
  <2>2. \A t \in Slots, l \in Locks : \A i \in 1..Len(waiters'[t][l]) :
          LET p == waiters'[t][l][i]
          IN p \in asleep' /\ call'[p].op = OpOf(l) /\ call'[p].slot = t
    BY <1>1, <2>1 DEF IInv, WaitersOK
  <2>3. \A t \in Slots, l \in Locks : \A i, j \in 1..Len(waiters'[t][l]) :
          waiters'[t][l][i] = waiters'[t][l][j] => i = j
    BY <2>1 DEF IInv, WaitersOK
  <2>4. ASSUME NEW t \in Slots, NEW l \in Locks, waiters'[t][l] # <<>>
        PROVE  value'[t][l] = 0
    <3>1. t # s
      BY <1>3, <2>4
    <3>2. value'[t] = value[t] /\ waiters'[t] = waiters[t]
      BY <3>1 DEF OtherSlot
    <3>3. waiters[t][l] # <<>> => value[t][l] = 0
      BY DEF IInv, WaitersOK
    <3> QED BY <2>4, <3>2, <3>3
  <2>5. ASSUME NEW t \in Slots, t \notin inUse', NEW l \in Locks
        PROVE  waiters'[t][l] = <<>>
    <3>1. CASE t = s
      BY <1>3, <3>1
    <3>2. CASE t # s
      <4>1. t \notin inUse /\ waiters'[t] = waiters[t]
        BY <2>5, <3>2 DEF OtherSlot
      <4> QED BY <4>1 DEF IInv, WaitersOK
    <3> QED BY <3>1, <3>2
  <2>6. asleep' \subseteq Procs
    BY <1>1 DEF IInv, WaitersOK
  <2> QED BY <2>2, <2>3, <2>4, <2>5, <2>6 DEF WaitersOK
<1>5. SleepersListed'
  <2> SUFFICES ASSUME NEW q \in Procs, q \in asleep
               PROVE  \E t \in inUse', l \in Locks : \E i \in 1..Len(waiters'[t][l]) : waiters'[t][l][i] = q
    BY <1>1 DEF SleepersListed
  <2>1. PICK t \in inUse, l \in Locks : \E i \in 1..Len(waiters[t][l]) : waiters[t][l][i] = q
    BY DEF IInv, SleepersListed
  <2>2. t \in Slots /\ t # s
    BY <1>2, <2>1 DEF IInv, TableOK
  <2>3. t \in inUse' /\ waiters'[t][l] = waiters[t][l]
    BY <2>1, <2>2 DEF OtherSlot
  <2> QED BY <2>1, <2>3
<1>6. CallsOK'
  <2>1. \A q \in Procs : call[q].op # "none" => call[q].slot \in inUse'
    BY DEF IInv, CallsOK, TableOK, OtherSlot
  <2> QED BY <1>1, <2>1 DEF IInv, CallsOK
<1>7. \A t, op : Woken(t, op)' = Woken(t, op)
  BY <1>1 DEF Woken
<1>8. Woken(s, "read") = {} /\ Woken(s, "write") = {}
  BY DEF Woken
<1>9. Filled(s)' = 0 /\ Room(s)' = n
  <2>1. value'[s]["readLock"] = 0 /\ value'[s]["writeLock"] = n
    BY DEF Tokens, Locks
  <2>2. Cardinality({}) = 0
    BY FS_EmptySet
  <2>3. Woken(s, "read")' = {} /\ Woken(s, "write")' = {}
    BY <1>7, <1>8
  <2>4. Cardinality(Woken(s, "read"))' = 0 /\ Cardinality(Woken(s, "write"))' = 0
    BY <2>2, <2>3
  <2> QED BY <2>1, <2>4 DEF Filled, Room
<1>10. \A t \in inUse : t # s => Filled(t)' = Filled(t) /\ Room(t)' = Room(t)
  BY <1>7 DEF IInv, TableOK, OtherSlot, Filled, Room
<1> QED BY <1>4, <1>5, <1>6, <1>9, <1>10

LEMMA TokensType ==
  /\ \A n \in Nat : Tokens(0, n) \in [Locks -> Nat]
  /\ NoWaiters \in [Locks -> Seq(Procs)]
BY EmptySeq DEF Tokens, NoWaiters

LEMMA CreateOK ==
  ASSUME IInv, NEW pipeId \in PipeIds, Index(pipeId) = {}, NEW s \in Slots, CreateIn(s, pipeId),
         UNCHANGED <<call, inKernel, returned>>
  PROVE  Goal
<1> DEFINE N == PIPE_BUFFER_SIZE
<1>1. /\ s \notin inUse /\ inUse' = inUse \cup {s} /\ inUse' \subseteq Slots
      /\ id' = [id EXCEPT ![s] = pipeId]
      /\ readIndex' = [readIndex EXCEPT ![s] = 0]
      /\ writeIndex' = [writeIndex EXCEPT ![s] = 0]
      /\ value' = [value EXCEPT ![s] = Tokens(0, N)]
      /\ waiters' = [waiters EXCEPT ![s] = NoWaiters]
      /\ UNCHANGED <<buffer, asleep>>
  BY DEF CreateIn, IInv, TableOK
<1>2. OtherSlot(s, inUse')
  BY <1>1 DEF OtherSlot, IInv, TableOK, WaitersOK
<1>3. \A q \in Procs : call[q].op # "none" => call[q].slot # s
  BY <1>1 DEF IInv, CallsOK
<1>4. /\ value'[s] = Tokens(0, N) /\ waiters'[s] = NoWaiters /\ N \in Nat
      /\ value' \in [Slots -> [Locks -> Nat]] /\ waiters' \in [Slots -> [Locks -> Seq(Procs)]]
  BY <1>1, TokensType, Sizes DEF IInv, WaitersOK
<1>5. /\ WaitersOK' /\ SleepersListed' /\ CallsOK'
      /\ \A t \in inUse : t # s => Filled(t)' = Filled(t) /\ Room(t)' = Room(t)
      /\ Filled(s)' = 0 /\ Room(s)' = N
  BY <1>1, <1>2, <1>3, <1>4, OtherSlots
<1>6. TableOK'
  <2>1. pipeId \in Nat
    BY PipesAssumption
  <2>2. /\ id' \in [Slots -> Nat] /\ readIndex' \in [Slots -> Cells] /\ writeIndex' \in [Slots -> Cells]
    BY <1>1, <2>1, Sizes DEF IInv, TableOK
  <2>3. \A t, u \in inUse' : id'[t] = id'[u] => t = u
    BY <1>1 DEF IInv, TableOK, Index
  <2> QED BY <1>1, <2>2, <2>3 DEF IInv, TableOK
<1>7. RingExact'
  <2>1. ASSUME NEW t \in inUse'
        PROVE  /\ Filled(t)' + Room(t)' = N
               /\ writeIndex'[t] = (readIndex'[t] + Filled(t)') % N
    <3>1. CASE t = s
      <4>1. readIndex'[s] = 0 /\ writeIndex'[s] = 0
        BY <1>1 DEF IInv, TableOK
      <4>2. 0 + N = N /\ (0 + 0) % N = 0
        BY Sizes
      <4> QED BY <1>5, <3>1, <4>1, <4>2
    <3>2. CASE t # s
      <4>1. t \in inUse /\ t \in Slots
        BY <1>1, <3>2
      <4>2. writeIndex'[t] = writeIndex[t] /\ readIndex'[t] = readIndex[t]
        BY <1>2, <3>2, <4>1 DEF OtherSlot
      <4> QED BY <1>5, <3>2, <4>1, <4>2 DEF IInv, RingExact
    <3> QED BY <3>1, <3>2
  <2> QED BY <2>1 DEF RingExact
<1>8. ASSUME NEW t \in Slots PROVE Contents(t)' = Contents(t)
  <2>1. CASE t = s
    <3>1. Contents(s) = <<>>
      BY <1>1 DEF Contents
    <3>2. Contents(s)' = [i \in 1..0 |-> buffer'[s][(readIndex'[s] + i - 1) % N]]
      BY <1>1, <1>5 DEF Contents
    <3>3. [i \in 1..0 |-> buffer'[s][(readIndex'[s] + i - 1) % N]] = <<>>
      OBVIOUS
    <3> QED BY <2>1, <3>1, <3>2, <3>3
  <2>2. CASE t # s /\ t \in inUse
    BY <1>1, <1>2, <1>5, <2>2 DEF Contents, OtherSlot
  <2>3. CASE t # s /\ t \notin inUse
    BY <1>1, <2>3 DEF Contents
  <2> QED BY <2>1, <2>2, <2>3
<1> QED BY <1>5, <1>6, <1>7, <1>8, Stays

LEMMA PipeOpenOK ==
  ASSUME IInv, NEW p \in Procs, NEW pipeId \in PipeIds, PipeOpen(p, pipeId)
  PROVE  Goal
<1>1. UNCHANGED <<call, inKernel, returned>>
  BY DEF PipeOpen
<1>2. CASE Index(pipeId) # {}
  <2>1. UNCHANGED <<inUse, id, rings, semaphores>>
    BY <1>2 DEF PipeOpen
  <2>2. UNCHANGED <<inUse, id, buffer, readIndex, writeIndex, value, waiters, asleep, call, inKernel>>
    BY <1>1, <2>1 DEF rings, semaphores
  <2> QED BY <1>1, <2>2, Untouched DEF Goal, Queues!vars
<1>3. CASE Index(pipeId) = {}
  <2>1. PICK s \in Slots : CreateIn(s, pipeId)
    BY <1>3 DEF PipeOpen
  <2> QED BY <1>1, <1>3, <2>1, CreateOK
<1> QED BY <1>2, <1>3

LEMMA PipeCloseOK ==
  ASSUME IInv, NEW p \in Procs, NEW pipeId \in PipeIds, Quiet(pipeId), PipeClose(p, pipeId)
  PROVE  Goal
<1>1. UNCHANGED <<id, rings, asleep, call, inKernel, returned>>
  BY DEF PipeClose
<1>2. PICK s \in Index(pipeId) :
        \/ UNCHANGED <<inUse, value, waiters>>
        \/ /\ inUse' = inUse \ {s}
           /\ value' = [value EXCEPT ![s] = Tokens(0, 0)]
           /\ waiters' = [waiters EXCEPT ![s] = NoWaiters]
  BY DEF PipeClose
<1>3. s \in inUse /\ s \in Slots
  BY DEF Index, IInv, TableOK
<1>4. CASE UNCHANGED <<inUse, value, waiters>>
  <2>1. UNCHANGED <<inUse, id, buffer, readIndex, writeIndex, value, waiters, asleep, call, inKernel>>
    BY <1>1, <1>4 DEF rings
  <2> QED BY <1>1, <2>1, Untouched DEF Goal, Queues!vars
<1>5. CASE /\ inUse' = inUse \ {s}
           /\ value' = [value EXCEPT ![s] = Tokens(0, 0)]
           /\ waiters' = [waiters EXCEPT ![s] = NoWaiters]
  <2>1. UNCHANGED <<id, buffer, readIndex, writeIndex, asleep, call, inKernel, returned>>
    BY <1>1 DEF rings
  <2>2. OtherSlot(s, inUse') /\ inUse' \subseteq Slots
    BY <1>5, <2>1 DEF OtherSlot, IInv, TableOK, WaitersOK
  <2>3. \A q \in Procs : call[q].op # "none" => call[q].slot # s
    BY DEF Quiet, NoCall
  <2>4. /\ value'[s] = Tokens(0, 0) /\ waiters'[s] = NoWaiters /\ 0 \in Nat
        /\ value' \in [Slots -> [Locks -> Nat]] /\ waiters' \in [Slots -> [Locks -> Seq(Procs)]]
    BY <1>3, <1>5, TokensType DEF IInv, WaitersOK
  <2>5. /\ WaitersOK' /\ SleepersListed' /\ CallsOK'
        /\ \A t \in inUse : t # s => Filled(t)' = Filled(t) /\ Room(t)' = Room(t)
    BY <1>3, <2>2, <2>3, <2>4, OtherSlots
  <2>6. TableOK'
    BY <1>5, <2>1 DEF IInv, TableOK
  <2>7. RingExact'
    BY <1>5, <2>1, <2>5 DEF IInv, RingExact
  <2>8. ASSUME NEW t \in Slots, t # s PROVE Contents(t)' = Contents(t)
    BY <1>5, <2>1, <2>5, <2>8 DEF Contents
  <2>9. Contents(s)' = <<>>
    BY <1>5 DEF Contents
  <2>10. [t \in Slots |-> Contents(t)]' = [[t \in Slots |-> Contents(t)] EXCEPT ![s] = <<>>]
    BY <1>3, <2>8, <2>9
  <2>11. Queues!Reset(s)
    BY <2>1, <2>10 DEF Queues!Reset
  <2> QED BY <1>3, <2>5, <2>6, <2>7, <2>11 DEF Goal, IInv, Queues!Next
<1> QED BY <1>2, <1>4, <1>5
-----------------------------------------------------------------------------
LEMMA InitInvariant == Init => IInv /\ Queues!Init
<1> SUFFICES ASSUME Init PROVE IInv /\ Queues!Init
  OBVIOUS
<1>1. TableOK
  BY Sizes DEF Init, TableOK, Arrays, Cells, Elements
<1>2. CallsOK
  BY CallType, Sizes DEF Init, CallsOK
<1>3. WaitersOK
  <2>1. Tokens(0, 0) \in [Locks -> Nat] /\ NoWaiters \in [Locks -> Seq(Procs)]
    BY TokensType
  <2>2. \A s \in Slots, l \in Locks : waiters[s][l] = <<>>
    BY DEF Init, NoWaiters
  <2>3. \A s \in Slots, l \in Locks : \A i \in 1..Len(waiters[s][l]) : FALSE
    BY <2>2, EmptySeq
  <2> QED BY <2>1, <2>2, <2>3 DEF Init, WaitersOK
<1>4. SleepersListed /\ RingExact
  BY DEF Init, SleepersListed, RingExact
<1>5. Queues!Init
  BY DEF Init, Queues!Init, Contents
<1> QED BY <1>1, <1>2, <1>3, <1>4, <1>5 DEF IInv

LEMMA StepInvariant == IInv /\ [Next]_vars => Goal
<1> SUFFICES ASSUME IInv, [Next]_vars PROVE Goal
  OBVIOUS
<1>1. CASE Next
  <2>1. PICK p \in Procs :
          \/ GoesOn(p)
          \/ \E pipeId \in PipeIds :
               \/ ~Owned(pipeId) /\ PipeOpen(p, pipeId)
               \/ pipeId \in opened[p] /\ Quiet(pipeId) /\ PipeClose(p, pipeId)
               \/ Uses(p, pipeId)
    BY <1>1 DEF Next
  <2>2. CASE GoesOn(p)
    BY <2>2, ReadGoesOnOK, WriteCharOK, WriteGoesOnOK, WriteReturnsOK DEF GoesOn
  <2>3. ASSUME NEW pipeId \in PipeIds, PipeOpen(p, pipeId) PROVE Goal
    BY <2>3, PipeOpenOK
  <2>4. ASSUME NEW pipeId \in PipeIds, Quiet(pipeId), PipeClose(p, pipeId) PROVE Goal
    BY <2>4, PipeCloseOK
  <2>5. ASSUME NEW pipeId \in PipeIds, Uses(p, pipeId) PROVE Goal
    BY <2>5, ReadNothingOK, PipeReadOK, PipeWriteOK DEF Uses
  <2> QED BY <2>1, <2>2, <2>3, <2>4, <2>5
<1>2. CASE UNCHANGED vars
  <2>1. /\ UNCHANGED <<inUse, id, buffer, readIndex, writeIndex, value, waiters, asleep, call, inKernel>>
        /\ returned' = returned
    BY <1>2 DEF vars, pipeTable, rings, semaphores
  <2> QED BY <2>1, Untouched DEF Goal, Queues!vars
<1> QED BY <1>1, <1>2

LEMMA Invariance == Spec => []IInv
<1>1. Init => IInv
  BY InitInvariant
<1>2. IInv /\ [Next]_vars => IInv'
  BY StepInvariant DEF Goal
<1> QED BY <1>1, <1>2, PTL DEF Spec

(* For any number of processes, any pipes and a buffer of any length, the  *)
(* two semaphores of a pipe account for every cell of its ring.            *)
THEOREM RingCounted == Spec => []RingExact
BY Invariance, PTL DEF IInv

(* Every process that sleeps in a pipe is on the list of one of its locks. *)
THEOREM SleepersFound == Spec => []SleepersListed
BY Invariance, PTL DEF IInv

(* Readers and writers of a pipe never all sleep. *)
THEOREM NeverAllAsleep == Spec => []NoDeadlock
<1>1. IInv => NoDeadlock
  <2> SUFFICES ASSUME IInv, NEW s \in inUse,
                      waiters[s]["readLock"] # <<>>, waiters[s]["writeLock"] # <<>>
               PROVE  Woken(s, "read") \cup Woken(s, "write") # {}
    BY DEF NoDeadlock
  <2>1. value[s]["readLock"] = 0 /\ value[s]["writeLock"] = 0
    BY Sizes DEF IInv, WaitersOK, TableOK
  <2>2. 0 + Cardinality(Woken(s, "read")) + (0 + Cardinality(Woken(s, "write"))) = PIPE_BUFFER_SIZE
    BY <2>1 DEF IInv, RingExact, Filled, Room
  <2>3. Cardinality(Woken(s, "read")) \in Nat /\ Cardinality(Woken(s, "write")) \in Nat
    BY WokenType
  <2>4. Cardinality(Woken(s, "read")) # 0 \/ Cardinality(Woken(s, "write")) # 0
    BY <2>2, <2>3, Sizes
  <2> QED BY <2>4, FS_EmptySet
<1> QED BY <1>1, Invariance, PTL

(* A pipe is a bounded first-in first-out queue of characters. *)
THEOREM Refinement == Spec => ImplementsChannel
<1>1. Init => Queues!Init
  BY InitInvariant
<1>2. IInv /\ [Next]_vars => [Queues!Next]_Queues!vars
  BY StepInvariant DEF Goal
<1> QED BY <1>1, <1>2, Invariance, PTL DEF Spec, ImplementsChannel, Queues!Spec
=============================================================================
