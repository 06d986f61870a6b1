------------------------ MODULE ProcessManagerProofs ------------------------
(***************************************************************************)
(* Proofs about ProcessManager and the two modules built on it, JobControl *)
(* and Semaphores, for any number of pids, priorities and semaphores.      *)
(*                                                                         *)
(* 1. The process manager.  IInv joins the invariants the model checker    *)
(*    verifies with what they need of the idle process, of the pids that   *)
(*    were not handed out yet and of the phases of a context switch; it    *)
(*    gives the refinement of Scheduler.                                   *)
(* 2. Round robin: nobody is overtaken twice on the READY queue.           *)
(* 3. Job control: JobInv adds who sleeps, and on what.                    *)
(* 4. Semaphores: SemInv, for any program, and what disciplined programs   *)
(*    add to it.  A step of either module is a step of the process manager *)
(*    or none, so that what is proved of IInv holds for them too.          *)
(* 5. Disciplined programs implement CountingSemaphore.                    *)
(***************************************************************************)
EXTENDS Semaphores, JobControl, FiniteSetTheorems, SequenceTheorems, TLAPS

(* The idle process is always READY and never in the foreground.           *)
IdleOK == state[Base] = "READY" /\ ~foreground[Base]

(* Pids that were not handed out have no process. *)
FreshPids == \A p \in Pids : p >= currentPID => state[p] = "FREE"

(* Who is on the CPU in each phase. *)
PhaseOK ==
  /\ cpu = "switch" => current = NULL
  /\ cpu \in {"trap", "dispatch"} => current \in UserPids

IInv == /\ TypeOK /\ NoProcessLost /\ ReadySizeExact /\ DispatchFindsReady
        /\ IdleOK /\ FreshPids /\ PhaseOK
-----------------------------------------------------------------------------
(* What appending does to the set of queued pids. *)
LEMMA AppendRange ==
  ASSUME NEW S, NEW q \in Seq(S), NEW x \in S
  PROVE  Range(Append(q, x)) = Range(q) \cup {x}
<1>1. Range(q) = {q[i] : i \in 1..Len(q)}
  BY RangeEquality
<1>2. /\ Append(q, x) \in Seq(S)
      /\ Len(Append(q, x)) = Len(q) + 1
      /\ \A i \in 1..Len(q) : Append(q, x)[i] = q[i]
      /\ Append(q, x)[Len(q) + 1] = x
  BY AppendProperties
<1>3. Range(Append(q, x)) = {Append(q, x)[i] : i \in 1..(Len(q) + 1)}
  BY <1>2, RangeEquality
<1>4. Len(q) \in Nat
  BY LenProperties
<1>5. 1..(Len(q) + 1) = 1..Len(q) \cup {Len(q) + 1}
  BY <1>4
<1> QED
  BY <1>1, <1>2, <1>3, <1>5

(* Appending a pid that is not queued keeps the queue without duplicates.  *)
LEMMA AppendInjectiveQueue ==
  ASSUME NEW S, NEW q \in Seq(S), NEW x \in S, IsInjective(q), x \notin Range(q)
  PROVE  IsInjective(Append(q, x))
<1>1. /\ Len(Append(q, x)) = Len(q) + 1
      /\ \A i \in 1..Len(q) : Append(q, x)[i] = q[i]
      /\ Append(q, x)[Len(q) + 1] = x
      /\ DOMAIN Append(q, x) = 1..Len(Append(q, x))
      /\ DOMAIN q = 1..Len(q)
      /\ Len(q) \in Nat
  BY AppendProperties, LenProperties
<1>2. \A i \in 1..Len(q) : q[i] # x
  BY <1>1 DEF Range
<1>3. \A i, j \in 1..Len(q) : q[i] = q[j] => i = j
  BY <1>1 DEF IsInjective
<1> QED
  BY <1>1, <1>2, <1>3 DEF IsInjective

(* Taking the head off a queue without duplicates removes just that pid.   *)
LEMMA TailQueue ==
  ASSUME NEW S, NEW q \in Seq(S), IsInjective(q), q # <<>>
  PROVE  /\ Tail(q) \in Seq(S)
         /\ Head(q) \in S
         /\ Head(q) \in Range(q)
         /\ IsInjective(Tail(q))
         /\ Range(Tail(q)) = Range(q) \ {Head(q)}
<1>1. /\ Head(q) \in S
      /\ Tail(q) \in Seq(S)
      /\ Len(Tail(q)) = Len(q) - 1
      /\ \A i \in 1..Len(Tail(q)) : Tail(q)[i] = q[i + 1]
  BY HeadTailProperties
<1>2. /\ DOMAIN q = 1..Len(q)
      /\ DOMAIN Tail(q) = 1..Len(Tail(q))
      /\ Len(q) \in Nat
      /\ Len(q) > 0
      /\ Head(q) = q[1]
  BY <1>1, LenProperties, EmptySeq
<1>3. \A i, j \in 1..Len(q) : q[i] = q[j] => i = j
  BY <1>2 DEF IsInjective
<1>4. IsInjective(Tail(q))
  BY <1>1, <1>2, <1>3 DEF IsInjective
<1>5. Head(q) \in Range(q)
  BY <1>2 DEF Range
<1>6. Range(Tail(q)) \subseteq Range(q) \ {Head(q)}
  <2> SUFFICES ASSUME NEW i \in 1..Len(Tail(q))
               PROVE  Tail(q)[i] \in Range(q) \ {Head(q)}
    BY <1>2 DEF Range
  <2>1. i + 1 \in 1..Len(q) /\ i + 1 # 1
    BY <1>1, <1>2
  <2> QED
    BY <2>1, <1>1, <1>2, <1>3 DEF Range
<1>7. Range(q) \ {Head(q)} \subseteq Range(Tail(q))
  <2> SUFFICES ASSUME NEW j \in 1..Len(q), q[j] # Head(q)
               PROVE  q[j] \in Range(Tail(q))
    BY <1>2 DEF Range
  <2>1. j - 1 \in 1..Len(Tail(q)) /\ Tail(q)[j - 1] = q[j]
    BY <1>1, <1>2
  <2> QED
    BY <2>1, <1>2 DEF Range
<1> QED
  BY <1>1, <1>4, <1>5, <1>6, <1>7

(* An empty queue holds no pid. *)
LEMMA EmptyQueue ==
  ASSUME NEW S, NEW q \in Seq(S)
  PROVE  q = <<>> <=> Range(q) = {}
<1>1. DOMAIN q = 1..Len(q) /\ Len(q) \in Nat
  BY LenProperties
<1>2. q = <<>> <=> Len(q) = 0
  BY EmptySeq
<1>3. CASE Len(q) = 0
  <2>1. DOMAIN q = {}
    BY <1>1, <1>3
  <2> QED
    BY <2>1, <1>2, <1>3 DEF Range
<1>4. CASE Len(q) > 0
  <2>1. q[1] \in Range(q)
    BY <1>1, <1>4 DEF Range
  <2> QED
    BY <2>1, <1>2, <1>4
<1> QED
  BY <1>1, <1>3, <1>4

(* Sets of pids are finite, so their cardinality is a number that one more *)
(* or one less element changes by one.                                     *)
LEMMA PidsFinite ==
  ASSUME NEW A \in SUBSET Pids
  PROVE  /\ IsFiniteSet(A) /\ Cardinality(A) \in Nat
         /\ Cardinality(A) = 0 <=> A = {}
         /\ \A p \in A : Cardinality(A \ {p}) = Cardinality(A) - 1
         /\ \A p \in Pids \ A : Cardinality(A \cup {p}) = Cardinality(A) + 1
<1>1. IsFiniteSet(Pids)
  BY PMAssumption, FS_Interval DEF Pids
<1>2. IsFiniteSet(A)
  BY <1>1, FS_Subset
<1> QED
  BY <1>2, FS_CardinalityType, FS_EmptySet, FS_RemoveElement, FS_AddElement
-----------------------------------------------------------------------------
(* setState keeps the process table, the list and readySize in step,       *)
(* whichever process it is applied to.                                     *)
LEMMA SetStateSafe ==
  ASSUME IInv, NEW pid \in Pids, NEW s \in States,
         pid # Base \/ current \notin {NULL, Base},
         SetState(pid, s), UNCHANGED <<queue, current>>
  PROVE  /\ state' \in [Pids -> PidStates]
         /\ NoProcessLost' /\ ReadySizeExact'
         /\ state'[Base] = state[Base]
         /\ \A p \in Pids : state[p] = "FREE" => state'[p] = "FREE"
<1> USE DEF States, PidStates, UserPids, Base
<1>1. /\ state \in [Pids -> PidStates]
      /\ queue \in Seq(UserPids)
      /\ current \in Pids \cup {NULL}
      /\ readySize \in Nat
  BY DEF IInv, TypeOK
<1>2. Range(queue) \subseteq UserPids
  BY <1>1, RangeOfSeq
<1>3. /\ {p \in UserPids : state[p] # "FREE"} = Range(queue) \cup ({current} \cap UserPids)
      /\ current \notin Range(queue)
      /\ IsInjective(queue)
  BY DEF IInv, NoProcessLost
<1>4. CASE ~(GetProcess(pid) /\ state[pid] # "TERMINATED")
  <2>1. UNCHANGED <<state, readySize>>
    BY <1>4 DEF SetState
  <2> QED
    BY <2>1, <1>1, <1>3 DEF IInv, NoProcessLost, ReadySizeExact, ReadyQueued
<1>5. CASE GetProcess(pid) /\ state[pid] # "TERMINATED"
  <2>1. /\ state' = [state EXCEPT ![pid] = s]
        /\ readySize' = IF pid = current
                        THEN readySize
                        ELSE readySize + Counted(s) - Counted(state[pid])
    BY <1>5 DEF SetState
  <2>2. pid \in UserPids /\ state[pid] # "FREE"
    BY <1>1, <1>2, <1>3, <1>5 DEF GetProcess
  <2>3. /\ state' \in [Pids -> PidStates]
        /\ state'[Base] = state[Base]
        /\ \A p \in Pids : (state[p] = "FREE") <=> (state'[p] = "FREE")
    BY <1>1, <2>1, <2>2
  <2>4. NoProcessLost'
    BY <2>3, <1>3 DEF NoProcessLost
  <2>5. ReadySizeExact'
    <3>1. ReadyQueued \subseteq Pids /\ readySize = Cardinality(ReadyQueued)
      BY <1>2 DEF ReadyQueued, IInv, ReadySizeExact
    <3>2. CASE pid = current
      <4>1. ReadyQueued' = ReadyQueued /\ readySize' = readySize
        BY <3>2, <1>1, <1>2, <1>3, <2>1 DEF ReadyQueued
      <4> QED
        BY <4>1, <3>1 DEF ReadySizeExact
    <3>3. CASE pid # current
      <4>1. pid \in Range(queue)
        BY <3>3, <1>5 DEF GetProcess
      <4>2. ReadyQueued' = IF s = "READY" THEN ReadyQueued \cup {pid}
                                         ELSE ReadyQueued \ {pid}
        BY <4>1, <1>1, <1>2, <2>1 DEF ReadyQueued
      <4>3. pid \in ReadyQueued <=> state[pid] = "READY"
        BY <4>1 DEF ReadyQueued
      <4>4. CASE state[pid] = "READY" /\ s = "READY"
        <5>1. ReadyQueued' = ReadyQueued /\ readySize' = readySize
          BY <4>2, <4>3, <4>4, <3>3, <2>1, <1>1 DEF Counted
        <5> QED
          BY <5>1, <3>1 DEF ReadySizeExact
      <4>5. CASE state[pid] = "READY" /\ s # "READY"
        <5>1. ReadyQueued' = ReadyQueued \ {pid} /\ readySize' = readySize - 1
          BY <4>2, <4>5, <3>3, <2>1, <1>1 DEF Counted
        <5>2. Cardinality(ReadyQueued \ {pid}) = Cardinality(ReadyQueued) - 1
          BY <3>1, <4>3, <4>5, PidsFinite
        <5> QED
          BY <5>1, <5>2, <3>1 DEF ReadySizeExact
      <4>6. CASE state[pid] # "READY" /\ s = "READY"
        <5>1. ReadyQueued' = ReadyQueued \cup {pid} /\ readySize' = readySize + 1
          BY <4>2, <4>6, <3>3, <2>1, <1>1 DEF Counted
        <5>2. Cardinality(ReadyQueued \cup {pid}) = Cardinality(ReadyQueued) + 1
          BY <3>1, <4>3, <4>6, PidsFinite
        <5> QED
          BY <5>1, <5>2, <3>1 DEF ReadySizeExact
      <4>7. CASE state[pid] # "READY" /\ s # "READY"
        <5>1. ReadyQueued' = ReadyQueued /\ readySize' = readySize
          BY <4>2, <4>3, <4>7, <3>3, <2>1, <1>1 DEF Counted
        <5> QED
          BY <5>1, <3>1 DEF ReadySizeExact
      <4> QED
        BY <4>4, <4>5, <4>6, <4>7
    <3> QED
      BY <3>2, <3>3
  <2> QED
    BY <2>3, <2>4, <2>5
<1> QED
  BY <1>4, <1>5

(* A setState by the running process, with whatever it does to the CPU, or *)
(* by an interrupt, preserves the invariant.                               *)
LEMMA SetStateStep ==
  ASSUME IInv, NEW pid \in Pids, NEW s \in States,
         pid # Base \/ current \notin {NULL, Base},
         cpu' = "user" \/ current \notin {NULL, Base},
         SetState(pid, s),
         UNCHANGED <<ppid, priority, queue, runVars, currentPID>>,
         foreground' \in [Pids -> BOOLEAN], ~foreground'[Base],
         cpu' \in {"user", "trap"}
  PROVE  IInv'
<1>1. /\ state' \in [Pids -> PidStates]
      /\ NoProcessLost' /\ ReadySizeExact'
      /\ state'[Base] = state[Base]
      /\ \A p \in Pids : state[p] = "FREE" => state'[p] = "FREE"
  BY SetStateSafe DEF runVars
<1>2. readySize' \in Nat
  <2>1. queue' \in Seq(UserPids)
    BY DEF IInv, TypeOK
  <2>2. Range(queue') \subseteq Pids
    BY <2>1, RangeOfSeq DEF UserPids
  <2> QED
    BY <1>1, <2>2, PidsFinite DEF ReadySizeExact, ReadyQueued
<1>3. TypeOK'
  BY <1>1, <1>2 DEF IInv, TypeOK, runVars
<1>4. cpu' = "trap" => current \in UserPids
  BY DEF IInv, TypeOK, UserPids
<1>5. IdleOK' /\ FreshPids' /\ PhaseOK' /\ DispatchFindsReady'
  BY <1>1, <1>4 DEF IInv, IdleOK, FreshPids, PhaseOK, DispatchFindsReady, runVars
<1> QED
  BY <1>1, <1>3, <1>5 DEF IInv

(* dequeueProcess on a list that holds a READY node: it takes a node off,  *)
(* keeps the count exact, and leaves a READY node unless it took one.      *)
LEMMA DequeueSafe ==
  ASSUME state \in [Pids -> PidStates],
         NEW q \in Seq(UserPids), IsInjective(q),
         NEW R, R = {p \in Range(q) : state[p] = "READY"},
         R # {}, readySize = Cardinality(R),
         DequeueInto(q)
  PROVE  /\ current' \in UserPids /\ current' \in Range(q)
         /\ queue' \in Seq(UserPids) /\ IsInjective(queue')
         /\ Range(queue') = Range(q) \ {current'}
         /\ readySize' = Cardinality({p \in Range(queue') : state[p] = "READY"})
         /\ \/ state[current'] = "READY"
            \/ {p \in Range(queue') : state[p] = "READY"} # {}
<1>1. q # <<>>
  BY EmptyQueue
<1>2. /\ current' = Head(q)
      /\ queue' = Tail(q)
      /\ readySize' = readySize - Counted(state[Head(q)])
  BY <1>1 DEF DequeueInto
<1>3. /\ current' \in UserPids /\ current' \in Range(q)
      /\ queue' \in Seq(UserPids) /\ IsInjective(queue')
      /\ Range(queue') = Range(q) \ {current'}
  BY <1>1, <1>2, TailQueue
<1>4. R \subseteq Pids
  BY RangeOfSeq DEF UserPids
<1>5. {p \in Range(queue') : state[p] = "READY"} = R \ {current'}
  BY <1>3
<1>6. CASE state[current'] = "READY"
  <2>1. current' \in R
    BY <1>3, <1>6
  <2>2. readySize' = Cardinality(R \ {current'})
    BY <2>1, <1>2, <1>4, <1>6, PidsFinite DEF Counted
  <2> QED
    BY <2>2, <1>3, <1>5, <1>6
<1>7. CASE state[current'] # "READY"
  <2>1. R \ {current'} = R
    BY <1>7
  <2>2. readySize' = Cardinality(R)
    BY <1>2, <1>4, <1>7, PidsFinite DEF Counted
  <2> QED
    BY <2>1, <2>2, <1>3, <1>5
<1> QED
  BY <1>6, <1>7

(* queueProcess of the process that leaves the CPU. *)
LEMMA QueueSafe ==
  ASSUME IInv, current \in UserPids, state[current] # "FREE",
         QueueProcess(current), UNCHANGED state, current' = NULL
  PROVE  /\ queue' \in Seq(UserPids)
         /\ NoProcessLost' /\ ReadySizeExact'
<1>1. /\ state \in [Pids -> PidStates]
      /\ queue \in Seq(UserPids)
      /\ IsInjective(queue) /\ current \notin Range(queue)
      /\ {p \in UserPids : state[p] # "FREE"} = Range(queue) \cup ({current} \cap UserPids)
      /\ readySize = Cardinality(ReadyQueued)
  BY DEF IInv, TypeOK, NoProcessLost, ReadySizeExact
<1>2. /\ queue' \in Seq(UserPids)
      /\ IsInjective(queue')
      /\ Range(queue') = Range(queue) \cup {current}
  BY <1>1, AppendProperties, AppendRange, AppendInjectiveQueue DEF QueueProcess
<1>3. NULL \notin UserPids
  BY PMAssumption DEF UserPids, Pids
<1>4. NULL \notin Range(queue')
  BY <1>2, <1>3, RangeOfSeq
<1>5. NoProcessLost'
  BY <1>1, <1>2, <1>3, <1>4 DEF NoProcessLost
<1>6. ReadyQueued \subseteq Pids /\ current \notin ReadyQueued /\ current \in Pids
  BY <1>1, RangeOfSeq DEF ReadyQueued, UserPids
<1>7. ReadySizeExact'
  <2>1. CASE state[current] = "READY"
    <3>1. ReadyQueued' = ReadyQueued \cup {current} /\ readySize' = readySize + 1
      BY <2>1, <1>2 DEF ReadyQueued, QueueProcess, Counted
    <3>2. Cardinality(ReadyQueued \cup {current}) = Cardinality(ReadyQueued) + 1
      BY <1>6, PidsFinite
    <3> QED
      BY <3>1, <3>2, <1>1 DEF ReadySizeExact
  <2>2. CASE state[current] # "READY"
    <3>1. ReadyQueued' = ReadyQueued
      BY <2>2, <1>2 DEF ReadyQueued
    <3>2. readySize \in Nat
      BY <1>1, <1>6, PidsFinite
    <3>3. readySize' = readySize
      BY <2>2, <3>2 DEF QueueProcess, Counted
    <3> QED
      BY <3>1, <3>3, <1>1 DEF ReadySizeExact
  <2> QED
    BY <2>1, <2>2
<1> QED
  BY <1>2, <1>5, <1>7
-----------------------------------------------------------------------------
(* The state main() leaves satisfies the invariant. *)
LEMMA InitInv == Init => IInv
<1> SUFFICES ASSUME Init PROVE IInv
  OBVIOUS
<1> USE PMAssumption DEF Init, Pids, UserPids, Base
<1>1. TypeOK
  BY DEF TypeOK, PidStates, States, FOREGROUND_PRIORITY_DEFAULT, BACKGROUND_PRIORITY_DEFAULT
<1>2. Range(queue) = {1}
  BY DEF Range
<1>3. IsInjective(queue)
  BY DEF IsInjective
<1>4. NoProcessLost
  BY <1>2, <1>3 DEF NoProcessLost
<1>5. ReadyQueued = {1}
  BY <1>2 DEF ReadyQueued
<1>6. ReadySizeExact
  BY <1>5, FS_Singleton DEF ReadySizeExact
<1>7. DispatchFindsReady /\ PhaseOK
  BY DEF DispatchFindsReady, PhaseOK
<1>8. IdleOK
  <2>1. Base \in Pids /\ Base # 1
    OBVIOUS
  <2>2. foreground[Base] = (Base = 1)
    BY <2>1, Zenon
  <2>3. ~foreground[Base]
    BY <2>1, <2>2, Zenon
  <2>4. state[Base] = "READY"
    BY <2>1
  <2> QED
    BY <2>3, <2>4 DEF IdleOK
<1>9. FreshPids
  BY DEF FreshPids
<1> QED
  BY <1>1, <1>4, <1>6, <1>7, <1>8, <1>9 DEF IInv

(* A new node is READY and at the end of the list. *)
LEMMA NewProcessStep == IInv /\ NewProcess => IInv'
<1> SUFFICES ASSUME IInv, NewProcess PROVE IInv'
  OBVIOUS
<1> DEFINE child == currentPID
<1> USE DEF Base, UserPids
<1>1. PICK fg \in BOOLEAN :
        LET childFg == foreground[current] /\ fg
        IN /\ state' = [state EXCEPT
                          ![child] = "READY",
                          ![current] = IF childFg /\ @ # "TERMINATED"
                                       THEN "BLOCKED" ELSE @]
           /\ ppid' = [ppid EXCEPT ![child] = current]
           /\ foreground' = [foreground EXCEPT ![child] = childFg]
           /\ priority' = [priority EXCEPT
                             ![child] = IF childFg THEN FOREGROUND_PRIORITY_DEFAULT
                                                   ELSE BACKGROUND_PRIORITY_DEFAULT]
           /\ queue' = Append(queue, child)
           /\ readySize' = readySize + 1
           /\ cpu' = IF childFg THEN "trap" ELSE cpu
  BY DEF NewProcess
<1>2. /\ cpu = "user" /\ current \notin {NULL, 0}
      /\ child \in Pids
      /\ currentPID' = currentPID + 1
      /\ UNCHANGED <<current, cyclesLeft>>
  BY DEF NewProcess, InUserCode, runVars
<1>3. TypeOK /\ NoProcessLost /\ ReadySizeExact /\ IdleOK /\ FreshPids
  BY DEF IInv
<1>4. /\ child \in UserPids /\ state[child] = "FREE"
      /\ child \in 2..MaxPid
      /\ current \in UserPids
  <2>1. child \in 2..MaxPid
    BY <1>2, <1>3, PMAssumption DEF TypeOK, Pids
  <2>2. child \in UserPids
    BY <1>2, <2>1
  <2>3. state[child] = "FREE"
    BY <1>2, <1>3, <2>1 DEF FreshPids
  <2>4. current \in UserPids
    BY <1>2, <1>3 DEF TypeOK
  <2> QED
    BY <2>1, <2>2, <2>3, <2>4
<1>5. /\ child \notin Range(queue)
      /\ Range(queue) \subseteq UserPids
      /\ child # current
      /\ state[current] # "FREE"
  BY <1>3, <1>4, RangeOfSeq DEF TypeOK, NoProcessLost
<1>6. /\ queue' \in Seq(UserPids)
      /\ IsInjective(queue')
      /\ Range(queue') = Range(queue) \cup {child}
  BY <1>1, <1>3, <1>4, <1>5, AppendProperties, AppendRange, AppendInjectiveQueue
  DEF TypeOK, NoProcessLost
<1>7. /\ state' \in [Pids -> PidStates]
      /\ state'[child] = "READY"
      /\ \A p \in Pids \ {child} : (state'[p] = "FREE") <=> (state[p] = "FREE")
      /\ \A p \in Pids \ {child, current} : state'[p] = state[p]
  <2>1. state \in [Pids -> PidStates] /\ child \in Pids /\ current \in Pids
    BY <1>3, <1>4 DEF TypeOK
  <2>2. PICK st \in {state[current], "BLOCKED"} :
          state' = [state EXCEPT ![child] = "READY", ![current] = st]
    BY <1>1, <1>5, <2>1
  <2> QED
    BY <2>1, <2>2, <1>5 DEF PidStates, States
<1>8. NoProcessLost'
  <2>1. {p \in UserPids : state'[p] # "FREE"} = {p \in UserPids : state[p] # "FREE"} \cup {child}
    BY <1>4, <1>7
  <2>2. {p \in UserPids : state[p] # "FREE"} = Range(queue) \cup {current}
    BY <1>3, <1>4 DEF NoProcessLost
  <2>3. current' \notin Range(queue') /\ {current'} \cap UserPids = {current}
    BY <1>2, <1>3, <1>4, <1>5, <1>6 DEF NoProcessLost
  <2> QED
    BY <1>6, <2>1, <2>2, <2>3 DEF NoProcessLost
<1>9. ReadySizeExact'
  <2>1. ReadyQueued' = ReadyQueued \cup {child}
    BY <1>3, <1>4, <1>5, <1>6, <1>7 DEF ReadyQueued, NoProcessLost
  <2>2. ReadyQueued \subseteq Pids /\ child \in Pids \ ReadyQueued
    BY <1>4, <1>5 DEF ReadyQueued
  <2>3. Cardinality(ReadyQueued \cup {child}) = Cardinality(ReadyQueued) + 1
    BY <2>2, PidsFinite
  <2> QED
    BY <1>1, <1>3, <2>1, <2>3 DEF ReadySizeExact
<1>10. TypeOK'
  <2>1. /\ ppid' \in [Pids -> Pids]
        /\ foreground' \in [Pids -> BOOLEAN]
        /\ priority' \in [Pids -> 0..MAX_PRIORITY]
    BY <1>1, <1>2, <1>3, <1>4, PMAssumption
    DEF TypeOK, FOREGROUND_PRIORITY_DEFAULT, BACKGROUND_PRIORITY_DEFAULT
  <2>2. /\ readySize' \in Nat
        /\ current' \in Pids \cup {NULL}
        /\ cyclesLeft' \in 0..MAX_PRIORITY
        /\ currentPID' \in 2..(MaxPid + 1)
        /\ cpu' \in {"user", "trap", "switch", "dispatch"}
    BY <1>1, <1>2, <1>3, <1>4, PMAssumption DEF TypeOK
  <2> QED
    BY <1>6, <1>7, <2>1, <2>2 DEF TypeOK
<1>11. IdleOK'
  BY <1>1, <1>3, <1>4, <1>7, PMAssumption DEF IdleOK, TypeOK, Pids
<1>12. FreshPids'
  BY <1>2, <1>3, <1>4, <1>7 DEF FreshPids, TypeOK, Pids
<1>13. PhaseOK' /\ DispatchFindsReady'
  BY <1>1, <1>2, <1>4 DEF PhaseOK, DispatchFindsReady
<1> QED
  BY <1>8, <1>9, <1>10, <1>11, <1>12, <1>13 DEF IInv

(* The tick that puts the interrupted process back on the list. *)
LEMMA TimerPreemptStep == IInv /\ TimerPreempt => IInv'
<1> SUFFICES ASSUME IInv, TimerPreempt PROVE IInv'
  OBVIOUS
<1>1. /\ TypeOK /\ NoProcessLost /\ ReadySizeExact /\ IdleOK /\ FreshPids
      /\ current' = NULL /\ cpu' = "switch"
      /\ UNCHANGED <<state, pcbVars, cyclesLeft, currentPID>>
  BY DEF IInv, TimerPreempt, LeaveCPU
<1>2. NULL \notin UserPids
  BY PMAssumption DEF UserPids, Pids
<1>3. queue' \in Seq(UserPids) /\ NoProcessLost' /\ ReadySizeExact'
  <2>1. CASE current \in {NULL, Base}
    <3>1. UNCHANGED <<queue, readySize>>
      BY <2>1 DEF TimerPreempt, listVars
    <3>2. current \notin UserPids /\ NULL \notin Range(queue)
      BY <1>1, <1>2, <2>1, RangeOfSeq DEF UserPids, TypeOK
    <3> QED
      BY <1>1, <1>2, <3>1, <3>2 DEF TypeOK, NoProcessLost, ReadySizeExact, ReadyQueued
  <2>2. CASE current \notin {NULL, Base}
    <3>1. QueueProcess(current)
      BY <2>2 DEF TimerPreempt
    <3>2. current \in UserPids
      BY <1>1, <2>2 DEF TypeOK, UserPids
    <3>3. state[current] # "FREE"
      BY <1>1, <3>2 DEF NoProcessLost
    <3> QED
      BY <1>1, <3>1, <3>2, <3>3, QueueSafe
  <2> QED
    BY <2>1, <2>2
<1>4. readySize' \in Nat
  <2>1. Range(queue') \subseteq Pids
    BY <1>3, RangeOfSeq DEF UserPids
  <2> QED
    BY <1>3, <2>1, PidsFinite DEF ReadySizeExact, ReadyQueued
<1>5. TypeOK'
  BY <1>1, <1>3, <1>4 DEF TypeOK, pcbVars
<1>6. DispatchFindsReady' /\ IdleOK' /\ FreshPids' /\ PhaseOK'
  BY <1>1 DEF DispatchFindsReady, IdleOK, FreshPids, PhaseOK, pcbVars
<1> QED
  BY <1>3, <1>5, <1>6 DEF IInv

(* The tick that frees a killed process and readies its blocked parent. *)
LEMMA TimerReapStep == IInv /\ TimerReap => IInv'
<1> SUFFICES ASSUME IInv, TimerReap PROVE IInv'
  OBVIOUS
<1> DEFINE parent == ppid[current]
<1>1. /\ TypeOK /\ NoProcessLost /\ ReadySizeExact /\ IdleOK /\ FreshPids
      /\ current' = NULL /\ cpu' = "switch"
      /\ UNCHANGED <<pcbVars, queue, cyclesLeft, currentPID>>
  BY DEF IInv, TimerReap, LeaveCPU
<1>2. /\ current \in UserPids
      /\ state[current] = "TERMINATED"
      /\ readySize' = IF ParentWaits(current) THEN readySize + 1 ELSE readySize
      /\ state' = [p \in Pids |->
                      CASE p = current -> "FREE"
                        [] p = parent /\ ParentWaits(current) -> "READY"
                        [] OTHER -> state[p]]
  BY <1>1 DEF TimerReap, TypeOK, UserPids
<1>3. /\ state \in [Pids -> PidStates]
      /\ queue \in Seq(UserPids)
      /\ Range(queue) \subseteq UserPids
      /\ current \notin Range(queue)
      /\ {p \in UserPids : state[p] # "FREE"} = Range(queue) \cup {current}
      /\ readySize = Cardinality(ReadyQueued)
  BY <1>1, <1>2, RangeOfSeq DEF TypeOK, NoProcessLost, ReadySizeExact
<1>4. ParentWaits(current) =>
        parent \in Range(queue) /\ parent # current /\ state[parent] = "BLOCKED"
  BY <1>2 DEF ParentWaits, GetProcess
<1>5. /\ state' \in [Pids -> PidStates]
      /\ state'[current] = "FREE"
      /\ ParentWaits(current) => state'[parent] = "READY"
      /\ \A p \in Pids \ {current} :
           ~(p = parent /\ ParentWaits(current)) => state'[p] = state[p]
  BY <1>2, <1>3, <1>4 DEF PidStates, States, UserPids
<1>6. NoProcessLost'
  <2>1. \A p \in UserPids \ {current} : (state'[p] = "FREE") <=> (state[p] = "FREE")
    BY <1>4, <1>5 DEF UserPids
  <2>2. {p \in UserPids : state'[p] # "FREE"} = Range(queue)
    BY <1>2, <1>3, <1>5, <2>1
  <2>3. NULL \notin UserPids /\ NULL \notin Range(queue)
    BY <1>3, PMAssumption DEF UserPids, Pids
  <2> QED
    BY <1>1, <2>2, <2>3 DEF NoProcessLost
<1>7. ReadySizeExact'
  <2>1. ReadyQueued \subseteq Pids
    BY <1>3 DEF ReadyQueued, UserPids
  <2>2. CASE ParentWaits(current)
    <3>1. ReadyQueued' = ReadyQueued \cup {parent}
      BY <2>2, <1>1, <1>3, <1>4, <1>5 DEF ReadyQueued, UserPids
    <3>2. parent \in Pids \ ReadyQueued
      BY <2>2, <1>3, <1>4 DEF ReadyQueued, UserPids
    <3>3. Cardinality(ReadyQueued \cup {parent}) = Cardinality(ReadyQueued) + 1
      BY <2>1, <3>2, PidsFinite
    <3> QED
      BY <2>2, <1>2, <1>3, <3>1, <3>3 DEF ReadySizeExact
  <2>3. CASE ~ParentWaits(current)
    <3>1. ReadyQueued' = ReadyQueued
      BY <2>3, <1>1, <1>3, <1>5 DEF ReadyQueued, UserPids
    <3> QED
      BY <2>3, <1>2, <1>3, <3>1 DEF ReadySizeExact
  <2> QED
    BY <2>2, <2>3
<1>8. readySize' \in Nat
  BY <1>1, <1>2 DEF TypeOK
<1>9. TypeOK'
  BY <1>1, <1>5, <1>8 DEF TypeOK, pcbVars
<1>10. IdleOK'
  <2>1. Base \in Pids /\ Base # current /\ (ParentWaits(current) => parent # Base)
    BY <1>2, <1>3, <1>4, PMAssumption DEF UserPids, Base, Pids
  <2> QED
    BY <1>1, <1>5, <2>1 DEF IdleOK, pcbVars
<1>11. FreshPids'
  BY <1>1, <1>2, <1>4, <1>5 DEF FreshPids
<1>12. DispatchFindsReady' /\ PhaseOK'
  BY <1>1 DEF DispatchFindsReady, PhaseOK
<1> QED
  BY <1>6, <1>7, <1>9, <1>10, <1>11, <1>12 DEF IInv

(* Taking the first node of the list, when there is a READY one. *)
LEMMA DispatchFirstStep == IInv /\ DispatchFirst => IInv'
<1> SUFFICES ASSUME IInv, DispatchFirst PROVE IInv'
  OBVIOUS
<1>1. /\ TypeOK /\ NoProcessLost /\ ReadySizeExact /\ IdleOK /\ FreshPids /\ PhaseOK
      /\ cpu = "switch" /\ cpu' = "dispatch"
      /\ readySize # 0 /\ DequeueInto(queue)
      /\ UNCHANGED <<state, pcbVars, cyclesLeft, currentPID>>
  BY DEF IInv, DispatchFirst
<1>2. /\ current = NULL /\ NULL \notin UserPids
      /\ Range(queue) \subseteq UserPids
  <2>1. current = NULL
    BY <1>1 DEF PhaseOK
  <2>2. NULL \notin UserPids
    BY PMAssumption DEF UserPids, Pids
  <2>3. Range(queue) \subseteq UserPids
    BY <1>1, RangeOfSeq DEF TypeOK
  <2> QED
    BY <2>1, <2>2, <2>3
<1>3. ReadyQueued # {}
  BY <1>1, <1>2, PidsFinite DEF ReadySizeExact, ReadyQueued, UserPids
<1>4. /\ current' \in UserPids /\ current' \in Range(queue)
      /\ queue' \in Seq(UserPids) /\ IsInjective(queue')
      /\ Range(queue') = Range(queue) \ {current'}
      /\ readySize' = Cardinality({p \in Range(queue') : state[p] = "READY"})
      /\ \/ state[current'] = "READY"
         \/ {p \in Range(queue') : state[p] = "READY"} # {}
  BY <1>1, <1>3, DequeueSafe DEF TypeOK, NoProcessLost, ReadySizeExact, ReadyQueued
<1>5. NoProcessLost'
  BY <1>1, <1>2, <1>4 DEF NoProcessLost
<1>6. ReadySizeExact' /\ DispatchFindsReady'
  BY <1>1, <1>2, <1>4 DEF ReadySizeExact, DispatchFindsReady, ReadyQueued
<1>8. TypeOK'
  <2>1. readySize' \in Nat
    BY <1>2, <1>4, PidsFinite DEF UserPids
  <2> QED
    BY <1>1, <1>4, <2>1 DEF TypeOK, pcbVars, UserPids
<1>9. IdleOK' /\ FreshPids' /\ PhaseOK'
  BY <1>1, <1>4 DEF IdleOK, FreshPids, PhaseOK, pcbVars
<1> QED
  BY <1>5, <1>6, <1>8, <1>9 DEF IInv

(* The loop frees a TERMINATED node and takes the next one. *)
LEMMA LoopFreeStep == IInv /\ LoopFree => IInv'
<1> SUFFICES ASSUME IInv, LoopFree PROVE IInv'
  OBVIOUS
<1>1. /\ TypeOK /\ NoProcessLost /\ ReadySizeExact /\ IdleOK /\ FreshPids
      /\ cpu = "dispatch" /\ cpu' = "dispatch"
      /\ current \in UserPids /\ state[current] = "TERMINATED"
      /\ state' = [state EXCEPT ![current] = "FREE"]
      /\ DequeueInto(queue)
      /\ UNCHANGED <<pcbVars, cyclesLeft, currentPID>>
  BY DEF IInv, LoopFree, PhaseOK
<1>2. /\ Range(queue) \subseteq UserPids /\ current \notin Range(queue)
      /\ {p \in UserPids : state[p] # "FREE"} = Range(queue) \cup {current}
  BY <1>1, RangeOfSeq DEF TypeOK, NoProcessLost
<1>3. ReadyQueued # {}
  BY <1>1 DEF IInv, DispatchFindsReady
<1>4. /\ current' \in UserPids /\ current' \in Range(queue)
      /\ queue' \in Seq(UserPids) /\ IsInjective(queue')
      /\ Range(queue') = Range(queue) \ {current'}
      /\ readySize' = Cardinality({p \in Range(queue') : state[p] = "READY"})
      /\ \/ state[current'] = "READY"
         \/ {p \in Range(queue') : state[p] = "READY"} # {}
  BY <1>1, <1>3, DequeueSafe DEF TypeOK, NoProcessLost, ReadySizeExact, ReadyQueued
<1>5. /\ state' \in [Pids -> PidStates]
      /\ \A p \in Pids \ {current} : state'[p] = state[p]
      /\ state'[current] = "FREE"
  BY <1>1 DEF TypeOK, PidStates, UserPids
<1>6. NoProcessLost'
  <2>1. {p \in UserPids : state'[p] # "FREE"} = Range(queue)
    BY <1>1, <1>2, <1>5 DEF UserPids
  <2> QED
    BY <1>4, <2>1 DEF NoProcessLost
<1>7. ReadySizeExact' /\ DispatchFindsReady'
  <2>1. \A p \in Range(queue) : state'[p] = state[p]
    BY <1>2, <1>5 DEF UserPids
  <2>2. ReadyQueued' = {p \in Range(queue') : state[p] = "READY"}
    BY <1>4, <2>1 DEF ReadyQueued
  <2>3. current' # NULL
    BY <1>4, PMAssumption DEF UserPids, Pids
  <2> QED
    BY <1>4, <2>1, <2>2, <2>3 DEF ReadySizeExact, DispatchFindsReady
<1>8. TypeOK'
  <2>1. readySize' \in Nat
    BY <1>2, <1>4, PidsFinite DEF UserPids
  <2> QED
    BY <1>1, <1>4, <1>5, <2>1 DEF TypeOK, pcbVars, UserPids
<1>9. IdleOK' /\ FreshPids' /\ PhaseOK'
  <2>1. Base \in Pids /\ Base # current
    BY <1>1, PMAssumption DEF UserPids, Base, Pids
  <2> QED
    BY <1>1, <1>4, <1>5, <2>1 DEF IdleOK, FreshPids, PhaseOK, pcbVars
<1> QED
  BY <1>6, <1>7, <1>8, <1>9 DEF IInv

(* The loop puts a BLOCKED node back and takes the next one. *)
LEMMA LoopRequeueStep == IInv /\ LoopRequeue => IInv'
<1> SUFFICES ASSUME IInv, LoopRequeue PROVE IInv'
  OBVIOUS
<1> DEFINE q == Append(queue, current)
<1>1. /\ TypeOK /\ NoProcessLost /\ ReadySizeExact /\ IdleOK /\ FreshPids
      /\ cpu = "dispatch" /\ cpu' = "dispatch"
      /\ current \in UserPids /\ state[current] = "BLOCKED"
      /\ DequeueInto(q)
      /\ UNCHANGED <<state, pcbVars, cyclesLeft, currentPID>>
  BY DEF IInv, LoopRequeue, PhaseOK
<1>2. /\ Range(queue) \subseteq UserPids /\ current \notin Range(queue)
      /\ {p \in UserPids : state[p] # "FREE"} = Range(queue) \cup {current}
  BY <1>1, RangeOfSeq DEF TypeOK, NoProcessLost
<1>3. /\ q \in Seq(UserPids) /\ IsInjective(q)
      /\ Range(q) = Range(queue) \cup {current}
  BY <1>1, <1>2, AppendProperties, AppendRange, AppendInjectiveQueue
  DEF TypeOK, NoProcessLost
<1>4. ReadyQueued # {} /\ ReadyQueued = {p \in Range(q) : state[p] = "READY"}
  BY <1>1, <1>3 DEF IInv, DispatchFindsReady, ReadyQueued
<1>5. /\ current' \in UserPids /\ current' \in Range(q)
      /\ queue' \in Seq(UserPids) /\ IsInjective(queue')
      /\ Range(queue') = Range(q) \ {current'}
      /\ readySize' = Cardinality({p \in Range(queue') : state[p] = "READY"})
      /\ \/ state[current'] = "READY"
         \/ {p \in Range(queue') : state[p] = "READY"} # {}
  BY <1>1, <1>3, <1>4, DequeueSafe DEF TypeOK, ReadySizeExact
<1>6. NoProcessLost'
  BY <1>1, <1>2, <1>3, <1>5 DEF NoProcessLost
<1>7. current' # NULL
  BY <1>5, PMAssumption DEF UserPids, Pids
<1>8. ReadySizeExact' /\ DispatchFindsReady'
  BY <1>1, <1>5, <1>7 DEF ReadySizeExact, DispatchFindsReady, ReadyQueued
<1>9. TypeOK'
  <2>1. readySize' \in Nat
    BY <1>1, <1>2, <1>3, <1>5, PidsFinite DEF UserPids
  <2> QED
    BY <1>1, <1>5, <2>1 DEF TypeOK, pcbVars, UserPids
<1>10. IdleOK' /\ FreshPids' /\ PhaseOK'
  BY <1>1, <1>5 DEF IdleOK, FreshPids, PhaseOK, pcbVars
<1> QED
  BY <1>6, <1>8, <1>9, <1>10 DEF IInv

(* Steps that change neither the process states, nor the list, nor who is  *)
(* on the CPU, and that do not begin a dispatch.                           *)
LEMMA QuietStep ==
  ASSUME IInv, UNCHANGED <<state, queue, readySize>>,
         TypeOK', IdleOK', PhaseOK', cpu' # "dispatch",
         currentPID' >= currentPID,
         current' = current \/ (current \notin UserPids /\ current' = Base)
  PROVE  IInv'
<1>1. /\ TypeOK /\ NoProcessLost /\ ReadySizeExact /\ FreshPids
  BY DEF IInv
<1>2. NoProcessLost'
  <2>1. CASE current' = current
    BY <1>1, <2>1 DEF NoProcessLost
  <2>2. CASE current \notin UserPids /\ current' = Base
    <3>1. Base \notin Range(queue) /\ Base \notin UserPids
      BY <1>1, RangeOfSeq DEF TypeOK, UserPids
    <3> QED
      BY <1>1, <2>2, <3>1 DEF NoProcessLost
  <2> QED
    BY <2>1, <2>2
<1>3. ReadySizeExact'
  BY <1>1 DEF ReadySizeExact, ReadyQueued
<1>4. FreshPids'
  BY <1>1 DEF FreshPids, TypeOK, Pids
<1>5. DispatchFindsReady'
  BY DEF DispatchFindsReady
<1> QED
  BY <1>2, <1>3, <1>4, <1>5 DEF IInv

(* Every step preserves the invariant. *)
LEMMA NextInv == IInv /\ [Next]_vars => IInv'
<1> SUFFICES ASSUME IInv, [Next]_vars PROVE IInv'
  OBVIOUS
<1> USE DEF pcbVars, listVars, runVars
<1>1. /\ TypeOK /\ NoProcessLost /\ IdleOK /\ FreshPids /\ PhaseOK
      /\ foreground \in [Pids -> BOOLEAN] /\ ~foreground[Base]
  BY DEF IInv, TypeOK, IdleOK
<1>2. ASSUME InUserCode
      PROVE  /\ current \notin {NULL, Base} /\ cpu = "user"
             /\ current \in Pids /\ current \in UserPids
  BY <1>1, <1>2 DEF InUserCode, TypeOK, UserPids
<1>3. CASE SysKill
  <2>1. PICK pid \in Pids : KillProcess(pid)
    BY <1>3 DEF SysKill
  <2> QED
    BY <2>1, <1>1, <1>2, <1>3, SetStateStep
    DEF SysKill, KillProcess, TrapIfRunning, States
<1>4. CASE SysBlock
  <2>1. PICK pid \in Pids : BlockProcess(pid)
    BY <1>4 DEF SysBlock
  <2> QED
    BY <2>1, <1>1, <1>2, <1>4, SetStateStep
    DEF SysBlock, BlockProcess, TrapIfRunning, States
<1>5. CASE SysReady
  <2>1. PICK pid \in Pids : ReadyProcess(pid)
    BY <1>5 DEF SysReady
  <2> QED
    BY <2>1, <1>1, <1>2, <1>5, SetStateStep DEF SysReady, ReadyProcess, States
<1>6. CASE SysSetState
  <2>1. PICK pid \in Pids, newState \in States : SetState(pid, newState)
    BY <1>6 DEF SysSetState
  <2> QED
    BY <2>1, <1>1, <1>2, <1>6, SetStateStep DEF SysSetState
<1>7. CASE Yield
  <2>1. TypeOK' /\ IdleOK' /\ PhaseOK'
    BY <1>1, <1>2, <1>7, PMAssumption DEF Yield, TypeOK, IdleOK, PhaseOK
  <2>2. currentPID' >= currentPID
    BY <1>1, <1>7 DEF Yield, TypeOK
  <2> QED
    BY <2>1, <2>2, <1>7, QuietStep DEF Yield
<1>8. CASE SetPriority
  <2>1. PICK pid \in Pids, newPriority \in PriorityArgs :
          priority' = [priority EXCEPT ![pid] = ClampPriority(newPriority)]
    BY <1>8 DEF SetPriority
  <2>2. ClampPriority(newPriority) \in 0..MAX_PRIORITY
    BY PMAssumption DEF ClampPriority
  <2>3. TypeOK' /\ IdleOK' /\ PhaseOK'
    BY <1>1, <1>2, <1>8, <2>1, <2>2 DEF SetPriority, TypeOK, IdleOK, PhaseOK
  <2>4. currentPID' >= currentPID /\ cpu' = "user"
    BY <1>1, <1>2, <1>8 DEF SetPriority, TypeOK
  <2> QED
    BY <2>3, <2>4, <1>8, QuietStep DEF SetPriority
<1>9. CASE Wait
  <2>1. PICK pid \in Pids : GetProcess(pid) /\ foreground' = [foreground EXCEPT ![pid] = TRUE]
    BY <1>9 DEF Wait
  <2>2. pid # Base
    BY <2>1, <1>1, <1>2, <1>9, RangeOfSeq DEF Wait, GetProcess, TypeOK, UserPids
  <2>3. foreground' \in [Pids -> BOOLEAN] /\ ~foreground'[Base]
    BY <2>1, <2>2, <1>1
  <2> QED
    BY <2>3, <1>2, <1>9, SetStateStep DEF Wait, TrapIfRunning, States
<1>10. CASE NewProcess
  BY <1>10, NewProcessStep
<1>11. CASE NewProcessFails
  <2>1. currentPID' \in 2..(MaxPid + 1) /\ currentPID' >= currentPID
    BY <1>1, <1>11, PMAssumption DEF NewProcessFails, TypeOK, Pids
  <2>2. TypeOK' /\ IdleOK' /\ PhaseOK' /\ cpu' = "user"
    BY <1>1, <1>2, <1>11, <2>1 DEF NewProcessFails, TypeOK, IdleOK, PhaseOK
  <2> QED
    BY <2>1, <2>2, <1>11, QuietStep DEF NewProcessFails
<1>12. CASE Exit
  BY <1>1, <1>2, <1>12, SetStateStep DEF Exit, KillProcess, TrapIfRunning, States
<1>13. CASE KillCurrentFGProcess
  <2>1. current \in Pids /\ current \notin {NULL, Base}
    BY <1>1, <1>13 DEF KillCurrentFGProcess, Interruptible, TypeOK
  <2> QED
    BY <2>1, <1>1, <1>13, SetStateStep
    DEF KillCurrentFGProcess, KillProcess, TrapIfRunning, States
<1>14. CASE TimerKeep
  <2>1. TypeOK' /\ IdleOK' /\ PhaseOK' /\ currentPID' >= currentPID
    BY <1>1, <1>14, PMAssumption
    DEF TimerKeep, KeepsRunning, TypeOK, IdleOK, PhaseOK
  <2> QED
    BY <2>1, <1>14, QuietStep DEF TimerKeep
<1>15. CASE TimerPreempt
  BY <1>15, TimerPreemptStep
<1>16. CASE TimerReap
  BY <1>16, TimerReapStep
<1>17. CASE DispatchIdle
  <2>1. Base \in Pids /\ current = NULL /\ NULL \notin UserPids
    BY <1>1, <1>17, PMAssumption DEF DispatchIdle, PhaseOK, Base, Pids, UserPids
  <2>2. TypeOK' /\ IdleOK' /\ PhaseOK' /\ currentPID' >= currentPID
    BY <2>1, <1>1, <1>17 DEF DispatchIdle, TypeOK, IdleOK, PhaseOK
  <2> QED
    BY <2>1, <2>2, <1>17, QuietStep DEF DispatchIdle
<1>18. CASE DispatchFirst
  BY <1>18, DispatchFirstStep
<1>19. CASE LoopFree
  BY <1>19, LoopFreeStep
<1>20. CASE LoopRequeue
  BY <1>20, LoopRequeueStep
<1>21. CASE Dispatch
  <2>1. current \in Pids
    BY <1>1, <1>21 DEF Dispatch, TypeOK
  <2>2. TypeOK' /\ IdleOK' /\ PhaseOK' /\ currentPID' >= currentPID
    BY <2>1, <1>1, <1>21 DEF Dispatch, TypeOK, IdleOK, PhaseOK
  <2> QED
    BY <2>2, <1>21, QuietStep DEF Dispatch
<1>23. CASE KeyboardWakes
  <2>1. PICK pid \in UserPids : ReadyProcess(pid)
    BY <1>23 DEF KeyboardWakes
  <2>2. pid \in Pids /\ pid # Base
    BY DEF UserPids
  <2> QED
    BY <2>1, <2>2, <1>1, <1>23, SetStateStep DEF KeyboardWakes, ReadyProcess, States
<1>22. CASE UNCHANGED vars
  BY <1>22 DEF vars, IInv, TypeOK, NoProcessLost, ReadySizeExact, ReadyQueued,
               DispatchFindsReady, IdleOK, FreshPids, PhaseOK
<1> QED
  BY <1>3, <1>4, <1>5, <1>6, <1>7, <1>8, <1>9, <1>10, <1>11, <1>12, <1>13,
     <1>14, <1>15, <1>16, <1>17, <1>18, <1>19, <1>20, <1>21, <1>22, <1>23
  DEF Next, Tick, DispatchStep

(* The invariant holds in every reachable state. *)
LEMMA Invariance == Spec => []IInv
<1> QED
  BY InitInv, NextInv, PTL DEF Spec

(* The variables keep their types in every behaviour. *)
THEOREM TypeCorrect == Spec => []TypeOK
<1>1. IInv => TypeOK
  BY DEF IInv
<1> QED
  BY <1>1, Invariance, PTL

(* No process is ever lost, queued twice, or queued while it runs, for any *)
(* number of processes and any sequence of calls.                          *)
THEOREM ProcessTableSafe == Spec => []NoProcessLost
<1>1. IInv => NoProcessLost
  BY DEF IInv
<1> QED
  BY <1>1, Invariance, PTL

(* readySize always equals the number of READY nodes on the list. *)
THEOREM ReadySizeCorrect == Spec => []ReadySizeExact
<1>1. IInv => ReadySizeExact
  BY DEF IInv
<1> QED
  BY <1>1, Invariance, PTL

(* processManager's loop never dequeues from an empty list. *)
THEOREM DispatchSafe == Spec => []DispatchFindsReady
<1>1. IInv => DispatchFindsReady
  BY DEF IInv
<1> QED
  BY <1>1, Invariance, PTL
-----------------------------------------------------------------------------
(* setState by the running process is a Change of the abstract scheduler,  *)
(* or no step at all.                                                      *)
LEMMA SetStateRefines ==
  ASSUME IInv, InUserCode, NEW pid \in Pids, NEW s \in States,
         SetState(pid, s), UNCHANGED <<current, currentPID>>,
         cpu' \in {"user", "trap"}
  PROVE  Abstract!Change \/ UNCHANGED Abstract!vars
<1>1. /\ cpu = "user" /\ current \notin {NULL, Base}
      /\ state \in [Pids -> PidStates] /\ queue \in Seq(UserPids)
      /\ current \in UserPids
      /\ {p \in UserPids : state[p] # "FREE"} = Range(queue) \cup ({current} \cap UserPids)
  BY DEF IInv, InUserCode, TypeOK, NoProcessLost, UserPids
<1>2. CASE ~(GetProcess(pid) /\ state[pid] # "TERMINATED")
  BY <1>1, <1>2 DEF SetState, Abstract!vars
<1>3. CASE GetProcess(pid) /\ state[pid] # "TERMINATED"
  <2>1. pid \in UserPids /\ state[pid] # "FREE"
    BY <1>1, <1>3, RangeOfSeq DEF GetProcess
  <2>2. state[pid] \in {"READY", "BLOCKED"}
    BY <2>1, <1>1, <1>3 DEF PidStates, States
  <2>3. state' = [state EXCEPT ![pid] = s]
    BY <1>3 DEF SetState
  <2> QED
    BY <1>1, <2>1, <2>2, <2>3 DEF Abstract!Change, Abstract!Alive, UserPids, States
<1> QED
  BY <1>2, <1>3

(* readyProcess by an interrupt is a Wake of the abstract scheduler, or no *)
(* step at all.                                                            *)
LEMMA ReadyRefines ==
  ASSUME IInv, NEW pid \in UserPids, SetState(pid, "READY"),
         UNCHANGED <<current, currentPID, cpu>>
  PROVE  Abstract!Wake \/ UNCHANGED Abstract!vars
<1>1. /\ state \in [Pids -> PidStates] /\ queue \in Seq(UserPids) /\ pid \in Pids
      /\ {p \in UserPids : state[p] # "FREE"} = Range(queue) \cup ({current} \cap UserPids)
  BY DEF IInv, TypeOK, NoProcessLost, UserPids
<1>2. CASE ~(GetProcess(pid) /\ state[pid] # "TERMINATED")
  BY <1>2 DEF SetState, Abstract!vars
<1>3. CASE GetProcess(pid) /\ state[pid] # "TERMINATED"
  <2>1. state[pid] # "FREE"
    BY <1>1, <1>3 DEF GetProcess
  <2>2. state[pid] \in {"READY", "BLOCKED"}
    BY <2>1, <1>1, <1>3 DEF PidStates, States
  <2>3. state' = [state EXCEPT ![pid] = "READY"]
    BY <1>3 DEF SetState
  <2>4. CASE state[pid] = "READY"
    <3>1. state' = state
      BY <1>1, <2>3, <2>4
    <3> QED BY <3>1 DEF Abstract!vars
  <2>5. CASE state[pid] = "BLOCKED"
    BY <2>3, <2>5 DEF Abstract!Wake, UserPids
  <2> QED BY <2>2, <2>4, <2>5
<1> QED
  BY <1>2, <1>3

(* Every step of the process manager is a step of the abstract scheduler   *)
(* or leaves what it shows unchanged.                                      *)
LEMMA StepRefines == IInv /\ [Next]_vars => [Abstract!Next]_(Abstract!vars)
<1> SUFFICES ASSUME IInv, [Next]_vars
             PROVE  Abstract!Next \/ UNCHANGED Abstract!vars
  OBVIOUS
<1> USE DEF pcbVars, listVars, runVars
<1>1. /\ TypeOK /\ NoProcessLost /\ IdleOK /\ PhaseOK
      /\ state \in [Pids -> PidStates] /\ queue \in Seq(UserPids)
      /\ Range(queue) \subseteq UserPids
      /\ {p \in UserPids : state[p] # "FREE"} = Range(queue) \cup ({current} \cap UserPids)
  BY RangeOfSeq DEF IInv, TypeOK, NoProcessLost
<1>2. CASE SysKill
  <2>1. PICK pid \in Pids : KillProcess(pid)
    BY <1>2 DEF SysKill
  <2> QED
    BY <2>1, <1>2, SetStateRefines
    DEF SysKill, KillProcess, TrapIfRunning, InUserCode, States, Abstract!Next
<1>3. CASE SysBlock
  <2>1. PICK pid \in Pids : BlockProcess(pid)
    BY <1>3 DEF SysBlock
  <2> QED
    BY <2>1, <1>3, SetStateRefines
    DEF SysBlock, BlockProcess, TrapIfRunning, InUserCode, States, Abstract!Next
<1>4. CASE SysReady
  <2>1. PICK pid \in Pids : ReadyProcess(pid)
    BY <1>4 DEF SysReady
  <2> QED
    BY <2>1, <1>4, SetStateRefines
    DEF SysReady, ReadyProcess, InUserCode, States, Abstract!Next
<1>5. CASE SysSetState
  <2>1. PICK pid \in Pids, newState \in States : SetState(pid, newState)
    BY <1>5 DEF SysSetState
  <2> QED
    BY <2>1, <1>5, SetStateRefines DEF SysSetState, InUserCode, Abstract!Next
<1>6. CASE Yield
  BY <1>6 DEF Yield, InUserCode, Abstract!vars
<1>7. CASE SetPriority
  BY <1>7 DEF SetPriority, InUserCode, Abstract!vars
<1>8. CASE Wait
  BY <1>1, <1>8, SetStateRefines
  DEF Wait, TrapIfRunning, InUserCode, TypeOK, States, Abstract!Next
<1>9. CASE NewProcess
  <2>1. PICK fg \in BOOLEAN :
          /\ state' = [state EXCEPT
                         ![currentPID] = "READY",
                         ![current] = IF (foreground[current] /\ fg) /\ @ # "TERMINATED"
                                      THEN "BLOCKED" ELSE @]
          /\ cpu' = IF foreground[current] /\ fg THEN "trap" ELSE cpu
    BY <1>9 DEF NewProcess
  <2>2. /\ cpu = "user" /\ current \notin {NULL, Base}
        /\ currentPID \in Pids /\ currentPID' = currentPID + 1
        /\ current' = current /\ cpu' \in {"user", "trap"}
        /\ current \in UserPids
    BY <1>1, <1>9, <2>1 DEF NewProcess, InUserCode, TypeOK, UserPids
  <2>3. state[currentPID] = "FREE" /\ currentPID # current
    BY <1>1, <2>2 DEF IInv, FreshPids, TypeOK, NoProcessLost, Pids
  <2>4. state[current] \in {"READY", "BLOCKED", "TERMINATED"}
    <3>1. state[current] # "FREE"
      BY <1>1, <2>2
    <3>2. state[current] \in PidStates
      BY <1>1, <2>2 DEF UserPids
    <3> QED
      BY <3>1, <3>2 DEF PidStates, States
  <2>5. \E parent \in {state[current]} \cup
                       (IF state[current] \in {"READY", "BLOCKED"} THEN {"BLOCKED"} ELSE {}) :
          state' = [state EXCEPT ![currentPID] = "READY", ![current] = parent]
    <3>1. CASE (foreground[current] /\ fg) /\ state[current] # "TERMINATED"
      <4>1. state[current] \in {"READY", "BLOCKED"}
        BY <2>4, <3>1
      <4>2. state' = [state EXCEPT ![currentPID] = "READY", ![current] = "BLOCKED"]
        BY <1>1, <2>1, <2>2, <2>3, <3>1
      <4> QED
        BY <4>1, <4>2
    <3>2. CASE ~((foreground[current] /\ fg) /\ state[current] # "TERMINATED")
      <4>1. state' = [state EXCEPT ![currentPID] = "READY", ![current] = state[current]]
        BY <1>1, <2>1, <2>2, <2>3, <3>2
      <4> QED
        BY <4>1
    <3> QED
      BY <3>1, <3>2
  <2> QED
    BY <2>2, <2>5 DEF Abstract!Create, Abstract!Alive, Abstract!Next
<1>10. CASE NewProcessFails
  BY <1>10 DEF NewProcessFails, InUserCode, Abstract!CreateFails, Abstract!Next
<1>11. CASE Exit
  BY <1>1, <1>11, SetStateRefines
  DEF Exit, KillProcess, TrapIfRunning, InUserCode, TypeOK, States, Abstract!Next
<1>12. CASE KillCurrentFGProcess
  <2>1. InUserCode /\ current \in Pids
    BY <1>1, <1>12 DEF KillCurrentFGProcess, Interruptible, InUserCode, IdleOK, TypeOK
  <2> QED
    BY <2>1, <1>12, SetStateRefines
    DEF KillCurrentFGProcess, KillProcess, TrapIfRunning, States, Abstract!Next
<1>13. CASE TimerKeep
  BY <1>13 DEF TimerKeep, TimerEntry, Abstract!vars
<1>14. CASE TimerPreempt
  BY <1>14 DEF TimerPreempt, TimerEntry, LeaveCPU, Abstract!Preempt, Abstract!Next, Abstract!vars
<1>15. CASE TimerReap
  <2>1. /\ cpu \in {"user", "trap"} /\ current \notin {NULL, Base}
        /\ state[current] = "TERMINATED"
        /\ cpu' = "switch" /\ UNCHANGED currentPID
        /\ state' = [p \in Pids |->
                        CASE p = current -> "FREE"
                          [] p = ppid[current] /\ ParentWaits(current) -> "READY"
                          [] OTHER -> state[p]]
    BY <1>15 DEF TimerReap, TimerEntry, LeaveCPU
  <2> DEFINE woken == {p \in Pids : p = ppid[current] /\ ParentWaits(current)}
  <2>2. /\ woken \in SUBSET {p \in Pids : state[p] = "BLOCKED"}
        /\ \A p, q \in woken : p = q
    BY DEF ParentWaits
  <2>3. state' = [p \in Pids |-> IF p = current THEN "FREE"
                                ELSE IF p \in woken THEN "READY" ELSE state[p]]
    <3>1. \A p \in Pids : p \in woken <=> (p = ppid[current] /\ ParentWaits(current))
      OBVIOUS
    <3> HIDE DEF woken
    <3>2. \A p \in Pids :
            (CASE p = current -> "FREE"
               [] p = ppid[current] /\ ParentWaits(current) -> "READY"
               [] OTHER -> state[p])
            = (IF p = current THEN "FREE" ELSE IF p \in woken THEN "READY" ELSE state[p])
      <4> SUFFICES ASSUME NEW p \in Pids
                   PROVE (CASE p = current -> "FREE"
                            [] p = ppid[current] /\ ParentWaits(current) -> "READY"
                            [] OTHER -> state[p])
                         = (IF p = current THEN "FREE"
                            ELSE IF p \in woken THEN "READY" ELSE state[p])
        OBVIOUS
      <4>1. CASE p = current
        <5>1. ~ParentWaits(current) \/ p # ppid[current]
          BY <4>1, <2>1 DEF ParentWaits
        <5> QED
          BY <4>1, <5>1
      <4>2. CASE p # current
        BY <4>2, <3>1
      <4> QED
        BY <4>1, <4>2
    <3> QED
      BY <2>1, <3>2
  <2> HIDE DEF woken
  <2> QED
    BY <2>1, <2>2, <2>3 DEF Abstract!Reap, Abstract!Next
<1>16. CASE DispatchIdle
  <2>1. \A p \in UserPids : state[p] # "READY"
    <3>1. current = NULL /\ current \notin UserPids
      BY <1>1, <1>16, PMAssumption DEF DispatchIdle, PhaseOK, UserPids, Pids
    <3>2. ReadyQueued \subseteq Pids
      BY <1>1 DEF ReadyQueued, UserPids
    <3>3. ReadyQueued = {}
      BY <1>16, <3>2, PidsFinite DEF DispatchIdle, IInv, ReadySizeExact
    <3> QED
      BY <1>1, <3>1, <3>3 DEF ReadyQueued
  <2> QED
    BY <2>1, <1>16 DEF DispatchIdle, UserPids, Abstract!PickIdle, Abstract!Next
<1>17. CASE DispatchFirst
  BY <1>17 DEF DispatchFirst, Abstract!vars
<1>18. CASE LoopFree
  <2>1. current \in Pids
    BY <1>1, <1>18 DEF LoopFree, PhaseOK, UserPids
  <2> QED
    BY <2>1, <1>18 DEF LoopFree, Abstract!Bury, Abstract!Next
<1>19. CASE LoopRequeue
  BY <1>19 DEF LoopRequeue, Abstract!vars
<1>20. CASE Dispatch
  <2>1. current \in UserPids
    BY <1>1, <1>20 DEF Dispatch, PhaseOK
  <2> QED
    BY <2>1, <1>20 DEF Dispatch, UserPids, Abstract!Pick, Abstract!Next
<1>21. CASE UNCHANGED vars
  BY <1>21 DEF vars, Abstract!vars
<1>22. CASE KeyboardWakes
  BY <1>22, ReadyRefines DEF KeyboardWakes, ReadyProcess, Abstract!Next
<1> QED
  BY <1>2, <1>3, <1>4, <1>5, <1>6, <1>7, <1>8, <1>9, <1>10, <1>11, <1>12, <1>13,
     <1>14, <1>15, <1>16, <1>17, <1>18, <1>19, <1>20, <1>21, <1>22
  DEF Next, Tick, DispatchStep

(* The process manager implements the abstract scheduler: only READY       *)
(* processes get the CPU, the idle one only when there is no other, and    *)
(* what was killed never runs again.                                       *)
THEOREM Refinement == Spec => ImplementsScheduler
<1>1. Init => Abstract!Init
  BY DEF Init, Abstract!Init
<1> QED
  BY <1>1, StepRefines, Invariance, PTL DEF Spec, ImplementsScheduler, Abstract!Spec
-----------------------------------------------------------------------------
(* 2. Round robin.                                                         *)

(* The nodes in front of p on a list q; Ahead(p) is InFront(queue, p). *)
InFront(q, p) ==
  {q[i] : i \in {i \in DOMAIN q : \E j \in DOMAIN q : i < j /\ q[j] = p}}

(* Appending a node that is not on the list puts nobody in front of those  *)
(* that are.                                                               *)
LEMMA AppendInFront ==
  ASSUME NEW S, NEW q \in Seq(S), NEW x \in S, x \notin Range(q), NEW p \in Range(q)
  PROVE  InFront(Append(q, x), p) \subseteq InFront(q, p)
<1>1. /\ Len(Append(q, x)) = Len(q) + 1
      /\ \A i \in 1..Len(q) : Append(q, x)[i] = q[i]
      /\ Append(q, x)[Len(q) + 1] = x
      /\ DOMAIN Append(q, x) = 1..Len(Append(q, x))
      /\ DOMAIN q = 1..Len(q)
      /\ Len(q) \in Nat
  BY AppendProperties, LenProperties
<1>2. SUFFICES ASSUME NEW i \in 1..(Len(q) + 1), NEW j \in 1..(Len(q) + 1),
                      i < j, Append(q, x)[j] = p
               PROVE  Append(q, x)[i] \in InFront(q, p)
  BY <1>1 DEF InFront
<1>3. j # Len(q) + 1
  BY <1>1, <1>2
<1>4. i \in 1..Len(q) /\ j \in 1..Len(q) /\ q[j] = p /\ Append(q, x)[i] = q[i]
  BY <1>1, <1>2, <1>3
<1> QED BY <1>1, <1>2, <1>4 DEF InFront

(* Taking the head off puts nobody in front of those behind it, and it was *)
(* in front of all of them.                                                *)
LEMMA TailInFront ==
  ASSUME NEW S, NEW q \in Seq(S), q # <<>>, NEW p \in Range(Tail(q))
  PROVE  Head(q) \in InFront(q, p) /\ InFront(Tail(q), p) \subseteq InFront(q, p)
<1>1. /\ Tail(q) \in Seq(S)
      /\ Len(Tail(q)) = Len(q) - 1
      /\ \A i \in 1..Len(Tail(q)) : Tail(q)[i] = q[i + 1]
  BY HeadTailProperties
<1>2. /\ DOMAIN q = 1..Len(q)
      /\ DOMAIN Tail(q) = 1..Len(Tail(q))
      /\ Len(q) \in Nat
      /\ Len(q) > 0
      /\ Head(q) = q[1]
  BY <1>1, LenProperties, EmptySeq
<1>3. Head(q) \in InFront(q, p)
  <2>1. PICK j \in 1..Len(Tail(q)) : Tail(q)[j] = p
    BY <1>2 DEF Range
  <2>2. j + 1 \in 1..Len(q) /\ 1 \in 1..Len(q) /\ 1 < j + 1 /\ q[j + 1] = p
    BY <1>1, <1>2, <2>1
  <2> QED BY <1>2, <2>2 DEF InFront
<1>4. ASSUME NEW i \in 1..Len(Tail(q)), NEW j \in 1..Len(Tail(q)), i < j, Tail(q)[j] = p
      PROVE  Tail(q)[i] \in InFront(q, p)
  <2>1. i + 1 \in 1..Len(q) /\ j + 1 \in 1..Len(q) /\ i + 1 < j + 1
        /\ q[j + 1] = p /\ Tail(q)[i] = q[i + 1]
    BY <1>1, <1>2, <1>4
  <2> QED BY <1>2, <2>1 DEF InFront
<1>5. InFront(Tail(q), p) \subseteq InFront(q, p)
  BY <1>2, <1>4 DEF InFront
<1> QED BY <1>3, <1>5

(* What a step may do to the list and the CPU while p waits READY on it. *)
FairTo(p) ==
  p \in Range(queue)' => /\ Ahead(p)' \subseteq Ahead(p)
                         /\ current' \in {current, NULL} \cup Ahead(p)

(* The list is the same, or has a node more at its end, and nobody is      *)
(* dispatched.                                                             *)
LEMMA FairAppend ==
  ASSUME TypeOK, NEW p \in Range(queue),
         \/ queue' = queue
         \/ \E x \in UserPids : x \notin Range(queue) /\ queue' = Append(queue, x),
         current' \in {current, NULL}
  PROVE  FairTo(p)
<1>1. CASE queue' = queue
  BY <1>1 DEF FairTo, Ahead
<1>2. ASSUME NEW x \in UserPids, x \notin Range(queue), queue' = Append(queue, x)
      PROVE  FairTo(p)
  <2>1. InFront(queue', p) \subseteq InFront(queue, p)
    BY <1>2, AppendInFront DEF TypeOK
  <2> QED BY <2>1 DEF FairTo, Ahead, InFront
<1> QED BY <1>1, <1>2

(* The first node of the list, or of the list with one more at its end, is *)
(* dispatched.                                                             *)
LEMMA FairDequeue ==
  ASSUME TypeOK, NEW p \in Range(queue), NEW q \in Seq(UserPids), DequeueInto(q),
         \/ q = queue
         \/ \E x \in UserPids : x \notin Range(queue) /\ q = Append(queue, x)
  PROVE  FairTo(p)
<1>1. queue \in Seq(UserPids)
  BY DEF TypeOK
<1>2. InFront(q, p) \subseteq InFront(queue, p) /\ p \in Range(q)
  <2>1. CASE q = queue
    BY <2>1
  <2>2. ASSUME NEW x \in UserPids, x \notin Range(queue), q = Append(queue, x)
        PROVE  InFront(q, p) \subseteq InFront(queue, p) /\ p \in Range(q)
    <3>1. InFront(q, p) \subseteq InFront(queue, p)
      BY <1>1, <2>2, AppendInFront
    <3>2. Range(q) = Range(queue) \cup {x}
      BY <1>1, <2>2, AppendRange
    <3> QED BY <3>1, <3>2
  <2> QED BY <2>1, <2>2
<1>3. q # <<>>
  BY <1>2, EmptyQueue
<1>4. current' = Head(q) /\ queue' = Tail(q)
  BY <1>3 DEF DequeueInto
<1>5. ASSUME p \in Range(queue')
      PROVE  InFront(queue', p) \subseteq InFront(queue, p) /\ current' \in InFront(queue, p)
  BY <1>2, <1>3, <1>4, <1>5, TailInFront
<1> QED BY <1>5 DEF FairTo, Ahead, InFront

LEMMA NextFair ==
  ASSUME IInv, [Next]_vars, NEW p \in ReadyQueued
  PROVE  FairTo(p)
<1> USE DEF pcbVars, listVars, runVars
<1>1. TypeOK /\ p \in Range(queue) /\ current \notin Range(queue) /\ queue \in Seq(UserPids)
  BY DEF IInv, TypeOK, NoProcessLost, ReadyQueued
<1>2. CASE UNCHANGED <<queue, current>>
  BY <1>1, <1>2, FairAppend
<1>3. CASE NewProcess
  <2>1. /\ queue' = Append(queue, currentPID) /\ current' = current /\ currentPID \in Pids
    BY <1>3 DEF NewProcess
  <2>2. state[currentPID] = "FREE" /\ currentPID \in UserPids
    BY <2>1 DEF IInv, FreshPids, TypeOK, UserPids, Pids, Base
  <2>3. currentPID \notin Range(queue)
    BY <2>2 DEF IInv, NoProcessLost
  <2> QED BY <1>1, <2>1, <2>2, <2>3, FairAppend
<1>4. CASE TimerPreempt
  <2>1. current' = NULL
    BY <1>4 DEF TimerPreempt, LeaveCPU
  <2>2. queue' = queue \/ (current \in UserPids /\ queue' = Append(queue, current))
    BY <1>1, <1>4 DEF TimerPreempt, QueueProcess, TypeOK, UserPids
  <2> QED BY <1>1, <2>1, <2>2, FairAppend
<1>5. CASE TimerReap
  BY <1>1, <1>5, FairAppend DEF TimerReap, LeaveCPU
<1>6. CASE DispatchIdle
  <2>1. ReadyQueued \in SUBSET Pids
    BY <1>1, RangeOfSeq DEF ReadyQueued, UserPids
  <2>2. ReadyQueued = {}
    BY <1>6, <2>1, PidsFinite DEF DispatchIdle, IInv, ReadySizeExact
  <2> QED BY <2>2
<1>7. CASE DispatchFirst
  BY <1>1, <1>7, FairDequeue DEF DispatchFirst
<1>8. CASE LoopFree
  BY <1>1, <1>8, FairDequeue DEF LoopFree
<1>9. CASE LoopRequeue
  <2>1. current \in UserPids /\ DequeueInto(Append(queue, current))
    BY <1>9 DEF LoopRequeue, IInv, PhaseOK
  <2>2. Append(queue, current) \in Seq(UserPids)
    BY <1>1, <2>1, AppendProperties
  <2> QED BY <1>1, <2>1, <2>2, FairDequeue
<1>10. Next \/ UNCHANGED vars =>
          \/ UNCHANGED <<queue, current>> \/ NewProcess \/ TimerPreempt \/ TimerReap
          \/ DispatchIdle \/ DispatchFirst \/ LoopFree \/ LoopRequeue
  BY DEF Next, Tick, DispatchStep, vars, SysKill, SysBlock, SysReady, SysSetState, Yield,
         SetPriority, Wait, NewProcessFails, Exit, KillCurrentFGProcess, KeyboardWakes, TimerKeep, Dispatch,
         KillProcess, BlockProcess, ReadyProcess
<1> QED BY <1>2, <1>3, <1>4, <1>5, <1>6, <1>7, <1>8, <1>9, <1>10

(* Round robin: while a READY process waits on the list, nobody gets in    *)
(* front of it and nobody gets the CPU that was not in front of it.        *)
THEOREM RoundRobin == Spec => NoOvertaking
<1>1. IInv /\ [Next]_vars =>
        [\A p \in ReadyQueued :
           p \in Range(queue)' => /\ Ahead(p)' \subseteq Ahead(p)
                                  /\ current' \in {current, NULL} \cup Ahead(p)]_vars
  BY NextFair DEF FairTo
<1> QED BY <1>1, Invariance, PTL DEF Spec, NoOvertaking
-----------------------------------------------------------------------------
(* 3. Job control.  A parent sleeps on a foreground child until the child  *)
(* is reaped, and in a semaphore until it is posted; what the calls of     *)
(* others do must not undo that.                                           *)

(* A process that is still to be reaped, in the foreground of a process    *)
(* other than the idle one.                                                *)
InForeground(c) == state[c] # "FREE" /\ foreground[c] /\ ppid[c] # Base

(* A parent got its pid before its child. *)
ParentsOlder == \A c \in UserPids : state[c] # "FREE" => ppid[c] < currentPID

OneForegroundChild ==
  \A c, d \in UserPids : InForeground(c) /\ InForeground(d) /\ ppid[c] = ppid[d] => c = d

(* A foreground process ends on the CPU, and the tick that follows reaps   *)
(* it; the loop of processManager frees only background ones.              *)
ForegroundEndsRunning ==
  \A c \in UserPids : InForeground(c) /\ state[c] = "TERMINATED" => c = current /\ cpu = "trap"

CallerReady == cpu = "user" /\ current \in UserPids => state[current] = "READY"

Sleeps ==
  \A p \in UserPids :
    state[p] \in {"READY", "BLOCKED"} =>
      /\ state[p] = "BLOCKED" <=> (p \in asleep \/ ForegroundChild(p))
      /\ ~(p \in asleep /\ ForegroundChild(p))

Calm == OneForegroundChild /\ ForegroundEndsRunning /\ CallerReady /\ Sleeps

(* A pid that was not handed out yet does not sleep. *)
AsleepOld == \A p \in asleep : p \in UserPids /\ p < currentPID

JobInv == IInv /\ ParentsOlder /\ AsleepOld /\ (~tampered => Calm)
-----------------------------------------------------------------------------
LEMMA JobIsProcessStep == IInv /\ AsleepOld /\ JobNext => Next
<1>1. IInv /\ FallsAsleep => SysBlock
  BY DEF FallsAsleep, SysBlock, InUserCode, IInv, TypeOK
<1>2. AsleepOld /\ (\E pid \in asleep : Posted(pid)) => KeyboardWakes
  BY DEF AsleepOld, Posted, KeyboardWakes
<1> QED BY <1>1, <1>2 DEF JobNext, JobControlStep, KillsBackground, WaitsForChild, Tamper, Next

(* setState is the only thing a call does to a process that exists. *)
LEMMA JobSetState ==
  ASSUME IInv, NEW pid \in Pids, NEW s \in States, SetState(pid, s)
  PROVE  /\ \A p \in Pids : state'[p] = "FREE" <=> state[p] = "FREE"
         /\ \A p \in Pids : p # pid => state'[p] = state[p]
         /\ state'[pid] \in {state[pid], s}
         /\ state[pid] # "TERMINATED" /\ GetProcess(pid) => state'[pid] = s
<1>1. state \in [Pids -> PidStates]
  BY DEF IInv, TypeOK
<1>2. CASE UNCHANGED state /\ ~(GetProcess(pid) /\ state[pid] # "TERMINATED")
  BY <1>2
<1>3. CASE GetProcess(pid) /\ state[pid] # "TERMINATED" /\ state' = [state EXCEPT ![pid] = s]
  <2>1. state'[pid] = s /\ \A p \in Pids : p # pid => state'[p] = state[p]
    BY <1>1, <1>3
  <2>2. state[pid] # "FREE"
    BY <1>3 DEF GetProcess, IInv, NoProcessLost, IdleOK, UserPids
  <2>3. s # "FREE"
    BY DEF States
  <2> QED BY <1>1, <2>1, <2>2, <2>3
<1> QED BY <1>2, <1>3 DEF SetState

LEMMA ParentsOlderKept ==
  ASSUME ParentsOlder, UNCHANGED <<ppid, currentPID>>,
         \A p \in UserPids : state[p] = "FREE" => state'[p] = "FREE"
  PROVE  ParentsOlder'
BY DEF ParentsOlder

LEMMA ParentsOlderStep == IInv /\ ParentsOlder /\ Next => ParentsOlder'
<1> SUFFICES ASSUME IInv, ParentsOlder, Next PROVE ParentsOlder'
  OBVIOUS
<1> USE DEF pcbVars, listVars, runVars
<1>1. UserPids \subseteq Pids /\ state \in [Pids -> PidStates] /\ current \in Pids \cup {NULL}
      /\ ppid \in [Pids -> Pids] /\ currentPID \in Nat
  BY DEF UserPids, IInv, TypeOK
<1>2. ASSUME NEW pid \in Pids, NEW s \in States, SetState(pid, s), UNCHANGED <<ppid, currentPID>>
      PROVE  ParentsOlder'
  BY <1>1, <1>2, JobSetState, ParentsOlderKept
<1>3. CASE SysKill \/ SysBlock \/ SysReady \/ SysSetState
  BY <1>2, <1>3 DEF SysKill, SysBlock, SysReady, SysSetState, KillProcess, BlockProcess, ReadyProcess, States
<1>10. CASE KeyboardWakes
  BY <1>1, <1>2, <1>10 DEF KeyboardWakes, ReadyProcess, States
<1>4. CASE Wait \/ Exit \/ KillCurrentFGProcess
  BY <1>1, <1>2, <1>4 DEF Wait, Exit, KillCurrentFGProcess, Interruptible, KillProcess, InUserCode, States
<1>5. CASE Yield \/ SetPriority \/ TimerKeep \/ TimerPreempt \/ DispatchIdle \/ DispatchFirst \/ LoopRequeue
           \/ Dispatch
  <2>1. UNCHANGED <<state, ppid, currentPID>>
    BY <1>5 DEF Yield, SetPriority, TimerKeep, TimerPreempt, DispatchIdle, DispatchFirst, LoopRequeue,
              Dispatch, LeaveCPU
  <2> QED BY <2>1, ParentsOlderKept
<1>6. CASE NewProcessFails
  <2>1. UNCHANGED <<state, ppid>> /\ currentPID' = currentPID + 1
    BY <1>6 DEF NewProcessFails
  <2>2. \A c \in UserPids : ppid[c] \in Int
    BY <1>1 DEF Pids
  <2> QED BY <1>1, <2>1, <2>2 DEF ParentsOlder
<1>7. CASE NewProcess
  <2>1. /\ InUserCode /\ currentPID \in Pids /\ currentPID' = currentPID + 1
        /\ ppid' = [ppid EXCEPT ![currentPID] = current]
        /\ \A p \in Pids : p # currentPID /\ p # current => state'[p] = state[p]
    BY <1>1, <1>7 DEF NewProcess
  <2>2. current \in UserPids /\ state[current] # "FREE" /\ current < currentPID
    BY <1>1, <2>1 DEF IInv, NoProcessLost, FreshPids, InUserCode, UserPids, Pids
  <2>3. ASSUME NEW c \in UserPids, state'[c] # "FREE"
        PROVE  ppid'[c] < currentPID'
    <3>1. CASE c = currentPID
      BY <1>1, <2>1, <2>2, <3>1 DEF Pids, UserPids
    <3>2. CASE c # currentPID
      <4>1. ppid'[c] = ppid[c] /\ ppid[c] \in Int /\ state[c] # "FREE"
        BY <1>1, <2>1, <2>2, <2>3, <3>2 DEF Pids
      <4> QED BY <1>1, <2>1, <4>1 DEF ParentsOlder
    <3> QED BY <3>1, <3>2
  <2> QED BY <2>3 DEF ParentsOlder
<1>8. CASE TimerReap
  <2>1. ASSUME NEW p \in UserPids, state[p] = "FREE"
        PROVE  state'[p] = "FREE"
    BY <1>1, <1>8, <2>1 DEF TimerReap, ParentWaits
  <2> QED BY <1>8, <2>1, ParentsOlderKept DEF TimerReap, LeaveCPU
<1>9. CASE LoopFree
  <2>1. ASSUME NEW p \in UserPids, state[p] = "FREE"
        PROVE  state'[p] = "FREE"
    BY <1>1, <1>9, <2>1 DEF LoopFree
  <2> QED BY <1>9, <2>1, ParentsOlderKept DEF LoopFree
<1> QED BY <1>3, <1>4, <1>5, <1>6, <1>7, <1>8, <1>9, <1>10 DEF Next, Tick, DispatchStep

(* getPID only counts up, so what has a pid stays older than what has none. *)
LEMMA AsleepOldStep ==
  ASSUME IInv, AsleepOld, Next, asleep' \subseteq asleep \cup ({current} \cap UserPids)
  PROVE  AsleepOld'
<1> USE DEF pcbVars, listVars, runVars
<1>1. currentPID \in Nat /\ UserPids \subseteq Nat
  BY DEF IInv, TypeOK, UserPids, Pids
<1>2. currentPID' = currentPID \/ currentPID' = currentPID + 1
  BY DEF Next, Tick, DispatchStep, SysKill, SysBlock, SysReady, SysSetState, Yield,
         SetPriority, Wait, NewProcess, NewProcessFails, Exit, KillCurrentFGProcess, KeyboardWakes,
         TimerKeep, TimerPreempt, TimerReap, LeaveCPU, DispatchIdle, DispatchFirst, LoopFree,
         LoopRequeue, Dispatch, KillProcess, BlockProcess, ReadyProcess
<1>3. current \in UserPids => current < currentPID
  BY <1>1 DEF IInv, NoProcessLost, FreshPids, UserPids
<1>4. \A p \in UserPids : p < currentPID => p < currentPID'
  BY <1>1, <1>2
<1>5. \A p \in asleep' : p \in UserPids /\ p < currentPID
  BY <1>3 DEF AsleepOld
<1> QED BY <1>4, <1>5 DEF AsleepOld
-----------------------------------------------------------------------------
(* A step that changes nothing of a process, while none that has the       *)
(* foreground is ending.                                                   *)
LEMMA CalmScheduling ==
  ASSUME Calm, UNCHANGED <<state, ppid, foreground, asleep>>,
         cpu = "trap" => state[current] # "TERMINATED",
         CallerReady'
  PROVE  Calm'
<1>1. \A c \in UserPids : InForeground(c)' = InForeground(c)
  BY DEF InForeground
<1>2. \A p : ForegroundChild(p)' = ForegroundChild(p)
  BY DEF ForegroundChild
<1>3. OneForegroundChild' /\ Sleeps'
  BY <1>1, <1>2 DEF Calm, OneForegroundChild, Sleeps
<1>4. ForegroundEndsRunning'
  BY <1>1 DEF Calm, ForegroundEndsRunning
<1> QED BY <1>3, <1>4 DEF Calm

(* The caller ends, or kills a background process. *)
LEMMA CalmKill ==
  ASSUME IInv, Calm, InUserCode, NEW pid \in Pids, KillProcess(pid), UNCHANGED asleep,
         ~foreground[pid] \/ pid = current
  PROVE  Calm'
<1>1. /\ UNCHANGED <<ppid, foreground, current>> /\ cpu = "user" /\ current \in UserPids
      /\ cpu' = IF pid = current THEN "trap" ELSE "user"
      /\ SetState(pid, "TERMINATED") /\ UserPids \subseteq Pids
  BY DEF KillProcess, pcbVars, runVars, InUserCode, TrapIfRunning, UserPids, IInv, TypeOK
<1>2. /\ \A p \in Pids : state'[p] = "FREE" <=> state[p] = "FREE"
      /\ \A p \in Pids : p # pid => state'[p] = state[p]
      /\ state'[pid] \in {state[pid], "TERMINATED"}
  BY <1>1, JobSetState DEF States
<1>3. \A c \in UserPids : InForeground(c)' = InForeground(c)
  BY <1>1, <1>2 DEF InForeground
<1>4. \A p : ForegroundChild(p)' = ForegroundChild(p)
  BY <1>1, <1>2 DEF ForegroundChild
<1>5. OneForegroundChild'
  BY <1>1, <1>3 DEF Calm, OneForegroundChild
<1>6. CallerReady'
  BY <1>1, <1>2 DEF Calm, CallerReady
<1>7. Sleeps'
  BY <1>1, <1>2, <1>4 DEF Calm, Sleeps
<1>8. ForegroundEndsRunning'
  <2> SUFFICES ASSUME NEW c \in UserPids, InForeground(c)', state'[c] = "TERMINATED"
               PROVE  c = current /\ cpu' = "trap"
    BY <1>1 DEF ForegroundEndsRunning
  <2>1. InForeground(c) /\ foreground[c]
    BY <1>3 DEF InForeground
  <2>2. state[c] # "TERMINATED"
    BY <1>1, <2>1 DEF Calm, ForegroundEndsRunning
  <2>3. c = pid
    BY <1>1, <1>2, <2>2
  <2> QED BY <1>1, <2>1, <2>3
<1> QED BY <1>5, <1>6, <1>7, <1>8 DEF Calm

(* The caller brings a child of its own to the foreground and sleeps. *)
LEMMA CalmWait ==
  ASSUME IInv, Calm, WaitsForChild, UNCHANGED asleep
  PROVE  Calm'
<1>1. /\ InUserCode /\ UNCHANGED <<ppid, current>> /\ SetState(current, "BLOCKED")
      /\ TrapIfRunning(current)
  BY DEF WaitsForChild, Wait, runVars
<1>2. current \in UserPids /\ cpu = "user" /\ cpu' = "trap" /\ UserPids \subseteq Pids
      /\ foreground \in [Pids -> BOOLEAN]
  BY <1>1 DEF InUserCode, TrapIfRunning, UserPids, IInv, TypeOK
<1>3. PICK pid \in Pids : foreground' = [foreground EXCEPT ![pid] = TRUE]
  BY DEF WaitsForChild, Wait
<1>4. pid \in UserPids /\ ppid[pid] = current /\ state[pid] \in {"READY", "BLOCKED"} /\ ~foreground[pid]
  BY <1>2, <1>3 DEF WaitsForChild
<1>5. state[current] = "READY" /\ GetProcess(current)
  BY <1>2 DEF Calm, CallerReady, GetProcess
<1>6. /\ state'[current] = "BLOCKED"
      /\ \A p \in Pids : p # current => state'[p] = state[p]
      /\ \A p \in Pids : state'[p] = "FREE" <=> state[p] = "FREE"
  BY <1>1, <1>2, <1>5, JobSetState DEF States
<1>7. foreground'[pid] = TRUE /\ \A p \in Pids : p # pid => foreground'[p] = foreground[p]
  BY <1>2, <1>3
<1>8. ~ForegroundChild(current) /\ current \notin asleep
  BY <1>2, <1>5 DEF Calm, Sleeps
<1>9. \A c \in UserPids : InForeground(c) => ppid[c] # current
  BY <1>8 DEF ForegroundChild, InForeground
<1>10. \A c \in UserPids : InForeground(c)' => c = pid \/ InForeground(c)
  BY <1>1, <1>2, <1>6, <1>7 DEF InForeground
<1>11. OneForegroundChild'
  <2> SUFFICES ASSUME NEW c \in UserPids, NEW d \in UserPids, InForeground(c)', InForeground(d)',
                      ppid[c] = ppid[d]
               PROVE  c = d
    BY <1>1 DEF OneForegroundChild
  <2> QED BY <1>4, <1>9, <1>10 DEF Calm, OneForegroundChild
<1>12. ForegroundEndsRunning'
  <2>1. \A c \in UserPids : InForeground(c) => state[c] # "TERMINATED"
    BY <1>2 DEF Calm, ForegroundEndsRunning
  <2>2. \A c \in UserPids : InForeground(c)' => state'[c] # "TERMINATED"
    BY <1>2, <1>4, <1>6, <1>10, <2>1
  <2> QED BY <2>2 DEF ForegroundEndsRunning
<1>13. CallerReady'
  BY <1>2 DEF CallerReady
<1>14. ASSUME NEW p \in UserPids, p # current
       PROVE  ForegroundChild(p)' <=> ForegroundChild(p)
  BY <1>1, <1>2, <1>4, <1>6, <1>7, <1>14 DEF ForegroundChild
<1>15. ForegroundChild(current)'
  BY <1>1, <1>2, <1>4, <1>6, <1>7 DEF ForegroundChild
<1>16. Sleeps'
  BY <1>1, <1>2, <1>6, <1>8, <1>14, <1>15 DEF Calm, Sleeps
<1> QED BY <1>11, <1>12, <1>13, <1>16 DEF Calm

(* newProcess, which puts its caller to sleep on a foreground child. *)
LEMMA CalmNewProcess ==
  ASSUME IInv, ParentsOlder, AsleepOld, Calm, NewProcess, UNCHANGED asleep
  PROVE  Calm'
<1>0. PICK child \in Pids : child = currentPID
  BY DEF NewProcess
<1>1. PICK fg \in BOOLEAN :
        /\ state' = [state EXCEPT
                       ![child] = "READY",
                       ![current] = IF (foreground[current] /\ fg) /\ @ # "TERMINATED"
                                    THEN "BLOCKED" ELSE @]
        /\ ppid' = [ppid EXCEPT ![child] = current]
        /\ foreground' = [foreground EXCEPT ![child] = foreground[current] /\ fg]
        /\ cpu' = IF foreground[current] /\ fg THEN "trap" ELSE cpu
  BY <1>0 DEF NewProcess
<1>2. InUserCode /\ child \in Pids /\ UNCHANGED current
  BY DEF NewProcess, runVars
<1>3. cpu = "user" /\ current \in UserPids /\ UserPids \subseteq Pids /\ state[current] = "READY"
  BY <1>2 DEF InUserCode, IInv, TypeOK, Calm, CallerReady, UserPids
<1>4. /\ state \in [Pids -> PidStates] /\ ppid \in [Pids -> Pids] /\ currentPID \in Nat
      /\ foreground \in [Pids -> BOOLEAN]
  BY DEF IInv, TypeOK
<1>5. state[child] = "FREE" /\ child # current /\ child \in UserPids
  <2>1. state[child] = "FREE"
    BY <1>0, <1>4 DEF IInv, FreshPids
  <2>2. child # Base
    BY <1>0 DEF IInv, TypeOK, Base
  <2> QED BY <1>3, <2>1, <2>2 DEF UserPids
<1>6. /\ state'[child] = "READY"
      /\ \A p \in Pids \ {child, current} : state'[p] = state[p]
      /\ state'[current] = IF foreground[current] /\ fg THEN "BLOCKED" ELSE "READY"
  BY <1>1, <1>2, <1>3, <1>4, <1>5
<1>7. ppid'[child] = current /\ \A c \in Pids : c # child => ppid'[c] = ppid[c]
  BY <1>1, <1>2, <1>4
<1>8. foreground'[child] = (foreground[current] /\ fg)
      /\ \A c \in Pids : c # child => foreground'[c] = foreground[c]
  BY <1>1, <1>2, <1>4
<1>9. \A c \in UserPids : c # child => (InForeground(c)' <=> InForeground(c))
  BY <1>3, <1>4, <1>5, <1>6, <1>7, <1>8 DEF InForeground
<1>10. InForeground(child)' <=> foreground[current] /\ fg
  BY <1>3, <1>4, <1>6, <1>7, <1>8 DEF InForeground, UserPids
<1>11. \A c \in UserPids : InForeground(c) => ppid[c] # current
  BY <1>3 DEF Calm, Sleeps, ForegroundChild, InForeground
<1>12. \A c \in UserPids : InForeground(c) => ppid[c] # child
  BY <1>0, <1>3, <1>4 DEF ParentsOlder, InForeground, Pids
<1>13. OneForegroundChild'
  <2> SUFFICES ASSUME NEW c \in UserPids, NEW d \in UserPids, InForeground(c)', InForeground(d)',
                      ppid'[c] = ppid'[d]
               PROVE  c = d
    BY DEF OneForegroundChild
  <2> QED BY <1>3, <1>7, <1>9, <1>11 DEF Calm, OneForegroundChild
<1>14. ForegroundEndsRunning'
  <2>1. \A c \in UserPids : InForeground(c) => state[c] # "TERMINATED"
    BY <1>3 DEF Calm, ForegroundEndsRunning
  <2>2. \A c \in UserPids : InForeground(c)' => state'[c] # "TERMINATED"
    BY <1>3, <1>6, <1>9, <2>1
  <2> QED BY <2>2 DEF ForegroundEndsRunning
<1>15. CallerReady'
  BY <1>1, <1>2, <1>3, <1>6 DEF CallerReady
<1>16. \A p \in UserPids : ForegroundChild(p) <=> \E c \in UserPids : InForeground(c) /\ ppid[c] = p
  BY DEF ForegroundChild, InForeground, UserPids
<1>17. \A p \in UserPids : ForegroundChild(p)' <=> \E c \in UserPids : InForeground(c)' /\ ppid'[c] = p
  BY DEF ForegroundChild, InForeground, UserPids
<1>18. ASSUME NEW p \in UserPids, p # current, p # child
       PROVE  ForegroundChild(p)' <=> ForegroundChild(p)
  <2>1. ~InForeground(child)
    BY <1>5 DEF InForeground
  <2> QED BY <1>3, <1>5, <1>7, <1>9, <1>16, <1>17, <1>18, <2>1
<1>19. ~ForegroundChild(child)'
  BY <1>3, <1>5, <1>7, <1>9, <1>12, <1>17
<1>20. ForegroundChild(current)' <=> foreground[current] /\ fg
  BY <1>2, <1>3, <1>5, <1>7, <1>9, <1>10, <1>11, <1>17
<1>22. current \notin asleep
  BY <1>3 DEF Calm, Sleeps
<1>23. child \notin asleep
  BY <1>0, <1>4 DEF AsleepOld
<1>21. Sleeps'
  <2> SUFFICES ASSUME NEW p \in UserPids, state'[p] \in {"READY", "BLOCKED"}
               PROVE  /\ state'[p] = "BLOCKED" <=> (p \in asleep \/ ForegroundChild(p)')
                      /\ ~(p \in asleep /\ ForegroundChild(p)')
    BY DEF Sleeps
  <2>1. CASE p = current
    BY <1>2, <1>6, <1>20, <1>22, <2>1
  <2>2. CASE p = child
    BY <1>6, <1>19, <1>23, <2>2
  <2>3. CASE p # current /\ p # child
    BY <1>3, <1>6, <1>18, <2>3 DEF Calm, Sleeps
  <2> QED BY <2>1, <2>2, <2>3
<1> QED BY <1>13, <1>14, <1>15, <1>21 DEF Calm

(* The tick that reaps a foreground process readies the parent that sleeps *)
(* on it, and no other tick readies anybody.                               *)
LEMMA CalmReap ==
  ASSUME IInv, Calm, TimerReap, UNCHANGED asleep
  PROVE  Calm'
<1>1. /\ current \in UserPids /\ current \in Pids /\ state[current] = "TERMINATED" /\ cpu' = "switch"
      /\ state \in [Pids -> PidStates] /\ ppid \in [Pids -> Pids] /\ UserPids \subseteq Pids
      /\ UNCHANGED <<ppid, foreground>>
  BY DEF IInv, TypeOK, UserPids, TimerReap, LeaveCPU, pcbVars
<1>2. state' = [p \in Pids |->
                 CASE p = current -> "FREE"
                   [] p = ppid[current] /\ ParentWaits(current) -> "READY"
                   [] OTHER -> state[p]]
  BY DEF TimerReap
<1>3. state'[current] = "FREE"
  <2>1. ~(current = ppid[current] /\ ParentWaits(current))
    BY <1>1 DEF ParentWaits
  <2> QED BY <1>1, <1>2, <2>1
<1>4. ASSUME NEW p \in Pids, p # current
      PROVE  state'[p] = IF p = ppid[current] /\ ParentWaits(current) THEN "READY" ELSE state[p]
  BY <1>2, <1>4
<1>5. ASSUME NEW p \in Pids, p # current, state'[p] # state[p]
      PROVE  p = ppid[current] /\ foreground[current] /\ state[p] = "BLOCKED" /\ state'[p] = "READY"
  BY <1>4, <1>5 DEF ParentWaits
<1>6. \A c \in UserPids : InForeground(c)' <=> InForeground(c) /\ c # current
  <2> TAKE c \in UserPids
  <2>1. CASE c = current
    BY <1>3, <2>1 DEF InForeground
  <2>2. CASE c # current
    BY <1>1, <1>5, <2>2 DEF InForeground
  <2> QED BY <2>1, <2>2
<1>7. OneForegroundChild'
  BY <1>1, <1>6 DEF Calm, OneForegroundChild
<1>8. ForegroundEndsRunning'
  <2>1. \A c \in UserPids : InForeground(c)' => state'[c] # "TERMINATED"
    BY <1>1, <1>5, <1>6 DEF Calm, ForegroundEndsRunning
  <2> QED BY <2>1 DEF ForegroundEndsRunning
<1>9. CallerReady'
  BY <1>1 DEF CallerReady
<1>10. \A p \in UserPids : ForegroundChild(p) <=> \E c \in UserPids : InForeground(c) /\ ppid[c] = p
  BY DEF ForegroundChild, InForeground, UserPids
<1>11. \A p \in UserPids : ForegroundChild(p)' <=> \E c \in UserPids : InForeground(c)' /\ ppid[c] = p
  BY <1>1 DEF ForegroundChild, InForeground, UserPids
<1>12. Sleeps'
  <2> SUFFICES ASSUME NEW p \in UserPids, state'[p] \in {"READY", "BLOCKED"}
               PROVE  /\ state'[p] = "BLOCKED" <=> (p \in asleep \/ ForegroundChild(p)')
                      /\ ~(p \in asleep /\ ForegroundChild(p)')
    BY DEF Sleeps
  <2>1. p # current /\ p \in Pids
    BY <1>1, <1>3
  <2>2. CASE p = ppid[current] /\ foreground[current]
    <3>1. InForeground(current)
      BY <1>1, <2>2 DEF InForeground, UserPids
    <3>2. ~ForegroundChild(p)'
      BY <1>1, <1>6, <1>11, <2>2, <3>1 DEF Calm, OneForegroundChild
    <3>3. state'[p] = "READY"
      <4>1. CASE state[p] = "BLOCKED"
        <5>1. GetProcess(p)
          BY <1>1, <2>1, <4>1 DEF IInv, NoProcessLost, GetProcess
        <5>2. ParentWaits(current)
          BY <2>2, <4>1, <5>1 DEF ParentWaits
        <5> QED BY <1>4, <2>1, <2>2, <5>2
      <4>2. CASE state[p] # "BLOCKED"
        BY <1>5, <2>1, <4>2
      <4> QED BY <4>1, <4>2
    <3>4. state[p] \in {"READY", "BLOCKED"}
      BY <1>5, <2>1
    <3>5. ForegroundChild(p)
      BY <1>1, <1>10, <2>2, <3>1
    <3>6. p \notin asleep
      BY <3>4, <3>5 DEF Calm, Sleeps
    <3> QED BY <3>2, <3>3, <3>6
  <2>3. CASE ~(p = ppid[current] /\ foreground[current])
    <3>1. state'[p] = state[p]
      BY <1>5, <2>1, <2>3
    <3>2. ForegroundChild(p)' <=> ForegroundChild(p)
      BY <1>1, <1>6, <1>10, <1>11, <2>3 DEF InForeground
    <3> QED BY <3>1, <3>2 DEF Calm, Sleeps
  <2> QED BY <2>2, <2>3
<1> QED BY <1>7, <1>8, <1>9, <1>12 DEF Calm

(* What the loop of processManager frees nobody sleeps on. *)
LEMMA CalmFree ==
  ASSUME IInv, Calm, LoopFree, UNCHANGED asleep
  PROVE  Calm'
<1>1. /\ current \in UserPids /\ state[current] = "TERMINATED" /\ cpu = "dispatch" /\ cpu' = "dispatch"
      /\ state \in [Pids -> PidStates] /\ UserPids \subseteq Pids
      /\ UNCHANGED <<ppid, foreground>> /\ state' = [state EXCEPT ![current] = "FREE"]
  BY DEF IInv, TypeOK, UserPids, LoopFree, pcbVars, PhaseOK
<1>2. ~InForeground(current)
  BY <1>1 DEF Calm, ForegroundEndsRunning
<1>3. state'[current] = "FREE" /\ \A p \in Pids : p # current => state'[p] = state[p]
  BY <1>1
<1>4. \A c \in UserPids : InForeground(c)' <=> InForeground(c)
  BY <1>1, <1>2, <1>3 DEF InForeground
<1>5. \A p \in UserPids : ForegroundChild(p) <=> \E c \in UserPids : InForeground(c) /\ ppid[c] = p
  BY DEF ForegroundChild, InForeground, UserPids
<1>6. \A p \in UserPids : ForegroundChild(p)' <=> \E c \in UserPids : InForeground(c)' /\ ppid[c] = p
  BY <1>1 DEF ForegroundChild, InForeground, UserPids
<1>7. \A p \in UserPids : ForegroundChild(p)' <=> ForegroundChild(p)
  BY <1>4, <1>5, <1>6
<1>8. Sleeps'
  BY <1>1, <1>3, <1>7 DEF Calm, Sleeps
<1>9. OneForegroundChild'
  BY <1>1, <1>4 DEF Calm, OneForegroundChild
<1>10. ForegroundEndsRunning'
  <2>1. \A c \in UserPids : InForeground(c)' => state'[c] # "TERMINATED"
    BY <1>1, <1>3, <1>4 DEF Calm, ForegroundEndsRunning
  <2> QED BY <2>1 DEF ForegroundEndsRunning
<1>11. CallerReady'
  BY <1>1 DEF CallerReady
<1> QED BY <1>8, <1>9, <1>10, <1>11 DEF Calm

(* semWait puts its caller to sleep, which has no foreground child then. *)
LEMMA CalmFallsAsleep ==
  ASSUME IInv, Calm, FallsAsleep
  PROVE  Calm'
<1>1. /\ UNCHANGED <<ppid, foreground, current>> /\ cpu = "user" /\ current \in UserPids
      /\ cpu' = "trap" /\ SetState(current, "BLOCKED") /\ UserPids \subseteq Pids
      /\ asleep' = asleep \cup {current}
  BY DEF FallsAsleep, BlockProcess, pcbVars, runVars, InUserCode, TrapIfRunning, UserPids, IInv, TypeOK
<1>2. state[current] = "READY" /\ GetProcess(current)
  BY <1>1 DEF Calm, CallerReady, GetProcess
<1>3. /\ state'[current] = "BLOCKED"
      /\ \A p \in Pids : p # current => state'[p] = state[p]
      /\ \A p \in Pids : state'[p] = "FREE" <=> state[p] = "FREE"
  BY <1>1, <1>2, JobSetState DEF States
<1>4. ~ForegroundChild(current) /\ current \notin asleep
  BY <1>1, <1>2 DEF Calm, Sleeps
<1>5. \A c \in UserPids : InForeground(c)' = InForeground(c)
  BY <1>1, <1>3 DEF InForeground
<1>6. \A p : ForegroundChild(p)' = ForegroundChild(p)
  BY <1>1, <1>3 DEF ForegroundChild
<1>7. OneForegroundChild'
  BY <1>1, <1>5 DEF Calm, OneForegroundChild
<1>8. CallerReady'
  BY <1>1 DEF CallerReady
<1>9. Sleeps'
  BY <1>1, <1>3, <1>4, <1>6 DEF Calm, Sleeps
<1>10. ForegroundEndsRunning'
  <2>1. \A c \in UserPids : InForeground(c) => state[c] # "TERMINATED"
    BY <1>1 DEF Calm, ForegroundEndsRunning
  <2>2. \A c \in UserPids : InForeground(c)' => state'[c] # "TERMINATED"
    BY <1>1, <1>3, <1>5, <2>1
  <2> QED BY <2>2 DEF ForegroundEndsRunning
<1> QED BY <1>7, <1>8, <1>9, <1>10 DEF Calm

(* semPost readies a process that sleeps, which has no foreground child    *)
(* then.                                                                   *)
LEMMA CalmPosted ==
  ASSUME IInv, AsleepOld, Calm, NEW pid \in asleep, Posted(pid)
  PROVE  Calm'
<1>1. /\ UNCHANGED <<ppid, foreground, current, cpu>> /\ cpu = "user" /\ pid \in UserPids
      /\ SetState(pid, "READY") /\ UserPids \subseteq Pids
      /\ asleep' = asleep \ {pid}
  BY DEF Posted, ReadyProcess, pcbVars, runVars, UserPids, AsleepOld
<1>2. /\ \A p \in Pids : state'[p] = "FREE" <=> state[p] = "FREE"
      /\ \A p \in Pids : p # pid => state'[p] = state[p]
      /\ state'[pid] \in {state[pid], "READY"}
      /\ state[pid] # "TERMINATED" /\ GetProcess(pid) => state'[pid] = "READY"
  BY <1>1, JobSetState DEF States
<1>3. state[pid] \in {"READY", "BLOCKED"} => GetProcess(pid) /\ ~ForegroundChild(pid)
  BY <1>1 DEF Calm, Sleeps, IInv, NoProcessLost, GetProcess
<1>4. state'[pid] \in {"READY", "BLOCKED"} => state'[pid] = "READY" /\ ~ForegroundChild(pid)
  <2>1. CASE state[pid] \in {"READY", "BLOCKED"}
    BY <1>2, <1>3, <2>1
  <2>2. CASE state[pid] \notin {"READY", "BLOCKED"}
    <3>1. state[pid] \in {"TERMINATED", "FREE"}
      BY <1>1, <2>2 DEF IInv, TypeOK, PidStates, States
    <3>2. state'[pid] = state[pid]
      BY <1>1, <1>2, <3>1 DEF SetState
    <3> QED BY <2>2, <3>2
  <2> QED BY <2>1, <2>2
<1>5. \A c \in UserPids : InForeground(c)' = InForeground(c)
  BY <1>1, <1>2 DEF InForeground
<1>6. \A p : ForegroundChild(p)' = ForegroundChild(p)
  BY <1>1, <1>2 DEF ForegroundChild
<1>7. OneForegroundChild'
  BY <1>1, <1>5 DEF Calm, OneForegroundChild
<1>8. CallerReady'
  BY <1>1, <1>2 DEF Calm, CallerReady
<1>9. Sleeps'
  BY <1>1, <1>2, <1>4, <1>6 DEF Calm, Sleeps
<1>10. ForegroundEndsRunning'
  <2>1. \A c \in UserPids : InForeground(c) => state[c] # "TERMINATED"
    BY <1>1 DEF Calm, ForegroundEndsRunning
  <2>2. \A c \in UserPids : InForeground(c)' => state'[c] # "TERMINATED"
    BY <1>1, <1>2, <1>5, <2>1
  <2> QED BY <2>2 DEF ForegroundEndsRunning
<1> QED BY <1>7, <1>8, <1>9, <1>10 DEF Calm

LEMMA CalmStep == IInv /\ ParentsOlder /\ AsleepOld /\ Calm /\ JobControlStep /\ UNCHANGED asleep => Calm'
<1> SUFFICES ASSUME IInv, ParentsOlder, AsleepOld, Calm, JobControlStep, UNCHANGED asleep PROVE Calm'
  OBVIOUS
<1> USE DEF pcbVars, listVars, runVars
<1>1. CallerReady
  BY DEF Calm
<1>2. NULL \notin UserPids /\ Base \notin UserPids /\ UserPids \subseteq Pids
  BY PMAssumption DEF UserPids, Pids
<1>3. CASE KillsBackground
  <2>1. PICK pid \in UserPids : ~foreground[pid] /\ KillProcess(pid)
    BY <1>3 DEF KillsBackground
  <2>2. InUserCode
    BY <1>3 DEF KillsBackground, SysKill
  <2> QED BY <1>2, <2>1, <2>2, CalmKill
<1>4. CASE Exit \/ KillCurrentFGProcess
  <2>1. InUserCode /\ KillProcess(current)
    BY <1>4 DEF Exit, KillCurrentFGProcess, Interruptible, InUserCode, IInv, IdleOK
  <2>2. current \in Pids
    BY <2>1 DEF InUserCode, IInv, TypeOK
  <2> QED BY <2>1, <2>2, CalmKill
<1>5. CASE WaitsForChild
  BY <1>5, CalmWait
<1>6. CASE Yield \/ SetPriority \/ NewProcessFails
  <2>1. /\ UNCHANGED <<state, ppid, foreground, current>> /\ cpu = "user" /\ cpu' \in {"user", "trap"}
    BY <1>6 DEF Yield, SetPriority, NewProcessFails, InUserCode
  <2>2. CallerReady'
    BY <1>1, <2>1 DEF CallerReady
  <2> QED BY <2>1, <2>2, CalmScheduling
<1>7. CASE NewProcess
  BY <1>7, CalmNewProcess
<1>8. CASE TimerKeep
  <2>1. /\ UNCHANGED <<state, ppid, foreground, current>> /\ state[current] = "READY"
    BY <1>8 DEF TimerKeep, KeepsRunning
  <2>2. CallerReady'
    BY <2>1 DEF CallerReady
  <2> QED BY <2>1, <2>2, CalmScheduling
<1>9. CASE TimerPreempt
  <2>1. UNCHANGED <<state, ppid, foreground>> /\ cpu' = "switch"
        /\ (current \in UserPids => state[current] # "TERMINATED")
    BY <1>2, <1>9 DEF TimerPreempt, LeaveCPU
  <2>2. cpu = "trap" => current \in UserPids
    BY DEF IInv, PhaseOK
  <2>3. CallerReady'
    BY <2>1 DEF CallerReady
  <2> QED BY <2>1, <2>2, <2>3, CalmScheduling
<1>10. CASE TimerReap
  BY <1>10, CalmReap
<1>11. CASE LoopFree
  BY <1>11, CalmFree
<1>12. CASE DispatchIdle \/ DispatchFirst \/ LoopRequeue \/ Dispatch
  <2>1. /\ UNCHANGED <<state, ppid, foreground>> /\ cpu \in {"switch", "dispatch"}
        /\ cpu' = "user" => current' = Base \/ (current' = current /\ state[current] = "READY")
    BY <1>12 DEF DispatchIdle, DispatchFirst, LoopRequeue, Dispatch
  <2>2. CallerReady'
    BY <1>2, <2>1 DEF CallerReady
  <2> QED BY <2>1, <2>2, CalmScheduling
<1> QED BY <1>3, <1>4, <1>5, <1>6, <1>7, <1>8, <1>9, <1>10, <1>11, <1>12
    DEF JobControlStep, Tick, DispatchStep

LEMMA JobInvInit == JobInit => JobInv
<1> SUFFICES ASSUME JobInit PROVE JobInv
  OBVIOUS
<1>1. Init
  BY DEF JobInit
<1>2. \A c \in UserPids : ppid[c] = 0 /\ state[c] \in {"READY", "FREE"}
  BY <1>1 DEF Init, UserPids
<1>3. currentPID = 2 /\ current = NULL /\ NULL \notin UserPids
  BY <1>1, PMAssumption DEF Init, UserPids, Pids
<1>4. \A c \in UserPids : ~InForeground(c)
  BY <1>2 DEF InForeground, Base
<1>5. \A p \in UserPids : ~ForegroundChild(p)
  BY <1>2 DEF ForegroundChild, UserPids, Base
<1>6. ParentsOlder
  BY <1>2, <1>3 DEF ParentsOlder
<1>8. asleep = {}
  BY DEF JobInit
<1>7. Calm
  BY <1>2, <1>3, <1>4, <1>5, <1>8 DEF Calm, OneForegroundChild, ForegroundEndsRunning, CallerReady, Sleeps
<1> QED BY <1>1, <1>6, <1>7, <1>8, InitInv DEF JobInv, AsleepOld

LEMMA JobInvNext == JobInv /\ [JobNext]_jobVars => JobInv'
<1> SUFFICES ASSUME JobInv, [JobNext]_jobVars PROVE JobInv'
  OBVIOUS
<1>1. CASE UNCHANGED jobVars
  <2>1. UNCHANGED vars /\ tampered' = tampered /\ asleep' = asleep
    BY <1>1 DEF jobVars
  <2>2. IInv'
    BY <2>1, NextInv DEF JobInv
  <2>3. UNCHANGED <<state, ppid, foreground, current, cpu, currentPID>>
    BY <2>1 DEF vars, pcbVars, runVars
  <2>4. ParentsOlder' = ParentsOlder /\ Calm' = Calm /\ AsleepOld' = AsleepOld
    BY <2>1, <2>3 DEF ParentsOlder, AsleepOld, Calm, OneForegroundChild, ForegroundEndsRunning, CallerReady, Sleeps,
              InForeground, ForegroundChild
  <2> QED BY <2>1, <2>2, <2>4 DEF JobInv
<1>2. CASE JobNext
  <2>1. IInv' /\ ParentsOlder'
    BY <1>2, JobIsProcessStep, NextInv, ParentsOlderStep DEF JobInv
  <2>2. ~tampered' => Calm'
    BY <1>2, CalmStep, CalmFallsAsleep, CalmPosted DEF JobNext, JobInv
  <2>3. FallsAsleep => current \in UserPids
    BY DEF FallsAsleep, InUserCode, JobInv, IInv, TypeOK, UserPids
  <2>4. asleep' \subseteq asleep \cup ({current} \cap UserPids)
    BY <1>2, <2>3 DEF JobNext, FallsAsleep, Posted
  <2>5. AsleepOld'
    BY <1>2, <2>4, JobIsProcessStep, AsleepOldStep DEF JobInv
  <2> QED BY <2>1, <2>2, <2>5 DEF JobInv
<1> QED BY <1>1, <1>2

(* Until a process tampers with another one, a living process is BLOCKED   *)
(* exactly while it sleeps in a semaphore or on a foreground child that is *)
(* still to be reaped, and never on both: neither the reaping of a child   *)
(* (processManager) nor a post (semPost) wakes it from the other one.      *)
THEOREM OneReasonToSleepHolds == JobSpec => []OneReasonToSleep
<1>1. JobInv => OneReasonToSleep
  BY DEF JobInv, Calm, Sleeps, OneReasonToSleep
<1> QED BY <1>1, JobInvInit, JobInvNext, PTL DEF JobSpec
-----------------------------------------------------------------------------
(* 4. Semaphores.  SemInv holds of any program.                            *)

SemInv == IInv /\ SemTypeOK /\ NoTokenWhileWaiting
-----------------------------------------------------------------------------
(* semOpen touches no process and creates a semaphore nobody waits for. *)
LEMMA SemOpenStep ==
  ASSUME SemInv, NEW s \in Sems, SemOpen(s)
  PROVE  SemTypeOK' /\ NoTokenWhileWaiting' /\ UNCHANGED vars
<1> USE DEF semData, InUserCode
<1>1. SemTypeOK /\ NoTokenWhileWaiting /\ UNCHANGED <<vars, waiting>>
  BY DEF SemInv, SemOpen
<1>2. /\ current \in Pids
      /\ opened' = [opened EXCEPT ![current] = @ \cup {s}]
  BY DEF SemInv, IInv, TypeOK, SemOpen
<1>3. opened' \in [Pids -> SUBSET Sems]
  BY <1>1, <1>2 DEF SemTypeOK
<1>4. CASE s \in open
  <2>1. /\ listening[s] < MAX_BLOCKED_PROCESSES
        /\ listening' = [listening EXCEPT ![s] = @ + 1]
        /\ UNCHANGED <<open, value, blocked>>
    BY <1>4 DEF SemOpen, GetSemaphore
  <2>2. listening[s] + 1 \in 0..MAX_BLOCKED_PROCESSES
    BY <1>1, <2>1, SemAssumption DEF SemTypeOK
  <2> QED
    BY <1>1, <1>3, <2>1, <2>2 DEF SemTypeOK, NoTokenWhileWaiting
<1>5. CASE s \notin open
  <2>1. PICK initialValue \in InitialValues : value' = [value EXCEPT ![s] = initialValue]
    BY <1>5 DEF SemOpen, GetSemaphore, CreateSemaphore
  <2>2. /\ open' = open \cup {s}
        /\ listening' = [listening EXCEPT ![s] = 1]
        /\ blocked' = [blocked EXCEPT ![s] = <<>>]
    BY <1>5 DEF SemOpen, GetSemaphore, CreateSemaphore
  <2>3. initialValue \in 0..MaxValue /\ 1 \in 0..MAX_BLOCKED_PROCESSES
    BY SemAssumption
  <2>4. <<>> \in Seq(UserPids)
    BY EmptySeq
  <2>5. SemTypeOK'
    BY <1>1, <1>3, <2>1, <2>2, <2>3, <2>4 DEF SemTypeOK
  <2>6. NoTokenWhileWaiting'
    BY <1>1, <2>1, <2>2 DEF SemTypeOK, NoTokenWhileWaiting
  <2> QED
    BY <1>1, <2>5, <2>6
<1> QED
  BY <1>4, <1>5

(* semWait either takes a token or is a blockProcess of the caller. *)
LEMMA SemWaitStep ==
  ASSUME SemInv, NEW s \in Sems, SemWait(s)
  PROVE  SemTypeOK' /\ NoTokenWhileWaiting' /\ (SysBlock \/ UNCHANGED vars)
<1>1. /\ SemTypeOK /\ NoTokenWhileWaiting /\ InUserCode
      /\ UNCHANGED <<open, listening, opened>>
  BY DEF SemInv, SemWait
<1>2. current \in UserPids /\ current \in Pids
  BY <1>1 DEF SemInv, IInv, TypeOK, InUserCode, UserPids
<1>3. CASE value[s] > 0
  <2>1. value' = [value EXCEPT ![s] = @ - 1] /\ UNCHANGED <<vars, blocked, waiting>>
    BY <1>3 DEF SemWait, Available
  <2>2. value[s] - 1 \in 0..MaxValue
    BY <1>1, <1>3, SemAssumption DEF SemTypeOK
  <2> QED
    BY <1>1, <1>3, <2>1, <2>2 DEF SemTypeOK, NoTokenWhileWaiting
<1>4. CASE ~(value[s] > 0)
  <2>1. /\ blocked' = [blocked EXCEPT ![s] = Append(@, current)]
        /\ waiting' = [waiting EXCEPT ![current] = s]
        /\ BlockProcess(current)
        /\ UNCHANGED value
    BY <1>4 DEF SemWait, Available
  <2>2. Append(blocked[s], current) \in Seq(UserPids)
    BY <1>1, <1>2, AppendProperties DEF SemTypeOK
  <2>3. SemTypeOK'
    BY <1>1, <1>2, <2>1, <2>2 DEF SemTypeOK
  <2>4. NoTokenWhileWaiting'
    BY <1>1, <1>4, <2>1 DEF SemTypeOK, NoTokenWhileWaiting
  <2>5. SysBlock
    BY <1>1, <1>2, <2>1 DEF SysBlock
  <2> QED
    BY <2>3, <2>4, <2>5
<1> QED
  BY <1>3, <1>4

(* semPost either counts the token or is a readyProcess of a waiter. *)
LEMMA SemPostStep ==
  ASSUME SemInv, NEW s \in Sems, SemPost(s)
  PROVE  SemTypeOK' /\ NoTokenWhileWaiting' /\ (KeyboardWakes \/ UNCHANGED vars)
<1>1. /\ SemTypeOK /\ NoTokenWhileWaiting /\ cpu = "user"
      /\ value[s] < MaxValue
      /\ UNCHANGED <<open, listening, waiting, opened>>
  BY DEF SemInv, SemPost
<1>2. CASE blocked[s] # <<>>
  <2>1. /\ blocked' = [blocked EXCEPT ![s] = Tail(@)]
        /\ ReadyProcess(Head(blocked[s]))
        /\ UNCHANGED value
    BY <1>2 DEF SemPost, PostEffect, UnblockSemProcess
  <2>2. blocked[s] \in Seq(UserPids)
    BY <1>1 DEF SemTypeOK
  <2>3. Tail(blocked[s]) \in Seq(UserPids) /\ Head(blocked[s]) \in UserPids
    BY <1>2, <2>2, HeadTailProperties
  <2>4. SemTypeOK'
    BY <1>1, <2>1, <2>3 DEF SemTypeOK
  <2>5. value[s] = 0
    BY <1>1, <1>2 DEF SemTypeOK, NoTokenWhileWaiting
  <2>6. NoTokenWhileWaiting'
    BY <1>1, <2>1, <2>5 DEF SemTypeOK, NoTokenWhileWaiting
  <2>7. KeyboardWakes
    BY <1>1, <2>1, <2>3 DEF KeyboardWakes
  <2> QED
    BY <2>4, <2>6, <2>7
<1>3. CASE blocked[s] = <<>>
  <2>1. value' = [value EXCEPT ![s] = @ + 1] /\ UNCHANGED <<vars, blocked>>
    BY <1>3 DEF SemPost, PostEffect, UnblockSemProcess
  <2>2. value[s] + 1 \in 0..MaxValue
    BY <1>1, SemAssumption DEF SemTypeOK
  <2> QED
    BY <1>1, <1>3, <2>1, <2>2 DEF SemTypeOK, NoTokenWhileWaiting
<1> QED
  BY <1>2, <1>3

(* semClose touches no process. *)
LEMMA SemCloseStep ==
  ASSUME SemInv, NEW s \in Sems, SemClose(s)
  PROVE  SemTypeOK' /\ NoTokenWhileWaiting' /\ UNCHANGED vars
<1> DEFINE left == IF listening[s] > 0 THEN listening[s] - 1 ELSE 0
<1>1. /\ SemTypeOK /\ NoTokenWhileWaiting /\ UNCHANGED <<vars, waiting>>
      /\ current \in Pids
      /\ opened' = [opened EXCEPT ![current] = @ \ {s}]
      /\ listening' = [listening EXCEPT ![s] = left]
  BY DEF SemInv, SemClose, IInv, TypeOK, InUserCode
<1>2. left \in 0..MAX_BLOCKED_PROCESSES
  BY <1>1, SemAssumption DEF SemTypeOK
<1>3. /\ listening' \in [Sems -> 0..MAX_BLOCKED_PROCESSES]
      /\ opened' \in [Pids -> SUBSET Sems]
  BY <1>1, <1>2 DEF SemTypeOK
<1>4. CASE left = 0
  <2>1. /\ open' = open \ {s}
        /\ value' = [value EXCEPT ![s] = 0]
        /\ blocked' = [blocked EXCEPT ![s] = <<>>]
    BY <1>4 DEF SemClose, RemoveSemaphore
  <2>2. <<>> \in Seq(UserPids) /\ 0 \in 0..MaxValue
    BY EmptySeq, SemAssumption
  <2> QED
    BY <1>1, <1>3, <2>1, <2>2 DEF SemTypeOK, NoTokenWhileWaiting
<1>5. CASE left # 0
  <2>1. UNCHANGED <<open, value, blocked>>
    BY <1>5 DEF SemClose
  <2> QED
    BY <1>1, <1>3, <2>1 DEF SemTypeOK, NoTokenWhileWaiting
<1> QED
  BY <1>4, <1>5

(* Every step keeps the semaphores in order and is a step of the process   *)
(* manager, or does not touch it.                                          *)
LEMMA SemNextStep ==
  SemInv /\ [SemNext]_allVars => SemInv' /\ [Next]_vars
<1> SUFFICES ASSUME SemInv, [SemNext]_allVars
             PROVE  SemTypeOK' /\ NoTokenWhileWaiting' /\ [Next]_vars
  BY NextInv DEF SemInv
<1> USE DEF semVars, semData
<1>1. SemTypeOK /\ NoTokenWhileWaiting
  BY DEF SemInv
<1>2. CASE \E s \in Sems : SemOpen(s) \/ SemWait(s) \/ SemPost(s) \/ SemClose(s)
  BY <1>2, SemOpenStep, SemWaitStep, SemPostStep, SemCloseStep DEF Next
<1>3. CASE Resume
  <2>1. current \in UserPids
    BY <1>3 DEF SemInv, IInv, PhaseOK, Resume, Dispatch
  <2>2. waiting' \in [Pids -> Sems \cup {None}]
    BY <1>1, <1>3 DEF Resume, SemTypeOK
  <2>3. Next
    BY <1>3 DEF Resume, Next, DispatchStep
  <2> QED
    BY <1>1, <1>3, <2>2, <2>3 DEF Resume, SemTypeOK, NoTokenWhileWaiting
<1>4. CASE (AnyCall \/ Tick \/ OtherDispatch) /\ UNCHANGED semVars
  <2>1. Next
    BY <1>4 DEF AnyCall, OtherDispatch, Next, DispatchStep
  <2> QED
    BY <1>1, <1>4, <2>1 DEF SemTypeOK, NoTokenWhileWaiting
<1>5. CASE UNCHANGED allVars
  BY <1>1, <1>5 DEF allVars, SemTypeOK, NoTokenWhileWaiting
<1> QED
  BY <1>2, <1>3, <1>4, <1>5 DEF SemNext

LEMMA SemInitInv == SemInit => SemInv
<1> SUFFICES ASSUME SemInit PROVE SemInv
  OBVIOUS
<1>1. IInv
  BY InitInv DEF SemInit
<1>2. /\ <<>> \in Seq(UserPids) /\ 0 \in 0..MaxValue
      /\ 0 \in 0..MAX_BLOCKED_PROCESSES
  BY EmptySeq, SemAssumption
<1>3. SemTypeOK
  BY <1>2 DEF SemInit, SemTypeOK
<1>4. NoTokenWhileWaiting
  BY DEF SemInit, NoTokenWhileWaiting
<1> QED
  BY <1>1, <1>3, <1>4 DEF SemInv

LEMMA SemInvariance == SemSpec => []SemInv
<1> QED
  BY SemInitInv, SemNextStep, PTL DEF SemSpec

(* The process manager under semaphores behaves as the process manager     *)
(* alone: semWait and semPost do nothing to it that the system calls       *)
(* blockProcess and readyProcess could not do.                             *)
THEOREM SemaphoresOnProcessManager == SemSpec => Spec
<1>1. SemInit => Init
  BY DEF SemInit
<1> QED
  BY <1>1, SemInvariance, SemNextStep, PTL DEF SemSpec, Spec

(* In any program nobody waits for a semaphore that has a token. *)
THEOREM NoTokenWhileWaitingHolds == SemSpec => []NoTokenWhileWaiting
<1>1. SemInv => NoTokenWhileWaiting
  BY DEF SemInv
<1> QED
  BY <1>1, SemInvariance, PTL

(* The semaphore data keep their types in any program. *)
THEOREM SemTypeCorrect == SemSpec => []SemTypeOK
<1>1. SemInv => SemTypeOK
  BY DEF SemInv
<1> QED
  BY <1>1, SemInvariance, PTL

(* The run queue stays exact when processes use semaphores. *)
THEOREM ProcessTableSafeWithSemaphores == SemSpec => [](NoProcessLost /\ ReadySizeExact)
<1>1. SemInv => NoProcessLost /\ ReadySizeExact
  BY DEF SemInv, IInv
<1> QED
  BY <1>1, SemInvariance, PTL

(* Disciplined programs are programs. *)
THEOREM DisciplinedIsSem == DisciplinedSpec => SemSpec
<1>1. DisciplinedNext => SemNext
  BY DEF DisciplinedNext, SemNext, DisciplinedCall, AnyCall, KillAwake, SysKill,
         UserPids
<1> QED
  BY <1>1, PTL DEF DisciplinedSpec, SemSpec
-----------------------------------------------------------------------------
(* Disciplined programs, which open a semaphore once before they use it    *)
(* and leave those alone that sleep in semWait.                            *)

(* The processes that opened a semaphore and did not close it. *)
Openers(s) == {p \in Pids : s \in opened[p]}

OpenersCounted ==
  \A s \in Sems : /\ listening[s] = Cardinality(Openers(s))
                  /\ s \in open <=> listening[s] > 0

(* Who sleeps in semWait: a process that has opened it and is alive. *)
WaitingOK ==
  \A p \in Pids : waiting[p] # None => /\ p # Base
                                       /\ waiting[p] \in opened[p]
                                       /\ state[p] \in {"READY", "BLOCKED"}

(* A process in user code is READY and in no semWait; one that has just    *)
(* gone to sleep in semWait is BLOCKED.                                    *)
CallerAwake ==
  /\ cpu = "user" /\ current \in UserPids => state[current] = "READY" /\ waiting[current] = None
  /\ cpu = "trap" /\ waiting[current] # None => state[current] = "BLOCKED"

(* The handshake of newProcess: a process with a living foreground child   *)
(* sleeps on it, in no semWait, and has no other.                          *)
Handshake ==
  /\ \A c \in UserPids : state[c] # "FREE" => ppid[c] < currentPID
  /\ \A c \in UserPids : InForeground(c) => state[ppid[c]] # "READY" /\ waiting[ppid[c]] = None
  /\ \A c, d \in UserPids : InForeground(c) /\ InForeground(d) /\ ppid[c] = ppid[d] => c = d

DInv == SemInv /\ WaitersExact /\ OpenersCounted /\ WaitingOK /\ CallerAwake /\ Handshake
-----------------------------------------------------------------------------
(* What a step of the process manager must leave alone: the processes that *)
(* sleep in semWait.                                                       *)
LEMMA WaitersKept ==
  ASSUME DInv, UNCHANGED <<blocked, waiting, opened>>,
         state' \in [Pids -> PidStates],
         \A p \in Pids : waiting[p] # None => state'[p] = state[p]
  PROVE  WaitersExact' /\ WaitingOK'
<1>1. WaitingOK'
  BY DEF DInv, WaitingOK
<1>2. \A s \in Sems :
        {p \in UserPids : waiting'[p] = s /\ state'[p] = "BLOCKED"}
          = {p \in UserPids : waiting[p] = s /\ state[p] = "BLOCKED"}
  BY SemAssumption DEF UserPids
<1> QED BY <1>1, <1>2 DEF DInv, WaitersExact

LEMMA OpenersKept ==
  ASSUME DInv, UNCHANGED <<open, listening, opened>>
  PROVE  OpenersCounted'
<1>1. \A s \in Sems : Openers(s)' = Openers(s)
  BY DEF Openers
<1> QED BY <1>1 DEF DInv, OpenersCounted

(* Steps in which no process comes to life or changes its parent or its    *)
(* foreground flag, and only one that sleeps in semWait becomes READY.     *)
LEMMA HandshakeKept ==
  ASSUME DInv, UNCHANGED <<ppid, foreground, currentPID>>,
         \A p \in Pids : state[p] = "FREE" => state'[p] = "FREE",
         \A p \in Pids : state'[p] = "READY" => state[p] = "READY" \/ waiting[p] # None,
         \A p \in Pids : waiting[p] = None => state[p] = "READY" \/ waiting'[p] = None
  PROVE  Handshake'
<1>1. ppid \in [Pids -> Pids] /\ Handshake /\ UserPids \subseteq Pids
  BY DEF DInv, SemInv, IInv, TypeOK, UserPids
<1>2. \A c \in UserPids : InForeground(c)' => InForeground(c)
  BY <1>1 DEF InForeground
<1>3. \A c \in UserPids : ppid[c] \in Pids
  BY <1>1
<1>4. \A c \in UserPids : state'[c] # "FREE" => ppid'[c] < currentPID'
  BY <1>1 DEF Handshake
<1>5. \A c \in UserPids : InForeground(c)' => state'[ppid'[c]] # "READY" /\ waiting'[ppid'[c]] = None
  BY <1>1, <1>2, <1>3 DEF Handshake
<1>6. \A c, d \in UserPids : InForeground(c)' /\ InForeground(d)' /\ ppid'[c] = ppid'[d] => c = d
  BY <1>1, <1>2 DEF Handshake
<1> QED BY <1>4, <1>5, <1>6 DEF Handshake


Goal ==
  /\ WaitersExact' /\ OpenersCounted' /\ WaitingOK' /\ CallerAwake' /\ Handshake'

(* What the invariant says of the process that makes a system call. *)
LEMMA CallerFacts ==
  ASSUME DInv, InUserCode
  PROVE  /\ cpu = "user" /\ current \in UserPids /\ current \in Pids /\ current \notin {NULL, Base}
         /\ state[current] = "READY" /\ waiting[current] = None
BY DEF DInv, SemInv, IInv, TypeOK, InUserCode, UserPids, CallerAwake

(* A step that changes no process state and leaves the semaphores alone. *)
LEMMA SchedulingStep ==
  ASSUME DInv, SemInv', UNCHANGED <<state, ppid, foreground, currentPID, semVars>>, CallerAwake'
  PROVE  Goal
<1>1. UNCHANGED <<blocked, waiting, opened, open, listening>>
  BY DEF semVars, semData
<1>2. state' \in [Pids -> PidStates]
  BY DEF SemInv, IInv, TypeOK
<1>3. WaitersExact' /\ WaitingOK'
  BY <1>1, <1>2, WaitersKept
<1>4. OpenersCounted'
  BY <1>1, OpenersKept
<1>5. Handshake'
  BY <1>1, HandshakeKept
<1> QED BY <1>3, <1>4, <1>5 DEF Goal

(* killProcess of a process that does not sleep in semWait. *)
LEMMA KillAwakeStep ==
  ASSUME DInv, SemInv', UNCHANGED semVars, InUserCode,
         NEW pid \in Pids, waiting[pid] = None, KillProcess(pid)
  PROVE  Goal
<1>1. UNCHANGED <<blocked, waiting, opened, open, listening, ppid, foreground, currentPID, current>>
  BY DEF semVars, semData, KillProcess, pcbVars, runVars
<1>2. /\ state' \in [Pids -> PidStates]
      /\ \A p \in Pids : state[p] = "FREE" => state'[p] = "FREE"
  BY CallerFacts, SetStateSafe DEF DInv, SemInv, KillProcess, States, pcbVars, runVars
<1>3. state \in [Pids -> PidStates]
  BY DEF DInv, SemInv, IInv, TypeOK
<1>4. \A p \in Pids : p # pid => state'[p] = state[p]
  BY <1>3 DEF KillProcess, SetState
<1>5. state'[pid] = state[pid] \/ state'[pid] = "TERMINATED"
  BY <1>3 DEF KillProcess, SetState
<1>6. WaitersExact' /\ WaitingOK'
  BY <1>1, <1>2, <1>4, WaitersKept
<1>7. OpenersCounted'
  BY <1>1, OpenersKept
<1>8. Handshake'
  BY <1>1, <1>2, <1>4, <1>5, HandshakeKept
<1>9. CallerAwake'
  <2>1. cpu' = IF pid = current THEN "trap" ELSE "user"
    BY CallerFacts DEF KillProcess, TrapIfRunning
  <2> QED BY <1>1, <1>4, <2>1, CallerFacts DEF CallerAwake
<1> QED BY <1>6, <1>7, <1>8, <1>9 DEF Goal

(* newProcess, which puts its caller to sleep on a foreground child. *)
LEMMA NewProcessGoal ==
  ASSUME DInv, SemInv', UNCHANGED semVars, NewProcess
  PROVE  Goal
<1> DEFINE child == currentPID
<1>1. PICK fg \in BOOLEAN :
        /\ state' = [state EXCEPT
                       ![child] = "READY",
                       ![current] = IF (foreground[current] /\ fg) /\ @ # "TERMINATED"
                                    THEN "BLOCKED" ELSE @]
        /\ ppid' = [ppid EXCEPT ![child] = current]
        /\ foreground' = [foreground EXCEPT ![child] = foreground[current] /\ fg]
        /\ cpu' = IF foreground[current] /\ fg THEN "trap" ELSE cpu
  BY DEF NewProcess
<1>2. InUserCode /\ child \in Pids /\ currentPID' = currentPID + 1 /\ UNCHANGED current
  BY DEF NewProcess, runVars
<1>3. /\ cpu = "user" /\ current \in UserPids /\ current \in Pids
      /\ state[current] = "READY" /\ waiting[current] = None
  BY <1>2, CallerFacts
<1>4. /\ state \in [Pids -> PidStates] /\ ppid \in [Pids -> Pids] /\ currentPID \in Nat
      /\ foreground \in [Pids -> BOOLEAN] /\ state' \in [Pids -> PidStates]
  BY DEF DInv, SemInv, IInv, TypeOK
<1>5. state[child] = "FREE" /\ child # current /\ current < currentPID
  BY <1>2, <1>3, <1>4 DEF DInv, SemInv, IInv, FreshPids, Pids
<1>6. /\ state'[child] = "READY"
      /\ \A p \in Pids \ {child, current} : state'[p] = state[p]
      /\ state'[current] = IF foreground[current] /\ fg THEN "BLOCKED" ELSE "READY"
  BY <1>1, <1>2, <1>3, <1>4, <1>5
<1>7. UNCHANGED <<blocked, waiting, opened, open, listening>>
  BY DEF semVars, semData
<1>8. waiting[child] = None
  BY <1>2, <1>5 DEF DInv, WaitingOK
<1>9. WaitersExact' /\ WaitingOK'
  BY <1>3, <1>4, <1>6, <1>7, <1>8, WaitersKept
<1>10. OpenersCounted'
  BY <1>7, OpenersKept
<1>11. CallerAwake'
  BY <1>1, <1>2, <1>3, <1>6, <1>7 DEF CallerAwake
<1>12. ppid'[child] = current /\ \A c \in Pids : c # child => ppid'[c] = ppid[c]
  BY <1>1, <1>2, <1>4
<1>13. \A c \in Pids : c # child => foreground'[c] = foreground[c]
  BY <1>1, <1>2, <1>4
<1>14. foreground'[child] => foreground[current] /\ fg
  BY <1>1, <1>2, <1>4
<1>15. UserPids \subseteq Pids
  BY DEF UserPids
<1>16. ASSUME NEW c \in UserPids, c # child, state'[c] # "FREE"
       PROVE  state[c] # "FREE" /\ ppid'[c] = ppid[c] /\ ppid[c] < currentPID /\ ppid[c] \in Pids
  BY <1>3, <1>4, <1>6, <1>12, <1>15, <1>16 DEF DInv, Handshake
<1>17. ASSUME NEW c \in UserPids, c # child, InForeground(c)'
       PROVE  /\ InForeground(c) /\ ppid[c] \notin {child, current}
              /\ state[ppid[c]] # "READY" /\ waiting[ppid[c]] = None
  <2>1. InForeground(c)
    BY <1>13, <1>15, <1>16, <1>17 DEF InForeground
  <2>2. state[ppid[c]] # "READY" /\ waiting[ppid[c]] = None
    BY <2>1 DEF DInv, Handshake
  <2>3. ppid[c] < currentPID /\ ppid[c] \in Pids
    BY <1>16, <1>17 DEF InForeground
  <2> QED BY <1>3, <1>4, <2>1, <2>2, <2>3 DEF Pids
<1>18. \A c \in UserPids : state'[c] # "FREE" => ppid'[c] < currentPID'
  <2> SUFFICES ASSUME NEW c \in UserPids, state'[c] # "FREE"
               PROVE  ppid'[c] < currentPID'
    OBVIOUS
  <2>1. current < currentPID + 1 /\ currentPID' = currentPID + 1
    BY <1>2, <1>3, <1>4, <1>5 DEF Pids
  <2>2. CASE c = child
    BY <1>12, <2>1, <2>2
  <2>3. CASE c # child
    BY <1>4, <1>16, <2>1, <2>3 DEF Pids
  <2> QED BY <2>2, <2>3
<1>19. \A c \in UserPids : InForeground(c)' => state'[ppid'[c]] # "READY" /\ waiting'[ppid'[c]] = None
  <2> SUFFICES ASSUME NEW c \in UserPids, InForeground(c)'
               PROVE  state'[ppid'[c]] # "READY" /\ waiting'[ppid'[c]] = None
    OBVIOUS
  <2>1. CASE c = child
    BY <1>3, <1>6, <1>7, <1>12, <1>14, <2>1 DEF InForeground
  <2>2. CASE c # child
    <3>1. /\ ppid'[c] = ppid[c] /\ ppid[c] \in Pids \ {child, current}
          /\ state[ppid[c]] # "READY" /\ waiting[ppid[c]] = None
      BY <1>4, <1>15, <1>12, <1>17, <2>2
    <3> QED BY <1>6, <1>7, <3>1
  <2> QED BY <2>1, <2>2
<1>20. \A c, d \in UserPids : InForeground(c)' /\ InForeground(d)' /\ ppid'[c] = ppid'[d] => c = d
  <2> SUFFICES ASSUME NEW c \in UserPids, NEW d \in UserPids,
                      InForeground(c)', InForeground(d)', ppid'[c] = ppid'[d]
               PROVE  c = d
    OBVIOUS
  <2>1. CASE c = child \/ d = child
    BY <1>12, <1>15, <1>17, <2>1
  <2>2. CASE c # child /\ d # child
    BY <1>12, <1>15, <1>17, <2>2 DEF DInv, Handshake
  <2> QED BY <2>1, <2>2
<1>21. Handshake'
  BY <1>18, <1>19, <1>20 DEF Handshake
<1> QED BY <1>9, <1>10, <1>11, <1>21 DEF Goal

(* The tick that reaps a process readies the parent that sleeps on it, not *)
(* one that sleeps in semWait.                                             *)
LEMMA TimerReapGoal ==
  ASSUME DInv, SemInv', UNCHANGED semVars, TimerReap
  PROVE  Goal
<1>1. UNCHANGED <<blocked, waiting, opened, open, listening, ppid, foreground, currentPID>>
  BY DEF semVars, semData, TimerReap, LeaveCPU, pcbVars
<1>2. /\ current \in UserPids /\ current \in Pids /\ state[current] = "TERMINATED" /\ cpu' = "switch"
      /\ state \in [Pids -> PidStates] /\ ppid \in [Pids -> Pids] /\ state' \in [Pids -> PidStates]
      /\ UserPids \subseteq Pids
  BY DEF DInv, SemInv, IInv, TypeOK, UserPids, TimerReap, LeaveCPU
<1>3. state' = [p \in Pids |->
                 CASE p = current -> "FREE"
                   [] p = ppid[current] /\ ParentWaits(current) -> "READY"
                   [] OTHER -> state[p]]
  BY DEF TimerReap
<1>4. state'[current] = "FREE"
  <2>1. ~(current = ppid[current] /\ ParentWaits(current))
    BY <1>2 DEF ParentWaits
  <2> QED BY <1>2, <1>3, <2>1
<1>5. ASSUME NEW p \in Pids, p # current, state'[p] # state[p]
      PROVE  p = ppid[current] /\ ParentWaits(current) /\ state'[p] = "READY" /\ state[p] = "BLOCKED"
  BY <1>3, <1>5 DEF ParentWaits
<1>6. ParentWaits(current) => InForeground(current)
  BY <1>2 DEF ParentWaits, InForeground, DInv, SemInv, IInv, IdleOK
<1>7. ParentWaits(current) => waiting[ppid[current]] = None
  BY <1>2, <1>6 DEF DInv, Handshake
<1>8. \A p \in Pids : waiting[p] # None => state'[p] = state[p]
  BY <1>2, <1>5, <1>7 DEF DInv, WaitingOK
<1>9. WaitersExact' /\ WaitingOK'
  BY <1>1, <1>2, <1>8, WaitersKept
<1>10. OpenersCounted'
  BY <1>1, OpenersKept
<1>11. CallerAwake'
  BY <1>2 DEF CallerAwake
<1>12. \A c \in UserPids : InForeground(c)' => InForeground(c) /\ c # current
  <2> SUFFICES ASSUME NEW c \in UserPids, InForeground(c)' PROVE InForeground(c) /\ c # current
    OBVIOUS
  <2> QED BY <1>1, <1>2, <1>4, <1>5 DEF InForeground
<1>13. \A c \in UserPids : InForeground(c)' => state'[ppid[c]] # "READY" /\ waiting[ppid[c]] = None
  <2> SUFFICES ASSUME NEW c \in UserPids, InForeground(c)'
               PROVE  state'[ppid[c]] # "READY" /\ waiting[ppid[c]] = None
    OBVIOUS
  <2>1. InForeground(c) /\ c # current /\ ppid[c] \in Pids
    BY <1>2, <1>12
  <2>2. state[ppid[c]] # "READY" /\ waiting[ppid[c]] = None
    BY <2>1 DEF DInv, Handshake
  <2>3. ~(ppid[c] = ppid[current] /\ ParentWaits(current))
    BY <1>2, <1>6, <2>1 DEF DInv, Handshake
  <2>4. state'[ppid[c]] # "READY"
    BY <1>4, <1>5, <2>1, <2>2, <2>3
  <2> QED BY <2>2, <2>4
<1>14. \A c \in UserPids : state'[c] # "FREE" => ppid[c] < currentPID
  BY <1>2, <1>4, <1>5 DEF DInv, Handshake
<1>15. \A c, d \in UserPids : InForeground(c)' /\ InForeground(d)' /\ ppid[c] = ppid[d] => c = d
  BY <1>12 DEF DInv, Handshake
<1>16. Handshake'
  BY <1>1, <1>13, <1>14, <1>15 DEF Handshake
<1> QED BY <1>9, <1>10, <1>11, <1>16 DEF Goal

(* The loop of processManager frees a killed process; it does not sleep in *)
(* semWait.                                                                *)
LEMMA LoopFreeGoal ==
  ASSUME DInv, SemInv', UNCHANGED semVars, LoopFree
  PROVE  Goal
<1>1. UNCHANGED <<blocked, waiting, opened, open, listening, ppid, foreground, currentPID, cpu>>
  BY DEF semVars, semData, LoopFree, pcbVars
<1>2. cpu = "dispatch" /\ current \in Pids /\ state[current] = "TERMINATED"
  BY DEF DInv, SemInv, IInv, PhaseOK, LoopFree, UserPids
<1>3. /\ state \in [Pids -> PidStates] /\ state' \in [Pids -> PidStates]
      /\ state' = [state EXCEPT ![current] = "FREE"]
  BY DEF DInv, SemInv, IInv, TypeOK, LoopFree
<1>4. \A p \in Pids : waiting[p] # None => state'[p] = state[p]
  BY <1>2, <1>3 DEF DInv, WaitingOK
<1>5. WaitersExact' /\ WaitingOK'
  BY <1>1, <1>3, <1>4, WaitersKept
<1>6. OpenersCounted'
  BY <1>1, OpenersKept
<1>7. CallerAwake'
  BY <1>1, <1>2 DEF CallerAwake
<1>8. Handshake'
  BY <1>1, <1>2, <1>3, HandshakeKept
<1> QED BY <1>5, <1>6, <1>7, <1>8 DEF Goal

(* The steps of the process manager, whatever they do: they leave the      *)
(* processes that sleep in semWait alone.                                  *)
LEMMA ProcessStep ==
  ASSUME DInv, SemInv', UNCHANGED semVars, DisciplinedCall \/ Tick \/ OtherDispatch
  PROVE  Goal
<1> USE DEF pcbVars, listVars, runVars
<1>1. UNCHANGED waiting
  BY DEF semVars
<1>2. NULL \notin UserPids /\ Base \notin UserPids
  BY PMAssumption DEF UserPids, Pids
<1>3. CASE Yield
  <2>1. UNCHANGED <<state, ppid, foreground, currentPID, current>> /\ cpu' = "trap" /\ InUserCode
    BY <1>3 DEF Yield
  <2>2. CallerAwake'
    BY <1>1, <2>1, CallerFacts DEF CallerAwake
  <2> QED BY <2>1, <2>2, SchedulingStep
<1>4. CASE NewProcess
  BY <1>4, NewProcessGoal
<1>5. CASE KillAwake
  <2>1. PICK pid \in UserPids : waiting[pid] = None /\ KillProcess(pid)
    BY <1>5 DEF KillAwake
  <2>2. pid \in Pids /\ InUserCode
    BY <1>5 DEF KillAwake, UserPids
  <2> QED BY <2>1, <2>2, KillAwakeStep
<1>6. CASE KillCurrentFGProcess
  <2>1. InUserCode /\ KillProcess(current)
    BY <1>6 DEF KillCurrentFGProcess, Interruptible, InUserCode, DInv, SemInv, IInv, IdleOK
  <2> QED BY <2>1, CallerFacts, KillAwakeStep
<1>7. CASE TimerKeep
  <2>1. UNCHANGED <<state, ppid, foreground, currentPID, current>> /\ cpu' = "user"
        /\ state[current] = "READY" /\ cpu \in {"user", "trap"}
    BY <1>7 DEF TimerKeep, TimerEntry, KeepsRunning
  <2>2. CallerAwake'
    BY <1>1, <2>1 DEF DInv, CallerAwake
  <2> QED BY <2>1, <2>2, SchedulingStep
<1>8. CASE TimerPreempt
  <2>1. UNCHANGED <<state, ppid, foreground, currentPID>> /\ cpu' = "switch"
    BY <1>8 DEF TimerPreempt, LeaveCPU
  <2>2. CallerAwake'
    BY <2>1 DEF CallerAwake
  <2> QED BY <2>1, <2>2, SchedulingStep
<1>9. CASE TimerReap
  BY <1>9, TimerReapGoal
<1>10. CASE DispatchIdle
  <2>1. UNCHANGED <<state, ppid, foreground, currentPID>> /\ cpu' = "user" /\ current' = Base
    BY <1>10 DEF DispatchIdle
  <2>2. CallerAwake'
    BY <1>2, <2>1 DEF CallerAwake
  <2> QED BY <2>1, <2>2, SchedulingStep
<1>11. CASE DispatchFirst
  <2>1. UNCHANGED <<state, ppid, foreground, currentPID>> /\ cpu' = "dispatch"
    BY <1>11 DEF DispatchFirst
  <2>2. CallerAwake'
    BY <2>1 DEF CallerAwake
  <2> QED BY <2>1, <2>2, SchedulingStep
<1>12. CASE LoopFree
  BY <1>12, LoopFreeGoal
<1>13. CASE LoopRequeue
  <2>1. UNCHANGED <<state, ppid, foreground, currentPID>> /\ cpu' = "dispatch"
    BY <1>13 DEF LoopRequeue
  <2>2. CallerAwake'
    BY <2>1 DEF CallerAwake
  <2> QED BY <2>1, <2>2, SchedulingStep
<1> QED
  BY <1>3, <1>4, <1>5, <1>6, <1>7, <1>8, <1>9, <1>10, <1>11, <1>12, <1>13
  DEF DisciplinedCall, Tick, OtherDispatch
-----------------------------------------------------------------------------
(* semOpen and semClose keep the count of openers; semWait and semPost,    *)
(* the list of waiters.                                                    *)
LEMMA OpenersType ==
  ASSUME NEW s
  PROVE  /\ IsFiniteSet(Openers(s)) /\ Cardinality(Openers(s)) \in Nat
         /\ Openers(s) \in SUBSET Pids
         /\ Cardinality(Openers(s)) = 0 <=> Openers(s) = {}
<1>1. Openers(s) \in SUBSET Pids
  BY DEF Openers
<1> QED BY <1>1, PidsFinite

(* Nobody waits for a semaphore that is not open. *)
LEMMA ClosedEmpty ==
  ASSUME DInv, NEW s \in Sems, s \notin open
  PROVE  blocked[s] = <<>> /\ \A p \in Pids : waiting[p] # s /\ s \notin opened[p]
<1>1. Openers(s) = {}
  BY OpenersType DEF DInv, OpenersCounted
<1>2. \A p \in Pids : waiting[p] # s /\ s \notin opened[p]
  BY <1>1, SemAssumption DEF Openers, DInv, WaitingOK
<1>3. Range(blocked[s]) = {}
  BY <1>2 DEF DInv, WaitersExact, UserPids
<1>4. blocked[s] \in Seq(UserPids)
  BY DEF DInv, SemInv, SemTypeOK
<1> QED BY <1>2, <1>3, <1>4, EmptyQueue

LEMMA SemOpenGoal ==
  ASSUME DInv, SemInv', NEW s \in Sems, s \notin opened[current], SemOpen(s)
  PROVE  Goal
<1>1. /\ InUserCode /\ UNCHANGED <<vars, waiting>>
      /\ opened' = [opened EXCEPT ![current] = @ \cup {s}]
  BY DEF SemOpen
<1>2. current \in Pids /\ current \in UserPids
  BY <1>1, CallerFacts
<1>3. UNCHANGED <<state, ppid, foreground, currentPID, current, cpu>>
  BY <1>1 DEF vars, pcbVars, runVars
<1>4. opened \in [Pids -> SUBSET Sems] /\ listening \in [Sems -> 0..MAX_BLOCKED_PROCESSES]
  BY DEF DInv, SemInv, SemTypeOK
<1>5. /\ \A k \in Sems : k # s => (listening'[k] = listening[k] /\ blocked'[k] = blocked[k])
      /\ listening'[s] = listening[s] + 1 /\ open' = open \cup {s}
      /\ blocked'[s] = blocked[s]
  <2>1. CASE s \in open
    BY <1>4, <2>1 DEF SemOpen, GetSemaphore
  <2>2. CASE s \notin open
    <3>1. listening[s] = 0 /\ blocked[s] = <<>>
      BY <1>4, <2>2, ClosedEmpty DEF DInv, OpenersCounted
    <3> QED BY <1>4, <2>2, <3>1 DEF SemOpen, GetSemaphore, CreateSemaphore, DInv, SemInv, SemTypeOK
  <2> QED BY <2>1, <2>2
<1>6. \A k \in Sems : k # s => Openers(k)' = Openers(k)
  BY <1>1, <1>2, <1>4 DEF Openers
<1>7. Openers(s)' = Openers(s) \cup {current} /\ current \in Pids \ Openers(s)
  BY <1>1, <1>2, <1>4 DEF Openers
<1>8. Cardinality(Openers(s)') = Cardinality(Openers(s)) + 1
  BY <1>7, OpenersType, PidsFinite
<1>9. OpenersCounted'
  <2> SUFFICES ASSUME NEW k \in Sems
               PROVE  listening'[k] = Cardinality(Openers(k)') /\ (k \in open' <=> listening'[k] > 0)
    BY DEF OpenersCounted
  <2>1. listening[k] = Cardinality(Openers(k)) /\ (k \in open <=> listening[k] > 0)
        /\ listening[k] \in Nat
    BY <1>4 DEF DInv, OpenersCounted
  <2>2. CASE k = s
    BY <1>5, <1>8, <2>1, <2>2
  <2>3. CASE k # s
    BY <1>5, <1>6, <2>1, <2>3
  <2> QED BY <2>2, <2>3
<1>10. WaitingOK'
  BY <1>1, <1>2, <1>3, <1>4 DEF DInv, WaitingOK
<1>11. WaitersExact'
  BY <1>1, <1>3, <1>5 DEF DInv, WaitersExact
<1>12. CallerAwake'
  BY <1>1, <1>3 DEF DInv, CallerAwake
<1>13. Handshake'
  BY <1>1, <1>3, HandshakeKept
<1> QED BY <1>9, <1>10, <1>11, <1>12, <1>13 DEF Goal

LEMMA SemCloseGoal ==
  ASSUME DInv, SemInv', NEW s \in Sems, s \in opened[current], SemClose(s)
  PROVE  Goal
<1>1. /\ InUserCode /\ UNCHANGED <<vars, waiting>>
      /\ opened' = [opened EXCEPT ![current] = @ \ {s}]
  BY DEF SemClose
<1>2. current \in Pids /\ current \in UserPids /\ waiting[current] = None
  BY <1>1, CallerFacts
<1>3. UNCHANGED <<state, ppid, foreground, currentPID, current, cpu>>
  BY <1>1 DEF vars, pcbVars, runVars
<1>4. opened \in [Pids -> SUBSET Sems] /\ listening \in [Sems -> 0..MAX_BLOCKED_PROCESSES]
  BY DEF DInv, SemInv, SemTypeOK
<1>5. \A k \in Sems : k # s => Openers(k)' = Openers(k)
  BY <1>1, <1>2, <1>4 DEF Openers
<1>6. Openers(s)' = Openers(s) \ {current} /\ current \in Openers(s)
  BY <1>1, <1>2, <1>4 DEF Openers
<1>7. Cardinality(Openers(s)') = Cardinality(Openers(s)) - 1
  BY <1>6, OpenersType, PidsFinite
<1>8. Openers(s) # {} /\ listening[s] = Cardinality(Openers(s)) /\ listening[s] > 0
  BY <1>4, <1>6, OpenersType DEF DInv, OpenersCounted
<1>9. /\ listening' = [listening EXCEPT ![s] = listening[s] - 1]
      /\ IF listening[s] - 1 = 0 THEN RemoveSemaphore(s) ELSE UNCHANGED <<open, value, blocked>>
  BY <1>8 DEF SemClose
<1>10. WaitingOK'
  BY <1>1, <1>2, <1>3, <1>4 DEF DInv, WaitingOK
<1>11. blocked \in [Sems -> Seq(UserPids)]
  BY DEF DInv, SemInv, SemTypeOK
<1>12. listening[s] - 1 = 0 => blocked[s] = <<>>
  <2> SUFFICES ASSUME listening[s] - 1 = 0 PROVE blocked[s] = <<>>
    OBVIOUS
  <2>1. Openers(s)' = {}
    BY <1>4, <1>6, <1>7, <1>8, OpenersType, PidsFinite
  <2>2. \A p \in Pids : waiting[p] # s
    BY <1>2, <1>6, <2>1, SemAssumption DEF Openers, DInv, WaitingOK
  <2>3. Range(blocked[s]) = {}
    BY <2>2 DEF DInv, WaitersExact, UserPids
  <2> QED BY <1>11, <2>3, EmptyQueue
<1>13. blocked' = blocked
  BY <1>9, <1>11, <1>12 DEF RemoveSemaphore
<1>14. open' = IF listening[s] - 1 = 0 THEN open \ {s} ELSE open
  BY <1>9 DEF RemoveSemaphore
<1>15. OpenersCounted'
  <2> SUFFICES ASSUME NEW k \in Sems
               PROVE  listening'[k] = Cardinality(Openers(k)') /\ (k \in open' <=> listening'[k] > 0)
    BY DEF OpenersCounted
  <2>1. listening[k] = Cardinality(Openers(k)) /\ (k \in open <=> listening[k] > 0)
        /\ listening[k] \in Nat
    BY <1>4 DEF DInv, OpenersCounted
  <2>2. CASE k = s
    <3>1. listening'[s] = listening[s] - 1
      BY <1>4, <1>9
    <3> QED BY <1>7, <1>8, <1>14, <2>1, <2>2, <3>1
  <2>3. CASE k # s
    <3>1. listening'[k] = listening[k]
      BY <1>4, <1>9, <2>3
    <3> QED BY <1>5, <1>14, <2>1, <2>3, <3>1
  <2> QED BY <2>2, <2>3
<1>16. WaitersExact'
  BY <1>1, <1>3, <1>13 DEF DInv, WaitersExact
<1>17. CallerAwake'
  BY <1>1, <1>3 DEF DInv, CallerAwake
<1>18. Handshake'
  BY <1>1, <1>3, HandshakeKept
<1> QED BY <1>10, <1>15, <1>16, <1>17, <1>18 DEF Goal

LEMMA SemWaitGoal ==
  ASSUME DInv, SemInv', NEW s \in Sems, s \in opened[current], SemWait(s)
  PROVE  Goal
<1>1. /\ InUserCode /\ UNCHANGED <<open, listening, opened>>
  BY DEF SemWait
<1>2. /\ current \in Pids /\ current \in UserPids
      /\ state[current] = "READY" /\ waiting[current] = None /\ cpu = "user"
  BY <1>1, CallerFacts
<1>3. OpenersCounted'
  BY <1>1, OpenersKept
<1>4. CASE Available(s)
  <2>1. UNCHANGED <<vars, blocked, waiting>>
    BY <1>4 DEF SemWait
  <2>2. UNCHANGED <<state, ppid, foreground, currentPID, current, cpu>>
    BY <2>1 DEF vars, pcbVars, runVars
  <2>3. WaitersExact' /\ WaitingOK' /\ CallerAwake'
    BY <1>1, <2>1, <2>2 DEF DInv, WaitersExact, WaitingOK, CallerAwake
  <2>4. Handshake'
    BY <2>1, <2>2, HandshakeKept
  <2> QED BY <1>3, <2>3, <2>4 DEF Goal
<1>5. CASE ~Available(s)
  <2>1. /\ blocked' = [blocked EXCEPT ![s] = Append(@, current)]
        /\ waiting' = [waiting EXCEPT ![current] = s]
        /\ BlockProcess(current)
    BY <1>5 DEF SemWait
  <2>2. /\ state \in [Pids -> PidStates] /\ waiting \in [Pids -> Sems \cup {None}]
        /\ blocked \in [Sems -> Seq(UserPids)]
    BY DEF DInv, SemInv, SemTypeOK, IInv, TypeOK
  <2>3. /\ state' = [state EXCEPT ![current] = "BLOCKED"] /\ cpu' = "trap"
        /\ UNCHANGED <<ppid, foreground, currentPID, current>>
    BY <1>2, <2>1 DEF BlockProcess, SetState, GetProcess, TrapIfRunning, pcbVars, runVars
  <2>4. current \notin Range(blocked[s])
    BY <1>2, SemAssumption DEF DInv, WaitersExact
  <2>5. IsInjective(blocked[s]) /\ blocked[s] \in Seq(UserPids)
    BY <2>2 DEF DInv, WaitersExact
  <2>6. IsInjective(blocked'[s]) /\ Range(blocked'[s]) = Range(blocked[s]) \cup {current}
    BY <1>2, <2>1, <2>2, <2>4, <2>5, AppendInjectiveQueue, AppendRange
  <2>7. \A p \in Pids : p # current => waiting'[p] = waiting[p] /\ state'[p] = state[p]
    BY <2>1, <2>2, <2>3
  <2>8. waiting'[current] = s /\ state'[current] = "BLOCKED"
    BY <1>2, <2>1, <2>2, <2>3
  <2>9. ASSUME NEW k \in Sems
        PROVE  /\ IsInjective(blocked'[k])
               /\ Range(blocked'[k]) = {p \in UserPids : waiting'[p] = k /\ state'[p] = "BLOCKED"}
    <3>1. Range(blocked[k]) = {p \in UserPids : waiting[p] = k /\ state[p] = "BLOCKED"}
          /\ IsInjective(blocked[k])
      BY DEF DInv, WaitersExact
    <3>2. UserPids \subseteq Pids
      BY DEF UserPids
    <3>3. CASE k = s
      BY <1>2, <2>6, <2>7, <2>8, <3>1, <3>2, <3>3
    <3>4. CASE k # s
      <4>1. blocked'[k] = blocked[k]
        BY <2>1, <2>2, <3>4
      <4>2. waiting[current] # k /\ waiting'[current] # k
        BY <1>2, <2>8, <3>4, SemAssumption
      <4> QED BY <2>7, <3>1, <3>2, <4>1, <4>2
    <3> QED BY <3>3, <3>4
  <2>10. WaitersExact'
    BY <2>9 DEF WaitersExact
  <2>11. WaitingOK'
    BY <1>1, <1>2, <2>7, <2>8 DEF DInv, WaitingOK, UserPids
  <2>12. CallerAwake'
    BY <1>2, <2>3, <2>8 DEF CallerAwake
  <2>13. Handshake'
    BY <1>2, <2>3, <2>7, <2>8, HandshakeKept
  <2> QED BY <1>3, <2>10, <2>11, <2>12, <2>13 DEF Goal
<1> QED BY <1>4, <1>5

(* The first waiter is BLOCKED in this semWait, and a post makes it READY. *)
LEMMA PostReadies ==
  ASSUME DInv, NEW s \in Sems, blocked[s] # <<>>, ReadyProcess(Head(blocked[s])), cpu = "user"
  PROVE  LET h == Head(blocked[s]) IN
         /\ h \in UserPids /\ h \in Pids /\ h # current
         /\ waiting[h] = s /\ state[h] = "BLOCKED" /\ h \in Range(blocked[s])
         /\ state' = [state EXCEPT ![h] = "READY"]
         /\ UNCHANGED <<ppid, foreground, currentPID, current, cpu>>
<1> DEFINE h == Head(blocked[s])
<1>1. blocked[s] \in Seq(UserPids) /\ IsInjective(blocked[s])
  BY DEF DInv, SemInv, SemTypeOK, WaitersExact
<1>2. h \in UserPids /\ h \in Range(blocked[s])
  BY <1>1, TailQueue
<1> HIDE DEF h
<1>3. waiting[h] = s /\ state[h] = "BLOCKED"
  BY <1>2 DEF DInv, WaitersExact
<1>4. h # current
  <2>1. InUserCode => h # current
    BY <1>3, CallerFacts
  <2> QED BY <1>2, <2>1, PMAssumption DEF InUserCode, UserPids, Pids
<1>5. GetProcess(h)
  BY <1>2, <1>3 DEF DInv, SemInv, IInv, NoProcessLost, GetProcess
<1>6. ReadyProcess(h)
  BY DEF h
<1>7. state' = [state EXCEPT ![h] = "READY"] /\ UNCHANGED <<ppid, foreground, currentPID, current, cpu>>
  BY <1>3, <1>5, <1>6 DEF ReadyProcess, SetState, pcbVars, runVars
<1> QED BY <1>2, <1>3, <1>4, <1>7 DEF h, UserPids

LEMMA SemPostGoal ==
  ASSUME DInv, SemInv', NEW s \in Sems, SemPost(s)
  PROVE  Goal
<1>1. /\ cpu = "user" /\ UNCHANGED <<open, listening, waiting, opened>>
  BY DEF SemPost
<1>2. OpenersCounted'
  BY <1>1, OpenersKept
<1>3. CASE blocked[s] = <<>>
  <2>1. UNCHANGED <<vars, blocked>>
    BY <1>3 DEF SemPost, PostEffect
  <2>2. UNCHANGED <<state, ppid, foreground, currentPID, current, cpu>>
    BY <2>1 DEF vars, pcbVars, runVars
  <2>3. WaitersExact' /\ WaitingOK' /\ CallerAwake'
    BY <1>1, <2>1, <2>2 DEF DInv, WaitersExact, WaitingOK, CallerAwake
  <2>4. Handshake'
    BY <1>1, <2>2, HandshakeKept
  <2> QED BY <1>2, <2>3, <2>4 DEF Goal
<1>4. CASE blocked[s] # <<>>
  <2>1. blocked' = [blocked EXCEPT ![s] = Tail(@)] /\ ReadyProcess(Head(blocked[s]))
    BY <1>4 DEF SemPost, PostEffect, UnblockSemProcess
  <2>2. PICK h \in UserPids :
          /\ h = Head(blocked[s]) /\ h \in Pids /\ h # current
          /\ waiting[h] = s /\ state[h] = "BLOCKED"
          /\ state' = [state EXCEPT ![h] = "READY"]
          /\ UNCHANGED <<ppid, foreground, currentPID, current, cpu>>
    BY <1>1, <1>4, <2>1, PostReadies
  <2>3. state \in [Pids -> PidStates] /\ blocked \in [Sems -> Seq(UserPids)]
    BY DEF DInv, SemInv, SemTypeOK, IInv, TypeOK
  <2>4. state'[h] = "READY" /\ \A p \in Pids : p # h => state'[p] = state[p]
    BY <2>2, <2>3
  <2>5. IsInjective(blocked[s]) /\ blocked[s] \in Seq(UserPids)
    BY <2>3 DEF DInv, WaitersExact
  <2>6. IsInjective(blocked'[s]) /\ Range(blocked'[s]) = Range(blocked[s]) \ {h}
    BY <1>4, <2>1, <2>2, <2>3, <2>5, TailQueue
  <2>7. ASSUME NEW k \in Sems
        PROVE  /\ IsInjective(blocked'[k])
               /\ Range(blocked'[k]) = {p \in UserPids : waiting[p] = k /\ state'[p] = "BLOCKED"}
    <3>1. Range(blocked[k]) = {p \in UserPids : waiting[p] = k /\ state[p] = "BLOCKED"}
          /\ IsInjective(blocked[k])
      BY DEF DInv, WaitersExact
    <3>2. UserPids \subseteq Pids
      BY DEF UserPids
    <3>3. CASE k = s
      BY <2>2, <2>4, <2>6, <3>1, <3>2, <3>3
    <3>4. CASE k # s
      <4>1. blocked'[k] = blocked[k]
        BY <2>1, <2>3, <3>4
      <4> QED BY <2>2, <2>4, <3>1, <3>2, <3>4, <4>1
    <3> QED BY <3>3, <3>4
  <2>8. WaitersExact'
    BY <1>1, <2>7 DEF WaitersExact
  <2>9. WaitingOK'
    BY <1>1, <2>2, <2>4 DEF DInv, WaitingOK
  <2>10. CallerAwake'
    BY <1>1, <2>2, <2>4 DEF CallerAwake, DInv, UserPids
  <2>11. waiting[h] # None
    BY <2>2, SemAssumption
  <2>12. Handshake'
    <3>1. \A p \in Pids : state[p] = "FREE" => state'[p] = "FREE"
      BY <2>2, <2>4
    <3>2. \A p \in Pids : state'[p] = "READY" => state[p] = "READY" \/ waiting[p] # None
      BY <2>4, <2>11
    <3> QED BY <1>1, <2>2, <3>1, <3>2, HandshakeKept
  <2> QED BY <1>2, <2>8, <2>9, <2>10, <2>12 DEF Goal
<1> QED BY <1>3, <1>4

(* A process that goes on behind semWait is READY, so it is on no list. *)
LEMMA ResumeGoal ==
  ASSUME DInv, SemInv', Resume
  PROVE  Goal
<1>1. /\ waiting' = [waiting EXCEPT ![current] = None]
      /\ UNCHANGED <<open, value, blocked, listening, opened>>
      /\ UNCHANGED <<state, ppid, foreground, currentPID, current>>
      /\ state[current] = "READY" /\ cpu = "dispatch" /\ cpu' = "user"
  BY DEF Resume, Dispatch, semData, pcbVars
<1>2. /\ current \in Pids /\ current \in UserPids
      /\ waiting \in [Pids -> Sems \cup {None}]
  BY <1>1 DEF DInv, SemInv, SemTypeOK, IInv, PhaseOK, UserPids
<1>3. waiting'[current] = None /\ \A p \in Pids : p # current => waiting'[p] = waiting[p]
  BY <1>1, <1>2
<1>4. WaitersExact'
  <2>1. \A s \in Sems : {p \in UserPids : waiting'[p] = s /\ state'[p] = "BLOCKED"}
                          = {p \in UserPids : waiting[p] = s /\ state[p] = "BLOCKED"}
    BY <1>1, <1>3 DEF UserPids
  <2> QED BY <1>1, <2>1 DEF DInv, WaitersExact
<1>5. WaitingOK'
  BY <1>1, <1>3 DEF DInv, WaitingOK
<1>6. CallerAwake'
  BY <1>1, <1>3 DEF CallerAwake
<1>7. Handshake'
  BY <1>1, <1>3, HandshakeKept
<1>8. OpenersCounted'
  BY <1>1, OpenersKept
<1> QED BY <1>4, <1>5, <1>6, <1>7, <1>8 DEF Goal

LEMMA DInvInit == SemInit => DInv
<1> SUFFICES ASSUME SemInit PROVE DInv
  OBVIOUS
<1>1. SemInv
  BY SemInitInv
<1>2. WaitersExact
  <2>1. Range(<<>>) = {} /\ IsInjective(<<>>)
    BY DEF Range, IsInjective
  <2> QED BY <2>1, SemAssumption DEF SemInit, WaitersExact, UserPids
<1>3. OpenersCounted
  <2>1. \A s \in Sems : Openers(s) = {}
    BY DEF Openers, SemInit
  <2> QED BY <2>1, FS_EmptySet DEF OpenersCounted, SemInit
<1>4. WaitingOK
  BY DEF WaitingOK, SemInit
<1>5. CallerAwake
  BY PMAssumption DEF CallerAwake, SemInit, Init, UserPids, Pids
<1>6. Handshake
  <2>1. \A c \in UserPids : ppid[c] = 0 /\ currentPID = 2
    BY DEF SemInit, Init, UserPids
  <2> QED BY <2>1 DEF Handshake, InForeground, Base
<1> QED BY <1>1, <1>2, <1>3, <1>4, <1>5, <1>6 DEF DInv

LEMMA DisciplinedIsSemNext == DisciplinedNext => SemNext
BY DEF DisciplinedNext, SemNext, DisciplinedCall, AnyCall, KillAwake, SysKill, UserPids

LEMMA DInvNext == DInv /\ [DisciplinedNext]_allVars => DInv'
<1> SUFFICES ASSUME DInv, [DisciplinedNext]_allVars PROVE Goal /\ SemInv'
  BY DEF Goal, DInv
<1>1. SemInv'
  BY SemNextStep, DisciplinedIsSemNext DEF DInv
<1>2. CASE \E s \in Sems : s \notin opened[current] /\ SemOpen(s)
  BY <1>1, <1>2, SemOpenGoal
<1>3. CASE \E s \in Sems : SemPost(s) \/ (s \in opened[current] /\ (SemWait(s) \/ SemClose(s)))
  BY <1>1, <1>3, SemWaitGoal, SemPostGoal, SemCloseGoal
<1>4. CASE Resume
  BY <1>1, <1>4, ResumeGoal
<1>5. CASE (DisciplinedCall \/ Tick \/ OtherDispatch) /\ UNCHANGED semVars
  BY <1>1, <1>5, ProcessStep
<1>6. CASE UNCHANGED allVars
  <2>1. UNCHANGED <<state, ppid, foreground, currentPID, current, cpu, open, listening, blocked, waiting, opened>>
    BY <1>6 DEF allVars, vars, semVars, semData, pcbVars, runVars
  <2>2. \A s \in Sems : Openers(s)' = Openers(s)
    BY <2>1 DEF Openers
  <2> QED BY <1>1, <2>1, <2>2 DEF Goal, DInv, WaitersExact, OpenersCounted, WaitingOK, CallerAwake,
            Handshake, InForeground
<1>7. ASSUME NEW s \in Sems, SemOpen(s) \/ SemWait(s) \/ SemClose(s)
      PROVE  current \in Pids
  BY <1>7, CallerFacts DEF SemOpen, SemWait, SemClose
<1> QED BY <1>2, <1>3, <1>4, <1>5, <1>6, <1>7 DEF DisciplinedNext

LEMMA DisciplinedInvariance == DisciplinedSpec => []DInv
BY DInvInit, DInvNext, PTL DEF DisciplinedSpec

(* Of disciplined programs, any number of them: the list of a semaphore    *)
(* holds exactly the processes asleep in its semWait, each once.           *)
THEOREM WaitersExactHolds == DisciplinedSpec => []WaitersExact
<1>1. DInv => WaitersExact
  BY DEF DInv
<1> QED BY <1>1, DisciplinedInvariance, PTL

(* The limit on the openers keeps the array of waiters within its bounds.  *)
THEOREM BlockedFitsHolds == DisciplinedSpec => []BlockedFits
<1>1. DInv => BlockedFits
  <2> SUFFICES ASSUME DInv, NEW s \in Sems PROVE Len(blocked[s]) <= MAX_BLOCKED_PROCESSES
    BY DEF BlockedFits
  <2>1. /\ blocked[s] \in Seq(UserPids) /\ IsInjective(blocked[s])
        /\ listening[s] \in 0..MAX_BLOCKED_PROCESSES
    BY DEF DInv, SemInv, SemTypeOK, WaitersExact
  <2>2. Range(blocked[s]) \subseteq Openers(s)
    BY SemAssumption DEF DInv, WaitersExact, WaitingOK, Openers, UserPids
  <2>3. Cardinality(Range(blocked[s])) <= Cardinality(Openers(s))
    BY <2>2, OpenersType, FS_Subset
  <2>4. Cardinality(Range(blocked[s])) = Len(blocked[s])
    <3>1. blocked[s] \in Bijection(1..Len(blocked[s]), Range(blocked[s]))
      BY <2>1, LenProperties DEF Bijection, Injection, Surjection, IsInjective, Range
    <3>2. Len(blocked[s]) \in Nat
      BY <2>1, LenProperties
    <3> QED BY <3>1, <3>2, FS_CountingElements DEF ExistsBijection
  <2>5. Len(blocked[s]) \in Nat /\ Cardinality(Openers(s)) \in Nat
    BY <2>1, LenProperties, OpenersType
  <2>6. listening[s] = Cardinality(Openers(s))
    BY DEF DInv, OpenersCounted
  <2> QED BY <2>1, <2>3, <2>4, <2>5, <2>6, SemAssumption
<1> QED BY <1>1, DisciplinedInvariance, PTL
-----------------------------------------------------------------------------
(* 5. The refinement of CountingSemaphore.                                 *)

(* The processes that were handed a token of s and have not returned from  *)
(* semWait, and the tokens of every semaphore: those and its value.        *)
Granted(s) == {p \in Pids : waiting[p] = s /\ p \notin Range(blocked[s])}
TokensNow == [s \in Sems |-> value[s] + Cardinality(Granted(s))]

LEMMA TokensType ==
  ASSUME SemInv, NEW s \in Sems
  PROVE  /\ value[s] \in 0..MaxValue /\ Cardinality(Granted(s)) \in Nat
         /\ Granted(s) \in SUBSET Pids
         /\ TokensNow[s] = value[s] + Cardinality(Granted(s))
<1>1. Granted(s) \in SUBSET Pids
  BY DEF Granted
<1> QED BY <1>1, PidsFinite DEF SemInv, SemTypeOK, TokensNow

(* A step that moves the tokens of one semaphore at most. *)
LEMMA TokensMoved ==
  ASSUME SemInv, NEW s \in Sems, NEW n,
         n = value'[s] + Cardinality(Granted(s)'),
         \A k \in Sems : k # s => value'[k] = value[k] /\ Granted(k)' = Granted(k)
  PROVE  TokensNow' = [TokensNow EXCEPT ![s] = n]
<1>1. \A k \in Sems : k # s => TokensNow'[k] = TokensNow[k]
  BY DEF TokensNow
<1>2. TokensNow'[s] = n
  BY DEF TokensNow
<1>3. TokensNow = [k \in Sems |-> TokensNow[k]] /\ TokensNow' = [k \in Sems |-> TokensNow'[k]]
  BY DEF TokensNow
<1> QED BY <1>1, <1>2, <1>3

LEMMA TokensKept ==
  ASSUME \A k \in Sems : value'[k] = value[k] /\ Granted(k)' = Granted(k)
  PROVE  TokensNow' = TokensNow
BY DEF TokensNow

(* A process that does not sleep on the list of s, and waits for nothing   *)
(* or returns, is granted nothing more.                                    *)
LEMMA CountingOpen ==
  ASSUME DInv, NEW s \in Sems, SemOpen(s)
  PROVE  Counting!Create(s) \/ UNCHANGED Counting!vars
<1>1. waiting' = waiting /\ value \in [Sems -> 0..MaxValue] /\ blocked \in [Sems -> Seq(UserPids)]
  BY DEF SemOpen, DInv, SemInv, SemTypeOK
<1>2. CASE s \in open
  <2>1. UNCHANGED <<open, value, blocked, waiting>>
    BY <1>1, <1>2 DEF SemOpen, GetSemaphore
  <2> QED BY <2>1 DEF Counting!vars
<1>3. CASE s \notin open
  <2>1. PICK v \in InitialValues : value' = [value EXCEPT ![s] = v]
    BY <1>3 DEF SemOpen, GetSemaphore, CreateSemaphore
  <2>2. open' = open \cup {s} /\ blocked' = [blocked EXCEPT ![s] = <<>>]
    BY <1>3 DEF SemOpen, GetSemaphore, CreateSemaphore
  <2>3. \A k \in Sems : k # s => value'[k] = value[k] /\ Granted(k)' = Granted(k)
    BY <1>1, <2>1, <2>2 DEF Granted
  <2>4. Granted(s)' = {}
    BY <1>1, <1>3, ClosedEmpty DEF Granted
  <2>5. v \in Int /\ value'[s] = v
    BY <1>1, <2>1, SemAssumption
  <2>6. v = value'[s] + Cardinality(Granted(s)')
    BY <2>4, <2>5, FS_EmptySet
  <2>7. TokensNow' = [TokensNow EXCEPT ![s] = v]
    BY <2>3, <2>6, TokensMoved DEF DInv
  <2> QED BY <1>1, <1>3, <2>2, <2>7 DEF Counting!Create, TokensNow, Granted
<1> QED BY <1>2, <1>3

LEMMA CountingClose ==
  ASSUME DInv, NEW s \in Sems, SemClose(s), s \in opened[current]
  PROVE  Counting!Destroy(s) \/ UNCHANGED Counting!vars
<1>1. waiting' = waiting /\ value \in [Sems -> 0..MaxValue] /\ blocked \in [Sems -> Seq(UserPids)]
      /\ s \in open /\ InUserCode
  BY DEF SemClose, DInv, SemInv, SemTypeOK, GetSemaphore
<1>2. current \in Pids /\ waiting[current] = None
  BY <1>1, CallerFacts
<1>3. current \in Openers(s)
  BY <1>2 DEF Openers
<1>4. listening[s] = Cardinality(Openers(s)) /\ listening[s] \in Nat /\ listening[s] > 0
  BY <1>3, OpenersType DEF DInv, OpenersCounted
<1>5. IF listening[s] - 1 = 0 THEN RemoveSemaphore(s) ELSE UNCHANGED <<open, value, blocked>>
  BY <1>4 DEF SemClose
<1>6. CASE listening[s] - 1 = 0
  <2>1. open' = open \ {s} /\ value' = [value EXCEPT ![s] = 0] /\ blocked' = [blocked EXCEPT ![s] = <<>>]
    BY <1>5, <1>6 DEF RemoveSemaphore
  <2>2. Cardinality(Openers(s) \ {current}) = 0 /\ Openers(s) \ {current} \in SUBSET Pids
    BY <1>3, <1>4, <1>6, OpenersType, PidsFinite
  <2>3. Openers(s) \ {current} = {}
    BY <2>2, PidsFinite
  <2>4. \A p \in Pids : waiting[p] # s
    BY <1>2, <2>3, SemAssumption DEF Openers, DInv, WaitingOK
  <2>5. \A k \in Sems : k # s => value'[k] = value[k] /\ Granted(k)' = Granted(k)
    BY <1>1, <2>1 DEF Granted
  <2>6. Granted(s)' = {} /\ value'[s] = 0
    BY <1>1, <2>1, <2>4 DEF Granted
  <2>7. 0 = value'[s] + Cardinality(Granted(s)')
    BY <2>6, FS_EmptySet
  <2>8. TokensNow' = [TokensNow EXCEPT ![s] = 0]
    BY <2>5, <2>7, TokensMoved DEF DInv
  <2> QED BY <1>1, <2>1, <2>4, <2>8 DEF Counting!Destroy, TokensNow, Granted
<1>7. CASE listening[s] - 1 # 0
  BY <1>1, <1>5, <1>7 DEF Counting!vars
<1> QED BY <1>6, <1>7

LEMMA CountingWait ==
  ASSUME DInv, NEW s \in Sems, SemWait(s)
  PROVE  Counting!Acquire(s) \/ \E p \in Pids : Counting!Sleep(p, s)
<1>1. InUserCode /\ s \in open /\ open' = open
  BY DEF SemWait, GetSemaphore
<1>2. current \in Pids /\ current \in UserPids /\ waiting[current] = None
  BY <1>1, CallerFacts
<1>3. /\ value \in [Sems -> 0..MaxValue] /\ blocked \in [Sems -> Seq(UserPids)]
      /\ waiting \in [Pids -> Sems \cup {None}] /\ SemInv
  BY DEF DInv, SemInv, SemTypeOK
<1>4. CASE Available(s)
  <2>1. value[s] > 0 /\ value' = [value EXCEPT ![s] = @ - 1] /\ UNCHANGED <<blocked, waiting>>
    BY <1>4 DEF SemWait, Available
  <2>2. \A k \in Sems : Granted(k)' = Granted(k)
    BY <2>1 DEF Granted
  <2>3. value'[s] = value[s] - 1 /\ \A k \in Sems : k # s => value'[k] = value[k]
    BY <1>3, <2>1
  <2>4. TokensNow[s] = value[s] + Cardinality(Granted(s)) /\ Cardinality(Granted(s)) \in Nat
        /\ value[s] \in Nat
    BY <1>3, TokensType
  <2>5. TokensNow[s] > 0 /\ TokensNow[s] - 1 = value'[s] + Cardinality(Granted(s)')
    BY <2>1, <2>2, <2>3, <2>4
  <2>6. TokensNow' = [TokensNow EXCEPT ![s] = TokensNow[s] - 1]
    BY <1>3, <2>2, <2>3, <2>5, TokensMoved
  <2>7. Counting!Acquire(s)
    BY <1>1, <2>1, <2>5, <2>6 DEF Counting!Acquire, TokensNow, Granted
  <2> QED BY <2>7
<1>5. CASE ~Available(s)
  <2>1. /\ blocked' = [blocked EXCEPT ![s] = Append(@, current)]
        /\ waiting' = [waiting EXCEPT ![current] = s] /\ value' = value
    BY <1>5 DEF SemWait
  <2>2. Range(blocked'[s]) = Range(blocked[s]) \cup {current}
    BY <1>2, <1>3, <2>1, AppendRange
  <2>3. Granted(s)' = Granted(s)
    BY <1>2, <1>3, <2>1, <2>2, SemAssumption DEF Granted
  <2>4. \A k \in Sems : k # s => Granted(k)' = Granted(k)
    BY <1>2, <1>3, <2>1, SemAssumption DEF Granted
  <2>5. TokensNow' = TokensNow
    BY <2>1, <2>3, <2>4, TokensKept
  <2>6. Counting!Sleep(current, s)
    BY <1>1, <1>2, <2>1, <2>5 DEF Counting!Sleep, TokensNow, Granted
  <2> QED BY <1>2, <2>6
<1> QED BY <1>4, <1>5

LEMMA CountingPost ==
  ASSUME DInv, NEW s \in Sems, SemPost(s)
  PROVE  Counting!Post(s)
<1>1. cpu = "user" /\ s \in open /\ UNCHANGED <<open, waiting>>
  BY DEF SemPost, GetSemaphore
<1>2. /\ value \in [Sems -> 0..MaxValue] /\ blocked \in [Sems -> Seq(UserPids)] /\ SemInv
  BY DEF DInv, SemInv, SemTypeOK
<1>3. TokensNow[s] = value[s] + Cardinality(Granted(s)) /\ Cardinality(Granted(s)) \in Nat
      /\ value[s] \in Nat
  BY <1>2, TokensType
<1>4. CASE blocked[s] = <<>>
  <2>1. value' = [value EXCEPT ![s] = @ + 1] /\ blocked' = blocked
    BY <1>4 DEF SemPost, PostEffect
  <2>2. \A k \in Sems : Granted(k)' = Granted(k)
    BY <1>1, <2>1 DEF Granted
  <2>3. value'[s] = value[s] + 1 /\ \A k \in Sems : k # s => value'[k] = value[k]
    BY <1>2, <2>1
  <2>4. TokensNow[s] + 1 = value'[s] + Cardinality(Granted(s)')
    BY <1>3, <2>2, <2>3
  <2>5. TokensNow' = [TokensNow EXCEPT ![s] = TokensNow[s] + 1]
    BY <1>2, <2>2, <2>3, <2>4, TokensMoved
  <2> QED BY <1>1, <2>5 DEF Counting!Post, TokensNow, Granted
<1>5. CASE blocked[s] # <<>>
  <2>1. blocked' = [blocked EXCEPT ![s] = Tail(@)] /\ ReadyProcess(Head(blocked[s])) /\ value' = value
    BY <1>5 DEF SemPost, PostEffect, UnblockSemProcess
  <2>2. PICK h \in UserPids : h = Head(blocked[s]) /\ h \in Pids /\ waiting[h] = s
    BY <1>1, <1>5, <2>1, PostReadies
  <2>3. IsInjective(blocked[s])
    BY DEF DInv, WaitersExact
  <2>4. Range(blocked'[s]) = Range(blocked[s]) \ {h} /\ h \in Range(blocked[s])
    BY <1>2, <1>5, <2>1, <2>2, <2>3, TailQueue
  <2>5. Granted(s)' = Granted(s) \cup {h} /\ h \in Pids \ Granted(s)
    BY <1>1, <2>2, <2>4 DEF Granted
  <2>6. Cardinality(Granted(s)') = Cardinality(Granted(s)) + 1
    <3>1. PICK G \in SUBSET Pids : G = Granted(s)
      BY <1>2, TokensType
    <3>2. Cardinality(G \cup {h}) = Cardinality(G) + 1
      BY <2>5, <3>1, PidsFinite
    <3> QED BY <2>5, <3>1, <3>2
  <2>7. \A k \in Sems : k # s => value'[k] = value[k] /\ Granted(k)' = Granted(k)
    BY <1>1, <1>2, <2>1 DEF Granted
  <2>8. TokensNow[s] + 1 = value'[s] + Cardinality(Granted(s)')
    BY <1>3, <2>1, <2>6
  <2>9. TokensNow' = [TokensNow EXCEPT ![s] = TokensNow[s] + 1]
    BY <1>2, <2>7, <2>8, TokensMoved
  <2> QED BY <1>1, <2>9 DEF Counting!Post, TokensNow, Granted
<1> QED BY <1>4, <1>5

(* A process that goes on behind semWait is READY, so it is on no list. *)
LEMMA CountingResume ==
  ASSUME DInv, Resume
  PROVE  (\E p \in Pids : Counting!Return(p)) \/ UNCHANGED Counting!vars
<1>1. /\ waiting' = [waiting EXCEPT ![current] = None]
      /\ UNCHANGED <<open, value, blocked>> /\ state[current] = "READY" /\ cpu = "dispatch"
  BY DEF Resume, Dispatch, semData
<1>2. /\ current \in Pids /\ waiting \in [Pids -> Sems \cup {None}] /\ SemInv
  BY <1>1 DEF DInv, SemInv, SemTypeOK, IInv, PhaseOK, UserPids
<1>3. CASE waiting[current] = None
  BY <1>1, <1>2, <1>3 DEF Counting!vars
<1>4. CASE waiting[current] # None
  <2>1. PICK s \in Sems : waiting[current] = s
    BY <1>2, <1>4
  <2>2. current \notin Range(blocked[s])
    BY <1>1, <2>1 DEF DInv, WaitersExact
  <2>3. Granted(s)' = Granted(s) \ {current} /\ current \in Granted(s)
    BY <1>1, <1>2, <2>1, <2>2, SemAssumption DEF Granted
  <2>4. \A k \in Sems : k # s => value'[k] = value[k] /\ Granted(k)' = Granted(k)
    BY <1>1, <1>2, <2>1, SemAssumption DEF Granted
  <2>5. TokensNow[s] = value[s] + Cardinality(Granted(s)) /\ Cardinality(Granted(s)) \in Nat
        /\ value[s] \in Nat /\ Granted(s) \in SUBSET Pids
    BY <1>2, <2>1, TokensType
  <2>6. Cardinality(Granted(s)') = Cardinality(Granted(s)) - 1 /\ Cardinality(Granted(s)) # 0
    BY <2>3, <2>5, PidsFinite
  <2>7. TokensNow[s] > 0 /\ TokensNow[s] - 1 = value'[s] + Cardinality(Granted(s)')
    BY <1>1, <2>5, <2>6
  <2>8. TokensNow' = [TokensNow EXCEPT ![s] = TokensNow[s] - 1]
    BY <1>2, <2>1, <2>4, <2>7, TokensMoved
  <2>9. PICK p \in Pids : p = current
    BY <1>2
  <2>10. Counting!Return(p)
    BY <1>1, <1>4, <2>1, <2>7, <2>8, <2>9 DEF Counting!Return, TokensNow, Granted
  <2> QED BY <2>10
<1> QED BY <1>3, <1>4

LEMMA CountingStep ==
  DInv /\ [DisciplinedNext]_allVars => [Counting!Next]_(Counting!vars)
<1> SUFFICES ASSUME DInv, [DisciplinedNext]_allVars
             PROVE  Counting!Next \/ UNCHANGED Counting!vars
  OBVIOUS
<1>1. CASE \E s \in Sems : SemOpen(s)
  BY <1>1, CountingOpen DEF Counting!Next
<1>2. CASE \E s \in Sems : s \in opened[current] /\ SemClose(s)
  BY <1>2, CountingClose DEF Counting!Next
<1>3. CASE \E s \in Sems : SemWait(s)
  BY <1>3, CountingWait DEF Counting!Next
<1>4. CASE \E s \in Sems : SemPost(s)
  BY <1>4, CountingPost DEF Counting!Next
<1>5. CASE Resume
  BY <1>5, CountingResume DEF Counting!Next
<1>6. CASE UNCHANGED semVars
  BY <1>6 DEF semVars, semData, Counting!vars
<1>7. ASSUME NEW s \in Sems, SemClose(s)
      PROVE  current \in Pids
  BY <1>7, CallerFacts DEF SemClose
<1> QED BY <1>1, <1>2, <1>3, <1>4, <1>5, <1>6, <1>7 DEF DisciplinedNext, allVars

(* Of disciplined programs, any number of them: every return from semWait  *)
(* has a token of its own, and tokens come only from semOpen and semPost.  *)
THEOREM CountingRefinement == DisciplinedSpec => ImplementsCounting
<1>1. SemInit => Counting!Init
  <2> SUFFICES ASSUME SemInit PROVE Counting!Init
    OBVIOUS
  <2>1. \A s \in Sems : Granted(s) = {} /\ value[s] = 0
    BY SemAssumption DEF SemInit, Granted
  <2>2. \A s \in Sems : value[s] + Cardinality(Granted(s)) = 0
    BY <2>1, FS_EmptySet
  <2>3. TokensNow = [s \in Sems |-> 0]
    BY <2>2 DEF TokensNow
  <2> QED BY <2>3 DEF SemInit, Counting!Init, TokensNow, Granted
<1> QED BY <1>1, CountingStep, DisciplinedInvariance, PTL
    DEF DisciplinedSpec, ImplementsCounting, Counting!Spec
=============================================================================
