-------------------------------- MODULE Pipes --------------------------------
(***************************************************************************)
(* The pipes of the kernel (Kernel/pipes/pipes.c): a table of ring buffers *)
(* of characters, each guarded by two semaphores, readLock for the         *)
(* characters in the buffer and writeLock for the room in it.              *)
(*                                                                         *)
(* A system call runs with interrupts disabled until it sleeps in semWait; *)
(* inKernel holds the kernel for a pipeWrite between two characters.  A    *)
(* process that sleeps keeps its pointer to the slot of the pipe, and goes *)
(* on with whatever that slot holds when semPost has woken it and it is    *)
(* dispatched.  The semaphores are those of module Semaphores, seen from   *)
(* here: a value, and a list of sleeping processes semPost wakes in order. *)
(***************************************************************************)
EXTENDS Integers, Sequences, FiniteSets

CONSTANTS
  Procs,
  PipeIds,           \* the values of pipeId
  MAX_PIPES,         \* 8
  PIPE_BUFFER_SIZE,  \* 1024
  Chars,             \* characters other than 0
  Strings,           \* the strings written, without their 0
  MaxTotal,          \* bound on totalProcesses
  Nothing            \* the result -1 of a call; also an empty buffer cell

ASSUME PipesAssumption ==
  /\ IsFiniteSet(Procs)
  /\ PipeIds \subseteq Nat
  /\ MAX_PIPES \in Nat \ {0}
  /\ PIPE_BUFFER_SIZE \in Nat \ {0}
  /\ Strings \subseteq Seq(Chars)
  /\ MaxTotal \in Nat
  /\ Nothing \notin Chars \cup Procs

Slots == 0..(MAX_PIPES - 1)
Cells == 0..(PIPE_BUFFER_SIZE - 1)
Locks == {"readLock", "writeLock"}

VARIABLES
  inUse,           \* the slots whose state is IN_USE
  id,              \* the fields of t_pipe, slot by slot
  buffer,
  readIndex,
  writeIndex,
  totalProcesses,
  value,           \* slot, lock -> value of the semaphore
  waiters,         \* slot, lock -> blockedProcesses of the semaphore
  asleep,          \* the processes that are BLOCKED in a semWait
  call,            \* process -> the call it is inside: what it still has to do
  inKernel,        \* the process inside pipeWrite, or Nothing
  returned,        \* the result of the last pipeRead that returned
  opened           \* history: process -> the pipe ids it opened, not closed

semaphores == <<value, waiters, asleep>>
pipeTable == <<inUse, id, totalProcesses>>
rings == <<buffer, readIndex, writeIndex>>
vars == <<pipeTable, rings, semaphores, call, inKernel, returned, opened>>

(* A process in user code, and one inside a call on a slot. *)
NoCall == [op |-> "none", slot |-> 0, rest |-> <<>>]
Call(op, slot, rest) == [op |-> op, slot |-> slot, rest |-> rest]

(* The semaphores of a slot as semOpen makes them, or none. *)
Tokens(read, write) == [l \in Locks |-> IF l = "readLock" THEN read ELSE write]
NoWaiters == [l \in Locks |-> <<>>]

(* pipes is static, hence zero. *)
Init ==
  /\ inUse = {}
  /\ id = [s \in Slots |-> 0]
  /\ buffer = [s \in Slots |-> [c \in Cells |-> Nothing]]
  /\ readIndex = [s \in Slots |-> 0]
  /\ writeIndex = [s \in Slots |-> 0]
  /\ totalProcesses = [s \in Slots |-> 0]
  /\ value = [s \in Slots |-> Tokens(0, 0)]
  /\ waiters = [s \in Slots |-> NoWaiters]
  /\ asleep = {}
  /\ call = [p \in Procs |-> NoCall]
  /\ inKernel = Nothing
  /\ returned = Nothing
  /\ opened = [p \in Procs |-> {}]

(* getIndex: the slots in use with that id; there is at most one. *)
Index(pipeId) == {s \in inUse : id[s] = pipeId}

(* p can make a system call: interrupts are enabled. *)
InUserCode(p) == inKernel = Nothing /\ call[p] = NoCall

(* p has been woken in a call and is dispatched. *)
Wakes(p, op) == inKernel = Nothing /\ call[p].op = op /\ p \notin asleep
-----------------------------------------------------------------------------
(* Mutant of SemPost: the token is counted, the sleeper not woken. *)
SemPostCounts(s, lock, v) ==
  /\ value' = IF s \in inUse THEN [v EXCEPT ![s][lock] = @ + 1] ELSE v
  /\ UNCHANGED <<waiters, asleep>>

(* Mutant of SemPost: the sleeper leaves the list and is not made READY. *)
SemPostForgets(s, lock, v) ==
  IF s \notin inUse
  THEN value' = v /\ UNCHANGED <<waiters, asleep>>
  ELSE IF waiters[s][lock] = <<>>
       THEN /\ value' = [v EXCEPT ![s][lock] = @ + 1]
            /\ UNCHANGED <<waiters, asleep>>
       ELSE /\ value' = v
            /\ waiters' = [waiters EXCEPT ![s][lock] = Tail(@)]
            /\ UNCHANGED asleep

(* semPost(lock) after the values have become v: wake the first sleeper or *)
(* count.  A pipe that is not in use has no semaphores.                    *)
SemPost(s, lock, v) ==
  IF s \notin inUse
  THEN value' = v /\ UNCHANGED <<waiters, asleep>>
  ELSE IF waiters[s][lock] = <<>>
       THEN /\ value' = [v EXCEPT ![s][lock] = @ + 1]
            /\ UNCHANGED <<waiters, asleep>>
       ELSE /\ value' = v
            /\ waiters' = [waiters EXCEPT ![s][lock] = Tail(@)]
            /\ asleep' = asleep \ {Head(waiters[s][lock])}

(* semWait(lock) with no token: p is appended to the list and sleeps. *)
Sleep(p, s, lock) ==
  /\ waiters' = [waiters EXCEPT ![s][lock] = Append(@, p)]
  /\ asleep' = asleep \cup {p}
  /\ UNCHANGED value

(* semWait(lock) goes through: it finds a token, or no semaphore. *)
Passes(s, lock) == s \in inUse => value[s][lock] > 0
Taken(s, lock) == IF s \in inUse THEN [value EXCEPT ![s][lock] = @ - 1] ELSE value
-----------------------------------------------------------------------------
(* createPipe, with the semaphores it opens.  The first free slot is taken. *)
CreateIn(s, pipeId) ==
  /\ s \notin inUse
  /\ \A r \in Slots \ inUse : s <= r
  /\ inUse' = inUse \cup {s}
  /\ id' = [id EXCEPT ![s] = pipeId]
  /\ readIndex' = [readIndex EXCEPT ![s] = 0]
  /\ writeIndex' = [writeIndex EXCEPT ![s] = 0]
  /\ value' = [value EXCEPT ![s] = Tokens(0, PIPE_BUFFER_SIZE)]
  /\ waiters' = [waiters EXCEPT ![s] = NoWaiters]
  /\ UNCHANGED <<buffer, asleep>>

(* pipeOpen.  createPipe returns the id, not the slot, so the opener that  *)
(* creates the pipe is counted in pipes[pipeId]: in another slot, or       *)
(* beyond the table, which is outside of this model.                       *)
PipeOpen(p, pipeId) ==
  /\ InUserCode(p)
  /\ IF Index(pipeId) # {}
     THEN \E s \in Index(pipeId) :
            /\ totalProcesses[s] < MaxTotal
            /\ totalProcesses' = [totalProcesses EXCEPT ![s] = @ + 1]
            /\ UNCHANGED <<inUse, id, rings, semaphores>>
     ELSE \E s \in Slots :
            /\ CreateIn(s, pipeId)
            /\ totalProcesses' =
                 [r \in Slots |-> (IF r = s THEN 0 ELSE totalProcesses[r])
                                    + (IF r = pipeId THEN 1 ELSE 0)]
            /\ \A r \in Slots : totalProcesses'[r] <= MaxTotal
  /\ opened' = [opened EXCEPT ![p] = @ \cup {pipeId}]
  /\ UNCHANGED <<call, inKernel, returned>>

(* pipeClose: nobody else counted frees the slot and both semaphores. *)
PipeClose(p, pipeId) ==
  /\ InUserCode(p)
  /\ \E s \in Index(pipeId) :
       /\ totalProcesses' = [totalProcesses EXCEPT ![s] = @ - 1]
       /\ IF totalProcesses'[s] > 0
          THEN UNCHANGED <<inUse, value, waiters>>
          ELSE /\ inUse' = inUse \ {s}
               /\ value' = [value EXCEPT ![s] = Tokens(0, 0)]
               /\ waiters' = [waiters EXCEPT ![s] = NoWaiters]
  /\ opened' = [opened EXCEPT ![p] = @ \ {pipeId}]
  /\ UNCHANGED <<id, rings, asleep, call, inKernel, returned>>
-----------------------------------------------------------------------------
(* Mutant of TakeChar: the room is not given back. *)
TakeCharNoPost(s, v) ==
  /\ returned' = buffer[s][readIndex[s]]
  /\ readIndex' = [readIndex EXCEPT ![s] = (@ + 1) % PIPE_BUFFER_SIZE]
  /\ value' = v
  /\ UNCHANGED <<waiters, asleep>>

(* The second half of pipeRead. *)
TakeChar(s, v) ==
  /\ returned' = buffer[s][readIndex[s]]
  /\ readIndex' = [readIndex EXCEPT ![s] = (@ + 1) % PIPE_BUFFER_SIZE]
  /\ SemPost(s, "writeLock", v)

(* pipeRead of an id no pipe has. *)
ReadNothing(p, pipeId) ==
  /\ InUserCode(p)
  /\ Index(pipeId) = {}
  /\ returned' = Nothing
  /\ UNCHANGED <<pipeTable, rings, semaphores, call, inKernel, opened>>

(* pipeRead that finds a character, and one that has to sleep. *)
PipeRead(p, pipeId) ==
  /\ InUserCode(p)
  /\ \E s \in Index(pipeId) :
       IF Passes(s, "readLock")
       THEN /\ TakeChar(s, Taken(s, "readLock"))
            /\ UNCHANGED call
       ELSE /\ Sleep(p, s, "readLock")
            /\ call' = [call EXCEPT ![p] = Call("read", s, <<>>)]
            /\ UNCHANGED <<readIndex, returned>>
  /\ UNCHANGED <<pipeTable, buffer, writeIndex, inKernel, opened>>

(* The woken reader goes on behind its semWait. *)
ReadGoesOn(p) ==
  /\ Wakes(p, "read")
  /\ TakeChar(call[p].slot, value)
  /\ call' = [call EXCEPT ![p] = NoCall]
  /\ UNCHANGED <<pipeTable, buffer, writeIndex, inKernel, opened>>
-----------------------------------------------------------------------------
(* Mutant of PutChar: the character is stored one cell further. *)
PutCharAhead(p, s, v) ==
  /\ buffer' = [buffer EXCEPT ![s][(writeIndex[s] + 1) % PIPE_BUFFER_SIZE] = Head(call[p].rest)]
  /\ writeIndex' = [writeIndex EXCEPT ![s] = (@ + 1) % PIPE_BUFFER_SIZE]
  /\ call' = [call EXCEPT ![p].rest = Tail(@)]
  /\ SemPost(s, "readLock", v)

(* The second half of pipeWriter. *)
PutChar(p, s, v) ==
  /\ buffer' = [buffer EXCEPT ![s][writeIndex[s]] = Head(call[p].rest)]
  /\ writeIndex' = [writeIndex EXCEPT ![s] = (@ + 1) % PIPE_BUFFER_SIZE]
  /\ call' = [call EXCEPT ![p].rest = Tail(@)]
  /\ SemPost(s, "readLock", v)

(* pipeWrite, up to its loop.  An id no pipe has changes nothing. *)
PipeWrite(p, pipeId, str) ==
  /\ InUserCode(p)
  /\ \E s \in Index(pipeId) : call' = [call EXCEPT ![p] = Call("write", s, str)]
  /\ inKernel' = p
  /\ UNCHANGED <<pipeTable, rings, semaphores, returned, opened>>

(* An iteration of the loop: a call of pipeWriter. *)
WriteChar(p) ==
  /\ inKernel = p
  /\ call[p].rest # <<>>
  /\ LET s == call[p].slot
     IN IF Passes(s, "writeLock")
        THEN /\ PutChar(p, s, Taken(s, "writeLock"))
             /\ UNCHANGED inKernel
        ELSE /\ Sleep(p, s, "writeLock")
             /\ inKernel' = Nothing
             /\ UNCHANGED <<buffer, writeIndex, call>>
  /\ UNCHANGED <<pipeTable, readIndex, returned, opened>>

(* The woken writer goes on behind its semWait. *)
WriteGoesOn(p) ==
  /\ Wakes(p, "write")
  /\ PutChar(p, call[p].slot, value)
  /\ inKernel' = p
  /\ UNCHANGED <<pipeTable, readIndex, returned, opened>>

WriteReturns(p) ==
  /\ inKernel = p
  /\ call[p].rest = <<>>
  /\ call' = [call EXCEPT ![p] = NoCall]
  /\ inKernel' = Nothing
  /\ UNCHANGED <<pipeTable, rings, semaphores, returned, opened>>
-----------------------------------------------------------------------------
GoesOn(p) == ReadGoesOn(p) \/ WriteChar(p) \/ WriteGoesOn(p) \/ WriteReturns(p)

Uses(p, pipeId) ==
  \/ ReadNothing(p, pipeId)
  \/ PipeRead(p, pipeId)
  \/ \E str \in Strings : PipeWrite(p, pipeId, str)

(* One owner opens a pipe, as the shell does, and closes it when no call   *)
(* on it is in progress.                                                   *)
Owned(pipeId) == \E p \in Procs : pipeId \in opened[p]
Quiet(pipeId) ==
  \A p \in Procs, s \in Index(pipeId) : call[p] = NoCall \/ call[p].slot # s

Next ==
  \E p \in Procs :
    \/ GoesOn(p)
    \/ \E pipeId \in PipeIds :
         \/ ~Owned(pipeId) /\ PipeOpen(p, pipeId)
         \/ pipeId \in opened[p] /\ Quiet(pipeId) /\ PipeClose(p, pipeId)
         \/ Uses(p, pipeId)

Spec == Init /\ [][Next]_vars
-----------------------------------------------------------------------------
(* The processes that hold a token of a lock and have not used it yet. *)
Woken(s, op) == {p \in Procs : /\ call[p].op = op /\ call[p].slot = s
                               /\ p \notin asleep /\ p # inKernel}

(* The characters in the buffer of s, and the room in it, as the           *)
(* semaphores and the processes that passed them count them.               *)
Filled(s) == value[s]["readLock"] + Cardinality(Woken(s, "read"))
Room(s) == value[s]["writeLock"] + Cardinality(Woken(s, "write"))

(* The semaphores count the ring buffer: between them every cell is        *)
(* accounted for, and the indices are as far apart as there are characters *)
(* to read.  No write overruns a reader and no read overtakes a writer.    *)
RingExact ==
  \A s \in inUse :
    /\ Filled(s) + Room(s) = PIPE_BUFFER_SIZE
    /\ writeIndex[s] = (readIndex[s] + Filled(s)) % PIPE_BUFFER_SIZE

(* Readers and writers of a pipe are never all asleep: if both sleep, one  *)
(* of those that were woken has yet to go on.                              *)
NoDeadlock ==
  \A s \in inUse :
    (waiters[s]["readLock"] # <<>> /\ waiters[s]["writeLock"] # <<>>)
      => Woken(s, "read") \cup Woken(s, "write") # {}

(* A process sleeps in exactly one list, or, if its call goes on, in none. *)
SleepersListed ==
  \A p \in Procs :
    p \in asleep
      => \E s \in inUse, l \in Locks : \E i \in 1..Len(waiters[s][l]) : waiters[s][l][i] = p

(* pipes implement bounded first-in first-out queues. *)
Contents(s) ==
  IF s \in inUse
  THEN [i \in 1..Filled(s) |-> buffer[s][(readIndex[s] + i - 1) % PIPE_BUFFER_SIZE]]
  ELSE <<>>

Queues == INSTANCE Channel WITH
  Channels <- Slots,
  Capacity <- PIPE_BUFFER_SIZE,
  queue <- [s \in Slots |-> Contents(s)],
  got <- returned

ImplementsChannel == Queues!Spec

=============================================================================
