--------------------------- MODULE ProcessManager ---------------------------
(***************************************************************************)
(* The process manager of the DOG-OS kernel                                *)
(* (Kernel/processManagement/processManager.c): the process table, the     *)
(* round-robin run queue with its separate count of READY nodes, and the   *)
(* context switch that every timer tick performs.                          *)
(*                                                                         *)
(* System calls, IRQ handlers and exceptions run through interrupt gates,  *)
(* with interrupts disabled, so each of them is one action up to the point *)
(* where it raises int 20h itself (_callTimerTick).  From there the CPU is *)
(* in the middle of a kernel operation and only the context switch can     *)
(* follow; `cpu` records that.                                             *)
(***************************************************************************)
EXTENDS Integers, Sequences, FiniteSets, Functions

CONSTANTS
  MaxPid,        \* bound: pids run from 0 to MaxPid; getPID() has no bound
  MAX_PRIORITY,  \* the limit setPriority clamps to (50 in the kernel)
  PriorityArgs,  \* the values user code passes to setPriority, any C ints
  NULL           \* the null process pointer

ASSUME PMAssumption ==
  /\ MaxPid \in Nat \ {0}
  /\ MAX_PRIORITY \in Nat /\ MAX_PRIORITY >= 2
  /\ PriorityArgs \subseteq Int
  /\ NULL \notin Nat

Pids == 0..MaxPid
Base == 0                          \* the pid of baseProcess, the idle process
UserPids == Pids \ {Base}

BACKGROUND_PRIORITY_DEFAULT == 1
FOREGROUND_PRIORITY_DEFAULT == 2

(* t_state, and FREE for a pid that has no process node (not created yet   *)
(* or already given back by freeProcess).                                  *)
States == {"READY", "BLOCKED", "TERMINATED"}
PidStates == States \cup {"FREE"}

VARIABLES
  state,       \* pid -> pcb.state, or FREE
  ppid,        \* pid -> pcb.ppid
  foreground,  \* pid -> pcb.foreground
  priority,    \* pid -> pcb.priority
  queue,       \* the nodes of `processes`, first to last
  readySize,   \* processes->readySize
  current,     \* currentProcess: a pid, or NULL before the first tick
  cyclesLeft,  \* ticks the running process still has
  currentPID,  \* the next pid getPID() hands out
  cpu          \* "user": interrupts enabled; "trap": the kernel raised int
               \* 20h; "switch", "dispatch": inside processManager()

pcbVars == <<ppid, foreground, priority>>
listVars == <<queue, readySize>>
runVars == <<current, cyclesLeft>>
vars == <<state, pcbVars, listVars, runVars, currentPID, cpu>>

(* The state main() leaves when it executes its first hlt: baseProcess was *)
(* created, queued and taken off the queue; "Userland Init" (pid 1) is     *)
(* queued; nothing has run, so currentProcess is NULL.                     *)
Init ==
  /\ state = [p \in Pids |-> IF p \in {Base, 1} THEN "READY" ELSE "FREE"]
  /\ ppid = [p \in Pids |-> 0]
  /\ foreground = [p \in Pids |-> p = 1]
  /\ priority = [p \in Pids |-> IF p = 1 THEN FOREGROUND_PRIORITY_DEFAULT
                                         ELSE BACKGROUND_PRIORITY_DEFAULT]
  /\ queue = <<1>>
  /\ readySize = 1
  /\ current = NULL
  /\ cyclesLeft = 0
  /\ currentPID = 2
  /\ cpu = "user"

-----------------------------------------------------------------------------
(* What a node in state s adds to readySize. *)
Counted(s) == IF s = "READY" THEN 1 ELSE 0

(* getProcess(pid) # NULL: the running process or a queued one.            *)
(* baseProcess is never queued, so pid 0 is found only while it runs.      *)
GetProcess(pid) == pid = current \/ pid \in Range(queue)

(* Mutant of QueueProcess: the node goes to the front of the list. *)
QueueProcessFirst(pid) ==
  /\ queue' = <<pid>> \o queue
  /\ readySize' = readySize + Counted(state[pid])

(* queueProcess: append, and count the node if it is READY. *)
QueueProcess(pid) ==
  /\ queue' = Append(queue, pid)
  /\ readySize' = readySize + Counted(state[pid])

(* dequeueProcess: take the first node into currentProcess, or NULL from   *)
(* an empty list.                                                          *)
DequeueInto(q) ==
  IF q = <<>>
  THEN current' = NULL /\ queue' = q /\ UNCHANGED readySize
  ELSE /\ current' = Head(q)
       /\ queue' = Tail(q)
       /\ readySize' = readySize - Counted(state[Head(q)])

(* Mutant of SetState: the running process is counted like a queued one. *)
SetStateCountsRunning(pid, newState) ==
  IF GetProcess(pid) /\ state[pid] # "TERMINATED"
  THEN /\ state' = [state EXCEPT ![pid] = newState]
       /\ readySize' = readySize + Counted(newState) - Counted(state[pid])
  ELSE UNCHANGED <<state, readySize>>

(* Mutant of SetState: readySize is raised but never lowered. *)
SetStateOnlyRaises(pid, newState) ==
  IF GetProcess(pid) /\ state[pid] # "TERMINATED"
  THEN /\ state' = [state EXCEPT ![pid] = newState]
       /\ readySize' = IF pid # current /\ state[pid] # "READY"
                       THEN readySize + Counted(newState)
                       ELSE readySize
  ELSE UNCHANGED <<state, readySize>>

(* setState: refused for an unknown or TERMINATED process; the running     *)
(* process is not on the list, so its changes are not counted.             *)
SetState(pid, newState) ==
  IF GetProcess(pid) /\ state[pid] # "TERMINATED"
  THEN /\ state' = [state EXCEPT ![pid] = newState]
       /\ readySize' = IF pid = current
                       THEN readySize
                       ELSE readySize + Counted(newState) - Counted(state[pid])
  ELSE UNCHANGED <<state, readySize>>

(* The common tail of killProcess and blockProcess. *)
TrapIfRunning(pid) == cpu' = IF pid = current THEN "trap" ELSE cpu

KillProcess(pid) ==
  /\ SetState(pid, "TERMINATED")
  /\ TrapIfRunning(pid)
  /\ UNCHANGED <<pcbVars, queue, runVars, currentPID>>

BlockProcess(pid) ==
  /\ SetState(pid, "BLOCKED")
  /\ TrapIfRunning(pid)
  /\ UNCHANGED <<pcbVars, queue, runVars, currentPID>>

ReadyProcess(pid) ==
  /\ SetState(pid, "READY")
  /\ UNCHANGED <<pcbVars, queue, runVars, currentPID, cpu>>
-----------------------------------------------------------------------------
(* System calls (int 80h): a process other than the idle one runs with     *)
(* interrupts enabled and enters the kernel.                               *)
InUserCode == cpu = "user" /\ current \notin {NULL, Base}

SysKill == InUserCode /\ \E pid \in Pids : KillProcess(pid)

SysBlock == InUserCode /\ \E pid \in Pids : BlockProcess(pid)

SysReady == InUserCode /\ \E pid \in Pids : ReadyProcess(pid)

(* setState as a system call: unlike killProcess and blockProcess it does  *)
(* not give the CPU up, even when the caller changed its own state.        *)
SysSetState ==
  /\ InUserCode
  /\ \E pid \in Pids, newState \in States : SetState(pid, newState)
  /\ UNCHANGED <<pcbVars, queue, runVars, currentPID, cpu>>

(* yield *)
Yield ==
  /\ InUserCode
  /\ cyclesLeft' = 0
  /\ cpu' = "trap"
  /\ UNCHANGED <<state, pcbVars, listVars, current, currentPID>>

(* Mutant of ClampPriority: no upper limit. *)
ClampPriorityBelow(n) == IF n < 0 THEN 0 ELSE n

(* setPriority, with its clamp to 0..MAX_PRIORITY. *)
ClampPriority(n) == IF n < 0 THEN 0 ELSE IF n > MAX_PRIORITY THEN MAX_PRIORITY ELSE n

SetPriority ==
  /\ InUserCode
  /\ \E pid \in Pids, newPriority \in PriorityArgs :
       /\ GetProcess(pid)
       /\ priority' = [priority EXCEPT ![pid] = ClampPriority(newPriority)]
  /\ UNCHANGED <<state, ppid, foreground, listVars, runVars, currentPID, cpu>>

(* wait: bring the process to the foreground and block the caller. *)
Wait ==
  /\ InUserCode
  /\ \E pid \in Pids :
       /\ GetProcess(pid)
       /\ foreground' = [foreground EXCEPT ![pid] = TRUE]
  /\ SetState(current, "BLOCKED")
  /\ TrapIfRunning(current)
  /\ UNCHANGED <<ppid, priority, queue, runVars, currentPID>>

(* newProcess.  A background process only has background children; a       *)
(* foreground child blocks its creator.                                    *)
NewProcess ==
  /\ InUserCode
  /\ currentPID \in Pids
  /\ \E fg \in BOOLEAN :
       LET child == currentPID
           childFg == foreground[current] /\ fg
       IN /\ state' = [state EXCEPT
                         ![child] = "READY",
                         ![current] = IF childFg /\ @ # "TERMINATED"
                                      THEN "BLOCKED" ELSE @]
          /\ ppid' = [ppid EXCEPT ![child] = current]
          /\ foreground' = [foreground EXCEPT ![child] = childFg]
          /\ priority' = [priority EXCEPT
                            ![child] = IF childFg THEN FOREGROUND_PRIORITY_DEFAULT
                                                  ELSE BACKGROUND_PRIORITY_DEFAULT]
          /\ queue' = Append(queue, child)
          /\ readySize' = readySize + 1
          /\ cpu' = IF childFg THEN "trap" ELSE cpu
  /\ currentPID' = currentPID + 1
  /\ UNCHANGED runVars

(* newProcess returning -1 after initializeProcessControlBlock took a pid: *)
(* foreground > 1, or no memory for the stack or the arguments.            *)
NewProcessFails ==
  /\ InUserCode
  /\ currentPID \in Pids
  /\ currentPID' = currentPID + 1
  /\ UNCHANGED <<state, pcbVars, listVars, runVars, cpu>>

(* The end of a process: end(), which its stack frame returns to, and the  *)
(* exception handler kill the process that runs.                           *)
Exit == InUserCode /\ KillProcess(current)

(* Ctrl+C in the keyboard IRQ: kills the process that runs, if it is a     *)
(* READY foreground one; otherwise nothing happens.                        *)
Interruptible == current # NULL /\ foreground[current] /\ state[current] = "READY"

KillCurrentFGProcess == cpu = "user" /\ Interruptible /\ KillProcess(current)

(* The keyboard IRQ posts the semaphore of the keyboard: the first waiter  *)
(* on its list is readied, whoever has the CPU, the idle process included. *)
KeyboardWakes == cpu = "user" /\ \E pid \in UserPids : ReadyProcess(pid)
-----------------------------------------------------------------------------
(* processManager(), entered by IRQ 0 or by _callTimerTick. *)
TimerEntry == cpu \in {"user", "trap"}

KeepsRunning == current # NULL /\ state[current] = "READY" /\ cyclesLeft > 0

(* Mutant of TimerKeep: the cycles of the running process are not used up. *)
TimerKeepForever ==
  /\ TimerEntry
  /\ KeepsRunning
  /\ cpu' = "user"
  /\ UNCHANGED <<state, pcbVars, listVars, runVars, currentPID>>

(* The running process has cycles left: it goes on. *)
TimerKeep ==
  /\ TimerEntry
  /\ KeepsRunning
  /\ cyclesLeft' = cyclesLeft - 1
  /\ cpu' = "user"
  /\ UNCHANGED <<state, pcbVars, listVars, current, currentPID>>

(* From here on currentProcess points to a node that was queued or freed   *)
(* and nothing reads it until it is assigned again: current' = NULL.       *)
LeaveCPU ==
  /\ current' = NULL
  /\ cpu' = "switch"
  /\ UNCHANGED <<pcbVars, cyclesLeft, currentPID>>

(* The interrupted process is put back at the end of the queue, unless     *)
(* there is none (first tick) or it is the idle process.                   *)
TimerPreempt ==
  /\ TimerEntry
  /\ ~KeepsRunning
  /\ IF current \in {NULL, Base}
     THEN UNCHANGED listVars
     ELSE state[current] # "TERMINATED" /\ QueueProcess(current)
  /\ UNCHANGED state
  /\ LeaveCPU

(* Mutant of ParentWaits: looks at the parent's foreground flag. *)
ForegroundParentWaits(p) ==
  foreground[ppid[p]] /\ GetProcess(ppid[p]) /\ state[ppid[p]] = "BLOCKED"

(* The interrupted process was killed: its blocked parent becomes READY if *)
(* it was a foreground process, and its memory is freed.                   *)
ParentWaits(p) ==
  foreground[p] /\ GetProcess(ppid[p]) /\ state[ppid[p]] = "BLOCKED"

TimerReap ==
  /\ TimerEntry
  /\ current \notin {NULL, Base}
  /\ state[current] = "TERMINATED"
  /\ state' = [p \in Pids |->
                 CASE p = current -> "FREE"
                   [] p = ppid[current] /\ ParentWaits(current) -> "READY"
                   [] OTHER -> state[p]]
  /\ readySize' = IF ParentWaits(current) THEN readySize + 1 ELSE readySize
  /\ UNCHANGED queue
  /\ LeaveCPU

(* Mutant of DispatchIdle: off by one in the test of readySize. *)
DispatchIdleEarly ==
  /\ cpu = "switch"
  /\ readySize <= 1
  /\ current' = Base
  /\ cyclesLeft' = priority[Base]
  /\ cpu' = "user"
  /\ UNCHANGED <<state, pcbVars, listVars, currentPID>>

(* readySize == 0: the idle process runs. *)
DispatchIdle ==
  /\ cpu = "switch"
  /\ readySize = 0
  /\ current' = Base
  /\ cyclesLeft' = priority[Base]
  /\ cpu' = "user"
  /\ UNCHANGED <<state, pcbVars, listVars, currentPID>>

(* readySize > 0: take the first node and enter the while loop. *)
DispatchFirst ==
  /\ cpu = "switch"
  /\ readySize # 0
  /\ DequeueInto(queue)
  /\ cpu' = "dispatch"
  /\ UNCHANGED <<state, pcbVars, cyclesLeft, currentPID>>

(* One iteration of the while loop frees a TERMINATED node ...             *)
LoopFree ==
  /\ cpu = "dispatch" /\ current # NULL
  /\ state[current] = "TERMINATED"
  /\ state' = [state EXCEPT ![current] = "FREE"]
  /\ DequeueInto(queue)
  /\ UNCHANGED <<pcbVars, cyclesLeft, currentPID, cpu>>

(* Mutant of LoopRequeue: the BLOCKED node is not put back. *)
LoopRequeueDrops ==
  /\ cpu = "dispatch" /\ current # NULL
  /\ state[current] = "BLOCKED"
  /\ DequeueInto(queue)
  /\ UNCHANGED <<state, pcbVars, cyclesLeft, currentPID, cpu>>

(* ... or puts a BLOCKED one back at the end of the queue. *)
LoopRequeue ==
  /\ cpu = "dispatch" /\ current # NULL
  /\ state[current] = "BLOCKED"
  /\ DequeueInto(Append(queue, current))
  /\ UNCHANGED <<state, pcbVars, cyclesLeft, currentPID, cpu>>

(* The node taken is READY: it runs for priority + 1 ticks. *)
Dispatch ==
  /\ cpu = "dispatch" /\ current # NULL
  /\ state[current] = "READY"
  /\ cyclesLeft' = priority[current]
  /\ cpu' = "user"
  /\ UNCHANGED <<state, pcbVars, listVars, current, currentPID>>

Tick == TimerKeep \/ TimerPreempt \/ TimerReap
DispatchStep == DispatchIdle \/ DispatchFirst \/ LoopFree \/ LoopRequeue \/ Dispatch

Next ==
  \/ SysKill \/ SysBlock \/ SysReady \/ SysSetState
  \/ Yield \/ SetPriority \/ Wait
  \/ NewProcess \/ NewProcessFails
  \/ Exit \/ KillCurrentFGProcess \/ KeyboardWakes
  \/ Tick \/ DispatchStep

(* The timer interrupts for ever and the kernel code it runs goes on.      *)
(* Nothing is assumed of what user processes do.                           *)
Fairness == WF_vars(Tick) /\ WF_vars(DispatchStep)

Spec == Init /\ [][Next]_vars
FairSpec == Spec /\ Fairness
-----------------------------------------------------------------------------
(* Every variable keeps its type. *)
TypeOK ==
  /\ state \in [Pids -> PidStates]
  /\ ppid \in [Pids -> Pids]
  /\ foreground \in [Pids -> BOOLEAN]
  /\ priority \in [Pids -> 0..MAX_PRIORITY]
  /\ queue \in Seq(UserPids)
  /\ readySize \in Nat
  /\ current \in Pids \cup {NULL}
  /\ cyclesLeft \in 0..MAX_PRIORITY
  /\ currentPID \in 2..(MaxPid + 1)
  /\ cpu \in {"user", "trap", "switch", "dispatch"}

ReadyQueued == {p \in Range(queue) : state[p] = "READY"}

(* A process that exists is in exactly one place: it is running, or it is  *)
(* on the list exactly once, whatever was done to it; the idle process is  *)
(* never on the list.  A node in two places is run twice or freed twice; a *)
(* node in none is unreachable for kill, unblock and the scheduler.        *)
NoProcessLost ==
  /\ IsInjective(queue)
  /\ current \notin Range(queue)
  /\ {p \in UserPids : state[p] # "FREE"}
       = Range(queue) \cup ({current} \cap UserPids)

(* readySize, which setState, queueProcess and dequeueProcess all adjust   *)
(* on their own, is the number of READY nodes of the list.                 *)
ReadySizeExact == readySize = Cardinality(ReadyQueued)

(* The while loop of processManager never dequeues from an empty list, so  *)
(* it never dereferences NULL: as long as it has not found a READY node    *)
(* there is one on the list.                                               *)
DispatchFindsReady ==
  cpu = "dispatch" => /\ current # NULL
                      /\ state[current] = "READY" \/ ReadyQueued # {}

(* The nodes in front of p on the list. *)
Ahead(p) ==
  {queue[i] : i \in {i \in DOMAIN queue :
                       \E j \in DOMAIN queue : i < j /\ queue[j] = p}}

(* Round robin: while a READY process waits on the list, nobody gets in    *)
(* front of it and nobody gets the CPU that was not in front of it,        *)
(* whatever is preempted, killed, blocked, readied or created meanwhile.   *)
NoOvertaking ==
  [][\A p \in ReadyQueued :
       p \in Range(queue)' =>
         /\ Ahead(p)' \subseteq Ahead(p)
         /\ current' \in {current, NULL} \cup Ahead(p)]_vars

(* The process manager implements the abstract scheduler: the CPU goes     *)
(* only to READY processes, to the idle one only when no other is READY,   *)
(* killed processes only disappear, and pids are handed out once.          *)
Abstract == INSTANCE Scheduler WITH
  life <- state,
  running <- IF cpu \in {"user", "trap"} THEN current ELSE NULL,
  nextPid <- currentPID

ImplementsScheduler == Abstract!Spec

(* A READY process on the list gets the CPU, unless it is blocked or       *)
(* killed first.                                                           *)
ReadyGetsCPU ==
  \A p \in UserPids :
    (p \in ReadyQueued) ~> ((current = p /\ cpu = "user") \/ state[p] # "READY")
=============================================================================
