----------------------------- MODULE Semaphores -----------------------------
(***************************************************************************)
(* The kernel semaphores (Kernel/semaphores/semaphores.c) on top of the    *)
(* process manager: a semWait that finds no token blocks its caller        *)
(* through blockProcess, a semPost that finds a waiter hands the token to  *)
(* it through readyProcess.                                                *)
(*                                                                         *)
(* The spin lock in t_semaphore (acquire and release of lib.asm) is never  *)
(* contended, since all of this runs with interrupts disabled; it is left  *)
(* out.                                                                    *)
(***************************************************************************)
EXTENDS ProcessManager

CONSTANTS
  Sems,                   \* the ids used
  InitialValues,          \* the initial values passed to semOpen
  MAX_BLOCKED_PROCESSES,  \* 20 in semaphores.h: openers, and waiters stored
  MaxValue,               \* bound: semPost stops counting there
  None                    \* not inside any semWait

ASSUME SemAssumption ==
  /\ InitialValues \subseteq 0..MaxValue
  /\ MaxValue \in Nat
  /\ MAX_BLOCKED_PROCESSES \in Nat \ {0}
  /\ None \notin Sems

VARIABLES
  open,       \* the semaphores on the kernel's list
  value,      \* semaphore -> value
  blocked,    \* semaphore -> blockedProcesses[0 .. blockedProcessesAmount - 1]
  listening,  \* semaphore -> listeningProcesses
  waiting,    \* history: process -> the semWait it sleeps in and has not
              \* returned from
  opened      \* history: process -> the semaphores it opened and did not close

semData == <<open, value, blocked, listening>>
semVars == <<semData, waiting, opened>>
allVars == <<vars, semVars>>

SemInit ==
  /\ Init
  /\ open = {}
  /\ value = [s \in Sems |-> 0]
  /\ blocked = [s \in Sems |-> <<>>]
  /\ listening = [s \in Sems |-> 0]
  /\ waiting = [p \in Pids |-> None]
  /\ opened = [p \in Pids |-> {}]

-----------------------------------------------------------------------------
(* getSemaphore finds it on the list. *)
GetSemaphore(s) == s \in open

(* createSemaphore and addSemaphoreToList, with its first opener counted. *)
CreateSemaphore(s) ==
  /\ open' = open \cup {s}
  /\ \E initialValue \in InitialValues :
       value' = [value EXCEPT ![s] = initialValue]
  /\ blocked' = [blocked EXCEPT ![s] = <<>>]
  /\ listening' = [listening EXCEPT ![s] = 1]

(* removeSemaphore: what is left in it goes with it. *)
RemoveSemaphore(s) ==
  /\ open' = open \ {s}
  /\ value' = [value EXCEPT ![s] = 0]
  /\ blocked' = [blocked EXCEPT ![s] = <<>>]

(* unblockSemProcess: the first waiter leaves the array, the others move   *)
(* up.                                                                     *)
UnblockSemProcess(s) ==
  /\ blocked' = [blocked EXCEPT ![s] = Tail(@)]
  /\ ReadyProcess(Head(blocked[s]))

(* Mutant of SemOpen: no limit on the number of openers. *)
SemOpenUnlimited(s) ==
  /\ InUserCode
  /\ IF GetSemaphore(s)
     THEN listening' = [listening EXCEPT ![s] = @ + 1] /\ UNCHANGED <<open, value, blocked>>
     ELSE CreateSemaphore(s)
  /\ opened' = [opened EXCEPT ![current] = @ \cup {s}]
  /\ UNCHANGED <<vars, waiting>>

(* semOpen: creates the semaphore if it is not on the list (initialValue   *)
(* is ignored if it is), refuses a 21st opener.                            *)
SemOpen(s) ==
  /\ InUserCode
  /\ IF GetSemaphore(s)
     THEN /\ listening[s] < MAX_BLOCKED_PROCESSES
          /\ listening' = [listening EXCEPT ![s] = @ + 1]
          /\ UNCHANGED <<open, value, blocked>>
     ELSE CreateSemaphore(s)
  /\ opened' = [opened EXCEPT ![current] = @ \cup {s}]
  /\ UNCHANGED <<vars, waiting>>

(* Mutant of Available: a semaphore keeps its last token. *)
AvailableAboveOne(s) == value[s] > 1

(* semWait finds a token. *)
Available(s) == value[s] > 0

(* semWait.  The guard on the length is a bound: one waiter more than the  *)
(* array blockedProcesses holds.                                           *)
SemWait(s) ==
  /\ InUserCode
  /\ GetSemaphore(s)
  /\ IF Available(s)
     THEN /\ value' = [value EXCEPT ![s] = @ - 1]
          /\ UNCHANGED <<vars, blocked, waiting>>
     ELSE /\ Len(blocked[s]) <= MAX_BLOCKED_PROCESSES
          /\ blocked' = [blocked EXCEPT ![s] = Append(@, current)]
          /\ waiting' = [waiting EXCEPT ![current] = s]
          /\ BlockProcess(current)
          /\ UNCHANGED value
  /\ UNCHANGED <<open, listening, opened>>

(* Mutant of PostEffect: the value is raised even if a waiter is woken.    *)
PostEffectTwice(s) ==
  /\ value' = [value EXCEPT ![s] = @ + 1]
  /\ IF blocked[s] # <<>>
     THEN UnblockSemProcess(s)
     ELSE UNCHANGED <<vars, blocked>>

(* Mutant of PostEffect: the waiter is made READY but stays on the list.   *)
PostEffectKeeps(s) ==
  IF blocked[s] # <<>>
  THEN /\ ReadyProcess(Head(blocked[s]))
       /\ UNCHANGED <<value, blocked>>
  ELSE /\ value' = [value EXCEPT ![s] = @ + 1]
       /\ UNCHANGED <<vars, blocked>>

(* Mutant of PostEffect: the waiter leaves the list and is not readied. *)
PostEffectForgets(s) ==
  IF blocked[s] # <<>>
  THEN /\ blocked' = [blocked EXCEPT ![s] = Tail(@)]
       /\ UNCHANGED <<vars, value>>
  ELSE /\ value' = [value EXCEPT ![s] = @ + 1]
       /\ UNCHANGED <<vars, blocked>>

(* What semPost does: wake the first waiter or count the token. *)
PostEffect(s) ==
  IF blocked[s] # <<>>
  THEN UnblockSemProcess(s) /\ UNCHANGED value
  ELSE /\ value' = [value EXCEPT ![s] = @ + 1]
       /\ UNCHANGED <<vars, blocked>>

(* semPost is called by the process that runs or by the keyboard IRQ,      *)
(* whoever has the CPU then, the idle process included.                    *)
SemPost(s) ==
  /\ cpu = "user"
  /\ GetSemaphore(s)
  /\ value[s] < MaxValue
  /\ PostEffect(s)
  /\ UNCHANGED <<open, listening, waiting, opened>>

(* semClose: the last one to close frees the semaphore. *)
SemClose(s) ==
  /\ InUserCode
  /\ GetSemaphore(s)
  /\ LET left == IF listening[s] > 0 THEN listening[s] - 1 ELSE 0
     IN /\ listening' = [listening EXCEPT ![s] = left]
        /\ IF left = 0
           THEN RemoveSemaphore(s)
           ELSE UNCHANGED <<open, value, blocked>>
  /\ opened' = [opened EXCEPT ![current] = @ \ {s}]
  /\ UNCHANGED <<vars, waiting>>

(* A dispatched process goes on inside the kernel call it slept in, with   *)
(* interrupts disabled: semWait returns at once.                           *)
Resume ==
  /\ Dispatch
  /\ waiting' = [waiting EXCEPT ![current] = None]
  /\ UNCHANGED <<semData, opened>>

OtherDispatch == DispatchIdle \/ DispatchFirst \/ LoopFree \/ LoopRequeue

-----------------------------------------------------------------------------
(* Any program: every system call at any time, in any order. *)
AnyCall ==
  \/ SysKill \/ SysBlock \/ SysReady \/ SysSetState
  \/ Yield \/ NewProcess \/ Wait \/ Exit \/ KillCurrentFGProcess
  \/ KeyboardWakes

SemNext ==
  \/ \E s \in Sems : SemOpen(s) \/ SemWait(s) \/ SemPost(s) \/ SemClose(s)
  \/ Resume
  \/ (AnyCall \/ Tick \/ OtherDispatch) /\ UNCHANGED semVars

SemSpec == SemInit /\ [][SemNext]_allVars

(* Disciplined programs: a process opens a semaphore once before it waits  *)
(* on it and does not after closing it, and nobody blocks, readies or      *)
(* kills a process that sleeps in a semWait.  Whoever wants to may post.   *)
KillAwake ==
  /\ InUserCode
  /\ \E pid \in UserPids : waiting[pid] = None /\ KillProcess(pid)

DisciplinedCall == Yield \/ NewProcess \/ KillAwake \/ KillCurrentFGProcess

DisciplinedNext ==
  \/ \E s \in Sems :
       \/ (current \in Pids => s \notin opened[current]) /\ SemOpen(s)
       \/ (current \in Pids => s \in opened[current])
            /\ (SemWait(s) \/ SemClose(s))
       \/ SemPost(s)
  \/ Resume
  \/ (DisciplinedCall \/ Tick \/ OtherDispatch) /\ UNCHANGED semVars

DisciplinedSpec == SemInit /\ [][DisciplinedNext]_allVars

(* The timer interrupts for ever and the context switch goes on. *)
FairDisciplinedSpec ==
  /\ DisciplinedSpec
  /\ WF_allVars(Tick /\ UNCHANGED semVars)
  /\ WF_allVars(Resume \/ (OtherDispatch /\ UNCHANGED semVars))
-----------------------------------------------------------------------------
SemTypeOK ==
  /\ open \in SUBSET Sems
  /\ value \in [Sems -> 0..MaxValue]
  /\ blocked \in [Sems -> Seq(UserPids)]
  /\ listening \in [Sems -> 0..MAX_BLOCKED_PROCESSES]
  /\ waiting \in [Pids -> Sems \cup {None}]
  /\ opened \in [Pids -> SUBSET Sems]

(* Nobody waits while there is a token, whatever the programs do and       *)
(* whoever is killed or unblocked: semWait and semPost never leave a value *)
(* behind for a process that already sleeps.                               *)
NoTokenWhileWaiting == \A s \in Sems : value[s] > 0 => blocked[s] = <<>>

(* The list of a semaphore holds exactly the processes that sleep in its   *)
(* semWait, each once, and each of them is BLOCKED: no waiter is forgotten *)
(* (not even when the semaphore is freed) and no token is handed to a      *)
(* process that does not wait.                                             *)
WaitersExact ==
  \A s \in Sems :
    /\ IsInjective(blocked[s])
    /\ Range(blocked[s]) = {p \in UserPids : waiting[p] = s /\ state[p] = "BLOCKED"}

(* The array blockedProcesses, which semWait fills without looking at its  *)
(* size, never overflows: the limit semOpen puts on the openers is enough. *)
BlockedFits == \A s \in Sems : Len(blocked[s]) <= MAX_BLOCKED_PROCESSES

(* The semaphores implement counting semaphores: a process that returns    *)
(* from semWait has a token of its own, and no token is lost.              *)
Counting == INSTANCE CountingSemaphore WITH
  Procs <- Pids,
  Values <- InitialValues,
  exists <- open,
  tokens <- [s \in Sems |->
               value[s] + Cardinality({p \in Pids : waiting[p] = s
                                                    /\ p \notin Range(blocked[s])})],
  waits <- waiting

ImplementsCounting == Counting!Spec

(* A process that was handed a token returns from semWait. *)
GrantedReturns ==
  \A p \in UserPids, s \in Sems :
    (waiting[p] = s /\ p \notin Range(blocked[s])) ~> (waiting[p] = None)
=============================================================================
