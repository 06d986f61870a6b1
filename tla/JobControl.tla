----------------------------- MODULE JobControl -----------------------------
(***************************************************************************)
(* The process manager under programs as they are and as they should be.   *)
(* The programs the shell starts create foreground and background          *)
(* processes, wait for their own children, sleep in semaphores, kill       *)
(* background processes, yield and exit, and the user presses keys and     *)
(* Ctrl + C.  /block, /unblock, /kill and the system calls let any program *)
(* do more than that; tampered remembers that one did.                     *)
(*                                                                         *)
(* What holds until then is the handshake between a process and the        *)
(* foreground child it sleeps on (newProcess or wait blocks the parent,    *)
(* the timer tick that reaps the child readies it), beside the handshake   *)
(* between a process that sleeps in a semaphore (semWait, which getChar    *)
(* and the pipes call) and the post that wakes it: both use the one state  *)
(* BLOCKED and nothing in the process table tells them apart.              *)
(***************************************************************************)
EXTENDS ProcessManager

VARIABLES
  asleep,   \* history: processes that blocked themselves and were not
            \* posted since
  tampered  \* history: a process did to another what is not its business

jobVars == <<vars, asleep, tampered>>

JobInit == Init /\ asleep = {} /\ tampered = FALSE

(* killProcess on a background process: /kill, or a test or the            *)
(* philosophers on their own children.                                     *)
KillsBackground ==
  /\ SysKill
  /\ \E pid \in UserPids : ~foreground[pid] /\ KillProcess(pid)

(* wait on a child that was not killed. *)
WaitsForChild ==
  /\ Wait
  /\ \E pid \in UserPids : /\ ppid[pid] = current
                           /\ state[pid] \in {"READY", "BLOCKED"}
                           /\ foreground'[pid] # foreground[pid]

(* semWait without a token blocks the process that runs. *)
FallsAsleep ==
  /\ InUserCode
  /\ BlockProcess(current)
  /\ asleep' = asleep \cup {current}

(* semPost, by the process that runs or by the keyboard IRQ, readies one   *)
(* that sleeps.                                                            *)
Posted(pid) ==
  /\ cpu = "user"
  /\ ReadyProcess(pid)
  /\ asleep' = asleep \ {pid}

JobControlStep ==
  \/ KillsBackground \/ WaitsForChild
  \/ Yield \/ SetPriority \/ NewProcess \/ NewProcessFails \/ Exit
  \/ KillCurrentFGProcess
  \/ Tick \/ DispatchStep

Tamper ==
  \/ SysKill /\ ~KillsBackground
  \/ SysBlock /\ ~BlockProcess(current)
  \/ (SysReady \/ KeyboardWakes) /\ \A pid \in asleep : ~ReadyProcess(pid)
  \/ SysSetState
  \/ Wait /\ ~WaitsForChild

(* asleep is kept only until somebody tampers. *)
JobNext ==
  \/ /\ ~tampered
     /\ \/ JobControlStep /\ UNCHANGED asleep
        \/ FallsAsleep
        \/ \E pid \in asleep : Posted(pid)
     /\ UNCHANGED tampered
  \/ ~tampered /\ Tamper /\ tampered' = TRUE /\ asleep' = {}
  \/ tampered /\ Next /\ UNCHANGED <<asleep, tampered>>

JobSpec == JobInit /\ [][JobNext]_jobVars /\ Fairness
-----------------------------------------------------------------------------
(* As long as no process tampers with another, a living process is BLOCKED *)
(* exactly while it sleeps in a semaphore or a foreground child of its own *)
(* is still to be reaped, and never for both reasons at once.  So it does  *)
(* not sleep for ever on a child that is gone, does not get the terminal   *)
(* back while the child still has it, and the end of a child does not wake *)
(* it in the middle of a semWait it was not posted in.                     *)
ForegroundChild(p) ==
  \E c \in UserPids : ppid[c] = p /\ foreground[c] /\ state[c] # "FREE"

OneReasonToSleep ==
  ~tampered =>
    \A p \in UserPids :
      state[p] \in {"READY", "BLOCKED"} =>
        /\ state[p] = "BLOCKED" <=> (p \in asleep \/ ForegroundChild(p))
        /\ ~(p \in asleep /\ ForegroundChild(p))
=============================================================================
