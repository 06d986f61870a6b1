------------------------------ MODULE Scheduler ------------------------------
(***************************************************************************)
(* What the process manager promises to the rest of DOG-OS, with no run    *)
(* queue, no counter and no dispatch loop: processes are created, change   *)
(* state and die; the CPU is taken away and given to some READY process,   *)
(* or to the idle process when there is none.  ProcessManager implements   *)
(* it.                                                                     *)
(***************************************************************************)
EXTENDS Integers

CONSTANTS Pids, Base, NULL

VARIABLES
  life,     \* pid -> "FREE", "READY", "BLOCKED" or "TERMINATED"
  running,  \* the process on the CPU; NULL before the first one and while
            \* the kernel switches
  nextPid   \* the next pid to hand out

vars == <<life, running, nextPid>>

Alive(p) == life[p] \in {"READY", "BLOCKED"}

Init ==
  /\ life = [p \in Pids |-> IF p \in {Base, 1} THEN "READY" ELSE "FREE"]
  /\ running = NULL
  /\ nextPid = 2

(* The running process creates another one, and may have to wait for it. *)
Create ==
  /\ running \notin {NULL, Base}
  /\ nextPid \in Pids
  /\ \E parent \in {life[running]} \cup (IF Alive(running) THEN {"BLOCKED"} ELSE {}) :
       life' = [life EXCEPT ![nextPid] = "READY", ![running] = parent]
  /\ nextPid' = nextPid + 1
  /\ UNCHANGED running

(* A creation that failed used up a pid. *)
CreateFails ==
  /\ running \notin {NULL, Base}
  /\ nextPid' = nextPid + 1
  /\ UNCHANGED <<life, running>>

(* A living process other than the idle one becomes READY or BLOCKED, or   *)
(* is killed.                                                              *)
Change ==
  /\ running \notin {NULL, Base}
  /\ \E p \in Pids \ {Base}, s \in {"READY", "BLOCKED", "TERMINATED"} :
       Alive(p) /\ life' = [life EXCEPT ![p] = s]
  /\ UNCHANGED <<running, nextPid>>

(* An interrupt makes a BLOCKED process READY, whoever has the CPU. *)
Wake ==
  /\ \E p \in Pids \ {Base} :
       life[p] = "BLOCKED" /\ life' = [life EXCEPT ![p] = "READY"]
  /\ UNCHANGED <<running, nextPid>>

(* The CPU is taken from the running process. *)
Preempt ==
  /\ running # NULL
  /\ running' = NULL
  /\ UNCHANGED <<life, nextPid>>

(* The CPU is taken from a killed process, which is gone from then on; one *)
(* process that was BLOCKED may become READY by it.                        *)
Reap ==
  /\ running \notin {NULL, Base}
  /\ life[running] = "TERMINATED"
  /\ \E woken \in SUBSET {p \in Pids : life[p] = "BLOCKED"} :
       /\ \A p, q \in woken : p = q
       /\ life' = [p \in Pids |-> IF p = running THEN "FREE"
                                  ELSE IF p \in woken THEN "READY" ELSE life[p]]
  /\ running' = NULL
  /\ UNCHANGED nextPid

(* A process killed while it did not run is removed during a switch. *)
Bury ==
  /\ running = NULL
  /\ \E p \in Pids : life[p] = "TERMINATED" /\ life' = [life EXCEPT ![p] = "FREE"]
  /\ UNCHANGED <<running, nextPid>>

(* Only a READY process is given the CPU ... *)
Pick ==
  /\ running = NULL
  /\ running' \in {p \in Pids \ {Base} : life[p] = "READY"}
  /\ UNCHANGED <<life, nextPid>>

(* ... and the idle process only if there is none. *)
PickIdle ==
  /\ running = NULL
  /\ \A p \in Pids \ {Base} : life[p] # "READY"
  /\ running' = Base
  /\ UNCHANGED <<life, nextPid>>

Next ==
  \/ Create \/ CreateFails \/ Change \/ Wake
  \/ Preempt \/ Reap \/ Bury \/ Pick \/ PickIdle

Spec == Init /\ [][Next]_vars
=============================================================================
