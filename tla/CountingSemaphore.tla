-------------------------- MODULE CountingSemaphore --------------------------
(***************************************************************************)
(* What semWait and semPost promise: every return from semWait takes one   *)
(* token, and tokens come only from the initial value and from semPost.    *)
(* No list of blocked processes, no scheduler.                             *)
(***************************************************************************)
EXTENDS Integers

CONSTANTS Procs, Sems, Values, None

VARIABLES
  exists,  \* the semaphores there are
  tokens,  \* semaphore -> tokens nobody has taken yet
  waits    \* process -> the semaphore whose semWait it is inside, or None

vars == <<exists, tokens, waits>>

Init ==
  /\ exists = {}
  /\ tokens = [s \in Sems |-> 0]
  /\ waits = [p \in Procs |-> None]

Create(s) ==
  /\ s \notin exists
  /\ exists' = exists \cup {s}
  /\ \E v \in Values : tokens' = [tokens EXCEPT ![s] = v]
  /\ UNCHANGED waits

(* Only a semaphore nobody waits for goes away. *)
Destroy(s) ==
  /\ s \in exists
  /\ \A p \in Procs : waits[p] # s
  /\ exists' = exists \ {s}
  /\ tokens' = [tokens EXCEPT ![s] = 0]
  /\ UNCHANGED waits

(* semWait that finds a token, and semWait that does not. *)
Acquire(s) ==
  /\ tokens[s] > 0
  /\ tokens' = [tokens EXCEPT ![s] = @ - 1]
  /\ UNCHANGED <<exists, waits>>

Sleep(p, s) ==
  /\ s \in exists
  /\ waits[p] = None
  /\ waits' = [waits EXCEPT ![p] = s]
  /\ UNCHANGED <<exists, tokens>>

(* A process that slept in semWait returns from it with a token. *)
Return(p) ==
  /\ waits[p] # None
  /\ tokens[waits[p]] > 0
  /\ tokens' = [tokens EXCEPT ![waits[p]] = @ - 1]
  /\ waits' = [waits EXCEPT ![p] = None]
  /\ UNCHANGED exists

Post(s) ==
  /\ s \in exists
  /\ tokens' = [tokens EXCEPT ![s] = @ + 1]
  /\ UNCHANGED <<exists, waits>>

Next ==
  \/ \E s \in Sems : Create(s) \/ Destroy(s) \/ Acquire(s) \/ Post(s)
  \/ \E p \in Procs : Return(p) \/ \E s \in Sems : Sleep(p, s)

Spec == Init /\ [][Next]_vars
=============================================================================
