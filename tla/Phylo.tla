-------------------------------- MODULE Phylo --------------------------------
(***************************************************************************)
(* /phylo, the dining philosophers (programs/phylo.c).  philosopherCount   *)
(* philosophers sit at a table that grows and shrinks while they dine; the *)
(* fork rule is Tanenbaum's: state[] and one semaphore per philosopher.    *)
(*                                                                         *)
(* The variable mutex is never assigned (the identifier semOpen returns is *)
(* dropped), so semWait(mutex) and semPost(mutex) name semaphore 0, which  *)
(* does not exist, and return at once.  Every load and every store of what *)
(* the guests share is a step of its own below, as the compiler makes them *)
(* without -O, and a tick may come between any two: LEFT loads             *)
(* philosopherCount twice, RIGHT once, and the neighbour they name is      *)
(* looked at later still.                                                  *)
(***************************************************************************)
EXTENDS Integers

CONSTANTS
  INITIAL_PHILOS,
  MAX_PHILOS,
  MaxTokens        \* bound on the value of a philosopher's semaphore

ASSUME PhyloAssumption ==
  /\ INITIAL_PHILOS \in Nat \ {0}
  /\ MAX_PHILOS \in Nat
  /\ MAX_PHILOS >= INITIAL_PHILOS
  /\ MaxTokens \in Nat \ {0}

Seats == 0..(MAX_PHILOS - 1)
States == {"THINKING", "HUNGRY", "EATING"}

VARIABLES
  philosopherCount,
  state,    \* seat -> philosophers[i]->state, or what lies where it points
  sem,      \* seat -> the value of its semaphore
  pc,       \* seat -> where its philosopher is; [at, of, after, held] in test()
  host,     \* where philoProblem is
  mishap    \* history: a guest and a change of the table met, see below

vars == <<philosopherCount, state, sem, pc, host, mishap>>

Menu == [at |-> "menu"]
Testing(j, after) == [at |-> "own", of |-> j, after |-> after, held |-> 0]
InTest == {"own", "left", "left2", "leftState", "right", "rightState", "forks", "post"}

Init ==
  /\ philosopherCount = 0
  /\ state = [i \in Seats |-> "THINKING"]
  /\ sem = [i \in Seats |-> 0]
  /\ pc = [i \in Seats |-> [at |-> "none"]]
  /\ host = Menu
  /\ mishap = FALSE

(* LEFT(i), of which the first load of philosopherCount gave n: the         *)
(* remainder of -1 is -1 in C.                                              *)
LeftOf(i, n) == IF i + n = 0 THEN -(1 % philosopherCount) ELSE (i + n - 1) % philosopherCount
RIGHT(i) == (i + 1) % philosopherCount
Seated(i) == i < philosopherCount

(* Who has read philosopherCount and not yet used what it read.             *)
Holds(i) == pc[i].at \in {"putLeft2", "left2", "leftState", "rightState"}
SomeoneHolds == \E i \in Seats : Holds(i)

-----------------------------------------------------------------------------
(* philoProblem: the first INITIAL_PHILOS calls of addPhilo, then the keys. *)

(* addPhilo: the semaphore and the process exist before the seat does.      *)
AddPhilo ==
  /\ host = Menu
  /\ philosopherCount < MAX_PHILOS
  /\ sem' = [sem EXCEPT ![philosopherCount] = 1]
  /\ pc' = [pc EXCEPT ![philosopherCount] = [at |-> "think"]]
  /\ host' = [at |-> "seating"]
  /\ UNCHANGED <<philosopherCount, state, mishap>>

(* philosophers[philosopherCount++] = philosopher: the count goes up ...    *)
CountSeat ==
  /\ host.at = "seating"
  /\ philosopherCount' = philosopherCount + 1
  /\ host' = [at |-> "placing"]
  /\ mishap' = (mishap \/ SomeoneHolds)
  /\ UNCHANGED <<state, sem, pc>>
(* ... before the pointer to the new guest is there.                        *)
TakeSeat ==
  /\ host.at = "placing"
  /\ state' = [state EXCEPT ![philosopherCount - 1] = "THINKING"]
  /\ host' = Menu
  /\ UNCHANGED <<philosopherCount, sem, pc, mishap>>

(* Nobody waits for anything philosopher i may be in the middle of.         *)
AtRest(i) ==
  /\ pc[i].at = "think"
  /\ state[i] # "EATING"
  /\ \A k \in Seats : pc[k].at \in InTest => pc[k].of # i

(* removePhilo: the seat is gone at --philosopherCount ...                  *)
RemovePhilo ==
  /\ host = Menu
  /\ philosopherCount > INITIAL_PHILOS
  /\ philosopherCount' = philosopherCount - 1
  /\ host' = [at |-> "leaving"]
  /\ mishap' = (mishap \/ ~AtRest(philosopherCount - 1) \/ SomeoneHolds)
  /\ UNCHANGED <<state, sem, pc>>

(* semClose, killProcess and free of seat i: what a neighbour may still     *)
(* read there is whatever the heap has put in its place.                    *)
Clears(i) ==
  /\ sem' = [sem EXCEPT ![i] = 0]
  /\ pc' = [pc EXCEPT ![i] = [at |-> "none"]]
  /\ \E s \in States : state' = [state EXCEPT ![i] = s]

(* ... and its philosopher after it.                                        *)
Leave ==
  /\ host.at = "leaving"
  /\ Clears(philosopherCount)
  /\ host' = Menu
  /\ UNCHANGED <<philosopherCount, mishap>>

(* 'q' ends the loop over the keys; the table is then cleared seat by seat, *)
(* and philosopherCount keeps its value.                                    *)
Quit ==
  /\ host = Menu
  /\ philosopherCount >= INITIAL_PHILOS
  /\ host' = [at |-> "closing", i |-> 0]
  /\ UNCHANGED <<philosopherCount, state, sem, pc, mishap>>
Closes ==
  /\ host.at = "closing"
  /\ host.i < philosopherCount
  /\ Clears(host.i)
  /\ host' = [host EXCEPT !.i = @ + 1]
  /\ mishap' = TRUE
  /\ UNCHANGED philosopherCount

-----------------------------------------------------------------------------
(* philoMain(i): takeForks, eat, putForks, think.                           *)

Goes(i, next) == pc' = [pc EXCEPT ![i] = next]
GoesOn(i, where, held) == Goes(i, [pc[i] EXCEPT !.at = where, !.held = held])
Returns(i) == Goes(i, [at |-> pc[i].after])

TakeForks(i) ==
  /\ pc[i].at = "think"
  /\ state' = [state EXCEPT ![i] = "HUNGRY"]
  /\ Goes(i, Testing(i, "wait"))
  /\ UNCHANGED sem

(* semWait(philosophers[i]->sem): one without a seat has no semaphore       *)
(* there, and passes.                                                       *)
Waits(i) ==
  /\ pc[i].at = "wait"
  /\ Seated(i) => sem[i] > 0
  /\ sem' = IF Seated(i) THEN [sem EXCEPT ![i] = @ - 1] ELSE sem
  /\ Goes(i, [at |-> "eat"])
  /\ UNCHANGED state

(* putForks: THINKING, then test(LEFT(i)) and test(RIGHT(i)).               *)
(* Mutant: the neighbours are not tested.                                   *)
PutForksTestsNobody(i) ==
  /\ pc[i].at = "eat"
  /\ state' = [state EXCEPT ![i] = "THINKING"]
  /\ Goes(i, [at |-> "think"])
  /\ UNCHANGED sem
PutForks(i) ==
  /\ pc[i].at = "eat"
  /\ state' = [state EXCEPT ![i] = "THINKING"]
  /\ Goes(i, [at |-> "putLeft"])
  /\ UNCHANGED sem
TestsNeighbours(i) ==
  /\ \/ pc[i].at = "putLeft" /\ Goes(i, [at |-> "putLeft2", held |-> philosopherCount])
     \/ pc[i].at = "putLeft2" /\ Goes(i, Testing(LeftOf(i, pc[i].held), "putRight"))
     \/ pc[i].at = "putRight" /\ Goes(i, Testing(RIGHT(i), "think"))
  /\ UNCHANGED <<state, sem>>

(* test(j): the three reads of state[] in its condition, ...                *)
Continues(i, goOn, next) == IF goOn THEN GoesOn(i, next, 0) ELSE Returns(i)
ReadsOwn(i) ==
  /\ pc[i].at = "own"
  /\ Continues(i, state[pc[i].of] = "HUNGRY", "left")
  /\ UNCHANGED <<state, sem>>
(* ... with the loads of philosopherCount that name the neighbours, ...     *)
FindsNeighbour(i) ==
  /\ \/ pc[i].at = "left" /\ GoesOn(i, "left2", philosopherCount)
     \/ /\ pc[i].at = "left2" /\ philosopherCount > 0
        /\ GoesOn(i, "leftState", LeftOf(pc[i].of, pc[i].held))
     \/ pc[i].at = "right" /\ GoesOn(i, "rightState", RIGHT(pc[i].of))
  /\ UNCHANGED <<state, sem>>
(* (philosophers[-1] points anywhere)                                       *)
ReadsNeighbour(i, where, next) ==
  /\ pc[i].at = where
  /\ \E s \in (IF pc[i].held = -1 THEN States ELSE {state[pc[i].held]}) :
       Continues(i, s # "EATING", next)
  /\ UNCHANGED <<state, sem>>
ReadsLeft(i) == ReadsNeighbour(i, "leftState", "right")
ReadsRight(i) == ReadsNeighbour(i, "rightState", "forks")

(* ... then the write, and the post.                                        *)
(* Mutant: takes the forks and tells nobody.                                *)
GetsForksSilently(i) ==
  /\ pc[i].at = "forks"
  /\ state' = [state EXCEPT ![pc[i].of] = "EATING"]
  /\ Returns(i)
  /\ UNCHANGED sem
GetsForks(i) ==
  /\ pc[i].at = "forks"
  /\ state' = [state EXCEPT ![pc[i].of] = "EATING"]
  /\ GoesOn(i, "post", 0)
  /\ UNCHANGED sem
Posts(i) ==
  /\ pc[i].at = "post"
  /\ sem[pc[i].of] < MaxTokens
  /\ sem' = IF Seated(pc[i].of) THEN [sem EXCEPT ![pc[i].of] = @ + 1] ELSE sem
  /\ Returns(i)
  /\ UNCHANGED state

Philosopher(i) ==
  /\ host.at # "halted"
  /\ \/ TakeForks(i) \/ Waits(i) \/ PutForks(i) \/ TestsNeighbours(i)
     \/ ReadsOwn(i) \/ FindsNeighbour(i) \/ ReadsLeft(i) \/ ReadsRight(i)
     \/ GetsForks(i) \/ Posts(i)
  /\ mishap' = (mishap \/ ~Seated(i) \/ host.at = "placing")
  /\ UNCHANGED <<philosopherCount, host>>

(* LEFT with an empty table: the first philosopher ran before its seat was  *)
(* counted.  Nothing handles the exception: the strToInt(argv[1], 0) of     *)
(* philoMain has written over its gate (see Shell).                         *)
DividesByZero(i) ==
  /\ pc[i].at = "left2"
  /\ philosopherCount = 0
  /\ host' = [at |-> "halted"]
  /\ mishap' = TRUE
  /\ UNCHANGED <<philosopherCount, state, sem, pc>>

Next ==
  \/ AddPhilo \/ CountSeat \/ TakeSeat \/ RemovePhilo \/ Leave \/ Quit \/ Closes
  \/ \E i \in Seats : Philosopher(i) \/ DividesByZero(i)

Spec == Init /\ [][Next]_vars

(* Bound of the runs: nothing is claimed once mishap holds, so its states   *)
(* are followed only while the first guests are being seated.              *)
MishapBound == mishap => philosopherCount < INITIAL_PHILOS

-----------------------------------------------------------------------------
Asleep(i) == Seated(i) /\ pc[i].at = "wait" /\ sem[i] = 0

(***************************************************************************)
(* However the loads and stores of several test() calls interleave, the    *)
(* guests never all end up asleep in takeForks' semWait (phylo.c:156),     *)
(* where nobody is left to post - provided that no guest met a change of   *)
(* the table: none ran without a seat or while one was being placed, those *)
(* removed had put their forks down, and philosopherCount did not change   *)
(* between a load of it in LEFT or RIGHT and the use of what it gave.      *)
(***************************************************************************)
NotAllAsleep ==
  ~mishap /\ host = Menu /\ philosopherCount >= INITIAL_PHILOS =>
    \E i \in Seats : Seated(i) /\ ~Asleep(i)

(***************************************************************************)
(* A philosopher that sleeps in takeForks is HUNGRY, so that the test() of *)
(* a neighbour can still serve it, or the semPost that wakes it (172) is   *)
(* on its way: no interleaving leaves a sleeper in a state nobody acts on. *)
(***************************************************************************)
AsleepIsHungry ==
  ~mishap => \A i \in Seats : Asleep(i) =>
    \/ state[i] = "HUNGRY"
    \/ \E k \in Seats : pc[k].at = "post" /\ pc[k].of = i

=============================================================================
