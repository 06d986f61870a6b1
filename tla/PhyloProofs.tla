----------------------------- MODULE PhyloProofs -----------------------------
(***************************************************************************)
(* Philosophers at a table of any size, without their mutex: none of them  *)
(* sleeps in a state that no neighbour acts on, and they do not all sleep. *)
(*                                                                         *)
(* AsleepIsHungry is not inductive: a philosopher falls asleep behind its  *)
(* own test(), during which neighbours may already have served it.  What   *)
(* is, is that from takeForks' write of HUNGRY to the end of its semWait   *)
(* it is HUNGRY, or has a token, or a semPost for it is on its way         *)
(* (HungryServed), and that those without a seat have not begun            *)
(* (UnseatedIdle).  What a guest has computed from philosopherCount and    *)
(* not yet used is still right (HeldCurrent), because a change of the      *)
(* count in between is a mishap.  While addPhilo has counted a guest whose *)
(* pointer it has not stored, that seat is not taken yet (Placed).         *)
(*                                                                         *)
(* NotAllAsleep follows the guest of one seat, seat 1, whose neighbours    *)
(* are 0 and 2 however many guests there are: while it sleeps, one of them *)
(* owes it a test() (OneOwed), and who owes one is not asleep itself.      *)
(***************************************************************************)
EXTENDS Phylo, TLAPS

LEFT(i) == (i + philosopherCount - 1) % philosopherCount

Outside ==
  [at : {"none", "think", "wait", "eat", "putLeft", "putRight"}]
    \cup [at : {"putLeft2"}, held : Nat]
Inside == [at : InTest, of : Seats, after : {"wait", "think", "putRight"}, held : Nat]

TableOK ==
  /\ philosopherCount \in 0..MAX_PHILOS
  /\ host.at = "seating" => philosopherCount < MAX_PHILOS
  /\ host.at = "placing" => philosopherCount > 0
  /\ state \in [Seats -> States]
  /\ sem \in [Seats -> Nat]
  /\ pc \in [Seats -> Outside \cup Inside]

Places == IF host.at = "placing" THEN philosopherCount - 1 ELSE philosopherCount
Placed(i) == i < Places

UnseatedIdle == \A i \in Seats : ~Placed(i) => pc[i].at \in {"none", "think"}

TakingForks(i) == pc[i].at = "wait" \/ (pc[i].at \in InTest /\ pc[i].after = "wait")
PostComing(i) == \E k \in Seats : pc[k].at = "post" /\ pc[k].of = i

HungryServed ==
  \A i \in Seats : Placed(i) /\ TakingForks(i) =>
    state[i] = "HUNGRY" \/ sem[i] > 0 \/ PostComing(i)

Current(r) ==
  /\ r.at \in {"left2", "putLeft2"} => r.held = philosopherCount
  /\ r.at = "leftState" => r.held = LEFT(r.of)
  /\ r.at = "rightState" => r.held = RIGHT(r.of)
HeldCurrent == \A i \in Seats : Current(pc[i])

IInv == ~mishap => TableOK /\ UnseatedIdle /\ HungryServed /\ HeldCurrent
-----------------------------------------------------------------------------
LEMMA SeatsType == MAX_PHILOS \in Nat /\ \A i \in Seats : i \in Nat /\ i < MAX_PHILOS
BY PhyloAssumption DEF Seats

LEMMA Neighbours ==
  ASSUME TableOK, NEW i \in Seats, philosopherCount > 0
  PROVE  LEFT(i) \in Seats /\ RIGHT(i) \in Seats /\ LeftOf(i, philosopherCount) = LEFT(i)
<1>1. philosopherCount \in Nat /\ philosopherCount <= MAX_PHILOS /\ MAX_PHILOS \in Nat /\ i \in Nat
  BY SeatsType DEF TableOK
<1>2. /\ (i + philosopherCount - 1) % philosopherCount \in 0..(philosopherCount - 1)
      /\ (i + 1) % philosopherCount \in 0..(philosopherCount - 1)
  BY <1>1
<1>3. i + philosopherCount # 0
  BY <1>1
<1> QED BY <1>1, <1>2, <1>3 DEF LEFT, RIGHT, LeftOf, Seats

(* The seats taken are those counted, one less while a guest is placed. *)
LEMMA PlacedType ==
  ASSUME TableOK
  PROVE  /\ philosopherCount \in Nat /\ Places \in Nat /\ Places <= MAX_PHILOS
         /\ \A j \in Seats : Placed(j) => Seated(j)
         /\ host.at # "placing" => Places = philosopherCount /\ \A j : Placed(j) <=> Seated(j)
<1>1. philosopherCount \in Nat /\ philosopherCount <= MAX_PHILOS /\ MAX_PHILOS \in Nat
      /\ (host.at = "placing" => philosopherCount > 0)
  BY SeatsType DEF TableOK
<1>2. CASE host.at = "placing"
  BY <1>1, <1>2, SeatsType DEF Places, Placed, Seated
<1>3. CASE host.at # "placing"
  BY <1>1, <1>3 DEF Places, Placed, Seated
<1> QED BY <1>2, <1>3

(* A call of test() that moves on keeps whose seat it tests and where it returns. *)
MovedTo(r, a, h) == [r EXCEPT !.at = a, !.held = h]
LEMMA InsideExcept ==
  ASSUME NEW r \in Inside, NEW a \in InTest, NEW h \in Nat
  PROVE  /\ MovedTo(r, a, h) \in Inside
         /\ MovedTo(r, a, h).at = a /\ MovedTo(r, a, h).held = h
         /\ MovedTo(r, a, h).of = r.of /\ MovedTo(r, a, h).after = r.after
BY DEF Inside, MovedTo

(* What the host does concerns a seat that is not taken. *)
LEMMA HostKeepsInvariant ==
  ASSUME IInv, AddPhilo \/ CountSeat \/ TakeSeat \/ RemovePhilo \/ Leave \/ Quit \/ Closes
  PROVE  IInv'
<1> SUFFICES ASSUME ~mishap' PROVE TableOK' /\ UnseatedIdle' /\ HungryServed' /\ HeldCurrent'
  BY DEF IInv
<1> DEFINE n == philosopherCount
<1>0. ~mishap
  BY DEF AddPhilo, CountSeat, TakeSeat, RemovePhilo, Leave, Quit, Closes
<1>1. /\ TableOK /\ UnseatedIdle /\ HungryServed /\ HeldCurrent /\ n \in Nat
      /\ Places \in Nat /\ (host.at # "placing" => Places = n)
      /\ pc \in [Seats -> Outside \cup Inside] /\ sem \in [Seats -> Nat]
      /\ state \in [Seats -> States] /\ MAX_PHILOS \in Nat /\ n <= MAX_PHILOS
  BY <1>0, SeatsType, PlacedType DEF IInv, TableOK
(* A seat that is not taken is given to somebody, or left. *)
<1>2. ASSUME n' = n, Places' = Places, host.at # "placing",
             NEW next \in [at : {"none", "think"}], NEW v \in Nat,
             pc' = [pc EXCEPT ![n] = next], sem' = [sem EXCEPT ![n] = v],
             \A j \in Seats : j # n => state'[j] = state[j]
      PROVE  UnseatedIdle' /\ HungryServed' /\ HeldCurrent'
  <2>1. \A j \in Seats : (Placed(j)' <=> Placed(j)) /\ (Placed(j) => j # n)
    BY <1>1, <1>2, SeatsType DEF Placed
  <2>2. \A j \in Seats : pc'[j] = IF j = n THEN next ELSE pc[j]
    BY <1>1, <1>2
  <2>3. next.at \in {"none", "think"}
    BY <1>2
  <2>4. UnseatedIdle'
    BY <1>1, <2>1, <2>2, <2>3 DEF UnseatedIdle
  <2>5. \A k \in Seats : pc[k].at = "post" => k # n
    BY <1>1, <1>2, SeatsType DEF UnseatedIdle, Placed
  <2>6. \A j \in Seats : PostComing(j) => PostComing(j)'
    BY <2>2, <2>5 DEF PostComing
  <2>7. \A j \in Seats : j # n => sem'[j] = sem[j]
    BY <1>1, <1>2
  <2>8. HungryServed'
    BY <1>1, <1>2, <2>1, <2>2, <2>6, <2>7 DEF HungryServed, TakingForks
  <2>9. Current(next)'
    BY <2>3 DEF Current
  <2>10. \A j \in Seats : Current(pc[j])'
    <3>1. SUFFICES ASSUME NEW j \in Seats, j # n PROVE Current(pc[j])'
      BY <2>2, <2>9 DEF Current
    <3>2. pc'[j] = pc[j] /\ Current(pc[j])
      BY <1>1, <2>2, <3>1 DEF HeldCurrent
    <3> QED BY <1>2, <3>2 DEF Current, LEFT, RIGHT
  <2> QED BY <2>4, <2>8, <2>10 DEF HeldCurrent
<1>3. CASE AddPhilo
  <2>1. /\ n' = n /\ state' = state /\ host' = [at |-> "seating"]
        /\ sem' = [sem EXCEPT ![n] = 1] /\ pc' = [pc EXCEPT ![n] = [at |-> "think"]]
        /\ n < MAX_PHILOS /\ host.at = "menu"
    BY <1>3 DEF AddPhilo, Menu
  <2>2. TableOK'
    BY <1>1, <2>1 DEF TableOK, Outside
  <2>3. Places' = Places /\ host.at # "placing"
    BY <2>1 DEF Places
  <2> QED BY <1>2, <2>1, <2>2, <2>3
<1>4. CASE CountSeat
  <2>1. /\ host.at = "seating" /\ n' = n + 1 /\ host' = [at |-> "placing"]
        /\ UNCHANGED <<state, sem, pc>> /\ ~SomeoneHolds
    BY <1>4 DEF CountSeat
  <2>2. TableOK'
    BY <1>1, <2>1 DEF TableOK
  <2>3. Places' = Places
    BY <1>1, <2>1 DEF Places
  <2>4. UnseatedIdle' /\ HungryServed'
    BY <1>1, <2>1, <2>3 DEF UnseatedIdle, HungryServed, Placed, TakingForks, PostComing
  <2>5. HeldCurrent'
    BY <2>1 DEF HeldCurrent, Current, SomeoneHolds, Holds
  <2> QED BY <2>2, <2>4, <2>5
<1>5. CASE TakeSeat
  <2>1. /\ host.at = "placing" /\ n' = n /\ host' = Menu /\ UNCHANGED <<sem, pc>>
        /\ state' = [state EXCEPT ![n - 1] = "THINKING"]
    BY <1>5 DEF TakeSeat
  <2>2. TableOK'
    BY <1>1, <2>1 DEF TableOK, States, Menu
  <2>3. Places = n - 1 /\ Places' = n
    BY <2>1 DEF Places, Menu
  <2>4. \A j \in Seats : (Placed(j) => Placed(j)' /\ j # n - 1) /\ (Placed(j)' /\ j # n - 1 => Placed(j))
    BY <1>1, <2>3, SeatsType DEF Placed
  <2>5. UnseatedIdle'
    BY <1>1, <2>1, <2>4 DEF UnseatedIdle
  <2>6. \A j \in Seats : TakingForks(j) => Placed(j)
    BY <1>1 DEF UnseatedIdle, TakingForks, InTest
  <2>7. HungryServed'
    BY <1>1, <2>1, <2>4, <2>6 DEF HungryServed, TakingForks, PostComing
  <2>8. HeldCurrent'
    BY <1>1, <2>1 DEF HeldCurrent, Current, LEFT, RIGHT
  <2> QED BY <2>2, <2>5, <2>7, <2>8
<1>6. CASE RemovePhilo
  <2>1. /\ n' = n - 1 /\ host' = [at |-> "leaving"] /\ UNCHANGED <<state, sem, pc>>
        /\ n > INITIAL_PHILOS /\ pc[n - 1].at = "think" /\ host.at = "menu" /\ ~SomeoneHolds
    BY <1>6 DEF RemovePhilo, AtRest, Menu
  <2>2. n' \in Nat /\ Places = n /\ Places' = n - 1
    BY <1>1, <2>1, PhyloAssumption DEF Places
  <2>3. TableOK'
    BY <1>1, <2>1, <2>2 DEF TableOK
  <2>4. \A j \in Seats : Placed(j)' <=> (Placed(j) /\ j # n - 1)
    BY <1>1, <2>2, SeatsType DEF Placed
  <2>5. UnseatedIdle'
    BY <1>1, <2>1, <2>4 DEF UnseatedIdle
  <2>6. HungryServed'
    BY <1>1, <2>1, <2>4 DEF HungryServed, TakingForks, PostComing
  <2>7. HeldCurrent'
    BY <2>1 DEF HeldCurrent, Current, SomeoneHolds, Holds
  <2> QED BY <2>3, <2>5, <2>6, <2>7
<1>7. CASE Leave
  <2>1. /\ n' = n /\ host' = Menu /\ host.at = "leaving"
        /\ sem' = [sem EXCEPT ![n] = 0] /\ pc' = [pc EXCEPT ![n] = [at |-> "none"]]
        /\ \E s \in States : state' = [state EXCEPT ![n] = s]
    BY <1>7 DEF Leave, Clears
  <2>2. TableOK'
    BY <1>1, <2>1 DEF TableOK, Outside, Menu
  <2>3. Places' = Places /\ host.at # "placing"
    BY <2>1 DEF Places, Menu
  <2>4. \A j \in Seats : j # n => state'[j] = state[j]
    BY <1>1, <2>1
  <2> QED BY <1>2, <2>1, <2>2, <2>3, <2>4
<1>8. CASE Quit
  <2>1. /\ UNCHANGED <<philosopherCount, state, sem, pc>> /\ host.at = "menu" /\ host'.at = "closing"
    BY <1>8 DEF Quit, Menu
  <2>2. TableOK' /\ Places' = Places
    BY <1>1, <2>1 DEF TableOK, Places
  <2>3. UnseatedIdle' /\ HungryServed'
    BY <1>1, <2>1, <2>2 DEF UnseatedIdle, HungryServed, Placed, TakingForks, PostComing
  <2>4. HeldCurrent'
    BY <1>1, <2>1 DEF HeldCurrent, Current, LEFT, RIGHT
  <2> QED BY <2>2, <2>3, <2>4
<1>9. CASE Closes
  BY <1>9 DEF Closes
<1> QED BY <1>3, <1>4, <1>5, <1>6, <1>7, <1>8, <1>9

(* A philosopher at the table changes its own place, and what it changes   *)
(* of another seat serves it.                                              *)
LEMMA PhilosopherKeepsInvariant ==
  ASSUME IInv, NEW i \in Seats, Philosopher(i)
  PROVE  IInv'
<1> SUFFICES ASSUME ~mishap' PROVE TableOK' /\ UnseatedIdle' /\ HungryServed' /\ HeldCurrent'
  BY DEF IInv
<1>0. ~mishap /\ Seated(i) /\ host.at # "placing" /\ UNCHANGED <<philosopherCount, host>>
  BY DEF Philosopher
<1>1. /\ TableOK /\ UnseatedIdle /\ HungryServed /\ HeldCurrent
      /\ philosopherCount \in Nat /\ philosopherCount > 0
      /\ Places' = Places /\ Placed(i) /\ \A j \in Seats : Placed(j) => Seated(j)
  BY <1>0, SeatsType, PlacedType DEF IInv, TableOK, Seated, Places
<1>2. /\ pc \in [Seats -> Outside \cup Inside]
      /\ state \in [Seats -> States] /\ sem \in [Seats -> Nat]
      /\ pc[i] \in Outside \cup Inside
      /\ pc[i].at \in InTest => pc[i] \in Inside /\ pc[i].of \in Seats
  BY <1>1 DEF TableOK, Outside, Inside, InTest
(* Whatever the step, the other philosophers stay where they are, ... *)
<1>3. ASSUME NEW next \in Outside \cup Inside, pc' = [pc EXCEPT ![i] = next], Current(next),
             state' \in [Seats -> States], sem' \in [Seats -> Nat],
             \A j \in Seats : Placed(j) /\ TakingForks(j)' =>
               state'[j] = "HUNGRY" \/ sem'[j] > 0 \/ PostComing(j)'
      PROVE  TableOK' /\ UnseatedIdle' /\ HungryServed' /\ HeldCurrent'
  <2>1. TableOK'
    BY <1>0, <1>1, <1>2, <1>3 DEF TableOK
  <2>2. \A j \in Seats : (Placed(j)' <=> Placed(j)) /\ pc'[j] = IF j = i THEN next ELSE pc[j]
    BY <1>1, <1>2, <1>3 DEF Placed
  <2>3. UnseatedIdle'
    BY <1>1, <2>2 DEF UnseatedIdle
  <2>4. HungryServed'
    BY <1>3, <2>2 DEF HungryServed
  <2>5. \A r : Current(r)' <=> Current(r)
    BY <1>0 DEF Current, LEFT, RIGHT
  <2>6. HeldCurrent'
    <3>1. SUFFICES ASSUME NEW j \in Seats PROVE Current(pc'[j])
      BY <2>5 DEF HeldCurrent, Current
    <3> QED BY <1>1, <1>3, <2>2 DEF HeldCurrent
  <2> QED BY <2>1, <2>3, <2>4, <2>6
(* ... and a post that is coming does so unless this one's does.           *)
<1>4. ASSUME NEW next \in Outside \cup Inside, pc' = [pc EXCEPT ![i] = next],
             NEW j \in Seats, PostComing(j), pc[i].at = "post" => pc[i].of # j
      PROVE  PostComing(j)'
  <2>1. PICK k \in Seats : pc[k].at = "post" /\ pc[k].of = j
    BY <1>4 DEF PostComing
  <2>2. k # i
    BY <1>4, <2>1
  <2> QED BY <1>2, <1>4, <2>1, <2>2 DEF PostComing
<1>5. ASSUME NEW next \in Outside \cup Inside, pc' = [pc EXCEPT ![i] = next],
             NEW j \in Seats, j # i, TakingForks(j)'
      PROVE  TakingForks(j)
  BY <1>2, <1>5 DEF TakingForks
(* Where test() goes when it returns. *)
<1>6. ASSUME pc[i].at \in InTest, Returns(i)
      PROVE  \E next \in Outside \cup Inside :
               /\ pc' = [pc EXCEPT ![i] = next] /\ next.at # "post" /\ Current(next)
               /\ next.at = "wait" \/ (next.at \in InTest /\ next.after = "wait") => pc[i].after = "wait"
  <2>1. pc[i].after \in {"wait", "think", "putRight"}
    BY <1>2, <1>6 DEF Inside
  <2>2. PICK next \in Outside : next = [at |-> pc[i].after]
    BY <2>1 DEF Outside
  <2>3. next.at = pc[i].after
    BY <2>2
  <2>4. next.at \notin InTest /\ Current(next) /\ next.at # "post"
    BY <2>1, <2>3 DEF InTest, Current
  <2>5. pc' = [pc EXCEPT ![i] = next]
    BY <1>6, <2>2 DEF Returns, Goes
  <2> QED BY <2>3, <2>4, <2>5
<1>7. CASE TakeForks(i)
  <2>1. Testing(i, "wait") \in Inside /\ Current(Testing(i, "wait"))
    BY DEF Testing, Inside, InTest, Current
  <2>2. /\ pc' = [pc EXCEPT ![i] = Testing(i, "wait")] /\ pc[i].at = "think"
        /\ state' = [state EXCEPT ![i] = "HUNGRY"] /\ sem' = sem
    BY <1>7 DEF TakeForks, Goes
  <2>3. \A j \in Seats : Placed(j) /\ TakingForks(j)' =>
          state'[j] = "HUNGRY" \/ sem'[j] > 0 \/ PostComing(j)'
    <3>1. SUFFICES ASSUME NEW j \in Seats, Placed(j), TakingForks(j)', j # i
                   PROVE  state'[j] = "HUNGRY" \/ sem'[j] > 0 \/ PostComing(j)'
      BY <1>2, <2>2
    <3>2. state[j] = "HUNGRY" \/ sem[j] > 0 \/ PostComing(j)
      BY <1>1, <1>5, <2>1, <2>2, <3>1 DEF HungryServed
    <3> QED BY <1>2, <1>4, <2>1, <2>2, <3>1, <3>2
  <2> QED BY <1>2, <1>3, <2>1, <2>2, <2>3 DEF States
<1>8. CASE Waits(i)
  <2>1. [at |-> "eat"] \in Outside /\ Current([at |-> "eat"])
    BY DEF Outside, Current
  <2>2. /\ pc' = [pc EXCEPT ![i] = [at |-> "eat"]] /\ pc[i].at = "wait"
        /\ sem[i] > 0 /\ sem' = [sem EXCEPT ![i] = @ - 1] /\ state' = state
    BY <1>0, <1>8 DEF Waits, Goes
  <2>3. ~TakingForks(i)'
    BY <1>2, <2>2 DEF TakingForks, InTest
  <2>4. \A j \in Seats : Placed(j) /\ TakingForks(j)' =>
          state'[j] = "HUNGRY" \/ sem'[j] > 0 \/ PostComing(j)'
    <3>1. SUFFICES ASSUME NEW j \in Seats, Placed(j), TakingForks(j)', j # i
                   PROVE  state'[j] = "HUNGRY" \/ sem'[j] > 0 \/ PostComing(j)'
      BY <2>3
    <3>2. state[j] = "HUNGRY" \/ sem[j] > 0 \/ PostComing(j)
      BY <1>1, <1>5, <2>1, <2>2, <3>1 DEF HungryServed
    <3> QED BY <1>2, <1>4, <2>1, <2>2, <3>1, <3>2
  <2>5. sem' \in [Seats -> Nat]
    BY <1>2, <2>2
  <2> QED BY <1>2, <1>3, <2>1, <2>2, <2>4, <2>5
<1>9. CASE PutForks(i)
  <2>1. [at |-> "putLeft"] \in Outside /\ Current([at |-> "putLeft"])
    BY DEF Outside, Current
  <2>2. /\ pc' = [pc EXCEPT ![i] = [at |-> "putLeft"]] /\ pc[i].at = "eat"
        /\ state' = [state EXCEPT ![i] = "THINKING"] /\ sem' = sem
    BY <1>9 DEF PutForks, Goes
  <2>3. ~TakingForks(i)'
    BY <1>2, <2>2 DEF TakingForks, InTest
  <2>4. \A j \in Seats : Placed(j) /\ TakingForks(j)' =>
          state'[j] = "HUNGRY" \/ sem'[j] > 0 \/ PostComing(j)'
    <3>1. SUFFICES ASSUME NEW j \in Seats, Placed(j), TakingForks(j)', j # i
                   PROVE  state'[j] = "HUNGRY" \/ sem'[j] > 0 \/ PostComing(j)'
      BY <2>3
    <3>2. state[j] = "HUNGRY" \/ sem[j] > 0 \/ PostComing(j)
      BY <1>1, <1>5, <2>1, <2>2, <3>1 DEF HungryServed
    <3> QED BY <1>2, <1>4, <2>1, <2>2, <3>1, <3>2
  <2> QED BY <1>2, <1>3, <2>1, <2>2, <2>4 DEF States
(* The loads, which leave the table alone. *)
<1>10. ASSUME NEW next \in Outside \cup Inside, pc' = [pc EXCEPT ![i] = next], Current(next),
              UNCHANGED <<state, sem>>, pc[i].at # "post",
              next.at = "wait" \/ (next.at \in InTest /\ next.after = "wait") =>
                pc[i].at \in InTest /\ pc[i].after = "wait"
       PROVE  TableOK' /\ UnseatedIdle' /\ HungryServed' /\ HeldCurrent'
  <2>1. \A j \in Seats : TakingForks(j)' => TakingForks(j)
    BY <1>2, <1>5, <1>10 DEF TakingForks
  <2>2. \A j \in Seats : Placed(j) /\ TakingForks(j)' =>
          state'[j] = "HUNGRY" \/ sem'[j] > 0 \/ PostComing(j)'
    <3>1. SUFFICES ASSUME NEW j \in Seats, Placed(j), TakingForks(j)'
                   PROVE  state'[j] = "HUNGRY" \/ sem'[j] > 0 \/ PostComing(j)'
      OBVIOUS
    <3>2. state[j] = "HUNGRY" \/ sem[j] > 0 \/ PostComing(j)
      BY <1>1, <2>1, <3>1 DEF HungryServed
    <3> QED BY <1>4, <1>10, <3>2
  <2> QED BY <1>2, <1>3, <1>10, <2>2
<1>11. CASE TestsNeighbours(i)
  <2>1. UNCHANGED <<state, sem>>
    BY <1>11 DEF TestsNeighbours
  <2>2. CASE pc[i].at = "putLeft" /\ Goes(i, [at |-> "putLeft2", held |-> philosopherCount])
    <3>1. PICK next \in Outside : next = [at |-> "putLeft2", held |-> philosopherCount]
      BY <1>1 DEF Outside
    <3>2. next.at = "putLeft2" /\ next.held = philosopherCount
      BY <3>1
    <3>3. Current(next) /\ next.at \notin InTest
      BY <3>2 DEF Current, InTest
    <3> QED BY <1>10, <2>1, <2>2, <3>1, <3>2, <3>3 DEF Goes
  <2>3. CASE pc[i].at = "putLeft2" /\ Goes(i, Testing(LeftOf(i, pc[i].held), "putRight"))
    <3>1. pc[i].held = philosopherCount
      BY <1>1, <2>3 DEF HeldCurrent, Current
    <3>2. LeftOf(i, pc[i].held) \in Seats
      BY <1>1, <3>1, Neighbours
    <3>3. PICK next \in Inside : next = Testing(LeftOf(i, pc[i].held), "putRight")
      BY <3>2 DEF Testing, Inside, InTest
    <3>4. next.at = "own" /\ next.after = "putRight"
      BY <3>3 DEF Testing
    <3>5. Current(next)
      BY <3>4 DEF Current
    <3> QED BY <1>10, <2>1, <2>3, <3>3, <3>4, <3>5 DEF Goes
  <2>4. CASE pc[i].at = "putRight" /\ Goes(i, Testing(RIGHT(i), "think"))
    <3>1. RIGHT(i) \in Seats
      BY <1>1, Neighbours
    <3>2. PICK next \in Inside : next = Testing(RIGHT(i), "think")
      BY <3>1 DEF Testing, Inside, InTest
    <3>3. next.at = "own" /\ next.after = "think"
      BY <3>2 DEF Testing
    <3>4. Current(next)
      BY <3>3 DEF Current
    <3> QED BY <1>10, <2>1, <2>4, <3>2, <3>3, <3>4 DEF Goes
  <2> QED BY <1>11, <2>2, <2>3, <2>4 DEF TestsNeighbours
<1>12. ASSUME pc[i].at \in InTest, pc[i].at # "post", UNCHANGED <<state, sem>>,
              NEW where \in InTest, NEW held \in Nat, GoesOn(i, where, held),
              where \in {"left2", "putLeft2"} => held = philosopherCount,
              where = "leftState" => held = LEFT(pc[i].of),
              where = "rightState" => held = RIGHT(pc[i].of)
       PROVE  TableOK' /\ UnseatedIdle' /\ HungryServed' /\ HeldCurrent'
  <2>1. PICK next \in Inside : /\ next = MovedTo(pc[i], where, held)
                               /\ next.at = where /\ next.held = held
                               /\ next.of = pc[i].of /\ next.after = pc[i].after
    <3>1. pc[i] \in Inside
      BY <1>2, <1>12
    <3> QED BY <1>12, <3>1, InsideExcept
  <2>2. pc' = [pc EXCEPT ![i] = next]
    BY <1>12, <2>1 DEF GoesOn, Goes, MovedTo
  <2>3. Current(next)
    BY <1>12, <2>1 DEF Current
  <2>4. next.at # "wait"
    BY <1>12, <2>1 DEF InTest
  <2> QED BY <1>10, <1>12, <2>1, <2>2, <2>3, <2>4
<1>13. ASSUME pc[i].at \in InTest, pc[i].at # "post", UNCHANGED <<state, sem>>,
              NEW where \in {"left", "right", "forks"}, NEW goOn \in BOOLEAN, Continues(i, goOn, where)
       PROVE  TableOK' /\ UnseatedIdle' /\ HungryServed' /\ HeldCurrent'
  <2>1. CASE goOn
    <3>1. GoesOn(i, where, 0) /\ where \in InTest
      BY <1>13, <2>1 DEF Continues, InTest
    <3> QED BY <1>12, <1>13, <3>1
  <2>2. CASE ~goOn
    <3>1. Returns(i)
      BY <1>13, <2>2 DEF Continues
    <3> QED BY <1>6, <1>10, <1>13, <3>1
  <2> QED BY <2>1, <2>2
<1>14. CASE ReadsOwn(i)
  <2>1. pc[i].at = "own" /\ pc[i].at \in InTest /\ UNCHANGED <<state, sem>>
        /\ Continues(i, state[pc[i].of] = "HUNGRY", "left")
    BY <1>14 DEF ReadsOwn, InTest
  <2> QED BY <1>13, <2>1
<1>15. CASE FindsNeighbour(i)
  <2>1. UNCHANGED <<state, sem>>
    BY <1>15 DEF FindsNeighbour
  <2>2. CASE pc[i].at = "left" /\ GoesOn(i, "left2", philosopherCount)
    <3>1. pc[i].at \in InTest /\ "left2" \in InTest
      BY <2>2 DEF InTest
    <3> QED BY <1>1, <1>12, <2>1, <2>2, <3>1
  <2>3. CASE pc[i].at = "left2" /\ GoesOn(i, "leftState", LeftOf(pc[i].of, pc[i].held))
    <3>1. pc[i].at \in InTest /\ "leftState" \in InTest
      BY <2>3 DEF InTest
    <3>2. pc[i].held = philosopherCount
      BY <1>1, <2>3 DEF HeldCurrent, Current
    <3>3. PICK h \in Seats : h = LeftOf(pc[i].of, pc[i].held) /\ h = LEFT(pc[i].of)
      BY <1>1, <1>2, <3>1, <3>2, Neighbours
    <3>4. h \in Nat /\ GoesOn(i, "leftState", h)
      BY <2>3, <3>3, SeatsType
    <3> QED BY <1>12, <2>1, <2>3, <3>1, <3>3, <3>4
  <2>4. CASE pc[i].at = "right" /\ GoesOn(i, "rightState", RIGHT(pc[i].of))
    <3>1. pc[i].at \in InTest /\ "rightState" \in InTest
      BY <2>4 DEF InTest
    <3>2. RIGHT(pc[i].of) \in Nat
      BY <1>1, <1>2, <3>1, Neighbours, SeatsType
    <3> QED BY <1>12, <2>1, <2>4, <3>1, <3>2
  <2> QED BY <1>15, <2>2, <2>3, <2>4 DEF FindsNeighbour
<1>16. CASE ReadsLeft(i) \/ ReadsRight(i)
  <2>1. PICK where \in {"leftState", "rightState"}, next \in {"right", "forks"} :
          ReadsNeighbour(i, where, next)
    BY <1>16 DEF ReadsLeft, ReadsRight
  <2>2. pc[i].at \in InTest /\ pc[i].at # "post" /\ UNCHANGED <<state, sem>>
        /\ \E s : Continues(i, s # "EATING", next)
    BY <2>1 DEF ReadsNeighbour, InTest
  <2>3. PICK s : Continues(i, s # "EATING", next)
    BY <2>2
  <2> QED BY <1>13, <2>1, <2>2, <2>3
<1>17. CASE GetsForks(i)
  <2>1. pc[i] \in Inside /\ pc[i].at = "forks"
    BY <1>2, <1>17 DEF GetsForks, InTest
  <2>2. PICK next \in Inside : /\ next = MovedTo(pc[i], "post", 0)
                               /\ next.at = "post" /\ next.of = pc[i].of /\ next.after = pc[i].after
    <3>1. "post" \in InTest
      BY DEF InTest
    <3> QED BY <2>1, <3>1, InsideExcept
  <2>3. /\ pc' = [pc EXCEPT ![i] = next] /\ sem' = sem /\ Current(next)
        /\ state' = [state EXCEPT ![pc[i].of] = "EATING"]
    BY <1>17, <2>2 DEF GetsForks, GoesOn, Goes, MovedTo, Current
  <2>4. \A j \in Seats : TakingForks(j)' => TakingForks(j)
    BY <1>2, <1>5, <2>1, <2>2, <2>3 DEF TakingForks, InTest
  <2>5. PICK f \in Seats : f = pc[i].of
    BY <2>1 DEF Inside
  <2>6. PostComing(f)'
    BY <1>2, <2>2, <2>3, <2>5 DEF PostComing
  <2>7. \A j \in Seats : Placed(j) /\ TakingForks(j)' =>
          state'[j] = "HUNGRY" \/ sem'[j] > 0 \/ PostComing(j)'
    <3>1. SUFFICES ASSUME NEW j \in Seats, Placed(j), TakingForks(j)'
                   PROVE  state'[j] = "HUNGRY" \/ sem'[j] > 0 \/ PostComing(j)'
      OBVIOUS
    <3>2. CASE j = f
      BY <2>6, <3>2
    <3>3. CASE j # f
      <4>1. state[j] = "HUNGRY" \/ sem[j] > 0 \/ PostComing(j)
        BY <1>1, <2>4, <3>1 DEF HungryServed
      <4>2. state'[j] = state[j] /\ sem'[j] = sem[j]
        BY <1>2, <2>3, <2>5, <3>3
      <4>3. PostComing(j) => PostComing(j)'
        BY <1>4, <2>1, <2>2, <2>3
      <4> QED BY <4>1, <4>2, <4>3
    <3> QED BY <3>2, <3>3
  <2> QED BY <1>2, <1>3, <2>2, <2>3, <2>7 DEF States
<1>18. CASE Posts(i)
  <2>1. pc[i].at = "post" /\ pc[i].at \in InTest /\ pc[i].of \in Seats
    BY <1>2, <1>18 DEF Posts, InTest
  <2>2. PICK next \in Outside \cup Inside :
               /\ pc' = [pc EXCEPT ![i] = next] /\ next.at # "post" /\ Current(next)
               /\ next.at = "wait" \/ (next.at \in InTest /\ next.after = "wait") => pc[i].after = "wait"
    BY <1>6, <1>18, <2>1 DEF Posts
  <2>3. /\ state' = state
        /\ sem' = IF Seated(pc[i].of) THEN [sem EXCEPT ![pc[i].of] = @ + 1] ELSE sem
    BY <1>18 DEF Posts
  <2>4. \A j \in Seats : TakingForks(j)' => TakingForks(j)
    BY <1>2, <1>5, <2>1, <2>2 DEF TakingForks
  <2>5. sem' \in [Seats -> Nat] /\ (Seated(pc[i].of) => sem'[pc[i].of] > 0)
        /\ \A j \in Seats : j # pc[i].of => sem'[j] = sem[j]
    BY <1>2, <2>1, <2>3
  <2>6. \A j \in Seats : Placed(j) /\ TakingForks(j)' =>
          state'[j] = "HUNGRY" \/ sem'[j] > 0 \/ PostComing(j)'
    <3>1. SUFFICES ASSUME NEW j \in Seats, Placed(j), TakingForks(j)', j # pc[i].of
                   PROVE  state'[j] = "HUNGRY" \/ sem'[j] > 0 \/ PostComing(j)'
      BY <1>1, <2>5
    <3>2. state[j] = "HUNGRY" \/ sem[j] > 0 \/ PostComing(j)
      BY <1>1, <2>4, <3>1 DEF HungryServed
    <3> QED BY <1>4, <2>2, <2>3, <2>5, <3>1, <3>2
  <2> QED BY <1>2, <1>3, <2>2, <2>3, <2>5, <2>6
<1> QED BY <1>7, <1>8, <1>9, <1>11, <1>14, <1>15, <1>16, <1>17, <1>18 DEF Philosopher

LEMMA StepInvariant == IInv /\ [Next]_vars => IInv'
<1> SUFFICES ASSUME IInv, [Next]_vars PROVE IInv'
  OBVIOUS
<1>1. CASE Next
  <2>1. CASE AddPhilo \/ CountSeat \/ TakeSeat \/ RemovePhilo \/ Leave \/ Quit \/ Closes
    BY <2>1, HostKeepsInvariant
  <2>2. ASSUME NEW i \in Seats, Philosopher(i) PROVE IInv'
    BY <2>2, PhilosopherKeepsInvariant
  <2>3. ASSUME NEW i \in Seats, DividesByZero(i) PROVE IInv'
    BY <2>3 DEF DividesByZero, IInv
  <2> QED BY <1>1, <2>1, <2>2, <2>3 DEF Next
<1>2. CASE UNCHANGED vars
  <2>1. TableOK' = TableOK /\ Places' = Places /\ (HeldCurrent => HeldCurrent')
    BY <1>2 DEF vars, TableOK, Places, HeldCurrent, Current, LEFT, RIGHT
  <2>2. UnseatedIdle /\ HungryServed => UnseatedIdle' /\ HungryServed'
    BY <1>2, <2>1 DEF vars, UnseatedIdle, HungryServed, Placed, TakingForks, PostComing
  <2> QED BY <1>2, <2>1, <2>2 DEF vars, IInv
<1> QED BY <1>1, <1>2

LEMMA InitInvariant == Init => IInv
<1> SUFFICES ASSUME Init PROVE TableOK /\ UnseatedIdle /\ HungryServed /\ HeldCurrent
  BY DEF IInv
<1>1. TableOK
  BY SeatsType DEF Init, TableOK, Menu, States, Outside
<1>2. \A i \in Seats : pc[i].at = "none"
  BY DEF Init
<1> QED BY <1>1, <1>2 DEF UnseatedIdle, HungryServed, TakingForks, InTest, HeldCurrent, Current

LEMMA Invariance == Spec => []IInv
BY InitInvariant, StepInvariant, PTL DEF Spec

(* With any number of seats, and without a mutex, a philosopher that       *)
(* sleeps in takeForks is HUNGRY or about to be woken.                     *)
THEOREM SleepersAreHungry == Spec => []AsleepIsHungry
<1>1. IInv => AsleepIsHungry
  <2>1. SUFFICES ASSUME IInv, ~mishap, NEW i \in Seats, Asleep(i)
                 PROVE  state[i] = "HUNGRY" \/ PostComing(i)
    BY DEF AsleepIsHungry, PostComing
  <2>2. UnseatedIdle /\ HungryServed /\ TakingForks(i) /\ sem[i] = 0 /\ pc[i].at = "wait"
    BY <2>1 DEF IInv, Asleep, TakingForks
  <2>3. Placed(i)
    BY <2>2 DEF UnseatedIdle
  <2> QED BY <2>2, <2>3 DEF HungryServed
<1> QED BY <1>1, Invariance, PTL
-----------------------------------------------------------------------------
(* Inside its own test() a philosopher tests its own seat. *)
OwnTest == \A i \in Seats : Placed(i) /\ pc[i].at \in InTest /\ pc[i].after = "wait" => pc[i].of = i

(* EATING is written with a semPost to follow: until the philosopher eats, *)
(* its token is there or on its way.                                       *)
Served(i) == sem[i] > 0 \/ PostComing(i)
EatingServed == \A i \in Seats : Placed(i) /\ state[i] = "EATING" /\ pc[i].at # "eat" => Served(i)

(* Seat 1 has the same neighbours, 0 and 2, whatever the size of the table *)
(* (with two seats both are 0).  Neighbour k owes it a test() if it eats,  *)
(* is about to, or is in putForks and not past that test().                *)
TestsOne(k) ==
  \/ pc[k].at \in {"putLeft", "putLeft2"}
  \/ k = 0 /\ pc[k].at = "putRight"
  \/ /\ pc[k].at \in InTest
     /\ \/ k = 0 /\ pc[k].after = "putRight"
        \/ pc[k].of = 1 /\ pc[k].after # "wait"
Owes(k) ==
  \/ state[k] = "EATING" \/ pc[k].at = "eat"
  \/ TakingForks(k) /\ Served(k)
  \/ TestsOne(k)

OneOwed ==
  1 \in Seats /\ Placed(1) /\ pc[1].at = "wait" =>
    Served(1) \/ \E k \in Seats : k \in {0, 2} /\ Placed(k) /\ Owes(k)

DineInv == IInv /\ (~mishap => OwnTest /\ EatingServed /\ OneOwed)

LEMMA NeighboursOfOne ==
  ASSUME NEW n \in Nat, n >= 2
  PROVE  /\ (1 + n - 1) % n = 0 /\ (0 + 1) % n = 1
         /\ (1 + 1) % n = IF n = 2 THEN 0 ELSE 2
         /\ n > 2 => (2 + n - 1) % n = 1
<1>1. CASE n = 2
  BY <1>1
<1>2. CASE n > 2
  <2>1. (1 + n - 1) % n = 0
    BY <1>2
  <2>2. (0 + 1) % n = 1 /\ (1 + 1) % n = 2
    BY <1>2
  <2>3. (2 + n - 1) % n = 1
    BY <1>2
  <2> QED BY <1>2, <2>1, <2>2, <2>3
<1> QED BY <1>1, <1>2

-----------------------------------------------------------------------------
(* The steps of philosopher i, seen by the others. *)
Stays(i) == \A j \in Seats : j # i => pc'[j] = pc[j]
ReturnsTo(i) == pc[i].after \in {"wait", "think", "putRight"} /\ pc'[i].at = pc[i].after
SameCall(i) == pc'[i].of = pc[i].of /\ pc'[i].after = pc[i].after
InCall(i) == pc[i].at \in InTest /\ pc'[i].at \in InTest /\ SameCall(i)

Hungry(i) ==
  /\ pc[i].at = "think" /\ pc'[i] = Testing(i, "wait") /\ sem' = sem
  /\ state'[i] = "HUNGRY"
  /\ \A j \in Seats : j # i => state'[j] = state[j]
Eats(i) ==
  /\ pc[i].at = "wait" /\ pc'[i].at = "eat" /\ state' = state
  /\ \A j \in Seats : j # i => sem'[j] = sem[j]
Leaves(i) ==
  /\ pc[i].at = "eat" /\ pc'[i].at = "putLeft" /\ sem' = sem
  /\ state'[i] = "THINKING" /\ \A j \in Seats : j # i => state'[j] = state[j]
Turns(i) ==
  /\ \/ pc[i].at = "putLeft" /\ pc'[i].at = "putLeft2"
     \/ pc[i].at = "putLeft2" /\ pc'[i] = Testing(LEFT(i), "putRight")
     \/ pc[i].at = "putRight" /\ pc'[i] = Testing(RIGHT(i), "think")
  /\ UNCHANGED <<state, sem>>
Passes(i) == InCall(i) /\ pc[i].at # "post" /\ UNCHANGED <<state, sem>>
GivesUp(i) ==
  /\ \/ pc[i].at = "own" /\ state[pc[i].of] # "HUNGRY"
     \/ pc[i].at = "leftState" /\ state[LEFT(pc[i].of)] = "EATING"
     \/ pc[i].at = "rightState" /\ state[RIGHT(pc[i].of)] = "EATING"
  /\ ReturnsTo(i) /\ UNCHANGED <<state, sem>>
Serves(i) ==
  /\ pc[i].at = "forks" /\ pc'[i].at = "post" /\ InCall(i) /\ sem' = sem
  /\ state'[pc[i].of] = "EATING" /\ \A j \in Seats : j # pc[i].of => state'[j] = state[j]
Wakes(i) ==
  /\ pc[i].at = "post" /\ ReturnsTo(i) /\ state' = state
  /\ Seated(pc[i].of) => sem'[pc[i].of] > 0
  /\ \A j \in Seats : j # pc[i].of => sem'[j] = sem[j]
Dines(i) ==
  \/ Hungry(i) \/ Eats(i) \/ Leaves(i) \/ Turns(i)
  \/ Passes(i) \/ GivesUp(i) \/ Serves(i) \/ Wakes(i)

LEMMA TestingFields ==
  ASSUME NEW x, NEW a, NEW r, r = Testing(x, a)
  PROVE  r.at = "own" /\ r.of = x /\ r.after = a
BY DEF Testing

LEMMA Cases ==
  ASSUME IInv, ~mishap', NEW i \in Seats, Philosopher(i)
  PROVE  /\ ~mishap /\ Placed(i) /\ Seated(i) /\ TableOK /\ Stays(i)
         /\ \A j \in Seats : Placed(j)' <=> Placed(j)
         /\ \A j \in Seats : Placed(j) => Seated(j)
         /\ philosopherCount' = philosopherCount /\ host.at # "placing"
         /\ pc[i].at \in InTest => pc[i] \in Inside
         /\ Dines(i)
<1>1. ~mishap /\ Seated(i) /\ UNCHANGED <<philosopherCount, host>> /\ host.at # "placing"
  BY DEF Philosopher
<1>2. TableOK /\ pc \in [Seats -> Outside \cup Inside] /\ pc[i] \in Outside \cup Inside
      /\ state \in [Seats -> States] /\ sem \in [Seats -> Nat]
      /\ philosopherCount \in Nat /\ philosopherCount > 0 /\ HeldCurrent
  BY <1>1, SeatsType DEF IInv, TableOK, Seated
<1>3. pc[i].at \in InTest => pc[i] \in Inside /\ pc[i].of \in Seats
  BY <1>2 DEF Outside, Inside, InTest
<1>4. /\ \A j \in Seats : Placed(j)' <=> Placed(j)
      /\ \A j \in Seats : Placed(j) => Seated(j)
      /\ Placed(i)
  BY <1>1, <1>2, PlacedType DEF Placed, Places
<1>5. ASSUME pc[i].at \in InTest, Returns(i)
      PROVE  Stays(i) /\ ReturnsTo(i)
  <2>1. pc[i].after \in {"wait", "think", "putRight"}
    BY <1>3, <1>5 DEF Inside
  <2>2. PICK next \in Outside : next = [at |-> pc[i].after]
    BY <2>1 DEF Outside
  <2>3. next.at = pc[i].after
    BY <2>2
  <2>4. pc' = [pc EXCEPT ![i] = next]
    BY <1>5, <2>2 DEF Returns, Goes
  <2>5. pc'[i] = next /\ Stays(i)
    BY <1>2, <2>4 DEF Stays
  <2> QED BY <2>1, <2>3, <2>5 DEF ReturnsTo
<1>6. ASSUME pc[i].at \in InTest, NEW a \in InTest, NEW h \in Nat, GoesOn(i, a, h)
      PROVE  Stays(i) /\ pc'[i].at = a /\ InCall(i)
  <2>1. PICK next \in Inside : /\ next = MovedTo(pc[i], a, h)
                               /\ next.at = a /\ next.of = pc[i].of /\ next.after = pc[i].after
    BY <1>3, <1>6, InsideExcept
  <2>2. pc' = [pc EXCEPT ![i] = next]
    BY <1>6, <2>1 DEF GoesOn, Goes, MovedTo
  <2>3. pc'[i] = next
    BY <1>2, <2>2
  <2> QED BY <1>2, <1>6, <2>1, <2>2, <2>3 DEF Stays, SameCall, InCall
<1>7. ASSUME TakeForks(i)
      PROVE  Stays(i) /\ Hungry(i)
  BY <1>2, <1>7 DEF TakeForks, Goes, Stays, Hungry
<1>8. ASSUME Waits(i)
      PROVE  Stays(i) /\ Eats(i)
  BY <1>1, <1>2, <1>8 DEF Waits, Goes, Stays, Eats
<1>9. ASSUME PutForks(i)
      PROVE  Stays(i) /\ Leaves(i)
  BY <1>2, <1>9 DEF PutForks, Goes, Stays, Leaves
<1>10. ASSUME TestsNeighbours(i)
       PROVE  Stays(i) /\ Turns(i)
  <2>1. UNCHANGED <<state, sem>>
    BY <1>10 DEF TestsNeighbours
  <2>2. CASE pc[i].at = "putLeft" /\ Goes(i, [at |-> "putLeft2", held |-> philosopherCount])
    BY <1>2, <2>1, <2>2 DEF Goes, Stays, Turns
  <2>3. CASE pc[i].at = "putLeft2" /\ Goes(i, Testing(LeftOf(i, pc[i].held), "putRight"))
    <3>1. LeftOf(i, pc[i].held) = LEFT(i)
      BY <1>2, <2>3, Neighbours DEF HeldCurrent, Current
    <3> QED BY <1>2, <2>1, <2>3, <3>1 DEF Goes, Stays, Turns
  <2>4. CASE pc[i].at = "putRight" /\ Goes(i, Testing(RIGHT(i), "think"))
    BY <1>2, <2>1, <2>4 DEF Goes, Stays, Turns
  <2> QED BY <1>10, <2>2, <2>3, <2>4 DEF TestsNeighbours
<1>11. ASSUME pc[i].at \in InTest, pc[i].at # "post", UNCHANGED <<state, sem>>,
              NEW next \in {"left", "right", "forks"}, NEW goOn \in BOOLEAN, Continues(i, goOn, next)
       PROVE  Stays(i) /\ (Passes(i) \/ (~goOn /\ ReturnsTo(i)))
  <2>1. CASE goOn
    <3>1. GoesOn(i, next, 0) /\ next \in InTest
      BY <1>11, <2>1 DEF Continues, InTest
    <3>2. Stays(i) /\ InCall(i)
      BY <1>6, <1>11, <3>1
    <3> QED BY <1>11, <3>2 DEF Passes
  <2>2. CASE ~goOn
    BY <1>5, <1>11, <2>2 DEF Continues
  <2> QED BY <2>1, <2>2
<1>12. ASSUME ReadsOwn(i)
       PROVE  Stays(i) /\ (Passes(i) \/ GivesUp(i))
  <2>1. pc[i].at = "own" /\ pc[i].at \in InTest /\ UNCHANGED <<state, sem>>
        /\ Continues(i, state[pc[i].of] = "HUNGRY", "left")
    BY <1>12 DEF ReadsOwn, InTest
  <2>2. Stays(i) /\ (Passes(i) \/ (state[pc[i].of] # "HUNGRY" /\ ReturnsTo(i)))
    BY <1>11, <2>1
  <2> QED BY <2>1, <2>2 DEF GivesUp
<1>13. ASSUME FindsNeighbour(i)
       PROVE  Stays(i) /\ Passes(i)
  <2>1. PICK where \in InTest, h \in Nat : GoesOn(i, where, h)
    <3>1. CASE pc[i].at = "left" /\ GoesOn(i, "left2", philosopherCount)
      <4>1. "left2" \in InTest
        BY DEF InTest
      <4> QED BY <1>2, <3>1, <4>1
    <3>2. CASE pc[i].at = "left2" /\ GoesOn(i, "leftState", LeftOf(pc[i].of, pc[i].held))
      <4>1. pc[i].at \in InTest /\ "leftState" \in InTest
        BY <3>2 DEF InTest
      <4>2. LeftOf(pc[i].of, pc[i].held) \in Nat
        BY <1>2, <1>3, <3>2, <4>1, Neighbours, SeatsType DEF HeldCurrent, Current
      <4> QED BY <3>2, <4>1, <4>2
    <3>3. CASE pc[i].at = "right" /\ GoesOn(i, "rightState", RIGHT(pc[i].of))
      <4>1. pc[i].at \in InTest /\ "rightState" \in InTest
        BY <3>3 DEF InTest
      <4>2. RIGHT(pc[i].of) \in Nat
        BY <1>2, <1>3, <3>3, <4>1, Neighbours, SeatsType
      <4> QED BY <3>3, <4>1, <4>2
    <3> QED BY <1>13, <3>1, <3>2, <3>3 DEF FindsNeighbour
  <2>2. pc[i].at \in InTest /\ pc[i].at # "post" /\ UNCHANGED <<state, sem>>
    BY <1>13 DEF FindsNeighbour, InTest
  <2>3. Stays(i) /\ InCall(i)
    BY <1>6, <2>1, <2>2
  <2> QED BY <2>2, <2>3 DEF Passes
<1>14. ASSUME NEW where \in {"leftState", "rightState"}, NEW next \in {"right", "forks"},
              NEW j \in Seats, pc[i].at = where => pc[i].held = j, ReadsNeighbour(i, where, next)
       PROVE  /\ pc[i].at = where /\ UNCHANGED <<state, sem>>
              /\ Stays(i) /\ (Passes(i) \/ (state[j] = "EATING" /\ ReturnsTo(i)))
  <2>1. /\ pc[i].at = where /\ pc[i].at \in InTest /\ pc[i].at # "post"
        /\ UNCHANGED <<state, sem>> /\ pc[i].held # -1
    BY <1>14, SeatsType DEF ReadsNeighbour, InTest
  <2>2. Continues(i, state[j] # "EATING", next)
    BY <1>14, <2>1 DEF ReadsNeighbour
  <2>3. Stays(i) /\ (Passes(i) \/ (~(state[j] # "EATING") /\ ReturnsTo(i)))
    BY <1>11, <2>1, <2>2
  <2> QED BY <2>1, <2>3
<1>15. ASSUME ReadsLeft(i)
       PROVE  Stays(i) /\ (Passes(i) \/ GivesUp(i))
  <2>1. pc[i].at = "leftState" /\ pc[i].at \in InTest
    BY <1>15 DEF ReadsLeft, ReadsNeighbour, InTest
  <2>2. PICK j \in Seats : j = LEFT(pc[i].of)
    BY <1>2, <1>3, <2>1, Neighbours
  <2>3. pc[i].held = j
    BY <1>2, <2>1, <2>2 DEF HeldCurrent, Current
  <2>4. UNCHANGED <<state, sem>> /\ Stays(i) /\ (Passes(i) \/ (state[j] = "EATING" /\ ReturnsTo(i)))
    BY <1>14, <1>15, <2>3 DEF ReadsLeft
  <2> QED BY <2>1, <2>2, <2>4 DEF GivesUp
<1>16. ASSUME ReadsRight(i)
       PROVE  Stays(i) /\ (Passes(i) \/ GivesUp(i))
  <2>1. pc[i].at = "rightState" /\ pc[i].at \in InTest
    BY <1>16 DEF ReadsRight, ReadsNeighbour, InTest
  <2>2. PICK j \in Seats : j = RIGHT(pc[i].of)
    BY <1>2, <1>3, <2>1, Neighbours
  <2>3. pc[i].held = j
    BY <1>2, <2>1, <2>2 DEF HeldCurrent, Current
  <2>4. UNCHANGED <<state, sem>> /\ Stays(i) /\ (Passes(i) \/ (state[j] = "EATING" /\ ReturnsTo(i)))
    BY <1>14, <1>16, <2>3 DEF ReadsRight
  <2> QED BY <2>1, <2>2, <2>4 DEF GivesUp
<1>17. ASSUME GetsForks(i)
       PROVE  Stays(i) /\ Serves(i)
  <2>1. pc[i].at = "forks" /\ pc[i].at \in InTest /\ "post" \in InTest
    BY <1>17 DEF GetsForks, InTest
  <2>2. Stays(i) /\ pc'[i].at = "post" /\ InCall(i)
    BY <1>6, <1>17, <2>1 DEF GetsForks
  <2> QED BY <1>2, <1>3, <1>17, <2>1, <2>2 DEF GetsForks, Serves
<1>18. ASSUME Posts(i)
       PROVE  Stays(i) /\ Wakes(i)
  <2>1. pc[i].at = "post" /\ pc[i].at \in InTest
    BY <1>18 DEF Posts, InTest
  <2>2. Stays(i) /\ ReturnsTo(i)
    BY <1>5, <1>18, <2>1 DEF Posts
  <2> QED BY <1>2, <1>3, <1>18, <2>1, <2>2 DEF Posts, Wakes
<1>19. Stays(i) /\ Dines(i)
  BY <1>7, <1>8, <1>9, <1>10, <1>12, <1>13, <1>15, <1>16, <1>17, <1>18 DEF Philosopher, Dines
<1> QED BY <1>1, <1>2, <1>3, <1>4, <1>19

(* Only the philosopher itself takes its token. *)
LEMMA ServedKept ==
  ASSUME IInv, ~mishap', NEW i \in Seats, Philosopher(i),
         NEW j \in Seats, Placed(j), Served(j), i = j => pc'[i].at # "eat"
  PROVE  Served(j)'
<1>1. Stays(i) /\ Dines(i) /\ Seated(j)
  BY Cases
<1>2. CASE sem[j] > 0
  <2>1. Wakes(i) => sem'[j] > 0
    BY <1>1, <1>2 DEF Wakes
  <2>2. ~Wakes(i) => sem'[j] = sem[j]
    BY <1>1 DEF Dines, Hungry, Eats, Leaves, Turns, Passes, GivesUp, Serves
  <2> QED BY <1>2, <2>1, <2>2 DEF Served
<1>3. CASE PostComing(j)
  <2>1. PICK k \in Seats : pc[k].at = "post" /\ pc[k].of = j
    BY <1>3 DEF PostComing
  <2>2. CASE k # i
    BY <1>1, <2>1, <2>2 DEF Stays, Served, PostComing
  <2>3. CASE k = i
    <3>1. Wakes(i)
      BY <1>1, <2>1, <2>3 DEF Dines, Hungry, Eats, Leaves, Turns, Passes, GivesUp, Serves
    <3> QED BY <1>1, <2>1, <2>3, <3>1 DEF Wakes, Served
  <2> QED BY <2>2, <2>3
<1> QED BY <1>2, <1>3 DEF Served

LEMMA OwnTestStep ==
  ASSUME DineInv, ~mishap', NEW i \in Seats, Philosopher(i)
  PROVE  OwnTest'
<1>1. /\ OwnTest /\ Stays(i) /\ Placed(i) /\ Dines(i)
      /\ \A j \in Seats : Placed(j)' <=> Placed(j)
  BY Cases DEF DineInv
<1>2. ASSUME pc'[i].at \in InTest, pc'[i].after = "wait"
      PROVE  pc'[i].of = i
  <2>1. ReturnsTo(i) => FALSE
    BY <1>2 DEF ReturnsTo, InTest
  <2>2. Passes(i) \/ Serves(i) => pc[i].at \in InTest /\ SameCall(i)
    BY DEF Passes, Serves, InCall
  <2>3. Eats(i) \/ Leaves(i) => FALSE
    BY <1>2 DEF Eats, Leaves, InTest
  <2>4. Hungry(i) => pc'[i].of = i
    BY TestingFields DEF Hungry
  <2>5. SameCall(i) /\ pc[i].at \in InTest => pc'[i].of = i
    BY <1>1, <1>2 DEF SameCall, OwnTest
  <2>6. Turns(i) => FALSE
    <3>1. pc'[i] = Testing(LEFT(i), "putRight") => pc'[i].after = "putRight"
      BY TestingFields
    <3>2. pc'[i] = Testing(RIGHT(i), "think") => pc'[i].after = "think"
      BY TestingFields
    <3>3. pc'[i].at # "putLeft2"
      BY <1>2 DEF InTest
    <3> QED BY <1>2, <3>1, <3>2, <3>3 DEF Turns
  <2> QED BY <1>1, <2>1, <2>2, <2>3, <2>4, <2>5, <2>6 DEF Dines, GivesUp, Wakes
<1> QED BY <1>1, <1>2 DEF OwnTest, Stays

LEMMA EatingServedStep ==
  ASSUME DineInv, ~mishap', NEW i \in Seats, Philosopher(i)
  PROVE  EatingServed'
<1>1. /\ EatingServed /\ IInv /\ Stays(i) /\ Placed(i) /\ Dines(i)
      /\ \A j \in Seats : Placed(j)' <=> Placed(j)
  BY Cases DEF DineInv
<1> SUFFICES ASSUME NEW j \in Seats, Placed(j), state'[j] = "EATING", pc'[j].at # "eat"
             PROVE  Served(j)'
  BY <1>1 DEF EatingServed
<1>2. CASE state[j] = "EATING"
  <2>1. pc[j].at # "eat"
    <3>1. CASE j # i
      BY <1>1, <3>1 DEF Stays
    <3>2. CASE j = i
      BY <1>1, <3>2 DEF Dines, Hungry, Eats, Leaves, Turns, Passes, InCall, InTest, GivesUp, Serves, Wakes
    <3> QED BY <3>1, <3>2
  <2>2. Served(j)
    BY <1>1, <1>2, <2>1 DEF EatingServed
  <2> QED BY <1>1, <2>2, ServedKept
<1>3. CASE state[j] # "EATING"
  <2>1. Serves(i) /\ pc[i].of = j
    <3>1. Hungry(i) => j = i /\ state'[j] = "HUNGRY"
      BY <1>3 DEF Hungry
    <3>2. Leaves(i) => j = i /\ state'[j] = "THINKING"
      BY <1>3 DEF Leaves
    <3> QED BY <1>1, <1>3, <3>1, <3>2 DEF Dines, Eats, Turns, Passes, GivesUp, Serves, Wakes
  <2> QED BY <2>1 DEF Serves, InCall, SameCall, Served, PostComing
<1> QED BY <1>2, <1>3

(* Seat 1 and its neighbours. *)
LEMMA AroundOne ==
  ASSUME TableOK, 1 \in Seats, Placed(1), host.at # "placing"
  PROVE  /\ 0 \in Seats /\ Placed(0) /\ LEFT(1) = 0 /\ RIGHT(0) = 1
         /\ RIGHT(1) \in {0, 2} /\ RIGHT(1) \in Seats /\ Placed(RIGHT(1))
         /\ 2 \in Seats /\ Placed(2) => LEFT(2) = 1
<1> DEFINE n == philosopherCount
<1>0. \A j : Placed(j) <=> Seated(j)
  BY PlacedType
<1>1. n \in Nat /\ n >= 2 /\ n <= MAX_PHILOS /\ MAX_PHILOS \in Nat
  BY <1>0, SeatsType DEF TableOK, Seated
<1>2. /\ (1 + n - 1) % n = 0 /\ (0 + 1) % n = 1
      /\ (1 + 1) % n = IF n = 2 THEN 0 ELSE 2
      /\ n > 2 => (2 + n - 1) % n = 1
  BY <1>1, NeighboursOfOne
<1>3. LEFT(1) = 0 /\ RIGHT(0) = 1 /\ RIGHT(1) = (IF n = 2 THEN 0 ELSE 2)
  BY <1>2 DEF LEFT, RIGHT
<1>4. n > 2 => LEFT(2) = 1
  BY <1>2 DEF LEFT
<1> QED BY <1>0, <1>1, <1>3, <1>4 DEF Seats, Seated

(* A philosopher that gives up the test() of seat 1 has seen a neighbour   *)
(* of seat 1 eat, as long as seat 1 is HUNGRY.                             *)
LEMMA GivesUpOne ==
  ASSUME TableOK, 1 \in Seats, Placed(1), host.at # "placing", state[1] = "HUNGRY",
         NEW i \in Seats, GivesUp(i), pc[i].of = 1
  PROVE  \E k \in Seats : k \in {0, 2} /\ Placed(k) /\ state'[k] = "EATING"
<1>1. /\ 0 \in Seats /\ Placed(0) /\ LEFT(1) = 0
      /\ RIGHT(1) \in {0, 2} /\ RIGHT(1) \in Seats /\ Placed(RIGHT(1))
  BY AroundOne
<1>2. state[0] = "EATING" \/ state[RIGHT(1)] = "EATING"
  BY <1>1 DEF GivesUp
<1>3. state' = state
  BY DEF GivesUp
<1>4. PICK r \in Seats : r = RIGHT(1)
  BY <1>1
<1> QED BY <1>1, <1>2, <1>3, <1>4

(* Who owes seat 1 a test() still does after a step of its own, unless it  *)
(* gives the test() of seat 1 up.                                          *)
LEMMA OwesKept ==
  ASSUME DineInv, ~mishap', NEW i \in Seats, Philosopher(i),
         1 \in Seats, Placed(1), ~Served(1)', state[1] = "HUNGRY",
         i \in {0, 2}, Owes(i)
  PROVE  Owes(i)' \/ (GivesUp(i) /\ pc[i].of = 1)
<1>1. /\ OwnTest /\ EatingServed /\ IInv /\ Stays(i) /\ Placed(i)
      /\ TableOK /\ ~mishap /\ Seated(1) /\ host.at # "placing"
      /\ pc[i].at \in InTest => pc[i] \in Inside
      /\ Dines(i)
  BY Cases DEF DineInv
<1>2. RIGHT(0) = 1 /\ (i = 2 => LEFT(i) = 1)
  BY <1>1, AroundOne
<1>3. Served(i) /\ pc'[i].at # "eat" => Served(i)'
  BY <1>1, ServedKept
<1>4. CASE Hungry(i)
  <2>1. pc[i].at = "think" /\ pc'[i] = Testing(i, "wait")
    BY <1>4 DEF Hungry
  <2>2. ~TakingForks(i) /\ ~TestsOne(i) /\ pc[i].at # "eat"
    BY <2>1 DEF TakingForks, TestsOne, InTest
  <2>3. Served(i)
    BY <1>1, <2>2 DEF Owes, EatingServed
  <2>4. TakingForks(i)' /\ pc'[i].at # "eat"
    BY <2>1, TestingFields DEF TakingForks, InTest
  <2> QED BY <1>3, <2>3, <2>4 DEF Owes
<1>5. CASE Eats(i)
  BY <1>5 DEF Eats, Owes
<1>6. CASE Leaves(i)
  BY <1>6 DEF Leaves, Owes, TestsOne
<1>7. CASE Turns(i)
  <2>1. CASE pc'[i].at = "putLeft2"
    BY <2>1 DEF Owes, TestsOne
  <2>2. CASE pc[i].at = "putLeft2" /\ pc'[i] = Testing(LEFT(i), "putRight")
    <3>1. pc'[i].at = "own" /\ pc'[i].of = LEFT(i) /\ pc'[i].after = "putRight"
      BY <2>2 DEF Testing
    <3>2. TestsOne(i)'
      BY <1>2, <3>1 DEF TestsOne, InTest
    <3> QED BY <3>2 DEF Owes
  <2>3. CASE pc[i].at = "putRight" /\ pc'[i] = Testing(RIGHT(i), "think")
    <3>1. pc'[i].at = "own" /\ pc'[i].of = RIGHT(i) /\ pc'[i].after = "think"
      BY <2>3 DEF Testing
    <3>2. CASE i = 0
      <4>1. TestsOne(i)'
        BY <1>2, <3>1, <3>2 DEF TestsOne, InTest
      <4> QED BY <4>1 DEF Owes
    <3>3. CASE i # 0
      <4>1. ~TestsOne(i) /\ ~TakingForks(i) /\ pc[i].at # "eat"
        BY <2>3, <3>3 DEF TestsOne, TakingForks, InTest
      <4>2. state[i] = "EATING" /\ state' = state
        BY <1>7, <4>1 DEF Owes, Turns
      <4> QED BY <4>2 DEF Owes
    <3> QED BY <3>2, <3>3
  <2> QED BY <1>7, <2>1, <2>2, <2>3 DEF Turns
<1>8. CASE Passes(i) \/ Serves(i)
  <2>1. /\ SameCall(i) /\ pc[i].at \in InTest /\ pc'[i].at \in InTest
        /\ pc'[i].at # "eat" /\ pc[i].at # "eat"
    BY <1>8 DEF Passes, Serves, InCall, InTest
  <2>2. state[i] = "EATING" => state'[i] = "EATING"
    BY <1>8 DEF Passes, Serves
  <2>3. TestsOne(i) => TestsOne(i)'
    BY <2>1 DEF TestsOne, SameCall, InTest
  <2>4. TakingForks(i) => TakingForks(i)'
    BY <2>1 DEF TakingForks, SameCall, InTest
  <2> QED BY <1>3, <2>1, <2>2, <2>3, <2>4 DEF Owes
(* A test() that returns takes the philosopher into its semWait, or on to  *)
(* seat 1, or was that of seat 1 and ends.                                 *)
<1>9. CASE GivesUp(i) \/ Wakes(i)
  <2>1. /\ ReturnsTo(i) /\ state' = state /\ pc[i].at \in InTest /\ pc[i].at # "eat"
    BY <1>1, <1>9 DEF GivesUp, Wakes, InTest
  <2>2. pc[i].at \notin {"wait", "putLeft", "putLeft2", "putRight"}
    BY <2>1 DEF InTest
  <2>3. pc'[i].at # "eat"
    BY <2>1 DEF ReturnsTo
  <2>4. CASE state[i] = "EATING"
    BY <2>1, <2>4 DEF Owes
  <2>5. CASE TakingForks(i) /\ Served(i)
    <3>1. pc[i].after = "wait"
      BY <2>2, <2>5 DEF TakingForks
    <3>2. pc'[i].at = "wait"
      BY <2>1, <3>1 DEF ReturnsTo
    <3> QED BY <1>3, <2>3, <2>5, <3>2 DEF Owes, TakingForks
  <2>6. CASE i = 0 /\ pc[i].after = "putRight"
    <3>1. pc'[i].at = "putRight"
      BY <2>1, <2>6 DEF ReturnsTo
    <3> QED BY <2>6, <3>1 DEF Owes, TestsOne
  <2>7. CASE pc[i].of = 1
    <3>1. CASE GivesUp(i)
      BY <2>7, <3>1
    <3>2. CASE Wakes(i)
      <4>1. sem'[1] > 0
        BY <1>1, <2>7, <3>2 DEF Wakes
      <4> QED BY <4>1 DEF Served
    <3> QED BY <1>9, <3>1, <3>2
  <2> QED BY <2>1, <2>2, <2>4, <2>5, <2>6, <2>7 DEF Owes, TestsOne
<1> QED BY <1>1, <1>4, <1>5, <1>6, <1>7, <1>8, <1>9 DEF Dines

LEMMA OneOwedStep ==
  ASSUME DineInv, ~mishap', NEW i \in Seats, Philosopher(i)
  PROVE  OneOwed'
<1>1. /\ OneOwed /\ OwnTest /\ IInv /\ HungryServed /\ TableOK /\ Stays(i)
      /\ Placed(i) /\ ~mishap /\ host.at # "placing"
      /\ \A j \in Seats : (Placed(j)' <=> Placed(j)) /\ (Placed(j) => Seated(j))
      /\ pc[i].at \in InTest => pc[i] \in Inside
      /\ Dines(i)
  BY Cases DEF DineInv, IInv
<1> SUFFICES ASSUME 1 \in Seats, Placed(1), pc'[1].at = "wait", ~Served(1)'
             PROVE  \E k \in Seats : k \in {0, 2} /\ Placed(k) /\ Owes(k)'
  BY <1>1 DEF OneOwed
<1>2. ~Served(1)
  BY <1>1, ServedKept
<1>3. CASE i = 1
  <2>1. GivesUp(i) \/ Wakes(i)
    <3>1. ~Hungry(i)
      BY <1>3, TestingFields DEF Hungry
    <3>2. ~Turns(i)
      BY <1>3, TestingFields DEF Turns
    <3>3. ~Passes(i) /\ ~Serves(i)
      BY <1>3 DEF Passes, Serves, InCall, InTest
    <3> QED BY <1>1, <1>3, <3>1, <3>2, <3>3 DEF Dines, Eats, Leaves
  <2>2. ReturnsTo(i) /\ pc[i].at \in InTest
    BY <2>1 DEF GivesUp, Wakes, InTest
  <2>3. pc[i].after = "wait"
    BY <1>3, <2>2 DEF ReturnsTo
  <2>4. pc[i].of = 1 /\ TakingForks(1)
    BY <1>1, <1>3, <2>2, <2>3 DEF OwnTest, TakingForks
  <2>5. state[1] = "HUNGRY"
    BY <1>1, <1>2, <2>4 DEF HungryServed, Served
  <2>6. CASE GivesUp(i)
    BY <1>1, <2>4, <2>5, <2>6, GivesUpOne DEF Owes
  <2>7. CASE Wakes(i)
    <3>1. sem'[1] > 0
      BY <1>1, <2>4, <2>7 DEF Wakes
    <3> QED BY <3>1 DEF Served
  <2> QED BY <2>1, <2>6, <2>7
<1>4. CASE i # 1
  <2>1. pc[1].at = "wait"
    BY <1>1, <1>4 DEF Stays
  <2>2. state[1] = "HUNGRY"
    BY <1>1, <1>2, <2>1 DEF HungryServed, TakingForks, Served
  <2>3. PICK k \in Seats : k \in {0, 2} /\ Placed(k) /\ Owes(k)
    BY <1>1, <1>2, <2>1 DEF OneOwed
  <2>4. CASE k = i
    <3>1. Owes(i)' \/ (GivesUp(i) /\ pc[i].of = 1)
      BY <2>2, <2>3, <2>4, OwesKept
    <3>2. CASE GivesUp(i) /\ pc[i].of = 1
      BY <1>1, <2>2, <3>2, GivesUpOne DEF Owes
    <3> QED BY <2>3, <2>4, <3>1, <3>2
  <2>5. CASE k # i
    <3>1. pc'[k] = pc[k]
      BY <1>1, <2>5 DEF Stays
    <3>2. Served(k) => Served(k)'
      BY <1>1, <2>3, <2>5, ServedKept
    <3>3. TakingForks(k) => TakingForks(k)'
      BY <3>1 DEF TakingForks
    <3>4. TestsOne(k) => TestsOne(k)'
      BY <3>1 DEF TestsOne
    <3>5. state[k] = "EATING" => state'[k] = "EATING"
      BY <1>1, <2>5 DEF Dines, Hungry, Eats, Leaves, Turns, Passes, GivesUp, Serves, Wakes
    <3> QED BY <2>3, <3>1, <3>2, <3>3, <3>4, <3>5 DEF Owes
  <2> QED BY <2>4, <2>5
<1> QED BY <1>3, <1>4

(* Those without a seat post nothing, before and after. *)
LEMMA PostsUntouched ==
  ASSUME UnseatedIdle, UnseatedIdle', \A j \in Seats : Placed(j)' <=> Placed(j),
         \A j \in Seats : Placed(j) => pc'[j] = pc[j] /\ sem'[j] = sem[j],
         NEW j \in Seats, Placed(j)
  PROVE  Served(j)' <=> Served(j)
<1>1. \A k \in Seats : pc[k].at = "post" => Placed(k)
  BY DEF UnseatedIdle
<1>2. \A k \in Seats : pc'[k].at = "post" => Placed(k)
  BY DEF UnseatedIdle
<1> QED BY <1>1, <1>2 DEF Served, PostComing

(* A change of the seats nobody has taken is none at the table. *)
LEMMA TableUntouched ==
  ASSUME DineInv, IInv', ~mishap, ~mishap', \A j \in Seats : Placed(j)' <=> Placed(j),
         \A j \in Seats : Placed(j) =>
           pc'[j] = pc[j] /\ sem'[j] = sem[j] /\ state'[j] = state[j]
  PROVE  OwnTest' /\ EatingServed' /\ OneOwed'
<1>1. OwnTest /\ EatingServed /\ OneOwed /\ UnseatedIdle /\ UnseatedIdle'
  BY DEF DineInv, IInv
<1>2. ASSUME NEW j \in Seats, Placed(j)
      PROVE  Served(j)' <=> Served(j)
  BY <1>1, <1>2, PostsUntouched
<1>3. OwnTest'
  BY <1>1 DEF OwnTest
<1>4. EatingServed'
  BY <1>1, <1>2 DEF EatingServed
<1>5. ASSUME NEW k \in Seats, Placed(k), Owes(k)
      PROVE  Owes(k)'
  BY <1>2, <1>5 DEF Owes, TakingForks, TestsOne
<1>6. OneOwed'
  <2>1. SUFFICES ASSUME 1 \in Seats, Placed(1)', pc'[1].at = "wait", ~Served(1)'
                 PROVE  \E k \in Seats : k \in {0, 2} /\ Placed(k)' /\ Owes(k)'
    BY DEF OneOwed
  <2>2. Placed(1) /\ pc[1].at = "wait" /\ ~Served(1)
    BY <1>2, <2>1
  <2>3. PICK k \in Seats : k \in {0, 2} /\ Placed(k) /\ Owes(k)
    BY <1>1, <2>1, <2>2 DEF OneOwed
  <2> QED BY <1>5, <2>3
<1> QED BY <1>3, <1>4, <1>6

(* The host: with two seats or more at any time, seat 1 keeps its          *)
(* neighbours, and one that leaves has nothing left to do for it.          *)
LEMMA HostKeepsDine ==
  ASSUME DineInv, IInv', INITIAL_PHILOS >= 2, ~mishap',
         AddPhilo \/ CountSeat \/ TakeSeat \/ RemovePhilo \/ Leave \/ Quit \/ Closes
  PROVE  OwnTest' /\ EatingServed' /\ OneOwed'
<1> DEFINE n == philosopherCount
<1>1. ~mishap
  BY DEF AddPhilo, CountSeat, TakeSeat, RemovePhilo, Leave, Quit, Closes
<1>2. /\ OwnTest /\ EatingServed /\ OneOwed /\ UnseatedIdle /\ TableOK
      /\ n \in Nat /\ INITIAL_PHILOS \in Nat /\ Places \in Nat
      /\ (host.at # "placing" => Places = n)
      /\ sem \in [Seats -> Nat] /\ pc \in [Seats -> Outside \cup Inside] /\ state \in [Seats -> States]
  BY <1>1, SeatsType, PlacedType, PhyloAssumption DEF DineInv, IInv, TableOK
<1>3. \A j \in Seats : Placed(j) => j # Places
  BY <1>2, SeatsType DEF Placed
<1>4. CASE AddPhilo \/ CountSeat \/ Leave \/ Quit
  <2>1. Places' = Places
    <3>1. CASE CountSeat
      BY <1>2, <3>1 DEF CountSeat, Places
    <3>2. CASE AddPhilo \/ Leave \/ Quit
      <4>1. n' = n /\ host'.at # "placing" /\ host.at # "placing"
        BY <3>2 DEF AddPhilo, Leave, Quit, Menu
      <4> QED BY <4>1 DEF Places
    <3> QED BY <1>4, <3>1, <3>2
  <2>2. \A j \in Seats : Placed(j) =>
          pc'[j] = pc[j] /\ sem'[j] = sem[j] /\ state'[j] = state[j]
    <3>1. SUFFICES ASSUME NEW j \in Seats, Placed(j)
                   PROVE  pc'[j] = pc[j] /\ sem'[j] = sem[j] /\ state'[j] = state[j]
      OBVIOUS
    <3>2. CASE CountSeat \/ Quit
      BY <3>2 DEF CountSeat, Quit
    <3>3. CASE AddPhilo \/ Leave
      <4>1. host.at # "placing"
        BY <3>3 DEF AddPhilo, Leave, Menu
      <4>2. j # n
        BY <1>2, <1>3, <3>1, <4>1
      <4> QED BY <1>2, <3>3, <4>2 DEF AddPhilo, Leave, Clears
    <3> QED BY <1>4, <3>2, <3>3
  <2> QED BY <1>1, <2>1, <2>2, TableUntouched DEF Placed
<1>5. CASE TakeSeat
  <2>0. PICK m \in Seats : m = n - 1 /\ m = Places /\ Places' = m + 1
    <3>1. host.at = "placing" /\ n' = n /\ host'.at # "placing"
      BY <1>5 DEF TakeSeat, Menu
    <3> QED BY <1>2, <3>1, SeatsType DEF Places, Seats, TableOK
  <2>1. /\ pc' = pc /\ sem' = sem
        /\ state' = [state EXCEPT ![m] = "THINKING"]
    BY <1>5, <2>0 DEF TakeSeat
  <2>2. ~Placed(m) /\ pc[m].at \in {"none", "think"} /\ state'[m] = "THINKING"
    BY <1>2, <1>3, <2>0, <2>1 DEF UnseatedIdle
  <2>3. \A j \in Seats : j # m => (Placed(j)' <=> Placed(j)) /\ state'[j] = state[j]
    BY <1>2, <2>0, <2>1, SeatsType DEF Placed
  <2>4. \A j : Served(j)' <=> Served(j)
    BY <2>1 DEF Served, PostComing
  <2>5. OwnTest'
    BY <1>2, <2>1, <2>2, <2>3 DEF OwnTest, InTest
  <2>6. EatingServed'
    BY <1>2, <2>1, <2>2, <2>3, <2>4 DEF EatingServed
  <2>7. \A k \in Seats : Placed(k) /\ Owes(k) => Owes(k)' /\ Placed(k)'
    BY <2>1, <2>2, <2>3, <2>4 DEF Owes, TakingForks, TestsOne
  <2>8. OneOwed'
    <3>1. SUFFICES ASSUME 1 \in Seats, Placed(1)', pc'[1].at = "wait", ~Served(1)'
                   PROVE  \E k \in Seats : k \in {0, 2} /\ Placed(k)' /\ Owes(k)'
      BY DEF OneOwed
    <3>2. 1 # m
      BY <2>1, <2>2, <3>1
    <3>3. Placed(1) /\ pc[1].at = "wait" /\ ~Served(1)
      BY <2>1, <2>3, <2>4, <3>1, <3>2
    <3>4. PICK k \in Seats : k \in {0, 2} /\ Placed(k) /\ Owes(k)
      BY <1>2, <3>1, <3>3 DEF OneOwed
    <3> QED BY <2>7, <3>4
  <2> QED BY <2>5, <2>6, <2>8
<1>6. CASE RemovePhilo
  <2>1. /\ n' = n - 1 /\ UNCHANGED <<state, sem, pc>> /\ n > 2
        /\ pc[n - 1].at = "think" /\ state[n - 1] # "EATING"
        /\ host.at # "placing" /\ host'.at # "placing"
    <3>1. /\ n' = n - 1 /\ UNCHANGED <<state, sem, pc>> /\ n > INITIAL_PHILOS
          /\ mishap' = (mishap \/ ~AtRest(n - 1) \/ SomeoneHolds)
          /\ host.at # "placing" /\ host'.at # "placing"
      BY <1>6 DEF RemovePhilo, Menu
    <3>2. AtRest(n - 1)
      BY <3>1
    <3> QED BY <1>2, <3>1, <3>2 DEF AtRest
  <2>2. \A j \in Seats : Placed(j)' <=> (Placed(j) /\ j # n - 1)
    BY <1>2, <2>1, SeatsType DEF Placed, Places
  <2>3. \A j : Served(j)' <=> Served(j)
    BY <2>1 DEF Served, PostComing
  <2>4. OwnTest'
    BY <1>2, <2>1, <2>2 DEF OwnTest
  <2>5. EatingServed'
    BY <1>2, <2>1, <2>2, <2>3 DEF EatingServed
  <2>6. \A k \in Seats : Owes(k) => k # n - 1
    BY <2>1 DEF Owes, TakingForks, TestsOne, InTest
  <2>7. \A k \in Seats : Owes(k)' <=> Owes(k)
    BY <2>1, <2>3 DEF Owes, TakingForks, TestsOne
  <2>8. OneOwed'
    <3>1. SUFFICES ASSUME 1 \in Seats, Placed(1)', pc'[1].at = "wait", ~Served(1)'
                   PROVE  \E k \in Seats : k \in {0, 2} /\ Placed(k)' /\ Owes(k)'
      BY DEF OneOwed
    <3>2. PICK k \in Seats : k \in {0, 2} /\ Placed(k) /\ Owes(k)
      BY <1>2, <2>1, <2>2, <2>3, <3>1 DEF OneOwed
    <3> QED BY <2>2, <2>6, <2>7, <3>2
  <2> QED BY <2>4, <2>5, <2>8
<1>7. CASE Closes
  BY <1>7 DEF Closes
<1> QED BY <1>4, <1>5, <1>6, <1>7

LEMMA DineStep ==
  ASSUME INITIAL_PHILOS >= 2, DineInv, [Next]_vars
  PROVE  DineInv'
<1>1. IInv'
  BY StepInvariant DEF DineInv
<1> SUFFICES ASSUME ~mishap' PROVE OwnTest' /\ EatingServed' /\ OneOwed'
  BY <1>1 DEF DineInv
<1>2. CASE AddPhilo \/ CountSeat \/ TakeSeat \/ RemovePhilo \/ Leave \/ Quit \/ Closes
  BY <1>1, <1>2, HostKeepsDine
<1>3. ASSUME NEW i \in Seats, Philosopher(i)
      PROVE  OwnTest' /\ EatingServed' /\ OneOwed'
  BY <1>3, OwnTestStep, EatingServedStep, OneOwedStep
<1>4. ASSUME NEW i \in Seats, DividesByZero(i) PROVE FALSE
  BY <1>4 DEF DividesByZero
<1>5. CASE UNCHANGED vars
  BY <1>1, <1>5, TableUntouched DEF vars, Placed, Places
<1> QED BY <1>2, <1>3, <1>4, <1>5 DEF Next

LEMMA DineInit == Init => DineInv
<1> SUFFICES ASSUME Init PROVE OwnTest /\ EatingServed /\ OneOwed
  BY InitInvariant DEF DineInv
<1>1. philosopherCount = 0 /\ host.at # "placing"
  BY DEF Init, Menu
<1>2. \A i \in Seats : ~Placed(i)
  BY <1>1, SeatsType DEF Placed, Places
<1> QED BY <1>2 DEF OwnTest, EatingServed, OneOwed

LEMMA DineNotAllAsleep ==
  ASSUME INITIAL_PHILOS >= 2, DineInv
  PROVE  NotAllAsleep
<1> SUFFICES ASSUME ~mishap, host = Menu, philosopherCount >= INITIAL_PHILOS,
                    \A i \in Seats : Seated(i) => Asleep(i)
             PROVE  FALSE
  BY DEF NotAllAsleep
<1>1. TableOK /\ UnseatedIdle /\ EatingServed /\ OneOwed /\ \A j : Placed(j) <=> Seated(j)
  BY PlacedType DEF DineInv, IInv, Menu
<1>2. 1 \in Seats /\ Placed(1)
  BY <1>1, PhyloAssumption, SeatsType DEF TableOK, Seats, Seated
<1>3. \A k \in Seats : pc[k].at \in {"none", "think", "wait"}
  BY <1>1 DEF UnseatedIdle, Asleep
<1>4. \A j \in Seats : Placed(j) => pc[j].at = "wait" /\ ~Served(j)
  BY <1>1, <1>3 DEF Served, PostComing, Asleep, TableOK
<1>5. PICK k \in Seats : Placed(k) /\ Owes(k)
  BY <1>1, <1>2, <1>4 DEF OneOwed
<1>6. state[k] # "EATING"
  BY <1>1, <1>4, <1>5 DEF EatingServed
<1> QED BY <1>4, <1>5, <1>6 DEF Owes, TestsOne, InTest

(* With any number of guests, two or more to begin with, and without a     *)
(* mutex, the guests never all sleep in takeForks.  phylo.h:6 seats five.  *)
(* Of a table laid for one the statement is false: the neighbours of that  *)
(* guest change as the others sit down, so that the test() it owes one of  *)
(* them is made of another.                                                *)
THEOREM NotAllAsleepHolds ==
  ASSUME INITIAL_PHILOS >= 2
  PROVE  Spec => []NotAllAsleep
<1>1. Init => DineInv
  BY DineInit
<1>2. DineInv /\ [Next]_vars => DineInv'
  BY DineStep
<1>3. DineInv => NotAllAsleep
  BY DineNotAllAsleep
<1> QED BY <1>1, <1>2, <1>3, PTL DEF Spec
=============================================================================
