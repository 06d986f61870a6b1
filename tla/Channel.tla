------------------------------- MODULE Channel -------------------------------
(***************************************************************************)
(* What a pipe promises to the programs: bounded first-in first-out        *)
(* queues of characters.  No ring buffer, no semaphores, nobody asleep.    *)
(***************************************************************************)
EXTENDS Sequences, Integers

CONSTANTS
  Channels,
  Chars,
  Capacity,  \* the characters a channel holds
  Nothing    \* what is read where there is no channel

VARIABLES
  queue,     \* channel -> the characters written and not yet read
  got        \* the result of the last read

vars == <<queue, got>>

Init ==
  /\ queue = [c \in Channels |-> <<>>]
  /\ got = Nothing

Put(c) ==
  /\ Len(queue[c]) < Capacity
  /\ \E char \in Chars : queue' = [queue EXCEPT ![c] = Append(@, char)]
  /\ UNCHANGED got

Get(c) ==
  /\ queue[c] # <<>>
  /\ got' = Head(queue[c])
  /\ queue' = [queue EXCEPT ![c] = Tail(@)]

GetNothing ==
  /\ got' = Nothing
  /\ UNCHANGED queue

(* A channel that is closed is empty when it is opened again. *)
Reset(c) ==
  /\ queue' = [queue EXCEPT ![c] = <<>>]
  /\ UNCHANGED got

Next ==
  \/ \E c \in Channels : Put(c) \/ Get(c) \/ Reset(c)
  \/ GetNothing

Spec == Init /\ [][Next]_vars
=============================================================================
