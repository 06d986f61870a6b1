------------------------------ MODULE KeyQueue ------------------------------
(***************************************************************************)
(* What the keyboard promises to the programs that read it: the keys come  *)
(* in the order in which they were pressed, each once; a queue that is     *)
(* full loses its oldest key.  No ring buffer, no semaphore.               *)
(***************************************************************************)
EXTENDS Sequences, Integers

CONSTANTS Keys, Capacity, Backspace, Tab

VARIABLES
  queue,  \* the keys pressed and not yet read
  got     \* the key read last

vars == <<queue, got>>

Init ==
  /\ queue = <<>>
  /\ got \in Keys

Press(key) ==
  /\ queue' = Append(IF Len(queue) = Capacity THEN Tail(queue) ELSE queue, key)
  /\ UNCHANGED got

(* Another screen starts with a tab and nothing else. *)
Switch ==
  /\ queue' = <<Tab>>
  /\ UNCHANGED got

Read ==
  /\ queue # <<>>
  /\ got' = Head(queue)
  /\ queue' = Tail(queue)

(* A backspace takes the key behind it along. *)
ReadPair ==
  /\ Len(queue) >= 2
  /\ Head(queue) = Backspace
  /\ got' = Backspace
  /\ queue' = Tail(Tail(queue))

Next == Switch \/ Read \/ ReadPair \/ \E key \in Keys : Press(key)

Spec == Init /\ [][Next]_vars
=============================================================================
