------------------------------ MODULE Keyboard ------------------------------
(***************************************************************************)
(* The keyboard driver (Kernel/drivers/keyboardDriver.c): the interrupt    *)
(* handler puts keys into a ring buffer and posts a semaphore, getChar     *)
(* waits for the semaphore and takes a key out.                            *)
(*                                                                         *)
(* Handler and getChar run with interrupts disabled, so each is one step   *)
(* from one of the places where getChar lets the others run to the next:   *)
(* asleep in semWait, and halted in _hlt, waiting for a key although the   *)
(* semaphore has let it pass.  Scan codes, shift and caps lock only choose *)
(* the character and are left out.  A reader asleep in semWait is not      *)
(* killed: what a semaphore does with a killed waiter is the subject of    *)
(* Semaphores.                                                             *)
(***************************************************************************)
EXTENDS Integers, Sequences, FiniteSets

CONSTANTS
  Readers,     \* the processes that call getChar
  Letters,     \* the characters other than the following three
  Backspace,
  Tab,
  EOF,         \* Ctrl + D, 96
  BUFF_LEN,    \* 30
  MaxTokens    \* bound on the value of the semaphore

Keys == Letters \cup {Backspace, Tab, EOF}

ASSUME KeyboardAssumption ==
  /\ IsFiniteSet(Readers)
  /\ BUFF_LEN \in Nat \ {0}
  /\ MaxTokens \in Nat

VARIABLES
  buffer,
  buffSize,
  ridx,
  widx,
  ctrl,
  value,     \* of the semaphore KEYBOARD_SEM_ID
  waiters,   \* its blockedProcesses
  status,    \* reader -> "user", or where in getChar: "asleep", "woken", "halted"
  char       \* the result of the last getChar that returned

ring == <<buffer, buffSize, ridx, widx>>
sem == <<value, waiters>>
vars == <<ring, ctrl, sem, status, char>>

(* The keyboard starts with an empty semaphore and a zeroed buffer; a cell *)
(* nobody has written is never read, so any key may stand for it.          *)
Init ==
  /\ buffer = [i \in 0..(BUFF_LEN - 1) |-> Tab]
  /\ buffSize = 0
  /\ ridx = 0
  /\ widx = 0
  /\ ctrl = FALSE
  /\ value = 0
  /\ waiters = <<>>
  /\ status = [p \in Readers |-> "user"]
  /\ char = Tab
-----------------------------------------------------------------------------
(* Mutant of Post: a token is not counted if there is one. *)
PostOnce ==
  IF waiters = <<>>
  THEN /\ value' = IF value = 0 THEN 1 ELSE value
       /\ UNCHANGED <<waiters, status>>
  ELSE /\ waiters' = Tail(waiters)
       /\ status' = [status EXCEPT ![Head(waiters)] = "woken"]
       /\ UNCHANGED value

(* semPost(KEYBOARD_SEM_ID) *)
Post ==
  IF waiters = <<>>
  THEN /\ value < MaxTokens
       /\ value' = value + 1
       /\ UNCHANGED <<waiters, status>>
  ELSE /\ waiters' = Tail(waiters)
       /\ status' = [status EXCEPT ![Head(waiters)] = "woken"]
       /\ UNCHANGED value

(* The second half of putCharInBuffer, for a ring buffer with this size    *)
(* and these indices.  A full buffer loses its oldest key.                 *)
PutInRing(c, size, r, w) ==
  /\ buffer' = [buffer EXCEPT ![w] = c]
  /\ widx' = (w + 1) % BUFF_LEN
  /\ buffSize' = IF size < BUFF_LEN THEN size + 1 ELSE size
  /\ ridx' = IF size < BUFF_LEN THEN r ELSE (r + 1) % BUFF_LEN

(* putCharInBuffer *)
PutCharInBuffer(c) ==
  /\ Post
  /\ PutInRing(c, buffSize, ridx, widx)

(* keyboardHandler, case by case: the control key goes down or up, ...     *)
CtrlKey ==
  /\ ctrl' = ~ctrl
  /\ UNCHANGED <<ring, sem, status, char>>

(* ... a character key (with control, tab, c, d and r do something else),  *)
(* ...                                                                     *)
CharKey ==
  /\ \E c \in Letters \cup {Backspace} : PutCharInBuffer(c)
  /\ UNCHANGED <<ctrl, char>>

(* ... Ctrl + D, ... *)
CtrlD ==
  /\ ctrl
  /\ PutCharInBuffer(EOF)
  /\ UNCHANGED <<ctrl, char>>

(* ... Ctrl + Tab: cleanBufferofScreen empties the buffer but not the      *)
(* semaphore, and the tab goes into the buffer of the other screen, ...    *)
CtrlTab ==
  /\ ctrl
  /\ Post
  /\ PutInRing(Tab, 0, 0, 0)
  /\ UNCHANGED <<ctrl, char>>

(* ... and Ctrl + C, which kills the reader if it runs: it halts, or is    *)
(* between two calls.                                                      *)
CtrlC ==
  /\ ctrl
  /\ \E p \in Readers :
       /\ status[p] = "halted"
       /\ status' = [status EXCEPT ![p] = "user"]
  /\ UNCHANGED <<ring, ctrl, sem, char>>

KeyboardHandler == CtrlKey \/ CharKey \/ CtrlD \/ CtrlTab \/ CtrlC
-----------------------------------------------------------------------------
(* removeCharFromBuffer, n times; a second key is taken only if there is   *)
(* one.                                                                    *)
Remove(n) ==
  LET taken == IF n <= buffSize THEN n ELSE buffSize
  IN /\ ridx' = (ridx + taken) % BUFF_LEN
     /\ buffSize' = buffSize - taken
     /\ UNCHANGED <<buffer, widx>>

(* Mutant of Returns: the size does not tell what can be read. *)
ReturnsStale(p, pair) ==
  /\ char' = buffer[ridx]
  /\ ridx' = (ridx + 1) % BUFF_LEN
  /\ buffSize' = IF buffSize > 0 THEN buffSize - 1 ELSE 0
  /\ UNCHANGED <<buffer, widx>>
  /\ status' = [status EXCEPT ![p] = "user"]

(* getChar returns the next key; a backspace takes the next one along.     *)
Returns(p, pair) ==
  /\ buffSize > 0
  /\ char' = buffer[ridx]
  /\ Remove(IF pair /\ buffer[ridx] = Backspace THEN 2 ELSE 1)
  /\ status' = [status EXCEPT ![p] = "user"]

(* getChar behind its semWait: a key, or the loop that waits for one.      *)
TakeKey(p) ==
  \/ Returns(p, TRUE)
  \/ /\ buffSize = 0
     /\ status' = [status EXCEPT ![p] = "halted"]
     /\ UNCHANGED <<ring, char>>

(* getChar that finds a token, and one that sleeps in semWait. *)
GetChar(p) ==
  /\ status[p] = "user"
  /\ IF value > 0
     THEN /\ value' = value - 1
          /\ TakeKey(p)
          /\ UNCHANGED waiters
     ELSE /\ waiters' = Append(waiters, p)
          /\ status' = [status EXCEPT ![p] = "asleep"]
          /\ UNCHANGED <<ring, value, char>>
  /\ UNCHANGED ctrl

(* The woken reader goes on behind its semWait. *)
GoesOn(p) ==
  /\ status[p] = "woken"
  /\ TakeKey(p)
  /\ UNCHANGED <<ctrl, sem>>

(* An interrupt ends _hlt and there is a key; without one, the loop halts  *)
(* again, which changes nothing.                                           *)
HaltEnds(p) ==
  /\ status[p] = "halted"
  /\ Returns(p, FALSE)
  /\ UNCHANGED <<ctrl, sem>>
-----------------------------------------------------------------------------
Next ==
  \/ KeyboardHandler
  \/ \E p \in Readers : GetChar(p) \/ GoesOn(p) \/ HaltEnds(p)

Spec == Init /\ [][Next]_vars

Woken == {p \in Readers : status[p] = "woken"}

(* semPost precedes every write to the buffer, so there is a token, or a   *)
(* reader that was given one, for every key in it: no reader sleeps over a *)
(* key, through overflows, backspaces, screen switches and readers that    *)
(* took a key for which they had no token.                                 *)
TokenForEveryKey == buffSize <= value + Cardinality(Woken)

(* The abstract queue, read off the ring buffer. *)
KeysRead == INSTANCE KeyQueue WITH
  Capacity <- BUFF_LEN,
  queue <- [i \in 1..buffSize |-> buffer[(ridx + i - 1) % BUFF_LEN]],
  got <- char

(* The driver implements a queue of keys that loses the oldest: getChar,   *)
(* however it was woken, returns keys in the order of the presses, and no  *)
(* key twice.                                                              *)
ImplementsKeyQueue == KeysRead!Spec
=============================================================================
