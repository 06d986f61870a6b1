------------------------------ MODULE Terminal ------------------------------
(***************************************************************************)
(* The shell at its prompt: the keys come from the keyboard's queue, as    *)
(* KeyQueue promises it (Keyboard implements it), readText handles them    *)
(* one by one, and Ctrl + Tab acts on queue, cursor and line at once.      *)
(***************************************************************************)
EXTENDS LineEditor, Sequences

CONSTANTS
  Capacity,  \* of the keyboard's buffer, 30
  None

ASSUME TerminalAssumption == Capacity \in Nat \ {0}

Keys == {"character", "backspace", "tab", "newline"}

VARIABLES
  queue,  \* the keys pressed and not yet read
  echo    \* the key readText has got and not yet handled, or None

Keyboard == INSTANCE KeyQueue WITH Backspace <- "backspace", Tab <- "tab", got <- echo

terminalVars == <<vars, queue, echo>>

TerminalInit ==
  /\ Init
  /\ queue = <<>>
  /\ echo = None

(* A tab without control is not a key. *)
Press ==
  /\ \E key \in Keys \ {"tab"} : Keyboard!Press(key)
  /\ UNCHANGED vars

(* deleteChar, n times *)
DeleteChars[n \in 0..Capacity] ==
  [c \in Cursors |-> IF n = 0 THEN c ELSE DeleteChars[n - 1][DeleteChar(c)]]

(* Ctrl + Tab: cleanBufferofScreen deletes as many characters as there are *)
(* keys unread, although none of them has been echoed.                     *)
CtrlTab ==
  /\ Wrap(Cursor) \in Cursors
  /\ ChangeCurrentScreen(DeleteChars[Len(queue)][Wrap(Cursor)])
  /\ Keyboard!Switch

(* getChar takes a key; the cursor mark goes away. *)
GetChar ==
  /\ Reading
  /\ echo = None
  /\ Keyboard!Read \/ Keyboard!ReadPair
  /\ Blink

(* readText handles it, on the screen that is then the current one. *)
Handle ==
  /\ echo # None
  /\ ReadText(echo)
  /\ echo' = None
  /\ UNCHANGED queue

Others ==
  /\ \/ NextCommand \/ PrintUser \/ SetFirstChange \/ Prints
     \/ Reading /\ echo = None /\ queue = <<>> /\ Blink
  /\ UNCHANGED <<queue, echo>>

TerminalNext == Press \/ CtrlTab \/ GetChar \/ Handle \/ Others

TerminalSpec == TerminalInit /\ [][TerminalNext]_terminalVars

(* Bound of the run: a line the cursor need not agree with any more is not *)
(* typed on, and before a line is read there is at most one key.           *)
LineBound ==
  /\ Reading /\ ~matched => lineSize = 0
  /\ ~Reading => Len(queue) <= 1
-----------------------------------------------------------------------------
(***************************************************************************)
(* Ctrl + Tab deletes a character of the screen for every key unread,      *)
(* although these keys are not on the screen yet.  It may delete the whole *)
(* line like that, and scroll, but never the prompt: the cursor it leaves  *)
(* on the old screen is behind the prompt.                                 *)
(***************************************************************************)
PromptSurvivesSwitch ==
  [][ACTUALSCREEN' # ACTUALSCREEN /\ matched /\ Reading =>
       LET c == cursors'[ACTUALSCREEN]
           first == Wrap(Cursor).y - Wrap(Cursor).lines
       IN (c.y - first) * Columns + c.x >= USER_LENGHT]_terminalVars
=============================================================================
