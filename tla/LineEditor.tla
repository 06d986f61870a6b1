----------------------------- MODULE LineEditor -----------------------------
(***************************************************************************)
(* The line the user types: readText of the C library (libc.c) keeps its   *)
(* length, the video driver (videoDriver.c) keeps the cursor, and both are *)
(* told of every key, by different code.                                   *)
(*                                                                         *)
(* Coordinates are character cells (CHAR_WIDTH by CHAR_HEIGHT pixels): a   *)
(* row of a screen holds Width cells, of which Columns are printed on.     *)
(* Pixels, fonts and colours are left out.  The shell reads a line, runs   *)
(* what it says and prints the prompt again, with three writes; programs   *)
(* in the background print whenever they like, between these, too.         *)
(***************************************************************************)
EXTENDS Integers

CONSTANTS
  Width,      \* of a screen, 64 cells
  Height,     \* of a screen, 48 rows
  LINE_LEN,   \* BUFF_LEN - 1 of libc.c, 999
  Opening,    \* the length of "$ ", 2
  Names,      \* the lengths of a user's name, 1 to 24
  Closing,    \* the length of " > ", 3
  MaxLines,   \* bound on lineCounter
  MaxUnder    \* how far below zero the length of the line is followed

Columns == Width - 2

PromptLength(name) == Opening + name + Closing

ASSUME LineEditorAssumption ==
  /\ Width \in Nat /\ Width >= 4
  /\ Height \in Nat /\ Height >= 3
  /\ LINE_LEN \in Nat \ {0}
  /\ MaxLines \in Nat \ {0}
  /\ MaxUnder \in Nat
  /\ LINE_LEN + MaxUnder <= (Height - 3) * Columns
  /\ Opening \in Nat \ {0} /\ Closing \in Nat \ {0}
  /\ Names \subseteq Nat \ {0}
  /\ \A name \in Names : PromptLength(name) < Columns

SCREEN1 == 0
SCREEN2 == 1
Cursors == [x : 0..Columns, y : 0..(Height - 1), lines : 0..MaxLines]

VARIABLES
  cursors,      \* screen -> [x, y] where its next character goes
  ACTUALSCREEN,
  lineCounter,  \* rows between the cursor and the start of the line
  USER_LENGHT,  \* length of the last prompt printed
  userLength,   \* length of the user's name
  prompt,       \* the next write of printUser under way, the length it
                \* took of the name, and whether readText's tab asked for
                \* it because of a new name
  firstChange,
  changedUserName,
  lineSize,     \* buffSize of libc.c
  shell,        \* "command" or "reading" (in readText)
  matched,      \* history: since the prompt was begun at the start of a
                \* row only the shell wrote on the screen, and every key
                \* fitted the line
  under         \* history: the backspaces at the prompt

screen == <<cursors, ACTUALSCREEN, lineCounter>>
names == <<userLength, firstChange, changedUserName>>
lengths == <<lineSize, under>>
vars == <<screen, USER_LENGHT, names, prompt, lengths, shell, matched>>

NoPrompt == [next |-> "none", length |-> 0, renamed |-> FALSE]

Init ==
  /\ cursors = [s \in {SCREEN1, SCREEN2} |-> [x |-> 0, y |-> 0]]
  /\ ACTUALSCREEN = SCREEN1
  /\ lineCounter = 0
  /\ USER_LENGHT = 0
  /\ userLength \in Names
  /\ prompt = NoPrompt
  /\ firstChange = TRUE
  /\ changedUserName = FALSE
  /\ lineSize = 0
  /\ shell = "command"
  /\ matched = FALSE
  /\ under = 0
-----------------------------------------------------------------------------
(* The video driver: what its functions do to the cursor of the current    *)
(* screen and to lineCounter.                                              *)

Cursor == [x |-> cursors[ACTUALSCREEN].x, y |-> cursors[ACTUALSCREEN].y, lines |-> lineCounter]

SetCursor(c) ==
  /\ c.lines <= MaxLines
  /\ cursors' = [cursors EXCEPT ![ACTUALSCREEN] = [x |-> c.x, y |-> c.y]]
  /\ lineCounter' = c.lines

(* Mutant: scrolls one row too late. *)
NewLineLate(c) ==
  [x |-> 0, y |-> IF Height - c.y < 1 THEN c.y - 1 ELSE c.y + 1, lines |-> c.lines]

(* newLine: on the last row the screen scrolls up by two rows. *)
NewLine(c) ==
  [x |-> 0, y |-> IF Height - c.y <= 1 THEN c.y - 1 ELSE c.y + 1, lines |-> c.lines]

(* What every printChar does first, also that of the cursor. *)
Wrap(c) ==
  IF c.x + 2 >= Width THEN [NewLine(c) EXCEPT !.lines = @ + 1] ELSE c

(* printChar of a visible character, and of '\n' *)
PrintChar(c) == [Wrap(c) EXCEPT !.x = @ + 1]
PrintNewLine(c) == NewLine([Wrap(c) EXCEPT !.lines = 0])

(* n characters, which wrap at most once *)
Write(c, n) ==
  IF c.x + n <= Columns THEN [c EXCEPT !.x = @ + n]
  ELSE [Wrap([c EXCEPT !.x = Columns]) EXCEPT !.x = c.x + n - Columns]

(* Mutant: knows only of the first write of the prompt. *)
DeleteCharOfPrompt(c) ==
  IF (c.x <= Opening /\ c.lines = 0) \/ (c.x = 0 /\ c.y = 0) THEN c
  ELSE IF c.x = 0 THEN [x |-> Columns - 1, y |-> c.y - 1, lines |-> c.lines - 1]
  ELSE [c EXCEPT !.x = @ - 1]

DeleteChar(c) ==
  IF (c.x <= USER_LENGHT /\ c.lines = 0) \/ (c.x = 0 /\ c.y = 0) THEN c
  ELSE IF c.x = 0 THEN [x |-> Columns - 1, y |-> c.y - 1, lines |-> c.lines - 1]
  ELSE [c EXCEPT !.x = @ - 1]

-----------------------------------------------------------------------------
(* printUser: three writes, between which anybody may print, change the    *)
(* name or switch the screens.                                             *)

(* The first; the length of the name is taken before it. *)
StartPrompt(renamed) ==
  /\ SetCursor(Write(Cursor, Opening))
  /\ prompt' = [next |-> "name", length |-> userLength, renamed |-> renamed]
  /\ matched' = (Cursor.x = 0 /\ Cursor.lines = 0)

(* readText's, behind the end of the line it starts with *)
Open ==
  /\ prompt.next = "open"
  /\ StartPrompt(prompt.renamed)
  /\ UNCHANGED <<ACTUALSCREEN, USER_LENGHT, names, lengths, shell>>

(* sendUserData tells the driver how long the prompt is; it writes no more *)
(* than that of a name that has become longer.                             *)
WriteName ==
  /\ prompt.next = "name"
  /\ \E n \in {userLength, PromptLength(prompt.length)} :
       /\ n <= userLength /\ n <= PromptLength(prompt.length)
       /\ SetCursor(Write(Cursor, n))
  /\ USER_LENGHT' = PromptLength(prompt.length)
  /\ prompt' = [prompt EXCEPT !.next = "close"]
  /\ matched' = (matched /\ userLength = prompt.length)
  /\ UNCHANGED <<ACTUALSCREEN, names, lengths, shell>>

(* The last, after which scanf or readText starts with an empty line. *)
EndPrompt ==
  /\ prompt.next = "close"
  /\ SetCursor(Write(Cursor, Closing))
  /\ prompt' = NoPrompt
  /\ changedUserName' = (changedUserName /\ ~prompt.renamed)
  /\ lineSize' = 0 /\ under' = 0
  /\ shell' = "reading"
  /\ UNCHANGED <<ACTUALSCREEN, USER_LENGHT, userLength, firstChange, matched>>

PrintUser == Open \/ WriteName \/ EndPrompt
-----------------------------------------------------------------------------
(* readText, by the key getChar has returned.                              *)

Reading == shell = "reading" /\ prompt.next = "none"

ReadCharacter ==
  /\ Reading
  /\ SetCursor(PrintChar(Cursor))
  /\ lineSize' = IF lineSize < LINE_LEN THEN lineSize + 1 ELSE lineSize
  /\ matched' = (matched /\ lineSize < LINE_LEN)
  /\ UNCHANGED <<USER_LENGHT, names, prompt, under, shell>>

(* Mutant: the backspace itself stays in the line. *)
ReadBackspaceOnce ==
  /\ Reading
  /\ lineSize > -MaxUnder
  /\ SetCursor(DeleteChar(Wrap(Cursor)))
  /\ lineSize' = (IF lineSize < LINE_LEN THEN lineSize + 1 ELSE lineSize) - 1
  /\ matched' = (matched /\ lineSize < LINE_LEN)
  /\ under' = IF matched /\ lineSize + under = 0 THEN under + 1 ELSE under
  /\ UNCHANGED <<USER_LENGHT, names, prompt, shell>>

(* The backspace is stored and removed with the character before it,       *)
(* whether there is one or not: at the prompt the length falls below zero, *)
(* and what is typed next is stored before the buffer.  A line that is     *)
(* full does not store the backspace and still loses two characters.       *)
ReadBackspace ==
  /\ Reading
  /\ lineSize > -MaxUnder
  /\ SetCursor(DeleteChar(Wrap(Cursor)))
  /\ lineSize' = (IF lineSize < LINE_LEN THEN lineSize + 1 ELSE lineSize) - 2
  /\ matched' = (matched /\ lineSize < LINE_LEN)
  /\ under' = IF matched /\ lineSize + under = 0 THEN under + 1 ELSE under
  /\ UNCHANGED <<USER_LENGHT, names, prompt, shell>>

(* The tab of a screen switch starts a line, with a prompt if this screen  *)
(* has none, or one with the old name.                                     *)
ReadTab ==
  /\ Reading
  /\ \/ /\ firstChange
        /\ StartPrompt(FALSE)
        /\ UNCHANGED lengths
     \/ /\ ~firstChange /\ changedUserName
        /\ SetCursor(PrintNewLine(Cursor))
        /\ prompt' = [next |-> "open", length |-> 0, renamed |-> TRUE]
        /\ matched' = FALSE
        /\ UNCHANGED lengths
     \/ /\ ~firstChange /\ ~changedUserName
        /\ matched' = FALSE
        /\ lineSize' = 0 /\ under' = 0
        /\ UNCHANGED <<screen, prompt>>
  /\ firstChange' = FALSE
  /\ UNCHANGED <<USER_LENGHT, userLength, changedUserName, shell>>

(* The end of the line: what it says is run. *)
ReadNewLine ==
  /\ Reading
  /\ SetCursor(PrintNewLine(Cursor))
  /\ shell' = "command"
  /\ lineSize' = 0 /\ under' = 0
  /\ matched' = FALSE
  /\ UNCHANGED <<USER_LENGHT, names, prompt>>

ReadText(key) ==
  /\ \/ key = "character" /\ ReadCharacter
     \/ key = "backspace" /\ ReadBackspace
     \/ key = "tab" /\ ReadTab
     \/ key = "newline" /\ ReadNewLine
  /\ UNCHANGED ACTUALSCREEN

(* shellExecute's next turn starts with the prompt. *)
NextCommand ==
  /\ shell = "command" /\ prompt.next = "none"
  /\ StartPrompt(FALSE)
  /\ UNCHANGED <<ACTUALSCREEN, USER_LENGHT, names, lengths, shell>>

(* /user, run by the line or in the background *)
SetFirstChange ==
  /\ userLength' \in Names
  /\ changedUserName' = TRUE
  /\ UNCHANGED <<screen, USER_LENGHT, prompt, firstChange, lengths, shell, matched>>

(* Somebody else prints a character, a line end or a backspace (/cat), or  *)
(* clears the screen (/clear).                                             *)
Prints ==
  /\ \/ SetCursor(PrintChar(Cursor))
     \/ SetCursor(PrintNewLine(Cursor))
     \/ SetCursor(DeleteChar(Wrap(Cursor)))
     \/ SetCursor([x |-> 0, y |-> 0, lines |-> lineCounter])
  /\ matched' = FALSE
  /\ UNCHANGED <<ACTUALSCREEN, USER_LENGHT, names, prompt, lengths, shell>>

(* getChar waiting for a key (cursor) or returning one (stopCursor) draws  *)
(* the cursor mark or takes it away.                                       *)
Blink ==
  /\ SetCursor(Wrap(Cursor))
  /\ UNCHANGED <<ACTUALSCREEN, USER_LENGHT, names, prompt, lengths, shell, matched>>

(* changeCurrentScreen, called when the keys not yet read have been        *)
(* deleted from the screen, which leaves its cursor at c.                  *)
ChangeCurrentScreen(c) ==
  /\ cursors' = [cursors EXCEPT ![ACTUALSCREEN] =
                   [x |-> Wrap(c).x, y |-> Wrap(c).y]]
  /\ lineCounter' = IF c.x + 2 >= Width THEN 1 ELSE 0
  /\ ACTUALSCREEN' = 1 - ACTUALSCREEN
  /\ matched' = FALSE
  /\ UNCHANGED <<USER_LENGHT, names, prompt, lengths, shell>>

Next ==
  \/ \E key \in {"character", "backspace", "tab", "newline"} : ReadText(key)
  \/ NextCommand \/ PrintUser \/ SetFirstChange \/ Prints \/ Blink
  \/ \E c \in Cursors : ChangeCurrentScreen(c)

Spec == Init /\ [][Next]_vars
-----------------------------------------------------------------------------
(***************************************************************************)
(* No order of keys, prints, scrolls, wraps and screen switches takes the  *)
(* cursor out of its screen, where the driver would draw into memory that  *)
(* is not the screen's (putPixel checks nothing).                          *)
(***************************************************************************)
CursorsOnScreen ==
  /\ cursors \in [{SCREEN1, SCREEN2} -> [x : 0..Columns, y : 0..(Height - 1)]]
  /\ ACTUALSCREEN \in {SCREEN1, SCREEN2}
  /\ lineCounter \in 0..MaxLines
  /\ USER_LENGHT \in 0..(Columns - 1)
  /\ userLength \in Names
  /\ prompt \in [next : {"none", "open", "name", "close"}, length : Names \cup {0},
                renamed : BOOLEAN]
  /\ prompt.next \in {"name", "close"} => prompt.length \in Names
  /\ firstChange \in BOOLEAN /\ changedUserName \in BOOLEAN
  /\ lineSize \in (0 - MaxUnder - 1)..LINE_LEN
  /\ shell \in {"command", "reading"}
  /\ matched \in BOOLEAN
  /\ under \in 0..MaxUnder

(***************************************************************************)
(* The driver and readText agree: as long as nobody else wrote on the      *)
(* screen and every key fitted the line, the cursor is as many cells       *)
(* behind the prompt as the line has characters, over all wraps and        *)
(* scrolls; so a backspace erases the character it removes from the line,  *)
(* and never the prompt.  Only a backspace at the prompt makes them part:  *)
(* the driver ignores it and readText does not, so the line is shorter by  *)
(* exactly one for each of those.                                          *)
(***************************************************************************)
CursorMatchesLine ==
  matched /\ Reading =>
    /\ lineSize + under >= 0
    /\ lineCounter * Columns + cursors[ACTUALSCREEN].x = USER_LENGHT + lineSize + under
=============================================================================
