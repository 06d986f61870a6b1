---------------------------- MODULE ShellProofs ----------------------------
(***************************************************************************)
(* What the user types and sees: the line under the cursor (Terminal and   *)
(* LineEditor), what the shell makes of the line (Shell), and the library  *)
(* and kernel functions it does that with (Library), on screens, lines,    *)
(* commands and texts of every size.                                       *)
(*                                                                         *)
(* CursorMatchesLine is not inductive: a backspace in the first column     *)
(* goes up a row only if there is one, so that the cursor must also be at  *)
(* least as many rows down the screen as the line has been wrapped; and a  *)
(* scroll takes rows away, so that the longest line must fit the screen    *)
(* (LineEditorAssumption).  IInv adds the former, and what holds between   *)
(* the writes of the prompt.                                               *)
(*                                                                         *)
(* In the shell the line is a string at all times (LineType), and what     *)
(* runs is what was typed: ShellIInv.  The rest of the proof is about what *)
(* the functions return.  They are loops, here functions defined by        *)
(* recursion: such a function exists if its argument shrinks with every    *)
(* step (RecursionExists), and what holds of all its values is shown with  *)
(* the least argument that it does not hold of (LeastOf).                  *)
(***************************************************************************)
EXTENDS Terminal, Shell, SequenceTheorems, FiniteSetTheorems, WellFoundedInduction, TLAPS

(* Of natural numbers there is a least. *)
LEMMA LeastOf ==
  ASSUME NEW T, T \subseteq Nat, T # {}
  PROVE  \E x \in T : \A y \in T : x <= y
<1>1. PICK x \in T : \A y \in T : <<y, x>> \notin OpToRel(<, Nat)
  BY WFMin, NatLessThanWellFounded
<1>2. ASSUME NEW y \in T PROVE ~(y < x)
  <2>1. y \in Nat /\ x \in Nat
    OBVIOUS
  <2>2. y < x => <<y, x>> \in OpToRel(<, Nat)
    BY <2>1 DEF OpToRel
  <2> QED BY <1>1, <2>2
<1>3. \A y \in T : x <= y
  BY <1>2
<1> QED BY <1>3
-----------------------------------------------------------------------------
Positions == [x : 0..Columns, y : 0..(Height - 1), lines : Nat]

(* The cells from the start of the line to the cursor. *)
Total(c) == c.lines * Columns + c.x

Follows(c, cells) == Total(c) = cells /\ c.y >= c.lines

(* The longest line, with its prompt *)
Longest == Columns + LINE_LEN + MaxUnder

NameFollows == matched /\ prompt.next = "name" => Follows(Cursor, Opening)

CloseFollows ==
  matched /\ prompt.next = "close" =>
    /\ Follows(Cursor, Opening + prompt.length)
    /\ USER_LENGHT = PromptLength(prompt.length)

LineFollows ==
  matched /\ Reading =>
    lineSize + under >= 0 /\ Follows(Cursor, USER_LENGHT + lineSize + under)

IInv == CursorsOnScreen /\ NameFollows /\ CloseFollows /\ LineFollows
-----------------------------------------------------------------------------
(* The last columns of a row are not used. *)
LEMMA ColumnsType == Columns \in Nat /\ Columns >= 2 /\ Width = Columns + 2
BY LineEditorAssumption DEF Columns

(* newLine goes to the start of a row, or scrolls. *)
LEMMA NewLineOnScreen ==
  ASSUME NEW c \in Positions
  PROVE  /\ NewLine(c) \in Positions
         /\ NewLine(c).x = 0
         /\ NewLine(c).lines = c.lines
         /\ NewLine(c).y = c.y + 1 \/ (c.y = Height - 1 /\ NewLine(c).y = Height - 2)
<1>1. /\ c \in [x : 0..Columns, y : 0..(Height - 1), lines : Nat]
      /\ c.x \in 0..Columns /\ c.y \in 0..(Height - 1) /\ c.lines \in Nat
      /\ Height \in Nat /\ Height >= 3
  BY LineEditorAssumption DEF Positions
<1>2. CASE Height - c.y <= 1
  <2>1. NewLine(c) = [x |-> 0, y |-> c.y - 1, lines |-> c.lines]
    BY <1>1, <1>2 DEF NewLine
  <2>2. c.y = Height - 1 /\ c.y - 1 = Height - 2 /\ c.y - 1 \in 0..(Height - 1)
    BY <1>1, <1>2
  <2>3. 0 \in 0..Columns
    BY ColumnsType
  <2>4. NewLine(c) \in Positions
    BY <1>1, <2>1, <2>2, <2>3 DEF Positions
  <2> QED BY <2>1, <2>2, <2>4
<1>3. CASE ~(Height - c.y <= 1)
  <2>1. NewLine(c) = [x |-> 0, y |-> c.y + 1, lines |-> c.lines]
    BY <1>1, <1>3 DEF NewLine
  <2>2. c.y + 1 \in 0..(Height - 1)
    BY <1>1, <1>3
  <2>3. 0 \in 0..Columns
    BY ColumnsType
  <2>4. NewLine(c) \in Positions
    BY <1>1, <2>1, <2>2, <2>3 DEF Positions
  <2> QED BY <2>1, <2>4
<1> QED BY <1>2, <1>3

(* Products of the row count, for the solver *)
LEMMA Rows ==
  ASSUME NEW n \in Nat, NEW m \in Nat, NEW k \in Nat, k >= 1
  PROVE  /\ n * k \in Nat
         /\ (n + 1) * k = n * k + k
         /\ n > m => n * k >= m * k + k
<1>1. n * k \in Nat /\ (n + 1) * k = n * k + k
  OBVIOUS
<1>2. ASSUME n > m PROVE n * k >= m * k + k
  <2>1. PICK d \in Nat : n = m + 1 + d
    <3>1. n - m - 1 \in Nat /\ n = m + 1 + (n - m - 1)
      BY <1>2
    <3> QED BY <3>1
  <2>2. n * k = m * k + k + d * k
    BY <2>1
  <2>3. d * k \in Nat /\ m * k \in Nat
    OBVIOUS
  <2> QED BY <2>2, <2>3
<1> QED BY <1>1, <1>2

(* A wrap keeps the number of cells behind the start of the line, and its  *)
(* row count within the rows of the screen if the line fits it.            *)
LEMMA WrapFollows ==
  ASSUME NEW c \in Positions
  PROVE  /\ Wrap(c) \in Positions
         /\ Wrap(c).x < Columns
         /\ Total(Wrap(c)) = Total(c)
         /\ c.y >= c.lines /\ Total(c) <= Longest => Wrap(c).y >= Wrap(c).lines
<1> USE ColumnsType
<1>0. c.x \in 0..Columns /\ c.y \in 0..(Height - 1) /\ c.lines \in Nat
  BY DEF Positions
<1>1. CASE c.x + 2 >= Width
  <2>1. c.x = Columns
    BY <1>0, <1>1
  <2> DEFINE d == NewLine(c)
  <2>2. /\ d \in Positions /\ d.x = 0 /\ d.lines = c.lines
        /\ d.y = c.y + 1 \/ (c.y = Height - 1 /\ d.y = Height - 2)
    BY NewLineOnScreen
  <2>3. Wrap(c) = [d EXCEPT !.lines = d.lines + 1]
    BY <1>1 DEF Wrap
  <2>4. /\ Wrap(c) \in Positions
        /\ Wrap(c).x = 0 /\ Wrap(c).y = d.y /\ Wrap(c).lines = c.lines + 1
    <3> HIDE DEF d
    <3> QED BY <2>2, <2>3, <1>0 DEF Positions
  <2>5. Total(Wrap(c)) = Total(c)
    BY <2>1, <2>4, <1>0, Rows DEF Total
  <2>6. ASSUME c.y >= c.lines, Total(c) <= Longest
        PROVE  Wrap(c).y >= Wrap(c).lines
    <3>1. CASE d.y = c.y + 1
      BY <3>1, <2>4, <2>6, <1>0
    <3>2. CASE c.y = Height - 1 /\ d.y = Height - 2
      <4>1. c.lines * Columns <= LINE_LEN + MaxUnder
        BY <2>1, <2>6, <1>0, Rows, LineEditorAssumption DEF Total, Longest
      <4>2. Height - 3 \in Nat /\ c.lines * Columns <= (Height - 3) * Columns
        BY <4>1, <1>0, Rows, LineEditorAssumption
      <4>3. ~(c.lines > Height - 3)
        BY <4>2, <1>0, Rows
      <4> QED BY <4>3, <3>2, <2>4, <1>0, LineEditorAssumption
    <3> QED BY <3>1, <3>2, <2>2
  <2> QED BY <2>4, <2>5, <2>6
<1>2. CASE ~(c.x + 2 >= Width)
  BY <1>0, <1>2 DEF Wrap
<1> QED BY <1>1, <1>2

(* A character moves the cursor by one cell, wrapped or not. *)
LEMMA PrintCharFollows ==
  ASSUME NEW c \in Positions
  PROVE  /\ PrintChar(c) \in Positions
         /\ Total(PrintChar(c)) = Total(c) + 1
         /\ c.y >= c.lines /\ Total(c) <= Longest => PrintChar(c).y >= PrintChar(c).lines
<1> DEFINE w == Wrap(c)
<1>1. /\ w \in Positions /\ w.x < Columns /\ Total(w) = Total(c)
      /\ c.y >= c.lines /\ Total(c) <= Longest => w.y >= w.lines
  BY WrapFollows
<1>2. PrintChar(c) = [w EXCEPT !.x = w.x + 1]
  BY DEF PrintChar
<1> HIDE DEF w
<1>3. w.x \in 0..Columns /\ w.y \in 0..(Height - 1) /\ w.lines \in Nat
  BY <1>1 DEF Positions
<1>4. /\ PrintChar(c) \in Positions
      /\ PrintChar(c).x = w.x + 1 /\ PrintChar(c).y = w.y /\ PrintChar(c).lines = w.lines
  BY <1>1, <1>2, <1>3, ColumnsType DEF Positions
<1>5. w.lines * Columns \in Nat
  BY <1>3, Rows, ColumnsType
<1> QED BY <1>1, <1>3, <1>4, <1>5, ColumnsType DEF Total

(* A new line starts the count of cells again. *)
LEMMA PrintNewLineOnScreen ==
  ASSUME NEW c \in Positions
  PROVE  PrintNewLine(c) \in Positions
<1>1. Wrap(c) \in Positions
  BY WrapFollows
<1>2. [Wrap(c) EXCEPT !.lines = 0] \in Positions
  BY <1>1 DEF Positions
<1> QED BY <1>2, NewLineOnScreen DEF PrintNewLine

(* A cursor that has not reached the end of the first row *)
LEMMA FirstRow ==
  ASSUME NEW c \in Positions, NEW k \in Nat, k < Columns
  PROVE  Total(c) = k => c.lines = 0 /\ c.x = k
<1>0. c.x \in 0..Columns /\ c.lines \in Nat /\ Columns \in Nat /\ Columns >= 1
  BY ColumnsType DEF Positions
<1>1. CASE c.lines = 0
  <2>1. Total(c) = c.x
    BY <1>0, <1>1 DEF Total
  <2> QED BY <1>1, <2>1
<1>2. CASE c.lines > 0
  <2>1. c.lines * Columns >= 0 * Columns + Columns
    BY <1>0, <1>2, Rows
  <2> QED BY <1>0, <2>1 DEF Total
<1> QED BY <1>0, <1>1, <1>2

(* What is written stays on the screen, and in the first row it moves the  *)
(* cursor by as many cells.                                                *)
LEMMA WriteFollows ==
  ASSUME NEW c \in Positions, NEW n \in Nat, n <= Columns
  PROVE  /\ Write(c, n) \in Positions
         /\ \A k \in Nat : k + n < Columns /\ Follows(c, k) => Follows(Write(c, n), k + n)
<1> USE ColumnsType
<1>0. c.x \in 0..Columns /\ c.y \in 0..(Height - 1) /\ c.lines \in Nat
  BY DEF Positions
<1>1. CASE c.x + n <= Columns
  <2>1. Write(c, n) = [c EXCEPT !.x = c.x + n]
    BY <1>1 DEF Write
  <2>2. /\ Write(c, n) \in Positions
        /\ Write(c, n).x = c.x + n /\ Write(c, n).y = c.y /\ Write(c, n).lines = c.lines
    BY <2>1, <1>0, <1>1 DEF Positions
  <2>3. Total(Write(c, n)) = Total(c) + n
    <3>1. c.lines * Columns \in Nat
      BY <1>0, Rows
    <3> QED BY <2>2, <3>1, <1>0 DEF Total
  <2> QED BY <2>2, <2>3 DEF Follows
<1>2. CASE ~(c.x + n <= Columns)
  <2> DEFINE e == [c EXCEPT !.x = Columns]
             w == Wrap(e)
  <2>1. Write(c, n) = [w EXCEPT !.x = c.x + n - Columns]
    BY <1>2 DEF Write
  <2>2. e \in Positions
    BY <1>0 DEF Positions
  <2>3. w \in Positions
    BY <2>2, WrapFollows
  <2>4. c.x + n - Columns \in 0..Columns
    BY <1>0, <1>2
  <2>5. Write(c, n) \in Positions
    <3> HIDE DEF w
    <3> QED BY <2>1, <2>3, <2>4 DEF Positions
  <2>6. ASSUME NEW k \in Nat, k + n < Columns, Follows(c, k) PROVE FALSE
    <3>1. c.x = k
      BY <2>6, FirstRow DEF Follows
    <3> QED BY <3>1, <1>2, <2>6
  <2> QED BY <2>5, <2>6
<1> QED BY <1>1, <1>2

(* Behind the prompt, DeleteChar goes back by one cell; at it, it stays.   *)
LEMMA DeleteCharFollows ==
  ASSUME NEW c \in Positions, c.x < Columns, USER_LENGHT \in Nat
  PROVE  /\ DeleteChar(c) \in Positions
         /\ Total(c) > USER_LENGHT /\ c.y >= c.lines =>
              Follows(DeleteChar(c), Total(c) - 1)
         /\ Total(c) = USER_LENGHT /\ USER_LENGHT < Columns => DeleteChar(c) = c
<1> USE ColumnsType
<1>a. Total(c) = USER_LENGHT /\ USER_LENGHT < Columns => DeleteChar(c) = c
  <2> SUFFICES ASSUME Total(c) = USER_LENGHT, USER_LENGHT < Columns PROVE DeleteChar(c) = c
    OBVIOUS
  <2>1. c.lines = 0 /\ c.x = USER_LENGHT
    BY FirstRow
  <2>2. c.x <= USER_LENGHT
    BY <2>1
  <2> QED BY <2>1, <2>2 DEF DeleteChar
<1>0. c.x \in 0..Columns /\ c.y \in 0..(Height - 1) /\ c.lines \in Nat /\ Height \in Nat
  BY LineEditorAssumption DEF Positions
<1>1. CASE (c.x <= USER_LENGHT /\ c.lines = 0) \/ (c.x = 0 /\ c.y = 0)
  <2>1. DeleteChar(c) = c
    BY <1>1 DEF DeleteChar
  <2>2. ~(Total(c) > USER_LENGHT /\ c.y >= c.lines)
    <3>1. SUFFICES ASSUME c.y >= c.lines PROVE ~(Total(c) > USER_LENGHT)
      OBVIOUS
    <3>2. c.lines = 0 /\ c.x <= USER_LENGHT
      BY <1>0, <1>1, <3>1
    <3>3. Total(c) = c.x
      BY <3>2, <1>0 DEF Total
    <3> QED BY <3>2, <3>3, <1>0
  <2> QED BY <2>1, <2>2
<1>2. CASE ~((c.x <= USER_LENGHT /\ c.lines = 0) \/ (c.x = 0 /\ c.y = 0)) /\ c.x = 0
  <2>1. DeleteChar(c) = [x |-> Columns - 1, y |-> c.y - 1, lines |-> c.lines - 1]
    BY <1>2 DEF DeleteChar
  <2>2. c.lines > 0 /\ c.y > 0
    BY <1>0, <1>2
  <2>3. /\ c.lines - 1 \in Nat
        /\ c.lines * Columns = (c.lines - 1) * Columns + Columns
    <3>1. c.lines - 1 \in Nat /\ c.lines = (c.lines - 1) + 1
      BY <1>0, <2>2
    <3> QED BY <3>1, Rows
  <2>4. (c.lines - 1) * Columns \in Nat
    BY <2>3, Rows
  <2>5. DeleteChar(c) \in Positions
    BY <2>1, <2>2, <2>3, <1>0 DEF Positions
  <2>6. Total(c) = c.lines * Columns /\
          Total(DeleteChar(c)) = (c.lines - 1) * Columns + (Columns - 1)
    BY <2>1, <2>3, <1>0, <1>2, Rows DEF Total
  <2>7. Total(DeleteChar(c)) = Total(c) - 1
    BY <2>3, <2>4, <2>6
  <2> QED BY <2>1, <2>5, <2>7, <1>0, <1>a DEF Follows
<1>3. CASE ~((c.x <= USER_LENGHT /\ c.lines = 0) \/ (c.x = 0 /\ c.y = 0)) /\ c.x # 0
  <2>1. DeleteChar(c) = [c EXCEPT !.x = c.x - 1]
    BY <1>3 DEF DeleteChar
  <2>2. /\ DeleteChar(c) \in Positions
        /\ DeleteChar(c).x = c.x - 1 /\ DeleteChar(c).y = c.y /\ DeleteChar(c).lines = c.lines
    BY <2>1, <1>0, <1>3 DEF Positions
  <2>3. c.lines * Columns \in Nat
    BY <1>0, Rows
  <2>4. Total(DeleteChar(c)) = Total(c) - 1
    BY <2>2, <2>3, <1>0 DEF Total
  <2> QED BY <2>2, <2>4, <1>0, <1>a DEF Follows
<1> QED BY <1>a, <1>1, <1>2, <1>3
-----------------------------------------------------------------------------
(* The lengths of a prompt and of its parts *)
LEMMA PromptParts ==
  /\ Opening \in Nat /\ Closing \in Nat
  /\ \A name \in Names : /\ name \in Nat /\ name < Columns
                         /\ PromptLength(name) = Opening + name + Closing
                         /\ PromptLength(name) < Columns
                         /\ Opening < Columns /\ Closing < Columns
                         /\ Opening + name < Columns
BY LineEditorAssumption, ColumnsType DEF PromptLength

(* A cursor of the driver is a position. *)
LEMMA CursorPosition ==
  ASSUME CursorsOnScreen
  PROVE  /\ Cursor \in Positions
         /\ Cursor.x = cursors[ACTUALSCREEN].x
         /\ Cursor.lines = lineCounter
BY DEF CursorsOnScreen, Cursor, Positions

(* Only the cursor of the current screen changes. *)
LEMMA SetCursorOnScreen ==
  ASSUME CursorsOnScreen, NEW c \in Positions, SetCursor(c), UNCHANGED ACTUALSCREEN
  PROVE  /\ cursors' \in [{SCREEN1, SCREEN2} -> [x : 0..Columns, y : 0..(Height - 1)]]
         /\ ACTUALSCREEN' \in {SCREEN1, SCREEN2}
         /\ lineCounter' \in 0..MaxLines
         /\ Cursor' = c
<1>1. /\ c.x \in 0..Columns /\ c.y \in 0..(Height - 1) /\ c.lines \in Nat
      /\ c = [x |-> c.x, y |-> c.y, lines |-> c.lines]
  BY DEF Positions
<1>2. lineCounter' = c.lines /\ c.lines <= MaxLines /\ MaxLines \in Nat
  BY LineEditorAssumption DEF SetCursor
<1>3. /\ cursors' = [cursors EXCEPT ![ACTUALSCREEN] = [x |-> c.x, y |-> c.y]]
      /\ ACTUALSCREEN \in {SCREEN1, SCREEN2}
      /\ cursors \in [{SCREEN1, SCREEN2} -> [x : 0..Columns, y : 0..(Height - 1)]]
  BY DEF SetCursor, CursorsOnScreen
<1>4. cursors'[ACTUALSCREEN'] = [x |-> c.x, y |-> c.y]
  BY <1>3
<1>5. Cursor' = [x |-> c.x, y |-> c.y, lines |-> c.lines]
  BY <1>2, <1>4 DEF Cursor
<1> QED BY <1>1, <1>2, <1>3, <1>5

(* A prompt begun at the start of a row has its first write behind it. *)
LEMMA StartPromptFollows ==
  ASSUME CursorsOnScreen, NEW renamed \in BOOLEAN, StartPrompt(renamed), UNCHANGED ACTUALSCREEN
  PROVE  /\ cursors' \in [{SCREEN1, SCREEN2} -> [x : 0..Columns, y : 0..(Height - 1)]]
         /\ ACTUALSCREEN' \in {SCREEN1, SCREEN2}
         /\ lineCounter' \in 0..MaxLines
         /\ prompt' = [next |-> "name", length |-> userLength, renamed |-> renamed]
         /\ matched' \in BOOLEAN
         /\ matched' => Follows(Cursor', Opening)
<1>1. Cursor \in Positions
  BY CursorPosition
<1>2. /\ Opening \in Nat /\ Opening < Columns /\ userLength \in Names
      /\ SetCursor(Write(Cursor, Opening))
  BY PromptParts, ColumnsType DEF CursorsOnScreen, StartPrompt
<1>3. Opening <= Columns
  BY <1>2, ColumnsType
<1>4. /\ Write(Cursor, Opening) \in Positions
      /\ \A k \in Nat : k + Opening < Columns /\ Follows(Cursor, k) =>
           Follows(Write(Cursor, Opening), k + Opening)
  BY <1>1, <1>2, <1>3, WriteFollows
<1>5. /\ cursors' \in [{SCREEN1, SCREEN2} -> [x : 0..Columns, y : 0..(Height - 1)]]
      /\ ACTUALSCREEN' \in {SCREEN1, SCREEN2}
      /\ lineCounter' \in 0..MaxLines
      /\ Cursor' = Write(Cursor, Opening)
  BY <1>2, <1>4, SetCursorOnScreen
<1>6. ASSUME matched' PROVE Follows(Cursor', Opening)
  <2>1. Cursor.x = 0 /\ Cursor.lines = 0
    BY <1>6 DEF StartPrompt
  <2>2. Follows(Cursor, 0)
    BY <1>1, <2>1, ColumnsType DEF Follows, Total, Positions
  <2>3. 0 + Opening = Opening /\ 0 \in Nat
    BY <1>2
  <2> QED BY <1>2, <1>4, <1>5, <2>2, <2>3
<1> QED BY <1>5, <1>6 DEF StartPrompt
(* The types of all but the cursors *)
PromptType ==
  /\ prompt \in [next : {"none", "open", "name", "close"}, length : Names \cup {0},
                 renamed : BOOLEAN]
  /\ prompt.next \in {"name", "close"} => prompt.length \in Names

LengthType ==
  /\ USER_LENGHT \in 0..(Columns - 1)
  /\ userLength \in Names
  /\ lineSize \in (0 - MaxUnder - 1)..LINE_LEN
  /\ under \in 0..MaxUnder

FlagType ==
  /\ firstChange \in BOOLEAN /\ changedUserName \in BOOLEAN
  /\ shell \in {"command", "reading"}
  /\ matched \in BOOLEAN

LEMMA Types ==
  /\ CursorsOnScreen => PromptType /\ LengthType /\ FlagType
  /\ /\ cursors \in [{SCREEN1, SCREEN2} -> [x : 0..Columns, y : 0..(Height - 1)]]
     /\ ACTUALSCREEN \in {SCREEN1, SCREEN2}
     /\ lineCounter \in 0..MaxLines
     /\ PromptType /\ LengthType /\ FlagType
     => CursorsOnScreen
<1>1. ASSUME CursorsOnScreen PROVE PromptType /\ LengthType /\ FlagType
  <2>1. PromptType
    BY <1>1 DEF CursorsOnScreen, PromptType
  <2>2. LengthType
    BY <1>1 DEF CursorsOnScreen, LengthType
  <2>3. FlagType
    BY <1>1 DEF CursorsOnScreen, FlagType
  <2> QED BY <2>1, <2>2, <2>3
<1>2. ASSUME cursors \in [{SCREEN1, SCREEN2} -> [x : 0..Columns, y : 0..(Height - 1)]],
             ACTUALSCREEN \in {SCREEN1, SCREEN2}, lineCounter \in 0..MaxLines,
             PromptType, LengthType, FlagType
      PROVE  CursorsOnScreen
  BY <1>2 DEF CursorsOnScreen, PromptType, LengthType, FlagType
<1> QED BY <1>1, <1>2

(* The same of the next state *)
LEMMA TypesNext ==
  ASSUME cursors' \in [{SCREEN1, SCREEN2} -> [x : 0..Columns, y : 0..(Height - 1)]],
         ACTUALSCREEN' \in {SCREEN1, SCREEN2}, lineCounter' \in 0..MaxLines,
         PromptType', LengthType', FlagType'
  PROVE  CursorsOnScreen'
BY DEF CursorsOnScreen, PromptType, LengthType, FlagType
-----------------------------------------------------------------------------
(* The invariant holds when the terminal starts, and every step keeps it. *)
LEMMA InitIInv == Init => IInv
<1> SUFFICES ASSUME Init PROVE IInv
  OBVIOUS
<1>1. [x |-> 0, y |-> 0] \in [x : 0..Columns, y : 0..(Height - 1)]
  BY LineEditorAssumption, ColumnsType
<1>2. cursors \in [{SCREEN1, SCREEN2} -> [x : 0..Columns, y : 0..(Height - 1)]]
  BY <1>1 DEF Init
<1>3. /\ lineCounter \in 0..MaxLines
      /\ USER_LENGHT \in 0..(Columns - 1)
      /\ lineSize \in (0 - MaxUnder - 1)..LINE_LEN
      /\ under \in 0..MaxUnder
  BY LineEditorAssumption, ColumnsType DEF Init
<1>4. prompt \in [next : {"none", "open", "name", "close"}, length : Names \cup {0},
                  renamed : BOOLEAN] /\ prompt.next = "none"
  BY DEF Init, NoPrompt
<1>5. CursorsOnScreen
  <2>1. PromptType /\ LengthType /\ FlagType
    BY <1>3, <1>4 DEF Init, PromptType, LengthType, FlagType
  <2>2. ACTUALSCREEN \in {SCREEN1, SCREEN2}
    BY DEF Init
  <2> QED BY <1>2, <1>3, <2>1, <2>2, Types
<1> QED BY <1>4, <1>5 DEF IInv, NameFollows, CloseFollows, LineFollows, Init

(* A step that moves the cursor, and keeps the other types *)
LEMMA CursorMoves ==
  ASSUME CursorsOnScreen, NEW c \in Positions, SetCursor(c), UNCHANGED ACTUALSCREEN,
         PromptType', LengthType', FlagType'
  PROVE  CursorsOnScreen' /\ Cursor' = c
BY SetCursorOnScreen, TypesNext

(* What the types say of the line, for the solver *)
LEMMA LineTypes ==
  ASSUME CursorsOnScreen
  PROVE  /\ lineSize \in Int /\ lineSize <= LINE_LEN /\ 0 - MaxUnder - 1 <= lineSize
         /\ under \in Nat /\ under <= MaxUnder
         /\ USER_LENGHT \in Nat /\ USER_LENGHT < Columns
         /\ LINE_LEN \in Nat /\ LINE_LEN >= 1 /\ MaxUnder \in Nat
         /\ Columns \in Nat /\ Columns >= 2
         /\ Longest = Columns + LINE_LEN + MaxUnder
         /\ userLength \in Names /\ prompt.next \in {"none", "open", "name", "close"}
         /\ prompt.next \in {"name", "close"} => prompt.length \in Names
<1>1. PromptType /\ LengthType
  BY Types
<1> QED BY <1>1, ColumnsType, LineEditorAssumption DEF PromptType, LengthType, Longest

LEMMA ReadCharacterStep ==
  ASSUME IInv, ReadCharacter, UNCHANGED ACTUALSCREEN
  PROVE  IInv'
<1>0. CursorsOnScreen /\ Cursor \in Positions
  BY CursorPosition DEF IInv
<1>1. /\ PrintChar(Cursor) \in Positions
      /\ Total(PrintChar(Cursor)) = Total(Cursor) + 1
      /\ Cursor.y >= Cursor.lines /\ Total(Cursor) <= Longest =>
           PrintChar(Cursor).y >= PrintChar(Cursor).lines
  BY <1>0, PrintCharFollows
<1>2. /\ Reading /\ SetCursor(PrintChar(Cursor))
      /\ UNCHANGED <<USER_LENGHT, userLength, firstChange, changedUserName, prompt, under, shell>>
      /\ lineSize' = IF lineSize < LINE_LEN THEN lineSize + 1 ELSE lineSize
      /\ matched' = (matched /\ lineSize < LINE_LEN)
  BY DEF ReadCharacter, names
<1>3. PromptType' /\ LengthType' /\ FlagType'
  <2>1. lineSize' \in (0 - MaxUnder - 1)..LINE_LEN /\ matched' \in BOOLEAN
    BY <1>0, <1>2, LineTypes
  <2>2. PromptType /\ LengthType /\ FlagType
    BY <1>0, Types
  <2> QED BY <1>2, <2>1, <2>2 DEF PromptType, LengthType, FlagType
<1>4. CursorsOnScreen' /\ Cursor' = PrintChar(Cursor)
  BY <1>0, <1>1, <1>2, <1>3, CursorMoves
<1>5. ASSUME matched'
      PROVE  lineSize' + under' >= 0 /\ Follows(Cursor', USER_LENGHT' + lineSize' + under')
  <2>1. matched /\ lineSize < LINE_LEN /\ lineSize' = lineSize + 1
    BY <1>2, <1>5
  <2>2. /\ lineSize + under >= 0 /\ Total(Cursor) = USER_LENGHT + lineSize + under
        /\ Cursor.y >= Cursor.lines
    BY <1>2, <2>1 DEF IInv, LineFollows, Follows
  <2>3. Total(Cursor) <= Longest
    BY <1>0, <2>2, LineTypes
  <2>4. /\ lineSize' + under' >= 0
        /\ Total(Cursor) + 1 = USER_LENGHT' + lineSize' + under'
    BY <1>0, <1>2, <2>1, <2>2, LineTypes
  <2> QED BY <1>1, <1>4, <2>2, <2>3, <2>4 DEF Follows
<1>6. prompt'.next = "none"
  BY <1>2 DEF Reading
<1> QED BY <1>4, <1>5, <1>6 DEF IInv, NameFollows, CloseFollows, LineFollows

LEMMA ReadBackspaceStep ==
  ASSUME IInv, ReadBackspace, UNCHANGED ACTUALSCREEN
  PROVE  IInv'
<1> DEFINE w == Wrap(Cursor)
           d == DeleteChar(w)
<1>0. CursorsOnScreen /\ Cursor \in Positions
  BY CursorPosition DEF IInv
<1>1. /\ w \in Positions /\ w.x < Columns
      /\ Total(w) = Total(Cursor)
      /\ Cursor.y >= Cursor.lines /\ Total(Cursor) <= Longest => w.y >= w.lines
  BY <1>0, WrapFollows
<1>2. /\ d \in Positions
      /\ Total(w) > USER_LENGHT /\ w.y >= w.lines => Follows(d, Total(w) - 1)
      /\ Total(w) = USER_LENGHT /\ USER_LENGHT < Columns => d = w
  <2> HIDE DEF w
  <2> QED BY <1>0, <1>1, LineTypes, DeleteCharFollows
<1>3. /\ Reading /\ SetCursor(d) /\ lineSize > -MaxUnder
      /\ UNCHANGED <<USER_LENGHT, userLength, firstChange, changedUserName, prompt, shell>>
      /\ lineSize' = (IF lineSize < LINE_LEN THEN lineSize + 1 ELSE lineSize) - 2
      /\ under' = IF matched /\ lineSize + under = 0 THEN under + 1 ELSE under
  BY DEF ReadBackspace, names
<1>m. matched' = (matched /\ lineSize < LINE_LEN)
  BY DEF ReadBackspace
<1> HIDE DEF w, d
<1>4. matched \in BOOLEAN /\ matched' \in BOOLEAN
  BY <1>0, <1>m, Zenon DEF CursorsOnScreen
<1>5. PromptType' /\ LengthType' /\ FlagType'
  <2>1. lineSize' \in (0 - MaxUnder - 1)..LINE_LEN /\ under' \in 0..MaxUnder
    BY <1>0, <1>3, LineTypes
  <2>2. PromptType /\ LengthType /\ FlagType
    BY <1>0, Types
  <2> QED BY <1>3, <1>4, <2>1, <2>2 DEF PromptType, LengthType, FlagType
<1>6. CursorsOnScreen' /\ Cursor' = d
  BY <1>0, <1>2, <1>3, <1>5, CursorMoves
<1>7. ASSUME matched'
      PROVE  lineSize' + under' >= 0 /\ Follows(Cursor', USER_LENGHT' + lineSize' + under')
  <2>1. matched /\ lineSize < LINE_LEN
    BY <1>7, <1>m
  <2>2. lineSize' = lineSize - 1
    BY <1>0, <1>3, <2>1, LineTypes
  <2>3. /\ lineSize + under >= 0 /\ Total(Cursor) = USER_LENGHT + lineSize + under
        /\ Cursor.y >= Cursor.lines
    BY <1>3, <2>1 DEF IInv, LineFollows, Follows
  <2>4. Total(w) = USER_LENGHT + lineSize + under /\ w.y >= w.lines
    <3>1. Total(Cursor) <= Longest
      BY <1>0, <2>3, LineTypes
    <3> QED BY <1>1, <2>3, <3>1
  <2>5. CASE lineSize + under = 0
    <3>1. d = w
      BY <1>0, <1>2, <2>4, <2>5, LineTypes
    <3>2. under' = under + 1
      BY <1>3, <2>1, <2>5
    <3>3. lineSize' + under' >= 0 /\ USER_LENGHT + lineSize + under = USER_LENGHT' + lineSize' + under'
      BY <1>0, <1>3, <2>2, <2>3, <3>2, LineTypes
    <3> QED BY <1>6, <2>4, <3>1, <3>3 DEF Follows
  <2>6. CASE lineSize + under # 0
    <3>1. Follows(d, Total(w) - 1)
      BY <1>0, <1>2, <2>3, <2>4, <2>6, LineTypes
    <3>2. under' = under
      BY <1>3, <2>6
    <3>3. lineSize' + under' >= 0 /\ Total(w) - 1 = USER_LENGHT' + lineSize' + under'
      BY <1>0, <1>3, <2>2, <2>3, <2>4, <2>6, <3>2, LineTypes
    <3> QED BY <1>6, <3>1, <3>3
  <2> QED BY <2>5, <2>6
<1>8. prompt'.next = "none"
  BY <1>3 DEF Reading
<1> QED BY <1>6, <1>7, <1>8 DEF IInv, NameFollows, CloseFollows, LineFollows

(* A prompt that is begun, by the shell or by readText. *)
LEMMA StartPromptStep ==
  ASSUME IInv, NEW renamed \in BOOLEAN, StartPrompt(renamed),
         UNCHANGED <<ACTUALSCREEN, USER_LENGHT, userLength, changedUserName, lengths, shell>>,
         firstChange' \in BOOLEAN
  PROVE  IInv'
<1>0. CursorsOnScreen
  BY DEF IInv
<1>1. /\ cursors' \in [{SCREEN1, SCREEN2} -> [x : 0..Columns, y : 0..(Height - 1)]]
      /\ ACTUALSCREEN' \in {SCREEN1, SCREEN2}
      /\ lineCounter' \in 0..MaxLines
      /\ prompt' = [next |-> "name", length |-> userLength, renamed |-> renamed]
      /\ matched' \in BOOLEAN
      /\ matched' => Follows(Cursor', Opening)
  BY <1>0, StartPromptFollows
<1>2. /\ prompt' \in [next : {"none", "open", "name", "close"}, length : Names \cup {0},
                      renamed : BOOLEAN]
      /\ prompt'.next = "name" /\ prompt'.length \in Names
  BY <1>0, <1>1, LineTypes
<1>3. CursorsOnScreen'
  <2>1. PromptType /\ LengthType /\ FlagType
    BY <1>0, Types
  <2>2. PromptType' /\ LengthType' /\ FlagType'
    BY <1>1, <1>2, <2>1 DEF PromptType, LengthType, FlagType, lengths
  <2> QED BY <1>1, <2>2, TypesNext
<1> QED BY <1>1, <1>2, <1>3 DEF IInv, NameFollows, CloseFollows, LineFollows, Reading

LEMMA ReadTabStep ==
  ASSUME IInv, ReadTab, UNCHANGED ACTUALSCREEN
  PROVE  IInv'
<1>0. CursorsOnScreen /\ Cursor \in Positions
  BY CursorPosition DEF IInv
<1>1. /\ Reading /\ firstChange' = FALSE
      /\ UNCHANGED <<USER_LENGHT, userLength, changedUserName, shell>>
  BY DEF ReadTab
<1>2. CASE StartPrompt(FALSE) /\ UNCHANGED lengths
  BY <1>1, <1>2, StartPromptStep
<1>3. CASE /\ SetCursor(PrintNewLine(Cursor))
           /\ prompt' = [next |-> "open", length |-> 0, renamed |-> TRUE]
           /\ matched' = FALSE
           /\ UNCHANGED lengths
  <2>1. PrintNewLine(Cursor) \in Positions
    BY <1>0, PrintNewLineOnScreen
  <2>2. /\ prompt' \in [next : {"none", "open", "name", "close"}, length : Names \cup {0},
                        renamed : BOOLEAN]
        /\ prompt'.next = "open"
    BY <1>3
  <2>3. CursorsOnScreen'
    <3>1. PromptType /\ LengthType /\ FlagType
      BY <1>0, Types
    <3>2. PromptType' /\ LengthType' /\ FlagType'
      BY <1>1, <1>3, <2>2, <3>1 DEF PromptType, LengthType, FlagType, lengths
    <3> QED BY <1>0, <1>3, <2>1, <3>2, CursorMoves
  <2> QED BY <1>3, <2>3 DEF IInv, NameFollows, CloseFollows, LineFollows
<1>4. CASE /\ matched' = FALSE
           /\ lineSize' = 0 /\ under' = 0
           /\ UNCHANGED <<screen, prompt>>
  <2>1. 0 \in (0 - MaxUnder - 1)..LINE_LEN /\ 0 \in 0..MaxUnder
    BY LineEditorAssumption
  <2>2. CursorsOnScreen'
    <3>1. PromptType /\ LengthType /\ FlagType
      BY <1>0, Types
    <3>2. PromptType' /\ LengthType' /\ FlagType'
      BY <1>1, <1>4, <2>1, <3>1 DEF PromptType, LengthType, FlagType
    <3>3. /\ cursors' \in [{SCREEN1, SCREEN2} -> [x : 0..Columns, y : 0..(Height - 1)]]
          /\ ACTUALSCREEN' \in {SCREEN1, SCREEN2}
          /\ lineCounter' \in 0..MaxLines
      BY <1>0, <1>4 DEF CursorsOnScreen, screen
    <3> QED BY <3>2, <3>3, TypesNext
  <2> QED BY <1>4, <2>2 DEF IInv, NameFollows, CloseFollows, LineFollows
<1> QED BY <1>2, <1>3, <1>4 DEF ReadTab

LEMMA ReadNewLineStep ==
  ASSUME IInv, ReadNewLine, UNCHANGED ACTUALSCREEN
  PROVE  IInv'
<1>0. CursorsOnScreen /\ PrintNewLine(Cursor) \in Positions
  BY CursorPosition, PrintNewLineOnScreen DEF IInv
<1>1. SetCursor(PrintNewLine(Cursor)) /\ matched' = FALSE
  BY DEF ReadNewLine
<1>2. 0 \in (0 - MaxUnder - 1)..LINE_LEN /\ 0 \in 0..MaxUnder
  BY LineEditorAssumption
<1>3. CursorsOnScreen'
  <2>1. PromptType /\ LengthType /\ FlagType
    BY <1>0, Types
  <2>2. PromptType' /\ LengthType' /\ FlagType'
    BY <1>1, <1>2, <2>1 DEF ReadNewLine, names, PromptType, LengthType, FlagType
  <2> QED BY <1>0, <1>1, <2>2, CursorMoves
<1> QED BY <1>1, <1>3 DEF IInv, NameFollows, CloseFollows, LineFollows

LEMMA NextCommandStep ==
  ASSUME IInv, NextCommand
  PROVE  IInv'
BY StartPromptStep DEF NextCommand, names, IInv, CursorsOnScreen

LEMMA OpenStep ==
  ASSUME IInv, Open
  PROVE  IInv'
<1>1. prompt.renamed \in BOOLEAN
  BY DEF IInv, CursorsOnScreen
<1> QED BY <1>1, StartPromptStep DEF Open, names, IInv, CursorsOnScreen

LEMMA WriteNameStep ==
  ASSUME IInv, WriteName
  PROVE  IInv'
<1> DEFINE length == prompt.length
<1>0. CursorsOnScreen /\ Cursor \in Positions
  BY CursorPosition DEF IInv
<1>1. /\ prompt.next = "name"
      /\ USER_LENGHT' = PromptLength(length)
      /\ prompt' = [prompt EXCEPT !.next = "close"]
      /\ matched' = (matched /\ userLength = length)
      /\ UNCHANGED <<ACTUALSCREEN, userLength, firstChange, changedUserName, lineSize, under, shell>>
  BY DEF WriteName, names, lengths
<1>2. /\ length \in Names /\ userLength \in Names /\ length \in Nat /\ userLength \in Nat
      /\ PromptLength(length) = Opening + length + Closing /\ PromptLength(length) < Columns
      /\ Opening \in Nat /\ Closing \in Nat /\ Opening + length < Columns /\ Columns \in Nat
  BY <1>0, <1>1, LineTypes, PromptParts
<1>3. PICK n \in {userLength, PromptLength(length)} :
             n <= userLength /\ n <= PromptLength(length) /\ SetCursor(Write(Cursor, n))
  BY DEF WriteName
<1>4. n \in Nat /\ n <= Columns /\ (userLength = length => n = length)
  BY <1>2, <1>3
<1>5. /\ Write(Cursor, n) \in Positions
      /\ \A k \in Nat : k + n < Columns /\ Follows(Cursor, k) => Follows(Write(Cursor, n), k + n)
  BY <1>0, <1>4, WriteFollows
<1>6. /\ prompt' \in [next : {"none", "open", "name", "close"}, length : Names \cup {0},
                      renamed : BOOLEAN]
      /\ prompt'.next = "close" /\ prompt'.length = length
  BY <1>0, <1>1 DEF CursorsOnScreen
<1>7. USER_LENGHT' \in 0..(Columns - 1)
  BY <1>1, <1>2
<1>8. CursorsOnScreen' /\ Cursor' = Write(Cursor, n)
  <2>1. matched' \in BOOLEAN
    BY <1>1
  <2>2. PromptType /\ LengthType /\ FlagType
    BY <1>0, Types
  <2>3. PromptType' /\ LengthType' /\ FlagType'
    BY <1>1, <1>2, <1>6, <1>7, <2>1, <2>2 DEF PromptType, LengthType, FlagType
  <2> QED BY <1>0, <1>1, <1>3, <1>5, <2>3, CursorMoves
<1>9. ASSUME matched' PROVE Follows(Cursor', Opening + length)
  <2>1. matched /\ userLength = length
    BY <1>1, <1>9
  <2>2. n = length /\ Follows(Cursor, Opening)
    BY <1>1, <1>4, <2>1 DEF IInv, NameFollows
  <2> QED BY <1>2, <1>5, <1>8, <2>2
<1>10. UNCHANGED prompt.length /\ USER_LENGHT' = PromptLength(prompt'.length)
  BY <1>1, <1>6
<1> QED BY <1>6, <1>8, <1>9, <1>10 DEF IInv, NameFollows, CloseFollows, LineFollows, Reading

LEMMA EndPromptStep ==
  ASSUME IInv, EndPrompt
  PROVE  IInv'
<1> DEFINE length == prompt.length
<1>0. CursorsOnScreen /\ Cursor \in Positions
  BY CursorPosition DEF IInv
<1>1. /\ prompt.next = "close" /\ prompt' = NoPrompt
      /\ SetCursor(Write(Cursor, Closing))
      /\ changedUserName' = (changedUserName /\ ~prompt.renamed)
      /\ lineSize' = 0 /\ under' = 0 /\ shell' = "reading"
      /\ UNCHANGED <<ACTUALSCREEN, USER_LENGHT, userLength, firstChange, matched>>
  BY DEF EndPrompt
<1>2. /\ length \in Names /\ length \in Nat
      /\ PromptLength(length) = Opening + length + Closing /\ PromptLength(length) < Columns
      /\ Opening \in Nat /\ Closing \in Nat /\ Columns \in Nat /\ Closing < Columns
  BY <1>0, <1>1, LineTypes, PromptParts
<1>3. Closing <= Columns
  BY <1>2
<1>4. /\ Write(Cursor, Closing) \in Positions
      /\ \A k \in Nat : k + Closing < Columns /\ Follows(Cursor, k) =>
           Follows(Write(Cursor, Closing), k + Closing)
  BY <1>0, <1>2, <1>3, WriteFollows
<1>5. /\ prompt' \in [next : {"none", "open", "name", "close"}, length : Names \cup {0},
                      renamed : BOOLEAN]
      /\ prompt'.next = "none"
  BY <1>1 DEF NoPrompt
<1>6. 0 \in (0 - MaxUnder - 1)..LINE_LEN /\ 0 \in 0..MaxUnder
  BY LineEditorAssumption
<1>7. CursorsOnScreen' /\ Cursor' = Write(Cursor, Closing)
  <2>1. changedUserName' \in BOOLEAN
    BY <1>1
  <2>2. PromptType /\ LengthType /\ FlagType
    BY <1>0, Types
  <2>3. PromptType' /\ LengthType' /\ FlagType'
    BY <1>1, <1>5, <1>6, <2>1, <2>2 DEF PromptType, LengthType, FlagType
  <2> QED BY <1>0, <1>1, <1>4, <2>3, CursorMoves
<1>8. ASSUME matched'
      PROVE  lineSize' + under' >= 0 /\ Follows(Cursor', USER_LENGHT' + lineSize' + under')
  <2>1. Follows(Cursor, Opening + length) /\ USER_LENGHT = PromptLength(length)
    BY <1>1, <1>8 DEF IInv, CloseFollows
  <2>2. Opening + length \in Nat /\ (Opening + length) + Closing < Columns
    BY <1>2
  <2>3. Follows(Cursor', (Opening + length) + Closing)
    BY <1>4, <1>7, <2>1, <2>2
  <2>4. USER_LENGHT' + lineSize' + under' = (Opening + length) + Closing
    BY <1>1, <1>2, <2>1
  <2> QED BY <1>1, <2>3, <2>4
<1> QED BY <1>5, <1>7, <1>8 DEF IInv, NameFollows, CloseFollows, LineFollows

LEMMA PrintsStep ==
  ASSUME IInv, Prints
  PROVE  IInv'
<1>0. CursorsOnScreen /\ Cursor \in Positions
  BY CursorPosition DEF IInv
<1>1. PICK c \in Positions : SetCursor(c)
  <2>1. PrintChar(Cursor) \in Positions /\ PrintNewLine(Cursor) \in Positions
    BY <1>0, PrintCharFollows, PrintNewLineOnScreen
  <2>2. [x |-> 0, y |-> 0, lines |-> lineCounter] \in Positions
    BY <1>0, LineEditorAssumption, ColumnsType DEF CursorsOnScreen, Positions
  <2>3. DeleteChar(Wrap(Cursor)) \in Positions
    BY <1>0, WrapFollows, DeleteCharFollows, LineTypes
  <2> QED BY <2>1, <2>2, <2>3 DEF Prints
<1>2. CursorsOnScreen'
  <2>1. PromptType /\ LengthType /\ FlagType
    BY <1>0, Types
  <2>2. PromptType' /\ LengthType' /\ FlagType' /\ UNCHANGED ACTUALSCREEN
    BY <2>1 DEF Prints, names, lengths, PromptType, LengthType, FlagType
  <2> QED BY <1>0, <1>1, <2>2, CursorMoves
<1> QED BY <1>2 DEF Prints, IInv, NameFollows, CloseFollows, LineFollows

LEMMA BlinkStep ==
  ASSUME IInv, Blink
  PROVE  IInv'
<1>0. CursorsOnScreen /\ Cursor \in Positions
  BY CursorPosition DEF IInv
<1>1. /\ Wrap(Cursor) \in Positions
      /\ Total(Wrap(Cursor)) = Total(Cursor)
      /\ Cursor.y >= Cursor.lines /\ Total(Cursor) <= Longest =>
           Wrap(Cursor).y >= Wrap(Cursor).lines
  BY <1>0, WrapFollows
<1>2. /\ SetCursor(Wrap(Cursor))
      /\ UNCHANGED <<ACTUALSCREEN, USER_LENGHT, userLength, firstChange, changedUserName, prompt,
                     lineSize, under, shell, matched>>
  BY DEF Blink, names, lengths
<1>3. CursorsOnScreen' /\ Cursor' = Wrap(Cursor)
  <2>1. PromptType /\ LengthType /\ FlagType
    BY <1>0, Types
  <2>2. PromptType' /\ LengthType' /\ FlagType'
    BY <1>2, <2>1 DEF PromptType, LengthType, FlagType
  <2> QED BY <1>0, <1>1, <1>2, <2>2, CursorMoves
<1>4. ASSUME NEW k \in Nat, k <= Longest, Follows(Cursor, k) PROVE Follows(Cursor', k)
  BY <1>1, <1>3, <1>4 DEF Follows
<1>5. NameFollows'
  <2>1. ASSUME prompt.next = "name" PROVE Opening \in Nat /\ Opening <= Longest
    BY <1>0, <2>1, LineTypes, PromptParts
  <2> QED BY <1>2, <1>4, <2>1 DEF IInv, NameFollows
<1>6. CloseFollows'
  <2>1. ASSUME prompt.next = "close"
        PROVE  Opening + prompt.length \in Nat /\ Opening + prompt.length <= Longest
    BY <1>0, <2>1, LineTypes, PromptParts
  <2> QED BY <1>2, <1>4, <2>1 DEF IInv, CloseFollows
<1>7. LineFollows'
  <2>1. ASSUME lineSize + under >= 0
        PROVE  /\ USER_LENGHT + lineSize + under \in Nat
               /\ USER_LENGHT + lineSize + under <= Longest
    BY <1>0, <2>1, LineTypes
  <2> QED BY <1>2, <1>4, <2>1 DEF IInv, LineFollows, Reading
<1> QED BY <1>3, <1>5, <1>6, <1>7 DEF IInv

LEMMA ChangeCurrentScreenStep ==
  ASSUME IInv, NEW c \in Cursors, ChangeCurrentScreen(c)
  PROVE  IInv'
<1>0. CursorsOnScreen /\ c \in Positions
  BY LineEditorAssumption DEF IInv, Cursors, Positions
<1>1. Wrap(c).x \in 0..Columns /\ Wrap(c).y \in 0..(Height - 1)
  BY <1>0, WrapFollows DEF Positions
<1>2. cursors' \in [{SCREEN1, SCREEN2} -> [x : 0..Columns, y : 0..(Height - 1)]]
  BY <1>0, <1>1 DEF ChangeCurrentScreen, CursorsOnScreen
<1>3. ACTUALSCREEN' \in {SCREEN1, SCREEN2} /\ lineCounter' \in 0..MaxLines
  BY <1>0, LineEditorAssumption DEF ChangeCurrentScreen, CursorsOnScreen, SCREEN1, SCREEN2
<1>4. CursorsOnScreen'
  <2>1. PromptType /\ LengthType /\ FlagType
    BY <1>0, Types
  <2>2. PromptType' /\ LengthType' /\ FlagType'
    BY <2>1 DEF ChangeCurrentScreen, names, lengths, PromptType, LengthType, FlagType
  <2> QED BY <1>2, <1>3, <2>2, TypesNext
<1> QED BY <1>4 DEF ChangeCurrentScreen, IInv, NameFollows, CloseFollows, LineFollows

LEMMA SetFirstChangeStep ==
  ASSUME IInv, SetFirstChange
  PROVE  IInv'
BY DEF IInv, SetFirstChange, CursorsOnScreen, Cursor, screen, lengths, NameFollows, CloseFollows,
       LineFollows, Reading

LEMMA NextIInv == IInv /\ [Next]_vars => IInv'
<1> SUFFICES ASSUME IInv, [Next]_vars PROVE IInv'
  OBVIOUS
<1>1. ASSUME NEW key \in {"character", "backspace", "tab", "newline"}, ReadText(key)
      PROVE  IInv'
  BY <1>1, ReadCharacterStep, ReadBackspaceStep, ReadTabStep, ReadNewLineStep DEF ReadText
<1>2. CASE NextCommand
  BY <1>2, NextCommandStep
<1>3. CASE PrintUser
  BY <1>3, OpenStep, WriteNameStep, EndPromptStep DEF PrintUser
<1>4. CASE SetFirstChange
  BY <1>4, SetFirstChangeStep
<1>5. CASE Prints
  BY <1>5, PrintsStep
<1>6. CASE Blink
  BY <1>6, BlinkStep
<1>7. ASSUME NEW c \in Cursors, ChangeCurrentScreen(c) PROVE IInv'
  BY <1>7, ChangeCurrentScreenStep
<1>8. CASE UNCHANGED vars
  BY <1>8 DEF vars, screen, names, lengths, IInv, CursorsOnScreen, Cursor, NameFollows, CloseFollows,
              LineFollows, Reading
<1> QED BY <1>1, <1>2, <1>3, <1>4, <1>5, <1>6, <1>7, <1>8 DEF Next

LEMMA InvariantIInv == Spec => []IInv
BY InitIInv, NextIInv, PTL DEF Spec
-----------------------------------------------------------------------------
(***************************************************************************)
(* The driver's cursors stay on their screens (videoDriver.c:136-216), on  *)
(* screens of every size.                                                  *)
(***************************************************************************)
THEOREM OnScreen == Spec => []CursorsOnScreen
<1>1. IInv => CursorsOnScreen
  BY DEF IInv
<1> QED BY <1>1, InvariantIInv, PTL

(***************************************************************************)
(* readText's count and the driver's cursor agree (libc.c:242-273 and      *)
(* videoDriver.c:202-216), for every length of row, name and line that     *)
(* fits the screen; the count falls behind by one for every backspace at   *)
(* the prompt (libc.c:263-265), and by nothing else.                       *)
(***************************************************************************)
THEOREM LineMatches == Spec => []CursorMatchesLine
<1>1. IInv => CursorMatchesLine
  BY CursorPosition DEF IInv, LineFollows, Follows, Total, CursorMatchesLine
<1> QED BY <1>1, InvariantIInv, PTL
-----------------------------------------------------------------------------
(* The terminal: the line with the keyboard's queue in front of it.        *)

LEMMA UptoNat == ASSUME NEW N \in Nat PROVE \A k \in 0..N : k \in Nat
OBVIOUS

(* f[n] does something n times to a member of a set. *)
Repeats(f, S, D, N) == f = [n \in 0..N |-> [c \in S |-> IF n = 0 THEN c ELSE f[n - 1][D[c]]]]

(* Something done n times to a member of a set is defined ... *)
LEMMA Repeated ==
  ASSUME NEW S, NEW D \in [S -> S], NEW N \in Nat
  PROVE  \E f : Repeats(f, S, D, N)
<1> DEFINE Upto(m) == \E f : f = [n \in 0..m |-> [c \in S |-> IF n = 0 THEN c ELSE f[n - 1][D[c]]]]
           T == {m \in 0..N : ~Upto(m)}
<1>1. Upto(0)
  <2> DEFINE f == [n \in 0..0 |-> [c \in S |-> c]]
  <2>1. f = [n \in 0..0 |-> [c \in S |-> IF n = 0 THEN c ELSE f[n - 1][D[c]]]]
    OBVIOUS
  <2> HIDE DEF f
  <2> QED BY <2>1
<1>2. ASSUME NEW m \in Nat, Upto(m) PROVE Upto(m + 1)
  <2>1. PICK g : g = [n \in 0..m |-> [c \in S |-> IF n = 0 THEN c ELSE g[n - 1][D[c]]]]
    BY <1>2
  <2>2. \A n \in 0..m, c \in S : g[n][c] = IF n = 0 THEN c ELSE g[n - 1][D[c]]
    BY <2>1
  <2> DEFINE h == [n \in 0..(m + 1) |-> [c \in S |-> IF n = 0 THEN c ELSE g[n - 1][D[c]]]]
  <2>3. ASSUME NEW n \in 0..m, NEW c \in S PROVE h[n][c] = g[n][c]
    <3>1. n \in 0..(m + 1)
      OBVIOUS
    <3>2. h[n][c] = IF n = 0 THEN c ELSE g[n - 1][D[c]]
      BY <3>1
    <3> QED BY <2>2, <3>2
  <2>4. ASSUME NEW n \in 0..(m + 1), NEW c \in S
        PROVE  (IF n = 0 THEN c ELSE g[n - 1][D[c]]) = (IF n = 0 THEN c ELSE h[n - 1][D[c]])
    <3>1. CASE n # 0
      <4>1. n - 1 \in 0..m /\ D[c] \in S
        BY <3>1
      <4>2. h[n - 1][D[c]] = g[n - 1][D[c]]
        BY <2>3, <4>1
      <4> QED BY <4>2
    <3> QED BY <3>1
  <2>5. h = [n \in 0..(m + 1) |-> [c \in S |-> IF n = 0 THEN c ELSE h[n - 1][D[c]]]]
    BY <2>4
  <2> HIDE DEF h
  <2> QED BY <2>5
<1> HIDE DEF Upto
<1>3. T = {}
  <2> SUFFICES ASSUME T # {} PROVE FALSE
    OBVIOUS
  <2>0. T \subseteq Nat /\ T # {}
    OBVIOUS
  <2>1. PICK m \in T : \A k \in T : m <= k
    <3> HIDE DEF T
    <3> QED BY <2>0, LeastOf
  <2>2. m \in Nat /\ m # 0 /\ ~Upto(m) /\ m \in 0..N
    BY <1>1, <2>1
  <2>3. m - 1 \in Nat /\ m - 1 \in 0..N /\ (m - 1) + 1 = m
    BY <2>2
  <2>4. Upto(m - 1)
    BY <2>1, <2>3
  <2> QED BY <1>2, <2>2, <2>3, <2>4
<1>4. Upto(N)
  BY <1>3
<1> QED BY <1>4 DEF Upto, Repeats

(* ... and stays where doing it once stays. *)
LEMMA RepeatedStays ==
  ASSUME NEW A, NEW D \in [A -> A], NEW N \in Nat,
         NEW f, Repeats(f, A, D, N),
         NEW S, S \subseteq A, \A c \in S : D[c] \in S
  PROVE  \A n \in 0..N, c \in S : f[n][c] \in S
<1> DEFINE T == {n \in 0..N : \E c \in S : f[n][c] \notin S}
<1>0. \A n \in 0..N, c \in S : f[n][c] = IF n = 0 THEN c ELSE f[n - 1][D[c]]
  BY DEF Repeats
<1>1. T = {}
  <2> SUFFICES ASSUME T # {} PROVE FALSE
    OBVIOUS
  <2>0. T \subseteq Nat /\ T # {}
    <3>1. \A k \in 0..N : k \in Nat
      BY UptoNat, Zenon
    <3> QED BY <3>1, Zenon
  <2>1. PICK n \in T : \A k \in T : n <= k
    <3> HIDE DEF T
    <3> QED BY <2>0, LeastOf
  <2>2. PICK c \in S : f[n][c] \notin S
    BY <2>1
  <2>3. n \in 0..N /\ f[n][c] = IF n = 0 THEN c ELSE f[n - 1][D[c]]
    BY <1>0
  <2>4. n # 0 /\ f[n - 1][D[c]] \notin S
    BY <2>2, <2>3
  <2>5. n - 1 \in 0..N /\ D[c] \in S /\ ~(n <= n - 1)
    BY <2>3, <2>4
  <2>6. n - 1 \in T
    BY <2>4, <2>5
  <2> QED BY <2>1, <2>5, <2>6
<1> QED BY <1>1

(* A deletion leaves the cursor on its screen. *)
LEMMA DeleteCharStays ==
  ASSUME CursorsOnScreen, NEW c \in Cursors
  PROVE  DeleteChar(c) \in Cursors
<1>0. /\ c.x \in 0..Columns /\ c.y \in 0..(Height - 1) /\ c.lines \in 0..MaxLines
      /\ USER_LENGHT \in 0..Columns /\ Height \in Nat /\ MaxLines \in Nat
  BY LineEditorAssumption, LineTypes DEF Cursors
<1>1. CASE (c.x <= USER_LENGHT /\ c.lines = 0) \/ (c.x = 0 /\ c.y = 0)
  BY <1>1 DEF DeleteChar
<1>2. CASE ~((c.x <= USER_LENGHT /\ c.lines = 0) \/ (c.x = 0 /\ c.y = 0)) /\ c.x = 0
  <2>1. c.lines - 1 \in 0..MaxLines /\ c.y - 1 \in 0..(Height - 1) /\ Columns - 1 \in 0..Columns
    BY <1>0, <1>2, ColumnsType
  <2>2. DeleteChar(c) = [x |-> Columns - 1, y |-> c.y - 1, lines |-> c.lines - 1]
    BY <1>2 DEF DeleteChar
  <2> QED BY <2>1, <2>2 DEF Cursors
<1>3. CASE ~((c.x <= USER_LENGHT /\ c.lines = 0) \/ (c.x = 0 /\ c.y = 0)) /\ c.x # 0
  <2>1. c.x - 1 \in 0..Columns
    BY <1>0, <1>3, ColumnsType
  <2>2. DeleteChar(c) = [c EXCEPT !.x = c.x - 1]
    BY <1>3 DEF DeleteChar
  <2> QED BY <1>0, <2>1, <2>2 DEF Cursors
<1> QED BY <1>1, <1>2, <1>3

(* However many keys are unread, a screen switch leaves the cursor where   *)
(* one deletion does.                                                      *)
LEMMA DeleteCharsStays ==
  ASSUME CursorsOnScreen, NEW n \in 0..Capacity,
         NEW S, S \subseteq Cursors, \A c \in S : DeleteChar(c) \in S,
         NEW c \in S
  PROVE  DeleteChars[n][c] \in S
<1> DEFINE D == [d \in Cursors |-> DeleteChar(d)]
<1>1. D \in [Cursors -> Cursors]
  BY DeleteCharStays
<1>2. \A d \in Cursors : D[d] = DeleteChar(d)
  OBVIOUS
<1> HIDE DEF D
<1>3. ASSUME NEW f
      PROVE  [m \in 0..Capacity |-> [d \in Cursors |-> IF m = 0 THEN d ELSE f[m - 1][D[d]]]]
           = [m \in 0..Capacity |-> [d \in Cursors |-> IF m = 0 THEN d
             ELSE f[m - 1][DeleteChar(d)]]]
  BY <1>2
<1>4. PICK f : Repeats(f, Cursors, D, Capacity)
  <2>1. Capacity \in Nat
    BY TerminalAssumption
  <2> QED BY <1>1, <2>1, Repeated
<1>5. f = [m \in 0..Capacity |-> [d \in Cursors |-> IF m = 0 THEN d ELSE f[m - 1][DeleteChar(d)]]]
  BY <1>3, <1>4 DEF Repeats
<1> DEFINE g == DeleteChars
<1>6. Repeats(g, Cursors, D, Capacity)
  <2>1. g = [m \in 0..Capacity |-> [d \in Cursors |-> IF m = 0 THEN d ELSE g[m - 1][DeleteChar(d)]]]
    <3>1. \E h : h = [m \in 0..Capacity |-> [d \in Cursors |-> IF m = 0 THEN d
            ELSE h[m - 1][DeleteChar(d)]]]
      BY <1>5, Zenon
    <3> QED BY <3>1, Zenon DEF DeleteChars
  <2> HIDE DEF g
  <2> QED BY <1>3, <2>1 DEF Repeats
<1> HIDE DEF g
<1>7. g[n][c] \in S
  <2>1. \A e \in S : D[e] \in S
    BY <1>2
  <2> QED BY <1>1, <1>6, <2>1, RepeatedStays, TerminalAssumption
<1> QED BY <1>7 DEF g

QueueFits == queue \in Seq(Keys) /\ Len(queue) <= Capacity

TInv == IInv /\ QueueFits

(* The queue holds at most as many keys as the keyboard's buffer. *)
LEMMA PressFits ==
  ASSUME QueueFits, NEW key \in Keys, Keyboard!Press(key)
  PROVE  QueueFits'
<1>0. Capacity \in Nat \ {0} /\ queue \in Seq(Keys) /\ Len(queue) \in Nat /\ Len(queue) <= Capacity
  BY TerminalAssumption, LenProperties DEF QueueFits
<1>1. CASE Len(queue) = Capacity
  <2>1. queue # <<>>
    BY <1>0, <1>1
  <2>2. Tail(queue) \in Seq(Keys) /\ Len(Tail(queue)) = Len(queue) - 1
    BY <1>0, <2>1, HeadTailProperties
  <2>3. queue' = Append(Tail(queue), key)
    BY <1>1 DEF Keyboard!Press
  <2>4. queue' \in Seq(Keys) /\ Len(queue') = Len(queue)
    BY <1>0, <2>2, <2>3, AppendProperties
  <2> QED BY <1>0, <2>4 DEF QueueFits
<1>2. CASE Len(queue) # Capacity
  <2>1. queue' = Append(queue, key)
    BY <1>2 DEF Keyboard!Press
  <2>2. queue' \in Seq(Keys) /\ Len(queue') = Len(queue) + 1
    BY <1>0, <2>1, AppendProperties
  <2> QED BY <1>0, <1>2, <2>2 DEF QueueFits
<1> QED BY <1>1, <1>2

(* Reading takes keys out of the queue. *)
LEMMA ReadFits ==
  ASSUME QueueFits, Keyboard!Read \/ Keyboard!ReadPair
  PROVE  QueueFits'
<1>0. Capacity \in Nat \ {0} /\ queue \in Seq(Keys) /\ Len(queue) \in Nat /\ Len(queue) <= Capacity
  BY TerminalAssumption, LenProperties DEF QueueFits
<1>1. ASSUME NEW q \in Seq(Keys), q # <<>>
      PROVE  Tail(q) \in Seq(Keys) /\ Len(Tail(q)) = Len(q) - 1
  BY <1>1, HeadTailProperties
<1>2. CASE Keyboard!Read
  <2>1. queue # <<>> /\ queue' = Tail(queue)
    BY <1>2 DEF Keyboard!Read
  <2> QED BY <1>0, <1>1, <2>1 DEF QueueFits
<1>3. CASE Keyboard!ReadPair
  <2>1. Len(queue) >= 2 /\ queue' = Tail(Tail(queue))
    BY <1>3 DEF Keyboard!ReadPair
  <2>2. queue # <<>>
    BY <2>1
  <2>3. Tail(queue) \in Seq(Keys) /\ Len(Tail(queue)) = Len(queue) - 1
    BY <1>0, <1>1, <2>2
  <2>4. Tail(queue) # <<>>
    BY <1>0, <2>1, <2>3
  <2>5. queue' \in Seq(Keys) /\ Len(queue') = Len(queue) - 2
    BY <1>0, <1>1, <2>1, <2>3, <2>4
  <2> QED BY <1>0, <2>5 DEF QueueFits
<1> QED BY <1>2, <1>3

(* The terminal starts as the line editor does. *)
LEMMA TerminalInitial == TerminalInit => TInv
<1>1. ASSUME TerminalInit PROVE QueueFits
  <2>1. queue = <<>> /\ <<>> \in Seq(Keys) /\ Len(<<>>) = 0
    BY <1>1 DEF TerminalInit
  <2> QED BY <2>1, TerminalAssumption DEF QueueFits
<1> QED BY <1>1, InitIInv DEF TerminalInit, TInv

(* Every step of the terminal is one of the line editor, or none of its.   *)
LEMMA TerminalStep ==
  TInv /\ [TerminalNext]_terminalVars => (vars' = vars \/ Next) /\ TInv'
<1> SUFFICES ASSUME TInv, [TerminalNext]_terminalVars
             PROVE  (vars' = vars \/ Next) /\ QueueFits'
  BY NextIInv DEF TInv
<1>0. CursorsOnScreen /\ QueueFits
  BY DEF TInv, IInv
<1>1. CASE Press
  <2>1. PICK key \in Keys : Keyboard!Press(key)
    BY <1>1 DEF Press
  <2>2. QueueFits'
    BY <1>0, <2>1, PressFits
  <2> QED BY <1>1, <2>2 DEF Press
<1>2. CASE CtrlTab
  <2> DEFINE c == DeleteChars[Len(queue)][Wrap(Cursor)]
  <2>1. Len(queue) \in 0..Capacity
    BY <1>0, LenProperties, TerminalAssumption DEF QueueFits
  <2>2. c \in Cursors
    BY <1>0, <1>2, <2>1, DeleteCharStays, DeleteCharsStays DEF CtrlTab
  <2>3. ChangeCurrentScreen(c)
    BY <1>2 DEF CtrlTab
  <2> HIDE DEF c
  <2>4. Next
    BY <2>2, <2>3 DEF Next
  <2>5. queue' = <<"tab">> /\ "tab" \in Keys
    BY <1>2 DEF CtrlTab, Keyboard!Switch, Keys
  <2>6. <<"tab">> \in Seq(Keys) /\ Len(<<"tab">>) = 1
    BY <2>5
  <2>7. QueueFits'
    BY <2>5, <2>6, TerminalAssumption DEF QueueFits
  <2> QED BY <2>4, <2>7
<1>3. CASE GetChar
  <2>1. QueueFits'
    BY <1>0, <1>3, ReadFits DEF GetChar
  <2> QED BY <1>3, <2>1 DEF GetChar, Next
<1>4. CASE Handle
  <2>1. echo \in {"character", "backspace", "tab", "newline"} /\ ReadText(echo)
    BY <1>4 DEF Handle, ReadText
  <2> QED BY <1>0, <1>4, <2>1 DEF Handle, Next, QueueFits
<1>5. CASE Others
  BY <1>0, <1>5 DEF Others, Next, QueueFits
<1>6. CASE UNCHANGED terminalVars
  BY <1>0, <1>6 DEF terminalVars, QueueFits
<1> QED BY <1>1, <1>2, <1>3, <1>4, <1>5, <1>6 DEF TerminalNext

(***************************************************************************)
(* With the keys and the screen switches where they really come from, the  *)
(* keyboard's queue (keyboardDriver.c) and readText one key at a time, the *)
(* driver's cursors stay on their screens: cleanBufferofScreen's deletions *)
(* take none off, however many keys are unread ...                         *)
(***************************************************************************)
THEOREM TerminalOnScreen == TerminalSpec => []CursorsOnScreen
<1>1. TInv => CursorsOnScreen
  BY DEF TInv, IInv
<1> QED BY <1>1, TerminalInitial, TerminalStep, PTL DEF TerminalSpec

(***************************************************************************)
(* ... and the cursor agrees with the line (libc.c) with the keyboard in   *)
(* front, too.                                                             *)
(***************************************************************************)
THEOREM TerminalLineMatches == TerminalSpec => []CursorMatchesLine
<1>1. TInv => CursorMatchesLine
  BY CursorPosition DEF TInv, IInv, LineFollows, Follows, Total, CursorMatchesLine
<1> QED BY <1>1, TerminalInitial, TerminalStep, PTL DEF TerminalSpec

(* The cursors behind the prompt of a line that begins in row first *)
BehindPrompt(first) ==
  {c \in Cursors : /\ c.x < Columns
                   /\ c.y - c.lines = first /\ c.y >= c.lines
                   /\ Total(c) >= USER_LENGHT}

(* A deletion does not take the cursor from there. *)
LEMMA DeleteCharBehind ==
  ASSUME CursorsOnScreen, NEW first, NEW c \in BehindPrompt(first)
  PROVE  DeleteChar(c) \in BehindPrompt(first)
<1>0. /\ c \in Cursors /\ c \in Positions /\ c.x < Columns /\ DeleteChar(c) \in Cursors
      /\ c.y - c.lines = first /\ c.y >= c.lines /\ Total(c) >= USER_LENGHT
  BY DeleteCharStays, LineEditorAssumption DEF BehindPrompt, Cursors, Positions
<1>1. /\ c.x \in 0..Columns /\ c.y \in 0..(Height - 1) /\ c.lines \in 0..MaxLines
      /\ USER_LENGHT \in Nat /\ USER_LENGHT < Columns /\ Columns \in Nat /\ Columns >= 2
      /\ Height \in Nat /\ MaxLines \in Nat
  BY <1>0, LineTypes, LineEditorAssumption DEF Cursors
<1>2. Total(c) \in Nat
  <2>1. c.lines \in Nat /\ c.x \in Nat
    BY <1>1
  <2>2. c.lines * Columns \in Nat
    BY <1>1, <2>1, Rows
  <2> QED BY <2>1, <2>2 DEF Total
<1>3. CASE Total(c) = USER_LENGHT
  BY <1>0, <1>1, <1>3, DeleteCharFollows
<1>4. CASE Total(c) # USER_LENGHT
  <2>1. Follows(DeleteChar(c), Total(c) - 1)
    BY <1>0, <1>1, <1>2, <1>4, DeleteCharFollows
  <2>2. Total(DeleteChar(c)) >= USER_LENGHT /\ DeleteChar(c).y >= DeleteChar(c).lines
    BY <1>0, <1>1, <1>2, <1>4, <2>1 DEF Follows
  <2>3. DeleteChar(c).x < Columns /\ DeleteChar(c).y - DeleteChar(c).lines = first
    <3>1. CASE (c.x <= USER_LENGHT /\ c.lines = 0) \/ (c.x = 0 /\ c.y = 0)
      BY <3>1, <1>0 DEF DeleteChar
    <3>2. CASE ~((c.x <= USER_LENGHT /\ c.lines = 0) \/ (c.x = 0 /\ c.y = 0)) /\ c.x = 0
      <4>1. DeleteChar(c) = [x |-> Columns - 1, y |-> c.y - 1, lines |-> c.lines - 1]
        BY <3>2 DEF DeleteChar
      <4> QED BY <4>1, <1>0, <1>1
    <3>3. CASE ~((c.x <= USER_LENGHT /\ c.lines = 0) \/ (c.x = 0 /\ c.y = 0)) /\ c.x # 0
      <4>1. DeleteChar(c) = [c EXCEPT !.x = c.x - 1]
        BY <3>3 DEF DeleteChar
      <4>2. /\ DeleteChar(c).x = c.x - 1 /\ DeleteChar(c).y = c.y
            /\ DeleteChar(c).lines = c.lines
        BY <4>1, <1>0 DEF Cursors
      <4> QED BY <4>2, <1>0, <1>1
    <3> QED BY <3>1, <3>2, <3>3
  <2> QED BY <1>0, <2>2, <2>3 DEF BehindPrompt
<1> QED BY <1>3, <1>4

(***************************************************************************)
(* cleanBufferofScreen (keyboardDriver.c:54-60) deletes a character for    *)
(* every key unread; whatever their number, the length of the line and the *)
(* rows it takes, the prompt stays on the screen that is left.             *)
(***************************************************************************)
THEOREM PromptSurvives == TerminalSpec => PromptSurvivesSwitch
<1> DEFINE Survives ==
             ACTUALSCREEN' # ACTUALSCREEN /\ matched /\ Reading =>
               LET c == cursors'[ACTUALSCREEN]
                   first == Wrap(Cursor).y - Wrap(Cursor).lines
               IN (c.y - first) * Columns + c.x >= USER_LENGHT
<1>1. ASSUME TInv, [TerminalNext]_terminalVars PROVE Survives \/ UNCHANGED terminalVars
  <2>1. CASE CtrlTab
    <3> SUFFICES ASSUME matched, Reading PROVE Survives
      BY Zenon
    <3> DEFINE w == Wrap(Cursor)
               first == w.y - w.lines
               c == DeleteChars[Len(queue)][w]
    <3>0. CursorsOnScreen /\ Cursor \in Positions /\ QueueFits
      BY <1>1, CursorPosition DEF TInv, IInv
    <3>1. /\ w \in Positions /\ w.x < Columns /\ Total(w) = Total(Cursor)
          /\ Cursor.y >= Cursor.lines /\ Total(Cursor) <= Longest => w.y >= w.lines
      BY <3>0, WrapFollows
    <3>2. /\ lineSize + under >= 0 /\ Total(Cursor) = USER_LENGHT + lineSize + under
          /\ Cursor.y >= Cursor.lines
      BY <1>1 DEF TInv, IInv, LineFollows, Follows
    <3>3. Total(Cursor) <= Longest /\ Total(Cursor) >= USER_LENGHT
      BY <3>0, <3>2, LineTypes
    <3>4. w \in Cursors /\ ChangeCurrentScreen(c)
      BY <2>1 DEF CtrlTab
    <3> HIDE DEF w
    <3>5. w \in BehindPrompt(first)
      BY <3>1, <3>2, <3>3, <3>4 DEF BehindPrompt
    <3>6. Len(queue) \in 0..Capacity
      BY <3>0, LenProperties, TerminalAssumption DEF QueueFits
    <3> HIDE DEF first
    <3>7. c \in BehindPrompt(first)
      <4>1. BehindPrompt(first) \subseteq Cursors
        BY DEF BehindPrompt
      <4>2. \A d \in BehindPrompt(first) : DeleteChar(d) \in BehindPrompt(first)
        BY <3>0, DeleteCharBehind
      <4> QED BY <3>0, <3>5, <3>6, <4>1, <4>2, DeleteCharsStays
    <3> HIDE DEF c
    <3>8. /\ c \in Cursors /\ c.x < Columns /\ c.x \in Nat /\ c.y \in Nat /\ c.lines \in Nat
          /\ c.y - c.lines = first /\ Total(c) >= USER_LENGHT
      BY <3>7, LineEditorAssumption DEF BehindPrompt, Cursors
    <3>9. Wrap(c) = c
      BY <3>8, ColumnsType DEF Wrap
    <3>10. cursors'[ACTUALSCREEN] = [x |-> c.x, y |-> c.y]
      BY <3>0, <3>4, <3>9 DEF ChangeCurrentScreen, CursorsOnScreen
    <3>11. c.y - first = c.lines
      BY <3>8
    <3>12. (c.y - first) * Columns + c.x >= USER_LENGHT
      BY <3>8, <3>11 DEF Total
    <3> QED BY <3>10, <3>12 DEF first, w
  <2>2. CASE ~CtrlTab
    <3>1. UNCHANGED ACTUALSCREEN
      BY <1>1, <2>2 DEF TerminalNext, Press, GetChar, Handle, Others, ReadText, NextCommand,
         PrintUser, Open, WriteName, EndPrompt, SetFirstChange, Prints, Blink, vars, screen,
         terminalVars
    <3> QED BY <3>1
  <2> QED BY <2>1, <2>2
<1>2. TInv /\ [TerminalNext]_terminalVars => [Survives]_terminalVars
  BY <1>1
<1> HIDE DEF Survives
<1>3. TerminalSpec => [][Survives]_terminalVars
  BY <1>2, TerminalInitial, TerminalStep, PTL DEF TerminalSpec
<1> QED BY <1>3 DEF PromptSurvivesSwitch, Survives
-----------------------------------------------------------------------------
(* A function that is defined by recursion over a measure exists: on the   *)
(* arguments of a measure below n there is exactly one that satisfies the  *)
(* equation, and these agree.                                              *)
Recursion(f, D, B, b, d, H) == f = [x \in D |-> IF x \in B THEN b[x] ELSE H[x][f[d[x]]]]

Below(D, m, n) == {x \in D : m[x] < n}

Shrinks(D, B, d, m) == \A x \in D : x \notin B => d[x] \in D /\ m[d[x]] < m[x]

(* Two solutions agree where both are defined ... *)
LEMMA RecursionAgrees ==
  ASSUME NEW D, NEW B, NEW b, NEW d, NEW H, NEW m \in [D -> Nat], Shrinks(D, B, d, m),
         NEW k \in Nat, NEW n \in Nat, NEW f, NEW g,
         Recursion(f, Below(D, m, k), B, b, d, H), Recursion(g, Below(D, m, n), B, b, d, H)
  PROVE  \A x \in Below(D, m, k) : x \in Below(D, m, n) => f[x] = g[x]
<1> DEFINE Bad == {x \in D : x \in Below(D, m, k) /\ x \in Below(D, m, n) /\ f[x] # g[x]}
           T == {m[x] : x \in Bad}
<1>1. SUFFICES ASSUME Bad # {} PROVE FALSE
  BY DEF Below
<1>2. T \subseteq Nat /\ T # {}
  BY <1>1
<1>3. PICK t \in T : \A y \in T : t <= y
  <2> HIDE DEF T
  <2> QED BY <1>2, LeastOf
<1>4. PICK x \in Bad : t = m[x]
  OBVIOUS
<1>5. \A y \in Bad : m[x] <= m[y]
  BY <1>3, <1>4
<1>6. x \in D /\ x \in Below(D, m, k) /\ x \in Below(D, m, n) /\ f[x] # g[x]
  OBVIOUS
<1>7. /\ f[x] = IF x \in B THEN b[x] ELSE H[x][f[d[x]]]
      /\ g[x] = IF x \in B THEN b[x] ELSE H[x][g[d[x]]]
  BY <1>6 DEF Recursion
<1>8. x \notin B
  BY <1>6, <1>7
<1>9. d[x] \in D /\ m[d[x]] < m[x] /\ m[d[x]] \in Nat /\ m[x] \in Nat
  BY <1>6, <1>8 DEF Shrinks
<1>10. d[x] \in Below(D, m, k) /\ d[x] \in Below(D, m, n)
  BY <1>6, <1>9 DEF Below
<1>11. f[d[x]] # g[d[x]]
  BY <1>6, <1>7, <1>8
<1>12. d[x] \in Bad
  BY <1>9, <1>10, <1>11
<1>13. m[x] <= m[d[x]]
  BY <1>5, <1>12
<1> QED BY <1>9, <1>13

(* ... so that those of smaller measure extend to one of the next ... *)
LEMMA RecursionBelow ==
  ASSUME NEW D, NEW B, NEW b, NEW d, NEW H, NEW m \in [D -> Nat], Shrinks(D, B, d, m),
         NEW n \in Nat
  PROVE  \E f : Recursion(f, Below(D, m, n), B, b, d, H)
<1> DEFINE Upto(k) == \E f : Recursion(f, Below(D, m, k), B, b, d, H)
           T == {k \in Nat : ~Upto(k)}
<1>1. Upto(0)
  <2> DEFINE f == [x \in {} |-> x]
  <2>1. Below(D, m, 0) = {}
    BY DEF Below
  <2>2. Recursion(f, Below(D, m, 0), B, b, d, H)
    BY <2>1 DEF Recursion
  <2> QED BY <2>2
<1>2. ASSUME NEW k \in Nat, Upto(k) PROVE Upto(k + 1)
  <2>1. PICK g : Recursion(g, Below(D, m, k), B, b, d, H)
    BY <1>2
  <2> DEFINE h == [x \in Below(D, m, k + 1) |-> IF x \in B THEN b[x] ELSE H[x][g[d[x]]]]
  <2>2. ASSUME NEW x \in Below(D, m, k) PROVE h[x] = g[x]
    <3>1. x \in Below(D, m, k + 1)
      BY DEF Below
    <3>2. h[x] = IF x \in B THEN b[x] ELSE H[x][g[d[x]]]
      BY <3>1
    <3>3. g[x] = IF x \in B THEN b[x] ELSE H[x][g[d[x]]]
      BY <2>1 DEF Recursion
    <3> QED BY <3>2, <3>3
  <2>3. ASSUME NEW x \in Below(D, m, k + 1), x \notin B
        PROVE  H[x][g[d[x]]] = H[x][h[d[x]]]
    <3>1. d[x] \in D /\ m[d[x]] < m[x] /\ m[d[x]] \in Nat /\ m[x] \in Nat /\ m[x] < k + 1
      BY <2>3 DEF Below, Shrinks
    <3>2. d[x] \in Below(D, m, k)
      BY <3>1 DEF Below
    <3> QED BY <2>2, <3>2
  <2>4. h = [x \in Below(D, m, k + 1) |-> IF x \in B THEN b[x] ELSE H[x][h[d[x]]]]
    BY <2>3
  <2> HIDE DEF h
  <2> QED BY <2>4 DEF Recursion
<1> HIDE DEF Upto
<1>3. T = {}
  <2> SUFFICES ASSUME T # {} PROVE FALSE
    OBVIOUS
  <2>1. PICK k \in T : \A j \in T : k <= j
    BY LeastOf
  <2>2. k \in Nat /\ k # 0 /\ ~Upto(k)
    BY <1>1
  <2>3. k - 1 \in Nat /\ (k - 1) + 1 = k
    BY <2>2
  <2>4. Upto(k - 1)
    BY <2>1, <2>3
  <2> QED BY <1>2, <2>2, <2>3, <2>4
<1>4. Upto(n)
  BY <1>3
<1> QED BY <1>4 DEF Upto

(* ... and to one everywhere. *)
LEMMA RecursionExists ==
  ASSUME NEW D, NEW B, NEW b, NEW d, NEW H, NEW m \in [D -> Nat], Shrinks(D, B, d, m)
  PROVE  \E f : Recursion(f, D, B, b, d, H)
<1> DEFINE Good(g, n) == Recursion(g, Below(D, m, n), B, b, d, H)
           F == [x \in D |-> (CHOOSE g : Good(g, m[x] + 1))[x]]
<1>1. ASSUME NEW x \in D
      PROVE  F[x] = IF x \in B THEN b[x] ELSE H[x][F[d[x]]]
  <2> DEFINE g == CHOOSE g : Good(g, m[x] + 1)
             h == CHOOSE h : Good(h, m[d[x]] + 1)
  <2>1. m[x] \in Nat /\ x \in Below(D, m, m[x] + 1)
    BY DEF Below
  <2>2. Good(g, m[x] + 1)
    <3>1. PICK n \in Nat : n = m[x] + 1
      BY <2>1
    <3>2. \E a : Good(a, n)
      BY RecursionBelow
    <3> QED BY <3>1, <3>2
  <2>3. F[x] = g[x]
    OBVIOUS
  <2>4. g[x] = IF x \in B THEN b[x] ELSE H[x][g[d[x]]]
    <3> HIDE DEF g
    <3> QED BY <2>1, <2>2 DEF Recursion
  <2>5. CASE x \in B
    BY <2>3, <2>4, <2>5
  <2>6. CASE x \notin B
    <3>1. d[x] \in D /\ m[d[x]] \in Nat /\ m[d[x]] < m[x]
      BY <2>6 DEF Shrinks
    <3>2. d[x] \in Below(D, m, m[d[x]] + 1) /\ d[x] \in Below(D, m, m[x] + 1)
      BY <2>1, <3>1 DEF Below
    <3>3. Good(h, m[d[x]] + 1)
      <4>1. PICK n \in Nat : n = m[d[x]] + 1
        BY <3>1
      <4>2. \E a : Good(a, n)
        BY RecursionBelow
      <4> QED BY <4>1, <4>2
    <3>4. h[d[x]] = g[d[x]]
      <4> HIDE DEF g, h
      <4>1. PICK k \in Nat : k = m[d[x]] + 1
        BY <3>1
      <4>2. PICK n \in Nat : n = m[x] + 1
        BY <2>1
      <4> QED BY <2>2, <3>2, <3>3, <4>1, <4>2, RecursionAgrees
    <3>5. F[d[x]] = h[d[x]]
      BY <3>1
    <3> HIDE DEF F, g, h
    <3> QED BY <2>3, <2>4, <2>6, <3>4, <3>5
  <2> QED BY <2>5, <2>6
<1>2. F = [x \in D |-> IF x \in B THEN b[x] ELSE H[x][F[d[x]]]]
  <2>1. F = [x \in D |-> F[x]]
    OBVIOUS
  <2> HIDE DEF F
  <2> QED BY <1>1, <2>1
<1> HIDE DEF F
<1> QED BY <1>2 DEF Recursion
-----------------------------------------------------------------------------
(* Strings. *)
Chars == 1..127
Strings == Seq(Chars)

(* A string ends in 0, and has no 0 before. *)
LEMMA CharAtZero ==
  ASSUME NEW str \in Strings, NEW i \in Nat \ {0}
  PROVE  /\ CharAt(str, i) \in 0..127
         /\ CharAt(str, i) = 0 <=> i > Len(str)
         /\ i <= Len(str) => CharAt(str, i) = str[i]
<1>1. CASE i <= Len(str)
  <2>1. Len(str) \in Nat /\ CharAt(str, i) = str[i]
    BY <1>1 DEF CharAt, Strings
  <2>2. i \in 1..Len(str)
    BY <1>1, <2>1
  <2>3. PICK c \in 1..127 : c = str[i]
    BY <2>2, ElementOfSeq DEF Strings, Chars
  <2>4. PICK n \in Nat : n = Len(str)
    BY <2>1
  <2>5. CharAt(str, i) = c /\ i <= n
    BY <1>1, <2>1, <2>3, <2>4
  <2>6. CharAt(str, i) \in 0..127 /\ CharAt(str, i) # 0
    BY <2>3, <2>5
  <2>7. ~(i > Len(str))
    BY <2>4, <2>5
  <2> QED BY <2>1, <2>6, <2>7, Zenon
<1>2. CASE ~(i <= Len(str))
  <2>1. Len(str) \in Nat
    BY DEF Strings
  <2> QED BY <1>2, <2>1 DEF CharAt
<1> QED BY <1>1, <1>2

(* strcmp tells equal strings from others. *)
LEMMA StrcmpEqual ==
  ASSUME NEW s \in Strings, NEW t \in Strings
  PROVE  strcmp(s, t) = 0 <=> s = t
<1> DEFINE differ == {i \in 1..(Len(s) + 1) : CharAt(s, i) # CharAt(t, i)}
<1>1. Len(s) \in Nat /\ Len(t) \in Nat
  BY DEF Strings
<1>2. strcmp(s, t) = 0 <=> differ = {}
  BY DEF strcmp
<1>3. s = t => differ = {}
  OBVIOUS
<1>4. ASSUME differ = {} PROVE s = t
  <2>0. \A i \in 1..(Len(s) + 1) : CharAt(s, i) = CharAt(t, i)
    BY <1>4
  <2>1. ~(Len(s) < Len(t))
    <3> SUFFICES ASSUME Len(s) < Len(t) PROVE FALSE
      OBVIOUS
    <3>1. PICK i \in Nat \ {0} : i = Len(s) + 1
      BY <1>1
    <3>2. CharAt(s, i) = 0 /\ CharAt(t, i) # 0
      BY <1>1, <3>1, CharAtZero
    <3>3. i \in 1..(Len(s) + 1)
      BY <1>1, <3>1
    <3> QED BY <2>0, <3>2, <3>3
  <2>2. ~(Len(t) < Len(s))
    <3> SUFFICES ASSUME Len(t) < Len(s) PROVE FALSE
      OBVIOUS
    <3>1. PICK i \in Nat \ {0} : i = Len(t) + 1
      BY <1>1
    <3>2. CharAt(t, i) = 0 /\ CharAt(s, i) # 0
      BY <1>1, <3>1, CharAtZero
    <3>3. i \in 1..(Len(s) + 1)
      BY <1>1, <3>1
    <3> QED BY <2>0, <3>2, <3>3
  <2>3. Len(s) = Len(t)
    BY <1>1, <2>1, <2>2
  <2>4. ASSUME NEW i \in 1..Len(s) PROVE s[i] = t[i]
    <3>1. i \in Nat \ {0} /\ i <= Len(s) /\ i <= Len(t) /\ i \in 1..(Len(s) + 1)
      BY <1>1, <2>3
    <3>2. CharAt(s, i) = s[i] /\ CharAt(t, i) = t[i]
      BY <3>1, CharAtZero
    <3> QED BY <2>0, <3>1, <3>2
  <2> QED BY <2>3, <2>4, SeqEqual DEF Strings
<1> QED BY <1>2, <1>3, <1>4

(* e is the last character of the word that starts at k. *)
WordEnd(str, k, e) ==
  /\ e \in k..Len(str)
  /\ \A n \in k..e : str[n] # Space
  /\ e = Len(str) \/ str[e + 1] = Space

(* Every word has an end, and argv[i] points to the string from its start  *)
(* to there.                                                               *)
LEMMA WordHasEnd ==
  ASSUME NEW str \in Strings, NEW k \in 1..Len(str), str[k] # Space
  PROVE  \E e \in 1..Len(str) : /\ WordEnd(str, k, e)
                               /\ StringAt(str, k) = SubSeq(str, k, e)
<1> DEFINE I == {i \in k..Len(str) : str[i] = Space}
<1>1. Len(str) \in Nat /\ k \in Nat /\ 1 <= k /\ k <= Len(str)
  BY DEF Strings
<1>2. CASE I = {}
  <2>1. StringAt(str, k) = SubSeq(str, k, Len(str))
    BY <1>2 DEF StringAt, SelectInSubSeq
  <2>2. \A n \in k..Len(str) : str[n] # Space
    BY <1>2
  <2>3. WordEnd(str, k, Len(str)) /\ Len(str) \in 1..Len(str)
    BY <1>1, <2>2 DEF WordEnd
  <2> QED BY <2>1, <2>3
<1>3. CASE I # {}
  <2>1. I \subseteq Nat
    BY <1>1
  <2>2. PICK i \in I : \A j \in I : i <= j
    <3> HIDE DEF I
    <3> QED BY <1>3, <2>1, LeastOf
  <2>3. Min(I) = i
    <3>1. \A x \in I : (\A y \in I : x <= y) => x = i
      <4> SUFFICES ASSUME NEW x \in I, \A y \in I : x <= y PROVE x = i
        OBVIOUS
      <4>1. x <= i /\ i <= x /\ x \in Nat /\ i \in Nat
        BY <2>1, <2>2
      <4> QED BY <4>1
    <3> HIDE DEF I
    <3> QED BY <2>2, <3>1 DEF Min
  <2>4. i \in k..Len(str) /\ str[i] = Space
    OBVIOUS
  <2>5. PICK e \in 1..Len(str) : e = i - 1 /\ e \in k..Len(str) /\ e + 1 = i
    BY <1>1, <2>4
  <2>6. StringAt(str, k) = SubSeq(str, k, e)
    <3>1. SelectInSubSeq(str, k, Len(str), LAMBDA c : c = Space) = i
      BY <1>3, <2>3 DEF SelectInSubSeq
    <3>2. i # 0
      BY <1>1, <2>4
    <3> QED BY <2>5, <3>1, <3>2 DEF StringAt
  <2>7. \A n \in k..e : str[n] # Space
    <3> SUFFICES ASSUME NEW n \in k..e, str[n] = Space PROVE FALSE
      OBVIOUS
    <3>1. n \in k..Len(str) /\ n < i /\ n \in Nat
      BY <1>1, <2>4, <2>5
    <3>2. n \in I
      BY <3>1
    <3>3. i <= n
      BY <2>2, <3>2
    <3> QED BY <2>4, <3>1, <3>3, <1>1
  <2>8. WordEnd(str, k, e)
    BY <2>4, <2>5, <2>7 DEF WordEnd
  <2> QED BY <2>6, <2>8
<1> QED BY <1>2, <1>3

(* What argv[i] points to is the word that starts there. *)
LEMMA StringIsWord ==
  ASSUME NEW str \in Strings, NEW k \in WordStarts(str)
  PROVE  /\ StringAt(str, k) = WordFrom(str, k)
         /\ StringAt(str, k) \in Strings
         /\ StringAt(str, k) # <<>>
<1>1. k \in 1..Len(str) /\ str[k] # Space /\ Len(str) \in Nat
  BY DEF WordStarts, Strings
<1>2. PICK e \in 1..Len(str) : WordEnd(str, k, e) /\ StringAt(str, k) = SubSeq(str, k, e)
  BY <1>1, WordHasEnd
<1>3. ASSUME NEW f \in k..Len(str), WordEnd(str, k, f) PROVE f = e
  <2>1. f \in Nat /\ e \in Nat /\ k \in Nat /\ k <= e /\ k <= f /\ e <= Len(str) /\ f <= Len(str)
    BY <1>1, <1>2 DEF WordEnd
  <2>2. ~(f < e)
    <3> SUFFICES ASSUME f < e PROVE FALSE
      OBVIOUS
    <3>1. PICK g \in k..e : g = f + 1
      BY <2>1
    <3>2. str[g] = Space
      BY <1>3, <2>1, <3>1 DEF WordEnd
    <3> QED BY <1>2, <3>1, <3>2 DEF WordEnd
  <2>3. ~(e < f)
    <3> SUFFICES ASSUME e < f PROVE FALSE
      OBVIOUS
    <3>1. PICK g \in k..f : g = e + 1
      BY <2>1
    <3>2. str[g] = Space
      BY <1>2, <2>1, <3>1 DEF WordEnd
    <3> QED BY <1>3, <3>1, <3>2 DEF WordEnd
  <2> QED BY <2>1, <2>2, <2>3
<1>4. WordFrom(str, k) = SubSeq(str, k, e)
  <2> DEFINE P(x) == (\A n \in k..x : str[n] # Space) /\ (x = Len(str) \/ str[x + 1] = Space)
  <2>1. e \in k..Len(str) /\ P(e)
    BY <1>2 DEF WordEnd
  <2>2. \A x \in k..Len(str) : P(x) => x = e
    <3> SUFFICES ASSUME NEW x \in k..Len(str), P(x) PROVE x = e
      OBVIOUS
    <3>1. WordEnd(str, k, x)
      BY DEF WordEnd
    <3> QED BY <1>3, <3>1
  <2>3. (CHOOSE x \in k..Len(str) : P(x)) = e
    <3> HIDE DEF P
    <3> QED BY <2>1, <2>2
  <2> QED BY <2>3 DEF WordFrom
<1>5. SubSeq(str, k, e) \in Strings /\ Len(SubSeq(str, k, e)) = e - k + 1
  <2>1. k <= e /\ e \in 1..Len(str)
    BY <1>1, <1>2 DEF WordEnd
  <2> QED BY <1>1, <2>1, SubSeqProperties DEF Strings
<1>6. SubSeq(str, k, e) # <<>>
  <2>1. e - k + 1 # 0
    BY <1>1, <1>2 DEF WordEnd
  <2> QED BY <1>5, <2>1 DEF Strings
<1> QED BY <1>2, <1>4, <1>5, <1>6
-----------------------------------------------------------------------------
(* The n-th word of a line. *)
StartsUpto(str, k) == {i \in WordStarts(str) : i <= k}
Count(str, k) == Cardinality(StartsUpto(str, k))

(* There are as many words as starts, up to any place. *)
LEMMA StartsFinite ==
  ASSUME NEW str \in Strings
  PROVE  /\ WordStarts(str) \subseteq 1..Len(str)
         /\ IsFiniteSet(WordStarts(str))
         /\ Cardinality(WordStarts(str)) \in Nat
         /\ \A k \in Int : IsFiniteSet(StartsUpto(str, k)) /\ Count(str, k) \in Nat
<1>1. Len(str) \in Nat /\ WordStarts(str) \subseteq 1..Len(str)
  BY DEF WordStarts, Strings
<1>2. IsFiniteSet(1..Len(str))
  BY <1>1, FS_Interval
<1>3. IsFiniteSet(WordStarts(str))
  BY <1>1, <1>2, FS_Subset
<1>4. \A k \in Int : StartsUpto(str, k) \in SUBSET WordStarts(str)
  BY DEF StartsUpto
<1>5. \A k \in Int : IsFiniteSet(StartsUpto(str, k))
  BY <1>3, <1>4, FS_Subset
<1> QED BY <1>1, <1>3, <1>5, FS_CardinalityType DEF Count

(* The count of the starts up to a place goes up by one at every start. *)
LEMMA CountSteps ==
  ASSUME NEW str \in Strings
  PROVE  /\ Count(str, 0) = 0
         /\ Count(str, Len(str)) = Cardinality(WordStarts(str))
         /\ Count(str, Len(str) + 1) = Cardinality(WordStarts(str))
         /\ \A k \in Nat, j \in Nat :
              j = k + 1 => Count(str, j) = IF j \in WordStarts(str)
                                           THEN Count(str, k) + 1 ELSE Count(str, k)
         /\ \A k \in Nat, n \in Nat : k <= n => Count(str, k) <= Count(str, n)
<1>1. Len(str) \in Nat /\ WordStarts(str) \subseteq 1..Len(str)
  BY StartsFinite DEF Strings
<1>2. StartsUpto(str, 0) = {} /\ StartsUpto(str, Len(str)) = WordStarts(str)
      /\ StartsUpto(str, Len(str) + 1) = WordStarts(str)
  BY <1>1 DEF StartsUpto
<1>3. ASSUME NEW k \in Nat
      PROVE  Count(str, k + 1) = IF k + 1 \in WordStarts(str)
                                 THEN Count(str, k) + 1 ELSE Count(str, k)
  <2>1. CASE k + 1 \in WordStarts(str)
    <3>1. StartsUpto(str, k + 1) = StartsUpto(str, k) \cup {k + 1}
      BY <1>1, <2>1 DEF StartsUpto
    <3>2. k + 1 \notin StartsUpto(str, k)
      BY DEF StartsUpto
    <3> QED BY <2>1, <3>1, <3>2, StartsFinite, FS_AddElement DEF Count
  <2>2. CASE k + 1 \notin WordStarts(str)
    <3>1. StartsUpto(str, k + 1) = StartsUpto(str, k)
      BY <1>1, <2>2 DEF StartsUpto
    <3> QED BY <2>2, <3>1 DEF Count
  <2> QED BY <2>1, <2>2
<1>4. ASSUME NEW k \in Nat, NEW n \in Nat, k <= n PROVE Count(str, k) <= Count(str, n)
  <2>1. StartsUpto(str, k) \in SUBSET StartsUpto(str, n)
    BY <1>1, <1>4 DEF StartsUpto
  <2> QED BY <2>1, StartsFinite, FS_Subset DEF Count
<1> QED BY <1>2, <1>3, <1>4, FS_EmptySet DEF Count

LEMMA CountNext ==
  ASSUME NEW str \in Strings, NEW k \in Nat, NEW j \in Nat, j = k + 1
  PROVE  /\ Count(str, k) \in Nat
         /\ Count(str, j) = IF j \in WordStarts(str) THEN Count(str, k) + 1 ELSE Count(str, k)
<1>1. Count(str, k) \in Nat
  BY StartsFinite
<1>2. Count(str, j) = IF j \in WordStarts(str) THEN Count(str, k) + 1 ELSE Count(str, k)
  BY CountSteps
<1> QED BY <1>1, <1>2

(* It numbers the starts. *)
LEMMA CountIsPlace ==
  ASSUME NEW str \in Strings, NEW k \in WordStarts(str)
  PROVE  /\ Count(str, k) \in 1..Cardinality(WordStarts(str))
         /\ \A i \in WordStarts(str) : Count(str, i) = Count(str, k) => i = k
<1>1. Len(str) \in Nat /\ WordStarts(str) \subseteq 1..Len(str) /\ k \in 1..Len(str)
  BY StartsFinite, SMTT(30) DEF Strings
<1>2. Count(str, k) \in 1..Cardinality(WordStarts(str))
  <2>1. PICK n \in Nat : k = n + 1
    BY <1>1
  <2>2. k \in Nat /\ k <= Len(str)
    BY <1>1
  <2>3. Count(str, k) = Count(str, n) + 1
    BY <2>1, <2>2, CountNext
  <2>4. Count(str, k) <= Count(str, Len(str))
    BY <1>1, <2>2, CountSteps
  <2>5. Count(str, n) \in Nat /\ Count(str, k) \in Nat /\ Cardinality(WordStarts(str)) \in Nat
    BY <2>2, StartsFinite, SMTT(30)
  <2>6. Count(str, Len(str)) = Cardinality(WordStarts(str))
    BY CountSteps, Zenon
  <2> QED BY <2>3, <2>4, <2>5, <2>6
<1>3. ASSUME NEW i \in WordStarts(str), NEW j \in WordStarts(str), i < j
      PROVE  Count(str, i) # Count(str, j)
  <2>1. StartsUpto(str, i) \in SUBSET StartsUpto(str, j)
    BY <1>1, <1>3 DEF StartsUpto
  <2>2. j \in StartsUpto(str, j) /\ j \notin StartsUpto(str, i)
    BY <1>1, <1>3 DEF StartsUpto
  <2>3. IsFiniteSet(StartsUpto(str, j))
    BY <1>1, StartsFinite
  <2> QED BY <2>1, <2>2, <2>3, FS_Subset DEF Count
<1>4. ASSUME NEW i \in WordStarts(str), Count(str, i) = Count(str, k) PROVE i = k
  <2>1. ~(i < k) /\ ~(k < i)
    BY <1>3, <1>4
  <2> QED BY <1>1, <2>1
<1> QED BY <1>2, <1>4

(* So that the n-th word is the one at the n-th start. *)
LEMMA NthWord ==
  ASSUME NEW str \in Strings, NEW k \in WordStarts(str)
  PROVE  Words(str)[Count(str, k)] = StringAt(str, k)
<1>1. Count(str, k) \in 1..Cardinality(WordStarts(str))
  BY CountIsPlace
<1>2. (CHOOSE i \in WordStarts(str) : Count(str, i) = Count(str, k)) = k
  BY CountIsPlace
<1>3. Words(str)[Count(str, k)]
        = WordFrom(str, CHOOSE i \in WordStarts(str) : Count(str, i) = Count(str, k))
  BY <1>1 DEF Words, Count, StartsUpto
<1> QED BY <1>2, <1>3, StringIsWord

(* The words of a line are strings of at least a character. *)
LEMMA WordsType ==
  ASSUME NEW str \in Strings
  PROVE  /\ Words(str) \in Seq(Strings)
         /\ Len(Words(str)) = Cardinality(WordStarts(str))
         /\ \A n \in 1..Len(Words(str)) : Words(str)[n] \in Strings /\ Words(str)[n] # <<>>
<1> DEFINE N == Cardinality(WordStarts(str))
<1>1. Len(str) \in Nat /\ N \in Nat
  BY StartsFinite DEF Strings
<1>2. ASSUME NEW n \in 1..N PROVE \E k \in WordStarts(str) : Count(str, k) = n
  <2> DEFINE T == {k \in Nat : Count(str, k) >= n}
  <2>1. Len(str) \in T
    BY <1>1, CountSteps
  <2>2. PICK k \in T : \A j \in T : k <= j
    <3> HIDE DEF T
    <3>1. T \subseteq Nat
      BY DEF T
    <3> QED BY <2>1, <3>1, LeastOf
  <2>3. k \in Nat /\ Count(str, k) >= n /\ k # 0
    BY CountSteps
  <2>4. PICK j \in Nat : k = j + 1
    BY <2>3
  <2>5. Count(str, j) \in Nat /\ ~(Count(str, j) >= n)
    BY <2>2, <2>4, StartsFinite
  <2>6. Count(str, k) = IF k \in WordStarts(str) THEN Count(str, j) + 1 ELSE Count(str, j)
    BY <2>4, CountSteps
  <2>7. k \in WordStarts(str) /\ Count(str, k) = n
    BY <2>3, <2>5, <2>6
  <2> QED BY <2>7
<1>3. ASSUME NEW n \in 1..N PROVE Words(str)[n] \in Strings /\ Words(str)[n] # <<>>
  <2>1. PICK k \in WordStarts(str) : Count(str, k) = n
    BY <1>2
  <2> QED BY <2>1, NthWord, StringIsWord
<1>4. DOMAIN Words(str) = 1..N /\ Words(str) = [n \in 1..N |-> Words(str)[n]]
  BY DEF Words
<1>5. Words(str) \in [1..N -> Strings]
  BY <1>3, <1>4
<1>6. Words(str) \in Seq(Strings) /\ Len(Words(str)) = N
  BY <1>1, <1>5
<1> QED BY <1>3, <1>6
-----------------------------------------------------------------------------
(* What getCommandArgs has found in the first i characters: the words that *)
(* start there or right behind them.                                       *)
FirstWords(str, n) == SubSeq(Words(str), 1, n)

Found(str, i) ==
  IF Count(str, i + 1) > MAX_ARGUMENTS
  THEN [argc |-> -1, argv |-> FirstWords(str, MAX_ARGUMENTS)]
  ELSE [argc |-> Count(str, i + 1), argv |-> FirstWords(str, Count(str, i + 1))]

NextFound(str, i, prev) ==
  IF prev.argc = -1 \/ str[i] # Space \/ CharAt(str, i + 1) \in {0, Space} THEN prev
  ELSE IF prev.argc >= MAX_ARGUMENTS THEN [prev EXCEPT !.argc = -1]
  ELSE [argc |-> prev.argc + 1, argv |-> Append(prev.argv, StringAt(str, i + 1))]

FirstFound(str) ==
  IF CharAt(str, 1) \in {0, Space} THEN [argc |-> 0, argv |-> <<>>]
  ELSE [argc |-> 1, argv |-> <<StringAt(str, 1)>>]

(* The first n words and the next are the first n + 1. *)
LEMMA FirstWordsGrow ==
  ASSUME NEW str \in Strings, NEW n \in Nat, NEW m \in Nat, m = n + 1,
         m <= Cardinality(WordStarts(str))
  PROVE  /\ FirstWords(str, 0) = <<>>
         /\ Append(FirstWords(str, n), Words(str)[m]) = FirstWords(str, m)
<1> DEFINE W == Words(str)
<1>1. W \in Seq(Strings) /\ Len(W) = Cardinality(WordStarts(str)) /\ Len(W) \in Nat
  BY WordsType, StartsFinite
<1> HIDE DEF W
<1>2. m <= Len(W) /\ n <= Len(W) /\ m >= 1
  BY <1>1
<1>3. /\ SubSeq(W, 1, n) \in Seq(Strings) /\ Len(SubSeq(W, 1, n)) = n
      /\ \A i \in 1..n : SubSeq(W, 1, n)[i] = W[i]
  BY <1>1, <1>2, SubSeqProperties
<1>4. /\ SubSeq(W, 1, m) \in Seq(Strings) /\ Len(SubSeq(W, 1, m)) = m
      /\ \A i \in 1..m : SubSeq(W, 1, m)[i] = W[i]
  BY <1>1, <1>2, SubSeqProperties
<1>5. W[m] \in Strings
  BY <1>1, <1>2
<1>6. /\ Append(SubSeq(W, 1, n), W[m]) \in Seq(Strings)
      /\ Len(Append(SubSeq(W, 1, n), W[m])) = m
      /\ \A i \in 1..n : Append(SubSeq(W, 1, n), W[m])[i] = SubSeq(W, 1, n)[i]
      /\ Append(SubSeq(W, 1, n), W[m])[m] = W[m]
  BY <1>2, <1>3, <1>5, AppendProperties
<1>7. \A i \in 1..m : Append(SubSeq(W, 1, n), W[m])[i] = SubSeq(W, 1, m)[i]
  <2>1. \A i \in 1..m : i \in 1..n \/ i = m
    BY <1>2
  <2> QED BY <1>2, <1>3, <1>4, <1>6, <2>1
<1>8. Append(SubSeq(W, 1, n), W[m]) = SubSeq(W, 1, m)
  BY <1>4, <1>6, <1>7, SeqEqual
<1>9. SubSeq(W, 1, 0) = <<>>
  BY <1>1, SubSeqProperties
<1> QED BY <1>2, <1>8, <1>9 DEF FirstWords, W

(* getCommandArgs starts with what it has found in no characters ... *)
LEMMA FoundStart ==
  ASSUME NEW str \in Strings
  PROVE  FirstFound(str) = Found(str, 0)
<1>1. MAX_ARGUMENTS \in Nat /\ MAX_ARGUMENTS >= 1
  BY ShellAssumption
<1>2. Len(str) \in Nat /\ CharAt(str, 1) \in 0..127 /\ (CharAt(str, 1) = 0 <=> 1 > Len(str))
  BY CharAtZero DEF Strings
<1>3. 1 \in WordStarts(str) <=> CharAt(str, 1) \notin {0, Space}
  BY <1>2 DEF WordStarts, CharAt
<1>4. Count(str, 0) = 0
      /\ Count(str, 1) = IF 1 \in WordStarts(str) THEN Count(str, 0) + 1 ELSE Count(str, 0)
  BY CountSteps
<1>5. CASE 1 \in WordStarts(str)
  <2>1. Count(str, 1) = 1
    BY <1>4, <1>5
  <2>2. 1 <= Cardinality(WordStarts(str))
    BY <1>5, <2>1, CountIsPlace, StartsFinite
  <2>3. Words(str)[1] = StringAt(str, 1)
    BY <1>5, <2>1, NthWord
  <2>4. FirstWords(str, 1) = <<StringAt(str, 1)>>
    <3>1. FirstWords(str, 0) = <<>> /\
            Append(FirstWords(str, 0), Words(str)[1]) = FirstWords(str, 1)
      BY <2>2, FirstWordsGrow
    <3>2. \A x \in Strings : Append(<<>>, x) = <<x>>
      OBVIOUS
    <3>3. StringAt(str, 1) \in Strings
      BY <1>5, StringIsWord
    <3> QED BY <2>3, <3>1, <3>2, <3>3, Zenon
  <2> QED BY <1>1, <1>3, <1>5, <2>1, <2>4 DEF Found, FirstFound
<1>6. CASE 1 \notin WordStarts(str)
  <2>1. Count(str, 1) = 0
    BY <1>4, <1>6
  <2>2. FirstWords(str, 0) = <<>>
    <3>1. Words(str) \in Seq(Strings)
      BY WordsType
    <3> QED BY <3>1, SubSeqProperties DEF FirstWords
  <2> QED BY <1>1, <1>3, <1>6, <2>1, <2>2 DEF Found, FirstFound
<1> QED BY <1>5, <1>6

(* ... and a step of its loop finds what there is up to the next. *)
LEMMA FoundStep ==
  ASSUME NEW str \in Strings, NEW i \in 1..Len(str)
  PROVE  NextFound(str, i, Found(str, i - 1)) = Found(str, i)
<1> DEFINE c == Count(str, i)
<1>1. MAX_ARGUMENTS \in Nat /\ MAX_ARGUMENTS >= 1
  BY ShellAssumption
<1>2. PICK k \in Nat \ {0} : k = i + 1 /\ k # 1 /\ k - 1 = i /\ i \in Nat /\ (i - 1) + 1 = i
  BY DEF Strings
<1>3. Len(str) \in Nat /\ CharAt(str, k) \in 0..127 /\ (CharAt(str, k) = 0 <=> k > Len(str))
      /\ (k <= Len(str) => CharAt(str, k) = str[k])
  BY CharAtZero DEF Strings
<1>4. k \in WordStarts(str) <=> str[i] = Space /\ CharAt(str, k) \notin {0, Space}
  BY <1>2, <1>3 DEF WordStarts
<1>5. c \in Nat /\ Count(str, k) = IF k \in WordStarts(str) THEN c + 1 ELSE c
  BY <1>2, CountNext
<1>6. Found(str, i - 1) = IF c > MAX_ARGUMENTS
                          THEN [argc |-> -1, argv |-> FirstWords(str, MAX_ARGUMENTS)]
                          ELSE [argc |-> c, argv |-> FirstWords(str, c)]
  BY <1>2 DEF Found
<1>7. Found(str, i) = IF Count(str, k) > MAX_ARGUMENTS
                      THEN [argc |-> -1, argv |-> FirstWords(str, MAX_ARGUMENTS)]
                      ELSE [argc |-> Count(str, k), argv |-> FirstWords(str, Count(str, k))]
  BY <1>2 DEF Found
<1> HIDE DEF c
<1>8. CASE c > MAX_ARGUMENTS
  <2>1. Found(str, i - 1) = [argc |-> -1, argv |-> FirstWords(str, MAX_ARGUMENTS)]
    BY <1>6, <1>8
  <2>2. Found(str, i) = [argc |-> -1, argv |-> FirstWords(str, MAX_ARGUMENTS)]
    BY <1>1, <1>5, <1>7, <1>8
  <2> QED BY <2>1, <2>2 DEF NextFound
<1>9. CASE ~(c > MAX_ARGUMENTS) /\ k \notin WordStarts(str)
  <2>1. Found(str, i) = Found(str, i - 1)
    BY <1>5, <1>6, <1>7, <1>9
  <2> QED BY <1>2, <1>4, <1>9, <2>1 DEF NextFound
<1>10. CASE ~(c > MAX_ARGUMENTS) /\ k \in WordStarts(str)
  <2>1. Found(str, i - 1) = [argc |-> c, argv |-> FirstWords(str, c)] /\ c # -1
    BY <1>5, <1>6, <1>10
  <2>2. Count(str, k) = c + 1 /\ c + 1 <= Cardinality(WordStarts(str))
    BY <1>5, <1>10, CountIsPlace, StartsFinite
  <2>3. NextFound(str, i, Found(str, i - 1))
          = IF c >= MAX_ARGUMENTS THEN [argc |-> -1, argv |-> FirstWords(str, c)]
            ELSE [argc |-> c + 1, argv |-> Append(FirstWords(str, c), StringAt(str, k))]
    BY <1>2, <1>4, <1>10, <2>1 DEF NextFound
  <2>4. CASE c >= MAX_ARGUMENTS
    <3>1. c = MAX_ARGUMENTS
      BY <1>1, <1>5, <1>10, <2>4
    <3> QED BY <1>1, <1>5, <1>7, <2>2, <2>3, <2>4, <3>1
  <2>5. CASE ~(c >= MAX_ARGUMENTS)
    <3>1. StringAt(str, k) = Words(str)[c + 1]
      BY <1>10, <2>2, NthWord
    <3>2. Append(FirstWords(str, c), Words(str)[c + 1]) = FirstWords(str, c + 1)
      BY <1>5, <2>2, FirstWordsGrow
    <3>3. ~(c + 1 > MAX_ARGUMENTS)
      BY <1>1, <1>5, <2>5
    <3> QED BY <1>7, <2>2, <2>3, <2>5, <3>1, <3>2, <3>3
  <2> QED BY <2>4, <2>5
<1> QED BY <1>8, <1>9, <1>10

ScanEquation(f, str) ==
  f = [i \in 0..Len(str) |-> IF i = 0 THEN FirstFound(str) ELSE NextFound(str, i, f[i - 1])]

(* So its loop finds the words up to every character. *)
LEMMA ScanIsFound ==
  ASSUME NEW str \in Strings
  PROVE  /\ ScanEquation([i \in 0..Len(str) |-> Found(str, i)], str)
         /\ \A f : ScanEquation(f, str) => \A i \in 0..Len(str) : f[i] = Found(str, i)
<1>0. Len(str) \in Nat
  BY DEF Strings
<1>1. ScanEquation([i \in 0..Len(str) |-> Found(str, i)], str)
  <2> DEFINE F == [i \in 0..Len(str) |-> Found(str, i)]
  <2>1. ASSUME NEW i \in 0..Len(str)
        PROVE  Found(str, i) = IF i = 0 THEN FirstFound(str) ELSE NextFound(str, i, F[i - 1])
    <3>1. CASE i = 0
      BY <3>1, FoundStart
    <3>2. CASE i # 0
      <4>1. i - 1 \in 0..Len(str) /\ i \in 1..Len(str)
        BY <1>0, <3>2
      <4>2. F[i - 1] = Found(str, i - 1)
        BY <4>1
      <4> QED BY <3>2, <4>1, <4>2, FoundStep
    <3> QED BY <3>1, <3>2
  <2> QED BY <2>1 DEF ScanEquation
<1>2. ASSUME NEW f, ScanEquation(f, str) PROVE \A i \in 0..Len(str) : f[i] = Found(str, i)
  <2> DEFINE Bad == {i \in 0..Len(str) : f[i] # Found(str, i)}
  <2>1. SUFFICES ASSUME Bad # {} PROVE FALSE
    OBVIOUS
  <2>2. Bad \subseteq Nat
    BY <1>0
  <2>3. PICK i \in Bad : \A j \in Bad : i <= j
    <3> HIDE DEF Bad
    <3> QED BY <2>1, <2>2, LeastOf
  <2>4. i \in 0..Len(str) /\ f[i] # Found(str, i)
    OBVIOUS
  <2>5. f[i] = IF i = 0 THEN FirstFound(str) ELSE NextFound(str, i, f[i - 1])
    BY <1>2, <2>4 DEF ScanEquation
  <2>6. i # 0
    BY <2>4, <2>5, FoundStart
  <2>7. PICK j \in 0..Len(str) : j = i - 1 /\ i \in 1..Len(str) /\ ~(i <= j)
    BY <1>0, <2>4, <2>6
  <2>8. f[j] = Found(str, j)
    BY <2>3, <2>7
  <2>9. f[i] = Found(str, i)
    BY <2>5, <2>6, <2>7, <2>8, FoundStep
  <2> QED BY <2>4, <2>9
<1> QED BY <1>1, <1>2

(* getCommandArgs finds the words of a line. *)
LEMMA ArgsFound ==
  ASSUME NEW str \in Strings
  PROVE  getCommandArgs(str) =
           IF Len(Words(str)) > MAX_ARGUMENTS
           THEN [argc |-> -1, argv |-> SubSeq(Words(str), 1, MAX_ARGUMENTS)]
           ELSE [argc |-> Len(Words(str)), argv |-> Words(str)]
<1> DEFINE f == CHOOSE found : ScanEquation(found, str)
<1>1. getCommandArgs(str) = f[Len(str)]
  BY DEF getCommandArgs, ScanEquation, FirstFound, NextFound
<1>2. ScanEquation(f, str)
  BY ScanIsFound
<1>3. Len(str) \in Nat /\ Len(str) \in 0..Len(str)
  BY DEF Strings
<1> HIDE DEF f
<1>4. f[Len(str)] = Found(str, Len(str))
  BY <1>2, <1>3, ScanIsFound
<1>5. Count(str, Len(str) + 1) = Len(Words(str))
  BY CountSteps, WordsType
<1>6. SubSeq(Words(str), 1, Len(Words(str))) = Words(str)
  <2> DEFINE W == Words(str)
  <2>1. W \in Seq(Strings) /\ Len(W) \in Nat
    BY WordsType, StartsFinite
  <2> HIDE DEF W
  <2>2. SubSeq(W, 1, Len(W)) = W
    BY <2>1
  <2> QED BY <2>2 DEF W
<1> QED BY <1>1, <1>4, <1>5, <1>6 DEF Found, FirstWords
-----------------------------------------------------------------------------
(* What a line starts. *)
LEMMA SeqOfSet ==
  ASSUME NEW S, IsFiniteSet(S)
  PROVE  /\ SetToSeq(S) \in Seq(S)
         /\ Len(SetToSeq(S)) = Cardinality(S)
         /\ DOMAIN SetToSeq(S) = 1..Cardinality(S)
         /\ \A j \in DOMAIN SetToSeq(S) : SetToSeq(S)[j] \in S
<1> DEFINE n == Cardinality(S)
           P(f) == f \in [1..n -> S] /\ IsInjective(f)
<1>1. n \in Nat /\ ExistsBijection(1..n, S)
  BY FS_CardinalityType
<1>2. \E f : P(f)
  BY <1>1 DEF ExistsBijection, Bijection, Injection
<1>3. SetToSeq(S) \in [1..n -> S]
  <2>1. SetToSeq(S) = CHOOSE f \in [1..n -> S] : IsInjective(f)
    BY DEF SetToSeq
  <2> QED BY <1>2, <2>1
<1> HIDE DEF n
<1>4. PICK f \in [1..n -> S] : f = SetToSeq(S)
  BY <1>3
<1>5. f \in Seq(S) /\ Len(f) = n /\ DOMAIN f = 1..n /\ \A j \in DOMAIN f : f[j] \in S
  BY <1>1
<1> QED BY <1>4, <1>5 DEF n

(* The command names differ, and none starts with an ampersand. *)
LEMMA OneName ==
  ASSUME NEW W \in Seq(Strings), W # <<>>
  PROVE  \/ getCommandIdx(W) = {}
         \/ \E cmd \in DOMAIN CommandNames :
              /\ getCommandIdx(W) = {cmd}
              /\ CommandNames[cmd] = W[1]
              /\ W[1][1] # Ampersand
<1>1. W[1] \in Strings
  BY EmptySeq, LenProperties, ElementOfSeq
<1>2. getCommandIdx(W) = {cmd \in DOMAIN CommandNames : CommandNames[cmd] = W[1]}
  <2>1. \A cmd \in DOMAIN CommandNames : CommandNames[cmd] \in Strings
    BY ShellAssumption DEF Strings, Chars
  <2>2. \A cmd \in DOMAIN CommandNames :
          strcmp(CommandNames[cmd], W[1]) = 0 <=> CommandNames[cmd] = W[1]
    BY <1>1, <2>1, StrcmpEqual
  <2> QED BY <2>2 DEF getCommandIdx
<1>3. ASSUME NEW cmd \in DOMAIN CommandNames, CommandNames[cmd] = W[1]
      PROVE  getCommandIdx(W) = {cmd} /\ W[1][1] # Ampersand
  <2>1. \A other \in DOMAIN CommandNames \ {cmd} : CommandNames[other] # CommandNames[cmd]
    BY ShellAssumption
  <2>2. CommandNames[cmd][1] # Ampersand
    BY ShellAssumption
  <2> QED BY <1>2, <1>3, <2>1, <2>2
<1> QED BY <1>2, <1>3

(* The complaint, and the refusal of the kernel, fit n commands started of *)
(* those expected.                                                         *)
Told(complaint, refuses, n, expected) ==
  /\ refuses => n < Cardinality(expected)
  /\ complaint = "" <=> \/ expected # {} /\ n = Cardinality(expected)
                        \/ refuses /\ Cardinality(expected) = 1

(* The commands js, the complaint and the refusal are those of the words. *)
Right(js, complaint, refuses, words) ==
  LET expected == Expected(words)
  IN /\ \A j \in DOMAIN js :
          /\ <<js[j].argv, js[j].foreground, js[j].reads, js[j].writes>> \in expected
          /\ js[j].argc = Len(js[j].argv)
          /\ js[j].argv[1] = CommandNames[js[j].cmd]
     /\ Told(complaint, refuses, Len(js), expected)

(* One of the expected commands, under its own name. *)
Proper(job, words) ==
  /\ <<job.argv, job.foreground, job.reads, job.writes>> \in Expected(words)
  /\ job.argc = Len(job.argv)
  /\ job.argv[1] = CommandNames[job.cmd]

LEMMA RightSet ==
  ASSUME NEW S, IsFiniteSet(S), NEW words, NEW complaint, NEW refuses,
         \A job \in S : Proper(job, words),
         Told(complaint, refuses, Cardinality(S), Expected(words))
  PROVE  Right(SetToSeq(S), complaint, refuses, words)
<1> DEFINE js == SetToSeq(S)
<1>1. /\ Len(js) = Cardinality(S)
      /\ \A j \in DOMAIN js : js[j] \in S
  BY SeqOfSet
<1> HIDE DEF js
<1>2. \A j \in DOMAIN js : Proper(js[j], words)
  BY <1>1
<1>3. Told(complaint, refuses, Len(js), Expected(words))
  BY <1>1, Zenon
<1>4. Right(js, complaint, refuses, words)
  BY <1>2, <1>3 DEF Right, Proper
<1> QED BY <1>4 DEF js

(* Of no command. *)
LEMMA NothingRight ==
  ASSUME NEW W, NEW complaint, NEW refuses, Told(complaint, refuses, 0, Expected(W))
  PROVE  Right(SetToSeq({}), complaint, refuses, W)
<1>1. IsFiniteSet({}) /\ Cardinality({}) = 0
  BY FS_EmptySet
<1>2. \A job \in {} : Proper(job, W)
  OBVIOUS
<1>3. Told(complaint, refuses, Cardinality({}), Expected(W))
  BY <1>1, Zenon
<1> QED BY <1>1, <1>2, <1>3, RightSet

Lines == {W \in Seq(Strings) : W # <<>> /\ \A i \in 1..Len(W) : W[i] # <<>>}
Bars(W) == {i \in DOMAIN W : W[i] = <<Bar>>}

(* A line without a pipe starts its command, in the background with an     *)
(* ampersand.                                                              *)
LEMMA LineRight ==
  ASSUME NEW W \in Lines, Bars(W) = {}, NEW n, NEW foreground,
         IF W[Len(W)][1] = Ampersand THEN n = Len(W) - 1 /\ foreground = BACKGROUND
         ELSE n = Len(W) /\ foreground = FOREGROUND
  PROVE  IF getCommandIdx(W) = {} THEN Right(SetToSeq({}), "invalid", FALSE, W)
         ELSE /\ Right(SetToSeq(Starts(getCommandIdx(W), n, SubSeq(W, 1, n), foreground, "keyboard",
                         "screen")), "", FALSE, W)
              /\ Right(SetToSeq({}), "", TRUE, W)
<1> DEFINE words == SubSeq(W, 1, n)
           S == Starts(getCommandIdx(W), n, words, foreground, "keyboard", "screen")
<1>1. W \in Seq(Strings) /\ W # <<>> /\ Len(W) \in Nat /\ Len(W) >= 1
  BY EmptySeq, LenProperties DEF Lines
<1>2. Expected(W) = {<<words, foreground, "keyboard", "screen">>}
  <2>1. CASE W[Len(W)][1] = Ampersand
    BY <2>1 DEF Expected, Bars, Front, BACKGROUND
  <2>2. CASE W[Len(W)][1] # Ampersand
    <3>1. words = W
      BY <1>1, <2>2
    <3> QED BY <2>2, <3>1 DEF Expected, Bars, FOREGROUND
  <2> QED BY <2>1, <2>2
<1>3. Expected(W) # {} /\ Cardinality(Expected(W)) = 1
  BY <1>2, FS_Singleton
<1>4. CASE getCommandIdx(W) = {}
  <2>1. Told("invalid", FALSE, 0, Expected(W))
    BY <1>3 DEF Told
  <2> QED BY <1>4, <2>1, NothingRight
<1>5. ASSUME NEW cmd \in DOMAIN CommandNames, getCommandIdx(W) = {cmd},
             CommandNames[cmd] = W[1], W[1][1] # Ampersand
      PROVE  Right(SetToSeq(S), "", FALSE, W) /\ Right(SetToSeq({}), "", TRUE, W)
  <2> DEFINE job == Job(cmd, n, words, foreground, "keyboard", "screen")
  <2>1. S = {job}
    BY <1>5 DEF Starts
  <2>2. n \in Nat /\ 1 <= n /\ n <= Len(W)
    BY <1>1, <1>5
  <2>3. Len(words) = n /\ words[1] = W[1]
    BY <1>1, <2>2, SubSeqProperties
  <2>4. Proper(job, W)
    <3> HIDE DEF words
    <3> QED BY <1>2, <1>5, <2>3 DEF Proper, Job
  <2>5. IsFiniteSet(S) /\ Cardinality(S) = 1
    BY <2>1, FS_Singleton
  <2> HIDE DEF S, job
  <2>6. Told("", FALSE, Cardinality(S), Expected(W)) /\ Told("", TRUE, 0, Expected(W))
    BY <1>3, <2>5 DEF Told
  <2> QED BY <2>1, <2>4, <2>5, <2>6, RightSet, NothingRight
<1> QED BY <1>1, <1>4, <1>5, OneName

(* Where findPipe finds the pipe. *)
LEMMA PipeFound ==
  ASSUME NEW W \in Lines, NEW args, args = [argc |-> Len(W), argv |-> W]
  PROVE  findPipe(args) = IF Bars(W) = {} THEN -1
                          ELSE (CHOOSE i \in Bars(W) : \A j \in Bars(W) : i <= j) - 1
<1> DEFINE S == {i \in 1..args.argc : strcmp(args.argv[i], <<Bar>>) = 0}
<1>1. W \in Seq(Strings) /\ DOMAIN W = 1..Len(W) /\ args.argc = Len(W) /\ args.argv = W
  BY DEF Lines
<1>2. <<Bar>> \in Strings
  BY DEF Strings, Chars, Bar
<1>3. \A i \in 1..Len(W) : strcmp(W[i], <<Bar>>) = 0 <=> W[i] = <<Bar>>
  <2>1. \A i \in 1..Len(W) : W[i] \in Strings
    BY <1>1
  <2> QED BY <1>2, <2>1, StrcmpEqual
<1>4. S = Bars(W)
  BY <1>1, <1>3 DEF Bars
<1>5. findPipe(args) = IF S = {} THEN -1 ELSE (CHOOSE i \in S : \A j \in S : i <= j) - 1
  BY DEF findPipe
<1> HIDE DEF S
<1> QED BY <1>4, <1>5

(* A pipeline starts the reader in the background and then the writer. *)
LEMMA PipelineRight ==
  ASSUME NEW W \in Lines, NEW bar \in Bars(W), \A k \in Bars(W) : bar <= k,
         NEW right, right = SubSeq(W, bar + 1, Len(W)),
         NEW left, left = SubSeq(W, 1, bar - 1),
         NEW readers, readers = Starts(getCommandIdx(right), Len(right), right, BACKGROUND,
           "pipe", "screen"),
         NEW writers, writers = Starts(getCommandIdx(left), Len(left), left, FOREGROUND,
           "keyboard", "pipe")
  PROVE  IF bar \in {1, Len(W)} THEN Right(SetToSeq({}), "misplaced", FALSE, W)
         ELSE /\ Right(SetToSeq({}), "pipe", TRUE, W)
              /\ \A refuses \in BOOLEAN :
                   /\ Right(SetToSeq({}), "invalid", refuses, W)
                   /\ readers # {} => Right(SetToSeq(readers), "invalid", refuses, W)
              /\ readers # {} /\ writers # {} =>
                   Right(SetToSeq(readers \cup writers), "", FALSE, W)
<1>0. W \in Seq(Strings) /\ W # <<>> /\ Len(W) \in Nat /\ Len(W) >= 1
  BY EmptySeq, LenProperties DEF Lines
<1>1. /\ W \in Seq(Strings) /\ W # <<>> /\ Len(W) \in Nat /\ Len(W) >= 1
      /\ bar \in 1..Len(W) /\ Bars(W) # {}
  <2>1. DOMAIN W = 1..Len(W)
    BY <1>0
  <2>2. bar \in DOMAIN W
    BY DEF Bars
  <2> QED BY <1>0, <2>1, <2>2
<1>2. (CHOOSE i \in Bars(W) : \A k \in Bars(W) : i <= k) = bar
  <2>1. \A i \in Bars(W) : (\A k \in Bars(W) : i <= k) => i = bar
    <3> SUFFICES ASSUME NEW i \in Bars(W), \A k \in Bars(W) : i <= k PROVE i = bar
      OBVIOUS
    <3>1. i <= bar /\ bar <= i /\ i \in 1..Len(W)
      BY <1>1 DEF Bars
    <3> QED BY <1>1, <3>1
  <2> QED BY <2>1
<1>3. Expected(W) = IF bar \in {1, Len(W)} THEN {}
                    ELSE {<<right, BACKGROUND, "pipe", "screen">>, <<left, FOREGROUND,
                           "keyboard", "pipe">>}
  BY <1>1, <1>2 DEF Expected, Bars
<1>4. CASE bar \in {1, Len(W)}
  <2>1. Expected(W) = {}
    BY <1>3, <1>4
  <2>2. Told("misplaced", FALSE, 0, {})
    <3>1. Cardinality({}) = 0
      BY FS_EmptySet
    <3> QED BY <3>1 DEF Told
  <2> QED BY <1>4, <2>1, <2>2, NothingRight
<1>5. CASE bar \notin {1, Len(W)}
  <2> DEFINE e1 == <<right, BACKGROUND, "pipe", "screen">>
             e2 == <<left, FOREGROUND, "keyboard", "pipe">>
  <2>1. Expected(W) = {e1, e2} /\ e1 # e2
    BY <1>3, <1>5
  <2>2. Cardinality(Expected(W)) = 2
    <3>1. IsFiniteSet({e1}) /\ Cardinality({e1}) = 1
      BY FS_Singleton
    <3>2. e2 \notin {e1} /\ Expected(W) = {e1} \cup {e2}
      BY <2>1
    <3> HIDE DEF e1, e2
    <3>3. Cardinality({e1} \cup {e2}) = Cardinality({e1}) + 1
      BY <3>1, <3>2, FS_AddElement
    <3>4. 1 + 1 = 2
      OBVIOUS
    <3> QED BY <3>1, <3>2, <3>3, <3>4, Zenon
  <2>3. /\ right \in Seq(Strings) /\ Len(right) = Len(W) - bar /\ Len(right) >= 1
        /\ left \in Seq(Strings) /\ Len(left) = bar - 1 /\ Len(left) >= 1
    BY <1>1, <1>5, SubSeqProperties
  <2>4. right # <<>> /\ left # <<>>
    <3>1. Len(right) # 0 /\ Len(left) # 0
      BY <2>3
    <3>2. Len(<<>>) = 0
      OBVIOUS
    <3> QED BY <3>1, <3>2
  <2>5. \A refuses \in BOOLEAN : Right(SetToSeq({}), "invalid", refuses, W)
    <3> SUFFICES ASSUME NEW refuses \in BOOLEAN PROVE Right(SetToSeq({}), "invalid", refuses, W)
      OBVIOUS
    <3>1. Told("invalid", refuses, 0, Expected(W))
      BY <2>2 DEF Told
    <3> QED BY <3>1, NothingRight
  <2>9. Right(SetToSeq({}), "pipe", TRUE, W)
    <3>1. Told("pipe", TRUE, 0, Expected(W))
      BY <2>2 DEF Told
    <3> QED BY <3>1, NothingRight
  <2>6. ASSUME readers # {}
        PROVE  \E cmd \in DOMAIN CommandNames :
                 LET job == Job(cmd, Len(right), right, BACKGROUND, "pipe", "screen")
                 IN readers = {job} /\ Proper(job, W)
    <3>1. getCommandIdx(right) # {}
      BY <2>6 DEF Starts
    <3>2. PICK cmd \in DOMAIN CommandNames : getCommandIdx(right) = {cmd} /\
            CommandNames[cmd] = right[1]
      BY <2>3, <2>4, <3>1, OneName
    <3> DEFINE job == Job(cmd, Len(right), right, BACKGROUND, "pipe", "screen")
    <3>3. readers = {job}
      BY <3>2 DEF Starts
    <3>4. Proper(job, W)
      BY <2>1, <3>2 DEF Proper, Job
    <3> QED BY <3>3, <3>4
  <2>7. ASSUME writers # {}
        PROVE  \E cmd \in DOMAIN CommandNames :
                 LET job == Job(cmd, Len(left), left, FOREGROUND, "keyboard", "pipe")
                 IN writers = {job} /\ Proper(job, W)
    <3>1. getCommandIdx(left) # {}
      BY <2>7 DEF Starts
    <3>2. PICK cmd \in DOMAIN CommandNames : getCommandIdx(left) = {cmd} /\
            CommandNames[cmd] = left[1]
      BY <2>3, <2>4, <3>1, OneName
    <3> DEFINE job == Job(cmd, Len(left), left, FOREGROUND, "keyboard", "pipe")
    <3>3. writers = {job}
      BY <3>2 DEF Starts
    <3>4. Proper(job, W)
      BY <2>1, <3>2 DEF Proper, Job
    <3> QED BY <3>3, <3>4
  <2>8. ASSUME readers # {}
        PROVE  /\ \A refuses \in BOOLEAN : Right(SetToSeq(readers), "invalid", refuses, W)
               /\ writers # {} => Right(SetToSeq(readers \cup writers), "", FALSE, W)
    <3>1. PICK c1 \in DOMAIN CommandNames :
            LET job == Job(c1, Len(right), right, BACKGROUND, "pipe", "screen")
            IN readers = {job} /\ Proper(job, W)
      BY <2>6, <2>8
    <3> DEFINE j1 == Job(c1, Len(right), right, BACKGROUND, "pipe", "screen")
    <3>2. readers = {j1} /\ Proper(j1, W) /\ j1.reads = "pipe"
      BY <3>1 DEF Job
    <3> HIDE DEF j1
    <3>3. IsFiniteSet(readers) /\ Cardinality(readers) = 1
      BY <3>2, FS_Singleton
    <3>4. ASSUME NEW refuses \in BOOLEAN PROVE Right(SetToSeq(readers), "invalid", refuses, W)
      <4>1. Told("invalid", refuses, 1, Expected(W))
        BY <2>2 DEF Told
      <4>2. Told("invalid", refuses, Cardinality(readers), Expected(W))
        BY <3>3, <4>1, Zenon
      <4>3. \A job \in readers : Proper(job, W)
        BY <3>2
      <4> QED BY <3>3, <4>2, <4>3, RightSet
    <3>5. ASSUME writers # {} PROVE Right(SetToSeq(readers \cup writers), "", FALSE, W)
      <4>1. PICK c2 \in DOMAIN CommandNames :
              LET job == Job(c2, Len(left), left, FOREGROUND, "keyboard", "pipe")
              IN writers = {job} /\ Proper(job, W)
        BY <2>7, <3>5
      <4> DEFINE j2 == Job(c2, Len(left), left, FOREGROUND, "keyboard", "pipe")
      <4>2. writers = {j2} /\ Proper(j2, W) /\ j2.reads = "keyboard"
        BY <4>1 DEF Job
      <4> HIDE DEF j2
      <4>3. j2 \notin readers /\ readers \cup writers = readers \cup {j2}
        BY <3>2, <4>2
      <4>8. /\ IsFiniteSet(readers \cup {j2})
            /\ Cardinality(readers \cup {j2}) = Cardinality(readers) + 1
        BY <3>3, <4>3, FS_AddElement
      <4>9. Cardinality(readers) + 1 = 2
        <5>1. 1 + 1 = 2
          OBVIOUS
        <5> QED BY <3>3, <5>1, Zenon
      <4>4. IsFiniteSet(readers \cup writers) /\ Cardinality(readers \cup writers) = 2
        BY <4>3, <4>8, <4>9, Zenon
      <4>5. \A job \in readers \cup writers : Proper(job, W)
        BY <3>2, <4>2
      <4>6. Told("", FALSE, 2, Expected(W))
        BY <2>1, <2>2 DEF Told
      <4>7. Told("", FALSE, Cardinality(readers \cup writers), Expected(W))
        BY <4>4, <4>6, Zenon
      <4> QED BY <4>4, <4>5, <4>7, RightSet
    <3> QED BY <3>4, <3>5
  <2> QED BY <1>5, <2>5, <2>8, <2>9
<1> QED BY <1>4, <1>5
-----------------------------------------------------------------------------
(* scanf with "%s" stores the line, if there is one. *)
ReadRest(str, j) == SubSeq(str, j, Len(str))

ReadAt(f, fmt, str, i, j) ==
  LET rest == SubSeq(str, j, Len(str))
  IN IF i > Len(fmt) \/ rest = <<>> THEN <<>>
     ELSE IF fmt[i] # Percent THEN f[i + 1][j + 1]
     ELSE CASE fmt[i + 1] = 99 -> <<Head(rest)>> \o f[i + 2][j + 1]
            [] fmt[i + 1] = 100 -> <<strToInt(rest).value>> \o f[i + 2][j + strToInt(rest).size]
            [] fmt[i + 1] = 115 -> <<rest>> \o f[i + 2][j + Len(rest)]
            [] OTHER -> f[i + 2][j]

ReadEquation(f, fmt, str) ==
  f = [i \in 1..(Len(fmt) + 2) |-> [j \in 1..(Len(str) + 1) |-> ReadAt(f, fmt, str, i, j)]]

(* What the format asks for next. *)
LEMMA ReadEnds ==
  ASSUME NEW f, NEW fmt, NEW str, NEW i, NEW j, i > Len(fmt) \/ ReadRest(str, j) = <<>>
  PROVE  ReadAt(f, fmt, str, i, j) = <<>>
BY Zenon DEF ReadAt, ReadRest

(* Where the format is at c, or at a conversion that c names, and there is *)
(* something left to read.                                                 *)
AtChar(fmt, str, i, j) == ~(i > Len(fmt)) /\ ReadRest(str, j) # <<>> /\ fmt[i] # Percent
AtConversion(fmt, str, i, j, c) ==
  ~(i > Len(fmt)) /\ ReadRest(str, j) # <<>> /\ fmt[i] = Percent /\ fmt[i + 1] = c

StoreChar(f, str, i, j) == <<Head(ReadRest(str, j))>> \o f[i + 2][j + 1]
StoreNumber(f, str, i, j) ==
  <<strToInt(ReadRest(str, j)).value>> \o f[i + 2][j + strToInt(ReadRest(str, j)).size]
StoreAll(f, str, i, j) == <<ReadRest(str, j)>> \o f[i + 2][j + Len(ReadRest(str, j))]

(* A step of scanf, by the character of the format. *)
LEMMA ReadAtCases ==
  ASSUME NEW f, NEW fmt, NEW str, NEW i, NEW j
  PROVE  ReadAt(f, fmt, str, i, j) =
           IF i > Len(fmt) \/ ReadRest(str, j) = <<>> THEN <<>>
           ELSE IF fmt[i] # Percent THEN f[i + 1][j + 1]
           ELSE CASE fmt[i + 1] = 99 -> StoreChar(f, str, i, j)
                  [] fmt[i + 1] = 100 -> StoreNumber(f, str, i, j)
                  [] fmt[i + 1] = 115 -> StoreAll(f, str, i, j)
                  [] OTHER -> f[i + 2][j]
BY Zenon DEF ReadAt, ReadRest, StoreChar, StoreNumber, StoreAll

(* Each of the steps on its own. *)
LEMMA ReadSkips ==
  ASSUME NEW f, NEW fmt, NEW str, NEW i, NEW j, AtChar(fmt, str, i, j)
  PROVE  ReadAt(f, fmt, str, i, j) = f[i + 1][j + 1]
BY ReadAtCases DEF AtChar

LEMMA ReadChar ==
  ASSUME NEW f, NEW fmt, NEW str, NEW i, NEW j, AtConversion(fmt, str, i, j, 99)
  PROVE  ReadAt(f, fmt, str, i, j) = StoreChar(f, str, i, j)
BY ReadAtCases DEF AtConversion

LEMMA ReadNumber ==
  ASSUME NEW f, NEW fmt, NEW str, NEW i, NEW j, AtConversion(fmt, str, i, j, 100)
  PROVE  ReadAt(f, fmt, str, i, j) = StoreNumber(f, str, i, j)
BY ReadAtCases DEF AtConversion

LEMMA ReadAll ==
  ASSUME NEW f, NEW fmt, NEW str, NEW i, NEW j, AtConversion(fmt, str, i, j, 115)
  PROVE  ReadAt(f, fmt, str, i, j) = StoreAll(f, str, i, j)
BY ReadAtCases DEF AtConversion

(* The value of scanf's recursion at a place is the step there ... *)
LEMMA ReadValue ==
  ASSUME NEW fmt, NEW str, NEW f, ReadEquation(f, fmt, str),
         NEW N, N = Len(fmt) + 2, NEW J, J = 1..(Len(str) + 1)
  PROVE  \A i \in 1..N, j \in J : f[i][j] = ReadAt(f, fmt, str, i, j)
<1>1. f = [i \in 1..N |-> [j \in J |-> ReadAt(f, fmt, str, i, j)]]
  BY DEF ReadEquation
<1>2. ASSUME NEW i \in 1..N, NEW j \in J PROVE f[i][j] = ReadAt(f, fmt, str, i, j)
  <2>1. f[i] = [k \in J |-> ReadAt(f, fmt, str, i, k)]
    BY <1>1, Zenon
  <2> QED BY <2>1, Zenon
<1> QED BY <1>2

(* ... and a function of that kind is one that scanf can take. *)
LEMMA ReadWitness ==
  ASSUME NEW fmt, NEW str, NEW f, NEW N, N = Len(fmt) + 2, NEW J, J = 1..(Len(str) + 1),
         f = [i \in 1..N |-> [j \in J |-> f[i][j]]],
         \A i \in 1..N, j \in J : f[i][j] = ReadAt(f, fmt, str, i, j)
  PROVE  ReadEquation(f, fmt, str)
<1>1. [i \in 1..N |-> [j \in J |-> f[i][j]]] = [i \in 1..N |-> [j \in J |-> ReadAt(f, fmt, str,
        i, j)]]
  OBVIOUS
<1>2. f = [i \in 1..N |-> [j \in J |-> ReadAt(f, fmt, str, i, j)]]
  BY <1>1, Zenon
<1> QED BY <1>2 DEF ReadEquation

LEMMA ScanfReads ==
  ASSUME NEW fmt, NEW str, \E f : ReadEquation(f, fmt, str)
  PROVE  \E f : ReadEquation(f, fmt, str) /\ scanf(fmt, str) = f[1][1]
<1> DEFINE f == CHOOSE g : ReadEquation(g, fmt, str)
<1>1. ReadEquation(f, fmt, str)
  OBVIOUS
<1>2. scanf(fmt, str) = f[1][1]
  BY DEF scanf, ReadEquation, ReadAt
<1> QED BY <1>1, <1>2

(* The rest of what is read, from a place on. *)
LEMMA RestType ==
  ASSUME NEW str \in Strings, NEW j \in 1..(Len(str) + 1)
  PROVE  /\ ReadRest(str, j) \in Strings
         /\ Len(ReadRest(str, j)) = Len(str) - j + 1
         /\ ReadRest(str, j) = <<>> <=> j = Len(str) + 1
         /\ \A i \in 1..(Len(str) - j + 1) : ReadRest(str, j)[i] = str[j + i - 1]
<1>1. PICK n \in Nat : n = Len(str)
  BY DEF Strings
<1>2. /\ ReadRest(str, j) \in Strings
      /\ Len(ReadRest(str, j)) = n - j + 1
      /\ \A i \in 1..(n - j + 1) : ReadRest(str, j)[i] = str[j + i - 1]
  BY <1>1, SubSeqProperties DEF ReadRest, Strings
<1>3. ReadRest(str, j) = <<>> <=> Len(ReadRest(str, j)) = 0
  BY <1>2, EmptySeq, LenProperties DEF Strings
<1>4. ReadRest(str, j) = <<>> <=> j = n + 1
  BY <1>1, <1>2, <1>3
<1> QED BY <1>1, <1>2, <1>4

LEMMA RestWhole ==
  ASSUME NEW str \in Strings
  PROVE  ReadRest(str, 1) = str
BY DEF ReadRest, Strings

(* "%s" stores everything. *)
LEMMA ReadsString ==
  ASSUME NEW str \in Strings
  PROVE  scanf(<<Percent, 115>>, str) = IF str = <<>> THEN <<>> ELSE <<str>>
<1> DEFINE fmt == <<Percent, 115>>
           J == 1..(Len(str) + 1)
           F == [i \in 1..4 |-> [j \in J |->
                  IF i > 1 \/ ReadRest(str, j) = <<>> THEN <<>> ELSE <<ReadRest(str, j)>>]]
<1>1. Len(fmt) = 2 /\ fmt[1] = Percent /\ fmt[2] = 115 /\ Percent = 37 /\ Len(fmt) + 2 = 4
  BY DEF Percent
<1> HIDE DEF fmt
<1>2. PICK n \in Nat : n = Len(str)
  BY DEF Strings
<1>3. \A i \in 2..4, j \in J : F[i][j] = <<>>
  OBVIOUS
<1>4. ASSUME NEW i \in 1..4, NEW j \in J
      PROVE  F[i][j] = ReadAt(F, fmt, str, i, j)
  <2> DEFINE rest == ReadRest(str, j)
  <2>1. F[i][j] = IF i > 1 \/ rest = <<>> THEN <<>> ELSE <<rest>>
    OBVIOUS
  <2>2. CASE i > 2 \/ rest = <<>>
    <3>1. i > Len(fmt) \/ rest = <<>>
      BY <1>1, <2>2
    <3>2. ReadAt(F, fmt, str, i, j) = <<>>
      BY <3>1, ReadEnds, Zenon
    <3> HIDE DEF F, rest
    <3> QED BY <2>1, <2>2, <3>2
  <2>3. CASE rest # <<>> /\ i = 2
    <3>1. j + 1 \in J
      BY <1>2, <2>3, RestType
    <3>2. F[3][j + 1] = <<>> /\ i + 1 = 3
      BY <1>3, <2>3, <3>1
    <3>3. AtChar(fmt, str, i, j)
      BY <1>1, <2>3 DEF AtChar
    <3> HIDE DEF F
    <3>4. ReadAt(F, fmt, str, i, j) = F[i + 1][j + 1]
      BY <3>3, ReadSkips
    <3> QED BY <2>1, <2>3, <3>2, <3>4
  <2>4. CASE rest # <<>> /\ i = 1
    <3>1. j + Len(rest) \in J
      <4>1. Len(rest) = n - j + 1
        BY <1>2, RestType
      <4> QED BY <1>2, <4>1
    <3>2. F[3][j + Len(rest)] = <<>> /\ i + 2 = 3
      BY <1>3, <2>4, <3>1
    <3>3. <<rest>> \o <<>> = <<rest>>
      <4>1. rest \in Strings
        BY RestType
      <4> QED BY <4>1
    <3>4. AtConversion(fmt, str, i, j, 115)
      BY <1>1, <2>4 DEF AtConversion
    <3> HIDE DEF F
    <3>5. ReadAt(F, fmt, str, i, j) = <<rest>> \o F[i + 2][j + Len(rest)]
      <4>1. ReadAt(F, fmt, str, i, j) = StoreAll(F, str, i, j)
        BY <3>4, ReadAll
      <4> QED BY <4>1, Zenon DEF StoreAll
    <3> HIDE DEF rest
    <3> QED BY <2>1, <2>4, <3>2, <3>3, <3>5
  <2> QED BY <2>2, <2>3, <2>4
<1>5. ReadEquation(F, fmt, str)
  <2>1. F = [i \in 1..4 |-> [j \in J |-> F[i][j]]]
    OBVIOUS
  <2>2. 4 = Len(fmt) + 2
    BY <1>1
  <2> HIDE DEF F
  <2> QED BY <1>4, <2>1, <2>2, ReadWitness
<1>6. PICK f : ReadEquation(f, fmt, str) /\ scanf(fmt, str) = f[1][1]
  <2> HIDE DEF F
  <2> QED BY <1>5, ScanfReads
<1>7. 1 \in J /\ ReadRest(str, 1) = str /\
        \A i \in 1..4, j \in J : f[i][j] = ReadAt(f, fmt, str, i, j)
  <2>1. 4 = Len(fmt) + 2
    BY <1>1
  <2> QED BY <1>2, <1>6, <2>1, RestWhole, ReadValue
<1>8. CASE str = <<>>
  <2>1. f[1][1] = <<>>
    <3>1. ReadRest(str, 1) = <<>>
      BY <1>7, <1>8
    <3>2. ReadAt(f, fmt, str, 1, 1) = <<>>
      BY <3>1, ReadEnds, Zenon
    <3> QED BY <1>7, <3>2
  <2> QED BY <1>6, <1>8, <2>1 DEF fmt
<1>9. CASE str # <<>>
  <2>1. PICK k \in J : k = 1 + Len(str)
    BY <1>2
  <2>2. f[3][k] = <<>>
    <3>1. 3 > Len(fmt)
      BY <1>1
    <3>2. ReadAt(f, fmt, str, 3, k) = <<>>
      BY <3>1, ReadEnds, Zenon
    <3> QED BY <1>7, <3>2
  <2>3. f[1][1] = <<str>> \o f[3][k]
    <3>1. AtConversion(fmt, str, 1, 1, 115) /\ 1 + 2 = 3
      BY <1>1, <1>7, <1>9 DEF AtConversion
    <3>2. ReadAt(f, fmt, str, 1, 1) = StoreAll(f, str, 1, 1)
      BY <3>1, ReadAll
    <3>3. StoreAll(f, str, 1, 1) = <<str>> \o f[1 + 2][1 + Len(str)]
      BY <1>7, Zenon DEF StoreAll
    <3> QED BY <1>7, <2>1, <3>1, <3>2, <3>3
  <2>4. <<str>> \o <<>> = <<str>>
    OBVIOUS
  <2> QED BY <1>6, <1>9, <2>2, <2>3, <2>4 DEF fmt
<1> QED BY <1>8, <1>9
-----------------------------------------------------------------------------
(* The invariant. *)
LineType == line \in Seq(KeyCodes)

ShellIInv == LineType /\ RunsWhatWasTyped

LEMMA LineStrings == LineType => line \in Strings
<1>1. KeyCodes \subseteq Chars
  BY ShellAssumption DEF Chars
<1> QED BY <1>1 DEF LineType, Strings

(* A line that starts nothing, and one that does. *)
LEMMA SaysNothing ==
  ASSUME ~(at = "running")
  PROVE  RunsWhatWasTyped
BY DEF RunsWhatWasTyped

(* What Executed starts and says is right if its arguments are. *)
LEMMA ExecutedRight ==
  ASSUME NEW set, NEW complaint, NEW refuses, NEW W, Executed(set, complaint, refuses),
         Right(SetToSeq(set), complaint, refuses, W)
  PROVE  line' = line /\ Right(jobs', said', refused', W)
<1>1. line' = line /\ jobs' = SetToSeq(set) /\ said' = complaint /\ refused' = refuses
  BY DEF Executed
<1> QED BY <1>1, Zenon

(* Enter runs what the words of the line ask for (shell.c:shellExecute). *)
LEMMA EnterRuns ==
  ASSUME LineType, Enter, Len(Words(line)) \in 1..MAX_ARGUMENTS
  PROVE  line' = line /\ Right(jobs', said', refused', Words(line))
<1> DEFINE W == Words(line)
           args == [argc |-> Len(W), argv |-> W]
           read == scanf(<<Percent, 115>>, line)
<1>1. line \in Strings
  BY LineStrings
<1>2. W \in Lines /\ W \in Seq(Strings) /\ Len(W) \in 1..MAX_ARGUMENTS /\ Len(W) \in Nat /\
        Len(W) >= 1
  BY <1>1, WordsType DEF Lines
<1>3. getCommandArgs(line) = args
  <2>1. ~(Len(W) > MAX_ARGUMENTS)
    BY <1>2, ShellAssumption
  <2> QED BY <1>1, <2>1, ArgsFound
<1>4. (IF read = <<>> THEN <<>> ELSE read[1]) = line
  <2>1. read = IF line = <<>> THEN <<>> ELSE <<line>>
    BY <1>1, ReadsString
  <2> HIDE DEF read
  <2>2. CASE line = <<>>
    BY <2>1, <2>2
  <2>3. CASE line # <<>>
    BY <2>1, <2>3
  <2> QED BY <2>2, <2>3
<1>5. IF findPipe(args) >= 0 THEN InitializePipe(findPipe(args), args) ELSE RunLine(args)
  <2>1. getCommandArgs(IF read = <<>> THEN <<>> ELSE read[1]) = args
    BY <1>3, <1>4, Zenon
  <2> HIDE DEF args
  <2> QED BY <2>1 DEF Enter
<1>6. args.argc = Len(W) /\ args.argv = W
  OBVIOUS
<1> HIDE DEF W, args, read
<1>7. findPipe(args) = IF Bars(W) = {} THEN -1
                       ELSE (CHOOSE i \in Bars(W) : \A j \in Bars(W) : i <= j) - 1
  BY <1>2, PipeFound DEF args
<1>8. CASE Bars(W) = {}
  <2>1. RunLine(args)
    BY <1>5, <1>7, <1>8
  <2>2. IF W[Len(W)][1] = Ampersand THEN StartCommand(args, Len(W) - 1, BACKGROUND)
        ELSE StartCommand(args, Len(W), FOREGROUND)
    BY <1>2, <1>6, <2>1 DEF RunLine
  <2>3. ASSUME NEW n, NEW foreground, StartCommand(args, n, foreground),
               IF W[Len(W)][1] = Ampersand THEN n = Len(W) - 1 /\ foreground = BACKGROUND
               ELSE n = Len(W) /\ foreground = FOREGROUND
        PROVE  line' = line /\ Right(jobs', said', refused', W)
    <3> DEFINE cmds == getCommandIdx(W)
               S == Starts(cmds, n, SubSeq(W, 1, n), foreground, "keyboard", "screen")
    <3>1. IF cmds = {} THEN Executed({}, "invalid", FALSE)
          ELSE Executed(S, "", FALSE) \/ Executed({}, "", TRUE)
      BY <1>6, <2>3 DEF StartCommand
    <3>2. IF cmds = {} THEN Right(SetToSeq({}), "invalid", FALSE, W)
          ELSE Right(SetToSeq(S), "", FALSE, W) /\ Right(SetToSeq({}), "", TRUE, W)
      BY <1>2, <1>8, <2>3, LineRight
    <3> HIDE DEF cmds, S
    <3> QED BY <3>1, <3>2, ExecutedRight
  <2>4. line' = line /\ Right(jobs', said', refused', W)
    <3>1. CASE W[Len(W)][1] = Ampersand
      BY <2>2, <2>3, <3>1
    <3>2. CASE W[Len(W)][1] # Ampersand
      BY <2>2, <2>3, <3>2
    <3> QED BY <3>1, <3>2
  <2> QED BY <2>4 DEF W
<1>9. CASE Bars(W) # {}
  <2>1. Bars(W) \subseteq Nat
    BY <1>2 DEF Bars
  <2>2. PICK bar \in Bars(W) : \A j \in Bars(W) : bar <= j
    BY <1>9, <2>1, LeastOf
  <2>3. (CHOOSE i \in Bars(W) : \A j \in Bars(W) : i <= j) = bar
    <3>1. \A i \in Bars(W) : (\A j \in Bars(W) : i <= j) => i = bar
      <4> SUFFICES ASSUME NEW i \in Bars(W), \A j \in Bars(W) : i <= j PROVE i = bar
        OBVIOUS
      <4>1. i <= bar /\ bar <= i /\ i \in Nat /\ bar \in Nat
        BY <2>1, <2>2
      <4> QED BY <4>1
    <3> QED BY <2>2, <3>1
  <2>4. bar \in Nat /\ bar >= 1 /\ bar <= Len(W)
    <3>1. DOMAIN W = 1..Len(W)
      BY <1>2
    <3> QED BY <1>2, <3>1 DEF Bars
  <2>5. InitializePipe(bar - 1, args)
    <3>1. findPipe(args) = bar - 1
      BY <1>7, <1>9, <2>3, Zenon
    <3>2. bar - 1 >= 0
      BY <2>4
    <3> QED BY <1>5, <3>1, <3>2, Zenon
  <2> DEFINE right == SubSeq(W, bar + 1, Len(W))
             left == SubSeq(W, 1, bar - 1)
             readers == Starts(getCommandIdx(right), Len(right), right, BACKGROUND, "pipe",
               "screen")
             writers == Starts(getCommandIdx(left), Len(left), left, FOREGROUND, "keyboard", "pipe")
  <2>6. (bar - 1) + 2 = bar + 1 /\ (bar - 1 \in {0, Len(W) - 1} <=> bar \in {1, Len(W)})
    BY <1>2, <2>4
  <2>7. IF bar - 1 \in {0, Len(W) - 1} THEN Executed({}, "misplaced", FALSE)
        ELSE \/ Executed({}, "pipe", TRUE)
             \/ Executed({}, "invalid", readers # {})
             \/ readers # {} /\ Executed(readers, "invalid", writers # {})
             \/ readers # {} /\ writers # {} /\ Executed(readers \cup writers, "", FALSE)
    BY <1>6, <2>5, <2>6 DEF InitializePipe
  <2>8. IF bar \in {1, Len(W)} THEN Right(SetToSeq({}), "misplaced", FALSE, W)
        ELSE /\ Right(SetToSeq({}), "pipe", TRUE, W)
             /\ \A refuses \in BOOLEAN :
                  /\ Right(SetToSeq({}), "invalid", refuses, W)
                  /\ readers # {} => Right(SetToSeq(readers), "invalid", refuses, W)
             /\ readers # {} /\ writers # {} =>
                  Right(SetToSeq(readers \cup writers), "", FALSE, W)
    <3>1. \A k \in Bars(W) : bar <= k
      BY <2>2
    <3> QED BY <1>2, <3>1, PipelineRight
  <2>9. (readers # {}) \in BOOLEAN /\ (writers # {}) \in BOOLEAN
    OBVIOUS
  <2> HIDE DEF right, left, readers, writers
  <2>10. CASE bar \in {1, Len(W)}
    BY <2>6, <2>7, <2>8, <2>10, ExecutedRight DEF W
  <2>11. CASE bar \notin {1, Len(W)}
    <3>1. CASE Executed({}, "pipe", TRUE)
      BY <2>8, <2>11, <3>1, ExecutedRight DEF W
    <3>2. CASE Executed({}, "invalid", readers # {})
      BY <2>8, <2>9, <2>11, <3>2, ExecutedRight DEF W
    <3>3. CASE readers # {} /\ Executed(readers, "invalid", writers # {})
      BY <2>8, <2>9, <2>11, <3>3, ExecutedRight DEF W
    <3>4. CASE readers # {} /\ writers # {} /\ Executed(readers \cup writers, "", FALSE)
      BY <2>8, <2>11, <3>4, ExecutedRight DEF W
    <3> QED BY <2>6, <2>7, <2>11, <3>1, <3>2, <3>3, <3>4
  <2> QED BY <2>10, <2>11
<1> QED BY <1>8, <1>9

(* Every other step leaves the line and what it started alone, or reads. *)
LEMMA RunKeeps ==
  ASSUME NEW j, Run(j)
  PROVE  UNCHANGED <<at, line, said, refused, jobs>>
<1>1. CASE Help(j)
  BY <1>1 DEF Help, Return
<1>2. CASE ChangeUser(j)
  BY <1>2 DEF ChangeUser, WrongArgc, Asks, Return
<1>3. CASE GetMem(j)
  BY <1>3 DEF GetMem, WrongArgc, Asks, Return
<1>4. ASSUME NEW cmd, ChangeColour(j, cmd) PROVE UNCHANGED <<at, line, said, refused, jobs>>
  BY <1>4 DEF ChangeColour, WrongArgc, Asks, Return
<1>5. ASSUME NEW cmd, NEW permitted, NEW keyPids, SystemCommand(j, cmd, permitted, keyPids)
      PROVE  UNCHANGED <<at, line, said, refused, jobs>>
  BY <1>5 DEF SystemCommand, WrongArgc, Asks, Return
<1>6. CASE DivZero(j)
  BY <1>6 DEF DivZero, WrongArgc, Return
<1>7. CASE OpCode(j)
  BY <1>7 DEF OpCode, WrongArgc, Return
<1> QED BY <1>1, <1>2, <1>3, <1>4, <1>5, <1>6, <1>7
        DEF Run, ChangeFtColour, ChangeBgColour, KillProcessWrapper, SetPriorityWrapper,
            BlockProcessWrapper, UnblockProcessWrapper

(* Enter leaves the line in its buffer. *)
LEMMA EnterLine ==
  ASSUME Enter
  PROVE  line' = line
<1>1. ASSUME NEW set, NEW complaint, NEW refuses, Executed(set, complaint, refuses) PROVE line' = line
  BY <1>1 DEF Executed
<1>2. ASSUME NEW args, NEW n, NEW foreground, StartCommand(args, n, foreground) PROVE line' = line
  BY <1>1, <1>2 DEF StartCommand
<1>3. ASSUME NEW args, RunLine(args) PROVE line' = line
  BY <1>2, <1>3 DEF RunLine
<1>4. ASSUME NEW pipeIndex, NEW args, InitializePipe(pipeIndex, args) PROVE line' = line
  BY <1>1, <1>4 DEF InitializePipe
<1> QED BY <1>3, <1>4 DEF Enter

(* The invariant holds at the start, and every step keeps it. *)
LEMMA InitShell == ShellInit => ShellIInv
<1> SUFFICES ASSUME ShellInit PROVE ShellIInv
  OBVIOUS
<1>1. LineType
  BY EmptySeq DEF ShellInit, LineType
<1>2. ~(at = "running")
  BY DEF ShellInit
<1> QED BY <1>1, <1>2, SaysNothing DEF ShellIInv

LEMMA NextShell == ShellIInv /\ [ShellNext]_shellVars => ShellIInv'
<1> SUFFICES ASSUME ShellIInv, [ShellNext]_shellVars PROVE ShellIInv'
  OBVIOUS
<1>0. LineType /\ RunsWhatWasTyped
  BY DEF ShellIInv
<1>1. ASSUME NEW c \in KeyCodes, Type(c) PROVE ShellIInv'
  <2>1. LineType'
    <3>1. line \in Seq(KeyCodes) /\ line' = Append(line, c)
      BY <1>0, <1>1 DEF Type, LineType
    <3>2. Append(line, c) \in Seq(KeyCodes)
      BY <3>1, AppendProperties
    <3> QED BY <3>1, <3>2 DEF LineType
  <2>2. ~(at' = "running")
    BY <1>1 DEF Type
  <2> QED BY <2>1, <2>2 DEF ShellIInv, RunsWhatWasTyped
<1>2. CASE Enter
  <2>1. line' = line
    BY <1>2, EnterLine
  <2>2. LineType'
    BY <1>0, <2>1 DEF LineType
  <2>3. RunsWhatWasTyped'
    <3>1. CASE Len(Words(line)) \in 1..MAX_ARGUMENTS
      <4>1. Right(jobs', said', refused', Words(line'))
        BY <1>0, <1>2, <2>1, <3>1, EnterRuns
      <4> QED BY <4>1 DEF Right, Told, RunsWhatWasTyped
    <3>2. CASE ~(Len(Words(line)) \in 1..MAX_ARGUMENTS)
      <4>1. ~(Len(Words(line')) \in 1..MAX_ARGUMENTS)
        BY <2>1, <3>2
      <4> QED BY <4>1 DEF RunsWhatWasTyped
    <3> QED BY <3>1, <3>2
  <2> QED BY <2>2, <2>3 DEF ShellIInv
<1>3. ASSUME UNCHANGED <<at, line, said, refused, jobs>> PROVE ShellIInv'
  <2>1. LineType'
    BY <1>0, <1>3 DEF LineType
  <2>2. RunsWhatWasTyped'
    BY <1>0, <1>3 DEF RunsWhatWasTyped
  <2> QED BY <2>1, <2>2 DEF ShellIInv
<1>4. CASE Prompt
  <2>1. line' = <<>> /\ ~(at' = "running")
    BY <1>4 DEF Prompt
  <2>2. LineType'
    BY <2>1 DEF LineType
  <2> QED BY <2>1, <2>2 DEF ShellIInv, RunsWhatWasTyped
<1>5. ASSUME NEW j, Run(j) PROVE ShellIInv'
  BY <1>3, <1>5, RunKeeps
<1>6. CASE UNCHANGED shellVars
  BY <1>3, <1>6 DEF shellVars
<1> QED BY <1>1, <1>2, <1>4, <1>5, <1>6 DEF ShellNext

LEMMA InvariantShell == ShellSpec => []ShellIInv
BY InitShell, NextShell, PTL DEF ShellSpec

(* The arguments of a line are its words (shell.c:getCommandArgs),         *)
(* whatever its length and however its spaces lie; of too many, the first. *)
THEOREM LineIsCut == ShellSpec => []ArgsAreWords
<1>1. ShellIInv => ArgsAreWords
  BY LineStrings, ArgsFound DEF ShellIInv, ArgsAreWords
<1> QED BY <1>1, InvariantShell, PTL

(* What the shell starts is what the line asks for (shell.c:shellExecute):    *)
(* the commands named, with their words, on the right side of the pipe, in *)
(* the right ground, or a complaint; for every line, and whatever the      *)
(* kernel refuses.                                                         *)
THEOREM RunsTyped == ShellSpec => []RunsWhatWasTyped
<1>1. ShellIInv => RunsWhatWasTyped
  BY DEF ShellIInv
<1> QED BY <1>1, InvariantShell, PTL
-----------------------------------------------------------------------------
(* Tables. *)

(* Quotients and remainders, for the solver: it decides these and nothing  *)
(* larger.                                                                 *)
LEMMA Division ==
  ASSUME NEW n \in Nat, NEW S \in Nat \ {0}
  PROVE  \E q \in Nat : \E r \in 0..(S - 1) : n = S * q + r /\ n \div S = q /\ n % S = r
OBVIOUS

LEMMA DivisionUnique ==
  ASSUME NEW n, NEW S \in Nat \ {0}, NEW q \in Nat, NEW r \in 0..(S - 1), n = S * q + r
  PROVE  n \div S = q /\ n % S = r
OBVIOUS

LEMMA DivisionShifted ==
  ASSUME NEW n \in Nat, NEW S \in Nat \ {0}, NEW k, k = n + S
  PROVE  k \div S = (n \div S) + 1 /\ k % S = n % S
<1>1. PICK q \in Nat, r \in 0..(S - 1) : n = S * q + r /\ n \div S = q /\ n % S = r
  BY Division
<1>2. PICK p \in Nat : p = q + 1
  OBVIOUS
<1>3. k = S * p + r
  BY <1>1, <1>2
<1>4. k \div S = p /\ k % S = r
  BY <1>3, DivisionUnique
<1> QED BY <1>1, <1>2, <1>4

(* The width of a table, its newline counted. *)
TableWidth == C1_WIDTH + C2_WIDTH + 8

TextAt(i) == ((i - 1) \div C2_WIDTH) * TableWidth + C1_WIDTH + 6 + ((i - 1) % C2_WIDTH)

Codes == Nat \ {NewLineCode}

(* The rows hold the text, and are all of the width of the table. *)
Table(rows, text) ==
  /\ rows \in Seq(Nat)
  /\ Len(rows) % TableWidth = 0
  /\ \A i \in 1..Len(rows) : rows[i] = NewLineCode <=> i % TableWidth = 0
  /\ \A i \in 1..Len(text) : TextAt(i) \in 1..Len(rows) /\ rows[TextAt(i)] = text[i]

Block(name, text) == (FirstCol(name) \o SecondCol(text)) \o <<NewLineCode>>

(* A part of a sequence. *)
LEMMA Part ==
  ASSUME NEW S, NEW seq \in Seq(S), NEW k \in Nat \ {0}, NEW e \in Nat, e <= Len(seq)
  PROVE  /\ SubSeq(seq, k, e) \in Seq(S)
         /\ Len(SubSeq(seq, k, e)) = IF k <= e THEN e - k + 1 ELSE 0
         /\ \A i \in 1..(e - k + 1) : SubSeq(seq, k, e)[i] = seq[k + i - 1]
<1>1. \A i \in k..e : seq[i] \in S
  BY LenProperties, ElementOfSeq
<1>2. k \in Int /\ e \in Int
  OBVIOUS
<1> QED BY <1>1, <1>2, SubSeqProperties

(* The sizes of a row. *)
LEMMA WidthType ==
  /\ C1_WIDTH \in Nat /\ C1_WIDTH >= 1
  /\ C2_WIDTH \in Nat /\ C2_WIDTH >= 1
  /\ TableWidth \in Nat \ {0} /\ TableWidth = C1_WIDTH + C2_WIDTH + 8
BY LibraryAssumption DEF TableWidth

(* Padding: a text is the start of itself padded to a width. *)
LEMMA SpacesType ==
  ASSUME NEW n \in Nat
  PROVE  /\ Spaces(n) \in Seq(Codes) /\ Len(Spaces(n)) = n
         /\ \A i \in 1..n : Spaces(n)[i] = Space
<1>1. Space \in Codes
  BY DEF Space, Codes, NewLineCode
<1> QED BY <1>1 DEF Spaces

LEMMA PaddedType ==
  ASSUME NEW text \in Seq(Codes), NEW width \in Nat, Len(text) <= width
  PROVE  /\ Padded(text, width) \in Seq(Codes)
         /\ Len(Padded(text, width)) = width
         /\ \A i \in 1..Len(text) : Padded(text, width)[i] = text[i]
<1>1. PICK n \in Nat : n = Len(text)
  BY LenProperties
<1>2. PICK d \in Nat : d = width - Len(text)
  BY <1>1
<1>3. Spaces(d) \in Seq(Codes) /\ Len(Spaces(d)) = d
  BY SpacesType
<1>4. Padded(text, width) = text \o Spaces(d)
  BY <1>2 DEF Padded
<1>5. /\ text \o Spaces(d) \in Seq(Codes)
      /\ Len(text \o Spaces(d)) = Len(text) + d
      /\ \A i \in 1..Len(text) + d : (text \o Spaces(d))[i] = IF i <= Len(text) THEN text[i]
           ELSE Spaces(d)[i - Len(text)]
  BY <1>3, ConcatProperties
<1>6. Len(text) + d = width /\ \A i \in 1..Len(text) : i \in 1..Len(text) + d /\ i <= Len(text)
  BY <1>1, <1>2
<1> QED BY <1>4, <1>5, <1>6

(* The first column, the second one, and a row of both. *)
LEMMA FirstColType ==
  ASSUME NEW name \in Seq(Codes), Len(name) <= C1_WIDTH
  PROVE  FirstCol(name) \in Seq(Codes) /\ Len(FirstCol(name)) = C1_WIDTH + 4
<1> DEFINE p == Padded(name, C1_WIDTH)
<1>1. p \in Seq(Codes) /\ Len(p) = C1_WIDTH
  BY PaddedType, WidthType
<1>2. 124 \in Codes /\ Space \in Codes
  BY DEF Codes, Space, NewLineCode
<1>3. <<124, Space>> \in Seq(Codes) /\ Len(<<124, Space>>) = 2 /\ <<Space, 124>> \in Seq(Codes) /\
        Len(<<Space, 124>>) = 2
  BY <1>2
<1> HIDE DEF p
<1>4. <<124, Space>> \o p \in Seq(Codes) /\ Len(<<124, Space>> \o p) = 2 + C1_WIDTH
  BY <1>1, <1>3, ConcatProperties
<1>5. /\ (<<124, Space>> \o p) \o <<Space, 124>> \in Seq(Codes)
      /\ Len((<<124, Space>> \o p) \o <<Space, 124>>) = (2 + C1_WIDTH) + 2
  BY <1>3, <1>4, ConcatProperties
<1>6. (2 + C1_WIDTH) + 2 = C1_WIDTH + 4
  BY WidthType
<1> QED BY <1>5, <1>6 DEF FirstCol, p

LEMMA SecondColType ==
  ASSUME NEW text \in Seq(Codes), Len(text) <= C2_WIDTH
  PROVE  /\ SecondCol(text) \in Seq(Codes) /\ Len(SecondCol(text)) = C2_WIDTH + 3
         /\ \A i \in 1..Len(text) : SecondCol(text)[i + 1] = text[i]
<1> DEFINE p == Padded(text, C2_WIDTH)
           s == <<Space>> \o p
<1>0. PICK n \in Nat : n = Len(text)
  BY LenProperties
<1>1. p \in Seq(Codes) /\ Len(p) = C2_WIDTH /\ \A i \in 1..Len(text) : p[i] = text[i]
  BY PaddedType, WidthType
<1>2. 124 \in Codes /\ Space \in Codes
  BY DEF Codes, Space, NewLineCode
<1>3. <<Space>> \in Seq(Codes) /\ Len(<<Space>>) = 1 /\ <<Space, 124>> \in Seq(Codes) /\
        Len(<<Space, 124>>) = 2
  BY <1>2
<1> HIDE DEF p
<1>4. /\ s \in Seq(Codes) /\ Len(s) = 1 + C2_WIDTH
      /\ \A i \in 1..1 + C2_WIDTH : s[i] = IF i <= 1 THEN <<Space>>[i] ELSE p[i - 1]
  BY <1>1, <1>3, ConcatProperties
<1> HIDE DEF s
<1>5. /\ s \o <<Space, 124>> \in Seq(Codes)
      /\ Len(s \o <<Space, 124>>) = (1 + C2_WIDTH) + 2
      /\ \A i \in 1..(1 + C2_WIDTH) + 2 : (s \o <<Space, 124>>)[i] = IF i <= 1 + C2_WIDTH
           THEN s[i] ELSE <<Space, 124>>[i - (1 + C2_WIDTH)]
  BY <1>3, <1>4, ConcatProperties
<1>6. SecondCol(text) = s \o <<Space, 124>>
  BY DEF SecondCol, s, p
<1>7. ASSUME NEW i \in 1..Len(text) PROVE SecondCol(text)[i + 1] = text[i]
  <2>1. PICK k \in Nat : k = i + 1
    OBVIOUS
  <2>2. k \in 1..1 + C2_WIDTH /\ k \in 1..(1 + C2_WIDTH) + 2 /\ k <= 1 + C2_WIDTH /\ ~(k <= 1) /\
          k - 1 = i
    BY <1>0, <2>1, WidthType
  <2>3. (s \o <<Space, 124>>)[k] = s[k] /\ s[k] = p[k - 1]
    BY <1>4, <1>5, <2>2
  <2> QED BY <1>1, <1>6, <2>1, <2>2, <2>3
<1>8. (1 + C2_WIDTH) + 2 = C2_WIDTH + 3
  BY WidthType
<1> QED BY <1>5, <1>6, <1>7, <1>8

LEMMA BlockType ==
  ASSUME NEW name \in Seq(Codes), Len(name) <= C1_WIDTH,
         NEW text \in Seq(Codes), Len(text) <= C2_WIDTH
  PROVE  /\ Block(name, text) \in Seq(Nat)
         /\ Len(Block(name, text)) = TableWidth
         /\ \A i \in 1..TableWidth : Block(name, text)[i] = NewLineCode <=> i = TableWidth
         /\ \A i \in 1..Len(text) : Block(name, text)[C1_WIDTH + 5 + i] = text[i]
<1> DEFINE a == FirstCol(name)
           b == SecondCol(text)
           c == a \o b
           e == <<NewLineCode>>
<1>1. a \in Seq(Codes) /\ Len(a) = C1_WIDTH + 4
  BY FirstColType
<1>2. b \in Seq(Codes) /\ Len(b) = C2_WIDTH + 3 /\ \A i \in 1..Len(text) : b[i + 1] = text[i]
  BY SecondColType
<1>0. PICK n \in Nat : n = Len(text)
  BY LenProperties
<1> HIDE DEF a, b
<1>3. PICK m \in Nat : m = Len(a) + Len(b) /\ m + 1 = TableWidth
  BY <1>1, <1>2, WidthType
<1>4. /\ c \in Seq(Codes) /\ Len(c) = m
      /\ \A i \in 1..m : c[i] = IF i <= Len(a) THEN a[i] ELSE b[i - Len(a)]
  BY <1>1, <1>2, <1>3, ConcatProperties
<1> HIDE DEF c
<1>5. c \in Seq(Nat) /\ e \in Seq(Nat) /\ Len(e) = 1 /\ e[1] = NewLineCode
  <2>1. Codes \subseteq Nat /\ NewLineCode \in Nat
    BY DEF Codes, NewLineCode
  <2>2. c \in Seq(Nat)
    BY <1>4, <2>1, SeqMonotonic
  <2>3. e \in Seq(Nat) /\ Len(e) = 1 /\ e[1] = NewLineCode
    BY <2>1
  <2> QED BY <2>2, <2>3
<1> HIDE DEF e
<1>6. /\ c \o e \in Seq(Nat)
      /\ Len(c \o e) = m + 1
      /\ \A i \in 1..m + 1 : (c \o e)[i] = IF i <= m THEN c[i] ELSE e[i - m]
  <2>1. c \in Seq(Nat) /\ e \in Seq(Nat) /\ Len(c) = m /\ Len(e) = 1
    BY <1>4, <1>5, Zenon
  <2>2. /\ c \o e \in Seq(Nat)
        /\ Len(c \o e) = Len(c) + Len(e)
        /\ \A i \in 1..Len(c) + Len(e) : (c \o e)[i] = IF i <= Len(c) THEN c[i] ELSE e[i - Len(c)]
    BY <2>1, ConcatProperties, Zenon
  <2> QED BY <2>1, <2>2, Zenon
<1>7. Block(name, text) = c \o e
  BY DEF Block, a, b, c, e
<1>8. ASSUME NEW i \in 1..TableWidth
      PROVE  Block(name, text)[i] = NewLineCode <=> i = TableWidth
  <2>1. i \in 1..m + 1
    BY <1>3
  <2>2. CASE i = m + 1
    <3>1. i - m = 1 /\ ~(i <= m) /\ i = TableWidth
      BY <1>3, <2>2
    <3>2. (c \o e)[i] = e[1]
      BY <1>6, <2>1, <3>1
    <3> QED BY <1>5, <1>7, <3>1, <3>2
  <2>3. CASE i # m + 1
    <3>1. i \in 1..m /\ i <= m /\ i # TableWidth
      BY <1>3, <2>1, <2>3
    <3>2. c[i] \in Codes
      BY <1>4, <3>1, ElementOfSeq
    <3>3. c[i] # NewLineCode
      BY <3>2 DEF Codes
    <3> QED BY <1>6, <1>7, <2>1, <3>1, <3>3
  <2> QED BY <2>2, <2>3
<1>9. ASSUME NEW i \in 1..Len(text) PROVE Block(name, text)[C1_WIDTH + 5 + i] = text[i]
  <2>1. PICK k \in Nat : k = C1_WIDTH + 5 + i
    BY WidthType
  <2>2. k \in 1..m /\ k \in 1..m + 1 /\ k <= m /\ ~(k <= Len(a)) /\ k - Len(a) = i + 1
    BY <1>0, <1>1, <1>2, <1>3, <2>1, WidthType
  <2>3. (c \o e)[k] = c[k]
    BY <1>6, <2>2
  <2>4. c[k] = b[i + 1]
    BY <1>4, <2>2
  <2> QED BY <1>2, <1>7, <2>1, <2>3, <2>4
<1> QED BY <1>3, <1>6, <1>7, <1>8, <1>9

(* A row is a table ... *)
LEMMA TableOne ==
  ASSUME NEW name \in Seq(Codes), Len(name) <= C1_WIDTH,
         NEW text \in Seq(Codes), Len(text) <= C2_WIDTH
  PROVE  Table(Block(name, text), text)
<1> DEFINE r == Block(name, text)
<1> USE WidthType
<1>1. /\ r \in Seq(Nat) /\ Len(r) = TableWidth
      /\ \A i \in 1..TableWidth : r[i] = NewLineCode <=> i = TableWidth
      /\ \A i \in 1..Len(text) : r[C1_WIDTH + 5 + i] = text[i]
  BY BlockType
<1> HIDE DEF r
<1>2. \A i \in 1..TableWidth : i % TableWidth = 0 <=> i = TableWidth
  <2>1. ASSUME NEW i \in 1..TableWidth PROVE i % TableWidth = 0 <=> i = TableWidth
    <3>1. CASE i = TableWidth
      <4>1. i = TableWidth * 1 + 0
        BY <3>1
      <4> QED BY <3>1, <4>1, DivisionUnique
    <3>2. CASE i # TableWidth
      <4>1. i \in 0..(TableWidth - 1) /\ i = TableWidth * 0 + i
        BY <3>2
      <4>2. i % TableWidth = i
        BY <4>1, DivisionUnique
      <4> QED BY <3>2, <4>2
    <3> QED BY <3>1, <3>2
  <2> QED BY <2>1
<1>3. Len(r) % TableWidth = 0
  BY <1>1, <1>2
<1>4. ASSUME NEW i \in 1..Len(text) PROVE TextAt(i) \in 1..Len(r) /\ r[TextAt(i)] = text[i]
  <2>0. PICK n \in Nat : n = Len(text)
    BY LenProperties
  <2>1. PICK k \in Nat : k = i - 1
    BY <2>0
  <2>2. k \in 0..(C2_WIDTH - 1) /\ k = C2_WIDTH * 0 + k
    BY <2>0, <2>1
  <2>3. k \div C2_WIDTH = 0 /\ k % C2_WIDTH = k
    BY <2>2, DivisionUnique
  <2>4. TextAt(i) = 0 * TableWidth + C1_WIDTH + 6 + k
    BY <2>1, <2>3 DEF TextAt
  <2>5. TextAt(i) = C1_WIDTH + 5 + i
    BY <2>1, <2>4
  <2>6. PICK j \in 1..TableWidth : j = C1_WIDTH + 5 + i
    BY <2>0
  <2>7. r[j] = text[i]
    BY <1>1, <2>6, Zenon
  <2> QED BY <1>1, <2>5, <2>6, <2>7
<1> QED BY <1>1, <1>2, <1>3, <1>4 DEF Table, r

(* ... and a row on top of a table is one, of the text of both. *)
LEMMA TableMore ==
  ASSUME NEW name \in Seq(Codes), Len(name) <= C1_WIDTH,
         NEW head \in Seq(Codes), Len(head) = C2_WIDTH,
         NEW rest \in Seq(Codes), NEW rows, Table(rows, rest)
  PROVE  Table(Block(name, head) \o rows, head \o rest)
<1> DEFINE r == Block(name, head)
           all == r \o rows
           text == head \o rest
<1>0. C1_WIDTH \in Nat /\ C2_WIDTH \in Nat \ {0} /\ TableWidth \in Nat \ {0}
  BY WidthType
<1>1. /\ r \in Seq(Nat) /\ Len(r) = TableWidth
      /\ Len(r) % TableWidth = 0
      /\ \A i \in 1..TableWidth : r[i] = NewLineCode <=> i % TableWidth = 0
      /\ \A i \in 1..C2_WIDTH : TextAt(i) \in 1..TableWidth /\ r[TextAt(i)] = head[i]
  <2>1. C2_WIDTH <= C2_WIDTH
    BY <1>0
  <2>2. Table(r, head)
    BY <2>1, TableOne
  <2>3. Len(r) = TableWidth
    BY <2>1, BlockType
  <2> HIDE DEF r
  <2> QED BY <2>2, <2>3 DEF Table
<1>2. /\ rows \in Seq(Nat)
      /\ Len(rows) % TableWidth = 0
      /\ \A i \in 1..Len(rows) : rows[i] = NewLineCode <=> i % TableWidth = 0
      /\ \A i \in 1..Len(rest) : TextAt(i) \in 1..Len(rows) /\ rows[TextAt(i)] = rest[i]
  BY DEF Table
<1> HIDE DEF r
<1>3. PICK n \in Nat : n = Len(rows)
  BY <1>2, LenProperties
<1>4. PICK t \in Nat : t = Len(rest)
  BY LenProperties
<1>5. /\ all \in Seq(Nat) /\ Len(all) = TableWidth + n
      /\ \A i \in 1..TableWidth + n : all[i] = IF i <= TableWidth THEN r[i]
           ELSE rows[i - TableWidth]
  <2>1. r \in Seq(Nat) /\ rows \in Seq(Nat) /\ Len(r) = TableWidth /\ Len(rows) = n
    BY <1>1, <1>2, <1>3, Zenon
  <2> HIDE DEF all
  <2>2. /\ r \o rows \in Seq(Nat)
        /\ Len(r \o rows) = Len(r) + Len(rows)
        /\ \A i \in 1..Len(r) + Len(rows) : (r \o rows)[i] = IF i <= Len(r) THEN r[i]
             ELSE rows[i - Len(r)]
    BY <2>1, ConcatProperties, Zenon
  <2> QED BY <2>1, <2>2, Zenon DEF all
<1>6. /\ Len(text) = C2_WIDTH + t
      /\ \A i \in 1..C2_WIDTH + t : text[i] = IF i <= C2_WIDTH THEN head[i] ELSE rest[i - C2_WIDTH]
  BY <1>4, ConcatProperties
<1> HIDE DEF all, text
<1> USE <1>0
<1>7. (TableWidth + n) % TableWidth = 0
  <2>1. PICK k \in Nat : k = n + TableWidth
    OBVIOUS
  <2>2. k % TableWidth = n % TableWidth
    BY <1>0, <2>1, DivisionShifted, Zenon
  <2> QED BY <1>2, <1>3, <2>1, <2>2
<1>8. ASSUME NEW i \in 1..TableWidth + n
      PROVE  all[i] = NewLineCode <=> i % TableWidth = 0
  <2>1. CASE i <= TableWidth
    BY <1>1, <1>5, <2>1
  <2>2. CASE ~(i <= TableWidth)
    <3>1. PICK k \in 1..n : k = i - TableWidth
      BY <2>2
    <3>2. all[i] = rows[k]
      BY <1>5, <2>2, <3>1
    <3>3. i % TableWidth = k % TableWidth
      <4>1. i = k + TableWidth /\ k \in Nat
        BY <3>1
      <4> QED BY <1>0, <4>1, DivisionShifted, Zenon
    <3> QED BY <1>2, <1>3, <3>1, <3>2, <3>3
  <2> QED BY <2>1, <2>2
<1>9. ASSUME NEW i \in 1..C2_WIDTH + t
      PROVE  TextAt(i) \in 1..TableWidth + n /\ all[TextAt(i)] = text[i]
  <2>1. CASE i <= C2_WIDTH
    <3>0. i \in 1..C2_WIDTH
      BY <2>1
    <3>1. TextAt(i) \in 1..TableWidth /\ r[TextAt(i)] = head[i]
      BY <1>1, <3>0, Zenon
    <3>2. PICK k \in 1..TableWidth : k = TextAt(i)
      BY <3>1
    <3>3. all[k] = r[k] /\ k \in 1..TableWidth + n
      BY <1>5
    <3>4. text[i] = head[i]
      BY <1>6, <2>1
    <3> QED BY <3>1, <3>2, <3>3, <3>4
  <2>2. CASE ~(i <= C2_WIDTH)
    <3>1. PICK j \in 1..t : j = i - C2_WIDTH
      BY <2>2
    <3>2. text[i] = rest[j]
      BY <1>6, <2>2, <3>1
    <3>3. PICK k \in 1..n : k = TextAt(j) /\ rows[k] = rest[j]
      BY <1>2, <1>3, <1>4
    <3>4. TextAt(i) = TextAt(j) + TableWidth
      <4>1. PICK a \in Nat : a = j - 1
        OBVIOUS
      <4>2. PICK b \in Nat : b = i - 1 /\ b = a + C2_WIDTH
        BY <3>1, <4>1
      <4>3. b \div C2_WIDTH = (a \div C2_WIDTH) + 1 /\ b % C2_WIDTH = a % C2_WIDTH
        BY <1>0, <4>2, DivisionShifted, Zenon
      <4>4. PICK q \in Nat : \E u \in 0..(C2_WIDTH - 1) :
                 a = C2_WIDTH * q + u /\ a \div C2_WIDTH = q /\ a % C2_WIDTH = u
        BY <1>0, Division, Zenon
      <4>8. PICK u \in 0..(C2_WIDTH - 1) : a \div C2_WIDTH = q /\ a % C2_WIDTH = u
        BY <4>4, Zenon
      <4>5. TextAt(i) = (q + 1) * TableWidth + C1_WIDTH + 6 + u
        BY <4>2, <4>3, <4>8 DEF TextAt
      <4>6. TextAt(j) = q * TableWidth + C1_WIDTH + 6 + u
        BY <4>1, <4>8 DEF TextAt
      <4>7. (q + 1) * TableWidth = q * TableWidth + TableWidth /\ q * TableWidth \in Nat
        OBVIOUS
      <4> QED BY <4>5, <4>6, <4>7
    <3>5. PICK m \in 1..TableWidth + n : m = TextAt(i) /\ m - TableWidth = k /\ ~(m <= TableWidth)
      BY <3>3, <3>4
    <3>6. all[m] = rows[k]
      BY <1>5, <3>5
    <3> QED BY <3>2, <3>3, <3>5, <3>6
  <2> QED BY <2>1, <2>2
<1>10. Table(all, text)
  BY <1>5, <1>6, <1>7, <1>8, <1>9 DEF Table
<1> QED BY <1>10 DEF all, text, r
-----------------------------------------------------------------------------
(* If what is defined by recursion is in R, its value there is in R.       *)
LEMMA RecursionStays ==
  ASSUME NEW D, NEW B, NEW b, NEW d, NEW H, NEW m \in [D -> Nat], Shrinks(D, B, d, m),
         NEW R, \A x \in D : x \in B => b[x] \in R, \A x \in D : x \notin B =>
           \A r \in R : H[x][r] \in R,
         NEW f, Recursion(f, D, B, b, d, H)
  PROVE  \A x \in D : f[x] \in R
<1> DEFINE Bad == {x \in D : f[x] \notin R}
           T == {m[x] : x \in Bad}
<1>1. SUFFICES ASSUME Bad # {} PROVE FALSE
  OBVIOUS
<1>2. T \subseteq Nat /\ T # {}
  BY <1>1
<1>3. PICK t \in T : \A y \in T : t <= y
  <2> HIDE DEF T
  <2> QED BY <1>2, LeastOf
<1>4. PICK x \in Bad : t = m[x]
  OBVIOUS
<1>5. \A y \in Bad : m[x] <= m[y]
  BY <1>3, <1>4
<1>6. f[x] = IF x \in B THEN b[x] ELSE H[x][f[d[x]]]
  BY DEF Recursion
<1>7. x \notin B
  BY <1>6
<1>8. d[x] \in D /\ m[d[x]] < m[x] /\ m[d[x]] \in Nat /\ m[x] \in Nat
  BY <1>7 DEF Shrinks
<1>9. d[x] \in Bad
  BY <1>6, <1>7, <1>8
<1> QED BY <1>5, <1>8, <1>9

(* The rows of a name and the text from character i + 1 on. *)
NameOf(name, i) == IF i = 0 THEN name ELSE <<Space>>
LastRow(name, text, i) ==
  FirstCol(NameOf(name, i)) \o SecondCol(SubSeq(text, i + 1, Len(text)))
RowThen(name, text, i, rows) ==
  FirstCol(NameOf(name, i)) \o (SecondCol(SubSeq(text, i + 1, i + C2_WIDTH)) \o <<NewLineCode>>
    \o rows)
RowsEquation(f, name, text) ==
  f = [i \in 0..Len(text) |->
         IF Len(text) - i < C2_WIDTH THEN LastRow(name, text, i)
         ELSE RowThen(name, text, i, f[i + C2_WIDTH])]

(* printRow's loop is defined for every text. *)
LEMMA RowsExist ==
  ASSUME NEW name \in Seq(Codes), Len(name) <= C1_WIDTH, NEW text \in Seq(Codes)
  PROVE  \E f : RowsEquation(f, name, text)
<1> DEFINE D == 0..Len(text)
           B == {i \in D : Len(text) - i < C2_WIDTH}
           b == [i \in D |-> LastRow(name, text, i)]
           d == [i \in D |-> i + C2_WIDTH]
           H == [i \in D |-> [rows \in Seq(Nat) |-> RowThen(name, text, i, rows)]]
           m == [i \in D |-> Len(text) - i]
<1>0. PICK n \in Nat : n = Len(text)
  BY LenProperties
<1>1. m \in [D -> Nat] /\ Shrinks(D, B, d, m)
  BY <1>0, WidthType DEF Shrinks
<1>2. ASSUME NEW i \in D PROVE NameOf(name, i) \in Seq(Codes) /\ Len(NameOf(name, i)) <= C1_WIDTH
  <2>1. Space \in Codes
    BY DEF Space, Codes, NewLineCode
  <2>2. <<Space>> \in Seq(Codes) /\ Len(<<Space>>) = 1
    BY <2>1
  <2> QED BY <2>2, WidthType DEF NameOf
<1>3. ASSUME NEW i \in D PROVE FirstCol(NameOf(name, i)) \in Seq(Nat)
  <2>1. FirstCol(NameOf(name, i)) \in Seq(Codes)
    BY <1>2, FirstColType
  <2>2. Codes \subseteq Nat
    BY DEF Codes
  <2> QED BY <2>1, <2>2, SeqMonotonic
<1>4. ASSUME NEW part \in Seq(Codes), Len(part) <= C2_WIDTH PROVE SecondCol(part) \in Seq(Nat)
  <2>1. SecondCol(part) \in Seq(Codes)
    BY <1>4, SecondColType
  <2>2. Codes \subseteq Nat
    BY DEF Codes
  <2> QED BY <2>1, <2>2, SeqMonotonic
<1>5. ASSUME NEW i \in D, i \in B PROVE b[i] \in Seq(Nat)
  <2> DEFINE part == SubSeq(text, i + 1, Len(text))
  <2>1. part \in Seq(Codes) /\ Len(part) <= C2_WIDTH
    <3>1. \A k \in (i + 1)..n : text[k] \in Codes
      BY <1>0, ElementOfSeq
    <3>2. i \in Int /\ i + 1 \in Int /\ n - i < C2_WIDTH /\ i <= n
      BY <1>0, <1>5
    <3>3. part \in Seq(Codes) /\ Len(part) = IF i + 1 <= n THEN n - (i + 1) + 1 ELSE 0
      BY <1>0, <3>1, <3>2, SubSeqProperties
    <3> HIDE DEF part
    <3> QED BY <3>2, <3>3, WidthType
  <2>2. SecondCol(part) \in Seq(Nat) /\ FirstCol(NameOf(name, i)) \in Seq(Nat)
    BY <1>3, <1>4, <2>1
  <2>3. b[i] = FirstCol(NameOf(name, i)) \o SecondCol(part)
    BY DEF LastRow
  <2> HIDE DEF part, b
  <2> QED BY <2>2, <2>3, ConcatProperties
<1>6. ASSUME NEW i \in D, i \notin B, NEW rows \in Seq(Nat) PROVE H[i][rows] \in Seq(Nat)
  <2> DEFINE part == SubSeq(text, i + 1, i + C2_WIDTH)
  <2>1. part \in Seq(Codes) /\ Len(part) <= C2_WIDTH
    <3>0. PICK k \in Nat, e \in Nat : k = i + 1 /\ e = i + C2_WIDTH /\ e <= n
      BY <1>0, <1>6, WidthType
    <3>2. SubSeq(text, k, e) \in Seq(Codes) /\
            Len(SubSeq(text, k, e)) = IF k <= e THEN e - k + 1 ELSE 0
      <4>1. k \in Nat \ {0} /\ e <= Len(text)
        BY <1>0, <3>0
      <4> QED BY <4>1, Part, ZenonT(30)
    <3>3. part = SubSeq(text, k, e) /\ k <= e /\ e - k + 1 = C2_WIDTH
      BY <3>0, WidthType
    <3> HIDE DEF part
    <3> QED BY <3>2, <3>3, WidthType
  <2>2. SecondCol(part) \in Seq(Nat) /\ FirstCol(NameOf(name, i)) \in Seq(Nat)
    BY <1>3, <1>4, <2>1
  <2>3. <<NewLineCode>> \in Seq(Nat)
    BY DEF NewLineCode
  <2>4. H[i][rows] = FirstCol(NameOf(name, i)) \o (SecondCol(part) \o <<NewLineCode>> \o rows)
    BY DEF RowThen
  <2> HIDE DEF part, H
  <2>5. SecondCol(part) \o <<NewLineCode>> \in Seq(Nat)
    BY <2>2, <2>3, ConcatProperties
  <2>6. SecondCol(part) \o <<NewLineCode>> \o rows \in Seq(Nat)
    BY <2>5, ConcatProperties
  <2> QED BY <2>2, <2>4, <2>6, ConcatProperties
<1>7. PICK f : Recursion(f, D, B, b, d, H)
  <2> HIDE DEF D, B, b, d, H, m
  <2> QED BY <1>1, RecursionExists
<1>8. \A i \in D : f[i] \in Seq(Nat)
  <2> HIDE DEF D, B, b, d, H, m
  <2> QED BY <1>1, <1>5, <1>6, <1>7, RecursionStays
<1>9. ASSUME NEW i \in D
      PROVE  (IF i \in B THEN b[i] ELSE H[i][f[d[i]]])
               = IF Len(text) - i < C2_WIDTH THEN LastRow(name, text, i)
                 ELSE RowThen(name, text, i, f[i + C2_WIDTH])
  <2>1. CASE i \in B
    BY <2>1
  <2>2. CASE i \notin B
    <3>1. i + C2_WIDTH \in D
      BY <1>0, <2>2, WidthType
    <3>2. f[i + C2_WIDTH] \in Seq(Nat)
      BY <1>8, <3>1, Zenon
    <3>3. d[i] = i + C2_WIDTH
      OBVIOUS
    <3>4. H[i][f[i + C2_WIDTH]] = RowThen(name, text, i, f[i + C2_WIDTH])
      BY <3>2, Zenon
    <3> HIDE DEF H, b, d
    <3> QED BY <2>2, <3>3, <3>4
  <2> QED BY <2>1, <2>2
<1>10. f = [i \in D |-> IF i \in B THEN b[i] ELSE H[i][f[d[i]]]]
  BY <1>7, Zenon DEF Recursion
<1> HIDE DEF B, b, d, H, m
<1>11. f = [i \in D |-> IF Len(text) - i < C2_WIDTH THEN LastRow(name, text, i)
                        ELSE RowThen(name, text, i, f[i + C2_WIDTH])]
  BY <1>9, <1>10
<1> QED BY <1>11 DEF RowsEquation

Associates(a, b, e) == (a \o b) \o e = a \o (b \o e)

(* The rows of a table can be put together from the top or from the        *)
(* bottom.                                                                 *)
LEMMA Associative ==
  ASSUME NEW a \in Seq(Nat), NEW b \in Seq(Nat), NEW e \in Seq(Nat)
  PROVE  Associates(a, b, e)
<1>1. (a \o b) \o e = a \o (b \o e)
  BY SMTT(60)
<1> QED BY <1>1, Zenon DEF Associates

Regroups(a, b, e, g) ==
  /\ a \o ((b \o e) \o g) \in Seq(Nat)
  /\ (a \o ((b \o e) \o g)) \o e = ((a \o b) \o e) \o (g \o e)

LEMMA Regrouped ==
  ASSUME NEW a \in Seq(Nat), NEW b \in Seq(Nat), NEW e \in Seq(Nat), NEW g \in Seq(Nat)
  PROVE  Regroups(a, b, e, g)
<1>1. PICK ab \in Seq(Nat), be \in Seq(Nat), ge \in Seq(Nat) : ab = a \o b /\ be = b \o e /\
        ge = g \o e
  BY ConcatProperties
<1>2. PICK abe \in Seq(Nat) : abe = a \o be /\ abe = ab \o e
  <2>1. a \o be \in Seq(Nat)
    BY ConcatProperties
  <2>2. (a \o b) \o e = a \o (b \o e)
    <3>1. Associates(a, b, e)
      BY Associative
    <3> QED BY <3>1, Zenon DEF Associates
  <2> QED BY <1>1, <2>1, <2>2
<1>3. PICK all \in Seq(Nat) : all = a \o (be \o g) /\ all = abe \o g
  <2>1. abe \o g \in Seq(Nat)
    BY ConcatProperties
  <2>2. (a \o be) \o g = a \o (be \o g)
    <3>1. Associates(a, be, g)
      BY Associative
    <3> QED BY <3>1, Zenon DEF Associates
  <2> QED BY <1>2, <2>1, <2>2
<1>4. (abe \o g) \o e = abe \o (g \o e)
  <2>1. Associates(abe, g, e)
    BY Associative
  <2> QED BY <2>1, Zenon DEF Associates
<1> QED BY <1>1, <1>2, <1>3, <1>4 DEF Regroups

(* From every place on, the rows are a table of what is left of the text.  *)
LEMMA RowsAreTable ==
  ASSUME NEW name \in Seq(Codes), Len(name) <= C1_WIDTH, NEW text \in Seq(Codes),
         NEW f, RowsEquation(f, name, text)
  PROVE  Table(f[0] \o <<NewLineCode>>, text)
<1> DEFINE Rest(i) == SubSeq(text, i + 1, Len(text))
           Good(i) == f[i] \in Seq(Nat) /\ Table(f[i] \o <<NewLineCode>>, Rest(i))
           T == {k \in 0..Len(text) : ~Good(Len(text) - k)}
<1>0. PICK n \in Nat : n = Len(text)
  BY LenProperties
<1>w. C1_WIDTH \in Nat /\ C1_WIDTH >= 1 /\ C2_WIDTH \in Nat /\ C2_WIDTH >= 1
  BY WidthType
<1>1. ASSUME NEW i \in 0..n PROVE Rest(i) \in Seq(Codes) /\ Len(Rest(i)) = n - i
  <2>1. PICK k \in Nat : k = i + 1
    BY <1>0
  <2>3. SubSeq(text, k, n) \in Seq(Codes) /\
          Len(SubSeq(text, k, n)) = IF k <= n THEN n - k + 1 ELSE 0
    <3>1. k \in Nat \ {0} /\ n <= Len(text)
      BY <1>0, <2>1
    <3> QED BY <3>1, Part, ZenonT(30)
  <2>4. Rest(i) = SubSeq(text, k, n)
    BY <1>0, <2>1
  <2> HIDE DEF Rest
  <2> QED BY <2>1, <2>3, <2>4
<1>2. ASSUME NEW i \in 0..n
      PROVE  NameOf(name, i) \in Seq(Codes) /\ Len(NameOf(name, i)) <= C1_WIDTH
  <2>1. Space \in Codes
    BY DEF Space, Codes, NewLineCode
  <2>2. <<Space>> \in Seq(Codes) /\ Len(<<Space>>) = 1
    BY <2>1
  <2> QED BY <1>w, <2>2 DEF NameOf
<1>3. ASSUME NEW i \in 0..n, n - i < C2_WIDTH PROVE Good(i)
  <2>1. f[i] = FirstCol(NameOf(name, i)) \o SecondCol(Rest(i))
    BY <1>0, <1>3 DEF RowsEquation, LastRow
  <2>2. f[i] \o <<NewLineCode>> = Block(NameOf(name, i), Rest(i))
    BY <2>1, Zenon DEF Block
  <2>3. Rest(i) \in Seq(Codes) /\ Len(Rest(i)) <= C2_WIDTH
    BY <1>1, <1>3, <1>w
  <2> HIDE DEF Rest
  <2>4. Table(Block(NameOf(name, i), Rest(i)), Rest(i))
    BY <1>2, <2>3, TableOne
  <2>5. f[i] \in Seq(Nat)
    <3>1. FirstCol(NameOf(name, i)) \in Seq(Codes) /\ SecondCol(Rest(i)) \in Seq(Codes)
      BY <1>2, <2>3, FirstColType, SecondColType
    <3>2. f[i] \in Seq(Codes)
      BY <2>1, <3>1, ConcatProperties
    <3>3. Codes \subseteq Nat
      BY DEF Codes
    <3> QED BY <3>2, <3>3, SeqMonotonic
  <2> QED BY <2>2, <2>4, <2>5
<1>4. ASSUME NEW i \in 0..n, ~(n - i < C2_WIDTH), NEW j, j = i + C2_WIDTH, Good(j) PROVE Good(i)
  <2> DEFINE part == SubSeq(text, i + 1, i + C2_WIDTH)
             a == FirstCol(NameOf(name, i))
             b == SecondCol(part)
             e == <<NewLineCode>>
  <2>1. f[i] = a \o ((b \o e) \o f[j])
    BY <1>0, <1>4 DEF RowsEquation, RowThen
  <2>2. j \in 0..n
    BY <1>4, <1>w
  <2>3. part \in Seq(Codes) /\ Len(part) = C2_WIDTH /\ part \o Rest(j) = Rest(i)
    <3>1. PICK k \in Nat : k = i + 1
      BY <1>0
    <3>3. SubSeq(text, k, j) \in Seq(Codes) /\
            Len(SubSeq(text, k, j)) = IF k <= j THEN j - k + 1 ELSE 0
      <4>1. k \in Nat \ {0} /\ j \in Nat /\ j <= Len(text)
        BY <1>0, <2>2, <3>1
      <4> QED BY <4>1, Part, ZenonT(30)
    <3>4. part = SubSeq(text, k, j) /\ k <= j /\ j - k + 1 = C2_WIDTH
      BY <1>4, <1>w, <3>1
    <3>5. SubSeq(text, k, j) \o SubSeq(text, j + 1, n) = SubSeq(text, k, n)
      <4>1. k \in 1..Len(text) + 1 /\ j \in k - 1..Len(text) /\ n \in j..Len(text)
        BY <1>0, <1>4, <1>w, <2>2, <3>1
      <4> QED BY <4>1, ConcatAdjacentSubSeq
    <3>6. Rest(j) = SubSeq(text, j + 1, n) /\ Rest(i) = SubSeq(text, k, n)
      BY <1>0, <3>1
    <3> HIDE DEF part, Rest
    <3> QED BY <3>3, <3>4, <3>5, <3>6, <1>w
  <2>4. f[i] \in Seq(Nat) /\ f[i] \o e = Block(NameOf(name, i), part) \o (f[j] \o e)
    <3>1. a \in Seq(Nat) /\ b \in Seq(Nat) /\ e \in Seq(Nat) /\ f[j] \in Seq(Nat)
      <4>1. Codes \subseteq Nat /\ NewLineCode \in Nat
        BY DEF Codes, NewLineCode
      <4>2. a \in Seq(Codes)
        BY <1>2, FirstColType
      <4>3. b \in Seq(Codes)
        <5> HIDE DEF part
        <5>1. Len(part) <= C2_WIDTH
          BY <2>3, <1>w
        <5> QED BY <2>3, <5>1, SecondColType
      <4>4. f[j] \in Seq(Nat)
        BY <1>4
      <4>5. e \in Seq(Nat)
        BY <4>1
      <4> HIDE DEF a, b, e
      <4>6. a \in Seq(Nat) /\ b \in Seq(Nat)
        BY <4>1, <4>2, <4>3, SeqMonotonic
      <4> QED BY <4>4, <4>5, <4>6
    <3>2. Block(NameOf(name, i), part) = (a \o b) \o e
      BY DEF Block
    <3> HIDE DEF a, b, e
    <3> DEFINE g == f[j]
    <3>3. g \in Seq(Nat)
      BY <3>1 DEF g
    <3> HIDE DEF g
    <3>4. Regroups(a, b, e, g)
      BY <3>1, <3>3, Regrouped
    <3>5. f[i] = a \o ((b \o e) \o g)
      BY <2>1 DEF g
    <3> QED BY <3>2, <3>4, <3>5, Zenon DEF g, Regroups
  <2>5. Rest(j) \in Seq(Codes)
    BY <1>1, <2>2
  <2>6. Table(f[j] \o e, Rest(j))
    BY <1>4
  <2> HIDE DEF part, Rest, e, Good
  <2>7. Table(Block(NameOf(name, i), part) \o (f[j] \o e), part \o Rest(j))
    BY <1>2, <2>3, <2>5, <2>6, TableMore
  <2> QED BY <2>3, <2>4, <2>7 DEF e, Good
<1> HIDE DEF Good
<1>5. T = {}
  <2> SUFFICES ASSUME T # {} PROVE FALSE
    OBVIOUS
  <2>1. T \subseteq Nat
    BY <1>0
  <2>2. PICK k \in T : \A l \in T : k <= l
    <3> HIDE DEF T
    <3> QED BY <2>1, LeastOf
  <2>3. k \in 0..n /\ ~Good(n - k)
    BY <1>0
  <2>4. PICK i \in 0..n : i = n - k
    BY <2>3
  <2>5. ~(n - i < C2_WIDTH)
    BY <1>3, <2>3, <2>4
  <2>6. PICK j \in 0..n : j = i + C2_WIDTH
    BY <1>w, <2>5
  <2>7. PICK l \in 0..n : l = n - j /\ l < k /\ n - l = j
    BY <1>w, <2>3, <2>4, <2>6
  <2>8. Good(j)
    <3>1. l \notin T
      <4> SUFFICES ASSUME l \in T PROVE FALSE
        OBVIOUS
      <4>1. k <= l
        BY <2>2, Zenon
      <4> QED BY <2>3, <2>7, <4>1
    <3> QED BY <1>0, <2>7, <3>1
  <2> QED BY <1>4, <2>3, <2>4, <2>5, <2>6, <2>8
<1>6. Good(0)
  <2>1. n \in 0..n /\ n - n = 0
    OBVIOUS
  <2>2. n \notin T
    BY <1>5
  <2> QED BY <1>0, <2>1, <2>2
<1>7. Rest(0) = text
  <2>1. Rest(0) = SubSeq(text, 1, Len(text))
    OBVIOUS
  <2> QED BY <2>1, SubSeqFull
<1> QED BY <1>6, <1>7 DEF Good

(* What printRow prints of a text is a table of it. *)
LEMMA RowIsTable ==
  ASSUME NEW name \in Seq(Codes), Len(name) <= C1_WIDTH, NEW text \in Seq(Codes)
  PROVE  Table(printRow(name, text), text)
<1> DEFINE f == CHOOSE g : RowsEquation(g, name, text)
<1>1. \E g : RowsEquation(g, name, text)
  BY RowsExist
<1>2. RowsEquation(f, name, text)
  BY <1>1
<1>3. printRow(name, text) = f[0] \o <<NewLineCode>>
  BY DEF printRow, RowsEquation, LastRow, RowThen, NameOf
<1> HIDE DEF f
<1> QED BY <1>2, <1>3, RowsAreTable
-----------------------------------------------------------------------------
Wide(str, n) == str \in Seq(Nat) /\ Len(str) = n

(* The widths of the lines between the rows. *)
LEMMA Wider ==
  ASSUME NEW a, NEW b, NEW m \in Nat, NEW k \in Nat, Wide(a, m), Wide(b, k)
  PROVE  Wide(a \o b, m + k)
BY ConcatProperties DEF Wide

LEMMA DividerWidth == Len(printFullDivider) = TableWidth
<1> USE WidthType
<1> DEFINE Dashes(n) == [i \in 1..n |-> Minus]
<1>1. PICK n1 \in Nat, n2 \in Nat : n1 = C1_WIDTH + 2 /\ n2 = C2_WIDTH + 2
  OBVIOUS
<1>2. ASSUME NEW n \in Nat PROVE Dashes(n) \in Seq(Nat) /\ Len(Dashes(n)) = n
  <2>1. Minus \in Nat
    BY DEF Minus
  <2> QED BY <2>1
<1> DEFINE a == <<Plus>>
           b == Dashes(n1)
           c == <<IF TRUE THEN Minus ELSE Plus>>
           d == Dashes(n2)
           e == <<Plus, NewLineCode>>
<1>3. Wide(a, 1) /\ Wide(c, 1) /\ Wide(e, 2)
  BY DEF Plus, Minus, NewLineCode, Wide
<1>4. Wide(b, n1) /\ Wide(d, n2)
  BY <1>2 DEF Wide
<1>5. printFullDivider = a \o b \o c \o d \o e
  BY <1>1 DEF printFullDivider, printDivider
<1> HIDE DEF a, b, c, d, e
<1>6. Wide(a \o b, 1 + n1)
  BY <1>3, <1>4, Wider
<1>7. Wide(a \o b \o c, 1 + n1 + 1)
  BY <1>3, <1>6, Wider
<1>8. Wide(a \o b \o c \o d, 1 + n1 + 1 + n2)
  BY <1>4, <1>7, Wider
<1>9. Wide(a \o b \o c \o d \o e, 1 + n1 + 1 + n2 + 2)
  BY <1>3, <1>8, Wider
<1>10. Wide(printFullDivider, 1 + n1 + 1 + n2 + 2)
  BY <1>5, <1>9, Zenon
<1> QED BY <1>1, <1>10 DEF Wide

(* A heading that fits the table is centred over its whole width. *)
LEMMA HeadingWidth ==
  ASSUME NEW text \in Seq(Codes), NEW T \in Nat, Len(text) < T
  PROVE  Len(printCenteredHeading(text, T)) = T + 2
<1> DEFINE delta1 == Quotient(T - Len(text), 2)
           left == IF delta1 > 1 THEN delta1 - 1 ELSE 0
           right == T - 1 - left - Len(text)
           a == <<124>>
           b == Spaces(left)
           d == Spaces(IF right > 0 THEN right ELSE 0)
           e == <<124, NewLineCode>>
<1>0. PICK n \in Nat : n = Len(text) /\ n < T
  BY LenProperties
<1>1. delta1 = (T - n) \div 2
  BY <1>0 DEF Quotient
<1>2. PICK l \in Nat : left = l /\ l + n + 1 <= T
  <2>1. PICK k \in Nat : k = T - n /\ delta1 = k \div 2
    BY <1>0, <1>1
  <2>2. PICK h \in Nat : h = k \div 2 /\ h <= k
    OBVIOUS
  <2>3. PICK l \in Nat : l = IF h > 1 THEN h - 1 ELSE 0
    BY <2>2
  <2>4. l + n + 1 <= T
    BY <1>0, <2>1, <2>2, <2>3
  <2> HIDE DEF delta1
  <2>5. left = l
    BY <2>1, <2>2, <2>3
  <2> QED BY <2>4, <2>5
<1>3. PICK r \in Nat : right = r /\ r = T - 1 - l - n /\ (IF right > 0 THEN right ELSE 0) = r
  <2> HIDE DEF left
  <2>1. PICK r \in Nat : r = T - 1 - l - n
    BY <1>2
  <2>2. right = r
    BY <1>0, <1>2, <2>1
  <2> HIDE DEF right
  <2> QED BY <2>1, <2>2
<1>4. Wide(b, l) /\ Wide(d, r)
  <2>1. \A k \in Nat : Wide(Spaces(k), k)
    <3>1. Codes \subseteq Nat
      BY DEF Codes
    <3> QED BY <3>1, SpacesType, SeqMonotonic DEF Wide
  <2> QED BY <1>2, <1>3, <2>1
<1>5. Wide(a, 1) /\ Wide(e, 2) /\ Wide(text, n)
  <2>1. Codes \subseteq Nat
    BY DEF Codes
  <2>2. text \in Seq(Nat)
    BY <2>1, SeqMonotonic
  <2> QED BY <1>0, <2>2 DEF NewLineCode, Wide
<1>6. printCenteredHeading(text, T) = a \o b \o text \o d \o e
  BY DEF printCenteredHeading
<1> HIDE DEF a, b, d, e, left, right, delta1
<1>7. Wide(a \o b, 1 + l)
  BY <1>4, <1>5, Wider
<1>8. Wide(a \o b \o text, 1 + l + n)
  BY <1>5, <1>7, Wider
<1>9. Wide(a \o b \o text \o d, 1 + l + n + r)
  BY <1>4, <1>8, Wider
<1>10. Wide(a \o b \o text \o d \o e, 1 + l + n + r + 2)
  BY <1>5, <1>9, Wider
<1>11. Wide(printCenteredHeading(text, T), 1 + l + n + r + 2)
  BY <1>6, <1>10, Zenon
<1> QED BY <1>3, <1>11 DEF Wide

(* Table is TableComplete, at the line. *)
LEMMA TableOfLine ==
  ASSUME LineType
  PROVE  TableComplete
<1>1. line \in Seq(Codes)
  <2>1. KeyCodes \subseteq Codes
    BY ShellAssumption DEF Codes, NewLineCode
  <2> QED BY <2>1, SeqMonotonic DEF LineType
<1>2. <<Bar>> \in Seq(Codes) /\ Len(<<Bar>>) <= C1_WIDTH
  BY WidthType DEF Bar, Codes, NewLineCode
<1> DEFINE row == printRow(<<Bar>>, line)
<1>3. Table(row, line)
  BY <1>1, <1>2, RowIsTable
<1> HIDE DEF row
<1>4. row \in Seq(Nat) /\ DOMAIN row = 1..Len(row) /\ DOMAIN line = 1..Len(line)
  BY <1>1, <1>3, LenProperties DEF Table
<1>5. /\ Len(row) % TableWidth = 0
      /\ {i \in DOMAIN row : row[i] = NewLineCode} = {i \in DOMAIN row : i % TableWidth = 0}
      /\ \A i \in DOMAIN line : row[TextAt(i)] = line[i]
  BY <1>3, <1>4 DEF Table
<1>6. Len(line) < TableWidth - 2 => Len(printCenteredHeading(line, TableWidth - 2)) = TableWidth
  <2>1. PICK T \in Nat : T = TableWidth - 2 /\ T + 2 = TableWidth
    BY WidthType
  <2> QED BY <1>1, <2>1, HeadingWidth
<1>7. ASSUME NEW width, width = TableWidth
      PROVE \A i \in DOMAIN line :
        row[((i - 1) \div C2_WIDTH) * width + C1_WIDTH + 6 + ((i - 1) % C2_WIDTH)] = line[i]
  BY <1>5, <1>7, Zenon DEF TextAt
<1> QED BY <1>5, <1>6, <1>7, DividerWidth, Zenon DEF TableComplete, row

(* printRow prints every character of a text of any length, each in its    *)
(* cell, and every line of the table as wide as the others (commands.c),   *)
(* whatever the widths of the columns.                                     *)
THEOREM TableKeepsText == ShellSpec => []TableComplete
<1>1. ShellIInv => TableComplete
  BY TableOfLine DEF ShellIInv
<1> QED BY <1>1, InvariantShell, PTL
-----------------------------------------------------------------------------
(* Numbers. *)

(* The powers that the widths of an int are about, for the solver. *)
LEMMA PowersOfTwo == \A k \in 1..31 : 2^k \in Nat /\ 2^k >= 2
<1> DEFINE p == [k \in 1..31 |-> 2^k]
<1>1. \A k \in 1..31 : p[k] = 2^k
  OBVIOUS
<1>2. /\ p[1] = 2 /\ p[2] = 4 /\ p[3] = 8 /\ p[4] = 16 /\ p[5] = 32
      /\ p[6] = 64 /\ p[7] = 128 /\ p[8] = 256 /\ p[9] = 512 /\ p[10] = 1024
      /\ p[11] = 2048 /\ p[12] = 4096 /\ p[13] = 8192 /\ p[14] = 16384
      /\ p[15] = 32768 /\ p[16] = 65536 /\ p[17] = 131072 /\ p[18] = 262144
      /\ p[19] = 524288 /\ p[20] = 1048576 /\ p[21] = 2097152
      /\ p[22] = 4194304 /\ p[23] = 8388608 /\ p[24] = 16777216
      /\ p[25] = 33554432 /\ p[26] = 67108864 /\ p[27] = 134217728
      /\ p[28] = 268435456 /\ p[29] = 536870912 /\ p[30] = 1073741824
      /\ p[31] = 2147483648
  BY <1>1
<1> HIDE DEF p
<1>3. \A k \in 1..31 : p[k] \in Nat /\ p[k] >= 2
  BY <1>2
<1> QED BY <1>1, <1>3, Zenon

(* Half of the numbers an int can be. *)
LEMMA HalfType == Half \in Nat /\ Half >= 2
<1>1. IntBits - 1 \in 1..31
  BY LibraryAssumption
<1> QED BY <1>1, PowersOfTwo, Zenon DEF Half

(* An integer is a multiple and a remainder, also below 0. *)
LEMMA DivisionOfInt ==
  ASSUME NEW n \in Int, NEW S \in Nat \ {0}
  PROVE  \E q \in Int : \E r \in 0..(S - 1) : n = S * q + r /\ n % S = r
OBVIOUS

LEMMA RemainderUnique ==
  ASSUME NEW n, NEW S \in Nat \ {0}, NEW q \in Int, NEW r \in 0..(S - 1), n = S * q + r
  PROVE  n % S = r
OBVIOUS

(* An int wraps: Int_(n) differs from n by a multiple of twice Half.       *)
LEMMA IntWraps ==
  ASSUME NEW n \in Int
  PROVE  \E k \in Int : Int_(n) = n + (2 * Half) * k /\ Int_(n) \in Int
<1>1. PICK h \in Nat : h = Half /\ h >= 2
  BY HalfType
<1>2. PICK m \in Int : m = n + h
  OBVIOUS
<1>3. PICK S \in Nat \ {0} : S = 2 * h
  BY <1>1
<1>4. PICK q \in Int : \E r \in 0..(S - 1) : m = S * q + r /\ m % S = r
  BY DivisionOfInt
<1>5. PICK r \in 0..(S - 1) : m = S * q + r /\ m % S = r
  BY <1>4
<1>6. Int_(n) = r - h
  BY <1>1, <1>2, <1>3, <1>5 DEF Int_
<1>7. PICK k \in Int : k = -q
  OBVIOUS
<1>8. S * k = -(S * q)
  BY <1>7
<1>9. r - h = n + S * k
  BY <1>2, <1>5, <1>8
<1> QED BY <1>1, <1>3, <1>6, <1>9

(* So two numbers that differ by such a multiple wrap to the same int ... *)
LEMMA IntSame ==
  ASSUME NEW n \in Int, NEW m \in Int, NEW k \in Int, m = n + (2 * Half) * k
  PROVE  Int_(m) = Int_(n)
<1>1. PICK h \in Nat : h = Half /\ h >= 2
  BY HalfType
<1>3. PICK S \in Nat \ {0} : S = 2 * h
  BY <1>1
<1>4. PICK a \in Int, b \in Int : a = n + h /\ b = m + h
  OBVIOUS
<1>5. PICK q \in Int : \E r \in 0..(S - 1) : a = S * q + r /\ a % S = r
  BY DivisionOfInt
<1>6. PICK r \in 0..(S - 1) : a = S * q + r /\ a % S = r
  BY <1>5
<1>7. PICK p \in Int : p = q + k
  OBVIOUS
<1>8. S * p = S * q + S * k
  BY <1>7
<1>9. b = S * p + r
  BY <1>1, <1>3, <1>4, <1>6, <1>8
<1>10. b % S = r
  BY <1>9, RemainderUnique
<1> QED BY <1>1, <1>3, <1>4, <1>6, <1>10 DEF Int_

(* ... and one that an int can be is its own. *)
LEMMA IntFits ==
  ASSUME NEW n \in Int, -Half <= n, n < Half
  PROVE  Int_(n) = n
<1>1. PICK h \in Nat : h = Half /\ h >= 2
  BY HalfType
<1>3. PICK S \in Nat \ {0} : S = 2 * h
  BY <1>1
<1>2. PICK m \in 0..(S - 1) : m = n + h
  BY <1>1, <1>3
<1>4. m = S * 0 + m
  OBVIOUS
<1>5. m % S = m
  BY <1>4, RemainderUnique
<1> QED BY <1>1, <1>2, <1>3, <1>5 DEF Int_

(* A factor may wrap before the product does. *)
SameProduct(x, a, b, c, d) == Int_(x * a * b) = Int_(x * c * d)

LEMMA IntProduct ==
  ASSUME NEW x \in Int, NEW a \in Int, NEW b \in Int, NEW c \in Int, NEW d \in Int,
         a = Int_(c), b = Int_(d)
  PROVE  SameProduct(x, a, b, c, d)
<1>1. PICK S \in Int : S = 2 * Half
  BY HalfType
<1>2. PICK k \in Int : a = c + S * k
  BY <1>1, IntWraps
<1>3. PICK l \in Int : b = d + S * l
  BY <1>1, IntWraps
<1>4. PICK u \in Int, w \in Int : u = x * c * d /\ w = x * a * b
  OBVIOUS
<1>5. PICK j \in Int : j = x * c * l + x * k * d + x * k * S * l
  OBVIOUS
<1>6. w = u + S * j
  <2>1. w = x * (c + S * k) * (d + S * l)
    BY <1>2, <1>3, <1>4
  <2> QED BY <1>4, <1>5, <2>1
<1>7. Int_(w) = Int_(u)
  BY <1>1, <1>6, IntSame
<1> QED BY <1>4, <1>7 DEF SameProduct
-----------------------------------------------------------------------------
(* pow(x, n) by halving n. *)
PowEquation(f, x) ==
  f = [n \in Nat |-> IF n = 0 THEN 1
                     ELSE LET half == f[n \div 2]
                          IN IF n % 2 = 0 THEN Int_(half * half) ELSE Int_(x * half * half)]

(* pow is defined for every exponent. *)
LEMMA PowExists ==
  ASSUME NEW x \in Int
  PROVE  \E f : PowEquation(f, x)
<1> DEFINE B == {0}
           b == [n \in Nat |-> 1]
           d == [n \in Nat |-> n \div 2]
           Squared(n, half) == IF n % 2 = 0 THEN Int_(half * half) ELSE Int_(x * half * half)
           H == [n \in Nat |-> [half \in Int |-> Squared(n, half)]]
           m == [n \in Nat |-> n]
<1>1. m \in [Nat -> Nat] /\ Shrinks(Nat, B, d, m)
  BY DEF Shrinks
<1>2. ASSUME NEW n \in Nat, NEW r \in Int PROVE H[n][r] \in Int
  <2>1. H[n][r] = Squared(n, r)
    OBVIOUS
  <2>2. PICK p \in Int, q \in Int : p = r * r /\ q = x * r * r
    OBVIOUS
  <2>3. Int_(p) \in Int /\ Int_(q) \in Int
    BY IntWraps
  <2> HIDE DEF H
  <2> QED BY <2>1, <2>2, <2>3
<1>3. PICK f : Recursion(f, Nat, B, b, d, H)
  <2> HIDE DEF B, b, d, H, m
  <2> QED BY <1>1, RecursionExists
<1>4. \A n \in Nat : f[n] \in Int
  <2>1. \A n \in Nat : n \in B => b[n] \in Int
    OBVIOUS
  <2> HIDE DEF B, b, d, H, m
  <2> QED BY <1>1, <1>2, <1>3, <2>1, RecursionStays
<1>5. ASSUME NEW n \in Nat
      PROVE  (IF n \in B THEN b[n] ELSE H[n][f[d[n]]]) = IF n = 0 THEN 1
               ELSE Squared(n, f[n \div 2])
  <2>1. n \div 2 \in Nat /\ d[n] = n \div 2
    OBVIOUS
  <2>2. f[n \div 2] \in Int
    BY <1>4, <2>1, Zenon
  <2>3. H[n][f[n \div 2]] = Squared(n, f[n \div 2])
    BY <2>2, Zenon
  <2>4. n \in B <=> n = 0
    OBVIOUS
  <2>5. b[n] = 1
    OBVIOUS
  <2> HIDE DEF H, d, b, B, Squared
  <2> QED BY <2>1, <2>3, <2>4, <2>5
<1>6. f = [n \in Nat |-> IF n \in B THEN b[n] ELSE H[n][f[d[n]]]]
  BY <1>3, Zenon DEF Recursion
<1> HIDE DEF H, d, b, B, Squared
<1>7. f = [n \in Nat |-> IF n = 0 THEN 1 ELSE Squared(n, f[n \div 2])]
  BY <1>5, <1>6
<1> QED BY <1>7 DEF PowEquation, Squared

(* pow is the power, wrapped, whatever it wraps on the way. *)
LEMMA PowersWrap == \A n \in 0..8 : pow(10, n) = Int_(10^n)
<1> DEFINE f == CHOOSE g : PowEquation(g, 10)
<1>1. PowEquation(f, 10)
  <2>1. \E g : PowEquation(g, 10)
    BY PowExists
  <2> QED BY <2>1
<1>2. \A n : pow(10, n) = f[n]
  BY DEF pow, PowEquation
<1> HIDE DEF f
<1>3. f[0] = 1
  BY <1>1 DEF PowEquation
<1>4. ASSUME NEW n \in Nat \ {0}, NEW h \in Nat, h = n \div 2
      PROVE  f[n] = IF n % 2 = 0 THEN Int_(f[h] * f[h]) ELSE Int_(10 * f[h] * f[h])
  BY <1>1, <1>4 DEF PowEquation
<1>5. ASSUME NEW n \in Nat \ {0}, NEW h \in Nat, h = n \div 2, NEW c \in Int, f[h] = Int_(c)
      PROVE  f[n] = IF n % 2 = 0 THEN Int_(c * c) ELSE Int_(10 * c * c)
  <2>1. f[h] \in Int
    BY <1>5, IntWraps
  <2>2. 1 \in Int /\ 10 \in Int
    OBVIOUS
  <2>8. SameProduct(1, f[h], f[h], c, c) /\ SameProduct(10, f[h], f[h], c, c)
    BY <1>5, <2>1, <2>2, IntProduct
  <2>3. Int_(1 * f[h] * f[h]) = Int_(1 * c * c)
    BY <2>8, Zenon DEF SameProduct
  <2>4. Int_(10 * f[h] * f[h]) = Int_(10 * c * c)
    BY <2>8, Zenon DEF SameProduct
  <2>5. 1 * f[h] * f[h] = f[h] * f[h] /\ 1 * c * c = c * c
    BY <2>1
  <2>6. Int_(f[h] * f[h]) = Int_(c * c)
    BY <2>3, <2>5, Zenon
  <2>7. f[n] = IF n % 2 = 0 THEN Int_(f[h] * f[h]) ELSE Int_(10 * f[h] * f[h])
    BY <1>4, <1>5, Zenon
  <2> QED BY <2>4, <2>6, <2>7, Zenon
<1> DEFINE t == [k \in 0..8 |-> 10^k]
<1>6. \A k \in 0..8 : t[k] = 10^k
  OBVIOUS
<1>7. /\ t[0] = 1 /\ t[1] = 10 * t[0] * t[0] /\ t[2] = t[1] * t[1] /\ t[3] = 10 * t[1] * t[1]
      /\ t[4] = t[2] * t[2] /\ t[5] = 10 * t[2] * t[2] /\ t[6] = t[3] * t[3]
      /\ t[7] = 10 * t[3] * t[3] /\ t[8] = t[4] * t[4]
      /\ {t[0], t[1], t[2], t[3], t[4]} \subseteq Int
  BY <1>6, SMT
<1> HIDE DEF t
<1>8. f[0] = Int_(t[0])
  BY <1>3, <1>7, IntFits, HalfType
<1>9. f[1] = Int_(t[1])
  <2>1. 1 \in Nat \ {0} /\ 0 \in Nat /\ 0 = 1 \div 2 /\ 1 % 2 = 1
    OBVIOUS
  <2> QED BY <1>5, <1>7, <1>8, <2>1
<1>10. f[2] = Int_(t[2])
  <2>1. 2 \in Nat \ {0} /\ 1 \in Nat /\ 1 = 2 \div 2 /\ 2 % 2 = 0
    OBVIOUS
  <2> QED BY <1>5, <1>7, <1>9, <2>1
<1>11. f[3] = Int_(t[3])
  <2>1. 3 \in Nat \ {0} /\ 1 \in Nat /\ 1 = 3 \div 2 /\ 3 % 2 = 1
    OBVIOUS
  <2> QED BY <1>5, <1>7, <1>9, <2>1
<1>12. f[4] = Int_(t[4])
  <2>1. 4 \in Nat \ {0} /\ 2 \in Nat /\ 2 = 4 \div 2 /\ 4 % 2 = 0
    OBVIOUS
  <2> QED BY <1>5, <1>7, <1>10, <2>1
<1>13. f[5] = Int_(t[5])
  <2>1. 5 \in Nat \ {0} /\ 2 \in Nat /\ 2 = 5 \div 2 /\ 5 % 2 = 1
    OBVIOUS
  <2> QED BY <1>5, <1>7, <1>10, <2>1
<1>14. f[6] = Int_(t[6])
  <2>1. 6 \in Nat \ {0} /\ 3 \in Nat /\ 3 = 6 \div 2 /\ 6 % 2 = 0
    OBVIOUS
  <2> QED BY <1>5, <1>7, <1>11, <2>1
<1>15. f[7] = Int_(t[7])
  <2>1. 7 \in Nat \ {0} /\ 3 \in Nat /\ 3 = 7 \div 2 /\ 7 % 2 = 1
    OBVIOUS
  <2> QED BY <1>5, <1>7, <1>11, <2>1
<1>16. f[8] = Int_(t[8])
  <2>1. 8 \in Nat \ {0} /\ 4 \in Nat /\ 4 = 8 \div 2 /\ 8 % 2 = 0
    OBVIOUS
  <2> QED BY <1>5, <1>7, <1>12, <2>1
<1>17. ASSUME NEW n \in 0..8 PROVE f[n] = Int_(t[n])
  BY <1>8, <1>9, <1>10, <1>11, <1>12, <1>13, <1>14, <1>15, <1>16
<1> QED BY <1>2, <1>6, <1>17, Zenon
-----------------------------------------------------------------------------
(* The digits of a number. *)
LEMMA QuotientLess ==
  ASSUME NEW n \in Nat \ {0}, NEW base \in Nat, base >= 2
  PROVE  n \div base \in Nat /\ n \div base < n
<1>1. PICK q \in Nat, r \in 0..(base - 1) : n = base * q + r /\ n \div base = q
  BY Division
<1>2. CASE q = 0
  BY <1>1, <1>2
<1>3. CASE q # 0
  <2>1. base * q >= 2 * q
    <3>1. PICK c \in Nat : base = 2 + c
      <4>1. base - 2 \in Nat /\ base = 2 + (base - 2)
        OBVIOUS
      <4> QED BY <4>1
    <3>2. base * q = 2 * q + c * q /\ c * q \in Nat
      BY <3>1
    <3> QED BY <3>2
  <2> QED BY <1>1, <1>3, <2>1
<1> QED BY <1>2, <1>3

DigitsEquation(f, base) ==
  f = [k \in Int |-> IF k = 0 THEN <<>> ELSE <<Remainder(k, base)>> \o f[Quotient(k, base)]]

LEMMA QuotientType ==
  ASSUME NEW k \in Int, NEW base \in Nat, base >= 2
  PROVE  Quotient(k, base) \in Int /\ Remainder(k, base) \in Int
<1>1. base \in Nat \ {0}
  OBVIOUS
<1>2. CASE k < 0
  <2>1. PICK n \in Nat : n = -k
    BY <1>2
  <2>2. PICK q \in Nat : q = n \div base
    BY <1>1
  <2>3. Quotient(k, base) = -q
    BY <1>2, <2>1, <2>2 DEF Quotient
  <2> QED BY <2>3 DEF Remainder
<1>3. CASE ~(k < 0)
  <2>1. PICK q \in Nat : q = k \div base
    BY <1>1, <1>3
  <2>2. Quotient(k, base) = q
    BY <1>3, <2>1 DEF Quotient
  <2> QED BY <2>2 DEF Remainder
<1> QED BY <1>2, <1>3

(* The loop of intToStr ends for every number, by every base. *)
LEMMA DigitsExist ==
  ASSUME NEW base \in Nat, base >= 2
  PROVE  \E f : DigitsEquation(f, base)
<1> DEFINE B == {0}
           b == [k \in Int |-> <<>>]
           d == [k \in Int |-> Quotient(k, base)]
           H == [k \in Int |-> [s \in Seq(Int) |-> <<Remainder(k, base)>> \o s]]
           m == [k \in Int |-> IF k < 0 THEN -k ELSE k]
<1>1. m \in [Int -> Nat] /\ Shrinks(Int, B, d, m)
  <2>1. m \in [Int -> Nat]
    OBVIOUS
  <2>2. ASSUME NEW k \in Int, k # 0 PROVE d[k] \in Int /\ m[d[k]] < m[k]
    <3>1. CASE k < 0
      <4>1. PICK n \in Nat \ {0} : n = -k
        BY <3>1
      <4>2. PICK q \in Nat : q = n \div base /\ q < n
        BY QuotientLess
      <4>3. d[k] = -q
        BY <3>1, <4>1, <4>2 DEF Quotient
      <4>4. m[-q] = q /\ m[k] = n
        BY <3>1, <4>1
      <4> HIDE DEF d, m
      <4> QED BY <4>2, <4>3, <4>4
    <3>2. CASE ~(k < 0)
      <4>1. PICK n \in Nat \ {0} : n = k
        BY <2>2, <3>2
      <4>2. PICK q \in Nat : q = n \div base /\ q < n
        BY QuotientLess
      <4>3. d[k] = q
        BY <3>2, <4>1, <4>2 DEF Quotient
      <4>4. m[q] = q /\ m[k] = n
        BY <3>2, <4>1
      <4> HIDE DEF d, m
      <4> QED BY <4>2, <4>3, <4>4
    <3> QED BY <3>1, <3>2
  <2> QED BY <2>1, <2>2 DEF Shrinks
<1>2. ASSUME NEW k \in Int, NEW s \in Seq(Int) PROVE H[k][s] \in Seq(Int)
  <2>1. Remainder(k, base) \in Int
    BY QuotientType
  <2>2. H[k][s] = <<Remainder(k, base)>> \o s
    OBVIOUS
  <2> HIDE DEF H
  <2>3. <<Remainder(k, base)>> \in Seq(Int)
    BY <2>1
  <2>4. <<Remainder(k, base)>> \o s \in Seq(Int)
    BY <2>3, ConcatProperties
  <2> QED BY <2>2, <2>4
<1>3. PICK f : Recursion(f, Int, B, b, d, H)
  <2> HIDE DEF B, b, d, H, m
  <2> QED BY <1>1, RecursionExists
<1>4. \A k \in Int : f[k] \in Seq(Int)
  <2>1. \A k \in Int : k \in B => b[k] \in Seq(Int)
    BY EmptySeq
  <2> HIDE DEF B, b, d, H, m
  <2> QED BY <1>1, <1>2, <1>3, <2>1, RecursionStays
<1>5. ASSUME NEW k \in Int
      PROVE  (IF k \in B THEN b[k] ELSE H[k][f[d[k]]])
               = IF k = 0 THEN <<>> ELSE <<Remainder(k, base)>> \o f[Quotient(k, base)]
  <2>1. Quotient(k, base) \in Int /\ d[k] = Quotient(k, base)
    BY QuotientType
  <2>2. f[Quotient(k, base)] \in Seq(Int)
    BY <1>4, <2>1, Zenon
  <2>3. H[k][f[Quotient(k, base)]] = <<Remainder(k, base)>> \o f[Quotient(k, base)]
    BY <2>2, Zenon
  <2>4. (k \in B <=> k = 0) /\ b[k] = <<>>
    OBVIOUS
  <2> HIDE DEF H, d, b, B
  <2> QED BY <2>1, <2>3, <2>4, Zenon
<1>6. f = [k \in Int |-> IF k \in B THEN b[k] ELSE H[k][f[d[k]]]]
  BY <1>3, Zenon DEF Recursion
<1> HIDE DEF H, d, b, B
<1>7. f = [k \in Int |-> IF k = 0 THEN <<>> ELSE <<Remainder(k, base)>> \o f[Quotient(k, base)]]
  BY <1>5, <1>6, Zenon
<1> QED BY <1>7 DEF DigitsEquation

(* The last digit comes first. *)
LEMMA DigitsMore ==
  ASSUME NEW base \in Nat, base >= 2
  PROVE  /\ DigitsOf(0, base) = <<>>
         /\ \A n \in Nat \ {0} : DigitsOf(n, base) = <<n % base>> \o DigitsOf(n \div base, base)
<1> DEFINE f == CHOOSE g : DigitsEquation(g, base)
<1>1. DigitsEquation(f, base)
  <2>1. \E g : DigitsEquation(g, base)
    BY DigitsExist
  <2> QED BY <2>1
<1>2. \A n : DigitsOf(n, base) = f[n]
  BY DEF DigitsOf, DigitsEquation
<1> HIDE DEF f
<1>3. \A k \in Int : f[k] = IF k = 0 THEN <<>> ELSE <<Remainder(k, base)>> \o f[Quotient(k, base)]
  BY <1>1, Zenon DEF DigitsEquation
<1>4. ASSUME NEW n \in Nat \ {0} PROVE f[n] = <<n % base>> \o f[n \div base]
  <2>1. Quotient(n, base) = n \div base /\ Remainder(n, base) = n % base
    <3>1. Quotient(n, base) = n \div base
      BY DEF Quotient
    <3>2. PICK q \in Nat, r \in 0..(base - 1) : n = base * q + r /\ n \div base = q /\ n % base = r
      BY Division
    <3>3. Remainder(n, base) = n - base * q
      BY <3>1, <3>2 DEF Remainder
    <3> QED BY <3>1, <3>2, <3>3
  <2>2. n \in Int /\ n # 0
    OBVIOUS
  <2>3. f[n] = <<Remainder(n, base)>> \o f[Quotient(n, base)]
    BY <1>3, <2>2, Zenon
  <2> QED BY <2>1, <2>3, Zenon
<1>5. f[0] = <<>>
  <2>1. 0 \in Int
    OBVIOUS
  <2> QED BY <1>3, <2>1, Zenon
<1> QED BY <1>2, <1>4, <1>5, Zenon

(* The digits from the first one on, as they are printed. *)
Shown(n, base) == Reverse(DigitsOf(n, base))

(* Reversing a string. *)
LEMMA ReverseType ==
  ASSUME NEW S, NEW s \in Seq(S)
  PROVE  /\ Reverse(s) \in Seq(S) /\ Len(Reverse(s)) = Len(s)
         /\ \A i \in 1..Len(s) : Reverse(s)[i] = s[Len(s) - i + 1]
<1>1. PICK n \in Nat : n = Len(s)
  BY LenProperties
<1>2. \A i \in 1..n : s[n - i + 1] \in S
  <2>1. ASSUME NEW i \in 1..n PROVE s[n - i + 1] \in S
    <3>1. PICK k \in 1..n : k = n - i + 1
      OBVIOUS
    <3> QED BY <1>1, <3>1, ElementOfSeq
  <2> QED BY <2>1
<1>3. Reverse(s) = [i \in 1..n |-> s[n - i + 1]]
  BY <1>1 DEF Reverse
<1> QED BY <1>1, <1>2, <1>3

LEMMA ReverseMore ==
  ASSUME NEW S, NEW x \in S, NEW s \in Seq(S)
  PROVE  Reverse(<<x>> \o s) = Append(Reverse(s), x)
<1>0. PICK n \in Nat : n = Len(s)
  BY LenProperties
<1> DEFINE t == <<x>> \o s
           r == Reverse(s)
           l == Reverse(t)
           a == Append(r, x)
<1>1. t \in Seq(S) /\ Len(t) = 1 + n /\ \A i \in 1..1 + n : t[i] = IF i <= 1 THEN x ELSE s[i - 1]
  <2> DEFINE e == <<x>>
  <2>1. e \in Seq(S) /\ Len(e) = 1 /\ e[1] = x
    OBVIOUS
  <2> HIDE DEF e
  <2>2. /\ e \o s \in Seq(S) /\ Len(e \o s) = Len(e) + Len(s)
        /\ \A i \in 1..Len(e) + Len(s) : (e \o s)[i] = IF i <= Len(e) THEN e[i] ELSE s[i - Len(e)]
    BY <2>1, ConcatProperties, Zenon
  <2>3. t = e \o s
    BY DEF e
  <2> HIDE DEF t
  <2>4. \A i \in 1..1 + n : i <= 1 => i = 1
    OBVIOUS
  <2> QED BY <1>0, <2>1, <2>2, <2>3, <2>4, Zenon
<1> HIDE DEF t
<1>2. r \in Seq(S) /\ Len(r) = n /\ \A i \in 1..n : r[i] = s[n - i + 1]
  BY <1>0, ReverseType
<1>3. l \in Seq(S) /\ Len(l) = 1 + n /\ \A i \in 1..1 + n : l[i] = t[(1 + n) - i + 1]
  BY <1>1, ReverseType
<1> HIDE DEF l, r
<1>4. a \in Seq(S) /\ Len(a) = n + 1 /\ (\A i \in 1..n : a[i] = r[i]) /\ a[n + 1] = x
  BY <1>2, AppendProperties
<1> HIDE DEF a
<1>5. ASSUME NEW i \in 1..1 + n PROVE l[i] = a[i]
  <2>1. PICK k \in 1..1 + n : k = (1 + n) - i + 1
    OBVIOUS
  <2>2. l[i] = t[k]
    BY <1>3, <2>1
  <2>3. CASE i = n + 1
    <3>1. k <= 1
      BY <2>1, <2>3
    <3> QED BY <1>1, <1>4, <2>2, <2>3, <3>1
  <2>4. CASE i # n + 1
    <3>1. i \in 1..n /\ ~(k <= 1) /\ k - 1 = n - i + 1
      BY <2>1, <2>4
    <3>2. t[k] = s[n - i + 1]
      BY <1>1, <3>1
    <3> QED BY <1>2, <1>4, <2>2, <3>1, <3>2
  <2> QED BY <2>3, <2>4
<1>6. l = a
  BY <1>3, <1>4, <1>5, SeqEqual
<1> QED BY <1>6 DEF l, a, t, r

(* Digits are less than their base. *)
LEMMA DigitsType ==
  ASSUME NEW base \in Nat, base >= 2
  PROVE  \A n \in Nat : DigitsOf(n, base) \in Seq(0..(base - 1))
<1> DEFINE T == {n \in Nat : DigitsOf(n, base) \notin Seq(0..(base - 1))}
<1>1. SUFFICES ASSUME T # {} PROVE FALSE
  OBVIOUS
<1>2. PICK n \in T : \A k \in T : n <= k
  BY <1>1, LeastOf
<1>3. n # 0
  <2>1. DigitsOf(0, base) \in Seq(0..(base - 1))
    BY DigitsMore, EmptySeq
  <2> QED BY <2>1
<1>4. PICK q \in Nat : q = n \div base /\ q < n
  BY <1>3, QuotientLess
<1>5. q \notin T
  <2> SUFFICES ASSUME q \in T PROVE FALSE
    OBVIOUS
  <2>1. n <= q
    BY <1>2
  <2> QED BY <1>4, <2>1
<1>6. DigitsOf(q, base) \in Seq(0..(base - 1))
  BY <1>5
<1>7. PICK r \in 0..(base - 1) : r = n % base
  <2>1. PICK p \in Nat, r \in 0..(base - 1) : n % base = r
    <3>1. base \in Nat \ {0}
      OBVIOUS
    <3> QED BY <3>1, Division
  <2> QED BY <2>1
<1>8. DigitsOf(n, base) = <<r>> \o DigitsOf(q, base)
  BY <1>3, <1>4, <1>7, DigitsMore
<1>9. <<r>> \o DigitsOf(q, base) \in Seq(0..(base - 1))
  <2> DEFINE s == DigitsOf(q, base)
  <2> HIDE DEF s
  <2>1. s \in Seq(0..(base - 1)) /\ <<r>> \in Seq(0..(base - 1))
    BY <1>6 DEF s
  <2>2. <<r>> \o s \in Seq(0..(base - 1))
    BY <2>1, ConcatProperties
  <2> QED BY <2>2 DEF s
<1> QED BY <1>8, <1>9

(* In the order they are shown, the last digit comes last. *)
LEMMA ShownMore ==
  ASSUME NEW base \in Nat, base >= 2
  PROVE  /\ Shown(0, base) = <<>>
         /\ \A n \in Nat : Shown(n, base) \in Seq(0..(base - 1))
         /\ \A n \in Nat \ {0} : /\ Shown(n, base) = Append(Shown(n \div base, base), n % base)
                                 /\ n \div base \in Nat /\ n \div base < n
                                 /\ n % base \in 0..(base - 1)
                                 /\ n = base * (n \div base) + (n % base)
<1>1. Shown(0, base) = <<>>
  <2>1. DigitsOf(0, base) = <<>>
    BY DigitsMore
  <2> QED BY <2>1 DEF Shown, Reverse
<1>2. \A n \in Nat : Shown(n, base) \in Seq(0..(base - 1))
  BY DigitsType, ReverseType DEF Shown
<1>3. ASSUME NEW n \in Nat \ {0}
      PROVE  /\ Shown(n, base) = Append(Shown(n \div base, base), n % base)
             /\ n \div base \in Nat /\ n \div base < n
             /\ n % base \in 0..(base - 1)
             /\ n = base * (n \div base) + (n % base)
  <2>0. base \in Nat \ {0}
    OBVIOUS
  <2>1. PICK q \in Nat : q = n \div base /\ q < n
    BY QuotientLess
  <2>2. PICK r \in 0..(base - 1) : r = n % base /\ n = base * q + r
    BY <2>0, <2>1, Division
  <2>3. DigitsOf(n, base) = <<r>> \o DigitsOf(q, base)
    BY <2>1, <2>2, DigitsMore
  <2>4. DigitsOf(q, base) \in Seq(0..(base - 1))
    BY DigitsType
  <2>5. Reverse(<<r>> \o DigitsOf(q, base)) = Append(Reverse(DigitsOf(q, base)), r)
    BY <2>4, ReverseMore
  <2> QED BY <2>1, <2>2, <2>3, <2>5, Zenon DEF Shown
<1> QED BY <1>1, <1>2, <1>3, Zenon
-----------------------------------------------------------------------------
(* Digits are accumulated back into their number. *)
AccEquation(acc, base, digits) ==
  acc = [i \in 0..Len(digits) |-> IF i = 0 THEN 0 ELSE Int_(acc[i - 1] * base + digits[i])]

(* The loop of strToInt, on any digits. *)
LEMMA AccExists ==
  ASSUME NEW base \in Int, NEW digits \in Seq(Int)
  PROVE  \E acc : AccEquation(acc, base, digits)
<1>0. PICK n \in Nat : n = Len(digits)
  BY LenProperties
<1> DEFINE D == 0..n
           B == {0}
           b == [i \in D |-> 0]
           d == [i \in D |-> i - 1]
           H == [i \in D |-> [a \in Int |-> Int_(a * base + digits[i])]]
           m == [i \in D |-> i]
<1>1. m \in [D -> Nat] /\ Shrinks(D, B, d, m)
  BY DEF Shrinks
<1>2. ASSUME NEW i \in D, i \notin B, NEW a \in Int PROVE H[i][a] \in Int
  <2>1. digits[i] \in Int
    <3>1. i \in 1..Len(digits)
      BY <1>0, <1>2
    <3> QED BY <3>1, ElementOfSeq
  <2>2. PICK c \in Int : c = a * base + digits[i]
    BY <2>1
  <2>3. Int_(c) \in Int
    BY IntWraps
  <2>4. H[i][a] = Int_(c)
    BY <2>2
  <2> QED BY <2>3, <2>4, Zenon
<1>3. PICK f : Recursion(f, D, B, b, d, H)
  <2> HIDE DEF D, B, b, d, H, m
  <2> QED BY <1>1, RecursionExists
<1>4. \A i \in D : f[i] \in Int
  <2>1. \A i \in D : i \in B => b[i] \in Int
    OBVIOUS
  <2> HIDE DEF D, B, b, d, H, m
  <2> QED BY <1>1, <1>2, <1>3, <2>1, RecursionStays
<1>5. ASSUME NEW i \in D
      PROVE  (IF i \in B THEN b[i] ELSE H[i][f[d[i]]])
               = IF i = 0 THEN 0 ELSE Int_(f[i - 1] * base + digits[i])
  <2>1. CASE i = 0
    BY <2>1
  <2>2. CASE i # 0
    <3>1. i - 1 \in D /\ d[i] = i - 1 /\ i \notin B
      BY <2>2
    <3>2. f[i - 1] \in Int
      BY <1>4, <3>1, Zenon
    <3>3. H[i][f[i - 1]] = Int_(f[i - 1] * base + digits[i])
      BY <3>2, Zenon
    <3> HIDE DEF H, d, b, B
    <3> QED BY <2>2, <3>1, <3>3, Zenon
  <2> QED BY <2>1, <2>2
<1>6. f = [i \in D |-> IF i \in B THEN b[i] ELSE H[i][f[d[i]]]]
  BY <1>3, Zenon DEF Recursion
<1> HIDE DEF H, d, b, B
<1>7. f = [i \in D |-> IF i = 0 THEN 0 ELSE Int_(f[i - 1] * base + digits[i])]
  BY <1>5, <1>6, Zenon
<1> QED BY <1>0, <1>7 DEF AccEquation

LEMMA AccumulatedBy ==
  ASSUME NEW base \in Int, NEW digits \in Seq(Int)
  PROVE  \E acc : AccEquation(acc, base, digits) /\ Accumulated(base, digits) = acc[Len(digits)]
<1> DEFINE f == CHOOSE g : AccEquation(g, base, digits)
<1>1. AccEquation(f, base, digits)
  <2>1. \E g : AccEquation(g, base, digits)
    BY AccExists
  <2> QED BY <2>1
<1>2. Accumulated(base, digits) = f[Len(digits)]
  BY DEF Accumulated, AccEquation
<1> QED BY <1>1, <1>2

LEMMA AccumulatedNone == ASSUME NEW base \in Int PROVE Accumulated(base, <<>>) = 0
<1>1. <<>> \in Seq(Int)
  BY EmptySeq
<1>2. PICK f : AccEquation(f, base, <<>>) /\ Accumulated(base, <<>>) = f[Len(<<>>)]
  BY <1>1, AccumulatedBy
<1>3. Len(<<>>) = 0 /\ 0 \in 0..0
  OBVIOUS
<1>4. f[0] = 0
  BY <1>2, <1>3 DEF AccEquation
<1> QED BY <1>2, <1>3, <1>4

(* Another digit moves the number up by its base. *)
LEMMA AccumulatedMore ==
  ASSUME NEW base \in Int, NEW digits \in Seq(Int), NEW x \in Int
  PROVE  Accumulated(base, Append(digits, x)) = Int_(Accumulated(base, digits) * base + x)
<1> DEFINE more == Append(digits, x)
<1>0. PICK n \in Nat : n = Len(digits)
  BY LenProperties
<1>1. PICK N \in Nat : N = n + 1
  OBVIOUS
<1>2. more \in Seq(Int) /\ Len(more) = N /\ (\A i \in 1..n : more[i] = digits[i]) /\ more[N] = x
  BY <1>0, <1>1, AppendProperties
<1> HIDE DEF more
<1>3. PICK f : AccEquation(f, base, digits) /\ Accumulated(base, digits) = f[n]
  BY <1>0, AccumulatedBy
<1>4. PICK g : AccEquation(g, base, more) /\ Accumulated(base, more) = g[N]
  BY <1>2, AccumulatedBy
<1>5. \A i \in 0..n : f[i] = IF i = 0 THEN 0 ELSE Int_(f[i - 1] * base + digits[i])
  BY <1>0, <1>3, Zenon DEF AccEquation
<1>6. \A i \in 0..N : g[i] = IF i = 0 THEN 0 ELSE Int_(g[i - 1] * base + more[i])
  BY <1>2, <1>4, Zenon DEF AccEquation
<1> DEFINE T == {i \in 0..n : f[i] # g[i]}
<1>7. T = {}
  <2> SUFFICES ASSUME T # {} PROVE FALSE
    OBVIOUS
  <2>1. PICK i \in T : \A k \in T : i <= k
    <3>1. T \subseteq Nat
      OBVIOUS
    <3> HIDE DEF T
    <3> QED BY <3>1, LeastOf
  <2>2. i \in 0..n /\ i \in 0..N /\ f[i] # g[i]
    BY <1>1
  <2>3. i # 0
    BY <1>5, <1>6, <2>2
  <2>4. PICK j \in 0..n : j = i - 1 /\ j < i
    BY <2>2, <2>3
  <2>5. j \notin T
    <3> SUFFICES ASSUME j \in T PROVE FALSE
      OBVIOUS
    <3>1. i <= j
      BY <2>1, Zenon
    <3> QED BY <2>2, <2>4, <3>1
  <2>6. f[j] = g[j]
    BY <2>5
  <2>7. more[i] = digits[i]
    BY <1>2, <2>2, <2>3
  <2>8. f[i] = Int_(f[j] * base + digits[i])
    BY <1>5, <2>2, <2>3, <2>4, Zenon
  <2>9. g[i] = Int_(g[j] * base + more[i])
    BY <1>6, <2>2, <2>3, <2>4, Zenon
  <2> QED BY <2>2, <2>6, <2>7, <2>8, <2>9, Zenon
<1>8. f[n] = g[n]
  <2>1. n \in 0..n
    OBVIOUS
  <2> QED BY <1>7, <2>1
<1>9. g[N] = Int_(g[n] * base + x)
  <2>1. N \in 0..N /\ N # 0 /\ N - 1 = n
    BY <1>1
  <2> QED BY <1>2, <1>6, <2>1, Zenon
<1> QED BY <1>3, <1>4, <1>8, <1>9, Zenon DEF more

(* What is printed of a number that fits is accumulated to it. *)
LEMMA ShownAccumulates ==
  ASSUME NEW base \in Nat, base >= 2
  PROVE  \A n \in 0..(Half - 1) : Accumulated(base, Shown(n, base)) = n
<1> DEFINE T == {n \in 0..(Half - 1) : Accumulated(base, Shown(n, base)) # n}
<1>0. Half \in Nat /\ base \in Int /\ 0..(base - 1) \subseteq Int
  BY HalfType
<1>1. SUFFICES ASSUME T # {} PROVE FALSE
  OBVIOUS
<1>2. PICK n \in T : \A k \in T : n <= k
  <2>1. T \subseteq Nat
    BY <1>0
  <2> HIDE DEF T
  <2> QED BY <1>1, <2>1, LeastOf
<1>3. n \in Nat /\ n < Half /\ n \in 0..(Half - 1) /\ Accumulated(base, Shown(n, base)) # n
  BY <1>0
<1>4. n # 0
  <2>1. Accumulated(base, Shown(0, base)) = 0
    BY <1>0, AccumulatedNone, ShownMore
  <2> QED BY <1>3, <2>1
<1>5. PICK q \in Nat : \E r \in 0..(base - 1) : Shown(n, base) = Append(Shown(q, base), r) /\
        q < n /\ n = base * q + r
  <2>1. n \in Nat \ {0}
    BY <1>3, <1>4
  <2> QED BY <2>1, ShownMore, Zenon
<1>6. PICK r \in 0..(base - 1) : Shown(n, base) = Append(Shown(q, base), r) /\ q < n /\
        n = base * q + r
  BY <1>5
<1>7. Accumulated(base, Shown(q, base)) = q
  <2>1. q \notin T
    <3> SUFFICES ASSUME q \in T PROVE FALSE
      OBVIOUS
    <3>1. n <= q
      BY <1>2, Zenon
    <3> QED BY <1>3, <1>6, <3>1
  <2>2. q \in 0..(Half - 1)
    BY <1>0, <1>3, <1>6
  <2> QED BY <2>1, <2>2
<1>8. Shown(q, base) \in Seq(Int) /\ r \in Int
  <2>1. Shown(q, base) \in Seq(0..(base - 1))
    BY ShownMore
  <2> QED BY <1>0, <2>1, SeqMonotonic
<1>9. Accumulated(base, Shown(n, base)) = Int_(q * base + r)
  BY <1>0, <1>6, <1>7, <1>8, AccumulatedMore
<1>10. q * base + r = n
  BY <1>6
<1>11. Int_(n) = n
  BY <1>0, <1>3, IntFits
<1> QED BY <1>3, <1>9, <1>10, <1>11
-----------------------------------------------------------------------------
(* The digits of a number as it is printed, and their codes. *)
Digits(n, base) == IF n = 0 THEN <<0>> ELSE Shown(n, base)
Coded(digits) == [i \in DOMAIN digits |-> DigitCode(digits[i])]

LEMMA DigitsAreNumber ==
  ASSUME NEW base \in Nat, base >= 2, NEW n \in Nat
  PROVE  /\ Digits(n, base) \in Seq(0..(base - 1))
         /\ Len(Digits(n, base)) \in Nat /\ Len(Digits(n, base)) >= 1
         /\ n < Half => Accumulated(base, Digits(n, base)) = n
<1>0. base \in Int /\ Half \in Nat /\ Half >= 2
  BY HalfType
<1>1. CASE n = 0
  <2>1. Digits(n, base) = <<0>> /\ <<0>> = Append(<<>>, 0)
    BY <1>1 DEF Digits
  <2>2. <<0>> \in Seq(0..(base - 1)) /\ Len(<<0>>) = 1
    OBVIOUS
  <2>3. Accumulated(base, Append(<<>>, 0)) = Int_(Accumulated(base, <<>>) * base + 0)
    <3>1. <<>> \in Seq(Int) /\ 0 \in Int
      BY EmptySeq
    <3> QED BY <1>0, <3>1, AccumulatedMore
  <2>4. Accumulated(base, <<>>) * base + 0 = 0
    BY <1>0, AccumulatedNone
  <2>5. Int_(0) = 0
    BY <1>0, IntFits
  <2>6. Accumulated(base, Digits(n, base)) = 0
    BY <2>1, <2>3, <2>4, <2>5, Zenon
  <2>7. Digits(n, base) \in Seq(0..(base - 1)) /\ Len(Digits(n, base)) = 1
    BY <2>1, <2>2, Zenon
  <2> QED BY <1>1, <2>6, <2>7, SMTT(30)
<1>2. CASE n # 0
  <2>1. Digits(n, base) = Shown(n, base)
    BY <1>2 DEF Digits
  <2>2. Shown(n, base) \in Seq(0..(base - 1))
    BY ShownMore
  <2>3. n < Half => Accumulated(base, Shown(n, base)) = n
    BY <1>0, ShownAccumulates
  <2>4. Len(Shown(n, base)) \in Nat /\ Len(Shown(n, base)) >= 1
    <3>1. n \in Nat \ {0}
      BY <1>2
    <3>2. PICK q \in Nat, r \in 0..(base - 1) : Shown(n, base) = Append(Shown(q, base), r)
      BY <3>1, ShownMore
    <3>3. Shown(q, base) \in Seq(0..(base - 1))
      BY ShownMore
    <3>4. Len(Append(Shown(q, base), r)) = Len(Shown(q, base)) + 1 /\ Len(Shown(q, base)) \in Nat
      BY <3>3, AppendProperties, LenProperties
    <3> QED BY <3>2, <3>4
  <2> QED BY <2>1, <2>2, <2>3, <2>4, Zenon
<1> QED BY <1>1, <1>2

(* Codes of digits, in either order. *)
LEMMA CodedType ==
  ASSUME NEW d \in Seq(0..15)
  PROVE  /\ Coded(d) \in Seq(Nat) /\ Len(Coded(d)) = Len(d)
         /\ \A i \in 1..Len(d) : Coded(d)[i] = DigitCode(d[i]) /\ d[i] \in 0..15
<1>1. PICK n \in Nat : n = Len(d) /\ DOMAIN d = 1..n
  BY LenProperties
<1>2. \A i \in 1..n : d[i] \in 0..15
  BY <1>1, ElementOfSeq
<1>3. \A i \in 1..n : DigitCode(d[i]) \in Nat
  <2>1. \A x \in 0..15 : DigitCode(x) \in Nat
    BY DEF DigitCode
  <2> QED BY <1>2, <2>1
<1>4. Coded(d) = [i \in 1..n |-> DigitCode(d[i])]
  BY <1>1 DEF Coded
<1> QED BY <1>1, <1>2, <1>3, <1>4

LEMMA CodedReverse ==
  ASSUME NEW d \in Seq(0..15)
  PROVE  Reverse(Coded(d)) = Coded(Reverse(d))
<1> DEFINE c == Coded(d)
           r == Reverse(d)
           x == Reverse(c)
           y == Coded(r)
<1>1. PICK n \in Nat : n = Len(d)
  BY LenProperties
<1>2. c \in Seq(Nat) /\ Len(c) = n /\ \A i \in 1..n : c[i] = DigitCode(d[i])
  BY <1>1, CodedType
<1>3. r \in Seq(0..15) /\ Len(r) = n /\ \A i \in 1..n : r[i] = d[n - i + 1]
  BY <1>1, ReverseType
<1> HIDE DEF c, r
<1>4. x \in Seq(Nat) /\ Len(x) = n /\ \A i \in 1..n : x[i] = c[n - i + 1]
  BY <1>2, ReverseType
<1>5. y \in Seq(Nat) /\ Len(y) = n /\ \A i \in 1..n : y[i] = DigitCode(r[i])
  BY <1>3, CodedType
<1> HIDE DEF x, y
<1>6. ASSUME NEW i \in 1..n PROVE x[i] = y[i]
  <2>1. PICK k \in 1..n : k = n - i + 1
    OBVIOUS
  <2>2. x[i] = c[k] /\ r[i] = d[k]
    BY <1>3, <1>4, <2>1
  <2> QED BY <1>2, <1>5, <2>2
<1>7. x = y
  BY <1>4, <1>5, <1>6, SeqEqual
<1> QED BY <1>7 DEF x, y, c, r

LEMMA ReverseLast ==
  ASSUME NEW s \in Seq(Nat), NEW x \in Nat
  PROVE  Reverse(s \o <<x>>) = <<x>> \o Reverse(s)
<1>0. PICK n \in Nat : n = Len(s)
  BY LenProperties
<1> DEFINE e == <<x>>
           t == s \o e
           r == Reverse(s)
           l == Reverse(t)
           a == e \o r
<1>N. PICK N \in Nat : N = n + 1 /\ N = 1 + n
  OBVIOUS
<1>1. e \in Seq(Nat) /\ Len(e) = 1 /\ e[1] = x
  OBVIOUS
<1> HIDE DEF e
<1>2. /\ t \in Seq(Nat) /\ Len(t) = N
      /\ \A i \in 1..N : t[i] = IF i <= n THEN s[i] ELSE e[i - n]
  <2>1. /\ s \o e \in Seq(Nat) /\ Len(s \o e) = Len(s) + Len(e)
        /\ \A i \in 1..Len(s) + Len(e) : (s \o e)[i] = IF i <= Len(s) THEN s[i] ELSE e[i - Len(s)]
    BY <1>1, ConcatProperties, Zenon
  <2> QED BY <1>0, <1>1, <1>N, <2>1, Zenon
<1> HIDE DEF t
<1>3. r \in Seq(Nat) /\ Len(r) = n /\ \A i \in 1..n : r[i] = s[n - i + 1]
  BY <1>0, ReverseType
<1> HIDE DEF r
<1>4. l \in Seq(Nat) /\ Len(l) = N /\ \A i \in 1..N : l[i] = t[N - i + 1]
  BY <1>2, ReverseType
<1>5. /\ a \in Seq(Nat) /\ Len(a) = N
      /\ \A i \in 1..N : a[i] = IF i <= 1 THEN e[i] ELSE r[i - 1]
  <2>0. e \in Seq(Nat) /\ r \in Seq(Nat)
    BY <1>1, <1>3
  <2>1. /\ e \o r \in Seq(Nat) /\ Len(e \o r) = Len(e) + Len(r)
        /\ \A i \in 1..Len(e) + Len(r) : (e \o r)[i] = IF i <= Len(e) THEN e[i] ELSE r[i - Len(e)]
    BY <2>0, ConcatProperties, Zenon
  <2> QED BY <1>1, <1>3, <1>N, <2>1, Zenon
<1> HIDE DEF l, a
<1>6. ASSUME NEW i \in 1..N PROVE l[i] = a[i]
  <2>1. PICK k \in 1..N : k = N - i + 1
    OBVIOUS
  <2>2. l[i] = t[k]
    BY <1>4, <2>1
  <2>3. CASE i = 1
    <3>1. ~(k <= n) /\ k - n = 1 /\ i <= 1
      BY <1>N, <2>1, <2>3
    <3> QED BY <1>2, <1>5, <2>2, <2>3, <3>1
  <2>4. CASE i # 1
    <3>1. PICK j \in 1..n : j = i - 1
      BY <1>N, <2>4
    <3>2. k <= n /\ k = n - j + 1 /\ ~(i <= 1)
      BY <1>N, <2>1, <2>4, <3>1
    <3>3. a[i] = r[j] /\ r[j] = s[k] /\ t[k] = s[k]
      BY <1>2, <1>3, <1>5, <2>2, <3>1, <3>2
    <3> QED BY <2>2, <3>3
  <2> QED BY <2>3, <2>4
<1>7. Len(l) = Len(a) /\ \A i \in 1..Len(l) : l[i] = a[i]
  BY <1>4, <1>5, <1>6
<1>8. l = a
  BY <1>4, <1>5, <1>7, SeqEqual
<1> QED BY <1>8 DEF l, a, t, r, e

DigitsCoded(value, base) ==
  [i \in DOMAIN DigitsOf(value, base) |-> DigitCode(DigitsOf(value, base)[i])]

(* The codes of the digits, the last one first, a 0 for no digit. *)
LEMMA CodesReversed ==
  ASSUME NEW base \in 2..16, NEW n \in Nat
  PROVE  LET codes == IF DigitsCoded(n, base) = <<>> THEN <<Zero>> ELSE DigitsCoded(n, base)
         IN codes \in Seq(Nat) /\ Reverse(codes) = Coded(Digits(n, base))
<1> DEFINE d == DigitsOf(n, base)
           codes == IF DigitsCoded(n, base) = <<>> THEN <<Zero>> ELSE DigitsCoded(n, base)
<1>1. base \in Nat /\ base >= 2 /\ 0..(base - 1) \subseteq 0..15
  OBVIOUS
<1>2. d \in Seq(0..15)
  <2>1. d \in Seq(0..(base - 1))
    BY <1>1, DigitsType
  <2> HIDE DEF d
  <2> QED BY <1>1, <2>1, SeqMonotonic
<1>3. DigitsCoded(n, base) = Coded(d)
  BY DEF DigitsCoded, Coded
<1>4. CASE n = 0
  <2>1. d = <<>>
    BY <1>1, <1>4, DigitsMore
  <2>2. Coded(d) = <<>>
    <3> HIDE DEF d
    <3>1. Coded(d) = [i \in {} |-> DigitCode(d[i])]
      BY <2>1 DEF Coded
    <3>2. Coded(d) \in Seq(Nat) /\ Len(Coded(d)) = 0
      <4>1. Len(d) = 0
        BY <2>1
      <4> QED BY <1>2, <4>1, CodedType
    <3> QED BY <3>2, EmptySeq
  <2>3. codes = <<Zero>>
    BY <1>3, <2>2
  <2>4. Digits(n, base) = <<0>>
    BY <1>4 DEF Digits
  <2>5. Coded(<<0>>) = <<Zero>> /\ Reverse(<<Zero>>) = <<Zero>> /\ <<Zero>> \in Seq(Nat)
    BY DEF Coded, DigitCode, Zero, Reverse
  <2> QED BY <2>3, <2>4, <2>5
<1>5. CASE n # 0
  <2>1. Digits(n, base) = Reverse(d)
    BY <1>5 DEF Digits, Shown
  <2>2. Len(d) >= 1
    <3>1. Len(Reverse(d)) >= 1
      BY <1>1, <2>1, DigitsAreNumber
    <3>2. Len(Reverse(d)) = Len(d)
      <4> HIDE DEF d
      <4> QED BY <1>2, ReverseType
    <3> QED BY <3>1, <3>2
  <2> HIDE DEF d
  <2>3. Coded(d) \in Seq(Nat) /\ Len(Coded(d)) = Len(d) /\ Len(d) \in Nat
    BY <1>2, CodedType
  <2>4. Coded(d) # <<>>
    BY <2>2, <2>3
  <2>5. codes = Coded(d)
    BY <1>3, <2>4
  <2>6. Reverse(Coded(d)) = Coded(Reverse(d))
    BY <1>2, CodedReverse
  <2> QED BY <2>1, <2>3, <2>5, <2>6, Zenon
<1> QED BY <1>4, <1>5

(* intToStr shows a number that is not INT_MIN by its digits, and its sign *)
(* in base 10 only.                                                        *)
LEMMA IntToStr ==
  ASSUME NEW base \in 2..16, NEW value \in Int, -Half < value, value < Half
  PROVE  intToStr(value, base) =
           IF value < 0
           THEN IF base = 10 THEN <<Minus>> \o Coded(Digits(-value, base))
                  ELSE Coded(Digits(-value, base))
           ELSE Coded(Digits(value, base))
<1>0. Half \in Nat
  BY HalfType
<1>1. PICK n \in Nat : n = abs(value) /\ n = IF value < 0 THEN -value ELSE value
  <2>1. CASE value < 0
    <3>1. PICK n \in Nat : n = -value /\ n < Half
      BY <1>0, <2>1
    <3>2. Int_(n) = n
      BY <1>0, <3>1, IntFits
    <3> QED BY <2>1, <3>1, <3>2 DEF abs
  <2>2. CASE ~(value < 0)
    BY <2>2 DEF abs
  <2> QED BY <2>1, <2>2
<1> DEFINE codes == IF DigitsCoded(n, base) = <<>> THEN <<Zero>> ELSE DigitsCoded(n, base)
<1>2. codes \in Seq(Nat) /\ Reverse(codes) = Coded(Digits(n, base))
  BY CodesReversed
<1>3. intToStr(value, base) = Reverse(codes \o (IF value < 0 /\ base = 10 THEN <<Minus>> ELSE <<>>))
  BY <1>1, Zenon DEF intToStr, DigitsCoded
<1> HIDE DEF codes
<1>4. CASE value < 0 /\ base = 10
  <2>1. intToStr(value, base) = Reverse(codes \o <<Minus>>)
    BY <1>3, <1>4, Zenon
  <2>2. Minus \in Nat
    BY DEF Minus
  <2>3. Reverse(codes \o <<Minus>>) = <<Minus>> \o Reverse(codes)
    BY <1>2, <2>2, ReverseLast
  <2>4. n = -value
    BY <1>1, <1>4
  <2> QED BY <1>2, <1>4, <2>1, <2>3, <2>4, Zenon
<1>5. CASE ~(value < 0 /\ base = 10)
  <2>1. intToStr(value, base) = Reverse(codes \o <<>>)
    BY <1>3, <1>5, Zenon
  <2>2. codes \o <<>> = codes
    BY <1>2, ConcatEmptySeq, Zenon
  <2>3. intToStr(value, base) = Coded(Digits(n, base))
    BY <1>2, <2>1, <2>2, Zenon
  <2>4. CASE value < 0
    <3>1. n = -value /\ ~(base = 10)
      BY <1>1, <1>5, <2>4
    <3> QED BY <2>3, <2>4, <3>1, Zenon
  <2>5. CASE ~(value < 0)
    <3>1. n = value
      BY <1>1, <2>5
    <3> QED BY <2>3, <2>5, <3>1, Zenon
  <2> QED BY <2>4, <2>5
<1> QED BY <1>4, <1>5

(* uintToBase of the kernel shows the same digits. *)
LEMMA UintToBase ==
  ASSUME NEW base \in 2..16, NEW n \in Nat
  PROVE  uintToBase(n, base) = Coded(Digits(n, base))
<1> DEFINE d == DigitsOf(n, base)
<1>1. base \in Nat /\ base >= 2 /\ 0..(base - 1) \subseteq 0..15
  OBVIOUS
<1>2. d \in Seq(0..15)
  <2>1. d \in Seq(0..(base - 1))
    BY <1>1, DigitsType
  <2> HIDE DEF d
  <2> QED BY <1>1, <2>1, SeqMonotonic
<1>3. uintToBase(n, base) = IF n = 0 THEN <<Zero>> ELSE Reverse(Coded(d))
  BY DEF uintToBase, Coded
<1>4. Reverse(Coded(d)) = Coded(Reverse(d))
  <2> HIDE DEF d
  <2> QED BY <1>2, CodedReverse
<1>5. CASE n = 0
  <2>1. Coded(<<0>>) = <<Zero>>
    BY DEF Coded, DigitCode, Zero
  <2>2. Digits(n, base) = <<0>>
    BY <1>5 DEF Digits
  <2> QED BY <1>3, <1>5, <2>1, <2>2, Zenon
<1>6. CASE n # 0
  BY <1>3, <1>4, <1>6, Zenon DEF Digits, Shown
<1> QED BY <1>5, <1>6
-----------------------------------------------------------------------------
(* Reading a number. *)
NotDigit(body) == SelectInSeq(body, LAMBDA ch : ~isdigit(ch))
Leading(body) == IF NotDigit(body) = 0 THEN body ELSE SubSeq(body, 1, NotDigit(body) - 1)
ValueOf(codes) == Accumulated(10, [i \in DOMAIN codes |-> codes[i] - Zero])
Negative(str) == str # <<>> /\ str[1] = Minus
Body(str) == IF Negative(str) THEN Tail(str) ELSE str

(* What strToInt reads: the digits up to the first character that is none. *)
LEMMA StrToIntIs ==
  ASSUME NEW str
  PROVE  /\ strToInt(str).value = IF Negative(str) /\ NotDigit(Body(str)) = 0
                                  THEN Int_(-ValueOf(Leading(Body(str))))
                                         ELSE ValueOf(Leading(Body(str)))
         /\ strToInt(str).size = Len(Leading(Body(str))) + (IF Negative(str) THEN 1 ELSE 0)
         /\ strToInt(str) = [value |-> strToInt(str).value, size |-> strToInt(str).size]
BY DEF strToInt, NotDigit, Leading, ValueOf, Negative, Body

LEMMA NotDigitIs ==
  ASSUME NEW body \in Seq(Nat)
  PROVE  /\ NotDigit(body) \in 0..Len(body)
         /\ NotDigit(body) = 0 => \A i \in 1..Len(body) : isdigit(body[i])
         /\ NotDigit(body) # 0 => /\ ~isdigit(body[NotDigit(body)])
                                  /\ \A i \in 1..Len(body) : i < NotDigit(body) => isdigit(body[i])
<1> DEFINE I == {i \in 1..Len(body) : ~isdigit(body[i])}
<1>0. PICK n \in Nat : n = Len(body)
  BY LenProperties
<1>1. NotDigit(body) = IF I # {} THEN Min(I) ELSE 0
  BY DEF NotDigit, SelectInSeq
<1>2. CASE I = {}
  BY <1>0, <1>1, <1>2
<1>3. CASE I # {}
  <2>1. I \subseteq Nat
    OBVIOUS
  <2>2. PICK i \in I : \A j \in I : i <= j
    <3> HIDE DEF I
    <3> QED BY <1>3, <2>1, LeastOf
  <2>3. Min(I) = i
    <3>1. \A x \in I : (\A y \in I : x <= y) => x = i
      <4> SUFFICES ASSUME NEW x \in I, \A y \in I : x <= y PROVE x = i
        OBVIOUS
      <4>1. x <= i /\ i <= x /\ x \in Nat /\ i \in Nat
        BY <2>1, <2>2
      <4> QED BY <4>1
    <3> HIDE DEF I
    <3> QED BY <2>2, <3>1 DEF Min
  <2>4. NotDigit(body) = i /\ i \in 1..n /\ i # 0 /\ ~isdigit(body[i])
    BY <1>0, <1>1, <1>3, <2>3
  <2>5. ASSUME NEW k \in 1..n, k < i PROVE isdigit(body[k])
    <3> SUFFICES ASSUME ~isdigit(body[k]) PROVE FALSE
      OBVIOUS
    <3>1. i <= k
      BY <1>0, <2>2
    <3> QED BY <2>4, <2>5, <3>1
  <2> QED BY <1>0, <2>4, <2>5
<1> QED BY <1>2, <1>3

LEMMA LeadingIs ==
  ASSUME NEW body \in Seq(Nat)
  PROVE  /\ Leading(body) \in Seq(Nat) /\ Len(Leading(body)) \in 0..Len(body)
         /\ NotDigit(body) = 0 => Leading(body) = body
         /\ NotDigit(body) # 0 => Len(Leading(body)) = NotDigit(body) - 1
         /\ \A i \in 1..Len(Leading(body)) : Leading(body)[i] = body[i]
<1>0. PICK n \in Nat : n = Len(body)
  BY LenProperties
<1>1. PICK stop \in 0..n : stop = NotDigit(body)
  BY <1>0, NotDigitIs
<1>2. CASE stop = 0
  BY <1>0, <1>1, <1>2 DEF Leading
<1>3. CASE stop # 0
  <2>1. PICK e \in Nat : e = stop - 1 /\ e <= n /\ 1 \in Nat \ {0} /\ (1 <= e => e - 1 + 1 = e) /\
          (~(1 <= e) => e = 0)
    BY <1>1, <1>3
  <2>0. e <= Len(body) /\ 1 \in Nat \ {0}
    BY <1>0, <2>1
  <2>2. /\ SubSeq(body, 1, e) \in Seq(Nat)
        /\ Len(SubSeq(body, 1, e)) = IF 1 <= e THEN e - 1 + 1 ELSE 0
        /\ \A i \in 1..(e - 1 + 1) : SubSeq(body, 1, e)[i] = body[1 + i - 1]
    BY <2>0, Part
  <2>3. Leading(body) = SubSeq(body, 1, e)
    BY <1>1, <1>3, <2>1, Zenon DEF Leading
  <2>4. Len(Leading(body)) = e
    BY <2>1, <2>2, <2>3, Zenon
  <2>5. \A i \in 1..e : Leading(body)[i] = body[i]
    <3>1. ASSUME NEW i \in 1..e PROVE Leading(body)[i] = body[i]
      <4>1. i \in 1..(e - 1 + 1) /\ 1 + i - 1 = i
        BY <2>1
      <4> QED BY <2>2, <2>3, <4>1, Zenon
    <3> QED BY <3>1
  <2>6. e \in 0..n
    BY <2>1
  <2>7. Leading(body) \in Seq(Nat)
    BY <2>2, <2>3, Zenon
  <2> QED BY <1>0, <1>1, <1>3, <2>1, <2>4, <2>5, <2>6, <2>7
<1> QED BY <1>2, <1>3

LEMMA BodyIs ==
  ASSUME NEW str \in Seq(Nat)
  PROVE  /\ Body(str) \in Seq(Nat)
         /\ Negative(str) => Len(Body(str)) = Len(str) - 1 /\ Len(str) >= 1
         /\ ~Negative(str) => Body(str) = str
<1>1. CASE Negative(str)
  <2>1. str # <<>>
    BY <1>1 DEF Negative
  <2>2. Tail(str) \in Seq(Nat) /\ Len(Tail(str)) = Len(str) - 1 /\ Len(str) \in Nat /\ Len(str) >= 1
    BY <2>1, HeadTailProperties, EmptySeq
  <2> QED BY <1>1, <2>2 DEF Body
<1>2. CASE ~Negative(str)
  BY <1>2 DEF Body
<1> QED BY <1>1, <1>2

(* strToInt takes no more than there is. *)
LEMMA SizeFits ==
  ASSUME NEW str \in Seq(Nat)
  PROVE  strToInt(str).size \in 0..Len(str)
<1>1. PICK b \in Seq(Nat) : b = Body(str)
  BY BodyIs
<1>2. PICK l \in Nat, m \in Nat, n \in Nat : l = Len(Leading(b)) /\ m = Len(b) /\ n = Len(str) /\
        l <= m
  BY LeadingIs, LenProperties
<1>3. strToInt(str).size = l + (IF Negative(str) THEN 1 ELSE 0)
  BY <1>1, <1>2, StrToIntIs
<1>4. CASE Negative(str)
  <2>1. m = n - 1
    BY <1>1, <1>2, <1>4, BodyIs
  <2> QED BY <1>2, <1>3, <1>4, <2>1
<1>5. CASE ~Negative(str)
  <2>1. m = n
    BY <1>1, <1>2, <1>5, BodyIs
  <2> QED BY <1>2, <1>3, <1>5, <2>1
<1> QED BY <1>4, <1>5
-----------------------------------------------------------------------------
(* What is read of the codes of decimal digits. *)
LEMMA DecimalCode == \A x \in 0..9 : DigitCode(x) = 48 + x /\ isdigit(DigitCode(x)) /\
                       DigitCode(x) - Zero = x /\ DigitCode(x) # Minus
BY DEF DigitCode, isdigit, Zero, Minus

LEMMA DecimalsCoded ==
  ASSUME NEW d \in Seq(0..9)
  PROVE  /\ Coded(d) \in Seq(Nat) /\ Len(Coded(d)) = Len(d)
         /\ \A i \in 1..Len(d) : /\ d[i] \in 0..9 /\ Coded(d)[i] = DigitCode(d[i]) /\ isdigit(Coded(d)[i])
                                 /\ Coded(d)[i] - Zero = d[i] /\ Coded(d)[i] # Minus
<1>1. d \in Seq(0..15)
  <2>1. 0..9 \subseteq 0..15
    OBVIOUS
  <2> QED BY <2>1, SeqMonotonic
<1>2. Coded(d) \in Seq(Nat) /\ Len(Coded(d)) = Len(d) /\
        \A i \in 1..Len(d) : Coded(d)[i] = DigitCode(d[i])
  BY <1>1, CodedType
<1>3. \A i \in 1..Len(d) : d[i] \in 0..9
  BY LenProperties, ElementOfSeq
<1> QED BY <1>2, <1>3, DecimalCode

LEMMA ValueOfCoded ==
  ASSUME NEW d \in Seq(0..9)
  PROVE  ValueOf(Coded(d)) = Accumulated(10, d)
<1> DEFINE c == Coded(d)
           v == [i \in DOMAIN c |-> c[i] - Zero]
<1>0. PICK n \in Nat : n = Len(d)
  BY LenProperties
<1>1. c \in Seq(Nat) /\ Len(c) = n /\ \A i \in 1..n : c[i] - Zero = d[i] /\ d[i] \in 0..9
  BY <1>0, DecimalsCoded
<1> HIDE DEF c
<1>2. DOMAIN c = 1..n
  BY <1>1, LenProperties
<1>3. v = [i \in 1..n |-> d[i]]
  BY <1>1, <1>2, Zenon
<1> HIDE DEF v
<1>4. v \in Seq(0..9) /\ Len(v) = n /\ \A i \in 1..n : v[i] = d[i]
  BY <1>1, <1>3
<1>5. v = d
  BY <1>0, <1>4, SeqEqual
<1> QED BY <1>5, Zenon DEF ValueOf, v, c

(* Behind the codes of digits strToInt stops. *)
LEMMA LeadingCoded ==
  ASSUME NEW d \in Seq(0..9), Len(d) >= 1, NEW rest \in Seq(Nat), rest = <<>> \/ ~isdigit(rest[1])
  PROVE  /\ Leading(Coded(d) \o rest) = Coded(d)
         /\ NotDigit(Coded(d) \o rest) = 0 <=> rest = <<>>
         /\ ~Negative(Coded(d) \o rest)
         /\ Coded(d) \o rest \in Seq(Nat)
<1> DEFINE c == Coded(d)
           s == c \o rest
           l == Leading(s)
<1>0. PICK n \in Nat : n = Len(d) /\ n >= 1
  BY LenProperties
<1>1. PICK m \in Nat : m = Len(rest) /\ (rest # <<>> => m >= 1) /\ (rest = <<>> => m = 0)
  BY LenProperties, EmptySeq
<1>2. c \in Seq(Nat) /\ Len(c) = n /\ \A i \in 1..n : isdigit(c[i]) /\ c[i] # Minus
  BY <1>0, DecimalsCoded
<1> HIDE DEF c
<1>3. PICK N \in Nat : N = n + m
  OBVIOUS
<1>4. s \in Seq(Nat) /\ Len(s) = N /\ (\A i \in 1..n : s[i] = c[i]) /\
        (m >= 1 => s[n + 1] = rest[1])
  <2>1. /\ c \o rest \in Seq(Nat) /\ Len(c \o rest) = Len(c) + Len(rest)
        /\ \A i \in 1..Len(c) + Len(rest) : (c \o rest)[i] = IF i <= Len(c) THEN c[i]
             ELSE rest[i - Len(c)]
    BY <1>2, ConcatProperties, Zenon
  <2>2. c \o rest \in Seq(Nat) /\ Len(c \o rest) = n + m
        /\ \A i \in 1..n + m : (c \o rest)[i] = IF i <= n THEN c[i] ELSE rest[i - n]
    BY <1>1, <1>2, <2>1, Zenon
  <2>3. m >= 1 => n + 1 \in 1..n + m /\ ~(n + 1 <= n) /\ n + 1 - n = 1
    BY <1>1
  <2>4. m >= 1 => s[n + 1] = rest[1]
    <3> SUFFICES ASSUME m >= 1 PROVE (c \o rest)[n + 1] = rest[1]
      OBVIOUS
    <3>1. (c \o rest)[n + 1] = IF n + 1 <= n THEN c[n + 1] ELSE rest[n + 1 - n]
      BY <2>2, <2>3
    <3> QED BY <2>3, <3>1, Zenon
  <2>5. \A i \in 1..n : i \in 1..n + m /\ i <= n
    BY <1>1
  <2>6. \A i \in 1..n : s[i] = c[i]
    BY <2>2, <2>5, Zenon
  <2> QED BY <1>3, <2>2, <2>4, <2>6, Zenon
<1> HIDE DEF s
<1>5. PICK stop \in 0..N : /\ stop = NotDigit(s)
                           /\ stop = 0 => \A i \in 1..N : isdigit(s[i])
                           /\ stop # 0 => ~isdigit(s[stop]) /\
                                \A i \in 1..N : i < stop => isdigit(s[i])
  BY <1>4, NotDigitIs
<1>6. \A i \in 1..n : isdigit(s[i])
  BY <1>2, <1>4
<1>7. ASSUME rest = <<>> PROVE l = c /\ (NotDigit(s) = 0 <=> rest = <<>>)
  <2>1. stop = 0
    BY <1>1, <1>3, <1>5, <1>6, <1>7
  <2>2. l = s /\ s = c
    <3>1. l = s
      BY <1>4, <1>5, <2>1, LeadingIs
    <3>2. c \o <<>> = c
      BY <1>2, ConcatEmptySeq, Zenon
    <3> QED BY <1>7, <3>1, <3>2 DEF s
  <2> QED BY <1>5, <1>7, <2>1, <2>2
<1>8. ASSUME rest # <<>> PROVE l = c /\ (NotDigit(s) = 0 <=> rest = <<>>)
  <2>1. n + 1 \in 1..N /\ ~isdigit(s[n + 1]) /\ m >= 1
    BY <1>1, <1>3, <1>4, <1>8
  <2>2. stop = n + 1
    BY <1>5, <1>6, <2>1
  <2>3. l \in Seq(Nat) /\ Len(l) = n /\ \A i \in 1..n : l[i] = s[i]
    <3>0. NotDigit(s) # 0
      BY <1>5, <2>2
    <3>1. Len(Leading(s)) = NotDigit(s) - 1 /\ Leading(s) \in Seq(Nat)
          /\ \A i \in 1..Len(Leading(s)) : Leading(s)[i] = s[i]
      BY <1>4, <3>0, LeadingIs
    <3>2. NotDigit(s) - 1 = n
      BY <1>5, <2>2
    <3> QED BY <3>1, <3>2, Zenon
  <2> HIDE DEF l
  <2>4. l = c
    BY <1>2, <1>4, <2>3, SeqEqual
  <2>5. stop # 0
    BY <2>2
  <2> QED BY <1>5, <1>8, <2>4, <2>5 DEF l
<1>9. ~Negative(s)
  <2>1. s[1] # Minus
    BY <1>0, <1>2, <1>4, SMTT(30)
  <2> QED BY <2>1 DEF Negative
<1> QED BY <1>4, <1>7, <1>8, <1>9 DEF l, s, c

(* So it reads the number they are the digits of, and counts them ... *)
LEMMA ReadsDigits ==
  ASSUME NEW d \in Seq(0..9), Len(d) >= 1, NEW rest \in Seq(Nat), rest = <<>> \/ ~isdigit(rest[1])
  PROVE  strToInt(Coded(d) \o rest) = [value |-> Accumulated(10, d), size |-> Len(d)]
<1>1. PICK s \in Seq(Nat) : s = Coded(d) \o rest /\ ~Negative(s) /\ Leading(s) = Coded(d)
  BY LeadingCoded
<1>2. Body(s) = s
  BY <1>1 DEF Body
<1>3. strToInt(s).value = Accumulated(10, d)
  BY <1>1, <1>2, ValueOfCoded, StrToIntIs
<1>4. PICK n \in Nat : n = Len(d) /\ Len(Coded(d)) = n
  BY DecimalsCoded, LenProperties
<1>5. strToInt(s).size = n + 0
  BY <1>1, <1>2, <1>4, StrToIntIs
<1>6. strToInt(s).size = n
  BY <1>4, <1>5
<1>7. strToInt(s) = [value |-> strToInt(s).value, size |-> strToInt(s).size]
  BY StrToIntIs, Zenon
<1> QED BY <1>1, <1>3, <1>4, <1>6, <1>7, Zenon

(* ... and its opposite behind a minus. *)
LEMMA ReadsNegative ==
  ASSUME NEW d \in Seq(0..9), Len(d) >= 1
  PROVE  strToInt(<<Minus>>
           \o Coded(d)) = [value |-> Int_(-Accumulated(10, d)), size |-> Len(d) + 1]
<1> DEFINE c == Coded(d)
           s == <<Minus>> \o c
<1>0. PICK n \in Nat : n = Len(d) /\ Len(c) = n /\ n >= 1 /\ c \in Seq(Nat)
  BY DecimalsCoded, LenProperties
<1>1. Leading(c) = c /\ NotDigit(c) = 0 /\ c \o <<>> = c
  <2>1. c \o <<>> = c
    BY <1>0, ConcatEmptySeq, Zenon
  <2>2. <<>> \in Seq(Nat)
    BY EmptySeq
  <2>3. Leading(c \o <<>>) = c /\ NotDigit(c \o <<>>) = 0
    BY <2>2, LeadingCoded
  <2> QED BY <2>1, <2>3, Zenon
<1>2. ValueOf(c) = Accumulated(10, d)
  BY ValueOfCoded
<1> HIDE DEF c
<1>3. s # <<>> /\ s[1] = Minus /\ Tail(s) = c
  BY <1>0 DEF Minus
<1>4. Negative(s) /\ Body(s) = c
  BY <1>3 DEF Negative, Body
<1> HIDE DEF s
<1>5. strToInt(s).value = Int_(-ValueOf(c))
  BY <1>1, <1>4, StrToIntIs
<1>6. strToInt(s).size = n + 1
  BY <1>0, <1>1, <1>4, StrToIntIs
<1>7. strToInt(s) = [value |-> strToInt(s).value, size |-> strToInt(s).size]
  BY StrToIntIs, Zenon
<1> QED BY <1>0, <1>2, <1>5, <1>6, <1>7, Zenon DEF s, c
-----------------------------------------------------------------------------
(* printf, with a format that is one conversion. *)
PrintConversion(c, arg) ==
  CASE c = 99 -> <<arg>>
    [] c = 100 -> intToStr(arg, 10)
    [] c = 120 -> intToStr(arg, 16)
    [] c = Percent -> <<Percent>>
    [] OTHER -> <<>>

PrintAt(f, str, arg, i) ==
  IF i > Len(str) THEN <<>>
  ELSE IF str[i] # Percent THEN <<str[i]>> \o f[i + 1]
  ELSE (IF i = Len(str) THEN <<>> ELSE PrintConversion(str[i + 1], arg)) \o f[i + 2]

PrintEquation(f, str, arg) == f = [i \in 1..(Len(str) + 2) |-> PrintAt(f, str, arg, i)]

LEMMA PrintfBy ==
  ASSUME NEW str, NEW arg, \E f : PrintEquation(f, str, arg)
  PROVE  \E f : PrintEquation(f, str, arg) /\ printf(str, arg) = f[1]
<1> DEFINE f == CHOOSE g : PrintEquation(g, str, arg)
<1>1. PrintEquation(f, str, arg)
  OBVIOUS
<1>2. printf(str, arg) = f[1]
  BY DEF printf, PrintEquation, PrintAt, PrintConversion
<1> QED BY <1>1, <1>2

LEMMA OneConversion ==
  ASSUME NEW c \in Nat \ {Percent}
  PROVE  /\ Len(<<Percent, c>>) = 2 /\ <<Percent, c>>[1] = Percent /\ <<Percent, c>>[2] = c
         /\ Len(<<Percent, c>>) + 2 = 4
OBVIOUS

LEMMA Sums == 1 + 1 = 2 /\ 1 + 2 = 3 /\ 2 + 1 = 3
OBVIOUS

(* printf of one conversion is that conversion. *)
LEMMA Printf ==
  ASSUME NEW c \in Nat \ {Percent}, NEW arg, NEW text \in Seq(Nat), PrintConversion(c, arg) = text
  PROVE  printf(<<Percent, c>>, arg) = text
<1> DEFINE str == <<Percent, c>>
           F == [i \in 1..4 |-> IF i = 1 THEN text ELSE IF i = 2 THEN <<c>> ELSE <<>>]
<1>1. Len(str) = 2 /\ str[1] = Percent /\ str[2] = c /\ Len(str) + 2 = 4
  BY OneConversion
<1> HIDE DEF str
<1>2. text \o <<>> = text /\ <<c>> \o <<>> = <<c>>
  <2>1. text \o <<>> = text
    BY ConcatEmptySeq, Zenon
  <2> QED BY <2>1
<1>3. ASSUME NEW i \in 1..4 PROVE F[i] = PrintAt(F, str, arg, i)
  <2>0. F[3] = <<>> /\ F[1] = text /\ F[2] = <<c>> /\ F[4] = <<>>
    OBVIOUS
  <2> HIDE DEF F
  <2>1. CASE i = 1
    <3>1. PrintAt(F, str, arg, 1) = PrintConversion(str[1 + 1], arg) \o F[1 + 2]
      BY <1>1 DEF PrintAt
    <3>2. PrintAt(F, str, arg, 1) = text \o <<>>
      BY <1>1, <2>0, <3>1, Sums, Zenon
    <3> QED BY <1>2, <2>0, <2>1, <3>2
  <2>2. CASE i = 2
    <3>1. PrintAt(F, str, arg, 2) = <<str[2]>> \o F[2 + 1]
      BY <1>1 DEF PrintAt
    <3>2. PrintAt(F, str, arg, 2) = <<c>> \o <<>>
      BY <1>1, <2>0, <3>1, Sums, Zenon
    <3> QED BY <1>2, <2>0, <2>2, <3>2
  <2>3. CASE i \in 3..4
    <3>1. PrintAt(F, str, arg, i) = <<>>
      BY <1>1, <2>3 DEF PrintAt
    <3> QED BY <2>0, <2>3, <3>1
  <2> QED BY <2>1, <2>2, <2>3
<1>4. PrintEquation(F, str, arg)
  <2>1. F = [i \in 1..4 |-> F[i]]
    OBVIOUS
  <2> HIDE DEF F
  <2>2. [i \in 1..4 |-> F[i]] = [i \in 1..4 |-> PrintAt(F, str, arg, i)]
    BY <1>3
  <2>3. F = [i \in 1..4 |-> PrintAt(F, str, arg, i)]
    BY <2>1, <2>2, Zenon
  <2> QED BY <1>1, <2>3 DEF PrintEquation
<1>5. PICK f : PrintEquation(f, str, arg) /\ printf(str, arg) = f[1]
  <2> HIDE DEF F
  <2> QED BY <1>4, PrintfBy
<1>6. \A i \in 1..4 : f[i] = PrintAt(f, str, arg, i)
  BY <1>1, <1>5, Zenon DEF PrintEquation
<1>7. f[3] = <<>>
  <2>1. PrintAt(f, str, arg, 3) = <<>>
    BY <1>1 DEF PrintAt
  <2> QED BY <1>6, <2>1
<1>8. PrintAt(f, str, arg, 1) = PrintConversion(c, arg) \o f[3]
  <2>1. PrintAt(f, str, arg, 1) = PrintConversion(str[1 + 1], arg) \o f[1 + 2]
    BY <1>1 DEF PrintAt
  <2> QED BY <1>1, <2>1, Sums, Zenon
<1> QED BY <1>2, <1>5, <1>6, <1>7, <1>8 DEF str

-----------------------------------------------------------------------------
(* scanf of a number, and of a number, any character, and a character. *)
LEMMA StringsAreCodes == Strings \subseteq Seq(Nat)
<1>1. Chars \subseteq Nat
  BY DEF Chars
<1> QED BY <1>1, SeqMonotonic DEF Strings

LEMMA Pair == ASSUME NEW x, NEW y PROVE <<x>> \o <<y>> = <<x, y>>
<1> DEFINE S == {x, y}
           a == <<x>>
           b == <<y>>
           c == a \o b
           d == <<x, y>>
<1>1. a \in Seq(S) /\ b \in Seq(S) /\ Len(a) = 1 /\ Len(b) = 1 /\ a[1] = x /\ b[1] = y
  OBVIOUS
<1>2. d \in Seq(S) /\ Len(d) = 2 /\ d[1] = x /\ d[2] = y
  OBVIOUS
<1> HIDE DEF S, a, b, d
<1>3. c \in Seq(S) /\ Len(c) = 2 /\ c[1] = x /\ c[2] = y
  <2>1. /\ a \o b \in Seq(S) /\ Len(a \o b) = Len(a) + Len(b)
        /\ \A i \in 1..Len(a) + Len(b) : (a \o b)[i] = IF i <= Len(a) THEN a[i] ELSE b[i - Len(a)]
    BY <1>1, ConcatProperties, Zenon
  <2> QED BY <1>1, <2>1
<1> HIDE DEF c
<1>4. c = d
  BY <1>2, <1>3, SeqEqual
<1> QED BY <1>4 DEF c, a, b, d

(* scanf does not read beyond the end of its string. *)
LEMMA TakenType ==
  ASSUME NEW str \in Strings, NEW j \in 1..(Len(str) + 1)
  PROVE  j + strToInt(ReadRest(str, j)).size \in 1..(Len(str) + 1)
<1>1. PICK rest \in Seq(Nat) : rest = ReadRest(str, j) /\ Len(rest) = Len(str) - j + 1
  BY RestType, StringsAreCodes
<1>2. strToInt(rest).size \in 0..Len(rest)
  BY SizeFits
<1>3. PICK n \in Nat, k \in Nat : n = Len(str) /\ k = strToInt(rest).size /\ k <= n - j + 1
  BY <1>1, <1>2 DEF Strings
<1> QED BY <1>1, <1>3

(* "%d" stores the number. *)
LEMMA ReadsNumber ==
  ASSUME NEW str \in Strings, str # <<>>
  PROVE  scanf(<<Percent, 100>>, str) = <<strToInt(str).value>>
<1> DEFINE fmt == <<Percent, 100>>
           J == 1..(Len(str) + 1)
           F == [i \in 1..4 |-> [j \in J |->
                  IF i > 1 \/ ReadRest(str, j) = <<>> THEN <<>>
                    ELSE <<strToInt(ReadRest(str, j)).value>>]]
<1>1. Len(fmt) = 2 /\ fmt[1] = Percent /\ fmt[2] = 100 /\ Percent = 37 /\ Len(fmt) + 2 = 4
  BY DEF Percent
<1> HIDE DEF fmt
<1>2. PICK n \in Nat : n = Len(str)
  BY DEF Strings
<1>3. \A i \in 2..4, j \in J : F[i][j] = <<>>
  OBVIOUS
<1>4. ASSUME NEW i \in 1..4, NEW j \in J
      PROVE  F[i][j] = ReadAt(F, fmt, str, i, j)
  <2> DEFINE rest == ReadRest(str, j)
  <2>1. F[i][j] = IF i > 1 \/ rest = <<>> THEN <<>> ELSE <<strToInt(rest).value>>
    OBVIOUS
  <2>2. CASE i > 2 \/ rest = <<>>
    <3>1. i > Len(fmt) \/ rest = <<>>
      BY <1>1, <2>2
    <3>2. ReadAt(F, fmt, str, i, j) = <<>>
      BY <3>1, ReadEnds, Zenon
    <3> HIDE DEF F, rest
    <3> QED BY <2>1, <2>2, <3>2
  <2>3. CASE rest # <<>> /\ i = 2
    <3>1. j + 1 \in J
      BY <1>2, <2>3, RestType
    <3>2. F[3][j + 1] = <<>> /\ i + 1 = 3
      BY <1>3, <2>3, <3>1
    <3>3. AtChar(fmt, str, i, j)
      BY <1>1, <2>3 DEF AtChar
    <3> HIDE DEF F
    <3>4. ReadAt(F, fmt, str, i, j) = F[i + 1][j + 1]
      BY <3>3, ReadSkips
    <3> QED BY <2>1, <2>3, <3>2, <3>4
  <2>4. CASE rest # <<>> /\ i = 1
    <3>1. PICK next \in J : next = j + strToInt(rest).size
      BY TakenType
    <3>2. F[3][next] = <<>> /\ i + 2 = 3
      BY <1>3, <2>4
    <3>3. <<strToInt(rest).value>> \o <<>> = <<strToInt(rest).value>>
      OBVIOUS
    <3>4. AtConversion(fmt, str, i, j, 100)
      BY <1>1, <2>4 DEF AtConversion
    <3> HIDE DEF F
    <3>5. ReadAt(F, fmt, str, i, j) = <<strToInt(rest).value>> \o F[i + 2][j + strToInt(rest).size]
      <4>1. ReadAt(F, fmt, str, i, j) = StoreNumber(F, str, i, j)
        BY <3>4, ReadNumber
      <4> QED BY <4>1, Zenon DEF StoreNumber
    <3> HIDE DEF rest
    <3>6. ReadAt(F, fmt, str, i, j) = <<strToInt(rest).value>>
      BY <3>1, <3>2, <3>3, <3>5, Zenon
    <3> QED BY <2>1, <2>4, <3>6
  <2> QED BY <2>2, <2>3, <2>4
<1>5. ReadEquation(F, fmt, str)
  <2>1. F = [i \in 1..4 |-> [j \in J |-> F[i][j]]]
    OBVIOUS
  <2>2. 4 = Len(fmt) + 2
    BY <1>1
  <2> HIDE DEF F
  <2> QED BY <1>4, <2>1, <2>2, ReadWitness
<1>6. PICK f : ReadEquation(f, fmt, str) /\ scanf(fmt, str) = f[1][1]
  <2> HIDE DEF F
  <2> QED BY <1>5, ScanfReads
<1>7. 1 \in J /\ ReadRest(str, 1) = str /\
        \A i \in 1..4, j \in J : f[i][j] = ReadAt(f, fmt, str, i, j)
  <2>1. 4 = Len(fmt) + 2
    BY <1>1
  <2> QED BY <1>2, <1>6, <2>1, RestWhole, ReadValue
<1>8. PICK k \in J : k = 1 + strToInt(str).size
  <2>1. 1 + strToInt(ReadRest(str, 1)).size \in 1..(Len(str) + 1)
    BY <1>7, TakenType
  <2> QED BY <1>7, <2>1
<1>9. f[3][k] = <<>>
  <2>1. 3 > Len(fmt)
    BY <1>1
  <2>2. ReadAt(f, fmt, str, 3, k) = <<>>
    BY <2>1, ReadEnds, Zenon
  <2> QED BY <1>7, <2>2
<1>10. f[1][1] = <<strToInt(str).value>> \o f[3][k]
  <2>1. AtConversion(fmt, str, 1, 1, 100) /\ 1 + 2 = 3
    BY <1>1, <1>7 DEF AtConversion
  <2>2. ReadAt(f, fmt, str, 1, 1) = StoreNumber(f, str, 1, 1)
    BY <2>1, ReadNumber
  <2>3. StoreNumber(f, str, 1, 1) = <<strToInt(str).value>> \o f[1 + 2][1 + strToInt(str).size]
    BY <1>7, Zenon DEF StoreNumber
  <2>4. f[1][1] = ReadAt(f, fmt, str, 1, 1)
    BY <1>7
  <2> QED BY <1>8, <2>1, <2>2, <2>3, <2>4, Zenon
<1>11. <<strToInt(str).value>> \o <<>> = <<strToInt(str).value>>
  OBVIOUS
<1> QED BY <1>6, <1>9, <1>10, <1>11, Zenon DEF fmt

(* "%d %c": what is stored from a place on, when the format is at its last *)
(* conversion, and at the space before it.                                 *)
LastStored(str, j) == IF ReadRest(str, j) = <<>> THEN <<>> ELSE <<Head(ReadRest(str, j))>>
ThenStored(str, j) == IF ReadRest(str, j) = <<>> THEN <<>> ELSE LastStored(str, j + 1)

(* "%d %c" stores the number and the character behind the space. *)
LEMMA ReadsNumberChar ==
  ASSUME NEW str \in Strings, NEW k \in Nat, Len(str) = k + 2, strToInt(str).size = k
  PROVE  scanf(<<Percent, 100, Space, Percent, 99>>, str) = <<strToInt(str).value, str[k + 2]>>
<1> DEFINE fmt == <<Percent, 100, Space, Percent, 99>>
           J == 1..(Len(str) + 1)
           Stored(i, j) == CASE i = 1 -> IF ReadRest(str, j) = <<>> THEN <<>>
                                         ELSE <<strToInt(ReadRest(str, j)).value>>
                                              \o ThenStored(str, j + strToInt(ReadRest(str, j)).size)
                             [] i = 2 -> IF ReadRest(str, j) = <<>> THEN <<>> ELSE ThenStored(str, j + 1)
                             [] i = 3 -> ThenStored(str, j)
                             [] i = 4 -> LastStored(str, j)
                             [] OTHER -> <<>>
           F == [i \in 1..7 |-> [j \in J |-> Stored(i, j)]]
<1>1. /\ Len(fmt) = 5 /\ Len(fmt) + 2 = 7
      /\ fmt[1] = Percent /\ fmt[2] = 100 /\ fmt[3] = Space /\ fmt[4] = Percent /\ fmt[5] = 99
      /\ Percent = 37 /\ Space = 32
  BY DEF Percent, Space
<1> HIDE DEF fmt
<1>2. PICK n \in Nat : n = Len(str) /\ n = k + 2
  BY DEF Strings
<1>3. \A i \in 1..7, j \in J : F[i][j] = Stored(i, j)
  OBVIOUS
<1>4. ASSUME NEW i \in 1..7, NEW j \in J
      PROVE  F[i][j] = ReadAt(F, fmt, str, i, j)
  <2> HIDE DEF F
  <2> DEFINE rest == ReadRest(str, j)
  <2>1. F[i][j] = Stored(i, j)
    BY <1>3
  <2>2. CASE i > 5 \/ rest = <<>>
    <3>1. i > Len(fmt) \/ rest = <<>>
      BY <1>1, <2>2
    <3>2. ReadAt(F, fmt, str, i, j) = <<>>
      BY <3>1, ReadEnds, Zenon
    <3>3. Stored(i, j) = <<>>
      BY <2>2 DEF ThenStored, LastStored
    <3> QED BY <2>1, <3>2, <3>3
  <2>3. CASE rest # <<>> /\ i \in {2, 3, 5}
    <3>1. PICK x \in J : x = j + 1
      BY <1>2, <2>3, RestType
    <3>2. AtChar(fmt, str, i, j)
      BY <1>1, <2>3 DEF AtChar
    <3>3. ReadAt(F, fmt, str, i, j) = F[i + 1][j + 1]
      BY <3>2, ReadSkips
    <3>4. PICK y \in 1..7 : y = i + 1 /\ y \in {3, 4, 6}
      BY <2>3
    <3>5. ReadAt(F, fmt, str, i, j) = Stored(y, x)
      BY <1>3, <3>1, <3>3, <3>4, Zenon
    <3>6. Stored(i, j) = Stored(y, x)
      BY <2>3, <3>1, <3>4 DEF ThenStored
    <3> QED BY <2>1, <3>5, <3>6
  <2>4. CASE rest # <<>> /\ i = 4
    <3>1. PICK x \in J : x = j + 1
      BY <1>2, <2>4, RestType
    <3>2. AtConversion(fmt, str, i, j, 99)
      BY <1>1, <2>4 DEF AtConversion
    <3>3. ReadAt(F, fmt, str, i, j) = StoreChar(F, str, i, j)
      BY <3>2, ReadChar
    <3>4. i + 2 = 6 /\ 6 \in 1..7 /\ F[6][x] = <<>>
      BY <1>3, <2>4
    <3>5. StoreChar(F, str, i, j) = <<Head(rest)>> \o <<>>
      BY <3>1, <3>4, Zenon DEF StoreChar
    <3>6. <<Head(rest)>> \o <<>> = <<Head(rest)>>
      OBVIOUS
    <3>7. Stored(i, j) = <<Head(rest)>>
      BY <2>4 DEF LastStored
    <3> QED BY <2>1, <3>3, <3>5, <3>6, <3>7
  <2>5. CASE rest # <<>> /\ i = 1
    <3>1. PICK x \in J : x = j + strToInt(rest).size
      BY TakenType
    <3>2. AtConversion(fmt, str, i, j, 100)
      BY <1>1, <2>5 DEF AtConversion
    <3>3. ReadAt(F, fmt, str, i, j) = StoreNumber(F, str, i, j)
      BY <3>2, ReadNumber
    <3>4. i + 2 = 3 /\ F[3][x] = ThenStored(str, x)
      BY <1>3, <2>5
    <3>5. StoreNumber(F, str, i, j) = <<strToInt(rest).value>> \o ThenStored(str, x)
      BY <3>1, <3>4, Zenon DEF StoreNumber
    <3>7. Stored(i, j) = <<strToInt(rest).value>> \o ThenStored(str, x)
      BY <2>5, <3>1
    <3> QED BY <2>1, <3>3, <3>5, <3>7
  <2> QED BY <2>2, <2>3, <2>4, <2>5
<1>5. ReadEquation(F, fmt, str)
  <2>1. F = [i \in 1..7 |-> [j \in J |-> F[i][j]]]
    OBVIOUS
  <2>2. 7 = Len(fmt) + 2
    BY <1>1
  <2> HIDE DEF F, Stored
  <2>3. \A i \in 1..7, j \in J : F[i][j] = ReadAt(F, fmt, str, i, j)
    BY <1>4
  <2>4. J = 1..(Len(str) + 1)
    OBVIOUS
  <2> HIDE DEF J
  <2>5. [i \in 1..7 |-> [j \in J |-> F[i][j]]] = [i \in 1..7 |-> [j \in J |-> ReadAt(F, fmt, str,
          i, j)]]
    BY <2>3
  <2>6. F = [i \in 1..7 |-> [j \in J |-> ReadAt(F, fmt, str, i, j)]]
    BY <2>1, <2>5, Zenon
  <2> QED BY <2>2, <2>4, <2>6, Zenon DEF ReadEquation
<1>6. PICK f : ReadEquation(f, fmt, str) /\ scanf(fmt, str) = f[1][1]
  <2> HIDE DEF F
  <2> QED BY <1>5, ScanfReads
<1> HIDE DEF F
<1>7. \A i \in 1..7, j \in J : f[i][j] = ReadAt(f, fmt, str, i, j)
  <2>1. 7 = Len(fmt) + 2
    BY <1>1
  <2> QED BY <1>6, <2>1, ReadValue
<1>8. PICK a \in J, b \in J, c \in J : a = 1 + k /\ b = a + 1 /\ c = b + 1
  BY <1>2
<1>9. 1 \in J /\ ReadRest(str, 1) = str
  BY <1>2, RestWhole
<1>10. str # <<>> /\ ReadRest(str, a) # <<>> /\ ReadRest(str, b) # <<>> /\
         Head(ReadRest(str, b)) = str[k + 2]
  <2>1. ReadRest(str, a) # <<>>
    <3>1. ~(a = Len(str) + 1)
      BY <1>2, <1>8
    <3> QED BY <3>1, RestType
  <2>2. /\ ReadRest(str, b) # <<>> /\ ReadRest(str, b) \in Strings /\ Len(ReadRest(str, b)) = 1
        /\ \A i \in 1..(Len(str) - b + 1) : ReadRest(str, b)[i] = str[b + i - 1]
    <3>1. ~(b = Len(str) + 1) /\ Len(str) - b + 1 = 1
      BY <1>2, <1>8
    <3> QED BY <3>1, RestType
  <2>3. 1 \in 1..(Len(str) - b + 1) /\ b + 1 - 1 = k + 2
    BY <1>2, <1>8
  <2>4. ReadRest(str, b)[1] = str[k + 2]
    BY <2>2, <2>3, Zenon
  <2>5. Head(ReadRest(str, b)) = ReadRest(str, b)[1]
    BY <2>2, HeadTailProperties DEF Strings
  <2>6. str # <<>>
    BY <1>2
  <2> QED BY <2>1, <2>2, <2>4, <2>5, <2>6
<1>11. f[6][c] = <<>>
  <2>1. 6 > Len(fmt)
    BY <1>1
  <2>2. ReadAt(f, fmt, str, 6, c) = <<>>
    BY <2>1, ReadEnds, Zenon
  <2> QED BY <1>7, <2>2
<1>12. f[4][b] = <<str[k + 2]>>
  <2>1. AtConversion(fmt, str, 4, b, 99) /\ 4 + 2 = 6
    BY <1>1, <1>10 DEF AtConversion
  <2>2. ReadAt(f, fmt, str, 4, b) = StoreChar(f, str, 4, b)
    BY <2>1, ReadChar
  <2>3. StoreChar(f, str, 4, b) = <<str[k + 2]>> \o <<>>
    BY <1>8, <1>10, <1>11, <2>1, Zenon DEF StoreChar
  <2>4. <<str[k + 2]>> \o <<>> = <<str[k + 2]>>
    OBVIOUS
  <2>5. f[4][b] = ReadAt(f, fmt, str, 4, b)
    BY <1>7
  <2> QED BY <2>2, <2>3, <2>4, <2>5, Zenon
<1>13. f[3][a] = f[4][b]
  <2>1. AtChar(fmt, str, 3, a) /\ 3 + 1 = 4
    BY <1>1, <1>10 DEF AtChar
  <2>2. ReadAt(f, fmt, str, 3, a) = f[3 + 1][a + 1]
    BY <2>1, ReadSkips
  <2>5. f[3][a] = ReadAt(f, fmt, str, 3, a)
    BY <1>7
  <2> QED BY <1>8, <2>1, <2>2, <2>5, Zenon
<1>14. f[1][1] = <<strToInt(str).value>> \o f[3][a]
  <2>1. AtConversion(fmt, str, 1, 1, 100) /\ 1 + 2 = 3
    BY <1>1, <1>9, <1>10 DEF AtConversion
  <2>2. ReadAt(f, fmt, str, 1, 1) = StoreNumber(f, str, 1, 1)
    BY <2>1, ReadNumber
  <2>3. StoreNumber(f, str, 1, 1) = <<strToInt(str).value>> \o f[1 + 2][1 + k]
    BY <1>9, Zenon DEF StoreNumber
  <2>4. f[1][1] = ReadAt(f, fmt, str, 1, 1)
    BY <1>7, <1>9
  <2> QED BY <1>8, <2>1, <2>2, <2>3, <2>4, Zenon
<1>15. <<strToInt(str).value>> \o <<str[k + 2]>> = <<strToInt(str).value, str[k + 2]>>
  BY Pair
<1> QED BY <1>6, <1>12, <1>13, <1>14, <1>15, Zenon DEF fmt
-----------------------------------------------------------------------------
(* There and back. *)
LEMMA DecimalDigits ==
  ASSUME NEW n \in Nat, n < Half
  PROVE  Digits(n, 10) \in Seq(0..9) /\ Len(Digits(n, 10)) >= 1 /\
           Accumulated(10, Digits(n, 10)) = n
<1>1. 10 \in Nat /\ 10 >= 2 /\ 0..(10 - 1) = 0..9
  OBVIOUS
<1> QED BY <1>1, DigitsAreNumber

LEMMA CodedString ==
  ASSUME NEW d \in Seq(0..15)
  PROVE  Coded(d) \in Strings /\ Len(Coded(d)) = Len(d) /\ <<Minus>> \o Coded(d) \in Strings /\
           Len(<<Minus>> \o Coded(d)) = Len(d) + 1
<1>1. \A x \in 0..15 : DigitCode(x) \in Chars
  BY DEF DigitCode, Chars
<1>2. Coded(d) \in Seq(Nat) /\ Len(Coded(d)) = Len(d) /\ \A i \in 1..Len(d) : Coded(d)[i] \in Chars
  BY <1>1, CodedType
<1>3. Coded(d) \in Strings
  <2> DEFINE c == Coded(d)
  <2>1. c \in Seq(Nat) /\ \A i \in 1..Len(c) : c[i] \in Chars
    BY <1>2
  <2> HIDE DEF c
  <2>2. DOMAIN c = 1..Len(c) /\ c = [i \in 1..Len(c) |-> c[i]] /\ Len(c) \in Nat
    BY <2>1
  <2>3. c \in Seq(Chars)
    BY <2>1, <2>2
  <2> QED BY <2>3 DEF c, Strings
<1>4. <<Minus>> \in Strings /\ Len(<<Minus>>) = 1
  BY DEF Minus, Strings, Chars
<1>5. /\ <<Minus>> \o Coded(d) \in Strings /\
           Len(<<Minus>> \o Coded(d)) = Len(<<Minus>>) + Len(Coded(d))
  BY <1>3, <1>4, ConcatProperties, Zenon DEF Strings
<1>6. Len(d) \in Nat /\ 1 + Len(d) = Len(d) + 1
  BY LenProperties
<1> QED BY <1>2, <1>3, <1>4, <1>5, <1>6, Zenon

LEMMA DecimalString ==
  ASSUME NEW d \in Seq(0..9)
  PROVE  Coded(d) \in Strings /\ Len(Coded(d)) = Len(d) /\ <<Minus>> \o Coded(d) \in Strings /\
           Len(<<Minus>> \o Coded(d)) = Len(d) + 1
<1>1. 0..9 \subseteq 0..15
  OBVIOUS
<1>2. d \in Seq(0..15)
  BY <1>1, SeqMonotonic
<1> QED BY <1>2, CodedString

(* The text of a number is one that is read back to it. *)
LEMMA NumberText ==
  ASSUME NEW v \in Int, -Half < v, v < Half
  PROVE  /\ intToStr(v, 10) \in Strings /\ intToStr(v, 10) # <<>>
         /\ strToInt(intToStr(v, 10)) = [value |-> v, size |-> Len(intToStr(v, 10))]
<1>1. CASE v < 0
  <2>1. PICK n \in Nat : n = -v /\ n < Half
    BY <1>1, HalfType
  <2>2. PICK d \in Seq(0..9) : d = Digits(n, 10) /\ Len(d) >= 1 /\ Accumulated(10, d) = n
    BY <2>1, DecimalDigits
  <2>3. intToStr(v, 10) = <<Minus>> \o Coded(d)
    <3>1. 10 \in 2..16
      OBVIOUS
    <3>2. intToStr(v, 10) = <<Minus>> \o Coded(Digits(-v, 10))
      BY <1>1, <3>1, IntToStr
    <3> QED BY <2>1, <2>2, <3>2, Zenon
  <2>4. <<Minus>> \o Coded(d) \in Strings /\ Len(<<Minus>> \o Coded(d)) = Len(d) + 1
    BY DecimalString
  <2>5. strToInt(<<Minus>> \o Coded(d)) = [value |-> Int_(-n), size |-> Len(d) + 1]
    BY <2>2, ReadsNegative
  <2>6. Int_(-n) = v
    <3>1. -n = v
      BY <2>1
    <3>2. Int_(v) = v
      BY HalfType, IntFits
    <3> QED BY <3>1, <3>2, Zenon
  <2>7. Len(d) + 1 # 0 /\ <<Minus>> \o Coded(d) # <<>>
    BY <2>2, <2>4, LenProperties, EmptySeq
  <2> QED BY <2>3, <2>4, <2>5, <2>6, <2>7, Zenon
<1>2. CASE ~(v < 0)
  <2>1. PICK n \in Nat : n = v /\ n < Half
    BY <1>2
  <2>2. PICK d \in Seq(0..9) : d = Digits(n, 10) /\ Len(d) >= 1 /\ Accumulated(10, d) = n
    BY <2>1, DecimalDigits
  <2>3. intToStr(v, 10) = Coded(d)
    <3>1. 10 \in 2..16
      OBVIOUS
    <3>2. intToStr(v, 10) = Coded(Digits(v, 10))
      BY <1>2, <3>1, IntToStr
    <3> QED BY <2>1, <2>2, <3>2, Zenon
  <2>4. Coded(d) \in Strings /\ Len(Coded(d)) = Len(d) /\ Coded(d) \in Seq(Nat)
    BY DecimalString, StringsAreCodes
  <2>5. strToInt(Coded(d)) = [value |-> n, size |-> Len(d)]
    <3>1. <<>> \in Seq(Nat)
      BY EmptySeq
    <3>2. strToInt(Coded(d) \o <<>>) = [value |-> Accumulated(10, d), size |-> Len(d)]
      BY <2>2, <3>1, ReadsDigits
    <3>3. Coded(d) \o <<>> = Coded(d)
      BY <2>4, ConcatEmptySeq, Zenon
    <3> QED BY <2>2, <3>2, <3>3, Zenon
  <2>6. Coded(d) # <<>>
    BY <2>2, <2>4, LenProperties, EmptySeq
  <2> QED BY <2>1, <2>3, <2>4, <2>5, <2>6, Zenon
<1> QED BY <1>1, <1>2

(* In decimal, printed by printf and read by scanf. *)
LEMMA DecimalTrip ==
  ASSUME NEW v \in Int, -Half < v, v < Half
  PROVE  /\ printf(<<Percent, 100>>, v) = intToStr(v, 10)
         /\ scanf(<<Percent, 100>>, intToStr(v, 10)) = <<v>>
<1> DEFINE text == intToStr(v, 10)
<1>1. text \in Strings /\ text # <<>> /\ strToInt(text).value = v
  BY NumberText
<1>2. text \in Seq(Nat)
  BY <1>1, StringsAreCodes
<1>3. 100 \in Nat \ {Percent} /\ PrintConversion(100, v) = text
  BY DEF Percent, PrintConversion
<1> HIDE DEF text
<1>4. printf(<<Percent, 100>>, v) = text
  BY <1>2, <1>3, Printf
<1>5. scanf(<<Percent, 100>>, text) = <<strToInt(text).value>>
  BY <1>1, ReadsNumber
<1> QED BY <1>1, <1>4, <1>5 DEF text

(* With a character behind it. *)
LEMMA CharTrip ==
  ASSUME NEW v \in Nat, v < Half
  PROVE  scanf(<<Percent, 100, Space, Percent, 99>>, intToStr(v, 10) \o <<Space, Bar>>) = <<v, Bar>>
<1>1. PICK d \in Seq(0..9) : d = Digits(v, 10) /\ Len(d) >= 1 /\ Accumulated(10, d) = v
  BY DecimalDigits
<1> DEFINE rest == <<Space, Bar>>
           str == Coded(d) \o rest
<1>2. intToStr(v, 10) = Coded(d)
  <2>1. 10 \in 2..16 /\ -Half < v /\ v \in Int /\ ~(v < 0)
    BY HalfType
  <2>2. intToStr(v, 10) = Coded(Digits(v, 10))
    BY <2>1, IntToStr
  <2> QED BY <1>1, <2>2, Zenon
<1>3. rest \in Strings /\ Len(rest) = 2 /\ rest[1] = Space /\ rest[2] = Bar /\ ~isdigit(rest[1])
  BY DEF Strings, Chars, Space, Bar, isdigit, Zero
<1>4. rest \in Seq(Nat)
  BY <1>3, StringsAreCodes
<1> HIDE DEF rest
<1>5. PICK k \in Nat : k = Len(d) /\ Coded(d) \in Strings /\ Len(Coded(d)) = k
  BY DecimalString, LenProperties
<1>6. str \in Strings /\ Len(str) = k + 2 /\ str[k + 2] = Bar
  <2>1. /\ Coded(d) \o rest \in Seq(Chars) /\ Len(Coded(d) \o rest) = Len(Coded(d)) + Len(rest)
        /\ \A i \in 1..Len(Coded(d)) + Len(rest) :
             (Coded(d) \o rest)[i] = IF i <= Len(Coded(d)) THEN Coded(d)[i]
               ELSE rest[i - Len(Coded(d))]
    <3>1. Coded(d) \in Seq(Chars) /\ rest \in Seq(Chars)
      BY <1>3, <1>5 DEF Strings
    <3> QED BY <3>1, ConcatProperties, Zenon
  <2>2. /\ str \in Strings /\ Len(str) = k + 2
        /\ \A i \in 1..k + 2 : str[i] = IF i <= k THEN Coded(d)[i] ELSE rest[i - k]
    BY <1>3, <1>5, <2>1, Zenon DEF Strings
  <2>3. k + 2 \in 1..k + 2 /\ ~(k + 2 <= k) /\ k + 2 - k = 2
    OBVIOUS
  <2>4. str[k + 2] = rest[2]
    <3> HIDE DEF str
    <3>1. str[k + 2] = rest[k + 2 - k]
      BY <2>2, <2>3
    <3> QED BY <2>3, <3>1, Zenon
  <2> QED BY <1>3, <2>2, <2>4, Zenon
<1>7. strToInt(str) = [value |-> v, size |-> k]
  <2>1. strToInt(str) = [value |-> Accumulated(10, d), size |-> Len(d)]
    BY <1>1, <1>3, <1>4, ReadsDigits
  <2> QED BY <1>1, <1>5, <2>1, Zenon
<1>8. strToInt(str).size = k /\ strToInt(str).value = v
  BY <1>7
<1> HIDE DEF str
<1>9. scanf(<<Percent, 100, Space, Percent, 99>>, str) = <<strToInt(str).value, str[k + 2]>>
  BY <1>6, <1>8, ReadsNumberChar
<1> QED BY <1>2, <1>6, <1>8, <1>9, Zenon DEF str, rest

(* In hexadecimal. *)
LEMMA HexTrip ==
  ASSUME NEW v \in Nat, v < Half
  PROVE  strToHex(printf(<<Percent, 120>>, v)) = v
<1>1. PICK d \in Seq(0..15) : d = Digits(v, 16) /\ Accumulated(16, d) = v
  <2>1. 16 \in Nat /\ 16 >= 2 /\ 0..(16 - 1) = 0..15
    OBVIOUS
  <2> QED BY <2>1, DigitsAreNumber
<1> DEFINE text == Coded(d)
<1>2. text = intToStr(v, 16)
  <2>1. 16 \in 2..16 /\ -Half < v /\ v \in Int /\ ~(v < 0)
    BY HalfType
  <2>2. intToStr(v, 16) = Coded(Digits(v, 16))
    BY <2>1, IntToStr
  <2> QED BY <1>1, <2>2, Zenon
<1>3. text \in Seq(Nat) /\ Len(text) = Len(d) /\ \A i \in 1..Len(d) : text[i] = DigitCode(d[i]) /\
        d[i] \in 0..15
  BY CodedType
<1>4. 120 \in Nat \ {Percent} /\ PrintConversion(120, v) = text
  <2>1. 120 \in Nat \ {Percent} /\ PrintConversion(120, v) = intToStr(v, 16)
    BY DEF Percent, PrintConversion
  <2> QED BY <1>2, <2>1, Zenon
<1> HIDE DEF text
<1>6. printf(<<Percent, 120>>, v) = text
  BY <1>3, <1>4, Printf
<1>5. \A x \in 0..15 : HexValue(DigitCode(x)) = x /\ ishexdigit(DigitCode(x))
  BY DEF HexValue, DigitCode, ishexdigit, isdigit, Zero
<1>7. PICK n \in Nat : n = Len(d) /\ DOMAIN text = 1..n /\ DOMAIN d = 1..n
  BY <1>3, LenProperties
<1>8. strToHex(text) = Accumulated(16, [i \in DOMAIN text |-> HexValue(text[i])])
  <2>1. \A i \in DOMAIN text : ishexdigit(text[i])
    BY <1>3, <1>5, <1>7
  <2> QED BY <2>1, Zenon DEF strToHex
<1>9. [i \in DOMAIN text |-> HexValue(text[i])] = d
  <2>1. \A i \in 1..n : HexValue(text[i]) = d[i]
    BY <1>3, <1>5, <1>7
  <2>2. [i \in 1..n |-> HexValue(text[i])] = [i \in 1..n |-> d[i]]
    BY <2>1, Zenon
  <2>3. d = [i \in 1..n |-> d[i]]
    BY <1>7, LenProperties
  <2> QED BY <1>7, <2>2, <2>3, Zenon
<1> QED BY <1>1, <1>2, <1>6, <1>8, <1>9, Zenon

(* The digits of the kernel, in decimal ... *)
LEMMA KernelTrip ==
  ASSUME NEW v \in Nat, v < Half
  PROVE  strToInt(uintToBase(v, 10)).value = v
<1>1. 10 \in 2..16 /\ -Half < v /\ v \in Int /\ ~(v < 0)
  BY HalfType
<1>2. intToStr(v, 10) = Coded(Digits(v, 10)) /\ uintToBase(v, 10) = Coded(Digits(v, 10))
  BY <1>1, IntToStr, UintToBase
<1>3. strToInt(intToStr(v, 10)).value = v
  <2>1. strToInt(intToStr(v, 10)) = [value |-> v, size |-> Len(intToStr(v, 10))]
    BY <1>1, NumberText
  <2> QED BY <2>1
<1> QED BY <1>2, <1>3, Zenon

(* ... and in binary, which nothing of the library reads. *)
LEMMA BinaryTrip ==
  ASSUME NEW v \in Nat, v < Half
  PROVE  Accumulated(2, [i \in DOMAIN uintToBase(v, 2) |-> uintToBase(v, 2)[i] - Zero]) = v
<1>1. PICK d \in Seq(0..1) : d = Digits(v, 2) /\ Accumulated(2, d) = v
  <2>1. 2 \in Nat /\ 2 >= 2 /\ 0..(2 - 1) = 0..1
    OBVIOUS
  <2> QED BY <2>1, DigitsAreNumber
<1>2. d \in Seq(0..9)
  <2>1. 0..1 \subseteq 0..9
    OBVIOUS
  <2> QED BY <2>1, SeqMonotonic
<1>3. uintToBase(v, 2) = Coded(d)
  <2>1. 2 \in 2..16
    OBVIOUS
  <2>2. uintToBase(v, 2) = Coded(Digits(v, 2))
    BY <2>1, UintToBase
  <2> QED BY <1>1, <2>2, Zenon
<1> DEFINE text == Coded(d)
<1>4. text \in Seq(Nat) /\ Len(text) = Len(d) /\ \A i \in 1..Len(d) : text[i] - Zero = d[i]
  BY <1>2, DecimalsCoded
<1> HIDE DEF text
<1>5. PICK n \in Nat : n = Len(d) /\ DOMAIN text = 1..n
  BY <1>4, LenProperties
<1>6. [i \in DOMAIN text |-> text[i] - Zero] = d
  <2>2. [i \in 1..n |-> text[i] - Zero] = [i \in 1..n |-> d[i]]
    BY <1>4, <1>5, Zenon
  <2>3. d = [i \in 1..n |-> d[i]]
    BY <1>5, LenProperties
  <2> QED BY <1>5, <2>2, <2>3, Zenon
<1> QED BY <1>1, <1>3, <1>6, Zenon DEF text
-----------------------------------------------------------------------------
(* NumbersRoundTrip, of one number. *)
LEMMA EveryNumber ==
  ASSUME NEW v \in Int, -Half < v, v < Half
  PROVE  LET str == printf(<<Percent, 100>>, v)
         IN /\ strToInt(str) = [value |-> v, size |-> Len(str)]
            /\ scanf(<<Percent, 100>>, str) = <<v>>
            /\ v >= 0 =>
                 /\ scanf(<<Percent, 100, Space, Percent, 99>>, str \o <<Space, Bar>>) = <<v, Bar>>
                 /\ strToHex(printf(<<Percent, 120>>, v)) = v
                 /\ strToInt(uintToBase(v, 10)).value = v
                 /\ Accumulated(2, [i \in DOMAIN uintToBase(v, 2) |-> uintToBase(v,
                      2)[i] - Zero]) = v
<1> DEFINE str == printf(<<Percent, 100>>, v)
<1>1. str = intToStr(v, 10) /\ scanf(<<Percent, 100>>, str) = <<v>>
  BY DecimalTrip
<1>2. strToInt(str) = [value |-> v, size |-> Len(str)]
  <2>1. strToInt(intToStr(v, 10)) = [value |-> v, size |-> Len(intToStr(v, 10))]
    BY NumberText
  <2> QED BY <1>1, <2>1, Zenon
<1>3. ASSUME v >= 0
      PROVE  /\ scanf(<<Percent, 100, Space, Percent, 99>>, str \o <<Space, Bar>>) = <<v, Bar>>
             /\ strToHex(printf(<<Percent, 120>>, v)) = v
             /\ strToInt(uintToBase(v, 10)).value = v
             /\ Accumulated(2, [i \in DOMAIN uintToBase(v, 2) |-> uintToBase(v, 2)[i] - Zero]) = v
  <2>1. v \in Nat
    BY <1>3
  <2>2. scanf(<<Percent, 100, Space, Percent, 99>>, intToStr(v, 10) \o <<Space, Bar>>) = <<v, Bar>>
    BY <2>1, CharTrip
  <2>3. scanf(<<Percent, 100, Space, Percent, 99>>, str \o <<Space, Bar>>) = <<v, Bar>>
    BY <1>1, <2>2, Zenon
  <2> QED BY <2>1, <2>3, HexTrip, KernelTrip, BinaryTrip
<1> QED BY <1>1, <1>2, <1>3, Zenon

(* Every number that printf prints, scanf and strToInt read back, in       *)
(* decimal and hexadecimal and with a character behind it (libc.c), and    *)
(* the kernel's uintToBase gives digits of the number (prints.c); pow is   *)
(* the power as an int holds it.  For ints of every width from 2 to 32     *)
(* bits, and all the numbers they hold but the least.                      *)
THEOREM NumbersReadBack == ShellSpec => []NumbersRoundTrip
<1>1. NumbersRoundTrip
  <2>1. ASSUME NEW v \in (INT_MIN + 1)..(-INT_MIN - 1) PROVE v \in Int /\ -Half < v /\ v < Half
    <3>1. PICK h \in Nat : h = Half
      BY HalfType
    <3>2. v \in (-h + 1)..(-(-h) - 1)
      BY <3>1 DEF INT_MIN
    <3> QED BY <3>1, <3>2
  <2> QED BY <2>1, PowersWrap, EveryNumber, Zenon DEF NumbersRoundTrip
<1> QED BY <1>1, PTL
=============================================================================
