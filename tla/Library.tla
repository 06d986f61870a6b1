------------------------------ MODULE Library ------------------------------
(***************************************************************************)
(* The conversions and the text layout of the C library (libc.c), as       *)
(* functions of their arguments.  A string is a sequence of character      *)
(* codes without its final 0; an int has IntBits bits and wraps.           *)
(***************************************************************************)
EXTENDS Integers, Sequences, SequencesExt

CONSTANTS
  IntBits,   \* of an int, 32
  C1_WIDTH,  \* columns of a help table, 13
  C2_WIDTH   \* and 38

ASSUME LibraryAssumption == IntBits \in 2..32 /\ {C1_WIDTH, C2_WIDTH} \subseteq Nat \ {0}

Space == 32
Percent == 37
Plus == 43
Minus == 45
Zero == 48
NewLineCode == 10

Half == 2^(IntBits - 1)
INT_MIN == -Half
Int_(n) == ((n + Half) % (2 * Half)) - Half

isdigit(ch) == ch \in Zero..(Zero + 9)

Spaces(n) == [i \in 1..n |-> Space]
-----------------------------------------------------------------------------
(* Numbers. *)

(* C's quotient and remainder, which truncate towards zero. *)
Quotient(n, d) == IF n < 0 THEN -((-n) \div d) ELSE n \div d
Remainder(n, d) == n - d * Quotient(n, d)

abs(num) == IF num < 0 THEN Int_(-num) ELSE num

(* The digits of n, the last one first. *)
DigitsOf(n, base) ==
  LET f[k \in Int] == IF k = 0 THEN <<>> ELSE <<Remainder(k, base)>> \o f[Quotient(k, base)]
  IN f[n]

DigitCode(r) == IF r >= 10 THEN 65 + (r - 10) ELSE 48 + r

(* Mutant: a negative number has no sign. *)
IntToStrUnsigned(value, base) ==
  LET digits == [i \in DOMAIN DigitsOf(abs(value), base) |->
                   DigitCode(DigitsOf(abs(value), base)[i])]
  IN Reverse(IF digits = <<>> THEN <<Zero>> ELSE digits)

intToStr(value, base) ==
  LET digits == [i \in DOMAIN DigitsOf(abs(value), base) |->
                   DigitCode(DigitsOf(abs(value), base)[i])]
  IN Reverse((IF digits = <<>> THEN <<Zero>> ELSE digits)
             \o (IF value < 0 /\ base = 10 THEN <<Minus>> ELSE <<>>))

(* acc = acc * base + digit, for each digit in turn. *)
Accumulated(base, digits) ==
  LET acc[i \in 0..Len(digits)] == IF i = 0 THEN 0 ELSE Int_(acc[i - 1] * base + digits[i])
  IN acc[Len(digits)]

(* The value is that of the leading digits; the sign is applied only if    *)
(* nothing follows them.  size is what scanf goes on by.                   *)
strToInt(str) ==
  LET neg == str # <<>> /\ str[1] = Minus
      body == IF neg THEN Tail(str) ELSE str
      stop == SelectInSeq(body, LAMBDA ch : ~isdigit(ch))
      digits == IF stop = 0 THEN body ELSE SubSeq(body, 1, stop - 1)
      res == Accumulated(10, [i \in DOMAIN digits |-> digits[i] - Zero])
  IN [value |-> IF neg /\ stop = 0 THEN Int_(-res) ELSE res,
      size |-> Len(digits) + (IF neg THEN 1 ELSE 0)]

HexValue(ch) == IF isdigit(ch) THEN ch - Zero ELSE IF ch \in 65..70 THEN ch - 55 ELSE ch - 87
ishexdigit(ch) == isdigit(ch) \/ ch \in 65..70 \/ ch \in 97..102
strToHex(str) ==
  IF \A i \in DOMAIN str : ishexdigit(str[i])
  THEN Accumulated(16, [i \in DOMAIN str |-> HexValue(str[i])])
  ELSE -1

pow(x, y) ==
  LET f[n \in Nat] == IF n = 0 THEN 1
                      ELSE LET half == f[n \div 2]
                           IN IF n % 2 = 0 THEN Int_(half * half) ELSE Int_(x * half * half)
  IN f[y]

(* The kernel's own conversion (prints.c), of an unsigned number. *)
uintToBase(value, base) ==
  LET digits == DigitsOf(value, base)
  IN IF value = 0 THEN <<Zero>> ELSE Reverse([i \in DOMAIN digits |-> DigitCode(digits[i])])
-----------------------------------------------------------------------------
(* Strings. *)

(* The characters of a string, and its final 0. *)
CharAt(str, i) == IF i <= Len(str) THEN str[i] ELSE 0

(* The first place where they differ decides. *)
strcmp(string1, string2) ==
  LET differ == {i \in 1..(Len(string1) + 1) : CharAt(string1, i) # CharAt(string2, i)}
      first == CHOOSE i \in differ : \A j \in differ : i <= j
  IN IF differ = {} THEN 0
     ELSE IF CharAt(string1, first) < CharAt(string2, first) THEN -1
     ELSE 1

(* printf of one argument: a conversion nobody knows takes none and prints *)
(* nothing.                                                                *)
printf(str, arg) ==
  LET Converted(c) == CASE c = 99 -> <<arg>>
                        [] c = 100 -> intToStr(arg, 10)
                        [] c = 120 -> intToStr(arg, 16)
                        [] c = Percent -> <<Percent>>
                        [] OTHER -> <<>>
      f[i \in 1..(Len(str) + 2)] ==
        IF i > Len(str) THEN <<>>
        ELSE IF str[i] # Percent THEN <<str[i]>> \o f[i + 1]
        ELSE (IF i = Len(str) THEN <<>> ELSE Converted(str[i + 1])) \o f[i + 2]
  IN f[1]

(* What scanf stores of the line that was read.  A character of the format *)
(* stands for any character of the line.                                   *)
scanf(str, buffer) ==
  LET f[i \in 1..(Len(str) + 2)] == [j \in 1..(Len(buffer) + 1) |->
        LET rest == SubSeq(buffer, j, Len(buffer))
        IN IF i > Len(str) \/ rest = <<>> THEN <<>>
           ELSE IF str[i] # Percent THEN f[i + 1][j + 1]
           ELSE CASE str[i + 1] = 99 -> <<Head(rest)>> \o f[i + 2][j + 1]
                  [] str[i + 1] = 100 -> <<strToInt(rest).value>> \o f[i + 2][j + strToInt(rest).size]
                  [] str[i + 1] = 115 -> <<rest>> \o f[i + 2][j + Len(rest)]
                  [] OTHER -> f[i + 2][j]]
  IN f[1][1]
-----------------------------------------------------------------------------
(* Tables: text of a column of a row, then the rest in rows of its own. *)

printDivider(uniformly, c1, c2) ==
  LET Dashes(n) == [i \in 1..n |-> Minus]
  IN <<Plus>> \o Dashes(c1 + 2) \o <<IF uniformly THEN Minus ELSE Plus>> \o Dashes(c2 + 2)
     \o <<Plus, NewLineCode>>

printFullDivider == printDivider(TRUE, C1_WIDTH, C2_WIDTH)

Padded(str, width) == str \o Spaces(width - Len(str))

FirstCol(str) == <<124, Space>> \o Padded(str, C1_WIDTH) \o <<Space, 124>>
SecondCol(str) == <<Space>> \o Padded(str, C2_WIDTH) \o <<Space, 124>>

(* Mutant: the next row starts a character late. *)
PrintRowSkips(str1, str2) ==
  LET f[i \in 0..(Len(str2) + 1)] ==
        FirstCol(IF i = 0 THEN str1 ELSE <<Space>>) \o
        (IF Len(str2) - i < C2_WIDTH
         THEN SecondCol(SubSeq(str2, i + 1, Len(str2)))
         ELSE SecondCol(SubSeq(str2, i + 1, i + C2_WIDTH)) \o <<NewLineCode>> \o f[i + C2_WIDTH + 1])
  IN f[0] \o <<NewLineCode>>

(* printRow with printCol, for a name that fits its column; i characters of *)
(* the text are in rows above.  That a text has ended is known only when    *)
(* its final 0 is seen within the width.                                    *)
printRow(str1, str2) ==
  LET f[i \in 0..Len(str2)] ==
        FirstCol(IF i = 0 THEN str1 ELSE <<Space>>) \o
        (IF Len(str2) - i < C2_WIDTH
         THEN SecondCol(SubSeq(str2, i + 1, Len(str2)))
         ELSE SecondCol(SubSeq(str2, i + 1, i + C2_WIDTH)) \o <<NewLineCode>> \o f[i + C2_WIDTH])
  IN f[0] \o <<NewLineCode>>

(* printCenteredHeading on a terminal of this width *)
printCenteredHeading(str, terminalLen) ==
  LET delta1 == Quotient(terminalLen - Len(str), 2)
      left == IF delta1 > 1 THEN delta1 - 1 ELSE 0
      right == terminalLen - 1 - left - Len(str)
  IN <<124>> \o Spaces(left) \o str \o Spaces(IF right > 0 THEN right ELSE 0) \o <<124, NewLineCode>>
=============================================================================
