------------------------------- MODULE Shell -------------------------------
(***************************************************************************)
(* The shell (shell.c) from a typed line to what the commands (commands.c) *)
(* ask of the kernel: cutting the line into words, the pipe, the           *)
(* background mark, the command table, the arguments of each command.  A   *)
(* command is started with a copy of its words, so the shell's next line   *)
(* does not disturb it.                                                    *)
(***************************************************************************)
EXTENDS Library, FiniteSets

CONSTANTS
  KeyCodes,      \* the character codes the user types
  MaxLine,       \* bound on the length of a line, far below BUFFER_SIZE
  MAX_ARGUMENTS,
  USER_SIZE,     \* bytes of the name of the user, the final 0 among them
  CommandNames   \* commands[]: the names of the commands, a function of them

Bar == 124
Ampersand == 38

(* Enter is no character of a line.  The names of the table are different, *)
(* and the mark of the background begins none of them.                     *)
ASSUME ShellAssumption ==
  /\ KeyCodes \subseteq (1..127) \ {NewLineCode}
  /\ MaxLine \in Nat /\ {MAX_ARGUMENTS, USER_SIZE} \subseteq Nat \ {0}
  /\ \A cmd \in DOMAIN CommandNames :
       /\ CommandNames[cmd] \in Seq(1..127) /\ CommandNames[cmd] # <<>>
       /\ CommandNames[cmd][1] # Ampersand
       /\ \A other \in DOMAIN CommandNames \ {cmd} : CommandNames[other] # CommandNames[cmd]
  /\ DOMAIN CommandNames = {"help", "user", "printmem", "ftcolour", "bgcolour",
                            "divzero", "opcode", "nice", "kill", "block", "unblock"}

VARIABLES
  at,    \* the shell is "reading" a line, or its commands are "running"
  line,  \* userInput
  said,  \* what the shell complains about, "" if nothing
  refused, \* the kernel had no memory for a process or a pipe of the line
  jobs,  \* the commands of the line, as they were started
  ended, \* the indices of those that have returned
  calls, \* what they have asked of the kernel, <<system call, argument>>
  gate,  \* entry 0 of the interrupt descriptor table, at address 0
  dead   \* "" until an exception of a "command" finds no handler, or the
         \* "shell" follows what is no address

shellVars == <<at, line, said, refused, jobs, ended, calls, gate, dead>>

ShellPid == 2
FOREGROUND == TRUE
BACKGROUND == FALSE

ShellInit ==
  /\ at = "reading"
  /\ line = <<>>
  /\ said = ""
  /\ refused = FALSE
  /\ jobs = <<>>
  /\ ended = {}
  /\ calls = {}
  /\ gate = "_exception0Handler"
  /\ dead = ""

Type(c) ==
  /\ at = "reading"
  /\ dead = ""
  /\ Len(line) < MaxLine
  /\ line' = Append(line, c)
  /\ UNCHANGED <<at, said, refused, jobs, ended, calls, gate, dead>>
-----------------------------------------------------------------------------
(* The words of a line. *)

(* What argv[i] points to, once the spaces of the line have become 0. *)
StringAt(str, i) ==
  LET end == SelectInSubSeq(str, i, Len(str), LAMBDA c : c = Space)
  IN SubSeq(str, i, IF end = 0 THEN Len(str) ELSE end - 1)

(* Mutant: every space starts a word. *)
GetCommandArgsEvery(input) ==
  LET found[i \in 0..Len(input)] ==
        IF i = 0
        THEN IF CharAt(input, 1) \in {0, Space} THEN [argc |-> 0, argv |-> <<>>]
             ELSE [argc |-> 1, argv |-> <<StringAt(input, 1)>>]
        ELSE LET prev == found[i - 1]
             IN IF prev.argc = -1 \/ input[i] # Space THEN prev
                ELSE IF prev.argc >= MAX_ARGUMENTS THEN [prev EXCEPT !.argc = -1]
                ELSE [argc |-> prev.argc + 1, argv |-> Append(prev.argv, StringAt(input, i + 1))]
  IN found[Len(input)]

(* The words found in the first i characters; -1 is more than fit. *)
getCommandArgs(input) ==
  LET found[i \in 0..Len(input)] ==
        IF i = 0
        THEN IF CharAt(input, 1) \in {0, Space} THEN [argc |-> 0, argv |-> <<>>]
             ELSE [argc |-> 1, argv |-> <<StringAt(input, 1)>>]
        ELSE LET prev == found[i - 1]
             IN IF prev.argc = -1 \/ input[i] # Space \/ CharAt(input, i + 1) \in {0, Space} THEN prev
                ELSE IF prev.argc >= MAX_ARGUMENTS THEN [prev EXCEPT !.argc = -1]
                ELSE [argc |-> prev.argc + 1, argv |-> Append(prev.argv, StringAt(input, i + 1))]
  IN found[Len(input)]

(* The index of the first word "|", counted from 0. *)
findPipe(args) ==
  LET At == {i \in 1..args.argc : strcmp(args.argv[i], <<Bar>>) = 0}
  IN IF At = {} THEN -1 ELSE (CHOOSE i \in At : \A j \in At : i <= j) - 1

(* argv[0] of an empty line is 0, and no command has that name. *)
getCommandIdx(command) ==
  IF command = <<>> THEN {}
  ELSE {cmd \in DOMAIN CommandNames : strcmp(CommandNames[cmd], command[1]) = 0}

Job(cmd, argc, argv, foreground, reads, writes) ==
  [cmd |-> cmd, argc |-> argc, argv |-> argv, foreground |-> foreground,
   reads |-> reads, writes |-> writes]

Starts(cmds, argc, argv, foreground, reads, writes) ==
  {Job(cmd, argc, argv, foreground, reads, writes) : cmd \in cmds}

(* The line is done: these are its commands, this is the complaint, and    *)
(* the kernel refused something or not.                                    *)
Executed(set, complaint, refuses) ==
  /\ jobs' = SetToSeq(set)
  /\ said' = complaint
  /\ refused' = refuses
  /\ at' = "running"
  /\ UNCHANGED <<line, ended, calls, gate, dead>>
-----------------------------------------------------------------------------
(* handlePipe: the right command reads the pipe in the background and is   *)
(* started before the name of the left one is looked up.  pipeOpen and     *)
(* newProcess answer -1 when the kernel has no memory; a process refused   *)
(* is reported as a name that is none.                                     *)
InitializePipe(pipeIndex, args) ==
  LET right == SubSeq(args.argv, pipeIndex + 2, args.argc)
      left == SubSeq(args.argv, 1, pipeIndex)
      readers == Starts(getCommandIdx(right), Len(right), right, BACKGROUND, "pipe", "screen")
      writers == Starts(getCommandIdx(left), Len(left), left, FOREGROUND, "keyboard", "pipe")
  IN IF pipeIndex \in {0, args.argc - 1} THEN Executed({}, "misplaced", FALSE)
     ELSE \/ Executed({}, "pipe", TRUE)
          \/ Executed({}, "invalid", readers # {})
          \/ readers # {} /\ Executed(readers, "invalid", writers # {})
          \/ /\ readers # {} /\ writers # {}
             /\ Executed(readers \cup writers, "", FALSE)

(* newProcess copies argc words; a negative argc has none, and the command *)
(* finds the wrong number of arguments.  That it answers -1 goes unseen.   *)
StartCommand(args, argc, foreground) ==
  LET cmds == getCommandIdx(args.argv)
      words == SubSeq(args.argv, 1, argc)
  IN IF cmds = {} THEN Executed({}, "invalid", FALSE)
     ELSE \/ Executed(Starts(cmds, argc, words, foreground, "keyboard", "screen"), "", FALSE)
          \/ Executed({}, "", TRUE)

(* Mutant: the mark of the background stays an argument. *)
RunLineKeepsMark(args) ==
  \/ /\ args.argc > 0
     /\ StartCommand(args, args.argc, args.argv[args.argc][1] # Ampersand)
  \/ /\ args.argc <= 0
     /\ StartCommand(args, args.argc, FOREGROUND)

(* argv[argc - 1][0]: with no word, or with too many, argc - 1 is before   *)
(* the array, and what is there may be the mark, another character or no   *)
(* address at all.                                                         *)
RunLine(args) ==
  \/ /\ args.argc > 0
     /\ IF args.argv[args.argc][1] = Ampersand
        THEN StartCommand(args, args.argc - 1, BACKGROUND)
        ELSE StartCommand(args, args.argc, FOREGROUND)
  \/ /\ args.argc <= 0
     /\ \/ StartCommand(args, args.argc, FOREGROUND)
        \/ StartCommand(args, args.argc - 1, BACKGROUND)
        \/ /\ dead' = "shell"
           /\ UNCHANGED <<at, line, said, refused, jobs, ended, calls, gate>>

(* shellExecute: an empty line leaves userInput as it is, empty. *)
Enter ==
  LET read == scanf(<<Percent, 115>>, line)
      args == getCommandArgs(IF read = <<>> THEN <<>> ELSE read[1])
      pipeIndex == findPipe(args)
  IN /\ at = "reading"
     /\ dead = ""
     /\ IF pipeIndex >= 0 THEN InitializePipe(pipeIndex, args) ELSE RunLine(args)

(* printUser, and a new line.  A background command may go on, but what it *)
(* does then is what it would do now: it shares nothing with the shell.    *)
Prompt ==
  /\ at = "running"
  /\ dead = ""
  /\ ended = DOMAIN jobs
  /\ at' = "reading"
  /\ line' = <<>>
  /\ said' = ""
  /\ refused' = FALSE
  /\ jobs' = <<>>
  /\ ended' = {}
  /\ calls' = {}
  /\ UNCHANGED <<gate, dead>>
-----------------------------------------------------------------------------
(* The commands. *)

checkArgcWrapper(argc, argumentsPermitted) == argc = argumentsPermitted

Return(j) == ended' = ended \cup {j} /\ UNCHANGED <<at, line, said, refused, jobs>>

Asks(j, call) ==
  /\ calls' = calls \cup {call}
  /\ Return(j)

(* The first bytes of entry 0, its offset and its selector, become the     *)
(* number of characters that strToInt(str, 0) read.                        *)
Argument(j, i) == strToInt(jobs[j].argv[i]).value
OverwritesGate == gate' = "overwritten" /\ UNCHANGED dead

(* getChar gives -1 in the background; what comes through a pipe is up to  *)
(* the other command.                                                      *)
Answers(j) ==
  IF jobs[j].reads = "pipe" \/ jobs[j].foreground THEN {TRUE, FALSE} ELSE {FALSE}

WrongArgc(j, permitted) ==
  /\ ~checkArgcWrapper(jobs[j].argc, permitted)
  /\ Return(j)
  /\ UNCHANGED <<calls, gate, dead>>

(* Commands that only print. *)
Help(j) ==
  /\ jobs[j].cmd = "help"
  /\ Return(j)
  /\ UNCHANGED <<calls, gate, dead>>

ChangeUser(j) ==
  /\ jobs[j].cmd = "user"
  /\ \/ WrongArgc(j, 2)
     \/ /\ checkArgcWrapper(jobs[j].argc, 2)
        /\ IF Len(jobs[j].argv[2]) > USER_SIZE - 1 THEN Return(j) /\ UNCHANGED calls
           ELSE Asks(j, <<"user", jobs[j].argv[2]>>)
        /\ UNCHANGED <<gate, dead>>

(* -1 is what strToHex says of what is no number. *)
GetMem(j) ==
  /\ jobs[j].cmd = "printmem"
  /\ \/ WrongArgc(j, 2)
     \/ /\ checkArgcWrapper(jobs[j].argc, 2)
        /\ LET memDir == strToHex(jobs[j].argv[2])
           IN IF memDir = -1 THEN Return(j) /\ UNCHANGED calls
              ELSE Asks(j, <<"printmem", memDir>>)
        /\ UNCHANGED <<gate, dead>>

(* The five colours of colors.h *)
ChangeColour(j, cmd) ==
  /\ jobs[j].cmd = cmd
  /\ \/ WrongArgc(j, 2)
     \/ /\ checkArgcWrapper(jobs[j].argc, 2)
        /\ OverwritesGate
        /\ IF Argument(j, 2) \in 1..5 THEN Asks(j, <<cmd, Argument(j, 2)>>)
           ELSE Return(j) /\ UNCHANGED calls

ChangeFtColour(j) == ChangeColour(j, "ftcolour")
ChangeBgColour(j) == ChangeColour(j, "bgcolour")

(* kill, nice and block ask before they touch process 2, the shell, and    *)
(* unblock before it touches those in front of it; only y goes on.         *)
SystemCommand(j, cmd, permitted, keyPids) ==
  /\ jobs[j].cmd = cmd
  /\ \/ WrongArgc(j, permitted)
     \/ /\ checkArgcWrapper(jobs[j].argc, permitted)
        /\ OverwritesGate
        /\ \E yes \in Answers(j) :
             IF Argument(j, 2) \in keyPids /\ ~yes THEN Return(j) /\ UNCHANGED calls
             ELSE Asks(j, <<cmd, Argument(j, 2)>>)

KillProcessWrapper(j) == SystemCommand(j, "kill", 2, {ShellPid})
SetPriorityWrapper(j) == SystemCommand(j, "nice", 3, {ShellPid})
BlockProcessWrapper(j) == SystemCommand(j, "block", 2, {ShellPid})
UnblockProcessWrapper(j) == SystemCommand(j, "unblock", 2, INT_MIN..(ShellPid - 1))

(* An exception through a gate that was not written to comes back from     *)
(* exceptionDispatcher, which kills the running process.  Through the      *)
(* null selector there is no handler to reach.                             *)
DivZero(j) ==
  /\ jobs[j].cmd = "divzero"
  /\ \/ WrongArgc(j, 1)
     \/ /\ checkArgcWrapper(jobs[j].argc, 1)
        /\ dead' = IF gate = "overwritten" THEN "command" ELSE dead
        /\ Return(j)
        /\ UNCHANGED <<calls, gate>>

OpCode(j) ==
  /\ jobs[j].cmd = "opcode"
  /\ \/ WrongArgc(j, 1)
     \/ checkArgcWrapper(jobs[j].argc, 1) /\ Return(j) /\ UNCHANGED <<calls, gate, dead>>

Run(j) ==
  /\ at = "running"
  /\ dead = ""
  /\ \/ Help(j) \/ ChangeUser(j) \/ GetMem(j)
     \/ ChangeFtColour(j) \/ ChangeBgColour(j)
     \/ KillProcessWrapper(j) \/ SetPriorityWrapper(j)
     \/ BlockProcessWrapper(j) \/ UnblockProcessWrapper(j)
     \/ DivZero(j) \/ OpCode(j)

ShellNext ==
  \/ \E c \in KeyCodes : Type(c)
  \/ Enter
  \/ \E j \in DOMAIN jobs \ ended : Run(j)
  \/ Prompt

ShellSpec == ShellInit /\ [][ShellNext]_shellVars
-----------------------------------------------------------------------------
(* What is expected of a line, without reading it from left to right. *)

WordStarts(str) == {i \in DOMAIN str : str[i] # Space /\ (i = 1 \/ str[i - 1] = Space)}
WordFrom(str, i) ==
  LET end == CHOOSE k \in i..Len(str) :
               /\ \A n \in i..k : str[n] # Space
               /\ k = Len(str) \/ str[k + 1] = Space
  IN SubSeq(str, i, end)
Words(str) ==
  LET starts == WordStarts(str)
  IN [n \in 1..Cardinality(starts) |->
        WordFrom(str, CHOOSE i \in starts : Cardinality({k \in starts : k <= i}) = n)]

(* What a line of these words should start: words, and where they run. *)
Expected(words) ==
  LET bars == {i \in DOMAIN words : words[i] = <<Bar>>}
      bar == CHOOSE i \in bars : \A k \in bars : i <= k
      last == Len(words)
      marked == words[last][1] = Ampersand
  IN IF bars = {} THEN {<<IF marked THEN Front(words) ELSE words, ~marked, "keyboard", "screen">>}
     ELSE IF bar \in {1, last} THEN {}
     ELSE {<<SubSeq(words, bar + 1, last), BACKGROUND, "pipe", "screen">>,
           <<SubSeq(words, 1, bar - 1), FOREGROUND, "keyboard", "pipe">>}

(* The words of a line, cut in place by getCommandArgs, are the maximal    *)
(* runs of characters that are not spaces, whatever spaces stand before,   *)
(* between and behind them; more than fit in argv are refused.             *)
ArgsAreWords ==
  LET args == getCommandArgs(line)
      words == Words(line)
  IN IF Len(words) > MAX_ARGUMENTS
     THEN args = [argc |-> -1, argv |-> SubSeq(words, 1, MAX_ARGUMENTS)]
     ELSE args = [argc |-> Len(words), argv |-> words]

(* A line that fits starts what it names, with its own words, on the side  *)
(* of the pipe and in the ground it asks for, and nothing else; the shell  *)
(* complains exactly when something it names was not started, except that  *)
(* a command without a pipe that the kernel refuses goes unmentioned.      *)
RunsWhatWasTyped ==
  (at = "running" /\ Len(Words(line)) \in 1..MAX_ARGUMENTS) =>
     LET expected == Expected(Words(line))
     IN /\ \A j \in DOMAIN jobs :
             /\ <<jobs[j].argv, jobs[j].foreground, jobs[j].reads, jobs[j].writes>> \in expected
             /\ jobs[j].argc = Len(jobs[j].argv)
             /\ jobs[j].argv[1] = CommandNames[jobs[j].cmd]
        /\ refused => Len(jobs) < Cardinality(expected)
        /\ said = "" <=> \/ expected # {} /\ Len(jobs) = Cardinality(expected)
                         \/ refused /\ Cardinality(expected) = 1

(* A number that was printed is read back as itself, and strToInt knows    *)
(* how many characters it took, for every int but the least, which has no  *)
(* absolute value; in base 16, with something behind it, and from the      *)
(* digits of the kernel's own uintToBase, for what is not negative.  The   *)
(* halving pow is a power, also where it wraps.  (The empty line only      *)
(* keeps this from being evaluated in every state.)                        *)
NumbersRoundTrip ==
  line = <<>> =>
    /\ \A n \in 0..8 : pow(10, n) = Int_(10^n)
    /\ \A v \in (INT_MIN + 1)..(-INT_MIN - 1) :
         LET str == printf(<<Percent, 100>>, v)
         IN /\ strToInt(str) = [value |-> v, size |-> Len(str)]
            /\ scanf(<<Percent, 100>>, str) = <<v>>
            /\ v >= 0 =>
                 /\ scanf(<<Percent, 100, Space, Percent, 99>>, str \o <<Space, Bar>>) = <<v, Bar>>
                 /\ strToHex(printf(<<Percent, 120>>, v)) = v
                 /\ strToInt(uintToBase(v, 10)).value = v
                 /\ Accumulated(2, [i \in DOMAIN uintToBase(v, 2) |-> uintToBase(v, 2)[i] - Zero]) = v

(* The help table: a row of any text is a block of lines as wide as the    *)
(* divider, with the whole text in the second column, and a heading that   *)
(* fits is as wide.                                                        *)
TableComplete ==
  LET row == printRow(<<Bar>>, line)
      width == Len(printFullDivider)
      At(i) == ((i - 1) \div C2_WIDTH) * width + C1_WIDTH + 6 + ((i - 1) % C2_WIDTH)
  IN /\ Len(row) % width = 0
     /\ {i \in DOMAIN row : row[i] = NewLineCode} = {i \in DOMAIN row : i % width = 0}
     /\ \A i \in DOMAIN line : row[At(i)] = line[i]
     /\ Len(line) < width - 2 => Len(printCenteredHeading(line, width - 2)) = width

(* "Excepcion division por cero" (shell.c:51): /divzero raises the divide  *)
(* error and exceptionDispatcher kills the process that made it.           *)
DivideErrorHandled == dead # "command"
=============================================================================
