---------------------------- MODULE ShellPipeline ----------------------------
(***************************************************************************)
(* A pipeline "command | wc" of the shell (shell.c, handlePipe): the shell *)
(* opens a pipe, starts the reader in the background and the writer in the *)
(* foreground, sleeps until the writer is reaped, writes EOF and closes    *)
(* the pipe.  The reader reads characters until it reads EOF (commands.c). *)
(***************************************************************************)
EXTENDS Pipes

CONSTANTS
  shell, reader, writer,  \* the processes of Procs
  EOF,                    \* 96 in libc.h, a character no string contains
  MaxWrites               \* bound on the calls of pipeWrite of the writer

VARIABLES
  at,      \* where handlePipe is
  started, \* the commands that were started
  ended,   \* the commands that have returned
  fresh,   \* the reader has read a character and not looked at it
  writes,  \* the calls of pipeWrite the writer has made
  pipeId   \* the shell's variable

localVars == <<at, started, ended, fresh, writes, pipeId>>
pipelineVars == <<vars, localVars>>

PipelineInit ==
  /\ Init
  /\ at = "open"
  /\ started = {}
  /\ ended = {}
  /\ fresh = FALSE
  /\ writes = 0
  /\ pipeId = 70

ShellGoesTo(place) == at' = place /\ UNCHANGED <<ended, fresh, writes, pipeId>>

ShellOpens ==
  /\ at = "open"
  /\ PipeOpen(shell, pipeId)
  /\ ShellGoesTo("start reader")
  /\ UNCHANGED started

(* runPipeCmd: an unknown command, or no process: the pipe is closed. *)
CommandFails(place) ==
  /\ at = place
  /\ PipeClose(shell, pipeId)
  /\ ShellGoesTo("prompt")
  /\ UNCHANGED started

ReaderStarts ==
  /\ at = "start reader"
  /\ started' = started \cup {reader}
  /\ ShellGoesTo("start writer")
  /\ UNCHANGED vars

(* newProcess of a foreground child puts the shell to sleep. *)
WriterStarts ==
  /\ at = "start writer"
  /\ started' = started \cup {writer}
  /\ ShellGoesTo("asleep")
  /\ UNCHANGED vars

(* The writer has been reaped; the shell writes EOF. *)
ShellWritesEOF ==
  /\ at = "asleep"
  /\ writer \in ended
  /\ PipeWrite(shell, pipeId, <<EOF>>)
  /\ ShellGoesTo("close")
  /\ UNCHANGED started

ShellCloses ==
  /\ at = "close"
  /\ PipeClose(shell, pipeId)
  /\ ShellGoesTo("prompt")
  /\ UNCHANGED started

WriterWrites ==
  /\ writer \in started \ ended
  /\ writes < MaxWrites
  /\ \E str \in Strings : PipeWrite(writer, pipeId, str)
  /\ writes' = writes + 1
  /\ UNCHANGED <<at, started, ended, fresh, pipeId>>

WriterEnds ==
  /\ writer \in started \ ended
  /\ InUserCode(writer)
  /\ ended' = ended \cup {writer}
  /\ UNCHANGED <<vars, at, started, fresh, writes, pipeId>>

(* while ((c = getChar()) != EOF): the read, which may sleep, and the test. *)
ReaderReads ==
  /\ reader \in started \ ended
  /\ ~fresh
  /\ \/ PipeRead(reader, pipeId)
     \/ ReadNothing(reader, pipeId)
     \/ ReadGoesOn(reader)
  /\ fresh' = (call'[reader] = NoCall)
  /\ UNCHANGED <<at, started, ended, writes, pipeId>>

ReaderTests ==
  /\ fresh
  /\ InUserCode(reader)
  /\ fresh' = FALSE
  /\ ended' = IF returned = EOF THEN ended \cup {reader} ELSE ended
  /\ UNCHANGED <<vars, at, started, writes, pipeId>>

WriteGoesOnIn(p) == WriteChar(p) \/ WriteGoesOn(p) \/ WriteReturns(p)

ShellSteps ==
  \/ ShellOpens \/ ReaderStarts \/ WriterStarts \/ ShellWritesEOF \/ ShellCloses
  \/ WriteGoesOnIn(shell) /\ UNCHANGED localVars
WriterSteps ==
  \/ WriterWrites \/ WriterEnds
  \/ WriteGoesOnIn(writer) /\ UNCHANGED localVars
ReaderSteps == ReaderReads \/ ReaderTests

PipelineNext ==
  \/ CommandFails("start reader") \/ CommandFails("start writer")
  \/ ShellSteps \/ WriterSteps \/ ReaderSteps

PipelineSpec == PipelineInit /\ [][PipelineNext]_pipelineVars

(* Round robin: a process that is READY again and again gets the CPU.      *)
FairPipelineSpec ==
  /\ PipelineSpec
  /\ SF_pipelineVars(ShellSteps)
  /\ SF_pipelineVars(WriterSteps)
  /\ SF_pipelineVars(ReaderSteps)
-----------------------------------------------------------------------------
(* "Cantidad de lineas del texto ingresado" (shell.c:73): wc prints the    *)
(* number of lines of what the writer sends it, so it reads EOF and ends.  *)
ReaderEnds == (writer \in started) ~> (reader \in ended)
=============================================================================
