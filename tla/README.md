# A verification project for DOG-OS

DOG-OS is a small single-core x86-64 operating system: the Pure64/BMFS boot
loader, a kernel with preemptive round-robin processes, semaphores, pipes, a
keyboard driver and two interchangeable memory managers, and a userland module
with a shell, test programs and a dining-philosophers demo.  This directory
holds TLA+ models of the kernel's own logic, the TLC runs that check them and
the TLAPS proofs about them.  Source paths below are relative to `src/`.

## 1. Inventory

| Component | State it keeps | Operations | What makes it correct |
|---|---|---|---|
| Process manager (`Kernel/processManagement`) | process table, run list with `size` and `readySize`, `currentProcess`, `cyclesLeft`, `currentPID` | `newProcess`, `killProcess`, `blockProcess`, `readyProcess`, `setState`, `setPriority`, `yield`, `wait`, `killCurrentFGProcess`, `processManager` (the context switch of every tick) | every process is in exactly one place; `readySize` is exact, since the dispatch loop trusts it; the CPU goes to READY processes, in order; a READY process gets the CPU; a process sleeps in a semaphore or on a foreground child of its own, never on both and for no other reason |
| Semaphores (`Kernel/semaphores`) | list of semaphores: value, blocked pids, openers | `semOpen`, `semWait`, `semPost`, `semClose` | a counting semaphore: no token lost or invented; nobody waits while there is a token; the fixed array of waiters does not overflow |
| Free-list memory manager (`Kernel/memoryManagement/memoryManager.c`, the default build) | circular list of free blocks in the heap | `malloc`, `free`, `memoryDump` | blocks never overlap, no unit is lost, neighbours are merged, everything lies in the heap, NULL only when nothing fits (but see section 6) |
| Buddy memory manager (`buddy.c`, `buddyList.c`, the other build) | one list of free blocks per size | `malloc`, `free`, `memoryDump` | the same |
| Pipes (`Kernel/pipes`) | table of 8 pipes: ring buffer, two semaphores, openers | `pipeOpen`, `pipeWrite`, `pipeRead`, `pipeClose` | FIFO bytes; the writer never overruns the reader; a pipe lives while somebody has it open |
| Keyboard (`Kernel/drivers/keyboardDriver.c`) | ring buffer of 30 keys, a semaphore that counts keys, shift/ctrl/caps state | IRQ 1 handler, `getChar`, screen switch | one key per token; no key read twice; a reader is not stuck with keys in the buffer |
| Video, console printing, fonts (`Kernel/drivers/videoDriver.c`, `Kernel/libraries`) | cursors of the two screens, which is current, `lineCounter`, frame buffer | `printChar`, `newLine`, `scrollDown`, `deleteChar`, `cursor`, `changeCurrentScreen` | cursors stay on their screens; a backspace erases what was typed and not the prompt |
| Interrupt and system-call entry (`Kernel/interruptions`, `Kernel/asm`) | IDT, saved registers | gates, dispatch table | one kernel operation at a time (interrupt gates clear IF) |
| Clock, CPU information (`Kernel/libraries/syscalls.c`, `time.c`) | tick counter | queries | - |
| Kernel start (`Kernel/kernel.c`, `moduleLoader.c`) | - | start-up order | start-up state of the above |
| Shell and commands (`Userland/.../programs/shell.c`, `commands.c`) | command table, the line, the user's name | parse a line, start processes, build a two-process pipeline; the commands' own requests | the line's words are what is run, in the ground and on the side of the pipe it asks for; the prompt comes back when the job ends; a pipeline delivers everything and ends |
| Philosophers (`programs/phylo.c`) | table of philosophers, their states and semaphores | join, leave, take and put forks, close the table | not all asleep, nobody asleep in a state no neighbour acts on (that two neighbours never eat together needs the mutex the program does not have, section 6) |
| Tests (`memoryTest`, `processTest`, `semaphoreTest`) | counters | programs that exercise the kernel | what they print |
| User C library (`libraries/libc.c`) | the line being read and its length | `readText`, printf, scanf, conversions, tables | a number printed is read back; the length of the line agrees with the screen; a table keeps its text |
| Boot loader (`Bootloader`), image tools (`Toolchain`) | - | - | third-party code and build tools |

How they interact.  System calls (`int 80h`) and IRQs enter the kernel through
interrupt gates, so interrupts are off and each is atomic up to two points where
the kernel lets go on purpose: `_callTimerTick` (`int 20h`, the context switch,
raised by `blockProcess`/`killProcess` on the running process and by `yield`) and
`_hlt` (`sti; hlt`, in the idle process and in `getChar`).  `semWait` blocks through the process manager;
pipes and the keyboard block through semaphores; `newProcess` of a foreground
child blocks its creator, and the context switch that reaps the child wakes it.

The hard behaviours are therefore not data races but *orders*: what another
process, a tick or a key press does between a process going to sleep in the
kernel and its coming back; what a kill leaves behind in the tables of the other
components; counts that are kept in more than one place; and limits of arrays,
pools and heaps.  `PROJECT.json` lists them under "hazards", each at its line.

## 2. Modules

| Module | Models | State and actions in the code |
|---|---|---|
| `Scheduler` | what the process manager promises (abstract) | - |
| `ProcessManager` | `processManager.c`, `processManagerQueue.c` | the PCB fields as functions of the pid, `processes` as the sequence `queue` plus `readySize`, `current`, `cyclesLeft`; one action per system call, per exit of `processManager()`, and per iteration of its `while` loop |
| `JobControl` | the same with a memory of who did what | adds `asleep`, who sleeps in a `semWait` (of its own, of `getChar` or of a pipe), and `tampered`: a process has killed, blocked, readied or waited for one that is not its own to; until then the handshakes of parent and foreground child and of sleeper and post must not get into each other's way |
| `CountingSemaphore` | what semaphores promise (abstract) | - |
| `Semaphores` | `semaphores.c`, composed with `ProcessManager` | list of semaphores, value, `blockedProcesses`; `SemOpen`, `SemWait`, `SemPost`, `SemClose` call `blockProcess` and `readyProcess` of the process manager; a post may come from the keyboard IRQ, also while the idle process runs |
| `Allocator` | what both memory managers promise (abstract) | - |
| `FreeListMM` | `memoryManager.c` | the circular list as `size`, `ptr`, `free_node`; one action per call, per iteration of a loop and per exit |
| `BuddyMM` | `buddy.c`, `buddyList.c` | one sequence per bucket, the two header fields; one action per call, per iteration and per exit |
| `Channel` | what pipes promise (abstract) | - |
| `Pipes` | `pipes.c` on semaphores | the table of slots, ring buffers, two semaphores a slot; a call that sleeps is split where it sleeps |
| `ShellPipeline` | `handlePipe` of `shell.c` with a reader (`wc`) and a writer, composed with `Pipes` | program counters of the three processes |
| `KeyQueue` | what the keyboard promises (abstract) | - |
| `Keyboard` | `keyboardDriver.c` on its semaphore | ring buffer, `ctrl`, where in `getChar` each reader is; one action per case of the handler and per stretch of `getChar` |
| `Phylo` | `phylo.c` | the table as `state`, `sem` and `philosopherCount`, a `pc` per philosopher inside `takeForks`, `putForks` and `test`; every load and every store of the table is a step, because the mutex excludes nobody, and so are the loads of `philosopherCount` in `LEFT` (two) and `RIGHT`, whose results are `held` until they are used |
| `LineEditor` | `readText` of `libc.c` with `videoDriver.c` and `screens.h` | the two cursors in character cells, `lineCounter`, the prompt's length, `lineSize` (`buffSize`, which may be negative); one action per key that is echoed, per print of another process and screen switch, and three for a prompt, one for each of its writes |
| `Terminal` | `LineEditor` composed with the abstract `KeyQueue` | keys are pressed, read and echoed as three steps; Ctrl + Tab acts on queue, cursor and screen at once |
| `Library` | conversions, `strcmp`, printf, scanf, tables of `libc.c`; `uintToBase` of `prints.c` | functions of their arguments over strings of character codes and ints of `IntBits` bits; no floating point |
| `Shell` | `shell.c`, `commands.c`, `idtLoader.c`, `exceptions.c` | types a line, cuts it, starts commands, unless the kernel refuses the pipe or a process (`refused`); each asks something of the kernel (`calls`) and returns; `gate` is the first gate of the interrupt table, which lies at address 0 |
| `RingLemmas` | the operators and lemmas about ring buffers that the keyboard and the pipes rest on | - |
| `ProcessManagerProofs` | proofs about `ProcessManager`, `JobControl` and `Semaphores` | - |
| `BuddyMMProofs`, `FreeListMMProofs`, `PipesProofs`, `KeyboardProofs`, `PhyloProofs` | proofs about the module of that name | - |
| `ShellProofs` | proofs about `LineEditor` and `Terminal`, and about `Shell` and `Library` | - |
| `MC...` | values of constants a configuration file cannot write | - |

Two conventions hold everywhere.  A kernel operation is one action up to the
point where the kernel lets go of the CPU, because gates clear the interrupt
flag.  A definition called *Mutant of D* is a plausible slip in `D`; nothing
uses it, it is there to show that a property notices the slip.

`Pipes` and `Keyboard` hold the semaphore as a value and a list of sleepers and
do not compose with `ProcessManager`: `Semaphores` shows that this is what a
semaphore is, as long as nobody kills or readies a sleeper, and those modules
assume nobody does.  `ProcessManager` holds the list of nodes as a sequence;
the `next` fields are not modelled (see section 7).

## 3. Runs

| Run | Specification | What it shows |
|---|---|---|
| `process_manager` | `JobSpec`, pids 0..3, priorities up to 2 | any program, every system call, keys and Ctrl + C at any time: no process lost or doubled, `readySize` exact, the dispatch loop never runs off the list, no overtaking, implements `Scheduler`, a READY process gets the CPU; until a process tampers with another, one is BLOCKED exactly while it sleeps in a semaphore or has a foreground child that is not reaped, and never for both reasons |
| `semaphores` | `FairDisciplinedSpec`, one semaphore, limits of 2 | tokens are neither lost nor doubled, waiters are exactly the sleepers, the fixed array fits, a process handed a token returns, implements `CountingSemaphore` |
| `free_list` | `FairSpec`, 15 units, requests of 2 to 5 units | blocks tile the heap, list ordered and coalesced, NULL only if nothing fits or the one block of the list fits exactly, calls end, implements `Allocator` |
| `free_list_shared_memory` | `AnySpec`, 9 units | **violated** |
| `buddy` | `Spec`, 256 bytes, requests of 32, 64, 65 and 257 bytes with the header | blocks tile the heap, headers agree with lists, buddies merged, wrong only when nothing fits, implements `Allocator` |
| `pipes` | `Spec`, 4 processes, ids 0 and 70, one slot, buffer of 2, strings up to 3 | the ring and its semaphores agree, no deadlock, no forgotten sleeper, implements `Channel` |
| `shell_pipeline` | `FairPipelineSpec` | **violated** |
| `keyboard` | `Spec`, 2 readers, buffer of 3 | tokens cover the keys, implements `KeyQueue` |
| `phylo` | `Spec`, 2 philosophers at first, 3 at most | until a guest meets a change of the table, the guests never all sleep, and a sleeper is HUNGRY or about to be woken |
| `terminal` | `TerminalSpec`, screens of 7 by 4 cells, lines of 3, prompts of 3 or 4, a queue of 2 | cursors stay on their screens, cursor and line agree up to the backspaces at the prompt, a screen switch does not delete the prompt |
| `shell` | `ShellSpec`, every line of up to 7 of five characters, 3 arguments, 8-bit ints, columns of 2 and 3 | words, pipe and background mark are cut as the line says, the right commands run or the user is told, integers survive printing and reading, tables keep their text |
| `exceptions` | `ShellSpec`, lines of up to 4 | **violated** |

Why the bounds are enough.  *Processes*: three user processes give a running
one, one in front of and one behind any other on the list, which is what the
conditions of the code can tell apart, and a parent, its child and a
bystander.  Pids are never reused, so `MaxPid` bounds the number
of creations; the theorems of section 5 hold for every `MaxPid`.  *Semaphores*:
one semaphore with two waiters has every interleaving of the code, which never
looks at two; the proofs cover any number of semaphores and waiters.  *Heaps*: the free list's cases are a block at either end of the
list, before, between and after others, touching neither, one or both
neighbours; 15 units and four sizes reach them all, and the proof covers every
heap.  The buddy heap has three levels of splitting; the proof
covers every level.  *Pipes, keyboard*: buffers
of 2 and 3 wrap around, fill and empty; strings are longer than the buffer, so a
writer sleeps in the middle.  *Philosophers*: with two each neighbour is both
LEFT and RIGHT, with three they differ; a fourth only adds guests that are not
neighbours, and the proofs cover any number.  *Screens*: five columns and four rows, so a
prompt and a line wrap, scroll and are deleted back over a wrap; the proofs cover every size.  *Shell*: seven characters hold three words with doubled spaces, a pipe
between two commands, a background mark, and one word more than fits; the proofs cover lines of any
length.  *Ints*: all of the 8-bit ones; the proofs cover every width from 2 bits to
the 32 of the code (`LibraryAssumption`).

`MaxValue`, `MaxTokens`, `MaxTotal`, `MaxWrites`, `MaxLines` and `MaxUnder` stop counters that the code
leaves to the width of an integer; they are guards of the action that counts.
`MaxLine` bounds the line, far below `BUFFER_SIZE`.
Two runs have a state constraint.  `MishapBound` (`phylo`): once `mishap` holds the
properties claim nothing, so those states are followed only while the first guests
are being seated.  `LineBound` (`terminal`): a line that the cursor need not agree
with any more is not typed on, and at most one key waits before a line is read.
The proofs need neither.
`CHECK_DEADLOCK FALSE` stands in `pipes` and `shell_pipeline`, whose processes
may have nothing more to do (`NoDeadlock` states which standstill is wrong), in
`buddy`, where the model ends once malloc has followed a NULL pointer, in
`shell` and `exceptions`, where a machine without a gate for its exception
stops, and in `phylo`, where the dinner ends, or the machine stops in a division by zero.

What callers are assumed to do is part of each specification: programs of
`DisciplinedSpec` open before they wait, do not wait on what they closed, and kill
nobody in a `semWait`, while anybody may post; `SemSpec` and `ProcessManager!Spec` assume nothing.
Callers of malloc free what they were given, once; those of `FreeListMM!Spec`
leave the lowest block some room (`AnySpec` does not: that is the finding).
`Pipes!Spec` has one owner that closes a pipe when no call on it is in progress.

## 4. Fairness

- `ProcessManager`, `Semaphores`: weak fairness of the timer tick and of the
  steps of the context switch.  The timer interrupts as long as interrupts are
  enabled, and a switch is a stretch of kernel code.  Nothing is assumed of the
  programs, so nothing promises that a lock is ever posted.
- `Phylo`, `LineEditor`, `Terminal`, `Shell`, `Keyboard`, `Pipes`, `BuddyMM`: none;
  only what may never happen is checked of them.
- `FreeListMM`: weak fairness of the steps of a call that has begun, which runs
  with interrupts disabled.
- `ShellPipeline`: strong fairness of each process.  It is what `ReadyGetsCPU`
  shows of the scheduler: a process that is READY gets the CPU; one that is put
  to sleep and woken again and again is READY again and again.

## 5. Proofs

`ProcessManagerProofs`, for every number of pids and every priority, first of the
process manager: `TypeCorrect`, `ProcessTableSafe`, `ReadySizeCorrect`,
`DispatchSafe`, `Refinement`.  The inductive invariant `IInv` is the four checked
invariants with three facts that they need: the idle process is READY and in the
background (`IdleOK`), pids that were not handed out are free (`FreshPids`), and
who is on the CPU in each phase of a switch (`PhaseOK`).
`ReadySizeExact` is not inductive alone: `setState` adjusts the counter by the
state of a node only if it is on the list, which `NoProcessLost` says, and
`DispatchFindsReady` needs the counter to be exact when the loop is entered.

`RoundRobin` proves the action property `NoOvertaking`.  While `p` stays on the list,
no step lets a process come to stand in front of it, and who gets the CPU stood in
front of it (`FairTo`): what is queued goes to the end of the list, what is dispatched
is its head.

`OneReasonToSleepHolds`, of `JobSpec`.  The property is inductive only
together with the rest of `JobInv`: parents are older than their children
(`ParentsOlder`), and, until a process tampers with another, no parent has two
foreground children, a foreground child that ends is the one that runs, and the
caller of a system call is READY (`Calm`).  What is behind it is that a process
can do nothing while it is BLOCKED: one with a foreground child cannot get into a
`semWait`, and one in a `semWait` cannot create a child.

Then of the semaphores on the process manager.  Every action of `Semaphores` is an
action of the process manager, or leaves it alone, on the part of the state the two
share (`SemaphoresOnProcessManager`), so `IInv` carries over
(`ProcessTableSafeWithSemaphores`); `NoTokenWhileWaitingHolds` and `SemTypeCorrect`
hold for `SemSpec`, any programs at all.  `WaitersExactHolds`, `BlockedFitsHolds`
and `CountingRefinement` are about disciplined programs; their invariant `DInv`
adds that `listeningProcesses` is the number of openers and a semaphore exists
while there is one (`OpenersCounted`: this is why the fixed array of waiters is
long enough), that a process in `semWait` is alive and has the
semaphore open (`WaitingOK`), that the process on the CPU in user code is in no
`semWait` and one that has just gone to sleep is BLOCKED (`CallerAwake`), and that the
parent of a foreground child sleeps on that child and in no `semWait`
(`Handshake`), so that the end of the child does not wake a waiter.  In the
refinement of `CountingSemaphore` the tokens are `value` plus those handed over by
`semPost` to a process that has not returned yet.

`FreeListMMProofs`, for every heap and every set of requests: `TypeCorrect`,
`HeapPartitionHolds`, `ListInOrder`, `FreeBlocksCoalesced`, `RefusesFitOnlyIfSoleHolds`,
`Refinement`.  The inductive invariant `Inv` adds to the checked ones that block 0
is free and that a walk looks for exactly its size only when it is the one block of
the list.  That the walk ends in
the right place is a fact about cycles: `Cyclic(F, p)` says that the set `F` in
address order is one cycle of `p`; `UnlinkCyclic` and `LinkCyclic` say that removing
and inserting a node keep it so.  `RefusesFitOnlyIfSoleHolds` rests on
`PassedTooSmall`: every block the walk has passed is too small; so one that fits when
the walk ends is the one it stands at, which it reached without leaving it.

`BuddyMMProofs`, for every heap from 32 bytes to the largest that `MAX_ALLOC_LOG2`
allows and every set of requests: `HeapPartitionHolds`, `HeadersMatchListsHolds`,
`BuddiesCoalesced`, `LostOnlyIfNoFitHolds`, `Refinement`.  The inductive invariant
`BInv`: the blocks are at multiples of their sizes, do not overlap and leave no gap
(`Tiled`), from which it follows that the buddy of a block is a block of at most its
size, so that `freeNode` finds a header where it looks for one; each list holds the
free blocks of its bucket, once (`ListsHoldFree`); two free buddies of one size are
there only while the call that splits or merges one of them is going on
(`OnlyBusyTwins`); what the call in progress is about (`CallOK`); and what a caller
holds is as large as it asked for (`AskedFit`).  Splitting and merging are shown to
keep the tiling by what they do to one block and its two halves.  The prover knows
nothing of powers with a variable exponent: `BuddyAssumption` bounds the exponent, as
the code does, and `Powers` looks at the 32 of them one by one.

`ShellProofs`, first of the line under the cursor, for every size of screen, line and prompt: `OnScreen` and
`LineMatches`.  `CursorMatchesLine` is not inductive alone.  A wrap counts a row
that `deleteChar` takes back only if the cursor is where a wrap leaves it, and the
cursor may be in the column behind the last one, from which the next character
wraps: the invariant adds that the rows of the line above the cursor are on the
screen (a full line fits, which `LineEditorAssumption` demands of `LINE_LEN`).
With the keyboard's queue, of any
capacity, in front of it, both hold of `Terminal`, too (`TerminalOnScreen`,
`TerminalLineMatches`).  `LineMatches` counts the backspaces at the prompt, each of
which leaves the length of the line one behind (`under`).  The step that is not
obvious is Ctrl +
Tab, which calls `deleteChar` once for every key unread.  The prover has no
induction it can instantiate, so `Repeated` and `RepeatedStays` (a function applied
n times is defined, and stays in its set) take the least n for which they fail and
contradict it.  `PromptSurvives` looks at that step: each deletion moves the cursor
back by one cell, counted along the rows of the line, or not at all, and never past
the end of the prompt.

Then of the shell, for lines of any length: `LineIsCut`, `RunsTyped`, `TableKeepsText`
and `NumbersReadBack`.  The invariant `ShellIInv` is small: the line is a string, and
what was started is what was typed.  The work is in the functions.  They are loops
and recursions of the code, here functions defined by recursion, and the prover can
neither unfold those nor instantiate induction.  `RecursionExists` replaces both: a
function whose argument shrinks with every step, by any measure, exists, so what the
model defines has a value that satisfies its equation.  What holds of every value
is then shown with the least argument of which it fails (`LeastOf`).

- `LineIsCut`: after `i` characters, `getCommandArgs` has found the words that start
  up to there (`Found`); every iteration of its loop keeps that (`FoundStep`).  `Words`
  takes the n-th word from the n-th start, which counting the starts makes unique
  (`CountIsPlace`).
- `RunsTyped`: the command names differ and none starts with an ampersand
  (`ShellAssumption`, true of `shell.c:36-82`), so at most one is found (`OneName`);
  a line without a pipe (`LineRight`) and with one (`PipelineRight`) starts what
  `Expected` says, or complains; also when `pipeOpen` or one of the `newProcess`
  is refused (`Told`).
- `TableKeepsText`: a row is a table (`TableOne`), and a row on top of a table is one
  (`TableMore`), so what `printRow` prints of any text is a table of it
  (`RowIsTable`): every line as wide as the divider, every character in its cell.
- `NumbersReadBack`: arithmetic modulo 2^IntBits (`IntSame`, `IntFits`); `intToStr` of a
  number is the codes of its digits (`IntToStr`), and accumulating the digits gives
  the number back (`ShownAccumulates`).  `strToInt` stops behind the digits
  (`LeadingCoded`), which is what makes `scanf` with several conversions right
  (`ReadsNumberChar`).  `uintToBase`, a different loop, gives the same digits
  (`UintToBase`).  It holds of every `IntBits` in
  2..32, but not of the least number, which has no absolute value.

`KeyboardProofs`, for every finite set of readers and every length of the buffer:
`TokensCoverKeys` and `Refinement`.  The invariant adds to `TokenForEveryKey` that
the two indices are as far apart as there are keys between them, modulo the
length (`RingOK`), and that every process on the semaphore's list is asleep and
listed once (`WaitersOK`): a post to a process that is not there would leave a
key uncovered.

`PipesProofs`, for any finite set of processes, any ids and strings and a buffer of
any length: `RingCounted`, `SleepersFound`, `NeverAllAsleep` and `Refinement`.
`RingExact` is not inductive alone.  A woken reader or writer goes on in its slot
without looking again, so a call must stay on a slot that is in use (`CallsOK`):
this is where the proof needs that the owner closes a pipe only when no call on it
is in progress.  A post adds exactly one to what its lock counts only if the first
process of the list is asleep, in a call of that list and slot, and a lock with
waiters has no token (`WaitersOK`).  `MovesToken` says what every step that takes
a token and leaves one does to the counts; the contents of the buffer, and with them
both refinements of queues, rest on `RingLemmas`, which reads a ring buffer from any
index as a sequence and says what a cell written behind the last, or an index moved
on, does to it.

`PhyloProofs`, for any number of seats, up to the division by zero that ends the
program: `SleepersAreHungry` and `NotAllAsleepHolds`.  A philosopher falls asleep
behind its own `test()`, during which a neighbour may have served it already, so
`AsleepIsHungry` is not inductive: `HungryServed` says from the write of HUNGRY to
the end of `semWait` that it is HUNGRY, has a token, or a `semPost` for it is on its
way, and `UnseatedIdle` that those without a seat have not begun.
`NotAllAsleepHolds` follows one guest, that of seat 1, whose neighbours are 0 and 2
however many sit down: whenever it waits, it has its token or one is on its way, or
one of these neighbours eats, is about to, or is in `putForks` and still to `test()`
it (`OneOwed`), so somebody is awake.  That rests on two facts: in `takeForks` a
philosopher tests its own seat (`OwnTest`), and one that was given its forks was also
given its token (`EatingServed`).  The theorem assumes that the dinner begins with two or
more (`phylo.h:6` seats five): of a table laid for one it is false, because the
neighbours of that guest change as the others sit down.

Only model-checked.  Liveness (`ReadyGetsCPU`, `GrantedReturns`, `CallsReturn`) is
out of the prover's reach, which has no rule for fairness.  Every other property of
a passing run, so every invariant, action property and refinement, is proved.

## 6. Where the code does something else

Found by a run that TLC ends with a counterexample:

- `free_list_shared_memory`: when the lowest block of the heap has been handed out
  whole and one free block is left, freeing the block below it links that block and
  a part of it; a later malloc gives out memory that is in use.
- `shell_pipeline`: the shell closes the pipe right after writing EOF; a reader
  that has not read it by then reads -1 for ever.
- `exceptions`: `strToInt(str, 0)` writes to address 0, where the interrupt
  descriptor table lies; after any command that reads a number, `/divzero`
  finds no handler.

Seen while modelling.  The models do what the code does in each of these; no
property is checked of them because the code promises nothing, or each is a fact
of one line.

*Processes.*  Ctrl + C (`processManager.c:264`) is aimed at the running process:
a foreground job that sleeps, or whose turn it is not, survives it, and a shell
that halts in `getChar` is killed by it, although the help offers it to "terminar
el proceso actual" (`shell.c:340`).  A foreground child that is killed while it
waits in the list leaves its parent BLOCKED (`processManager.c:112`).
`queueProcess` does not set `next` of a node put on an empty list
(`processManagerQueue.c:6`).

*Semaphores.*  A process that is killed, or readied by another, while it waits in
`semWait` stays in the list of waiters; `semStatus` shows it as blocked, and a
post is lost on it.  A process that is killed never closes what it opened.

*Memory.*  When the sole free block fits exactly, malloc finds it, leaves the list as
it is and returns NULL (`memoryManager.c:69`); `total_units` counts one unit too many
(`memoryManager.c:32`), so the last block reaches beyond the heap; a block freed
twice after a merge is not always recognised (`memoryManager.c:102`); when
nothing fits, the buddy malloc compares with `>` where it means `>=`
(`buddy.c:136`) and pops from a list beyond those in use, which the model's
`op = "lost"` stands for; `newProcess` without memory for the stack's contents
does not give back what it has got.

*Pipes.*  `createPipe` returns the pipe's id where its slot is meant
(`pipes.c:139`): the opener is counted in `pipes[id]`, for the shell's ids beyond
the table, and the pipe's own count is too low by one.

*Screen.*  A character that wraps in the bottom row is drawn one row below the
screen (`videoDriver.c:143`).  Ctrl + Tab deletes characters that were never
echoed (`keyboardDriver.c:84`).  `printInt` and `printIntBin` of `prints.c:89`
hold 64-bit numbers in ten bytes.

*Line.*  A backspace at the prompt takes two from the length of the line although
only the backspace was stored: it becomes negative, and the next character is
stored in front of the buffer (`libc.c:263`); `under` counts these, and what the
store overwrites is not modelled.  A line that is full does not store the backspace
and loses two characters by it.  A name that `/user` changes between the writes of
a prompt is cut to, or shorter than, the length the driver was told.

*Shell.*  A line of too many words is complained about and run all the same, with
`argc` -1 (`shell.c:134`), and an empty line reads `argv[-1]` (`shell.c:148`).  A
command without a pipe that the kernel has no memory for is not run, and nobody says
so (`shell.c:154`); in a pipeline it is reported as a command that is none.  When the
writer of a pipeline cannot be started, its pipe is closed under the reader, which is
running (`shell.c:237`).
`/cat`, `/wc` and `/filter` in the background take the -1 of `sysRead` for a
character and never end.

*Library.*  `%x` of a negative number prints its absolute value, although
`libc.c:425` says "value is always considered unsigned"; `NumbersRoundTrip`
therefore leaves out negative numbers in base 16.  `strToDouble("-3.5")` is -2.5
(`libc.c:371`: the fraction is always added), and `doubleToStr` truncates what it has
multiplied by a power of ten in floating point: 0.29 is printed as 0.28
(`libc.c:155`).

*Philosophers.*  `mutex` is never set (`phylo.c:41`), so `semWait(mutex)` fails and
excludes nobody: two neighbours can both pass `test` and eat at once.  A
philosopher that runs before its seat is counted follows no address, as does one
that looks at a guest who has been counted but whose pointer is not there yet
(`phylo.c:119`), and `LEFT` divides by zero with an empty table (`phylo.c:22`).  One
that is removed while it eats leaves its neighbours hungry until they are tested
again.  A guest that has loaded `philosopherCount`, or worked out a neighbour with
it, and then sees the table change, looks at the wrong neighbour: with two guests and
a third that comes and goes, both can end up asleep for good.  `mishap` stands for
all of these in the properties: they hold until the first.

## 7. Not modelled, and what is next

Not modelled: the pixels of drawing, colours, fonts, logos and the register dump;
clock queries; start-up (its result is each module's `Init`); the system-call and
interrupt entry as such (each gate is the atomicity of the actions); Pure64, BMFS
and the image tools, which are third-party code or run on the developer's
machine.  The scan-code table, shift and caps lock only choose a character.
Floating point: `/roots`, `strToDouble`, `doubleToStr`.  The system call `exit`,
which the command of that name makes (`commands.c:239`), is `_exit`, a jump to itself
(`libasm.asm:149`): it stops the machine in the kernel, with interrupts off.  A process's
memory (stack, arguments) is not accounted for.  `naiveConsole.c` and `dumpBuffer` are called by nobody.  The
test programs only call operations that the modules let any program call.

Next, in this order:

1. `ProcessQueue`: the list with its `next` fields, refining the sequence of
   `ProcessManager`.
2. The shared counter of `semaphoreTest`, on `CountingSemaphore`.
3. A pipeline whose writer is refused, in `ShellPipeline`.
