# expect4win in TLA+

expect4win is Expect for Windows: a Tcl extension that spawns console programs,
reads what they print, matches it against patterns and types answers. This
directory holds TLA+ models of the program from `spawn` and its command line down to
the key records it types, TLC runs that check them on small instances, and proofs,
checked by TLAPS, about the parts that are concurrent or re-entrant. Paths below are
relative to the repository root; `generic/` and `win/` are under `src/`.

- [1. The system](#1-the-system)
- [2. Plan](#2-plan)
- [3. The modules](#3-the-modules)
- [4. The runs](#4-the-runs)
- [5. What is known not to hold](#5-what-is-known-not-to-hold)
- [6. The proofs](#6-the-proofs)
- [7. What is not modelled](#7-what-is-not-modelled)

Run a check with `tlc -config MCTrap_safety.cfg MCTrap`, a proof with
`tlapm ProcessProofs.tla`, both in this directory.

## 1. The system

A spawned program (the slave) runs in a console of its own, in one or more
processes. A **debugger thread** of expect starts it with `DEBUG_PROCESS`,
intercepts its console calls by breakpoints, turns them into characters and
queues them. The **Tcl thread** owns the Tcl channel of the slave, runs all
scripts and the event loop. An **injector** DLL in the slave takes key strokes
out of a **mailbox** in shared memory. Console events (Ctrl-C) arrive on threads
that Windows creates. The tree is in the middle of a port from this scheme to
Microsoft Detours; `win/makefile.vc` still builds the debugger.

| Component | State it keeps | Operations | Works with |
|---|---|---|---|
| Spawn channel driver, `win/expWinSpawnChan.cpp` | per channel outLL, errLL, eventInQ, watchMask, blocking, tsd; per thread readyQ, needAwake | Read, Write, Watch, Block, Cut, Splice, Close; AlertReadable; event source setup, check, event | the debugger thread (shared lists and flags), Tcl's notifier (callbacks) |
| Debugger: session, `win/expWinConsoleDebugger.cpp` | ProcessList, breakCount, pidKilled, injectorIPC, readyUp, status | ThreadHandlerProc, CommonDebugger and its OnX handlers, ProcessNew, ProcessFree, Write, NotifyDone | the slave's processes (debug events), the constructor and Close of the channel (waits), the mailbox |
| Debugger: breakpoints, `win/expWinConsoleDebugger.cpp`, `win/expWinConsoleDebuggerBreakPoints.cpp` | per process brkptList, threadList; per thread args, lastBrkpt; cursor and console state | OnXBreakpoint, OnXSingleStep, one handler per console function | the slave's threads, WriteMaster |
| Detourer, `win/expWinConsoleDetourer.cpp` | two mailboxes, readyUp | ThreadHandlerProc, Write | injector; its read loop is a TODO |
| Injector, `win/expWinInjectorMain.cpp` | mailbox, interrupt | thread loop, DllMain | mailbox, the slave's console |
| Mailbox, `win/Mcl/CMclMailbox.cpp` | ring, head and tail, two semaphores, mutex | Post, Get, their alertable forms, constructors | two processes, either of which may be killed |
| Linked lists, `win/Mcl/CMclLinkedLists.h` | list, critical section, semaphore | PutOnTail, PutOnHead, GetFromHead, RemoveIf, Empty | everyone who queues |
| Spawn ids, `generic/exp_chan.c`, `exp_command.c` | ExpState: open, registered, user_waited, the chain of all | spawn, close, wait, ExpChanClose, expStateFree | every command |
| Event loop glue, `generic/exp_event.c` | bg_status, notified, key, force_read | arm, disarm, block, unblock; exp_get_next_event | Tcl's channel handlers |
| expect, `generic/expect.c` | lists of cases (direct and indirect), match buffer, printed, umsize, msize | expect, expect_before, expect_after, expect_background, match_max, remove_nulls, expRead, expMatchProcess | bodies are scripts that re-enter all of it |
| Signal traps, `generic/exp_trap.c` | traps[].mark, .enabled, .action, got_sig, current_sig | ctrl_event, bottomhalf, tophalf, the trap command | threads of the system, Tcl's async handlers |
| Debugger: libraries and memory, `win/expWinConsoleDebugger.cpp` | funcTable, moduleTable, brkptList | OnXLoadDll, OnXUnloadDll, SetBreakpoint, ReadSubprocessMemory, WriteSubprocessMemory | the slave's address space |
| Debugger: console functions, `win/expWinConsoleDebuggerBreakPoints.cpp` | CursorPosition, CursorKnown, the copy of the screen | one handler per console function | the slave's console, the terminal behind the channel |
| Cases, `generic/expect.c`, `exp_command.c` | exp_cmds, exp_i records and their pool | parse_expect_args, exp_one_arg_braced, ecmd_remove, exp_i_update, eval_cases | traces of Tcl variables, closes |
| Matching, `generic/exp_glob.c` | none | Exp_StringCaseMatch | cases |
| spawn, `generic/exp_command.c`, `win/expWinSpawnChan.cpp` | the words, the file, lastError | options, ApplicationType, BuildCommandLine, the environment block, exp_kill | CreateProcess |
| Channels, `generic/exp_chan.c` | per spawn id the slave channel, its mask, leaveopen; the pair of stdin and stdout | create, watch, block, handlers, ExpCloseProc, ExpPairClose | Tcl, channels of the script |
| Log and send, `generic/exp_log.c`, `exp_command.c` | log and diag channels, their flags; what a send has left | expLog..., log_file, log_user, exp_internal, send with -s, -h, -null, -break | all output, the event loop in a slow send |
| Main program, `generic/exp_main_sub.c`, `exp_command.c` | command line, rc flags, exit flags, commands of the interpreter | Expect_Init, exp_parse_argv, exp_interpreter, exp_interpret_cmdfile, exit, exp_exit_handlers | Tcl |
| Timestamps, `compat/exp_strf.c`, `generic/expect.c` | none | timestamp, exp_strftime | |
| Terminal modes, `win/expWinTty.c` | the console's modes as found and as set | exp_init_pty, stty, exp_pty_exit | the console Expect runs in |
| Licence, stubs, messages | tables | | |

Which behaviours are hard, and what makes each component correct:

- **Driver.** The debugger thread and the Tcl thread share a list, two flags and
  a queue under no common lock. Correct: every byte comes out of Read once and in
  order, end-of-file after the last one and never before; what arrives is
  announced; nothing is announced for a channel that was freed; Close ends.
- **Session.** The slave may die at any point of a three-breakpoint start-up,
  start other processes that outlive it, and be killed; the Tcl thread waits for
  the debugger thread without a time limit in three places. Correct: the three
  waits end; the session lasts as long as the root process; input is refused if
  and only if there is nobody to take it.
- **Breakpoints.** Several threads run into the same breakpoint while its opcode
  is restored for a single step, call functions inside each other, and end anywhere.
  Correct: every thread returns to its caller, the end of a call is told as often as its
  begin, an opcode that was put back is replaced again.
- **Mailbox.** Two processes, each of which may be terminated anywhere. Correct:
  a bounded first-in first-out queue; a Post that can be served returns.
- **Spawn ids and background handlers.** No parallelism, but a body may close,
  wait, redeclare, or enter the event loop under the handler that runs it.
  Correct: armed exactly while there are cases and no handler at work; memory is
  freed once, when closed and waited for, and not used afterwards.
- **Match buffer.** Commands nested in each other share one buffer that is
  shuffled, stripped, resized. Correct: everything is shown once, everything
  leaves through expect_out(buffer), nothing is waited over, a match of a
  guaranteed length is found although the buffer was shuffled within it.
- **Libraries and memory of a slave.** Found by name when loaded, used at the third
  breakpoint; pages opened and closed around each access. Correct: a breakpoint is on
  the function of its name and its saved byte is the original one; an access leaves
  the pages as they were.
- **Console functions.** The terminal behind the channel is to show what the slave's
  console shows, with a cursor the debugger keeps to save escape sequences.
- **Keyboard.** Texts are cut into messages for the mailbox. Correct: no key lost,
  doubled or torn, signals in their place.
- **Cases.** Correct: a record is in the pool or in one list; the latest case of a spawn
  id replaces the earlier ones; the first that is for an event is taken.
- **Channels.** Interest goes down through up to three channels, events come up.
  Correct: what is waited for arrives, no handler outlives its record.
- **spawn.** Correct: only a console program is started, with the words it was given.
- **Log and send, main program, matching, timestamps, terminal modes**: a log holds what
  the user saw, a send all of its text; each line is evaluated once, exit handlers run
  once; the longest match at the first place; a date is right in the first and last
  week of a year; the console gets its modes back.
- **Traps.** Three unprotected stores of a system thread against the scan of the
  Tcl thread. Correct: no signal is lost; tophalf always finds one to serve.

## 2. Plan

The order follows the path of a byte: out of the slave, through the channel, into
the match buffer; then the way back, and the life of everything involved.

| | Module | Composes, or implements | State |
|---|---|---|---|
| 1 | `SpawnChan` | implements `ByteStream`, uses `QueueOps` | done, proved |
| 2 | `Mailbox` | implements `BoundedFifo` | done, proved |
| 3 | `SpawnId` | uses `QueueOps` | done, proved |
| 4 | `MatchBuffer` | uses `QueueOps` | done, proved |
| 5 | `Trap` | | done, proved |
| 6 | `Session` | takes the promise of `Mailbox` (a bounded queue) and gives `SpawnChan` its one SLAVEDONE | done, proved |
| 7 | `Breakpoints` | one process of `Session`, from its third breakpoint on | done, proved |
| 8 | `Console`, `Debuggee`, `SlaveMemory` | what surrounds `Breakpoints`: what a handler sends, where the functions are found, how memory is read | done, proved |
| 9 | `Keyboard`, `Detourer` | the way to the slave, through what `Mailbox` promises | done; `Keyboard` proved |
| 10 | `Cases` | several spawn ids in one expect, with the pool of `exp_i` records `SpawnId` takes for sets | done, proved |
| 11 | `Channels` | between `SpawnId` and `SpawnChan` | done, proved |
| 12 | `Launch`, `Main`, `Log`, `Tty` | the commands around it | done, proved |
| 13 | `Glob`, `Timestamp`, `LinkedList` | algorithms and data structures against what they mean | done; `LinkedList` proved |
| 14 | `MailboxOpen` | the constructors of the mailbox; `Mailbox` starts where it ends | |

At most a dozen runs are kept, each a question of its own about a part of the system.
Where several machines belong to one part and share no state, one MC module extends
them all and has a variable `focus`, chosen at the start: the machine in focus runs,
the others keep their initial states (section 4).

## 3. The modules

In all of them a step is as small as the interference demands: where two threads
share memory it is one access, where there is one thread it is one command, handler
or callback up to the next point at which a script can run. Each definition carries
the name of the function it stands for where there is one.

**SpawnChan** (`win/expWinSpawnChan.cpp`; its producer, `WriteMaster` and
`NotifyDone`, from `win/expWinConsoleDebugger.cpp`). Variables `outLL`, `eventInQ`,
`watchMask`, `blocking`, `readyQ`, `needAwake` are the members of that name;
`attached` is `tsd != NULL`; `evQ` is Tcl's event queue; `alerted` is the notifier's
flag. `dpc` places each debugger thread in `AlertReadable`, `tpc` the Tcl thread in
the event loop or in a driver call. Bytes are positions in the slave's output, a
message of `outLL` is an interval of them; Read may split one. The layer above is there
by the calls it makes: `Client = "expect"` arms before every turn of the loop
(`exp_get_next_event`), `Client = "background"` arms once. `ByteStream` is what a
channel promises: in order, each byte once, end-of-file after the last.

**Mailbox** (`win/Mcl/CMclMailbox.cpp`). One action per system call or header access
of `Post`, `Get`, `PostAlertable`, `GetAlertable`. `Kill` stops a thread anywhere: its
mutex is abandoned (`orphan`; the next owner is told, `adopted`), its permits are lost.
`made`, `posted`, `got`, `refused` are histories. `BoundedFifo` is the promise.

**SpawnId** (`generic/exp_chan.c`, `exp_command.c`, `exp_event.c`, `expect.c`). `es` holds
the fields of each ExpState, whether its memory is live, and whether Tcl would call its
handler. `stack` is the C stack: a handler, an expect, or the loop of
`exp_background_channelhandlers_run_all`; only the top moves, and any command may be
executed while a body is on top. `fault` records where freed memory was read first.

**MatchBuffer** (`generic/expect.c`, `exp_event.c`). `buffer`, `printed`, `umsize`, `msize`,
`rm_nulls`, `force_read`, `notified` are the fields; `mine` of an activation says whether
the key in the ExpState is its own. Characters are numbers in the order read, of one
byte each. Which cases match, where, and with `-notransfer` or not is left open.
`shown`, `taken`, `stripped`, `cut`, `lowered`, `wild`, `surprised` are histories.

**Trap** (`generic/exp_trap.c`). `action`, `enabled`, `mark`, `got_sig`, `current_sig` are
the code's; `cpc` places the threads Windows starts (`ctrl_event`, `bottomhalf`), `pc`
the Tcl thread in `Tcl_AsyncInvoke` and `tophalf`; `ready`, `asyncReady`, `asyncActive`
are Tcl's own flags, which are under a mutex. SIGCHLD is not compiled on Windows, and
console events stand for signals 2 and 3 only.

**Session** (`win/expWinConsoleDebugger.cpp`, with the constructor and Close of
`win/expWinSpawnChan.cpp` and the injector's thread of `win/expWinInjectorMain.cpp`).
`stage` and `dying` say what is true of a process, `list` is `ProcessList`; one action
per debug event, with everything its handler does. `ProcessFree` unlinks as the code
does: its `pprev` does not advance, so whatever stands before the process in the list
goes with it. The Tcl thread constructs, writes to the injector, closes.

**Breakpoints** (`OnXBreakpoint`, `OnXSingleStep`, `OnXCreateThread`, `OnXDeleteThread` of
`win/expWinConsoleDebugger.cpp`). `opcode` is the byte all threads share, `brkptList` the
breakpoints on returns (the head of the list is the last element, and those at entries,
which never change, are left out), `info`, `lastBrkpt` and `args` a thread's ThreadInfo,
`tf` its single-step flag, `frames` its calls with the return address the stack holds now
(`slot`) and held first (`site`). Windows stops every thread of a process while the
debugger has an event, so a handler is one step; the steps of the threads, `Call`,
`Execute`, `Return`, come between. A thread whose exception is still to be reported cannot
be ended. `met` and `cut` are histories: where a call need not be seen once, or a
breakpoint is not written again. Every function in the tables (expWinConsoleDebugger.cpp:155-290)
has BREAK_OUT, so each call that is seen gets a breakpoint on its return; each has a stub
of its own (`SetBreakpointAtAddr`), which the model names like the function.

**Debuggee** (OnXLoadDll, OnXUnloadDll, OnXThirdBreakpoint of
`win/expWinConsoleDebugger.cpp`). `image` is what the slave has at each base address,
`funcTable` and `moduleTable` what the debugger noted of it, `planted` the breakpoints,
`broken` the bytes that are their opcode. The export table is followed as the code does,
from name to ordinal to function. **SlaveMemory** has `ReadSubprocessMemory` and
`WriteSubprocessMemory` with what VirtualProtectEx makes of a run of pages.

**Console** (`win/expWinConsoleDebuggerBreakPoints.cpp`). `cell` and `cursor` are the
slave's console, `copy` the screen buffer each call is repeated on, `CursorPosition` and
`CursorKnown` the debugger's members, `term` a VT100 that is shown what WriteMaster gets.
Each console function is one action: the call and its handler. `lapse` names the call
from which the two screens may differ.

**Keyboard** (Write of both front ends, `AsciiToKeyArray` and its tables,
`win/expWinInjectorMain.cpp`). `todo` is what a Write has not posted, `box` the mailbox,
`input` what the injector has put into the console. **Detourer**
(`win/expWinConsoleDetourer.cpp` with the constructor and Close of the channel in the
build with USE_DETOURS) has four threads and the two mailboxes as counts.

**Cases** (`generic/expect.c`, `exp_command.c`). `exp_i` are the records behind `-i`,
`pool` those that are free, `traced` those a variable trace holds, `ecmd` what
`expect_before` and `expect_after` keep. A command is one step: `Parse` builds its
records, `ExpectGlobal` replaces earlier cases, `Expect` tries all of them, `Braced` is
a command with one argument, read as a list of cases and handed to the command again.

**Channels** (`generic/exp_chan.c`). `slaveOf` is the channel below a spawn id, `side`
the two of the pair, `tcl` the handlers Tcl has and the mask each driver was told,
`wanted` the mask a spawn id has noted. `ExpChanWatch` and `ExpPairWatch` pass interest on as the code does, by
differences; `freed` are records that are gone while somebody may still hold them.

**Log** (`generic/exp_log.c`; send, log_file, log_user, exp_internal of
`generic/exp_command.c`). `log` and `diag` are the members of the thread's data,
`wrote` the channels the last step wrote to, `sending` a send between two sleeps.

**Launch** (Exp_SpawnObjCmd; `win/expWinSpawnChan.cpp`). `stage` follows one spawn:
options, search with extensions, the headers of the file, environment and command line,
CreateProcess. Words and files are revealed when the code looks at them. `Arguments` and
`Strings` are how a program takes the line and the block apart. A character is a letter
with a meaning (backslash, quote, white space, NUL, `=`) or one without.

**Main** (`generic/exp_main_sub.c`, `exp_command.c`). `stack` are the frames of C code and
scripts, `lines` what was read and evaluated, `cmds` who owns a command's name,
`exiting` the static flags of exp_exit_handlers beside Tcl's own. A file of -b that cannot
be opened (`Unopened`) exits from within exp_parse_argv, before any rc file.

**Tty** (`win/expWinTty.c`). `consoleMode` is the console's, `tty` the statics; another
program may change the console at any time.

**Glob** (`generic/exp_glob.c`, eval_case_string) has the matcher as recursive functions
over positions, asked after each arrival of output; a pattern is made of pieces, and
`MatchEnds` says what the pieces mean. **Timestamp** (`compat/exp_strf.c`,
Exp_TimestampCmd) has the conversions that compute something. **LinkedList**
(`win/Mcl/CMclLinkedLists.h`) has both rings as pointers, the semaphore, the critical
section and the shared status; it is what `SpawnChan` takes for atomic.

**QueueOps** has removal from a queue (`CMclLinkedList::RemoveIf`, `Tcl_DeleteEvents`,
`expNullStrip`); `FoldProofs` has what follows for order and length. `MC*` modules
give constants their values. The definitions whose comment begins with "Mutant of" are
variants with a plausible mistake: with them in place the property named in
`PROJECT.json` fails.

## 4. The runs

| Run | Distinct states | Bounds | Shows |
|---|---|---|---|
| `MCSpawnChan_expect` | 424,589 | 1 channel, 3 bytes, messages of up to 2, reads of 2, foreground expect | `Delivery`, `CloseEnds` |
| `MCSpawnChan_stale` | until found | 2 bytes, `expect_background` | `Delivery` fails |
| `MCMailbox_safety` | 88,580 | 2 posters, 1 getter, depth 2, 3 posts, all mortal, timeouts | `RingIntact`, implements `BoundedFifo`; while nobody gives up or dies, `Received` |
| `MCSpawnId_direct` | 1,384,223 | 2 spawn ids, 3 activations | `CasesAreServed`, `ClosedAndWaitedIsFreed` |
| `MCChannel_safety` | 1,120,096 | `SpawnId`: 2 spawn ids, 1 variable, 2 activations; `Channels`: the pair, 1 channel of the script, 1 spawn id over it; `SpawnChan`: as above, 4 entries in each queue | `HandlerMatchesStatus`, `HandlerIsSafe`; `Forwarded`, `HandlersAreLive`; implements `ByteStream` |
| `MCMatchBuffer_safety` | 1,160,631 | `MatchBuffer`: match_max 2 and 3, 5 characters, one of them null, 3 activations; `LinkedList`: 1 producer, 1 consumer, 4 nodes, 2 elements | `ShownOnce`, `NothingForgotten`, `NothingOverlooked`, `StraddlingMatch`; `ListIntact` |
| `MCTrap_safety` | 894,920 | 2 signals, 2 threads, events without bound | `MarkIsAnnounced`, `Served` |
| `MCSession_safety` | 70,917 | a root process and 2 others, 2 slots | `RootEndsIt`, `EofFollowsRoot`, `CallsReturn` |
| `MCConsole_safety` | 836,386 | `Breakpoints`: 3 threads, 2 at once, 1 function, 2 return addresses, 3 calls, 2 nested; `Debuggee`: 2 bases, 4 libraries, 3 loads; `SlaveMemory`: 2 pages; `Console`: 2 columns, 3 rows, 3 calls; `Keyboard`: 3 texts, messages of 4 records, 2 slots, 3 writes; `Log`: 2 files, 2 channels of the script, 2 processes | `ReturnsHome`, `Rearmed`, `ToldInPairs`; `Planted`; `Undisturbed`; `Mirrored`; `Typed`; `Transcript`, `Whole` |
| `MCCases_safety` | 1,593,283 | `Cases`: 2 spawn ids, 1 variable, 4 records, 3 commands; `Launch`: every kind of file, arguments of up to 3 characters; `Main`: 3 lines, 5 frames beside those of exits; `Glob`: patterns of up to 3 pieces, text of up to 3 characters; `Timestamp`: 14 years; `Tty`: any number of stty | `Accounted`, `LatestWins`, `FirstFits`; `Launched`; `LinesOnce`, `EndsOnce`; `LongestMatch`; `Dated`; `Restored` |
| `MCGlob_nocase` | until found | as in `MCCases_safety` | `OutputFolds` fails |
| `Detourer_spawn` | until found | mailboxes of 2 slots, 3 prints | `SpawnReturns` fails |

`MCChannel`, `MCMatchBuffer`, `MCConsole` and `MCCases` hold several machines that share no
state in the code or meet in what one promises the next (`SpawnChan` gives `Channels` a
byte stream, `Mailbox` gives `Keyboard` a queue). Their interleavings would only multiply
states that no property relates, so `focus` lets one of them run; the states of a run are
the sum, not the product. A property of one machine is true of the others' initial states.

Why the bounds are enough:

- *SpawnChan*: two messages make a list that is neither empty nor one message; with
  three bytes and reads of two, a read ends inside a message, at its end, and across two.
  `CONSTRAINT QueueBound` cuts off states with more than 4 entries; duplicates need 2.
  The liveness run has no constraint. A channel shares with another one only the two
  queues and `needAwake`; `MCSpawnChan_cut` (section 5) has two of them.
- *Mailbox*: depth 2 and three posts make both indexes wrap and a poster wait for a slot, with a
  thread killed before and after. `Received` is about the behaviours in
  which no permit is lost; those in which one is are in the same run. Two posters compete for the mutex with the getter.
- *SpawnId*: three activations are a handler whose body enters the event loop, calls the
  handler of the other spawn id, and closes or renews either. Symmetry permutes the
  spawn ids, which nothing but `RunAll`'s chain orders and the chain is a variable.
- *Channels*: one spawn id over the pair and one over a channel of the script have every
  path of interest; two over one channel come about when the second is spawned over it.
- *MatchBuffer*: msize is twice match_max plus 1, and the buffer counts as full when
  TCL_UTF_MAX bytes more would reach that: at 2 and at 4 characters. So five fill it more
  than once, and more than once after match_max was lowered.
- *LinkedList*: nodes are allocated, freed and reused; the one consumer is what the code
  has (only the Tcl thread gets, asks and removes).
- *Trap*: two threads for two signals overwrite the hint in both orders; a signal that
  comes again while it is served needs one thread.
- *Session*: with two processes below the root, the list loses one, both, or one that
  was started by the other, in any order; two slots are full and half full.
- *Breakpoints*: two threads meet at the function in every order, a third comes in the
  place, and with the ThreadInfo address, of one that ended; of the three calls two are
  nested or simultaneous. Functions share nothing but the order of one list, from which
  what is for another one is skipped; the proofs are for any number of them.
- *Debuggee*: two versions of a library and two libraries with a name in common meet at
  two bases in every order; a third load is one that takes the place of an unloaded one.
- *Console*: three rows are a first, a whole and a last one, two columns a first and a last.
  Every call occurs after every two others.
- *Keyboard*: texts of 1, 3 and 5 characters are 2, 6 and 10 records for messages of 4: below,
  across and over two boundaries; three writes fill both slots and wait.
- *Log*: each file is a log, a diagnostic file, or open for neither; of the two channels of
  the script one cannot be written to.
- *Cases*: three commands are two that give cases and one that replaces, removes or tries
  them; four records are enough that the pool is emptied and refilled.
- *Launch*: files have one property at a time out of line, arguments up to three of the
  characters that are treated specially: backslash, quote, space and one other.
- *Main*: the fifth frame is the command of an interpreter that was called in the command
  of another loop (main, a loop, its command, the interpreter, its command): both loops
  read and evaluate lines in turn, outer, inner, outer, and hold parts of commands; three
  lines open and close braces in either. Frames of exits do not count, so that
  inner command may exit, and its exit action may run `exit -noexit` or `exit` again.
- *Glob*: a piece is of one of eight kinds (character, `?`, `*`, set, range, backslash ...); each
  pattern with and without `^`, `$` and -nocase, on text with wide, capital and special characters.
- *Timestamp*: a year is leap or not and begins on one of seven days; the week of a date
  depends on nothing else and on whether the year before was a leap year. Steps of 23 hours
  leave out no day and no hour.
- *Tty*: states repeat, so sequences of stty are of any length; a sentence is one of nine.

`CHECK_DEADLOCK FALSE` is in every configuration: a script that does nothing, a slave
that prints nothing more and a mailbox nobody uses are proper ends.

Fairness is stated for threads, never for what the outside may do. `SpawnChan`: weak
fairness of the Tcl thread and of each debugger thread in `AlertReadable`, and of the end
of a slave whose channel was closed, since Close kills it; not of a slave's output, nor
of a script. `Mailbox`: strong fairness of waiting for a semaphore or mutex, as those of
Windows queue their waiters, weak fairness of the steps after. `Trap`: weak fairness of
every thread and of bodies that return. `Session`: weak fairness of debug events (Windows
delivers each, and a started process reaches its three start-up breakpoints), of the
three waits of the Tcl thread, and of the injector's thread; not of any exit or failure.
For `Mailbox`, the steps that fail
are outside of fairness.

## 5. What is known not to hold

Three listed runs show a disagreement between the code and what its comments or its
manual say.

- `MCSpawnChan_stale`. AlertReadable sets `eventInQ` and queues an event; Read clears the
  flag before it drains `outLL`. A debugger thread between its `PutOnTail` and its
  exchange of the flag is overtaken by the Read: its event finds nothing, nobody clears
  the flag, and later bytes are not announced. A foreground expect does not suffer,
  because it polls `outLL` before each turn; `expect_background` stops receiving.
- `MCGlob_nocase`. A set of characters in a pattern does not match the capital letters of
  the output under -nocase, since the output is not folded there (exp_glob.c:160-206).
- `Detourer_spawn`. If one of the detourer's mailboxes cannot be made, nothing sets
  `readyUp`, and `spawn` does not return.

More properties that fail are kept without being listed as runs; each gives a
counterexample to read. Where the first column names a configuration of section 4, the
property need only be put in the place of that configuration's; after "with" are
constants to change besides.

| Configuration | Property | What happens |
|---|---|---|
| `MCSpawnChan_setup` | `NoLostWakeup` | an event is queued between `Empty()` and `needAwake->Set()`: the notifier waits although it has an event, until a timer or the next alert |
| `MCSpawnChan_cut` | `NoEventAfterFree` | a thread past its test of `tsd` queues an event for a channel that Cut has just cleaned up |
| `MCSpawnId_reenter` | `NotReentered` | `exp_background_channelhandlers_run_all` calls the handler of every spawn id with characters, whatever its status: a body that declares cases anew enters the handler under which it runs |
| `MCTrap_recalled` | `HintIsValid` | `tophalf` stores -1 in `got_sig` before its scan; the handler thread that comes late with `Tcl_AsyncMark` calls it once more, and it takes the -1 |
| `MCSpawnId_reenter` with `Commands <- MCBackground`, `MaxDepth = 3` and both ids | `ChainIsSafe` | the loop goes on with the `nextPtr` of a spawn id that a body freed |
| `MCSpawnId_reenter` with the variable `v1`, `MaxDepth = 3` | `FinishIsSafe` | the handler of a spawn id that was waited for closes it at a read error, and goes on to `finish` |
| `MCSpawnId_reenter` with `Commands <- MCExpect`, `MaxDepth = 3` and both ids | `ExpectIsSafe` | a spawn id in an expect's list is closed and waited for by a handler in the event loop |
| `MCSpawnId_reenter` with `Commands <- MCTclClose`, `MaxDepth = 3` | `HandlerFrees` | Tcl closes the channel inside its handler: the handler does not free it |
| `MCSpawnId_reenter` with `Commands <- MCNamed`, the variable `v1` | `CasesAreServed` | with indirect lists `bg_ecount` is decremented once too often and served cases are disarmed |
| `MCMailbox_safety` with `MaxPosts = 4`, `Mortal = {p1, p2}`, no timeouts | `PostTells` | Post that takes an abandoned mutex reports failure and has posted |
| `MCMatchBuffer_safety` with `MaxChars = 2`, `Manual = FALSE` | `NothingOverlooked` | an expect on a spawn id that has an unblocked `expect_background`, which the manual forbids and nothing prevents (expect.man:972-976) |
| `MCMatchBuffer_safety` | `GuaranteedMatch` | a match of `match_max` bytes is missed by one byte in the worst case |
| `MCMatchBuffer_safety` with `MaxChars = 7` | `StaysInBuffer` | a smaller match_max leaves `printed` behind the end of the buffer |
| `MCTrap_safety` | `NothingLeftToDo` | an action is evaluated again for a signal that came once |
| `MCTrap_safety` | `NotUnexpected` | a trap that is reset between mark and `tophalf` makes it abort |
| `MCTrap_safety` | `SomeInterp` | the test for `-interp` is the wrong way round (exp_trap.c:129-138) |
| `MCTrap_safety` | `ActionOutlivesEvaluation` | an action replaces itself while it is evaluated |
| `MCSession_safety` | `SpawnAlwaysEnds` | the root process dies before its third breakpoint; `readyUp` is never set |
| `MCSession_safety` | `LastProcessEndsIt` | the session ends with the root process while others live, and they are killed with it |
| `MCSession_safety` | `RefusedMeansDead` | a child's exit sets `pidKilled`; input for the living root is refused |
| `MCSession_safety` | `SetWhileWaitedFor` | `readyUp` is set a second time after the constructor has returned |
| `MCSession_safety` | `AlwaysEnds` | Post waits for a slot in a mailbox nobody empties any more |
| `MCConsole_safety` | `ToldAlways` | a thread calls a function while the opcode is restored for another one: its call is not seen |
| `MCConsole_safety` | `ArgsAreMine` | a console function calls another one: the save area for "the function" whose return is awaited (expWinConsoleDebugger.hpp:112-114) holds the arguments of the inner call |
| `MCConsole_safety` | `YesIsRight` | "TRUE if successful" (expWinConsoleDebugger.cpp:1709): a read of a guard page, or of pages of which the second is not there, answers TRUE without data |
| `MCConsole_safety` | `KnownIsRight` | "Do we know where the slave's cursor is?" (expWinConsoleDebugger.hpp:317): after some calls CursorPosition is not the cursor's although CursorKnown is set |
| `MCConsole_safety` | `CopyIsComplete` | "console buffer we write a complete copy to" (expWinConsoleDebugger.hpp:309): some calls are not repeated on it |
| `MCConsole_safety` | `BlocksAreShown` | what WriteConsoleOutput puts on the screen does not reach the terminal as it is |
| `MCCases_safety` | `NothingSpilt` | a command with a wrong flag, or with a spawn id that is not open, leaves records behind that a variable's trace still updates |
| `Detourer_spawn` | `ThreadEnds` | nothing ends the thread of the detourer: Close waits for it for ever |

The properties of the other modules name their exceptions, which is where the code
departs from what one would expect of it. They were met while modelling:

- *Console*: clearing to the top of the screen leaves the last row but its first column
  (`ClearsTop`); characters other than spaces for the last row of a fill go to the
  transposed place (`FillPost`). Not modelled: the 101st handle is written behind the array
  of 100 (expWinConsoleDebuggerBreakPoints.cpp:485-488), and a console's input mode is
  noted and not read.
- *Debuggee*: a library loaded after the third breakpoint gets no breakpoints, one that is
  loaded again loses them; a name known from an unloaded library puts a breakpoint
  into whatever is at its address now; of two names for one function the second saves
  the breakpoint for the original byte.
- *SlaveMemory*: a run of pages of different protection gets that of the first.
- *Keyboard*: `@` is typed without Shift, `-` and `=` with it, Tab with Ctrl. The headers of the
  injector and of the front ends do not agree on the message
  (expWinInjectorIPC.hpp:41-59), so neither build compiles as it is. The front end of the
  debugger leaves the event field of its key records unset (MapCharToIRs); the module
  takes them for key events.
- *Detourer*: messages of the slave are taken and dropped (a TODO), `interrupt` is never
  set; a slave that prints into a full box waits; text longer than 80 characters is cut
  while its length is not.
- *Channels*: a handler for writing is registered with the procedure of the one for
  reading and takes its place; deleting it names another procedure, so it stays until the
  channel below closes, which it does with the record. Two spawn ids over
  one channel take each other's interest. A pair that is closed while it is watched leaves
  handlers on stdin and stdout. `wait` after `close` of a -leaveopen spawn id makes Tcl panic. -blockingpropagate is read back inverted.
- *Cases*: `expect_info -i` parses the flag and reports the current spawn id.
- *Log*: a script may close a channel it gave to log_file; send -null to several spawn ids
  gives the first only; a slow send counts bytes for characters and runs over the end of a
  text of wide ones; a spawn id that is closed and waited for during a slow send is used.
- *Launch*: a NUL in an argument or a variable would end the line or split the block, which
  the module assumes not to happen; an unknown PE subsystem sets no error, so an earlier one is reported; an empty
  -environment fails without a message; -pty without a program reads past the words; the
  words of a program are ignored with -open.
- *Main*: `rename _close.pre_expect close` at exit cannot succeed, since close is Expect's
  (the comment at exp_command.c:1829 expects it to); at the end of a command file the
  last line of an incomplete command is appended twice; a partial line on the
  interpreter's input counts as its end; exit within the exit action ends the process
  without exp_close_all.
- *Glob*: `$` alone matches no output that is there; an unclosed set is accepted; `]` ends a
  range as in `[a-]`.
- *Timestamp*: `-seconds -1` means now; a time before 1970 makes gmtime answer NULL, which
  is used.
- *Trap*: SIG_IGN installs no handler with the console (exp_trap.c:459-469): until some trap
  with a script does, Ctrl-C and Ctrl-Break of an ignored signal end the program. The
  module has the handler installed and lets it pass them over.
- *Tty*: stty answers from Expect's copy, which is not the console's if another program
  changed it or the change was refused; output that is no console counts as raw after `stty raw`;
  words it does not know are ignored; `exp_cook` always cooks.
- *LinkedList*: `m_dwStatus` is one member for all threads, and `Empty` takes and gives back a
  permit: with two consumers a get could reach the sentinel. There is one.

`LastProcessEndsIt` deserves a word. `ProcessFree` drops too much from the list, and that
is what makes a close end: `TerminateProcess` ends the root process only, so a list that
kept the others would leave Close waiting for a debugger thread that still has them.
The mutant `ProcessFreeOne`, which unlinks the one process only, violates
`EofFollowsRoot`, and a close that does not end violates `CallsReturn`.

## 6. The proofs

All are checked by TLAPS for every value of the constants that the named assumptions of
the modules allow. They are about safety.

| Module | Theorem | Inductive invariant, and why the property alone is not inductive |
|---|---|---|
| `SpawnProofs` (`SpawnChan`, `SpawnId`, `Launch`) | `TypeCorrect`, `StreamCorrect`, `EofCorrect`, `ByteStreamImplemented` | `TypeInv /\ StreamIntact /\ ReadGuard`. A Read that has passed its test of `outLL` will report end-of-file if it comes back with no byte: `ReadGuard` says the list is still not empty then, since only Read takes from it. `Busy` says that inside a driver call there is a call |
| | `StatusCorrect`, `HandlerCorrect` | `InStep` of every ExpState: while Tcl knows the channel, its memory is live and it is armed exactly if Tcl has the handler. It is preserved by every function of `exp_event.c` by itself, hence by any nesting |
| | `ServedCorrect`, `FreedCorrect` | `Direct`: every case that serves a spawn id names one Tcl knows or one whose close is still under way below, a waiting background handler is blocked by the run above it, the cases of the running expect are on top. It is the invariant of scripts without indirect spawn id lists; with them `CasesAreServed` fails (section 5) |
| | `ArgumentsRead`, `SettingsRead` | that a text is read back is no state property: the argument is written from its end and read from its start, so `Midway` relates, at each character, what the parser has with what is still to be read. Backslashes it holds back are all of them in pairs if a quote comes next (`double`) and single otherwise; `CharRead` is the step, the least character at which it fails the induction |
| | `LaunchedAlways` | `LaunchInv`: the search starts only what the headers say is a console program, in every case of `Exp_WinApplicationType`, and an error left of an earlier extension is in no answer but that of an unknown subsystem; the line and the block were made of what was given. Then the two theorems above |
| `MailboxProofs` (`Mailbox`, `Keyboard`, `Channels`) | `TypeCorrect`, `MutualExclusion`, `RingCorrect`, `FifoImplemented` | `Permits` counts: a slot is free in the semaphore, promised to a poster, filled, or about to be given back; a death only lowers the left side. `Owner` and `InHand` relate places to the mutex and to the slot in hand, `Fresh` keeps messages apart |
| | `TypedAsSent` | `KeyInv`: while the slave runs, what it has, what is in the mailbox and what is still to be posted make up what was sent, message after message (`FlattenConcat`). That a character comes with its key is computed for each of the 256 |
| | `HandlersLive` | `SlavesRight`: a slave of a spawn id is there with its record, only exp0 is over the pair, a channel the script has and a spawn id is over was left open. `Owned`: a handler is on the slave of its spawn id, or on the side of the pair whose event is in the pair's mask. Each direction of `ExpPairWatch` keeps it on the way, with a mask that is new in part |
| | `ForwardedAlways` | `Tracks`: the handlers of a spawn id and what is watched below it are what it wants; `PairAsked`: the pair has a handler on stdin while it is watched for input; `Apart`: what a spawn id watches another one does not touch, which needs that no two go through one channel (`LetsBe` says it of each operation, a fold carries it over the spawn ids that close at once) |
| `MatchBufferProofs` | `TypeCorrect`, `ShownCorrect`, `StraddlingCorrect` | `Data`: `printed` is not before the end of what is in the buffer, all that was read was shown, and characters rise at least as fast as their places, which is what bounds the match across two bufferfuls. `Control` types the rest |
| | `ForgetsNothing` | `AllThere`: the characters taken rise and lie before those in the buffer, and the two together are all that arrived but the nulls that were stripped |
| | `OverlooksNothing` | `Attentive`: a buffer with a key above the one of its last look will be looked at by the expect that waits (`Order` of the calls on the stack, `Keyed`, `Tried`). Hypothesis `Manual`: with background handlers the property fails, for a handler may eat what another would match |
| `ProcessProofs` (`Trap`, `Main`, `Tty`) | `TypeCorrect`, `AnnouncedCorrect` | `Working` (a signal is at hand where one is used), `ReadyIsSeen` (Tcl knows of a marked handler), `Busy` |
| | `LinesOnceAlways`, `EndsOnceAlways` | `Nested` says what may lie on what: the program or its exit at the bottom, the command for the end of the input on its interpreter, and only the frame on top holds lines. `InHandlers`: a frame of the handlers is there only since the flag of exp_exit_handlers is set. `Counted` orders the numbers of the lines: what was evaluated rises and lies before what is held; `InParts` says that a line doubles only after the command file was asked for in parts, when main no longer reads options |
| | `RestoredAlways` | `InStep`: as long as no other program meddles, Expect's copy is the console's mode, on a side that waits for lines as it did at first; a refused mode is refused for the copy's sake only where it does not. `Answered`: an answer of stty tells all of the mode before it. `Kin` carries both through the words of a sentence, which are a fold |
| `SessionProofs` (`Session`, `LinkedList`, `Console`) | `TypeCorrect`, `RootCorrect` | `Going`: from its creation to its exit the root process stands last in `ProcessList`, once; so no `ProcessFree` of another reaches it and its own empties the list |
| | `ListIntactAlways` | each ring is a sequence of nodes, none twice, that `next` walks forwards and `prev` backwards (`Linked`; `RingIs` says that `Ring`, the closure of a function, finds it); each operation on pointers is one on the two sequences. The semaphore and what was granted add up to the length of the used one |
| | `MirroredAlways` | `MirrorInv`: until something lapses, the terminal's screen is the slave's and, while the debugger knows its cursor and has not moved the terminal's behind its own back, it has the row of the terminal's; nothing is said of columns, for no shortcut is taken on them. Each handler is one of: characters in a row (`TypeInRow`), rows in turn (a fold), margins that scroll; a fill goes through the cells it was asked for once and in order (`Fills`) |
| `DebuggerProofs` (`Breakpoints`, `Debuggee`, `SlaveMemory`, `Log`) | `TypeCorrect`, `ThreadsReturnHome`, `BreakpointsAreRearmed` | `ReturnsHome` says nothing of the list. `OwnerOK` ties a breakpoint to a call of its thread, `OrderOK` sorts those of one ThreadInfo by nesting with the dead threads' first, so the one found first is the latest of the innermost call; `ReturnOK` says that only the first breakpoint of a call knows the way home and the others lead to the stub again, `SlotOK` that the call returns to the stub as long as there is one. `StepOK` adds what `Rearmed` needs |
| | `CallsAreToldInPairs` | an action property: `PairsOK` says that the return of a call is told only by the breakpoint that told its entry, `OnceOK` that one call has one such breakpoint |
| | `PlantedCorrect` | `KnownOK`: a known name is that of a function there, was met twice, or lost its library. `ListOK`: a breakpoint is where its name is known to be, and saves a breakpoint only if an earlier one of the list is at the same place; it holds after each step of the fold that sets all breakpoints |
| | `LeavesUndisturbed` | an action property; pages lie side by side, so a run of pages is one of equal protection or was noted as `mixed` |
| | `TranscriptKept` | `FilesRight`: a file of Expect is open exactly as log or as diagnostics, and one channel is never both. `Shows`: each of the writers puts one line into the log with what it shows, and none into a channel that is not there |
| | `WholeAlways` | `SentSoFar`: the first spawn ids have the whole text, the next one has it up to the character before `next`, those behind it nothing. A character has at least one byte (`SizeIs`), so a piece of a slow send ends behind the text only if one has more |
| `CasesProofs` (`Cases`) | `AccountedAlways`, `LatestWinsAlways` | `CasesInv`: the pool and the two lists have no record twice and none in common, each list's records count the cases that point to them and none is without one, and `LatestWins`. It holds between commands only. While arguments are parsed, `Draft`: the pool and the new records are what the pool was, and the new ones count their cases. While old cases make room, `Removal`: what leaves the list goes to the pool, what stays keeps its cases and gains no spawn id; then `Lacks`: no old record has a spawn id of the new ones, so the join of both has one record for each spawn id given by name |
| | `FirstFitsAlways` | a step property: the three searches are one over the three lists together (`EvalConcat`), which finds the least place that is right (`EvalIs`), and records go back to the pool without a change to those in the lists (`ShapeStays`). It rests on `CasesInv`: a case of a list points to a record that is not one of the new ones |
| `FoldProofs` | lemmas | for a fold with any operator: it has a value after each element (`FoldTrace`), it stays in a set the operator stays in (`FoldStays`), over two sequences joined it goes over one after the other (`FoldConcat`); a function may be defined from its last value (`Iterated`); how `FlattenSeq` joins one more sequence; of `QueueOps`, what removal keeps: order, membership, length |

Assumptions: counts and bounds are natural numbers, depth and slots positive, sets of
threads finite and disjoint, the root is not one of its children. Names of different
kinds differ: channels of the script, spawn ids, exp_user, stdin, stdout, files of the log.
There are finitely many spawn ids, and finitely many nodes in a list, with one consumer; a send
is given no spawn id twice (it would get the text twice: `GivenOnce`). The pages of `SlaveMemory` lie side by side; the
sentences of `Tty` are sequences of words; the pool of `Cases` and its spawn ids are finitely many, `any_spawn_id` and NULL are none of
them, and arguments and the commands of a braced argument are pairs of a flag's value and a case; a console has at least two rows and two columns.
For `Launch`, the path of a file that is found holds no quote and ends in no backslash (it is no directory), and no
word of a script holds a NUL. `StraddlingCorrect` needs `UtfMax <= 3`, which is
the value of `TCL_UTF_MAX` the program is built with.

Three things recur. Where the code loops over a sequence, the model folds, and
`FoldProofs` turns what one step keeps into what the loop keeps. Where a handler runs
inside another command, the invariant is one of each record or frame and not of the
whole. Where a property speaks of what was said or shown, a history holds it, and the
invariant splits the history into what has gone and what is still on the way.

Only model-checked: all liveness (`Delivery`, `CloseEnds`, `Received`, `Served`,
`EofFollowsRoot`, `CallsReturn`), for which the prover has no rules; and
every property of `Glob`, `Timestamp` and `Detourer`. `Timestamp` has a recursive operator, and the prover's arithmetic
backend takes no module with one. The matcher of `Glob` is a function of two positions, so
its proof is an induction over both.

## 7. What is not modelled

- **Console functions that only note something** (a mode, a code page, a handle, which nothing
  reads), colours, and the characters themselves: a text is one character repeated.
- **Flags of a case that change how it matches** (-re, -indices): `Glob` has -gl and
  -nocase, `MatchBuffer` leaves open what matches. The regular expressions are Tcl's.
- **Corners of Log and Console**: a send to a spawn id that is both closed and waited for when
  the send begins, `exp_internal -f` without a file; where a fill asks for the cursor of
  Expect's own console, one outside the slave's cells is taken as no console.
- **fork and overlay** answer that they are not implemented; there is no interact.
- **What is printed**: prompts, usage, the answers of -info; encodings.
- **The Tcl debugger** behind -D, and the functions C programs call.
- **Mailbox constructors**: `Mailbox` begins with both ends open.
- **Mcl wrappers**: each method is a system call; the modules take its documented meaning.
  `CMclMonitor` is used by nobody.
- **Licence check, messages, stubs**: tables and one-time initialisation without state
  that the rest depends on. `expWinUtils.cpp` is a table of error texts.
- **Unix channel, compatibility functions, Detours, build tools**: not part of the
  Windows program, or third-party code.

Abstractions that matter to a reader: memory is sequentially consistent (the shared
variables of `SpawnChan` and `Trap` are plain memory, but each is one aligned word on the
processors the program is built for); a character is one byte in `MatchBuffer`; a freed
ExpState is remembered as freed and the first use of it ends what is asked of that
behaviour.
