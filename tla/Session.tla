------------------------------ MODULE Session ------------------------------
(***************************************************************************)
(* The life of one spawned slave under the console debugger                *)
(* (win/expWinConsoleDebugger.cpp): the debugger thread starts the root    *)
(* process, takes the debug events of it and of every process it starts in *)
(* turn, and ends; the Tcl thread waits for it in the constructor of the   *)
(* channel, posts input to the injector in the root process, and waits for *)
(* its end in Close (win/expWinSpawnChan.cpp).                             *)
(*                                                                         *)
(* A handler of a debug event is one action: the Tcl thread looks only at  *)
(* readyUp, pidKilled and injectorIPC, each once at a time.  Threads,      *)
(* modules and breakpoints of the processes are left out, as are the       *)
(* messages but for the slots they take.  A wait with a time limit may run *)
(* out whenever its object is not signalled.                               *)
(***************************************************************************)
EXTENDS Naturals, Sequences

CONSTANTS Root,        \* the process CreateProcess started
          Kids,        \* the processes that may be started below it
          NumSlots     \* IPC_NUMSLOTS of the injector's mailbox

ASSUME KidsAssumption == Root \notin Kids
ASSUME SlotsAssumption == NumSlots \in Nat \ {0}

VARIABLES
  dbg,         \* where the debugger thread is
  breakCount,  \* breakCount of CommonDebugger
  list,        \* ProcessList, its head first
  stage,       \* how far each process has come, as the debugger was told
  dying,       \* processes that have exited or were killed
  readyUp,     \* the event the constructor waits for
  ipc,         \* injectorIPC # 0
  pidKilled,   \* pidKilled
  status,      \* TRUE: status tells an error
  gaveUp,      \* history: CommonDebugger returned for another reason than an exit
  slaveDone,   \* the SLAVEDONE message is in the queue
  injector,    \* the injector's thread in the root process
  slots,       \* messages in the injector's mailbox
  tcl          \* where the Tcl thread is

dvars == <<dbg, breakCount, list, stage, dying, status, gaveUp, slaveDone>>
vars == <<dvars, readyUp, ipc, pidKilled, injector, slots, tcl>>

Procs == {Root} \cup Kids

\* none, its creation not yet reported, the three breakpoints ahead, running, over
Stages == {"none", "born", "loading", "entry", "stub", "runs", "gone"}
InClose == {"wait200", "ctrl", "wait40", "terminated"}

Init ==
  /\ dbg = "create" /\ breakCount = 0 /\ list = << >>
  /\ stage = [p \in Procs |-> "none"] /\ dying = {}
  /\ readyUp = FALSE /\ ipc = FALSE /\ pidKilled = FALSE
  /\ status = FALSE /\ gaveUp = FALSE /\ slaveDone = FALSE
  /\ injector = "starting" /\ slots = 0 /\ tcl = "ctor"

Listed(p) == \E i \in 1..Len(list) : list[i] = p
Alive(p) == stage[p] \notin {"none", "gone"} /\ p \notin dying

-----------------------------------------------------------------------------
(* The debugger thread.                                                    *)

\* ThreadHandlerProc, CreateProcess has failed: no SLAVEDONE is sent.
CreateFails ==
  /\ dbg = "create"
  /\ dbg' = "ended" /\ status' = TRUE /\ readyUp' = TRUE
  /\ UNCHANGED <<breakCount, list, stage, dying, gaveUp, slaveDone, ipc, pidKilled, injector, slots, tcl>>

CreateProcess ==
  /\ dbg = "create"
  /\ dbg' = "wait" /\ stage' = [stage EXCEPT ![Root] = "born"]
  /\ UNCHANGED <<breakCount, list, dying, status, gaveUp, slaveDone, readyUp, ipc, pidKilled, injector, slots, tcl>>

\* Mutant of ProcessNew: the new process goes to the tail.
ProcessNewLast(p) == Append(list, p)

\* ProcessNew puts the new process at the head.
ProcessNew(p) == <<p>> \o list

\* CREATE_PROCESS_DEBUG_EVENT
OnXCreateProcess(p) ==
  /\ dbg = "wait" /\ stage[p] = "born"
  /\ list' = ProcessNew(p) /\ stage' = [stage EXCEPT ![p] = "loading"]
  /\ UNCHANGED <<dbg, breakCount, dying, status, gaveUp, slaveDone, readyUp, ipc, pidKilled, injector, slots, tcl>>

\* EXCEPTION_BREAKPOINT of a process in the list: the first three of the
\* session, whoever they come from, are special.
NextBreak == IF breakCount < 4 THEN breakCount + 1 ELSE 4
Breaks(p) ==
  /\ dbg = "wait" /\ stage[p] \in {"loading", "entry", "stub"} /\ p \notin dying /\ Listed(p)
  /\ breakCount' = NextBreak
  /\ UNCHANGED <<list, dying, slaveDone, injector, slots, tcl>>

OnXFirstBreakpoint(p) ==
  /\ breakCount = 0 /\ Breaks(p)
  /\ stage' = [stage EXCEPT ![p] = "entry"]
  /\ UNCHANGED <<dbg, status, gaveUp, readyUp, ipc, pidKilled>>

OnXSecondBreakpoint(p) ==
  /\ breakCount = 1 /\ Breaks(p)
  /\ stage' = [stage EXCEPT ![p] = "stub"]
  /\ UNCHANGED <<dbg, status, gaveUp, readyUp, ipc, pidKilled>>

\* no memory for the stub: CommonDebugger sets readyUp and returns
SecondFails(p) ==
  /\ breakCount = 1 /\ Breaks(p)
  /\ dbg' = "done" /\ gaveUp' = TRUE /\ readyUp' = TRUE
  /\ UNCHANGED <<stage, status, ipc, pidKilled>>

\* Mutant of OnXThirdBreakpoint: only failures set readyUp.
OnXThirdBreakpointQuiet(p) ==
  /\ breakCount = 2 /\ Breaks(p)
  /\ stage' = [stage EXCEPT ![p] = "runs"]
  /\ ipc' = TRUE /\ pidKilled' = FALSE
  /\ UNCHANGED <<dbg, status, gaveUp, readyUp>>

\* the injector is there: input can be posted, and the constructor returns
OnXThirdBreakpoint(p) ==
  /\ breakCount = 2 /\ Breaks(p)
  /\ stage' = [stage EXCEPT ![p] = "runs"]
  /\ ipc' = TRUE /\ pidKilled' = FALSE /\ readyUp' = TRUE
  /\ UNCHANGED <<dbg, status, gaveUp>>

\* the mailbox cannot be created: the error goes to errLL, the value returned
\* is not FALSE, and the session goes on
ThirdWithoutMailbox(p) ==
  /\ breakCount = 2 /\ Breaks(p)
  /\ stage' = [stage EXCEPT ![p] = "runs"]
  /\ readyUp' = TRUE
  /\ UNCHANGED <<dbg, status, gaveUp, ipc, pidKilled>>

\* no memory for the return points: readyUp is set here, and once more in SetAgain
ThirdFails(p) ==
  /\ breakCount = 2 /\ Breaks(p)
  /\ ipc' = TRUE /\ pidKilled' = FALSE /\ readyUp' = TRUE
  /\ dbg' = "again" /\ gaveUp' = TRUE
  /\ UNCHANGED <<stage, status>>

SetAgain ==
  /\ dbg = "again"
  /\ dbg' = "done" /\ readyUp' = TRUE
  /\ UNCHANGED <<breakCount, list, stage, dying, status, gaveUp, slaveDone, ipc, pidKilled, injector, slots, tcl>>

\* any later breakpoint that is not one of the debugger's own
OnXBreakpoint(p) ==
  /\ breakCount \in 3..4 /\ Breaks(p)
  /\ stage' = [stage EXCEPT ![p] = "runs"]
  /\ UNCHANGED <<dbg, status, gaveUp, readyUp, ipc, pidKilled>>

\* the event of a process that is not in the list is skipped
SkipBreakpoint(p) ==
  /\ dbg = "wait" /\ stage[p] = "loading" /\ p \notin dying /\ ~Listed(p)
  /\ stage' = [stage EXCEPT ![p] = "runs"]
  /\ UNCHANGED <<dbg, breakCount, list, dying, status, gaveUp, slaveDone, readyUp, ipc, pidKilled, injector, slots, tcl>>

SkipExit(p) ==
  /\ dbg = "wait" /\ p \in dying /\ stage[p] \notin {"none", "born", "gone"} /\ ~Listed(p)
  /\ stage' = [stage EXCEPT ![p] = "gone"]
  /\ UNCHANGED <<dbg, breakCount, list, dying, status, gaveUp, slaveDone, readyUp, ipc, pidKilled, injector, slots, tcl>>

\* Mutant of ProcessFree: only the one process is taken out.
ProcessFreeOne(p) == list' = SelectSeq(list, LAMBDA q : q # p) /\ pidKilled' = TRUE

\* ProcessFree never advances pprev: the list goes on behind the process that
\* is freed, and those before it are dropped as well.
Behind(s, p) == LET i == CHOOSE j \in 1..Len(s) : s[j] = p IN SubSeq(s, i + 1, Len(s))
ProcessFree(p) == list' = Behind(list, p) /\ pidKilled' = TRUE

\* EXIT_PROCESS_DEBUG_EVENT
OnXExitProcess(p) ==
  /\ dbg = "wait" /\ p \in dying /\ stage[p] \notin {"none", "born", "gone"} /\ Listed(p)
  /\ ProcessFree(p)
  /\ stage' = [stage EXCEPT ![p] = "gone"]
  /\ dbg' = IF list' = << >> THEN "done" ELSE "wait"
  /\ UNCHANGED <<breakCount, dying, status, gaveUp, slaveDone, readyUp, ipc, injector, slots, tcl>>

\* EXCEPTION_NONCONTINUABLE_EXCEPTION of a listed process
Noncontinuable(p) ==
  /\ dbg = "wait" /\ Listed(p) /\ p \notin dying
  /\ dbg' = "done" /\ gaveUp' = TRUE
  /\ UNCHANGED <<breakCount, list, stage, dying, status, slaveDone, readyUp, ipc, pidKilled, injector, slots, tcl>>

\* WaitForDebugEvent or ContinueDebugEvent fails
LoopFails ==
  /\ dbg = "wait"
  /\ dbg' = "done" /\ gaveUp' = TRUE /\ status' = TRUE
  /\ UNCHANGED <<breakCount, list, stage, dying, slaveDone, readyUp, ipc, pidKilled, injector, slots, tcl>>

\* NotifyDone, then the thread ends; the system kills what it still debugs.
NotifyDone ==
  /\ dbg = "done"
  /\ slaveDone' = TRUE /\ dbg' = "ended"
  /\ stage' = [p \in Procs |-> IF stage[p] = "none" THEN "none" ELSE "gone"]
  /\ UNCHANGED <<breakCount, list, dying, status, gaveUp, readyUp, ipc, pidKilled, injector, slots, tcl>>

Breakpoint(p) ==
  \/ OnXFirstBreakpoint(p) \/ OnXSecondBreakpoint(p) \/ OnXThirdBreakpoint(p) \/ OnXBreakpoint(p)
  \/ SkipBreakpoint(p)

Event(p) == OnXCreateProcess(p) \/ Breakpoint(p) \/ SkipExit(p) \/ OnXExitProcess(p)

\* The turns a healthy debugger takes, and the failures that may replace one.
Turn == CreateProcess \/ SetAgain \/ NotifyDone \/ \E p \in Procs : Event(p)
Failure ==
  \/ CreateFails \/ LoopFails
  \/ \E p \in Procs : SecondFails(p) \/ ThirdWithoutMailbox(p) \/ ThirdFails(p) \/ Noncontinuable(p)

-----------------------------------------------------------------------------
(* The processes.                                                          *)

\* A process exits, crashes, or is killed by someone else.
Dies(p) ==
  /\ Alive(p) /\ dying' = dying \cup {p}
  /\ UNCHANGED <<dbg, breakCount, list, stage, status, gaveUp, slaveDone, readyUp, ipc, pidKilled, injector, slots, tcl>>

\* A running process starts another.
Starts(p, q) ==
  /\ Alive(p) /\ stage[p] = "runs" /\ stage[q] = "none" /\ dbg = "wait"
  /\ stage' = [stage EXCEPT ![q] = "born"]
  /\ UNCHANGED <<dbg, breakCount, list, dying, status, gaveUp, slaveDone, readyUp, ipc, pidKilled, injector, slots, tcl>>

\* The injector's thread, which the stub has started, opens its end of the mailbox.
InjectorOpens ==
  /\ Alive(Root) /\ stage[Root] = "runs" /\ injector = "starting"
  /\ injector' = "serves"
  /\ UNCHANGED <<dvars, readyUp, ipc, pidKilled, slots, tcl>>

\* It cannot, and ends.
InjectorFails ==
  /\ Alive(Root) /\ stage[Root] = "runs" /\ injector = "starting"
  /\ injector' = "failed"
  /\ UNCHANGED <<dvars, readyUp, ipc, pidKilled, slots, tcl>>

\* It takes a message.
InjectorTakes ==
  /\ Alive(Root) /\ injector = "serves" /\ slots > 0
  /\ slots' = slots - 1
  /\ UNCHANGED <<dvars, readyUp, ipc, pidKilled, injector, tcl>>

-----------------------------------------------------------------------------
(* The Tcl thread.                                                         *)

\* The constructor goes on when readyUp is set.
Constructed ==
  /\ tcl = "ctor" /\ readyUp
  /\ tcl' = IF status THEN "failed" ELSE "open"
  /\ readyUp' = FALSE
  /\ UNCHANGED <<dvars, ipc, pidKilled, injector, slots>>

\* ConsoleDebugger::Write(IPCMsg *) up to its test
Broken == ~ipc \/ pidKilled
WriteTest ==
  /\ tcl = "open" /\ ~Broken
  /\ tcl' = "post"
  /\ UNCHANGED <<dvars, readyUp, ipc, pidKilled, injector, slots>>

\* Post waits for a free slot without a time limit.
Post ==
  /\ slots < NumSlots
  /\ \/ tcl = "post" /\ tcl' = "open"
     \/ tcl = "ctrl" /\ tcl' = "wait40"
  /\ slots' = slots + 1
  /\ UNCHANGED <<dvars, readyUp, ipc, pidKilled, injector>>

Close ==
  /\ tcl = "open" /\ tcl' = "wait200"
  /\ UNCHANGED <<dvars, readyUp, ipc, pidKilled, injector, slots>>

\* The first wait runs out: SendKill(CTRL_BREAK_EVENT), then the second wait.
Wait200Over ==
  /\ tcl = "wait200" /\ dbg # "ended"
  /\ tcl' = IF Broken THEN "wait40" ELSE "ctrl"
  /\ UNCHANGED <<dvars, readyUp, ipc, pidKilled, injector, slots>>

\* The second wait runs out: TerminateProcess, then a wait without limit.
Wait40Over ==
  /\ tcl = "wait40" /\ dbg # "ended"
  /\ tcl' = "terminated"
  /\ dying' = IF stage[Root] = "gone" THEN dying ELSE dying \cup {Root}
  /\ UNCHANGED <<dbg, breakCount, list, stage, status, gaveUp, slaveDone, readyUp, ipc, pidKilled, injector, slots>>

Closed ==
  /\ tcl \in InClose \ {"ctrl"} /\ dbg = "ended"
  /\ tcl' = "closed"
  /\ UNCHANGED <<dvars, readyUp, ipc, pidKilled, injector, slots>>

Waits == Constructed \/ Post \/ Wait200Over \/ Wait40Over \/ Closed

Next ==
  \/ Turn \/ Failure
  \/ \E p \in Procs : Dies(p) \/ \E q \in Kids : Starts(p, q)
  \/ InjectorOpens \/ InjectorFails \/ InjectorTakes
  \/ WriteTest \/ Close \/ Waits

\* The debugger thread and the waits of the Tcl thread go on when they can, and so
\* does the injector's thread.  Nothing obliges a process to exit or to start
\* another, a script to write or to close, or anything to fail.
Spec == Init /\ [][Next]_vars
FairSpec == Spec /\ WF_vars(Turn) /\ WF_vars(Waits) /\ WF_vars(InjectorOpens \/ InjectorTakes)

-----------------------------------------------------------------------------
(* Properties.                                                             *)

\* Every variable has its type; breakCount stays at four and the mailbox holds
\* what it has slots for (CommonDebugger, CMclMailbox::Post).
TypeOK ==
  /\ dbg \in {"create", "wait", "again", "done", "ended"}
  /\ breakCount \in 0..4 /\ list \in Seq(Procs)
  /\ stage \in [Procs -> Stages] /\ dying \subseteq Procs
  /\ readyUp \in BOOLEAN /\ ipc \in BOOLEAN /\ pidKilled \in BOOLEAN
  /\ status \in BOOLEAN /\ gaveUp \in BOOLEAN /\ slaveDone \in BOOLEAN
  /\ injector \in {"starting", "serves", "failed"} /\ slots \in 0..NumSlots
  /\ tcl \in {"ctor", "failed", "open", "post", "closed"} \cup InClose

\* A session never ends under a root process that is still there: the list of
\* processes runs empty with the root's exit and not before, whatever processes
\* came and went and were dropped by ProcessFree.  Its end is what expect takes
\* for the slave's end-of-file.
RootEndsIt == dbg = "done" /\ ~gaveUp => stage[Root] = "gone"

\* The end of the root process reaches the reader of the channel, also when
\* processes it started live on and nothing ends them.
EofFollowsRoot == Root \in dying ~> slaveDone

\* Post waits for a slot that nobody is there to free.
Stuck == tcl \in {"post", "ctrl"} /\ slots = NumSlots /\ (~Alive(Root) \/ injector = "failed")

\* The calls of Tcl come to an end.  The constructor's wait for readyUp
\* (expWinSpawnChan.cpp:157) does, unless the root process dies before its third
\* breakpoint.  A close does also when the slave ignores it and has started
\* processes that live on: TerminateProcess ends the root process only.  The
\* exception is the message of SendKill that finds the mailbox full and no injector left.
CallsReturn ==
  /\ tcl = "ctor" ~> (tcl # "ctor" \/ stage[Root] = "gone")
  /\ tcl \in InClose ~> (tcl = "closed" \/ Stuck)

(* What a reader of the code may expect, and what it does not do.          *)

\* The constructor's wait ends: readyUp is "set when child process is ready
\* (or failed)" (expWinConsoleDebugger.hpp:73).
SpawnAlwaysEnds == tcl = "ctor" ~> tcl # "ctor"

\* "When the last process exits, we exit" (expWinConsoleDebugger.cpp:569).
LastProcessEndsIt == dbg = "done" /\ ~gaveUp => \A p \in Procs : ~Alive(p)

\* Write refuses its message when "the pid is already dead" (line 2241), that is
\* the process whose injector would take it.
RefusedMeansDead == tcl = "open" /\ ipc /\ pidKilled => ~Alive(Root)

\* readyUp is a variable of the constructor: nobody sets it once that returned.
SetWhileWaitedFor == dbg = "again" => tcl = "ctor"

\* A close, and a write, gets to its end.
AlwaysEnds == tcl \in InClose \cup {"post"} ~> tcl \notin InClose \cup {"post"}

=============================================================================
