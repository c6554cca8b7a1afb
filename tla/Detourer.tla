------------------------------ MODULE Detourer ------------------------------
(***************************************************************************)
(* A slave under the detourer (win/expWinConsoleDetourer.cpp), the build   *)
(* with USE_DETOURS: the thread of Tcl that spawns, writes and closes, the *)
(* thread of the detourer, and in the slave its own thread, whose          *)
(* WriteConsole is detoured, and the injector's                            *)
(* (win/expWinInjectorMain.cpp).  Two mailboxes are between the processes; *)
(* they are counts here, and module Keyboard has what is in the one to the *)
(* slave.                                                                  *)
(***************************************************************************)
EXTENDS Integers

CONSTANTS
    IPCto_NUMSLOTS, IPCfrom_NUMSLOTS,   \* messages the mailboxes hold
    MaxPrints                           \* bound: calls of WriteConsole

VARIABLES
    tcl,        \* where the thread of Tcl is
    thread,     \* where that of the detourer is
    readyUp,    \* the event
    status,     \* whether Status() is an error
    slave,      \* "none", "runs" or "ended"
    injector,   \* where its thread is
    to, from,   \* messages in the mailboxes; a signal is the last one sent
    printed,    \* calls of WriteConsole
    mQ, eQ      \* messages for the channel: the end of the slave, errors

detourVars == <<tcl, thread, readyUp, status, slave, injector, to, from, printed, mQ, eQ>>

DetourInit ==
    /\ tcl = "spawn" /\ thread = "create" /\ readyUp = FALSE /\ status = "ok"
    /\ slave = "none" /\ injector = "none"
    /\ to = 0 /\ from = 0 /\ printed = 0
    /\ mQ = {} /\ eQ = {}
-----------------------------------------------------------------------------
(***************************************************************************)
(* The thread of the detourer: ThreadHandlerProc and CommonDetourer.       *)
(***************************************************************************)
WriteMasterError(what) == eQ' = eQ \union {what}
NotifyDone == mQ' = {"done"}

\* The injector's library is in the new process, and starts its thread.
Attach == slave' = "runs" /\ injector' = "open"

CreateFails ==
    /\ thread = "create"
    /\ status' = "error" /\ readyUp' = TRUE /\ thread' = "ended"
    /\ UNCHANGED <<tcl, slave, injector, to, from, printed, mQ, eQ>>

Create ==
    /\ thread = "create"
    /\ thread' = "open to" /\ Attach
    /\ UNCHANGED <<tcl, readyUp, status, to, from, printed, mQ, eQ>>

OpenTo ==
    /\ thread = "open to" /\ thread' = "open from"
    /\ UNCHANGED <<tcl, readyUp, status, slave, injector, to, from, printed, mQ, eQ>>

OpenFrom ==
    /\ thread = "open from" /\ thread' = "loop"
    /\ readyUp' = TRUE
    /\ UNCHANGED <<tcl, status, slave, injector, to, from, printed, mQ, eQ>>

OpenFails ==
    /\ thread \in {"open to", "open from"}
    /\ WriteMasterError(thread) /\ NotifyDone /\ thread' = "ended"
    /\ UNCHANGED <<tcl, readyUp, status, slave, injector, to, from, printed>>

\* GetAlertable; what it got is dropped.  It would end the loop if the event
\* interrupt were set, which nothing does.
Receive ==
    /\ thread = "loop" /\ from > 0
    /\ from' = from - 1
    /\ UNCHANGED <<tcl, thread, readyUp, status, slave, injector, to, printed, mQ, eQ>>
-----------------------------------------------------------------------------
(***************************************************************************)
(* The thread of Tcl: the constructor of ExpWinSpawnClass, Write, Close.   *)
(***************************************************************************)
Go(before, after) ==
    /\ tcl = before /\ tcl' = after
    /\ UNCHANGED <<thread, readyUp, status, injector, from, printed, mQ, eQ>>

Spawned == readyUp /\ Go("spawn", IF status = "ok" THEN "open" ELSE "failed") /\ UNCHANGED <<slave, to>>

\* Post waits for a free slot; pidKilled, which would spare it, is never set.
Write == Go("open", "open") /\ to < IPCto_NUMSLOTS /\ to' = to + 1 /\ UNCHANGED slave

Close == Go("open", "wait 200") /\ UNCHANGED <<slave, to>>

Joined ==
    /\ thread = "ended"
    /\ \E wait \in {"wait 200", "wait 40", "wait"} : Go(wait, "closed")
    /\ UNCHANGED <<slave, to>>

\* The time is over: SendKill(CTRL_BREAK_EVENT), then TerminateProcess.
SendBreak == Go("wait 200", "wait 40") /\ to < IPCto_NUMSLOTS /\ to' = to + 1 /\ UNCHANGED slave
Terminate == Go("wait 40", "wait") /\ slave' = "ended" /\ UNCHANGED to
-----------------------------------------------------------------------------
(***************************************************************************)
(* The slave.                                                              *)
(***************************************************************************)
InSlave == slave = "runs" /\ UNCHANGED <<tcl, thread, readyUp, status, mQ, eQ>>

\* MyWriteConsoleA and MyWriteConsoleW: the slave waits for a free slot.
WriteConsole ==
    /\ InSlave /\ printed < MaxPrints /\ from < IPCfrom_NUMSLOTS
    /\ from' = from + 1 /\ printed' = printed + 1
    /\ UNCHANGED <<slave, injector, to>>

\* DllMain: the process stops the injector's thread with it.
Exit ==
    /\ InSlave /\ slave' = "ended"
    /\ injector' = "ended"
    /\ UNCHANGED <<to, from, printed>>

\* ThreadHandlerProc of Injector.
InjectorOpens ==
    /\ InSlave /\ injector = "open"
    /\ injector' \in {"loop", "ended"}
    /\ UNCHANGED <<slave, to, from, printed>>

\* A message is keys, or a signal, which may end the slave.
Inject ==
    /\ InSlave /\ injector = "loop" /\ to > 0
    /\ to' = to - 1
    /\ slave' \in IF tcl \in {"wait 40", "wait"} /\ to = 1 THEN {"runs", "ended"} ELSE {"runs"}
    /\ UNCHANGED <<injector, from, printed>>

Detoured == CreateFails \/ Create \/ OpenTo \/ OpenFrom \/ OpenFails \/ Receive
Closing == Joined \/ SendBreak \/ Terminate

DetourNext ==
    \/ Detoured
    \/ Spawned \/ Write \/ Close \/ Closing
    \/ WriteConsole \/ Exit \/ InjectorOpens \/ Inject

DetourSpec == DetourInit /\ [][DetourNext]_detourVars

\* Threads run; scripts need not write or close, slaves need not print or end.
DetourFair ==
    /\ DetourSpec
    /\ WF_detourVars(Detoured) /\ WF_detourVars(Spawned) /\ WF_detourVars(Closing)
    /\ WF_detourVars(InjectorOpens \/ Inject)
-----------------------------------------------------------------------------
\* spawn returns, whatever of the start of the slave and its mailboxes fails: the
\* event is to be set when the child process is ready, or failed.
SpawnReturns == tcl = "spawn" ~> tcl # "spawn"

\* The thread ends after the slave.  It does not, so that Close, which waits for
\* it without limit after TerminateProcess, does not return.
ThreadEnds == slave = "ended" ~> thread = "ended"
=============================================================================
