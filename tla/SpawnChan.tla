------------------------------ MODULE SpawnChan ------------------------------
(***************************************************************************)
(* The spawn channel driver of win/expWinSpawnChan.cpp: one debugger       *)
(* thread per slave produces messages into the channel's list outLL and    *)
(* calls AlertReadable; one Tcl thread owns every channel, runs the event  *)
(* loop (the driver's setup, check and event procedures) and the calls     *)
(* Tcl makes on the driver: Watch, Read, Block, Cut and Close.             *)
(*                                                                         *)
(* The two sides share outLL, eventInQ, watchMask, tsd, readyQ and         *)
(* needAwake.  Nothing protects them together: each list has a lock of its *)
(* own, eventInQ is exchanged atomically and the rest is plain memory, so  *)
(* a step here is one access to one of them (two where they commute with   *)
(* every step of the other side; the comment says so).                     *)
(*                                                                         *)
(* The layer above, generic/exp_chan.c and exp_event.c, is modelled by the *)
(* calls it makes: Client = "expect" is a foreground expect, which polls   *)
(* its channels and arms them again before every turn of the event loop;   *)
(* Client = "background" is expect_background, which arms a channel once   *)
(* and then works from its handler.                                        *)
(***************************************************************************)
EXTENDS Integers, Sequences, QueueOps

CONSTANTS
    Chan,       \* spawn channels owned by the Tcl thread
    MaxBytes,   \* bound: bytes a slave prints
    MaxMsg,     \* bound: bytes of one message of the debugger thread
    BufSize,    \* toRead, the bytes Tcl asks a driver for at once
    Client,     \* "expect" or "background"
    Timer,      \* TRUE if a Tcl timer is pending while the loop waits
    Masks,      \* interests the layer above may arm a channel with
    MayBlock,   \* TRUE if scripts switch channels to blocking mode
    MayClose    \* TRUE if scripts close channels

ASSUME BoundsAssumption ==
    /\ MaxBytes \in Nat
    /\ MaxMsg \in Nat
    /\ BufSize \in Nat \ {0}

ASSUME ClientAssumption ==
    /\ Client \in {"expect", "background"}
    /\ Timer \in BOOLEAN /\ MayBlock \in BOOLEAN /\ MayClose \in BOOLEAN
    /\ Masks \subseteq SUBSET {"readable", "writable"}
    /\ \A m \in Masks : "readable" \in m

Mask == SUBSET {"readable", "writable"}

\* A message of outLL: TYPE_NORMAL holds the bytes lo+1 .. hi of the slave's
\* output, TYPE_SLAVEDONE none.
Message == {m \in [type : {"normal", "slavedone"}, lo : Nat, hi : Nat] : m.lo <= m.hi}

\* A call the layer above makes on the driver.
Call == [op : {"watch", "read", "close"}, chan : Chan, mask : Mask]

VARIABLES
    outLL,      \* per channel: messages not read yet
    eventInQ,   \* per channel: the interlocked flag
    watchMask,  \* per channel
    blocking,   \* per channel
    attached,   \* per channel: tsd is not NULL
    readyQ,     \* of the Tcl thread: channels with a ready event
    needAwake,  \* of the Tcl thread: the notifier asks to be awakened
    evQ,        \* Tcl's own event queue: ExpWinSpawnEvents, by channel
    alerted,    \* Tcl_ThreadAlert was called and not yet consumed
    dpc,        \* per channel: where the debugger thread is
    written,    \* per channel: bytes printed so far
    done,       \* per channel: SLAVEDONE was sent
    tpc,        \* where the Tcl thread is
    job,        \* driver calls the layer above still has to make in this go
    ret,        \* where the Tcl thread goes on after them
    nread,      \* bytesRead of the Read in progress
    woke,       \* what ended the last wait: "alert", "timer" or "poll"
    notified,   \* channels whose ExpState is marked notified (expect only)
    needArm,    \* channels the layer above has to arm before the next turn
    delivered,  \* per channel: bytes returned by Read
    eof,        \* per channel: Read returned 0
    life        \* per channel: "open", "closed" (exp_close was called), "closing"
                \* (in the driver's Close) or "freed"

shared == <<outLL, eventInQ, watchMask, attached, readyQ, needAwake>>
slave  == <<dpc, written, done>>
client == <<job, ret, notified, needArm>>
stream == <<delivered, eof>>
vars   == <<outLL, eventInQ, watchMask, blocking, attached, readyQ, needAwake,
            evQ, alerted, dpc, written, done, tpc, job, ret, nread, woke,
            notified, needArm, delivered, eof, life>>

Init ==
    /\ outLL     = [c \in Chan |-> <<>>]
    /\ eventInQ  = [c \in Chan |-> 0]
    /\ watchMask = [c \in Chan |-> {}]
    /\ blocking  = [c \in Chan |-> FALSE]
    /\ attached  = [c \in Chan |-> TRUE]
    /\ readyQ    = <<>>
    /\ needAwake = FALSE
    /\ evQ       = <<>>
    /\ alerted   = FALSE
    /\ dpc       = [c \in Chan |-> "run"]
    /\ written   = [c \in Chan |-> 0]
    /\ done      = [c \in Chan |-> FALSE]
    /\ tpc       = "script"
    /\ job       = <<>>
    /\ ret       = "script"
    /\ nread     = 0
    /\ woke      = "poll"
    /\ notified  = {}
    /\ needArm   = Chan
    /\ delivered = [c \in Chan |-> 0]
    /\ eof       = [c \in Chan |-> FALSE]
    /\ life      = [c \in Chan |-> "open"]

Readable(c) == outLL[c] # <<>>

\* Channels the layer above still expects input from.
Active == {c \in Chan : life[c] = "open" /\ ~eof[c]}
-----------------------------------------------------------------------------
(***************************************************************************)
(* The debugger thread.                                                    *)
(***************************************************************************)

\* Mutant of WriteMaster: without "avoid zero byte reads!" a console write of
\* no bytes becomes a message.
WriteMasterEmpty(c) ==
    /\ dpc[c] = "run"
    /\ ~done[c]
    /\ \E n \in 0..MaxMsg :
         /\ written[c] + n <= MaxBytes
         /\ outLL' = [outLL EXCEPT ![c] = Append(@,
                [type |-> "normal", lo |-> written[c], hi |-> written[c] + n])]
         /\ written' = [written EXCEPT ![c] = @ + n]
    /\ dpc' = [dpc EXCEPT ![c] = "alert"]
    /\ UNCHANGED <<eventInQ, watchMask, blocking, attached, readyQ, needAwake,
                   evQ, alerted, done, tpc, client, nread, woke, stream, life>>

\* WriteMaster: the slave printed n bytes (for n = 0 the code returns at once).
\* The message is in the list before AlertReadable begins.
WriteMaster(c) ==
    /\ dpc[c] = "run"
    /\ ~done[c]
    /\ \E n \in 1..MaxMsg :
         /\ written[c] + n <= MaxBytes
         /\ outLL' = [outLL EXCEPT ![c] = Append(@,
                [type |-> "normal", lo |-> written[c], hi |-> written[c] + n])]
         /\ written' = [written EXCEPT ![c] = @ + n]
    /\ dpc' = [dpc EXCEPT ![c] = "alert"]
    /\ UNCHANGED <<eventInQ, watchMask, blocking, attached, readyQ, needAwake,
                   evQ, alerted, done, tpc, client, nread, woke, stream, life>>

\* NotifyDone: the slave is gone and the thread is about to end.
NotifyDone(c) ==
    /\ dpc[c] = "run"
    /\ ~done[c]
    /\ done' = [done EXCEPT ![c] = TRUE]
    /\ outLL' = [outLL EXCEPT ![c] = Append(@,
                [type |-> "slavedone", lo |-> written[c], hi |-> written[c]])]
    /\ dpc' = [dpc EXCEPT ![c] = "alert"]
    /\ UNCHANGED <<eventInQ, watchMask, blocking, attached, readyQ, needAwake,
                   evQ, alerted, written, tpc, client, nread, woke, stream, life>>

\* Mutant of AlertReturn: the thread does not end with its slave.
AlertReturnNever(c) == "run"

\* Where the thread goes when AlertReadable returns.
AlertReturn(c) == IF done[c] THEN "exited" ELSE "run"

AlertFrame == UNCHANGED <<outLL, watchMask, blocking, attached, needAwake, evQ,
                          written, done, tpc, client, nread, woke, stream, life>>

\* if (watchMask & TCL_READABLE)
AlertTest(c) ==
    /\ dpc[c] = "alert"
    /\ dpc' = [dpc EXCEPT ![c] = IF "readable" \in watchMask[c]
                                 THEN "exchange" ELSE AlertReturn(c)]
    /\ UNCHANGED <<eventInQ, readyQ, alerted>>
    /\ AlertFrame

\* if (!InterlockedExchange(&eventInQ, 1))
AlertExchange(c) ==
    /\ dpc[c] = "exchange"
    /\ eventInQ' = [eventInQ EXCEPT ![c] = 1]
    /\ dpc' = [dpc EXCEPT ![c] = IF eventInQ[c] = 0 THEN "load" ELSE "wake"]
    /\ UNCHANGED <<readyQ, alerted>>
    /\ AlertFrame

\* tsd is loaded; after Cut it is NULL, and __except swallows the fault.
AlertLoad(c) ==
    /\ dpc[c] = "load"
    /\ dpc' = [dpc EXCEPT ![c] = IF attached[c] THEN "enqueue" ELSE AlertReturn(c)]
    /\ UNCHANGED <<eventInQ, readyQ, alerted>>
    /\ AlertFrame

\* tsd->readyQ->PutOnTailOfList(us)
AlertEnqueue(c) ==
    /\ dpc[c] = "enqueue"
    /\ readyQ' = Append(readyQ, c)
    /\ dpc' = [dpc EXCEPT ![c] = "wake"]
    /\ UNCHANGED <<eventInQ, alerted>>
    /\ AlertFrame

\* waitStatus = tsd->needAwake->Wait(0); the event is manual-reset, so the wait
\* leaves it set.
AlertWake(c) ==
    /\ dpc[c] = "wake"
    /\ dpc' = [dpc EXCEPT ![c] = IF attached[c] /\ needAwake
                                 THEN "zap" ELSE AlertReturn(c)]
    /\ UNCHANGED <<eventInQ, readyQ, alerted>>
    /\ AlertFrame

\* Tcl_ThreadAlert(threadId)
AlertZap(c) ==
    /\ dpc[c] = "zap"
    /\ alerted' = TRUE
    /\ dpc' = [dpc EXCEPT ![c] = AlertReturn(c)]
    /\ UNCHANGED <<eventInQ, readyQ>>
    /\ AlertFrame

AlertReadable(c) == \/ AlertTest(c)    \/ AlertExchange(c) \/ AlertLoad(c)
                    \/ AlertEnqueue(c) \/ AlertWake(c)     \/ AlertZap(c)

Debugger(c) == WriteMaster(c) \/ NotifyDone(c) \/ AlertReadable(c)
-----------------------------------------------------------------------------
(***************************************************************************)
(* Driver calls made by the Tcl thread.  The call being made is Head(job). *)
(***************************************************************************)
cur == Head(job)

Watch(c, m) == [op |-> "watch", chan |-> c, mask |-> m]
Read(c)     == [op |-> "read",  chan |-> c, mask |-> {}]
Close(c)    == [op |-> "close", chan |-> c, mask |-> {}]

Calling(op) == tpc = "call" /\ cur.op = op

\* The call returned; go on with what is left.
Return(left) == /\ job' = left
                /\ tpc' = IF left = <<>> THEN ret ELSE "call"

CallFrame == UNCHANGED <<blocking, needAwake, alerted, slave, ret, woke,
                         needArm, notified>>

\* Mutant of WatchTest: no event for what is readable already.
WatchTestLazy ==
    /\ Calling("watch")
    /\ readyQ' = IF "writable" \in cur.mask THEN Append(readyQ, cur.chan) ELSE readyQ
    /\ tpc' = "watch"
    /\ UNCHANGED <<outLL, eventInQ, watchMask, attached, evQ, job, nread, stream, life>>
    /\ CallFrame

\* ExpWinSpawnClass::Watch, first half: an event for what is ready now.
\* Testing and queueing are one step: the debugger thread only ever adds to
\* outLL and readyQ, and looks at neither.
WatchTest ==
    /\ Calling("watch")
    /\ readyQ' = IF \/ "writable" \in cur.mask
                    \/ "readable" \in cur.mask /\ Readable(cur.chan)
                 THEN Append(readyQ, cur.chan) ELSE readyQ
    /\ tpc' = "watch"
    /\ UNCHANGED <<outLL, eventInQ, watchMask, attached, evQ, job, nread, stream, life>>
    /\ CallFrame

\* ... second half: watchMask = mask
WatchSet ==
    /\ tpc = "watch"
    /\ watchMask' = [watchMask EXCEPT ![cur.chan] = cur.mask]
    /\ Return(Tail(job))
    /\ UNCHANGED <<outLL, eventInQ, attached, readyQ, evQ, nread, stream, life>>
    /\ CallFrame

\* ExpWinSpawnClass::Read: InterlockedExchange(&eventInQ, 0)
ReadBegin ==
    /\ Calling("read")
    /\ eventInQ' = [eventInQ EXCEPT ![cur.chan] = 0]
    /\ nread' = 0
    /\ tpc' = "read_test"
    /\ UNCHANGED <<outLL, watchMask, attached, readyQ, evQ, job, stream, life>>
    /\ CallFrame

\* if (!outLL.Empty() || blocking) ... else EWOULDBLOCK
ReadTest ==
    /\ tpc = "read_test"
    /\ IF Readable(cur.chan) \/ blocking[cur.chan]
       THEN tpc' = "read_loop" /\ UNCHANGED job
       ELSE Return(Tail(job))
    /\ UNCHANGED <<shared, evQ, nread, stream, life>>
    /\ CallFrame

\* A Read that returned n bytes.  Tcl reports end-of-file for n = 0, and the
\* layer above then stops using the channel; it may read again at once if the
\* buffer was filled.
ReadReturn(c, n) ==
    /\ nread' = n
    /\ eof' = IF n = 0 THEN [eof EXCEPT ![c] = TRUE] ELSE eof
    /\ \/ Return(IF n = 0 THEN <<>> ELSE Tail(job))
       \/ n = BufSize /\ Return(job)

\* GetFromHeadOfList takes a message that fits.
ReadWhole ==
    LET c == cur.chan
        m == Head(outLL[c])
        n == m.hi - m.lo
    IN  /\ tpc = "read_loop"
        /\ Readable(c)
        /\ m.type = "normal"
        /\ nread + n <= BufSize
        /\ outLL' = [outLL EXCEPT ![c] = Tail(@)]
        /\ delivered' = [delivered EXCEPT ![c] = @ + n]
        /\ IF blocking[c]
           THEN ReadReturn(c, nread + n)
           ELSE nread' = nread + n /\ UNCHANGED <<tpc, job, eof>>
        /\ UNCHANGED <<eventInQ, watchMask, attached, readyQ, evQ, life>>
        /\ CallFrame

\* What Read does when something stays in the list: eventInQ is set again and
\* an event is queued.  Taking the message, putting the rest back in front and
\* these two are one step: the debugger thread's append, its exchange and its
\* enqueue each commute with those that may come before or after them.
Repost(c) == /\ eventInQ' = [eventInQ EXCEPT ![c] = 1]
             /\ readyQ' = Append(readyQ, c)

\* ... a message too large to fit.
ReadPart ==
    LET c == cur.chan
        m == Head(outLL[c])
        avail == BufSize - nread
    IN  /\ tpc = "read_loop"
        /\ Readable(c)
        /\ m.type = "normal"
        /\ nread + (m.hi - m.lo) > BufSize
        /\ outLL' = [outLL EXCEPT ![c][1].lo = @ + avail]
        /\ delivered' = [delivered EXCEPT ![c] = @ + avail]
        /\ Repost(c)
        /\ ReadReturn(c, BufSize)
        /\ UNCHANGED <<watchMask, attached, evQ, life>>
        /\ CallFrame

\* ... SLAVEDONE: after data it is put back for later, else it is end-of-file.
ReadSlaveDone ==
    LET c == cur.chan
    IN  /\ tpc = "read_loop"
        /\ Readable(c)
        /\ Head(outLL[c]).type = "slavedone"
        /\ IF nread > 0
           THEN Repost(c) /\ UNCHANGED outLL
           ELSE /\ outLL' = [outLL EXCEPT ![c] = Tail(@)]
                /\ UNCHANGED <<eventInQ, readyQ>>
        /\ ReadReturn(c, nread)
        /\ UNCHANGED <<watchMask, attached, evQ, delivered, life>>
        /\ CallFrame

\* ... the list is empty; in blocking mode GetFromHeadOfList waits for more.
ReadDrained ==
    LET c == cur.chan
    IN  /\ tpc = "read_loop"
        /\ ~Readable(c)
        /\ ~blocking[c]
        /\ ReadReturn(c, nread)
        /\ UNCHANGED <<shared, evQ, delivered, life>>
        /\ CallFrame

ReadCall == \/ ReadBegin \/ ReadTest \/ ReadWhole \/ ReadPart
            \/ ReadSlaveDone \/ ReadDrained

\* ExpWinSpawnClass::Cut, statement by statement: RemoveIf(us), ...
CutRemove ==
    /\ Calling("close")
    /\ readyQ' = Without(readyQ, cur.chan)
    /\ tpc' = "cut_events"
    /\ UNCHANGED <<outLL, eventInQ, watchMask, attached, evQ, job, nread, stream, life>>
    /\ CallFrame

\* ... Tcl_DeleteEvents, ...
CutEvents ==
    /\ tpc = "cut_events"
    /\ evQ' = Without(evQ, cur.chan)
    /\ tpc' = "cut_mask"
    /\ UNCHANGED <<shared, job, nread, stream, life>>
    /\ CallFrame

\* ... watchMask = 0, ...
CutMask ==
    /\ tpc = "cut_mask"
    /\ watchMask' = [watchMask EXCEPT ![cur.chan] = {}]
    /\ tpc' = "cut_tsd"
    /\ UNCHANGED <<outLL, eventInQ, attached, readyQ, needAwake, evQ, job, nread,
                   stream, life>>
    /\ CallFrame

\* ... tsd = NULL.
CutTsd ==
    /\ tpc = "cut_tsd"
    /\ attached' = [attached EXCEPT ![cur.chan] = FALSE]
    /\ tpc' = "close_wait"
    /\ UNCHANGED <<outLL, eventInQ, watchMask, readyQ, needAwake, evQ, job, nread,
                   stream, life>>
    /\ CallFrame

\* ExpWinSpawnClass::Close waits for the debugger thread (it kills the slave
\* if that takes long); ExpWinSpawnClose deletes the instance.
CloseWait ==
    /\ tpc = "close_wait"
    /\ dpc[cur.chan] = "exited"
    /\ life' = [life EXCEPT ![cur.chan] = "freed"]
    /\ Return(Tail(job))
    /\ UNCHANGED <<shared, evQ, nread, stream>>
    /\ CallFrame

CloseCall == CutRemove \/ CutEvents \/ CutMask \/ CutTsd \/ CloseWait
-----------------------------------------------------------------------------
(***************************************************************************)
(* The layer above, between turns of the event loop.                       *)
(***************************************************************************)

Begin(calls, then) == job' = calls /\ tpc' = "call" /\ ret' = then

ScriptFrame == UNCHANGED <<shared, evQ, alerted, slave, nread, woke, stream>>

\* ExpChanWatch: to arm or disarm a channel creates or deletes a channel
\* handler on the spawn channel, which makes Tcl call its Watch, and then calls
\* Watch itself.
WatchCalls(c, m) == IF watchMask[c] = m THEN <<Watch(c, m)>>
                                        ELSE <<Watch(c, m), Watch(c, m)>>

\* exp_get_next_event finds a notified channel and expIRead reads it.
ExpectRead(c) ==
    /\ tpc = "script"
    /\ c \in notified
    /\ notified' = notified \ {c}
    /\ Begin(<<Read(c)>>, "script")
    /\ UNCHANGED <<needArm, blocking, life>>
    /\ ScriptFrame

\* exp_get_next_event makes sure every channel is armed; expect_background
\* arms a channel when its patterns are declared.
Arm(c) ==
    /\ tpc = "script"
    /\ notified = {}
    /\ c \in needArm \cap Active
    /\ needArm' = needArm \ {c}
    /\ \E m \in Masks : Begin(WatchCalls(c, m), "script")
    /\ UNCHANGED <<notified, blocking, life>>
    /\ ScriptFrame

\* fconfigure -blocking
Block(c) ==
    /\ MayBlock
    /\ tpc = "script"
    /\ c \in Active
    /\ blocking' = [blocking EXCEPT ![c] = ~@]
    /\ UNCHANGED <<tpc, client, life>>
    /\ ScriptFrame

\* exp_close: the channel is put in blocking mode, the slave is killed and the
\* handlers are disarmed.
CloseChan(c) ==
    /\ MayClose
    /\ tpc = "script"
    /\ life[c] = "open"
    /\ life' = [life EXCEPT ![c] = "closed"]
    /\ blocking' = [blocking EXCEPT ![c] = TRUE]
    /\ notified' = notified \ {c}
    /\ Begin(WatchCalls(c, {}), "script")
    /\ UNCHANGED needArm
    /\ ScriptFrame

\* wait, after close: the channel is unregistered and ExpChanClose closes the
\* spawn channel.
WaitChan(c) ==
    /\ tpc = "script"
    /\ life[c] = "closed"
    /\ life' = [life EXCEPT ![c] = "closing"]
    /\ Begin(<<Close(c)>>, "script")
    /\ UNCHANGED <<needArm, notified, blocking>>
    /\ ScriptFrame
-----------------------------------------------------------------------------
(***************************************************************************)
(* The event loop: Tcl_DoOneEvent and the driver's event source.           *)
(***************************************************************************)
LoopFrame == UNCHANGED <<outLL, eventInQ, watchMask, attached, blocking, slave,
                         nread, stream, life>>

\* Tcl_DoOneEvent: serve a queued event, else go and wait for one.
DoOneEvent ==
    /\ tpc = "script"
    /\ notified = {}
    /\ needArm \cap Active = {}
    /\ tpc' = IF evQ # <<>> THEN "service" ELSE "setup"
    /\ woke' = "poll"
    /\ UNCHANGED <<readyQ, needAwake, evQ, alerted, client>>
    /\ LoopFrame

\* ExpWinSpawnEventSetupProc: if (!readyQ->Empty()) do not wait
Setup ==
    /\ tpc = "setup"
    /\ tpc' = IF readyQ # <<>> THEN "check" ELSE "setup_set"
    /\ woke' = "poll"
    /\ UNCHANGED <<readyQ, needAwake, evQ, alerted, client>>
    /\ LoopFrame

\* ... else needAwake->Set(), and the notifier waits.
SetupSet ==
    /\ tpc = "setup_set"
    /\ needAwake' = TRUE
    /\ tpc' = "wait"
    /\ UNCHANGED <<readyQ, evQ, alerted, client, woke>>
    /\ LoopFrame

\* Tcl_WaitForEvent returns for an alert or for a timer.
Awake ==
    /\ tpc = "wait"
    /\ \/ alerted /\ woke' = "alert"
       \/ Timer   /\ woke' = "timer"
    /\ alerted' = FALSE
    /\ tpc' = "check"
    /\ UNCHANGED <<readyQ, needAwake, evQ, client>>
    /\ LoopFrame

\* ExpWinSpawnEventCheckProc: needAwake->Reset(), ...
Check ==
    /\ tpc = "check"
    /\ needAwake' = FALSE
    /\ tpc' = "drain"
    /\ UNCHANGED <<readyQ, evQ, alerted, client, woke>>
    /\ LoopFrame

\* ... then every entry of readyQ becomes an event.  One step: an entry that
\* is added meanwhile is one added before or after it.
Drain ==
    /\ tpc = "drain"
    /\ evQ' = evQ \o readyQ
    /\ readyQ' = <<>>
    /\ tpc' = "service"
    /\ UNCHANGED <<needAwake, alerted, client, woke>>
    /\ LoopFrame

\* The layer above after a turn of the loop: exp_get_next_event will arm every
\* channel again, expect_background will not.
AfterTurn == needArm' = IF Client = "expect" THEN Active ELSE needArm

\* The channel handlers a readable spawn channel runs: a foreground expect
\* marks the channel and disarms it; expect_background disarms it, reads it
\* and arms it again.
ReadableCalls(c) ==
    IF Client = "expect"
    THEN WatchCalls(c, {})
    ELSE WatchCalls(c, {}) \o <<Read(c), Watch(c, {"readable"}), Watch(c, {"readable"})>>

\* The first event is one of channel c.
Serves(c) == /\ tpc = "service"
             /\ evQ # <<>>
             /\ Head(evQ) = c
             /\ evQ' = Tail(evQ)

\* ExpWinSpawnEventProc for an instance that exists: Tcl_NotifyChannel runs the
\* handlers of what is ready.
EventProc(c) ==
    LET readable == "readable" \in watchMask[c] /\ Readable(c)
        writable == "writable" \in watchMask[c]
    IN  /\ Serves(c)
        /\ life[c] # "freed"
        /\ AfterTurn
        /\ \/ /\ readable
              /\ notified' = IF Client = "expect" THEN notified \cup {c} ELSE notified
              /\ Begin(ReadableCalls(c), "script")
           \/ /\ ~readable /\ writable   \* Tcl flushes and drops the interest
              /\ Begin(<<Watch(c, {"readable"})>>, "script")
              /\ UNCHANGED notified
           \/ /\ ~readable /\ ~writable
              /\ tpc' = "script"
              /\ UNCHANGED <<notified, job, ret>>
        /\ UNCHANGED <<readyQ, needAwake, alerted, woke>>
        /\ LoopFrame

\* ... for one that was deleted: watchMask is read from freed memory.  Either no
\* bit is set in what is there, or Tcl_NotifyChannel is called with what is left
\* of the instance.
EventProcFreed(c) ==
    /\ Serves(c)
    /\ life[c] = "freed"
    /\ tpc' \in {"script", "crashed"}
    /\ AfterTurn
    /\ UNCHANGED <<readyQ, needAwake, alerted, woke, notified, job, ret>>
    /\ LoopFrame

\* No event of ours.  A timer was an event, so Tcl_DoOneEvent returns; after a
\* bare alert it returns or goes round again, as the notifier's window got a
\* message or not.
NoEvent ==
    /\ tpc = "service"
    /\ evQ = <<>>
    /\ \/ tpc' = "script" /\ AfterTurn
       \/ woke # "timer" /\ tpc' = "setup" /\ UNCHANGED needArm
    /\ UNCHANGED <<readyQ, needAwake, evQ, alerted, job, ret, notified, woke>>
    /\ LoopFrame

EventLoop == \/ DoOneEvent \/ Setup \/ SetupSet \/ Awake \/ Check \/ Drain
             \/ NoEvent
             \/ \E c \in Chan : EventProc(c) \/ EventProcFreed(c)

Driver == WatchTest \/ WatchSet \/ ReadCall \/ CloseCall

TclThread == \/ Driver \/ EventLoop
             \/ \E c \in Chan : ExpectRead(c) \/ Arm(c)

Next == \/ \E c \in Chan : Debugger(c) \/ Block(c) \/ CloseChan(c) \/ WaitChan(c)
        \/ TclThread
-----------------------------------------------------------------------------
(***************************************************************************)
(* Fairness: both threads are scheduled.  Nobody promises that a slave     *)
(* prints, or that a script closes a channel, waits for it or changes its  *)
(* mode; a slave whose channel was closed is killed, so its thread ends.   *)
(***************************************************************************)
Fairness == /\ WF_vars(TclThread)
            /\ \A c \in Chan : /\ WF_vars(AlertReadable(c))
                               /\ WF_vars(life[c] # "open" /\ NotifyDone(c))

Spec     == Init /\ [][Next]_vars
FairSpec == Spec /\ Fairness
-----------------------------------------------------------------------------
(***************************************************************************)
(* Properties.                                                             *)
(***************************************************************************)

\* Every variable has its type, and the places of the two threads are places
\* of AlertReadable and of the Tcl thread's loop.
TypeOK ==
    /\ outLL \in [Chan -> Seq(Message)]
    /\ eventInQ \in [Chan -> {0, 1}]
    /\ watchMask \in [Chan -> Mask]
    /\ blocking \in [Chan -> BOOLEAN]
    /\ attached \in [Chan -> BOOLEAN]
    /\ readyQ \in Seq(Chan)
    /\ needAwake \in BOOLEAN
    /\ evQ \in Seq(Chan)
    /\ alerted \in BOOLEAN
    /\ dpc \in [Chan -> {"run", "alert", "exchange", "load", "enqueue", "wake",
                         "zap", "exited"}]
    /\ written \in [Chan -> Nat]
    /\ done \in [Chan -> BOOLEAN]
    /\ tpc \in {"script", "call", "watch", "read_test", "read_loop",
                "cut_events", "cut_mask", "cut_tsd", "close_wait", "setup",
                "setup_set", "wait", "check", "drain", "service", "crashed"}
    /\ job \in Seq(Call)
    /\ ret \in {"script"}
    /\ nread \in 0..BufSize
    /\ woke \in {"alert", "timer", "poll"}
    /\ notified \subseteq Chan
    /\ needArm \subseteq Chan
    /\ delivered \in [Chan -> Nat]
    /\ eof \in [Chan -> BOOLEAN]
    /\ life \in [Chan -> {"open", "closed", "closing", "freed"}]

\* What is in outLL is exactly what was printed and not read, in order and
\* without a gap, whatever Read puts back in front while WriteMaster appends
\* behind.
Contiguous(c) ==
    LET q == outLL[c] IN
    /\ \A i \in 1..Len(q) :
         /\ q[i].lo = IF i = 1 THEN delivered[c] ELSE q[i-1].hi
         /\ q[i].hi = written[c] \/ i < Len(q)
         /\ q[i].hi <= written[c]
         /\ q[i].type = "normal" => q[i].lo < q[i].hi
         /\ q[i].type = "slavedone" => q[i].lo = q[i].hi
    /\ q = <<>> => delivered[c] = written[c]

\* SLAVEDONE stays the last message until it is read, and it is read once.
DoneIsLast(c) ==
    LET q == outLL[c] IN
    /\ \A i \in 1..Len(q) :
         q[i].type = "slavedone" <=> done[c] /\ i = Len(q) /\ ~eof[c]
    /\ done[c] /\ ~eof[c] => q # <<>>
    /\ eof[c] => done[c] /\ q = <<>>

StreamIntact == \A c \in Chan : Contiguous(c) /\ DoneIsLast(c)

\* End-of-file is what Read returns when the slave is done and every byte it
\* printed was handed out, never earlier: Read takes 0 for end-of-file, and it
\* is the "avoid zero byte reads!" of WriteMaster, the test of outLL before the
\* loop and the re-posting of SLAVEDONE that keep a 0 from coming too soon.
EofIsLast == \A c \in Chan : eof[c] => done[c] /\ delivered[c] = written[c]

\* The driver keeps the promise of a byte stream.
Promise == INSTANCE ByteStream
ImplementsByteStream == Promise!Spec

\* What was printed is handed out in the end, and after it the end of the slave,
\* unless the channel is closed: a foreground expect with a timeout does not stall.
Delivery ==
    \A c \in Chan :
      /\ \A n \in 1..MaxBytes : written[c] >= n ~> delivered[c] >= n \/ life[c] # "open"
      /\ done[c] ~> eof[c] \/ life[c] # "open"

\* A close ends: the Tcl thread waits for the debugger thread without a time
\* limit, and that thread always gets through AlertReadable.
CloseEnds == \A c \in Chan : life[c] = "closing" ~> life[c] = "freed"

\* SetupProc avoids "waiting in the notifier" when a ready event exists: if it
\* waits and there is one, somebody is about to alert it.
NoLostWakeup ==
    tpc = "wait" /\ readyQ # <<>> =>
        alerted \/ \E c \in Chan : dpc[c] \in {"wake", "zap"}

\* After Cut nothing announces the channel: no entry of a deleted instance is
\* in the ready queue or in Tcl's event queue.
NoEventAfterFree ==
    \A c \in Chan : life[c] = "freed" =>
        /\ \A i \in 1..Len(readyQ) : readyQ[i] # c
        /\ \A i \in 1..Len(evQ) : evQ[i] # c
=============================================================================
