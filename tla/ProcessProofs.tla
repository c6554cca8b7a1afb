--------------------------- MODULE ProcessProofs ----------------------------
(***************************************************************************)
(* Proofs about the process of expect: its signals, its sources of         *)
(* commands, its end, and the modes of its console.                        *)
(*                                                                         *)
(* Trap, for every NSIG, every set of console signals and any number of    *)
(* threads of the system.                                                  *)
(***************************************************************************)
EXTENDS Trap, Main, Tty, SequenceTheorems, TLAPS

\* A thread at work on an event has a signal.
Busy == \A t \in Threads : cpc[t] # "idle" => csig[t] \in Signal

\* The Tcl thread works for a signal between Take and BodyEnds, and has found
\* one when it is about to write the hint; a scan begins with the first.
Working == /\ pc \in {"clear", "choose", "body"} => current_sig \in Signal
           /\ pc = "found" => i \in Signal
           /\ pc \notin {"scan", "found"} => i = 1

\* Tcl knows of a marked handler: it is in the loop that runs handlers, or will
\* enter it.
ReadyIsSeen == /\ asyncActive <=> pc # "script"
               /\ ready => asyncReady \/ asyncActive

\* The inductive invariant.
IInv == TypeOK /\ Busy /\ Working /\ ReadyIsSeen /\ MarkIsAnnounced

\* It holds at the start.
LEMMA InitIInv == Init => IInv
<1> SUFFICES ASSUME Init PROVE IInv
    OBVIOUS
<1>1. TypeOK
  <2>1. NSIG \in Nat /\ i \in 1..NSIG
      BY TrapAssumption DEF Init
  <2> QED BY <2>1, ZenonT(60) DEF Init, TypeOK
<1>2. Busy /\ Working /\ ReadyIsSeen /\ MarkIsAnnounced
    BY DEF Init, Busy, Working, ReadyIsSeen, MarkIsAnnounced
<1> QED BY <1>1, <1>2 DEF IInv

\* Every action preserves it.
LEMMA NextIInv == IInv /\ [Next]_vars => IInv'
<1> SUFFICES ASSUME IInv, [Next]_vars PROVE IInv'
    OBVIOUS
<1> USE TrapAssumption
<1>1. ASSUME NEW t \in Threads, CtrlMark(t) PROVE IInv'
  <2>1. TypeOK'
      BY <1>1, SMTT(30) DEF IInv, TypeOK, Working, Busy, Signal, CtrlMark, CtrlFrame, Goto, traps, thread, async
  <2>2. Busy'
      BY <1>1, SMTT(30) DEF IInv, TypeOK, Busy, Signal, CtrlMark, CtrlFrame, Goto, traps, thread, async
  <2>3. Working'
      BY <1>1 DEF IInv, Working, CtrlMark, CtrlFrame
  <2>4. ReadyIsSeen'
      BY <1>1 DEF IInv, ReadyIsSeen, CtrlMark, CtrlFrame, async
  <2>5. MarkIsAnnounced'
      BY <1>1, SMTT(30) DEF IInv, TypeOK, Busy, Working, ReadyIsSeen, MarkIsAnnounced, Ahead, Signal, CtrlMark, CtrlFrame, Goto, traps, thread, async
  <2> QED BY <2>1, <2>2, <2>3, <2>4, <2>5 DEF IInv
<1>2. ASSUME NEW t \in Threads, CtrlHint(t) PROVE IInv'
  <2>1. TypeOK'
      BY <1>2, SMTT(30) DEF IInv, TypeOK, Working, Busy, Signal, CtrlHint, CtrlFrame, Goto, traps, thread, async
  <2>2. Busy'
      BY <1>2, SMTT(30) DEF IInv, TypeOK, Busy, Signal, CtrlHint, CtrlFrame, Goto, traps, thread, async
  <2>3. Working'
      BY <1>2 DEF IInv, Working, CtrlHint, CtrlFrame
  <2>4. ReadyIsSeen'
      BY <1>2 DEF IInv, ReadyIsSeen, CtrlHint, CtrlFrame, async
  <2>5. MarkIsAnnounced'
      BY <1>2, SMTT(30) DEF IInv, TypeOK, Busy, Working, ReadyIsSeen, MarkIsAnnounced, Ahead, Signal, CtrlHint, CtrlFrame, Goto, traps, thread, async
  <2> QED BY <2>1, <2>2, <2>3, <2>4, <2>5 DEF IInv
<1>3. ASSUME NEW t \in Threads, CtrlAsync(t) PROVE IInv'
  <2>1. TypeOK'
      BY <1>3, SMTT(30) DEF IInv, TypeOK, Working, Busy, Signal, CtrlAsync, CtrlFrame, Goto, AsyncMark, traps, thread
  <2>2. Busy'
      BY <1>3, SMTT(30) DEF IInv, TypeOK, Busy, Signal, CtrlAsync, CtrlFrame, Goto, AsyncMark, traps, thread
  <2>3. Working'
      BY <1>3 DEF IInv, Working, CtrlAsync, CtrlFrame
  <2>4. ReadyIsSeen'
      BY <1>3, ZenonT(60) DEF IInv, TypeOK, ReadyIsSeen, Signal, CtrlAsync, CtrlFrame, Goto, AsyncMark, traps, thread
  <2>5. MarkIsAnnounced'
      BY <1>3, Zenon DEF MarkIsAnnounced, CtrlAsync, AsyncMark
  <2> QED BY <2>1, <2>2, <2>3, <2>4, <2>5 DEF IInv
<1>4. ASSUME NEW t \in Threads, NEW s \in Console, CtrlEvent(t, s) PROVE IInv'
  <2>1. s \in Signal
      OBVIOUS
  <2>2. TypeOK'
    <3>1. cpc' \in [Threads -> {"idle", "mark", "hint", "async"}]
        BY <1>4 DEF IInv, TypeOK, CtrlEvent, Goto, thread
    <3>2. csig' \in [Threads -> Signal \cup {NoSuch}]
        BY <1>4, <2>1 DEF IInv, TypeOK, CtrlEvent, thread
    <3>3. over' \in {"no", "killed", "impossible", "unexpected", "nointerp", "freed"}
        BY <1>4 DEF IInv, TypeOK, CtrlEvent
    <3>4. UNCHANGED <<mark, got_sig, async>> /\ CtrlFrame
        BY <1>4 DEF CtrlEvent
    <3> QED BY <3>1, <3>2, <3>3, <3>4 DEF IInv, TypeOK, CtrlFrame, traps, async
  <2>3. Busy'
      BY <1>4, SMTT(30) DEF IInv, TypeOK, Busy, Signal, CtrlEvent, CtrlFrame, Goto, traps, thread, async
  <2>4. Working'
      BY <1>4 DEF IInv, Working, CtrlEvent, CtrlFrame
  <2>5. ReadyIsSeen'
      BY <1>4 DEF IInv, ReadyIsSeen, CtrlEvent, CtrlFrame, async
  <2>6. MarkIsAnnounced'
      BY <1>4, SMTT(30) DEF IInv, TypeOK, Busy, Working, ReadyIsSeen, MarkIsAnnounced, Ahead, Signal, CtrlEvent, CtrlFrame, Goto, traps, thread, async
  <2> QED BY <2>2, <2>3, <2>4, <2>5, <2>6 DEF IInv
<1>5. ASSUME NEW s \in Signal, NEW text \in {"none", "ignore", "command"}, NEW here \in BOOLEAN, TrapCmd(s, text, here) PROVE IInv'
  <2>1. TypeOK'
      BY <1>5, SMTT(30) DEF IInv, TypeOK, Working, Busy, Signal, TrapCmd, TclFrame, At, traps, thread, async
  <2>2. Busy'
      BY <1>5 DEF IInv, Busy, TrapCmd, TclFrame, thread
  <2>3. Working'
      BY <1>5, SMTT(30) DEF IInv, TypeOK, Working, Signal, TrapCmd, TclFrame, At, traps, thread, async
  <2>4. ReadyIsSeen'
      BY <1>5 DEF IInv, ReadyIsSeen, TrapCmd, At, async
  <2>5. MarkIsAnnounced'
      BY <1>5, SMTT(30) DEF IInv, MarkIsAnnounced, Ahead, TrapCmd, TclFrame, At, thread, async
  <2> QED BY <2>1, <2>2, <2>3, <2>4, <2>5 DEF IInv
<1>6. CASE Invoke
  <2>1. TypeOK'
      BY <1>6, ZenonT(60) DEF IInv, TypeOK, Working, Busy, Signal, Invoke, TclFrame, At, traps, thread, async
  <2>2. Busy'
      BY <1>6 DEF IInv, Busy, Invoke, TclFrame, thread
  <2>3. Working'
      BY <1>6, SMTT(30) DEF IInv, TypeOK, Working, Signal, Invoke, TclFrame, At, traps, thread, async
  <2>4. ReadyIsSeen'
      BY <1>6, SMTT(30) DEF IInv, TypeOK, ReadyIsSeen, Signal, Invoke, TclFrame, At, traps, thread, async
  <2>5. MarkIsAnnounced'
      BY <1>6, SMTT(30) DEF IInv, TypeOK, Busy, Working, ReadyIsSeen, MarkIsAnnounced, Ahead, Signal, Invoke, TclFrame, At, traps, thread, async
  <2> QED BY <2>1, <2>2, <2>3, <2>4, <2>5 DEF IInv
<1>7. CASE Recall
  <2>1. TypeOK'
      BY <1>7, ZenonT(60) DEF IInv, TypeOK, Working, Busy, Signal, Recall, TclFrame, At, traps, thread, async
  <2>2. Busy'
      BY <1>7 DEF IInv, Busy, Recall, TclFrame, thread
  <2>3. Working'
      BY <1>7, SMTT(30) DEF IInv, TypeOK, Working, Signal, Recall, TclFrame, At, traps, thread, async
  <2>4. ReadyIsSeen'
      BY <1>7, SMTT(30) DEF IInv, TypeOK, ReadyIsSeen, Signal, Recall, TclFrame, At, traps, thread, async
  <2>5. MarkIsAnnounced'
      BY <1>7, SMTT(30) DEF IInv, MarkIsAnnounced, Ahead, Recall, TclFrame, At, thread
  <2> QED BY <2>1, <2>2, <2>3, <2>4, <2>5 DEF IInv
<1>8. CASE InvokeEnds
  <2>1. TypeOK'
      BY <1>8, ZenonT(60) DEF IInv, TypeOK, Working, Busy, Signal, InvokeEnds, TclFrame, At, traps, thread, async
  <2>2. Busy'
      BY <1>8 DEF IInv, Busy, InvokeEnds, TclFrame, thread
  <2>3. Working'
      BY <1>8, SMTT(30) DEF IInv, TypeOK, Working, Signal, InvokeEnds, TclFrame, At, traps, thread, async
  <2>4. ReadyIsSeen'
      BY <1>8, SMTT(30) DEF IInv, TypeOK, ReadyIsSeen, Signal, InvokeEnds, TclFrame, At, traps, thread, async
  <2>5. MarkIsAnnounced'
      BY <1>8, SMTT(30) DEF IInv, TypeOK, Busy, Working, ReadyIsSeen, MarkIsAnnounced, Ahead, Signal, InvokeEnds, TclFrame, At, traps, thread, async
  <2> QED BY <2>1, <2>2, <2>3, <2>4, <2>5 DEF IInv
<1>9. CASE Take
  <2>1. TypeOK'
      BY <1>9, SMTT(30) DEF IInv, TypeOK, Working, Busy, Signal, Take, TclFrame, At, traps, thread, async
  <2>2. Busy'
      BY <1>9 DEF IInv, Busy, Take, TclFrame, thread
  <2>3. Working'
      BY <1>9, SMTT(30) DEF IInv, TypeOK, Working, Signal, Take, TclFrame, At, traps, thread, async
  <2>4. ReadyIsSeen'
      BY <1>9 DEF IInv, ReadyIsSeen, Take, At, async
  <2>5. MarkIsAnnounced'
      BY <1>9, SMTT(30) DEF IInv, MarkIsAnnounced, Ahead, Take, TclFrame, At, thread, async
  <2> QED BY <2>1, <2>2, <2>3, <2>4, <2>5 DEF IInv
<1>10. CASE Clear
  <2>1. TypeOK'
      BY <1>10, SMTT(30) DEF IInv, TypeOK, Working, Busy, Signal, Clear, TclFrame, At, traps, thread, async
  <2>2. Busy'
      BY <1>10 DEF IInv, Busy, Clear, TclFrame, thread
  <2>3. Working'
      BY <1>10, SMTT(30) DEF IInv, TypeOK, Working, Signal, Clear, TclFrame, At, traps, thread, async
  <2>4. ReadyIsSeen'
      BY <1>10 DEF IInv, ReadyIsSeen, Clear, At, async
  <2>5. MarkIsAnnounced'
      BY <1>10, SMTT(30) DEF IInv, TypeOK, Busy, Working, ReadyIsSeen, MarkIsAnnounced, Ahead, Signal, Clear, TclFrame, At, traps, thread, async
  <2> QED BY <2>1, <2>2, <2>3, <2>4, <2>5 DEF IInv
<1>11. CASE Choose
  <2>1. TypeOK'
      BY <1>11, SMTT(30) DEF IInv, TypeOK, Working, Busy, Signal, Choose, TclFrame, At, traps, thread, async
  <2>2. Busy'
      BY <1>11 DEF IInv, Busy, Choose, TclFrame, thread
  <2>3. Working'
      BY <1>11, SMTT(30) DEF IInv, TypeOK, Working, Signal, Choose, TclFrame, At, traps, thread, async
  <2>4. ReadyIsSeen'
      BY <1>11 DEF IInv, ReadyIsSeen, Choose, At, async
  <2>5. MarkIsAnnounced'
      BY <1>11, SMTT(30) DEF IInv, MarkIsAnnounced, Ahead, Choose, TclFrame, At, thread, async
  <2> QED BY <2>1, <2>2, <2>3, <2>4, <2>5 DEF IInv
<1>12. CASE BodyEnds
  <2>1. TypeOK'
      BY <1>12, ZenonT(60) DEF IInv, TypeOK, Working, Busy, Signal, BodyEnds, TclFrame, At, traps, thread, async
  <2>2. Busy'
      BY <1>12 DEF IInv, Busy, BodyEnds, TclFrame, thread
  <2>3. Working'
      BY <1>12, SMTT(30) DEF IInv, TypeOK, Working, Signal, BodyEnds, TclFrame, At, traps, thread, async
  <2>4. ReadyIsSeen'
      BY <1>12 DEF IInv, ReadyIsSeen, BodyEnds, At, async
  <2>5. MarkIsAnnounced'
      BY <1>12, SMTT(30) DEF IInv, MarkIsAnnounced, Ahead, BodyEnds, TclFrame, At, thread, async
  <2> QED BY <2>1, <2>2, <2>3, <2>4, <2>5 DEF IInv
<1>13. CASE Wipe
  <2>1. TypeOK'
      BY <1>13, SMTT(30) DEF IInv, TypeOK, Working, Busy, Signal, Wipe, TclFrame, At, traps, thread, async
  <2>2. Busy'
      BY <1>13 DEF IInv, Busy, Wipe, TclFrame, thread
  <2>3. Working'
      BY <1>13, SMTT(30) DEF IInv, TypeOK, Working, Signal, Wipe, TclFrame, At, traps, thread, async
  <2>4. ReadyIsSeen'
      BY <1>13 DEF IInv, ReadyIsSeen, Wipe, At, async
  <2>5. MarkIsAnnounced'
      BY <1>13, SMTT(30) DEF IInv, TypeOK, Busy, Working, ReadyIsSeen, MarkIsAnnounced, Ahead, Signal, Wipe, TclFrame, At, traps, thread, async
  <2> QED BY <2>1, <2>2, <2>3, <2>4, <2>5 DEF IInv
<1>14. CASE Scan
  <2>1. TypeOK'
      BY <1>14, SMTT(30) DEF IInv, TypeOK, Working, Busy, Signal, Scan, TclFrame, At, traps, thread, async
  <2>2. Busy'
      BY <1>14 DEF IInv, Busy, Scan, TclFrame, thread
  <2>3. Working'
      BY <1>14, SMTT(30) DEF IInv, TypeOK, Working, Signal, Scan, TclFrame, At, traps, thread, async
  <2>4. ReadyIsSeen'
      BY <1>14 DEF IInv, ReadyIsSeen, Scan, At, async
  <2>5. MarkIsAnnounced'
      BY <1>14, SMTT(30) DEF IInv, TypeOK, Busy, Working, ReadyIsSeen, MarkIsAnnounced, Ahead, Signal, Scan, TclFrame, At, traps, thread, async
  <2> QED BY <2>1, <2>2, <2>3, <2>4, <2>5 DEF IInv
<1>15. CASE Hint
  <2>1. TypeOK'
      BY <1>15, SMTT(30) DEF IInv, TypeOK, Working, Busy, Signal, Hint, TclFrame, At, traps, thread, async
  <2>2. Busy'
      BY <1>15 DEF IInv, Busy, Hint, TclFrame, thread
  <2>3. Working'
      BY <1>15, SMTT(30) DEF IInv, TypeOK, Working, Signal, Hint, TclFrame, At, traps, thread, async
  <2>4. ReadyIsSeen'
      BY <1>15 DEF IInv, ReadyIsSeen, Hint, At, async
  <2>5. MarkIsAnnounced'
      BY <1>15, SMTT(30) DEF IInv, MarkIsAnnounced, Ahead, Hint, TclFrame, At, thread, async
  <2> QED BY <2>1, <2>2, <2>3, <2>4, <2>5 DEF IInv
<1>16. CASE Again
  <2>1. TypeOK'
      BY <1>16, SMTT(30) DEF IInv, TypeOK, Working, Busy, Signal, Again, TclFrame, At, AsyncMark, traps, thread
  <2>2. Busy'
      BY <1>16 DEF IInv, Busy, Again, TclFrame, thread
  <2>3. Working'
      BY <1>16, SMTT(30) DEF IInv, TypeOK, Working, Signal, Again, TclFrame, At, AsyncMark, traps, thread
  <2>4. ReadyIsSeen'
      BY <1>16, SMTT(30) DEF IInv, TypeOK, ReadyIsSeen, Signal, Again, TclFrame, At, AsyncMark, traps, thread
  <2>5. MarkIsAnnounced'
      BY <1>16 DEF MarkIsAnnounced, Again, AsyncMark
  <2> QED BY <2>1, <2>2, <2>3, <2>4, <2>5 DEF IInv
<1>17. CASE BodyGoesOn
  <2>1. TypeOK'
      BY <1>17, SMTT(30) DEF IInv, TypeOK, Working, Busy, Signal, BodyGoesOn, TclFrame, At, traps, thread, async
  <2>2. Busy'
      BY <1>17 DEF IInv, Busy, BodyGoesOn, TclFrame, thread
  <2>3. Working'
      BY <1>17, SMTT(30) DEF IInv, TypeOK, Working, Signal, BodyGoesOn, TclFrame, At, traps, thread, async
  <2>4. ReadyIsSeen'
      BY <1>17 DEF IInv, ReadyIsSeen, BodyGoesOn, At, async
  <2>5. MarkIsAnnounced'
      BY <1>17, SMTT(30) DEF IInv, MarkIsAnnounced, Ahead, BodyGoesOn, TclFrame, At, thread, async
  <2> QED BY <2>1, <2>2, <2>3, <2>4, <2>5 DEF IInv
<1>18. CASE UNCHANGED vars
  <2>1. TypeOK'
      BY <1>18, SMTT(30) DEF IInv, TypeOK, Working, Busy, Signal, vars, traps, thread, async
  <2>2. Busy'
      BY <1>18 DEF IInv, Busy, vars, thread
  <2>3. Working'
      BY <1>18 DEF IInv, Working, Signal, vars
  <2>4. ReadyIsSeen'
      BY <1>18 DEF IInv, ReadyIsSeen, vars, async
  <2>5. MarkIsAnnounced'
      BY <1>18 DEF IInv, MarkIsAnnounced, Ahead, vars, thread, async
  <2> QED BY <2>1, <2>2, <2>3, <2>4, <2>5 DEF IInv
<1> QED
  BY <1>1, <1>2, <1>3, <1>4, <1>5, <1>6, <1>7, <1>8, <1>9, <1>10, <1>11, <1>12, <1>13, <1>14, <1>15, <1>16, <1>17, <1>18 DEF Next, Ctrl, TclThread, TopHalf

\* Every reachable state satisfies the invariant.
THEOREM Invariant == Spec => []IInv
  BY InitIInv, NextIInv, PTL DEF Spec

\* Every variable always has its type: got_sig is a signal, 0 before the first
\* one, or -1, however the threads write it.
THEOREM TypeCorrect == Spec => []TypeOK
<1>1. IInv => TypeOK
    BY DEF IInv
<1> QED BY <1>1, Invariant, PTL

\* No signal that was marked is forgotten, although got_sig is only a hint.
THEOREM AnnouncedCorrect == Spec => []MarkIsAnnounced
<1>1. IInv => MarkIsAnnounced
    BY DEF IInv
<1> QED BY <1>1, Invariant, PTL
-----------------------------------------------------------------------------
(***************************************************************************)
(* Main, for any commands and any depth of nesting: what may be on the stack *)
(* of frames, and what becomes of every line.                              *)
(***************************************************************************)

Joined(t, d, k) == t \o d[k]
Joining == INSTANCE FoldProofs WITH op <- Joined, step <- Joined

Inputs == {"interp", "cmdfile"}
Kind == Scripts \union Inputs \union {"main", "end", "handlers", "exit"}
LineRead == [n : Nat, d : Int]
FrameType == [kind : Kind, pending : Seq(LineRead), eof : BOOLEAN]
Exiting == [expect : BOOLEAN, app : BOOLEAN, registered : BOOLEAN, ran : Nat,
            appRan : Nat, nested : BOOLEAN, closed : BOOLEAN, overridden : BOOLEAN]

\* What lies on what: the program or its exit at the bottom, the command for the
\* end of the input on its interpreter, and only what is on top has lines that are
\* not evaluated.
Nested(s) ==
    /\ s \in Seq(FrameType)
    /\ \A k \in 1..Len(s) :
         /\ k = 1 => s[k].kind \in {"main", "end", "exit"}
         /\ s[k].kind = "main" => k = 1
         /\ s[k].kind = "eofcmd" => k > 1 /\ s[k - 1].kind = "interp"
         /\ s[k].pending # <<>> => k = Len(s) /\ s[k].kind \in Inputs

\* The handlers run since they were entered, a file in parts since it was asked for.
InHandlers(s, expect) == \A k \in 1..Len(s) : s[k].kind \in {"handlers", "exit"} => expect
InFile(s, w) ==
    \A k \in 1..Len(s) : s[k].kind = "cmdfile" =>
        s[1].kind # "main" /\ (w.buffer \/ w.file # "name")

AllRead(s) == \A k \in 1..Len(s) : s[k].pending = <<>>
LastUnread(s) == \A k \in 1..Len(s) : k # Len(s) => s[k].pending = <<>>

Words == [interactive : BOOLEAN, file : {"none", "name", "-"}, buffer : BOOLEAN, c : BOOLEAN,
          sys_rc : BOOLEAN, my_rc : BOOLEAN]
LinesType == [read : Nat, evaluated : Seq(Seq(Nat)), dropped : SUBSET Nat]

ExitOK(s, e) ==
    /\ e \in Exiting
    /\ e.ran <= 1 /\ (~e.expect => e.ran = 0)
    /\ e.appRan = (IF e.app THEN 1 ELSE 0)
    /\ s = <<>> => e.nested \/ (e.closed /\ e.expect)

MainInv ==
    /\ Nested(stack)
    /\ InHandlers(stack, exiting.expect)
    /\ InFile(stack, word)
    /\ ExitOK(stack, exiting)

\* What a stack must be that the program goes on with, when nothing else changes.
On(s) == Nested(s) /\ s # <<>> /\ InHandlers(s, exiting.expect) /\ InFile(s, word)

LEMMA PopIs ==
    ASSUME NEW s \in Seq(FrameType), Len(s) > 0
    PROVE  /\ Front(s) \in Seq(FrameType) /\ Len(Front(s)) = Len(s) - 1 /\ Len(s) \in Nat
           /\ \A k \in 1..Len(s) - 1 : Front(s)[k] = s[k]
<1>1. Len(s) \in Nat
  OBVIOUS
<1> DEFINE n == Len(s) - 1
<1>2. Front(s) = SubSeq(s, 1, n) /\ n \in Nat /\ n <= Len(s)
  BY <1>1 DEF Front
<1>3. \A place \in 1..n : s[place] \in FrameType
  BY <1>1
<1> DEFINE c == SubSeq(s, 1, n)
<1>4. c \in Seq(FrameType) /\ Len(c) = n /\ \A k \in 1..n : c[k] = s[k]
  <2>. HIDE DEF n
  <2>. QED  BY <1>1, <1>2, <1>3
<1>. QED  BY <1>1, <1>2, <1>4

LEMMA PushIs ==
    ASSUME NEW s \in Seq(FrameType), NEW f \in FrameType, NEW c, c = s \o <<f>>
    PROVE  /\ c \in Seq(FrameType) /\ Len(c) = Len(s) + 1 /\ Len(s) \in Nat /\ c # <<>>
           /\ \A k \in 1..Len(s) : c[k] = s[k]
           /\ c[Len(s) + 1] = f
           /\ \A k \in 1..Len(c) : k \in 1..Len(s) \/ k = Len(s) + 1
<1>1. <<f>> \in Seq(FrameType) /\ Len(<<f>>) = 1 /\ <<f>>[1] = f /\ Len(s) \in Nat
  OBVIOUS
<1>2. /\ c \in Seq(FrameType) /\ Len(c) = Len(s) + 1
      /\ \A place \in 1..(Len(s) + 1) : c[place] = IF place <= Len(s) THEN s[place] ELSE <<f>>[place - Len(s)]
  BY ONLY <1>1, c = s \o <<f>>, s \in Seq(FrameType), ConcatProperties
<1>3. c # <<>>
  BY <1>1, <1>2
<1>. QED  BY <1>1, <1>2, <1>3

\* The frame on top is gone.
LEMMA PopNested ==
    ASSUME NEW s, Nested(s), Len(s) > 0, NEW e, NEW w
    PROVE  /\ Nested(Front(s)) /\ AllRead(Front(s))
           /\ InHandlers(s, e) => InHandlers(Front(s), e)
           /\ InFile(s, w) => InFile(Front(s), w)
           /\ s[Len(s)].kind \notin {"main", "end", "exit"} => Front(s) # <<>>
<1> DEFINE c == Front(s)
<1>1. /\ s \in Seq(FrameType) /\ c \in Seq(FrameType) /\ Len(c) = Len(s) - 1 /\ Len(s) \in Nat
      /\ \A k \in 1..Len(c) : c[k] = s[k] /\ k \in 1..Len(s) /\ k # Len(s)
  BY PopIs DEF Nested
<1> HIDE DEF c
<1>2. \A k \in 1..Len(c) : k > 1 => k - 1 \in 1..Len(c)
  BY <1>1
<1>3. Nested(c) /\ AllRead(c)
  <2>1. \A k \in 1..Len(s) :
          /\ k = 1 => s[k].kind \in {"main", "end", "exit"}
          /\ s[k].kind = "main" => k = 1
          /\ s[k].kind = "eofcmd" => k > 1 /\ s[k - 1].kind = "interp"
          /\ s[k].pending # <<>> => k = Len(s)
    BY DEF Nested
  <2>2. ASSUME NEW k \in 1..Len(c)
        PROVE  /\ k = 1 => c[k].kind \in {"main", "end", "exit"}
               /\ c[k].kind = "main" => k = 1
               /\ c[k].kind = "eofcmd" => k > 1 /\ c[k - 1].kind = "interp"
               /\ c[k].pending = <<>>
    <3>1. c[k] = s[k] /\ k \in 1..Len(s) /\ k # Len(s)
      BY ONLY <1>1, <2>2
    <3>2. k > 1 => c[k - 1] = s[k - 1]
      BY ONLY <1>1, <1>2, <2>2
    <3>. QED  BY ONLY <2>1, <3>1, <3>2
  <2>. QED  BY ONLY <1>1, <2>2 DEF Nested, AllRead
<1>4. InHandlers(s, e) => InHandlers(c, e)
  BY <1>1 DEF InHandlers
<1>5. InFile(s, w) => InFile(c, w)
  <2>1. \A k \in 1..Len(c) : k \in 1..Len(s) /\ c[k] = s[k] /\ c[1] = s[1]
    <3>. TAKE k \in 1..Len(c)
    <3>1. 1 \in 1..Len(c)
      BY <1>1
    <3>. QED  BY <1>1, <3>1
  <2>. QED  BY ONLY <2>1 DEF InFile
<1>6. s[Len(s)].kind \notin {"main", "end", "exit"} => c # <<>>
  <2>. SUFFICES ASSUME c = <<>> PROVE s[Len(s)].kind \in {"main", "end", "exit"}
    OBVIOUS
  <2>1. Len(s) = 1
    BY <1>1
  <2>. QED  BY <2>1 DEF Nested
<1>. QED  BY <1>3, <1>4, <1>5, <1>6 DEF c

\* A frame comes on top of those that have no lines.
Fits(s, f) ==
    /\ s = <<>> => f.kind \in {"main", "end", "exit"}
    /\ s # <<>> => f.kind # "main"
    /\ f.kind = "eofcmd" => s # <<>> /\ s[Len(s)].kind = "interp"
    /\ f.pending # <<>> => f.kind \in Inputs

LEMMA PushNested ==
    ASSUME NEW s, Nested(s), AllRead(s),
           NEW f \in FrameType, Fits(s, f), NEW c, c = s \o <<f>>
    PROVE  /\ Nested(c) /\ c # <<>> /\ Len(c) = Len(s) + 1 /\ c[Len(c)] = f
           /\ s # <<>> => c[1] = s[1]
           /\ f.pending = <<>> => AllRead(c)
<1>1. /\ s \in Seq(FrameType) /\ c \in Seq(FrameType) /\ Len(c) = Len(s) + 1 /\ Len(s) \in Nat /\ c # <<>>
      /\ \A k \in 1..Len(s) : c[k] = s[k]
      /\ c[Len(s) + 1] = f
      /\ \A k \in 1..Len(c) : k \in 1..Len(s) \/ k = Len(s) + 1
  BY PushIs DEF Nested
<1>2. \A k \in 1..Len(s) : k > 1 => k - 1 \in 1..Len(s)
  BY <1>1
<1>3. (s = <<>> <=> Len(s) = 0) /\ (s # <<>> => Len(s) \in 1..Len(s) /\ 1 \in 1..Len(s))
  BY <1>1
<1>4. \A k \in 1..Len(c) :
         /\ k = 1 => c[k].kind \in {"main", "end", "exit"}
         /\ c[k].kind = "main" => k = 1
         /\ c[k].kind = "eofcmd" => k > 1 /\ c[k - 1].kind = "interp"
         /\ c[k].pending # <<>> => k = Len(c) /\ c[k].kind \in Inputs
  <2>. TAKE k \in 1..Len(c)
  <2>1. CASE k \in 1..Len(s)
    BY <1>1, <1>2, <2>1 DEF Nested, AllRead
  <2>2. CASE k = Len(s) + 1
    BY <1>1, <1>3, <2>2 DEF Fits
  <2>. QED  BY <1>1, <2>1, <2>2
<1>5. Nested(c)
  BY <1>1, <1>4 DEF Nested
<1>6. f.pending = <<>> => AllRead(c)
  BY <1>1 DEF AllRead
<1>. QED  BY <1>1, <1>3, <1>5, <1>6

LEMMA PushRead ==
    ASSUME NEW s, Nested(s), AllRead(s), NEW f \in FrameType, f.pending = <<>>, NEW c, c = s \o <<f>>
    PROVE  AllRead(c)
<1>1. s \in Seq(FrameType)
  BY DEF Nested
<1>2. /\ \A k \in 1..Len(s) : c[k] = s[k]
      /\ c[Len(s) + 1] = f
      /\ \A k \in 1..Len(c) : k \in 1..Len(s) \/ k = Len(s) + 1
  BY ONLY <1>1, f \in FrameType, c = s \o <<f>>, PushIs
<1>3. \A k \in 1..Len(s) : s[k].pending = <<>>
  BY DEF AllRead
<1>. QED  BY ONLY <1>2, <1>3, f.pending = <<>> DEF AllRead

LEMMA PushHandlers ==
    ASSUME NEW s, Nested(s), NEW f \in FrameType, NEW c, c = s \o <<f>>,
           NEW e, InHandlers(s, e), f.kind \in {"handlers", "exit"} => e
    PROVE  InHandlers(c, e)
BY PushIs DEF InHandlers, Nested

LEMMA PushFile ==
    ASSUME NEW s, Nested(s), NEW f \in FrameType, NEW c, c = s \o <<f>>,
           NEW w, InFile(s, w), f.kind # "cmdfile"
    PROVE  InFile(c, w)
<1>1. s # <<>> => 1 \in 1..Len(s)
  BY DEF Nested
<1>. QED  BY PushIs, <1>1 DEF InFile, Nested

\* What the other steps find on top.
LEMMA TopIs ==
    ASSUME NEW s, Nested(s), s # <<>>
    PROVE  /\ Len(s) \in Nat /\ Len(s) >= 1 /\ s[Len(s)] \in FrameType /\ Len(s) \in 1..Len(s)
           /\ s[Len(s)].kind \notin Inputs => AllRead(s)
<1>1. s \in Seq(FrameType)
  BY DEF Nested
<1>2. Len(s) \in Nat /\ Len(s) >= 1 /\ s[Len(s)] \in FrameType /\ Len(s) \in 1..Len(s)
  BY <1>1
<1>. QED  BY <1>2 DEF Nested, AllRead

LEMMA FrameIs == \A kind \in Kind : Frame(kind) \in FrameType /\ Frame(kind).kind = kind /\ Frame(kind).pending = <<>>
BY DEF Frame, FrameType

\* One or two frames come on top of frames without lines.
LEMMA EnterNested ==
    ASSUME NEW frames, Nested(frames), AllRead(frames),
           InHandlers(frames, exiting.expect), InFile(frames, word),
           ExitOK(stack, exiting),
           NEW kind \in {"handlers", "exit"}, frames = <<>> => kind = "exit",
           EnterHandlers(kind, frames)
    PROVE  /\ Nested(stack') /\ stack' # <<>> /\ AllRead(stack')
           /\ InHandlers(stack', exiting'.expect) /\ InFile(stack', word)
           /\ ExitOK(stack', exiting')
           /\ frames # <<>> => stack'[1] = frames[1]
           /\ frames = <<>> => stack'[1].kind = "exit"
<1> DEFINE first == ~exiting.expect /\ onexit.set
           c == frames \o <<Frame(kind)>>
<1>1. /\ exiting \in Exiting /\ exiting.ran <= 1 /\ (~exiting.expect => exiting.ran = 0)
      /\ exiting.appRan = (IF exiting.app THEN 1 ELSE 0)
  BY DEF ExitOK
<1>2. exiting' = [exiting EXCEPT !.expect = TRUE, !.ran = IF first THEN @ + 1 ELSE @,
                                 !.registered = @ /\ kind # "exit"]
  BY DEF EnterHandlers
<1>3. exiting' \in Exiting /\ exiting'.expect /\ exiting'.ran <= 1
      /\ exiting'.appRan = (IF exiting'.app THEN 1 ELSE 0)
  <2> DEFINE r == IF first THEN exiting.ran + 1 ELSE exiting.ran
             g == exiting.registered /\ kind # "exit"
  <2>1. exiting' = [exiting EXCEPT !.expect = TRUE, !.ran = r, !.registered = g]
    BY ONLY <1>1, <1>2 DEF Exiting
  <2>2. r \in Nat /\ r <= 1
    BY <1>1 DEF Exiting
  <2>3. g \in BOOLEAN
    OBVIOUS
  <2>. HIDE DEF r, g, first
  <2>. QED  BY <1>1, <2>1, <2>2, <2>3 DEF Exiting
<1>4. Frame(kind) \in FrameType /\ Frame(kind).kind = kind /\ Frame(kind).pending = <<>>
      /\ Frame("onexit") \in FrameType /\ Frame("onexit").kind = "onexit" /\ Frame("onexit").pending = <<>>
  BY FrameIs DEF Kind, Scripts
<1>5. InHandlers(frames, exiting'.expect)
  BY <1>3 DEF InHandlers
<1>6. /\ Nested(c) /\ c # <<>> /\ Len(c) = Len(frames) + 1 /\ AllRead(c)
      /\ frames # <<>> => c[1] = frames[1]
      /\ InHandlers(c, exiting'.expect) /\ InFile(c, word)
      /\ frames = <<>> => c[1].kind = "exit"
  <2>. HIDE DEF c
  <2>1. c = frames \o <<Frame(kind)>>
    BY DEF c
  <2>2. kind # "main" /\ kind # "eofcmd" /\ kind # "cmdfile"
    OBVIOUS
  <2>3. InHandlers(c, exiting'.expect) /\ InFile(c, word)
    BY <1>3, <1>4, <1>5, <2>1, <2>2, PushHandlers, PushFile
  <2>4. /\ Nested(c) /\ c # <<>> /\ Len(c) = Len(frames) + 1 /\ c[Len(c)] = Frame(kind) /\ AllRead(c)
        /\ frames # <<>> => c[1] = frames[1]
    <3>1. Fits(frames, Frame(kind))
      BY <1>4, <2>2 DEF Fits
    <3>2. Nested(c)
      BY <1>4, <2>1, <3>1, PushNested
    <3>3. c # <<>> /\ Len(c) = Len(frames) + 1
      BY <1>4, <2>1, <3>1, PushNested
    <3>4. c[Len(c)] = Frame(kind)
      BY <1>4, <2>1, <3>1, PushNested
    <3>5. AllRead(c)
      BY <1>4, <2>1, PushRead
    <3>6. frames # <<>> => c[1] = frames[1]
      BY <1>4, <2>1, <3>1, PushNested
    <3>. QED  BY <3>2, <3>3, <3>4, <3>5, <3>6
  <2>5. frames = <<>> => c[1].kind = "exit"
    <3>. SUFFICES ASSUME frames = <<>> PROVE c[1].kind = "exit"
      OBVIOUS
    <3>1. Len(c) = 1
      <4>1. Len(<<>>) = 0
        OBVIOUS
      <4>. QED  BY <2>4, <4>1
    <3>2. c[1] = Frame(kind)
      BY <2>4, <3>1
    <3>. QED  BY <1>4, <3>2
  <2>. QED  BY <2>3, <2>4, <2>5
<1>9. stack' = c \o (IF first THEN <<Frame("onexit")>> ELSE <<>>)
  BY DEF EnterHandlers
<1> HIDE DEF c
<1>10. c \in Seq(FrameType)
  BY <1>6 DEF Nested
<1>11. CASE first
  <2> DEFINE d == c \o <<Frame("onexit")>>
  <2>. HIDE DEF d
  <2>1. stack' = d /\ d = c \o <<Frame("onexit")>>
    BY <1>9, <1>11 DEF d
  <2>2. InHandlers(d, exiting'.expect) /\ InFile(d, word)
    BY <1>3, <1>4, <1>6, <2>1, PushHandlers, PushFile
  <2>3. Nested(d) /\ d # <<>> /\ AllRead(d) /\ d[1] = c[1]
    <3> DEFINE f == Frame("onexit")
    <3>1. f \in FrameType /\ f.kind = "onexit" /\ f.pending = <<>> /\ d = c \o <<f>>
      BY <1>4, <2>1
    <3>2. Nested(c) /\ AllRead(c) /\ c # <<>>
      BY <1>6
    <3>. HIDE DEF f
    <3>3. Fits(c, f)
      BY <3>1, <3>2 DEF Fits
    <3>4. Nested(d)
      BY ONLY <3>1, <3>2, <3>3, PushNested
    <3>5. d # <<>>
      BY ONLY <3>1, <3>2, <3>3, PushNested
    <3>6. AllRead(d)
      BY ONLY <3>1, <3>2, PushRead
    <3>7. d[1] = c[1]
      BY ONLY <3>1, <3>2, <3>3, PushNested
    <3>. QED  BY <3>4, <3>5, <3>6, <3>7
  <2>. QED  BY <1>3, <1>6, <2>1, <2>2, <2>3 DEF ExitOK
<1>12. CASE ~first
  <2>1. c \o <<>> = c
    BY <1>10
  <2>2. stack' = c
    BY <1>9, <1>12, <2>1
  <2>. QED  BY <1>3, <1>6, <2>2 DEF ExitOK
<1>. QED  BY <1>11, <1>12

LEMMA Stays ==
    ASSUME MainInv, exiting' = exiting, word' = word, On(stack')
    PROVE  MainInv'
BY DEF MainInv, On, ExitOK, InHandlers, InFile

LEMMA InvEmpty ==
    ASSUME MainInv
    PROVE  /\ Nested(<<>>) /\ AllRead(<<>>)
           /\ \A e, w : InHandlers(<<>>, e) /\ InFile(<<>>, w)
<1>1. <<>> \in Seq(FrameType) /\ Len(<<>>) = 0
  OBVIOUS
<1>. QED  BY <1>1 DEF Nested, AllRead, InHandlers, InFile

LEMMA BelowIs ==
    ASSUME MainInv, stack # <<>>, Top.kind \notin {"main", "end", "exit"}
    PROVE  /\ On(Below) /\ AllRead(Below) /\ Len(Below) = Len(stack) - 1 /\ Len(Below) >= 1
           /\ Below[Len(Below)] = stack[Len(stack) - 1]
           /\ Below[1] = stack[1]
<1>1. Nested(stack) /\ stack \in Seq(FrameType) /\ Len(stack) > 0
  BY TopIs DEF MainInv, Nested
<1>2. /\ Below \in Seq(FrameType) /\ Len(Below) = Len(stack) - 1 /\ Len(stack) \in Nat
      /\ \A k \in 1..Len(stack) - 1 : Below[k] = stack[k]
  BY <1>1, PopIs DEF Below
<1>3. Nested(Below) /\ AllRead(Below)
  BY <1>1, PopNested DEF Below
<1>4. InHandlers(Below, exiting.expect)
  BY <1>1, PopNested DEF MainInv, Below
<1>5. InFile(Below, word)
  BY <1>1, PopNested DEF MainInv, Below
<1>6. Below # <<>>
  BY <1>1, PopNested DEF Top, Below
<1>7. Len(Below) >= 1
  BY <1>2, <1>6
<1>. QED  BY <1>2, <1>3, <1>4, <1>5, <1>6, <1>7 DEF On

\* A command, a script or an interpreter is entered.
LEMMA Enters ==
    ASSUME NEW s, On(s), AllRead(s), NEW f \in FrameType,
           f.kind \notin {"main", "handlers", "exit"},
           f.kind = "cmdfile" => InFile(s \o <<f>>, word),
           Fits(s, f)
    PROVE  /\ On(s \o <<f>>) /\ Len(s \o <<f>>) = Len(s) + 1
           /\ (s \o <<f>>)[1] = s[1] /\ (s \o <<f>>)[Len(s) + 1] = f
           /\ f.pending = <<>> => AllRead(s \o <<f>>)
<1> DEFINE c == s \o <<f>>
<1>1. Nested(s) /\ s # <<>> /\ InHandlers(s, exiting.expect) /\ InFile(s, word)
  BY DEF On
<1> HIDE DEF c
<1>2. c = s \o <<f>>
  BY DEF c
<1>3. Nested(c)
  BY <1>1, <1>2, PushNested
<1>4. c # <<>>
  BY <1>1, <1>2, PushNested
<1>5. InHandlers(c, exiting.expect)
  BY <1>1, <1>2, PushHandlers
<1>6. InFile(c, word)
  BY <1>1, <1>2, PushFile
<1>7. Len(c) = Len(s) + 1
  BY <1>1, <1>2, PushNested
<1>8. c[1] = s[1]
  BY <1>1, <1>2, PushNested
<1>9. c[Len(c)] = f
  BY <1>1, <1>2, PushNested
<1>10. ASSUME f.pending = <<>> PROVE AllRead(c)
  BY <1>1, <1>2, <1>10, PushRead
<1>11. On(c)
  BY <1>3, <1>4, <1>5, <1>6 DEF On
<1>. QED  BY <1>2, <1>7, <1>8, <1>9, <1>10, <1>11

LEMMA InitKeeps == MainInit => MainInv
<1>. SUFFICES ASSUME MainInit PROVE MainInv
  OBVIOUS
<1>1. Frame("main") \in FrameType /\ Frame("main").kind = "main" /\ Frame("main").pending = <<>>
  BY FrameIs DEF Kind
<1>2. stack \in Seq(FrameType) /\ Len(stack) = 1 /\ stack[1] = Frame("main") /\ stack # <<>>
  BY <1>1 DEF MainInit
<1>3. Nested(stack)
  BY <1>1, <1>2 DEF Nested
<1>4. InHandlers(stack, exiting.expect) /\ InFile(stack, word)
  BY <1>1, <1>2 DEF InHandlers, InFile
<1>5. ExitOK(stack, exiting)
  BY <1>2 DEF MainInit, ExitOK, Exiting
<1>. QED  BY <1>3, <1>4, <1>5 DEF MainInv

LEMMA ExpectInitKeeps == ASSUME MainInv, Expect_Init PROVE MainInv'
<1>1. stack' = stack /\ word' = word /\ exiting' = [exiting EXCEPT !.registered = TRUE]
  BY DEF Expect_Init
<1>2. exiting \in Exiting
  BY DEF MainInv, ExitOK
<1>3. exiting'.expect = exiting.expect /\ ExitOK(stack', exiting')
  BY <1>1, <1>2 DEF MainInv, ExitOK, Exiting
<1>. QED  BY <1>1, <1>3 DEF MainInv, Nested, InHandlers, InFile

LEMMA OverrideKeeps == ASSUME MainInv, Override PROVE MainInv'
<1>1. stack' = stack /\ word' = word /\ exiting' = [exiting EXCEPT !.overridden = TRUE]
  BY DEF Override
<1>2. exiting \in Exiting
  BY DEF MainInv, ExitOK
<1>3. exiting'.expect = exiting.expect /\ ExitOK(stack', exiting')
  BY <1>1, <1>2 DEF MainInv, ExitOK, Exiting
<1>. QED  BY <1>1, <1>3 DEF MainInv, Nested, InHandlers, InFile

LEMMA ExitOnexitKeeps == ASSUME MainInv, ExitOnexit PROVE MainInv'
BY DEF ExitOnexit, MainInv, Nested, InHandlers, InFile, ExitOK

LEMMA OnIs == MainInv /\ stack # <<>> => On(stack)
BY DEF MainInv, On

\* While main reads the command line, it runs nothing else.
LEMMA OnlyMain ==
    ASSUME MainInv, Running({"main"})
    PROVE  Len(stack) = 1 /\ stack[1].kind = "main" /\ AllRead(stack)
<1>1. stack # <<>> /\ Nested(stack) /\ stack[Len(stack)].kind = "main"
  BY DEF Running, Top, MainInv
<1>2. Len(stack) \in 1..Len(stack)
  BY <1>1, TopIs
<1>3. Len(stack) = 1
  BY <1>1, <1>2 DEF Nested
<1>. QED  BY <1>1, <1>3, TopIs DEF Inputs

LEMMA OptionKeeps ==
    ASSUME MainInv, NEW option \in {"-c", "-f", "-b", "-i", "-n", "-N"}, Option(option)
    PROVE  MainInv'
<1>1. Running({"main"}) /\ exiting' = exiting
  BY DEF Option
<1>2. Len(stack) = 1 /\ stack[1].kind = "main" /\ AllRead(stack) /\ stack # <<>> /\ Nested(stack)
  BY <1>1, OnlyMain DEF Running, MainInv
<1>3. \A w : InFile(stack, w)
  BY <1>2 DEF InFile
<1>4. CASE option = "-c"
  <2> DEFINE f == Frame("-c")
             c == stack \o <<f>>
  <2>1. stack' = c
    BY <1>4 DEF Option, Enter
  <2>2. f \in FrameType /\ f.kind = "-c" /\ f.pending = <<>>
    BY FrameIs DEF Kind, Scripts
  <2>. HIDE DEF f
  <2>3. On(stack)
    BY <1>2, OnIs
  <2>4. Fits(stack, f)
    BY <1>2, <2>2 DEF Fits
  <2>5. On(c)
    BY <1>2, <2>2, <2>3, <2>4, Enters
  <2>. HIDE DEF c
  <2>6. c # <<>> /\ Nested(c) /\ InHandlers(c, exiting.expect)
    BY <2>5 DEF On
  <2>7. InFile(c, word')
    BY <1>2, <1>3, <2>2, PushFile DEF c
  <2>. QED  BY <1>1, <2>1, <2>6, <2>7 DEF MainInv, ExitOK
<1>5. CASE option # "-c"
  <2>1. stack' = stack
    BY <1>5 DEF Option
  <2>. QED  BY <1>1, <1>3, <2>1 DEF MainInv
<1>. QED  BY <1>4, <1>5

LEMMA LeaveHandlersKeeps == ASSUME MainInv, LeaveHandlers PROVE MainInv'
<1>1. /\ stack # <<>> /\ Top.kind \in {"handlers", "exit"} /\ word' = word
      /\ exiting' = [exiting EXCEPT !.app = TRUE, !.appRan = IF exiting.app THEN @ ELSE @ + 1,
                                    !.closed = TRUE]
      /\ stack' = IF Top.kind = "exit" THEN <<>> ELSE Below
  BY DEF LeaveHandlers, Running
<1>2. exiting.expect
  BY <1>1, TopIs DEF MainInv, InHandlers, Top
<1>3. /\ exiting' \in Exiting /\ exiting'.expect /\ exiting'.closed
      /\ exiting'.ran = exiting.ran /\ exiting'.appRan = 1 /\ exiting'.app
  <2>1. exiting \in Exiting /\ exiting.appRan = IF exiting.app THEN 1 ELSE 0
    BY DEF MainInv, ExitOK
  <2> DEFINE n == IF exiting.app THEN exiting.appRan ELSE exiting.appRan + 1
  <2>2. n = 1
    BY <2>1 DEF Exiting
  <2>3. exiting' = [exiting EXCEPT !.app = TRUE, !.appRan = n, !.closed = TRUE]
    BY ONLY <1>1, <2>1 DEF Exiting
  <2>. HIDE DEF n
  <2>. QED  BY <1>2, <2>1, <2>2, <2>3 DEF Exiting
<1>4. ExitOK(stack', exiting')
  BY <1>3 DEF MainInv, ExitOK
<1>5. CASE Top.kind = "exit"
  BY <1>1, <1>4, <1>5, InvEmpty DEF MainInv
<1>6. CASE Top.kind = "handlers"
  <2>1. On(Below) /\ stack' = Below
    BY <1>1, <1>6, BelowIs
  <2>. QED  BY <1>1, <1>2, <1>3, <1>4, <2>1 DEF On, MainInv, InHandlers
<1>. QED  BY <1>1, <1>5, <1>6

LEMMA EnterHandlersKeeps ==
    ASSUME MainInv, NEW frames, frames = <<>> \/ On(frames), AllRead(frames),
           NEW kind \in {"handlers", "exit"}, frames = <<>> => kind = "exit",
           EnterHandlers(kind, frames), word' = word
    PROVE  MainInv'
<1>1. Nested(frames) /\ InHandlers(frames, exiting.expect) /\ InFile(frames, word)
  BY InvEmpty DEF On
<1>2. ExitOK(stack, exiting)
  BY DEF MainInv
<1>. QED  BY <1>1, <1>2, EnterNested DEF MainInv

LEMMA ExitKeeps ==
    ASSUME MainInv, NEW frames, frames = <<>> \/ On(frames), AllRead(frames), Exit(frames),
           word' = word
    PROVE  MainInv'
<1>1. CASE exiting.registered
  BY <1>1, EnterHandlersKeeps DEF Exit, Tcl_Exit
<1>2. CASE ~exiting.registered
  <2>1. stack' = <<>> /\ exiting' = [exiting EXCEPT !.nested = TRUE]
    BY <1>2 DEF Exit, Tcl_Exit
  <2>2. ExitOK(stack', exiting')
    BY <2>1 DEF MainInv, ExitOK, Exiting
  <2>. QED  BY <2>1, <2>2, InvEmpty DEF MainInv
<1>. QED  BY <1>1, <1>2

LEMMA ScriptRuns ==
    ASSUME MainInv, Running(Scripts)
    PROVE  On(stack) /\ AllRead(stack) /\ stack # <<>> /\ Top.kind \notin {"main", "end", "exit"}
<1>1. stack # <<>> /\ stack[Len(stack)].kind \in Scripts /\ Nested(stack)
  BY DEF Running, Top, MainInv
<1>. QED  BY <1>1, OnIs, TopIs DEF Scripts, Inputs, Top

LEMMA ExitNoexitKeeps == ASSUME MainInv, ExitNoexit PROVE MainInv'
BY ScriptRuns, EnterHandlersKeeps DEF ExitNoexit

LEMMA ExitNowKeeps == ASSUME MainInv, ExitNow PROVE MainInv'
BY ScriptRuns, ExitKeeps DEF ExitNow

LEMMA EndKeeps == ASSUME MainInv, End PROVE MainInv'
<1>1. AllRead(<<>>)
  BY InvEmpty
<1>. QED  BY <1>1, ExitKeeps DEF End

LEMMA UnopenedKeeps == ASSUME MainInv, Unopened PROVE MainInv'
<1>1. AllRead(<<>>)
  BY InvEmpty
<1>. QED  BY <1>1, ExitKeeps DEF Unopened

LEMMA InterpreterKeeps ==
    ASSUME MainInv, NEW eof \in BOOLEAN, Interpreter(eof) PROVE MainInv'
<1> DEFINE f == [Frame("interp") EXCEPT !.eof = eof]
<1>1. f \in FrameType /\ f.kind = "interp" /\ f.pending = <<>>
  <2>1. Frame("interp") \in FrameType /\ Frame("interp").kind = "interp" /\ Frame("interp").pending = <<>>
    BY FrameIs DEF Kind, Inputs
  <2>. QED  BY <2>1 DEF FrameType
<1>2. stack' = stack \o <<f>> /\ exiting' = exiting /\ word' = word
  BY DEF Interpreter, Enter
<1> HIDE DEF f
<1>3. On(stack) /\ AllRead(stack) /\ stack # <<>>
  BY ScriptRuns DEF Interpreter
<1>4. Fits(stack, f)
  BY <1>1, <1>3 DEF Fits
<1>5. On(stack \o <<f>>)
  BY <1>1, <1>3, <1>4, Enters
<1>. QED  BY <1>2, <1>5, Stays

\* The frame under the one on top goes too, if it reads commands.
LEMMA TwoBelow ==
    ASSUME MainInv, stack # <<>>, Top.kind \notin {"main", "end", "exit"},
           stack[Len(stack) - 1].kind \in Inputs
    PROVE  On(Front(Below)) /\ AllRead(Front(Below)) /\ Front(Below)[1] = stack[1]
<1>1. /\ On(Below) /\ Len(Below) >= 1 /\ Nested(Below) /\ Below[1] = stack[1]
      /\ Below[Len(Below)].kind \in Inputs
  BY BelowIs DEF On
<1>2. Nested(Front(Below))
  BY <1>1, PopNested
<1>3. InHandlers(Front(Below), exiting.expect)
  BY <1>1, PopNested DEF On
<1>4. InFile(Front(Below), word)
  BY <1>1, PopNested DEF On
<1>5. Front(Below) # <<>>
  BY <1>1, PopNested DEF Inputs
<1>6. AllRead(Front(Below))
  BY <1>1, PopNested
<1>7. Front(Below)[1] = stack[1]
  <2>1. Below \in Seq(FrameType) /\ Len(Below) > 0
    BY <1>1 DEF Nested
  <2>2. Len(Front(Below)) = Len(Below) - 1 /\ \A k \in 1..Len(Below) - 1 : Front(Below)[k] = Below[k]
    BY <2>1, PopIs
  <2>3. Len(Front(Below)) > 0
    BY <1>2, <1>5 DEF Nested
  <2>. QED  BY <1>1, <2>2, <2>3
<1>. QED  BY <1>2, <1>3, <1>4, <1>5, <1>6, <1>7 DEF On

LEMMA FinishKeeps ==
    ASSUME MainInv, NEW code \in Codes, Finish(code) PROVE MainInv'
<1>1. Running(Scripts) /\ word' = word
  BY DEF Finish
<1>2. stack # <<>> /\ Top.kind \notin {"main", "end", "exit"}
  BY <1>1, ScriptRuns
<1>3. On(Below) /\ AllRead(Below)
  BY <1>2, BelowIs
<1>4. CASE stack' = Below /\ exiting' = exiting
  BY <1>1, <1>3, <1>4, Stays
<1>5. CASE Exit(Below)
  BY <1>1, <1>3, <1>5, ExitKeeps
<1>6. CASE Top.kind = "command" /\ Owner \in Inputs /\ stack' \in {Below, Front(Below)} /\ exiting' = exiting
  <2>1. On(Front(Below))
    BY <1>2, <1>6, TwoBelow DEF Owner
  <2>. QED  BY <1>1, <1>3, <1>6, <2>1, Stays
<1>7. CASE Top.kind = "eofcmd" /\ stack' = Front(Below) /\ exiting' = exiting
  <2>1. stack[Len(stack) - 1].kind = "interp"
    BY <1>2, <1>7, TopIs DEF MainInv, Nested, Top
  <2>2. On(Front(Below))
    BY <1>2, <2>1, TwoBelow DEF Inputs
  <2>. QED  BY <1>1, <1>7, <2>2, Stays
<1>. QED  BY <1>4, <1>5, <1>6, <1>7 DEF Finish, Inputs

LEMMA ConcatTwo ==
    ASSUME NEW s \in Seq(FrameType), NEW f \in FrameType, NEW g \in FrameType
    PROVE  s \o <<f, g>> = (s \o <<f>>) \o <<g>>
<1>1. <<f>> \in Seq(FrameType) /\ <<g>> \in Seq(FrameType)
  OBVIOUS
<1>2. <<f, g>> = <<f>> \o <<g>>
  <2>1. /\ <<f, g>> \in Seq(FrameType) /\ Len(<<f, g>>) = 2 /\ Len(<<f>>) = 1 /\ Len(<<g>>) = 1
        /\ <<f, g>>[1] = f /\ <<f, g>>[2] = g /\ <<f>>[1] = f /\ <<g>>[1] = g
    OBVIOUS
  <2> DEFINE a == <<f, g>>
             b == <<f>>
             c == <<g>>
             d == b \o c
  <2>2. a \in Seq(FrameType) /\ Len(a) = 2 /\ Len(b) = 1 /\ Len(c) = 1
        /\ a[1] = f /\ a[2] = g /\ b[1] = f /\ c[1] = g /\ b \in Seq(FrameType) /\ c \in Seq(FrameType)
    BY <1>1, <2>1
  <2>. HIDE DEF a, b, c
  <2>3. d \in Seq(FrameType) /\ Len(d) = 2 /\ d[1] = f /\ d[2] = g
    BY <2>2, ConcatProperties
  <2>. HIDE DEF d
  <2>4. \A place \in 1..2 : a[place] = d[place]
    BY <2>2, <2>3
  <2>5. a = d
    BY <2>2, <2>3, <2>4, SeqEqual
  <2>. QED  BY <2>5 DEF a, b, c, d
<1>. QED  BY <1>1, <1>2, ConcatAssociative

\* The frame that reads commands is exchanged for one of its kind.
LEMMA TopAnew ==
    ASSUME MainInv, Running(Inputs), NEW f \in FrameType, f.kind = Top.kind
    PROVE  /\ On(Below \o <<f>>) /\ Len(Below \o <<f>>) = Len(stack)
           /\ (Below \o <<f>>)[Len(stack)] = f /\ (Below \o <<f>>)[1] = stack[1]
           /\ f.pending = <<>> => AllRead(Below \o <<f>>)
<1>1. stack # <<>> /\ Top.kind \in Inputs /\ Nested(stack) /\ Len(stack) \in Nat /\ Len(stack) \in 1..Len(stack)
  BY TopIs DEF Running, MainInv
<1>2. On(Below) /\ AllRead(Below) /\ Len(Below) = Len(stack) - 1 /\ Below[1] = stack[1] /\ Len(Below) >= 1
  BY <1>1, BelowIs DEF Inputs
<1>3. Fits(Below, f)
  BY <1>1, <1>2 DEF Fits, On, Inputs
<1>4. f.kind = "cmdfile" => InFile(Below \o <<f>>, word)
  <2>. SUFFICES ASSUME f.kind = "cmdfile" PROVE InFile(Below \o <<f>>, word)
    OBVIOUS
  <2>1. stack[1].kind # "main" /\ (word.buffer \/ word.file # "name")
    BY <1>1 DEF MainInv, InFile, Top
  <2> DEFINE c == Below \o <<f>>
  <2>2. c[1] = Below[1]
    <3>. HIDE DEF c
    <3>1. Nested(Below) /\ Below # <<>>
      BY <1>2 DEF On
    <3>2. c = Below \o <<f>>
      BY DEF c
    <3>. QED  BY ONLY f \in FrameType, <1>2, <1>3, <3>1, <3>2, PushNested
  <2>. HIDE DEF c
  <2>3. InFile(c, word)
    BY <1>2, <2>1, <2>2 DEF InFile
  <2>. QED  BY <2>3 DEF c
<1>5. f.kind \notin {"main", "handlers", "exit"}
  BY <1>1 DEF Inputs
<1>6. /\ On(Below \o <<f>>) /\ Len(Below \o <<f>>) = Len(Below) + 1
      /\ (Below \o <<f>>)[Len(Below) + 1] = f /\ (Below \o <<f>>)[1] = Below[1]
  BY <1>2, <1>3, <1>4, <1>5, Enters
<1>7. ASSUME f.pending = <<>> PROVE AllRead(Below \o <<f>>)
  BY <1>2, <1>3, <1>4, <1>5, <1>7, Enters
<1>. QED  BY <1>1, <1>2, <1>6, <1>7

LEMMA TopAndMore ==
    ASSUME MainInv, Running(Inputs), NEW f \in FrameType, f.kind = Top.kind, f.pending = <<>>,
           NEW kind \in {"command", "eofcmd"}, kind = "eofcmd" => f.kind = "interp"
    PROVE  LET s == Below \o <<f, Frame(kind)>>
           IN  On(s) /\ AllRead(s) /\ s[1] = stack[1]
<1> DEFINE c == Below \o <<f>>
           g == Frame(kind)
<1>1. On(c) /\ AllRead(c) /\ Len(c) = Len(stack) /\ c[Len(c)] = f
  BY TopAnew
<1>2. g \in FrameType /\ g.kind = kind /\ g.pending = <<>>
  BY FrameIs DEF Kind, Scripts
<1>3. Below \in Seq(FrameType)
  BY BelowIs DEF On, Nested, Running, Inputs
<1>4. Below \o <<f, g>> = c \o <<g>>
  BY <1>2, <1>3, ConcatTwo
<1>. HIDE DEF c, g
<1>5. Fits(c, g)
  BY <1>1, <1>2 DEF Fits, On
<1>6. On(c \o <<g>>)
  BY <1>1, <1>2, <1>5, Enters
<1>7. AllRead(c \o <<g>>)
  BY <1>1, <1>2, <1>5, Enters
<1>8. (c \o <<g>>)[1] = c[1]
  BY <1>1, <1>2, <1>5, Enters
<1>9. c[1] = stack[1]
  BY TopAnew DEF c
<1>. QED  BY <1>4, <1>6, <1>7, <1>8, <1>9 DEF g

LEMMA TopType ==
    ASSUME MainInv, Running(Inputs)
    PROVE  Top \in FrameType /\ On(Below)
BY TopIs, BelowIs DEF MainInv, Running, Top, Inputs

LEMMA LineKeeps == ASSUME MainInv, lines.read \in Nat, NEW d \in {-1, 0, 1}, Line(d) PROVE MainInv'
<1> DEFINE text == Append(Top.pending, [n |-> lines.read + 1, d |-> d])
           f == [Top EXCEPT !.pending = text]
           g == [Top EXCEPT !.pending = <<>>]
<1>1. Running(Inputs) /\ word' = word /\ exiting' = exiting
  BY DEF Line, Inputs
<1>2. \/ stack' = Below \o <<g, Frame("command")>>
      \/ stack' = Below \o <<f>>
  BY DEF Line, Evaluate
<1>3. f \in FrameType /\ f.kind = Top.kind
  <2>1. [n |-> lines.read + 1, d |-> d] \in LineRead
    BY DEF LineRead
  <2>2. text \in Seq(LineRead)
    BY <1>1, <2>1, TopType DEF FrameType
  <2>. HIDE DEF text
  <2>. QED  BY <1>1, <2>2, TopType DEF FrameType
<1>4. g \in FrameType /\ g.kind = Top.kind /\ g.pending = <<>>
  <2>1. <<>> \in Seq(LineRead)
    OBVIOUS
  <2>. QED  BY <1>1, <2>1, TopType DEF FrameType
<1>. HIDE DEF f, g
<1>5. On(stack')
  BY <1>1, <1>2, <1>3, <1>4, TopAnew, TopAndMore
<1>. QED  BY <1>1, <1>5, Stays

LEMMA FileEndsKeeps == ASSUME MainInv, FileEnds PROVE MainInv'
<1> DEFINE g == [Top EXCEPT !.pending = <<>>, !.eof = TRUE]
<1>1. Running(Inputs) /\ word' = word /\ exiting' = exiting
  BY DEF FileEnds, Inputs, Running
<1>2. stack' = Below \/ stack' = Below \o <<g, Frame("command")>>
  BY DEF FileEnds
<1>4. g \in FrameType /\ g.kind = Top.kind /\ g.pending = <<>>
  <2>1. <<>> \in Seq(LineRead)
    OBVIOUS
  <2>. QED  BY <1>1, <2>1, TopType DEF FrameType
<1>. HIDE DEF g
<1>5. On(stack')
  BY <1>1, <1>2, <1>4, TopAndMore, TopType
<1>. QED  BY <1>1, <1>5, Stays

LEMMA InputEndsKeeps == ASSUME MainInv, InputEnds PROVE MainInv'
<1> DEFINE g == [Top EXCEPT !.pending = <<>>]
<1>1. Running(Inputs) /\ word' = word /\ exiting' = exiting /\ Top.kind = "interp"
  BY DEF InputEnds, Inputs, Running
<1>2. stack' = Below \/ stack' = Below \o <<g, Frame("eofcmd")>>
  BY DEF InputEnds
<1>4. g \in FrameType /\ g.kind = Top.kind /\ g.pending = <<>>
  <2>1. <<>> \in Seq(LineRead)
    OBVIOUS
  <2>. QED  BY <1>1, <2>1, TopType DEF FrameType
<1>. HIDE DEF g
<1>5. On(stack')
  BY <1>1, <1>2, <1>4, TopAndMore, TopType
<1>. QED  BY <1>1, <1>5, Stays

\* Each of the frames the program goes on with is put on those before it.
Begun(s, w) ==
    /\ Nested(s) /\ s # <<>> /\ AllRead(s)
    /\ s[1].kind = "end" /\ InHandlers(s, exiting.expect) /\ InFile(s, w)

LEMMA Begins ==
    ASSUME NEW w, NEW s, Begun(s, w),
           NEW kind \in {"interp", "file", "cmdfile", "myrc", "sysrc"},
           kind = "cmdfile" => w.buffer \/ w.file # "name"
    PROVE  Begun(s \o <<Frame(kind)>>, w)
<1> DEFINE f == Frame(kind)
           c == s \o <<f>>
<1>1. f \in FrameType /\ f.kind = kind /\ f.pending = <<>>
  BY FrameIs DEF Kind, Scripts, Inputs
<1>2. Nested(s) /\ s # <<>> /\ AllRead(s) /\ s[1].kind = "end"
  BY DEF Begun
<1>. HIDE DEF f, c
<1>3. Fits(s, f) /\ c = s \o <<f>>
  BY <1>1, <1>2 DEF Fits, c
<1>4. Nested(c)
  BY <1>1, <1>2, <1>3, PushNested
<1>5. c # <<>>
  BY <1>1, <1>2, <1>3, PushNested
<1>6. AllRead(c)
  BY <1>1, <1>2, <1>3, PushRead
<1>7. c[1] = s[1]
  BY <1>1, <1>2, <1>3, PushNested
<1>8. InHandlers(c, exiting.expect)
  BY <1>1, <1>2, <1>3, PushHandlers DEF Begun
<1>9. InFile(c, w)
  BY <1>1, <1>2, <1>3, <1>7, PushIs DEF Begun, InFile, Nested
<1>. QED  BY <1>2, <1>4, <1>5, <1>6, <1>7, <1>8, <1>9 DEF Begun, c, f

LEMMA ChooseBegins ==
    ASSUME MainInv, NEW first \in {"none", "name", "-"}, NEW stdin \in {"tty", "file"},
           word \in Words, ChooseSource(first, stdin)
    PROVE  \E w : /\ Begun(stack', w)
                  /\ word'.file = w.file /\ word'.buffer = w.buffer
<1> DEFINE w == IF word.interactive \/ word.file # "none" THEN word
                ELSE [word EXCEPT !.file = first]
           a == <<Frame("end")>>
           b == a \o (IF w.interactive THEN <<Frame("interp")>>
                       ELSE CASE w.file = "name" /\ ~w.buffer -> <<Frame("file")>>
                              [] (w.file = "name" /\ w.buffer) \/ w.file = "-" -> <<Frame("cmdfile")>>
                              [] w.file = "none" -> IF w.c THEN <<>>
                                                    ELSE IF stdin = "tty" THEN <<Frame("interp")>>
                                                    ELSE <<Frame("cmdfile")>>)
           c == b \o (IF w.my_rc THEN <<Frame("myrc")>> ELSE <<>>)
           d == c \o (IF w.sys_rc THEN <<Frame("sysrc")>> ELSE <<>>)
<1>1. /\ exiting' = exiting /\ stack' = Sources(w, stdin)
      /\ word' = [file |-> w.file, buffer |-> w.buffer, interactive |-> FALSE, c |-> FALSE,
                   sys_rc |-> TRUE, my_rc |-> TRUE]
  BY DEF ChooseSource
<1>2. stack' = d
  BY <1>1 DEF Sources
<1>3. Begun(a, w)
  <2> DEFINE f == Frame("end")
  <2>1. f \in FrameType /\ f.kind = "end" /\ f.pending = <<>>
    BY FrameIs DEF Kind
  <2>. HIDE DEF f
  <2>2. <<f>> \in Seq(FrameType) /\ Len(<<f>>) = 1 /\ <<f>>[1] = f /\ <<f>> # <<>>
    BY <2>1
  <2>. QED  BY <2>1, <2>2 DEF f, Begun, Nested, AllRead, InHandlers, InFile
<1>4. w \in Words
  BY DEF Words
<1>5. Begun(b, w)
  <2>1. a \o <<>> = a
    BY <1>3 DEF Begun, Nested
  <2> HIDE DEF a, w
  <2>2. Begun(a \o <<Frame("interp")>>, w)
    BY <1>3, Begins
  <2>3. Begun(a \o <<Frame("file")>>, w)
    BY <1>3, Begins
  <2>4. ASSUME w.buffer \/ w.file # "name" PROVE Begun(a \o <<Frame("cmdfile")>>, w)
    BY <1>3, <2>4, Begins
  <2>5. w.file \in {"none", "name", "-"}
    BY <1>4 DEF Words
  <2>6. CASE w.interactive
    BY <2>2, <2>6
  <2>7. CASE ~w.interactive /\ w.file = "name"
    BY <2>3, <2>4, <2>7
  <2>8. CASE ~w.interactive /\ w.file = "-"
    BY <2>4, <2>8
  <2>9. CASE ~w.interactive /\ w.file = "none"
    BY <1>3, <2>1, <2>2, <2>4, <2>9
  <2>. QED  BY <2>5, <2>6, <2>7, <2>8, <2>9
<1> HIDE DEF b, w
<1>6. Begun(c, w)
  <2>1. b \o <<>> = b
    BY <1>5 DEF Begun, Nested
  <2>2. Begun(b \o <<Frame("myrc")>>, w)
    BY <1>5, Begins
  <2>. QED  BY <1>5, <2>1, <2>2
<1> HIDE DEF c
<1>7. Begun(d, w)
  <2>1. c \o <<>> = c
    BY <1>6 DEF Begun, Nested
  <2>2. Begun(c \o <<Frame("sysrc")>>, w)
    BY <1>6, Begins
  <2>. QED  BY <1>6, <2>1, <2>2
<1> HIDE DEF d
<1>8. word'.file = w.file /\ word'.buffer = w.buffer
  BY <1>1
<1>. QED  BY <1>2, <1>7, <1>8

LEMMA ChooseKeeps ==
    ASSUME MainInv, NEW first \in {"none", "name", "-"}, NEW stdin \in {"tty", "file"},
           word \in Words, ChooseSource(first, stdin)
    PROVE  MainInv'
<1>1. PICK w : Begun(stack', w) /\ word'.file = w.file /\ word'.buffer = w.buffer
  BY ChooseBegins
<1>2. InFile(stack', word')
  BY <1>1 DEF Begun, InFile
<1>3. exiting' = exiting
  BY DEF ChooseSource
<1>. QED  BY <1>1, <1>2, <1>3 DEF Begun, MainInv, ExitOK

LEMMA NumbersAre ==
    ASSUME NEW text \in Seq(LineRead)
    PROVE  Numbers(text) \in Seq(Nat) /\ Len(Numbers(text)) = Len(text)
<1>1. DOMAIN text = 1..Len(text) /\ Len(text) \in Nat /\ \A k \in 1..Len(text) : text[k] \in LineRead
  OBVIOUS
<1>2. \A k \in 1..Len(text) : text[k].n \in Nat
  BY <1>1 DEF LineRead
<1>3. Numbers(text) = [k \in 1..Len(text) |-> text[k].n]
  BY <1>1 DEF Numbers
<1>. QED  BY <1>1, <1>2, <1>3

MainTyped == word \in Words /\ lines \in LinesType

LEMMA TypedStart == MainInit => MainTyped
BY DEF MainInit, MainTyped, Words, LinesType

LEMMA TypedStep == MainInv /\ MainTyped /\ [MainNext]_mainVars => MainTyped'
<1>. SUFFICES ASSUME MainInv, MainTyped, [MainNext]_mainVars PROVE MainTyped'
  OBVIOUS
<1>1. ASSUME word' = word, lines' = lines PROVE MainTyped'
  BY <1>1 DEF MainTyped
<1>2. ASSUME NEW option \in {"-c", "-f", "-b", "-i", "-n", "-N"}, Option(option) PROVE MainTyped'
  BY <1>2 DEF Option, MainTyped, Words
<1>3. ASSUME NEW first \in {"none", "name", "-"}, NEW stdin \in {"tty", "file"}, ChooseSource(first, stdin)
      PROVE  MainTyped'
  BY <1>3 DEF ChooseSource, MainTyped, Words
<1>4. ASSUME NEW d \in {-1, 0, 1}, Line(d) PROVE MainTyped'
  <2> DEFINE text == Append(Top.pending, [n |-> lines.read + 1, d |-> d])
  <2>1. Running(Inputs) /\ word' = word
    BY <1>4 DEF Line, Inputs
  <2>2. [n |-> lines.read + 1, d |-> d] \in LineRead /\ lines \in LinesType
    BY DEF LineRead, MainTyped, LinesType
  <2>3. text \in Seq(LineRead)
    BY <2>1, <2>2, TopType DEF FrameType
  <2>4. Numbers(text) \in Seq(Nat)
    BY <2>3, NumbersAre
  <2>5. \/ lines' = [lines EXCEPT !.read = lines.read + 1, !.evaluated = Append(@, Numbers(text))]
        \/ lines' = [lines EXCEPT !.read = @ + 1]
    BY <1>4 DEF Line, Evaluate
  <2> DEFINE ns == Numbers(text)
  <2>. HIDE DEF text, ns
  <2>6. lines' = [lines EXCEPT !.read = lines.read + 1, !.evaluated = Append(lines.evaluated, ns)] \/ lines' = [lines EXCEPT !.read = lines.read + 1]
    BY <2>2, <2>5 DEF ns, LinesType
  <2> DEFINE B == Seq(Nat)
  <2>7. ns \in B
    BY <2>4 DEF ns
  <2>8. lines \in [read : Nat, evaluated : Seq(B), dropped : SUBSET Nat]
    BY <2>2 DEF LinesType
  <2>. HIDE DEF B
  <2> DEFINE more == Append(lines.evaluated, ns)
  <2>9. more \in Seq(B)
    BY <2>7, <2>8
  <2>. HIDE DEF more
  <2>10. \/ lines' = [lines EXCEPT !.read = lines.read + 1, !.evaluated = more]
         \/ lines' = [lines EXCEPT !.read = lines.read + 1]
    BY <2>6 DEF more
  <2>11. lines' \in [read : Nat, evaluated : Seq(B), dropped : SUBSET Nat]
    <3>1. lines.read + 1 \in Nat
      BY <2>8
    <3>2. CASE lines' = [lines EXCEPT !.read = lines.read + 1, !.evaluated = more]
      BY <2>8, <2>9, <3>1, <3>2
    <3>3. CASE lines' = [lines EXCEPT !.read = lines.read + 1]
      BY <2>8, <3>1, <3>3
    <3>. QED  BY <2>10, <3>2, <3>3
  <2>. QED  BY <2>1, <2>11 DEF B, MainTyped, LinesType
<1>5. ASSUME FileEnds PROVE MainTyped'
  <2> DEFINE rest == Top.pending
             ns == Numbers(Append(rest, Last(rest)))
  <2>1. Running(Inputs) /\ word' = word /\ lines \in LinesType
    BY <1>5 DEF FileEnds, Inputs, Running, MainTyped
  <2>2. rest \in Seq(LineRead)
    BY <2>1, TopType DEF FrameType
  <2>3. CASE rest = <<>>
    BY <1>1, <1>5, <2>1, <2>3 DEF FileEnds
  <2>4. CASE rest # <<>>
    <3>1. Last(rest) \in LineRead
      <4>. HIDE DEF rest
      <4>1. Len(rest) \in 1..Len(rest)
        BY <2>2, <2>4
      <4>. QED  BY <2>2, <4>1 DEF Last
    <3>2. ns \in Seq(Nat)
      <4>. HIDE DEF rest
      <4>1. Append(rest, Last(rest)) \in Seq(LineRead)
        BY <2>2, <3>1
      <4>. QED  BY <4>1, NumbersAre
    <3>3. lines' = [lines EXCEPT !.evaluated = Append(lines.evaluated, ns)]
      BY <1>5, <2>1, <2>4 DEF FileEnds, LinesType
    <3>. HIDE DEF rest, ns
    <3> DEFINE B == Seq(Nat)
    <3>4. lines \in [read : Nat, evaluated : Seq(B), dropped : SUBSET Nat] /\ ns \in B
      BY <2>1, <3>2 DEF LinesType
    <3>. HIDE DEF B
    <3> DEFINE more == Append(lines.evaluated, ns)
    <3>5. more \in Seq(B)
      BY <3>4
    <3>. HIDE DEF more
    <3>6. lines' = [lines EXCEPT !.evaluated = more]
      BY <3>3 DEF more
    <3>7. lines' \in [read : Nat, evaluated : Seq(B), dropped : SUBSET Nat]
      BY <3>4, <3>5, <3>6
    <3>. QED  BY <2>1, <3>7 DEF B, MainTyped, LinesType
  <2>. QED  BY <2>3, <2>4
<1>6. ASSUME InputEnds PROVE MainTyped'
  <2> DEFINE gone == ToSet(Numbers(Top.pending))
  <2>1. Running(Inputs) /\ word' = word /\ lines \in LinesType
    BY <1>6 DEF InputEnds, Inputs, Running, MainTyped
  <2>2. Numbers(Top.pending) \in Seq(Nat)
    BY <2>1, TopType, NumbersAre DEF FrameType
  <2>3. gone \subseteq Nat
    BY <2>2 DEF ToSet
  <2>4. lines' = [lines EXCEPT !.dropped = lines.dropped \union gone]
    BY <1>6, <2>1 DEF InputEnds, LinesType
  <2>. HIDE DEF gone
  <2>. QED  BY <2>1, <2>3, <2>4 DEF MainTyped, LinesType
<1>. QED  BY <1>1, <1>2, <1>3, <1>4, <1>5, <1>6
          DEF MainNext, mainVars, Expect_Init, Unopened, LeaveHandlers, ExitOnexit, ExitNoexit, ExitNow, Override,
              Interpreter, Finish, End

LEMMA MainStep == MainInv /\ MainTyped /\ [MainNext]_mainVars => MainInv'
<1>. SUFFICES ASSUME MainInv, MainTyped, [MainNext]_mainVars PROVE MainInv'
  OBVIOUS
<1>1. word \in Words /\ lines.read \in Nat
  BY DEF MainTyped, LinesType
<1>2. ASSUME UNCHANGED mainVars PROVE MainInv'
  BY <1>2 DEF mainVars, MainInv, Nested, InHandlers, InFile, ExitOK
<1>3. ASSUME NEW option \in {"-c", "-f", "-b", "-i", "-n", "-N"}, Option(option) PROVE MainInv'
  BY <1>3, OptionKeeps
<1>4. ASSUME NEW first \in {"none", "name", "-"}, NEW stdin \in {"tty", "file"}, ChooseSource(first, stdin)
      PROVE  MainInv'
  BY <1>1, <1>4, ChooseKeeps
<1>5. ASSUME NEW eof \in BOOLEAN, Interpreter(eof) PROVE MainInv'
  BY <1>5, InterpreterKeeps
<1>6. ASSUME NEW code \in Codes, Finish(code) PROVE MainInv'
  BY <1>6, FinishKeeps
<1>7. ASSUME NEW d \in {-1, 0, 1}, Line(d) PROVE MainInv'
  BY <1>1, <1>7, LineKeeps
<1>. QED  BY <1>2, <1>3, <1>4, <1>5, <1>6, <1>7, ExpectInitKeeps, UnopenedKeeps, LeaveHandlersKeeps, ExitOnexitKeeps,
             ExitNoexitKeeps, ExitNowKeeps, OverrideKeeps, FileEndsKeeps, InputEndsKeeps, EndKeeps
          DEF MainNext

LEMMA MainInvariant == MainSpec => [](MainInv /\ MainTyped)
<1>1. MainInit => MainInv /\ MainTyped
  BY InitKeeps, TypedStart
<1>2. MainInv /\ MainTyped /\ [MainNext]_mainVars => (MainInv /\ MainTyped)'
  BY MainStep, TypedStep
<1>. QED  BY <1>1, <1>2, PTL DEF MainSpec

\* However exits nest, the action of exit -onexit and exp_app_exit run once at
\* most, and the process ends with its handlers run and all spawn ids closed, but
\* when the action itself exits.
THEOREM EndsOnceAlways == MainSpec => []EndsOnce
<1>1. MainInv => EndsOnce
  BY DEF MainInv, ExitOK, EndsOnce, Exiting
<1>. QED  BY <1>1, MainInvariant, PTL

\* What else happens leaves no lines behind, and no second main.
Goes(s) == AllRead(s) /\ (s # <<>> => s[1] = stack[1] \/ s[1].kind \in {"end", "exit"})

LEMMA OptionGoes ==
    ASSUME MainInv, NEW option \in {"-c", "-f", "-b", "-i", "-n", "-N"}, Option(option)
    PROVE  stack' = stack \/ Goes(stack')
<1>1. Running({"main"})
  BY DEF Option
<1>2. Len(stack) = 1 /\ stack[1].kind = "main" /\ AllRead(stack) /\ stack # <<>> /\ On(stack)
  BY <1>1, OnlyMain, OnIs DEF Running
<1>3. CASE option = "-c"
  <2> DEFINE f == Frame("-c")
             c == stack \o <<f>>
  <2>1. stack' = c
    BY <1>3 DEF Option, Enter
  <2>2. f \in FrameType /\ f.kind = "-c" /\ f.pending = <<>>
    BY FrameIs DEF Kind, Scripts
  <2>. HIDE DEF f
  <2>3. Fits(stack, f)
    BY <1>2, <2>2 DEF Fits
  <2>4. AllRead(c) /\ c[1] = stack[1]
    BY <1>2, <2>2, <2>3, Enters
  <2>. HIDE DEF c
  <2>. QED  BY <2>1, <2>4 DEF Goes
<1>4. CASE option # "-c"
  BY <1>4 DEF Option
<1>. QED  BY <1>3, <1>4

LEMMA LeaveHandlersGoes == ASSUME MainInv, LeaveHandlers PROVE Goes(stack')
BY BelowIs, InvEmpty DEF LeaveHandlers, Running, Goes

LEMMA EnterHandlersGoes ==
    ASSUME MainInv, NEW frames, frames = <<>> \/ On(frames), Goes(frames),
           NEW kind \in {"handlers", "exit"}, frames = <<>> => kind = "exit",
           EnterHandlers(kind, frames)
    PROVE  Goes(stack')
<1>1. Nested(frames) /\ InHandlers(frames, exiting.expect) /\ InFile(frames, word) /\ AllRead(frames)
  BY InvEmpty DEF On, Goes
<1>2. ExitOK(stack, exiting)
  BY DEF MainInv
<1>3. /\ AllRead(stack')
      /\ frames # <<>> => stack'[1] = frames[1]
      /\ frames = <<>> => stack'[1].kind = "exit"
  BY <1>1, <1>2, EnterNested
<1>. QED  BY <1>3 DEF Goes

LEMMA ExitGoes ==
    ASSUME MainInv, NEW frames, frames = <<>> \/ On(frames), Goes(frames), Exit(frames)
    PROVE  Goes(stack')
<1>1. CASE exiting.registered
  BY <1>1, EnterHandlersGoes DEF Exit, Tcl_Exit
<1>2. CASE ~exiting.registered
  BY <1>2, InvEmpty DEF Exit, Tcl_Exit, Goes
<1>. QED  BY <1>1, <1>2

LEMMA ScriptGoes ==
    ASSUME MainInv, Running(Scripts)
    PROVE  On(stack) /\ Goes(stack) /\ On(Below) /\ Goes(Below)
BY ScriptRuns, BelowIs DEF Goes

LEMMA ExitsGo == ASSUME MainInv, ExitNoexit \/ ExitNow \/ Unopened \/ End PROVE Goes(stack')
<1>1. CASE ExitNoexit
  BY <1>1, ScriptGoes, ScriptRuns, EnterHandlersGoes DEF ExitNoexit
<1>2. CASE ExitNow
  BY <1>2, ScriptGoes, ExitGoes DEF ExitNow
<1>3. CASE Unopened \/ End
  <2>1. Goes(<<>>)
    BY InvEmpty DEF Goes
  <2>. QED  BY <1>3, <2>1, ExitGoes DEF Unopened, End
<1>. QED  BY <1>1, <1>2, <1>3

LEMMA InterpreterGoes ==
    ASSUME MainInv, NEW eof \in BOOLEAN, Interpreter(eof) PROVE Goes(stack')
<1> DEFINE f == [Frame("interp") EXCEPT !.eof = eof]
<1>1. f \in FrameType /\ f.kind = "interp" /\ f.pending = <<>>
  <2>1. Frame("interp") \in FrameType /\ Frame("interp").kind = "interp" /\ Frame("interp").pending = <<>>
    BY FrameIs DEF Kind, Inputs
  <2>. QED  BY <2>1 DEF FrameType
<1>2. stack' = stack \o <<f>>
  BY DEF Interpreter, Enter
<1> HIDE DEF f
<1>3. On(stack) /\ AllRead(stack) /\ stack # <<>>
  BY ScriptRuns DEF Interpreter
<1>4. Fits(stack, f)
  BY <1>1, <1>3 DEF Fits
<1>5. AllRead(stack \o <<f>>) /\ (stack \o <<f>>)[1] = stack[1]
  BY <1>1, <1>3, <1>4, Enters
<1>. QED  BY <1>2, <1>5 DEF Goes

LEMMA FinishGoes ==
    ASSUME MainInv, NEW code \in Codes, Finish(code) PROVE Goes(stack')
<1>1. Running(Scripts)
  BY DEF Finish
<1>2. stack # <<>> /\ Top.kind \notin {"main", "end", "exit"}
  BY <1>1, ScriptRuns
<1>3. On(Below) /\ Goes(Below)
  BY <1>1, ScriptGoes
<1>4. CASE stack' = Below
  BY <1>3, <1>4
<1>5. CASE Exit(Below)
  BY <1>3, <1>5, ExitGoes
<1>6. CASE Top.kind = "command" /\ Owner \in Inputs /\ stack' \in {Below, Front(Below)}
  <2>1. Goes(Front(Below))
    BY <1>2, <1>6, TwoBelow DEF Owner, Goes
  <2>. QED  BY <1>3, <1>6, <2>1
<1>7. CASE Top.kind = "eofcmd" /\ stack' = Front(Below)
  <2>1. stack[Len(stack) - 1].kind = "interp"
    BY <1>2, <1>7, TopIs DEF MainInv, Nested, Top
  <2>2. Goes(Front(Below))
    BY <1>2, <2>1, TwoBelow DEF Inputs, Goes
  <2>. QED  BY <1>7, <2>2
<1>. QED  BY <1>4, <1>5, <1>6, <1>7 DEF Finish, Inputs

LEMMA ChooseGoes ==
    ASSUME MainInv, NEW first \in {"none", "name", "-"}, NEW stdin \in {"tty", "file"},
           word \in Words, ChooseSource(first, stdin)
    PROVE  Goes(stack')
BY ChooseBegins DEF Begun, Goes

(***************************************************************************)
(* Every line counts.                                                      *)
(***************************************************************************)
\* The numbers of the lines that are read and neither evaluated nor dropped.
Held(s) == IF s = <<>> THEN <<>> ELSE Numbers(s[Len(s)].pending)

LEMMA HeldIs ==
    ASSUME NEW s, Nested(s)
    PROVE  /\ Held(s) \in Seq(Nat)
           /\ FlattenSeq([k \in DOMAIN s |-> Numbers(s[k].pending)]) = Held(s)
<1> DEFINE t == [k \in DOMAIN s |-> Numbers(s[k].pending)]
<1>1. s \in Seq(FrameType) /\ DOMAIN s = 1..Len(s) /\ Len(s) \in Nat
  BY DEF Nested
<1>2. \A k \in 1..Len(s) : s[k].pending \in Seq(LineRead)
  <2>1. \A k \in 1..Len(s) : s[k] \in FrameType
    BY <1>1
  <2>. QED  BY <2>1 DEF FrameType
<1>3. \A k \in 1..Len(s) : Numbers(s[k].pending) \in Seq(Nat) /\ Len(Numbers(s[k].pending)) = Len(s[k].pending)
  BY <1>2, NumbersAre
<1> DEFINE B == Seq(Nat)
<1>4. t \in Seq(B) /\ Len(t) = Len(s) /\ \A k \in 1..Len(s) : t[k] = Numbers(s[k].pending)
  <2>1. \A k \in 1..Len(s) : Numbers(s[k].pending) \in B
    BY <1>3
  <2>. HIDE DEF B
  <2>. QED  BY <1>1, <2>1
<1>5. CASE s = <<>>
  <2>1. t = <<>>
    BY <1>5
  <2>. HIDE DEF t
  <2>2. FlattenSeq(<<>>) = <<>>
    BY DEF FlattenSeq
  <2>. QED  BY <1>5, <2>1, <2>2 DEF Held, t
<1>6. CASE s # <<>>
  <2>. HIDE DEF t
  <2>1. Joining!Joins
    BY DEF Joining!Joins, Joined
  <2>2. t # <<>> /\ Len(t) \in 1..Len(s)
    BY <1>1, <1>4, <1>6
  <2>3. \A k \in 1..Len(t) : t[k] # <<>> => k = Len(t)
    <3>1. \A k \in 1..Len(s) : s[k].pending = <<>> => Numbers(s[k].pending) = <<>>
      <4>. TAKE k \in 1..Len(s)
      <4>. HAVE s[k].pending = <<>>
      <4>1. Len(Numbers(s[k].pending)) = 0
        BY <1>3
      <4>. QED  BY <1>3, <4>1
    <3>2. \A k \in 1..Len(s) : s[k].pending # <<>> => k = Len(s)
      BY DEF Nested
    <3>. QED  BY <1>4, <3>1, <3>2
  <2>4. Joining!FlattenSeq(t) = t[Len(t)]
    BY <1>4, <2>1, <2>2, <2>3, Joining!FlattenLast
  <2>5. FlattenSeq(t) = t[Len(t)]
    BY <2>4 DEF FlattenSeq, Joining!FlattenSeq
  <2>6. t[Len(t)] = Numbers(s[Len(s)].pending)
    BY <1>4, <2>2
  <2>7. FlattenSeq(t) = Held(s) /\ Held(s) \in Seq(Nat)
    BY <1>3, <1>4, <1>6, <2>2, <2>5, <2>6 DEF Held
  <2>. QED  BY <2>7 DEF t
<1>. QED  BY <1>5, <1>6

\* Line numbers: those of what was evaluated, of what is held, and the dropped
\* ones, of n in all.
Counted(d, p, gone, n) ==
    /\ d \in Seq(Nat) /\ p \in Seq(Nat) /\ n \in Nat
    /\ ToSet(d) \union ToSet(p) \union gone = 1..n
    /\ ToSet(d) \intersect (ToSet(p) \union gone) = {} /\ ToSet(p) \intersect gone = {}
    /\ \A j, k \in 1..Len(d) : j < k => d[j] < d[k] \/ (k = j + 1 /\ d[j] = d[k])
    /\ \A j, k \in 1..Len(p) : j < k => p[j] < p[k]
    /\ \A j \in 1..Len(d), k \in 1..Len(p) : d[j] < p[k]

LEMMA SetOfEmpty == ToSet(<<>>) = {}
BY DEF ToSet

LEMMA SetOfPlaces ==
    ASSUME NEW S, NEW s \in Seq(S)
    PROVE  ToSet(s) = {s[k] : k \in 1..Len(s)}
<1>1. DOMAIN s = 1..Len(s)
  OBVIOUS
<1>2. ToSet(s) = {s[k] : k \in DOMAIN s}
  BY Zenon DEF ToSet
<1>. QED  BY <1>1, <1>2, Zenon

LEMMA SetOfAppend ==
    ASSUME NEW s \in Seq(Nat), NEW x \in Nat
    PROVE  ToSet(Append(s, x)) = ToSet(s) \union {x}
<1> DEFINE c == Append(s, x)
<1>1. /\ c \in Seq(Nat) /\ Len(c) = Len(s) + 1 /\ Len(s) \in Nat /\ c[Len(s) + 1] = x
      /\ \A k \in 1..Len(s) : c[k] = s[k]
  OBVIOUS
<1>2. ToSet(c) = {c[k] : k \in 1..Len(c)} /\ ToSet(s) = {s[k] : k \in 1..Len(s)}
  <2>. HIDE DEF c
  <2>1. ToSet(c) = {c[k] : k \in 1..Len(c)}
    BY <1>1, SetOfPlaces
  <2>2. ToSet(s) = {s[k] : k \in 1..Len(s)}
    BY SetOfPlaces
  <2>. QED  BY <2>1, <2>2
<1>. HIDE DEF c
<1>3. \A k \in 1..Len(c) : k \in 1..Len(s) \/ k = Len(s) + 1
  BY <1>1
<1>4. \A k \in 1..Len(s) : k \in 1..Len(c)
  BY <1>1
<1>5. Len(s) + 1 \in 1..Len(c)
  BY <1>1
<1>6. ToSet(c) \subseteq ToSet(s) \union {x}
  BY <1>1, <1>2, <1>3
<1>7. ToSet(s) \union {x} \subseteq ToSet(c)
  BY <1>1, <1>2, <1>4, <1>5
<1>. QED  BY <1>6, <1>7 DEF c

LEMMA SetOfJoined ==
    ASSUME NEW s \in Seq(Nat), NEW t \in Seq(Nat)
    PROVE  ToSet(s \o t) = ToSet(s) \union ToSet(t)
<1> DEFINE c == s \o t
<1>1. /\ c \in Seq(Nat) /\ Len(c) = Len(s) + Len(t) /\ Len(s) \in Nat /\ Len(t) \in Nat
      /\ \A k \in 1..Len(s) : c[k] = s[k]
      /\ \A k \in 1..Len(t) : c[Len(s) + k] = t[k]
  <2>1. \A place \in 1..(Len(s) + Len(t)) : c[place] = IF place <= Len(s) THEN s[place] ELSE t[place - Len(s)]
    BY ConcatProperties
  <2>2. c \in Seq(Nat) /\ Len(c) = Len(s) + Len(t) /\ Len(s) \in Nat /\ Len(t) \in Nat
    BY ConcatProperties
  <2>. HIDE DEF c
  <2>3. \A k \in 1..Len(t) : Len(s) + k \in 1..(Len(s) + Len(t)) /\ ~(Len(s) + k <= Len(s)) /\ (Len(s) + k) - Len(s) = k
    BY <2>2
  <2>4. \A k \in 1..Len(s) : k \in 1..(Len(s) + Len(t)) /\ k <= Len(s)
    BY <2>2
  <2>. QED  BY <2>1, <2>2, <2>3, <2>4
<1>2. ToSet(c) = {c[k] : k \in 1..Len(c)} /\ ToSet(s) = {s[k] : k \in 1..Len(s)} /\ ToSet(t) = {t[k] : k \in 1..Len(t)}
  <2>. HIDE DEF c
  <2>1. ToSet(c) = {c[k] : k \in 1..Len(c)}
    BY <1>1, SetOfPlaces
  <2>2. ToSet(s) = {s[k] : k \in 1..Len(s)}
    BY SetOfPlaces
  <2>3. ToSet(t) = {t[k] : k \in 1..Len(t)}
    BY SetOfPlaces
  <2>. QED  BY <2>1, <2>2, <2>3
<1>. HIDE DEF c
<1>3. \A k \in 1..Len(c) : k \in 1..Len(s) \/ (k - Len(s) \in 1..Len(t) /\ k = Len(s) + (k - Len(s)))
  BY <1>1
<1>4. \A k \in 1..Len(s) : k \in 1..Len(c)
  BY <1>1
<1>5. \A k \in 1..Len(t) : Len(s) + k \in 1..Len(c)
  BY <1>1
<1>6. ToSet(c) \subseteq ToSet(s) \union ToSet(t)
  <2>. SUFFICES ASSUME NEW k \in 1..Len(c) PROVE c[k] \in ToSet(s) \union ToSet(t)
    BY <1>2
  <2>1. CASE k \in 1..Len(s)
    BY <1>1, <1>2, <2>1
  <2>2. CASE k - Len(s) \in 1..Len(t) /\ k = Len(s) + (k - Len(s))
    BY <1>1, <1>2, <2>2
  <2>. QED  BY <1>3, <2>1, <2>2
<1>7. ToSet(s) \subseteq ToSet(c)
  BY <1>1, <1>2, <1>4
<1>8. ToSet(t) \subseteq ToSet(c)
  BY <1>1, <1>2, <1>5
<1>. QED  BY <1>6, <1>7, <1>8 DEF c

LEMMA CountRead ==
    ASSUME NEW d, NEW p, NEW gone, NEW n, Counted(d, p, gone, n)
    PROVE  Counted(d, Append(p, n + 1), gone, n + 1)
<1> DEFINE q == Append(p, n + 1)
<1>1. d \in Seq(Nat) /\ p \in Seq(Nat) /\ n \in Nat /\ n + 1 \in Nat
  BY DEF Counted
<1>2. /\ q \in Seq(Nat) /\ Len(q) = Len(p) + 1 /\ Len(p) \in Nat /\ q[Len(p) + 1] = n + 1
      /\ \A k \in 1..Len(p) : q[k] = p[k]
  BY <1>1
<1>3. ToSet(q) = ToSet(p) \union {n + 1}
  BY <1>1, SetOfAppend
<1>. HIDE DEF q
<1>4. \A k \in 1..Len(q) : k \in 1..Len(p) \/ k = Len(p) + 1
  BY <1>2
<1>5. /\ \A j \in 1..Len(d) : d[j] \in ToSet(d)
      /\ \A j \in 1..Len(p) : p[j] \in ToSet(p)
  BY <1>1 DEF ToSet
<1>6. \A x \in ToSet(d) \union ToSet(p) \union gone : x \in Nat /\ x < n + 1
  BY <1>1 DEF Counted
<1>7. ToSet(d) \union ToSet(q) \union gone = 1..(n + 1)
  <2>1. 1..(n + 1) = 1..n \union {n + 1}
    BY <1>1
  <2>. QED  BY <1>3, <2>1 DEF Counted
<1>8. n + 1 \notin ToSet(d) /\ n + 1 \notin gone
  BY <1>1, <1>6
<1>9. ToSet(d) \intersect (ToSet(q) \union gone) = {} /\ ToSet(q) \intersect gone = {}
  BY <1>3, <1>8 DEF Counted
<1>10. \A j, k \in 1..Len(q) : j < k => q[j] < q[k]
  <2>. TAKE j, k \in 1..Len(q)
  <2>. HAVE j < k
  <2>1. j \in 1..Len(p) /\ q[j] = p[j]
    BY <1>2
  <2>2. CASE k \in 1..Len(p)
    BY <1>2, <2>1, <2>2 DEF Counted
  <2>3. CASE k = Len(p) + 1
    BY <1>2, <1>5, <1>6, <2>1, <2>3
  <2>. QED  BY <1>4, <2>2, <2>3
<1>11. \A j \in 1..Len(d), k \in 1..Len(q) : d[j] < q[k]
  <2>. TAKE j \in 1..Len(d), k \in 1..Len(q)
  <2>1. CASE k \in 1..Len(p)
    BY <1>2, <2>1 DEF Counted
  <2>2. CASE k = Len(p) + 1
    BY <1>2, <1>5, <1>6, <2>2
  <2>. QED  BY <1>4, <2>1, <2>2
<1>12. \A j, k \in 1..Len(d) : j < k => d[j] < d[k] \/ (k = j + 1 /\ d[j] = d[k])
  BY DEF Counted
<1>. QED  BY <1>1, <1>2, <1>7, <1>9, <1>10, <1>11, <1>12 DEF Counted, q

LEMMA BehindIs ==
    ASSUME NEW m \in Nat, NEW n \in Nat, NEW j \in 1..(m + n), NEW k \in 1..(m + n),
           ~(j <= m), ~(k <= m), j < k
    PROVE  j - m \in 1..n /\ k - m \in 1..n /\ j - m < k - m
OBVIOUS

\* Lines in their order, the last one perhaps twice, come after those before them.
LEMMA CountJoined ==
    ASSUME NEW d, NEW p, NEW gone, NEW n, Counted(d, p, gone, n),
           NEW q \in Seq(Nat), ToSet(q) = ToSet(p),
           \A j, k \in 1..Len(q) : j < k => q[j] < q[k] \/ (k = j + 1 /\ q[j] = q[k])
    PROVE  Counted(d \o q, <<>>, gone, n)
<1> DEFINE c == d \o q
<1>1. d \in Seq(Nat) /\ p \in Seq(Nat) /\ n \in Nat
  BY DEF Counted
<1>2. /\ c \in Seq(Nat) /\ Len(c) = Len(d) + Len(q) /\ Len(d) \in Nat /\ Len(q) \in Nat
      /\ \A place \in 1..(Len(d) + Len(q)) : c[place] = IF place <= Len(d) THEN d[place] ELSE q[place - Len(d)]
  BY <1>1, ConcatProperties
<1>3. ToSet(c) = ToSet(d) \union ToSet(p)
  BY <1>1, SetOfJoined
<1>. HIDE DEF c
<1>4. <<>> \in Seq(Nat) /\ Len(<<>>) = 0
  OBVIOUS
<1>5. \A j \in 1..Len(d), k \in 1..Len(q) : d[j] < q[k]
  <2>. TAKE j \in 1..Len(d), k \in 1..Len(q)
  <2>1. q[k] \in ToSet(q)
    <3>1. DOMAIN q = 1..Len(q)
      BY ONLY q \in Seq(Nat)
    <3>. QED  BY ONLY <3>1, k \in 1..Len(q) DEF ToSet
  <2>2. \A x \in ToSet(p) : \E place \in 1..Len(p) : x = p[place]
    BY <1>1 DEF ToSet
  <2>3. PICK place \in 1..Len(p) : q[k] = p[place]
    BY <2>1, <2>2
  <2>. QED  BY <2>3 DEF Counted
<1>6. \A j, k \in 1..Len(c) : j < k => c[j] < c[k] \/ (k = j + 1 /\ c[j] = c[k])
  <2>. TAKE j, k \in 1..Len(c)
  <2>. HAVE j < k
  <2>1. CASE k <= Len(d)
    <3>1. j \in 1..Len(d) /\ k \in 1..Len(d) /\ c[j] = d[j] /\ c[k] = d[k]
      BY <1>2, <2>1
    <3>. QED  BY <3>1 DEF Counted
  <2>2. CASE j <= Len(d) /\ ~(k <= Len(d))
    <3>1. j \in 1..Len(d) /\ k - Len(d) \in 1..Len(q) /\ c[j] = d[j] /\ c[k] = q[k - Len(d)]
      BY <1>2, <2>2
    <3>. QED  BY <1>5, <3>1
  <2>3. CASE ~(j <= Len(d)) /\ ~(k <= Len(d))
    <3> DEFINE x == j - Len(d)
               y == k - Len(d)
    <3>1. x \in 1..Len(q) /\ y \in 1..Len(q) /\ x < y
      <4>1. /\ Len(d) \in Nat /\ Len(q) \in Nat
            /\ j \in 1..(Len(d) + Len(q)) /\ k \in 1..(Len(d) + Len(q))
        BY ONLY <1>2, j \in 1..Len(c), k \in 1..Len(c)
      <4>. QED  BY ONLY <2>3, <4>1, j < k, BehindIs
    <3>2. y = x + 1 => k = j + 1
      BY ONLY <1>2, <2>3, j \in 1..Len(c), k \in 1..Len(c)
    <3>3. c[j] = q[x]
      BY ONLY <1>2, <2>3, j \in 1..Len(c)
    <3>4. c[k] = q[y]
      BY ONLY <1>2, <2>3, k \in 1..Len(c)
    <3>. HIDE DEF x, y
    <3>5. q[x] < q[y] \/ (y = x + 1 /\ q[x] = q[y])
      BY <3>1
    <3>. QED  BY ONLY <3>2, <3>3, <3>4, <3>5
  <2>. QED  BY <1>2, <2>1, <2>2, <2>3
<1>7. ToSet(c) \union ToSet(<<>>) \union gone = 1..n
  BY <1>3, SetOfEmpty DEF Counted
<1>8. ToSet(c) \intersect (ToSet(<<>>) \union gone) = {} /\ ToSet(<<>>) \intersect gone = {}
  BY <1>3, SetOfEmpty DEF Counted
<1>9. /\ \A j, k \in 1..Len(<<>>) : j < k => <<>>[j] < <<>>[k]
      /\ \A j \in 1..Len(c), k \in 1..Len(<<>>) : c[j] < <<>>[k]
  BY ONLY <1>4
<1>10. Counted(c, <<>>, gone, n)
  BY ONLY <1>1, <1>2, <1>4, <1>6, <1>7, <1>8, <1>9 DEF Counted
<1>. QED  BY ONLY <1>10 DEF c

LEMMA CountEvaluated ==
    ASSUME NEW d, NEW p, NEW gone, NEW n, Counted(d, p, gone, n)
    PROVE  Counted(d \o p, <<>>, gone, n)
<1>1. p \in Seq(Nat) /\ \A j, k \in 1..Len(p) : j < k => p[j] < p[k]
  BY DEF Counted
<1>. QED  BY <1>1, CountJoined

LEMMA CountTwice ==
    ASSUME NEW d, NEW p, NEW gone, NEW n, Counted(d, p, gone, n), p # <<>>
    PROVE  Counted(d \o Append(p, p[Len(p)]), <<>>, gone, n)
<1>1. p \in Seq(Nat) /\ \A j, k \in 1..Len(p) : j < k => p[j] < p[k]
  BY DEF Counted
<1>2. Len(p) \in 1..Len(p) /\ Len(p) \in Nat
  BY <1>1
<1> DEFINE x == p[Len(p)]
           q == Append(p, x)
<1>3. x \in Nat /\ x \in ToSet(p)
  BY <1>1, <1>2 DEF ToSet
<1>. HIDE DEF x
<1>4. /\ q \in Seq(Nat) /\ Len(q) = Len(p) + 1 /\ q[Len(p) + 1] = x
      /\ \A k \in 1..Len(p) : q[k] = p[k]
  BY <1>1, <1>3
<1>5. ToSet(q) = ToSet(p)
  <2>1. ToSet(q) = ToSet(p) \union {x}
    BY <1>1, <1>3, SetOfAppend
  <2>. HIDE DEF q
  <2>. QED  BY <1>3, <2>1
<1>. HIDE DEF q
<1>6. \A j, k \in 1..Len(q) : j < k => q[j] < q[k] \/ (k = j + 1 /\ q[j] = q[k])
  <2>. TAKE j, k \in 1..Len(q)
  <2>. HAVE j < k
  <2>1. j \in 1..Len(p) /\ q[j] = p[j]
    BY <1>2, <1>4
  <2>2. CASE k \in 1..Len(p)
    BY <1>1, <1>4, <2>1, <2>2
  <2>3. CASE k = Len(p) + 1 /\ j = Len(p)
    BY <1>4, <2>1, <2>3 DEF x
  <2>4. CASE k = Len(p) + 1 /\ j # Len(p)
    <3>1. p[j] < p[Len(p)]
      BY <1>1, <1>2, <2>1, <2>4
    <3>. QED  BY <1>4, <2>1, <2>4, <3>1 DEF x
  <2>. QED  BY <1>2, <1>4, <2>2, <2>3, <2>4
<1>. QED  BY <1>4, <1>5, <1>6, CountJoined DEF q, x

LEMMA CountDropped ==
    ASSUME NEW d, NEW p, NEW gone, NEW n, Counted(d, p, gone, n)
    PROVE  Counted(d, <<>>, gone \union ToSet(p), n)
<1>1. <<>> \in Seq(Nat) /\ Len(<<>>) = 0
  OBVIOUS
<1>. QED  BY <1>1, SetOfEmpty DEF Counted

LEMMA CountNone == Counted(<<>>, <<>>, {}, 0)
<1>1. <<>> \in Seq(Nat) /\ Len(<<>>) = 0
  OBVIOUS
<1>. QED  BY <1>1, SetOfEmpty DEF Counted

LEMMA JoinedMore ==
    ASSUME NEW e \in Seq(Seq(Nat)), NEW x \in Seq(Nat)
    PROVE  FlattenSeq(Append(e, x)) = FlattenSeq(e) \o x
<1>1. Joining!Joins
  BY DEF Joining!Joins, Joined
<1>2. Joining!FlattenSeq(Append(e, x)) = Joining!FlattenSeq(e) \o x
  BY <1>1, Joining!FlattenAppend
<1>3. \A t : Joining!FlattenSeq(t) = FlattenSeq(t)
  BY DEF FlattenSeq, Joining!FlattenSeq
<1>. QED  BY <1>2, <1>3

LEMMA NumbersMore ==
    ASSUME NEW text \in Seq(LineRead), NEW l \in LineRead
    PROVE  Numbers(Append(text, l)) = Append(Numbers(text), l.n)
<1> DEFINE c == Append(text, l)
           a == Numbers(c)
           b == Append(Numbers(text), l.n)
<1>1. /\ c \in Seq(LineRead) /\ Len(c) = Len(text) + 1 /\ Len(text) \in Nat /\ c[Len(text) + 1] = l
      /\ \A k \in 1..Len(text) : c[k] = text[k]
  OBVIOUS
<1>. HIDE DEF c
<1>2. a \in Seq(Nat) /\ Len(a) = Len(text) + 1 /\ \A k \in 1..(Len(text) + 1) : a[k] = c[k].n
  <2>1. a \in Seq(Nat) /\ Len(a) = Len(c)
    BY <1>1, NumbersAre
  <2>2. \A k \in DOMAIN c : a[k] = c[k].n
    BY DEF Numbers
  <2>3. DOMAIN c = 1..(Len(text) + 1)
    BY <1>1
  <2>. QED  BY <1>1, <2>1, <2>2, <2>3
<1>3. /\ Numbers(text) \in Seq(Nat) /\ Len(Numbers(text)) = Len(text)
      /\ \A k \in 1..Len(text) : Numbers(text)[k] = text[k].n
  <2>1. \A k \in DOMAIN text : Numbers(text)[k] = text[k].n
    BY DEF Numbers
  <2>. QED  BY <2>1, NumbersAre
<1> DEFINE d == Numbers(text)
<1>. HIDE DEF a, d
<1>4. l.n \in Nat
  BY DEF LineRead
<1>5. /\ b \in Seq(Nat) /\ Len(b) = Len(text) + 1 /\ b[Len(text) + 1] = l.n
      /\ \A k \in 1..Len(text) : b[k] = d[k]
  BY <1>3, <1>4 DEF d
<1>. HIDE DEF b
<1>6. \A k \in 1..(Len(text) + 1) : a[k] = b[k]
  <2>. TAKE k \in 1..(Len(text) + 1)
  <2>1. CASE k \in 1..Len(text)
    BY <1>1, <1>2, <1>3, <1>5, <2>1 DEF d
  <2>2. CASE k = Len(text) + 1
    BY <1>1, <1>2, <1>5, <2>2
  <2>. QED  BY <1>1, <2>1, <2>2
<1>7. a = b
  BY <1>1, <1>2, <1>5, <1>6, SeqEqual
<1>. QED  BY <1>7 DEF a, b, c

Doubled(text) == Len(text) > 1 /\ text[Len(text)] = text[Len(text) - 1]
InParts(s, w) == (w.buffer \/ w.file # "name") /\ (s # <<>> => s[1].kind # "main")

LinesCounted ==
    /\ Counted(FlattenSeq(lines.evaluated), Held(stack), lines.dropped, lines.read)
    /\ \A c \in DOMAIN lines.evaluated : Doubled(lines.evaluated[c]) => InParts(stack, word)

LEMMA NumbersNone == Numbers(<<>>) = <<>>
<1>1. <<>> \in Seq(LineRead) /\ Len(<<>>) = 0
  OBVIOUS
<1>2. Numbers(<<>>) \in Seq(Nat) /\ Len(Numbers(<<>>)) = 0
  BY <1>1, NumbersAre
<1>. QED  BY <1>2

LEMMA CountStarts == MainInit => LinesCounted
<1>. SUFFICES ASSUME MainInit PROVE LinesCounted
  OBVIOUS
<1>1. lines.evaluated = <<>> /\ lines.dropped = {} /\ lines.read = 0 /\ stack = <<Frame("main")>>
  BY DEF MainInit
<1>2. FlattenSeq(<<>>) = <<>>
  BY DEF FlattenSeq
<1>3. Held(stack) = <<>>
  <2>1. Len(stack) = 1 /\ stack # <<>> /\ stack[1].pending = <<>>
    BY <1>1 DEF Frame
  <2>2. Held(stack) = Numbers(<<>>)
    BY <2>1 DEF Held
  <2>. QED  BY <2>2, NumbersNone
<1>. QED  BY <1>1, <1>2, <1>3, CountNone DEF LinesCounted

LEMMA HeldRead == ASSUME NEW s, Nested(s), AllRead(s) PROVE Held(s) = <<>>
<1>1. CASE s = <<>>
  BY <1>1 DEF Held
<1>2. CASE s # <<>>
  <2>1. s[Len(s)].pending = <<>>
    BY <1>2, TopIs DEF AllRead
  <2>. QED  BY <1>2, <2>1, NumbersNone DEF Held
<1>. QED  BY <1>1, <1>2

\* Where no line is read, none is lost.
LEMMA CountGoes ==
    ASSUME MainInv, MainInv', LinesCounted, Goes(stack'), AllRead(stack), lines' = lines,
           stack # <<>>, word' = word \/ stack[1].kind = "main"
    PROVE  LinesCounted'
<1>1. Held(stack) = <<>> /\ Held(stack') = <<>>
  BY HeldRead DEF MainInv, Goes
<1>2. InParts(stack, word) => InParts(stack', word')
  BY DEF Goes, InParts
<1>. QED  BY <1>1, <1>2 DEF LinesCounted

\* The steps that leave the stack alone.
LEMMA CountSame ==
    ASSUME MainInv, LinesCounted, stack' = stack, lines' = lines,
           word' = word \/ (stack # <<>> /\ stack[1].kind = "main")
    PROVE  LinesCounted'
BY DEF LinesCounted, InParts, Held

LEMMA TopRead ==
    ASSUME MainInv, NEW kinds, Running(kinds), kinds \intersect Inputs = {}
    PROVE  AllRead(stack) /\ stack # <<>>
BY TopIs DEF Running, MainInv, Top

LEMMA CountOthers ==
    ASSUME MainInv, MainInv', word \in Words, LinesCounted,
           \/ Expect_Init
           \/ \E option \in {"-c", "-f", "-b", "-i", "-n", "-N"} : Option(option)
           \/ \E first \in {"none", "name", "-"}, stdin \in {"tty", "file"} : ChooseSource(first, stdin)
           \/ Unopened
           \/ LeaveHandlers
           \/ ExitOnexit
           \/ ExitNoexit
           \/ ExitNow
           \/ Override
           \/ \E eof \in BOOLEAN : Interpreter(eof)
           \/ \E code \in Codes : Finish(code)
           \/ End
    PROVE  LinesCounted'
<1>1. ASSUME Expect_Init \/ ExitOnexit \/ Override PROVE LinesCounted'
  BY <1>1, CountSame DEF Expect_Init, ExitOnexit, Override
<1>2. ASSUME NEW option \in {"-c", "-f", "-b", "-i", "-n", "-N"}, Option(option) PROVE LinesCounted'
  <2>1. Running({"main"}) /\ lines' = lines
    BY <1>2 DEF Option
  <2>2. stack[1].kind = "main" /\ AllRead(stack) /\ stack # <<>>
    BY <2>1, OnlyMain DEF Running
  <2>3. stack' = stack \/ Goes(stack')
    BY <1>2, OptionGoes
  <2>. QED  BY <2>1, <2>2, <2>3, CountGoes, CountSame
<1>3. ASSUME NEW first \in {"none", "name", "-"}, NEW stdin \in {"tty", "file"}, ChooseSource(first, stdin)
      PROVE  LinesCounted'
  <2>1. Running({"main"}) /\ lines' = lines
    BY <1>3 DEF ChooseSource
  <2>2. stack[1].kind = "main" /\ AllRead(stack) /\ stack # <<>>
    BY <2>1, OnlyMain DEF Running
  <2>. QED  BY <1>3, <2>1, <2>2, ChooseGoes, CountGoes
<1>4. ASSUME LeaveHandlers PROVE LinesCounted'
  <2>1. Running({"handlers", "exit"}) /\ lines' = lines /\ word' = word
    BY <1>4 DEF LeaveHandlers
  <2>. QED  BY <1>4, <2>1, TopRead, LeaveHandlersGoes, CountGoes DEF Inputs
<1>5. ASSUME ExitNoexit \/ ExitNow \/ Unopened \/ End PROVE LinesCounted'
  <2>1. (Running(Scripts) \/ Running({"end"}) \/ Running({"main"})) /\ lines' = lines /\ word' = word
    BY <1>5 DEF ExitNoexit, ExitNow, Unopened, End
  <2>2. AllRead(stack) /\ stack # <<>>
    BY <2>1, TopRead DEF Inputs, Scripts
  <2>. QED  BY <1>5, <2>1, <2>2, ExitsGo, CountGoes
<1>6. ASSUME NEW eof \in BOOLEAN, Interpreter(eof) PROVE LinesCounted'
  <2>1. Running(Scripts) /\ lines' = lines /\ word' = word
    BY <1>6 DEF Interpreter
  <2>. QED  BY <1>6, <2>1, ScriptRuns, InterpreterGoes, CountGoes
<1>7. ASSUME NEW code \in Codes, Finish(code) PROVE LinesCounted'
  <2>1. Running(Scripts) /\ lines' = lines /\ word' = word
    BY <1>7 DEF Finish
  <2>. QED  BY <1>7, <2>1, ScriptRuns, FinishGoes, CountGoes
<1>. QED  BY <1>1, <1>2, <1>3, <1>4, <1>5, <1>6, <1>7

LEMMA HeldTop ==
    ASSUME MainInv, Running(Inputs)
    PROVE  Held(stack) = Numbers(Top.pending) /\ Top.pending \in Seq(LineRead)
BY TopType DEF Held, Running, Top, FrameType

LEMMA CountLine ==
    ASSUME MainInv, MainTyped, LinesCounted, NEW d \in {-1, 0, 1}, Line(d)
    PROVE  LinesCounted'
<1> DEFINE l == [n |-> lines.read + 1, d |-> d]
           text == Append(Top.pending, l)
           g == [Top EXCEPT !.pending = <<>>]
           f == [Top EXCEPT !.pending = text]
           p == Numbers(Top.pending)
           done == FlattenSeq(lines.evaluated)
<1>1. Running(Inputs) /\ word' = word
  BY DEF Line, Inputs
<1>2. l \in LineRead /\ l.n = lines.read + 1 /\ lines \in LinesType
  BY DEF LineRead, MainTyped, LinesType
<1>3. Held(stack) = p /\ Top.pending \in Seq(LineRead)
  BY <1>1, HeldTop
<1>4. text \in Seq(LineRead) /\ Numbers(text) = Append(p, lines.read + 1)
  <2>. HIDE DEF l
  <2>. QED  BY <1>2, <1>3, NumbersMore
<1>5. Counted(done, Append(p, lines.read + 1), lines.dropped, lines.read + 1)
  BY <1>3, CountRead DEF LinesCounted
<1>6. InParts(stack, word) => InParts(stack', word')
  <2>. SUFFICES stack # <<>> /\ (stack' # <<>> => stack'[1] = stack[1])
    BY <1>1 DEF InParts, Running
  <2>1. f \in FrameType /\ f.kind = Top.kind /\ g \in FrameType /\ g.kind = Top.kind /\ g.pending = <<>>
    <3>1. <<>> \in Seq(LineRead)
      OBVIOUS
    <3>. HIDE DEF text
    <3>. QED  BY <1>1, <1>4, <3>1, TopType DEF FrameType
  <2>2. stack' = Below \o <<g, Frame("command")>> \/ stack' = Below \o <<f>>
    BY DEF Line, Evaluate
  <2>. HIDE DEF f, g
  <2>3. ASSUME stack' = Below \o <<f>> PROVE stack'[1] = stack[1]
    BY <1>1, <2>1, <2>3, TopAnew
  <2>4. ASSUME stack' = Below \o <<g, Frame("command")>> PROVE stack'[1] = stack[1]
    BY <1>1, <2>1, <2>4, TopAndMore
  <2>. QED  BY <1>1, <2>2, <2>3, <2>4 DEF Running
<1>7. CASE CommandComplete(text)
  <2> DEFINE ns == Numbers(text)
  <2>1. stack' = Below \o <<g, Frame("command")>> /\ lines' = [lines EXCEPT !.read = lines.read + 1, !.evaluated = Append(@, ns)]
    BY <1>7 DEF Line, Evaluate
  <2>2. lines'.read = lines.read + 1 /\ lines'.dropped = lines.dropped /\ lines'.evaluated = Append(lines.evaluated, ns)
    <3>. HIDE DEF ns
    <3>. QED  BY <1>2, <2>1 DEF LinesType
  <2>3. Held(stack') = <<>>
    <3>1. g \in FrameType /\ g.kind = Top.kind /\ g.pending = <<>>
      <4>1. <<>> \in Seq(LineRead)
        OBVIOUS
      <4>. QED  BY <1>1, <4>1, TopType DEF FrameType
    <3>. HIDE DEF g
    <3>2. On(stack') /\ AllRead(stack')
      BY <1>1, <2>1, <3>1, TopAndMore
    <3>. QED  BY <3>2, HeldRead DEF On
  <2>4. lines.evaluated \in Seq(Seq(Nat)) /\ ns \in Seq(Nat)
    BY <1>2, <1>4, NumbersAre DEF LinesType
  <2>5. FlattenSeq(lines'.evaluated) = done \o ns
    <3>. HIDE DEF ns
    <3>. QED  BY <2>2, <2>4, JoinedMore
  <2>6. Counted(done \o ns, <<>>, lines.dropped, lines.read + 1)
    BY <1>4, <1>5, CountEvaluated
  <2>7. ~Doubled(ns)
    <3>1. ns \in Seq(Nat) /\ \A j, k \in 1..Len(ns) : j < k => ns[j] < ns[k]
      BY <1>4, <1>5 DEF Counted
    <3>. HIDE DEF ns
    <3>2. ASSUME Len(ns) > 1 PROVE ns[Len(ns) - 1] < ns[Len(ns)] /\ ns[Len(ns)] \in Nat /\ ns[Len(ns) - 1] \in Nat
      <4>1. Len(ns) \in 1..Len(ns) /\ Len(ns) - 1 \in 1..Len(ns) /\ Len(ns) - 1 < Len(ns)
        BY ONLY <3>1, <3>2
      <4>2. \A j \in 1..Len(ns) : ns[j] \in Nat
        BY ONLY <3>1
      <4>. QED  BY ONLY <3>1, <4>1, <4>2
    <3>. QED  BY <3>2 DEF Doubled
  <2>8. \A c \in DOMAIN lines'.evaluated : Doubled(lines'.evaluated[c]) => InParts(stack', word')
    <3> DEFINE B == Seq(Nat)
               e == lines.evaluated
    <3>1. e \in Seq(B) /\ ns \in B
      BY <2>4
    <3>. HIDE DEF B, ns, e
    <3>2. /\ DOMAIN Append(e, ns) = 1..(Len(e) + 1) /\ Len(e) \in Nat /\ DOMAIN e = 1..Len(e)
          /\ Append(e, ns)[Len(e) + 1] = ns
          /\ \A k \in 1..Len(e) : Append(e, ns)[k] = e[k]
      BY <3>1, AppendProperties
    <3>3. \A c \in DOMAIN e : Doubled(e[c]) => InParts(stack, word)
      BY DEF LinesCounted, e
    <3>4. lines'.evaluated = Append(e, ns)
      BY <2>2 DEF e
    <3>5. \A c \in 1..(Len(e) + 1) : c \in 1..Len(e) \/ c = Len(e) + 1
      BY <3>2
    <3>. QED  BY <1>6, <2>7, <3>2, <3>3, <3>4, <3>5
  <2>. HIDE DEF ns
  <2>. QED  BY <2>2, <2>3, <2>5, <2>6, <2>8 DEF LinesCounted
<1>8. CASE ~CommandComplete(text)
  <2>1. stack' = Below \o <<f>> /\ lines' = [lines EXCEPT !.read = lines.read + 1]
    BY <1>2, <1>8 DEF Line, LinesType
  <2>2. lines'.read = lines.read + 1 /\ lines'.dropped = lines.dropped /\ lines'.evaluated = lines.evaluated
    BY <1>2, <2>1 DEF LinesType
  <2>3. Held(stack') = Numbers(text)
    <3>1. f \in FrameType /\ f.kind = Top.kind /\ f.pending = text
      <4>. HIDE DEF text
      <4>. QED  BY <1>1, <1>4, TopType DEF FrameType
    <3>. HIDE DEF f
    <3>2. Len(stack') = Len(stack) /\ stack'[Len(stack)] = f /\ On(stack')
      BY <1>1, <2>1, <3>1, TopAnew
    <3>. QED  BY <3>1, <3>2 DEF Held, On
  <2>. QED  BY <1>4, <1>5, <1>6, <2>2, <2>3 DEF LinesCounted
<1>. QED  BY <1>7, <1>8

LEMMA CountFileEnds == ASSUME MainInv, MainTyped, LinesCounted, FileEnds PROVE LinesCounted'
<1> DEFINE rest == Top.pending
           g == [Top EXCEPT !.pending = <<>>, !.eof = TRUE]
           p == Numbers(rest)
           ns == Numbers(Append(rest, Last(rest)))
           done == FlattenSeq(lines.evaluated)
<1>1. Running(Inputs) /\ word' = word /\ Top.kind = "cmdfile" /\ stack # <<>>
  BY DEF FileEnds, Inputs, Running
<1>2. lines \in LinesType
  BY DEF MainTyped
<1>3. Held(stack) = p /\ rest \in Seq(LineRead) /\ p \in Seq(Nat) /\ Len(p) = Len(rest)
  BY <1>1, HeldTop, NumbersAre
<1>4. Counted(done, p, lines.dropped, lines.read)
  BY <1>3 DEF LinesCounted
<1>5. On(Below) /\ AllRead(Below) /\ Below[1] = stack[1]
  BY <1>1, BelowIs
<1>6. CASE rest = <<>>
  <2>1. stack' = Below /\ lines' = lines
    BY <1>6 DEF FileEnds
  <2>2. Held(stack') = <<>>
    BY <1>5, <2>1, HeldRead DEF On
  <2>3. p = <<>>
    BY <1>6, NumbersNone
  <2>. QED  BY <1>1, <1>3, <1>5, <2>1, <2>2, <2>3 DEF LinesCounted, InParts
<1>7. CASE rest # <<>>
  <2>1. stack' = Below \o <<g, Frame("command")>> /\ lines' = [lines EXCEPT !.evaluated = Append(@, ns)]
    BY <1>7 DEF FileEnds
  <2>2. lines'.read = lines.read /\ lines'.dropped = lines.dropped /\ lines'.evaluated = Append(lines.evaluated, ns)
    <3>. HIDE DEF ns
    <3>. QED  BY <1>2, <2>1 DEF LinesType
  <2>3. Held(stack') = <<>> /\ stack'[1] = stack[1]
    <3>1. g \in FrameType /\ g.kind = Top.kind /\ g.pending = <<>>
      <4>1. <<>> \in Seq(LineRead)
        OBVIOUS
      <4>. QED  BY <1>1, <4>1, TopType DEF FrameType
    <3>. HIDE DEF g
    <3>2. On(stack') /\ AllRead(stack') /\ stack'[1] = stack[1]
      BY <1>1, <2>1, <3>1, TopAndMore
    <3>. QED  BY <3>2, HeldRead DEF On
  <2>4. ns = Append(p, p[Len(p)]) /\ p # <<>> /\ ns \in Seq(Nat)
    <3>1. Len(rest) \in 1..Len(rest) /\ Last(rest) = rest[Len(rest)] /\ Last(rest) \in LineRead
      <4>. HIDE DEF rest
      <4>1. Len(rest) \in 1..Len(rest)
        BY <1>3, <1>7
      <4>. QED  BY <1>3, <4>1 DEF Last
    <3>2. p[Len(p)] = Last(rest).n
      BY <1>3, <3>1 DEF Numbers
    <3>3. ns = Append(p, Last(rest).n)
      BY <1>3, <3>1, NumbersMore
    <3>4. p # <<>>
      BY <1>3, <3>1
    <3>5. Last(rest).n \in Nat
      BY <3>1 DEF LineRead
    <3>. HIDE DEF ns, p, rest
    <3>. QED  BY <1>3, <3>2, <3>3, <3>4, <3>5
  <2>5. lines.evaluated \in Seq(Seq(Nat))
    BY <1>2 DEF LinesType
  <2>6. FlattenSeq(lines'.evaluated) = done \o ns
    <3>. HIDE DEF ns
    <3>. QED  BY <2>2, <2>4, <2>5, JoinedMore
  <2>7. Counted(done \o ns, <<>>, lines.dropped, lines.read)
    <3>. HIDE DEF ns, p
    <3>. QED  BY <1>4, <2>4, CountTwice
  <2>8. InParts(stack, word) /\ InParts(stack', word')
    <3>1. stack[Len(stack)].kind = "cmdfile" /\ Len(stack) \in 1..Len(stack)
      BY <1>1, TopIs DEF MainInv, Top
    <3>2. stack[1].kind # "main" /\ (word.buffer \/ word.file # "name")
      BY <3>1 DEF MainInv, InFile
    <3>. QED  BY <1>1, <2>3, <3>2 DEF InParts
  <2>9. \A c \in DOMAIN lines'.evaluated : Doubled(lines'.evaluated[c]) => InParts(stack', word')
    BY <2>8
  <2>. HIDE DEF ns
  <2>. QED  BY <2>2, <2>3, <2>6, <2>7, <2>9 DEF LinesCounted
<1>. QED  BY <1>6, <1>7

LEMMA CountInputEnds == ASSUME MainInv, MainTyped, LinesCounted, InputEnds PROVE LinesCounted'
<1> DEFINE p == Numbers(Top.pending)
           g == [Top EXCEPT !.pending = <<>>]
<1>1. Running(Inputs) /\ word' = word /\ Top.kind = "interp" /\ stack # <<>>
  BY DEF InputEnds, Inputs, Running
<1>2. lines \in LinesType
  BY DEF MainTyped
<1>3. Held(stack) = p
  BY <1>1, HeldTop
<1>4. lines' = [lines EXCEPT !.dropped = lines.dropped \union ToSet(p)]
  BY <1>2 DEF InputEnds, LinesType
<1>5. lines'.read = lines.read /\ lines'.dropped = lines.dropped \union ToSet(p) /\ lines'.evaluated = lines.evaluated
  <2>. HIDE DEF p
  <2>. QED  BY <1>2, <1>4 DEF LinesType
<1>6. stack' = Below \/ stack' = Below \o <<g, Frame("eofcmd")>>
  BY DEF InputEnds
<1>7. On(Below) /\ AllRead(Below) /\ Below[1] = stack[1]
  BY <1>1, BelowIs
<1>8. g \in FrameType /\ g.kind = Top.kind /\ g.pending = <<>>
  <2>1. <<>> \in Seq(LineRead)
    OBVIOUS
  <2>. QED  BY <1>1, <2>1, TopType DEF FrameType
<1>. HIDE DEF g
<1>9. ASSUME stack' = Below \o <<g, Frame("eofcmd")>> PROVE On(stack') /\ AllRead(stack') /\ stack'[1] = stack[1]
  BY <1>1, <1>8, <1>9, TopAndMore
<1>10. On(stack') /\ AllRead(stack') /\ stack'[1] = stack[1]
  BY <1>6, <1>7, <1>9
<1>11. Held(stack') = <<>>
  BY <1>10, HeldRead DEF On
<1>. HIDE DEF p
<1>12. Counted(FlattenSeq(lines'.evaluated), <<>>, lines'.dropped, lines'.read)
  BY <1>3, <1>5, CountDropped DEF LinesCounted
<1>13. InParts(stack, word) => InParts(stack', word')
  BY <1>1, <1>10 DEF InParts
<1>. QED  BY <1>5, <1>11, <1>12, <1>13 DEF LinesCounted

LEMMA CountStep == MainInv /\ MainTyped /\ LinesCounted /\ [MainNext]_mainVars => LinesCounted'
<1>. SUFFICES ASSUME MainInv, MainTyped, LinesCounted, [MainNext]_mainVars PROVE LinesCounted'
  OBVIOUS
<1>1. MainInv' /\ word \in Words
  BY MainStep DEF MainTyped
<1>2. ASSUME UNCHANGED mainVars PROVE LinesCounted'
  BY <1>2 DEF mainVars, LinesCounted, Held, InParts
<1>3. ASSUME NEW d \in {-1, 0, 1}, Line(d) PROVE LinesCounted'
  BY <1>3, CountLine
<1>. QED  BY <1>1, <1>2, <1>3, CountFileEnds, CountInputEnds, CountOthers DEF MainNext

\* However interpreters nest and end, every line that was read is evaluated once,
\* with the lines it belongs to and in their order, held or dropped; only the last
\* line of a command file that is read in parts can be evaluated twice.
THEOREM LinesOnceAlways == MainSpec => []LinesOnce
<1>1. MainInit => LinesCounted
  BY CountStarts
<1>2. MainInv /\ MainTyped /\ LinesCounted /\ [MainNext]_mainVars => LinesCounted'
  BY CountStep
<1>3. MainInv /\ LinesCounted => LinesOnce
  <2>. SUFFICES ASSUME MainInv, LinesCounted PROVE LinesOnce
    OBVIOUS
  <2> DEFINE done == FlattenSeq(lines.evaluated)
             held == FlattenSeq([k \in DOMAIN stack |-> Numbers(stack[k].pending)])
             Twice(n) == \E k \in 1 .. Len(done) - 1 : done[k] = n /\ done[k + 1] = n
  <2>1. held = Held(stack) /\ Counted(done, held, lines.dropped, lines.read)
    BY HeldIs DEF MainInv, LinesCounted
  <2>2. DOMAIN done = 1..Len(done) /\ Len(done) \in Nat
    BY <2>1 DEF Counted
  <2>. HIDE DEF held, done
  <2>3. \A j, k \in DOMAIN done : j < k => done[j] < done[k] \/ (k = j + 1 /\ Twice(done[j]))
    <3>. TAKE j, k \in DOMAIN done
    <3>. HAVE j < k
    <3>1. CASE done[j] < done[k]
      BY <3>1
    <3>2. CASE k = j + 1 /\ done[j] = done[k]
      <4>1. j \in 1..Len(done) - 1
        BY <2>2, <3>2
      <4>. QED  BY <3>2, <4>1
    <3>. QED  BY <2>1, <2>2, <3>1, <3>2 DEF Counted
  <2>4. \A c \in DOMAIN lines.evaluated :
          Len(lines.evaluated[c]) > 1 /\ lines.evaluated[c][Len(lines.evaluated[c])] = lines.evaluated[c][Len(lines.evaluated[c]) - 1]
            => word.buffer \/ word.file # "name"
    BY DEF LinesCounted, Doubled, InParts
  <2>5. ToSet(done) \union ToSet(held) \union lines.dropped = 1..lines.read
        /\ ToSet(done) \intersect (ToSet(held) \union lines.dropped) = {}
    BY <2>1 DEF Counted
  <2>. QED  BY <2>3, <2>4, <2>5 DEF LinesOnce, held, done
<1>. QED  BY <1>1, <1>2, <1>3, MainInvariant, PTL DEF MainSpec
-----------------------------------------------------------------------------
(***************************************************************************)
(* The modes of the console.                                               *)
(***************************************************************************)

\* The words of an stty are a fold.
WordOf(T, said, data) == Word(T, said)
Saying == INSTANCE FoldProofs WITH op <- WordOf, step <- WordOf

Flags == FlagsOf("in") \union FlagsOf("out")

\* Modes that a console, or Expect's copy of them, can have.
FitsSides(m) == m \in [Sides -> SUBSET Flags] /\ \A s \in Sides : m[s] \subseteq FlagsOf(s)

\* Who waits for lines gets them, before and after.
Lined(m, before) == "line" \in m["in"] <=> "line" \in before["in"]

\* What the modes are while an stty runs, which began with the modes c of the
\* console and mode of the copy: what is no console is as it was, and where the
\* copy was the console's mode it still is.
Kin(T, c, mode) ==
    /\ T \in [console : [Sides -> SUBSET Flags], mode : [Sides -> SUBSET Flags]]
    /\ T.console \in Modes /\ FitsSides(T.mode)
    /\ \A s \in Sides \ tty.handles : T.console[s] = c[s]
    /\ Lined(T.mode, mode)
    /\ "out" \in tty.handles /\ c["out"] = mode["out"] => T.console["out"] = T.mode["out"]
    /\ "in" \in tty.handles /\ c["in"] = mode["in"] /\ "line" \in mode["in"] =>
          T.console["in"] = T.mode["in"]
Kins(c, mode) == {T \in [console : [Sides -> SUBSET Flags], mode : [Sides -> SUBSET Flags]] : Kin(T, c, mode)}

LEMMA ModesAre ==
    ASSUME NEW m
    PROVE  m \in Modes <=> FitsSides(m) /\ Allowed(m["in"]) /\ Allowed(m["out"])
BY DEF Modes, FitsSides, Flags, Sides

LEMMA SetKin ==
    ASSUME NEW c, NEW mode, NEW T, Kin(T, c, mode), NEW s \in Sides, NEW flags \in SUBSET FlagsOf(s),
           s = "in" => ("line" \in flags <=> "line" \in T.mode["in"])
    PROVE  Kin(SetConsoleMode(T, s, flags), c, mode)
<1> DEFINE U == SetConsoleMode(T, s, flags)
<1>1. /\ T.console \in [Sides -> SUBSET Flags] /\ T.mode \in [Sides -> SUBSET Flags]
      /\ flags \in SUBSET Flags
  BY DEF Kin, Flags, FlagsOf, Sides
<1>2. /\ U = [console |-> U.console, mode |-> U.mode]
      /\ U.mode = [T.mode EXCEPT ![s] = flags]
      /\ U.console = IF s \in tty.handles /\ Allowed(flags) THEN [T.console EXCEPT ![s] = flags]
                     ELSE T.console
  BY DEF SetConsoleMode
<1>. HIDE DEF U
<1>3. U.mode \in [Sides -> SUBSET Flags] /\ U.console \in [Sides -> SUBSET Flags]
  BY <1>1, <1>2
<1>4. FitsSides(U.mode) /\ Lined(U.mode, mode)
  BY <1>1, <1>2, <1>3 DEF Kin, FitsSides, Lined, Sides
<1>5. U.console \in Modes
  <2>1. FitsSides(T.console) /\ Allowed(T.console["in"]) /\ Allowed(T.console["out"])
    BY ModesAre DEF Kin
  <2>2. FitsSides(U.console)
    BY <1>1, <1>2, <1>3, <2>1 DEF FitsSides
  <2>3. Allowed(U.console["in"]) /\ Allowed(U.console["out"])
    BY <1>1, <1>2, <2>1 DEF Sides
  <2>. QED  BY <2>2, <2>3, ModesAre
<1>6. \A r \in Sides \ tty.handles : U.console[r] = c[r]
  BY <1>1, <1>2 DEF Kin
<1>7. ASSUME "out" \in tty.handles, c["out"] = mode["out"]
      PROVE  U.console["out"] = U.mode["out"]
  <2>1. T.console["out"] = T.mode["out"]
    BY <1>7 DEF Kin
  <2>2. s = "out" => Allowed(flags)
    BY DEF Allowed, FlagsOf
  <2>. QED  BY <1>1, <1>2, <1>7, <2>1, <2>2 DEF Sides
<1>8. ASSUME "in" \in tty.handles, c["in"] = mode["in"], "line" \in mode["in"]
      PROVE  U.console["in"] = U.mode["in"]
  <2>1. T.console["in"] = T.mode["in"]
    BY <1>8 DEF Kin
  <2>2. s = "in" => Allowed(flags)
    BY <1>8 DEF Allowed, Kin, Lined
  <2>. QED  BY <1>1, <1>2, <1>8, <2>1, <2>2 DEF Sides
<1>9. U \in [console : [Sides -> SUBSET Flags], mode : [Sides -> SUBSET Flags]]
  BY <1>2, <1>3
<1>. QED  BY <1>4, <1>5, <1>6, <1>7, <1>8, <1>9 DEF Kin, U

LEMMA RawKin ==
    ASSUME NEW c, NEW mode, NEW T, Kin(T, c, mode), NEW set \in BOOLEAN
    PROVE  Kin(exp_tty_raw(T, set), c, mode)
<1>1. CASE ~tty.initialized
  BY <1>1 DEF exp_tty_raw
<1>2. CASE tty.initialized
  <2> DEFINE flags == IF set THEN T.mode["out"] \ {"processed"} ELSE T.mode["out"] \union {"processed"}
  <2>1. flags \in SUBSET FlagsOf("out")
    BY DEF Kin, FitsSides, FlagsOf, Sides
  <2>2. exp_tty_raw(T, set) = SetConsoleMode(T, "out", flags)
    BY <1>2 DEF exp_tty_raw
  <2>. HIDE DEF flags
  <2>. QED  BY <2>1, <2>2, SetKin DEF Sides
<1>. QED  BY <1>1, <1>2

LEMMA EchoKin ==
    ASSUME NEW c, NEW mode, NEW T, Kin(T, c, mode), NEW set \in BOOLEAN
    PROVE  Kin(exp_tty_echo(T, set), c, mode)
<1>1. CASE ~tty.initialized
  BY <1>1 DEF exp_tty_echo
<1>2. CASE tty.initialized
  <2> DEFINE flags == IF set THEN T.mode["in"] \union {"echo"} ELSE T.mode["in"] \ {"echo"}
  <2>1. flags \in SUBSET FlagsOf("in") /\ ("line" \in flags <=> "line" \in T.mode["in"])
    BY DEF Kin, FitsSides, FlagsOf, Sides
  <2>2. exp_tty_echo(T, set) = SetConsoleMode(T, "in", flags)
    BY <1>2 DEF exp_tty_echo
  <2>. HIDE DEF flags
  <2>. QED  BY <2>1, <2>2, SetKin DEF Sides
<1>. QED  BY <1>1, <1>2

LEMMA WordKin ==
    ASSUME NEW c, NEW mode, NEW T, Kin(T, c, mode), NEW said
    PROVE  Kin(Word(T, said), c, mode)
<1>1. /\ Kin(exp_tty_raw(T, TRUE), c, mode) /\ Kin(exp_tty_raw(T, FALSE), c, mode)
      /\ Kin(exp_tty_echo(T, TRUE), c, mode) /\ Kin(exp_tty_echo(T, FALSE), c, mode)
  BY RawKin, EchoKin
<1>2. Word(T, said) \in {exp_tty_raw(T, TRUE), exp_tty_raw(T, FALSE),
                         exp_tty_echo(T, TRUE), exp_tty_echo(T, FALSE), T}
  BY DEF Word
<1>. QED  BY <1>1, <1>2

\* What the console and its copy are before an stty is their own kin.
LEMMA StartKin ==
    ASSUME consoleMode \in Modes, FitsSides(tty.mode)
    PROVE  Kin([console |-> consoleMode, mode |-> tty.mode], consoleMode, tty.mode)
BY DEF Kin, Lined, FitsSides, Modes, Flags

LEMMA AppliedIsFold ==
    ASSUME NEW words
    PROVE  Applied(words) = Saying!Fold([console |-> consoleMode, mode |-> tty.mode], words, <<>>)
BY DEF Applied, WordOf, Saying!Fold, FoldLeft, MapThenFoldSet, Saying!FoldLeft, Saying!MapThenFoldSet, Max, Saying!Max

LEMMA AppliedKin ==
    ASSUME consoleMode \in Modes, FitsSides(tty.mode), NEW words, NEW n \in Nat, DOMAIN words = 1..n
    PROVE  Kin(Applied(words), consoleMode, tty.mode)
<1> DEFINE T0 == [console |-> consoleMode, mode |-> tty.mode]
           S == Kins(consoleMode, tty.mode)
<1>1. T0 \in S
  BY StartKin DEF Kins, Kin
<1>2. \A T \in S : \A k \in 1..n : WordOf(T, words[k], <<>>) \in S
  <2>. TAKE T \in S
  <2>. TAKE k \in 1..n
  <2>1. Kin(T, consoleMode, tty.mode)
    BY DEF Kins
  <2>2. Kin(Word(T, words[k]), consoleMode, tty.mode)
    BY <2>1, WordKin
  <2>3. Word(T, words[k]) \in S
    BY <2>2 DEF Kins, Kin
  <2>. QED  BY <2>3 DEF WordOf
<1>. HIDE DEF S, T0
<1>4. Saying!Fold(T0, words, <<>>) \in S
  BY <1>1, <1>2, Saying!FoldStays
<1>. QED  BY <1>4, AppliedIsFold DEF T0, S, Kins

\* Between two commands.  Where Expect is the only one that changes the console,
\* its copy of the modes is right.
ModesKept ==
    /\ consoleMode \in Modes
    /\ tty \in [initialized : BOOLEAN, handles : SUBSET Sides,
                original : [Sides -> SUBSET Flags], mode : [Sides -> SUBSET Flags]]
    /\ FitsSides(tty.mode)
    /\ ~tty.initialized => tty.handles = {}
    /\ past \in [first : Modes, before : Modes, foreign : BOOLEAN, over : BOOLEAN]
    /\ \A s \in tty.handles : tty.original[s] = past.first[s]
    /\ past.over => \A s \in tty.handles : consoleMode[s] = past.first[s]

InStep ==
    ~past.over /\ ~past.foreign =>
       /\ "in" \in tty.handles => Lined(tty.mode, past.first)
       /\ "out" \in tty.handles => consoleMode["out"] = tty.mode["out"]
       /\ "in" \in tty.handles /\ "line" \in past.first["in"] => consoleMode["in"] = tty.mode["in"]

\* The answer of the last stty says what the modes were before it.
Answered ==
    /\ result \in {<<>>} \union {<<a>> : a \in [raw : BOOLEAN, echo : BOOLEAN]}
    /\ result # <<>> /\ ~past.over /\ ~past.foreign /\ "line" \in past.first["in"] =>
          /\ \A s \in Sides \ tty.handles : consoleMode[s] = past.before[s]
          /\ "out" \in tty.handles => past.before["out"] = IF result[1].raw THEN {} ELSE {"processed"}
          /\ "in" \in tty.handles =>
                past.before["in"] = {"line"} \union (IF result[1].echo THEN {"echo"} ELSE {})

TtyInv == ModesKept /\ InStep /\ Answered

LEMMA InitKept == TtyInit => TtyInv
<1>. SUFFICES ASSUME TtyInit PROVE TtyInv
  OBVIOUS
<1>1. PICK native \in BOOLEAN, consoles \in SUBSET Sides : exp_init_pty(native, consoles)
  BY DEF TtyInit
<1> DEFINE found == [s \in Sides |-> IF native /\ s \in consoles THEN consoleMode[s] ELSE {}]
<1>2. /\ consoleMode \in Modes /\ FitsSides(consoleMode)
      /\ result = <<>>
      /\ past = [first |-> consoleMode, before |-> consoleMode, foreign |-> FALSE, over |-> FALSE]
  BY ModesAre DEF TtyInit
<1>3. /\ FitsSides(found) /\ found \in [Sides -> SUBSET Flags]
      /\ \A s \in Sides : native /\ s \in consoles => found[s] = consoleMode[s]
  BY <1>2 DEF FitsSides
<1>4. tty = [initialized |-> native, handles |-> IF native THEN consoles ELSE {},
             original |-> found, mode |-> found]
  BY <1>1 DEF exp_init_pty
<1>. HIDE DEF found
<1>5. ModesKept
  BY <1>2, <1>3, <1>4 DEF ModesKept
<1>6. InStep
  BY <1>2, <1>3, <1>4 DEF InStep, Lined, Sides
<1>7. Answered
  BY <1>2 DEF Answered
<1>. QED  BY <1>5, <1>6, <1>7 DEF TtyInv

LEMMA SttyKept ==
    ASSUME TtyInv, NEW words \in Sentences, Exp_SttyCmd(words)
    PROVE  TtyInv'
<1>1. /\ ~past.over
      /\ result' = <<[raw |-> exp_israw, echo |-> exp_isecho]>>
      /\ past' = [past EXCEPT !.before = consoleMode]
      /\ consoleMode' = Applied(words).console /\ tty' = [tty EXCEPT !.mode = Applied(words).mode]
  BY DEF Exp_SttyCmd
<1>2. Kin(Applied(words), consoleMode, tty.mode)
  <2>1. DOMAIN words = 1..Len(words) /\ Len(words) \in Nat
    BY TtyAssumption
  <2>. QED  BY <2>1, AppliedKin DEF TtyInv, ModesKept
<1>3. /\ tty'.initialized = tty.initialized /\ tty'.handles = tty.handles
      /\ tty'.original = tty.original /\ tty'.mode = Applied(words).mode
      /\ tty' \in [initialized : BOOLEAN, handles : SUBSET Sides,
                   original : [Sides -> SUBSET Flags], mode : [Sides -> SUBSET Flags]]
  BY <1>1, <1>2 DEF TtyInv, ModesKept, Kin
<1>4. /\ past'.first = past.first /\ past'.before = consoleMode
      /\ past'.foreign = past.foreign /\ past'.over = past.over
      /\ past' \in [first : Modes, before : Modes, foreign : BOOLEAN, over : BOOLEAN]
  BY <1>1 DEF TtyInv, ModesKept
<1>5. ModesKept'
  BY <1>1, <1>2, <1>3, <1>4 DEF TtyInv, ModesKept, Kin, FitsSides
<1>6. InStep'
  <2>. SUFFICES ASSUME ~past.over, ~past.foreign
                PROVE  /\ "in" \in tty.handles => Lined(tty'.mode, past.first)
                       /\ "out" \in tty.handles => consoleMode'["out"] = tty'.mode["out"]
                       /\ "in" \in tty.handles /\ "line" \in past.first["in"] =>
                             consoleMode'["in"] = tty'.mode["in"]
    BY <1>3, <1>4 DEF InStep, Lined
  <2>. QED  BY <1>1, <1>2, <1>3 DEF TtyInv, InStep, Kin, Lined
<1>7. Answered'
  <2>1. exp_israw \in BOOLEAN /\ exp_isecho \in BOOLEAN
    BY DEF exp_israw, exp_isecho, TtyInv, ModesKept
  <2>2. result'[1].raw = exp_israw /\ result'[1].echo = exp_isecho
        /\ result' \in {<<a>> : a \in [raw : BOOLEAN, echo : BOOLEAN]}
    BY <1>1, <2>1
  <2>. SUFFICES ASSUME ~past.foreign, "line" \in past.first["in"]
                PROVE  /\ \A s \in Sides \ tty.handles : consoleMode'[s] = consoleMode[s]
                       /\ "out" \in tty.handles => consoleMode["out"] = IF exp_israw THEN {} ELSE {"processed"}
                       /\ "in" \in tty.handles =>
                             consoleMode["in"] = {"line"} \union (IF exp_isecho THEN {"echo"} ELSE {})
    BY <1>3, <1>4, <2>2 DEF Answered
  <2>3. \A s \in Sides \ tty.handles : consoleMode'[s] = consoleMode[s]
    BY <1>1, <1>2 DEF Kin
  <2>4. ASSUME "out" \in tty.handles
        PROVE  consoleMode["out"] = IF exp_israw THEN {} ELSE {"processed"}
    <3>1. tty.initialized /\ consoleMode["out"] = tty.mode["out"] /\ tty.mode["out"] \subseteq {"processed"}
      BY <1>1, <2>4 DEF TtyInv, ModesKept, InStep, FitsSides, FlagsOf, Sides
    <3>. QED  BY <3>1 DEF exp_israw
  <2>5. ASSUME "in" \in tty.handles
        PROVE  consoleMode["in"] = {"line"} \union (IF exp_isecho THEN {"echo"} ELSE {})
    <3>1. /\ tty.initialized /\ consoleMode["in"] = tty.mode["in"] /\ tty.mode["in"] \subseteq {"echo", "line"}
          /\ "line" \in tty.mode["in"]
      BY <1>1, <2>5 DEF TtyInv, ModesKept, InStep, FitsSides, FlagsOf, Sides, Lined
    <3>. QED  BY <3>1 DEF exp_isecho
  <2>. QED  BY <2>3, <2>4, <2>5
<1>. QED  BY <1>5, <1>6, <1>7 DEF TtyInv

LEMMA TtyKept == TtyInv /\ [TtyNext]_ttyVars => TtyInv'
<1>. SUFFICES ASSUME TtyInv, [TtyNext]_ttyVars PROVE TtyInv'
  OBVIOUS
<1>1. ASSUME NEW words \in Sentences, Exp_SttyCmd(words) PROVE TtyInv'
  BY <1>1, SttyKept
<1>2. CASE SttyRedirected
  BY <1>2 DEF SttyRedirected, TtyInv, ModesKept, InStep, Answered
<1>3. ASSUME NEW m \in Modes, OtherProgram(m) PROVE TtyInv'
  <2>1. /\ ~past.over /\ consoleMode' = m /\ past' = [past EXCEPT !.foreign = TRUE]
        /\ UNCHANGED <<tty, result>>
    BY <1>3 DEF OtherProgram
  <2>2. ModesKept'
    BY <2>1 DEF TtyInv, ModesKept
  <2>3. past'.foreign
    BY <2>1 DEF TtyInv, ModesKept
  <2>. QED  BY <2>1, <2>2, <2>3 DEF TtyInv, InStep, Answered
<1>4. CASE exp_pty_exit
  <2>1. /\ ~past.over
        /\ consoleMode' = [s \in Sides |-> IF tty.initialized /\ s \in tty.handles THEN tty.original[s]
                                           ELSE consoleMode[s]]
        /\ past' = [past EXCEPT !.over = TRUE]
        /\ UNCHANGED <<tty, result>>
    BY <1>4 DEF exp_pty_exit
  <2>2. past'.over /\ past'.first = past.first
        /\ past' \in [first : Modes, before : Modes, foreign : BOOLEAN, over : BOOLEAN]
    BY <2>1 DEF TtyInv, ModesKept
  <2>3. \A s \in tty.handles : consoleMode'[s] = past.first[s]
    BY <2>1 DEF TtyInv, ModesKept, Sides
  <2>4. \A s \in Sides : consoleMode'[s] = IF s \in tty.handles THEN past.first[s] ELSE consoleMode[s]
    BY <2>1 DEF TtyInv, ModesKept, Sides
  <2>5. consoleMode' \in Modes
    <3>1. past.first \in Modes /\ consoleMode \in Modes
      BY DEF TtyInv, ModesKept
    <3>2. consoleMode' \in [Sides -> SUBSET Flags]
      BY <2>1, <2>4, <3>1 DEF Modes, Flags
    <3>. QED  BY <2>4, <3>1, <3>2 DEF Modes, Flags
  <2>. QED  BY <2>1, <2>2, <2>3, <2>5 DEF TtyInv, ModesKept, InStep, Answered
<1>5. CASE UNCHANGED ttyVars
  BY <1>5 DEF ttyVars, TtyInv, ModesKept, InStep, Answered
<1>. QED  BY <1>1, <1>2, <1>3, <1>4, <1>5 DEF TtyNext

LEMMA AppliedTwice ==
    ASSUME NEW a, NEW b
    PROVE  Applied(<<a, b>>) = Word(Word([console |-> consoleMode, mode |-> tty.mode], a), b)
<1> DEFINE T0 == [console |-> consoleMode, mode |-> tty.mode]
           words == <<a, b>>
<1>1. DOMAIN words = 1..2 /\ words[1] = a /\ words[2] = b
  OBVIOUS
<1>. HIDE DEF T0, words
<1>2. PICK h : Saying!Trace(h, T0, words, <<>>, 2) /\ Saying!Fold(T0, words, <<>>) = h[2]
  <2>1. \A n \in Nat : DOMAIN words = 1..n =>
           \E h : Saying!Trace(h, T0, words, <<>>, n) /\ Saying!Fold(T0, words, <<>>) = h[n]
    BY Saying!FoldTrace
  <2>2. 2 \in Nat /\ DOMAIN words = 1..2
    BY <1>1
  <2>. QED  BY <2>1, <2>2
<1>3. h[0] = T0 /\ \A k \in 1..2 : h[k] = WordOf(h[k - 1], words[k], <<>>)
  BY <1>2 DEF Saying!Trace
<1>4. h[1] = Word(T0, a)
  <2>1. h[1] = WordOf(h[1 - 1], words[1], <<>>)
    BY <1>3
  <2>2. h[1 - 1] = T0
    BY <1>3
  <2>3. h[1] = WordOf(T0, a, <<>>)
    BY <1>1, <2>1, <2>2
  <2>. QED  BY <2>3 DEF WordOf
<1>5. h[2] = Word(h[1], b)
  <2>1. h[2] = WordOf(h[2 - 1], words[2], <<>>)
    BY <1>3
  <2>. QED  BY <1>1, <2>1 DEF WordOf
<1>6. Applied(words) = h[2]
  BY <1>2, AppliedIsFold DEF T0
<1>. QED  BY <1>4, <1>5, <1>6 DEF T0, words

\* A word for raw and one for echo say what both modes of Expect's copy are.
LEMMA TwoWords ==
    ASSUME FitsSides(tty.mode), tty.initialized, NEW raw \in BOOLEAN, NEW echo \in BOOLEAN
    PROVE  LET T == Applied(<<IF raw THEN "raw" ELSE "-raw", IF echo THEN "echo" ELSE "-echo">>)
           IN  /\ T.mode["out"] = IF raw THEN {} ELSE {"processed"}
               /\ T.mode["in"] = IF echo THEN tty.mode["in"] \union {"echo"} ELSE tty.mode["in"] \ {"echo"}
<1> DEFINE T0 == [console |-> consoleMode, mode |-> tty.mode]
           out == IF raw THEN tty.mode["out"] \ {"processed"} ELSE tty.mode["out"] \union {"processed"}
           T1 == SetConsoleMode(T0, "out", out)
           in == IF echo THEN T1.mode["in"] \union {"echo"} ELSE T1.mode["in"] \ {"echo"}
           T2 == SetConsoleMode(T1, "in", in)
           a == IF raw THEN "raw" ELSE "-raw"
           b == IF echo THEN "echo" ELSE "-echo"
<1>1. Word(T0, a) = T1
  <2>1. CASE raw
    BY <2>1 DEF Word, exp_tty_raw
  <2>2. CASE ~raw
    BY <2>2 DEF Word, exp_tty_raw
  <2>. QED  BY <2>1, <2>2
<1>2. Word(T1, b) = T2
  <2>. HIDE DEF T1
  <2>1. CASE echo
    BY <2>1 DEF Word, exp_tty_echo
  <2>2. CASE ~echo
    BY <2>2 DEF Word, exp_tty_echo
  <2>. QED  BY <2>1, <2>2
<1>3. T1.mode = [tty.mode EXCEPT !["out"] = out]
  BY DEF SetConsoleMode
<1>4. T2.mode = [T1.mode EXCEPT !["in"] = in]
  BY DEF SetConsoleMode
<1>5. tty.mode["out"] \subseteq {"processed"} /\ tty.mode \in [Sides -> SUBSET Flags]
  BY DEF FitsSides, FlagsOf, Sides
<1>6. Applied(<<a, b>>) = T2
  <2>. HIDE DEF a, b, T1, T2
  <2>2. Applied(<<a, b>>) = Word(Word(T0, a), b)
    BY AppliedTwice
  <2>. QED  BY <1>1, <1>2, <2>2
<1>7. T2.mode["out"] = out /\ T2.mode["in"] = in /\ T1.mode["in"] = tty.mode["in"]
  <2>. HIDE DEF T1, T2, in, out
  <2>. QED  BY <1>3, <1>4, <1>5 DEF Sides
<1>. HIDE DEF T2, T1
<1>. QED  BY <1>5, <1>6, <1>7

\* When its answer is given to stty the console is what it was before, and it is
\* what it was at the start when Expect has gone, after every history of what
\* Expect and other programs did to it (Restored of Tty: Exp_SttyCmd, exp_tty_raw,
\* exp_tty_echo and exp_pty_exit, which keep a copy of the modes).
THEOREM RestoredAlways == TtySpec => []Restored
<1>1. TtyInv => Restored
  <2>. SUFFICES ASSUME TtyInv, result # <<>>, ~past.over, ~past.foreign, "line" \in past.first["in"]
                PROVE  LET answer == <<IF result[1].raw THEN "raw" ELSE "-raw",
                                       IF result[1].echo THEN "echo" ELSE "-echo">>
                       IN  Applied(answer).console = past.before
    BY DEF Restored, TtyInv, ModesKept
  <2> DEFINE raw == result[1].raw
             echo == result[1].echo
             T == Applied(<<IF raw THEN "raw" ELSE "-raw", IF echo THEN "echo" ELSE "-echo">>)
  <2>1. raw \in BOOLEAN /\ echo \in BOOLEAN
    BY DEF TtyInv, Answered
  <2>2. Kin(T, consoleMode, tty.mode)
    <3> DEFINE answer == <<IF raw THEN "raw" ELSE "-raw", IF echo THEN "echo" ELSE "-echo">>
    <3>1. DOMAIN answer = 1..2
      OBVIOUS
    <3>2. consoleMode \in Modes /\ FitsSides(tty.mode)
      BY DEF TtyInv, ModesKept
    <3>. HIDE DEF raw, echo, answer
    <3>3. Kin(Applied(answer), consoleMode, tty.mode)
      BY <3>1, <3>2, AppliedKin
    <3>. QED  BY <3>3 DEF answer, raw, echo
  <2>3. FitsSides(tty.mode) /\ past.before \in [Sides -> SUBSET Flags]
    BY DEF TtyInv, ModesKept, Modes, Flags
  <2>4. tty.initialized =>
           /\ T.mode["out"] = IF raw THEN {} ELSE {"processed"}
           /\ T.mode["in"] = IF echo THEN tty.mode["in"] \union {"echo"} ELSE tty.mode["in"] \ {"echo"}
    BY <2>1, <2>3, TwoWords
  <2>. HIDE DEF T, raw, echo
  <2>5. \A s \in Sides \ tty.handles : T.console[s] = past.before[s]
    BY <2>2 DEF Kin, TtyInv, Answered
  <2>6. ASSUME "out" \in tty.handles PROVE T.console["out"] = past.before["out"]
    <3>1. tty.initialized /\ consoleMode["out"] = tty.mode["out"]
      BY <2>6 DEF TtyInv, ModesKept, InStep
    <3>2. T.console["out"] = T.mode["out"]
      BY <2>2, <2>6, <3>1 DEF Kin
    <3>. QED  BY <2>4, <2>6, <3>1, <3>2 DEF TtyInv, Answered, raw
  <2>7. ASSUME "in" \in tty.handles PROVE T.console["in"] = past.before["in"]
    <3>1. /\ tty.initialized /\ consoleMode["in"] = tty.mode["in"]
          /\ "line" \in tty.mode["in"] /\ tty.mode["in"] \subseteq {"echo", "line"}
      BY <2>7 DEF TtyInv, ModesKept, InStep, FitsSides, FlagsOf, Sides, Lined
    <3>2. T.console["in"] = T.mode["in"]
      BY <2>2, <2>7, <3>1 DEF Kin
    <3>3. past.before["in"] = {"line"} \union (IF echo THEN {"echo"} ELSE {})
      BY <2>7 DEF TtyInv, Answered, echo
    <3>4. T.mode["in"] = {"line"} \union (IF echo THEN {"echo"} ELSE {})
      BY <2>4, <3>1
    <3>. QED  BY <3>2, <3>3, <3>4
  <2>8. T.console \in [Sides -> SUBSET Flags]
    BY <2>2 DEF Kin
  <2>9. T.console = past.before
    BY <2>3, <2>5, <2>6, <2>7, <2>8 DEF Sides
  <2>. QED  BY <2>9 DEF T, raw, echo
<1>2. TtySpec => []TtyInv
  BY InitKept, TtyKept, PTL DEF TtySpec
<1>. QED  BY <1>1, <1>2, PTL
=============================================================================
