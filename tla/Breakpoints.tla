---------------------------- MODULE Breakpoints ----------------------------
(***************************************************************************)
(* How the console debugger sees the calls a slave makes                   *)
(* (win/expWinConsoleDebugger.cpp): a breakpoint on the first byte of each *)
(* function, which all threads of the process share, and one on the return *)
(* of each call it saw.  To let a thread pass, the debugger puts the       *)
(* original opcode back, lets that thread do one instruction, and writes   *)
(* the breakpoint again; the other threads run meanwhile.                  *)
(*                                                                         *)
(* While the debugger handles an event every thread of the slave stands    *)
(* still, so a handler is one step.  A thread whose exception is not       *)
(* reported yet waits, and cannot be ended until it was.  The model begins *)
(* when OnXThirdBreakpoint has set the breakpoints.                        *)
(***************************************************************************)
EXTENDS Integers, Sequences

CONSTANTS
    Thread,     \* threads of the slave; a name is used once
    Main,       \* the one that ran into the third breakpoint
    Fn,         \* functions with a breakpoint; a name is the stub of it, too
    Site,       \* addresses calls return to
    Info,       \* addresses of ThreadInfo records
    MaxDepth,   \* bound: calls nested in one another
    MaxCalls,   \* bound: calls made in all
    None        \* a null pointer

ASSUME BreakpointsAssumption ==
    /\ Main \in Thread
    /\ Fn \cap Site = {}
    /\ None \notin Info \cup Fn
    /\ MaxDepth \in Nat /\ MaxCalls \in Nat

VARIABLES
    opcode,     \* per function: its first byte
    brkptList,  \* returning breakpoints, the head of the list last
    info,       \* per thread: its ThreadInfo
    lastBrkpt,  \* per thread: lastBrkpt of that
    args,       \* per thread: depth of the call whose arguments args holds
    pc,         \* per thread: where it is
    tf,         \* per thread: the SINGLE_STEP_BIT of its flags
    frames,     \* per thread: calls it is in, the innermost last
    calls,      \* calls made so far
    met,        \* history, per function: threads met at its entry
    cut         \* history, per function: a thread ended while it was to step over it

debugger == <<brkptList, info, lastBrkpt, args>>
vars == <<debugger, opcode, pc, tf, frames, calls, met, cut>>

\* What a return address may be.
Addr == Site \cup Fn

\* site is where a call came from, slot what the memory holds for it; ins and
\* outs count how often the debugger saw it begin and return.
Frame == [fn : Fn, site : Site, slot : Addr, ins : Nat, outs : Nat]

\* The last two fields are history: the call a returning breakpoint is for.
Breakpoint == [codePtr : Fn, threadInfo : Info, origRetAddr : Addr,
               thread : Thread, depth : Nat]

Init ==
    /\ opcode = [f \in Fn |-> "brk"]
    /\ brkptList = <<>>
    /\ \E a \in Info : info = [t \in Thread |-> IF t = Main THEN a ELSE None]
    /\ lastBrkpt = [t \in Thread |-> None]
    /\ args = [t \in Thread |-> 0]
    /\ pc = [t \in Thread |-> IF t = Main THEN "run" ELSE "new"]
    /\ tf = [t \in Thread |-> FALSE]
    /\ frames = [t \in Thread |-> <<>>]
    /\ calls = 0
    /\ met = [f \in Fn |-> FALSE]
    /\ cut = [f \in Fn |-> FALSE]

Depth(t) == Len(frames[t])
Top(t) == frames[t][Depth(t)]
Pop(t) == SubSeq(frames[t], 1, Depth(t) - 1)
WithTop(t, fr) == Append(Pop(t), fr)

Goto(t, p) == pc' = [pc EXCEPT ![t] = p]

\* t has begun to call f and has not executed its first instruction for good.
AtEntry(t, f) == pc[t] \in {"entry", "hit", "stepped"} /\ Top(t).fn = f
-----------------------------------------------------------------------------
(***************************************************************************)
(* The threads of the slave.                                               *)
(***************************************************************************)

\* CREATE_THREAD_DEBUG_EVENT, which comes before the thread runs.  A freed
\* ThreadInfo may be used again.
OnXCreateThread(t) ==
    /\ pc[t] = "new"
    /\ \E a \in Info :
         /\ \A u \in Thread : info[u] # a
         /\ info' = [info EXCEPT ![t] = a]
    /\ Goto(t, "run")
    /\ UNCHANGED <<brkptList, lastBrkpt, args, opcode, tf, frames, calls, met, cut>>

\* The thread ends, or another one ends it, and EXIT_THREAD_DEBUG_EVENT comes.
\* Its returning breakpoints stay in the list, and an opcode that was put back
\* for its sake stays, too.
OnXDeleteThread(t) ==
    /\ pc[t] \in {"run", "entry"}
    /\ Goto(t, "dead")
    /\ cut' = [f \in Fn |-> cut[f] \/ (AtEntry(t, f) /\ tf[t])]
    /\ frames' = [frames EXCEPT ![t] = <<>>]
    /\ info' = [info EXCEPT ![t] = None]
    /\ lastBrkpt' = [lastBrkpt EXCEPT ![t] = None]
    /\ args' = [args EXCEPT ![t] = 0]
    /\ tf' = [tf EXCEPT ![t] = FALSE]
    /\ UNCHANGED <<brkptList, opcode, calls, met>>

Call(t, f, s) ==
    /\ pc[t] = "run" /\ Depth(t) < MaxDepth /\ calls < MaxCalls
    /\ calls' = calls + 1
    /\ frames' = [frames EXCEPT ![t] =
         Append(@, [fn |-> f, site |-> s, slot |-> s, ins |-> 0, outs |-> 0])]
    /\ met' = [met EXCEPT ![f] = @ \/ \E u \in Thread : AtEntry(u, f)]
    /\ Goto(t, "entry")
    /\ UNCHANGED <<debugger, opcode, tf, cut>>

\* The first instruction of the function: the breakpoint, or the original one.
Execute(t) ==
    /\ pc[t] = "entry"
    /\ IF opcode[Top(t).fn] = "brk"
       THEN Goto(t, "hit") /\ UNCHANGED tf
       ELSE /\ Goto(t, IF tf[t] THEN "stepped" ELSE "run")
            /\ tf' = [tf EXCEPT ![t] = FALSE]
    /\ UNCHANGED <<debugger, opcode, frames, calls, met, cut>>

\* A call nobody has seen returns; else the thread runs into the stub.
Return(t) ==
    /\ pc[t] = "run" /\ frames[t] # <<>>
    /\ IF Top(t).slot \in Site
       THEN frames' = [frames EXCEPT ![t] = Pop(t)] /\ UNCHANGED pc
       ELSE Goto(t, "returning") /\ UNCHANGED frames
    /\ UNCHANGED <<debugger, opcode, tf, calls, met, cut>>
-----------------------------------------------------------------------------
(***************************************************************************)
(* The events of the debugger.                                             *)
(***************************************************************************)

\* Mutant of RestoreOpcode: done for the breakpoint noted before, not for this one.
RestoreOpcodeNoted(f) ==
    \E t \in Thread : /\ pc[t] = "hit" /\ Top(t).fn = f
                      /\ opcode' = [g \in Fn |-> IF g = lastBrkpt[t] THEN "code"
                                                ELSE opcode[g]]

\* WriteSubprocessMemory(proc, brkpt->codePtr, &brkpt->code, 1)
RestoreOpcode(f) == opcode' = [opcode EXCEPT ![f] = "code"]

\* bpt->nextPtr = proc->brkptList; proc->brkptList = bpt
ReturnBreakpoint(t) ==
    brkptList' = Append(brkptList,
            [codePtr |-> Top(t).fn, threadInfo |-> info[t],
             origRetAddr |-> Top(t).slot, thread |-> t, depth |-> Depth(t)])

\* OnXBreakpoint at the entry of a function: save the arguments, set a
\* breakpoint on the return, put the opcode back and step over it.
OnXBreakpointIn(t) ==
    /\ pc[t] = "hit"
    /\ args' = [args EXCEPT ![t] = Depth(t)]
    /\ ReturnBreakpoint(t)
    /\ frames' = [frames EXCEPT ![t] =
         WithTop(t, [Top(t) EXCEPT !.slot = Top(t).fn, !.ins = @ + 1])]
    /\ RestoreOpcode(Top(t).fn)
    /\ lastBrkpt' = [lastBrkpt EXCEPT ![t] = Top(t).fn]
    /\ tf' = [tf EXCEPT ![t] = TRUE]
    /\ Goto(t, "entry")
    /\ UNCHANGED <<info, calls, met, cut>>

\* Mutant of OnXSingleStep: it is left to those who are still at the function.
SingleStepLast(t) ==
    /\ pc[t] = "stepped"
    /\ opcode' = IF \E u \in Thread \ {t} : AtEntry(u, lastBrkpt[t]) THEN opcode
                 ELSE [opcode EXCEPT ![lastBrkpt[t]] = "brk"]
    /\ Goto(t, "run")
    /\ UNCHANGED <<debugger, tf, frames, calls, met, cut>>

\* The breakpoint is written again, whoever is at the function by now.
OnXSingleStep(t) ==
    /\ pc[t] = "stepped"
    /\ opcode' = [opcode EXCEPT ![lastBrkpt[t]] = "brk"]
    /\ Goto(t, "run")
    /\ UNCHANGED <<debugger, tf, frames, calls, met, cut>>

\* Mutant of Matching: any thread's breakpoint will do.
MatchingAny(t) == {i \in 1..Len(brkptList) : brkptList[i].codePtr = Top(t).fn}

\* The breakpoints at the stub thread t has run into that are for this thread.
Matching(t) == {i \in 1..Len(brkptList) :
                  brkptList[i].codePtr = Top(t).fn /\ brkptList[i].threadInfo = info[t]}

Unlinked(i) == [j \in 1..Len(brkptList) - 1 |-> brkptList[IF j < i THEN j ELSE j + 1]]

\* The thread goes on at origRetAddr, which may be the stub once more.
Resume(t, bpt) ==
    IF bpt.origRetAddr \in Site
    THEN /\ frames' = [frames EXCEPT ![t] = Pop(t)]
         /\ Goto(t, IF bpt.origRetAddr = Top(t).site THEN "run" ELSE "astray")
    ELSE /\ frames' = [frames EXCEPT ![t] = WithTop(t, [Top(t) EXCEPT !.outs = @ + 1])]
         /\ Goto(t, IF bpt.origRetAddr = Top(t).fn THEN "returning" ELSE "astray")

\* OnXBreakpoint at a stub: the first breakpoint of the list that matches is
\* taken.  If there is none the thread runs on behind the stub.
OnXBreakpointOut(t) ==
    /\ pc[t] = "returning"
    /\ IF Matching(t) = {}
       THEN Goto(t, "astray") /\ UNCHANGED <<brkptList, frames>>
       ELSE \E i \in Matching(t) :
              /\ \A j \in Matching(t) : j <= i
              /\ Resume(t, brkptList[i])
              /\ brkptList' = Unlinked(i)
    /\ UNCHANGED <<info, lastBrkpt, args, opcode, tf, calls, met, cut>>

Event(t) == OnXBreakpointIn(t) \/ OnXSingleStep(t) \/ OnXBreakpointOut(t)

Next == \E t \in Thread :
    \/ OnXCreateThread(t) \/ OnXDeleteThread(t)
    \/ \E f \in Fn, s \in Site : Call(t, f, s)
    \/ Execute(t) \/ Return(t) \/ Event(t)

Spec == Init /\ [][Next]_vars
-----------------------------------------------------------------------------
(* Properties.                                                             *)

\* Every variable has its type.
TypeOK ==
    /\ opcode \in [Fn -> {"brk", "code"}]
    /\ brkptList \in Seq(Breakpoint)
    /\ info \in [Thread -> Info \cup {None}]
    /\ lastBrkpt \in [Thread -> Fn \cup {None}]
    /\ args \in [Thread -> Nat]
    /\ pc \in [Thread -> {"new", "run", "entry", "hit", "stepped", "returning",
                          "astray", "dead"}]
    /\ tf \in [Thread -> BOOLEAN]
    /\ frames \in [Thread -> Seq(Frame)]
    /\ calls \in Nat
    /\ met \in [Fn -> BOOLEAN]
    /\ cut \in [Fn -> BOOLEAN]

\* A thread always goes on where its call came from, although the breakpoints on
\* returns are in one list for all threads, a call may have several of them, and
\* those of dead threads are never taken out (OnXBreakpoint).
ReturnsHome == \A t \in Thread : pc[t] # "astray"

\* The breakpoint of a function is in place, or somebody is on the way to write
\* it, or a thread was ended on that way.
Stepping(t, f) == AtEntry(t, f) /\ (tf[t] \/ pc[t] = "stepped")
Rearmed == \A f \in Fn : opcode[f] = "brk" \/ cut[f] \/ \E t \in Thread : Stepping(t, f)

\* t gets back from a call in this step.
Back(t) == /\ pc[t] \in {"run", "returning"}
           /\ Len(frames'[t]) < Len(frames[t]) /\ pc'[t] # "dead"
Outs(t) == Top(t).outs + IF pc[t] = "returning" THEN 1 ELSE 0

\* The handler of a function is called for the end of a call as often as the
\* debugger saw it begin, whoever wrote the breakpoint under a thread that was
\* to step over it; and once, unless threads have met at its entry, or one ended
\* there.
ToldInPairs == [][\A t \in Thread : Back(t) =>
                    /\ Outs(t) = Top(t).ins
                    /\ met[Top(t).fn] \/ cut[Top(t).fn] \/ Top(t).ins = 1]_vars

\* Each call is seen, also when several threads make it at once.
ToldAlways == [][\A t \in Thread : Back(t) => Top(t).ins >= 1]_vars

\* The save area for arguments holds those of the call whose end is told: it is
\* for "while we are waiting for the return value for the function"
\* (expWinConsoleDebugger.hpp:112-114).
ArgsAreMine == \A t \in Thread : pc[t] = "returning" => args[t] = Depth(t)
=============================================================================
