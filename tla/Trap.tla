-------------------------------- MODULE Trap --------------------------------
(***************************************************************************)
(* The signal traps of generic/exp_trap.c on Windows.  For each console    *)
(* event the system starts a thread that runs ctrl_event and bottomhalf;   *)
(* the Tcl thread runs tophalf, as Tcl's asynchronous handler, between two *)
(* commands or from the event loop.  The threads share traps[].mark,       *)
(* traps[].enabled and got_sig, which nothing protects: a step is one      *)
(* access to one of them, or one call of Tcl, whose own flags are under a  *)
(* mutex.                                                                  *)
(***************************************************************************)
EXTENDS Integers

CONSTANTS
    NSIG,       \* one more than the largest signal
    Console,    \* the signals console events stand for: SIGINT and SIGQUIT
    Threads,    \* threads the system runs console events on
    NoSuch      \* what csig holds without an event

Signal == 1..NSIG - 1

ASSUME TrapAssumption ==
    /\ NSIG \in Nat \ {0}
    /\ Console \subseteq Signal
    /\ NoSuch \notin Signal

VARIABLES
    action,     \* per signal: the text to evaluate, or "none"
    own,        \* per signal: an interpreter was noted (no -interp)
    enabled,    \* per signal: SIGNAL_DEFAULT, _IGNORE or _ENABLED
    mark,       \* per signal
    got_sig, current_sig,
    cpc, csig,  \* per thread of the system: where it is, and its signal
    ready,      \* of Tcl's handler: it was marked
    asyncReady, asyncActive,    \* of Tcl: look for marked handlers; doing so
    pc,         \* where the Tcl thread is
    i,          \* where the scan of tophalf is, 1 outside of it
    interp,     \* Tcl_AsyncInvoke was given an interpreter
    stale,      \* the text that is being evaluated was freed
    over        \* how the process ended, or "no"

traps  == <<action, own, enabled>>
thread == <<cpc, csig>>
async  == <<ready, asyncReady, asyncActive>>
vars   == <<traps, mark, got_sig, current_sig, thread, async, pc, i, interp, stale, over>>

Init ==
    /\ action = [s \in Signal |-> "none"]
    /\ own = [s \in Signal |-> FALSE]
    /\ enabled = [s \in Signal |-> "default"]
    /\ mark = [s \in Signal |-> FALSE]
    /\ got_sig = 0 /\ current_sig = 0
    /\ cpc = [t \in Threads |-> "idle"]
    /\ csig = [t \in Threads |-> NoSuch]
    /\ ready = FALSE /\ asyncReady = FALSE /\ asyncActive = FALSE
    /\ pc = "script" /\ i = 1
    /\ interp = FALSE /\ stale = FALSE
    /\ over = "no"

\* Tcl_AsyncMark: a handler that is marked while handlers run is found by the
\* loop that runs them.
AsyncMark == /\ ready' = TRUE
             /\ asyncReady' = (asyncReady \/ ~asyncActive)
             /\ UNCHANGED asyncActive
-----------------------------------------------------------------------------
(* The threads of the system.                                              *)

Goto(t, place) == cpc' = [cpc EXCEPT ![t] = place]

CtrlFrame == UNCHANGED <<traps, current_sig, pc, i, interp, stale>>

\* ctrl_event for an event that stands for s.
CtrlEvent(t, s) ==
    /\ over = "no"
    /\ cpc[t] = "idle"
    /\ \/ /\ enabled[s] = "enabled"
          /\ csig' = [csig EXCEPT ![t] = s]
          /\ Goto(t, "mark")
          /\ UNCHANGED over
       \/ /\ enabled[s] = "ignore"
          /\ UNCHANGED <<thread, over>>
       \/ /\ enabled[s] = "default"     \* the next handler is the system's
          /\ over' = "killed"
          /\ UNCHANGED thread
    /\ UNCHANGED <<mark, got_sig, async>>
    /\ CtrlFrame

\* traps[sig].mark = TRUE
CtrlMark(t) ==
    /\ over = "no"
    /\ cpc[t] = "mark"
    /\ mark' = [mark EXCEPT ![csig[t]] = TRUE]
    /\ Goto(t, "hint")
    /\ UNCHANGED <<csig, got_sig, async, over>>
    /\ CtrlFrame

\* got_sig = sig
CtrlHint(t) ==
    /\ over = "no"
    /\ cpc[t] = "hint"
    /\ got_sig' = csig[t]
    /\ Goto(t, "async")
    /\ UNCHANGED <<csig, mark, async, over>>
    /\ CtrlFrame

\* Tcl_AsyncMark(async_handler)
CtrlAsync(t) ==
    /\ over = "no"
    /\ cpc[t] = "async"
    /\ AsyncMark
    /\ Goto(t, "idle")
    /\ csig' = [csig EXCEPT ![t] = NoSuch]
    /\ UNCHANGED <<mark, got_sig, over>>
    /\ CtrlFrame

Ctrl(t) == CtrlMark(t) \/ CtrlHint(t) \/ CtrlAsync(t)
-----------------------------------------------------------------------------
(* The Tcl thread.                                                         *)

At(place) == over = "no" /\ pc = place
TclFrame == UNCHANGED thread

\* trap: one element of its list.  The text it had is freed, the one that is
\* being evaluated too; the system is asked for console events only.
TrapCmd(s, text, here) ==
    /\ over = "no" /\ pc \in {"script", "body"}
    /\ action' = [action EXCEPT ![s] = text]
    /\ own' = [own EXCEPT ![s] = IF text = "none" THEN @ ELSE here]
    /\ enabled' = [enabled EXCEPT ![s] =
           CASE text = "none" -> "default"
             [] text = "ignore" -> "ignore"
             [] text = "command" -> IF s \in Console THEN "enabled" ELSE @]
    /\ stale' = (stale \/ (pc = "body" /\ s = current_sig))
    /\ UNCHANGED <<mark, got_sig, current_sig, async, pc, i, interp, over>>
    /\ TclFrame

\* Tcl_AsyncInvoke, from the interpreter or from the event loop.
Invoke ==
    /\ At("script")
    /\ asyncReady
    /\ asyncReady' = FALSE /\ asyncActive' = TRUE
    /\ interp' \in BOOLEAN
    /\ pc' = "next"
    /\ UNCHANGED <<traps, mark, got_sig, current_sig, ready, i, stale, over>>
    /\ TclFrame

\* ... which calls the handler as long as it finds it marked.
Recall ==
    /\ At("next")
    /\ ready
    /\ ready' = FALSE
    /\ pc' = "take"
    /\ UNCHANGED <<traps, mark, got_sig, current_sig, asyncReady, asyncActive, i, interp, stale, over>>
    /\ TclFrame

InvokeEnds ==
    /\ At("next")
    /\ ~ready
    /\ asyncActive' = FALSE
    /\ interp' = FALSE
    /\ pc' = "script"
    /\ UNCHANGED <<traps, mark, got_sig, current_sig, ready, asyncReady, i, stale, over>>
    /\ TclFrame

\* tophalf: got_sig is looked at twice, but is set to signals only meanwhile.
Take ==
    /\ At("take")
    /\ IF got_sig \in Signal
       THEN current_sig' = got_sig /\ pc' = "clear" /\ UNCHANGED over
       ELSE over' = "impossible" /\ UNCHANGED <<current_sig, pc>>
    /\ UNCHANGED <<traps, mark, got_sig, async, i, interp, stale>>
    /\ TclFrame

\* trap->mark = FALSE
Clear ==
    /\ At("clear")
    /\ mark' = [mark EXCEPT ![current_sig] = FALSE]
    /\ pc' = "choose"
    /\ UNCHANGED <<traps, got_sig, current_sig, async, i, interp, stale, over>>
    /\ TclFrame

\* Is there something to evaluate, and an interpreter?
Choose ==
    /\ At("choose")
    /\ IF action[current_sig] = "none"
       THEN over' = "unexpected" /\ UNCHANGED pc
       ELSE IF ~own[current_sig] /\ ~interp
       THEN over' = "nointerp" /\ UNCHANGED pc
       ELSE pc' = "body" /\ UNCHANGED over
    /\ UNCHANGED <<traps, mark, got_sig, current_sig, async, i, interp, stale>>
    /\ TclFrame

\* The next command of a text that was freed, or exit.
BodyGoesOn ==
    /\ At("body")
    /\ over' \in {"killed"} \cup IF stale THEN {"freed"} ELSE {}
    /\ UNCHANGED <<traps, mark, got_sig, current_sig, async, pc, i, interp, stale>>
    /\ TclFrame

\* current_sig = NO_SIG
BodyEnds ==
    /\ At("body")
    /\ current_sig' = 0
    /\ stale' = FALSE
    /\ pc' = "wipe"
    /\ UNCHANGED <<traps, mark, got_sig, async, i, interp, over>>
    /\ TclFrame

\* Mutant of Wipe: there is no scan for more signals.
WipeOnly ==
    /\ At("wipe")
    /\ got_sig' = -1
    /\ pc' = "next"
    /\ UNCHANGED <<traps, mark, current_sig, async, i, interp, stale, over>>
    /\ TclFrame

\* got_sig = -1, and the scan begins.
Wipe ==
    /\ At("wipe")
    /\ got_sig' = -1
    /\ pc' = "scan"
    /\ UNCHANGED <<traps, mark, current_sig, async, i, interp, stale, over>>
    /\ TclFrame

\* for (i=1;i<NSIG;i++) if (traps[i].mark) ...
Scan ==
    /\ At("scan")
    /\ IF i < NSIG
       THEN IF mark[i] THEN pc' = "found" /\ UNCHANGED i ELSE i' = i + 1 /\ UNCHANGED pc
       ELSE pc' = "next" /\ i' = 1
    /\ UNCHANGED <<traps, mark, got_sig, current_sig, async, interp, stale, over>>
    /\ TclFrame

\* got_sig = i
Hint ==
    /\ At("found")
    /\ got_sig' = i
    /\ i' = 1
    /\ pc' = "again"
    /\ UNCHANGED <<traps, mark, current_sig, async, interp, stale, over>>
    /\ TclFrame

\* Mutant of Again: the handler is not marked once more.
AgainNot ==
    /\ At("again")
    /\ pc' = "next"
    /\ UNCHANGED <<traps, mark, got_sig, current_sig, async, i, interp, stale, over>>
    /\ TclFrame

\* Tcl_AsyncMark(async_handler)
Again ==
    /\ At("again")
    /\ AsyncMark
    /\ pc' = "next"
    /\ UNCHANGED <<traps, mark, got_sig, current_sig, i, interp, stale, over>>
    /\ TclFrame

TopHalf == Take \/ Clear \/ Choose \/ BodyEnds \/ Wipe \/ Scan \/ Hint \/ Again
TclThread == Invoke \/ Recall \/ InvokeEnds \/ TopHalf

Next ==
    \/ \E t \in Threads : Ctrl(t) \/ \E s \in Console : CtrlEvent(t, s)
    \/ \E s \in Signal, text \in {"none", "ignore", "command"}, here \in BOOLEAN :
          TrapCmd(s, text, here)
    \/ TclThread
    \/ BodyGoesOn

(***************************************************************************)
(* Fairness: threads run; the interpreter looks for marked handlers        *)
(* between commands, Tcl_ThreadAlert makes the event loop look, and the    *)
(* text of a trap is a script that returns.                                *)
(***************************************************************************)
Fairness == WF_vars(TclThread) /\ \A t \in Threads : WF_vars(Ctrl(t))

Spec     == Init /\ [][Next]_vars
FairSpec == Spec /\ Fairness
-----------------------------------------------------------------------------
(* Properties.                                                             *)

\* Every variable has its type; in particular got_sig is a signal, 0 before
\* the first one, or -1.
TypeOK ==
    /\ action \in [Signal -> {"none", "ignore", "command"}]
    /\ own \in [Signal -> BOOLEAN]
    /\ enabled \in [Signal -> {"default", "ignore", "enabled"}]
    /\ mark \in [Signal -> BOOLEAN]
    /\ got_sig \in Signal \cup {-1, 0} /\ current_sig \in Signal \cup {0}
    /\ cpc \in [Threads -> {"idle", "mark", "hint", "async"}]
    /\ csig \in [Threads -> Signal \cup {NoSuch}]
    /\ ready \in BOOLEAN /\ asyncReady \in BOOLEAN /\ asyncActive \in BOOLEAN
    /\ pc \in {"script", "next", "take", "clear", "choose", "body", "wipe", "scan",
               "found", "again"}
    /\ i \in 1..NSIG
    /\ interp \in BOOLEAN /\ stale \in BOOLEAN
    /\ over \in {"no", "killed", "impossible", "unexpected", "nointerp", "freed"}

\* The scan has not passed signal s yet.
Ahead(s) == \/ pc \in {"take", "clear", "choose", "body", "wipe", "again", "found"}
            \/ pc = "scan" /\ i <= s

\* A signal that was marked is not forgotten, although got_sig is "only a hint
\* and can be wiped out": tophalf was asked for, or comes to it in its scan, or
\* the thread that marked it has still to ask.
MarkIsAnnounced ==
    \A s \in Signal : mark[s] =>
        \/ ready
        \/ Ahead(s)
        \/ \E t \in Threads : cpc[t] \in {"hint", "async"} /\ csig[t] = s

\* Once no more events come, no signal stays marked: each is served, however
\* many came at once and in whatever order.
Served ==
    \A s \in Signal :
        (<>[](\A t \in Threads : cpc[t] = "idle")) => <>[](~mark[s] \/ over # "no")

\* A signal's trap is reset only in between: tophalf finds an action for what
\* was caught.
NotUnexpected == over # "unexpected"

\* got_sig "will always be left with a valid signal that is pending".
HintIsValid == over # "impossible"

\* tophalf evaluates an action because its signal came again: "when async_proc
\* is recalled, it will see that nothing was left to do".
NothingLeftToDo == pc = "clear" /\ over = "no" => mark[current_sig]

\* -interp: "else if another interp is available, use it".
SomeInterp == over # "nointerp"

\* A trap may be changed by its own action.
ActionOutlivesEvaluation == over # "freed"
=============================================================================
