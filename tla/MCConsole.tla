------------------------------- MODULE MCConsole -------------------------------
(***************************************************************************)
(* What the console debugger does with a slave, and what users and scripts *)
(* get to see, on small instances: Breakpoints, the calls it is told of;   *)
(* Debuggee, the libraries it finds the functions in; SlaveMemory, how it  *)
(* reads and writes; Console, the mirror of the console window; Keyboard,  *)
(* what is typed for it; and Log, where Expect writes what it reads and    *)
(* sends.  They share no state, and how far one is says nothing about the  *)
(* others, so a behaviour is one of the machine in focus, and the others   *)
(* wait where they start.                                                  *)
(***************************************************************************)
EXTENDS Breakpoints, Debuggee, SlaveMemory, Console, Keyboard, Log

CONSTANTS t1, t2, t3, s1, s2, a1, a2, b1, b2, e1, e2
-----------------------------------------------------------------------------
(* Breakpoints: three threads, of which two live at once.                  *)
MCThread == {t1, t2, t3}
MCSite   == {s1, s2}
MCInfo   == {a1, a2}
-----------------------------------------------------------------------------
(* Debuggee: two versions of a library, one of them with two names for a   *)
(* function, another one with a name of the first, and one of no interest. *)
Library(name, names, ords, funs) ==
    [name |-> name, valid |-> TRUE, names |-> names, ords |-> ords, funs |-> funs]

MCImage == {
    Library("kernel32", <<"f", "g">>, <<2, 1>>, <<10, 20>>),
    Library("kernel32", <<"f", "g">>, <<1, 1>>, <<30, 31>>),
    Library("user32", <<"f", "h">>, <<1, 2>>, <<40, 50>>),
    Library("other", <<"f">>, <<1>>, <<60>>)}

MCWanted == [d \in {"kernel32", "user32"} |->
                IF d = "kernel32" THEN <<"f", "g">> ELSE <<"h">>]
-----------------------------------------------------------------------------
(* Console: Expect has no console of its own, or its cursor is on screen.  *)
MCMaster == {-1, 0, 3}
-----------------------------------------------------------------------------
(* Keyboard: a text that fits into a message and others that do not, with   *)
(* the keys that are wrong, control characters and one of the upper half.  *)
MCText == {<<97>>, <<65, 3, 95>>, <<64, 225, 9, 123, 33>>}
-----------------------------------------------------------------------------
(* Log: to one process or two, in every style; a wide character only in a  *)
(* slow send.                                                              *)
Sent(list, style, var, text) ==
    [list |-> list, default |-> Len(list) = 1, style |-> style, var |-> var, text |-> text]

MCSends == {
    Sent(<<e1>>, "plain", <<>>, <<1>>),
    Sent(<<e1, e2>>, "slow", <<2, 1>>, <<1, 1, 1>>),
    Sent(<<e1>>, "slow", <<2, 1>>, <<2, 1>>),
    Sent(<<e1>>, "slow", <<0, 1>>, <<1>>),
    Sent(<<e2, e1>>, "human", <<1, 2, 1, 0, 3>>, <<1, 1>>),
    Sent(<<e1>>, "human", <<1, 2, 1, 3, 0>>, <<1>>),
    Sent(<<e1, e2>>, "zero", <<>>, <<1>>),
    Sent(<<"user">>, "plain", <<>>, <<1>>)}
-----------------------------------------------------------------------------
VARIABLE focus      \* the machine that runs

MCInit ==
    /\ focus \in {"breakpoints", "debuggee", "memory", "console", "keyboard", "log"}
    /\ Init /\ DebuggeeInit /\ MemInit /\ ConsoleInit /\ KeyInit /\ LogInit
    /\ focus # "breakpoints" => info[t1] = a1
    /\ focus # "memory" => prot = [p \in Page |-> "rw"]
    /\ focus # "console" => ~strip
    /\ focus # "keyboard" => by = "debugger"

BreakpointsStep ==
    /\ focus = "breakpoints" /\ Next
    /\ UNCHANGED <<dbgeVars, memVars, consoleVars, keyVars, logVars, focus>>
DebuggeeStep ==
    /\ focus = "debuggee" /\ DebuggeeNext
    /\ UNCHANGED <<vars, memVars, consoleVars, keyVars, logVars, focus>>
MemoryStep ==
    /\ focus = "memory" /\ MemNext
    /\ UNCHANGED <<vars, dbgeVars, consoleVars, keyVars, logVars, focus>>
ConsoleStep ==
    /\ focus = "console" /\ ConsoleNext
    /\ UNCHANGED <<vars, dbgeVars, memVars, keyVars, logVars, focus>>
KeyboardStep ==
    /\ focus = "keyboard" /\ KeyNext
    /\ UNCHANGED <<vars, dbgeVars, memVars, consoleVars, logVars, focus>>
LogStep ==
    /\ focus = "log" /\ LogNext
    /\ UNCHANGED <<vars, dbgeVars, memVars, consoleVars, keyVars, focus>>

MCNext == \/ BreakpointsStep \/ DebuggeeStep \/ MemoryStep
          \/ ConsoleStep \/ KeyboardStep \/ LogStep

MCSpec ==
    MCInit /\ [][MCNext]_<<vars, dbgeVars, memVars, consoleVars, keyVars, logVars, focus>>

\* One file of Expect's own is as good as another.
Symmetry == Permutations(Pool)
===============================================================================
