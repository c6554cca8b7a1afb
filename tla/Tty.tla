--------------------------------- MODULE Tty ---------------------------------
(***************************************************************************)
(* The modes of the console Expect runs in (win/expWinTty.c): what it      *)
(* finds, what stty makes of it, and what it leaves behind.  Expect has a  *)
(* copy of each mode and changes the console from that; Windows, and other *)
(* programs in the same console, are modelled by what a caller sees.       *)
(* exp_tty_cooked_echo does nothing: exp_dev_tty is never a file.          *)
(***************************************************************************)
EXTENDS SequencesExt

CONSTANT Sentences      \* what is given to stty: sequences of words

ASSUME TtyAssumption == Sentences \subseteq Seq(STRING)

VARIABLES
    consoleMode,        \* the flags of its input and its output
    tty,                \* the statics: consoleInitialized, the handles that are
                        \* known, originalConsole...Mode and console...Mode
    result,             \* what the last stty answered
    past                \* history: the modes at the start and before the last stty,
                        \* whether others have changed them, and whether Expect is gone

ttyVars == <<consoleMode, tty, result, past>>

Sides == {"in", "out"}
FlagsOf(s) == IF s = "in" THEN {"echo", "line"} ELSE {"processed"}

\* ENABLE_ECHO_INPUT is allowed with ENABLE_LINE_INPUT only.
Allowed(flags) == "echo" \in flags => "line" \in flags
Modes == {m \in [Sides -> SUBSET (FlagsOf("in") \union FlagsOf("out"))] :
             \A s \in Sides : m[s] \subseteq FlagsOf(s) /\ Allowed(m[s])}

TtyTypeOK ==
    /\ consoleMode \in Modes
    /\ tty.initialized \in BOOLEAN /\ tty.handles \subseteq Sides
    /\ \A s \in Sides : tty.original[s] \subseteq FlagsOf(s) /\ tty.mode[s] \subseteq FlagsOf(s)
    /\ result \in {<<>>} \union {<<a>> : a \in [raw : BOOLEAN, echo : BOOLEAN]}

\* A graphical program has no native console.  Standard input and output may be
\* files, whose modes stay 0.
exp_init_pty(native, consoles) ==
    LET found == [s \in Sides |-> IF native /\ s \in consoles THEN consoleMode[s] ELSE {}] IN
    tty = [initialized |-> native, handles |-> IF native THEN consoles ELSE {},
           original |-> found, mode |-> found]

TtyInit ==
    /\ consoleMode \in Modes
    /\ \E native \in BOOLEAN, consoles \in SUBSET Sides : exp_init_pty(native, consoles)
    /\ result = <<>>
    /\ past = [first |-> consoleMode, before |-> consoleMode, foreign |-> FALSE, over |-> FALSE]
-----------------------------------------------------------------------------
exp_israw == tty.initialized /\ "processed" \notin tty.mode["out"]
exp_isecho == ~tty.initialized \/ "echo" \in tty.mode["in"]

\* T is the console and the copy of its modes while a command runs.
SetConsoleMode(T, s, flags) ==
    [console |-> IF s \in tty.handles /\ Allowed(flags) THEN [T.console EXCEPT ![s] = flags]
                 ELSE T.console,
     mode |-> [T.mode EXCEPT ![s] = flags]]

exp_tty_raw(T, set) ==
    IF ~tty.initialized THEN T
    ELSE SetConsoleMode(T, "out", IF set THEN T.mode["out"] \ {"processed"}
                                  ELSE T.mode["out"] \union {"processed"})

exp_tty_echo(T, set) ==
    IF ~tty.initialized THEN T
    ELSE SetConsoleMode(T, "in", IF set THEN T.mode["in"] \union {"echo"}
                                 ELSE T.mode["in"] \ {"echo"})

\* A word that is not known is skipped.
Word(T, word) ==
    CASE word = "raw" -> exp_tty_raw(T, TRUE)
      [] word = "-raw" -> exp_tty_raw(T, FALSE)
      [] word = "echo" -> exp_tty_echo(T, TRUE)
      [] word = "-echo" -> exp_tty_echo(T, FALSE)
      [] OTHER -> T

Applied(words) == FoldLeft(Word, [console |-> consoleMode, mode |-> tty.mode], words)

\* Mutant of Exp_SttyCmd: it looks at the attributes when it has set them.
SttyLate(words) ==
    /\ ~past.over
    /\ \E T \in {Applied(words)} :
          consoleMode' = T.console /\ tty' = [tty EXCEPT !.mode = T.mode]
    /\ result' = <<[raw |-> exp_israw', echo |-> exp_isecho']>>
    /\ past' = [past EXCEPT !.before = consoleMode]

\* The answer is what raw and echo were.
Exp_SttyCmd(words) ==
    /\ ~past.over
    /\ \E T \in {Applied(words)} :
          consoleMode' = T.console /\ tty' = [tty EXCEPT !.mode = T.mode]
    /\ result' = <<[raw |-> exp_israw, echo |-> exp_isecho]>>
    /\ past' = [past EXCEPT !.before = consoleMode]

\* Redirection is looked for in all words before the first is done.
SttyRedirected ==
    /\ ~past.over
    /\ result' = <<>>
    /\ UNCHANGED <<consoleMode, tty, past>>

\* A program that the script runs in the console.
OtherProgram(m) ==
    /\ ~past.over
    /\ consoleMode' = m /\ m # consoleMode
    /\ past' = [past EXCEPT !.foreign = TRUE]
    /\ UNCHANGED <<tty, result>>

exp_pty_exit ==
    /\ ~past.over
    /\ consoleMode' = [s \in Sides |-> IF tty.initialized /\ s \in tty.handles THEN tty.original[s]
                                       ELSE consoleMode[s]]
    /\ past' = [past EXCEPT !.over = TRUE]
    /\ UNCHANGED <<tty, result>>

TtyNext ==
    \/ \E words \in Sentences : Exp_SttyCmd(words)
    \/ SttyRedirected
    \/ \E m \in Modes : OtherProgram(m)
    \/ exp_pty_exit

TtySpec == TtyInit /\ [][TtyNext]_ttyVars
-----------------------------------------------------------------------------
\* "the previous status of the raw and echo attributes are returned in a form
\* which can later be used by the command" (doc/expect.man:1991): what an stty has
\* changed is as before when its answer is given to stty.  When Expect has gone,
\* the console is what it was, whatever was refused, or changed by others.  The
\* answer is of Expect's copy: it is not the console's if others changed that, if
\* it refused to echo, or for what is not a console.
Restored ==
    /\ result # <<>> /\ ~past.over /\ ~past.foreign /\ "line" \in past.first["in"] =>
          LET answer == <<IF result[1].raw THEN "raw" ELSE "-raw",
                          IF result[1].echo THEN "echo" ELSE "-echo">>
          IN  Applied(answer).console = past.before
    /\ past.over => \A s \in tty.handles : consoleMode[s] = past.first[s]
==============================================================================
