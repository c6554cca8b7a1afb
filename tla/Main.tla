-------------------------------- MODULE Main --------------------------------
(***************************************************************************)
(* Where commands come from and how the program ends: Expect_Init, the     *)
(* command line, the rc files, the command file and the interpreter        *)
(* (generic/exp_main_sub.c), and interpreter, inter_return and exit        *)
(* (generic/exp_command.c).  What runs is a stack of frames: C code that   *)
(* looks for commands, and scripts, of which only calls to Expect and the  *)
(* code they end with are modelled.  A line is [n, d]: its number, and how *)
(* many braces it opens (d < 0: closes).                                   *)
(***************************************************************************)
EXTENDS Integers, SequencesExt

CONSTANTS
    Commands,       \* names of commands that Expect defines, "close" and "exit" among them
    Scripted,       \* which names a script may have defined before: sets of names
    MaxLines,       \* bound: lines that are read
    MaxDepth        \* bound: frames, beside those of exits

VARIABLES
    cmds,           \* [names -> who defined the command], "none" if nobody
    inits,          \* calls of Expect_Init; what it saved as Tcl's own close
    word,           \* what the command line asks for
    stack,          \* frames, the running one last
    lines,          \* how many lines were read; those of each command that was evaluated
    onexit,         \* exp_onexit_action, and whether it is freed while it runs
    exiting         \* the statics of exp_exit_handlers, and how far Tcl's exit is

mainVars == <<cmds, inits, word, stack, lines, onexit, exiting>>

Own(c) == <<"", c>>
Alias(c) == <<"exp_", c>>
Kept == <<"_", "close.pre_expect">>
Names == {Own(c) : c \in Commands} \union {Alias(c) : c \in Commands} \union {Kept}
Needed == {Own("close"), Own("exit")}       \* EXP_REDEFINE

ASSUME MainAssumption ==
    /\ {"close", "exit"} \subseteq Commands
    /\ \A names \in Scripted : names \subseteq Names \ {Kept}
    /\ MaxLines \in Nat /\ MaxDepth \in Nat

Frame(kind) == [kind |-> kind, pending |-> <<>>, eof |-> FALSE]
Scripts == {"-c", "sysrc", "myrc", "file", "command", "eofcmd", "onexit"}
Top == stack[Len(stack)]
Running(kinds) == stack # <<>> /\ Top.kind \in kinds
Below == Front(stack)
Room(n) == Len(stack) + n <= MaxDepth

MainInit ==
    /\ \E scripts \in Scripted :
          cmds = [n \in Names |-> IF n \in Needed \union scripts THEN "other" ELSE "none"]
    /\ inits = [calls |-> 0, close |-> "none"]
    /\ word = [interactive |-> FALSE, file |-> "none", buffer |-> FALSE, c |-> FALSE,
               sys_rc |-> TRUE, my_rc |-> TRUE]
    /\ stack = <<Frame("main")>>
    /\ lines = [read |-> 0, evaluated |-> <<>>, dropped |-> {}]
    /\ onexit = [set |-> FALSE, stale |-> FALSE]
    /\ exiting = [expect |-> FALSE, app |-> FALSE, registered |-> FALSE, ran |-> 0,
                  appRan |-> 0, nested |-> FALSE, closed |-> FALSE, overridden |-> FALSE]
-----------------------------------------------------------------------------
(***************************************************************************)
(* Expect_Init.                                                            *)
(***************************************************************************)
\* A name of the script's own is left alone, unless Expect must have it; the
\* name with exp_ is always Expect's.
exp_create_commands(defined) ==
    [n \in Names |->
        IF n \in Needed \/ (n # Kept /\ (n[1] = "exp_" \/ defined[n] = "none")) THEN "expect"
        ELSE defined[n]]

\* Tcl's rename, which does not replace a command.
Renamed(defined, from, to) ==
    IF defined[from] = "none" \/ defined[to] # "none" THEN defined
    ELSE [defined EXCEPT ![to] = defined[from], ![from] = "none"]

\* The first call in the process, or one more in the same interpreter.
Expect_Init ==
    /\ Running({"main"}) /\ inits.calls < 2
    /\ inits' = [calls |-> inits.calls + 1, close |-> cmds[Own("close")]]
    /\ cmds' = IF cmds[Kept] # "none" THEN cmds
               ELSE exp_create_commands(Renamed(cmds, Own("close"), Kept))
    /\ exiting' = [exiting EXCEPT !.registered = TRUE]
    /\ UNCHANGED <<word, stack, lines, onexit>>
-----------------------------------------------------------------------------
(***************************************************************************)
(* exp_parse_argv.                                                         *)
(***************************************************************************)
Enter(frames) == stack' = stack \o frames

Option(option) ==
    /\ Running({"main"}) /\ inits.calls > 0
    /\ word' = CASE option = "-c" -> [word EXCEPT !.c = TRUE]
                 [] option = "-f" -> [word EXCEPT !.file = "name"]
                 [] option = "-b" -> [word EXCEPT !.file = "name", !.buffer = TRUE]
                 [] option = "-i" -> [word EXCEPT !.interactive = TRUE]
                 [] option = "-n" -> [word EXCEPT !.my_rc = FALSE]
                 [] option = "-N" -> [word EXCEPT !.sys_rc = FALSE]
    /\ IF option = "-c" THEN Room(1) /\ Enter(<<Frame("-c")>>) ELSE UNCHANGED stack
    /\ UNCHANGED <<cmds, inits, lines, onexit, exiting>>

\* The frames of what is to run, first the rc files.  A command file that is read
\* in parts is "cmdfile", one that is evaluated as a whole "file".
Sources(w, stdin) ==
    <<Frame("end")>>
      \o (IF w.interactive THEN <<Frame("interp")>>
          ELSE CASE w.file = "name" /\ ~w.buffer -> <<Frame("file")>>
                 [] (w.file = "name" /\ w.buffer) \/ w.file = "-" -> <<Frame("cmdfile")>>
                 [] w.file = "none" -> IF w.c THEN <<>>
                                       ELSE IF stdin = "tty" THEN <<Frame("interp")>>
                                       ELSE <<Frame("cmdfile")>>)
      \o (IF w.my_rc THEN <<Frame("myrc")>> ELSE <<>>)
      \o (IF w.sys_rc THEN <<Frame("sysrc")>> ELSE <<>>)

\* The first word that is no option names the file, "-" the standard input.
ChooseSource(first, stdin) ==
    /\ Running({"main"}) /\ inits.calls > 0
    /\ LET w == IF word.interactive \/ word.file # "none" THEN word
                ELSE [word EXCEPT !.file = first]
       IN  /\ word' = [file |-> w.file, buffer |-> w.buffer, interactive |-> FALSE, c |-> FALSE,
                       sys_rc |-> TRUE, my_rc |-> TRUE]
           /\ stack' = Sources(w, stdin)
    /\ UNCHANGED <<cmds, inits, lines, onexit, exiting>>
-----------------------------------------------------------------------------
(***************************************************************************)
(* exp_exit_handlers.                                                      *)
(***************************************************************************)
\* Mutant of EnterHandlers: that the action runs is not noted.
EnterHandlersTwice(kind, frames) ==
    LET first == ~exiting.expect /\ onexit.set IN
    /\ stack' = frames \o <<Frame(kind)>> \o (IF first THEN <<Frame("onexit")>> ELSE <<>>)
    /\ exiting' = [exiting EXCEPT !.ran = IF first THEN @ + 1 ELSE @,
                                  !.registered = @ /\ kind # "exit"]

\* Its frame: "handlers" for exit -noexit, "exit" for Tcl's exit.  The action runs
\* unless it has run.
EnterHandlers(kind, frames) ==
    LET first == ~exiting.expect /\ onexit.set IN
    /\ stack' = frames \o <<Frame(kind)>> \o (IF first THEN <<Frame("onexit")>> ELSE <<>>)
    /\ exiting' = [exiting EXCEPT !.expect = TRUE, !.ran = IF first THEN @ + 1 ELSE @,
                                  !.registered = @ /\ kind # "exit"]

\* The rest of the handler: exp_app_exit, and exp_close_all.
LeaveHandlers ==
    /\ Running({"handlers", "exit"})
    /\ exiting' = [exiting EXCEPT !.app = TRUE, !.appRan = IF exiting.app THEN @ ELSE @ + 1,
                                  !.closed = TRUE]
    /\ stack' = IF Top.kind = "exit" THEN <<>> ELSE Below
    /\ UNCHANGED <<cmds, inits, word, lines, onexit>>

\* Tcl_Exit.  Tcl forgets an exit handler before it calls it.
Tcl_Exit(frames) ==
    IF exiting.registered THEN EnterHandlers("exit", frames)
    ELSE stack' = <<>> /\ exiting' = [exiting EXCEPT !.nested = TRUE]

\* Exp_ExitCmd gives close back to Tcl first, which cannot be.
Exit(frames) ==
    /\ cmds' = Renamed(cmds, Kept, Own("close"))
    /\ Tcl_Exit(frames)

\* The file of -b cannot be opened: exp_parse_argv evaluates "exit 1".  With an
\* exit of the script's own it goes on, and the file fails once more by its name.
Unopened ==
    /\ Running({"main"}) /\ inits.calls > 0
    /\ word.buffer /\ ~word.interactive /\ ~exiting.overridden
    /\ Exit(<<>>)
    /\ UNCHANGED <<inits, word, lines, onexit>>
-----------------------------------------------------------------------------
(***************************************************************************)
(* What a script does.                                                     *)
(***************************************************************************)
\* exit -onexit frees the action that is set, also while it runs.
ExitOnexit ==
    /\ Running(Scripts)
    /\ onexit' = [set |-> TRUE,
                  stale |-> onexit.stale \/ (\E k \in DOMAIN stack : stack[k].kind = "onexit")]
    /\ UNCHANGED <<cmds, inits, word, stack, lines, exiting>>

ExitNoexit ==
    /\ Running(Scripts)
    /\ EnterHandlers("handlers", stack)
    /\ UNCHANGED <<cmds, inits, word, lines, onexit>>

ExitNow ==
    /\ Running(Scripts)
    /\ ~exiting.overridden
    /\ Exit(stack)
    /\ UNCHANGED <<inits, word, lines, onexit>>

\* A script defines an exit of its own (SF #439042).
Override ==
    /\ Running(Scripts)
    /\ ~exiting.overridden
    /\ exiting' = [exiting EXCEPT !.overridden = TRUE]
    /\ UNCHANGED <<cmds, inits, word, stack, lines, onexit>>

\* interpreter, with or without -eof
Interpreter(eof) ==
    /\ Running(Scripts) /\ Room(1)
    /\ Enter(<<[Frame("interp") EXCEPT !.eof = eof]>>)
    /\ UNCHANGED <<cmds, inits, word, lines, onexit, exiting>>

\* The script ends with a code; inter_return gives "exp_return".
Codes == {"ok", "error", "return", "break", "continue", "exp_return"}
Owner == stack[Len(stack) - 1].kind

Finish(code) ==
    /\ Running(Scripts)
    /\ \/ /\ Top.kind \in {"-c", "file", "onexit"} \/ (Top.kind \in {"sysrc", "myrc"} /\ code # "error")
          /\ stack' = Below
          /\ UNCHANGED <<cmds, exiting>>
       \* Tcl_Eval("exit 1")
       \/ /\ Top.kind \in {"sysrc", "myrc"} /\ code = "error"
          /\ IF exiting.overridden THEN stack' = Below /\ UNCHANGED <<cmds, exiting>>
             ELSE Exit(Below)
       \* the command file ends at an error, the interpreter does not
       \/ /\ Top.kind = "command" /\ Owner = "cmdfile"
          /\ stack' = IF code # "ok" \/ Below[Len(Below)].eof THEN Front(Below) ELSE Below
          /\ UNCHANGED <<cmds, exiting>>
       \/ /\ Top.kind = "command" /\ Owner = "interp"
          /\ stack' = IF code \in {"ok", "error"} THEN Below ELSE Front(Below)
          /\ UNCHANGED <<cmds, exiting>>
       \/ /\ Top.kind = "eofcmd"
          /\ stack' = Front(Below)
          /\ UNCHANGED <<cmds, exiting>>
    /\ UNCHANGED <<inits, word, lines, onexit>>
-----------------------------------------------------------------------------
(***************************************************************************)
(* exp_interpreter and exp_interpret_cmdfile.                              *)
(***************************************************************************)
CommandComplete(text) == FoldLeft(LAMBDA sum, l : sum + l.d, 0, text) <= 0

Numbers(text) == [k \in DOMAIN text |-> text[k].n]

\* Mutant of Evaluate: the command is left in the buffer.
EvaluateAgain(text) ==
    /\ stack' = Below \o <<[Top EXCEPT !.pending = text], Frame("command")>>
    /\ lines' = [lines EXCEPT !.read = lines.read + 1, !.evaluated = Append(@, Numbers(text))]

Evaluate(text) ==
    /\ stack' = Below \o <<[Top EXCEPT !.pending = <<>>], Frame("command")>>
    /\ lines' = [lines EXCEPT !.read = lines.read + 1, !.evaluated = Append(@, Numbers(text))]

Line(d) ==
    /\ Running({"interp", "cmdfile"}) /\ Room(1)
    /\ lines.read < MaxLines
    /\ LET text == Append(Top.pending, [n |-> lines.read + 1, d |-> d]) IN
       IF CommandComplete(text) THEN Evaluate(text)
       ELSE /\ stack' = Below \o <<[Top EXCEPT !.pending = text]>>
            /\ lines' = [lines EXCEPT !.read = @ + 1]
    /\ UNCHANGED <<cmds, inits, word, onexit, exiting>>

\* fgets leaves the last line where it was, and it is appended once more.
FileEnds ==
    /\ Running({"cmdfile"}) /\ Room(1)
    /\ LET rest == Top.pending IN
       IF rest = <<>> THEN stack' = Below /\ UNCHANGED lines
       ELSE /\ stack' = Below \o <<[Top EXCEPT !.pending = <<>>, !.eof = TRUE], Frame("command")>>
            /\ lines' = [lines EXCEPT !.evaluated = Append(@, Numbers(Append(rest, Last(rest))))]
    /\ UNCHANGED <<cmds, inits, word, onexit, exiting>>

\* The input ends, or has no whole line: what is typed so far is dropped.
InputEnds ==
    /\ Running({"interp"}) /\ Room(1)
    /\ stack' = IF Top.eof THEN Below \o <<[Top EXCEPT !.pending = <<>>], Frame("eofcmd")>> ELSE Below
    /\ lines' = [lines EXCEPT !.dropped = @ \union ToSet(Numbers(Top.pending))]
    /\ UNCHANGED <<cmds, inits, word, onexit, exiting>>

\* main() exits when its sources have.
End ==
    /\ Running({"end"})
    /\ Exit(<<>>)
    /\ UNCHANGED <<inits, word, lines, onexit>>

MainNext ==
    \/ Expect_Init
    \/ \E option \in {"-c", "-f", "-b", "-i", "-n", "-N"} : Option(option)
    \/ \E first \in {"none", "name", "-"}, stdin \in {"tty", "file"} : ChooseSource(first, stdin)
    \/ Unopened
    \/ LeaveHandlers
    \/ ExitOnexit
    \/ ExitNoexit
    \/ ExitNow
    \/ Override
    \/ \E eof \in BOOLEAN : Interpreter(eof)
    \/ \E code \in Codes : Finish(code)
    \/ \E d \in {-1, 0, 1} : Line(d)
    \/ FileEnds
    \/ InputEnds
    \/ End

MainSpec == MainInit /\ [][MainNext]_mainVars
-----------------------------------------------------------------------------
\* However interpreters nest and end, every line that was read is evaluated once,
\* with the lines before it that it belongs to and in their order; a command that
\* the input ends in is dropped, and at the end of a command file it is evaluated
\* with its last line twice.
LinesOnce ==
    LET done == FlattenSeq(lines.evaluated)
        held == FlattenSeq([k \in DOMAIN stack |-> Numbers(stack[k].pending)])
        Twice(n) == \E k \in 1 .. Len(done) - 1 : done[k] = n /\ done[k + 1] = n
    IN  /\ stack # <<>> => ToSet(done) \union ToSet(held) \union lines.dropped = 1 .. lines.read
        /\ ToSet(done) \intersect (ToSet(held) \union lines.dropped) = {}
        /\ \A j, k \in DOMAIN done : j < k => done[j] < done[k] \/ (k = j + 1 /\ Twice(done[j]))
        /\ \A c \in DOMAIN lines.evaluated :
             LET text == lines.evaluated[c] IN
             Len(text) > 1 /\ text[Len(text)] = text[Len(text) - 1] => word.buffer \/ word.file # "name"

\* However exits nest, the action of exit -onexit and exp_app_exit run once at
\* most, in the process that ends all spawn ids are closed, but when the action
\* itself exits: Tcl has forgotten the handler by then.
EndsOnce ==
    /\ exiting.ran <= 1 /\ exiting.appRan <= 1
    /\ stack = <<>> => exiting.closed \/ exiting.nested
    /\ stack = <<>> /\ onexit.set /\ ~exiting.nested => exiting.expect

=============================================================================
