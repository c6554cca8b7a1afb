------------------------------- MODULE MCCases -------------------------------
(****************************************************************************)
(* Commands and what they work on, on small instances: Cases, Launch, Main, *)
(* Glob, Timestamp and Tty.  They share no state, and how far one is says   *)
(* nothing about the others, so a behaviour is one of the machine in focus, *)
(* and the others wait where they start.                                    *)
(****************************************************************************)
EXTENDS Cases, Launch, Main, MCGlob, Timestamp, Tty

CONSTANTS s1, s2, v

Arg(i, use) == [i |-> i, use |-> use]

\* Every way a spawn id comes to a case: its own -i, that of the case before, the
\* current one, a variable, any_spawn_id, and -i with no case.
Lines == {
    <<>>,
    <<Arg(s1, "pattern")>>,
    <<Arg(s1, None)>>,
    <<Arg(v, None)>>,
    <<Arg(v, "pattern")>>,
    <<Arg(None, "eof")>>,
    <<Arg(AnyId, "pattern")>>,
    <<Arg(s1, "pattern"), Arg(s2, "eof")>>,
    <<Arg(s2, "pattern"), Arg(None, "default")>>,
    <<Arg(v, "eof"), Arg(s1, "timeout")>>,
    <<Arg(None, "pattern"), Arg(v, None)>>}

\* A block with cases on lines of their own, and the same after -brace with a word
\* that fails; one argument that is only a pattern.
MCBlocks == {
    [nl |-> TRUE, switch |-> FALSE, commands |-> <<<<Arg(v, "eof")>>, <<Arg(s1, "timeout")>>>>],
    [nl |-> FALSE, switch |-> TRUE, commands |-> <<<<Arg(s1, "eof"), None>>>>],
    [nl |-> FALSE, switch |-> FALSE, commands |-> <<<<None>>>>]}
-----------------------------------------------------------------------------
\* The files a search may meet: every kind of image, script and damage, one
\* feature at a time.
Image == [ext |-> ".exe", readable |-> TRUE, dos |-> "new", sig |-> "PE", executable |-> TRUE,
          magic |-> 32, dll |-> FALSE, subsystem |-> "WINDOWS_CUI", exetyp |-> "none", driver |-> FALSE]
MCFiles ==
    {[Image EXCEPT !.magic = m, !.dll = d, !.subsystem = s] :
        m \in {0, 32, 64}, d \in BOOLEAN, s \in {"WINDOWS_CUI", "WINDOWS_GUI", "NATIVE", "other"}}
    \union {[Image EXCEPT !.ext = e, !.dos = d] : e \in {"", ".com", ".exe"}, d \in {"none", "old", "bogus", "new"}}
    \union {[Image EXCEPT !.sig = "NE", !.exetyp = t, !.driver = d] :
              t \in {"OS2", "WIN", "DOS4X", "other"}, d \in BOOLEAN}
    \union {[Image EXCEPT !.sig = s] : s \in {"LE", "other"}}
    \union {[Image EXCEPT !.ext = ".bat"], [Image EXCEPT !.ext = ".cmd"],
            [Image EXCEPT !.readable = FALSE], [Image EXCEPT !.executable = FALSE]}

\* One argument of three characters that matter or two of one; a path with a
\* space, one with double backslashes.
MCLetters == {"\\", "quote", "space", "nul", "=", "x"}
Texts(n) == UNION {[1 .. k -> {"\\", "quote", "space", "x"}] : k \in 0 .. n}
MCArgs == {<<a>> : a \in Texts(3)} \union {<<a, b>> : a, b \in Texts(1)}
MCPaths == {<<"x">>, <<"\\", "\\", "x", "\\", "x">>, <<"x", "space", "\\", "x">>}
MCEnv == {<<>>, <<<<"x">>>>, <<<<"x">>, <<>>>>, <<<<"x">>, <<"x", "=">>, <<"x", "x">>, <<"space">>>>}

\* The script has defined a send and an exp_exit, and nothing else.
MCScripted == {{<<"", "send">>, <<"exp_", "exit">>}}

\* Fourteen even years hold every kind: leap or not, and what day they begin with.
MCYears == {2000 + 2 * k : k \in 0 .. 13}
MCFormats == {<<>>, <<"%", "V">>, <<"%", "U", "%", "W">>, <<"%", "r">>, <<"%", "C", "%", "y">>,
    <<"%", "E", "D", "%">>}

\* A word alone, one that is not known, two that undo each other, and what the
\* answers of stty say.
MCSentences ==
    {<<>>} \union {<<w>> : w \in {"raw", "-raw", "echo", "-echo", "other"}}
    \union {<<"echo", "-echo">>, <<"raw", "-echo">>, <<"-raw", "other", "echo">>}
-----------------------------------------------------------------------------
VARIABLE focus      \* the machine that runs

MCInit ==
    /\ focus \in {"cases", "launch", "main", "glob", "stamp", "tty"}
    /\ CasesInit /\ LaunchInit
    /\ StampInit /\ (focus # "stamp" => now = 24 * DaysTo(2000))
    /\ MainInit
    /\ GlobInit /\ (focus # "glob" => case.pieces = <<>> /\ case.front /\ case.end /\ case.nocase)
    /\ TtyInit
    /\ (focus # "tty" => tty.handles = {} /\ ~tty.initialized /\ consoleMode \in [Sides -> {{}}])

CasesStep ==
    /\ focus = "cases" /\ CasesNext
    /\ UNCHANGED <<launchVars, mainVars, globVars, stampVars, ttyVars, focus>>
LaunchStep ==
    /\ focus = "launch" /\ LaunchNext
    /\ UNCHANGED <<casesVars, mainVars, globVars, stampVars, ttyVars, focus>>
MainStep ==
    /\ focus = "main" /\ MainNext
    /\ UNCHANGED <<casesVars, launchVars, globVars, stampVars, ttyVars, focus>>
GlobStep ==
    /\ focus = "glob" /\ GlobNext
    /\ UNCHANGED <<casesVars, launchVars, mainVars, stampVars, ttyVars, focus>>

StampStep ==
    /\ focus = "stamp" /\ StampNext
    /\ UNCHANGED <<casesVars, launchVars, mainVars, globVars, ttyVars, focus>>

TtyStep ==
    /\ focus = "tty" /\ TtyNext
    /\ UNCHANGED <<casesVars, launchVars, mainVars, globVars, stampVars, focus>>

MCNext == CasesStep \/ LaunchStep \/ MainStep \/ GlobStep \/ StampStep \/ TtyStep

MCSpec == MCInit /\ [][MCNext]_<<casesVars, launchVars, mainVars, globVars, stampVars, ttyVars, focus>>
=============================================================================
