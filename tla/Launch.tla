------------------------------- MODULE Launch -------------------------------
(***************************************************************************)
(* spawn, from its words to a process: the options (Exp_SpawnObjCmd), the  *)
(* search for the program and what kind of program it is, the environment  *)
(* block and the command line (win/expWinSpawnChan.cpp); and what kill asks  *)
(* of the process afterwards.  Words and files are revealed one at a time, *)
(* when the code comes to look at them.                                    *)
(***************************************************************************)
EXTENDS Integers, SequencesExt

CONSTANTS
    Letters,        \* characters, among them those that have a meaning below
    Files,          \* what a search may find
    Paths,          \* full paths of programs, as sequences of characters
    ArgLists,       \* lists of arguments
    EnvLists        \* lists given to -environment, names and values in turn

bs == "\\"   qt == "quote"   sp == "space"   nul == "nul"   eq == "="
Extensions == <<"", ".com", ".exe", ".bat", ".cmd">>
Subsystems == {"WINDOWS_CUI", "OS2_CUI", "POSIX_CUI", "WINDOWS_GUI", "WINDOWS_CE_GUI",
               "UNKNOWN", "NATIVE", "NATIVE_WINDOWS", "other"}
ExeTypes == {"none", "OS2", "WIN", "WIN386", "DOS4X", "other"}

\* A file that is found has no quote in its name and is no directory.  A NUL in a
\* script's word would end the line, or the variable, for Windows: there is none.
ASSUME LaunchAssumption ==
    /\ Files \subseteq [ext : ToSet(Extensions), readable : BOOLEAN,
                        dos : {"none", "old", "bogus", "new"},
                        sig : {"PE", "NE", "LE", "LX", "W3", "W4", "other"},
                        executable : BOOLEAN, magic : Nat, dll : BOOLEAN,
                        subsystem : Subsystems, exetyp : ExeTypes, driver : BOOLEAN]
    /\ {bs, qt, sp, nul, eq} \subseteq Letters
    /\ Paths \subseteq Seq(Letters)
    /\ \A p \in Paths : p # <<>> /\ qt \notin ToSet(p) /\ p[Len(p)] # bs
    /\ ArgLists \subseteq Seq(Seq(Letters))
    /\ EnvLists \subseteq Seq(Seq(Letters))
    /\ \A e \in ArgLists \union EnvLists : \A k \in 1 .. Len(e) : nul \notin ToSet(e[k])

VARIABLES
    stage,          \* how far the command is
    opts,           \* Exp_SpawnOptionSet, and the name of a channel
    suffix,         \* which extension is tried next
    found,          \* the file the search ended with
    lastError,      \* GetLastError(); "none" as the command starts
    command,        \* what CreateProcess is given, and what was meant
    process         \* the process of the spawn id

launchVars == <<stage, opts, suffix, found, lastError, command, process>>

Ends == {"usage", "failed", "outside", "opened", "spawned"}
NoFile == [ext |-> "", readable |-> FALSE, dos |-> "none", sig |-> "other"]
NoCommand == [line |-> <<>>, block |-> <<>>, path |-> <<>>, args |-> <<>>, env |-> <<>>]
NoProcess == [alive |-> FALSE, event |-> 0]

LaunchInit ==
    /\ stage = "options"
    /\ opts = [pty |-> FALSE, leave |-> FALSE, channel |-> FALSE,
               env |-> FALSE]
    /\ suffix = 1 /\ found = NoFile /\ lastError = "none"
    /\ command = NoCommand /\ process = NoProcess
-----------------------------------------------------------------------------
(***************************************************************************)
(* The words of the command.                                               *)
(***************************************************************************)
Flags == {"-nottyinit", "-nottycopy", "-noecho", "-console", "-pty"}
Valued == {"-open", "-leaveopen", "-environment", "-directory"}

Ended(end, why) == stage' = end /\ lastError' = why /\ UNCHANGED <<opts, suffix, found, command, process>>

Flag(word) ==
    /\ stage = "options"
    /\ opts' = [opts EXCEPT !.pty = @ \/ word = "-pty"]
    /\ UNCHANGED <<stage, suffix, found, lastError, command, process>>

\* env: a list for -environment, whose length must be even.
Value(word, env) ==
    /\ stage = "options"
    /\ IF word = "-environment" /\ Len(env) % 2 = 1 THEN Ended("failed", "usage")
       ELSE /\ opts' = [opts EXCEPT !.channel = @ \/ word \in {"-open", "-leaveopen"},
                                    !.leave = @ \/ word = "-leaveopen",
                                    !.env = @ \/ word = "-environment"]
            /\ command' = IF word = "-environment" THEN [command EXCEPT !.env = env] ELSE command
            /\ UNCHANGED <<stage, suffix, found, lastError, process>>

\* A word with a dash that is no option, and an option without its value.
BadOption == stage = "options" /\ Ended("failed", "usage")

\* The words end, or the next one has no dash.  With -pty and no program the
\* word behind the last is read.
Program(given) ==
    /\ stage = "options"
    /\ IF opts.channel THEN Ended("channel", lastError)
       ELSE IF given THEN Ended("environment", lastError)
       ELSE Ended(IF opts.pty THEN "outside" ELSE "usage", lastError)

\* -open and -leaveopen; the program, if there is one, is not looked at.
Channel(kind) ==
    /\ stage = "channel"
    /\ IF kind \in {"unknown", "neither"} \/ (kind = "standard" /\ ~opts.leave)
       THEN Ended("failed", kind)
       ELSE Ended("opened", lastError)
-----------------------------------------------------------------------------
(***************************************************************************)
(* Exp_CreateSpawnChannel.                                                 *)
(***************************************************************************)
\* Each variable is name=value and a NUL; a NUL ends the block, the string's own
\* in the end.
Env(list) ==
    FlattenSeq([k \in 1 .. Len(list) \div 2 |-> list[2 * k - 1] \o <<eq>> \o list[2 * k] \o <<nul>>])
      \o <<nul>>

Prepare ==
    /\ stage = "environment"
    /\ IF opts.env /\ command.env = <<>> THEN Ended("failed", lastError)
       ELSE /\ stage' = "search"
            /\ command' = IF opts.env THEN [command EXCEPT !.block = Env(command.env)] ELSE command
            /\ UNCHANGED <<opts, suffix, found, lastError, process>>

NONE == 0        BATCH == 1      DOS16 == 2      OS2 == 3       OS2DRV == 4
WIN16 == 5       WIN16DRV == 6   WIN32CUI == 7   WIN32GUI == 8  WIN32DLL == 9
WIN32DRV == 10   WIN64CUI == 11

Portable(f) ==
    LET offset64 == IF f.magic = 64 THEN 4 ELSE 0 IN
    IF ~f.executable THEN <<NONE, "BAD_EXE_FORMAT">>
    ELSE IF f.magic \notin {32, 64} THEN <<NONE, "INVALID_MODULETYPE">>
    ELSE IF f.dll THEN <<WIN32DLL + offset64, "">>
    ELSE CASE f.subsystem \in {"WINDOWS_CUI", "OS2_CUI", "POSIX_CUI"} -> <<WIN32CUI + offset64, "">>
           [] f.subsystem \in {"WINDOWS_GUI", "WINDOWS_CE_GUI"} -> <<WIN32GUI + offset64, "">>
           [] f.subsystem \in {"UNKNOWN", "NATIVE", "NATIVE_WINDOWS"} -> <<WIN32DRV + offset64, "">>
           [] OTHER -> <<NONE, "">>

Segmented(f) ==
    CASE f.exetyp = "OS2" -> <<IF f.driver THEN OS2DRV ELSE OS2, "">>
      [] f.exetyp \in {"WIN", "WIN386"} -> <<IF f.driver THEN WIN16DRV ELSE WIN16, "">>
      [] f.exetyp = "DOS4X" -> <<DOS16, "">>
      [] OTHER -> <<NONE, "INVALID_MODULETYPE">>

\* The type of a file, and the error that is set.
Exp_WinApplicationType(f) ==
    CASE f.ext \in {".bat", ".cmd"} -> <<BATCH, "">>
      [] f.ext \notin {".bat", ".cmd"} /\ ~f.readable -> <<NONE, "READ_FAULT">>
      [] f.ext \notin {".bat", ".cmd"} /\ f.readable ->
           CASE f.dos = "none" -> IF f.ext = ".com" THEN <<DOS16, "">>
                                  ELSE <<NONE, "INVALID_EXE_SIGNATURE">>
             [] f.dos = "old" -> <<DOS16, "">>
             [] f.dos = "bogus" -> <<NONE, "BAD_EXE_FORMAT">>
             [] f.dos = "new" ->
                  CASE f.sig = "PE" -> Portable(f)
                    [] f.sig = "NE" -> Segmented(f)
                    [] f.sig \in {"LE", "LX", "W3", "W4"} -> <<WIN16DRV, "">>
                    [] f.sig = "other" -> <<NONE, "INVALID_EXE_SIGNATURE">>

Refused(type) ==
    CASE type = BATCH -> "CANT_SPAWN_BATCH"
      [] type = DOS16 -> "CANT_SPAWN_DOS16"
      [] OTHER -> "CANT_SPAWN_NONCUI"

\* One extension has no file, or a directory.
Missed(why) ==
    /\ stage = "search"
    /\ lastError' = why
    /\ stage' = IF suffix = Len(Extensions) THEN "failed" ELSE stage
    /\ suffix' = IF suffix = Len(Extensions) THEN suffix ELSE suffix + 1
    /\ UNCHANGED <<opts, found, command, process>>

Found(f) ==
    /\ stage = "search"
    /\ suffix > 1 => f.ext = Extensions[suffix]
    /\ found' = f
    /\ LET type == Exp_WinApplicationType(f)[1]
           why == Exp_WinApplicationType(f)[2]
       IN  /\ stage' = IF type \in {WIN32CUI, WIN64CUI} THEN "start" ELSE "failed"
           /\ lastError' = IF type = NONE THEN (IF why = "" THEN lastError ELSE why)
                           ELSE IF type \in {WIN32CUI, WIN64CUI} THEN lastError
                           ELSE Refused(type)
    /\ UNCHANGED <<opts, suffix, command, process>>

\* One more character before t, which is the end of an argument as it is written:
\* backslashes before a quote count double.
QuotedChar(t, c) ==
    CASE c = qt -> [text |-> <<bs, qt>> \o t.text, double |-> TRUE]
      [] c = bs -> [t EXCEPT !.text = (IF t.double THEN <<bs, bs>> ELSE <<bs>>) \o @]
      [] OTHER -> [text |-> <<c>> \o t.text, double |-> FALSE]

Blank(arg) == arg = <<>> \/ sp \in ToSet(arg)

\* Mutant of Quoted: backslashes before the last quote are single.
QuotedBare(arg) ==
    LET tail == FoldLeft(QuotedChar, [text |-> <<>>, double |-> FALSE], Reverse(arg))
    IN  IF Blank(arg) THEN <<qt>> \o tail.text \o <<qt>> ELSE tail.text

\* One argument, from its end: backslashes there count double if a quote comes.
Quoted(arg) ==
    LET tail == FoldLeft(QuotedChar, [text |-> <<>>, double |-> Blank(arg)], Reverse(arg))
    IN  IF Blank(arg) THEN <<qt>> \o tail.text \o <<qt>> ELSE tail.text

Exp_WinBuildCommandLine(executable, args) ==
    FlattenSeq(<<Quoted(executable)>> \o [k \in DOMAIN args |-> <<sp>> \o Quoted(args[k])])

\* The session's status is known when the constructor returns.
Start(path, args, status) ==
    /\ stage = "start"
    /\ command' = [command EXCEPT !.line = Exp_WinBuildCommandLine(path, args),
                                  !.path = path, !.args = args]
    /\ stage' = IF status = "NO_ERROR" THEN "spawned" ELSE "failed"
    /\ lastError' = IF status = "NO_ERROR" THEN lastError ELSE status
    /\ process' = IF status = "NO_ERROR" THEN [NoProcess EXCEPT !.alive = TRUE] ELSE process
    /\ UNCHANGED <<opts, suffix, found>>
-----------------------------------------------------------------------------
(***************************************************************************)
(* What is asked of a spawned process.                                     *)
(***************************************************************************)
\* Exp_KillCmd: a message to the injector, which may fail, or the end.
Kill(signal) ==
    /\ stage = "spawned"
    /\ \/ UNCHANGED process
       \/ /\ process.alive
          /\ process' = IF signal \in {2, 3} THEN [process EXCEPT !.event = signal]
                        ELSE [process EXCEPT !.alive = FALSE]
    /\ UNCHANGED <<stage, opts, suffix, found, lastError, command>>

LaunchNext ==
    \/ \E word \in Flags : Flag(word)
    \/ \E word \in Valued, env \in EnvLists : Value(word, env)
    \/ BadOption
    \/ \E given \in BOOLEAN : Program(given)
    \/ \E kind \in {"unknown", "neither", "standard", "other"} : Channel(kind)
    \/ Prepare
    \/ \E why \in {"FILE_NOT_FOUND", "ACCESS_DENIED"} : Missed(why)
    \/ \E f \in Files : Found(f)
    \/ /\ stage = "start"
       /\ \E path \in Paths, args \in ArgLists, status \in {"NO_ERROR", "NOT_STARTED"} :
             Start(path, args, status)
    \/ \E signal \in {2, 3, 9} : Kill(signal)

LaunchSpec == LaunchInit /\ [][LaunchNext]_launchVars
-----------------------------------------------------------------------------
(***************************************************************************)
(* What the C run-time library of a program makes of its command line, and *)
(* Windows of an environment block.                                        *)
(***************************************************************************)
\* n: the backslashes seen last, quoted: inside quotes, open: in an argument.
ParseChar(s, c) ==
    LET bare == s.cur \o [k \in 1 .. s.n |-> bs]
        half == s.cur \o [k \in 1 .. s.n \div 2 |-> bs]
    IN  CASE c = bs -> [s EXCEPT !.n = @ + 1, !.open = TRUE]
          [] c = qt -> IF s.n % 2 = 1 THEN [s EXCEPT !.cur = half \o <<qt>>, !.n = 0]
                       ELSE [s EXCEPT !.cur = half, !.n = 0, !.quoted = ~@, !.open = TRUE]
          [] c = sp /\ ~s.quoted ->
               IF s.open THEN [s EXCEPT !.done = @ \o <<bare>>, !.cur = <<>>, !.n = 0, !.open = FALSE]
               ELSE s
          [] OTHER -> [s EXCEPT !.cur = bare \o <<c>>, !.n = 0, !.open = TRUE]

ParseArgs(text) ==
    FoldLeft(ParseChar, [done |-> <<>>, cur |-> <<>>, n |-> 0, quoted |-> FALSE, open |-> FALSE],
             text \o <<sp>>).done

\* The first word: to the next quote, or to the next space; no backslash counts.
FirstEnd(line) ==
    IF line[1] = qt THEN 1 + Min({k \in 2 .. Len(line) : line[k] = qt})
    ELSE Min({k \in 1 .. Len(line) : line[k] = sp} \union {Len(line) + 1})

Arguments(line) ==
    LET end == FirstEnd(line)
        first == IF line[1] = qt THEN SubSeq(line, 2, end - 2) ELSE SubSeq(line, 1, end - 1)
    IN  <<first>> \o ParseArgs(SubSeq(line, end, Len(line)))

StringChar(s, c) ==
    IF c = nul THEN [done |-> s.done \o <<s.cur>>, cur |-> <<>>] ELSE [s EXCEPT !.cur = @ \o <<c>>]

Strings(block) ==
    LET text == SubSeq(block, 1, Min({k \in 1 .. Len(block) - 1 :
                                        block[k] = nul /\ block[k + 1] = nul}))
    IN  FoldLeft(StringChar, [done |-> <<>>, cur |-> <<>>], text).done
-----------------------------------------------------------------------------
\* A process is started only of a console program that can be one, 32 or 64 bits
\* wide; it gets the arguments and the environment that the script gave,
\* whatever spaces, quotes and backslashes are in them; and when spawn fails for
\* what it found, the error that is reported was set for that file, not left from
\* an extension that was tried before: only an executable of a subsystem nobody
\* knows goes unexplained.
ConsoleProgram(f) ==
    /\ f.ext \notin {".bat", ".cmd"} /\ f.readable /\ f.dos = "new" /\ f.sig = "PE"
    /\ f.executable /\ f.magic \in {32, 64} /\ ~f.dll
    /\ f.subsystem \in {"WINDOWS_CUI", "OS2_CUI", "POSIX_CUI"}

Launched ==
    /\ stage \in {"start", "spawned"} => ConsoleProgram(found)
    /\ stage = "spawned" =>
         /\ Arguments(command.line) = <<command.path>> \o command.args
         /\ opts.env => Strings(command.block) =
               [k \in 1 .. Len(command.env) \div 2 |->
                   command.env[2 * k - 1] \o <<eq>> \o command.env[2 * k]]
    /\ stage = "failed" /\ found # NoFile =>
         /\ \/ lastError \notin {"none", "FILE_NOT_FOUND", "ACCESS_DENIED"}
            \/ found.dos = "new" /\ found.sig = "PE" /\ found.subsystem = "other"
         /\ ConsoleProgram(found) => lastError = "NOT_STARTED"
=============================================================================
