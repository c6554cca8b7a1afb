------------------------------ MODULE Debuggee ------------------------------
(***************************************************************************)
(* The libraries of a slave, and how the console debugger finds the        *)
(* functions it sets breakpoints on (win/expWinConsoleDebugger.cpp): the   *)
(* export table of each library is read when it is loaded, the breakpoints *)
(* are set once, at the third breakpoint of the process.  In between the   *)
(* slave may load and unload libraries, and put one elsewhere.             *)
(***************************************************************************)
EXTENDS Integers, Sequences, SequencesExt, Functions

CONSTANTS
    Base,       \* addresses libraries are loaded at
    Image,      \* files of libraries: [name, valid, names, ords, funs]
    Wanted,     \* BreakPoints[]: per library the functions, in order
    MaxLoads,   \* bound: libraries loaded in all
    NoImage     \* nothing is there

ASSUME DebuggeeAssumption ==
    /\ NoImage \notin Image /\ MaxLoads \in Nat
    /\ \A img \in Image : img.names \in Seq(STRING)
    /\ {"kernel32", "user32"} \subseteq DOMAIN Wanted
    /\ \A d \in DOMAIN Wanted : Wanted[d] \in Seq(STRING)

VARIABLES
    loads,      \* libraries loaded so far
    image,      \* per base: the library the slave has there
    funcTable,  \* addresses of the functions known by name
    moduleTable,\* per base: a module, whether its symbols are loaded
    planted,    \* brkptList: [name, at, code], the head last
    broken,     \* addresses whose first byte is the breakpoint opcode
    stepping,   \* the breakpoint a thread is to step over
    phase,      \* of the process
    reported,   \* what the last event put into eQ
    moved,      \* history: names that were met when they were known
    left        \* history: bases a library was unloaded from

dbgeVars == <<loads, image, funcTable, moduleTable, planted, broken, stepping,
              phase, reported, moved, left>>

WantedNames == UNION {Range(Wanted[d]) : d \in DOMAIN Wanted}
Address == Base \X Nat
NoHit == [name |-> "none", at |-> <<>>, code |-> "code"]

DebuggeeInit ==
    /\ loads = 0 /\ image = [b \in Base |-> NoImage]
    /\ funcTable = <<>> /\ moduleTable = <<>>
    /\ planted = <<>> /\ broken = {} /\ stepping = NoHit
    /\ phase = "starts" /\ reported = "NO_ERROR" /\ moved = {} /\ left = {}

\* Where the library at b has the n-th of its names.
Exported(b, img, n) == <<b, img.funs[img.ords[n]]>>
ExportsOf(img) == {img.names[n] : n \in 1 .. Len(img.names)}

\* WriteMasterError
Report(s) == reported' = s
Quiet == reported' = "NO_ERROR"
-----------------------------------------------------------------------------
(***************************************************************************)
(* Libraries.                                                              *)
(***************************************************************************)

\* Mutant of Found: functions are taken to be in the order of their names.
FoundInOrder(b, img) ==
    [f \in ExportsOf(img) |-> <<b, img.funs[CHOOSE n \in 1 .. Len(img.names) : img.names[n] = f]>>]

\* The names of the library, each with the function its ordinal stands for.
Found(b, img) ==
    [f \in ExportsOf(img) |->
        Exported(b, img, CHOOSE n \in 1 .. Len(img.names) : img.names[n] = f)]

\* Hash::Add: a name that is known keeps its address.
AddAll(table, new) ==
    [f \in DOMAIN table \union DOMAIN new |-> IF f \in DOMAIN table THEN table[f] ELSE new[f]]

\* LoadedModule: the base is the key.
LoadedModule(b) == moduleTable' = AddAll(moduleTable, [x \in {b} |-> FALSE])

\* LOAD_DLL_DEBUG_EVENT.  The slave's pointer to the name of the file may be one
\* the debugger cannot read, which it reports.
OnXLoadDll(b, img) ==
    /\ phase \in {"starts", "set"} /\ image[b] = NoImage /\ loads < MaxLoads
    /\ loads' = loads + 1
    /\ image' = [image EXCEPT ![b] = img]
    /\ LoadedModule(b)
    /\ funcTable' = IF img.valid /\ img.name \in DOMAIN Wanted
                    THEN AddAll(funcTable, Found(b, img)) ELSE funcTable
    /\ moved' = moved \union (ExportsOf(img) \intersect DOMAIN funcTable)
    /\ Report("CANT_READ_SUB_MEM") \/ Quiet
    /\ UNCHANGED <<planted, broken, stepping, phase, left>>

\* UNLOAD_DLL_DEBUG_EVENT: the functions stay known, and breakpoints stay listed.
OnXUnloadDll(b) ==
    /\ phase \in {"starts", "set"} /\ image[b] # NoImage /\ stepping = NoHit
    /\ image' = [image EXCEPT ![b] = NoImage]
    /\ broken' = {a \in broken : a[1] # b}
    /\ moduleTable' = [x \in DOMAIN moduleTable \ {b} |-> moduleTable[x]]
    /\ left' = left \union {b}
    /\ Quiet
    /\ UNCHANGED <<loads, funcTable, planted, stepping, phase, moved>>
-----------------------------------------------------------------------------
(***************************************************************************)
(* Breakpoints.                                                            *)
(***************************************************************************)

\* The breakpoint is listed, the byte there saved and replaced; if the one or the
\* other fails it is taken out again.  A failed read is reported.
SetBreakpointAtAddr(st, f, a, writable) ==
    IF image[a[1]] = NoImage THEN [st EXCEPT !.reported = "CANT_READ_SUB_MEM"]
    ELSE IF ~writable THEN st
    ELSE [st EXCEPT !.list = Append(@, [name |-> f, at |-> a,
                        code |-> IF a \in st.broken THEN "brk" ELSE "code"]),
                    !.broken = @ \union {a}]

\* A function no library has told of gets none.
SetBreakpoint(st, f, unwritable) ==
    IF f \notin DOMAIN funcTable THEN st
    ELSE SetBreakpointAtAddr(st, f, funcTable[f], f \notin unwritable)

\* All of them, library by library.  unwritable are those whose page the system
\* will not copy for the debugger.
SetAll(unwritable) ==
    FoldLeft(LAMBDA st, f : SetBreakpoint(st, f, unwritable),
             [list |-> <<>>, broken |-> {}, reported |-> "NO_ERROR"],
             Wanted["kernel32"] \o Wanted["user32"])

\* OnXThirdBreakpoint, from where the injector runs.
OnXThirdBreakpoint == \E unwritable \in SUBSET WantedNames :
    /\ phase = "starts"
    /\ \E st \in {SetAll(unwritable)} :
         planted' = st.list /\ broken' = st.broken /\ reported' = st.reported
    /\ phase' = "set"
    /\ UNCHANGED <<loads, image, funcTable, moduleTable, stepping, moved, left>>

\* Without memory for the stubs it gives up, and the debugger ends.
MakeSubprocessMemoryFails ==
    /\ phase = "starts"
    /\ Report("CANT_MAKE_SUB_MEM") /\ phase' = "over"
    /\ UNCHANGED <<loads, image, funcTable, moduleTable, planted, broken, stepping, moved, left>>

Listed(a) == {i \in 1 .. Len(planted) : planted[i].at = a}

\* OnXBreakpoint at a: the first in the list is the one; its byte is written
\* back for the thread to go on.
OnXBreakpointAt(a) ==
    /\ phase = "set" /\ a \in broken
    /\ stepping = NoHit \/ stepping.at = a
    /\ \E i \in Listed(a) :
         /\ \A j \in Listed(a) : j <= i
         /\ stepping' = planted[i]
         /\ broken' = IF planted[i].code = "brk" THEN broken ELSE broken \ {a}
    /\ Quiet
    /\ UNCHANGED <<loads, image, funcTable, moduleTable, planted, phase, moved, left>>

\* The thread does its instruction, and the opcode is written again.
OnXSingleStepAt ==
    /\ phase = "set" /\ stepping # NoHit /\ stepping.at \notin broken
    /\ broken' = broken \union {stepping.at}
    /\ stepping' = NoHit
    /\ Quiet
    /\ UNCHANGED <<loads, image, funcTable, moduleTable, planted, phase, moved, left>>
-----------------------------------------------------------------------------
(***************************************************************************)
(* The end.                                                                *)
(***************************************************************************)

\* An exception the slave does not handle: the symbols of each module not seen
\* before are loaded and the stack is told, if the symbol engine starts.
OnXSecondChanceException ==
    /\ phase \in {"starts", "set"}
    /\ \/ Report("NO_BACKTRACE") /\ UNCHANGED moduleTable
       \/ /\ Report("BACKTRACE")
          /\ moduleTable' = [b \in DOMAIN moduleTable |-> TRUE]
    /\ phase' = "crashed"
    /\ UNCHANGED <<loads, image, funcTable, planted, broken, stepping, moved, left>>

\* RIP_EVENT
OnXRip ==
    /\ phase \in {"starts", "set"}
    /\ Report("FATAL_RIP") \/ Report("NONFATAL_RIP")
    /\ UNCHANGED <<loads, image, funcTable, moduleTable, planted, broken, stepping,
                   phase, moved, left>>

DebuggeeNext ==
    \/ \E b \in Base : OnXUnloadDll(b) \/ \E img \in Image : OnXLoadDll(b, img)
    \/ OnXThirdBreakpoint \/ MakeSubprocessMemoryFails
    \/ \E a \in broken : OnXBreakpointAt(a)
    \/ OnXSingleStepAt \/ OnXSecondChanceException \/ OnXRip
DebuggeeSpec == DebuggeeInit /\ [][DebuggeeNext]_dbgeVars
-----------------------------------------------------------------------------
(* Properties.                                                             *)

\* Every variable has its type.
DebuggeeTypeOK ==
    /\ image \in [Base -> Image \union {NoImage}]
    /\ loads \in Nat /\ DOMAIN moduleTable \subseteq Base /\ left \subseteq Base
    /\ broken \subseteq Address
    /\ \A i \in 1 .. Len(planted) : planted[i].at \in Address
    /\ phase \in {"starts", "set", "crashed", "over"}

\* Where the libraries the slave has export f.
Homes(f) == {b \in Base : /\ image[b] # NoImage /\ image[b].valid
                          /\ image[b].name \in DOMAIN Wanted /\ f \in ExportsOf(image[b])}

\* A breakpoint is on the function of its name, unless the name was met twice or
\* a library was unloaded from there; the byte it saved is the original one unless
\* two names are one function; and the opcode is where breakpoints are listed and
\* nowhere else, but for the one that is stepped over (OnXLoadDll, SetBreakpoint).
Planted == phase = "set" =>
    /\ broken \subseteq {p.at : p \in Range(planted)}
    /\ \A i \in 1 .. Len(planted) : LET p == planted[i] IN p.at[1] \notin left =>
         /\ p.name \in moved \/ \E b \in Homes(p.name) : \E n \in 1 .. Len(image[b].names) :
                                image[b].names[n] = p.name /\ p.at = Exported(b, image[b], n)
         /\ p.code = "code" \/ \E j \in 1 .. i - 1 : planted[j].at = p.at
         /\ p.at \in broken \/ p.at = stepping.at
==============================================================================
