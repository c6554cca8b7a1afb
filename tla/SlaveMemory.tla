----------------------------- MODULE SlaveMemory -----------------------------
(***************************************************************************)
(* How the console debugger gets at the memory of a slave                  *)
(* (win/expWinConsoleDebugger.cpp): pages that forbid it are opened for    *)
(* the moment and closed again.  An access takes a run of neighbouring     *)
(* pages; what the debugger asks the system about is the first.            *)
(***************************************************************************)
EXTENDS Integers, FiniteSets

CONSTANT Page       \* neighbouring pages of the slave, numbered upwards

ASSUME SlaveMemoryAssumption == Page \subseteq Nat /\ \A p, q \in Page : p .. q \subseteq Page

VARIABLES
    prot,       \* per page: its protection, or that it is not committed
    answer,     \* what the last access said
    filled,     \* whether it got what it asked for
    mixed       \* history: an access met pages of different protection

memVars == <<prot, answer, filled, mixed>>

\* "rw+guard" raises an exception when touched, which ends the guard.
Committed == {"none", "r", "rw", "rw+guard", "x", "xr", "xrw"}
Protections == Committed \union {"free"}

MemInit ==
    /\ prot \in [Page -> {"free", "rw"}]
    /\ answer = "none" /\ filled = FALSE /\ mixed = FALSE

Runs == {p .. q : p, q \in Page} \ {{}}
FirstOf(ps) == CHOOSE p \in ps : \A q \in ps : p <= q

\* What VirtualProtectEx makes of the pages ps: all or nothing.
MayProtect(pr, ps) == \A p \in ps : pr[p] # "free"
Protect(pr, ps, to) == [p \in DOMAIN pr |-> IF p \in ps THEN to ELSE pr[p]]

\* ReadProcessMemory and WriteProcessMemory fail if any page forbids it.  The
\* latter opens code it may read by itself.
CanRead == {"r", "rw", "xr", "xrw"}
CanWrite == {"rw", "xrw"}

\* Mutant of Restore: only the first page is closed again.
RestoreFirst(pr, ps, old) == Protect(pr, {FirstOf(ps)}, old)

\* Afterwards all pages get the protection the first one had.
Restore(pr, ps, old) == Protect(pr, ps, old)

\* An access to ps, all of which must be one of can: unless the first is one of
\* asis, all are opened.
Access(pr, ps, asis, open, can) ==
    LET change == pr[FirstOf(ps)] \notin asis /\ MayProtect(pr, ps)
        now == IF change THEN Protect(pr, ps, open) ELSE pr
    IN [pages |-> IF change THEN Restore(now, ps, pr[FirstOf(ps)]) ELSE pr,
        changed |-> change, done |-> \A p \in ps : now[p] \in can]

\* PAGE_GUARD is a bit besides PAGE_READWRITE.  A failure counts only if the
\* protection was changed.
ReadSubprocessMemory(pr, ps) ==
    IF pr[FirstOf(ps)] = "free" THEN [pages |-> pr, ok |-> FALSE, got |-> FALSE]
    ELSE LET a == Access(pr, ps, {"r", "rw", "rw+guard"}, "r", CanRead)
         IN [pages |-> a.pages, ok |-> a.done \/ ~a.changed, got |-> a.done]

\* If the protection cannot be changed nothing is written.
WriteSubprocessMemory(pr, ps) ==
    IF \/ pr[FirstOf(ps)] = "free"
       \/ pr[FirstOf(ps)] \notin {"rw", "rw+guard", "xrw"} /\ ~MayProtect(pr, ps)
    THEN [pages |-> pr, ok |-> FALSE, got |-> FALSE]
    ELSE LET a == Access(pr, ps, {"rw", "rw+guard", "xrw"}, "rw", CanWrite)
         IN [pages |-> a.pages, ok |-> a.done, got |-> a.done]
-----------------------------------------------------------------------------
Mixed(ps) == mixed \/ \E p, q \in ps : prot[p] # prot[q]

Answer(r) == /\ answer' = IF r.ok THEN "yes" ELSE "no"
             /\ filled' = r.got /\ prot' = r.pages

\* A handler reads an argument or what one points to; the slave chose where.
ReadArgument == \E ps \in Runs :
    /\ Answer(ReadSubprocessMemory(prot, ps))
    /\ mixed' = Mixed(ps)

\* It writes to the stack or to code.
WriteByte == \E p \in Page :
    /\ Answer(WriteSubprocessMemory(prot, {p}))
    /\ UNCHANGED mixed

\* ReadSubprocessStringA/W, for the text of OUTPUT_DEBUG_STRING_EVENT: one
\* character after the other, until one cannot be read or is the last.
ReadSubprocessString == \E ps \in Runs :
    LET read == {p \in ps : \A q \in FirstOf(ps) .. p : ReadSubprocessMemory(prot, {q}).ok}
    IN /\ answer' = "yes"
       /\ filled' = \A p \in ps : ReadSubprocessMemory(prot, {p}).got
       /\ prot' = [p \in Page |-> IF p \in read
                     THEN ReadSubprocessMemory(prot, {p}).pages[p] ELSE prot[p]]
       /\ UNCHANGED mixed

\* The slave allocates, frees and protects its pages.
SlaveProtects == \E p \in Page, to \in Protections :
    /\ prot' = [prot EXCEPT ![p] = to]
    /\ mixed' = FALSE /\ answer' = "none" /\ filled' = FALSE

MemNext == ReadArgument \/ WriteByte \/ ReadSubprocessString \/ SlaveProtects
MemSpec == MemInit /\ [][MemNext]_memVars
-----------------------------------------------------------------------------
(* Properties.                                                             *)

\* Every variable has its type.
MemTypeOK ==
    /\ prot \in [Page -> Protections]
    /\ answer \in {"none", "yes", "no"}
    /\ filled \in BOOLEAN /\ mixed \in BOOLEAN

\* An access of the debugger leaves the pages as the slave had them, also when it
\* fails half way, if they all had the same protection; and says no only if it
\* got nothing.
Undisturbed == [][answer' # "none" =>
    /\ prot' = prot \/ mixed'
    /\ filled' => answer' = "yes"]_memVars

\* "TRUE if successful" (expWinConsoleDebugger.cpp:1709): an access that says yes
\* got all it asked for.
YesIsRight == answer = "yes" => filled
==============================================================================
