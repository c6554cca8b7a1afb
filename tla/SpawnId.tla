------------------------------- MODULE SpawnId -------------------------------
(***************************************************************************)
(* The life of a spawn id (struct ExpState) on the one thread Tcl runs on: *)
(* spawn, close, wait, the lists expect_background and expect_before keep  *)
(* of it, the background handler and the foreground expect.                *)
(*                                                                         *)
(* There is no parallelism here; what interleaves is the C stack.  The     *)
(* body of a pattern is a script that may run any command, enter the event *)
(* loop and so call a handler while the handler or the expect below it is  *)
(* still at work.  "stack" holds these activations; the top one moves.     *)
(* A command that evaluates no script is one step.                         *)
(***************************************************************************)
EXTENDS Integers, Sequences, FiniteSets, QueueOps

CONSTANTS
    Ids,        \* spawn ids; names are never used twice (expIds++)
    Vars,       \* Tcl variables used as indirect spawn ids
    Commands,   \* what the scripts of the instance do
    MaxDepth,   \* bound: activations on the C stack
    MaxCount,   \* bound: bg_ecount, in the commands that make it drift
    Nobody      \* NULL

ASSUME SpawnIdAssumption ==
    /\ Commands \subseteq {"close", "tclclose", "wait", "background", "indirect",
                           "before", "expect", "update"}
    /\ Nobody \notin Ids
    /\ IsFiniteSet(Ids) /\ IsFiniteSet(Vars)
    /\ MaxDepth \in Nat /\ MaxCount \in Nat

VARIABLES
    es,         \* per spawn id: its ExpState
    chain,      \* tsdPtr->firstExpPtr and the nextPtr of those linked
    bgDirect,   \* spawn ids in a direct i_list of expect_background
    bgNamed,    \* variables with an i_list of expect_background
    bgVar,      \* per variable: state_list of that i_list
    value,      \* per variable: the spawn ids it names
    before,     \* spawn ids in the i_lists of expect_before
    stack,      \* activations, the innermost first
    fault       \* where a freed ExpState was read, or "none"

idVars == <<es, chain, bgDirect, bgNamed, bgVar, value, before, stack, fault>>
lists == <<bgDirect, bgNamed, bgVar, value, before>>

Blocked == {"blocked", "disarm_req_while_blocked"}
Status == Blocked \cup {"unarmed", "armed"}

ExpState == [mem : {"unused", "live", "freed"}, open : BOOLEAN, registered : BOOLEAN,
             user_waited : BOOLEAN, bg_status : Status, bg_ecount : Int,
             bg_interp : BOOLEAN, freeWhenBgHandlerUnblocked : BOOLEAN,
             handler : BOOLEAN,      \* Tcl calls the background handler
             buffered : BOOLEAN,     \* the match buffer is not empty
             nextPtr : Ids \cup {Nobody}]   \* once unlinked from the chain

Unused == [mem |-> "unused", open |-> FALSE, registered |-> FALSE, user_waited |-> FALSE,
           bg_status |-> "unarmed", bg_ecount |-> 0, bg_interp |-> FALSE,
           freeWhenBgHandlerUnblocked |-> FALSE, handler |-> FALSE,
           buffered |-> FALSE, nextPtr |-> Nobody]

\* Nothing can be said of the fields of freed memory.
Gone == [Unused EXCEPT !.mem = "freed"]

IdInit ==
    /\ es = [i \in Ids |-> Unused]
    /\ chain = <<>>
    /\ bgDirect = {} /\ before = {}
    /\ bgNamed = {}
    /\ bgVar = [v \in Vars |-> {}]
    /\ value = [v \in Vars |-> {}]
    /\ stack = <<>>
    /\ fault = "none"

Usable(i) == es[i].registered /\ es[i].open
Freed(i) == es[i].mem = "freed"

\* nextPtr of an ExpState whose memory is still there.
NextPtr(i) == LET at == {k \in DOMAIN chain : chain[k] = i}
            IN  IF at = {} THEN es[i].nextPtr
                ELSE LET k == CHOOSE k \in at : TRUE
                     IN  IF k = Len(chain) THEN Nobody ELSE chain[k + 1]

\* The indirect i_lists of expect_background that name i.
VarsOf(i) == {v \in bgNamed : i \in bgVar[v]}
Occurrences(i) == Cardinality(VarsOf(i)) + IF i \in bgDirect THEN 1 ELSE 0
HasCases(i) == Occurrences(i) > 0 \/ i \in before
-----------------------------------------------------------------------------
(* bg_status: the functions of exp_event.c, on one ExpState.               *)

ArmForce(r) == [r EXCEPT !.bg_status = "armed", !.handler = TRUE]

ArmHandler(r) == CASE r.bg_status = "unarmed" -> ArmForce(r)
            [] r.bg_status = "disarm_req_while_blocked" -> [r EXCEPT !.bg_status = "blocked"]
            [] OTHER -> r

DisarmForce(r) == [r EXCEPT !.bg_status = "unarmed", !.handler = FALSE]

Disarm(r) == CASE r.bg_status = "blocked" -> [r EXCEPT !.bg_status = "disarm_req_while_blocked"]
               [] r.bg_status = "armed" -> DisarmForce(r)
               [] OTHER -> r

\* Mutant of Unblock: the request made while the handler ran is forgotten.
UnblockForgetful(r) == IF r.bg_status \in Blocked THEN ArmForce(r) ELSE r

Unblock(r) == CASE r.bg_status = "blocked" -> ArmForce(r)
                [] r.bg_status = "disarm_req_while_blocked" -> DisarmForce(r)
                [] OTHER -> r

\* Mutant of BlockHandler: the channel handler is not deleted.
BlockKeepsHandler(r) == [r EXCEPT !.bg_status = "blocked"]

BlockHandler(r) == [r EXCEPT !.bg_status = "blocked", !.handler = FALSE]

\* One occurrence in the i_lists less; the last one disarms.
Dropped(r) == LET s == [r EXCEPT !.bg_ecount = @ - 1]
              IN  IF s.bg_ecount = 0 THEN [Disarm(s) EXCEPT !.bg_interp = FALSE] ELSE s

\* The same in exp_indirect_update1, which does not trust the count.
Released(r) ==
    LET s == IF r.bg_ecount > 0 THEN [r EXCEPT !.bg_ecount = @ - 1] ELSE r
    IN  IF ~r.open THEN r
        ELSE IF s.bg_ecount = 0 THEN [Disarm(s) EXCEPT !.bg_interp = FALSE] ELSE s

StateListArm(r) ==
    LET s == IF r.bg_ecount = 0 THEN [ArmHandler(r) EXCEPT !.bg_interp = TRUE] ELSE r
    IN  [s EXCEPT !.bg_ecount = @ + 1]

\* ExpChanClose: Tcl closes the channel and with it deletes its handlers.
\* In the middle of a background handler the memory is left to that handler.
ChanClosed(r, next) ==
    LET s == [r EXCEPT !.registered = FALSE, !.handler = FALSE, !.nextPtr = next]
    IN  IF r.bg_status \in Blocked THEN [s EXCEPT !.freeWhenBgHandlerUnblocked = TRUE]
        ELSE Gone

\* exp_close up to the point where the channel may be unregistered: the
\* occurrences are dropped one by one, then the handler is disarmed for good.
Shut(r, n) == DisarmForce([r EXCEPT !.open = FALSE, !.bg_ecount = @ - n,
                                    !.bg_interp = @ /\ r.bg_ecount \notin 1..n])
-----------------------------------------------------------------------------
(* Steps that several commands share.                                      *)

\* exp_close of i, whose ExpState is r: refused if closed already; else every
\* i_list forgets i, and what a wait has claimed is unregistered at once.
ExpClosed(i, r) ==
    LET s == Shut(r, Occurrences(i))
        gone == s.user_waited /\ s.registered
    IN  IF ~r.open THEN es' = [es EXCEPT ![i] = r] /\ UNCHANGED <<chain, lists>>
        ELSE /\ es' = [es EXCEPT ![i] = IF gone THEN ChanClosed(s, NextPtr(i)) ELSE s]
             /\ chain' = IF gone THEN Without(chain, i) ELSE chain
             /\ bgDirect' = bgDirect \ {i}
             /\ before' = before \ {i}
             /\ bgVar' = [v \in Vars |-> bgVar[v] \ {i}]
             /\ UNCHANGED <<bgNamed, value>>

\* exp_configure_count++, seen by the expects below.
Reconfigured(s) == [k \in DOMAIN s |->
    IF s[k].kind = "expect" THEN [s[k] EXCEPT !.stale = TRUE] ELSE s[k]]
AfterClose(i, s) == IF es[i].open THEN Reconfigured(s) ELSE s

\* The activations of the C stack.
HandlerActs == [kind : {"handler"}, id : Ids, pc : {"cases", "body", "after", "finish"},
                cc : {"data", "eof", "error"}]
RunAllActs == [kind : {"runall"}, id : Ids \cup {Nobody}] \cup [kind : {"runall_next"}, id : Ids]
ExpectActs == [kind : {"expect"}, eg : SUBSET Ids, states : SUBSET Ids,
               pc : {"update", "poll", "turn", "body"}, stale : BOOLEAN]
Activation == HandlerActs \cup RunAllActs \cup ExpectActs

Handler(i, pc, cc) == [kind |-> "handler", id |-> i, pc |-> pc, cc |-> cc]
RunAll(i) == [kind |-> "runall", id |-> i]
Expecting(eg, states, pc, stale) ==
    [kind |-> "expect", eg |-> eg, states |-> states, pc |-> pc, stale |-> stale]

Top(k) == stack # <<>> /\ Head(stack).kind = k /\ fault = "none"
Pop == stack' = Tail(stack)
Goto(pc) == stack' = <<[Head(stack) EXCEPT !.pc = pc]>> \o Tail(stack)
Room == Len(stack) < MaxDepth

\* A script runs: the program itself, or the body of a case that matched.
ScriptRuns ==
    /\ fault = "none"
    /\ stack # <<>> => Head(stack).kind \in {"handler", "expect"} /\ Head(stack).pc = "body"
May(c) == ScriptRuns /\ c \in Commands

\* exp_background_channelhandlers_run_all begins at the head of the chain.
PushRunAll(s) == IF chain = <<>> THEN s ELSE <<RunAll(Head(chain))>> \o s
-----------------------------------------------------------------------------
(* Commands.                                                               *)

\* spawn: Exp_CreateExpChannel links the new ExpState at the head.
Spawn(i) ==
    /\ ScriptRuns
    /\ es[i].mem = "unused"
    /\ es' = [es EXCEPT ![i] = [Unused EXCEPT !.mem = "live", !.open = TRUE, !.registered = TRUE]]
    /\ chain' = <<i>> \o chain
    /\ UNCHANGED <<lists, stack, fault>>

\* close -i: refused once closed.
CloseId(i) ==
    /\ May("close")
    /\ Usable(i)
    /\ ExpClosed(i, es[i])
    /\ stack' = AfterClose(i, stack)
    /\ UNCHANGED fault

\* close with a channel name is passed on to Tcl's own close.
TclClose(i) ==
    /\ May("tclclose")
    /\ es[i].registered
    /\ es' = [es EXCEPT ![i] = ChanClosed(@, NextPtr(i))]
    /\ chain' = Without(chain, i)
    /\ UNCHANGED <<lists, stack, fault>>

\* Mutant of Wait: a spawn id that was closed before stays registered.
WaitOnly(i) ==
    /\ May("wait")
    /\ es[i].registered
    /\ es' = [es EXCEPT ![i].user_waited = TRUE]
    /\ UNCHANGED <<chain, lists, stack, fault>>

\* wait -i, with or without -nowait: what is closed already is forgotten.
Wait(i) ==
    /\ May("wait")
    /\ es[i].registered
    /\ LET r == [es[i] EXCEPT !.user_waited = TRUE]
       IN  IF es[i].open
           THEN es' = [es EXCEPT ![i] = r] /\ UNCHANGED chain
           ELSE /\ es' = [es EXCEPT ![i] = ChanClosed(r, NextPtr(i))]
                /\ chain' = Without(chain, i)
    /\ UNCHANGED <<lists, stack, fault>>

\* expect_background -i <ids> [cases]: leaves the old direct i_lists; with
\* cases it enters a new one; then whatever is buffered is matched.
BackgroundDirect(S, cases) ==
    /\ May("background")
    /\ Room
    /\ \A i \in S : Usable(i) /\ es[i].bg_ecount < MaxCount
    /\ LET left(i) == IF i \in bgDirect THEN Dropped(es[i]) ELSE es[i]
       IN  es' = [i \in Ids |-> IF i \notin S THEN es[i]
                                ELSE IF cases THEN StateListArm(left(i)) ELSE left(i)]
    /\ bgDirect' = IF cases THEN bgDirect \cup S ELSE bgDirect \ S
    /\ stack' = PushRunAll(stack)
    /\ UNCHANGED <<chain, bgNamed, bgVar, value, before, fault>>

\* expect_background -i <variable> [cases]: an older i_list of the variable is
\* freed as it is; the new one is brought up to date by exp_indirect_update1,
\* which first releases what it holds already from being parsed.
BackgroundIndirect(v, cases) ==
    /\ May("indirect")
    /\ Room
    /\ \A i \in value[v] : Usable(i) /\ es[i].bg_ecount < MaxCount
    /\ es' = [i \in Ids |-> IF cases /\ i \in value[v]
                            THEN StateListArm(Released(es[i])) ELSE es[i]]
    /\ bgNamed' = IF cases THEN bgNamed \cup {v} ELSE bgNamed \ {v}
    /\ bgVar' = [bgVar EXCEPT ![v] = IF cases THEN value[v] ELSE {}]
    /\ stack' = PushRunAll(stack)
    /\ UNCHANGED <<chain, bgDirect, value, before, fault>>

\* The state_list exp_i_update leaves for a new value: unchanged if the text is
\* the same, all of it, or what comes before a name that is not usable.
Parsed(v, S) ==
    IF S = value[v] THEN {bgVar[v]}
    ELSE IF \A i \in S : Usable(i) THEN {S} ELSE SUBSET {i \in S : Usable(i)}

\* set <variable>: the write trace, exp_indirect_update2.
SetVar(v, S) ==
    /\ May("indirect")
    /\ v \notin bgNamed
    /\ value' = [value EXCEPT ![v] = S]
    /\ UNCHANGED <<es, chain, bgDirect, bgNamed, bgVar, before, stack, fault>>

SetTraced(v, S) ==
    /\ May("indirect")
    /\ v \in bgNamed
    /\ Room
    /\ \A i \in S : es[i].bg_ecount < MaxCount
    /\ value' = [value EXCEPT ![v] = S]
    /\ IF \E i \in bgVar[v] : Freed(i) \/ (S = value[v] /\ ~es[i].registered)
       THEN fault' = "indirect" /\ UNCHANGED <<es, bgVar, stack>>
       ELSE /\ \E now \in Parsed(v, S) :
                 LET left(i) == IF i \in bgVar[v] THEN Released(es[i]) ELSE es[i]
                 IN  /\ es' = [i \in Ids |-> IF i \in now THEN StateListArm(left(i)) ELSE left(i)]
                     /\ bgVar' = [bgVar EXCEPT ![v] = now]
            /\ stack' = PushRunAll(Reconfigured(stack))
            /\ UNCHANGED fault
    /\ UNCHANGED <<chain, bgDirect, bgNamed, before>>

\* expect_before -i <ids> [cases].
ExpectBefore(S, cases) ==
    /\ May("before")
    /\ \A i \in S : Usable(i)
    /\ before' = IF cases THEN before \cup S ELSE before \ S
    /\ UNCHANGED <<es, chain, bgDirect, bgNamed, bgVar, value, stack, fault>>
-----------------------------------------------------------------------------
(* The background handler.                                                 *)

\* exp_background_channelhandler begins: it blocks itself and, unless it was
\* called because the patterns changed (mask 0), reads.  An error closes.
Enter(i, s, masks) ==
    \E mask \in masks, cc \in {"data", "nodata", "eof", "error"} :
        /\ mask = 0 => cc = "nodata"
        /\ IF cc = "error"
           THEN /\ ExpClosed(i, BlockHandler(es[i]))
                /\ stack' = <<Handler(i, "finish", cc)>> \o AfterClose(i, s)
           ELSE /\ es' = [es EXCEPT ![i] = [BlockHandler(es[i]) EXCEPT !.buffered = @ \/ cc = "data"]]
                /\ stack' = <<Handler(i, "cases", IF cc = "eof" THEN "eof" ELSE "data")>> \o s
                /\ UNCHANGED <<chain, lists>>
        /\ UNCHANGED fault

\* Tcl calls the handler of a readable channel: from the program's event
\* loop, from update or vwait in a body, or from the turn expect takes.
Event(i) ==
    /\ Room
    /\ es[i].handler
    /\ \/ May("update") /\ Enter(i, stack, {1})
       \/ /\ Top("expect") /\ Head(stack).pc = "poll"
          /\ Enter(i, <<[Head(stack) EXCEPT !.pc = "turn"]>> \o Tail(stack), {1})

\* One element of the chain; the pointer to the next one is read after the
\* handler returned.
RunAllCall ==
    /\ Top("runall")
    /\ Head(stack).id # Nobody
    /\ LET i == Head(stack).id
       IN  /\ ~Freed(i)
           /\ es[i].bg_interp /\ es[i].buffered
           /\ Room
           /\ Enter(i, <<[kind |-> "runall_next", id |-> i]>> \o Tail(stack), {0})

RunAllSkip ==
    /\ Top("runall")
    /\ LET i == Head(stack).id
       IN  IF i = Nobody THEN Pop
           ELSE /\ ~Freed(i) /\ ~(es[i].bg_interp /\ es[i].buffered)
                /\ stack' = <<RunAll(NextPtr(i))>> \o Tail(stack)
    /\ UNCHANGED <<es, chain, lists, fault>>

RunAllNext ==
    /\ Top("runall_next")
    /\ LET i == Head(stack).id
       IN  IF Freed(i) THEN fault' = "runall" /\ UNCHANGED stack
           ELSE stack' = <<RunAll(NextPtr(i))>> \o Tail(stack) /\ UNCHANGED fault
    /\ UNCHANGED <<es, chain, lists>>

AtCases(cc) == Top("handler") /\ Head(stack).pc = "cases" /\ Head(stack).cc = cc

\* No case matched: nothing is consumed.
NoMatch ==
    /\ AtCases("data")
    /\ Goto("finish")
    /\ UNCHANGED <<es, chain, lists, fault>>

\* expMatchProcess: the matched characters leave the buffer, the body begins.
Match ==
    /\ AtCases("data")
    /\ LET i == Head(stack).id
       IN  /\ HasCases(i) /\ es[i].buffered
           /\ \E left \in BOOLEAN : es' = [es EXCEPT ![i].buffered = left]
    /\ Goto("body")
    /\ UNCHANGED <<chain, lists, fault>>

\* expMatchProcess at end of file (close_on_eof, the default): all characters
\* leave the buffer, the spawn id is closed, then the body of an eof case runs.
MatchEof ==
    /\ AtCases("eof")
    /\ LET i == Head(stack).id
           s == AfterClose(i, stack)
       IN  /\ ExpClosed(i, es[i])
           /\ \E pc \in (IF HasCases(i) THEN {"body", "after"} ELSE {"after"}) :
                 stack' = <<[Head(s) EXCEPT !.pc = pc]>> \o Tail(s)
    /\ UNCHANGED fault

\* Mutant of Checked: the name is not looked up again.
CheckedNever(i) == TRUE

\* "First check that the esPtr is even still valid!"
Checked(i) == es[i].registered

\* exp_unblock_background_channelhandler; free what was left to the handler.
Finished(r) == LET s == Unblock(r)
               IN  IF s.freeWhenBgHandlerUnblocked THEN Gone ELSE s

\* The body returned.
After ==
    /\ Top("handler")
    /\ Head(stack).pc \in {"body", "after"}
    /\ LET i == Head(stack).id
       IN  IF ~Checked(i) THEN Pop /\ UNCHANGED <<es, fault>>
           ELSE IF Freed(i) THEN fault' = "handler" /\ UNCHANGED <<es, stack>>
           ELSE IF es[i].bg_status = "blocked" /\ ~es[i].freeWhenBgHandlerUnblocked
                   /\ es[i].buffered
           THEN /\ stack' = <<Handler(i, "cases", "data")>> \o Tail(stack)
                /\ UNCHANGED <<es, fault>>
           ELSE Pop /\ es' = [es EXCEPT ![i] = Finished(@)] /\ UNCHANGED fault
    /\ UNCHANGED <<chain, lists>>

Finish ==
    /\ Top("handler")
    /\ Head(stack).pc = "finish"
    /\ LET i == Head(stack).id
       IN  IF Freed(i) THEN fault' = "finish" /\ UNCHANGED <<es, stack>>
           ELSE Pop /\ es' = [es EXCEPT ![i] = Finished(@)] /\ UNCHANGED fault
    /\ UNCHANGED <<chain, lists>>
-----------------------------------------------------------------------------
(* The foreground expect.  It looks at the match buffers of its spawn ids, *)
(* which ExpChanClose releases even when it leaves the ExpState for later. *)

\* expect -i <ids>: parse_expect_args refuses what is not usable.
Expect(S) ==
    /\ May("expect")
    /\ Room
    /\ \A i \in S : Usable(i)
    /\ stack' = <<Expecting(S, {}, "update", FALSE)>> \o stack
    /\ UNCHANGED <<es, chain, lists, fault>>

\* restart_with_update: the union of the lists is added to what state_list
\* holds, and every member is checked; a closed one ends the command.
Update ==
    /\ Top("expect")
    /\ Head(stack).pc = "update"
    /\ LET e == Head(stack)
           all == e.states \cup before \cup e.eg
       IN  \/ /\ \E i \in all : ~es[i].registered
              /\ fault' = "expect" /\ UNCHANGED stack
           \/ /\ \E i \in all : es[i].registered /\ ~es[i].open
              /\ Pop /\ UNCHANGED fault
           \/ /\ \A i \in all : Usable(i)
              /\ stack' = <<Expecting(e.eg, all, "poll", FALSE)>> \o Tail(stack)
              /\ UNCHANGED fault
    /\ UNCHANGED <<es, chain, lists>>

\* exp_get_next_event goes through its array.
PollFreed ==
    /\ Top("expect")
    /\ Head(stack).pc = "poll"
    /\ \E i \in Head(stack).states : ~es[i].registered
    /\ fault' = "expect"
    /\ UNCHANGED <<es, chain, lists, stack>>

\* Data of a watched spawn id: it stays, or a case takes some and its body runs.
PollData ==
    /\ Top("expect")
    /\ Head(stack).pc = "poll"
    /\ \E i \in Head(stack).states, left \in BOOLEAN :
         /\ es[i].registered
         /\ es' = [es EXCEPT ![i].buffered = left]
         /\ \/ left /\ UNCHANGED stack
            \/ Goto("body")
    /\ UNCHANGED <<chain, lists, fault>>

\* End of file, or a read error: the spawn id is closed; after an error, and
\* without an eof case, there is no body.
PollEof ==
    /\ Top("expect")
    /\ Head(stack).pc = "poll"
    /\ \E i \in Head(stack).states :
         LET s == AfterClose(i, stack)
         IN  /\ es[i].registered
             /\ ExpClosed(i, es[i])
             /\ \/ stack' = <<[Head(s) EXCEPT !.pc = "body"]>> \o Tail(s)
                \/ stack' = Tail(s)
    /\ UNCHANGED fault

\* The time is up: before anything else is looked at, a turn of the event loop
\* included.
Timeout ==
    /\ Top("expect")
    /\ Head(stack).pc \in {"poll", "turn"}
    /\ Goto("body") \/ Pop
    /\ UNCHANGED <<es, chain, lists, fault>>

\* Tcl_DoOneEvent returned: EXP_RECONFIGURE if anything was closed meanwhile.
\* state_list is kept.
Turned ==
    /\ Top("expect")
    /\ Head(stack).pc = "turn"
    /\ Goto(IF Head(stack).stale THEN "update" ELSE "poll")
    /\ UNCHANGED <<es, chain, lists, fault>>

\* The body returned: the command ends, or exp_continue starts it again, with
\* a new state_list if the configuration changed.
BodyDone ==
    /\ Top("expect")
    /\ Head(stack).pc = "body"
    /\ \/ Pop
       \/ IF Head(stack).stale
          THEN stack' = <<Expecting(Head(stack).eg, {}, "update", FALSE)>> \o Tail(stack)
          ELSE Goto("poll")
    /\ UNCHANGED <<es, chain, lists, fault>>

IdNext ==
    \/ \E i \in Ids : Spawn(i) \/ CloseId(i) \/ TclClose(i) \/ Wait(i) \/ Event(i)
    \/ \E S \in (SUBSET Ids) \ {{}}, cases \in BOOLEAN :
         BackgroundDirect(S, cases) \/ ExpectBefore(S, cases)
    \/ \E v \in Vars, cases \in BOOLEAN : BackgroundIndirect(v, cases)
    \/ \E v \in Vars, S \in SUBSET Ids : SetVar(v, S) \/ SetTraced(v, S)
    \/ \E S \in (SUBSET Ids) \ {{}} : Expect(S)
    \/ RunAllCall \/ RunAllSkip \/ RunAllNext
    \/ NoMatch \/ Match \/ MatchEof \/ After \/ Finish
    \/ Update \/ PollFreed \/ PollData \/ PollEof \/ Timeout \/ Turned \/ BodyDone

IdSpec == IdInit /\ [][IdNext]_idVars
-----------------------------------------------------------------------------
(* Properties.                                                             *)

Running(i) == \E k \in DOMAIN stack : stack[k].kind = "handler" /\ stack[k].id = i

\* Every variable has its type; bg_ecount drifts below zero by one for each
\* variable at most (expect.c:1049-1056, 2055-2079), and every registered spawn
\* id is in the chain exactly once (exp_chan.c:116-117, 253-259).
IdTypeOK ==
    /\ es \in [Ids -> ExpState]
    /\ \A i \in Ids : es[i].bg_ecount \in -Cardinality(Vars)..MaxCount
    /\ chain \in Seq(Ids)
    /\ \A i \in Ids : Cardinality({k \in DOMAIN chain : chain[k] = i}) =
                         IF es[i].registered THEN 1 ELSE 0
    /\ bgDirect \subseteq Ids /\ before \subseteq Ids /\ bgNamed \subseteq Vars
    /\ bgVar \in [Vars -> SUBSET Ids] /\ value \in [Vars -> SUBSET Ids]
    /\ stack \in Seq(Activation)
    /\ fault \in {"none", "handler", "finish", "runall", "expect", "indirect"}

\* bg_status and Tcl agree while the channel is open to Tcl: the background
\* handler can be called if and only if the status is armed
\* (exp_event.c:18-122).
HandlerMatchesStatus == \A i \in Ids : es[i].registered =>
    (es[i].handler <=> es[i].bg_status = "armed")

\* Nobody waits for a handler that is not there: a channel is blocked only
\* while its handler is on the stack (exp_event.c:98-122).
BlockedIsRunning == \A i \in Ids :
    (es[i].registered /\ es[i].bg_status \in Blocked) => Running(i)

\* An open spawn id whose handler is not at work is armed if it has background
\* cases, else its output would pile up unread (expect.c:1086-1103), and is not if
\* it has none, so nobody eats its output (expect.c:1049-1055).
CasesAreServed == \A i \in Ids : (Usable(i) /\ ~Running(i)) =>
    es[i].bg_status = IF Occurrences(i) > 0 THEN "armed" ELSE "unarmed"

\* A closed spawn id whose memory is still there was not waited for; closed and
\* waited for, in whichever order and from whichever body, the ExpState is gone
\* (exp_close, Exp_WaitCmd).  Until then no i_list names it and no handler is left:
\* "after exp_close returns, we will not have an opportunity to disarm".
ClosedAndWaitedIsFreed == \A i \in Ids :
    (es[i].mem = "live" /\ ~es[i].open) =>
        /\ ~es[i].user_waited
        /\ ~HasCases(i) /\ ~es[i].bg_interp /\ es[i].bg_status = "unarmed"

\* The background handler looks the name up again after a body ran, which is
\* "sufficient": it never goes on with a freed ExpState.
HandlerIsSafe == fault # "handler"

\* The same at the label finish, which the handler reaches also without a body.
FinishIsSafe == fault # "finish"

\* expect_background goes through the chain of spawn ids while handlers run;
\* a body may close and wait for the one it is at.
ChainIsSafe == fault # "runall"

\* expect notices what was closed behind its back.
ExpectIsSafe == fault # "expect"

\* "temporarily prevent this handler from being invoked again".
NotReentered == \A j, k \in DOMAIN stack :
    (stack[j].kind = "handler" /\ stack[k].kind = "handler" /\ stack[j].id = stack[k].id) => j = k

\* What Tcl closed in the middle of the handler is freed by the handler.
HandlerFrees == \A i \in Ids :
    (es[i].mem = "live" /\ es[i].freeWhenBgHandlerUnblocked) => Running(i)
=============================================================================
