-------------------------------- MODULE Cases --------------------------------
(***************************************************************************)
(* The cases of expect, expect_before and expect_after: how they are       *)
(* parsed, kept, replaced and tried (expect.c), and the records for "-i"   *)
(* they point to (struct exp_i, exp_command.c), which come from a pool,    *)
(* are counted, and in the indirect form are known to a trace of a Tcl     *)
(* variable.  What arms a background handler is left to SpawnId.           *)
(*                                                                         *)
(* A script is a sequence of commands; each command is one step.           *)
(***************************************************************************)
EXTENDS Integers, SequencesExt

CONSTANTS
    Ids, AnyId,     \* spawn ids; any_spawn_id
    Vars,           \* variables used as indirect spawn ids
    Recs,           \* bound: records the pool has
    Uses,           \* what the cases of the instance are for
    Args,           \* the arguments of the commands of the instance
    Blocks,         \* those that come in one braced argument
    MaxCalls,       \* bound: commands
    None            \* NULL

ASSUME CasesAssumption ==
    /\ AnyId \notin Ids /\ None \notin Ids \cup Vars \cup Recs
    /\ IsFiniteSet(Recs) /\ IsFiniteSet(Ids)
    /\ Uses \subseteq {"pattern", "timeout", "eof", "default"}
    /\ \A args \in Args : args \in Seq([i : Ids \cup {AnyId, None} \cup Vars, use : Uses \cup {None}])
    /\ \A block \in Blocks :
          /\ block.nl \in BOOLEAN /\ block.switch \in BOOLEAN /\ "pattern" \in Uses
          /\ block.commands \in
                Seq(Seq([i : Ids \cup {AnyId, None} \cup Vars, use : Uses \cup {None}] \cup {None}))
    /\ MaxCalls \in Nat

VARIABLES
    exp_i,      \* every record, those in the pool included
    pool,       \* exp_i_pool, in its order
    traced,     \* records that a variable trace has for its client data
    ecmd,       \* exp_cmds[]: i_list and ecd of expect_before and expect_after
    value,      \* the spawn ids a variable lists
    open,       \* spawn ids that are open
    taken,      \* what the last expect came to
    calls,      \* number of commands so far
    named,      \* history: the last command that gave cases to a spawn id
    spilt       \* history: a command failed and left records behind

casesVars == <<exp_i, pool, traced, ecmd, value, open, taken, calls, named, spilt>>

\* What the sequence s has of the set S, in its order.
Within(s, S) == FoldLeft(LAMBDA t, e : IF e \in S THEN Append(t, e) ELSE t, <<>>, s)

Permanent == {"before", "after"}
Case == [i_list : Recs, use : Uses]
Nothing == [i_list |-> <<>>, cases |-> <<>>]
Untaken == [event |-> [kind |-> "none"], choice |-> <<>>, among |-> <<>>]

\* Nothing is read of a record in the pool.
Unused == [variable |-> None, value |-> <<>>, state_list |-> <<>>, ecount |-> 0, born |-> 0]

\* A record given for spawn ids; born is the command it is from.
Direct(r) == exp_i[r].variable = None

CasesInit ==
    /\ exp_i = [r \in Recs |-> Unused]
    /\ pool = SetToSeq(Recs)
    /\ traced = {}
    /\ ecmd = [c \in Permanent |-> Nothing]
    /\ value = [v \in Vars |-> <<>>]
    /\ open = Ids
    /\ taken = Untaken
    /\ calls = 0
    /\ named = [c \in Permanent |-> [i \in Ids |-> 0]]
    /\ spilt = FALSE
-----------------------------------------------------------------------------
(* The records.  M is the memory of a command in progress: the records, the *)
(* pool and the traces.                                                    *)

Memory == [i |-> exp_i, pool |-> pool, traced |-> traced]
Becomes(M) == exp_i' = M.i /\ pool' = M.pool /\ traced' = M.traced

\* exp_i_parse_states: up to the first name that is not open, each at the head.
Valid(names) == \A k \in DOMAIN names : names[k] \in open \cup {AnyId}
States(names) ==
    LET bad == {k \in DOMAIN names : names[k] \notin open \cup {AnyId}}
    IN  Reverse(SubSeq(names, 1, IF bad = {} THEN Len(names) ELSE Min(bad) - 1))

\* exp_new_i
NewI(M, variable, list, states) ==
    [M EXCEPT !.i[Head(M.pool)] = [variable |-> variable, value |-> list,
                                   state_list |-> states, ecount |-> 0, born |-> calls + 1],
              !.pool = Tail(@)]

\* Mutant of FreeI: the trace stays.
FreeITraced(M, chain) ==
    [M EXCEPT !.i = [r \in Recs |-> IF r \in Range(chain) THEN Unused ELSE @[r]],
              !.pool = chain \o @]

\* exp_free_i: a whole chain, its end first.
FreeI(M, chain) ==
    [M EXCEPT !.i = [r \in Recs |-> IF r \in Range(chain) THEN Unused ELSE @[r]],
              !.pool = chain \o @, !.traced = @ \ Range(chain)]

\* exp_i_update of a variable's record: not parsed again for the same value.
UpdateI(M, r) ==
    LET now == value'[M.i[r].variable]
    IN  IF now = M.i[r].value THEN M
        ELSE [M EXCEPT !.i[r].value = now, !.i[r].state_list = States(now)]
-----------------------------------------------------------------------------
(* parse_expect_args.  An argument pair is [i, use]: the value of -i or     *)
(* None, and the case that follows or None.  S is [M, eg, status].         *)

Flagged(S, i) ==
    LET names == IF i \in Vars THEN value[i] ELSE <<i>>
        r == Head(S.M.pool)
        M == NewI(S.M, IF i \in Vars THEN i ELSE None, names, States(names))
    IN  IF i = None THEN S
        ELSE IF S.M.pool = <<>> THEN [S EXCEPT !.status = "bound"]
        ELSE IF ~Valid(names) THEN [S EXCEPT !.M = FreeI(M, <<r>>), !.status = "error"]
        ELSE [S EXCEPT !.M = IF i \in Vars THEN [M EXCEPT !.traced = M.traced \cup {r}] ELSE M,
                       !.eg.i_list = <<r>> \o @]

\* exp_new_i_simple(expStateCurrent(...)): the current spawn id need not be open.
Defaulted(S, cur) ==
    IF S.eg.i_list # <<>> \/ S.status # "ok" THEN S
    ELSE IF cur = None THEN [S EXCEPT !.status = "error"]
    ELSE IF S.M.pool = <<>> THEN [S EXCEPT !.status = "bound"]
    ELSE [S EXCEPT !.M = NewI(S.M, None, <<>>, <<cur>>), !.eg.i_list = <<Head(S.M.pool)>>]

Cased(S, use) ==
    IF use = None \/ S.status # "ok" THEN S
    ELSE [S EXCEPT !.M.i[Head(S.eg.i_list)].ecount = @ + 1,
                   !.eg.cases = Append(@, [i_list |-> Head(S.eg.i_list), use |-> use])]

\* bad: how the rest of the line is wrong, "return" if the function just returns.
Parse(args, cur, bad) ==
    LET One(S, a) ==
            IF S.status # "ok" THEN S
            ELSE LET F == Flagged(S, a.i)
                 IN  Cased(IF a.use = None THEN F ELSE Defaulted(F, cur), a.use)
        all == FoldLeft(One, [M |-> Memory, eg |-> Nothing, status |-> "ok"], args)
        end == IF all.status = "ok" /\ bad # "no" THEN [all EXCEPT !.status = bad]
               ELSE Defaulted(all, cur)
    IN  IF end.status = "error" THEN [end EXCEPT !.M = FreeI(end.M, end.eg.i_list)] ELSE end

(* A braced argument: whether it begins with a new line, whether -brace is  *)
(* before it, and its commands.  An argument pair None is a word whose      *)
(* substitution fails.                                                      *)
Broken(block) == \E k \in DOMAIN block.commands : None \in Range(block.commands[k])

exp_one_arg_braced(block) == block.nl

\* The words of all commands in one line, after -nobrace.
exp_eval_with_one_arg(block) == FlattenSeq(block.commands)

\* What the argument stands for; if it is no block it is a pattern.
Words(block) ==
    IF exp_one_arg_braced(block) \/ block.switch THEN exp_eval_with_one_arg(block)
    ELSE <<[i |-> None, use |-> "pattern"]>>

Fails(block) == (exp_one_arg_braced(block) \/ block.switch) /\ Broken(block)
-----------------------------------------------------------------------------
(* Removing.  T is [M, list], list being an i_list with its cases.         *)

\* exp_i_remove_with_ecases and, for an indirect one, the same by hand.
Without(T, gone) ==
    [M |-> FreeI(T.M, Reverse(Within(T.list.i_list, gone))),
     list |-> [i_list |-> Within(T.list.i_list, Recs \ gone),
               cases |-> Within(T.list.cases, {e \in Case : e.i_list \notin gone})]]

\* ecmd_remove_state: what is left with no spawn ids goes, unless it is indirect.
EcmdRemoveState(T, esPtr, indirect) ==
    LET hit == {r \in Range(T.list.i_list) : indirect \/ T.M.i[r].variable = None}
        Less(a) == [a EXCEPT !.state_list = Within(a.state_list, (Ids \cup {AnyId}) \ {esPtr})]
        M == [T.M EXCEPT !.i = [r \in Recs |-> IF r \in hit THEN Less(T.M.i[r]) ELSE T.M.i[r]]]
    IN  Without([T EXCEPT !.M = M],
                {r \in hit : M.i[r].variable = None /\ M.i[r].state_list = <<>>})

EvictVariable(T, v) == Without(T, {r \in Range(T.list.i_list) : T.M.i[r].variable = v})

\* Mutant of EvictDirect: of the new records only the last one given counts.
EvictDirectLast(T, news) ==
    [ok |-> TRUE,
     T |-> FoldLeft(LAMBDA V, em : EcmdRemoveState(V, em, FALSE), T,
                    IF news = <<>> \/ T.M.i[Head(news)].variable # None THEN <<>>
                    ELSE T.M.i[Head(news)].state_list)]

\* Each spawn id of each new direct record, head first, leaves the old ones; one
\* that is not open stops this in the middle.
EvictDirect(T, news) ==
    FoldLeft(LAMBDA U, r :
        FoldLeft(LAMBDA V, em :
            IF V.ok /\ em \in open \cup {AnyId}
            THEN [ok |-> TRUE, T |-> EcmdRemoveState(V.T, em, FALSE)]
            ELSE [V EXCEPT !.ok = FALSE],
        U, IF T.M.i[r].variable = None THEN T.M.i[r].state_list ELSE <<>>),
    [ok |-> TRUE, T |-> T], news)

EvictIndirect(T, news) ==
    FoldLeft(LAMBDA U, r : IF T.M.i[r].variable = None THEN U
                           ELSE EvictVariable(U, T.M.i[r].variable), T, news)
-----------------------------------------------------------------------------
Call == calls < MaxCalls /\ calls' = calls + 1

\* Exp_ExpectGlobalObjCmd: expect_before and expect_after.
ExpectGlobal(c, args, cur, bad) ==
    /\ Call
    /\ \E P \in {Parse(args, cur, bad)} :
       \E D \in {EvictDirect([M |-> P.M, list |-> ecmd[c]], P.eg.i_list)} :
       \E N \in {EvictIndirect(D.T, P.eg.i_list)} :
        /\ P.status # "bound"
        /\ IF P.status # "ok"
           THEN /\ Becomes(P.M)
                /\ spilt' = (spilt \/ (P.status = "return" /\ P.eg.i_list # <<>>))
                /\ UNCHANGED <<ecmd, named>>
           ELSE IF ~D.ok
           THEN \* cleanup frees the records that have cases
                /\ Becomes(FreeI(D.T.M, Within(P.eg.i_list, {r \in Recs : D.T.M.i[r].ecount > 0})))
                /\ ecmd' = [ecmd EXCEPT ![c] = D.T.list]
                /\ spilt' = (spilt \/ \E k \in DOMAIN P.eg.i_list :
                                         D.T.M.i[P.eg.i_list[k]].ecount = 0)
                /\ UNCHANGED named
           ELSE /\ Becomes(FreeI(N.M, Reverse(Within(P.eg.i_list, {r \in Recs : N.M.i[r].ecount = 0}))))
                /\ ecmd' = [ecmd EXCEPT ![c] =
                       [i_list |-> N.list.i_list
                                     \o Within(P.eg.i_list, {r \in Recs : N.M.i[r].ecount > 0}),
                        cases |-> N.list.cases \o P.eg.cases]]
                /\ named' = [named EXCEPT ![c] = [i \in Ids |->
                       IF \E k \in DOMAIN P.eg.i_list : LET r == P.eg.i_list[k] IN
                             N.M.i[r].variable = None /\ i \in Range(N.M.i[r].state_list)
                       THEN calls + 1 ELSE @[i]]]
                /\ UNCHANGED spilt
    /\ taken' = Untaken
    /\ UNCHANGED <<value, open>>

\* A write to a variable: exp_indirect_update2 for every record traced.
SetVar(v, names) ==
    /\ Call
    /\ value' = [value EXCEPT ![v] = names]
    /\ Becomes(FoldLeft(LAMBDA M, r : IF M.i[r].variable = v THEN UpdateI(M, r) ELSE M,
                        Memory, SetToSeq(traced)))
    /\ taken' = Untaken
    /\ UNCHANGED <<ecmd, open, named, spilt>>

\* exp_close: exp_ecmd_remove_state_direct_and_indirect.
Close(i) ==
    /\ Call
    /\ i \in open
    /\ open' = open \ {i}
    /\ \E B \in {EcmdRemoveState([M |-> Memory, list |-> ecmd["before"]], i, TRUE)} :
       \E A \in {EcmdRemoveState([M |-> B.M, list |-> ecmd["after"]], i, TRUE)} :
          Becomes(A.M) /\ ecmd' = [before |-> B.list, after |-> A.list]
    /\ taken' = Untaken
    /\ UNCHANGED <<value, named, spilt>>
-----------------------------------------------------------------------------
(* Trying the cases.  An event is a timeout, the end of file of a spawn id, *)
(* or data of one, where matching are the spawn ids whose buffers match.   *)

Events(states) ==
    [kind : {"timeout"}, id : {None}, matching : {{}}]
    \cup [kind : {"eof"}, id : states, matching : {{}}]
    \cup [kind : {"data"}, id : states, matching : SUBSET states]

\* Mutant of Fits: an end of file is taken by any case for it.
FitsAny(em, ev) == em = AnyId \/ em = ev.id \/ ev.kind = "eof"

\* em of a state_list in eval_cases.
Fits(em, ev) == em = AnyId \/ em = ev.id

For(kind) == CASE kind = "timeout" -> {"timeout", "default"}
               [] kind = "eof" -> {"eof", "default"}
               [] OTHER -> {"pattern"}

Tried(e, M, ev) ==
    /\ e.use \in For(ev.kind)
    /\ \/ ev.kind = "timeout"
       \/ \E k \in DOMAIN M.i[e.i_list].state_list :
            LET em == M.i[e.i_list].state_list[k]
            IN  /\ Fits(em, ev)
                /\ ev.kind = "eof" \/ (IF em = AnyId THEN ev.matching # {} ELSE em \in ev.matching)

\* eval_cases: o is <<>> or what an earlier call found.
EvalCases(o, M, cases, ev) ==
    FoldLeft(LAMBDA found, e : IF found = <<>> /\ Tried(e, M, ev)
                               THEN <<[e |-> e, on |-> Range(M.i[e.i_list].state_list)]>>
                               ELSE found, o, cases)

\* The spawn ids of all records, each once.
update_expect_states(M, list) == (UNION {Range(M.i[r].state_list) : r \in Range(list)}) \ {AnyId}

\* Exp_ExpectObjCmd without the bodies; every record it made is freed again.
Expect(args, cur, bad) ==
    /\ Call
    /\ \E P \in {Parse(args, cur, bad)} :
       \E states \in {update_expect_states(P.M, ecmd["before"].i_list \o ecmd["after"].i_list
                                                  \o P.eg.i_list)} :
        /\ P.status # "bound"
        /\ IF P.status # "ok"
           THEN /\ Becomes(P.M)
                /\ spilt' = (spilt \/ (P.status = "return" /\ P.eg.i_list # <<>>))
                /\ taken' = Untaken
           ELSE /\ Becomes(FreeI(P.M, P.eg.i_list))
                /\ UNCHANGED spilt
                /\ IF ~(states \subseteq open) THEN taken' = Untaken
                   ELSE \E ev \in Events(states) :
                     \E b \in {EvalCases(<<>>, P.M, ecmd["before"].cases, ev)} :
                     \E f \in {EvalCases(b, P.M, P.eg.cases, ev)} :
                     \E a \in {EvalCases(f, P.M, ecmd["after"].cases, ev)} :
                         taken' = [event |-> ev, choice |-> a,
                                   among |-> [k \in DOMAIN P.eg.cases |->
                                       [use |-> P.eg.cases[k].use,
                                        on |-> Range(P.M.i[P.eg.cases[k].i_list].state_list)]]]
    /\ UNCHANGED <<ecmd, value, open, named>>

\* The current spawn id matters where the first case has no -i before it.
Current(args) == IF args = <<>> \/ args[1].i = None THEN Ids \cup {None} ELSE {None}

\* Either command with a block.  If the substitution of a word fails it has not
\* begun.
Braced(block) ==
    \/ /\ Fails(block)
       /\ Call
       /\ taken' = Untaken
       /\ UNCHANGED <<exp_i, pool, traced, ecmd, value, open, named, spilt>>
    \/ /\ ~Fails(block)
       /\ \E cur \in Current(Words(block)) :
            \/ \E c \in Permanent : ExpectGlobal(c, Words(block), cur, "no")
            \/ Expect(Words(block), cur, "no")
-----------------------------------------------------------------------------
Lists == {<<>>} \cup {<<i>> : i \in Ids} \cup {<<i, j>> : i, j \in Ids}

\* An expect that succeeds leaves all as it was, so nothing follows it here.
CasesNext ==
    /\ calls < MaxCalls /\ taken = Untaken
    /\ \/ \E c \in Permanent, args \in Args, bad \in {"no", "error", "return"} :
             \E cur \in Current(args) : ExpectGlobal(c, args, cur, bad)
       \/ \E v \in Vars, names \in Lists : SetVar(v, names)
       \/ \E i \in Ids : Close(i)
       \/ \E args \in Args, bad \in {"no", "return"} :
             \E cur \in Current(args) : Expect(args, cur, bad)
       \/ \E block \in Blocks : Braced(block)

CasesSpec == CasesInit /\ [][CasesNext]_casesVars
-----------------------------------------------------------------------------
Live == ecmd["before"].i_list \o ecmd["after"].i_list

\* Records and cases have their types.
CasesType ==
    /\ exp_i \in [Recs -> [variable : Vars \cup {None}, value : Seq(Ids \cup {AnyId}),
                           state_list : Seq(Ids \cup {AnyId}), ecount : Nat, born : Nat]]
    /\ pool \in Seq(Recs) /\ traced \subseteq Recs
    /\ \A c \in Permanent : ecmd[c].i_list \in Seq(Recs) /\ ecmd[c].cases \in Seq(Case)

\* The cases of a list point into it, to records that count them.  Unless a command
\* failed in one of the two ways that leave records behind, a record is in the pool
\* or in one list, once, and a trace has only records in a list for its client data.
Accounted ==
    /\ ~spilt => /\ Len(pool \o Live) = Cardinality(Recs)
                 /\ Range(pool \o Live) = Recs
                 /\ traced = {r \in Range(Live) : ~Direct(r)}
    /\ \A c \in Permanent :
          /\ {ecmd[c].cases[k].i_list : k \in DOMAIN ecmd[c].cases} = Range(ecmd[c].i_list)
          /\ \A r \in Range(ecmd[c].i_list) :
                exp_i[r].ecount = Cardinality({k \in DOMAIN ecmd[c].cases : ecmd[c].cases[k].i_list = r})

\* The cases a spawn id has by name are those of the last command that gave it any.
LatestWins == \A c \in Permanent : \A r \in Range(ecmd[c].i_list) :
    Direct(r) => \A i \in Range(exp_i[r].state_list) \cap Ids : exp_i[r].born = named[c][i]

\* expect took the first case, those of expect_before first and of expect_after
\* last, that is for the event and for the spawn id it happened to.
FirstFits == taken.event.kind # "none" =>
    LET Of(c) == [k \in DOMAIN ecmd[c].cases |->
                    [use |-> ecmd[c].cases[k].use,
                     on |-> Range(exp_i[ecmd[c].cases[k].i_list].state_list)]]
        all == Of("before") \o taken.among \o Of("after")
        ev == taken.event
        right == {k \in DOMAIN all :
            CASE ev.kind = "timeout" -> all[k].use \in {"timeout", "default"}
              [] ev.kind = "eof" -> all[k].use \in {"eof", "default"} /\ {ev.id, AnyId} \cap all[k].on # {}
              [] OTHER -> all[k].use = "pattern"
                          /\ \/ AnyId \in all[k].on /\ ev.matching # {}
                             \/ ev.id \in all[k].on \cap ev.matching}
    IN  IF right = {} THEN taken.choice = <<>>
        ELSE /\ taken.choice # <<>>
             /\ LET e == all[Min(right)]
                IN  taken.choice[1].e.use = e.use /\ taken.choice[1].on = e.on

(* Properties that fail; see README.                                        *)

\* A command that fails leaves no record that a variable still updates.
NothingSpilt == traced \subseteq Range(Live)
=============================================================================
