------------------------------ MODULE Channels ------------------------------
(***************************************************************************)
(* The channels behind spawn ids (generic/exp_chan.c).  A spawn id is a    *)
(* Tcl channel over another one, its slave: a channel of the script        *)
(* (spawn -open, -leaveopen) or exp_user, a pair of stdin and stdout.      *)
(* Interest in events travels down, from Tcl to the driver of a spawn id   *)
(* and from there to the drivers below; the events travel up by channel    *)
(* handlers.  Tcl's part, its handlers and its reference counts, is        *)
(* modelled by what generic/exp_chan.c expects of it.                      *)
(***************************************************************************)
EXTENDS FiniteSets, Integers, SequencesExt

CONSTANTS
    Opened,         \* channels of the script
    Spawned,        \* spawn ids to be made over them
    NoChannel

In == "stdin"   Out == "stdout"
Pair == "exp_user"
Stdinout == "exp0"
Base == Opened \union {In, Out}
Exp == Spawned \union {Stdinout}
Conditions == {"readable", "writable"}

ASSUME ChannelsAssumption ==
    /\ {NoChannel, In, Out, Pair, Stdinout} \intersect (Opened \union Spawned) = {}
    /\ NoChannel \notin {In, Out, Pair, Stdinout}
    /\ Opened \intersect Spawned = {} /\ IsFiniteSet(Spawned)

VARIABLES
    live,           \* channels that are open
    held,           \* those that the script has
    slaveOf,        \* [Exp -> the slave, NoChannel if there is none]
    side,           \* inChannelPtr and outChannelPtr of the pair
    leaveopen,      \* spawn ids made with -leaveopen
    closed,         \* spawn ids that exp_close was called for
    tcl,            \* Tcl's handlers, and what each driver has been told to watch
    wanted,         \* [Exp -> events]; the pair's is in tcl
    freed,          \* records that are freed
    mode,           \* [Base -> "blocking" or "nonblocking"]
    propagate,      \* blockingPropagate
    odd             \* history: spawn ids watched for writing, channels with two
                    \* spawn ids, and whether Tcl has panicked

chanVars == <<live, held, slaveOf, side, leaveopen, closed, tcl, wanted, freed, mode, propagate, odd>>

ChannelsTypeOK ==
    /\ live \subseteq Base \union {Pair} \union Exp
    /\ held \subseteq live \intersect Base /\ leaveopen \subseteq Exp /\ closed \subseteq Exp
    /\ slaveOf \in [Exp -> Base \union {Pair, NoChannel}]
    /\ side \in [{In, Out} -> Base \union {NoChannel}]
    /\ tcl.handlers \subseteq [on : live, proc : STRING, owner : Exp \union {Pair}, mask : SUBSET Conditions]
    /\ tcl.watch \in [Base \union {Pair} -> SUBSET Conditions]
    /\ wanted \in [Exp -> SUBSET Conditions]
    /\ freed \subseteq Exp \union {Pair}
    /\ mode \in [Base -> {"blocking", "nonblocking"}]

\* A pair of two channels: it watches nothing and lets their blocking mode be,
\* for -blockingpropagate is switched off before -blocking.
Exp_CreatePairChannel(in, out) ==
    /\ side = [s \in {In, Out} |-> IF s = In THEN in ELSE out]
    /\ propagate = FALSE
    /\ tcl = [handlers |-> {}, watch |-> [c \in Base \union {Pair} |-> {}], null |-> FALSE]
    /\ mode = [b \in Base |-> "blocking"]

\* exp_init_spawn_ids makes the pair, and exp0 over it.
ChannelsInit ==
    /\ live = Base \union {Pair, Stdinout}
    /\ held = Base
    /\ slaveOf = [e \in Exp |-> IF e = Stdinout THEN Pair ELSE NoChannel]
    /\ Exp_CreatePairChannel(In, Out)
    /\ leaveopen = {} /\ closed = {}
    /\ wanted = [e \in Exp |-> {}]
    /\ freed = {}
    /\ odd = [written |-> {}, shared |-> {}, panic |-> FALSE]

Working == ~tcl.null /\ ~odd.panic
-----------------------------------------------------------------------------
(***************************************************************************)
(* Tcl_CreateChannelHandler and Tcl_DeleteChannelHandler.  A handler is    *)
(* known by its channel, procedure and owner; a second one replaces its    *)
(* mask.  Each tells the driver of the channel what is watched now.        *)
(***************************************************************************)
Same(h, on, proc, owner) == h.on = on /\ h.proc = proc /\ h.owner = owner
Others(t, on, proc, owner) == {h \in t.handlers : ~Same(h, on, proc, owner)}
Interest(t, on) == UNION {h.mask : h \in {g \in t.handlers : g.on = on}}

WatchBase(t, base) == [t EXCEPT !.watch[base] = Interest(t, base)]

CreateOnBase(t, base, proc, owner, mask) ==
    IF base = NoChannel THEN [t EXCEPT !.null = TRUE]
    ELSE WatchBase([t EXCEPT !.handlers = Others(t, base, proc, owner) \union
                      {[on |-> base, proc |-> proc, owner |-> owner, mask |-> mask]}], base)

DeleteOnBase(t, base, proc, owner) ==
    IF base = NoChannel THEN [t EXCEPT !.null = TRUE]
    ELSE WatchBase([t EXCEPT !.handlers = Others(t, base, proc, owner)], base)

\* One direction of ExpPairWatch.
WatchSide(t, s, event, proc, mask) ==
    LET old == t.watch[Pair]
        told == IF side[s] = NoChannel THEN t ELSE [t EXCEPT !.watch[side[s]] = mask \intersect {event}]
    IN  IF event \in mask
        THEN IF event \in old THEN told ELSE CreateOnBase(told, side[s], proc, Pair, {event})
        ELSE IF event \in old THEN DeleteOnBase(t, side[s], proc, Pair) ELSE t

\* Mutant of ExpPairWatch: what is not watched any more stays in the mask.
ExpPairWatchAdds(t, mask) ==
    LET readable == WatchSide(t, In, "readable", "ExpPairReadable", mask)
        writable == WatchSide(readable, Out, "writable", "ExpPairWritable", mask)
    IN  [writable EXCEPT !.watch[Pair] = @ \union mask]

ExpPairWatch(t, mask) ==
    LET readable == WatchSide(t, In, "readable", "ExpPairReadable", mask)
        writable == WatchSide(readable, Out, "writable", "ExpPairWritable", mask)
    IN  [writable EXCEPT !.watch[Pair] = mask]

WatchDriver(t, c, mask) == IF c = Pair THEN ExpPairWatch(t, mask) ELSE [t EXCEPT !.watch[c] = mask]

Create(t, c, proc, owner, mask) ==
    LET u == [t EXCEPT !.handlers = Others(t, c, proc, owner) \union
                 {[on |-> c, proc |-> proc, owner |-> owner, mask |-> mask]}]
    IN  WatchDriver(u, c, Interest(u, c))

Delete(t, c, proc, owner) ==
    LET u == [t EXCEPT !.handlers = Others(t, c, proc, owner)]
    IN  WatchDriver(u, c, Interest(u, c))

\* ExpChanWatch.  The handler for writing is created with ExpChanReadable and
\* deleted with ExpChanWritable.
ExpChanWatch(t, e, mask) ==
    LET c == slaveOf[e]
        old == wanted[e]
        readable == IF "readable" \in mask \ old THEN Create(t, c, "ExpChanReadable", e, {"readable"})
                    ELSE IF "readable" \in old \ mask THEN Delete(t, c, "ExpChanReadable", e) ELSE t
        writable == IF "writable" \in mask \ old THEN Create(readable, c, "ExpChanReadable", e, {"writable"})
                    ELSE IF "writable" \in old \ mask THEN Delete(readable, c, "ExpChanWritable", e)
                    ELSE readable
    IN  WatchDriver(writable, c, mask)

\* ExpChanInput and ExpPairInput, ExpChanOutput and ExpPairOutput: the channel
\* that is read or written, NoChannel if EPIPE is the answer.
Through(e, s) == IF slaveOf[e] = Pair THEN side[s] ELSE slaveOf[e]

\* Tcl has an interest in the events of a spawn id, or has it no more.
WatchExp(e, mask) ==
    /\ Working
    /\ e \in live \ closed
    /\ IF slaveOf[e] = NoChannel THEN UNCHANGED <<tcl, wanted, odd>>
       ELSE /\ tcl' = ExpChanWatch(tcl, e, mask)
            /\ wanted' = [wanted EXCEPT ![e] = mask]
            /\ odd' = IF "writable" \in mask THEN [odd EXCEPT !.written = @ \union {e}] ELSE odd
    /\ UNCHANGED <<live, held, slaveOf, side, leaveopen, closed, freed, mode, propagate>>
-----------------------------------------------------------------------------
(***************************************************************************)
(* The end of channels.  Tcl drops the handlers of a channel that closes   *)
(* and calls its close handlers: ExpChanCloseHandler, and those of the     *)
(* pair, which forget the channel.                                         *)
(***************************************************************************)
Detached(t, gone) == [t EXCEPT !.handlers = {h \in @ : h.on \notin gone},
                              !.watch = [c \in DOMAIN @ |-> IF c \in gone THEN {} ELSE @[c]]]

Forget(gone) ==
    /\ slaveOf' = [e \in Exp |-> IF slaveOf[e] \in gone THEN NoChannel ELSE slaveOf[e]]
    /\ side' = IF Pair \in gone \union freed THEN side
               ELSE [s \in {In, Out} |-> IF side[s] \in gone THEN NoChannel ELSE side[s]]

ScriptClose(c) ==
    /\ Working
    /\ c \in held
    /\ live' = live \ {c} /\ held' = held \ {c}
    /\ Forget({c})
    /\ tcl' = Detached(tcl, {c})
    /\ UNCHANGED <<leaveopen, closed, wanted, freed, mode, propagate, odd>>

\* Mutant of SpawnOpen: the script keeps the channel.
SpawnOpenShares(e, c, leave) ==
    /\ Working
    /\ c \in held /\ e \notin live \union freed
    /\ leave \/ c \in Opened
    /\ live' = live \union {e}
    /\ slaveOf' = [slaveOf EXCEPT ![e] = c]
    /\ leaveopen' = IF leave THEN leaveopen \union {e} ELSE leaveopen
    /\ mode' = [mode EXCEPT ![c] = "nonblocking"]
    /\ odd' = IF \E f \in Exp : c \in {Through(f, In), Through(f, Out)} THEN [odd EXCEPT !.shared = @ \union {c}] ELSE odd
    /\ UNCHANGED <<held, side, closed, tcl, wanted, freed, propagate>>

\* spawn -open detaches the channel from the script.
SpawnOpen(e, c, leave) ==
    /\ Working
    /\ c \in held /\ e \notin live \union freed
    /\ leave \/ c \in Opened
    /\ live' = live \union {e}
    /\ held' = IF leave THEN held ELSE held \ {c}
    /\ slaveOf' = [slaveOf EXCEPT ![e] = c]
    /\ leaveopen' = IF leave THEN leaveopen \union {e} ELSE leaveopen
    /\ mode' = [mode EXCEPT ![c] = "nonblocking"]
    /\ odd' = IF \E f \in Exp : c \in {Through(f, In), Through(f, Out)} THEN [odd EXCEPT !.shared = @ \union {c}] ELSE odd
    /\ UNCHANGED <<side, closed, tcl, wanted, freed, propagate>>

\* The channels that a blocking mode set on a spawn id goes to: ExpChanBlock,
\* ExpPairBlock.
Under(e) ==
    (IF slaveOf[e] # Pair THEN {slaveOf[e]} ELSE IF propagate THEN {side[In], side[Out]} ELSE {}) \ {NoChannel}

\* exp_close: nothing waits for the spawn ids' events from now on, and what is
\* below them blocks again.
Shown(es) == {e \in es : slaveOf[e] # NoChannel}
Unwatched(es) == FoldLeft(LAMBDA t, e : ExpChanWatch(t, e, {}), tcl, SetToSeq(Shown(es)))

Quiet(es) ==
    /\ closed' = closed \union es
    /\ wanted' = [e \in Exp |-> IF e \in Shown(es) THEN {} ELSE wanted[e]]
    /\ mode' = [b \in Base |-> IF b \in UNION {Under(e) : e \in es} THEN "blocking" ELSE mode[b]]

ExpClose(e) ==
    /\ Working
    /\ e \in live \ closed
    /\ Quiet({e})
    /\ tcl' = Unwatched({e})
    /\ UNCHANGED <<live, held, slaveOf, side, leaveopen, freed, propagate, odd>>

\* After exp_wait: ExpChanClose.  The slave of a spawn id that is not kept
\* forever is closed with it, for whomever it was left open.
ExpChanClose(e) ==
    /\ Working
    /\ e \in live \intersect closed
    /\ LET gone == IF e = Stdinout \/ slaveOf[e] = NoChannel THEN {} ELSE {slaveOf[e]} IN
       /\ live' = (live \ {e}) \ gone
       /\ held' = held \ gone
       /\ Forget(gone)
       /\ tcl' = Detached(tcl, gone)
       /\ odd' = [odd EXCEPT !.panic = gone \intersect held # {}]
    /\ freed' = IF e = Stdinout THEN freed ELSE freed \union {e}
    /\ UNCHANGED <<leaveopen, closed, wanted, mode, propagate>>

\* ExpPairClose lets stdin and stdout be, with the handlers on them.
ExpPairClose(t) ==
    /\ live' = live \ {Pair} /\ freed' = freed \union {Pair}
    /\ Forget({Pair})
    /\ tcl' = [t EXCEPT !.handlers = {h \in @ : h.on # Pair}]

\* close exp_user
ClosePair ==
    /\ Working
    /\ Pair \in live
    /\ ExpPairClose(tcl)
    /\ UNCHANGED <<held, leaveopen, closed, wanted, mode, propagate, odd>>

\* At exit: exp_close for every spawn id, then the pair.
ExpCloseAll ==
    /\ Working
    /\ LET es == (live \intersect Exp) \ closed IN
       /\ Quiet(es)
       /\ IF Pair \in live THEN ExpPairClose(Unwatched(es))
          ELSE tcl' = Unwatched(es) /\ UNCHANGED <<live, freed, slaveOf, side>>
    /\ UNCHANGED <<held, leaveopen, propagate, odd>>
-----------------------------------------------------------------------------
(***************************************************************************)
(* What travels down: reads and writes, options, the blocking mode.        *)
(***************************************************************************)
BlockExp(e, m) ==
    /\ Working
    /\ e \in live \ closed
    /\ mode' = [b \in Base |-> IF b \in Under(e) THEN m ELSE mode[b]]
    /\ UNCHANGED <<live, held, slaveOf, side, leaveopen, closed, tcl, wanted, freed, propagate, odd>>

\* fconfigure exp_user -blockingpropagate
ExpPairSetOption(value) ==
    /\ Working
    /\ Pair \in live
    /\ propagate' = value
    /\ UNCHANGED <<live, held, slaveOf, side, leaveopen, closed, tcl, wanted, freed, mode, odd>>

ChannelsNext ==
    \/ \E e \in Exp, mask \in SUBSET Conditions : WatchExp(e, mask)
    \/ \E c \in Base : ScriptClose(c)
    \/ \E e \in Spawned, c \in Base, leave \in BOOLEAN : SpawnOpen(e, c, leave)
    \/ \E e \in Exp : ExpClose(e) \/ ExpChanClose(e)
    \/ ClosePair
    \/ ExpCloseAll
    \/ \E e \in Exp, m \in {"blocking", "nonblocking"} : BlockExp(e, m)
    \/ \E value \in BOOLEAN : ExpPairSetOption(value)

ChannelsSpec == ChannelsInit /\ [][ChannelsNext]_chanVars
-----------------------------------------------------------------------------
\* An event of the channel below gets to the spawn id e.
Reaches(e, event) ==
    LET c == Through(e, IF event = "readable" THEN In ELSE Out)
        Handles(on, owner) == \E h \in tcl.handlers : h.on = on /\ h.owner = owner /\ event \in h.mask
    IN  /\ event \in tcl.watch[c]
        /\ slaveOf[e] # Pair => Handles(c, e)
        /\ slaveOf[e] = Pair => Handles(c, Pair) /\ Handles(Pair, e)

\* Input below a spawn id is reported to it exactly while someone waits for it,
\* however interest, options and the channels below came and went.  It is not
\* once the spawn id was watched for writing, for the handler for that takes the
\* other's place, nor when two spawn ids are over one channel.
Forwarded ==
    \A e \in (live \intersect Exp) \ (closed \union odd.written) :
        Working /\ Through(e, In) \notin {NoChannel} \union odd.shared
          => ("readable" \in wanted[e] <=> Reaches(e, "readable"))

\* No handler that a channel still has belongs to a record that is freed, but
\* those of a pair that was closed while its input was awaited; a handler is
\* asked of a channel that is gone only for a pair that lost a side; and a
\* channel is closed that the script has only with -leaveopen.
HandlersAreLive ==
    /\ \A h \in tcl.handlers : h.owner \in freed => h.owner = Pair /\ tcl.watch[Pair] # {}
    /\ tcl.null => NoChannel \in {side[In], side[Out]}
    /\ odd.panic => leaveopen \intersect closed # {}
=============================================================================
