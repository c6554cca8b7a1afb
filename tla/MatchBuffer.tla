----------------------------- MODULE MatchBuffer -----------------------------
(***************************************************************************)
(* The match buffer of one spawn id: how expect and expect_background read *)
(* into it, show what is new, try their cases, take out what matched and   *)
(* forget what does not fit; and how commands nested in one another share  *)
(* it by means of key and force_read.                                      *)
(*                                                                         *)
(* Characters are numbers, in the order the process wrote them, of one     *)
(* byte each.  Which of them a case matches is left open.                  *)
(***************************************************************************)
EXTENDS Integers, Sequences, FiniteSets, QueueOps

CONSTANTS
    Sizes,      \* what match_max may be set to
    UtfMax,     \* TCL_UTF_MAX
    Nulls,      \* the characters that are nulls
    MaxChars,   \* bound: characters the process writes
    MaxDepth,   \* bound: activations on the C stack
    Manual      \* scripts keep to the manual: no expect while an expect_background
                \* is unblocked, on the same spawn id

ASSUME MatchBufferAssumption ==
    /\ Sizes \subseteq Nat \ {0}
    /\ UtfMax \in Nat \ {0} /\ MaxChars \in Nat /\ MaxDepth \in Nat
    /\ Nulls \subseteq 1..MaxChars
    /\ Manual \in BOOLEAN

VARIABLES
    arrived,      \* characters Tcl_ReadChars has returned so far
    buffer, printed, umsize, msize, rm_nulls,   \* fields of the ExpState
    force_read, noted, open,
    handlers,   \* Tcl's handlers of the channel in the order it calls them
    bg,         \* bg_status, whether the cases hold a full_buffer, the buffer they saw last
    stack,      \* activations, the innermost first
    shown,      \* history: what was sent to the user and the log
    taken,      \* history: what left the buffer by way of expect_out(buffer)
    stripped,   \* history: what remove_nulls took away
    cut,        \* history: expAdjust has dropped characters
    lowered,    \* history: expAdjust has made msize smaller
    wild,       \* history: expRead looked behind the end of the buffer
    surprised   \* history: forgotten before a full_buffer case was asked

rest_of_data == <<arrived, printed, noted, shown, taken, stripped, wild, surprised>>
data == <<rest_of_data, buffer>>
size == <<umsize, msize, rm_nulls, cut, lowered>>
bufferVars == <<data, size, force_read, open, handlers, bg, stack>>

Chars == Seq(1..MaxChars)

\* mine: the key in the ExpState is that of this expect.  As expect_key++ gives
\* a key once only, nothing else can be told from keys.
Activation == [kind : {"expect", "handler", "script"}, full : BOOLEAN, mine : BOOLEAN,
               pc : {"begin", "poll", "eval", "body"}, seen : Chars, rest : BOOLEAN]

NewAct(kind, full, pc) ==
    [kind |-> kind, full |-> full, mine |-> FALSE, pc |-> pc, seen |-> <<>>, rest |-> FALSE]

\* The ExpState gets a new key.
NewKey(s) == [k \in DOMAIN s |-> [s[k] EXCEPT !.mine = FALSE]]

Msize(u) == 2 * u + 1

BufferInit ==
    /\ arrived = 0 /\ buffer = <<>> /\ printed = 0
    /\ umsize \in Sizes /\ msize = Msize(umsize)
    /\ rm_nulls = TRUE
    /\ force_read = FALSE /\ noted = FALSE /\ open = TRUE
    /\ handlers = <<>>
    /\ bg = [status |-> "unarmed", full |-> FALSE, seen |-> <<>>]
    /\ stack = <<>>
    /\ shown = <<>> /\ taken = <<>> /\ stripped = {}
    /\ cut = FALSE /\ lowered = FALSE /\ wild = FALSE /\ surprised = FALSE

Top(kind, pc) == stack # <<>> /\ Head(stack).kind = kind /\ Head(stack).pc = pc
Below == Tail(stack)
Afresh(pc) == <<[Head(stack) EXCEPT !.pc = pc, !.seen = <<>>]>>
\* A script runs: the program, the body of a case, the script of an event.
Script == stack # <<>> => Head(stack).pc = "body"
Room == Len(stack) < MaxDepth

From(s, k) == SubSeq(s, k, Len(s))
Elements(s) == {s[k] : k \in DOMAIN s}
-----------------------------------------------------------------------------
(* What is done to the buffer.                                             *)

\* "this must be the same test as in expIRead"
Full(b) == Len(b) + UtfMax >= msize
FullCase(b) == Full(b) /\ b # <<>>

\* exp_buffer_shuffle: how many characters the first half has.
\* Mutant of Half: the loop ends one character later.
HalfMore(b) == IF Len(b) < 3 THEN Len(b) ELSE Len(b) \div 2 + 2
Half(b) == IF b = <<>> THEN 0 ELSE Len(b) \div 2 + 1

Shuffled(b) == IF Full(b) THEN From(b, Half(b) + 1) ELSE b
Forgotten(b) == IF Full(b) THEN SubSeq(b, 1, Half(b)) ELSE <<>>
\* Mutant of Unshuffled: printed is left as it was.
UnshuffledAsWas(b) == printed
Unshuffled(b) == LET left == printed - Len(Forgotten(b))
                 IN  IF left < 0 THEN 0 ELSE left

\* expIRead: at most so many characters are asked for.
Asked(b) == msize - Len(b) \div UtfMax

\* expNullStrip, from printed on.
\* Mutant of NullStrip: the first new character goes, null or not.
NullStripFirst(b, p) == Selected(b, {i \in DOMAIN b : i <= p \/ (b[i] \notin Nulls /\ i > p + 1)})
NullStrip(b, p) == Selected(b, {i \in DOMAIN b : i <= p \/ b[i] \notin Nulls})

\* expRead, "update display", for buffer b of which p characters are printed:
\* what is behind them goes to the user and the log.  If p is behind the end,
\* so is what is written and stripped; the model stops there.
Display(b, p) ==
    LET new == From(b, p + 1)
        kept == IF new # <<>> /\ rm_nulls THEN NullStrip(b, p) ELSE b
    IN  /\ shown' = shown \o new
        /\ buffer' = kept
        /\ printed' = IF new # <<>> THEN Len(kept) ELSE p
        /\ stripped' = stripped \cup (Elements(b) \ Elements(kept))
        /\ wild' = (b # <<>> /\ p > Len(b))

\* expIRead and expRead for a command whose cases hold a full_buffer or not.
ReadData(full) ==
    LET b == Shuffled(buffer)
    IN  /\ \E n \in 0..Asked(b) :
             /\ arrived + n <= MaxChars
             /\ arrived' = arrived + n
             /\ Display(b \o [k \in 1..n |-> arrived + k], Unshuffled(buffer))
        /\ taken' = taken \o Forgotten(buffer)
        /\ surprised' = (surprised \/ (full /\ Forgotten(buffer) # <<>>))

\* The read finds the end of file: the buffer is shuffled all the same, then
\* everything is transferred to expect_out and the spawn id is closed.
ReadEof(full) ==
    /\ \E transfer \in BOOLEAN :
         /\ taken' = taken \o IF transfer THEN buffer ELSE Forgotten(buffer)
         /\ buffer' = IF transfer THEN <<>> ELSE Shuffled(buffer)
         /\ printed' = Unshuffled(buffer) - IF transfer THEN Len(Shuffled(buffer)) ELSE 0
    /\ surprised' = (surprised \/ (full /\ Forgotten(buffer) # <<>>))
    /\ UNCHANGED <<arrived, shown, stripped, wild>>

\* expMatchProcess: a case matched up to character n.
Process(n, transfer) ==
    /\ taken' = IF transfer THEN taken \o SubSeq(buffer, 1, n) ELSE taken
    /\ buffer' = IF transfer THEN From(buffer, n + 1) ELSE buffer
    /\ printed' = IF transfer THEN printed - n ELSE printed
    /\ UNCHANGED <<arrived, noted, shown, stripped, wild, surprised>>

\* expAdjust, called whenever the spawn id of a command is validated.
Resized == Msize(umsize) # msize
Excess == IF Resized /\ Len(buffer) > Msize(umsize) THEN Len(buffer) - Msize(umsize) ELSE 0
Adjusted ==
    /\ buffer' = From(buffer, Excess + 1)
    /\ msize' = Msize(umsize)
    /\ cut' = (cut \/ Excess > 0)
    /\ lowered' = (lowered \/ Msize(umsize) < msize)
AfterAdjust(s) == IF Resized THEN NewKey(s) ELSE s
-----------------------------------------------------------------------------
(* Commands of scripts: the program, the body of a case, an event's script. *)

\* match_max: takes effect when the spawn id is validated next.
MatchMax(u) ==
    /\ Script /\ open
    /\ umsize' = u
    /\ UNCHANGED <<data, msize, rm_nulls, cut, lowered, force_read, open, handlers, bg, stack>>

\* remove_nulls.
RemoveNulls(on) ==
    /\ Script /\ open
    /\ rm_nulls' = on
    /\ UNCHANGED <<data, umsize, msize, cut, lowered, force_read, open, handlers, bg, stack>>

\* expect_before -i: validates the spawn id.
Validate ==
    /\ Script /\ open
    /\ Adjusted
    /\ stack' = AfterAdjust(stack)
    /\ UNCHANGED <<rest_of_data, umsize, rm_nulls, force_read, open, handlers, bg>>

\* expect: the spawn id is validated, the command gets a key of its own.
Expect(full) ==
    /\ Script /\ open /\ Room
    /\ Manual => bg.status # "armed"
    /\ Adjusted
    /\ stack' = <<NewAct("expect", full, "begin")>> \o AfterAdjust(stack)
    /\ UNCHANGED <<rest_of_data, umsize, rm_nulls, force_read, open, handlers, bg>>

\* expect_background with cases: what is buffered already is matched at once.
Declare(full) ==
    /\ Script /\ open /\ Room
    /\ bg.status = "unarmed"
    /\ Manual => \A k \in DOMAIN stack : stack[k].kind # "expect"
    /\ Adjusted
    /\ IF buffer' = <<>>
       THEN /\ bg' = [bg EXCEPT !.status = "armed", !.full = full]
            /\ handlers' = <<"bg">> \o handlers
            /\ stack' = AfterAdjust(stack)
       ELSE /\ bg' = [bg EXCEPT !.status = "blocked", !.full = full]
            /\ stack' = <<NewAct("handler", full, "eval")>> \o AfterAdjust(stack)
            /\ UNCHANGED handlers
    /\ UNCHANGED <<rest_of_data, umsize, rm_nulls, force_read, open>>

\* expect_background without cases.
Undeclare ==
    /\ Script /\ open
    /\ bg.status = "armed"
    /\ Adjusted
    /\ bg' = [status |-> "unarmed", full |-> FALSE, seen |-> <<>>]
    /\ handlers' = Without(handlers, "bg")
    /\ stack' = AfterAdjust(stack)
    /\ UNCHANGED <<rest_of_data, umsize, rm_nulls, force_read, open>>
-----------------------------------------------------------------------------
(* Tcl calls the handlers of the channel.                                  *)

\* exp_channelhandler notes the event and takes itself out; the walks below
\* that had it in front of them go on without it.
Noted(s) == [k \in DOMAIN s |-> [s[k] EXCEPT !.rest = FALSE]]

\* exp_background_channelhandler begins; "walk" tells that Tcl has still to
\* call exp_channelhandler when it returns.
Enter(s, walk, armed) ==
    /\ Room
    /\ bg' = [bg EXCEPT !.status = "blocked", !.seen = <<>>]
    /\ handlers' = Without(armed, "bg")
    /\ noted' = FALSE
    /\ \/ /\ ReadData(bg.full)
          /\ stack' = <<[NewAct("handler", bg.full, "eval") EXCEPT !.rest = walk]>> \o s
          /\ UNCHANGED open
       \/ /\ ReadEof(bg.full)
          /\ open' = FALSE
          /\ stack' = <<NewAct("handler", bg.full, "body")>> \o s

\* The channel is readable; s is the stack below.
Notify(s, armed) ==
    LET rest == Without(armed, "fg")
    IN  IF armed = <<>> THEN FALSE
        ELSE IF Head(armed) = "bg" THEN Enter(s, "fg" \in Elements(armed), armed)
        ELSE IF rest # <<>> THEN Enter(Noted(s), FALSE, rest)
        ELSE /\ noted' = TRUE
             /\ handlers' = rest
             /\ stack' = Noted(s)
             /\ UNCHANGED <<arrived, buffer, printed, shown, taken, stripped, wild, surprised, open, bg>>

\* exp_get_next_event found nothing to report.
Polling == stack # <<>> /\ Head(stack).kind = "expect" /\ Head(stack).pc \in {"begin", "poll"} /\ open
\* Mutant of Touched: what others did to the buffer is of no interest.
TouchedNever == FALSE
Touched == ~Head(stack).mine
Buffered == ~force_read /\ buffer # <<>>
Waiting == Polling /\ ~Touched /\ ~Buffered /\ ~noted

\* "make sure that all fds that should be armed are"
Armed == IF "fg" \in Elements(handlers) THEN handlers ELSE <<"fg">> \o handlers

\* In Tcl_DoOneEvent of exp_get_next_event, or of update or vwait in a script.
Event ==
    /\ open
    /\ \/ Waiting /\ Notify(stack, Armed)
       \/ Script /\ Notify(stack, handlers)
    /\ UNCHANGED <<size, force_read>>

\* Another event of the loop evaluates a script.
OtherEvent ==
    /\ Waiting
    /\ Room
    /\ handlers' = Armed
    /\ stack' = <<NewAct("script", FALSE, "body")>> \o stack
    /\ UNCHANGED <<data, size, force_read, open, bg>>

OtherEventEnds ==
    /\ Top("script", "body")
    /\ stack' = Below
    /\ UNCHANGED <<data, size, force_read, open, handlers, bg>>
-----------------------------------------------------------------------------
(* expect: exp_get_next_event goes through these in this order.            *)

\* Old data to be looked at again, EXP_DATA_OLD: someone else has touched the
\* buffer, or nobody has looked at it.
PollOld ==
    /\ Polling
    /\ Touched \/ Buffered
    /\ force_read' = (force_read /\ ~Touched)
    /\ Display(buffer, printed)
    /\ stack' = <<[Head(stack) EXCEPT !.pc = "eval", !.seen = <<>>, !.mine = TRUE]>> \o NewKey(Below)
    /\ UNCHANGED <<arrived, noted, taken, surprised, size, open, handlers, bg>>

\* An event was noted, EXP_DATA_NEW: read.
PollNew ==
    /\ Polling
    /\ ~Touched /\ ~Buffered /\ noted
    /\ noted' = FALSE
    /\ \/ /\ ReadData(Head(stack).full)
          /\ stack' = Afresh("eval") \o Below
          /\ UNCHANGED <<open, handlers>>
       \/ /\ ReadEof(Head(stack).full)
          /\ open' = FALSE /\ handlers' = <<>>
          /\ stack' = Afresh("body") \o Below
    /\ UNCHANGED <<size, force_read, bg>>

\* What was closed meanwhile ends the command.
PollClosed ==
    /\ Top("expect", "poll")
    /\ ~open
    /\ stack' = Below
    /\ UNCHANGED <<data, size, force_read, open, handlers, bg>>

\* The time is up, after cases that did not match or after an event: a timeout
\* case, or none.
Timeout ==
    /\ Top("expect", "poll")
    /\ stack' \in {Afresh("body") \o Below, Below}
    /\ handlers' \in {handlers} \cup IF Waiting THEN {Armed} ELSE {}
    /\ UNCHANGED <<data, size, force_read, open, bg>>

\* A case matches, up to the end or not, with -notransfer or without.
Matches ==
    /\ Top("expect", "eval") \/ Top("handler", "eval")
    /\ \E n \in 0..Len(buffer), transfer \in BOOLEAN : Process(n, transfer)
    /\ stack' = Afresh("body") \o Below
    /\ UNCHANGED <<size, force_read, open, handlers, bg>>

\* "no match was made with current data, force a read"
NoMatch ==
    /\ Top("expect", "eval")
    /\ ~(Head(stack).full /\ FullCase(buffer))
    /\ force_read' = TRUE
    /\ stack' = <<[Head(stack) EXCEPT !.pc = "poll", !.seen = buffer]>> \o Below
    /\ UNCHANGED <<data, size, open, handlers, bg>>

\* The body returned: the command ends, or exp_continue starts it again with a
\* new key.
BodyEnds ==
    /\ Top("expect", "body")
    /\ stack' \in {Below} \cup
         IF open THEN {<<[Head(stack) EXCEPT !.pc = "begin", !.mine = FALSE, !.seen = <<>>]>> \o Below}
         ELSE {}
    /\ UNCHANGED <<data, size, force_read, open, handlers, bg>>
-----------------------------------------------------------------------------
(* expect_background after its read.                                       *)

\* The handler unblocks itself and returns to Tcl, which may have the other
\* handler to call yet.
HandlerReturn ==
    /\ bg' = [bg EXCEPT !.status = "armed", !.seen = buffer]
    /\ LET walk == Head(stack).rest
       IN  /\ handlers' = <<"bg">> \o IF walk THEN Without(handlers, "fg") ELSE handlers
           /\ noted' = (noted \/ walk)
           /\ stack' = IF walk THEN Noted(Below) ELSE Below

NoMatchInBackground ==
    /\ Top("handler", "eval")
    /\ ~(Head(stack).full /\ FullCase(buffer))
    /\ HandlerReturn
    /\ UNCHANGED <<arrived, buffer, printed, shown, taken, stripped, wild, surprised,
                   size, force_read, open>>

\* "Event handler will not call us back if there is more input pending but it
\* has already arrived."
MoreData == buffer # <<>>

BodyEndsInBackground ==
    /\ Top("handler", "body")
    /\ IF ~open
       THEN /\ stack' = Below
            /\ UNCHANGED <<noted, handlers, bg>>
       ELSE IF MoreData
       THEN /\ stack' = Afresh("eval") \o Below
            /\ UNCHANGED <<noted, handlers, bg>>
       ELSE HandlerReturn
    /\ UNCHANGED <<arrived, buffer, printed, shown, taken, stripped, wild, surprised,
                   size, force_read, open>>

Moves ==
    \/ \E u \in Sizes : MatchMax(u)
    \/ \E on \in BOOLEAN : RemoveNulls(on)
    \/ \E full \in BOOLEAN : Expect(full) \/ Declare(full)
    \/ Validate \/ Undeclare
    \/ Event \/ OtherEvent \/ OtherEventEnds
    \/ PollOld \/ PollNew \/ PollClosed \/ Timeout
    \/ Matches \/ NoMatch \/ BodyEnds
    \/ NoMatchInBackground \/ BodyEndsInBackground

BufferNext == ~wild /\ Moves

BufferSpec == BufferInit /\ [][BufferNext]_bufferVars
-----------------------------------------------------------------------------
(* Properties.                                                             *)

\* Every variable has its type; printed, which is lowered in four places, is
\* never negative, and msize is always what match_max made of umsize.
BufferTypeOK ==
    /\ arrived \in 0..MaxChars
    /\ buffer \in Chars /\ shown \in Chars /\ taken \in Chars
    /\ printed \in Nat
    /\ umsize \in Sizes /\ msize \in {Msize(u) : u \in Sizes}
    /\ {rm_nulls, force_read, noted, open, cut, lowered, wild, surprised} \subseteq BOOLEAN
    /\ handlers \in Seq({"fg", "bg"})
    /\ bg \in [status : {"unarmed", "armed", "blocked"}, full : BOOLEAN, seen : Chars]
    /\ stack \in Seq(Activation)
    /\ stripped \subseteq 1..MaxChars

Upto(n) == [k \in 1..n |-> k]

\* Unless expAdjust has dropped characters, the user and the log get every
\* character that was read, once and in order, whoever read it and however the
\* buffer was shortened in between (expRead, expect.c:1788-1812).
ShownOnce == ~cut => shown = Upto(arrived)

\* Unless expAdjust has dropped characters, whatever leaves the buffer went
\* through expect_out(buffer), "whether or not the full_buffer keyword is
\* used"; only nulls are removed (expect.c:1819-1904, 2230-2262).
NothingForgotten == ~cut =>
    /\ taken \o buffer = Selected(Upto(arrived), (1..arrived) \ stripped)
    /\ stripped \subseteq Nulls

\* No command waits with characters its cases have not been tried on, even if
\* other commands and handlers came in between: not expect in the event loop,
\* not an unblocked expect_background (exp_event.c:190-207, expect.c:2397-2401);
\* and one with a full_buffer case is asked before characters are forgotten,
\* unless the buffer was made smaller (expect.c:861-875, 1639).
NothingOverlooked ==
    /\ Waiting => Head(stack).seen = buffer
    /\ (bg.status = "armed" /\ buffer # <<>>) => cut \/ bg.seen = buffer
    /\ ~lowered => ~surprised

\* What one step made the buffer forget.
Lost == IF arrived' > arrived THEN Elements(buffer) \ Elements(buffer') ELSE {}

\* Characters in a row are tried together although the buffer was shuffled
\* within them: those that begin with a forgotten one were all there, as many
\* as half of the buffer but one (expect.c:1464-1468, 1852-1866).
StraddlingMatch == [][\A c \in Lost : c + (msize - 1) \div 2 - 2 <= arrived]_bufferVars

\* umsize is "# of bytes (min) that is guaranteed to match" (expInt.h:178).
GuaranteedMatch == [][\A c \in Lost : c + (msize - 1) \div 2 - 1 <= arrived]_bufferVars

\* "printed" counts bytes "written to stdout ... but not actually returned via a
\* match yet" (expInt.h:183-184): what is shown and searched next begins inside
\* the buffer.
StaysInBuffer == ~wild
=============================================================================
