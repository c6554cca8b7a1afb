-------------------------------- MODULE Log --------------------------------
(***************************************************************************)
(* Where text goes: the user, the log file, the diagnostics and the        *)
(* processes that send writes to (generic/exp_log.c, and log_file,         *)
(* log_user, exp_internal and send of generic/exp_command.c).  A Tcl       *)
(* channel is a model value: Expect opens those of Pool itself, a script   *)
(* opens and closes the others and may have Expect log to them.  A text    *)
(* is the list of its characters' widths in UTF-8.  A slow or human send   *)
(* sleeps between its pieces, and the events of the sleep close spawn ids. *)
(***************************************************************************)
EXTENDS Integers, SequencesExt

CONSTANTS
    Pool,           \* channels Expect opens for its own files
    Script,         \* channels the script opens
    ReadOnly,       \* those of them that are not writable
    File,           \* names of files
    Process,        \* spawn ids of processes
    Sends,          \* what send is given: spawn ids or one special one, whether they
                    \* are the default, the style with its variable, and the text
    Null

user == "user"      \* tsdPtr->stdinout, stderrX, devtty
error == "error"
tty == "tty"
Special == {user, error, tty}
Id == Process \union Special
Channel == Pool \union Script

Style == {"plain", "slow", "human", "zero"}

ASSUME LogAssumption ==
    /\ ReadOnly \subseteq Script /\ Pool \intersect Script = {}
    /\ \A s \in Sends :
          /\ s.list \in Seq(Process) \union {<<id>> : id \in Special}
          /\ s.default \in BOOLEAN /\ s.style \in Style
          /\ s.var \in Seq(Int) /\ s.text \in Seq(1 .. 3) \ {<<>>}
    /\ Null \notin Channel \union File
    /\ (Channel \union {Null}) \intersect {"stdout", "stderr", user} = {}

VARIABLES
    registered,     \* channels that are open
    log,            \* the log* members of the thread's data
    diag,           \* the diag* members
    open,           \* spawn ids that are open
    gone,           \* those that were waited for too: their record is freed
    sending,        \* the send that runs: the spawn ids it has left, its next character
    got,            \* the characters each spawn id has of the last send
    wrote           \* the channels, "stdout" and "stderr" the last step wrote to

logVars == <<registered, log, diag, open, gone, sending, got, wrote>>

Idle == [list |-> <<>>, targets |-> <<>>, style |-> "plain", var |-> <<>>, text |-> <<>>, next |-> 1, rc |-> "ok"]
Nothing == [i \in Id |-> <<>>]
Free == sending.targets = <<>>

LogTypeOK ==
    /\ registered \subseteq Channel
    /\ log \in [channel : Channel \union {Null}, filename : File \union {Null},
                all : BOOLEAN, leaveOpen : BOOLEAN, user : BOOLEAN]
    /\ diag \in [channel : Pool \union {Null}, toStderr : BOOLEAN]
    /\ open \subseteq Id /\ gone \subseteq Id \ open
    /\ sending.targets \in Seq(Id) /\ sending.style \in Style /\ sending.rc \in {"ok", "error", "fault"}
    /\ \A i \in Id : got[i] \in Seq(Nat)
    /\ \A k \in DOMAIN wrote : wrote[k] \in Channel \union {Null, "stdout", "stderr", user}

\* expDiagInit, expLogInit, exp_init_spawn_ids
LogInit ==
    /\ registered = Script
    /\ log = [channel |-> Null, filename |-> Null, all |-> FALSE,
              leaveOpen |-> FALSE, user |-> TRUE]
    /\ diag = [channel |-> Null, toStderr |-> FALSE]
    /\ open = Id /\ gone = {}
    /\ sending = Idle
    /\ got = Nothing
    /\ wrote = <<>>
-----------------------------------------------------------------------------
(***************************************************************************)
(* Texts that are not sent to a process.                                   *)
(***************************************************************************)
To(channel) == IF channel = Null THEN <<>> ELSE <<channel>>
When(condition, writes) == IF condition THEN writes ELSE <<>>

expLogDiagU == To(diag.channel) \o To(log.channel)

expLogInteractionU(id) ==
    When(log.all \/ (log.user /\ log.channel # Null), <<log.channel>>)
      \o When(log.user /\ id \notin {user, tty} /\ user \notin gone, <<user>>)
      \o To(diag.channel)

expStdoutLogU(force) ==
    When(log.user \/ force \/ log.all,
         To(diag.channel)
           \o When(log.all \/ ((log.user \/ force) /\ log.channel # Null), <<log.channel>>)
           \o When(log.user \/ force, <<"stdout">>))

expErrorLogU == To(diag.channel) \o <<"stderr">> \o To(log.channel)

expDiagLogU ==
    To(diag.channel) \o When(diag.toStderr, <<"stderr">> \o To(log.channel))

Write(writes) ==
    /\ Free
    /\ wrote' = writes
    /\ sending' = Idle /\ got' = Nothing
    /\ UNCHANGED <<registered, log, diag, open, gone>>

Read(id) == id \in open /\ Write(expLogInteractionU(id))
Tell(force) == Write(expStdoutLogU(force))
Complain == Write(expErrorLogU)
Trace == Write(expDiagLogU)
SendLog == Write(expLogDiagU)
-----------------------------------------------------------------------------
(***************************************************************************)
(* log_file, log_user and exp_internal.                                    *)
(***************************************************************************)
Command ==
    /\ Free
    /\ wrote' = <<>>
    /\ sending' = Idle /\ got' = Nothing
    /\ UNCHANGED <<open, gone>>

\* The channel Tcl_OpenFileChannel gives.  When it fails nothing changes, but
\* that the old file of exp_internal -f is closed.
OpenFile == Pool \ registered

\* Mutant of expLogChannelClose: logAll stays set.
CloseKeepsAll ==
    [log |-> [log EXCEPT !.channel = Null, !.filename = Null],
     registered |-> IF log.filename = Null /\ log.leaveOpen THEN registered
                    ELSE registered \ {log.channel}]

\* Returns the log without its channel, and the channels that are left.
expLogChannelClose ==
    [log |-> [log EXCEPT !.channel = Null, !.filename = Null, !.all = FALSE],
     registered |-> IF log.filename = Null /\ log.leaveOpen THEN registered
                    ELSE registered \ {log.channel}]

Opened(channel, l, given) ==
    [l EXCEPT !.channel = channel, !.all = given.all, !.leaveOpen = given.leave]

\* given.channel comes with -open or -leaveopen, given.all with -a.  A usage error
\* and a second log end with TCL_ERROR and change nothing.
LogFile(given) ==
    /\ Command
    /\ UNCHANGED diag
    /\ given.channel = Null \/ given.file = Null
    /\ \/ /\ log.channel # Null
          /\ \/ given.file # Null /\ given.file = log.filename
             \/ given.channel = log.channel
          /\ log' = [log EXCEPT !.all = given.all]
          /\ UNCHANGED registered
       \/ /\ log.channel = Null /\ given.file # Null
          /\ \E channel \in OpenFile :
                /\ registered' = registered \union {channel}
                /\ log' = Opened(channel, [log EXCEPT !.filename = given.file], given)
       \/ /\ log.channel = Null /\ given.channel \in registered \ ReadOnly
          /\ log' = Opened(given.channel, log, given)
          /\ UNCHANGED registered
       \/ /\ given.channel = Null /\ given.file = Null
          /\ registered' = expLogChannelClose.registered
          /\ log' = IF given.all THEN expLogChannelClose.log
                    ELSE [expLogChannelClose.log EXCEPT !.leaveOpen = FALSE]

LogUser(value) ==
    /\ Command
    /\ log' = [log EXCEPT !.user = value]
    /\ UNCHANGED <<registered, diag>>

\* -f closes the old file before it opens the new one; no -f closes it.
ExpInternal(file, value) ==
    /\ Command
    /\ UNCHANGED log
    /\ LET closed == registered \ {diag.channel} IN
       IF ~file
       THEN /\ registered' = closed
            /\ diag' = [channel |-> Null, toStderr |-> value]
       ELSE \E channel \in {Null} \union (Pool \ closed) :
               /\ registered' = IF channel = Null THEN closed ELSE closed \union {channel}
               /\ diag' = [channel |-> channel,
                           toStderr |-> IF channel = Null THEN diag.toStderr ELSE value]

\* open and close of the script.
ScriptOpen(channel) ==
    /\ Command
    /\ channel \notin registered
    /\ registered' = registered \union {channel}
    /\ UNCHANGED <<log, diag>>

ScriptClose(channel) ==
    /\ Command
    /\ channel \in registered
    /\ registered' = registered \ {channel}
    /\ UNCHANGED <<log, diag>>
-----------------------------------------------------------------------------
(***************************************************************************)
(* send.                                                                   *)
(***************************************************************************)
\* The numbers of send_slow: a size and a time; and of send_human: two averages,
\* the shape, the least and the greatest time.  A variable that is not set has none.
get_slow_args(var) == Len(var) = 2 /\ var[1] > 0 /\ var[2] > 0

get_human_args(var) ==
    /\ Len(var) = 5
    /\ var[1] >= 0 /\ var[2] >= 0 /\ var[3] > 0
    /\ 0 <= var[4] /\ var[4] <= var[5]

Timed(style, var) ==
    /\ style = "slow" => get_slow_args(var)
    /\ style = "human" => get_human_args(var)

\* The style is read with its flag, before anything else is looked at.
SendRefused(style, var) ==
    /\ Free
    /\ ~Timed(style, var)
    /\ sending' = [Idle EXCEPT !.rc = "error"]
    /\ got' = Nothing /\ wrote' = <<>>
    /\ UNCHANGED <<registered, log, diag, open, gone>>

\* exp_i_add_state puts each spawn id at the front.  The default is spawn_id,
\* which need not be open.
Send(list, default, style, var, text) ==
    /\ Free
    /\ Timed(style, var)
    /\ ToSet(list) \intersect gone = {}
    /\ list \in Seq(Process) /\ ~default => ToSet(list) \subseteq open
    /\ sending' = [list |-> Reverse(list), targets |-> Reverse(list), style |-> style,
                   var |-> var, text |-> text, next |-> 1, rc |-> "ok"]
    /\ got' = Nothing
    /\ wrote' = IF list \in Seq(Process) THEN expDiagLogU ELSE expLogDiagU
    /\ UNCHANGED <<registered, log, diag, open, gone>>

Size(text, first, last) == FoldLeft(+, 0, SubSeq(text, first, last))

\* How many characters the next piece has.  slow_write takes the bytes that are
\* left for a number of characters; what it finds behind the text is 1 byte wide.
Piece ==
    LET s == sending
        left == Size(s.text, s.next, Len(s.text))
    IN  CASE s.style \in {"plain", "zero"} -> Len(s.text)
          [] s.style = "slow" -> Min({s.var[1], left})
          [] s.style = "human" -> 1

End(rc) == sending' = [sending EXCEPT !.targets = <<>>, !.next = 1, !.rc = rc]

\* Mutant of NextTarget: the second spawn id gets what the first one had left.
NextTargetResumes ==
    sending' = [sending EXCEPT !.targets = Tail(@),
                               !.text = IF sending.style = "zero" THEN <<>> ELSE @]

\* The number of zeros is counted down for the first spawn id and is 0 for the
\* others.
NextTarget ==
    sending' = [sending EXCEPT !.targets = Tail(@), !.next = 1,
                               !.text = IF sending.style = "zero" THEN <<>> ELSE @]

\* The loop of Exp_SendObjCmd up to the next sleep.  The spawn id is checked
\* before its first piece only; a record that was freed in a sleep is used.
SendPiece ==
    /\ sending.targets # <<>>
    /\ LET id == Head(sending.targets)
           after == sending.next + Piece
       IN  \/ /\ id \in gone \ Special
              /\ End("fault")
              /\ UNCHANGED got
           \/ /\ id \notin open /\ sending.next = 1
              /\ End("error")
              /\ UNCHANGED got
           \/ /\ id \notin gone \ Special /\ (id \in open \/ sending.next > 1)
              /\ \/ /\ got' = [got EXCEPT ![id] = @ \o [k \in 1 .. Piece |-> sending.next + k - 1]]
                    /\ IF after <= Len(sending.text)
                       THEN sending' = [sending EXCEPT !.next = after]
                       ELSE NextTarget
                 \/ End("error") /\ UNCHANGED got
    /\ wrote' = <<>>
    /\ UNCHANGED <<registered, log, diag, open, gone>>
-----------------------------------------------------------------------------
(***************************************************************************)
(* spawn, close and wait; the last two also from the events of a sleep.    *)
(***************************************************************************)
Sleeping == Free \/ sending.next > 1

Spawn(id) ==
    /\ Free
    /\ id \notin open
    /\ open' = open \union {id} /\ gone' = gone \ {id}
    /\ wrote' = <<>>
    /\ sending' = Idle /\ got' = Nothing
    /\ UNCHANGED <<registered, log, diag>>

Ended == IF Free THEN sending' = Idle /\ got' = Nothing ELSE UNCHANGED <<sending, got>>

Close(id) ==
    /\ Sleeping /\ Ended
    /\ id \in open
    /\ open' = open \ {id}
    /\ wrote' = <<>>
    /\ UNCHANGED <<registered, log, diag, gone>>

Wait(id) ==
    /\ Sleeping /\ Ended
    /\ id \notin open \union gone
    /\ gone' = gone \union {id}
    /\ wrote' = <<>>
    /\ UNCHANGED <<registered, log, diag, open>>

Args == [channel : Script \union {Null}, leave : BOOLEAN, file : File \union {Null}, all : BOOLEAN]

LogNext ==
    \/ \E id \in Id : Read(id)
    \/ \E force \in BOOLEAN : Tell(force)
    \/ Complain
    \/ Trace
    \/ SendLog
    \/ \E given \in Args : LogFile(given)
    \/ \E value \in BOOLEAN : LogUser(value)
    \/ \E file, value \in BOOLEAN : ExpInternal(file, value)
    \/ \E channel \in Script : ScriptOpen(channel) \/ ScriptClose(channel)
    \/ \E s \in Sends : SendRefused(s.style, s.var) \/ Send(s.list, s.default, s.style, s.var, s.text)
    \/ SendPiece
    \/ \E id \in Process : Spawn(id)
    \/ \E id \in Process \union {user} : Close(id) \/ Wait(id)

LogSpec == LogInit /\ [][LogNext]_logVars
-----------------------------------------------------------------------------
\* While a log is open, what the user is shown is in the log too, once, and no
\* text goes to a channel that is not there (expStdoutLogU and its like test logAll
\* and not logChannel).  A file that Expect opened for its log or its diagnostics
\* is open as long as it is used, is closed when it is not, and is not used for
\* both (exp_log.c:497, "should probably confirm logChannel != 0").
Transcript ==
    LET shown == ToSet(wrote) \intersect {"stdout", "stderr", user} # {}
        logFile == IF log.filename = Null THEN Null ELSE log.channel
    IN  /\ shown /\ log.channel # Null =>
              Cardinality({k \in DOMAIN wrote : wrote[k] = log.channel}) = 1
        /\ Null \notin ToSet(wrote)
        /\ registered \intersect Pool = {diag.channel, logFile} \ {Null}
        /\ log.channel # Null => log.channel # diag.channel
        /\ log.channel = Null => ~log.all /\ log.filename = Null

\* A send gives each of its spawn ids the whole text, in order, before it goes to
\* the next one; an error ends it there.  Only a slow send of wide characters
\* writes more than the text, and -null of one number gives it to the first only.
Whole ==
    LET n == Len(sending.text)
        list == sending.list
        Got(k) == Len(got[list[k]])
    IN  sending.style # "zero" =>
          /\ \A k \in DOMAIN list : got[list[k]] = [c \in 1 .. Got(k) |-> c]
          /\ \A j, k \in DOMAIN list : j < k /\ Got(k) > 0 => Got(j) >= n
          /\ Free /\ sending.rc = "ok" => \A k \in DOMAIN list : Got(k) >= n
          /\ \A k \in DOMAIN list : Got(k) > n => sending.style = "slow" /\ ToSet(sending.text) # {1}
=============================================================================
