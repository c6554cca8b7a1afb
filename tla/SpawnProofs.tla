---------------------------- MODULE SpawnProofs -----------------------------
(***************************************************************************)
(* Proofs about the spawn channel driver and the spawn ids on top of it.   *)
(*                                                                         *)
(* SpawnChan, for every set of channels, every bound and both kinds of     *)
(* client: TypeOK needs the call in progress to exist (Busy).  StreamIntact *)
(* needs in addition that a Read that found the list not empty does not    *)
(* report end-of-file before it took a byte (ReadGuard): the list can only *)
(* grow behind it, since only Read takes messages out.                     *)
(*                                                                         *)
(* Launch, for every path, list of arguments and list of variables: what   *)
(* is written into the command line and the environment block is what a    *)
(* program reads there, and LaunchInv says that only console programs come *)
(* that far.                                                               *)
(***************************************************************************)
EXTENDS SpawnChan, SpawnId, Launch, FiniteSetTheorems, SequenceTheorems, WellFoundedInduction, TLAPS

-----------------------------------------------------------------------------
(* What is left of a queue: the lemmas of FoldProofs, which folds nothing here. *)

Added(t, e, d) == Append(t, e)
Queue == INSTANCE FoldProofs WITH op <- Added, step <- Added

\* Its own operators are the ones meant here.
LEMMA SameQueue ==
    ASSUME NEW q, NEW K, NEW x
    PROVE  /\ Queue!Cardinality(K) = Cardinality(K) /\ (Queue!IsFiniteSet(K) <=> IsFiniteSet(K))
           /\ \A i : Queue!Place(K, i) = Place(K, i)
           /\ Queue!Selected(q, K) = Selected(q, K) /\ Queue!Without(q, x) = Without(q, x)
<1>1. ASSUME NEW S PROVE Queue!Cardinality(S) = Cardinality(S)
  BY DEF Queue!Cardinality, Cardinality
<1>2. Queue!IsFiniteSet(K) <=> IsFiniteSet(K)
  BY DEF Queue!IsFiniteSet, IsFiniteSet
<1>3. ASSUME NEW S, NEW i PROVE Queue!Place(S, i) = Place(S, i)
  BY <1>1 DEF Queue!Place, Place
<1>4. ASSUME NEW S PROVE Queue!Selected(q, S) = Selected(q, S)
  BY DEF Queue!Selected, Queue!Place, Queue!Cardinality, Selected, Place, Cardinality
<1>5. Queue!Without(q, x) = Without(q, x)
  BY <1>4 DEF Queue!Without, Queue!Kept, Without, Kept
<1>. QED  BY <1>1, <1>2, <1>3, <1>4, <1>5

\* What is left without x is a queue of the same kind that does not hold x.
LEMMA WithoutProperties ==
    ASSUME NEW S, NEW q \in Seq(S), NEW x
    PROVE  /\ Without(q, x) \in Seq(S)
           /\ \A j \in 1..Len(Without(q, x)) : Without(q, x)[j] # x
BY SameQueue, Queue!WithoutProperties
-----------------------------------------------------------------------------

\* Inside a driver call there is a call.
Busy == tpc \in {"call", "watch", "read_test", "read_loop", "cut_events",
                 "cut_mask", "cut_tsd", "close_wait"} => job # <<>>

\* A Read that may not wait and has no byte yet finds a message.
ReadGuard == tpc = "read_loop" /\ nread = 0 /\ ~blocking[cur.chan] =>
                 outLL[cur.chan] # <<>>

TypeInv == TypeOK /\ Busy

IInv == TypeInv /\ StreamIntact /\ ReadGuard

-----------------------------------------------------------------------------
(***************************************************************************)
(* The calls the layer above makes.                                        *)
(***************************************************************************)

\* The three kinds of call are calls.
LEMMA CallType ==
    ASSUME NEW c \in Chan, NEW m \in Mask
    PROVE  Watch(c, m) \in Call /\ Read(c) \in Call /\ Close(c) \in Call
BY DEF Watch, Read, Close, Call, Mask

\* Read and Close need no mask.
LEMMA PlainCallType ==
    ASSUME NEW c \in Chan
    PROVE  Read(c) \in Call /\ Close(c) \in Call
<1>1. {} \in Mask
  BY DEF Mask
<1>. QED  BY <1>1, CallType

\* Arming or disarming is one call or two.
LEMMA WatchCallsType ==
    ASSUME NEW c \in Chan, NEW m \in Mask
    PROVE  WatchCalls(c, m) \in Seq(Call) /\ WatchCalls(c, m) # <<>>
BY CallType DEF WatchCalls

\* So is what a readable channel makes its handler do.
LEMMA ReadableCallsType ==
    ASSUME NEW c \in Chan
    PROVE  ReadableCalls(c) \in Seq(Call) /\ ReadableCalls(c) # <<>>
<1>1. {} \in Mask /\ {"readable"} \in Mask
  BY DEF Mask
<1>2. WatchCalls(c, {}) \in Seq(Call) /\ WatchCalls(c, {}) # <<>>
  BY <1>1, WatchCallsType
<1> DEFINE rest == <<Read(c), Watch(c, {"readable"}), Watch(c, {"readable"})>>
<1>3. rest \in Seq(Call)
  BY <1>1, CallType
<1>4. WatchCalls(c, {}) \o rest \in Seq(Call) /\ WatchCalls(c, {}) \o rest # <<>>
  <2>. HIDE DEF rest
  <2>. QED  BY <1>2, <1>3, ConcatProperties, ConcatEqualIffEmpty
<1>. QED  BY <1>2, <1>4 DEF ReadableCalls

\* The call in progress is a call on a channel.
LEMMA CurType ==
    ASSUME TypeOK, job # <<>>
    PROVE  /\ cur \in Call /\ cur.chan \in Chan /\ cur.mask \in Mask
           /\ Tail(job) \in Seq(Call)
<1>1. job \in Seq(Call)
  BY DEF TypeOK
<1>2. Head(job) \in Call /\ Tail(job) \in Seq(Call)
  BY <1>1, HeadTailProperties
<1>. QED  BY <1>2 DEF cur, Call
-----------------------------------------------------------------------------
(***************************************************************************)
(* Type correctness.                                                       *)
(***************************************************************************)

\* The frames of the actions, and the vocabulary they share.
USE DEF shared, slave, client, stream

\* The initial state is well typed.
LEMMA TypeInit == Init => TypeInv
<1>. SUFFICES ASSUME Init PROVE TypeInv
  OBVIOUS
<1>1. <<>> \in Seq(Call) /\ <<>> \in Seq(Chan) /\ <<>> \in Seq(Message)
  OBVIOUS
<1>2. {} \in Mask
  BY DEF Mask
<1>3. /\ outLL \in [Chan -> Seq(Message)] /\ watchMask \in [Chan -> Mask]
      /\ readyQ \in Seq(Chan) /\ evQ \in Seq(Chan) /\ job \in Seq(Call)
  BY <1>1, <1>2 DEF Init
<1>4. /\ eventInQ \in [Chan -> {0, 1}] /\ blocking \in [Chan -> BOOLEAN]
      /\ attached \in [Chan -> BOOLEAN] /\ done \in [Chan -> BOOLEAN]
      /\ written \in [Chan -> Nat] /\ delivered \in [Chan -> Nat]
      /\ eof \in [Chan -> BOOLEAN] /\ nread \in 0..BufSize
  BY BoundsAssumption DEF Init
<1>. QED  BY <1>3, <1>4 DEF Init, TypeInv, TypeOK, Busy

\* The debugger thread keeps the types.
LEMMA DebuggerType ==
    ASSUME TypeInv, NEW c \in Chan, Debugger(c)
    PROVE  TypeInv'
<1>. USE DEF TypeInv, Busy
<1>1. CASE WriteMaster(c)
  <2>. PICK n \in 1..MaxMsg :
         /\ outLL' = [outLL EXCEPT ![c] = Append(@,
                [type |-> "normal", lo |-> written[c], hi |-> written[c] + n])]
         /\ written' = [written EXCEPT ![c] = @ + n]
    BY <1>1 DEF WriteMaster
  <2>1. written[c] \in Nat /\ written[c] + n \in Nat /\ outLL[c] \in Seq(Message)
    BY BoundsAssumption DEF TypeOK
  <2>2. [type |-> "normal", lo |-> written[c], hi |-> written[c] + n] \in Message
    BY <2>1 DEF Message
  <2>3. outLL' \in [Chan -> Seq(Message)] /\ written' \in [Chan -> Nat]
    BY <2>1, <2>2, AppendProperties DEF TypeOK
  <2>. QED  BY <1>1, <2>3 DEF WriteMaster, TypeOK
<1>2. CASE NotifyDone(c)
  <2>1. written[c] \in Nat /\ outLL[c] \in Seq(Message)
    BY DEF TypeOK
  <2>2. [type |-> "slavedone", lo |-> written[c], hi |-> written[c]] \in Message
    BY <2>1 DEF Message
  <2>3. outLL' \in [Chan -> Seq(Message)]
    BY <1>2, <2>1, <2>2, AppendProperties DEF TypeOK, NotifyDone
  <2>. QED  BY <1>2, <2>3 DEF NotifyDone, TypeOK
<1>3. CASE AlertReadable(c)
  <2>1. readyQ' \in Seq(Chan)
    <3>1. readyQ' = readyQ \/ readyQ' = Append(readyQ, c)
      BY <1>3 DEF AlertReadable, AlertTest, AlertExchange, AlertLoad,
           AlertEnqueue, AlertWake, AlertZap
    <3>2. readyQ \in Seq(Chan)
      BY DEF TypeOK
    <3>. QED  BY <3>1, <3>2, AppendProperties
  <2>2. PICK p \in {"run", "exchange", "load", "enqueue", "wake", "zap", "exited"} :
              dpc' = [dpc EXCEPT ![c] = p]
    <3>1. AlertReturn(c) \in {"run", "exited"}
      BY DEF AlertReturn
    <3>2. CASE AlertTest(c) \/ AlertExchange(c) \/ AlertLoad(c)
      BY <3>1, <3>2 DEF AlertTest, AlertExchange, AlertLoad
    <3>3. CASE AlertEnqueue(c) \/ AlertWake(c) \/ AlertZap(c)
      BY <3>1, <3>3 DEF AlertEnqueue, AlertWake, AlertZap
    <3>. QED  BY <1>3, <3>2, <3>3 DEF AlertReadable
  <2>3. eventInQ' \in [Chan -> {0, 1}] /\ alerted' \in BOOLEAN
    BY <1>3 DEF AlertReadable, AlertTest, AlertExchange, AlertLoad,
         AlertEnqueue, AlertWake, AlertZap, TypeOK
  <2>4. AlertFrame
    BY <1>3 DEF AlertReadable, AlertTest, AlertExchange, AlertLoad,
         AlertEnqueue, AlertWake, AlertZap
  <2>5. dpc' \in [Chan -> {"run", "alert", "exchange", "load", "enqueue", "wake",
                          "zap", "exited"}]
    BY <2>2 DEF TypeOK
  <2>6. /\ UNCHANGED <<outLL, watchMask, blocking, attached, needAwake, evQ,
                       written, done, tpc, nread, woke, life>>
        /\ UNCHANGED <<job, ret, notified, needArm>> /\ UNCHANGED <<delivered, eof>>
    BY <2>4 DEF AlertFrame
  <2>. HIDE DEF client, stream, slave, shared
  <2>. QED  BY <2>1, <2>3, <2>5, <2>6 DEF TypeOK
<1>. QED  BY <1>1, <1>2, <1>3 DEF Debugger

\* A call that returns leaves a well-typed list of calls.
LEMMA ReturnType ==
    ASSUME TypeInv, job # <<>>, NEW left \in {job, Tail(job), <<>>}, Return(left),
           ret' = ret
    PROVE  /\ job' \in Seq(Call)
           /\ tpc' \in {"script", "call"}
           /\ tpc' = "call" => job' # <<>>
<1>1. job \in Seq(Call) /\ Tail(job) \in Seq(Call) /\ <<>> \in Seq(Call) /\ ret = "script"
  BY CurType DEF TypeInv, TypeOK
<1>. QED  BY <1>1 DEF Return

\* A Read that returns keeps the types.
LEMMA ReadReturnType ==
    ASSUME TypeInv, job # <<>>, NEW n \in 0..BufSize, ReadReturn(cur.chan, n), ret' = ret
    PROVE  /\ job' \in Seq(Call)
           /\ tpc' \in {"script", "call"}
           /\ tpc' = "call" => job' # <<>>
           /\ nread' \in 0..BufSize
           /\ eof' \in [Chan -> BOOLEAN]
<1>1. PICK left \in {job, Tail(job), <<>>} : Return(left)
  BY DEF ReadReturn
<1>. QED  BY <1>1, ReturnType DEF ReadReturn, TypeInv, TypeOK

\* The driver's Watch, Cut and Close keep the types.
LEMMA WatchCloseType ==
    ASSUME TypeInv, WatchTest \/ WatchSet \/ CloseCall
    PROVE  TypeInv'
<1>. USE DEF TypeInv, Busy, CallFrame
<1>1. job # <<>>
  BY DEF WatchTest, WatchSet, CloseCall, CutRemove, CutEvents, CutMask, CutTsd,
         CloseWait, Calling
<1>2. cur.chan \in Chan /\ cur.mask \in Mask
  BY <1>1, CurType
<1>3. readyQ \in Seq(Chan) /\ evQ \in Seq(Chan)
  BY DEF TypeOK
<1>4. CASE WatchTest
  <2>1. readyQ' \in Seq(Chan)
    BY <1>2, <1>3, <1>4, AppendProperties DEF WatchTest
  <2>. QED  BY <1>1, <1>4, <2>1 DEF WatchTest, TypeOK
<1>5. CASE WatchSet
  <2>1. watchMask' \in [Chan -> Mask]
    BY <1>2, <1>5 DEF WatchSet, TypeOK
  <2>2. /\ job' \in Seq(Call) /\ tpc' \in {"script", "call"}
        /\ tpc' = "call" => job' # <<>>
    BY <1>1, <1>5, ReturnType DEF WatchSet
  <2>. QED  BY <1>5, <2>1, <2>2 DEF WatchSet, TypeOK
<1>6. CASE CutRemove
  <2>1. readyQ' \in Seq(Chan)
    BY <1>3, <1>6, WithoutProperties DEF CutRemove
  <2>. QED  BY <1>1, <1>6, <2>1 DEF CutRemove, TypeOK
<1>7. CASE CutEvents
  <2>1. evQ' \in Seq(Chan)
    BY <1>3, <1>7, WithoutProperties DEF CutEvents
  <2>. QED  BY <1>1, <1>7, <2>1 DEF CutEvents, TypeOK
<1>8. CASE CutMask
  <2>1. watchMask' \in [Chan -> Mask]
    BY <1>2, <1>8 DEF CutMask, TypeOK, Mask
  <2>. QED  BY <1>1, <1>8, <2>1 DEF CutMask, TypeOK
<1>9. CASE CutTsd
  <2>1. attached' \in [Chan -> BOOLEAN]
    BY <1>2, <1>9 DEF CutTsd, TypeOK
  <2>. QED  BY <1>1, <1>9, <2>1 DEF CutTsd, TypeOK
<1>10. CASE CloseWait
  <2>1. life' \in [Chan -> {"open", "closed", "closing", "freed"}]
    BY <1>2, <1>10 DEF CloseWait, TypeOK
  <2>2. /\ job' \in Seq(Call) /\ tpc' \in {"script", "call"}
        /\ tpc' = "call" => job' # <<>>
    BY <1>1, <1>10, ReturnType DEF CloseWait
  <2>. QED  BY <1>10, <2>1, <2>2 DEF CloseWait, TypeOK
<1>. QED  BY <1>4, <1>5, <1>6, <1>7, <1>8, <1>9, <1>10 DEF CloseCall

\* The message at the head of a list.
LEMMA HeadMessage ==
    ASSUME TypeOK, NEW c \in Chan, outLL[c] # <<>>
    PROVE  /\ outLL[c] \in Seq(Message)
           /\ Head(outLL[c]) \in Message
           /\ Tail(outLL[c]) \in Seq(Message)
           /\ Head(outLL[c]).lo \in Nat /\ Head(outLL[c]).hi \in Nat
           /\ Head(outLL[c]).lo <= Head(outLL[c]).hi
<1>1. outLL[c] \in Seq(Message)
  BY DEF TypeOK
<1>2. Head(outLL[c]) \in Message /\ Tail(outLL[c]) \in Seq(Message)
  BY <1>1, HeadTailProperties
<1>. QED  BY <1>1, <1>2 DEF Message

\* What Read posts again keeps the types.
LEMMA RepostType ==
    ASSUME TypeOK, NEW c \in Chan, Repost(c)
    PROVE  readyQ' \in Seq(Chan) /\ eventInQ' \in [Chan -> {0, 1}]
<1>1. readyQ' \in Seq(Chan)
  BY AppendProperties DEF Repost, TypeOK
<1>2. eventInQ' \in [Chan -> {0, 1}]
  BY DEF Repost, TypeOK
<1>. QED  BY <1>1, <1>2

\* Read keeps the types.
LEMMA ReadType ==
    ASSUME TypeInv, ReadCall
    PROVE  TypeInv'
<1>. USE DEF TypeInv, Busy, CallFrame
<1>1. job # <<>>
  BY DEF ReadCall, ReadBegin, ReadTest, ReadWhole, ReadPart, ReadSlaveDone,
         ReadDrained, Calling
<1>2. cur.chan \in Chan /\ cur.mask \in Mask
  BY <1>1, CurType
<1>3. nread \in 0..BufSize /\ BufSize \in Nat \ {0} /\ delivered[cur.chan] \in Nat
  BY <1>2, BoundsAssumption DEF TypeOK
<1> DEFINE c == cur.chan
           m == Head(outLL[c])
<1>4. CASE ReadBegin
  <2>1. eventInQ' \in [Chan -> {0, 1}] /\ nread' \in 0..BufSize
    BY <1>2, <1>3, <1>4 DEF ReadBegin, TypeOK
  <2>. QED  BY <1>1, <1>4, <2>1 DEF ReadBegin, TypeOK
<1>5. CASE ReadTest
  <2>1. /\ job' \in Seq(Call) /\ tpc' \in {"script", "call", "read_loop"}
        /\ tpc' \in {"call", "read_loop"} => job' # <<>>
    BY <1>1, <1>5, ReturnType DEF ReadTest, TypeOK
  <2>. QED  BY <1>5, <2>1 DEF ReadTest, TypeOK
<1>6. CASE ReadWhole
  <2>1. Readable(c) /\ nread + (m.hi - m.lo) <= BufSize
    BY <1>6 DEF ReadWhole
  <2>2. m.lo \in Nat /\ m.hi \in Nat /\ m.lo <= m.hi /\ Tail(outLL[c]) \in Seq(Message)
    BY <1>2, <2>1, HeadMessage DEF Readable
  <2>3. outLL' \in [Chan -> Seq(Message)]
    BY <1>2, <1>6, <2>2 DEF ReadWhole, TypeOK
  <2>4. nread + (m.hi - m.lo) \in 0..BufSize /\ delivered[c] + (m.hi - m.lo) \in Nat
    <3>. HIDE DEF m
    <3>. QED  BY <1>3, <2>1, <2>2
  <2>5. delivered' \in [Chan -> Nat]
    BY <1>2, <1>6, <2>4 DEF ReadWhole, TypeOK
  <2>6. /\ job' \in Seq(Call) /\ tpc' \in {"script", "call", "read_loop"}
        /\ tpc' \in {"call", "read_loop"} => job' # <<>>
        /\ nread' \in 0..BufSize /\ eof' \in [Chan -> BOOLEAN]
    <3>1. CASE blocking[c]
      BY <1>1, <1>6, <2>4, <3>1, ReadReturnType DEF ReadWhole
    <3>2. CASE ~blocking[c]
      BY <1>1, <1>6, <2>4, <3>2 DEF ReadWhole, TypeOK
    <3>. QED  BY <3>1, <3>2
  <2>7. UNCHANGED <<eventInQ, watchMask, attached, readyQ, evQ, life>> /\ CallFrame
    BY <1>6 DEF ReadWhole
  <2>. QED  BY <2>3, <2>5, <2>6, <2>7 DEF TypeOK, CallFrame
<1>7. CASE ReadPart
  <2>1. Readable(c) /\ nread + (m.hi - m.lo) > BufSize
    BY <1>7 DEF ReadPart
  <2>2. /\ m \in Message /\ outLL[c] \in Seq(Message) /\ outLL[c] # <<>>
        /\ m.lo \in Nat /\ m.hi \in Nat /\ m = outLL[c][1]
    BY <1>2, <2>1, HeadMessage DEF Readable
  <2>3. [m EXCEPT !.lo = @ + (BufSize - nread)] \in Message
    <3>1. m.lo + (BufSize - nread) \in Nat /\ m.lo + (BufSize - nread) <= m.hi
      BY SMTT(30), <1>3, <2>1, <2>2
    <3>. HIDE DEF m
    <3>. QED  BY <2>2, <3>1 DEF Message
  <2>4. 1 \in 1..Len(outLL[c])
    BY <2>2, EmptySeq
  <2>5. outLL' = [outLL EXCEPT ![c] =
                    [outLL[c] EXCEPT ![1] = [m EXCEPT !.lo = @ + (BufSize - nread)]]]
    BY <1>7, <2>2 DEF ReadPart
  <2>6. [outLL[c] EXCEPT ![1] = [m EXCEPT !.lo = @ + (BufSize - nread)]] \in Seq(Message)
    BY <2>2, <2>3, <2>4, ExceptSeq
  <2>7. outLL' \in [Chan -> Seq(Message)]
    BY <1>2, <2>5, <2>6 DEF TypeOK
  <2>8. delivered[c] + (BufSize - nread) \in Nat
    BY <1>3
  <2>9. delivered' \in [Chan -> Nat]
    BY <1>2, <1>7, <2>8 DEF ReadPart, TypeOK
  <2>10. readyQ' \in Seq(Chan) /\ eventInQ' \in [Chan -> {0, 1}]
    BY <1>2, <1>7, RepostType DEF ReadPart
  <2>11. /\ job' \in Seq(Call) /\ tpc' \in {"script", "call"}
         /\ tpc' = "call" => job' # <<>>
         /\ nread' \in 0..BufSize /\ eof' \in [Chan -> BOOLEAN]
    BY <1>1, <1>3, <1>7, ReadReturnType DEF ReadPart
  <2>. QED  BY <1>7, <2>7, <2>9, <2>10, <2>11 DEF ReadPart, TypeOK
<1>8. CASE ReadSlaveDone
  <2>1. Tail(outLL[c]) \in Seq(Message)
    BY <1>2, <1>8, HeadMessage DEF ReadSlaveDone, Readable
  <2>2. outLL' \in [Chan -> Seq(Message)]
    BY <1>2, <1>8, <2>1 DEF ReadSlaveDone, TypeOK
  <2>3. readyQ' \in Seq(Chan) /\ eventInQ' \in [Chan -> {0, 1}]
    BY <1>2, <1>8, RepostType DEF ReadSlaveDone, TypeOK
  <2>4. /\ job' \in Seq(Call) /\ tpc' \in {"script", "call"}
        /\ tpc' = "call" => job' # <<>>
        /\ nread' \in 0..BufSize /\ eof' \in [Chan -> BOOLEAN]
    BY <1>1, <1>3, <1>8, ReadReturnType DEF ReadSlaveDone
  <2>. QED  BY <1>8, <2>2, <2>3, <2>4 DEF ReadSlaveDone, TypeOK
<1>9. CASE ReadDrained
  <2>1. /\ job' \in Seq(Call) /\ tpc' \in {"script", "call"}
        /\ tpc' = "call" => job' # <<>>
        /\ nread' \in 0..BufSize /\ eof' \in [Chan -> BOOLEAN]
    BY <1>1, <1>3, <1>9, ReadReturnType DEF ReadDrained
  <2>. QED  BY <1>9, <2>1 DEF ReadDrained, TypeOK
<1>. QED  BY <1>4, <1>5, <1>6, <1>7, <1>8, <1>9 DEF ReadCall

\* What scripts do keeps the types.
LEMMA ScriptType ==
    ASSUME TypeInv, NEW c \in Chan, ExpectRead(c) \/ Arm(c) \/ Block(c) \/ CloseChan(c) \/ WaitChan(c)
    PROVE  TypeInv'
<1>. USE DEF TypeInv, Busy, ScriptFrame, Begin
<1>1. CASE ExpectRead(c)
  <2>1. <<Read(c)>> \in Seq(Call) /\ <<Read(c)>> # <<>>
    BY PlainCallType
  <2>. QED  BY <1>1, <2>1 DEF ExpectRead, TypeOK
<1>2. CASE Arm(c)
  <2>1. PICK k \in Masks : Begin(WatchCalls(c, k), "script")
    BY <1>2 DEF Arm
  <2>2. k \in Mask
    BY <2>1, ClientAssumption DEF Mask
  <2>. QED  BY <1>2, <2>1, <2>2, WatchCallsType DEF Arm, TypeOK
<1>3. CASE Block(c)
  BY <1>3 DEF Block, TypeOK
<1>4. CASE CloseChan(c)
  <2>1. WatchCalls(c, {}) \in Seq(Call) /\ WatchCalls(c, {}) # <<>>
    BY WatchCallsType DEF Mask
  <2>. QED  BY <1>4, <2>1 DEF CloseChan, TypeOK
<1>5. CASE WaitChan(c)
  <2>1. <<Close(c)>> \in Seq(Call) /\ <<Close(c)>> # <<>>
    BY PlainCallType
  <2>. QED  BY <1>5, <2>1 DEF WaitChan, TypeOK
<1>. QED  BY <1>1, <1>2, <1>3, <1>4, <1>5

\* The event loop keeps the types.
LEMMA LoopType ==
    ASSUME TypeInv, EventLoop
    PROVE  TypeInv'
<1>. USE DEF TypeInv, Busy, LoopFrame
<1>1. ASSUME AfterTurn PROVE needArm' \subseteq Chan
  BY <1>1 DEF AfterTurn, Active, TypeOK
<1>2. CASE DoOneEvent \/ Setup \/ SetupSet \/ Awake \/ Check
  BY <1>2 DEF DoOneEvent, Setup, SetupSet, Awake, Check, TypeOK
<1>3. CASE Drain
  <2>1. evQ' \in Seq(Chan) /\ readyQ' \in Seq(Chan)
    BY <1>3, ConcatProperties DEF Drain, TypeOK
  <2>. QED  BY <1>3, <2>1 DEF Drain, TypeOK
<1>4. CASE NoEvent
  BY <1>1, <1>4 DEF NoEvent, TypeOK
<1>5. ASSUME NEW c \in Chan, EventProc(c) PROVE TypeInv'
  <2>1. evQ' \in Seq(Chan)
    BY <1>5, HeadTailProperties DEF EventProc, Serves, TypeOK
  <2>2. /\ job' \in Seq(Call) /\ tpc' \in {"script", "call"} /\ ret' = "script"
        /\ tpc' = "call" => job' # <<>>
    <3>1. <<Watch(c, {"readable"})>> \in Seq(Call) /\ <<Watch(c, {"readable"})>> # <<>>
      <4>1. {"readable"} \in Mask
        BY DEF Mask
      <4>. QED  BY <4>1, CallType
    <3>2. CASE \E calls \in {ReadableCalls(c), <<Watch(c, {"readable"})>>} : Begin(calls, "script")
      BY <3>1, <3>2, ReadableCallsType DEF Begin
    <3>3. CASE tpc' = "script" /\ UNCHANGED <<job, ret>>
      BY <3>3 DEF TypeOK
    <3>. QED  BY <1>5, <3>2, <3>3 DEF EventProc
  <2>3. notified' \subseteq Chan /\ needArm' \subseteq Chan
    BY <1>1, <1>5 DEF EventProc, TypeOK
  <2>. QED  BY <1>5, <2>1, <2>2, <2>3 DEF EventProc, TypeOK
<1>6. ASSUME NEW c \in Chan, EventProcFreed(c) PROVE TypeInv'
  <2>1. evQ' \in Seq(Chan)
    BY <1>6, HeadTailProperties DEF EventProcFreed, Serves, TypeOK
  <2>. QED  BY <1>1, <1>6, <2>1 DEF EventProcFreed, TypeOK
<1>. QED  BY <1>2, <1>3, <1>4, <1>5, <1>6 DEF EventLoop

\* TypeInv is an inductive invariant.
LEMMA TypeStep == TypeInv /\ [Next]_vars => TypeInv'
<1>. SUFFICES ASSUME TypeInv, [Next]_vars PROVE TypeInv'
  OBVIOUS
<1>1. CASE UNCHANGED vars
  BY <1>1 DEF vars, TypeInv, TypeOK, Busy
<1>2. ASSUME NEW c \in Chan,
             Debugger(c) \/ Block(c) \/ CloseChan(c) \/ WaitChan(c) \/ ExpectRead(c) \/ Arm(c)
      PROVE  TypeInv'
  BY <1>2, DebuggerType, ScriptType
<1>3. CASE Driver
  BY <1>3, WatchCloseType, ReadType DEF Driver
<1>4. CASE EventLoop
  BY <1>4, LoopType
<1>. QED  BY <1>1, <1>2, <1>3, <1>4 DEF Next, TclThread

\* Every variable always has its type.
THEOREM TypeCorrect == Spec => []TypeOK
<1>1. TypeInv => TypeOK
  BY DEF TypeInv
<1>. QED  BY <1>1, TypeInit, TypeStep, PTL DEF Spec
-----------------------------------------------------------------------------
(***************************************************************************)
(* The stream.                                                             *)
(***************************************************************************)

\* A channel none of whose data changes stays intact.
LEMMA StreamOther ==
    ASSUME StreamIntact, NEW d \in Chan,
           outLL'[d] = outLL[d], written'[d] = written[d], done'[d] = done[d],
           delivered'[d] = delivered[d], eof'[d] = eof[d]
    PROVE  Contiguous(d)' /\ DoneIsLast(d)'
BY DEF StreamIntact, Contiguous, DoneIsLast

\* A step that leaves the data of every channel alone.
LEMMA StreamFrame ==
    ASSUME StreamIntact, UNCHANGED <<outLL, written, done, delivered, eof>>
    PROVE  StreamIntact'
BY StreamOther DEF StreamIntact

\* Nothing is in the lists in the beginning.
LEMMA StreamInit == Init => StreamIntact /\ ReadGuard
BY DEF Init, StreamIntact, Contiguous, DoneIsLast, ReadGuard

\* A message put behind the others keeps the stream intact.
LEMMA StreamAppend ==
    ASSUME IInv, NEW c \in Chan, WriteMaster(c) \/ NotifyDone(c)
    PROVE  StreamIntact'
<1>. USE DEF IInv, TypeInv
<1>1. /\ outLL[c] \in Seq(Message) /\ Len(outLL[c]) \in Nat
      /\ written[c] \in Nat /\ delivered[c] \in Nat
  BY DEF TypeOK
<1>2. /\ Contiguous(c) /\ DoneIsLast(c) /\ ~done[c]
  BY DEF StreamIntact, WriteMaster, NotifyDone
<1>3. PICK m \in Message :
        /\ outLL' = [outLL EXCEPT ![c] = Append(@, m)]
        /\ m.lo = written[c]
        /\ m.hi = written'[c]
        /\ \/ m.type = "normal" /\ m.lo < m.hi /\ ~done'[c]
           \/ m.type = "slavedone" /\ m.lo = m.hi /\ done'[c]
        /\ written' = [written EXCEPT ![c] = m.hi]
        /\ done' = [done EXCEPT ![c] = done'[c]]
  <2>1. CASE WriteMaster(c)
    <3>1. PICK n \in 1..MaxMsg :
         /\ outLL' = [outLL EXCEPT ![c] = Append(@,
                [type |-> "normal", lo |-> written[c], hi |-> written[c] + n])]
         /\ written' = [written EXCEPT ![c] = @ + n]
      BY <2>1 DEF WriteMaster
    <3> DEFINE m == [type |-> "normal", lo |-> written[c], hi |-> written[c] + n]
    <3>2. m \in Message
      BY <1>1, BoundsAssumption DEF Message
    <3>3. m.lo < m.hi /\ m.hi = written'[c]
      BY <1>1, <3>1, BoundsAssumption DEF TypeOK
    <3>. QED  BY <1>2, <2>1, <3>1, <3>2, <3>3 DEF WriteMaster, TypeOK
  <2>2. CASE NotifyDone(c)
    <3> DEFINE m == [type |-> "slavedone", lo |-> written[c], hi |-> written[c]]
    <3>1. m \in Message
      BY <1>1 DEF Message
    <3>. QED  BY <2>2, <3>1 DEF NotifyDone, TypeOK
  <2>. QED  BY <2>1, <2>2
<1>4. delivered' = delivered /\ eof' = eof
  BY DEF WriteMaster, NotifyDone
<1> DEFINE q == outLL[c]
           r == outLL'[c]
<1>5. /\ r = Append(q, m) /\ r # <<>> /\ Len(r) = Len(q) + 1
      /\ \A i \in 1..Len(q) : r[i] = q[i]
      /\ r[Len(q) + 1] = m
  <2>1. r = Append(q, m)
    BY <1>3 DEF TypeOK
  <2>2. q \in Seq(Message)
    BY <1>1
  <2>. HIDE DEF q, r
  <2>. QED  BY <2>1, <2>2, AppendProperties
<1>6. Contiguous(c)'
  <2>1. ASSUME NEW i \in 1..Len(r)
        PROVE  /\ r[i].lo = IF i = 1 THEN delivered[c] ELSE r[i-1].hi
               /\ r[i].hi = written'[c] \/ i < Len(r)
               /\ r[i].hi <= written'[c]
               /\ r[i].type = "normal" => r[i].lo < r[i].hi
               /\ r[i].type = "slavedone" => r[i].lo = r[i].hi
    <3>1. CASE i \in 1..Len(q)
      <4>1. /\ q[i].lo = IF i = 1 THEN delivered[c] ELSE q[i-1].hi
            /\ q[i].hi <= written[c]
            /\ q[i].type = "normal" => q[i].lo < q[i].hi
            /\ q[i].type = "slavedone" => q[i].lo = q[i].hi
        BY <1>2, <3>1 DEF Contiguous
      <4>2. q[i].hi \in Nat /\ m.hi \in Nat /\ m.lo \in Nat /\ m.lo <= m.hi
        <5>1. q[i] \in Message
          BY <1>1, <3>1
        <5>. QED  BY <5>1 DEF Message
      <4>3. q[i].hi <= m.hi
        BY <1>1, <1>3, <4>1, <4>2
      <4>4. r[i] = q[i] /\ i < Len(r) /\ (i # 1 => r[i-1] = q[i-1])
        BY <1>1, <1>5, <3>1
      <4>. HIDE DEF q, r
      <4>. QED  BY <1>3, <4>1, <4>3, <4>4
    <3>2. CASE i = Len(q) + 1 /\ q = <<>>
      <4>1. delivered[c] = written[c]
        BY <1>2, <3>2 DEF Contiguous
      <4>2. i = 1 /\ r[i] = m /\ m.hi \in Nat
        BY <1>5, <3>2 DEF Message
      <4>. HIDE DEF q, r
      <4>. QED  BY <1>3, <4>1, <4>2
    <3>3. CASE i = Len(q) + 1 /\ q # <<>>
      <4>1. Len(q) \in 1..Len(q) /\ i # 1 /\ i - 1 = Len(q)
        BY <1>1, <3>3, EmptySeq
      <4>2. q[Len(q)].hi = written[c]
        BY <1>1, <1>2, <4>1 DEF Contiguous
      <4>3. r[i] = m /\ r[i-1] = q[Len(q)]
        BY <1>5, <3>3, <4>1
      <4>4. m.hi \in Nat
        BY DEF Message
      <4>. HIDE DEF q, r
      <4>. QED  BY <1>3, <4>1, <4>2, <4>3, <4>4
    <3>. QED  BY <1>1, <1>5, <3>1, <3>2, <3>3
  <2>. HIDE DEF q, r
  <2>. QED  BY <1>4, <1>5, <2>1 DEF Contiguous, q, r
<1>7. DoneIsLast(c)'
  <2>1. ~eof[c] /\ \A i \in 1..Len(q) : q[i].type # "slavedone"
    BY <1>2 DEF DoneIsLast
  <2>2. \A i \in 1..Len(r) : r[i].type = "slavedone" <=> done'[c] /\ i = Len(r)
    BY <1>1, <1>3, <1>5, <2>1
  <2>. QED  BY <1>4, <1>5, <2>1, <2>2 DEF DoneIsLast
<1>8. ASSUME NEW d \in Chan, d # c PROVE Contiguous(d)' /\ DoneIsLast(d)'
  BY <1>3, <1>4, <1>8, StreamOther DEF TypeOK
<1>. QED  BY <1>6, <1>7, <1>8 DEF StreamIntact

\* What Contiguous and DoneIsLast say of the message at the head.
LEMMA HeadFacts ==
    ASSUME TypeOK, StreamIntact, NEW c \in Chan, outLL[c] # <<>>
    PROVE  /\ Len(outLL[c]) \in Nat \ {0} /\ Head(outLL[c]) = outLL[c][1]
           /\ Head(outLL[c]).lo = delivered[c]
           /\ Head(outLL[c]).hi <= written[c]
           /\ Head(outLL[c]).hi = IF Len(outLL[c]) = 1 THEN written[c] ELSE outLL[c][2].lo
           /\ Head(outLL[c]).type = "normal" =>
                Head(outLL[c]).lo < Head(outLL[c]).hi
           /\ Head(outLL[c]).type = "slavedone" =>
                /\ Head(outLL[c]).lo = Head(outLL[c]).hi
                /\ Len(outLL[c]) = 1
                /\ done[c]
           /\ Head(outLL[c]).type \in {"normal", "slavedone"}
           /\ Len(Tail(outLL[c])) = Len(outLL[c]) - 1
           /\ \A i \in 1..Len(Tail(outLL[c])) : Tail(outLL[c])[i] = outLL[c][i+1]
<1> DEFINE q == outLL[c]
<1>1. /\ q \in Seq(Message) /\ Len(q) \in Nat \ {0} /\ Head(q) = q[1]
      /\ Len(Tail(q)) = Len(q) - 1
      /\ \A i \in 1..Len(Tail(q)) : Tail(q)[i] = q[i+1]
  <2>1. q \in Seq(Message) /\ q # <<>>
    BY DEF TypeOK
  <2>. HIDE DEF q
  <2>. QED  BY <2>1, EmptySeq, HeadTailProperties
<1>2. Contiguous(c) /\ DoneIsLast(c)
  BY DEF StreamIntact
<1> HIDE DEF q
<1>3. /\ q[1].lo = delivered[c]
      /\ q[1].hi = written[c] \/ 1 < Len(q)
      /\ q[1].hi <= written[c]
      /\ q[1].type = "normal" => q[1].lo < q[1].hi
      /\ q[1].type = "slavedone" => q[1].lo = q[1].hi
      /\ q[1].type = "slavedone" => done[c] /\ 1 = Len(q)
  <2>1. 1 \in 1..Len(q)
    BY <1>1
  <2>. QED  BY <1>2, <2>1 DEF Contiguous, DoneIsLast, q
<1>4. Len(q) # 1 => q[2].lo = q[1].hi
  <2>. SUFFICES ASSUME Len(q) # 1 PROVE q[2].lo = q[1].hi
    OBVIOUS
  <2>1. 2 \in 1..Len(q) /\ 2 - 1 = 1 /\ 2 # 1
    BY <1>1
  <2>2. q[2].lo = q[2-1].hi
    BY <1>2, <2>1 DEF Contiguous, q
  <2>. QED  BY <2>2
<1>5. q[1].type \in {"normal", "slavedone"}
  <2>1. q[1] \in Message
    BY <1>1
  <2>. QED  BY <2>1 DEF Message
<1>6. q[1].hi = IF Len(q) = 1 THEN written[c] ELSE q[2].lo
  BY <1>1, <1>3, <1>4
<1>7. /\ Len(q) \in Nat \ {0} /\ Head(q) = q[1] /\ Head(q).lo = delivered[c]
      /\ Head(q).hi <= written[c]
      /\ Head(q).hi = IF Len(q) = 1 THEN written[c] ELSE q[2].lo
      /\ Head(q).type = "normal" => Head(q).lo < Head(q).hi
      /\ Head(q).type = "slavedone" => /\ Head(q).lo = Head(q).hi
                                      /\ Len(q) = 1
                                      /\ done[c]
      /\ Head(q).type \in {"normal", "slavedone"}
  BY <1>1, <1>3, <1>5, <1>6
<1>. QED  BY <1>1, <1>7 DEF q

\* Taking the message at the head keeps the stream intact: its bytes are
\* counted as delivered, and a SLAVEDONE is end-of-file.
LEMMA StreamTake ==
    ASSUME TypeOK, StreamIntact, NEW c \in Chan, outLL[c] # <<>>,
           outLL' = [outLL EXCEPT ![c] = Tail(@)],
           delivered' = [delivered EXCEPT ![c] = Head(outLL[c]).hi],
           eof' = IF Head(outLL[c]).type = "slavedone"
                  THEN [eof EXCEPT ![c] = TRUE] ELSE eof,
           UNCHANGED <<written, done>>
    PROVE  StreamIntact'
<1> DEFINE q == outLL[c]
           r == outLL'[c]
           m == Head(outLL[c])
<1>1. Contiguous(c) /\ DoneIsLast(c)
  BY DEF StreamIntact
<1>2. /\ Len(q) \in Nat \ {0} /\ m = q[1]
      /\ m.lo = delivered[c]
      /\ m.hi = IF Len(q) = 1 THEN written[c] ELSE q[2].lo
      /\ m.type = "slavedone" => m.lo = m.hi /\ Len(q) = 1 /\ done[c]
      /\ m.type \in {"normal", "slavedone"}
      /\ Len(Tail(q)) = Len(q) - 1
      /\ \A i \in 1..Len(Tail(q)) : Tail(q)[i] = q[i+1]
  BY HeadFacts
<1>3. /\ r = Tail(q) /\ delivered'[c] = m.hi /\ r \in Seq(Message)
      /\ eof'[c] = IF m.type = "slavedone" THEN TRUE ELSE eof[c]
  BY HeadMessage DEF TypeOK
<1>4. /\ Len(r) = Len(q) - 1 /\ \A i \in 1..Len(r) : r[i] = q[i+1]
      /\ r = <<>> <=> Len(q) = 1
  <2>. HIDE DEF q, r, m
  <2>1. Len(r) = 0 <=> r = <<>>
    BY <1>3, EmptySeq
  <2>2. Len(r) = Len(q) - 1 /\ \A i \in 1..Len(r) : r[i] = q[i+1]
    BY <1>2, <1>3
  <2>. QED  BY <1>2, <2>1, <2>2
<1> HIDE DEF q, r, m
<1>5. Contiguous(c)'
  <2>1. ASSUME NEW i \in 1..Len(r)
        PROVE  /\ r[i].lo = IF i = 1 THEN m.hi ELSE r[i-1].hi
               /\ r[i].hi = written[c] \/ i < Len(r)
               /\ r[i].hi <= written[c]
               /\ r[i].type = "normal" => r[i].lo < r[i].hi
               /\ r[i].type = "slavedone" => r[i].lo = r[i].hi
    <3>1. i + 1 \in 1..Len(q) /\ r[i] = q[i+1] /\ Len(q) # 1
      BY <1>2, <1>4
    <3>2. /\ q[i+1].lo = q[i].hi
          /\ q[i+1].hi = written[c] \/ i + 1 < Len(q)
          /\ q[i+1].hi <= written[c]
          /\ q[i+1].type = "normal" => q[i+1].lo < q[i+1].hi
          /\ q[i+1].type = "slavedone" => q[i+1].lo = q[i+1].hi
      BY <1>1, <1>2, <3>1 DEF Contiguous, q
    <3>3. i # 1 => r[i-1] = q[i]
      BY <1>2, <1>4
    <3>. QED  BY <1>2, <1>4, <3>1, <3>2, <3>3
  <2>2. r = <<>> => m.hi = written[c]
    BY <1>2, <1>4
  <2>3. delivered'[c] = m.hi /\ written'[c] = written[c]
    BY <1>3
  <2>4. \A i \in 1..Len(r) :
          /\ r[i].lo = IF i = 1 THEN delivered'[c] ELSE r[i-1].hi
          /\ r[i].hi = written'[c] \/ i < Len(r)
          /\ r[i].hi <= written'[c]
          /\ r[i].type = "normal" => r[i].lo < r[i].hi
          /\ r[i].type = "slavedone" => r[i].lo = r[i].hi
    BY <2>1, <2>3
  <2>5. r = <<>> => delivered'[c] = written'[c]
    BY <2>2, <2>3
  <2>. QED  BY <2>4, <2>5 DEF Contiguous, r
<1>6. DoneIsLast(c)'
  <2>1. \A i \in 1..Len(q) : q[i].type = "slavedone" <=> done[c] /\ i = Len(q) /\ ~eof[c]
    BY <1>1 DEF DoneIsLast, q
  <2>2. CASE m.type = "slavedone"
    <3>1. r = <<>> /\ Len(r) = 0 /\ eof'[c] /\ done'[c]
      BY <1>2, <1>3, <1>4, <2>2
    <3>2. \A i \in 1..Len(r) : FALSE
      BY <3>1
    <3>. QED  BY <3>1, <3>2 DEF DoneIsLast, r
  <2>3. CASE m.type = "normal"
    <3>1. ~eof[c] /\ (done[c] => Len(q) # 1)
      <4>1. q # <<>>
        BY DEF q
      <4>2. ~eof[c]
        BY <1>1, <4>1 DEF DoneIsLast, q
      <4>3. ~(done[c] /\ 1 = Len(q))
        <5>1. 1 \in 1..Len(q) /\ q[1].type = "normal"
          BY <1>2, <2>3
        <5>. QED  BY <2>1, <4>2, <5>1
      <4>. QED  BY <4>2, <4>3
    <3>2. ASSUME NEW i \in 1..Len(r)
          PROVE  r[i].type = "slavedone" <=> done[c] /\ i = Len(r)
      <4>1. i + 1 \in 1..Len(q) /\ r[i] = q[i+1] /\ (i + 1 = Len(q) <=> i = Len(r))
        BY <1>2, <1>4
      <4>. QED  BY <2>1, <3>1, <4>1
    <3>. QED  BY <1>3, <1>4, <2>3, <3>1, <3>2 DEF DoneIsLast, r
  <2>. QED  BY <1>2, <2>2, <2>3
<1>7. ASSUME NEW d \in Chan, d # c PROVE Contiguous(d)' /\ DoneIsLast(d)'
  BY <1>7, StreamOther DEF TypeOK
<1>. QED  BY <1>5, <1>6, <1>7 DEF StreamIntact

\* So does putting the rest of a message back in its place.
LEMMA StreamSplit ==
    ASSUME TypeOK, StreamIntact, NEW c \in Chan, outLL[c] # <<>>, NEW k \in Nat,
           Head(outLL[c]).type = "normal",
           k < Head(outLL[c]).hi - Head(outLL[c]).lo,
           outLL' = [outLL EXCEPT ![c][1].lo = @ + k],
           delivered' = [delivered EXCEPT ![c] = @ + k],
           UNCHANGED <<written, done, eof>>
    PROVE  StreamIntact'
<1> DEFINE q == outLL[c]
           r == outLL'[c]
           m == Head(outLL[c])
<1>1. Contiguous(c) /\ DoneIsLast(c)
  BY DEF StreamIntact
<1>2. /\ Len(q) \in Nat \ {0} /\ m = q[1] /\ m.lo = delivered[c] /\ m.type = "normal"
  BY HeadFacts
<1>3. /\ m.lo \in Nat /\ m.hi \in Nat /\ m \in Message /\ k < m.hi - m.lo
      /\ q \in Seq(Message)
  BY HeadMessage
<1>4. delivered'[c] = m.lo + k
  BY <1>2 DEF TypeOK
<1> DEFINE n == [m EXCEPT !.lo = @ + k]
<1>5. n.lo = m.lo + k /\ n.hi = m.hi /\ n.type = "normal" /\ n \in Message
  <2>. HIDE DEF m
  <2>1. m.lo + k \in Nat /\ m.lo + k <= m.hi
    BY <1>3
  <2>2. m.type = "normal" /\ m \in Message
    BY <1>2, <1>3
  <2>. QED  BY <2>1, <2>2 DEF Message
<1>6. r = [q EXCEPT ![1] = n]
  BY <1>2 DEF TypeOK
<1> HIDE DEF q, r, m, n
<1>7. /\ Len(r) = Len(q) /\ r[1] = n
      /\ \A i \in 1..Len(q) : i # 1 => r[i] = q[i]
      /\ r # <<>>
  <2>1. 1 \in 1..Len(q)
    BY <1>2
  <2>2. /\ r \in Seq(Message) /\ Len(r) = Len(q)
        /\ \A i \in 1..Len(q) : r[i] = IF i = 1 THEN n ELSE q[i]
    BY <1>3, <1>5, <1>6, <2>1, ExceptSeq
  <2>. QED  BY <1>2, <2>1, <2>2
<1>8. Contiguous(c)'
  <2>1. ASSUME NEW i \in 1..Len(r)
        PROVE  /\ r[i].lo = IF i = 1 THEN m.lo + k ELSE r[i-1].hi
               /\ r[i].hi = written[c] \/ i < Len(r)
               /\ r[i].hi <= written[c]
               /\ r[i].type = "normal" => r[i].lo < r[i].hi
               /\ r[i].type = "slavedone" => r[i].lo = r[i].hi
    <3>1. i \in 1..Len(q) /\ r[i].hi = q[i].hi
      BY <1>2, <1>5, <1>7
    <3>2. /\ q[i].lo = IF i = 1 THEN delivered[c] ELSE q[i-1].hi
          /\ q[i].hi = written[c] \/ i < Len(q)
          /\ q[i].hi <= written[c]
          /\ q[i].type = "normal" => q[i].lo < q[i].hi
          /\ q[i].type = "slavedone" => q[i].lo = q[i].hi
      BY <1>1, <3>1 DEF Contiguous, q
    <3>3. CASE i = 1
      BY <1>2, <1>3, <1>5, <1>7, <3>1, <3>2, <3>3
    <3>4. CASE i # 1
      <4>1. i - 1 \in 1..Len(q) /\ r[i-1].hi = q[i-1].hi /\ r[i] = q[i]
        BY <1>2, <1>5, <1>7, <3>1, <3>4
      <4>. QED  BY <1>7, <3>2, <3>4, <4>1
    <3>. QED  BY <3>3, <3>4
  <2>. QED  BY <1>4, <1>7, <2>1 DEF Contiguous, r
<1>9. DoneIsLast(c)'
  <2>1. \A i \in 1..Len(r) : r[i].type = q[i].type
    BY <1>2, <1>5, <1>7
  <2>2. q # <<>>
    BY DEF q
  <2>. QED  BY <1>1, <1>7, <2>1, <2>2 DEF DoneIsLast, q, r
<1>10. ASSUME NEW d \in Chan, d # c PROVE Contiguous(d)' /\ DoneIsLast(d)'
  BY <1>10, StreamOther DEF TypeOK
<1>. QED  BY <1>8, <1>9, <1>10 DEF StreamIntact

\* Read keeps the stream intact.
LEMMA StreamRead ==
    ASSUME IInv, ReadCall
    PROVE  StreamIntact'
<1>. USE DEF IInv, TypeInv
<1>1. job # <<>>
  BY DEF Busy, ReadCall, ReadBegin, ReadTest, ReadWhole, ReadPart, ReadSlaveDone,
         ReadDrained, Calling
<1> DEFINE c == cur.chan
           m == Head(outLL[c])
<1>2. c \in Chan
  BY <1>1, CurType
<1>3. nread \in 0..BufSize /\ BufSize \in Nat \ {0}
  BY BoundsAssumption DEF TypeOK
<1>4. CASE ReadBegin \/ ReadTest
  BY <1>4, StreamFrame DEF ReadBegin, ReadTest, CallFrame
<1>5. CASE ReadWhole
  <2>1. outLL[c] # <<>> /\ m.type = "normal" /\ UNCHANGED <<written, done>>
    BY <1>5 DEF ReadWhole, Readable, CallFrame
  <2>2. /\ m.lo \in Nat /\ m.hi \in Nat /\ m.lo < m.hi /\ m.lo = delivered[c]
    BY <1>2, <2>1, HeadMessage, HeadFacts
  <2>3. delivered' = [delivered EXCEPT ![c] = m.hi]
    <3>1. delivered[c] + (m.hi - m.lo) = m.hi
      BY <2>2
    <3>. QED  BY <1>5, <3>1 DEF ReadWhole
  <2>4. eof' = eof
    <3>1. nread + (m.hi - m.lo) # 0
      BY <1>3, <2>2
    <3>. QED  BY <1>5, <3>1 DEF ReadWhole, ReadReturn
  <2>5. outLL' = [outLL EXCEPT ![c] = Tail(@)]
    BY <1>5 DEF ReadWhole
  <2>. HIDE DEF c
  <2>. QED  BY <1>2, <2>1, <2>3, <2>4, <2>5, StreamTake
<1>6. CASE ReadPart
  <2>1. /\ outLL[c] # <<>> /\ m.type = "normal" /\ UNCHANGED <<written, done>>
        /\ nread + (m.hi - m.lo) > BufSize
    BY <1>6 DEF ReadPart, Readable, CallFrame
  <2>2. /\ m.lo \in Nat /\ m.hi \in Nat
    BY <1>2, <2>1, HeadMessage
  <2>3. PICK k \in Nat : k = BufSize - nread
    BY <1>3
  <2>4. k < m.hi - m.lo
    BY <1>3, <2>1, <2>2, <2>3
  <2>5. /\ outLL' = [outLL EXCEPT ![c][1].lo = @ + k]
        /\ delivered' = [delivered EXCEPT ![c] = @ + k]
        /\ eof' = eof
    BY <1>3, <1>6, <2>3 DEF ReadPart, ReadReturn
  <2>. HIDE DEF c
  <2>. QED  BY <1>2, <2>1, <2>4, <2>5, StreamSplit
<1>7. CASE ReadSlaveDone
  <2>1. outLL[c] # <<>> /\ m.type = "slavedone" /\ UNCHANGED <<written, done, delivered>>
    BY <1>7 DEF ReadSlaveDone, Readable, CallFrame
  <2>2. CASE nread > 0
    <3>1. outLL' = outLL /\ eof' = eof
      BY <1>3, <1>7, <2>2 DEF ReadSlaveDone, ReadReturn
    <3>. QED  BY <2>1, <3>1, StreamFrame
  <2>3. CASE ~(nread > 0)
    <3>1. nread = 0
      BY <1>3, <2>3
    <3>2. outLL' = [outLL EXCEPT ![c] = Tail(@)] /\ eof' = [eof EXCEPT ![c] = TRUE]
      BY <1>7, <3>1 DEF ReadSlaveDone, ReadReturn
    <3>3. delivered' = [delivered EXCEPT ![c] = m.hi]
      <4>1. m.hi = delivered[c]
        BY <1>2, <2>1, HeadFacts
      <4>. QED  BY <1>2, <2>1, <4>1 DEF TypeOK
    <3>. HIDE DEF c
    <3>. QED  BY <1>2, <2>1, <3>2, <3>3, StreamTake
  <2>. QED  BY <2>2, <2>3
<1>8. CASE ReadDrained
  <2>1. nread # 0
    BY <1>8 DEF ReadDrained, ReadGuard, Readable
  <2>2. eof' = eof
    BY <1>8, <2>1 DEF ReadDrained, ReadReturn
  <2>. QED  BY <1>8, <2>2, StreamFrame DEF ReadDrained, CallFrame
<1>. QED  BY <1>4, <1>5, <1>6, <1>7, <1>8 DEF ReadCall

\* Every other step leaves the data alone.
LEMMA StreamElse ==
    ASSUME IInv, [Next]_vars, ~ReadCall,
           \A c \in Chan : ~WriteMaster(c) /\ ~NotifyDone(c)
    PROVE  UNCHANGED <<outLL, written, done, delivered, eof>>
<1>1. CASE UNCHANGED vars
  BY <1>1 DEF vars
<1>2. ASSUME NEW c \in Chan, AlertReadable(c)
      PROVE  UNCHANGED <<outLL, written, done, delivered, eof>>
  BY <1>2 DEF AlertReadable, AlertTest, AlertExchange, AlertLoad, AlertEnqueue,
       AlertWake, AlertZap, AlertFrame
<1>3. ASSUME NEW c \in Chan, Block(c) \/ CloseChan(c) \/ WaitChan(c) \/ ExpectRead(c) \/ Arm(c)
      PROVE  UNCHANGED <<outLL, written, done, delivered, eof>>
  BY <1>3 DEF Block, CloseChan, WaitChan, ExpectRead, Arm, ScriptFrame
<1>4. CASE WatchTest \/ WatchSet \/ CloseCall
  BY <1>4 DEF WatchTest, WatchSet, CloseCall, CutRemove, CutEvents, CutMask, CutTsd,
       CloseWait, CallFrame
<1>5. CASE EventLoop
  BY <1>5 DEF EventLoop, DoOneEvent, Setup, SetupSet, Awake, Check, Drain, EventProc,
       EventProcFreed, NoEvent, LoopFrame
<1>. QED  BY <1>1, <1>2, <1>3, <1>4, <1>5 DEF Next, TclThread, Driver, Debugger

\* A Read in its loop either has a byte or finds a message.
LEMMA GuardStep ==
    ASSUME IInv, [Next]_vars
    PROVE  ReadGuard'
<1>. USE DEF IInv, TypeInv
<1>1. CASE UNCHANGED vars
  BY <1>1 DEF vars, ReadGuard, cur
<1>2. ASSUME NEW c \in Chan, WriteMaster(c) \/ NotifyDone(c) PROVE ReadGuard'
  <2>1. UNCHANGED <<tpc, job, nread, blocking>>
    BY <1>2 DEF WriteMaster, NotifyDone
  <2>2. ASSUME NEW d \in Chan, outLL[d] # <<>> PROVE outLL'[d] # <<>>
    <3>1. outLL'[d] = outLL[d] \/ \E e \in Message : outLL'[d] = Append(outLL[d], e)
      <4>1. written[c] \in Nat
        BY DEF TypeOK
      <4>2. \A n \in 1..MaxMsg :
              [type |-> "normal", lo |-> written[c], hi |-> written[c] + n] \in Message
        BY <4>1, BoundsAssumption DEF Message
      <4>3. [type |-> "slavedone", lo |-> written[c], hi |-> written[c]] \in Message
        BY <4>1 DEF Message
      <4>4. CASE d = c
        <5>1. CASE WriteMaster(c)
          <6>1. PICK n \in 1..MaxMsg : outLL' = [outLL EXCEPT ![c] = Append(@,
                   [type |-> "normal", lo |-> written[c], hi |-> written[c] + n])]
            BY <5>1 DEF WriteMaster
          <6>. QED  BY <4>2, <4>4, <6>1 DEF TypeOK
        <5>2. CASE NotifyDone(c)
          BY <4>3, <4>4, <5>2 DEF NotifyDone, TypeOK
        <5>. QED  BY <1>2, <5>1, <5>2
      <4>5. CASE d # c
        BY <1>2, <4>5 DEF WriteMaster, NotifyDone, TypeOK
      <4>. QED  BY <4>4, <4>5
    <3>2. outLL[d] \in Seq(Message)
      BY DEF TypeOK
    <3>. QED  BY <2>2, <3>1, <3>2, AppendProperties
  <2>3. tpc = "read_loop" => cur.chan \in Chan
    BY CurType DEF Busy
  <2>4. cur' = cur
    BY <2>1 DEF cur
  <2>. QED  BY <2>1, <2>2, <2>3, <2>4 DEF ReadGuard
<1>3. ASSUME NEW c \in Chan, AlertReadable(c) PROVE ReadGuard'
  <2>1. UNCHANGED <<tpc, job, nread, blocking, outLL>>
    BY <1>3 DEF AlertReadable, AlertTest, AlertExchange, AlertLoad, AlertEnqueue,
       AlertWake, AlertZap, AlertFrame
  <2>. QED  BY <2>1 DEF ReadGuard, cur
<1>4. ASSUME NEW c \in Chan, Block(c) \/ CloseChan(c) \/ WaitChan(c) \/ ExpectRead(c) \/ Arm(c)
      PROVE  ReadGuard'
  <2>1. tpc' \in {"script", "call"}
    BY <1>4 DEF Block, CloseChan, WaitChan, ExpectRead, Arm, Begin
  <2>. QED  BY <2>1 DEF ReadGuard
<1>5. CASE WatchTest \/ WatchSet \/ CloseCall
  <2>1. ret = "script"
    BY DEF TypeOK
  <2>2. tpc' # "read_loop"
    BY <1>5, <2>1 DEF WatchTest, WatchSet, CloseCall, CutRemove, CutEvents, CutMask, CutTsd,
       CloseWait, Return
  <2>. QED  BY <2>2 DEF ReadGuard
<1>6. CASE EventLoop
  <2>1. tpc' # "read_loop"
    BY <1>6 DEF EventLoop, DoOneEvent, Setup, SetupSet, Awake, Check, Drain, EventProc,
       EventProcFreed, NoEvent, Begin
  <2>. QED  BY <2>1 DEF ReadGuard
<1>7. CASE ReadCall
  <2>1. ret = "script"
    BY DEF TypeOK
  <2>2. CASE ReadBegin \/ ReadPart \/ ReadSlaveDone \/ ReadDrained
    <3>1. tpc' # "read_loop"
      BY <2>1, <2>2 DEF ReadBegin, ReadPart, ReadSlaveDone, ReadDrained, ReadReturn, Return
    <3>. QED  BY <3>1 DEF ReadGuard
  <2>3. CASE ReadTest
    <3>1. CASE Readable(cur.chan) \/ blocking[cur.chan]
      BY <2>3, <3>1 DEF ReadTest, ReadGuard, Readable, cur, CallFrame
    <3>2. CASE ~(Readable(cur.chan) \/ blocking[cur.chan])
      <4>1. tpc' # "read_loop"
        BY <2>1, <2>3, <3>2 DEF ReadTest, Return
      <4>. QED  BY <4>1 DEF ReadGuard
    <3>. QED  BY <3>1, <3>2
  <2>4. CASE ReadWhole
    <3> DEFINE c == cur.chan
               m == Head(outLL[c])
    <3>1. job # <<>> /\ c \in Chan
      BY <2>4, CurType DEF ReadWhole, Busy
    <3>2. outLL[c] # <<>> /\ m.type = "normal"
      BY <2>4 DEF ReadWhole, Readable
    <3>3. m.lo \in Nat /\ m.hi \in Nat /\ m.lo < m.hi
      BY <3>1, <3>2, HeadMessage, HeadFacts
    <3>4. nread \in Nat
      BY BoundsAssumption DEF TypeOK
    <3>5. nread + (m.hi - m.lo) # 0
      BY <3>3, <3>4
    <3>6. CASE blocking[c]
      <4>1. tpc' # "read_loop"
        BY <2>1, <2>4, <3>6 DEF ReadWhole, ReadReturn, Return
      <4>. QED  BY <4>1 DEF ReadGuard
    <3>7. CASE ~blocking[c]
      <4>1. nread' # 0
        BY <2>4, <3>5, <3>7 DEF ReadWhole
      <4>. QED  BY <4>1 DEF ReadGuard
    <3>. QED  BY <3>6, <3>7
  <2>. QED  BY <1>7, <2>2, <2>3, <2>4 DEF ReadCall
<1>. QED  BY <1>1, <1>2, <1>3, <1>4, <1>5, <1>6, <1>7 DEF Next, TclThread, Driver, Debugger

\* IInv is an inductive invariant.
LEMMA InductiveInvariant ==
    /\ Init => IInv
    /\ IInv /\ [Next]_vars => IInv'
<1>1. Init => IInv
  BY TypeInit, StreamInit DEF IInv
<1>2. ASSUME IInv, [Next]_vars PROVE StreamIntact'
  <2>1. CASE \E c \in Chan : WriteMaster(c) \/ NotifyDone(c)
    BY <1>2, <2>1, StreamAppend
  <2>2. CASE ReadCall
    BY <1>2, <2>2, StreamRead
  <2>3. CASE ~ReadCall /\ \A c \in Chan : ~WriteMaster(c) /\ ~NotifyDone(c)
    <3>1. UNCHANGED <<outLL, written, done, delivered, eof>>
      BY <1>2, <2>3, StreamElse
    <3>. QED  BY <1>2, <3>1, StreamFrame DEF IInv
  <2>. QED  BY <2>1, <2>2, <2>3
<1>3. IInv /\ [Next]_vars => IInv'
  BY <1>2, TypeStep, GuardStep DEF IInv
<1>. QED  BY <1>1, <1>3

\* No byte is lost, repeated or reordered between WriteMaster and Read.
THEOREM StreamCorrect == Spec => []StreamIntact
<1>1. IInv => StreamIntact
  BY DEF IInv
<1>. QED  BY <1>1, InductiveInvariant, PTL DEF Spec

\* End-of-file comes after the last byte.
THEOREM EofCorrect == Spec => []EofIsLast
<1>1. IInv => EofIsLast
  BY DEF IInv, StreamIntact, Contiguous, DoneIsLast, EofIsLast
<1>. QED  BY <1>1, InductiveInvariant, PTL DEF Spec
-----------------------------------------------------------------------------
(***************************************************************************)
(* The driver implements the byte stream.                                  *)
(***************************************************************************)

\* Taking bytes is a delivery.
LEMMA DeliverStep ==
    ASSUME TypeOK, NEW c \in Chan, NEW n \in Nat, ~eof[c],
           delivered' = [delivered EXCEPT ![c] = @ + n],
           delivered[c] + n <= written[c],
           UNCHANGED <<written, done, eof>>
    PROVE  Promise!Deliver(c) \/ UNCHANGED Promise!vars
<1>1. delivered[c] \in Nat /\ delivered \in [Chan -> Nat]
  BY DEF TypeOK
<1>2. CASE n = 0
  <2>1. delivered' = delivered
    BY <1>1, <1>2
  <2>. QED  BY <2>1 DEF Promise!vars
<1>3. CASE n # 0
  <2>1. delivered'[c] = delivered[c] + n /\ delivered[c] < delivered'[c]
    BY <1>1, <1>3
  <2>2. delivered' = [delivered EXCEPT ![c] = delivered'[c]]
    BY <1>1, <2>1
  <2>. QED  BY <1>1, <2>1, <2>2 DEF Promise!Deliver
<1>. QED  BY <1>2, <1>3

\* A message is never at the head of a channel that reported end-of-file.
LEMMA NotEof ==
    ASSUME StreamIntact, NEW c \in Chan, outLL[c] # <<>>
    PROVE  ~eof[c]
BY DEF StreamIntact, DoneIsLast

\* Every step of Read is a step of the byte stream.
LEMMA ReadRefines ==
    ASSUME IInv, ReadCall
    PROVE  [Promise!Next]_Promise!vars
<1>. USE DEF IInv, TypeInv
<1> DEFINE c == cur.chan
           m == Head(outLL[c])
<1>1. c \in Chan
  BY CurType DEF Busy, ReadCall, ReadBegin, ReadTest, ReadWhole, ReadPart, ReadSlaveDone,
         ReadDrained, Calling
<1>2. nread \in 0..BufSize /\ BufSize \in Nat \ {0} /\ delivered[c] \in Nat /\ written[c] \in Nat
  BY <1>1, BoundsAssumption DEF TypeOK
<1>3. CASE ReadBegin \/ ReadTest
  BY <1>3 DEF ReadBegin, ReadTest, CallFrame, Promise!vars
<1>4. CASE ReadWhole
  <2>1. outLL[c] # <<>> /\ m.type = "normal" /\ UNCHANGED <<written, done>>
    BY <1>4 DEF ReadWhole, Readable, CallFrame
  <2>2. /\ m.lo \in Nat /\ m.hi \in Nat /\ m.lo < m.hi /\ m.lo = delivered[c]
        /\ m.hi <= written[c]
    BY <1>1, <2>1, HeadMessage, HeadFacts
  <2>3. PICK n \in Nat : n = m.hi - m.lo /\ delivered[c] + n <= written[c] /\ nread + n # 0
    <3>. HIDE DEF m
    <3>. QED  BY <1>2, <2>2
  <2>4. delivered' = [delivered EXCEPT ![c] = @ + n] /\ eof' = eof
    BY <1>4, <2>3 DEF ReadWhole, ReadReturn
  <2>. HIDE DEF c
  <2>5. Promise!Deliver(c) \/ UNCHANGED Promise!vars
    BY <1>1, <2>1, <2>3, <2>4, NotEof, DeliverStep
  <2>. QED  BY <1>1, <2>5 DEF Promise!Next
<1>5. CASE ReadPart
  <2>1. /\ outLL[c] # <<>> /\ m.type = "normal" /\ UNCHANGED <<written, done>>
        /\ nread + (m.hi - m.lo) > BufSize
    BY <1>5 DEF ReadPart, Readable, CallFrame
  <2>2. /\ m.lo \in Nat /\ m.hi \in Nat /\ m.lo = delivered[c] /\ m.hi <= written[c]
    BY <1>1, <2>1, HeadMessage, HeadFacts
  <2>3. PICK n \in Nat : n = BufSize - nread /\ delivered[c] + n <= written[c]
    <3>. HIDE DEF m
    <3>. QED  BY <1>2, <2>1, <2>2
  <2>4. delivered' = [delivered EXCEPT ![c] = @ + n] /\ eof' = eof
    BY <1>2, <1>5, <2>3 DEF ReadPart, ReadReturn
  <2>. HIDE DEF c
  <2>5. Promise!Deliver(c) \/ UNCHANGED Promise!vars
    BY <1>1, <2>1, <2>3, <2>4, NotEof, DeliverStep
  <2>. QED  BY <1>1, <2>5 DEF Promise!Next
<1>6. CASE ReadSlaveDone
  <2>1. outLL[c] # <<>> /\ m.type = "slavedone" /\ UNCHANGED <<written, done, delivered>>
    BY <1>6 DEF ReadSlaveDone, Readable, CallFrame
  <2>2. CASE nread > 0
    <3>1. eof' = eof
      BY <1>2, <1>6, <2>2 DEF ReadSlaveDone, ReadReturn
    <3>. QED  BY <2>1, <3>1 DEF Promise!vars
  <2>3. CASE ~(nread > 0)
    <3>1. nread = 0
      BY <1>2, <2>3
    <3>2. eof' = [eof EXCEPT ![c] = TRUE]
      BY <1>6, <3>1 DEF ReadSlaveDone, ReadReturn
    <3>3. done[c] /\ delivered[c] = written[c] /\ ~eof[c]
      BY <1>1, <2>1, HeadFacts, NotEof
    <3>. QED  BY <1>1, <2>1, <3>2, <3>3 DEF Promise!Next, Promise!EndOfFile
  <2>. QED  BY <2>2, <2>3
<1>7. CASE ReadDrained
  <2>1. nread # 0
    BY <1>7 DEF ReadDrained, ReadGuard, Readable
  <2>2. eof' = eof
    BY <1>7, <2>1 DEF ReadDrained, ReadReturn
  <2>. QED  BY <1>7, <2>2 DEF ReadDrained, CallFrame, Promise!vars
<1>. QED  BY <1>3, <1>4, <1>5, <1>6, <1>7 DEF ReadCall

\* What the slave prints and its end are steps of the byte stream.
LEMMA SlaveRefines ==
    ASSUME IInv, NEW c \in Chan, WriteMaster(c) \/ NotifyDone(c)
    PROVE  Promise!Next
<1>. USE DEF IInv, TypeInv
<1>1. CASE WriteMaster(c)
  <2>1. PICK n \in 1..MaxMsg : written' = [written EXCEPT ![c] = @ + n]
    BY <1>1 DEF WriteMaster
  <2>2. written \in [Chan -> Nat] /\ n \in Nat /\ n > 0
    BY BoundsAssumption DEF TypeOK
  <2>3. /\ written'[c] = written[c] + n /\ written[c] < written'[c] /\ written'[c] \in Nat
        /\ written' = [written EXCEPT ![c] = written'[c]]
    BY <2>1, <2>2
  <2>. QED  BY <1>1, <2>3 DEF WriteMaster, Promise!Next, Promise!Produce
<1>2. CASE NotifyDone(c)
  BY <1>2 DEF NotifyDone, Promise!Next, Promise!Exit
<1>. QED  BY <1>1, <1>2

\* The driver keeps the promise of a byte stream, whatever the interleaving.
THEOREM ByteStreamImplemented == Spec => ImplementsByteStream
<1>1. Init => Promise!Init
  BY DEF Init, Promise!Init
<1>2. IInv /\ [Next]_vars => [Promise!Next]_Promise!vars
  <2>. SUFFICES ASSUME IInv, [Next]_vars PROVE [Promise!Next]_Promise!vars
    OBVIOUS
  <2>1. CASE \E c \in Chan : WriteMaster(c) \/ NotifyDone(c)
    BY <2>1, SlaveRefines
  <2>2. CASE ReadCall
    BY <2>2, ReadRefines
  <2>3. CASE ~ReadCall /\ \A c \in Chan : ~WriteMaster(c) /\ ~NotifyDone(c)
    BY <2>3, StreamElse DEF Promise!vars
  <2>. QED  BY <2>1, <2>2, <2>3
<1>. QED  BY <1>1, <1>2, InductiveInvariant, PTL DEF Spec, ImplementsByteStream, Promise!Spec
-----------------------------------------------------------------------------
-----------------------------------------------------------------------------
(***************************************************************************)
(* SpawnId, for any spawn ids, variables and commands and any depth of the *)
(* C stack: bg_status tells what Tcl will call, and after a body the       *)
(* background handler never goes on with freed memory; and, for scripts    *)
(* without indirect lists, that cases are served and closed ids that were  *)
(* waited for are freed.                                                   *)
(***************************************************************************)

\* What holds of one ExpState: while Tcl knows its channel it is in memory,
\* and Tcl calls its handler exactly if it is armed.
InStep(r) == r.registered => r.mem = "live" /\ (r.handler <=> r.bg_status = "armed")
Good == {r \in ExpState : InStep(r)}

\* The inductive invariant.  The typing is part of it: a status that is none
\* of the four would be left alone by every function of exp_event.c, and the
\* handler looks up the spawn id its activation names.
IdInv ==
    /\ es \in [Ids -> Good]
    /\ chain \in Seq(Ids)
    /\ bgNamed \subseteq Vars
    /\ before \subseteq Ids
    /\ stack \in Seq(Activation)
    /\ fault # "handler"
-----------------------------------------------------------------------------
(* The functions of exp_event.c and their callers keep an ExpState good.   *)

LEMMA ArmGood == ASSUME NEW r \in Good PROVE ArmHandler(r) \in Good
BY DEF Good, InStep, ExpState, ArmHandler, ArmForce, Status, Blocked

LEMMA DisarmGood == ASSUME NEW r \in Good PROVE Disarm(r) \in Good /\ DisarmForce(r) \in Good
BY DEF Good, InStep, ExpState, Disarm, DisarmForce, Status, Blocked

LEMMA UnblockGood == ASSUME NEW r \in Good PROVE Unblock(r) \in Good
BY DEF Good, InStep, ExpState, Unblock, ArmForce, DisarmForce, Status, Blocked

LEMMA BlockGood == ASSUME NEW r \in Good PROVE BlockHandler(r) \in Good
BY DEF Good, InStep, ExpState, BlockHandler, Status, Blocked

LEMMA UnusedGood == Unused \in Good /\ Gone \in Good
<1>1. Unused \in ExpState /\ ~Unused.registered
  BY DEF ExpState, Unused, Status, Blocked
<1>2. Gone \in ExpState /\ ~Gone.registered
  BY <1>1 DEF ExpState, Gone
<1>. QED  BY <1>1, <1>2 DEF Good, InStep

LEMMA FinishedGood == ASSUME NEW r \in Good PROVE Finished(r) \in Good
BY UnblockGood, UnusedGood DEF Finished

\* Fields the invariant does not speak of may take any value of their type.
LEMMA FieldsGood ==
    ASSUME NEW r \in Good, NEW b \in BOOLEAN
    PROVE  [r EXCEPT !.buffered = b] \in Good /\ [r EXCEPT !.user_waited = b] \in Good
BY DEF Good, InStep, ExpState

LEMMA CountGood ==
    ASSUME NEW r \in Good, NEW n \in Int PROVE [r EXCEPT !.bg_ecount = n] \in Good
BY DEF Good, InStep, ExpState

LEMMA CountType == ASSUME NEW r \in Good PROVE r.bg_ecount \in Int
BY DEF Good, ExpState

LEMMA DroppedGood == ASSUME NEW r \in Good PROVE Dropped(r) \in Good
<1> DEFINE s == [r EXCEPT !.bg_ecount = @ - 1]
<1>1. s \in Good
  BY DEF Good, InStep, ExpState
<1>2. Disarm(s) \in Good
  BY <1>1, DisarmGood
<1>3. [Disarm(s) EXCEPT !.bg_interp = FALSE] \in Good
  <2>. HIDE DEF s
  <2>. QED  BY <1>2 DEF Good, InStep, ExpState
<1>4. Dropped(r) = IF s.bg_ecount = 0 THEN [Disarm(s) EXCEPT !.bg_interp = FALSE] ELSE s
  BY DEF Dropped
<1>. QED  BY <1>1, <1>3, <1>4

LEMMA ReleasedGood == ASSUME NEW r \in Good PROVE Released(r) \in Good
<1> DEFINE s == IF r.bg_ecount > 0 THEN [r EXCEPT !.bg_ecount = @ - 1] ELSE r
<1>1. s \in Good
  BY DEF Good, InStep, ExpState
<1>2. Disarm(s) \in Good
  BY <1>1, DisarmGood
<1>3. [Disarm(s) EXCEPT !.bg_interp = FALSE] \in Good
  <2>. HIDE DEF s
  <2>. QED  BY <1>2 DEF Good, InStep, ExpState
<1>4. Released(r) = IF ~r.open THEN r
                    ELSE IF s.bg_ecount = 0 THEN [Disarm(s) EXCEPT !.bg_interp = FALSE] ELSE s
  BY DEF Released
<1>. QED  BY <1>1, <1>3, <1>4

LEMMA StateListArmGood == ASSUME NEW r \in Good PROVE StateListArm(r) \in Good
<1> DEFINE a == ArmHandler(r)
           s == IF r.bg_ecount = 0 THEN [a EXCEPT !.bg_interp = TRUE] ELSE r
<1>1. a \in Good
  BY ArmGood
<1>2. s \in Good
  <2>. HIDE DEF a
  <2>1. [a EXCEPT !.bg_interp = TRUE] \in Good
    BY <1>1 DEF Good, InStep, ExpState
  <2>. QED  BY <2>1
<1>3. [s EXCEPT !.bg_ecount = @ + 1] \in Good
  <2>. HIDE DEF s
  <2> DEFINE n == s.bg_ecount + 1
  <2>1. n \in Int
    BY <1>2, CountType
  <2>. HIDE DEF n
  <2>2. [s EXCEPT !.bg_ecount = n] \in Good
    BY <1>2, <2>1, CountGood
  <2>. QED  BY <2>2 DEF n
<1>. QED  BY <1>3 DEF StateListArm

LEMMA ChanClosedGood ==
    ASSUME NEW r \in Good, NEW next \in Ids \cup {Nobody}
    PROVE  ChanClosed(r, next) \in Good
<1> DEFINE s == [r EXCEPT !.registered = FALSE, !.handler = FALSE, !.nextPtr = next]
           t == [s EXCEPT !.freeWhenBgHandlerUnblocked = TRUE]
<1>1. s \in ExpState /\ ~s.registered
  BY DEF Good, ExpState
<1>2. t \in ExpState /\ ~t.registered
  <2>. HIDE DEF s
  <2>. QED  BY <1>1 DEF ExpState
<1>3. t \in Good
  BY <1>2 DEF Good, InStep
<1>4. ChanClosed(r, next) = IF r.bg_status \in Blocked THEN t ELSE Gone
  BY DEF ChanClosed
<1>. QED  BY <1>3, <1>4, UnusedGood

LEMMA ShutGood == ASSUME NEW r \in Good, NEW n \in Int PROVE Shut(r, n) \in Good
<1> DEFINE m == r.bg_ecount - n
           b == r.bg_interp /\ r.bg_ecount \notin 1..n
           s == [r EXCEPT !.open = FALSE, !.bg_ecount = m, !.bg_interp = b]
<1>1. m \in Int /\ b \in BOOLEAN
  BY CountType
<1>2. Shut(r, n) = DisarmForce(s)
  BY DEF Shut
<1>3. s \in Good
  <2>. HIDE DEF m, b
  <2>. QED  BY <1>1 DEF Good, InStep, ExpState
<1>. QED  BY <1>2, <1>3, DisarmGood
-----------------------------------------------------------------------------
(* Steps that several commands share.                                      *)

\* One ExpState is replaced by a good one; a name that is none changes nothing.
LEMMA PutGood ==
    ASSUME NEW f \in [Ids -> Good], NEW i, NEW r, i \in Ids => r \in Good
    PROVE  [f EXCEPT ![i] = r] \in [Ids -> Good]
OBVIOUS

LEMMA NextPtrType ==
    ASSUME es \in [Ids -> Good], chain \in Seq(Ids), NEW i \in Ids
    PROVE  NextPtr(i) \in Ids \cup {Nobody}
<1> DEFINE at == {k \in DOMAIN chain : chain[k] = i}
           k == CHOOSE k \in at : TRUE
<1>1. es[i].nextPtr \in Ids \cup {Nobody}
  BY DEF Good, ExpState
<1>2. CASE at = {}
  BY <1>1, <1>2 DEF NextPtr
<1>3. CASE at # {}
  <2>1. k \in 1..Len(chain)
    BY <1>3
  <2>2. k # Len(chain) => chain[k + 1] \in Ids
    <3>. HIDE DEF k
    <3>. QED  BY <2>1
  <2>3. NextPtr(i) = IF k = Len(chain) THEN Nobody ELSE chain[k + 1]
    BY <1>3 DEF NextPtr
  <2>. QED  BY <2>2, <2>3
<1>. QED  BY <1>2, <1>3

LEMMA OccurrencesInt ==
    ASSUME bgNamed \subseteq Vars, NEW i
    PROVE  Occurrences(i) \in Int
<1>1. VarsOf(i) \subseteq Vars
  BY DEF VarsOf
<1>2. Cardinality(VarsOf(i)) \in Nat
  BY <1>1, SpawnIdAssumption, FS_Subset, FS_CardinalityType
<1>. QED  BY <1>2 DEF Occurrences

LEMMA UnlinkedType ==
    ASSUME chain \in Seq(Ids), NEW i
    PROVE  Without(chain, i) \in Seq(Ids)
BY WithoutProperties

\* The C stack.
LEMMA Pushed == ASSUME NEW f \in Activation, NEW s \in Seq(Activation)
                PROVE  <<f>> \o s \in Seq(Activation)
OBVIOUS

LEMMA Popped == ASSUME NEW k, stack \in Seq(Activation), Top(k)
                PROVE  /\ Head(stack) \in Activation /\ Head(stack).kind = k
                       /\ Tail(stack) \in Seq(Activation)
BY DEF Top

LEMMA HandlerAct == ASSUME NEW f \in Activation, f.kind = "handler" PROVE f \in HandlerActs
BY DEF Activation, HandlerActs, RunAllActs, ExpectActs

LEMMA ExpectAct == ASSUME NEW f \in Activation, f.kind = "expect" PROVE f \in ExpectActs
BY DEF Activation, HandlerActs, RunAllActs, ExpectActs

LEMMA RunAllAct ==
    ASSUME NEW f \in Activation, f.kind \in {"runall", "runall_next"} PROVE f \in RunAllActs
BY DEF Activation, HandlerActs, RunAllActs, ExpectActs

LEMMA HandlerMoves ==
    ASSUME NEW f \in HandlerActs, NEW pc \in {"cases", "body", "after", "finish"}
    PROVE  [f EXCEPT !.pc = pc] \in Activation
<1>1. [f EXCEPT !.pc = pc] \in HandlerActs
  BY DEF HandlerActs
<1>. QED  BY <1>1 DEF Activation

LEMMA ExpectMoves ==
    ASSUME NEW f \in ExpectActs, NEW pc \in {"update", "poll", "turn", "body"}
    PROVE  [f EXCEPT !.pc = pc] \in Activation /\ [f EXCEPT !.stale = TRUE] \in ExpectActs
<1>1. [f EXCEPT !.pc = pc] \in ExpectActs
  BY DEF ExpectActs
<1>2. [f EXCEPT !.stale = TRUE] \in ExpectActs
  BY DEF ExpectActs
<1>. QED  BY <1>1, <1>2 DEF Activation

LEMMA ReconfiguredType ==
    ASSUME NEW s \in Seq(Activation)
    PROVE  /\ Reconfigured(s) \in Seq(Activation)
           /\ Len(Reconfigured(s)) = Len(s)
           /\ s # <<>> => Head(Reconfigured(s)).kind = Head(s).kind
<1> DEFINE r(k) == IF s[k].kind = "expect" THEN [s[k] EXCEPT !.stale = TRUE] ELSE s[k]
           n == Len(s)
<1>1. \A k \in 1..n : r(k) \in Activation /\ r(k).kind = s[k].kind
  <2>. TAKE k \in 1..n
  <2>1. s[k] \in Activation
    OBVIOUS
  <2>2. CASE s[k].kind = "expect"
    <3>1. s[k] \in ExpectActs
      BY <2>1, <2>2, ExpectAct
    <3>2. [s[k] EXCEPT !.stale = TRUE] \in ExpectActs
      BY <3>1 DEF ExpectActs
    <3>. QED  BY <2>2, <3>2 DEF Activation, ExpectActs
  <2>3. CASE s[k].kind # "expect"
    BY <2>1, <2>3
  <2>. QED  BY <2>2, <2>3
<1>2. Reconfigured(s) = [k \in 1..n |-> r(k)] /\ n \in Nat
  BY DEF Reconfigured
<1>3. s # <<>> => 1 \in 1..n /\ Head(s) = s[1]
  OBVIOUS
<1>. HIDE DEF r, n
<1>4. [k \in 1..n |-> r(k)] \in Seq(Activation) /\ Len([k \in 1..n |-> r(k)]) = n
  BY <1>1, <1>2, IsASeq
<1>5. s # <<>> => Head([k \in 1..n |-> r(k)]) = r(1)
  BY <1>2, <1>3, <1>4
<1>. QED  BY <1>1, <1>2, <1>3, <1>4, <1>5 DEF n

LEMMA AfterCloseType ==
    ASSUME NEW i, NEW s \in Seq(Activation)
    PROVE  /\ AfterClose(i, s) \in Seq(Activation)
           /\ s # <<>> => /\ AfterClose(i, s) # <<>>
                          /\ Head(AfterClose(i, s)).kind = Head(s).kind
<1>1. Len(s) = 0 <=> s = <<>>
  OBVIOUS
<1>2. Reconfigured(s) # <<>> \/ Len(Reconfigured(s)) = 0
  BY ReconfiguredType
<1>. QED  BY <1>1, <1>2, ReconfiguredType DEF AfterClose

LEMMA PushRunAllType ==
    ASSUME chain \in Seq(Ids), NEW s \in Seq(Activation)
    PROVE  PushRunAll(s) \in Seq(Activation)
<1>1. chain # <<>> => Head(chain) \in Ids
  OBVIOUS
<1>2. chain # <<>> => RunAll(Head(chain)) \in Activation
  BY <1>1 DEF RunAll, RunAllActs, Activation
<1>. QED  BY <1>2, Pushed DEF PushRunAll

\* ExpChanClose of one spawn id.
LEMMA UnregisteredGood ==
    ASSUME IdInv, NEW i, NEW r, i \in Ids => r \in Good
    PROVE  [es EXCEPT ![i] = ChanClosed(r, NextPtr(i))] \in [Ids -> Good]
<1>1. i \in Ids => ChanClosed(r, NextPtr(i)) \in Good
  BY NextPtrType, ChanClosedGood DEF IdInv
<1>. QED  BY <1>1, PutGood DEF IdInv

LEMMA ExpClosedGood ==
    ASSUME IdInv, NEW i, NEW r, i \in Ids => r \in Good, ExpClosed(i, r)
    PROVE  /\ es' \in [Ids -> Good] /\ chain' \in Seq(Ids)
           /\ bgNamed' \subseteq Vars /\ before' \subseteq Ids
<1> DEFINE s == Shut(r, Occurrences(i))
           gone == s.user_waited /\ s.registered
<1>1. i \in Ids => s \in Good
  BY OccurrencesInt, ShutGood DEF IdInv
<1>2. CASE ~r.open
  BY <1>2, PutGood DEF ExpClosed, IdInv, lists
<1>3. CASE r.open
  <2>1. /\ es' = [es EXCEPT ![i] = IF gone THEN ChanClosed(s, NextPtr(i)) ELSE s]
        /\ chain' = IF gone THEN Without(chain, i) ELSE chain
        /\ bgNamed' = bgNamed /\ before' \subseteq before
    BY <1>3 DEF ExpClosed
  <2>. HIDE DEF s
  <2>2. CASE gone
    BY <1>1, <2>1, <2>2, UnregisteredGood, UnlinkedType DEF IdInv
  <2>3. CASE ~gone
    BY <1>1, <2>1, <2>3, PutGood DEF IdInv
  <2>. QED  BY <2>2, <2>3
<1>. QED  BY <1>2, <1>3

\* A handler begins: what is pushed on s is an activation.
LEMMA EnterGood ==
    ASSUME IdInv, NEW i \in Ids, NEW s \in Seq(Activation), NEW masks, Enter(i, s, masks)
    PROVE  IdInv'
<1>1. es[i] \in Good /\ BlockHandler(es[i]) \in Good
  BY BlockGood DEF IdInv
<1>2. \A pc \in {"cases", "finish"}, cc \in {"data", "eof", "error"} :
         Handler(i, pc, cc) \in Activation
  BY DEF Handler, HandlerActs, Activation
<1>3. CASE /\ ExpClosed(i, BlockHandler(es[i])) /\ UNCHANGED fault
           /\ stack' = <<Handler(i, "finish", "error")>> \o AfterClose(i, s)
  BY <1>1, <1>2, <1>3, ExpClosedGood, AfterCloseType, Pushed DEF IdInv
<1>4. ASSUME NEW cc, UNCHANGED <<chain, lists, fault>>,
             es' = [es EXCEPT ![i] = [BlockHandler(es[i]) EXCEPT !.buffered = @ \/ cc = "data"]],
             stack' = <<Handler(i, "cases", IF cc = "eof" THEN "eof" ELSE "data")>> \o s
      PROVE  IdInv'
  <2> DEFINE b == BlockHandler(es[i])
             r == [b EXCEPT !.buffered = @ \/ cc = "data"]
  <2>1. r \in Good
    <3>1. b \in Good
      BY <1>1
    <3>. HIDE DEF b
    <3>. QED  BY <3>1 DEF Good, InStep, ExpState
  <2>2. es' = [es EXCEPT ![i] = r]
    BY <1>4
  <2>3. stack' \in Seq(Activation)
    BY <1>2, <1>4, Pushed
  <2>. HIDE DEF r
  <2>4. es' \in [Ids -> Good]
    BY <2>1, <2>2, PutGood DEF IdInv
  <2>. QED  BY <1>4, <2>3, <2>4 DEF IdInv, lists
<1>. QED  BY <1>3, <1>4 DEF Enter
-----------------------------------------------------------------------------
(* Commands.                                                               *)

LEMMA InitGood == IdInit => IdInv
<1>1. <<>> \in Seq(Ids) /\ <<>> \in Seq(Activation)
  OBVIOUS
<1>. QED  BY <1>1, UnusedGood DEF IdInit, IdInv

LEMMA SpawnGood == ASSUME IdInv, NEW i \in Ids, Spawn(i) PROVE IdInv'
<1> DEFINE r == [Unused EXCEPT !.mem = "live", !.open = TRUE, !.registered = TRUE]
<1>1. Unused \in ExpState /\ ~Unused.handler /\ Unused.bg_status # "armed"
  BY DEF ExpState, Unused, Status, Blocked
<1>2. r \in Good
  BY <1>1 DEF Good, InStep, ExpState
<1>3. es' = [es EXCEPT ![i] = r] /\ chain' = <<i>> \o chain
      /\ UNCHANGED <<bgNamed, before, stack, fault>>
  BY DEF Spawn, lists
<1>4. chain' \in Seq(Ids)
  BY <1>3 DEF IdInv
<1>. HIDE DEF r
<1>. QED  BY <1>2, <1>3, <1>4, PutGood DEF IdInv

LEMMA CloseGood == ASSUME IdInv, NEW i \in Ids, CloseId(i) PROVE IdInv'
<1>1. es[i] \in Good /\ ExpClosed(i, es[i]) /\ stack' = AfterClose(i, stack) /\ UNCHANGED fault
  BY DEF IdInv, CloseId
<1>. QED  BY <1>1, ExpClosedGood, AfterCloseType DEF IdInv

LEMMA TclCloseGood == ASSUME IdInv, NEW i \in Ids, TclClose(i) PROVE IdInv'
<1>1. /\ es' = [es EXCEPT ![i] = ChanClosed(es[i], NextPtr(i))]
      /\ chain' = Without(chain, i)
      /\ UNCHANGED <<bgNamed, before, stack, fault>>
  BY DEF TclClose, lists
<1>2. es[i] \in Good
  BY DEF IdInv
<1>. QED  BY <1>1, <1>2, UnregisteredGood, UnlinkedType DEF IdInv

LEMMA WaitGood == ASSUME IdInv, NEW i \in Ids, Wait(i) PROVE IdInv'
<1> DEFINE r == [es[i] EXCEPT !.user_waited = TRUE]
<1>1. r \in Good
  BY FieldsGood DEF IdInv
<1>2. /\ \/ es' = [es EXCEPT ![i] = r] /\ UNCHANGED chain
         \/ es' = [es EXCEPT ![i] = ChanClosed(r, NextPtr(i))] /\ chain' = Without(chain, i)
      /\ UNCHANGED <<bgNamed, before, stack, fault>>
  BY DEF Wait, lists
<1>. HIDE DEF r
<1>. QED  BY <1>1, <1>2, PutGood, UnregisteredGood, UnlinkedType DEF IdInv

LEMMA BackgroundDirectGood ==
    ASSUME IdInv, NEW S \in SUBSET Ids, NEW cases \in BOOLEAN, BackgroundDirect(S, cases)
    PROVE  IdInv'
<1> DEFINE left(i) == IF i \in bgDirect THEN Dropped(es[i]) ELSE es[i]
<1>1. /\ es' = [i \in Ids |-> IF i \notin S THEN es[i]
                             ELSE IF cases THEN StateListArm(left(i)) ELSE left(i)]
      /\ stack' = PushRunAll(stack)
      /\ UNCHANGED <<chain, bgNamed, before, fault>>
  BY DEF BackgroundDirect
<1>2. \A i \in Ids : left(i) \in Good
  BY DroppedGood DEF IdInv
<1>. HIDE DEF left
<1>3. \A i \in Ids : StateListArm(left(i)) \in Good
  BY <1>2, StateListArmGood
<1>. QED  BY <1>1, <1>2, <1>3, PushRunAllType DEF IdInv

LEMMA BackgroundIndirectGood ==
    ASSUME IdInv, NEW v \in Vars, NEW cases \in BOOLEAN, BackgroundIndirect(v, cases)
    PROVE  IdInv'
<1>1. /\ es' = [i \in Ids |-> IF cases /\ i \in value[v]
                             THEN StateListArm(Released(es[i])) ELSE es[i]]
      /\ bgNamed' = IF cases THEN bgNamed \cup {v} ELSE bgNamed \ {v}
      /\ stack' = PushRunAll(stack)
      /\ UNCHANGED <<chain, before, fault>>
  BY DEF BackgroundIndirect
<1>2. \A i \in Ids : Released(es[i]) \in Good
  BY ReleasedGood DEF IdInv
<1>3. \A i \in Ids : StateListArm(Released(es[i])) \in Good
  BY <1>2, StateListArmGood
<1>. QED  BY <1>1, <1>3, PushRunAllType DEF IdInv

LEMMA SetTracedGood ==
    ASSUME IdInv, NEW v \in Vars, NEW S \in SUBSET Ids, SetTraced(v, S)
    PROVE  IdInv'
<1> DEFINE left(i) == IF i \in bgVar[v] THEN Released(es[i]) ELSE es[i]
<1>1. UNCHANGED <<chain, bgNamed, before>>
  BY DEF SetTraced
<1>2. CASE fault' = "indirect" /\ UNCHANGED <<es, stack>>
  BY <1>1, <1>2 DEF IdInv
<1>3. CASE /\ \E now \in Parsed(v, S) :
                es' = [i \in Ids |-> IF i \in now THEN StateListArm(left(i)) ELSE left(i)]
           /\ stack' = PushRunAll(Reconfigured(stack))
           /\ UNCHANGED fault
  <2>1. \A i \in Ids : left(i) \in Good
    BY ReleasedGood DEF IdInv
  <2>. HIDE DEF left
  <2>2. \A i \in Ids : StateListArm(left(i)) \in Good
    BY <2>1, StateListArmGood
  <2>3. stack' \in Seq(Activation)
    BY <1>3, ReconfiguredType, PushRunAllType DEF IdInv
  <2>. QED  BY <1>1, <1>3, <2>1, <2>2, <2>3 DEF IdInv
<1>. QED  BY <1>2, <1>3 DEF SetTraced
-----------------------------------------------------------------------------
(* The background handler.                                                 *)

LEMMA EventGood == ASSUME IdInv, NEW i \in Ids, Event(i) PROVE IdInv'
<1>1. CASE Enter(i, stack, {1})
  BY <1>1, EnterGood DEF IdInv
<1>2. CASE Top("expect") /\ Enter(i, <<[Head(stack) EXCEPT !.pc = "turn"]>> \o Tail(stack), {1})
  <2>1. Head(stack) \in ExpectActs /\ Tail(stack) \in Seq(Activation)
    BY <1>2, Popped, ExpectAct DEF IdInv
  <2>2. <<[Head(stack) EXCEPT !.pc = "turn"]>> \o Tail(stack) \in Seq(Activation)
    BY <2>1, ExpectMoves, Pushed
  <2>. QED  BY <1>2, <2>2, EnterGood
<1>. QED  BY <1>1, <1>2 DEF Event

LEMMA RunAllGood ==
    ASSUME IdInv, RunAllCall \/ RunAllSkip \/ RunAllNext
    PROVE  IdInv'
<1> DEFINE i == Head(stack).id
<1>1. /\ \A j \in Ids \cup {Nobody} : RunAll(j) \in Activation
      /\ \A j \in Ids : [kind |-> "runall_next", id |-> j] \in Activation
  BY DEF RunAll, RunAllActs, Activation
<1>2. /\ i \in Ids \cup {Nobody} /\ Tail(stack) \in Seq(Activation)
      /\ Top("runall_next") => i \in Ids
      /\ i \in Ids => NextPtr(i) \in Ids \cup {Nobody}
  <2>1. Top("runall") \/ Top("runall_next")
    BY DEF RunAllCall, RunAllSkip, RunAllNext
  <2>2. Head(stack) \in RunAllActs /\ Tail(stack) \in Seq(Activation)
        /\ (Top("runall_next") => Head(stack).kind = "runall_next")
    BY <2>1, Popped, RunAllAct DEF IdInv
  <2>3. i \in Ids \cup {Nobody} /\ (Head(stack).kind = "runall_next" => i \in Ids)
    BY <2>2 DEF RunAllActs
  <2>. QED  BY <2>2, <2>3, NextPtrType DEF IdInv
<1>3. CASE RunAllCall
  <2>1. i \in Ids /\ Enter(i, <<[kind |-> "runall_next", id |-> i]>> \o Tail(stack), {0})
    BY <1>2, <1>3 DEF RunAllCall
  <2>2. <<[kind |-> "runall_next", id |-> i]>> \o Tail(stack) \in Seq(Activation)
    BY <1>1, <1>2, <2>1, Pushed
  <2>. QED  BY <2>1, <2>2, EnterGood
<1>4. CASE RunAllSkip
  <2>1. /\ stack' = Tail(stack) \/ (i # Nobody /\ stack' = <<RunAll(NextPtr(i))>> \o Tail(stack))
        /\ UNCHANGED <<es, chain, bgNamed, before, fault>>
    BY <1>4 DEF RunAllSkip, Pop, lists
  <2>2. stack' \in Seq(Activation)
    BY <1>1, <1>2, <2>1, Pushed
  <2>. QED  BY <2>1, <2>2 DEF IdInv
<1>5. CASE RunAllNext
  <2>1. /\ (fault' = "runall" /\ UNCHANGED stack)
           \/ (stack' = <<RunAll(NextPtr(i))>> \o Tail(stack) /\ UNCHANGED fault)
        /\ UNCHANGED <<es, chain, bgNamed, before>> /\ i \in Ids
    BY <1>2, <1>5 DEF RunAllNext, lists
  <2>2. stack' \in Seq(Activation)
    BY <1>1, <1>2, <2>1, Pushed DEF IdInv
  <2>. QED  BY <2>1, <2>2 DEF IdInv
<1>. QED  BY <1>3, <1>4, <1>5

\* The activation on top of a handler's step.
LEMMA OnTop ==
    ASSUME IdInv, Top("handler")
    PROVE  /\ Head(stack) \in HandlerActs /\ Head(stack).id \in Ids
           /\ es[Head(stack).id] \in Good
           /\ Tail(stack) \in Seq(Activation)
           /\ \A pc \in {"cases", "body", "after", "finish"} :
                 <<[Head(stack) EXCEPT !.pc = pc]>> \o Tail(stack) \in Seq(Activation)
<1>1. Head(stack) \in HandlerActs /\ Tail(stack) \in Seq(Activation)
  BY Popped, HandlerAct DEF IdInv
<1>2. Head(stack).id \in Ids
  BY <1>1 DEF HandlerActs
<1>. QED  BY <1>1, <1>2, HandlerMoves, Pushed DEF IdInv

LEMMA MatchGood == ASSUME IdInv, NoMatch \/ Match PROVE IdInv'
<1> DEFINE i == Head(stack).id
<1>1. Top("handler") /\ UNCHANGED <<chain, bgNamed, before, fault>> /\ (Goto("finish") \/ Goto("body"))
  BY DEF NoMatch, Match, AtCases, lists
<1>2. i \in Ids /\ es[i] \in Good /\ stack' \in Seq(Activation)
  BY <1>1, OnTop DEF Goto
<1>3. es' = es \/ \E left \in BOOLEAN : es' = [es EXCEPT ![i] = [es[i] EXCEPT !.buffered = left]]
  BY DEF NoMatch, Match
<1>. HIDE DEF i
<1>4. es' \in [Ids -> Good]
  <2>1. CASE es' = es
    BY <2>1 DEF IdInv
  <2>2. ASSUME NEW left \in BOOLEAN, es' = [es EXCEPT ![i] = [es[i] EXCEPT !.buffered = left]]
        PROVE  es' \in [Ids -> Good]
    <3>1. [es[i] EXCEPT !.buffered = left] \in Good
      BY <1>2, FieldsGood
    <3>. QED  BY <2>2, <3>1, PutGood DEF IdInv
  <2>. QED  BY <1>3, <2>1, <2>2
<1>. QED  BY <1>1, <1>2, <1>4 DEF IdInv

LEMMA MatchEofGood == ASSUME IdInv, MatchEof PROVE IdInv'
<1> DEFINE i == Head(stack).id
           s == AfterClose(i, stack)
<1>1. /\ Top("handler") /\ ExpClosed(i, es[i]) /\ UNCHANGED fault
      /\ \E pc \in {"body", "after"} : stack' = <<[Head(s) EXCEPT !.pc = pc]>> \o Tail(s)
  BY DEF MatchEof, AtCases
<1>2. es[i] \in Good /\ Head(stack).kind = "handler" /\ stack # <<>>
  BY <1>1, OnTop DEF Top
<1>3. s \in Seq(Activation) /\ s # <<>> /\ Head(s).kind = "handler"
  BY <1>2, AfterCloseType DEF IdInv
<1>. HIDE DEF s
<1>4. Head(s) \in HandlerActs /\ Tail(s) \in Seq(Activation)
  BY <1>3, HandlerAct
<1>5. stack' \in Seq(Activation)
  BY <1>1, <1>4, HandlerMoves, Pushed
<1>. QED  BY <1>1, <1>2, <1>5, ExpClosedGood DEF IdInv

\* A name that is still registered stands for memory that is still there: the
\* check after the body is sufficient.
LEMMA AfterGood == ASSUME IdInv, After \/ Finish PROVE IdInv'
<1> DEFINE i == Head(stack).id
<1>1. Top("handler") /\ UNCHANGED <<chain, bgNamed, before>>
  BY DEF After, Finish, lists
<1>2. /\ i \in Ids /\ es[i] \in Good /\ Tail(stack) \in Seq(Activation)
      /\ Handler(i, "cases", "data") \in Activation
  BY <1>1, OnTop DEF Handler, HandlerActs, Activation
<1>3. Checked(i) => ~Freed(i)
  BY <1>2 DEF Good, InStep, Checked, Freed
<1>4. fault' # "handler" /\ (es' = es \/ es' = [es EXCEPT ![i] = Finished(es[i])])
  BY <1>3 DEF After, Finish, IdInv
<1>5. stack' \in {stack, Tail(stack), <<Handler(i, "cases", "data")>> \o Tail(stack)}
  BY DEF After, Finish, Pop
<1>. HIDE DEF i
<1>6. es' \in [Ids -> Good]
  BY <1>2, <1>4, FinishedGood, PutGood DEF IdInv
<1>7. stack' \in Seq(Activation)
  BY <1>2, <1>5, Pushed DEF IdInv
<1>. QED  BY <1>1, <1>4, <1>6, <1>7 DEF IdInv
-----------------------------------------------------------------------------
(* The foreground expect.                                                  *)

\* The activation on top of a step of expect.
LEMMA ExpectOnTop ==
    ASSUME IdInv, Top("expect")
    PROVE  /\ Head(stack) \in ExpectActs
           /\ Tail(stack) \in Seq(Activation)
           /\ \A pc \in {"update", "poll", "turn", "body"} :
                 <<[Head(stack) EXCEPT !.pc = pc]>> \o Tail(stack) \in Seq(Activation)
<1>1. Head(stack) \in ExpectActs /\ Tail(stack) \in Seq(Activation)
  BY Popped, ExpectAct DEF IdInv
<1>. QED  BY <1>1, ExpectMoves, Pushed

LEMMA ExpectingType ==
    ASSUME NEW eg \in SUBSET Ids, NEW states \in SUBSET Ids, NEW pc \in {"update", "poll"}
    PROVE  Expecting(eg, states, pc, FALSE) \in Activation
BY DEF Expecting, ExpectActs, Activation

LEMMA ExpectGood == ASSUME IdInv, NEW S \in SUBSET Ids, Expect(S) PROVE IdInv'
<1>1. stack' \in Seq(Activation)
  BY ExpectingType, Pushed DEF Expect, IdInv
<1>. QED  BY <1>1 DEF Expect, IdInv, lists

LEMMA UpdateGood == ASSUME IdInv, Update PROVE IdInv'
<1> DEFINE e == Head(stack)
           all == e.states \cup before \cup e.eg
<1>1. Top("expect") /\ UNCHANGED <<es, chain, bgNamed, before>>
  BY DEF Update, lists
<1>2. e \in ExpectActs /\ Tail(stack) \in Seq(Activation)
  BY <1>1, ExpectOnTop
<1>3. e.eg \in SUBSET Ids /\ all \in SUBSET Ids
  BY <1>2 DEF ExpectActs, IdInv
<1>4. /\ stack' \in {stack, Tail(stack), <<Expecting(e.eg, all, "poll", FALSE)>> \o Tail(stack)}
      /\ fault' \in {fault, "expect"}
  BY DEF Update, Pop
<1>. HIDE DEF e, all
<1>5. stack' \in Seq(Activation)
  BY <1>2, <1>3, <1>4, ExpectingType, Pushed DEF IdInv
<1>. QED  BY <1>1, <1>4, <1>5 DEF IdInv

LEMMA PollGood == ASSUME IdInv, PollFreed \/ PollData PROVE IdInv'
<1>1. CASE PollFreed
  BY <1>1 DEF PollFreed, IdInv, lists
<1>2. CASE PollData
  <2>1. /\ Top("expect") /\ UNCHANGED <<chain, bgNamed, before, fault>>
        /\ UNCHANGED stack \/ Goto("body")
    BY <1>2 DEF PollData, lists
  <2>2. stack' \in Seq(Activation)
    BY <2>1, ExpectOnTop DEF Goto, IdInv
  <2>. PICK i \in Head(stack).states, left \in BOOLEAN :
          es' = [es EXCEPT ![i] = [es[i] EXCEPT !.buffered = left]]
    BY <1>2 DEF PollData
  <2>4. i \in Ids => [es[i] EXCEPT !.buffered = left] \in Good
    BY FieldsGood DEF IdInv
  <2>5. es' \in [Ids -> Good]
    BY <2>4, PutGood DEF IdInv
  <2>. QED  BY <2>1, <2>2, <2>5 DEF IdInv
<1>. QED  BY <1>1, <1>2

LEMMA PollEofGood == ASSUME IdInv, PollEof PROVE IdInv'
<1>1. Top("expect") /\ UNCHANGED fault
  BY DEF PollEof
<1>. PICK i : /\ ExpClosed(i, es[i])
              /\ LET s == AfterClose(i, stack)
                 IN  stack' \in {<<[Head(s) EXCEPT !.pc = "body"]>> \o Tail(s), Tail(s)}
  BY DEF PollEof
<1> DEFINE s == AfterClose(i, stack)
<1>2. i \in Ids => es[i] \in Good
  BY DEF IdInv
<1>3. s \in Seq(Activation) /\ s # <<>> /\ Head(s).kind = "expect"
  BY <1>1, AfterCloseType DEF IdInv, Top
<1>. HIDE DEF s
<1>4. Head(s) \in ExpectActs /\ Tail(s) \in Seq(Activation)
  BY <1>3, ExpectAct
<1>5. <<[Head(s) EXCEPT !.pc = "body"]>> \o Tail(s) \in Seq(Activation)
  BY <1>4, ExpectMoves, Pushed
<1>6. stack' \in Seq(Activation)
  BY <1>4, <1>5 DEF s
<1>. QED  BY <1>1, <1>2, <1>6, ExpClosedGood DEF IdInv

LEMMA ExpectMovesGood == ASSUME IdInv, Timeout \/ Turned \/ BodyDone PROVE IdInv'
<1>1. Top("expect") /\ UNCHANGED <<es, chain, bgNamed, before, fault>>
  BY DEF Timeout, Turned, BodyDone, lists
<1>2. /\ Head(stack) \in ExpectActs /\ Tail(stack) \in Seq(Activation)
      /\ \A pc \in {"update", "poll", "turn", "body"} :
             <<[Head(stack) EXCEPT !.pc = pc]>> \o Tail(stack) \in Seq(Activation)
  BY <1>1, ExpectOnTop
<1>3. <<Expecting(Head(stack).eg, {}, "update", FALSE)>> \o Tail(stack) \in Seq(Activation)
  <2>1. Head(stack).eg \in SUBSET Ids
    BY <1>2 DEF ExpectActs
  <2>. QED  BY <1>2, <2>1, ExpectingType, Pushed
<1>4. stack' \in Seq(Activation)
  BY <1>2, <1>3 DEF Timeout, Turned, BodyDone, Pop, Goto
<1>. QED  BY <1>1, <1>4 DEF IdInv
-----------------------------------------------------------------------------
(* Scripts without indirect lists.  bg_ecount is then 1 for a spawn id with *)
(* background cases and 0 for one without, and bg_status follows from it.   *)

\* The ExpState r of the spawn id i, if those in B have background cases and those
\* in X have cases of expect_before.  What Tcl closed in the middle of the handler is
\* left to it; what exp_close closed has forgotten its cases and is not blocked.
IsServed(r, i, B, X) ==
    /\ ~r.registered => ~r.handler
    /\ r.mem = "unused" => r = Unused /\ i \notin B /\ i \notin X
    /\ r.mem = "live" /\ ~r.registered => r.open /\ r.freeWhenBgHandlerUnblocked
    /\ r.mem = "live" /\ ~r.open =>
         ~r.user_waited /\ i \notin B /\ i \notin X /\ ~r.bg_interp /\ r.bg_status = "unarmed"
    /\ r.registered /\ r.open =>
         /\ r.bg_ecount = IF i \in B THEN 1 ELSE 0
         /\ r.bg_interp <=> i \in B
         /\ r.bg_status \in IF i \in B THEN {"armed", "blocked"}
                                 ELSE {"unarmed", "disarm_req_while_blocked"}

AllServe == \A i \in Ids : IsServed(es[i], i, bgDirect, before)

RunningIn(s, i) == \E k \in 1..Len(s) : s[k].kind = "handler" /\ s[k].id = i
BlockedRun == \A i \in Ids : Usable(i) /\ es[i].bg_status \in Blocked => RunningIn(stack, i)

\* Only the innermost activation looks at cases: the others wait for a body, for
\* the event loop or for a handler.  At end-of-file nothing came in between.
AtCasesOf(f) == f.kind = "handler" /\ f.pc = "cases"
NoCases(s) == \A k \in 1..Len(s) : ~AtCasesOf(s[k])
CasesOnTop(s) == \A k \in 2..Len(s) : ~AtCasesOf(s[k])
EofIsOpen == Len(stack) > 0 /\ AtCasesOf(stack[1]) /\ stack[1].cc = "eof" =>
                es[stack[1].id].registered

Direct == bgNamed = {} /\ AllServe /\ BlockedRun /\ CasesOnTop(stack) /\ EofIsOpen

\* The functions on one ExpState.
LEMMA BlockServes ==
    ASSUME NEW r \in Good, NEW i, NEW B, NEW X, NEW d \in BOOLEAN,
           IsServed(r, i, B, X), r.handler \/ r.bg_interp
    PROVE  /\ IsServed(BlockHandler(r), i, B, X)
           /\ IsServed([BlockHandler(r) EXCEPT !.buffered = d], i, B, X)
           /\ BlockHandler(r).registered = r.registered /\ BlockHandler(r).open = r.open
<1> DEFINE s == BlockHandler(r)
<1>1. /\ s \in Good /\ s.mem = r.mem /\ s.registered = r.registered /\ s.open = r.open
      /\ s.freeWhenBgHandlerUnblocked = r.freeWhenBgHandlerUnblocked /\ s.bg_interp = r.bg_interp
      /\ s.user_waited = r.user_waited /\ s.bg_ecount = r.bg_ecount
      /\ s.bg_status = "blocked" /\ ~s.handler
  BY DEF Good, ExpState, BlockHandler, InStep, Blocked, Status
<1>2. r.mem # "unused"
  BY DEF IsServed, Unused
<1>3. IsServed(s, i, B, X)
  <2>1. r.registered /\ r.open => i \in B
    BY DEF IsServed, Good, InStep
  <2>2. ~(r.mem = "live" /\ ~r.open)
    BY DEF IsServed, Good, InStep
  <2>. HIDE DEF s
  <2>. QED  BY <1>1, <1>2, <2>1, <2>2 DEF IsServed
<1>4. IsServed([s EXCEPT !.buffered = d], i, B, X)
  <2>. HIDE DEF s
  <2>. QED  BY <1>1, <1>2, <1>3 DEF IsServed, Good, ExpState
<1>. QED  BY <1>1, <1>3, <1>4

LEMMA BufferServes ==
    ASSUME NEW r \in Good, NEW i, NEW B, NEW X, NEW d \in BOOLEAN,
           IsServed(r, i, B, X), r.registered \/ r.buffered
    PROVE  IsServed([r EXCEPT !.buffered = d], i, B, X)
<1>1. r.mem # "unused"
  BY DEF IsServed, Unused, Good, InStep
<1>. QED  BY <1>1 DEF IsServed, Good, ExpState

LEMMA DroppedServes ==
    ASSUME NEW r \in Good, NEW i, NEW B, NEW C, NEW X, IsServed(r, i, B, X), i \in B, i \notin C, r.registered, r.open
    PROVE  /\ IsServed(Dropped(r), i, C, X) /\ Dropped(r).registered /\ Dropped(r).open
           /\ Dropped(r).bg_status \in Blocked => r.bg_status \in Blocked
<1> DEFINE s == [r EXCEPT !.bg_ecount = @ - 1]
<1>1. /\ s \in Good /\ s.mem = "live" /\ s.registered /\ s.open /\ s.bg_ecount = 0
      /\ s.bg_status \in {"armed", "blocked"} /\ s.bg_status = r.bg_status
  BY DEF IsServed, Good, ExpState, InStep
<1>2. Dropped(r) = [Disarm(s) EXCEPT !.bg_interp = FALSE]
  BY <1>1 DEF Dropped
<1>. HIDE DEF s
<1>3. /\ Disarm(s) \in Good /\ Disarm(s).mem = "live" /\ Disarm(s).registered /\ Disarm(s).open
      /\ Disarm(s).bg_ecount = 0
      /\ Disarm(s).bg_status \in {"unarmed", "disarm_req_while_blocked"}
      /\ Disarm(s).bg_status \in Blocked => r.bg_status \in Blocked
  BY <1>1 DEF Disarm, DisarmForce, Good, ExpState, InStep, Status, Blocked
<1> DEFINE d == Disarm(s)
           t == [d EXCEPT !.bg_interp = FALSE]
<1>4. /\ d \in Good /\ d.mem = "live" /\ d.registered /\ d.open /\ d.bg_ecount = 0
      /\ d.bg_status \in {"unarmed", "disarm_req_while_blocked"}
      /\ d.bg_status \in Blocked => r.bg_status \in Blocked
  BY <1>3
<1>5. Dropped(r) = t
  BY <1>2
<1>. HIDE DEF d
<1>6. /\ t \in ExpState /\ t.mem = "live" /\ t.registered /\ t.open /\ t.bg_ecount = 0
      /\ t.bg_status \in {"unarmed", "disarm_req_while_blocked"} 
      /\ t.bg_interp = FALSE /\ t.bg_status = d.bg_status
  BY <1>4 DEF Good, ExpState
<1>. HIDE DEF t
<1>7. IsServed(t, i, C, X)
  BY <1>6 DEF IsServed
<1>8. t.bg_status \in Blocked => r.bg_status \in Blocked
  BY <1>4, <1>6
<1>. QED  BY <1>5, <1>6, <1>7, <1>8

LEMMA ArmServes ==
    ASSUME NEW r \in Good, NEW i, NEW B, NEW C, NEW X, IsServed(r, i, B, X), i \notin B, i \in C, r.registered, r.open
    PROVE  /\ IsServed(StateListArm(r), i, C, X)
           /\ StateListArm(r).bg_status \in Blocked => r.bg_status \in Blocked
<1>1. /\ r.bg_ecount = 0 /\ r.mem = "live"
      /\ r.bg_status \in {"unarmed", "disarm_req_while_blocked"}
  BY DEF IsServed, Good, InStep
<1> DEFINE a == ArmHandler(r)
           s == [a EXCEPT !.bg_interp = TRUE]
           t == [s EXCEPT !.bg_ecount = @ + 1]
<1>2. /\ a \in ExpState /\ a.mem = "live" /\ a.registered /\ a.open /\ a.bg_ecount = 0
      /\ a.bg_status \in {"armed", "blocked"}
      /\ a.bg_status = "blocked" => r.bg_status \in Blocked
  BY <1>1 DEF ArmHandler, ArmForce, Good, ExpState, InStep, Status, Blocked
<1>3. StateListArm(r) = t
  BY <1>1 DEF StateListArm
<1>. HIDE DEF a
<1>4. /\ s \in ExpState /\ s.mem = "live" /\ s.registered /\ s.open /\ s.bg_ecount = 0
      /\ s.bg_status = a.bg_status /\ s.bg_interp = TRUE
  BY <1>2 DEF ExpState
<1>. HIDE DEF s
<1>5. /\ t.mem = "live" /\ t.registered /\ t.open /\ t.bg_ecount = 1
      /\ t.bg_status = a.bg_status /\ t.bg_interp = TRUE
  BY <1>4 DEF ExpState
<1>. HIDE DEF t
<1>6. IsServed(t, i, C, X)
  BY <1>2, <1>5 DEF IsServed
<1>7. t.bg_status \in Blocked => r.bg_status \in Blocked
  BY <1>2, <1>5 DEF Blocked
<1>. QED  BY <1>3, <1>6, <1>7

\* exp_close: what was waited for is gone, the rest is closed and forgotten.
LEMMA ShutServes ==
    ASSUME NEW r \in Good, NEW i, NEW B, NEW X, IsServed(r, i, B, X),
           r.registered, r.open, NEW next \in Ids \cup {Nobody}, NEW C, NEW Y, i \notin C, i \notin Y
    PROVE  LET s == Shut(r, IF i \in B THEN 1 ELSE 0)
               t == IF s.user_waited /\ s.registered THEN ChanClosed(s, next) ELSE s
           IN  IsServed(t, i, C, Y) /\ ~t.open /\ t.bg_status = "unarmed"
<1> DEFINE n == IF i \in B THEN 1 ELSE 0
           m == r.bg_ecount - n
           c == r.bg_interp /\ r.bg_ecount \notin 1..n
           p == [r EXCEPT !.open = FALSE, !.bg_ecount = m, !.bg_interp = c]
           s == DisarmForce(p)
<1>1. /\ c = FALSE /\ m = 0 /\ r.mem = "live"
  BY DEF IsServed, Good, InStep
<1>2. Shut(r, n) = s
  BY DEF Shut
<1>. HIDE DEF c, m
<1>3. /\ s.mem = "live" /\ s.registered /\ ~s.open /\ ~s.bg_interp /\ s.bg_status = "unarmed"
      /\ ~s.handler /\ s.user_waited = r.user_waited
  BY <1>1 DEF DisarmForce, Good, ExpState
<1>. HIDE DEF s
<1>4. CASE s.user_waited
  <2>1. ChanClosed(s, next) = Gone
    BY <1>3 DEF ChanClosed, Blocked
  <2>2. /\ ~Gone.registered /\ ~Gone.handler /\ Gone.mem = "freed" /\ ~Gone.open
        /\ Gone.bg_status = "unarmed"
    BY DEF Gone, Unused
  <2>3. IsServed(Gone, i, C, Y)
    BY <2>2 DEF IsServed
  <2>. QED  BY <1>2, <1>3, <1>4, <2>1, <2>2, <2>3
<1>5. CASE ~s.user_waited
  <2>1. IsServed(s, i, C, Y)
    BY <1>3, <1>5 DEF IsServed
  <2>. QED  BY <1>2, <1>3, <1>5, <2>1
<1>. QED  BY <1>4, <1>5

LEMMA GoneServes ==
    ASSUME NEW i, NEW B, NEW X
    PROVE  IsServed(Gone, i, B, X) /\ ~Gone.registered
<1>1. ~Gone.registered /\ ~Gone.handler /\ Gone.mem = "freed"
  BY DEF Gone, Unused
<1>. QED  BY <1>1 DEF IsServed

\* Tcl's close of an open one, and the wait for a closed one.
LEMMA ChanClosedServes ==
    ASSUME NEW r \in Good, NEW i, NEW B, NEW X, IsServed(r, i, B, X),
           r.registered, NEW next \in Ids \cup {Nobody}
    PROVE  IsServed(ChanClosed(r, next), i, B, X) /\ ~ChanClosed(r, next).registered
<1> DEFINE s == [r EXCEPT !.registered = FALSE, !.handler = FALSE, !.nextPtr = next]
           t == [s EXCEPT !.freeWhenBgHandlerUnblocked = TRUE]
<1>1. CASE r.bg_status \in Blocked
  <2>1. r.open /\ r.mem = "live"
    BY <1>1 DEF IsServed, Good, InStep, Blocked
  <2>2. ChanClosed(r, next) = t
    BY <1>1 DEF ChanClosed
  <2>3. /\ s.mem = "live" /\ s.open /\ ~s.registered /\ ~s.handler /\ s \in ExpState
    BY <2>1 DEF Good, ExpState
  <2>. HIDE DEF s
  <2>4. /\ t.mem = "live" /\ t.open /\ ~t.registered /\ ~t.handler
        /\ t.freeWhenBgHandlerUnblocked
    BY <2>3 DEF ExpState
  <2>. HIDE DEF t
  <2>. QED  BY <2>2, <2>4 DEF IsServed
<1>2. CASE r.bg_status \notin Blocked
  <2>1. ChanClosed(r, next) = Gone
    BY <1>2 DEF ChanClosed
  <2>. QED  BY <2>1, GoneServes
<1>. QED  BY <1>1, <1>2

LEMMA WaitServes ==
    ASSUME NEW r \in Good, NEW i, NEW B, NEW X, IsServed(r, i, B, X), r.registered
    PROVE  LET w == [r EXCEPT !.user_waited = TRUE]
           IN  /\ r.open => IsServed(w, i, B, X)
               /\ ~r.open => \A next : ChanClosed(w, next) = Gone
               /\ w.bg_status = r.bg_status /\ w.registered = r.registered /\ w.open = r.open
<1> DEFINE w == [r EXCEPT !.user_waited = TRUE]
<1>1. /\ w.mem = "live" /\ r.mem = "live" /\ w.registered = r.registered /\ w.open = r.open
      /\ w.bg_interp = r.bg_interp /\ w.bg_status = r.bg_status /\ w.handler = r.handler
      /\ w.bg_ecount = r.bg_ecount
  BY DEF Good, InStep, ExpState
<1>. HIDE DEF w
<1>2. r.open => IsServed(w, i, B, X)
  BY <1>1 DEF IsServed
<1>3. ~r.open => \A next : ChanClosed(w, next) = Gone
  BY <1>1 DEF IsServed, ChanClosed, Blocked
<1>. QED  BY <1>1, <1>2, <1>3 DEF w

\* The end of a handler.
LEMMA FinishedServes ==
    ASSUME NEW r \in Good, NEW i, NEW B, NEW X, IsServed(r, i, B, X), r.mem # "freed"
    PROVE  /\ IsServed(Finished(r), i, B, X)
           /\ Finished(r).registered => Finished(r).bg_status \notin Blocked
<1> DEFINE s == Unblock(r)
<1>1. CASE r.mem = "unused"
  <2>1. r = Unused
    BY <1>1 DEF IsServed
  <2>2. r.bg_status = "unarmed" /\ ~r.freeWhenBgHandlerUnblocked /\ ~r.registered
    BY <2>1 DEF Unused
  <2>3. s = r
    BY <2>2 DEF Unblock
  <2>. QED  BY <2>2, <2>3 DEF Finished
<1>2. CASE r.mem = "live" /\ ~r.registered
  <2>1. r.freeWhenBgHandlerUnblocked
    BY <1>2 DEF IsServed
  <2>2. s.freeWhenBgHandlerUnblocked
    BY <2>1 DEF Unblock, ArmForce, DisarmForce, Good, ExpState
  <2>3. Finished(r) = Gone
    BY <2>2 DEF Finished
  <2>. QED  BY <2>3, GoneServes
<1>3. CASE r.registered
  <2>1. /\ s.mem = "live" /\ s.registered /\ s.open = r.open /\ s.bg_interp = r.bg_interp
        /\ s.bg_ecount = r.bg_ecount /\ s.user_waited = r.user_waited
        /\ s.bg_status = CASE r.bg_status = "blocked" -> "armed"
                            [] r.bg_status = "disarm_req_while_blocked" -> "unarmed"
                            [] OTHER -> r.bg_status
    BY <1>3 DEF Unblock, ArmForce, DisarmForce, Good, ExpState, InStep
  <2>2. s.bg_status \notin Blocked
    BY <2>1 DEF Blocked
  <2>. HIDE DEF s
  <2>3. r.mem = "live"
    BY <1>3 DEF Good, InStep
  <2>4. ~s.open => s.bg_status = "unarmed"
    BY <2>1, <2>3 DEF IsServed
  <2>5. s.open => s.bg_status \in IF i \in B THEN {"armed", "blocked"}
                                    ELSE {"unarmed", "disarm_req_while_blocked"}
    BY <1>3, <2>1 DEF IsServed
  <2>6. IsServed(s, i, B, X)
    BY <1>3, <2>1, <2>3, <2>4, <2>5 DEF IsServed
  <2>7. Finished(r) = s \/ Finished(r) = Gone
    BY DEF Finished, s
  <2>. QED  BY <2>2, <2>6, <2>7, GoneServes
<1>. QED  BY <1>1, <1>2, <1>3 DEF Good, ExpState

\* The C stack.  A close tells the expects that something changed, and leaves the
\* handlers as they are.
Alike(s, t) ==
    /\ Len(t) = Len(s)
    /\ \A k \in 1..Len(s) : t[k].kind = s[k].kind /\ (s[k].kind = "handler" => t[k] = s[k])

LEMMA PushedFacts ==
    ASSUME NEW s \in Seq(Activation), NEW f \in Activation
    PROVE  /\ \A i : RunningIn(s, i) => RunningIn(<<f>> \o s, i)
           /\ f.kind = "handler" => RunningIn(<<f>> \o s, f.id)
           /\ NoCases(s) => CasesOnTop(<<f>> \o s)
           /\ NoCases(s) /\ ~AtCasesOf(f) => NoCases(<<f>> \o s)
           /\ Len(<<f>> \o s) > 0 /\ (<<f>> \o s)[1] = f
<1> DEFINE t == <<f>> \o s
<1>1. /\ t \in Seq(Activation) /\ Len(t) = Len(s) + 1 /\ Len(s) \in Nat /\ t[1] = f
      /\ \A k \in 1..Len(s) : t[k + 1] = s[k]
  OBVIOUS
<1>. HIDE DEF t
<1>2. \A k \in 2..Len(t) : k - 1 \in 1..Len(s) /\ t[k] = s[k - 1]
  <2>. TAKE k \in 2..Len(t)
  <2>1. k - 1 \in 1..Len(s) /\ (k - 1) + 1 = k
    BY <1>1
  <2>. QED  BY <1>1, <2>1
<1>3. \A i : RunningIn(s, i) => RunningIn(t, i)
  BY <1>1 DEF RunningIn
<1>4. f.kind = "handler" => RunningIn(t, f.id)
  BY <1>1 DEF RunningIn
<1>5. NoCases(s) => CasesOnTop(t)
  BY <1>2 DEF NoCases, CasesOnTop
<1>6. NoCases(s) /\ ~AtCasesOf(f) => NoCases(t)
  <2>. SUFFICES ASSUME NoCases(s), ~AtCasesOf(f), NEW k \in 1..Len(t) PROVE ~AtCasesOf(t[k])
    BY DEF NoCases
  <2>1. CASE k = 1
    BY <1>1, <2>1
  <2>2. CASE k # 1
    BY <1>1, <1>2, <2>2 DEF NoCases
  <2>. QED  BY <2>1, <2>2
<1>7. Len(t) > 0 /\ t[1] = f
  BY <1>1
<1>. QED  BY <1>3, <1>4, <1>5, <1>6, <1>7 DEF t

LEMMA PoppedFacts ==
    ASSUME NEW s \in Seq(Activation), s # <<>>
    PROVE  /\ \A i : RunningIn(s, i) => (Head(s).kind = "handler" /\ Head(s).id = i)
                                         \/ RunningIn(Tail(s), i)
           /\ CasesOnTop(s) => NoCases(Tail(s))
           /\ CasesOnTop(s) /\ ~AtCasesOf(Head(s)) => NoCases(s)
           /\ Len(s) > 0 /\ s[1] = Head(s)
<1> DEFINE t == Tail(s)
<1>1. /\ Len(s) \in Nat /\ Len(s) > 0 /\ Len(t) = Len(s) - 1 /\ s[1] = Head(s)
      /\ \A k \in 1..Len(t) : t[k] = s[k + 1]
  OBVIOUS
<1>. HIDE DEF t
<1>2. \A i : RunningIn(s, i) => (s[1].kind = "handler" /\ s[1].id = i) \/ RunningIn(t, i)
  <2>. SUFFICES ASSUME NEW i, NEW k \in 1..Len(s), k # 1, s[k].kind = "handler", s[k].id = i
                PROVE  RunningIn(t, i)
    BY DEF RunningIn
  <2>1. k - 1 \in 1..Len(t) /\ (k - 1) + 1 = k
    BY <1>1
  <2>2. t[k - 1] = s[k]
    BY <1>1, <2>1
  <2>. QED  BY <2>1, <2>2 DEF RunningIn
<1>3. CasesOnTop(s) => NoCases(t)
  <2>. SUFFICES ASSUME CasesOnTop(s), NEW k \in 1..Len(t) PROVE ~AtCasesOf(t[k])
    BY DEF NoCases
  <2>1. k + 1 \in 2..Len(s) /\ t[k] = s[k + 1]
    BY <1>1
  <2>. QED  BY <2>1 DEF CasesOnTop
<1>4. CasesOnTop(s) /\ ~AtCasesOf(s[1]) => NoCases(s)
  BY <1>1 DEF CasesOnTop, NoCases
<1>. QED  BY <1>1, <1>2, <1>3, <1>4 DEF t

LEMMA AlikeFacts ==
    ASSUME NEW s \in Seq(Activation), NEW t \in Seq(Activation), Alike(s, t)
    PROVE  /\ \A i : RunningIn(s, i) => RunningIn(t, i)
           /\ NoCases(s) => NoCases(t)
           /\ CasesOnTop(s) => CasesOnTop(t)
           /\ s # <<>> => t # <<>> /\ Alike(Tail(s), Tail(t)) /\ Head(t).kind = Head(s).kind
                                   /\ (Head(s).kind = "handler" => Head(t) = Head(s))
<1>1. \A i : RunningIn(s, i) => RunningIn(t, i)
  BY DEF Alike, RunningIn
<1>2. (NoCases(s) => NoCases(t)) /\ (CasesOnTop(s) => CasesOnTop(t))
  BY DEF Alike, NoCases, CasesOnTop, AtCasesOf
<1>3. ASSUME s # <<>>
      PROVE  /\ t # <<>> /\ Alike(Tail(s), Tail(t)) /\ Head(t).kind = Head(s).kind
             /\ (Head(s).kind = "handler" => Head(t) = Head(s))
  <2>1. Len(s) \in Nat /\ Len(s) > 0 /\ Len(t) = Len(s)
    BY <1>3 DEF Alike
  <2>2. t # <<>> /\ Head(s) = s[1] /\ Head(t) = t[1] /\ 1 \in 1..Len(s)
    BY <1>3, <2>1
  <2>3. /\ Len(Tail(s)) = Len(s) - 1 /\ Len(Tail(t)) = Len(s) - 1
        /\ \A k \in 1..(Len(s) - 1) : Tail(s)[k] = s[k + 1] /\ Tail(t)[k] = t[k + 1]
                                      /\ k + 1 \in 1..Len(s)
    BY <1>3, <2>1, <2>2
  <2>4. Alike(Tail(s), Tail(t))
    BY <2>3 DEF Alike
  <2>. QED  BY <2>2, <2>4 DEF Alike
<1>. QED  BY <1>1, <1>2, <1>3

LEMMA AfterCloseAlike ==
    ASSUME NEW i, NEW s \in Seq(Activation)
    PROVE  Alike(s, Reconfigured(s)) /\ Alike(s, AfterClose(i, s))
<1>1. Len(s) \in Nat /\ DOMAIN s = 1..Len(s)
  OBVIOUS
<1>2. \A k \in 1..Len(s) : s[k].kind = "expect" => [s[k] EXCEPT !.stale = TRUE].kind = "expect"
  <2>. SUFFICES ASSUME NEW k \in 1..Len(s), s[k].kind = "expect"
                PROVE  [s[k] EXCEPT !.stale = TRUE].kind = "expect"
    OBVIOUS
  <2>1. s[k] \in ExpectActs
    BY ExpectAct
  <2>. QED  BY <2>1 DEF ExpectActs
<1>3. Alike(s, Reconfigured(s))
  BY <1>1, <1>2, ReconfiguredType DEF Alike, Reconfigured
<1>. QED  BY <1>3 DEF AfterClose, Alike

\* A script runs on top of activations of which none is at its cases.
LEMMA ScriptRests == ASSUME IdInv, CasesOnTop(stack), ScriptRuns PROVE NoCases(stack)
<1>1. CASE stack = <<>>
  BY <1>1 DEF NoCases
<1>2. CASE stack # <<>>
  <2>1. Head(stack).pc = "body"
    BY <1>2 DEF ScriptRuns
  <2>2. ~AtCasesOf(Head(stack))
    BY <2>1 DEF AtCasesOf
  <2>. QED  BY <1>2, <2>2, PoppedFacts DEF IdInv
<1>. QED  BY <1>1, <1>2

\* The innermost activation goes on, or it ends.
LEMMA TopGoesOn ==
    ASSUME NEW s \in Seq(Activation), s # <<>>, CasesOnTop(s),
           NEW f \in Activation, ~AtCasesOf(f),
           Head(s).kind = "handler" => f.kind = "handler" /\ f.id = Head(s).id
    PROVE  /\ <<f>> \o Tail(s) \in Seq(Activation) /\ NoCases(<<f>> \o Tail(s))
           /\ \A i : RunningIn(s, i) => RunningIn(<<f>> \o Tail(s), i)
<1>1. Tail(s) \in Seq(Activation) /\ NoCases(Tail(s))
  BY PoppedFacts
<1>2. <<f>> \o Tail(s) \in Seq(Activation) /\ NoCases(<<f>> \o Tail(s))
  BY <1>1, PushedFacts, Pushed
<1>3. ASSUME NEW i, RunningIn(s, i) PROVE RunningIn(<<f>> \o Tail(s), i)
  <2>1. CASE Head(s).kind = "handler" /\ Head(s).id = i
    BY <1>1, <2>1, PushedFacts
  <2>2. CASE RunningIn(Tail(s), i)
    BY <1>1, <2>2, PushedFacts
  <2>. QED  BY <1>3, <2>1, <2>2, PoppedFacts
<1>. QED  BY <1>2, <1>3

LEMMA TopEnds ==
    ASSUME NEW s \in Seq(Activation), s # <<>>, CasesOnTop(s)
    PROVE  /\ NoCases(Tail(s))
           /\ \A i : RunningIn(s, i) /\ ~(Head(s).kind = "handler" /\ Head(s).id = i) =>
                       RunningIn(Tail(s), i)
BY PoppedFacts

\* A step after which no handler is at its cases needs no more than this.
LEMMA Rested ==
    ASSUME IdInv', bgNamed' = {}, AllServe', BlockedRun', NoCases(stack')
    PROVE  Direct'
<1>1. stack' \in Seq(Activation) /\ Len(stack') \in Nat
  BY DEF IdInv
<1>2. CasesOnTop(stack')
  BY <1>1 DEF NoCases, CasesOnTop
<1>3. EofIsOpen'
  BY <1>1 DEF NoCases, EofIsOpen
<1>. QED  BY <1>2, <1>3 DEF Direct

\* One ExpState is replaced; no list says anything new of the others.
LEMMA OneServes ==
    ASSUME IdInv, AllServe, NEW i \in Ids, NEW r, es' = [es EXCEPT ![i] = r],
           \A j \in Ids \ {i} : (j \in bgDirect' <=> j \in bgDirect) /\ (j \in before' <=> j \in before),
           IsServed(r, i, bgDirect', before')
    PROVE  AllServe' /\ es'[i] = r /\ \A j \in Ids \ {i} : es'[j] = es[j]
<1>1. es'[i] = r /\ \A j \in Ids \ {i} : es'[j] = es[j]
  BY DEF IdInv
<1>2. \A j \in Ids : IsServed(es'[j], j, bgDirect', before')
  <2>. TAKE j \in Ids
  <2>1. CASE j = i
    BY <1>1, <2>1
  <2>2. CASE j # i
    BY <1>1, <2>2 DEF AllServe, IsServed
  <2>. QED  BY <2>1, <2>2
<1>. QED  BY <1>1, <1>2 DEF AllServe

\* Whoever is blocked after a step was blocked before it, and still runs.
StillBlocked(j) == Usable(j) /\ es[j].bg_status \in Blocked
LEMMA StillRun ==
    ASSUME BlockedRun, \A j \in Ids : RunningIn(stack, j) => RunningIn(stack', j) \/ ~StillBlocked(j)',
           \A j \in Ids : StillBlocked(j)' => StillBlocked(j)
    PROVE  BlockedRun'
BY DEF BlockedRun, StillBlocked

LEMMA OccurrencesDirect ==
    ASSUME bgNamed = {}, NEW i
    PROVE  Occurrences(i) = IF i \in bgDirect THEN 1 ELSE 0
<1>1. VarsOf(i) = {}
  BY DEF VarsOf
<1>. QED  BY <1>1, FS_EmptySet DEF Occurrences

LEMMA ExpClosedDirect ==
    ASSUME IdInv, Direct, NEW i \in Ids, NEW r \in Good, r.registered,
           IsServed(r, i, bgDirect, before), ExpClosed(i, r)
    PROVE  /\ AllServe' /\ bgNamed' = {}
           /\ \A j \in Ids : StillBlocked(j)' => j # i /\ StillBlocked(j)
<1>1. CASE ~r.open
  <2>1. es' = [es EXCEPT ![i] = r] /\ UNCHANGED lists
    BY <1>1 DEF ExpClosed
  <2>2. AllServe' /\ es'[i] = r /\ \A j \in Ids \ {i} : es'[j] = es[j]
    BY <2>1, OneServes DEF Direct, lists
  <2>. QED  BY <1>1, <2>1, <2>2 DEF StillBlocked, Usable, Direct, lists
<1>2. CASE r.open
  <2> DEFINE s == Shut(r, Occurrences(i))
             t == IF s.user_waited /\ s.registered THEN ChanClosed(s, NextPtr(i)) ELSE s
  <2>1. /\ es' = [es EXCEPT ![i] = t] /\ bgNamed' = bgNamed
        /\ bgDirect' = bgDirect \ {i} /\ before' = before \ {i}
    BY <1>2 DEF ExpClosed
  <2>2. IsServed(t, i, bgDirect', before') /\ ~t.open
    <3>1. Occurrences(i) = IF i \in bgDirect THEN 1 ELSE 0
      BY OccurrencesDirect DEF Direct
    <3>2. NextPtr(i) \in Ids \cup {Nobody}
      BY NextPtrType DEF IdInv
    <3>3. i \notin bgDirect' /\ i \notin before'
      BY <2>1
    <3>. QED  BY <1>2, <3>1, <3>2, <3>3, ShutServes
  <2>. HIDE DEF t
  <2>4. AllServe' /\ es'[i] = t /\ \A j \in Ids \ {i} : es'[j] = es[j]
    BY <2>1, <2>2, OneServes DEF Direct
  <2>. QED  BY <2>1, <2>2, <2>4 DEF StillBlocked, Usable, Direct
<1>. QED  BY <1>1, <1>2
-----------------------------------------------------------------------------
(* The commands.                                                           *)

LEMMA InitDirect == IdInit => Direct
<1>. SUFFICES ASSUME IdInit PROVE Direct
  OBVIOUS
<1>1. /\ ~Unused.registered /\ ~Unused.handler /\ Unused.mem = "unused" /\ Len(stack) = 0
      /\ stack = <<>>
  BY DEF IdInit, Unused
<1>2. \A i : IsServed(Unused, i, {}, {})
  BY <1>1 DEF IsServed
<1>3. AllServe
  BY <1>2 DEF IdInit, AllServe
<1>4. BlockedRun
  BY <1>1 DEF BlockedRun, IdInit, Usable
<1>. QED  BY <1>1, <1>3, <1>4 DEF IdInit, Direct, CasesOnTop, EofIsOpen

LEMMA SpawnDirect == ASSUME IdInv, IdInv', Direct, NEW i \in Ids, Spawn(i) PROVE Direct'
<1> DEFINE r == [Unused EXCEPT !.mem = "live", !.open = TRUE, !.registered = TRUE]
<1>1. /\ r.mem = "live" /\ r.open /\ r.registered /\ r.bg_ecount = 0 /\ r.bg_interp = FALSE
      /\ r.bg_status = "unarmed"
  BY DEF Unused
<1>2. /\ es' = [es EXCEPT ![i] = r] /\ es[i].mem = "unused" /\ ScriptRuns
      /\ UNCHANGED <<bgDirect, bgNamed, before, stack>>
  BY DEF Spawn, lists
<1>. HIDE DEF r
<1>3. i \notin bgDirect /\ i \notin before
  BY <1>2 DEF Direct, AllServe, IsServed
<1>4. IsServed(r, i, bgDirect', before')
  BY <1>1, <1>2, <1>3 DEF IsServed
<1>5. AllServe' /\ es'[i] = r /\ \A j \in Ids \ {i} : es'[j] = es[j]
  BY <1>2, <1>4, OneServes DEF Direct
<1>6. BlockedRun'
  BY <1>1, <1>2, <1>5, StillRun DEF StillBlocked, Usable, Direct, Blocked
<1>. QED  BY <1>2, <1>5, <1>6, ScriptRests, Rested DEF Direct

LEMMA CloseDirect == ASSUME IdInv, IdInv', Direct, NEW i \in Ids, CloseId(i) PROVE Direct'
<1>1. /\ ExpClosed(i, es[i]) /\ stack' = AfterClose(i, stack) /\ es[i].registered /\ ScriptRuns
      /\ es[i] \in Good /\ IsServed(es[i], i, bgDirect, before)
  BY DEF CloseId, Usable, May, IdInv, Direct, AllServe
<1>2. /\ AllServe' /\ bgNamed' = {} /\ \A j \in Ids : StillBlocked(j)' => StillBlocked(j)
  BY <1>1, ExpClosedDirect
<1>3. NoCases(stack') /\ \A j : RunningIn(stack, j) => RunningIn(stack', j)
  BY <1>1, ScriptRests, AfterCloseAlike, AfterCloseType, AlikeFacts DEF IdInv, Direct
<1>4. BlockedRun'
  BY <1>2, <1>3, StillRun DEF Direct
<1>. QED  BY <1>2, <1>3, <1>4, Rested

LEMMA TclCloseDirect == ASSUME IdInv, IdInv', Direct, NEW i \in Ids, TclClose(i) PROVE Direct'
<1> DEFINE c == ChanClosed(es[i], NextPtr(i))
<1>1. /\ es' = [es EXCEPT ![i] = c] /\ es[i].registered /\ ScriptRuns
      /\ UNCHANGED <<bgDirect, bgNamed, before, stack>>
      /\ es[i] \in Good /\ IsServed(es[i], i, bgDirect, before)
      /\ NextPtr(i) \in Ids \cup {Nobody}
  BY NextPtrType DEF TclClose, May, lists, IdInv, Direct, AllServe
<1>2. IsServed(c, i, bgDirect', before') /\ ~c.registered
  BY <1>1, ChanClosedServes
<1>. HIDE DEF c
<1>3. AllServe' /\ es'[i] = c /\ \A j \in Ids \ {i} : es'[j] = es[j]
  BY <1>1, <1>2, OneServes DEF Direct
<1>4. BlockedRun'
  BY <1>1, <1>2, <1>3, StillRun DEF StillBlocked, Usable, Direct
<1>. QED  BY <1>1, <1>3, <1>4, ScriptRests, Rested DEF Direct

LEMMA WaitDirect == ASSUME IdInv, IdInv', Direct, NEW i \in Ids, Wait(i) PROVE Direct'
<1> DEFINE w == [es[i] EXCEPT !.user_waited = TRUE]
           r == IF es[i].open THEN w ELSE Gone
<1>1. /\ es[i].registered /\ ScriptRuns /\ UNCHANGED <<bgDirect, bgNamed, before, stack>>
      /\ es[i] \in Good /\ IsServed(es[i], i, bgDirect, before)
  BY DEF Wait, May, lists, IdInv, Direct, AllServe
<1>2. /\ es[i].open => IsServed(w, i, bgDirect, before)
      /\ ~es[i].open => ChanClosed(w, NextPtr(i)) = Gone
      /\ w.bg_status = es[i].bg_status /\ w.registered = es[i].registered /\ w.open = es[i].open
  BY <1>1, WaitServes
<1>3. es' = [es EXCEPT ![i] = r]
  BY <1>2 DEF Wait
<1>. HIDE DEF w
<1>4. IsServed(r, i, bgDirect', before') /\ (r.registered => r = w)
  BY <1>1, <1>2, GoneServes
<1>. HIDE DEF r
<1>5. AllServe' /\ es'[i] = r /\ \A j \in Ids \ {i} : es'[j] = es[j]
  BY <1>1, <1>3, <1>4, OneServes DEF Direct
<1>6. BlockedRun'
  BY <1>1, <1>2, <1>4, <1>5, StillRun DEF StillBlocked, Usable, Direct
<1>. QED  BY <1>1, <1>5, <1>6, ScriptRests, Rested DEF Direct

LEMMA PushRunAllRests ==
    ASSUME IdInv, NoCases(stack)
    PROVE  NoCases(PushRunAll(stack)) /\ \A i : RunningIn(stack, i) => RunningIn(PushRunAll(stack), i)
<1>1. chain # <<>> => Head(chain) \in Ids
  BY DEF IdInv
<1>2. chain # <<>> => RunAll(Head(chain)) \in Activation /\ ~AtCasesOf(RunAll(Head(chain)))
  BY <1>1 DEF RunAll, RunAllActs, Activation, AtCasesOf
<1>. QED  BY <1>2, PushedFacts DEF PushRunAll, IdInv

LEMMA BackgroundDirectDirect ==
    ASSUME IdInv, IdInv', Direct, NEW S \in SUBSET Ids, NEW cases \in BOOLEAN,
           BackgroundDirect(S, cases)
    PROVE  Direct'
<1> DEFINE left(i) == IF i \in bgDirect THEN Dropped(es[i]) ELSE es[i]
<1>1. /\ es' = [i \in Ids |-> IF i \notin S THEN es[i]
                             ELSE IF cases THEN StateListArm(left(i)) ELSE left(i)]
      /\ bgDirect' = IF cases THEN bgDirect \cup S ELSE bgDirect \ S
      /\ stack' = PushRunAll(stack) /\ UNCHANGED <<bgNamed, before>> /\ ScriptRuns
      /\ \A i \in S : es[i].registered /\ es[i].open
  BY DEF BackgroundDirect, May, Usable
<1>2. ASSUME NEW i \in S
      PROVE  /\ left(i) \in Good /\ left(i).registered /\ left(i).open
             /\ IsServed(left(i), i, bgDirect \ {i}, before)
             /\ left(i).bg_status \in Blocked => es[i].bg_status \in Blocked
  <2>1. es[i] \in Good /\ IsServed(es[i], i, bgDirect, before)
        /\ es[i].registered /\ es[i].open /\ i \in Ids
    BY <1>1 DEF IdInv, Direct, AllServe
  <2>2. CASE i \in bgDirect
    <3>1. left(i) = Dropped(es[i])
      BY <2>2
    <3>2. i \notin bgDirect \ {i}
      OBVIOUS
    <3>. HIDE DEF left
    <3>. QED  BY <2>1, <2>2, <3>1, <3>2, DroppedServes, DroppedGood
  <2>3. CASE i \notin bgDirect
    BY <2>1, <2>3 DEF IsServed
  <2>. QED  BY <2>2, <2>3
<1>. HIDE DEF left
<1>3. ASSUME NEW i \in S
      PROVE  /\ IsServed(StateListArm(left(i)), i, bgDirect \cup S, before)
             /\ StateListArm(left(i)).bg_status \in Blocked => left(i).bg_status \in Blocked
  <2>1. i \notin bgDirect \ {i} /\ i \in bgDirect \cup S
    OBVIOUS
  <2>. QED  BY <1>2, <2>1, ArmServes
<1>4. AllServe' /\ \A i \in Ids : StillBlocked(i)' => StillBlocked(i)
  <2>. SUFFICES ASSUME NEW i \in Ids
                PROVE  /\ IsServed(es'[i], i, bgDirect', before')
                       /\ StillBlocked(i)' => StillBlocked(i)
    BY DEF AllServe
  <2>1. CASE i \notin S
    <3>1. es'[i] = es[i] /\ (i \in bgDirect' <=> i \in bgDirect) /\ before' = before
      BY <1>1, <2>1
    <3>2. IsServed(es[i], i, bgDirect, before)
      BY DEF Direct, AllServe
    <3>3. IsServed(es'[i], i, bgDirect', before')
      BY <3>1, <3>2 DEF IsServed
    <3>. QED  BY <3>1, <3>3 DEF StillBlocked, Usable
  <2>2. CASE i \in S /\ cases
    <3>1. es'[i] = StateListArm(left(i)) /\ bgDirect' = bgDirect \cup S /\ before' = before
      BY <1>1, <2>2
    <3>. QED  BY <1>1, <1>2, <1>3, <2>2, <3>1 DEF StillBlocked, Usable
  <2>3. CASE i \in S /\ ~cases
    <3>1. es'[i] = left(i) /\ i \notin bgDirect' /\ before' = before
      BY <1>1, <2>3
    <3>2. IsServed(es'[i], i, bgDirect', before')
      BY <1>2, <2>3, <3>1 DEF IsServed
    <3>. QED  BY <1>1, <1>2, <2>3, <3>1, <3>2 DEF StillBlocked, Usable
  <2>. QED  BY <2>1, <2>2, <2>3
<1>5. NoCases(stack') /\ \A i : RunningIn(stack, i) => RunningIn(stack', i)
  BY <1>1, ScriptRests, PushRunAllRests DEF Direct
<1>6. BlockedRun'
  BY <1>4, <1>5, StillRun DEF Direct
<1>. QED  BY <1>1, <1>4, <1>5, <1>6, Rested DEF Direct

LEMMA ExpectBeforeDirect ==
    ASSUME IdInv, IdInv', Direct, NEW S \in SUBSET Ids, NEW cases \in BOOLEAN, ExpectBefore(S, cases)
    PROVE  Direct'
<1>1. /\ \A i \in S : es[i].registered /\ es[i].open
      /\ before' = IF cases THEN before \cup S ELSE before \ S
      /\ UNCHANGED <<es, bgDirect, bgNamed, stack>> /\ ScriptRuns
  BY DEF ExpectBefore, May, Usable
<1>2. \A i \in Ids : IsServed(es[i], i, bgDirect, before')
  <2>. TAKE i \in Ids
  <2>1. IsServed(es[i], i, bgDirect, before) /\ InStep(es[i])
    BY DEF Direct, AllServe, IdInv, Good
  <2>2. CASE i \in S
    BY <1>1, <2>1, <2>2 DEF IsServed, InStep
  <2>3. CASE i \notin S
    <3>1. i \in before' <=> i \in before
      BY <1>1, <2>3
    <3>. QED  BY <2>1, <3>1 DEF IsServed
  <2>. QED  BY <2>2, <2>3
<1>3. AllServe'
  BY <1>1, <1>2 DEF AllServe
<1>4. BlockedRun'
  BY <1>1, StillRun DEF StillBlocked, Usable, Direct
<1>. QED  BY <1>1, <1>3, <1>4, ScriptRests, Rested DEF Direct

\* Steps that leave the spawn ids and the lists alone.
LEMMA SameServes ==
    ASSUME Direct, UNCHANGED <<es, bgDirect, bgNamed, before>>,
           \A j \in Ids : RunningIn(stack, j) => RunningIn(stack', j) \/ ~es[j].registered
    PROVE  AllServe' /\ bgNamed' = {} /\ BlockedRun'
BY DEF Direct, AllServe, BlockedRun, Usable

LEMMA ExpectDirect ==
    ASSUME IdInv, IdInv', Direct, NEW S \in SUBSET Ids, Expect(S) PROVE Direct'
<1> DEFINE f == Expecting(S, {}, "update", FALSE)
<1>1. /\ stack' = <<f>> \o stack
      /\ UNCHANGED <<es, bgDirect, bgNamed, before>> /\ ScriptRuns
  BY DEF Expect, May, lists
<1>2. f \in Activation /\ ~AtCasesOf(f)
  BY ExpectingType DEF Expecting, AtCasesOf
<1>. HIDE DEF f
<1>3. NoCases(stack') /\ \A j : RunningIn(stack, j) => RunningIn(stack', j)
  BY <1>1, <1>2, ScriptRests, PushedFacts DEF Direct, IdInv
<1>. QED  BY <1>1, <1>3, SameServes, Rested
-----------------------------------------------------------------------------
(* The background handler.                                                 *)

\* A handler begins, called by Tcl, or for what is in the buffer.
LEMMA EnterDirect ==
    ASSUME IdInv, IdInv', Direct, NEW i \in Ids, NEW s \in Seq(Activation), NEW masks,
           Enter(i, s, masks), NoCases(s), \A j : RunningIn(stack, j) => RunningIn(s, j),
           \/ masks = {1} /\ es[i].handler
           \/ masks = {0} /\ es[i].bg_interp
    PROVE  Direct'
<1>1. es[i] \in Good /\ IsServed(es[i], i, bgDirect, before)
  BY DEF IdInv, Direct, AllServe
<1> DEFINE h == BlockHandler(es[i])
<1>2. /\ h \in Good /\ IsServed(h, i, bgDirect, before)
      /\ h.registered = es[i].registered /\ h.open = es[i].open
      /\ \A d \in BOOLEAN : IsServed([h EXCEPT !.buffered = d], i, bgDirect, before)
  BY <1>1, BlockServes, BlockGood
<1>3. masks = {1} => es[i].registered
  BY <1>1 DEF IsServed
<1>. HIDE DEF h
<1>4. \A pc \in {"cases", "finish"}, cc \in {"data", "eof", "error"} :
         /\ Handler(i, pc, cc) \in Activation
         /\ Handler(i, pc, cc).kind = "handler" /\ Handler(i, pc, cc).id = i
         /\ Handler(i, pc, cc).pc = pc /\ Handler(i, pc, cc).cc = cc
  BY DEF Handler, HandlerActs, Activation
<1>5. ASSUME masks = {1}, ExpClosed(i, h),
             stack' = <<Handler(i, "finish", "error")>> \o AfterClose(i, s)
      PROVE  Direct'
  <2>1. /\ AllServe' /\ bgNamed' = {} /\ \A j \in Ids : StillBlocked(j)' => StillBlocked(j)
    BY <1>2, <1>3, <1>5, ExpClosedDirect
  <2>2. /\ AfterClose(i, s) \in Seq(Activation) /\ NoCases(AfterClose(i, s))
        /\ \A j : RunningIn(stack, j) => RunningIn(AfterClose(i, s), j)
    BY AfterCloseType, AfterCloseAlike, AlikeFacts
  <2>3. ~AtCasesOf(Handler(i, "finish", "error"))
    BY <1>4 DEF AtCasesOf
  <2>4. NoCases(stack') /\ \A j : RunningIn(stack, j) => RunningIn(stack', j)
    BY <1>4, <1>5, <2>2, <2>3, PushedFacts
  <2>5. BlockedRun'
    BY <2>1, <2>4, StillRun DEF Direct
  <2>. QED  BY <2>1, <2>4, <2>5, Rested
<1>6. ASSUME NEW cc, UNCHANGED lists, cc = "eof" => masks = {1},
             es' = [es EXCEPT ![i] = [h EXCEPT !.buffered = @ \/ cc = "data"]],
             stack' = <<Handler(i, "cases", IF cc = "eof" THEN "eof" ELSE "data")>> \o s
      PROVE  Direct'
  <2> DEFINE r == [h EXCEPT !.buffered = @ \/ cc = "data"]
             f == Handler(i, "cases", IF cc = "eof" THEN "eof" ELSE "data")
  <2>1. IsServed(r, i, bgDirect, before) /\ r.registered = es[i].registered
    <3>1. (h.buffered \/ cc = "data") \in BOOLEAN
      BY <1>2 DEF Good, ExpState
    <3>. QED  BY <1>2, <3>1 DEF Good, ExpState
  <2>2. f \in Activation /\ f.kind = "handler" /\ f.id = i /\ (f.cc = "eof" => cc = "eof")
    BY <1>4
  <2>. HIDE DEF r, f
  <2>3. es' = [es EXCEPT ![i] = r] /\ stack' = <<f>> \o s
        /\ UNCHANGED <<bgDirect, bgNamed, before>>
    BY <1>6 DEF r, f, lists
  <2>4. AllServe' /\ es'[i] = r /\ \A j \in Ids \ {i} : es'[j] = es[j]
    BY <2>1, <2>3, OneServes DEF Direct
  <2>5. /\ \A j : RunningIn(stack, j) => RunningIn(stack', j)
        /\ RunningIn(stack', i) /\ CasesOnTop(stack') /\ stack'[1] = f
    BY <2>2, <2>3, PushedFacts
  <2>6. BlockedRun'
    BY <2>4, <2>5 DEF BlockedRun, Direct, Usable
  <2>7. EofIsOpen'
    BY <1>3, <1>6, <2>1, <2>2, <2>4, <2>5 DEF EofIsOpen
  <2>. QED  BY <2>3, <2>4, <2>5, <2>6, <2>7 DEF Direct
<1>7. PICK mask \in masks, cc \in {"data", "nodata", "eof", "error"} :
        /\ mask = 0 => cc = "nodata"
        /\ IF cc = "error"
           THEN /\ ExpClosed(i, h)
                /\ stack' = <<Handler(i, "finish", cc)>> \o AfterClose(i, s)
           ELSE /\ es' = [es EXCEPT ![i] = [h EXCEPT !.buffered = @ \/ cc = "data"]]
                /\ stack' = <<Handler(i, "cases", IF cc = "eof" THEN "eof" ELSE "data")>> \o s
                /\ UNCHANGED <<chain, lists>>
  BY DEF Enter, h
<1>8. cc # "nodata" => masks = {1}
  BY <1>7
<1>9. CASE cc = "error"
  BY <1>5, <1>7, <1>8, <1>9
<1>10. CASE cc # "error"
  BY <1>6, <1>7, <1>8, <1>10
<1>. QED  BY <1>9, <1>10

LEMMA EventDirect == ASSUME IdInv, IdInv', Direct, NEW i \in Ids, Event(i) PROVE Direct'
<1>1. CASE May("update") /\ Enter(i, stack, {1})
  <2>1. NoCases(stack) /\ es[i].handler /\ stack \in Seq(Activation)
    BY <1>1, ScriptRests DEF May, Direct, Event, IdInv
  <2>. QED  BY <1>1, <2>1, EnterDirect
<1>2. CASE Top("expect") /\ Enter(i, <<[Head(stack) EXCEPT !.pc = "turn"]>> \o Tail(stack), {1})
  <2> DEFINE f == [Head(stack) EXCEPT !.pc = "turn"]
  <2>1. Head(stack) \in ExpectActs /\ stack # <<>>
    BY <1>2, ExpectOnTop DEF Top
  <2>2. f \in Activation /\ f.kind = "expect" /\ Head(stack).kind = "expect"
    BY <2>1, ExpectMoves DEF ExpectActs
  <2>. HIDE DEF f
  <2>3. ~AtCasesOf(f) /\ CasesOnTop(stack) /\ stack \in Seq(Activation)
    BY <2>2 DEF AtCasesOf, Direct, IdInv
  <2>4. /\ <<f>> \o Tail(stack) \in Seq(Activation) /\ NoCases(<<f>> \o Tail(stack))
        /\ \A j : RunningIn(stack, j) => RunningIn(<<f>> \o Tail(stack), j)
    BY <2>1, <2>2, <2>3, TopGoesOn
  <2>5. es[i].handler /\ Enter(i, <<f>> \o Tail(stack), {1})
    BY <1>2 DEF Event, f
  <2>. QED  BY <2>4, <2>5, EnterDirect
<1>. QED  BY <1>1, <1>2 DEF Event

LEMMA RunAllDirect ==
    ASSUME IdInv, IdInv', Direct, RunAllCall \/ RunAllSkip \/ RunAllNext
    PROVE  Direct'
<1> DEFINE i == Head(stack).id
<1>1. /\ \A j \in Ids \cup {Nobody} : RunAll(j) \in Activation /\ ~AtCasesOf(RunAll(j))
      /\ \A j \in Ids : /\ [kind |-> "runall_next", id |-> j] \in Activation
                        /\ ~AtCasesOf([kind |-> "runall_next", id |-> j])
  BY DEF RunAll, RunAllActs, Activation, AtCasesOf
<1>2. /\ stack # <<>> /\ stack \in Seq(Activation) /\ CasesOnTop(stack)
      /\ i \in Ids \cup {Nobody} /\ Head(stack).kind # "handler"
      /\ i \in Ids => NextPtr(i) \in Ids \cup {Nobody}
      /\ Top("runall_next") => i \in Ids
  <2>1. Top("runall") \/ Top("runall_next")
    BY DEF RunAllCall, RunAllSkip, RunAllNext
  <2>2. stack # <<>> /\ Head(stack) \in RunAllActs /\ Head(stack).kind # "handler"
        /\ (Top("runall_next") => Head(stack).kind = "runall_next")
    BY <2>1, Popped, RunAllAct DEF IdInv, Top
  <2>3. i \in Ids \cup {Nobody} /\ (Head(stack).kind = "runall_next" => i \in Ids)
    BY <2>2 DEF RunAllActs
  <2>. QED  BY <2>2, <2>3, NextPtrType DEF IdInv, Direct
<1>3. ~AtCasesOf(Head(stack))
  BY <1>2 DEF AtCasesOf
<1>4. /\ NoCases(stack) /\ NoCases(Tail(stack))
      /\ \A j : RunningIn(stack, j) => RunningIn(Tail(stack), j)
  BY <1>2, <1>3, TopEnds, PoppedFacts
<1>5. \A f \in Activation : ~AtCasesOf(f) =>
         /\ <<f>> \o Tail(stack) \in Seq(Activation) /\ NoCases(<<f>> \o Tail(stack))
         /\ \A j : RunningIn(stack, j) => RunningIn(<<f>> \o Tail(stack), j)
  BY <1>2, TopGoesOn
<1>6. CASE RunAllCall
  <2>1. /\ i \in Ids /\ es[i].bg_interp
        /\ Enter(i, <<[kind |-> "runall_next", id |-> i]>> \o Tail(stack), {0})
    BY <1>2, <1>6 DEF RunAllCall
  <2>. HIDE DEF i
  <2>. QED  BY <1>1, <1>5, <2>1, EnterDirect
<1>7. CASE RunAllSkip \/ RunAllNext
  <2>1. /\ UNCHANGED <<es, bgDirect, bgNamed, before>>
        /\ \/ stack' = Tail(stack) \/ stack' = stack
           \/ i \in Ids /\ stack' = <<RunAll(NextPtr(i))>> \o Tail(stack)
    BY <1>2, <1>7 DEF RunAllSkip, RunAllNext, Pop, lists
  <2>2. NoCases(stack') /\ \A j : RunningIn(stack, j) => RunningIn(stack', j)
    <3>. HIDE DEF i
    <3>. QED  BY <1>1, <1>2, <1>4, <1>5, <2>1
  <2>. QED  BY <2>1, <2>2, SameServes, Rested
<1>. QED  BY <1>6, <1>7

\* The handler on top: whatever it does, the activations below it rest.
LEMMA HandlerOnTop ==
    ASSUME IdInv, Direct, Top("handler")
    PROVE  /\ stack \in Seq(Activation) /\ stack # <<>> /\ CasesOnTop(stack)
           /\ Head(stack) \in HandlerActs /\ Head(stack).id \in Ids
           /\ es[Head(stack).id] \in Good
           /\ IsServed(es[Head(stack).id], Head(stack).id, bgDirect, before)
           /\ NoCases(Tail(stack)) /\ stack[1] = Head(stack) /\ Len(stack) > 0
           /\ Head(stack).pc # "cases" => NoCases(stack)
<1>1. /\ stack \in Seq(Activation) /\ stack # <<>> /\ CasesOnTop(stack)
      /\ Head(stack) \in HandlerActs /\ Head(stack).id \in Ids
      /\ es[Head(stack).id] \in Good
  BY OnTop DEF IdInv, Direct, Top
<1>2. IsServed(es[Head(stack).id], Head(stack).id, bgDirect, before)
  BY <1>1 DEF Direct, AllServe
<1>. QED  BY <1>1, <1>2, PoppedFacts DEF AtCasesOf

LEMMA MatchDirect == ASSUME IdInv, IdInv', Direct, NoMatch \/ Match PROVE Direct'
<1> DEFINE i == Head(stack).id
<1>1. /\ Top("handler") /\ UNCHANGED <<bgDirect, bgNamed, before>>
      /\ \E pc \in {"finish", "body"} : Goto(pc)
      /\ \/ es' = es
         \/ /\ es[i].buffered
            /\ \E left \in BOOLEAN : es' = [es EXCEPT ![i] = [es[i] EXCEPT !.buffered = left]]
  BY DEF NoMatch, Match, AtCases, lists
<1>2. PICK pc \in {"finish", "body"} : stack' = <<[Head(stack) EXCEPT !.pc = pc]>> \o Tail(stack)
  BY <1>1 DEF Goto
<1> DEFINE f == [Head(stack) EXCEPT !.pc = pc]
<1>3. /\ f \in Activation /\ f.kind = "handler" /\ f.id = i /\ f.pc = pc
  BY <1>1, HandlerOnTop, HandlerMoves DEF HandlerActs
<1>. HIDE DEF f
<1>4. ~AtCasesOf(f) /\ stack' = <<f>> \o Tail(stack)
  BY <1>2, <1>3 DEF AtCasesOf, f
<1>5. NoCases(stack') /\ \A j : RunningIn(stack, j) => RunningIn(stack', j)
  BY <1>1, <1>3, <1>4, HandlerOnTop, TopGoesOn
<1>6. CASE es' = es
  BY <1>1, <1>5, <1>6, SameServes, Rested
<1>7. ASSUME NEW left \in BOOLEAN, es[i].buffered, es' = [es EXCEPT ![i] = [es[i] EXCEPT !.buffered = left]]
      PROVE  Direct'
  <2> DEFINE r == [es[i] EXCEPT !.buffered = left]
  <2>1. i \in Ids /\ es[i] \in Good /\ IsServed(es[i], i, bgDirect, before)
    BY <1>1, HandlerOnTop
  <2>2. IsServed(r, i, bgDirect, before) /\ r.registered = es[i].registered /\ r.open = es[i].open
        /\ r.bg_status = es[i].bg_status
    BY <1>7, <2>1, BufferServes DEF Good, ExpState
  <2>. HIDE DEF i, r
  <2>3. AllServe' /\ es'[i] = r /\ \A j \in Ids \ {i} : es'[j] = es[j]
    BY <1>1, <1>7, <2>1, <2>2, OneServes DEF Direct, r
  <2>4. BlockedRun'
    BY <1>5, <2>2, <2>3, StillRun DEF StillBlocked, Usable, Direct
  <2>. QED  BY <1>1, <1>5, <2>3, <2>4, Rested DEF Direct
<1>. QED  BY <1>1, <1>6, <1>7

LEMMA MatchEofDirect == ASSUME IdInv, IdInv', Direct, MatchEof PROVE Direct'
<1> DEFINE i == Head(stack).id
           s == AfterClose(i, stack)
<1>1. /\ Top("handler") /\ Head(stack).pc = "cases" /\ Head(stack).cc = "eof"
      /\ ExpClosed(i, es[i])
      /\ \E pc \in {"body", "after"} : stack' = <<[Head(s) EXCEPT !.pc = pc]>> \o Tail(s)
  BY DEF MatchEof, AtCases
<1>2. es[i].registered
  BY <1>1, HandlerOnTop DEF Direct, EofIsOpen, AtCasesOf, Top
<1>3. /\ AllServe' /\ bgNamed' = {} /\ \A j \in Ids : StillBlocked(j)' => StillBlocked(j)
  BY <1>1, <1>2, HandlerOnTop, ExpClosedDirect
<1>4. /\ s \in Seq(Activation) /\ s # <<>> /\ CasesOnTop(s) /\ Head(s) = Head(stack)
      /\ \A j : RunningIn(stack, j) => RunningIn(s, j)
  BY <1>1, HandlerOnTop, AfterCloseType, AfterCloseAlike, AlikeFacts DEF Top
<1>. HIDE DEF s
<1>5. PICK pc \in {"body", "after"} : stack' = <<[Head(s) EXCEPT !.pc = pc]>> \o Tail(s)
  BY <1>1
<1> DEFINE f == [Head(s) EXCEPT !.pc = pc]
<1>6. f \in Activation /\ f.kind = "handler" /\ f.id = Head(s).id /\ f.pc = pc
  BY <1>1, <1>4, HandlerOnTop, HandlerMoves DEF HandlerActs
<1>. HIDE DEF f
<1>7. ~AtCasesOf(f) /\ stack' = <<f>> \o Tail(s)
  BY <1>5, <1>6 DEF AtCasesOf, f
<1>8. NoCases(stack') /\ \A j : RunningIn(stack, j) => RunningIn(stack', j)
  BY <1>4, <1>6, <1>7, TopGoesOn
<1>9. BlockedRun'
  BY <1>3, <1>8, StillRun DEF Direct
<1>. QED  BY <1>3, <1>8, <1>9, Rested

\* The end of a handler unblocks its spawn id, or finds it gone.
LEMMA AfterDirect == ASSUME IdInv, IdInv', Direct, After \/ Finish PROVE Direct'
<1> DEFINE i == Head(stack).id
<1>1. /\ Top("handler") /\ UNCHANGED <<bgDirect, bgNamed, before>> /\ Head(stack).pc # "cases"
  BY DEF After, Finish, lists
<1>2. /\ i \in Ids /\ es[i] \in Good /\ IsServed(es[i], i, bgDirect, before)
      /\ NoCases(Tail(stack)) /\ NoCases(stack) /\ Tail(stack) \in Seq(Activation)
      /\ \A j : RunningIn(stack, j) => j = i \/ RunningIn(Tail(stack), j)
  BY <1>1, HandlerOnTop, PoppedFacts, OnTop
<1>3. CASE UNCHANGED <<es, stack>>
  BY <1>1, <1>2, <1>3, SameServes, Rested
<1>4. CASE stack' = Tail(stack) /\ es' = es /\ ~es[i].registered
  <2>. HIDE DEF i
  <2>1. NoCases(stack') /\ \A j \in Ids : RunningIn(stack, j) => RunningIn(stack', j) \/ ~es[j].registered
    BY <1>2, <1>4
  <2>. QED  BY <1>1, <1>4, <2>1, SameServes, Rested
<1>5. CASE es' = es /\ stack' = <<Handler(i, "cases", "data")>> \o Tail(stack)
  <2> DEFINE f == Handler(i, "cases", "data")
  <2>1. f \in Activation /\ f.kind = "handler" /\ f.id = i /\ f.cc = "data"
    BY <1>2 DEF Handler, HandlerActs, Activation
  <2>. HIDE DEF f, i
  <2>2. stack' = <<f>> \o Tail(stack)
    BY <1>5 DEF f
  <2>3. /\ RunningIn(stack', i) /\ CasesOnTop(stack') /\ stack'[1] = f
        /\ \A j : RunningIn(Tail(stack), j) => RunningIn(stack', j)
    BY <1>2, <2>1, <2>2, PushedFacts
  <2>4. \A j : RunningIn(stack, j) => RunningIn(stack', j)
    BY <1>2, <2>3
  <2>5. AllServe' /\ bgNamed' = {} /\ BlockedRun'
    BY <1>1, <1>5, <2>4, SameServes
  <2>6. EofIsOpen'
    BY <2>1, <2>3 DEF EofIsOpen
  <2>. QED  BY <2>3, <2>5, <2>6 DEF Direct
<1>6. CASE /\ stack' = Tail(stack) /\ es' = [es EXCEPT ![i] = Finished(es[i])]
           /\ es[i].mem # "freed"
  <2> DEFINE r == Finished(es[i])
  <2>1. IsServed(r, i, bgDirect, before) /\ (r.registered => r.bg_status \notin Blocked)
    BY <1>2, <1>6, FinishedServes
  <2>. HIDE DEF i, r
  <2>2. AllServe' /\ es'[i] = r /\ \A j \in Ids \ {i} : es'[j] = es[j]
    BY <1>1, <1>2, <1>6, <2>1, OneServes DEF Direct, r
  <2>3. BlockedRun'
    BY <1>2, <1>6, <2>1, <2>2, StillRun DEF StillBlocked, Usable, Direct
  <2>. QED  BY <1>1, <1>2, <1>6, <2>2, <2>3, Rested DEF Direct
<1>7. /\ es[i].registered => es[i].mem # "freed"
      /\ ~Freed(i) => es[i].mem # "freed"
  BY <1>2 DEF Good, InStep, Freed
<1>8. CASE After
  BY <1>3, <1>4, <1>5, <1>6, <1>7, <1>8 DEF After, Pop, Checked
<1>9. CASE Finish
  BY <1>3, <1>6, <1>7, <1>9 DEF Finish, Pop
<1>. QED  BY <1>8, <1>9
-----------------------------------------------------------------------------
(* The foreground expect.                                                  *)

\* The expect on top goes on somewhere, or ends; no handler is at its cases.
LEMMA ExpectRests ==
    ASSUME IdInv, Direct, Top("expect")
    PROVE  /\ stack \in Seq(Activation) /\ stack # <<>> /\ CasesOnTop(stack)
           /\ Head(stack) \in ExpectActs
           /\ NoCases(stack) /\ NoCases(Tail(stack))
           /\ \A j : RunningIn(stack, j) => RunningIn(Tail(stack), j)
           /\ \A f \in ExpectActs : /\ NoCases(<<f>> \o Tail(stack))
                                    /\ \A j : RunningIn(stack, j) => RunningIn(<<f>> \o Tail(stack), j)
<1>1. /\ stack \in Seq(Activation) /\ stack # <<>> /\ CasesOnTop(stack)
      /\ Head(stack) \in ExpectActs /\ Head(stack).kind = "expect"
  BY ExpectOnTop DEF IdInv, Direct, Top
<1>2. ~AtCasesOf(Head(stack))
  BY <1>1 DEF AtCasesOf
<1>3. \A f \in ExpectActs : f \in Activation /\ f.kind = "expect" /\ ~AtCasesOf(f)
  BY DEF ExpectActs, Activation, AtCasesOf
<1>4. /\ NoCases(stack) /\ NoCases(Tail(stack))
      /\ \A j : RunningIn(stack, j) => RunningIn(Tail(stack), j)
  BY <1>1, <1>2, PoppedFacts
<1>5. \A f \in ExpectActs : /\ NoCases(<<f>> \o Tail(stack))
                            /\ \A j : RunningIn(stack, j) => RunningIn(<<f>> \o Tail(stack), j)
  BY <1>1, <1>3, TopGoesOn
<1>. QED  BY <1>1, <1>4, <1>5

LEMMA ExpectMovesDirect ==
    ASSUME IdInv, IdInv', Direct, Update \/ PollFreed \/ Timeout \/ Turned \/ BodyDone
    PROVE  Direct'
<1> DEFINE e == Head(stack)
           all == e.states \cup before \cup e.eg
<1>1. Top("expect") /\ UNCHANGED <<es, bgDirect, bgNamed, before>>
  BY DEF Update, PollFreed, Timeout, Turned, BodyDone, lists
<1>2. /\ Head(stack) \in ExpectActs /\ NoCases(stack) /\ NoCases(Tail(stack))
      /\ \A j : RunningIn(stack, j) => RunningIn(Tail(stack), j)
      /\ \A f \in ExpectActs : /\ NoCases(<<f>> \o Tail(stack))
                               /\ \A j : RunningIn(stack, j) => RunningIn(<<f>> \o Tail(stack), j)
  BY <1>1, ExpectRests
<1>3. e.eg \in SUBSET Ids /\ all \in SUBSET Ids
  BY <1>2 DEF ExpectActs, IdInv
<1>4. /\ Expecting(e.eg, all, "poll", FALSE) \in ExpectActs
      /\ Expecting(e.eg, {}, "update", FALSE) \in ExpectActs
      /\ \A pc \in {"update", "poll", "turn", "body"} : [e EXCEPT !.pc = pc] \in ExpectActs
  BY <1>2, <1>3 DEF Expecting, ExpectActs
<1>5. \/ stack' = stack \/ stack' = Tail(stack)
      \/ stack' = <<Expecting(e.eg, all, "poll", FALSE)>> \o Tail(stack)
      \/ stack' = <<Expecting(e.eg, {}, "update", FALSE)>> \o Tail(stack)
      \/ \E pc \in {"update", "poll", "turn", "body"} :
            stack' = <<[e EXCEPT !.pc = pc]>> \o Tail(stack)
  BY DEF Update, PollFreed, Timeout, Turned, BodyDone, Goto, Pop
<1>. HIDE DEF e, all
<1>6. NoCases(stack') /\ \A j : RunningIn(stack, j) => RunningIn(stack', j)
  BY <1>2, <1>4, <1>5
<1>. QED  BY <1>1, <1>6, SameServes, Rested

LEMMA PollDataDirect == ASSUME IdInv, IdInv', Direct, PollData PROVE Direct'
<1>1. /\ Top("expect") /\ UNCHANGED <<bgDirect, bgNamed, before>>
      /\ UNCHANGED stack \/ Goto("body")
  BY DEF PollData, lists
<1>2. PICK i \in Head(stack).states, left \in BOOLEAN :
        es[i].registered /\ es' = [es EXCEPT ![i] = [es[i] EXCEPT !.buffered = left]]
  BY DEF PollData
<1>3. i \in Ids /\ [Head(stack) EXCEPT !.pc = "body"] \in ExpectActs
  BY <1>1, ExpectRests DEF ExpectActs
<1>4. NoCases(stack') /\ \A j : RunningIn(stack, j) => RunningIn(stack', j)
  BY <1>1, <1>3, ExpectRests DEF Goto
<1> DEFINE r == [es[i] EXCEPT !.buffered = left]
<1>5. es[i] \in Good /\ IsServed(es[i], i, bgDirect, before)
  BY <1>3 DEF IdInv, Direct, AllServe
<1>6. IsServed(r, i, bgDirect, before) /\ r.registered = es[i].registered /\ r.open = es[i].open
      /\ r.bg_status = es[i].bg_status
  BY <1>2, <1>5, BufferServes DEF Good, ExpState
<1>. HIDE DEF r
<1>7. AllServe' /\ es'[i] = r /\ \A j \in Ids \ {i} : es'[j] = es[j]
  BY <1>1, <1>2, <1>3, <1>6, OneServes DEF Direct, r
<1>8. BlockedRun'
  BY <1>4, <1>6, <1>7, StillRun DEF StillBlocked, Usable, Direct
<1>. QED  BY <1>1, <1>4, <1>7, <1>8, Rested DEF Direct

LEMMA PollEofDirect == ASSUME IdInv, IdInv', Direct, PollEof PROVE Direct'
<1>1. Top("expect")
  BY DEF PollEof
<1>2. PICK i \in Head(stack).states :
        /\ es[i].registered /\ ExpClosed(i, es[i])
        /\ LET s == AfterClose(i, stack)
           IN  stack' = <<[Head(s) EXCEPT !.pc = "body"]>> \o Tail(s) \/ stack' = Tail(s)
  BY DEF PollEof
<1> DEFINE s == AfterClose(i, stack)
<1>3. i \in Ids
  BY <1>1, ExpectRests DEF ExpectActs
<1>4. es[i] \in Good /\ IsServed(es[i], i, bgDirect, before)
  BY <1>3 DEF IdInv, Direct, AllServe
<1>5. AllServe' /\ bgNamed' = {} /\ \A j \in Ids : StillBlocked(j)' => StillBlocked(j)
  BY <1>2, <1>3, <1>4, ExpClosedDirect
<1>6. /\ s \in Seq(Activation) /\ s # <<>> /\ CasesOnTop(s) /\ Head(s).kind = "expect"
      /\ \A j : RunningIn(stack, j) => RunningIn(s, j)
  BY <1>1, ExpectRests, AfterCloseType, AfterCloseAlike, AlikeFacts DEF Top
<1>7. stack' = <<[Head(s) EXCEPT !.pc = "body"]>> \o Tail(s) \/ stack' = Tail(s)
  BY <1>2
<1>. HIDE DEF s
<1> DEFINE f == [Head(s) EXCEPT !.pc = "body"]
<1>8. Head(s) \in ExpectActs
  BY <1>6, ExpectAct
<1>9. f \in Activation /\ f.kind = "expect"
  BY <1>8, ExpectMoves DEF ExpectActs
<1>. HIDE DEF f
<1>10. ~AtCasesOf(f) /\ (stack' = <<f>> \o Tail(s) \/ stack' = Tail(s))
  BY <1>7, <1>9 DEF AtCasesOf, f
<1>11. /\ NoCases(<<f>> \o Tail(s)) /\ NoCases(Tail(s))
       /\ \A j : RunningIn(s, j) => RunningIn(<<f>> \o Tail(s), j) /\ RunningIn(Tail(s), j)
  BY <1>6, <1>9, <1>10, TopGoesOn, TopEnds
<1>12. NoCases(stack') /\ \A j : RunningIn(stack, j) => RunningIn(stack', j)
  BY <1>6, <1>10, <1>11
<1>13. BlockedRun'
  BY <1>5, <1>12, StillRun DEF Direct
<1>. QED  BY <1>5, <1>12, <1>13, Rested
-----------------------------------------------------------------------------
(* The theorems.                                                           *)

LEMMA NextGood == IdInv /\ [IdNext]_idVars => IdInv'
<1>. SUFFICES ASSUME IdInv, [IdNext]_idVars PROVE IdInv'
  OBVIOUS
<1>1. CASE UNCHANGED idVars
  BY <1>1 DEF idVars, IdInv
<1>2. CASE \E i \in Ids : Spawn(i) \/ CloseId(i) \/ TclClose(i) \/ Wait(i) \/ Event(i)
  BY <1>2, SpawnGood, CloseGood, TclCloseGood, WaitGood, EventGood
<1>3. CASE \E S \in SUBSET Ids, cases \in BOOLEAN : BackgroundDirect(S, cases)
  BY <1>3, BackgroundDirectGood
<1>4. CASE \E v \in Vars, cases \in BOOLEAN : BackgroundIndirect(v, cases)
  BY <1>4, BackgroundIndirectGood
<1>5. CASE \E S \in SUBSET Ids, cases \in BOOLEAN : ExpectBefore(S, cases)
  BY <1>5 DEF ExpectBefore, IdInv
<1>6. CASE \E v \in Vars, S \in SUBSET Ids : SetVar(v, S) \/ SetTraced(v, S)
  BY <1>6, SetTracedGood DEF SetVar, IdInv
<1>7. CASE \E S \in SUBSET Ids : Expect(S)
  BY <1>7, ExpectGood
<1>8. CASE RunAllCall \/ RunAllSkip \/ RunAllNext
  BY <1>8, RunAllGood
<1>9. CASE NoMatch \/ Match \/ MatchEof \/ After \/ Finish
  BY <1>9, MatchGood, MatchEofGood, AfterGood
<1>10. CASE Update \/ PollFreed \/ PollData \/ PollEof \/ Timeout \/ Turned \/ BodyDone
  BY <1>10, UpdateGood, PollGood, PollEofGood, ExpectMovesGood
<1>. QED  BY <1>1, <1>2, <1>3, <1>4, <1>5, <1>6, <1>7, <1>8, <1>9, <1>10 DEF IdNext

THEOREM Invariant == IdSpec => []IdInv
<1>. QED  BY InitGood, NextGood, PTL DEF IdSpec

\* bg_status and Tcl agree whatever bodies, events and closes are nested.
THEOREM StatusCorrect == IdSpec => []HandlerMatchesStatus
<1>1. IdInv => HandlerMatchesStatus
  BY DEF IdInv, HandlerMatchesStatus, Good, InStep
<1>. QED  BY <1>1, Invariant, PTL

\* After the body of a case the background handler does not use freed memory.
THEOREM HandlerCorrect == IdSpec => []HandlerIsSafe
<1>1. IdInv => HandlerIsSafe
  BY DEF IdInv, HandlerIsSafe
<1>. QED  BY <1>1, Invariant, PTL

\* The same for scripts without indirect lists.
LEMMA NextDirect ==
    ASSUME "indirect" \notin Commands
    PROVE  IdInv /\ IdInv' /\ Direct /\ [IdNext]_idVars => Direct'
<1>. SUFFICES ASSUME IdInv, IdInv', Direct, [IdNext]_idVars PROVE Direct'
  OBVIOUS
<1>1. CASE UNCHANGED idVars
  BY <1>1 DEF idVars, Direct, AllServe, BlockedRun, Usable, EofIsOpen
<1>2. CASE \E i \in Ids : Spawn(i) \/ CloseId(i) \/ TclClose(i) \/ Wait(i) \/ Event(i)
  BY <1>2, SpawnDirect, CloseDirect, TclCloseDirect, WaitDirect, EventDirect
<1>3. CASE \E S \in SUBSET Ids, cases \in BOOLEAN : BackgroundDirect(S, cases)
  BY <1>3, BackgroundDirectDirect
<1>4. ~\E v \in Vars, cases \in BOOLEAN : BackgroundIndirect(v, cases)
  BY DEF BackgroundIndirect, May
<1>5. CASE \E S \in SUBSET Ids, cases \in BOOLEAN : ExpectBefore(S, cases)
  BY <1>5, ExpectBeforeDirect
<1>6. ~\E v \in Vars, S \in SUBSET Ids : SetVar(v, S) \/ SetTraced(v, S)
  BY DEF SetVar, SetTraced, May
<1>7. CASE \E S \in SUBSET Ids : Expect(S)
  BY <1>7, ExpectDirect
<1>8. CASE RunAllCall \/ RunAllSkip \/ RunAllNext
  BY <1>8, RunAllDirect
<1>9. CASE NoMatch \/ Match \/ MatchEof \/ After \/ Finish
  BY <1>9, MatchDirect, MatchEofDirect, AfterDirect
<1>10. CASE Update \/ PollFreed \/ PollData \/ PollEof \/ Timeout \/ Turned \/ BodyDone
  BY <1>10, ExpectMovesDirect, PollDataDirect, PollEofDirect
<1>. QED  BY <1>1, <1>2, <1>3, <1>4, <1>5, <1>6, <1>7, <1>8, <1>9, <1>10 DEF IdNext

LEMMA InvariantDirect ==
    ASSUME "indirect" \notin Commands
    PROVE  IdSpec => [](IdInv /\ Direct)
<1>1. IdInv /\ IdInv' /\ Direct /\ [IdNext]_idVars => Direct'
  BY NextDirect
<1>. QED  BY <1>1, InitGood, NextGood, InitDirect, PTL DEF IdSpec

\* Without indirect lists, an open spawn id whose handler is not at work is armed
\* exactly if it has background cases (expect.c:1049-1103).
THEOREM ServedCorrect ==
    ASSUME "indirect" \notin Commands
    PROVE  IdSpec => []CasesAreServed
<1>1. IdInv /\ Direct => CasesAreServed
  <2>. SUFFICES ASSUME IdInv, Direct, NEW i \in Ids, Usable(i), ~Running(i)
                PROVE  es[i].bg_status = IF Occurrences(i) > 0 THEN "armed" ELSE "unarmed"
    BY DEF CasesAreServed
  <2>1. ~RunningIn(stack, i)
    BY DEF Running, RunningIn, IdInv
  <2>2. es[i].bg_status \notin Blocked
    BY <2>1 DEF Direct, BlockedRun
  <2>3. IsServed(es[i], i, bgDirect, before)
    BY DEF Direct, AllServe
  <2>4. Occurrences(i) = IF i \in bgDirect THEN 1 ELSE 0
    BY OccurrencesDirect DEF Direct
  <2>. QED  BY <2>2, <2>3, <2>4 DEF IsServed, Usable, Blocked
<1>. QED  BY <1>1, InvariantDirect, PTL

\* Without indirect lists, what is closed and was waited for is freed, and what is
\* closed and was not waited for is named nowhere and has no handler (exp_close,
\* Exp_WaitCmd).
THEOREM FreedCorrect ==
    ASSUME "indirect" \notin Commands
    PROVE  IdSpec => []ClosedAndWaitedIsFreed
<1>1. IdInv /\ Direct => ClosedAndWaitedIsFreed
  <2>. SUFFICES ASSUME IdInv, Direct, NEW i \in Ids, es[i].mem = "live", ~es[i].open
                PROVE  /\ ~es[i].user_waited /\ ~HasCases(i)
                       /\ ~es[i].bg_interp /\ es[i].bg_status = "unarmed"
    BY DEF ClosedAndWaitedIsFreed
  <2>1. IsServed(es[i], i, bgDirect, before)
    BY DEF Direct, AllServe
  <2>2. Occurrences(i) = IF i \in bgDirect THEN 1 ELSE 0
    BY OccurrencesDirect DEF Direct
  <2>. QED  BY <2>1, <2>2 DEF IsServed, HasCases
<1>. QED  BY <1>1, InvariantDirect, PTL

-----------------------------------------------------------------------------
(***************************************************************************)
(* Launch: what is given to the program.                                   *)
(***************************************************************************)
ParseStep(s, c, data) == ParseChar(s, c)
QuoteStep(t, c, data) == QuotedChar(t, c)
BlockStep(s, c, data) == StringChar(s, c)
Joined(t, list, k) == t \o list[k]
Parsing == INSTANCE FoldProofs WITH op <- ParseStep, step <- Joined
Quoting == INSTANCE FoldProofs WITH op <- QuoteStep, step <- Joined
Splitting == INSTANCE FoldProofs WITH op <- BlockStep, step <- Joined

Words == Seq(Letters)

\* What the run-time library's parser makes of a text, from where it is.
Reads(s, text) == FoldLeft(ParseChar, s, text)

LEMMA ReadIs == ASSUME NEW s, NEW text PROVE Reads(s, text) = Parsing!Fold(s, text, 0)
BY DEF Reads, Parsing!Fold, ParseStep, FoldLeft, MapThenFoldSet, Parsing!FoldLeft, Parsing!MapThenFoldSet,
       Max, Parsing!Max

LEMMA ReadOn ==
    ASSUME NEW s, NEW u \in Words, NEW v \in Words
    PROVE  Reads(s, u \o v) = Reads(Reads(s, u), v)
<1>1. Parsing!Fold(s, u \o v, 0) = Parsing!Fold(Parsing!Fold(s, u, 0), v, 0)
  BY Parsing!FoldConcat DEF Words
<1>. QED  BY <1>1, ReadIs

LEMMA ReadOne ==
    ASSUME NEW s, NEW c \in Letters
    PROVE  Reads(s, <<c>>) = ParseChar(s, c) /\ Reads(s, <<>>) = s
<1>1. <<>> \in Seq(Letters) /\ Append(<<>>, c) = <<c>>
  OBVIOUS
<1>2. /\ Parsing!Fold(s, Append(<<>>, c), 0) = ParseStep(Parsing!Fold(s, <<>>, 0), c, 0)
      /\ Parsing!Fold(s, <<>>, 0) = s
  BY ONLY <1>1, c \in Letters, Parsing!FoldAppend
<1>. QED  BY <1>1, <1>2, ReadIs DEF ParseStep

-----------------------------------------------------------------------------
Slashes(n) == [k \in 1..n |-> bs]
Parser == [done : Seq(Words), cur : Words, n : Nat, quoted : BOOLEAN, open : BOOLEAN]
Between(parsed) == [done |-> parsed, cur |-> <<>>, n |-> 0, quoted |-> FALSE, open |-> FALSE]

LEMMA SlashesAre ==
    ASSUME NEW n \in Nat, NEW t \in Words
    PROVE  /\ Slashes(n) \in Words /\ t \o Slashes(0) = t
           /\ t \o Slashes(n + 1) = Append(t \o Slashes(n), bs)
<1>0. bs \in Letters
  BY LaunchAssumption
<1>1. Slashes(n) \in Words /\ Slashes(n + 1) \in Words /\ Slashes(0) = <<>>
      /\ Len(Slashes(n)) = n /\ Len(Slashes(n + 1)) = n + 1
  BY <1>0 DEF Slashes, Words
<1>2. t \o Slashes(0) = t
  BY <1>1 DEF Words
<1>3. t \o Slashes(n + 1) = Append(t \o Slashes(n), bs)
  <2> DEFINE a == t \o Slashes(n + 1)
             b == Append(t \o Slashes(n), bs)
  <2>1. t \o Slashes(n) \in Words /\ Len(t \o Slashes(n)) = Len(t) + n /\ Len(t) \in Nat
        /\ \A k \in 1..(Len(t) + n) : (t \o Slashes(n))[k] = IF k <= Len(t) THEN t[k] ELSE bs
    BY <1>1 DEF Words, Slashes
  <2>2. a \in Words /\ Len(a) = Len(t) + (n + 1)
        /\ \A k \in 1..(Len(t) + (n + 1)) : a[k] = IF k <= Len(t) THEN t[k] ELSE bs
    BY <1>1 DEF Words, Slashes
  <2>. HIDE DEF a
  <2>3. b \in Words /\ Len(b) = (Len(t) + n) + 1 /\ b[(Len(t) + n) + 1] = bs
        /\ \A k \in 1..(Len(t) + n) : b[k] = (t \o Slashes(n))[k]
    <3> DEFINE w == t \o Slashes(n)
    <3>1. w \in Words /\ Len(w) = Len(t) + n
      BY <2>1
    <3>. HIDE DEF w
    <3>2. Append(w, bs) \in Words /\ Len(Append(w, bs)) = Len(w) + 1 /\ Append(w, bs)[Len(w) + 1] = bs
          /\ \A k \in 1..Len(w) : Append(w, bs)[k] = w[k]
      BY <1>0, <3>1 DEF Words
    <3>. QED  BY <3>1, <3>2 DEF w
  <2>. HIDE DEF b
  <2>4. \A k \in 1..Len(a) : a[k] = b[k]
    <3>. TAKE k \in 1..Len(a)
    <3>1. k \in 1..(Len(t) + (n + 1)) /\ Len(t) \in Nat
      BY <2>1, <2>2
    <3>2. CASE k = (Len(t) + n) + 1
      <4>1. ~(k <= Len(t))
        BY <3>1, <3>2
      <4>. QED  BY <2>2, <2>3, <3>1, <3>2, <4>1
    <3>3. CASE k # (Len(t) + n) + 1
      <4>1. k \in 1..(Len(t) + n)
        BY <3>1, <3>3
      <4>. QED  BY <2>1, <2>2, <2>3, <3>1, <4>1
    <3>. QED  BY <3>2, <3>3
  <2>5. Len(a) = Len(b)
    BY <2>1, <2>2, <2>3
  <2>6. a = b
    BY <2>2, <2>3, <2>4, <2>5, SeqEqual DEF Words
  <2>. QED  BY <2>6 DEF a, b
<1>. QED  BY <1>1, <1>2, <1>3

LEMMA ParserIs ==
    \A a \in Parser : a = [done |-> a.done, cur |-> a.cur, n |-> a.n, quoted |-> a.quoted, open |-> a.open]
BY DEF Parser

\* The four things a character can do to the parser.
LEMMA ParseIs ==
    ASSUME NEW s \in Parser, NEW c \in Letters
    PROVE  /\ c = bs => ParseChar(s, c) = [s EXCEPT !.n = s.n + 1, !.open = TRUE]
           /\ c = qt /\ s.n % 2 = 1 =>
                ParseChar(s, c) = [s EXCEPT !.cur = (s.cur \o Slashes(s.n \div 2)) \o <<qt>>, !.n = 0]
           /\ c = qt /\ s.n % 2 # 1 =>
                ParseChar(s, c) = [s EXCEPT !.cur = s.cur \o Slashes(s.n \div 2), !.n = 0,
                                            !.quoted = ~s.quoted, !.open = TRUE]
           /\ c = sp /\ ~s.quoted /\ s.open =>
                ParseChar(s, c) = [s EXCEPT !.done = s.done \o <<s.cur \o Slashes(s.n)>>, !.cur = <<>>,
                                            !.n = 0, !.open = FALSE]
           /\ c = sp /\ ~s.quoted /\ ~s.open => ParseChar(s, c) = s
           /\ c \notin {bs, qt} /\ (c = sp => s.quoted) =>
                ParseChar(s, c) = [s EXCEPT !.cur = (s.cur \o Slashes(s.n)) \o <<c>>, !.n = 0, !.open = TRUE]
<1>1. bs # qt /\ bs # sp /\ qt # sp
  BY DEF bs, qt, sp
<1>2. CASE c = bs
  BY <1>1, <1>2 DEF ParseChar
<1>3. CASE c = qt
  BY <1>1, <1>3 DEF ParseChar, Slashes
<1>4. CASE c = sp /\ ~s.quoted
  BY <1>1, <1>4 DEF ParseChar, Slashes
<1>5. CASE c \notin {bs, qt} /\ (c = sp => s.quoted)
  <2>1. c # bs /\ c # qt /\ ~(c = sp /\ ~s.quoted)
    BY <1>5
  <2>2. ParseChar(s, c) = [s EXCEPT !.cur = (s.cur \o Slashes(s.n)) \o <<c>>, !.n = 0, !.open = TRUE]
    BY <2>1 DEF ParseChar, Slashes
  <2>. QED  BY <1>5, <2>1, <2>2
<1>. QED  BY <1>1, <1>2, <1>3, <1>4, <1>5
-----------------------------------------------------------------------------
\* The end of an argument as it is written: its last k characters.
Ending == [text : Words, double : BOOLEAN]
Written(h, arg) ==
    /\ h[0] = [text |-> <<>>, double |-> Blank(arg)]
    /\ \A k \in 0..Len(arg) : h[k] \in Ending
    /\ \A k \in 1..Len(arg) : h[k] = QuotedChar(h[k - 1], arg[Len(arg) - k + 1])

LEMMA QuotedCharIs ==
    ASSUME NEW t \in Ending, NEW c \in Letters
    PROVE  /\ QuotedChar(t, c) \in Ending
           /\ c = qt => QuotedChar(t, c) = [text |-> <<bs, qt>> \o t.text, double |-> TRUE]
           /\ c = bs /\ t.double => QuotedChar(t, c) = [text |-> <<bs, bs>> \o t.text, double |-> TRUE]
           /\ c = bs /\ ~t.double => QuotedChar(t, c) = [text |-> <<bs>> \o t.text, double |-> FALSE]
           /\ c \notin {bs, qt} => QuotedChar(t, c) = [text |-> <<c>> \o t.text, double |-> FALSE]
<1>1. bs # qt
  BY DEF bs, qt
<1>2. bs \in Letters /\ qt \in Letters
  BY LaunchAssumption
<1>3. /\ c = qt => QuotedChar(t, c) = [text |-> <<bs, qt>> \o t.text, double |-> TRUE]
      /\ c = bs /\ t.double => QuotedChar(t, c) = [text |-> <<bs, bs>> \o t.text, double |-> TRUE]
      /\ c = bs /\ ~t.double => QuotedChar(t, c) = [text |-> <<bs>> \o t.text, double |-> FALSE]
      /\ c \notin {bs, qt} => QuotedChar(t, c) = [text |-> <<c>> \o t.text, double |-> FALSE]
  <2>1. t = [text |-> t.text, double |-> t.double] /\ t.double \in BOOLEAN
    BY DEF Ending
  <2>. QED  BY <1>1, <2>1 DEF QuotedChar
<1>4. t.text \in Words /\ t.double \in BOOLEAN
  BY DEF Ending
<1>5. /\ <<bs, qt>> \o t.text \in Words /\ <<bs, bs>> \o t.text \in Words
      /\ <<bs>> \o t.text \in Words /\ <<c>> \o t.text \in Words
  BY <1>2, <1>4 DEF Words
<1>6. \A w \in Words, d \in BOOLEAN : [text |-> w, double |-> d] \in Ending
  BY DEF Ending
<1>7. QuotedChar(t, c) \in Ending
  <2>1. CASE c = qt
    BY <1>3, <1>5, <1>6, <2>1
  <2>2. CASE c = bs /\ t.double
    BY <1>3, <1>5, <1>6, <2>2
  <2>3. CASE c = bs /\ ~t.double
    BY <1>3, <1>5, <1>6, <2>3
  <2>4. CASE c \notin {bs, qt}
    BY <1>3, <1>5, <1>6, <2>4
  <2>. QED  BY <2>1, <2>2, <2>3, <2>4
<1>. QED  BY <1>3, <1>7

LEMMA WrittenIs ==
    ASSUME NEW arg \in Words
    PROVE  \E h : /\ Written(h, arg)
                  /\ Quoted(arg) = IF Blank(arg) THEN <<qt>> \o h[Len(arg)].text \o <<qt>> ELSE h[Len(arg)].text
<1> DEFINE n == Len(arg)
           base == [text |-> <<>>, double |-> Blank(arg)]
<1>1. n \in Nat /\ DOMAIN Reverse(arg) = 1..n /\ \A k \in 1..n : Reverse(arg)[k] = arg[n - k + 1]
  BY DEF Words, Reverse
<1>2. PICK h : Quoting!Trace(h, base, Reverse(arg), 0, n) /\ Quoting!Fold(base, Reverse(arg), 0) = h[n]
  <2> DEFINE r == Reverse(arg)
  <2>1. n \in Nat /\ DOMAIN r = 1..n
    BY <1>1
  <2>. HIDE DEF n, base, r
  <2>2. \E h : Quoting!Trace(h, base, r, 0, n) /\ Quoting!Fold(base, r, 0) = h[n]
    BY ONLY <2>1, Quoting!FoldTrace
  <2>. QED  BY <2>2 DEF r
<1>3. h[0] = base /\ \A k \in 1..n : h[k] = QuotedChar(h[k - 1], arg[n - k + 1])
  BY <1>1, <1>2 DEF Quoting!Trace, QuoteStep
<1>4. base \in Ending
  BY DEF Ending, Words, Blank
<1>5. \A k \in 0..n : h[k] \in Ending
  <2> DEFINE T == {k \in Nat : k <= n /\ h[k] \notin Ending}
  <2>1. SUFFICES ASSUME T # {} PROVE FALSE
    BY <1>1
  <2>2. PICK k \in T : \A j \in T : k <= j
    BY <2>1, Quoting!Least
  <2>3. k # 0
    BY <1>3, <1>4
  <2>4. k - 1 \in Nat /\ k - 1 <= n /\ k \in 1..n /\ n - k + 1 \in 1..n /\ k - 1 \notin T
    BY <1>1, <2>2, <2>3
  <2>5. h[k - 1] \in Ending /\ arg[n - k + 1] \in Letters
    BY <2>4 DEF Words
  <2>6. h[k] \in Ending
    BY <1>3, <2>4, <2>5, QuotedCharIs
  <2>. QED  BY <2>2, <2>6
<1>6. FoldLeft(QuotedChar, base, Reverse(arg)) = h[n]
  <2>1. FoldLeft(QuotedChar, base, Reverse(arg)) = Quoting!Fold(base, Reverse(arg), 0)
    <3>. HIDE DEF base
    <3>. QED  BY DEF Quoting!Fold, QuoteStep, FoldLeft, MapThenFoldSet, Quoting!FoldLeft, Quoting!MapThenFoldSet,
                     Max, Quoting!Max
  <2>. QED  BY <1>2, <2>1
<1>7. Quoted(arg) = IF Blank(arg) THEN <<qt>> \o h[n].text \o <<qt>> ELSE h[n].text
  <2>. HIDE DEF n
  <2>. QED  BY <1>6 DEF Quoted
<1>. QED  BY <1>3, <1>5, <1>7 DEF Written
-----------------------------------------------------------------------------
\* The parser has read j characters of an argument as it is written; those that
\* come are written with double backslashes, or not.
Midway(s, parsed, arg, j, double) ==
    /\ s \in Parser /\ s.done = parsed /\ s.quoted = Blank(arg)
    /\ j > 0 \/ Blank(arg) => s.open
    /\ \E b \in Nat : /\ s.n = IF double THEN 2 * b ELSE b
                      /\ s.cur \o Slashes(b) = SubSeq(arg, 1, j)

LEMMA Halves == ASSUME NEW b \in Nat
                PROVE  /\ (2 * b + 1) % 2 = 1 /\ (2 * b + 1) \div 2 = b
                       /\ (2 * b) % 2 # 1 /\ (2 * b) \div 2 = b
OBVIOUS

LEMMA OneMore ==
    ASSUME NEW arg \in Words, NEW j \in 0..(Len(arg) - 1)
    PROVE  /\ arg[j + 1] \in Letters
           /\ SubSeq(arg, 1, j + 1) = SubSeq(arg, 1, j) \o <<arg[j + 1]>>
           /\ SubSeq(arg, 1, j + 1) = Append(SubSeq(arg, 1, j), arg[j + 1])
           /\ SubSeq(arg, 1, j) \in Words /\ SubSeq(arg, 1, j + 1) \in Words
<1> DEFINE a == SubSeq(arg, 1, j + 1)
           b == SubSeq(arg, 1, j)
<1>1. j \in Nat /\ j + 1 \in 1..Len(arg) /\ Len(arg) \in Nat /\ arg[j + 1] \in Letters
      /\ \A k \in 1..Len(arg) : arg[k] \in Letters
  BY DEF Words
<1>2. a \in Words /\ Len(a) = j + 1 /\ \A k \in 1..(j + 1) : a[k] = arg[k]
  BY <1>1 DEF Words
<1>3. b \in Words /\ Len(b) = j /\ \A k \in 1..j : b[k] = arg[k]
  BY <1>1 DEF Words
<1> HIDE DEF a, b
<1>4. /\ Append(b, arg[j + 1]) \in Words /\ Len(Append(b, arg[j + 1])) = j + 1
      /\ \A k \in 1..(j + 1) : Append(b, arg[j + 1])[k] = arg[k]
  BY <1>1, <1>3 DEF Words
<1>5. a = Append(b, arg[j + 1])
  BY <1>2, <1>4, SeqEqual DEF Words
<1>6. Append(b, arg[j + 1]) = b \o <<arg[j + 1]>>
  BY <1>1, <1>3 DEF Words
<1>. QED  BY <1>1, <1>2, <1>3, <1>5, <1>6 DEF a, b

\* The parser after a backslash.
Slashed(s) == [s EXCEPT !.n = s.n + 1, !.open = TRUE]

LEMMA SlashedIs ==
    ASSUME NEW s \in Parser
    PROVE  /\ ParseChar(s, bs) = Slashed(s) /\ Reads(s, <<bs>>) = Slashed(s)
           /\ Slashed(s) \in Parser /\ Slashed(s).done = s.done /\ Slashed(s).cur = s.cur
           /\ Slashed(s).quoted = s.quoted /\ Slashed(s).open = TRUE /\ Slashed(s).n = s.n + 1
<1>1. bs \in Letters
  BY LaunchAssumption
<1>2. ParseChar(s, bs) = Slashed(s)
  BY <1>1, ParseIs DEF Slashed
<1>3. Reads(s, <<bs>>) = Slashed(s)
  BY <1>1, <1>2, ReadOne
<1>4. /\ Slashed(s).done = s.done /\ Slashed(s).cur = s.cur
      /\ Slashed(s).quoted = s.quoted /\ Slashed(s).open = TRUE /\ Slashed(s).n = s.n + 1
  BY DEF Slashed, Parser
<1>5. s.n + 1 \in Nat
  BY DEF Parser
<1>6. Slashed(s) \in Parser
  BY <1>5 DEF Slashed, Parser
<1>. QED  BY <1>2, <1>3, <1>4, <1>6

LEMMA TwoChars ==
    ASSUME NEW s, NEW c \in Letters, NEW d \in Letters, NEW t \in Words
    PROVE  /\ Reads(s, <<c, d>> \o t) = Reads(ParseChar(ParseChar(s, c), d), t)
           /\ Reads(s, <<c>> \o t) = Reads(ParseChar(s, c), t)
<1>1. <<c>> \in Words /\ <<d>> \in Words
  BY DEF Words
<1>2. <<c, d>> = <<c>> \o <<d>>
  <2> DEFINE w == <<c>> \o <<d>>
  <2>1. w \in Seq(Letters) /\ Len(w) = 2 /\ w[1] = c /\ w[2] = d
    OBVIOUS
  <2>. HIDE DEF w
  <2>2. <<c, d>> = w
    BY <2>1
  <2>. QED  BY <2>2 DEF w
<1>3. Reads(s, <<c>>) = ParseChar(s, c) /\ Reads(ParseChar(s, c), <<d>>) = ParseChar(ParseChar(s, c), d)
  BY ReadOne
<1>4. Reads(s, <<c>> \o <<d>>) = ParseChar(ParseChar(s, c), d)
  BY <1>1, <1>3, ReadOn
<1>5. <<c>> \o <<d>> \in Words
  BY <1>1 DEF Words
<1>6. Reads(s, (<<c>> \o <<d>>) \o t) = Reads(Reads(s, <<c>> \o <<d>>), t)
  BY <1>5, ReadOn
<1>7. Reads(s, <<c>> \o t) = Reads(Reads(s, <<c>>), t)
  BY <1>1, ReadOn
<1>. QED  BY <1>2, <1>3, <1>4, <1>6, <1>7

LEMMA OneChar ==
    ASSUME NEW s, NEW c \in Letters, NEW t \in Words, NEW u, ParseChar(s, c) = u
    PROVE  Reads(s, <<c>> \o t) = Reads(u, t)
BY TwoChars

\* A quote behind an odd number of backslashes is a letter.
LEMMA QuoteKept ==
    ASSUME NEW s \in Parser, NEW h, s.n % 2 = 1, s.n \div 2 = h
    PROVE  ParseChar(s, qt) = [s EXCEPT !.cur = (s.cur \o Slashes(h)) \o <<qt>>, !.n = 0]
<1>1. qt \in Letters
  BY LaunchAssumption DEF qt
<1>2. ParseChar(s, qt) = [s EXCEPT !.cur = (s.cur \o Slashes(s.n \div 2)) \o <<qt>>, !.n = 0]
  BY <1>1, ParseIs
<1>. QED  BY <1>2

\* One character of the argument, as QuotedChar writes it, is read.
LEMMA CharRead ==
    ASSUME NEW arg \in Words, NEW parsed \in Seq(Words), NEW j \in 0..(Len(arg) - 1), NEW s,
           NEW t \in Ending, Midway(s, parsed, arg, j, QuotedChar(t, arg[j + 1]).double)
    PROVE  \E u : /\ Reads(s, QuotedChar(t, arg[j + 1]).text) = Reads(u, t.text)
                  /\ Midway(u, parsed, arg, j + 1, t.double)
<1> DEFINE c == arg[j + 1]
           q == QuotedChar(t, c)
<1>1. /\ c \in Letters /\ SubSeq(arg, 1, j + 1) = SubSeq(arg, 1, j) \o <<c>>
      /\ SubSeq(arg, 1, j + 1) = Append(SubSeq(arg, 1, j), c)
      /\ SubSeq(arg, 1, j) \in Words /\ SubSeq(arg, 1, j + 1) \in Words
  BY OneMore
<1>2. s \in Parser /\ s.done = parsed /\ s.quoted = Blank(arg) /\ (j > 0 \/ Blank(arg) => s.open)
  BY DEF Midway
<1>3. PICK b \in Nat : s.n = (IF q.double THEN 2 * b ELSE b) /\ s.cur \o Slashes(b) = SubSeq(arg, 1, j)
  BY DEF Midway
<1>4. t.text \in Words /\ t.double \in BOOLEAN
  BY DEF Ending
<1>5. s.cur \in Words /\ s.n \in Nat /\ s.done \in Seq(Words) /\ s.quoted \in BOOLEAN /\ s.open \in BOOLEAN
  BY <1>2 DEF Parser
<1>6. bs \in Letters /\ qt \in Letters /\ bs # qt /\ sp # bs /\ sp # qt
  BY LaunchAssumption DEF bs, qt, sp
<1>7. j + 1 > 0 /\ j + 1 \in 1..Len(arg)
  BY DEF Words
<1>8. c = sp => Blank(arg)
  <2>1. DOMAIN arg = 1..Len(arg)
    BY DEF Words
  <2>. QED  BY <1>7, <2>1 DEF Blank, ToSet
<1>9. /\ s.cur \o Slashes(b + 1) = Append(s.cur \o Slashes(b), bs)
      /\ \A w \in Words : w \o Slashes(0) = w
  BY <1>5, SlashesAre
<1> HIDE DEF c
<1>10. CASE c = bs /\ t.double
  <2> DEFINE v == Slashed(s)
             u == Slashed(v)
  <2>1. q = [text |-> <<bs, bs>> \o t.text, double |-> TRUE]
    BY <1>1, <1>10, QuotedCharIs
  <2>2. /\ ParseChar(s, bs) = v /\ v \in Parser /\ v.done = s.done /\ v.cur = s.cur
        /\ v.quoted = s.quoted /\ v.n = s.n + 1
    BY <1>2, SlashedIs
  <2>. HIDE DEF v
  <2>3. /\ ParseChar(v, bs) = u /\ u \in Parser /\ u.done = v.done /\ u.cur = v.cur
        /\ u.quoted = v.quoted /\ u.open = TRUE /\ u.n = v.n + 1
    BY <2>2, SlashedIs
  <2>. HIDE DEF u
  <2>4. Reads(s, <<bs, bs>> \o t.text) = Reads(u, t.text)
    BY <1>4, <1>6, <2>2, <2>3, TwoChars
  <2>5. u.n = 2 * (b + 1)
    BY <1>3, <2>1, <2>2, <2>3
  <2>6. u.cur \o Slashes(b + 1) = SubSeq(arg, 1, j + 1)
    BY <1>1, <1>3, <1>9, <1>10, <2>2, <2>3
  <2>7. b + 1 \in Nat /\ u.n = (IF t.double THEN 2 * (b + 1) ELSE b + 1)
    BY <1>10, <2>5
  <2>8. Midway(u, parsed, arg, j + 1, t.double)
    BY <1>2, <2>2, <2>3, <2>6, <2>7 DEF Midway
  <2>. QED  BY <2>1, <2>4, <2>8 DEF c
<1>11. CASE c = bs /\ ~t.double
  <2> DEFINE u == Slashed(s)
  <2>1. q = [text |-> <<bs>> \o t.text, double |-> FALSE]
    BY <1>1, <1>11, QuotedCharIs
  <2>2. /\ ParseChar(s, bs) = u /\ u \in Parser /\ u.done = s.done /\ u.cur = s.cur
        /\ u.quoted = s.quoted /\ u.open = TRUE /\ u.n = s.n + 1
    BY <1>2, SlashedIs
  <2>. HIDE DEF u
  <2>3. Reads(s, <<bs>> \o t.text) = Reads(u, t.text)
    BY <1>4, <1>6, <2>2, TwoChars
  <2>4. b + 1 \in Nat /\ u.n = (IF t.double THEN 2 * (b + 1) ELSE b + 1)
    BY <1>3, <1>11, <2>1, <2>2
  <2>5. u.cur \o Slashes(b + 1) = SubSeq(arg, 1, j + 1)
    BY <1>1, <1>3, <1>9, <1>11, <2>2
  <2>6. Midway(u, parsed, arg, j + 1, t.double)
    BY <1>2, <2>2, <2>4, <2>5 DEF Midway
  <2>. QED  BY <2>1, <2>3, <2>6 DEF c
<1>12. CASE c = qt
  <2> DEFINE v == Slashed(s)
             u == [v EXCEPT !.cur = (v.cur \o Slashes(b)) \o <<qt>>, !.n = 0]
  <2>1. q = [text |-> <<bs, qt>> \o t.text, double |-> TRUE]
    BY <1>1, <1>12, QuotedCharIs
  <2>2. /\ ParseChar(s, bs) = v /\ v \in Parser /\ v.done = s.done /\ v.cur = s.cur
        /\ v.quoted = s.quoted /\ v.open = TRUE /\ v.n = 2 * b + 1
    <3>1. q.double = TRUE
      BY <2>1
    <3>2. s.n = 2 * b
      BY <1>3, <3>1
    <3>. QED  BY <1>2, <3>2, SlashedIs
  <2>. HIDE DEF v
  <2>3. (v.cur \o Slashes(b)) \o <<qt>> = SubSeq(arg, 1, j + 1)
    BY <1>1, <1>3, <1>12, <2>2
  <2>4. u \in Parser
    BY <1>1, <2>2, <2>3 DEF Parser
  <2>5. ParseChar(v, qt) = u
    <3>1. v.n % 2 = 1 /\ v.n \div 2 = b /\ v \in Parser
      BY <2>2, Halves
    <3>2. ParseChar(v, qt) = [v EXCEPT !.cur = (v.cur \o Slashes(b)) \o <<qt>>, !.n = 0]
      BY ONLY <3>1, QuoteKept
    <3>. QED  BY <3>2
  <2>6. Reads(s, <<bs, qt>> \o t.text) = Reads(u, t.text)
    <3>. HIDE DEF u
    <3>. QED  BY <1>4, <1>6, <2>2, <2>5, TwoChars
  <2>7. /\ u.done = v.done /\ u.cur = (v.cur \o Slashes(b)) \o <<qt>> /\ u.quoted = v.quoted
        /\ u.open = v.open /\ u.n = 0
    BY <2>2 DEF Parser
  <2>. HIDE DEF u
  <2>8. u.cur \o Slashes(0) = SubSeq(arg, 1, j + 1)
    BY <1>1, <1>9, <2>3, <2>7
  <2>9. 0 \in Nat /\ u.n = (IF t.double THEN 2 * 0 ELSE 0)
    BY <2>7
  <2>10. Midway(u, parsed, arg, j + 1, t.double)
    BY <1>2, <2>2, <2>4, <2>7, <2>8, <2>9 DEF Midway
  <2>. QED  BY <2>1, <2>6, <2>10 DEF c
<1>13. CASE c \notin {bs, qt}
  <2>1. q = [text |-> <<c>> \o t.text, double |-> FALSE]
    BY <1>1, <1>13, QuotedCharIs
  <2> DEFINE u == [s EXCEPT !.cur = (s.cur \o Slashes(s.n)) \o <<c>>, !.n = 0, !.open = TRUE]
  <2>2. s.n = b
    BY <1>3, <2>1
  <2>3. (s.cur \o Slashes(s.n)) \o <<c>> = SubSeq(arg, 1, j + 1)
    BY <1>1, <1>3, <2>2
  <2>4. u \in Parser
    BY <1>1, <1>2, <1>5, <2>3 DEF Parser
  <2>5. ParseChar(s, c) = u
    BY <1>1, <1>2, <1>8, <1>13, ParseIs
  <2>6. Reads(s, <<c>> \o t.text) = Reads(u, t.text)
    <3>. HIDE DEF u
    <3>1. c \in Letters /\ t.text \in Words
      BY <1>1, <1>4
    <3>. QED  BY ONLY <2>5, <3>1, OneChar
  <2>7. /\ u.done = s.done /\ u.cur = (s.cur \o Slashes(s.n)) \o <<c>> /\ u.quoted = s.quoted
        /\ u.open = TRUE /\ u.n = 0
    BY <1>2, <1>5 DEF Parser
  <2>. HIDE DEF u
  <2>8. u.cur \o Slashes(0) = SubSeq(arg, 1, j + 1)
    BY <1>1, <1>9, <2>3, <2>7
  <2>9. 0 \in Nat /\ u.n = (IF t.double THEN 2 * 0 ELSE 0)
    BY <2>7
  <2>10. Midway(u, parsed, arg, j + 1, t.double)
    BY <1>2, <2>4, <2>7, <2>8, <2>9 DEF Midway
  <2>. QED  BY <2>1, <2>6, <2>10 DEF c
<1>. QED  BY <1>4, <1>10, <1>11, <1>12, <1>13

\* From anywhere in the argument, the rest of it is read as it was written.
LEMMA EndingRead ==
    ASSUME NEW arg \in Words, NEW parsed \in Seq(Words), NEW h, Written(h, arg)
    PROVE  \A k \in 0..Len(arg) : \A s :
             Midway(s, parsed, arg, Len(arg) - k, h[k].double)
               => Midway(Reads(s, h[k].text), parsed, arg, Len(arg), Blank(arg))
<1> DEFINE n == Len(arg)
           Upto(k) == \A s : Midway(s, parsed, arg, n - k, h[k].double)
                               => Midway(Reads(s, h[k].text), parsed, arg, n, Blank(arg))
           T == {k \in Nat : k <= n /\ ~Upto(k)}
<1>1. n \in Nat
  BY DEF Words
<1>0. SUFFICES \A k \in 0..n : Upto(k)
  OBVIOUS
<1>2. SUFFICES ASSUME T # {} PROVE FALSE
  <2>. HIDE DEF Upto
  <2>. QED  BY <1>1
<1>3. PICK k \in T : \A j \in T : k <= j
  BY <1>2, Parsing!Least
<1>4. Upto(0)
  <2>1. h[0].text = <<>> /\ h[0].double = Blank(arg) /\ n - 0 = n
    BY <1>1 DEF Written
  <2>2. bs \in Letters
    BY LaunchAssumption
  <2>3. \A s : Reads(s, <<>>) = s
    BY <2>2, ReadOne
  <2>. HIDE DEF n
  <2>. QED  BY <2>1, <2>3
<1>5. k - 1 \in Nat /\ k - 1 <= n /\ k \in 1..n /\ k - 1 \notin T /\ k - 1 \in 0..n
  <2>1. k # 0
    BY <1>3, <1>4
  <2>2. k \in Nat /\ k <= n
    OBVIOUS
  <2>3. k - 1 \in Nat /\ k - 1 < k
    BY <2>1, <2>2
  <2>4. k - 1 \notin T
    <3>. HIDE DEF T
    <3>. QED  BY <1>3, <2>2, <2>3
  <2>. QED  BY <1>1, <2>1, <2>2, <2>3, <2>4
<1>6. Upto(k - 1)
  <2>. HIDE DEF Upto
  <2>. QED  BY <1>5
<1>7. Upto(k)
  <2>. SUFFICES ASSUME NEW s, Midway(s, parsed, arg, n - k, h[k].double)
                PROVE  Midway(Reads(s, h[k].text), parsed, arg, n, Blank(arg))
    OBVIOUS
  <2>1. n - k \in 0..(Len(arg) - 1) /\ (n - k) + 1 = n - k + 1 /\ (n - k) + 1 = n - (k - 1)
    BY <1>1, <1>5
  <2>2. h[k] = QuotedChar(h[k - 1], arg[(n - k) + 1]) /\ h[k - 1] \in Ending
    BY <1>5, <2>1 DEF Written
  <2>3. PICK u : /\ Reads(s, h[k].text) = Reads(u, h[k - 1].text)
                 /\ Midway(u, parsed, arg, (n - k) + 1, h[k - 1].double)
    <3>. HIDE DEF n
    <3>. QED  BY <2>1, <2>2, CharRead
  <2>. HIDE DEF n
  <2>. QED  BY <1>6, <2>1, <2>3
<1>. QED  BY <1>3, <1>7

\* An argument that is quoted, with the space behind it, is read as that argument.
LEMMA ArgRead ==
    ASSUME NEW arg \in Words, NEW parsed \in Seq(Words)
    PROVE  /\ Quoted(arg) \in Words
           /\ Reads(Between(parsed), Quoted(arg) \o <<sp>>) = Between(parsed \o <<arg>>)
<1> DEFINE n == Len(arg)
           s == Between(parsed)
<1>1. PICK h : /\ Written(h, arg)
               /\ Quoted(arg) = IF Blank(arg) THEN <<qt>> \o h[n].text \o <<qt>> ELSE h[n].text
  BY WrittenIs
<1>2. n \in Nat /\ h[n].text \in Words /\ h[n].double \in BOOLEAN /\ SubSeq(arg, 1, 0) = <<>>
      /\ SubSeq(arg, 1, n) = arg
  BY <1>1 DEF Written, Ending, Words
<1>3. <<qt>> \in Words /\ <<sp>> \in Words /\ qt \in Letters /\ sp \in Letters /\ sp # qt
  BY LaunchAssumption DEF Words, qt, sp
<1>4. /\ s \in Parser /\ s.done = parsed /\ s.cur = <<>> /\ s.n = 0 /\ s.quoted = FALSE /\ s.open = FALSE
      /\ <<>> \in Words
  BY DEF Between, Parser, Words
<1>5. \A t \in Words : t \o Slashes(0) = t
  BY SlashesAre
<1>6. \A w \in Words : Between(parsed \o <<w>>) =
        [done |-> parsed \o <<w>>, cur |-> <<>>, n |-> 0, quoted |-> FALSE, open |-> FALSE]
  BY DEF Between
<1>. HIDE DEF s, n
\* Where the argument has ended, the space closes it.
<1>7. ASSUME NEW u \in Parser, u.done = parsed, u.quoted = FALSE, u.open, u.cur \o Slashes(u.n) = arg
      PROVE  ParseChar(u, sp) = Between(parsed \o <<arg>>)
  <2>1. ParseChar(u, sp) = [u EXCEPT !.done = u.done \o <<u.cur \o Slashes(u.n)>>, !.cur = <<>>,
                                     !.n = 0, !.open = FALSE]
    BY <1>3, <1>7, ParseIs
  <2> DEFINE D == u.done \o <<u.cur \o Slashes(u.n)>>
  <2>2. D = parsed \o <<arg>>
    BY <1>7
  <2>. HIDE DEF D
  <2> DEFINE a == [u EXCEPT !.done = D, !.cur = <<>>, !.n = 0, !.open = FALSE]
  <2>3. D \in Seq(Words) /\ <<>> \in Words
    BY <1>4, <2>2
  <2>4. a \in Parser
    BY <2>3 DEF Parser
  <2>5. a.done = D /\ a.cur = <<>> /\ a.n = 0 /\ a.quoted = FALSE /\ a.open = FALSE
    BY <1>7 DEF Parser
  <2>6. a = ParseChar(u, sp)
    BY <2>1 DEF D
  <2>. HIDE DEF a
  <2>7. a = [done |-> D, cur |-> <<>>, n |-> 0, quoted |-> FALSE, open |-> FALSE]
    BY <2>4, <2>5, ParserIs
  <2>. QED  BY <2>2, <2>6, <2>7 DEF Between
<1>8. CASE Blank(arg)
  <2> DEFINE v == [s EXCEPT !.cur = s.cur \o Slashes(0), !.n = 0, !.quoted = ~s.quoted, !.open = TRUE]
             T == h[n].text
             e == Reads(v, T)
             f == ParseChar(e, qt)
  <2>1. ParseChar(s, qt) = v
    <3>1. s.n % 2 # 1 /\ s.n \div 2 = 0
      BY <1>4
    <3>2. ParseChar(s, qt) = [s EXCEPT !.cur = s.cur \o Slashes(s.n \div 2), !.n = 0,
                                       !.quoted = ~s.quoted, !.open = TRUE]
      BY <1>3, <1>4, <3>1, ParseIs
    <3>. QED  BY <3>1, <3>2
  <2>2. v.done = parsed /\ v.cur = <<>> /\ v.n = 0 /\ v.quoted = TRUE /\ v.open = TRUE
    BY <1>4, <1>5 DEF Parser
  <2>3. v \in Parser
    BY <1>4, <1>5 DEF Parser
  <2>. HIDE DEF v
  <2>4. Midway(v, parsed, arg, 0, h[n].double)
    <3>1. v.n = (IF h[n].double THEN 2 * 0 ELSE 0) /\ v.cur \o Slashes(0) = SubSeq(arg, 1, 0) /\ 0 \in Nat
      BY <1>2, <1>4, <1>5, <2>2
    <3>2. v.done = parsed /\ v.quoted = Blank(arg) /\ v.open
      BY <1>8, <2>2
    <3>. QED  BY <2>3, <3>1, <3>2 DEF Midway
  <2>5. Midway(e, parsed, arg, n, Blank(arg))
    <3>1. n \in 0..Len(arg) /\ Len(arg) - n = 0
      BY <1>2 DEF n
    <3>. QED  BY <1>1, <2>4, <3>1, EndingRead DEF n
  <2>. HIDE DEF T, e, f
  <2>6. PICK b \in Nat : e.n = 2 * b /\ e.cur \o Slashes(b) = arg
    BY <1>2, <1>8, <2>5 DEF Midway
  <2>7. e \in Parser /\ e.done = parsed /\ e.quoted = TRUE /\ e.open
    BY <1>8, <2>5 DEF Midway
  <2>8. f = [e EXCEPT !.cur = e.cur \o Slashes(b), !.n = 0, !.quoted = ~e.quoted, !.open = TRUE]
    <3>1. e.n % 2 # 1 /\ e.n \div 2 = b
      BY <2>6, Halves
    <3>2. f = [e EXCEPT !.cur = e.cur \o Slashes(e.n \div 2), !.n = 0, !.quoted = ~e.quoted, !.open = TRUE]
      BY <1>3, <2>7, <3>1, ParseIs DEF f
    <3>. QED  BY <3>1, <3>2
  <2>9. f = [done |-> parsed, cur |-> arg, n |-> 0, quoted |-> FALSE, open |-> TRUE]
    BY <2>6, <2>7, <2>8 DEF Parser
  <2>10. f \in Parser /\ f.cur \o Slashes(f.n) = arg
    BY <1>5, <2>9 DEF Parser
  <2>11. ParseChar(f, sp) = Between(parsed \o <<arg>>)
    BY <1>7, <2>9, <2>10
  <2>12. T \in Words /\ <<qt>> \o T \in Words /\ (<<qt>> \o T) \o <<qt>> \in Words
    BY <1>2, <1>3 DEF T, Words
  <2>13. Reads(s, <<qt>> \o T) = e
    <3>1. T \in Words /\ qt \in Letters
      BY <1>3, <2>12
    <3>2. Reads(s, <<qt>> \o T) = Reads(ParseChar(s, qt), T)
      BY ONLY <3>1, TwoChars
    <3>. QED  BY <2>1, <3>2 DEF e
  <2>14. Reads(s, (<<qt>> \o T) \o <<qt>>) = f
    BY <1>3, <2>12, <2>13, ReadOn, ReadOne DEF f
  <2>15. Reads(s, ((<<qt>> \o T) \o <<qt>>) \o <<sp>>) = ParseChar(f, sp)
    BY <1>3, <2>12, <2>14, ReadOn, ReadOne
  <2>16. Quoted(arg) = (<<qt>> \o T) \o <<qt>>
    BY <1>1, <1>8 DEF T
  <2>. QED  BY <2>11, <2>12, <2>15, <2>16 DEF s
<1>9. CASE ~Blank(arg)
  <2> DEFINE T == h[n].text
             e == Reads(s, T)
  <2>1. Midway(s, parsed, arg, 0, h[n].double)
    <3>1. s.n = (IF h[n].double THEN 2 * 0 ELSE 0) /\ s.cur \o Slashes(0) = SubSeq(arg, 1, 0) /\ 0 \in Nat
      BY <1>2, <1>4, <1>5
    <3>2. s.quoted = Blank(arg)
      BY <1>4, <1>9 DEF Blank
    <3>. QED  BY <1>4, <1>9, <3>1, <3>2 DEF Midway
  <2>2. Midway(e, parsed, arg, n, Blank(arg))
    <3>1. n \in 0..Len(arg) /\ Len(arg) - n = 0
      BY <1>2 DEF n
    <3>. QED  BY <1>1, <2>1, <3>1, EndingRead DEF n
  <2>. HIDE DEF T, e
  <2>3. e.cur \o Slashes(e.n) = arg
    BY <1>2, <1>9, <2>2 DEF Midway
  <2>4. n > 0
    BY <1>2, <1>9 DEF Blank, n, Words
  <2>5. e \in Parser /\ e.done = parsed /\ e.quoted = FALSE /\ e.open
    BY <1>9, <2>2, <2>4 DEF Midway, Parser
  <2>6. ParseChar(e, sp) = Between(parsed \o <<arg>>)
    BY <1>7, <2>3, <2>5
  <2>7. T \in Words /\ Quoted(arg) = T
    BY <1>1, <1>2, <1>9 DEF T
  <2>8. Reads(s, T \o <<sp>>) = ParseChar(e, sp)
    BY <1>3, <2>7, ReadOn, ReadOne DEF e
  <2>. QED  BY <2>6, <2>7, <2>8 DEF s
<1>. QED  BY <1>8, <1>9

LEMMA QuotedIsWord ==
    /\ \A arg \in Words : Quoted(arg) \in Words
    /\ <<sp>> \in Words /\ sp \in Letters /\ <<>> \in Words /\ <<>> \in Seq(Words)
<1>1. sp \in Letters /\ <<>> \in Seq(Words) /\ <<>> \in Words
  BY LaunchAssumption DEF Words
<1>2. <<sp>> \in Words
  BY <1>1 DEF Words
<1>3. \A arg \in Words : Quoted(arg) \in Words
  <2>. TAKE arg \in Words
  <2>. QED  BY ONLY <1>1, arg \in Words, ArgRead
<1>. QED  BY <1>1, <1>2, <1>3

LEMMA Together ==
    ASSUME NEW a \in Words, NEW b \in Words, NEW c \in Words
    PROVE  (a \o b) \o c = a \o (b \o c)
<1>1. a \in Seq(Letters) /\ b \in Seq(Letters) /\ c \in Seq(Letters)
  BY DEF Words
<1>. QED  BY ONLY <1>1, ConcatAssociative

-----------------------------------------------------------------------------
\* Backslashes are doubled in no path: it has no quote, and none at its end.
LEMMA PathQuoted ==
    ASSUME NEW path \in Paths
    PROVE  /\ path \in Words /\ path # <<>> /\ path[Len(path)] # bs /\ \A k \in 1..Len(path) : path[k] # qt
           /\ Quoted(path) = IF Blank(path) THEN <<qt>> \o path \o <<qt>> ELSE path
<1> DEFINE n == Len(path)
<1>1. path \in Words /\ path # <<>> /\ path[n] # bs /\ \A k \in 1..n : path[k] # qt
  BY LaunchAssumption DEF Words, ToSet
<1>2. n \in Nat /\ n > 0 /\ \A k \in 1..n : path[k] \in Letters
  BY <1>1 DEF Words
<1>3. PICK h : /\ Written(h, path)
               /\ Quoted(path) = IF Blank(path) THEN <<qt>> \o h[n].text \o <<qt>> ELSE h[n].text
  BY <1>1, WrittenIs
<1> DEFINE Upto(k) == h[k].text = SubSeq(path, n - k + 1, n) /\ (k > 0 => ~h[k].double)
           T == {k \in Nat : k <= n /\ ~Upto(k)}
<1>4. Upto(n)
  <2>1. SUFFICES ASSUME T # {} PROVE FALSE
    <3>. HIDE DEF Upto
    <3>. QED  BY <1>2
  <2>2. PICK k \in T : \A j \in T : k <= j
    BY <2>1, Parsing!Least
  <2>3. Upto(0)
    <3>1. h[0].text = <<>> /\ SubSeq(path, n - 0 + 1, n) = <<>> /\ ~(0 > 0)
      BY <1>2, <1>3 DEF Written
    <3>. QED  BY <3>1
  <2>4. k - 1 \in Nat /\ k \in 1..n /\ Upto(k - 1)
    <3>1. k \in Nat /\ k <= n
      OBVIOUS
    <3>2. k # 0
      BY <2>2, <2>3
    <3>3. k - 1 \in Nat /\ k - 1 <= n /\ k - 1 < k
      BY <1>2, <3>1, <3>2
    <3>. HIDE DEF Upto
    <3>. QED  BY <1>2, <2>2, <3>1, <3>2, <3>3
  <2> DEFINE i == n - k + 1
             c == path[i]
  <2>5. i \in 1..n /\ i \in Nat /\ n - (k - 1) + 1 = i + 1
    BY <1>2, <2>4
  <2>6. h[k] = QuotedChar(h[k - 1], c) /\ h[k - 1] \in Ending
    BY <1>3, <2>4 DEF Written
  <2>7. c \in Letters /\ c # qt /\ (k - 1 = 0 => c # bs)
    BY <1>1, <1>2, <2>4, <2>5
  <2>8. h[k] = [text |-> <<c>> \o h[k - 1].text, double |-> FALSE]
    <3>1. CASE c = bs
      <4>1. k - 1 > 0
        BY <2>4, <2>7, <3>1
      <4>2. ~h[k - 1].double
        BY <2>4, <4>1
      <4>3. QuotedChar(h[k - 1], c) = [text |-> <<bs>> \o h[k - 1].text, double |-> FALSE]
        BY ONLY <2>6, <2>7, <3>1, <4>2, QuotedCharIs
      <4>. QED  BY <2>6, <3>1, <4>3
    <3>2. CASE c # bs
      BY ONLY <2>6, <2>7, <3>2, QuotedCharIs
    <3>. QED  BY <3>1, <3>2
  <2>9. <<c>> \o SubSeq(path, i + 1, n) = SubSeq(path, i, n)
    <3>1. SubSeq(path, i, i) = <<c>>
      <4> DEFINE w == SubSeq(path, i, i)
      <4>1. w \in Seq(Letters) /\ Len(w) = 1 /\ w[1] = c
        BY <1>1, <1>2, <2>5
      <4>. HIDE DEF w, c
      <4>2. w = <<c>>
        BY <4>1
      <4>. QED  BY <4>2 DEF w
    <3>2. SubSeq(path, i, i) \o SubSeq(path, i + 1, n) = SubSeq(path, i, n)
      <4>1. i \in 1..(Len(path) + 1) /\ i \in (i - 1)..Len(path) /\ n \in i..Len(path)
        BY <1>2, <2>5
      <4>. QED  BY <1>1, <4>1, ConcatAdjacentSubSeq DEF Words
    <3>. QED  BY <3>1, <3>2
  <2>10. h[k - 1].text = SubSeq(path, i + 1, n)
    BY <2>4, <2>5
  <2>11. Upto(k)
    BY <2>8, <2>9, <2>10
  <2>. QED  BY <2>2, <2>11
<1>5. h[n].text = path
  <2>1. n - n + 1 = 1 /\ SubSeq(path, 1, n) = path
    BY <1>1, <1>2 DEF Words
  <2>. QED  BY <1>4, <2>1
<1>. QED  BY <1>1, <1>3, <1>5

\* The command line with the first m arguments.
LineOf(path, args, m) == FlattenSeq(<<Quoted(path)>> \o [k \in 1..m |-> <<sp>> \o Quoted(args[k])])

LEMMA Flat ==
    ASSUME NEW s \in Seq(Words), NEW w \in Words
    PROVE  /\ FlattenSeq(s) \in Words /\ FlattenSeq(Append(s, w)) = FlattenSeq(s) \o w
           /\ FlattenSeq(<<>>) = <<>>
<1>1. Parsing!Joins
  BY DEF Parsing!Joins, Joined
<1>2. /\ Parsing!FlattenSeq(s) \in Seq(Letters)
      /\ Parsing!FlattenSeq(Append(s, w)) = Parsing!FlattenSeq(s) \o w
      /\ Parsing!FlattenSeq(<<>>) = <<>>
  BY ONLY <1>1, s \in Seq(Words), w \in Words, Parsing!FlattenAppend DEF Words
<1>3. \A t : Parsing!FlattenSeq(t) = FlattenSeq(t)
  BY DEF FlattenSeq, Parsing!FlattenSeq
<1>. QED  BY <1>2, <1>3 DEF Words

LEMMA QuotedWords ==
    ASSUME NEW args \in Seq(Words), NEW q \in Words, NEW m \in 0..(Len(args) - 1)
    PROVE  LET P(j) == <<q>> \o [k \in 1..j |-> <<sp>> \o Quoted(args[k])]
           IN  /\ P(m) \in Seq(Words) /\ <<sp>> \o Quoted(args[m + 1]) \in Words /\ P(0) = Append(<<>>, q)
               /\ P(m + 1) = Append(P(m), <<sp>> \o Quoted(args[m + 1]))
<1> DEFINE w(k) == <<sp>> \o Quoted(args[k])
           P(j) == <<q>> \o [k \in 1..j |-> w(k)]
           R(j) == [k \in 1..j |-> w(k)]
<1>1. \A k \in 1..Len(args) : w(k) \in Words
  <2>. TAKE k \in 1..Len(args)
  <2>1. args[k] \in Words
    OBVIOUS
  <2>2. Quoted(args[k]) \in Words /\ <<sp>> \in Words
    BY <2>1, QuotedIsWord
  <2>. QED  BY <2>2 DEF Words
<1>2. m \in Nat /\ m + 1 \in 1..Len(args) /\ Len(args) \in Nat /\ \A k \in 1..(m + 1) : k \in 1..Len(args)
  OBVIOUS
<1>. HIDE DEF w
<1>3. R(m) \in Seq(Words) /\ Len(R(m)) = m /\ \A k \in 1..m : R(m)[k] = w(k)
  BY <1>1, <1>2
<1>4. R(m + 1) \in Seq(Words) /\ Len(R(m + 1)) = m + 1 /\ \A k \in 1..(m + 1) : R(m + 1)[k] = w(k)
  BY <1>1, <1>2
<1>5. R(m + 1) = Append(R(m), w(m + 1))
  <2> DEFINE a == R(m + 1)
             b == Append(R(m), w(m + 1))
  <2>1. b \in Seq(Words) /\ Len(b) = m + 1 /\ \A k \in 1..(m + 1) : b[k] = w(k)
    <3>1. w(m + 1) \in Words
      BY <1>1, <1>2
    <3>. HIDE DEF R
    <3>. QED  BY <1>2, <1>3, <3>1
  <2>. HIDE DEF R, b
  <2>. QED  BY <1>4, <2>1, SeqEqual DEF b
<1>6. R(0) = <<>>
  OBVIOUS
<1>. HIDE DEF R
<1>7. <<q>> \o Append(R(m), w(m + 1)) = Append(<<q>> \o R(m), w(m + 1)) /\ <<q>> \o R(m) \in Seq(Words)
  <2>1. <<q>> \in Seq(Words) /\ w(m + 1) \in Words /\ <<w(m + 1)>> \in Seq(Words)
    BY <1>1, <1>2
  <2>2. <<q>> \o (R(m) \o <<w(m + 1)>>) = (<<q>> \o R(m)) \o <<w(m + 1)>>
    BY <1>3, <2>1, ConcatAssociative
  <2>3. <<q>> \o R(m) \in Seq(Words)
    BY <1>3, <2>1
  <2>4. \A u \in Seq(Words) : Append(u, w(m + 1)) = u \o <<w(m + 1)>>
    BY <2>1
  <2>. QED  BY <1>3, <2>2, <2>3, <2>4
<1>8. <<q>> \o <<>> = Append(<<>>, q)
  OBVIOUS
<1>9. P(m) = <<q>> \o R(m) /\ P(m + 1) = <<q>> \o R(m + 1) /\ P(0) = <<q>> \o R(0)
  BY DEF R
<1>. HIDE DEF P
<1>10. /\ P(m) \in Seq(Words) /\ w(m + 1) \in Words /\ P(0) = Append(<<>>, q)
       /\ P(m + 1) = Append(P(m), w(m + 1))
  BY <1>1, <1>2, <1>5, <1>6, <1>7, <1>8, <1>9
<1>. QED  BY <1>10 DEF P, w

\* What follows the path on the line is the arguments, each behind a space.
LEMMA LineRead ==
    ASSUME NEW path \in Paths, NEW args \in Seq(Words)
    PROVE  \A m \in 0..Len(args) : \E rest \in Words :
             /\ LineOf(path, args, m) = Quoted(path) \o rest
             /\ rest = <<>> \/ rest[1] = sp
             /\ Reads(Between(<<>>), rest \o <<sp>>) = Between(SubSeq(args, 1, m))
<1> DEFINE Q == Quoted(path)
           Upto(m) == \E rest \in Words :
                        /\ LineOf(path, args, m) = Q \o rest
                        /\ rest = <<>> \/ rest[1] = sp
                        /\ Reads(Between(<<>>), rest \o <<sp>>) = Between(SubSeq(args, 1, m))
           T == {m \in Nat : m <= Len(args) /\ ~Upto(m)}
<1>0. SUFFICES \A m \in 0..Len(args) : Upto(m)
  OBVIOUS
<1>1. SUFFICES ASSUME T # {} PROVE FALSE
  <2>1. Len(args) \in Nat
    OBVIOUS
  <2>. HIDE DEF Upto
  <2>. QED  BY <2>1
<1>2. PICK m \in T : \A j \in T : m <= j
  BY <1>1, Parsing!Least
<1>3. Q \in Words /\ <<sp>> \in Words /\ sp \in Letters /\ <<>> \in Words /\ <<>> \in Seq(Words)
  <2>1. path \in Words
    BY PathQuoted
  <2>. QED  BY <2>1, QuotedIsWord
<1>4. Upto(0)
  <2>1. LineOf(path, args, 0) = Q
    <3>1. [k \in 1..0 |-> <<sp>> \o Quoted(args[k])] = <<>>
      OBVIOUS
    <3>2. <<Q>> \o <<>> = Append(<<>>, Q)
      BY <1>3
    <3>. HIDE DEF Q
    <3>3. FlattenSeq(Append(<<>>, Q)) = <<>> \o Q
      BY <1>3, Flat
    <3>4. <<>> \o Q = Q
      BY <1>3 DEF Words
    <3>. QED  BY <3>1, <3>2, <3>3, <3>4 DEF LineOf, Q
  <2>2. Q \o <<>> = Q /\ SubSeq(args, 1, 0) = <<>>
    BY <1>3 DEF Words
  <2>3. Reads(Between(<<>>), <<>> \o <<sp>>) = Between(<<>>)
    <3>1. <<>> \o <<sp>> = <<sp>>
      BY <1>3 DEF Words
    <3>2. Between(<<>>) \in Parser /\ ~Between(<<>>).quoted /\ ~Between(<<>>).open
      BY <1>3 DEF Between, Parser
    <3>3. ParseChar(Between(<<>>), sp) = Between(<<>>)
      BY <1>3, <3>2, ParseIs
    <3>. QED  BY <1>3, <3>1, <3>3, ReadOne
  <2>. HIDE DEF Q
  <2>. QED  BY <1>3, <2>1, <2>2, <2>3
<1>5. m - 1 \in 0..(Len(args) - 1) /\ Upto(m - 1)
  <2>1. m \in Nat /\ m <= Len(args) /\ Len(args) \in Nat
    OBVIOUS
  <2>2. m # 0
    BY <1>2, <1>4
  <2>3. m - 1 \in Nat /\ m - 1 <= Len(args) /\ m - 1 < m
    BY <2>1, <2>2
  <2>. HIDE DEF Upto
  <2>. QED  BY <1>2, <2>1, <2>3
<1> DEFINE i == m - 1
           a == args[m]
           P(j) == <<Q>> \o [k \in 1..j |-> <<sp>> \o Quoted(args[k])]
<1>6. i + 1 = m /\ i \in Nat /\ m \in Nat /\ m \in 1..Len(args) /\ a \in Words
  BY <1>5
<1>7. PICK r \in Words : /\ LineOf(path, args, i) = Q \o r
                         /\ r = <<>> \/ r[1] = sp
                         /\ Reads(Between(<<>>), r \o <<sp>>) = Between(SubSeq(args, 1, i))
  BY <1>5
<1>8. /\ Quoted(a) \in Words /\ SubSeq(args, 1, i) \in Seq(Words)
      /\ Reads(Between(SubSeq(args, 1, i)), Quoted(a) \o <<sp>>) = Between(SubSeq(args, 1, i) \o <<a>>)
  <2>1. SubSeq(args, 1, i) \in Seq(Words)
    BY <1>6
  <2>. HIDE DEF i, a
  <2>. QED  BY <1>6, <2>1, ArgRead
<1> DEFINE e == <<sp>> \o Quoted(a)
           rest == r \o e
<1>9. e \in Words /\ rest \in Words /\ r \o <<sp>> \in Words /\ Quoted(a) \o <<sp>> \in Words
  BY <1>3, <1>8 DEF Words
<1>10. LineOf(path, args, m) = Q \o rest
  <2>1. /\ P(i) \in Seq(Words) /\ <<sp>> \o Quoted(args[i + 1]) \in Words
        /\ P(i + 1) = Append(P(i), <<sp>> \o Quoted(args[i + 1]))
    <3>. HIDE DEF Q
    <3>. QED  BY <1>3, <1>5, QuotedWords
  <2>2. LineOf(path, args, i) = FlattenSeq(P(i)) /\ LineOf(path, args, m) = FlattenSeq(P(m))
    BY DEF LineOf
  <2>. HIDE DEF P, Q, i
  <2>3. P(m) = Append(P(i), e)
    BY <1>6, <2>1
  <2>. HIDE DEF e
  <2>4. FlattenSeq(P(m)) = FlattenSeq(P(i)) \o e
    BY <1>9, <2>1, <2>3, Flat
  <2>5. (Q \o r) \o e = Q \o (r \o e)
    <3>1. Q \in Words /\ r \in Words /\ e \in Words
      BY <1>3, <1>9
    <3>. QED  BY ONLY <3>1, Together
  <2>. QED  BY <1>7, <2>2, <2>4, <2>5
<1>11. rest # <<>> /\ rest[1] = sp
  <2>1. e \in Seq(Letters) /\ Len(e) > 0 /\ e[1] = sp
    BY <1>3, <1>8 DEF Words
  <2>. HIDE DEF e
  <2>2. r \in Seq(Letters)
    BY DEF Words
  <2>3. CASE r = <<>>
    BY <2>1, <2>2, <2>3
  <2>4. CASE r # <<>>
    <3>1. r[1] = sp
      BY <1>7, <2>4
    <3>2. Len(r) > 0
      BY <2>2, <2>4
    <3>. QED  BY <2>1, <2>2, <3>1, <3>2
  <2>. QED  BY <2>3, <2>4
<1>12. Reads(Between(<<>>), rest \o <<sp>>) = Between(SubSeq(args, 1, m))
  <2>1. rest \o <<sp>> = (r \o <<sp>>) \o (Quoted(a) \o <<sp>>)
    <3> DEFINE q == Quoted(a)
               z == <<sp>>
    <3>1. q \in Words /\ z \in Words /\ r \in Words
      BY <1>3, <1>8
    <3>. HIDE DEF q, z
    <3>2. z \o q \in Words /\ q \o z \in Words
      BY <3>1 DEF Words
    <3>3. (r \o (z \o q)) \o z = r \o ((z \o q) \o z)
      BY <3>1, <3>2, Together
    <3>4. (z \o q) \o z = z \o (q \o z)
      BY <3>1, Together
    <3>5. (r \o z) \o (q \o z) = r \o (z \o (q \o z))
      BY <3>1, <3>2, Together
    <3>. QED  BY <3>3, <3>4, <3>5 DEF q, z
  <2>2. Reads(Between(<<>>), (r \o <<sp>>) \o (Quoted(a) \o <<sp>>))
          = Reads(Between(SubSeq(args, 1, i)), Quoted(a) \o <<sp>>)
    <3>1. Reads(Between(<<>>), (r \o <<sp>>) \o (Quoted(a) \o <<sp>>))
            = Reads(Reads(Between(<<>>), r \o <<sp>>), Quoted(a) \o <<sp>>)
      BY ONLY <1>9, ReadOn
    <3>. QED  BY <1>7, <3>1
  <2>3. SubSeq(args, 1, i) \o <<a>> = SubSeq(args, 1, m)
    <3>1. SubSeq(args, m, m) = <<a>>
      <4> DEFINE w == SubSeq(args, m, m)
      <4>1. w \in Seq(Words) /\ Len(w) = 1 /\ w[1] = a
        BY <1>6
      <4>. HIDE DEF w, a
      <4>2. w = <<a>>
        BY <4>1
      <4>. QED  BY <4>2 DEF w
    <3>2. SubSeq(args, 1, i) \o SubSeq(args, i + 1, m) = SubSeq(args, 1, m)
      <4>1. 1 \in 1..(Len(args) + 1) /\ i \in (1 - 1)..Len(args) /\ m \in i..Len(args)
        BY <1>6
      <4>. HIDE DEF i
      <4>. QED  BY <4>1, ConcatAdjacentSubSeq
    <3>. QED  BY <1>6, <3>1, <3>2
  <2>. QED  BY <1>8, <2>1, <2>2, <2>3
<1>13. Upto(m)
  <2>. HIDE DEF Q, rest
  <2>. QED  BY <1>9, <1>10, <1>11, <1>12
<1>. QED  BY <1>2, <1>13

LEMMA MinIs ==
    ASSUME NEW S \in SUBSET Nat, NEW m \in S, \A k \in S : m <= k
    PROVE  Min(S) = m
<1> DEFINE c == CHOOSE x \in S : \A y \in S : x =< y
<1>1. c \in S /\ \A y \in S : c =< y
  OBVIOUS
<1>2. c <= m /\ m <= c /\ c \in Nat /\ m \in Nat
  BY <1>1
<1>. HIDE DEF c
<1>3. c = m
  BY <1>2
<1>. QED  BY <1>3 DEF Min, c

LEMMA Parts ==
    ASSUME NEW a \in Words, NEW b \in Words
    PROVE  /\ a \o b \in Words /\ Len(a \o b) = Len(a) + Len(b)
           /\ \A k \in 1..Len(a) : (a \o b)[k] = a[k]
           /\ \A k \in 1..Len(b) : (a \o b)[Len(a) + k] = b[k]
           /\ SubSeq(a \o b, 1, Len(a)) = a
           /\ SubSeq(a \o b, Len(a) + 1, Len(a \o b)) = b
<1> DEFINE c == a \o b
           n == Len(a)
           m == Len(b)
<1>1. a \in Seq(Letters) /\ b \in Seq(Letters) /\ n \in Nat /\ m \in Nat
  BY DEF Words
<1>2. c \in Seq(Letters) /\ Len(c) = n + m
  BY <1>1
<1>3. \A k \in 1..n : c[k] = a[k]
  BY <1>1
<1>4. \A k \in 1..m : c[n + k] = b[k]
  <2>. TAKE k \in 1..m
  <2>1. n + k \in 1..(n + m) /\ ~(n + k <= n) /\ (n + k) - n = k
    BY <1>1
  <2>2. c[n + k] = b[(n + k) - n]
    BY <1>1, <2>1, ConcatProperties
  <2>. QED  BY <2>1, <2>2
<1>. HIDE DEF c, n, m
<1>5. \A k \in 1..(n + m) : c[k] \in Letters
  BY <1>1, <1>2
<1>6. SubSeq(c, 1, n) = a
  <2> DEFINE w == SubSeq(c, 1, n)
  <2>1. w \in Seq(Letters) /\ Len(w) = n /\ \A k \in 1..n : w[k] = c[k]
    BY <1>1, <1>5
  <2>2. Len(a) = n
    BY DEF n
  <2>. HIDE DEF w
  <2>3. w = a
    BY <1>1, <1>3, <2>1, <2>2, SeqEqual
  <2>. QED  BY <2>3 DEF w
<1>7. SubSeq(c, n + 1, n + m) = b
  <2> DEFINE w == SubSeq(c, n + 1, n + m)
  <2>1. n + 1 \in Int /\ n + m \in Int /\ \A k \in (n + 1)..(n + m) : c[k] \in Letters
    BY <1>1, <1>5
  <2>2. /\ w \in Seq(Letters) /\ Len(w) = (IF n + 1 <= n + m THEN (n + m) - (n + 1) + 1 ELSE 0)
        /\ \A k \in 1..((n + m) - (n + 1) + 1) : w[k] = c[(n + 1) + k - 1]
    BY ONLY <2>1, SubSeqProperties
  <2>3. Len(b) = m
    BY DEF m
  <2>. HIDE DEF w
  <2>4. Len(w) = m
    BY <1>1, <2>2
  <2>5. \A k \in 1..m : w[k] = b[k]
    <3>. TAKE k \in 1..m
    <3>1. (n + m) - (n + 1) + 1 = m /\ (n + 1) + k - 1 = n + k
      BY <1>1
    <3>. QED  BY <1>4, <2>2, <3>1
  <2>6. w = b
    BY <1>1, <2>2, <2>3, <2>4, <2>5, SeqEqual
  <2>. QED  BY <2>6 DEF w
<1>. QED  BY <1>2, <1>3, <1>4, <1>6, <1>7 DEF c, n, m, Words

\* A program reads the path and the arguments back from its command line.
THEOREM ArgumentsRead ==
    ASSUME NEW path \in Paths, NEW args \in Seq(Words)
    PROVE  Arguments(Exp_WinBuildCommandLine(path, args)) = <<path>> \o args
<1> DEFINE line == Exp_WinBuildCommandLine(path, args)
           p == Len(path)
<1>1. path \in Words /\ path # <<>> /\ \A k \in 1..p : path[k] # qt
  BY PathQuoted
<1>2. p \in Nat /\ p > 0 /\ \A k \in 1..p : path[k] \in Letters
  BY <1>1 DEF Words
<1>3. PICK rest \in Words :
        /\ line = Quoted(path) \o rest
        /\ rest = <<>> \/ rest[1] = sp
        /\ Reads(Between(<<>>), rest \o <<sp>>) = Between(args)
  <2>1. Len(args) \in 0..Len(args) /\ SubSeq(args, 1, Len(args)) = args /\ DOMAIN args = 1..Len(args)
    OBVIOUS
  <2>2. line = LineOf(path, args, Len(args))
    BY <2>1 DEF LineOf, Exp_WinBuildCommandLine
  <2>. HIDE DEF line
  <2>3. \E rest \in Words :
             /\ LineOf(path, args, Len(args)) = Quoted(path) \o rest
             /\ rest = <<>> \/ rest[1] = sp
             /\ Reads(Between(<<>>), rest \o <<sp>>) = Between(SubSeq(args, 1, Len(args)))
    BY <2>1, LineRead
  <2>. QED  BY <2>1, <2>2, <2>3
<1>4. ParseArgs(rest) = args
  <2>1. Between(args).done = args
    BY DEF Between
  <2>2. ParseArgs(rest) = Reads(Between(<<>>), rest \o <<sp>>).done
    BY DEF ParseArgs, Reads, Between
  <2>. QED  BY <1>3, <2>1, <2>2
<1> DEFINE r == Len(rest)
           end == FirstEnd(line)
<1>5. r \in Nat /\ (r > 0 => rest[1] = sp) /\ \A k \in 1..r : rest[k] \in Letters
  BY <1>3 DEF Words
<1>6. qt \in Letters /\ sp \in Letters /\ sp # qt
  BY LaunchAssumption DEF sp, qt
<1>. HIDE DEF line, p, r, end
<1>7. CASE Blank(path)
  <2> DEFINE q == (<<qt>> \o path) \o <<qt>>
  <2>1. line = q \o rest
    BY <1>3, <1>7, PathQuoted
  <2>2. /\ q \in Words /\ Len(q) = p + 2 /\ q[1] = qt /\ q[p + 2] = qt
        /\ \A k \in 1..p : q[k + 1] = path[k]
    <3>1. path \in Seq(Letters) /\ Len(path) = p
      BY <1>1 DEF Words, p
    <3>. QED  BY <1>2, <1>6, <3>1 DEF Words
  <2>. HIDE DEF q
  <2>3. /\ line \in Seq(Letters) /\ Len(line) = p + 2 + r /\ line[1] = qt /\ line[p + 2] = qt
        /\ \A k \in 1..p : line[k + 1] = path[k]
        /\ \A k \in 1..r : line[p + 2 + k] = rest[k]
    <3>1. /\ line \in Words /\ Len(line) = Len(q) + r
          /\ \A k \in 1..Len(q) : line[k] = q[k]
          /\ \A k \in 1..r : line[Len(q) + k] = rest[k]
      BY <2>1, <2>2, Parts DEF r
    <3>2. \A k \in 1..p : k + 1 \in 1..(p + 2)
      BY <1>2
    <3>3. 1 \in 1..(p + 2) /\ p + 2 \in 1..(p + 2)
      BY <1>2
    <3>4. line[1] = qt /\ line[p + 2] = qt /\ \A k \in 1..p : line[k + 1] = path[k]
      BY <2>2, <3>1, <3>2, <3>3
    <3>. QED  BY <2>2, <3>1, <3>4 DEF Words
  <2>4. end = p + 3
    <3> DEFINE S == {k \in 2..Len(line) : line[k] = qt}
    <3>1. p + 2 \in S /\ S \in SUBSET Nat
      BY <1>2, <1>5, <2>3
    <3>2. \A k \in S : p + 2 <= k
      <4>. SUFFICES ASSUME NEW k \in S, k < p + 2 PROVE FALSE
        BY <1>2, <3>1
      <4>1. k - 1 \in 1..p /\ (k - 1) + 1 = k
        BY <1>2, <2>3
      <4>2. line[k] = path[k - 1]
        BY <2>3, <4>1
      <4>. QED  BY <1>1, <4>1, <4>2
    <3>. HIDE DEF S
    <3>3. Min(S) = p + 2
      BY <3>1, <3>2, MinIs
    <3>4. end = 1 + Min(S)
      BY <2>3 DEF end, FirstEnd, S
    <3>. QED  BY <1>2, <3>3, <3>4
  <2>5. SubSeq(line, 2, end - 2) = path
    <3> DEFINE w == SubSeq(line, 2, p + 1)
    <3>1. \A k \in 2..(p + 1) : line[k] \in Letters
      <4>. TAKE k \in 2..(p + 1)
      <4>1. k \in 1..Len(line)
        BY <1>2, <1>5, <2>3
      <4>. QED  BY <2>3, <4>1
    <3>2. w \in Seq(Letters) /\ Len(w) = p /\ \A k \in 1..p : w[k] = line[k + 1]
      BY <1>2, <3>1
    <3>3. path \in Seq(Letters) /\ Len(path) = p
      BY <1>1 DEF Words, p
    <3>. HIDE DEF w
    <3>4. w = path
      BY <2>3, <3>2, <3>3, SeqEqual
    <3>5. end - 2 = p + 1
      BY <1>2, <2>4
    <3>. QED  BY <3>4, <3>5 DEF w
  <2>6. SubSeq(line, end, Len(line)) = rest
    <3>1. SubSeq(line, Len(q) + 1, Len(line)) = rest
      BY <2>1, <2>2, Parts
    <3>2. end = Len(q) + 1
      BY <1>2, <2>2, <2>4
    <3>. QED  BY <3>1, <3>2
  <2>7. Arguments(line) = <<path>> \o ParseArgs(rest)
    BY <2>3, <2>5, <2>6 DEF Arguments, end
  <2>. QED  BY <1>4, <2>7 DEF line
<1>8. CASE ~Blank(path)
  <2>1. line = path \o rest
    BY <1>3, <1>8, PathQuoted
  <2>2. \A k \in 1..p : path[k] # sp
    BY <1>1, <1>8 DEF Blank, ToSet, Words, p
  <2>3. /\ line \in Seq(Letters) /\ Len(line) = p + r
        /\ \A k \in 1..p : line[k] = path[k]
        /\ \A k \in 1..r : line[p + k] = rest[k]
    BY <1>1, <2>1, Parts DEF p, r, Words
  <2>4. line[1] # qt
    <3>1. 1 \in 1..p
      BY <1>2
    <3>. QED  BY <1>1, <2>3, <3>1
  <2>5. end = p + 1
    <3> DEFINE S == {k \in 1..Len(line) : line[k] = sp} \union {Len(line) + 1}
    <3>1. p + 1 \in S
      <4>1. CASE r = 0
        BY <2>3, <4>1, <1>2
      <4>2. CASE r # 0
        <5>1. r > 0 /\ 1 \in 1..r /\ p + 1 \in 1..Len(line)
          BY <1>2, <1>5, <2>3, <4>2
        <5>2. line[p + 1] = sp
          BY <1>5, <2>3, <5>1
        <5>. QED  BY <5>1, <5>2
      <4>. QED  BY <4>1, <4>2
    <3>2. S \in SUBSET Nat
      BY <1>2, <1>5, <2>3
    <3>3. \A k \in S : p + 1 <= k
      <4>. SUFFICES ASSUME NEW k \in S, k < p + 1 PROVE FALSE
        BY <1>2, <3>2
      <4>1. k \in 1..p
        BY <1>2, <1>5, <2>3
      <4>2. line[k] # sp
        BY <2>2, <2>3, <4>1
      <4>3. k # Len(line) + 1
        BY <1>2, <1>5, <2>3, <4>1
      <4>. QED  BY <4>2, <4>3
    <3>. HIDE DEF S
    <3>4. Min(S) = p + 1
      BY <3>1, <3>2, <3>3, MinIs
    <3>. QED  BY <2>4, <3>4 DEF end, FirstEnd, S
  <2>6. SubSeq(line, 1, end - 1) = path
    <3>1. SubSeq(line, 1, p) = path
      BY <1>1, <2>1, Parts DEF p
    <3>2. end - 1 = p
      BY <1>2, <2>5
    <3>. QED  BY <3>1, <3>2
  <2>7. SubSeq(line, end, Len(line)) = rest
    BY <1>1, <2>1, <2>5, Parts DEF p
  <2>8. Arguments(line) = <<path>> \o ParseArgs(rest)
    BY <2>4, <2>6, <2>7 DEF Arguments, end
  <2>. QED  BY <1>4, <2>8 DEF line
<1>. QED  BY <1>7, <1>8
-----------------------------------------------------------------------------
\* What Windows makes of a part of an environment block.
Split(s, text) == FoldLeft(StringChar, s, text)
Entries(d, w) == [done |-> d, cur |-> w]

LEMMA SplitOn ==
    ASSUME NEW s, NEW u \in Words, NEW v \in Words, NEW c \in Letters
    PROVE  /\ Split(s, u \o v) = Split(Split(s, u), v)
           /\ Split(s, Append(u, c)) = StringChar(Split(s, u), c)
           /\ Split(s, <<>>) = s
<1>1. u \in Seq(Letters) /\ v \in Seq(Letters)
  BY DEF Words
<1>2. Splitting!Fold(s, u \o v, 0) = Splitting!Fold(Splitting!Fold(s, u, 0), v, 0)
  BY ONLY <1>1, Splitting!FoldConcat
<1>3. /\ Splitting!Fold(s, Append(u, c), 0) = BlockStep(Splitting!Fold(s, u, 0), c, 0)
      /\ Splitting!Fold(s, <<>>, 0) = s
  BY ONLY <1>1, c \in Letters, Splitting!FoldAppend
<1>4. \A t, w : Split(t, w) = Splitting!Fold(t, w, 0)
  BY DEF Split, Splitting!Fold, BlockStep, FoldLeft, MapThenFoldSet, Splitting!FoldLeft, Splitting!MapThenFoldSet,
         Max, Splitting!Max
<1>. QED  BY <1>2, <1>3, <1>4 DEF BlockStep

Clean(w) == \A k \in 1..Len(w) : w[k] # nul

LEMMA WordSplit ==
    ASSUME NEW d \in Seq(Words), NEW w \in Words, Clean(w)
    PROVE  Split(Entries(d, <<>>), w \o <<nul>>) = Entries(d \o <<w>>, <<>>)
<1> DEFINE n == Len(w)
           s == Entries(d, <<>>)
           Upto(k) == Split(s, SubSeq(w, 1, k)) = Entries(d, SubSeq(w, 1, k))
           T == {k \in Nat : k <= n /\ ~Upto(k)}
<1>1. n \in Nat /\ SubSeq(w, 1, n) = w /\ SubSeq(w, 1, 0) = <<>> /\ nul \in Letters /\ <<>> \in Words
  BY LaunchAssumption DEF Words
<1>2. Upto(n)
  <2>1. SUFFICES ASSUME T # {} PROVE FALSE
    <3>. HIDE DEF Upto
    <3>. QED  BY <1>1
  <2>2. PICK k \in T : \A j \in T : k <= j
    BY <2>1, Splitting!Least
  <2>3. Upto(0)
    <3>1. Split(s, <<>>) = s
      BY <1>1, SplitOn
    <3>. QED  BY <1>1, <3>1
  <2>4. k - 1 \in 0..(n - 1) /\ (k - 1) + 1 = k /\ Upto(k - 1)
    <3>1. k \in Nat /\ k <= n
      OBVIOUS
    <3>2. k # 0
      BY <2>2, <2>3
    <3>3. k - 1 \in Nat /\ k - 1 <= n /\ k - 1 < k
      BY <1>1, <3>1, <3>2
    <3>. HIDE DEF Upto
    <3>. QED  BY <1>1, <2>2, <3>1, <3>2, <3>3
  <2> DEFINE c == w[k]
             u == SubSeq(w, 1, k - 1)
  <2>5. /\ c \in Letters /\ u \in Words /\ SubSeq(w, 1, k) = u \o <<c>> /\ SubSeq(w, 1, k) = Append(u, c)
    BY <2>4, OneMore
  <2>6. c # nul
    BY <1>1, <2>4 DEF Clean
  <2>7. StringChar(Entries(d, u), c) = Entries(d, u \o <<c>>)
    <3>. HIDE DEF c, u
    <3>. QED  BY <2>6 DEF StringChar, Entries
  <2>8. Split(s, Append(u, c)) = StringChar(Split(s, u), c)
    <3>. HIDE DEF c, u, s
    <3>. QED  BY <2>5, SplitOn
  <2>9. Upto(k)
    <3>1. Split(s, u) = Entries(d, u)
      BY <2>4
    <3>. HIDE DEF c, u, s
    <3>. QED  BY <2>5, <2>7, <2>8, <3>1
  <2>. QED  BY <2>2, <2>9
<1>3. Split(s, w) = Entries(d, w)
  BY <1>1, <1>2
<1>4. Append(w, nul) = w \o <<nul>>
  BY <1>1 DEF Words
<1>5. Split(s, w \o <<nul>>) = StringChar(Entries(d, w), nul)
  <2>. HIDE DEF s
  <2>1. Split(s, Append(w, nul)) = StringChar(Split(s, w), nul)
    BY ONLY <1>1, w \in Words, SplitOn
  <2>. QED  BY <1>3, <1>4, <2>1
<1>6. StringChar(Entries(d, w), nul) = Entries(d \o <<w>>, <<>>)
  BY DEF StringChar, Entries
<1>. QED  BY <1>5, <1>6

\* One variable of the block, and the first m of them.
Setting(list, k) == list[2 * k - 1] \o <<eq>> \o list[2 * k]
BlockOf(list, m) == FlattenSeq([k \in 1..m |-> Setting(list, k) \o <<nul>>])

LEMMA SettingIs ==
    ASSUME NEW list \in EnvLists, NEW k \in 1..(Len(list) \div 2)
    PROVE  /\ Setting(list, k) \in Words /\ Len(Setting(list, k)) > 0 /\ Clean(Setting(list, k))
           /\ Setting(list, k) \o <<nul>> \in Words
<1> DEFINE a == list[2 * k - 1]
           b == list[2 * k]
<1>1. list \in Seq(Words)
  BY LaunchAssumption DEF Words
<1>2. 2 * k - 1 \in 1..Len(list) /\ 2 * k \in 1..Len(list)
  BY <1>1
<1>3. a \in Words /\ b \in Words /\ nul \notin ToSet(a) /\ nul \notin ToSet(b)
  BY <1>1, <1>2, LaunchAssumption
<1>. HIDE DEF a, b
<1>4. (\A i \in 1..Len(a) : a[i] # nul) /\ (\A i \in 1..Len(b) : b[i] # nul)
  BY <1>3 DEF ToSet, Words
<1>5. eq # nul /\ eq \in Letters /\ nul \in Letters
  BY LaunchAssumption DEF eq, nul
<1> DEFINE z == <<eq>>
           c == a \o z
           w == c \o b
<1>6. z \in Words /\ Len(z) = 1 /\ z[1] = eq /\ <<nul>> \in Words
  BY <1>5 DEF Words
<1>. HIDE DEF z
<1>7. /\ c \in Words /\ Len(c) = Len(a) + 1 /\ \A i \in 1..Len(a) : c[i] = a[i]
      /\ \A i \in 1..1 : c[Len(a) + i] = z[i]
  <2>1. a \in Words /\ z \in Words /\ Len(z) = 1
    BY <1>3, <1>6
  <2>2. /\ a \o z \in Words /\ Len(a \o z) = Len(a) + Len(z)
        /\ \A i \in 1..Len(a) : (a \o z)[i] = a[i]
        /\ \A i \in 1..Len(z) : (a \o z)[Len(a) + i] = z[i]
    BY ONLY <2>1, Parts
  <2>. QED  BY <2>1, <2>2
<1>8. Len(a) \in Nat /\ Len(b) \in Nat
  BY <1>3 DEF Words
<1>. HIDE DEF c
<1>9. \A i \in 1..Len(c) : c[i] # nul
  <2>. TAKE i \in 1..Len(c)
  <2>1. CASE i <= Len(a)
    BY <1>4, <1>7, <1>8, <2>1
  <2>2. CASE ~(i <= Len(a))
    <3>1. i = Len(a) + 1 /\ 1 \in 1..1
      BY <1>7, <1>8, <2>2
    <3>. QED  BY <1>5, <1>6, <1>7, <3>1
  <2>. QED  BY <2>1, <2>2
<1>10. /\ w \in Words /\ Len(w) = Len(c) + Len(b) /\ \A i \in 1..Len(c) : w[i] = c[i]
       /\ \A i \in 1..Len(b) : w[Len(c) + i] = b[i]
  BY <1>3, <1>7, Parts
<1>. HIDE DEF w
<1>11. \A i \in 1..Len(w) : w[i] # nul
  <2>. TAKE i \in 1..Len(w)
  <2>0. Len(c) \in Nat
    BY <1>7, <1>8
  <2>1. CASE i <= Len(c)
    BY <1>9, <1>10, <2>0, <2>1
  <2>2. CASE ~(i <= Len(c))
    <3>1. i - Len(c) \in 1..Len(b) /\ Len(c) + (i - Len(c)) = i
      BY <1>8, <1>10, <2>0, <2>2
    <3>. QED  BY <1>4, <1>10, <3>1
  <2>. QED  BY <2>1, <2>2
<1>12. Len(w) > 0
  BY <1>7, <1>8, <1>10
<1>13. w \o <<nul>> \in Words
  BY <1>6, <1>10, Parts
<1>14. Setting(list, k) = w
  BY DEF Setting, w, c, z, a, b
<1>. QED  BY <1>10, <1>11, <1>12, <1>13, <1>14 DEF Clean

\* A part of the block that ends with a variable has no two NULs together.
Tight(w) == /\ w[1] # nul /\ w[Len(w)] = nul
            /\ \A k \in 1..(Len(w) - 1) : ~(w[k] = nul /\ w[k + 1] = nul)

LEMMA TightJoins ==
    ASSUME NEW f \in Words, f = <<>> \/ Tight(f), NEW w \in Words, Len(w) > 0, Clean(w)
    PROVE  f \o (w \o <<nul>>) \in Words /\ Tight(f \o (w \o <<nul>>)) /\ f \o (w \o <<nul>>) # <<>>
<1>1. nul \in Letters
  BY LaunchAssumption
<1> DEFINE z == <<nul>>
           e == w \o z
           g == f \o e
           n == Len(f)
           m == Len(w)
<1>2. z \in Words /\ Len(z) = 1 /\ z[1] = nul
  BY <1>1 DEF Words
<1>3. n \in Nat /\ m \in Nat /\ m > 0 /\ (n = 0 <=> f = <<>>)
  BY DEF Words
<1>. HIDE DEF z
<1>4. e \in Words /\ Len(e) = m + 1 /\ e[m + 1] = nul /\ \A k \in 1..m : e[k] = w[k] /\ e[k] # nul
  <2>1. /\ w \o z \in Words /\ Len(w \o z) = Len(w) + Len(z)
        /\ \A i \in 1..Len(w) : (w \o z)[i] = w[i]
        /\ \A i \in 1..Len(z) : (w \o z)[Len(w) + i] = z[i]
    BY ONLY <1>2, w \in Words, Parts
  <2>2. 1 \in 1..Len(z)
    BY <1>2
  <2>. QED  BY <1>2, <2>1, <2>2 DEF Clean
<1>. HIDE DEF e
<1>5. /\ g \in Words /\ Len(g) = n + Len(e) /\ \A k \in 1..n : g[k] = f[k]
      /\ \A k \in 1..Len(e) : g[n + k] = e[k]
  BY ONLY f \in Words, <1>4, Parts DEF n
<1>6. Len(g) = n + m + 1
  BY <1>3, <1>4, <1>5
<1>. HIDE DEF g, n, m
<1>7. g[1] # nul
  <2>1. CASE n = 0
    <3>1. 1 \in 1..Len(e) /\ 1 \in 1..m /\ n + 1 = 1
      BY <1>3, <1>4, <2>1
    <3>. QED  BY <1>4, <1>5, <3>1
  <2>2. CASE n # 0
    <3>1. 1 \in 1..n
      BY <1>3, <2>2
    <3>. QED  BY <1>3, <1>5, <2>2, <3>1 DEF Tight
  <2>. QED  BY <2>1, <2>2
<1>8. g[Len(g)] = nul
  <2>1. m + 1 \in 1..Len(e) /\ n + (m + 1) = n + m + 1
    BY <1>3, <1>4
  <2>. QED  BY <1>4, <1>5, <1>6, <2>1
<1>9. \A k \in 1..(Len(g) - 1) : ~(g[k] = nul /\ g[k + 1] = nul)
  <2>. TAKE k \in 1..(Len(g) - 1)
  <2>0. k \in 1..(n + m)
    BY <1>3, <1>6
  <2>1. CASE k < n
    <3>1. k \in 1..(n - 1) /\ k \in 1..n /\ k + 1 \in 1..n /\ n # 0
      BY <1>3, <2>0, <2>1
    <3>2. ~(f[k] = nul /\ f[k + 1] = nul)
      BY <1>3, <3>1 DEF Tight, n
    <3>. QED  BY <1>5, <3>1, <3>2
  <2>2. CASE k = n
    <3>1. 1 \in 1..Len(e) /\ 1 \in 1..m /\ k + 1 = n + 1
      BY <1>3, <1>4, <2>2
    <3>. QED  BY <1>4, <1>5, <3>1
  <2>3. CASE k > n
    <3>1. k - n \in 1..m /\ k - n \in 1..Len(e) /\ n + (k - n) = k
      BY <1>3, <1>4, <2>0, <2>3
    <3>. QED  BY <1>4, <1>5, <3>1
  <2>. QED  BY <1>3, <2>0, <2>1, <2>2, <2>3
<1>10. g # <<>>
  BY <1>3, <1>6
<1>. QED  BY <1>5, <1>7, <1>8, <1>9, <1>10 DEF Tight, g, e, z

LEMMA BlockSplit ==
    ASSUME NEW list \in EnvLists
    PROVE  \A m \in 0..(Len(list) \div 2) :
             /\ BlockOf(list, m) \in Words
             /\ (m = 0 /\ BlockOf(list, m) = <<>>) \/ (m > 0 /\ BlockOf(list, m) # <<>> /\ Tight(BlockOf(list, m)))
             /\ Split(Entries(<<>>, <<>>), BlockOf(list, m))
                  = Entries([k \in 1..m |-> Setting(list, k)], <<>>)
<1> DEFINE n == Len(list) \div 2
           f(m) == BlockOf(list, m)
           E(k) == Setting(list, k) \o <<nul>>
           S(m) == [k \in 1..m |-> Setting(list, k)]
           Upto(m) == /\ f(m) \in Words
                      /\ (m = 0 /\ f(m) = <<>>) \/ (m > 0 /\ f(m) # <<>> /\ Tight(f(m)))
                      /\ Split(Entries(<<>>, <<>>), f(m)) = Entries(S(m), <<>>)
           T == {m \in Nat : m <= n /\ ~Upto(m)}
<1>0. SUFFICES \A m \in 0..n : Upto(m)
  OBVIOUS
<1>1. n \in Nat
  <2>1. list \in Seq(Words)
    BY LaunchAssumption DEF Words
  <2>. QED  BY <2>1
<1>2. SUFFICES ASSUME T # {} PROVE FALSE
  <2>. HIDE DEF Upto
  <2>. QED  BY <1>1
<1>3. PICK m \in T : \A j \in T : m <= j
  BY <1>2, Splitting!Least
<1>4. Upto(0)
  <2>1. f(0) = <<>>
    <3>1. [k \in 1..0 |-> E(k)] = <<>>
      OBVIOUS
    <3>2. FlattenSeq(<<>>) = <<>>
      BY QuotedIsWord, Flat
    <3>. QED  BY <3>1, <3>2 DEF BlockOf
  <2>2. S(0) = <<>>
    OBVIOUS
  <2>3. Split(Entries(<<>>, <<>>), <<>>) = Entries(<<>>, <<>>)
    BY QuotedIsWord, SplitOn
  <2>4. f(0) \in Words
    BY <2>1, QuotedIsWord
  <2>. HIDE DEF f, S
  <2>5. Split(Entries(<<>>, <<>>), f(0)) = Entries(S(0), <<>>)
    BY <2>1, <2>2, <2>3
  <2>6. (0 = 0 /\ f(0) = <<>>) \/ (0 > 0 /\ f(0) # <<>> /\ Tight(f(0)))
    BY <2>1
  <2>. QED  BY <2>4, <2>5, <2>6
<1>5. m - 1 \in Nat /\ m \in 1..n /\ Upto(m - 1)
  <2>1. m \in Nat /\ m <= n
    OBVIOUS
  <2>2. m # 0
    BY <1>3, <1>4
  <2>3. m - 1 \in Nat /\ m - 1 <= n /\ m - 1 < m
    BY <1>1, <2>1, <2>2
  <2>. HIDE DEF Upto
  <2>. QED  BY <1>1, <1>3, <2>1, <2>2, <2>3
<1>6. \A k \in 1..n : /\ Setting(list, k) \in Words /\ Len(Setting(list, k)) > 0
                      /\ Clean(Setting(list, k)) /\ E(k) \in Words
  BY SettingIs
<1>7. /\ [k \in 1..(m - 1) |-> E(k)] \in Seq(Words) /\ S(m - 1) \in Seq(Words)
      /\ [k \in 1..m |-> E(k)] = Append([k \in 1..(m - 1) |-> E(k)], E(m))
      /\ S(m) = S(m - 1) \o <<Setting(list, m)>>
  <2> DEFINE w(k) == Setting(list, k)
  <2>1. \A k \in 1..m : k \in 1..n
    BY <1>1, <1>5
  <2>. HIDE DEF w, E
  <2>2. /\ [k \in 1..m |-> E(k)] = Append([k \in 1..(m - 1) |-> E(k)], E(m))
        /\ [k \in 1..(m - 1) |-> E(k)] \in Seq(Words)
    <3> DEFINE a == [k \in 1..m |-> E(k)]
               b == [k \in 1..(m - 1) |-> E(k)]
    <3>1. a \in Seq(Words) /\ Len(a) = m /\ \A k \in 1..m : a[k] = E(k)
      BY <1>5, <1>6, <2>1
    <3>2. b \in Seq(Words) /\ Len(b) = m - 1 /\ \A k \in 1..(m - 1) : b[k] = E(k)
      BY <1>5, <1>6, <2>1
    <3>3. E(m) \in Words
      BY <1>5, <1>6
    <3>. HIDE DEF a, b
    <3>4. /\ Append(b, E(m)) \in Seq(Words) /\ Len(Append(b, E(m))) = m
          /\ \A k \in 1..m : Append(b, E(m))[k] = E(k)
      BY <1>5, <3>2, <3>3
    <3>5. a = Append(b, E(m))
      BY <3>1, <3>4, SeqEqual
    <3>. QED  BY <3>2, <3>5 DEF a, b
  <2>3. /\ [k \in 1..m |-> w(k)] = [k \in 1..(m - 1) |-> w(k)] \o <<w(m)>>
        /\ [k \in 1..(m - 1) |-> w(k)] \in Seq(Words)
    <3> DEFINE a == [k \in 1..m |-> w(k)]
               b == [k \in 1..(m - 1) |-> w(k)]
    <3>0. \A k \in 1..n : w(k) \in Words
      BY <1>6 DEF w
    <3>1. a \in Seq(Words) /\ Len(a) = m /\ \A k \in 1..m : a[k] = w(k)
      BY <1>5, <3>0, <2>1
    <3>2. b \in Seq(Words) /\ Len(b) = m - 1 /\ \A k \in 1..(m - 1) : b[k] = w(k)
      BY <1>5, <3>0, <2>1
    <3>3. w(m) \in Words
      BY <1>5, <3>0
    <3>. HIDE DEF a, b
    <3>4. /\ Append(b, w(m)) \in Seq(Words) /\ Len(Append(b, w(m))) = m
          /\ \A k \in 1..m : Append(b, w(m))[k] = w(k)
      BY <1>5, <3>2, <3>3
    <3>5. a = Append(b, w(m))
      BY <3>1, <3>4, SeqEqual
    <3>6. Append(b, w(m)) = b \o <<w(m)>>
      BY <3>2, <3>3
    <3>. QED  BY <3>2, <3>5, <3>6 DEF a, b
  <2>. QED  BY <2>2, <2>3 DEF w
<1>8. f(m) = f(m - 1) \o E(m)
  <2>1. FlattenSeq(Append([k \in 1..(m - 1) |-> E(k)], E(m)))
          = FlattenSeq([k \in 1..(m - 1) |-> E(k)]) \o E(m)
    <3>1. E(m) \in Words
      BY <1>5, <1>6
    <3>. HIDE DEF E, S
    <3>. QED  BY <1>7, <3>1, Flat
  <2>. QED  BY <1>7, <2>1 DEF BlockOf
<1> DEFINE g == f(m - 1)
           w == Setting(list, m)
<1>9. g \in Words /\ (g = <<>> \/ Tight(g)) /\ Split(Entries(<<>>, <<>>), g) = Entries(S(m - 1), <<>>)
  BY <1>5
<1>10. w \in Words /\ Len(w) > 0 /\ Clean(w) /\ w \o <<nul>> \in Words
  BY <1>5, <1>6
<1>11. f(m) = g \o (w \o <<nul>>)
  BY <1>8
<1>. HIDE DEF f, g, w, E
<1>12. f(m) \in Words /\ f(m) # <<>> /\ Tight(f(m))
  <2>1. g \o (w \o <<nul>>) \in Words /\ Tight(g \o (w \o <<nul>>)) /\ g \o (w \o <<nul>>) # <<>>
    BY ONLY <1>9, <1>10, TightJoins
  <2>. QED  BY <1>11, <2>1
<1>13. Split(Entries(<<>>, <<>>), f(m)) = Entries(S(m), <<>>)
  <2>1. Split(Entries(<<>>, <<>>), g \o (w \o <<nul>>)) = Split(Split(Entries(<<>>, <<>>), g), w \o <<nul>>)
    BY <1>9, <1>10, QuotedIsWord, SplitOn
  <2>. HIDE DEF S
  <2>2. Split(Entries(S(m - 1), <<>>), w \o <<nul>>) = Entries(S(m - 1) \o <<w>>, <<>>)
    BY <1>7, <1>10, WordSplit
  <2>. QED  BY <1>7, <1>9, <1>11, <2>1, <2>2 DEF w
<1>14. m > 0
  BY <1>5
<1>15. Upto(m)
  <2>. HIDE DEF S
  <2>. QED  BY <1>12, <1>13, <1>14
<1>. QED  BY <1>3, <1>15

\* A program finds in its block the variables that -environment listed.
THEOREM SettingsRead ==
    ASSUME NEW list \in EnvLists, list # <<>>, Len(list) % 2 = 0
    PROVE  Strings(Env(list)) = [k \in 1 .. Len(list) \div 2 |->
                                   list[2 * k - 1] \o <<eq>> \o list[2 * k]]
<1> DEFINE n == Len(list) \div 2
           f == BlockOf(list, n)
           b == f \o <<nul>>
           S == {k \in 1..(Len(b) - 1) : b[k] = nul /\ b[k + 1] = nul}
<1>1. n \in Nat /\ n > 0
  <2>1. list \in Seq(Words)
    BY LaunchAssumption DEF Words
  <2>2. Len(list) \in Nat /\ Len(list) # 0
    BY <2>1
  <2>. QED  BY <2>2
<1>2. /\ f \in Words /\ f # <<>> /\ Tight(f)
      /\ Split(Entries(<<>>, <<>>), f) = Entries([k \in 1..n |-> Setting(list, k)], <<>>)
  <2>1. n \in 0..n /\ n # 0
    BY <1>1
  <2>. HIDE DEF f
  <2>. QED  BY <2>1, BlockSplit DEF f
<1>3. Env(list) = b
  BY DEF Env, BlockOf, Setting
<1>. HIDE DEF n, f
<1>4. Len(f) \in Nat /\ Len(f) > 0
  BY <1>2 DEF Words
<1>5. <<nul>> \in Words /\ Len(<<nul>>) = 1 /\ <<nul>>[1] = nul
  BY LaunchAssumption DEF Words
<1>6. /\ b \in Words /\ Len(b) = Len(f) + 1 /\ \A k \in 1..Len(f) : b[k] = f[k]
      /\ b[Len(f) + 1] = nul /\ SubSeq(b, 1, Len(f)) = f
  <2> DEFINE z == <<nul>>
  <2>1. z \in Words /\ Len(z) = 1 /\ z[1] = nul /\ 1 \in 1..Len(z)
    BY <1>5
  <2>. HIDE DEF z
  <2>2. /\ f \o z \in Words /\ Len(f \o z) = Len(f) + Len(z)
        /\ \A k \in 1..Len(f) : (f \o z)[k] = f[k]
        /\ \A k \in 1..Len(z) : (f \o z)[Len(f) + k] = z[k]
        /\ SubSeq(f \o z, 1, Len(f)) = f
    BY ONLY <1>2, <2>1, Parts
  <2>3. b = f \o z
    BY DEF z
  <2>. HIDE DEF b
  <2>. QED  BY <2>1, <2>2, <2>3
<1>. HIDE DEF b
<1>7. Min(S) = Len(f)
  <2>1. S \in SUBSET Nat
    OBVIOUS
  <2>2. Len(f) \in S
    <3>1. Len(f) \in 1..(Len(b) - 1) /\ Len(f) \in 1..Len(f)
      BY <1>4, <1>6
    <3>2. f[Len(f)] = nul
      BY <1>2 DEF Tight
    <3>. QED  BY <1>6, <3>1, <3>2
  <2>3. \A k \in S : Len(f) <= k
    <3>. SUFFICES ASSUME NEW k \in S, k < Len(f) PROVE FALSE
      BY <1>4, <2>1
    <3>1. k \in 1..(Len(f) - 1) /\ k \in 1..Len(f) /\ k + 1 \in 1..Len(f)
      BY <1>4, <1>6
    <3>2. ~(f[k] = nul /\ f[k + 1] = nul)
      BY <1>2, <3>1 DEF Tight
    <3>. QED  BY <1>6, <3>1, <3>2
  <2>. HIDE DEF S
  <2>. QED  BY <2>1, <2>2, <2>3, MinIs
<1>8. Strings(b) = Split(Entries(<<>>, <<>>), f).done
  <2>1. Strings(b) = FoldLeft(StringChar, Entries(<<>>, <<>>), SubSeq(b, 1, Min(S))).done
    BY DEF Strings, Entries
  <2>. HIDE DEF S
  <2>. QED  BY <1>6, <1>7, <2>1 DEF Split
<1>9. Entries([k \in 1..n |-> Setting(list, k)], <<>>).done = [k \in 1..n |-> Setting(list, k)]
  BY DEF Entries
<1>. QED  BY <1>2, <1>3, <1>8, <1>9 DEF Setting, n
-----------------------------------------------------------------------------
\* Errors of the search, which say nothing of a file that was found.
SearchErrors == {"none", "FILE_NOT_FOUND", "ACCESS_DENIED"}

LEMMA PairIs ==
    ASSUME NEW r, NEW a, NEW b, r = <<a, b>>
    PROVE  r[1] = a /\ r[2] = b
OBVIOUS

LEMMA PortableIs ==
    ASSUME NEW f \in Files
    PROVE  /\ Portable(f)[1] \in {WIN32CUI, WIN64CUI} <=>
                f.executable /\ f.magic \in {32, 64} /\ ~f.dll
                  /\ f.subsystem \in {"WINDOWS_CUI", "OS2_CUI", "POSIX_CUI"}
           /\ Portable(f)[1] = NONE /\ Portable(f)[2] = "" => f.subsystem = "other"
           /\ Portable(f)[2] \notin SearchErrors
<1> DEFINE off == IF f.magic = 64 THEN 4 ELSE 0
<1>e. \A e \in {"", "BAD_EXE_FORMAT", "INVALID_MODULETYPE", "READ_FAULT", "INVALID_EXE_SIGNATURE"} :
        e \notin SearchErrors
  BY DEF SearchErrors
<1>1. f.subsystem \in Subsystems /\ f.executable \in BOOLEAN /\ f.dll \in BOOLEAN /\ off \in {0, 4}
  BY LaunchAssumption
<1>2. /\ WIN32CUI + off \in {WIN32CUI, WIN64CUI}
      /\ WIN32GUI + off \notin {NONE, WIN32CUI, WIN64CUI}
      /\ WIN32DRV + off \notin {NONE, WIN32CUI, WIN64CUI}
      /\ WIN32DLL + off \notin {NONE, WIN32CUI, WIN64CUI}
      /\ NONE \notin {WIN32CUI, WIN64CUI}
  BY <1>1 DEF WIN32CUI, WIN64CUI, WIN32GUI, WIN32DRV, WIN32DLL, NONE
<1>. HIDE DEF off
<1>3. CASE ~f.executable
  <2>1. Portable(f) = <<NONE, "BAD_EXE_FORMAT">>
    BY <1>3 DEF Portable
  <2>p. Portable(f)[1] = (NONE) /\ Portable(f)[2] = "BAD_EXE_FORMAT"
    BY <2>1, PairIs
  <2>. QED  BY <1>e, <1>2, <1>3, <2>p
<1>4. CASE f.executable /\ f.magic \notin {32, 64}
  <2>1. Portable(f) = <<NONE, "INVALID_MODULETYPE">>
    BY <1>4 DEF Portable
  <2>p. Portable(f)[1] = (NONE) /\ Portable(f)[2] = "INVALID_MODULETYPE"
    BY <2>1, PairIs
  <2>. QED  BY <1>e, <1>2, <1>4, <2>p
<1>5. CASE f.executable /\ f.magic \in {32, 64} /\ f.dll
  <2>1. Portable(f) = <<WIN32DLL + off, "">>
    BY <1>5 DEF Portable, off
  <2>p. Portable(f)[1] = (WIN32DLL + off) /\ Portable(f)[2] = ""
    BY <2>1, PairIs
  <2>. QED  BY <1>e, <1>2, <1>5, <2>p
<1>6. CASE f.executable /\ f.magic \in {32, 64} /\ ~f.dll
  <2>1. CASE f.subsystem \in {"WINDOWS_CUI", "OS2_CUI", "POSIX_CUI"}
    <3>1. Portable(f) = <<WIN32CUI + off, "">>
      BY <1>6, <2>1 DEF Portable, off
    <3>p. Portable(f)[1] = (WIN32CUI + off) /\ Portable(f)[2] = ""
      BY <3>1, PairIs
    <3>. QED  BY <1>e, <1>2, <1>6, <2>1, <3>p
  <2>2. CASE f.subsystem \in {"WINDOWS_GUI", "WINDOWS_CE_GUI"}
    <3>1. Portable(f) = <<WIN32GUI + off, "">>
      BY <1>6, <2>2 DEF Portable, off
    <3>p. Portable(f)[1] = (WIN32GUI + off) /\ Portable(f)[2] = ""
      BY <3>1, PairIs
    <3>. QED  BY <1>e, <1>2, <1>6, <2>2, <3>p
  <2>3. CASE f.subsystem \in {"UNKNOWN", "NATIVE", "NATIVE_WINDOWS"}
    <3>1. Portable(f) = <<WIN32DRV + off, "">>
      BY <1>6, <2>3 DEF Portable, off
    <3>p. Portable(f)[1] = (WIN32DRV + off) /\ Portable(f)[2] = ""
      BY <3>1, PairIs
    <3>. QED  BY <1>e, <1>2, <1>6, <2>3, <3>p
  <2>4. CASE f.subsystem = "other"
    <3>1. Portable(f) = <<NONE, "">>
      BY <1>6, <2>4 DEF Portable
    <3>p. Portable(f)[1] = (NONE) /\ Portable(f)[2] = ""
      BY <3>1, PairIs
    <3>. QED  BY <1>e, <1>2, <1>6, <2>4, <3>p
  <2>. QED  BY <1>1, <2>1, <2>2, <2>3, <2>4 DEF Subsystems
<1>. QED  BY <1>1, <1>3, <1>4, <1>5, <1>6

LEMMA SegmentedIs ==
    ASSUME NEW f \in Files
    PROVE  /\ Segmented(f)[1] \notin {WIN32CUI, WIN64CUI}
           /\ Segmented(f)[1] = NONE => Segmented(f)[2] # ""
           /\ Segmented(f)[2] \notin SearchErrors
<1>e. \A e \in {"", "BAD_EXE_FORMAT", "INVALID_MODULETYPE", "READ_FAULT", "INVALID_EXE_SIGNATURE"} :
        e \notin SearchErrors
  BY DEF SearchErrors
<1>1. f.driver \in BOOLEAN
  BY LaunchAssumption
<1>2. \A n \in {OS2DRV, OS2, WIN16DRV, WIN16, DOS16} : n \notin {NONE, WIN32CUI, WIN64CUI}
  BY DEF OS2DRV, OS2, WIN16DRV, WIN16, DOS16, WIN32CUI, WIN64CUI, NONE
<1>3. NONE \notin {WIN32CUI, WIN64CUI}
  BY DEF WIN32CUI, WIN64CUI, NONE
<1>4. CASE f.exetyp = "OS2"
  <2>1. Segmented(f) = <<IF f.driver THEN OS2DRV ELSE OS2, "">>
    BY <1>4 DEF Segmented
  <2>p. Segmented(f)[1] = (IF f.driver THEN OS2DRV ELSE OS2) /\ Segmented(f)[2] = ""
    BY <2>1, PairIs
  <2>. QED  BY <1>e, <1>1, <1>2, <2>p
<1>5. CASE f.exetyp \in {"WIN", "WIN386"}
  <2>1. Segmented(f) = <<IF f.driver THEN WIN16DRV ELSE WIN16, "">>
    BY <1>5 DEF Segmented
  <2>p. Segmented(f)[1] = (IF f.driver THEN WIN16DRV ELSE WIN16) /\ Segmented(f)[2] = ""
    BY <2>1, PairIs
  <2>. QED  BY <1>e, <1>1, <1>2, <2>p
<1>6. CASE f.exetyp = "DOS4X"
  <2>1. Segmented(f) = <<DOS16, "">>
    BY <1>6 DEF Segmented
  <2>p. Segmented(f)[1] = (DOS16) /\ Segmented(f)[2] = ""
    BY <2>1, PairIs
  <2>. QED  BY <1>e, <1>2, <2>p
<1>7. CASE f.exetyp \notin {"OS2", "WIN", "WIN386", "DOS4X"}
  <2>1. Segmented(f) = <<NONE, "INVALID_MODULETYPE">>
    BY <1>7 DEF Segmented
  <2>p. Segmented(f)[1] = (NONE) /\ Segmented(f)[2] = "INVALID_MODULETYPE"
    BY <2>1, PairIs
  <2>. QED  BY <1>e, <1>3, <2>p
<1>. QED  BY <1>4, <1>5, <1>6, <1>7

LEMMA ApplicationTypeIs ==
    ASSUME NEW f \in Files
    PROVE  LET type == Exp_WinApplicationType(f)[1]
               why == Exp_WinApplicationType(f)[2]
           IN  /\ type \in {WIN32CUI, WIN64CUI} <=> ConsoleProgram(f)
               /\ type = NONE /\ why = "" => f.dos = "new" /\ f.sig = "PE" /\ f.subsystem = "other"
               /\ why \notin SearchErrors
<1> DEFINE r == Exp_WinApplicationType(f)
           Goal(x) == /\ x[1] \in {WIN32CUI, WIN64CUI} <=> ConsoleProgram(f)
                      /\ x[1] = NONE /\ x[2] = "" => f.dos = "new" /\ f.sig = "PE" /\ f.subsystem = "other"
                      /\ x[2] \notin SearchErrors
<1>e. \A e \in {"", "BAD_EXE_FORMAT", "INVALID_MODULETYPE", "READ_FAULT", "INVALID_EXE_SIGNATURE"} :
        e \notin SearchErrors
  BY DEF SearchErrors
<1>1. /\ f.readable \in BOOLEAN /\ f.dos \in {"none", "old", "bogus", "new"}
      /\ f.sig \in {"PE", "NE", "LE", "LX", "W3", "W4", "other"}
  BY LaunchAssumption
<1>2. NONE \notin {WIN32CUI, WIN64CUI} /\ \A n \in {BATCH, DOS16, WIN16DRV} : n \notin {NONE, WIN32CUI, WIN64CUI}
  BY DEF BATCH, DOS16, WIN16DRV, WIN32CUI, WIN64CUI, NONE
<1>3. CASE f.ext \in {".bat", ".cmd"}
  <2>1. r = <<BATCH, "">>
    BY <1>3 DEF Exp_WinApplicationType
  <2>p. r[1] = (BATCH) /\ r[2] = ""
    BY <2>1, PairIs
  <2>. QED  BY <1>e, <1>2, <1>3, <2>p DEF ConsoleProgram
<1>4. CASE f.ext \notin {".bat", ".cmd"} /\ ~f.readable
  <2>1. r = <<NONE, "READ_FAULT">>
    BY <1>4 DEF Exp_WinApplicationType
  <2>p. r[1] = (NONE) /\ r[2] = "READ_FAULT"
    BY <2>1, PairIs
  <2>. QED  BY <1>e, <1>2, <1>4, <2>p DEF ConsoleProgram
<1>5. CASE f.ext \notin {".bat", ".cmd"} /\ f.readable /\ f.dos # "new"
  <2>1. ~ConsoleProgram(f)
    BY <1>5 DEF ConsoleProgram
  <2>2. CASE f.dos = "none" /\ f.ext = ".com"
    <3>1. r = <<DOS16, "">>
      BY <1>5, <2>2 DEF Exp_WinApplicationType
    <3>p. r[1] = (DOS16) /\ r[2] = ""
      BY <3>1, PairIs
    <3>. QED  BY <1>e, <1>2, <2>1, <3>p
  <2>3. CASE f.dos = "none" /\ f.ext # ".com"
    <3>1. r = <<NONE, "INVALID_EXE_SIGNATURE">>
      BY <1>5, <2>3 DEF Exp_WinApplicationType
    <3>p. r[1] = (NONE) /\ r[2] = "INVALID_EXE_SIGNATURE"
      BY <3>1, PairIs
    <3>. QED  BY <1>e, <1>2, <2>1, <3>p
  <2>4. CASE f.dos = "old"
    <3>1. r = <<DOS16, "">>
      BY <1>5, <2>4 DEF Exp_WinApplicationType
    <3>p. r[1] = (DOS16) /\ r[2] = ""
      BY <3>1, PairIs
    <3>. QED  BY <1>e, <1>2, <2>1, <3>p
  <2>5. CASE f.dos = "bogus"
    <3>1. r = <<NONE, "BAD_EXE_FORMAT">>
      BY <1>5, <2>5 DEF Exp_WinApplicationType
    <3>p. r[1] = (NONE) /\ r[2] = "BAD_EXE_FORMAT"
      BY <3>1, PairIs
    <3>. QED  BY <1>e, <1>2, <2>1, <3>p
  <2>. QED  BY <1>1, <1>5, <2>2, <2>3, <2>4, <2>5
<1>6. CASE f.ext \notin {".bat", ".cmd"} /\ f.readable /\ f.dos = "new"
  <2>1. CASE f.sig = "PE"
    <3>1. r = Portable(f)
      BY <1>6, <2>1 DEF Exp_WinApplicationType
    <3>2. ConsoleProgram(f) <=> f.executable /\ f.magic \in {32, 64} /\ ~f.dll
                                  /\ f.subsystem \in {"WINDOWS_CUI", "OS2_CUI", "POSIX_CUI"}
      BY <1>6, <2>1 DEF ConsoleProgram
    <3>. QED  BY <1>6, <2>1, <3>1, <3>2, PortableIs
  <2>2. CASE f.sig = "NE"
    <3>1. r = Segmented(f)
      BY <1>6, <2>2 DEF Exp_WinApplicationType
    <3>2. ~ConsoleProgram(f)
      BY <2>2 DEF ConsoleProgram
    <3>. QED  BY <3>1, <3>2, SegmentedIs
  <2>3. CASE f.sig \in {"LE", "LX", "W3", "W4"}
    <3>1. r = <<WIN16DRV, "">>
      BY <1>6, <2>3 DEF Exp_WinApplicationType
    <3>p. r[1] = WIN16DRV /\ r[2] = ""
      BY <3>1, PairIs
    <3>2. ~ConsoleProgram(f)
      BY <2>3 DEF ConsoleProgram
    <3>. QED  BY <1>e, <1>2, <3>p, <3>2
  <2>4. CASE f.sig = "other"
    <3>1. r = <<NONE, "INVALID_EXE_SIGNATURE">>
      BY <1>6, <2>4 DEF Exp_WinApplicationType
    <3>p. r[1] = NONE /\ r[2] = "INVALID_EXE_SIGNATURE"
      BY <3>1, PairIs
    <3>2. ~ConsoleProgram(f)
      BY <2>4 DEF ConsoleProgram
    <3>. QED  BY <1>e, <1>2, <3>p, <3>2
  <2>. QED  BY <1>1, <2>1, <2>2, <2>3, <2>4
<1>. QED  BY <1>1, <1>3, <1>4, <1>5, <1>6
-----------------------------------------------------------------------------
LaunchType ==
    /\ stage \in {"options", "channel", "environment", "search", "start"} \union Ends
    /\ opts \in [pty : BOOLEAN, leave : BOOLEAN, channel : BOOLEAN, env : BOOLEAN]
    /\ suffix \in 1..Len(Extensions)
    /\ found \in Files \union {NoFile}
    /\ command \in [line : Words, block : Words, path : Words, args : Seq(Words), env : EnvLists \union {<<>>}]
    /\ process \in [alive : BOOLEAN, event : {0, 2, 3}]

\* What was given to -environment, and the block that was made of it.
Environment ==
    /\ opts.env => command.env \in EnvLists /\ Len(command.env) % 2 = 0
    /\ opts.env /\ stage \in {"search", "start", "spawned"} =>
         command.env # <<>> /\ command.block = Env(command.env)

\* The file that was found, and what is said of it.
Image ==
    /\ found # NoFile => stage \in {"start", "spawned", "failed"}
    /\ stage \in {"start", "spawned"} => ConsoleProgram(found)
    /\ stage = "failed" /\ found # NoFile =>
         /\ lastError \notin SearchErrors \/ (found.dos = "new" /\ found.sig = "PE" /\ found.subsystem = "other")
         /\ ConsoleProgram(found) => lastError = "NOT_STARTED"

Line ==
    stage = "spawned" =>
      /\ command.path \in Paths /\ command.args \in ArgLists
      /\ command.line = Exp_WinBuildCommandLine(command.path, command.args)

LaunchInv == LaunchType /\ Environment /\ Image /\ Line

LEMMA LaunchInvInit == LaunchInit => LaunchInv
<1>. SUFFICES ASSUME LaunchInit PROVE LaunchInv
  OBVIOUS
<1>1. <<>> \in Words /\ <<>> \in Seq(Words) /\ Len(Extensions) = 5
  BY QuotedIsWord DEF Extensions
<1>2. LaunchType
  BY <1>1 DEF LaunchInit, LaunchType, NoCommand, NoProcess
<1>3. Environment /\ Image /\ Line
  BY DEF LaunchInit, Environment, Image, Line
<1>. QED  BY <1>2, <1>3 DEF LaunchInv

LEMMA LaunchInvNext == LaunchInv /\ [LaunchNext]_launchVars => LaunchInv'
<1>. SUFFICES ASSUME LaunchInv, [LaunchNext]_launchVars PROVE LaunchInv'
  OBVIOUS
<1>. USE DEF LaunchInv
<1>1. ASSUME NEW word \in Flags, Flag(word) PROVE LaunchInv'
  <2>1. LaunchType'
    BY <1>1 DEF LaunchType, Flag
  <2>2. opts'.env = opts.env
    BY <1>1 DEF LaunchType, Flag
  <2>3. Environment' /\ Image' /\ Line'
    BY <1>1, <2>2 DEF Flag, Environment, Image, Line
  <2>. QED  BY <2>1, <2>3
<1>2. ASSUME NEW word \in Valued, NEW env \in EnvLists, Value(word, env) PROVE LaunchInv'
  <2>1. CASE word = "-environment" /\ Len(env) % 2 = 1
    <3>1. stage = "options" /\ Ended("failed", "usage")
      BY <1>2, <2>1 DEF Value
    <3>2. LaunchType'
      BY <3>1 DEF Ended, LaunchType, Ends
    <3>3. Environment' /\ Image' /\ Line'
      BY <3>1 DEF Ended, Environment, Image, Line
    <3>. QED  BY <3>2, <3>3
  <2>2. CASE ~(word = "-environment" /\ Len(env) % 2 = 1)
    <3>1. /\ stage = "options"
          /\ opts' = [opts EXCEPT !.channel = @ \/ word \in {"-open", "-leaveopen"},
                                  !.leave = @ \/ word = "-leaveopen",
                                  !.env = @ \/ word = "-environment"]
          /\ command' = (IF word = "-environment" THEN [command EXCEPT !.env = env] ELSE command)
          /\ UNCHANGED <<stage, suffix, found, lastError, process>>
      BY <1>2, <2>2 DEF Value
    <3>2. LaunchType'
      BY <3>1 DEF LaunchType
    <3>3. opts'.env <=> opts.env \/ word = "-environment"
      BY <3>1 DEF LaunchType
    <3>4. word = "-environment" => command'.env = env /\ Len(env) % 2 = 0
      <4>1. env \in Seq(Words)
        BY LaunchAssumption DEF Words
      <4>2. Len(env) % 2 = 0 \/ Len(env) % 2 = 1
        BY <4>1
      <4>. QED  BY <2>2, <3>1, <4>2 DEF LaunchType
    <3>5. Environment' /\ Image' /\ Line'
      BY <3>1, <3>3, <3>4 DEF Environment, Image, Line
    <3>. QED  BY <3>2, <3>5
  <2>. QED  BY <2>1, <2>2
<1>3. ASSUME NEW end, NEW why, Ended(end, why), stage \in {"options", "channel", "environment"},
             end \in {"failed", "channel", "environment", "outside", "usage", "opened"}
      PROVE  LaunchInv'
  <2>1. LaunchType'
    BY <1>3 DEF Ended, LaunchType, Ends
  <2>2. Environment' /\ Image' /\ Line'
    BY <1>3 DEF Ended, Environment, Image, Line
  <2>. QED  BY <2>1, <2>2
<1>4. ASSUME BadOption PROVE LaunchInv'
  BY <1>3, <1>4 DEF BadOption
<1>5. ASSUME NEW given \in BOOLEAN, Program(given) PROVE LaunchInv'
  BY <1>3, <1>5 DEF Program
<1>6. ASSUME NEW kind, Channel(kind) PROVE LaunchInv'
  BY <1>3, <1>6 DEF Channel
<1>7. ASSUME Prepare PROVE LaunchInv'
  <2>1. CASE opts.env /\ command.env = <<>>
    BY <1>3, <1>7, <2>1 DEF Prepare
  <2>2. CASE ~(opts.env /\ command.env = <<>>)
    <3>1. /\ stage = "environment" /\ stage' = "search"
          /\ command' = (IF opts.env THEN [command EXCEPT !.block = Env(command.env)] ELSE command)
          /\ UNCHANGED <<opts, suffix, found, lastError, process>>
      BY <1>7, <2>2 DEF Prepare
    <3>2. opts.env => Env(command.env) \in Words
      <4>. SUFFICES ASSUME opts.env PROVE Env(command.env) \in Words
        OBVIOUS
      <4> DEFINE list == command.env
                 n == Len(list) \div 2
      <4>1. list \in EnvLists /\ list \in Seq(Words)
        BY LaunchAssumption DEF Environment, Words
      <4>2. n \in 0..n /\ <<nul>> \in Words
        <5>1. Len(list) \in Nat
          BY <4>1
        <5>. HIDE DEF list
        <5>2. n \in Nat
          BY <5>1
        <5>3. <<nul>> \in Words
          BY LaunchAssumption DEF Words
        <5>. HIDE DEF n
        <5>. QED  BY <5>2, <5>3
      <4>3. BlockOf(list, n) \in Words
        <5>. HIDE DEF list
        <5>. QED  BY <4>1, <4>2, BlockSplit
      <4>4. BlockOf(list, n) \o <<nul>> \in Words
        BY <4>2, <4>3, Parts
      <4>. QED  BY <4>4 DEF Env, BlockOf, Setting
    <3>3. LaunchType'
      BY <3>1, <3>2 DEF LaunchType
    <3>4. opts.env => command'.env = command.env /\ command'.block = Env(command.env)
      BY <3>1 DEF LaunchType
    <3>5. Environment'
      BY <2>2, <3>1, <3>4 DEF Environment
    <3>6. Image' /\ Line'
      BY <3>1 DEF Image, Line
    <3>. QED  BY <3>3, <3>5, <3>6
  <2>. QED  BY <2>1, <2>2
<1>8. ASSUME NEW why, Missed(why) PROVE LaunchInv'
  <2>1. Len(Extensions) = 5
    BY DEF Extensions
  <2>2. LaunchType'
    BY <1>8, <2>1 DEF Missed, LaunchType, Ends
  <2>3. Environment' /\ Image' /\ Line'
    BY <1>8 DEF Missed, Environment, Image, Line
  <2>. QED  BY <2>2, <2>3
<1>9. ASSUME NEW f \in Files, Found(f) PROVE LaunchInv'
  <2> DEFINE type == Exp_WinApplicationType(f)[1]
             why == Exp_WinApplicationType(f)[2]
  <2>1. /\ stage = "search" /\ found' = f
        /\ stage' = (IF type \in {WIN32CUI, WIN64CUI} THEN "start" ELSE "failed")
        /\ lastError' = (IF type = NONE THEN (IF why = "" THEN lastError ELSE why)
                         ELSE IF type \in {WIN32CUI, WIN64CUI} THEN lastError ELSE Refused(type))
        /\ UNCHANGED <<opts, suffix, command, process>>
    BY <1>9 DEF Found
  <2>2. /\ type \in {WIN32CUI, WIN64CUI} <=> ConsoleProgram(f)
        /\ type = NONE /\ why = "" => f.dos = "new" /\ f.sig = "PE" /\ f.subsystem = "other"
        /\ why \notin SearchErrors
    BY ApplicationTypeIs
  <2>3. \A n : Refused(n) \notin SearchErrors
    BY DEF Refused, SearchErrors
  <2>. HIDE DEF type, why
  <2>4. LaunchType'
    BY <2>1 DEF LaunchType, Ends
  <2>5. Environment' /\ Line'
    BY <2>1 DEF Environment, Line
  <2>6. Image'
    <3>1. stage' \in {"start", "failed"}
      BY <2>1
    <3>2. stage' = "start" => ConsoleProgram(found')
      BY <2>1, <2>2
    <3>3. stage' = "failed" =>
            /\ ~ConsoleProgram(found')
            /\ \/ lastError' \notin SearchErrors
               \/ found'.dos = "new" /\ found'.sig = "PE" /\ found'.subsystem = "other"
      <4>. SUFFICES ASSUME stage' = "failed"
                    PROVE  /\ ~ConsoleProgram(found')
                           /\ \/ lastError' \notin SearchErrors
                              \/ found'.dos = "new" /\ found'.sig = "PE" /\ found'.subsystem = "other"
        OBVIOUS
      <4>1. type \notin {WIN32CUI, WIN64CUI} /\ found' = f
        BY <2>1
      <4>2. CASE type = NONE /\ why = ""
        BY <2>2, <4>1, <4>2
      <4>3. CASE type = NONE /\ why # ""
        <5>1. lastError' = why
          BY <2>1, <4>3
        <5>. QED  BY <2>2, <4>1, <5>1
      <4>4. CASE type # NONE
        <5>1. lastError' = Refused(type)
          BY <2>1, <4>1, <4>4
        <5>. QED  BY <2>2, <2>3, <4>1, <5>1
      <4>. QED  BY <4>2, <4>3, <4>4
    <3>. QED  BY <3>1, <3>2, <3>3 DEF Image
  <2>. QED  BY <2>4, <2>5, <2>6
<1>10. ASSUME NEW path \in Paths, NEW args \in ArgLists, NEW status \in {"NO_ERROR", "NOT_STARTED"},
              Start(path, args, status)
       PROVE  LaunchInv'
  <2> DEFINE line == Exp_WinBuildCommandLine(path, args)
  <2>1. path \in Words /\ args \in Seq(Words)
    BY PathQuoted, LaunchAssumption DEF Words
  <2>2. line \in Words
    <3>1. Len(args) \in 0..Len(args) /\ DOMAIN args = 1..Len(args)
      BY <2>1
    <3>2. PICK rest \in Words : LineOf(path, args, Len(args)) = Quoted(path) \o rest
      BY <2>1, <3>1, LineRead
    <3>3. Quoted(path) \o rest \in Words
      BY <2>1, QuotedIsWord, Parts
    <3>. QED  BY <3>1, <3>2, <3>3 DEF LineOf, Exp_WinBuildCommandLine
  <2>3. /\ stage = "start"
        /\ command' = [command EXCEPT !.line = line, !.path = path, !.args = args]
        /\ stage' = (IF status = "NO_ERROR" THEN "spawned" ELSE "failed")
        /\ lastError' = (IF status = "NO_ERROR" THEN lastError ELSE status)
        /\ process' = (IF status = "NO_ERROR" THEN [NoProcess EXCEPT !.alive = TRUE] ELSE process)
        /\ UNCHANGED <<opts, suffix, found>>
    BY <1>10 DEF Start
  <2>. HIDE DEF line
  <2>4. /\ command' \in [line : Words, block : Words, path : Words, args : Seq(Words),
                         env : EnvLists \union {<<>>}]
        /\ command'.line = line /\ command'.path = path /\ command'.args = args
        /\ command'.env = command.env /\ command'.block = command.block
    BY <2>1, <2>2, <2>3 DEF LaunchType
  <2>5. process' \in [alive : BOOLEAN, event : {0, 2, 3}]
    BY <2>3 DEF LaunchType, NoProcess
  <2>6. LaunchType'
    BY <2>3, <2>4, <2>5 DEF LaunchType, Ends
  <2>7. Environment'
    BY <2>3, <2>4 DEF Environment
  <2>8. Image'
    BY <2>3 DEF Image, SearchErrors
  <2>9. Line'
    BY <2>3, <2>4 DEF Line, line
  <2>. QED  BY <2>6, <2>7, <2>8, <2>9
<1>11. ASSUME NEW signal \in {2, 3, 9}, Kill(signal) PROVE LaunchInv'
  <2>1. process' \in [alive : BOOLEAN, event : {0, 2, 3}]
    BY <1>11 DEF Kill, LaunchType
  <2>2. LaunchType'
    BY <1>11, <2>1 DEF Kill, LaunchType
  <2>3. Environment' /\ Image' /\ Line'
    BY <1>11 DEF Kill, Environment, Image, Line
  <2>. QED  BY <2>2, <2>3
<1>12. CASE UNCHANGED launchVars
  BY <1>12 DEF launchVars, LaunchType, Environment, Image, Line
<1>. QED
  BY <1>1, <1>2, <1>4, <1>5, <1>6, <1>7, <1>8, <1>9, <1>10, <1>11, <1>12 DEF LaunchNext

LEMMA LaunchInvAlways == LaunchSpec => []LaunchInv
<1>1. LaunchInit => LaunchInv
  BY LaunchInvInit
<1>2. LaunchInv /\ [LaunchNext]_launchVars => LaunchInv'
  BY LaunchInvNext
<1>. QED  BY <1>1, <1>2, PTL DEF LaunchSpec

\* Whatever words are given and files are found, only a console program is
\* started, it reads its arguments and its environment back as the script gave
\* them, and an error that is reported is that of the file that was found.
THEOREM LaunchedAlways == LaunchSpec => []Launched
<1>1. LaunchInv => Launched
  <2>. SUFFICES ASSUME LaunchInv PROVE Launched
    OBVIOUS
  <2>1. stage \in {"start", "spawned"} => ConsoleProgram(found)
    BY DEF LaunchInv, Image
  <2>2. ASSUME stage = "spawned" PROVE Arguments(command.line) = <<command.path>> \o command.args
    <3>1. /\ command.path \in Paths /\ command.args \in Seq(Words)
          /\ command.line = Exp_WinBuildCommandLine(command.path, command.args)
      BY <2>2 DEF LaunchInv, Line, LaunchType
    <3>. QED  BY <3>1, ArgumentsRead
  <2>3. ASSUME stage = "spawned", opts.env
        PROVE  Strings(command.block) = [k \in 1 .. Len(command.env) \div 2 |->
                   command.env[2 * k - 1] \o <<eq>> \o command.env[2 * k]]
    <3>1. /\ command.env \in EnvLists /\ Len(command.env) % 2 = 0 /\ command.env # <<>>
          /\ command.block = Env(command.env)
      BY <2>3 DEF LaunchInv, Environment
    <3>. QED  BY <3>1, SettingsRead
  <2>4. stage = "failed" /\ found # NoFile =>
         /\ \/ lastError \notin {"none", "FILE_NOT_FOUND", "ACCESS_DENIED"}
            \/ found.dos = "new" /\ found.sig = "PE" /\ found.subsystem = "other"
         /\ ConsoleProgram(found) => lastError = "NOT_STARTED"
    BY DEF LaunchInv, Image, SearchErrors
  <2>. QED  BY <2>1, <2>2, <2>3, <2>4 DEF Launched
<1>. QED  BY <1>1, LaunchInvAlways, PTL
=============================================================================
