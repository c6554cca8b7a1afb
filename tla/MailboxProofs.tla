--------------------------- MODULE MailboxProofs ---------------------------
(***************************************************************************)
(* Proofs about Mailbox, for any number of threads, any depth, and any     *)
(* threads that may be killed; about Keyboard, for any texts; and about    *)
(* Channels, for any channels of the script and any spawn ids over them.   *)
(***************************************************************************)
EXTENDS Mailbox, Keyboard, Channels, FiniteSetTheorems, SequenceTheorems, TLAPS

\* How many threads of T are at one of some places, if place says where all are.
At(T, places, place) == {t \in T : place[t] \in places}
Count(T, places, place) == Cardinality(At(T, places, place))

Entering == {"guard", "copy", "advance"}
Leaving  == {"leave", "signal"}

Inside == Len(posted) - Len(got)

\* Thread t moved to place p.
Moved(f, g, t, p) == \A u \in Thread : g[u] = IF u = t THEN p ELSE f[u]

(***************************************************************************)
(* The inductive invariant.  Permits is its heart: a slot is free in the   *)
(* semaphore, promised to a poster, taken by a message, or about to be     *)
(* given back by a getter, and a thread that is killed or gives up only    *)
(* makes the left sides smaller.                                           *)
(***************************************************************************)
PostersIn  == Count(Poster, Entering, pc)
PostersOut == Count(Poster, Leaving, pc)
GettersIn  == Count(Getter, Entering, pc)
GettersOut == Count(Getter, Leaving, pc)

Permits ==
    /\ free + PostersIn + GettersOut + Inside <= Depth
    /\ pending + GettersIn + PostersOut <= Inside

Owner == \A t \in Thread : InRing(t) => guard = t

InHand ==
    /\ \A t \in Poster : pc[t] = "advance" => slot[tail] = msg[t]
    /\ \A t \in Getter : pc[t] = "advance" => msg[t] = slot[head]

Sending(t) == pc[t] \in {"permit", "guard", "copy", "advance"}

Fresh ==
    /\ made <= MaxPosts
    /\ \A i \in 1..Len(posted) : posted[i] \in 1..made
    /\ \A t \in Poster : Sending(t) =>
         /\ msg[t] \in 1..made
         /\ \A i \in 1..Len(posted) : posted[i] # msg[t]
         /\ \A u \in Poster : Sending(u) /\ u # t => msg[u] # msg[t]

IInv == TypeOK /\ Permits /\ Owner /\ InHand /\ Fresh /\ RingIntact

USE DEF Thread, ring, calls
-----------------------------------------------------------------------------
\* The next index of a ring is the one after it, or the first.
LEMMA NextIndex ==
    ASSUME NEW i \in 0..Depth-1
    PROVE  (i + 1) % Depth = Wrap(i + 1)
BY DepthAssumption DEF Wrap

\* How many threads are at some places after one of them moved.
LEMMA CountMoves ==
    ASSUME NEW T, NEW t, NEW places, NEW p, NEW f, NEW g,
           T = Poster \/ T = Getter, t \in Thread, Moved(f, g, t, p)
    PROVE  /\ Count(T, places, f) \in Nat
           /\ Count(T, places, g) =
                Count(T, places, f)
                  + (IF t \in T /\ p \in places THEN 1 ELSE 0)
                  - (IF t \in T /\ f[t] \in places THEN 1 ELSE 0)
           /\ t \in T /\ f[t] \in places => Count(T, places, f) > 0
<1> DEFINE S == At(T, places, f)
           R == At(T, places, g)
<1>1. IsFiniteSet(T) /\ T \subseteq Thread
  BY ThreadAssumption
<1>2. IsFiniteSet(S) /\ IsFiniteSet(R)
  BY <1>1, FS_Subset DEF At
<1>3. Cardinality(S) \in Nat /\ Cardinality(R) \in Nat
  BY <1>2, FS_CardinalityType
<1>5. /\ t \in S <=> t \in T /\ f[t] \in places
      /\ t \in R <=> t \in T /\ p \in places
      /\ \A u : u # t => (u \in S <=> u \in R)
  BY <1>1 DEF At, Moved
<1>. SUFFICES /\ Cardinality(R) = Cardinality(S) + (IF t \in R THEN 1 ELSE 0)
                                               - (IF t \in S THEN 1 ELSE 0)
              /\ t \in S => Cardinality(S) > 0
  BY <1>3, <1>5 DEF Count
<1>. HIDE DEF S, R
<1>6. CASE t \in S /\ t \notin R
  <2>1. R = S \ {t}
    BY <1>5, <1>6
  <2>2. Cardinality(R) = Cardinality(S) - 1
    BY <1>2, <1>6, <2>1, FS_RemoveElement
  <2>. QED  BY <1>3, <1>6, <2>2
<1>7. CASE t \notin S /\ t \in R
  <2>1. R = S \cup {t}
    BY <1>5, <1>7
  <2>2. Cardinality(R) = Cardinality(S) + 1
    BY <1>2, <1>7, <2>1, FS_AddElement
  <2>. QED  BY <1>3, <1>7, <2>2
<1>8. CASE t \in S /\ t \in R
  <2>1. R = S
    BY <1>5, <1>8
  <2>2. Cardinality(S) # 0
    BY <1>2, <1>8, FS_EmptySet
  <2>. QED  BY <1>3, <1>8, <2>1, <2>2
<1>9. CASE t \notin S /\ t \notin R
  <2>1. R = S
    BY <1>5, <1>9
  <2>. QED  BY <1>3, <1>9, <2>1
<1>. QED  BY <1>6, <1>7, <1>8, <1>9

\* The same of the four counts of Permits.
LEMMA Counts ==
    ASSUME TypeOK
    PROVE  /\ PostersIn \in Nat /\ PostersOut \in Nat
           /\ GettersIn \in Nat /\ GettersOut \in Nat
<1>1. \A T \in {Poster, Getter} : \A places : Count(T, places, pc) \in Nat
  <2>. SUFFICES ASSUME NEW T \in {Poster, Getter}, NEW places
                PROVE  Count(T, places, pc) \in Nat
    OBVIOUS
  <2>1. IsFiniteSet(At(T, places, pc))
    BY ThreadAssumption, FS_Subset DEF At
  <2>. QED  BY <2>1, FS_CardinalityType DEF Count
<1>. QED  BY <1>1 DEF PostersIn, PostersOut, GettersIn, GettersOut

LEMMA PosterMoves ==
    ASSUME TypeOK, NEW t \in Poster, NEW p, Goto(t, p)
    PROVE  /\ PostersIn' = PostersIn + (IF p \in Entering THEN 1 ELSE 0)
                                     - (IF pc[t] \in Entering THEN 1 ELSE 0)
           /\ PostersOut' = PostersOut + (IF p \in Leaving THEN 1 ELSE 0)
                                       - (IF pc[t] \in Leaving THEN 1 ELSE 0)
           /\ GettersIn' = GettersIn /\ GettersOut' = GettersOut
           /\ pc[t] \in Entering => PostersIn > 0
           /\ pc[t] \in Leaving => PostersOut > 0
<1>1. /\ t \in Thread /\ t \notin Getter
      /\ Moved(pc, pc', t, p)
  BY ThreadAssumption DEF TypeOK, Goto, Moved
<1>2. /\ Count(Poster, Entering, pc') = Count(Poster, Entering, pc)
            + (IF p \in Entering THEN 1 ELSE 0) - (IF pc[t] \in Entering THEN 1 ELSE 0)
      /\ pc[t] \in Entering => Count(Poster, Entering, pc) > 0
  BY <1>1, CountMoves
<1>3. /\ Count(Poster, Leaving, pc') = Count(Poster, Leaving, pc)
            + (IF p \in Leaving THEN 1 ELSE 0) - (IF pc[t] \in Leaving THEN 1 ELSE 0)
      /\ pc[t] \in Leaving => Count(Poster, Leaving, pc) > 0
  BY <1>1, CountMoves
<1>4. Count(Getter, Entering, pc') = Count(Getter, Entering, pc)
  BY <1>1, CountMoves
<1>5. Count(Getter, Leaving, pc') = Count(Getter, Leaving, pc)
  BY <1>1, CountMoves
<1>. QED  BY <1>2, <1>3, <1>4, <1>5
          DEF PostersIn, PostersOut, GettersIn, GettersOut, Entering, Leaving

LEMMA GetterMoves ==
    ASSUME TypeOK, NEW t \in Getter, NEW p, Goto(t, p)
    PROVE  /\ GettersIn' = GettersIn + (IF p \in Entering THEN 1 ELSE 0)
                                     - (IF pc[t] \in Entering THEN 1 ELSE 0)
           /\ GettersOut' = GettersOut + (IF p \in Leaving THEN 1 ELSE 0)
                                       - (IF pc[t] \in Leaving THEN 1 ELSE 0)
           /\ PostersIn' = PostersIn /\ PostersOut' = PostersOut
           /\ pc[t] \in Entering => GettersIn > 0
           /\ pc[t] \in Leaving => GettersOut > 0
<1>1. /\ t \in Thread /\ t \notin Poster
      /\ Moved(pc, pc', t, p)
  BY ThreadAssumption DEF TypeOK, Goto, Moved
<1>2. /\ Count(Getter, Entering, pc') = Count(Getter, Entering, pc)
            + (IF p \in Entering THEN 1 ELSE 0) - (IF pc[t] \in Entering THEN 1 ELSE 0)
      /\ pc[t] \in Entering => Count(Getter, Entering, pc) > 0
  BY <1>1, CountMoves
<1>3. /\ Count(Getter, Leaving, pc') = Count(Getter, Leaving, pc)
            + (IF p \in Leaving THEN 1 ELSE 0) - (IF pc[t] \in Leaving THEN 1 ELSE 0)
      /\ pc[t] \in Leaving => Count(Getter, Leaving, pc) > 0
  BY <1>1, CountMoves
<1>4. Count(Poster, Entering, pc') = Count(Poster, Entering, pc)
  BY <1>1, CountMoves
<1>5. Count(Poster, Leaving, pc') = Count(Poster, Leaving, pc)
  BY <1>1, CountMoves
<1>. QED  BY <1>2, <1>3, <1>4, <1>5
          DEF PostersIn, PostersOut, GettersIn, GettersOut, Entering, Leaving
-----------------------------------------------------------------------------
\* A thread that gives up or is killed takes its permit with it.
LEMMA PermitsFewer ==
    ASSUME TypeOK, Permits, NEW t \in Thread, NEW p \in {"idle", "stopped", "dead"},
           Goto(t, p), UNCHANGED <<free, pending, posted, got>>
    PROVE  Permits'
<1>1. p \notin Entering /\ p \notin Leaving
  BY DEF Entering, Leaving
<1>2. /\ PostersIn \in Nat /\ PostersOut \in Nat
      /\ GettersIn \in Nat /\ GettersOut \in Nat
  BY Counts
<1>3. free \in Nat /\ pending \in Nat /\ Len(posted) \in Nat /\ Len(got) \in Nat
  BY DepthAssumption DEF TypeOK
<1>4. CASE t \in Poster
  <2>1. /\ PostersIn' <= PostersIn /\ PostersOut' <= PostersOut
        /\ GettersIn' = GettersIn /\ GettersOut' = GettersOut
        /\ PostersIn' \in Int /\ PostersOut' \in Int
    BY <1>1, <1>2, <1>4, PosterMoves
  <2>. QED  BY SMTT(30), <1>2, <1>3, <2>1, DepthAssumption DEF Permits, Inside
<1>5. CASE t \in Getter
  <2>1. /\ GettersIn' <= GettersIn /\ GettersOut' <= GettersOut
        /\ PostersIn' = PostersIn /\ PostersOut' = PostersOut
        /\ GettersIn' \in Int /\ GettersOut' \in Int
    BY <1>1, <1>2, <1>5, GetterMoves
  <2>. QED  BY SMTT(30), <1>2, <1>3, <2>1, DepthAssumption DEF Permits, Inside
<1>. QED  BY <1>4, <1>5

LEMMA PermitsPost ==
    ASSUME TypeOK, Permits, NEW t \in Poster, PostCall(t) \/ Post(t)
    PROVE  Permits'
<1>1. /\ PostersIn \in Nat /\ PostersOut \in Nat
      /\ GettersIn \in Nat /\ GettersOut \in Nat
  BY Counts
<1>2. /\ free \in Nat /\ pending \in Nat /\ Len(posted) \in Nat /\ Len(got) \in Nat
      /\ posted \in Seq(Nat) /\ msg[t] \in Nat
  BY DepthAssumption DEF TypeOK
<1>. USE DEF Entering, Leaving
<1>3. CASE PostCall(t)
  <2>1. /\ PostersIn' = PostersIn /\ PostersOut' = PostersOut
        /\ GettersIn' = GettersIn /\ GettersOut' = GettersOut
    BY <1>1, <1>3, PosterMoves DEF PostCall
  <2>. QED  BY <1>3, <2>1 DEF PostCall, Permits, Inside
<1>4. CASE PostPermit(t)
  <2>1. /\ PostersIn' = PostersIn + 1 /\ PostersOut' = PostersOut
        /\ GettersIn' = GettersIn /\ GettersOut' = GettersOut
    BY <1>1, <1>4, PosterMoves DEF PostPermit
  <2>2. free' = free - 1 /\ UNCHANGED <<pending, posted, got>>
    BY <1>4 DEF PostPermit
  <2>. QED  BY <1>1, <1>2, <2>1, <2>2, DepthAssumption DEF Permits, Inside
<1>5. CASE PostFail(t)
  BY <1>5, PermitsFewer DEF PostFail
<1>6. CASE TakeGuard(t) \/ PostCopy(t)
  <2>1. /\ PostersIn' = PostersIn /\ PostersOut' = PostersOut
        /\ GettersIn' = GettersIn /\ GettersOut' = GettersOut
    BY <1>1, <1>6, PosterMoves DEF TakeGuard, PostCopy
  <2>. QED  BY <1>6, <2>1 DEF TakeGuard, PostCopy, Permits, Inside
<1>7. CASE PostAdvance(t)
  <2>1. /\ PostersIn' = PostersIn - 1 /\ PostersOut' = PostersOut + 1
        /\ GettersIn' = GettersIn /\ GettersOut' = GettersOut
    BY <1>1, <1>7, PosterMoves DEF PostAdvance
  <2>2. Len(posted') = Len(posted) + 1 /\ UNCHANGED <<free, pending, got>>
    BY <1>2, <1>7, AppendProperties DEF PostAdvance
  <2>. QED  BY <1>1, <1>2, <2>1, <2>2, DepthAssumption DEF Permits, Inside
<1>8. CASE DropGuard(t)
  <2>1. /\ PostersIn' = PostersIn /\ PostersOut' = PostersOut
        /\ GettersIn' = GettersIn /\ GettersOut' = GettersOut
    BY <1>1, <1>8, PosterMoves DEF DropGuard
  <2>. QED  BY <1>8, <2>1 DEF DropGuard, Permits, Inside
<1>9. CASE PostSignal(t)
  <2>1. /\ PostersIn' = PostersIn /\ PostersOut' = PostersOut - 1
        /\ GettersIn' = GettersIn /\ GettersOut' = GettersOut
    BY <1>1, <1>9, PosterMoves DEF PostSignal
  <2>2. pending' = pending + 1 /\ UNCHANGED <<free, posted, got>>
    BY <1>9 DEF PostSignal
  <2>. QED  BY <1>1, <1>2, <2>1, <2>2, DepthAssumption DEF Permits, Inside
<1>. QED  BY <1>3, <1>4, <1>5, <1>6, <1>7, <1>8, <1>9 DEF Post, PostOn

LEMMA PermitsGet ==
    ASSUME TypeOK, Permits, NEW t \in Getter, Get(t)
    PROVE  Permits'
<1>1. /\ PostersIn \in Nat /\ PostersOut \in Nat
      /\ GettersIn \in Nat /\ GettersOut \in Nat
  BY Counts
<1>2. /\ free \in Nat /\ pending \in Nat /\ Len(posted) \in Nat /\ Len(got) \in Nat
      /\ got \in Seq(Nat) /\ msg[t] \in Nat
  BY DepthAssumption DEF TypeOK
<1>. USE DEF Entering, Leaving
<1>3. CASE GetPermit(t)
  <2>1. /\ GettersIn' = GettersIn + 1 /\ GettersOut' = GettersOut
        /\ PostersIn' = PostersIn /\ PostersOut' = PostersOut
    BY <1>1, <1>3, GetterMoves DEF GetPermit
  <2>2. pending' = pending - 1 /\ UNCHANGED <<free, posted, got>>
    BY <1>3 DEF GetPermit
  <2>. QED  BY <1>1, <1>2, <2>1, <2>2, DepthAssumption DEF Permits, Inside
<1>4. CASE GetFail(t)
  BY <1>4, PermitsFewer DEF GetFail
<1>5. CASE TakeGuard(t) \/ GetCopy(t)
  <2>1. /\ PostersIn' = PostersIn /\ PostersOut' = PostersOut
        /\ GettersIn' = GettersIn /\ GettersOut' = GettersOut
    BY <1>1, <1>5, GetterMoves DEF TakeGuard, GetCopy
  <2>. QED  BY <1>5, <2>1 DEF TakeGuard, GetCopy, Permits, Inside
<1>6. CASE GetAdvance(t)
  <2>1. /\ GettersIn' = GettersIn - 1 /\ GettersOut' = GettersOut + 1
        /\ PostersIn' = PostersIn /\ PostersOut' = PostersOut
    BY <1>1, <1>6, GetterMoves DEF GetAdvance
  <2>2. Len(got') = Len(got) + 1 /\ UNCHANGED <<free, pending, posted>>
    BY <1>2, <1>6, AppendProperties DEF GetAdvance
  <2>. QED  BY <1>1, <1>2, <2>1, <2>2, DepthAssumption DEF Permits, Inside
<1>7. CASE DropGuard(t)
  <2>1. /\ PostersIn' = PostersIn /\ PostersOut' = PostersOut
        /\ GettersIn' = GettersIn /\ GettersOut' = GettersOut
    BY <1>1, <1>7, GetterMoves DEF DropGuard
  <2>. QED  BY <1>7, <2>1 DEF DropGuard, Permits, Inside
<1>8. CASE GetSignal(t)
  <2>1. /\ GettersIn' = GettersIn /\ GettersOut' = GettersOut - 1
        /\ PostersIn' = PostersIn /\ PostersOut' = PostersOut
    BY <1>1, <1>8, GetterMoves DEF GetSignal
  <2>2. free' = free + 1 /\ UNCHANGED <<pending, posted, got>>
    BY <1>8 DEF GetSignal
  <2>. QED  BY <1>1, <1>2, <2>1, <2>2, DepthAssumption DEF Permits, Inside
<1>. QED  BY <1>3, <1>4, <1>5, <1>6, <1>7, <1>8 DEF Get, GetOn

\* No step gives out more permits than there are slots or messages.
LEMMA PermitsStep ==
    ASSUME TypeOK, Permits, [Next]_vars
    PROVE  Permits'
<1>1. CASE UNCHANGED vars \/ Interrupt
  <2>1. UNCHANGED <<pc, free, pending, posted, got>>
    BY <1>1 DEF vars, Interrupt
  <2>. QED  BY <2>1 DEF Permits, PostersIn, PostersOut, GettersIn, GettersOut, Inside
<1>2. ASSUME NEW t \in Thread, Kill(t) PROVE Permits'
  BY <1>2, PermitsFewer DEF Kill
<1>. QED  BY <1>1, <1>2, PermitsPost, PermitsGet DEF Next
-----------------------------------------------------------------------------
\* What Permits says of the number of messages inside, and in which steps.
LEMMA Room ==
    ASSUME TypeOK, Permits
    PROVE  /\ Inside \in 0..Depth
           /\ free \in 0..Depth - Inside /\ pending \in 0..Inside
           /\ \A t \in Poster : pc[t] \in Entering => Inside < Depth
           /\ \A t \in Getter : pc[t] \in Entering => Inside > 0
           /\ \A t \in Poster : pc[t] \in Leaving => pending < Inside
           /\ \A t \in Getter : pc[t] \in Leaving => free < Depth - Inside
<1>1. /\ PostersIn \in Nat /\ PostersOut \in Nat
      /\ GettersIn \in Nat /\ GettersOut \in Nat
  BY Counts
<1>2. /\ free \in Nat /\ pending \in Nat /\ Len(posted) \in Nat /\ Len(got) \in Nat
  BY DepthAssumption DEF TypeOK
<1>3. /\ \A t \in Poster : pc[t] \in Entering => PostersIn > 0
      /\ \A t \in Poster : pc[t] \in Leaving => PostersOut > 0
  <2>. SUFFICES ASSUME NEW t \in Poster
                PROVE  /\ pc[t] \in Entering => PostersIn > 0
                       /\ pc[t] \in Leaving => PostersOut > 0
    OBVIOUS
  <2>1. Moved(pc, pc, t, pc[t]) /\ t \in Thread
    BY DEF Moved
  <2>. QED  BY <2>1, CountMoves DEF PostersIn, PostersOut
<1>4. /\ \A t \in Getter : pc[t] \in Entering => GettersIn > 0
      /\ \A t \in Getter : pc[t] \in Leaving => GettersOut > 0
  <2>. SUFFICES ASSUME NEW t \in Getter
                PROVE  /\ pc[t] \in Entering => GettersIn > 0
                       /\ pc[t] \in Leaving => GettersOut > 0
    OBVIOUS
  <2>1. Moved(pc, pc, t, pc[t]) /\ t \in Thread
    BY DEF Moved
  <2>. QED  BY <2>1, CountMoves DEF GettersIn, GettersOut
<1>5. Inside \in Int
  BY <1>2 DEF Inside
<1>. QED  BY <1>1, <1>2, <1>3, <1>4, <1>5, DepthAssumption DEF Permits

\* The variables that only the steps of Post and Get change keep their types.
LEMMA TypePost ==
    ASSUME TypeOK, Permits, NEW t \in Poster, PostCall(t) \/ Post(t)
    PROVE  TypeOK'
<1>. USE DEF TypeOK, Goto, Places
<1>1. t \in Thread /\ msg[t] \in Nat /\ posted \in Seq(Nat)
  OBVIOUS
<1>2. CASE PostCall(t)
  BY <1>1, <1>2 DEF PostCall
<1>3. CASE PostPermit(t)
  BY <1>1, <1>3, DepthAssumption DEF PostPermit
<1>4. CASE PostFail(t)
  BY <1>1, <1>4 DEF PostFail
<1>5. CASE TakeGuard(t)
  BY <1>1, <1>5 DEF TakeGuard
<1>6. CASE PostCopy(t)
  BY <1>1, <1>6 DEF PostCopy
<1>7. CASE PostAdvance(t)
  <2>1. (tail + 1) % Depth \in 0..Depth-1
    BY NextIndex, DepthAssumption DEF Wrap
  <2>2. Append(posted, msg[t]) \in Seq(Nat)
    BY <1>1, AppendProperties
  <2>. QED  BY <1>1, <1>7, <2>1, <2>2 DEF PostAdvance
<1>8. CASE DropGuard(t)
  BY <1>1, <1>8 DEF DropGuard
<1>9. CASE PostSignal(t)
  <2>1. pc[t] \in Leaving
    BY <1>9 DEF PostSignal, Leaving
  <2>2. pending + 1 \in 0..Depth
    BY <2>1, Room, DepthAssumption
  <2>. QED  BY <1>1, <1>9, <2>2 DEF PostSignal
<1>. QED  BY <1>2, <1>3, <1>4, <1>5, <1>6, <1>7, <1>8, <1>9 DEF Post, PostOn

LEMMA TypeGet ==
    ASSUME TypeOK, Permits, NEW t \in Getter, Get(t)
    PROVE  TypeOK'
<1>. USE DEF TypeOK, Goto, Places
<1>1. t \in Thread /\ msg[t] \in Nat /\ got \in Seq(Nat)
  OBVIOUS
<1>2. CASE GetPermit(t)
  BY <1>1, <1>2, DepthAssumption DEF GetPermit
<1>3. CASE GetFail(t)
  BY <1>1, <1>3 DEF GetFail
<1>4. CASE TakeGuard(t)
  BY <1>1, <1>4 DEF TakeGuard
<1>5. CASE GetCopy(t)
  BY <1>1, <1>5 DEF GetCopy
<1>6. CASE GetAdvance(t)
  <2>1. (head + 1) % Depth \in 0..Depth-1
    BY NextIndex, DepthAssumption DEF Wrap
  <2>2. Append(got, msg[t]) \in Seq(Nat)
    BY <1>1, AppendProperties
  <2>. QED  BY <1>1, <1>6, <2>1, <2>2 DEF GetAdvance
<1>7. CASE DropGuard(t)
  BY <1>1, <1>7 DEF DropGuard
<1>8. CASE GetSignal(t)
  <2>1. pc[t] \in Leaving
    BY <1>8 DEF GetSignal, Leaving
  <2>2. free + 1 \in 0..Depth
    BY <2>1, Room, DepthAssumption
  <2>. QED  BY <1>1, <1>8, <2>2 DEF GetSignal
<1>. QED  BY <1>2, <1>3, <1>4, <1>5, <1>6, <1>7, <1>8 DEF Get, GetOn

LEMMA TypeStep ==
    ASSUME TypeOK, Permits, [Next]_vars
    PROVE  TypeOK'
<1>1. CASE UNCHANGED vars
  BY <1>1 DEF vars, TypeOK
<1>2. CASE Interrupt
  BY <1>2 DEF Interrupt, TypeOK
<1>3. ASSUME NEW t \in Thread, Kill(t) PROVE TypeOK'
  BY <1>3 DEF Kill, Goto, Places, TypeOK
<1>. QED  BY <1>1, <1>2, <1>3, TypePost, TypeGet DEF Next

-----------------------------------------------------------------------------
\* Who is between the two calls on the mutex owns it, and so is alone there.
LEMMA OwnerStep ==
    ASSUME TypeOK, Owner, [Next]_vars
    PROVE  Owner'
<1>. USE DEF Owner, InRing, Goto, TypeOK
<1>1. CASE UNCHANGED vars \/ Interrupt
  BY <1>1 DEF vars, Interrupt
<1>2. ASSUME NEW t \in Thread, Kill(t) PROVE Owner'
  BY <1>2, ThreadAssumption DEF Kill
<1>3. ASSUME NEW t \in Thread, TakeGuard(t) \/ DropGuard(t) PROVE Owner'
  BY <1>3, ThreadAssumption DEF TakeGuard, DropGuard
<1>4. ASSUME NEW t \in Poster, PostCall(t) \/ Post(t) PROVE Owner'
  <2>1. t \in Thread
    OBVIOUS
  <2>2. CASE PostCall(t) \/ PostPermit(t) \/ PostFail(t) \/ PostSignal(t)
    BY <2>1, <2>2 DEF PostCall, PostPermit, PostFail, PostSignal
  <2>3. CASE PostCopy(t) \/ PostAdvance(t)
    BY <2>1, <2>3 DEF PostCopy, PostAdvance
  <2>. QED  BY <1>3, <1>4, <2>1, <2>2, <2>3 DEF Post, PostOn
<1>5. ASSUME NEW t \in Getter, Get(t) PROVE Owner'
  <2>1. t \in Thread
    OBVIOUS
  <2>2. CASE GetPermit(t) \/ GetFail(t) \/ GetSignal(t)
    BY <2>1, <2>2 DEF GetPermit, GetFail, GetSignal
  <2>3. CASE GetCopy(t) \/ GetAdvance(t)
    BY <2>1, <2>3 DEF GetCopy, GetAdvance
  <2>. QED  BY <1>3, <1>5, <2>1, <2>2, <2>3 DEF Get, GetOn
<1>. QED  BY <1>1, <1>2, <1>4, <1>5 DEF Next

LEMMA Alone ==
    ASSUME TypeOK, Owner
    PROVE  OneInRing
BY DEF Owner, OneInRing

\* What a thread has copied stays what is in the slot until it moves the index.
LEMMA InHandStep ==
    ASSUME TypeOK, Owner, InHand, [Next]_vars
    PROVE  InHand'
<1>0. /\ OneInRing /\ Poster \cap Getter = {}
      /\ pc \in [Thread -> Places] /\ msg \in [Thread -> Nat]
      /\ tail \in 0..Depth-1 /\ slot \in [0..Depth-1 -> Nat]
  BY Alone, ThreadAssumption DEF TypeOK
<1>. USE DEF InHand, InRing, OneInRing, Goto
<1>1. CASE UNCHANGED vars \/ Interrupt
  BY <1>1 DEF vars, Interrupt
<1>2. ASSUME NEW t \in Thread, Kill(t) PROVE InHand'
  BY <1>0, <1>2 DEF Kill
<1>3. ASSUME NEW t \in Thread, TakeGuard(t) \/ DropGuard(t) PROVE InHand'
  BY <1>0, <1>3 DEF TakeGuard, DropGuard
<1>4. ASSUME NEW t \in Poster, PostCall(t) \/ Post(t) PROVE InHand'
  <2>1. t \in Thread /\ t \notin Getter
    BY <1>0
  <2>2. CASE PostCall(t)
    BY <1>0, <2>1, <2>2 DEF PostCall
  <2>3. CASE PostPermit(t) \/ PostFail(t) \/ PostSignal(t)
    BY <1>0, <2>1, <2>3 DEF PostPermit, PostFail, PostSignal
  <2>4. CASE PostCopy(t)
    <3>1. \A u \in Thread : u # t => pc'[u] # "advance"
      BY <1>0, <2>1, <2>4 DEF PostCopy
    <3>. QED  BY <1>0, <2>1, <2>4, <3>1 DEF PostCopy
  <2>5. CASE PostAdvance(t)
    <3>1. \A u \in Thread : pc'[u] # "advance"
      BY <1>0, <2>1, <2>5 DEF PostAdvance
    <3>. QED  BY <3>1
  <2>. QED  BY <1>3, <1>4, <2>1, <2>2, <2>3, <2>4, <2>5 DEF Post, PostOn
<1>5. ASSUME NEW t \in Getter, Get(t) PROVE InHand'
  <2>1. t \in Thread /\ t \notin Poster
    BY <1>0
  <2>2. CASE GetPermit(t) \/ GetFail(t) \/ GetSignal(t)
    BY <1>0, <2>1, <2>2 DEF GetPermit, GetFail, GetSignal
  <2>3. CASE GetCopy(t)
    <3>1. \A u \in Thread : u # t => pc'[u] # "advance"
      BY <1>0, <2>1, <2>3 DEF GetCopy
    <3>. QED  BY <1>0, <2>1, <2>3, <3>1 DEF GetCopy
  <2>4. CASE GetAdvance(t)
    <3>1. \A u \in Thread : pc'[u] # "advance"
      BY <1>0, <2>1, <2>4 DEF GetAdvance
    <3>. QED  BY <3>1
  <2>. QED  BY <1>3, <1>5, <2>1, <2>2, <2>3, <2>4 DEF Get, GetOn
<1>. QED  BY <1>1, <1>2, <1>4, <1>5 DEF Next

\* No two messages are the same, in the ring or on their way into it.
LEMMA FreshStep ==
    ASSUME TypeOK, Fresh, [Next]_vars
    PROVE  Fresh'
<1>0. /\ Poster \cap Getter = {} /\ MaxPosts \in Nat /\ made \in Nat
      /\ pc \in [Thread -> Places] /\ msg \in [Thread -> Nat]
      /\ posted \in Seq(Nat) /\ Len(posted) \in Nat
  BY ThreadAssumption DEF TypeOK
<1>. USE DEF Fresh, Sending, Goto
<1>1. CASE UNCHANGED vars \/ Interrupt
  BY <1>1 DEF vars, Interrupt
<1>2. ASSUME NEW t \in Thread, Kill(t) PROVE Fresh'
  BY <1>0, <1>2 DEF Kill
<1>3. ASSUME NEW t \in Thread, TakeGuard(t) \/ DropGuard(t) PROVE Fresh'
  BY <1>0, <1>3 DEF TakeGuard, DropGuard
<1>4. ASSUME NEW t \in Poster, PostCall(t) \/ Post(t) PROVE Fresh'
  <2>1. t \in Thread
    OBVIOUS
  <2>2. CASE PostCall(t)
    BY <1>0, <2>1, <2>2 DEF PostCall
  <2>3. CASE PostPermit(t) \/ PostFail(t) \/ PostSignal(t) \/ PostCopy(t)
    BY <1>0, <2>1, <2>3 DEF PostPermit, PostFail, PostSignal, PostCopy
  <2>4. CASE PostAdvance(t)
    <3>1. /\ Len(posted') = Len(posted) + 1
          /\ \A i \in 1..Len(posted) : posted'[i] = posted[i]
          /\ posted'[Len(posted) + 1] = msg[t]
      BY <1>0, <2>1, <2>4, AppendProperties DEF PostAdvance
    <3>2. \A i \in 1..Len(posted') : i \in 1..Len(posted) \/ i = Len(posted) + 1
      BY <1>0, <3>1
    <3>3. pc[t] = "advance" /\ msg' = msg /\ made' = made
          /\ pc' = [pc EXCEPT ![t] = "leave"]
      BY <2>4 DEF PostAdvance
    <3>. QED  BY <1>0, <2>1, <3>1, <3>2, <3>3
  <2>. QED  BY <1>3, <1>4, <2>1, <2>2, <2>3, <2>4 DEF Post, PostOn
<1>5. ASSUME NEW t \in Getter, Get(t) PROVE Fresh'
  <2>1. t \in Thread /\ t \notin Poster
    BY <1>0
  <2>2. UNCHANGED <<posted, made>> /\ \A u \in Poster : pc'[u] = pc[u] /\ msg'[u] = msg[u]
    <3>1. CASE GetPermit(t) \/ GetFail(t) \/ GetSignal(t)
      BY <1>0, <2>1, <3>1 DEF GetPermit, GetFail, GetSignal
    <3>2. CASE GetCopy(t) \/ GetAdvance(t)
      BY <1>0, <2>1, <3>2 DEF GetCopy, GetAdvance
    <3>3. CASE TakeGuard(t) \/ DropGuard(t)
      BY <1>0, <2>1, <3>3 DEF TakeGuard, DropGuard
    <3>. QED  BY <1>5, <3>1, <3>2, <3>3 DEF Get, GetOn
  <2>. QED  BY <1>0, <2>2
<1>. QED  BY <1>1, <1>2, <1>4, <1>5 DEF Next
-----------------------------------------------------------------------------
\* Going round the ring.
LEMMA WrapFacts ==
    ASSUME NEW h \in 0..Depth-1, NEW n \in 0..Depth
    PROVE  /\ \A i \in 0..Depth-1 : Wrap(h + i) \in 0..Depth-1
           /\ \A i \in 0..Depth-1 : i # n /\ n < Depth => Wrap(h + i) # Wrap(h + n)
           /\ n < Depth => Wrap(Wrap(h + n) + 1) = Wrap(h + (n + 1))
           /\ \A i \in 0..Depth-1 : Wrap(Wrap(h + 1) + i) = Wrap(h + (i + 1))
           /\ Wrap(h + 1) \in 0..Depth-1 /\ Wrap(h) = h
BY DepthAssumption DEF Wrap

\* A message copied into the slot behind the last one disturbs none inside.
LEMMA RingCopy ==
    ASSUME IInv, NEW t \in Poster, PostCopy(t)
    PROVE  RingIntact'
<1>1. /\ Inside \in 0..Depth /\ Inside < Depth
      /\ head \in 0..Depth-1 /\ tail \in 0..Depth-1 /\ slot \in [0..Depth-1 -> Nat]
      /\ tail = Wrap(head + Inside)
      /\ \A i \in 0..Depth-1 :
           i < Inside => slot[Wrap(head + i)] = posted[Len(got) + 1 + i]
  <2>1. pc[t] \in Entering
    BY DEF PostCopy, Entering
  <2>. QED  BY <2>1, Room DEF IInv, TypeOK, RingIntact, Inside
<1>2. /\ slot' = [slot EXCEPT ![tail] = msg[t]]
      /\ UNCHANGED <<head, tail, posted, got>>
  BY DEF PostCopy
<1>3. \A i \in 0..Depth-1 : i < Inside => slot'[Wrap(head + i)] = slot[Wrap(head + i)]
  BY <1>1, <1>2, WrapFacts
<1>4. Inside' = Inside
  BY <1>2 DEF Inside
<1>. QED  BY <1>1, <1>2, <1>3, <1>4 DEF RingIntact, Inside

LEMMA RingPost ==
    ASSUME IInv, NEW t \in Poster, PostAdvance(t)
    PROVE  RingIntact'
<1>1. /\ Inside \in 0..Depth /\ Inside < Depth
      /\ head \in 0..Depth-1 /\ tail \in 0..Depth-1
      /\ tail = Wrap(head + Inside)
      /\ \A i \in 0..Depth-1 :
           i < Inside => slot[Wrap(head + i)] = posted[Len(got) + 1 + i]
      /\ slot[tail] = msg[t]
  <2>1. pc[t] \in Entering /\ pc[t] = "advance"
    BY DEF PostAdvance, Entering
  <2>. QED  BY <2>1, Room DEF IInv, InHand, TypeOK, RingIntact, Inside
<1>2. /\ tail' = (tail + 1) % Depth
      /\ posted' = Append(posted, msg[t])
      /\ UNCHANGED <<slot, head, got>>
  BY DEF PostAdvance
<1>3. /\ Len(posted) \in Nat /\ Len(got) \in Nat /\ Len(posted') = Len(posted) + 1
      /\ \A i \in 1..Len(posted) : posted'[i] = posted[i]
      /\ posted'[Len(posted) + 1] = msg[t]
  <2>1. posted \in Seq(Nat) /\ got \in Seq(Nat) /\ msg[t] \in Nat
    BY DEF IInv, TypeOK
  <2>. QED  BY <1>2, <2>1, AppendProperties
<1>4. Inside' = Inside + 1 /\ Len(posted) = Len(got) + Inside
  BY <1>2, <1>3 DEF Inside
<1>5. tail' = Wrap(head + (Inside + 1))
  BY <1>1, <1>2, NextIndex, WrapFacts
<1>6. ASSUME NEW i \in 0..Depth-1, i < Inside + 1
      PROVE  slot[Wrap(head + i)] = posted'[Len(got) + 1 + i]
  <2>1. CASE i < Inside
    <3>1. Len(got) + 1 + i \in 1..Len(posted)
      BY <1>1, <1>3, <1>4, <2>1
    <3>. QED  BY <1>1, <1>3, <2>1, <3>1
  <2>2. CASE i = Inside
    <3>1. Len(got) + 1 + i = Len(posted) + 1
      BY <1>1, <1>3, <1>4, <2>2
    <3>. QED  BY <1>1, <1>3, <2>2, <3>1
  <2>. QED  BY <1>1, <1>6, <2>1, <2>2
<1>7. Inside + 1 \in 0..Depth
  BY <1>1, DepthAssumption
<1>. QED  BY <1>2, <1>4, <1>5, <1>6, <1>7 DEF RingIntact, Inside

\* Taking the first message makes the one behind it the first.
LEMMA OneFurther ==
    ASSUME NEW d \in Nat, NEW n \in 0..d, NEW i \in 0..d-1, i < n - 1,
           NEW g \in Nat, NEW h, h = g + 1
    PROVE  i + 1 \in 0..d-1 /\ i + 1 < n /\ h + 1 + i = g + 1 + (i + 1)
OBVIOUS

LEMMA RingGet ==
    ASSUME IInv, NEW t \in Getter, GetAdvance(t)
    PROVE  /\ RingIntact'
           /\ Len(got) < Len(posted)
           /\ msg[t] = posted[Len(got) + 1]
<1>1. /\ Inside \in 0..Depth /\ Inside > 0
      /\ head \in 0..Depth-1 /\ tail \in 0..Depth-1
      /\ tail = Wrap(head + Inside)
      /\ \A i \in 0..Depth-1 :
           i < Inside => slot[Wrap(head + i)] = posted[Len(got) + 1 + i]
      /\ msg[t] = slot[head]
  <2>1. pc[t] \in Entering /\ pc[t] = "advance"
    BY DEF GetAdvance, Entering
  <2>. QED  BY <2>1, Room DEF IInv, InHand, TypeOK, RingIntact, Inside
<1>2. /\ head' = (head + 1) % Depth
      /\ got' = Append(got, msg[t])
      /\ UNCHANGED <<slot, tail, posted>>
  BY DEF GetAdvance
<1>3. /\ Len(posted) \in Nat /\ Len(got) \in Nat /\ Len(got') = Len(got) + 1
  <2>1. posted \in Seq(Nat) /\ got \in Seq(Nat) /\ msg[t] \in Nat
    BY DEF IInv, TypeOK
  <2>. QED  BY <1>2, <2>1, AppendProperties
<1>4. Inside' = Inside - 1 /\ Len(posted) = Len(got) + Inside
  BY <1>2, <1>3 DEF Inside
<1>5. head' = Wrap(head + 1)
  BY <1>1, <1>2, NextIndex
<1>6. tail' = Wrap(head' + (Inside - 1))
  <2>1. Inside - 1 \in 0..Depth-1 /\ (Inside - 1) + 1 = Inside
    BY <1>1, DepthAssumption
  <2>. QED  BY <1>1, <1>2, <1>5, <2>1, WrapFacts
<1>7. ASSUME NEW i \in 0..Depth-1, i < Inside - 1
      PROVE  slot[Wrap(head' + i)] = posted[Len(got') + 1 + i]
  <2>0. /\ Depth \in Nat /\ Inside \in 0..Depth /\ i \in 0..Depth-1 /\ i < Inside - 1
        /\ Len(got) \in Nat /\ Len(got') = Len(got) + 1
    BY <1>1, <1>3, <1>7, DepthAssumption
  <2>1. i + 1 \in 0..Depth-1 /\ i + 1 < Inside /\ Len(got') + 1 + i = Len(got) + 1 + (i + 1)
    BY ONLY <2>0, OneFurther
  <2>2. Wrap(head' + i) = Wrap(head + (i + 1))
    BY <1>1, <1>5, WrapFacts
  <2>. QED  BY <1>1, <2>1, <2>2
<1>8. Inside - 1 \in 0..Depth
  BY <1>1, DepthAssumption
<1>9. RingIntact'
  BY <1>2, <1>4, <1>6, <1>7, <1>8 DEF RingIntact, Inside
<1>10. Len(got) < Len(posted)
  BY <1>1, <1>3, <1>4
<1>11. slot[head] = posted[Len(got) + 1]
  <2>1. 0 \in 0..Depth-1 /\ 0 < Inside /\ head + 0 = head /\ Len(got) + 1 + 0 = Len(got) + 1
    BY <1>1, <1>3, DepthAssumption
  <2>2. slot[Wrap(head + 0)] = posted[Len(got) + 1 + 0]
    BY <1>1, <2>1
  <2>. QED  BY <1>1, <2>1, <2>2, WrapFacts
<1>. QED  BY <1>1, <1>9, <1>10, <1>11

\* The steps that leave the ring and the two histories alone.
LEMMA RingFrame ==
    ASSUME [Next]_vars,
           \A t \in Poster : ~PostCopy(t) /\ ~PostAdvance(t),
           \A t \in Getter : ~GetAdvance(t)
    PROVE  UNCHANGED <<slot, head, tail, posted, got>>
<1>1. CASE UNCHANGED vars \/ Interrupt
  BY <1>1 DEF vars, Interrupt
<1>2. ASSUME NEW t \in Poster, PostCall(t) \/ Post(t) \/ Kill(t)
      PROVE  UNCHANGED <<slot, head, tail, posted, got>>
  BY <1>2 DEF PostCall, Post, PostOn, PostPermit, PostFail, TakeGuard, DropGuard, PostSignal, Kill
<1>3. ASSUME NEW t \in Getter, Get(t) \/ Kill(t)
      PROVE  UNCHANGED <<slot, head, tail, posted, got>>
  BY <1>3 DEF Get, GetOn, GetPermit, GetFail, TakeGuard, GetCopy, DropGuard, GetSignal, Kill
<1>. QED  BY <1>1, <1>2, <1>3 DEF Next

LEMMA RingStep ==
    ASSUME IInv, [Next]_vars
    PROVE  RingIntact'
<1>1. CASE UNCHANGED <<slot, head, tail, posted, got>>
  BY <1>1 DEF IInv, RingIntact
<1>. QED  BY <1>1, RingCopy, RingPost, RingGet, RingFrame
-----------------------------------------------------------------------------
LEMMA InitInv == Init => IInv
<1>. SUFFICES ASSUME Init PROVE IInv
  OBVIOUS
<1>1. TypeOK
  <2>1. 0 \in 0..Depth-1 /\ 0 \in 0..Depth /\ Depth \in 0..Depth
    BY DepthAssumption
  <2>2. slot \in [0..Depth-1 -> Nat] /\ posted \in Seq(Nat) /\ got \in Seq(Nat)
    BY DEF Init
  <2>3. pc \in [Thread -> Places] /\ msg \in [Thread -> Nat] /\ adopted \in [Thread -> BOOLEAN]
    BY DEF Init, Places
  <2>. QED  BY <2>1, <2>2, <2>3 DEF Init, TypeOK
<1>2. PostersIn = 0 /\ PostersOut = 0 /\ GettersIn = 0 /\ GettersOut = 0
  <2>1. \A T \in {Poster, Getter} : At(T, Entering, pc) = {} /\ At(T, Leaving, pc) = {}
    BY DEF Init, At, Entering, Leaving
  <2>2. Cardinality({}) = 0
    BY FS_EmptySet
  <2>. QED  BY <2>1, <2>2 DEF PostersIn, PostersOut, GettersIn, GettersOut, Count
<1>3. posted = <<>> /\ got = <<>> /\ Inside = 0
  BY DEF Init, Inside
<1>4. Permits
  BY <1>2, <1>3, DepthAssumption DEF Init, Permits
<1>5. Owner /\ InHand /\ Fresh
  BY ThreadAssumption DEF Init, Owner, InRing, InHand, Fresh, Sending
<1>6. RingIntact
  BY <1>3, DepthAssumption DEF Init, RingIntact, Inside, Wrap
<1>. QED  BY <1>1, <1>4, <1>5, <1>6 DEF IInv

LEMMA NextInv == IInv /\ [Next]_vars => IInv'
BY TypeStep, PermitsStep, OwnerStep, InHandStep, FreshStep, RingStep DEF IInv

LEMMA Invariance == Spec => []IInv
BY InitInv, NextInv, PTL DEF Spec

\* Indexes and semaphores stay in their ranges, for every number of threads and
\* every depth, whoever is killed: Release never finds a semaphore full.
THEOREM TypeCorrect == Spec => []TypeOK
<1>1. IInv => TypeOK
  BY DEF IInv
<1>. QED  BY <1>1, Invariance, PTL

\* The guard mutex does what it is there for, also when it is abandoned.
THEOREM MutualExclusion == Spec => []OneInRing
<1>1. IInv => OneInRing
  BY Alone DEF IInv
<1>. QED  BY <1>1, Invariance, PTL

\* What is between head and tail is what was posted and not got, in order.
THEOREM RingCorrect == Spec => []RingIntact
<1>1. IInv => RingIntact
  BY DEF IInv
<1>. QED  BY <1>1, Invariance, PTL

\* A mailbox implements a bounded queue, whichever threads are killed, wherever.
THEOREM FifoImplemented == Spec => ImplementsFifo
<1>1. Init => Fifo!Init
  BY DEF Init, Fifo!Init
<1>2. IInv /\ [Next]_vars => [Fifo!Next]_<<posted, got>>
  <2>. SUFFICES ASSUME IInv, [Next]_vars PROVE [Fifo!Next]_<<posted, got>>
    OBVIOUS
  <2>1. ASSUME NEW t \in Poster, PostAdvance(t) PROVE Fifo!Put
    <3>1. pc[t] \in Entering /\ Sending(t)
      BY <2>1 DEF PostAdvance, Entering, Sending
    <3>2. Len(posted) - Len(got) < Depth
      BY <3>1, Room DEF IInv, Inside
    <3>3. msg[t] \in 1..MaxPosts /\ \A i \in 1..Len(posted) : posted[i] # msg[t]
      <4>1. made \in Nat /\ made <= MaxPosts /\ MaxPosts \in Nat
        BY ThreadAssumption DEF IInv, TypeOK, Fresh
      <4>. QED  BY <3>1, <4>1 DEF IInv, Fresh
    <3>4. posted' = Append(posted, msg[t]) /\ got' = got
      BY <2>1 DEF PostAdvance
    <3>. QED  BY <3>2, <3>3, <3>4 DEF Fifo!Put
  <2>2. ASSUME NEW t \in Getter, GetAdvance(t) PROVE Fifo!Take
    <3>1. got' = Append(got, msg[t]) /\ posted' = posted
      BY <2>2 DEF GetAdvance
    <3>. QED  BY <2>2, <3>1, RingGet DEF Fifo!Take
  <2>3. ASSUME NEW t \in Poster, PostCopy(t) PROVE UNCHANGED <<posted, got>>
    BY <2>3 DEF PostCopy
  <2>. QED  BY <2>1, <2>2, <2>3, RingFrame DEF Fifo!Next
<1>. QED  BY <1>1, <1>2, Invariance, PTL DEF Spec, ImplementsFifo, Fifo!Spec
-----------------------------------------------------------------------------
(***************************************************************************)
(* What is typed.                                                          *)
(***************************************************************************)
LEMMA IndexIs ==
    ASSUME NEW codes, NEW k \in DOMAIN codes, \A j \in DOMAIN codes : codes[j] = codes[k] => j = k
    PROVE  IndexIn(codes[k], codes) = k
BY DEF IndexIn

LEMMA KeyTables ==
    /\ DOMAIN AboveDigit = 1..9 /\ DOMAIN Digit = 1..9
    /\ DOMAIN Unshifted = 1..9 /\ DOMAIN Shifted = 1..9 /\ DOMAIN OemKey = 1..9
BY DEF AboveDigit, Digit, Unshifted, Shifted, OemKey

LEMMA NineIs == \A k \in 1..9 : k \in {1, 2, 3, 4, 5, 6, 7, 8, 9}
OBVIOUS

LEMMA AboveDigitIs ==
    /\ AboveDigit[1] = 33 /\ AboveDigit[2] = 35 /\ AboveDigit[3] = 36 /\ AboveDigit[4] = 37
    /\ AboveDigit[5] = 94 /\ AboveDigit[6] = 38 /\ AboveDigit[7] = 42 /\ AboveDigit[8] = 40
    /\ AboveDigit[9] = 41
    /\ Digit[1] = 49 /\ Digit[2] = 51 /\ Digit[3] = 52 /\ Digit[4] = 53 /\ Digit[5] = 54
    /\ Digit[6] = 55 /\ Digit[7] = 56 /\ Digit[8] = 57 /\ Digit[9] = 48
BY DEF AboveDigit, Digit

LEMMA OemIs ==
    /\ Unshifted[1] = 59 /\ Unshifted[2] = 44 /\ Unshifted[3] = 46 /\ Unshifted[4] = 47
    /\ Unshifted[5] = 96 /\ Unshifted[6] = 91 /\ Unshifted[7] = 92 /\ Unshifted[8] = 93
    /\ Unshifted[9] = 39
    /\ Shifted[1] = 58 /\ Shifted[2] = 60 /\ Shifted[3] = 62 /\ Shifted[4] = 63
    /\ Shifted[5] = 126 /\ Shifted[6] = 123 /\ Shifted[7] = 124 /\ Shifted[8] = 125
    /\ Shifted[9] = 34
    /\ OemKey[1] = 186 /\ OemKey[2] = 188 /\ OemKey[3] = 190 /\ OemKey[4] = 191
    /\ OemKey[5] = 192 /\ OemKey[6] = 219 /\ OemKey[7] = 220 /\ OemKey[8] = 221
    /\ OemKey[9] = 222
BY DEF Unshifted, Shifted, OemKey

\* No code is twice in a table.
LEMMA TablesDistinct ==
    \A j, k \in 1..9 :
       /\ AboveDigit[j] = AboveDigit[k] => j = k
       /\ Digit[j] = Digit[k] => j = k
       /\ Unshifted[j] = Unshifted[k] => j = k
       /\ Shifted[j] = Shifted[k] => j = k
       /\ OemKey[j] = OemKey[k] => j = k
<1>. SUFFICES ASSUME NEW j \in 1..9, NEW k \in 1..9
              PROVE  /\ AboveDigit[j] = AboveDigit[k] => j = k
                     /\ Digit[j] = Digit[k] => j = k
                     /\ Unshifted[j] = Unshifted[k] => j = k
                     /\ Shifted[j] = Shifted[k] => j = k
                     /\ OemKey[j] = OemKey[k] => j = k
  OBVIOUS
<1>1. j \in {1, 2, 3, 4, 5, 6, 7, 8, 9} /\ k \in {1, 2, 3, 4, 5, 6, 7, 8, 9}
  OBVIOUS
<1>2. AboveDigit[j] = AboveDigit[k] => j = k
  BY ONLY <1>1, AboveDigitIs
<1>3. Digit[j] = Digit[k] => j = k
  BY ONLY <1>1, AboveDigitIs
<1>4. Unshifted[j] = Unshifted[k] => j = k
  BY ONLY <1>1, OemIs
<1>5. Shifted[j] = Shifted[k] => j = k
  BY ONLY <1>1, OemIs
<1>6. OemKey[j] = OemKey[k] => j = k
  BY ONLY <1>1, OemIs
<1>. QED  BY <1>2, <1>3, <1>4, <1>5, <1>6

\* The character that a key gives is found by the key in its row.
LEMMA RowsAre ==
    ASSUME NEW k \in 1..9
    PROVE  /\ IndexIn(AboveDigit[k], AboveDigit) = k /\ IndexIn(Digit[k], Digit) = k
           /\ IndexIn(Unshifted[k], Unshifted) = k /\ IndexIn(Shifted[k], Shifted) = k
           /\ IndexIn(OemKey[k], OemKey) = k
BY KeyTables, TablesDistinct, IndexIs

LEMMA OneOfIs ==
    ASSUME NEW c
    PROVE  /\ OneOf(c, AboveDigit) <=> \E k \in 1..9 : c = AboveDigit[k]
           /\ OneOf(c, Digit) <=> \E k \in 1..9 : c = Digit[k]
           /\ OneOf(c, Unshifted) <=> \E k \in 1..9 : c = Unshifted[k]
           /\ OneOf(c, Shifted) <=> \E k \in 1..9 : c = Shifted[k]
           /\ OneOf(c, OemKey) <=> \E k \in 1..9 : c = OemKey[k]
BY KeyTables DEF OneOf

\* Where the codes of the tables are.
LEMMA TableRanges ==
    ASSUME NEW k \in 1..9
    PROVE  /\ AboveDigit[k] \in {33, 35, 36, 37, 94, 38, 42, 40, 41}
           /\ Digit[k] \in 48 .. 57 \ {50}
           /\ Unshifted[k] \in {59, 44, 46, 47, 96, 91, 92, 93, 39}
           /\ Shifted[k] \in {58, 60, 62, 63, 126, 123, 124, 125, 34}
           /\ OemKey[k] \in {186, 188, 190, 191, 192, 219, 220, 221, 222}
<1>1. k \in {1, 2, 3, 4, 5, 6, 7, 8, 9}
  OBVIOUS
<1>2. AboveDigit[k] \in {33, 35, 36, 37, 94, 38, 42, 40, 41} /\ Digit[k] \in 48 .. 57 \ {50}
  BY ONLY <1>1, AboveDigitIs
<1>3. /\ Unshifted[k] \in {59, 44, 46, 47, 96, 91, 92, 93, 39}
      /\ Shifted[k] \in {58, 60, 62, 63, 126, 123, 124, 125, 34}
      /\ OemKey[k] \in {186, 188, 190, 191, 192, 219, 220, 221, 222}
  BY ONLY <1>1, OemIs
<1>. QED  BY <1>2, <1>3

\* What the keyboard gives, one kind of key at a time.
LEMMA UsIs ==
    ASSUME NEW vk \in Int, NEW mods
    PROVE  LET chord == Chord(vk, mods)
               shift == "shift" \in mods
           IN  "ctrl" \notin mods =>
           /\ vk \in 65 .. 90 => UsCharacter(chord) = IF shift THEN vk ELSE vk + 32
           /\ vk \in {9, 13, 32} => UsCharacter(chord) = vk
           /\ vk = 50 => UsCharacter(chord) = IF shift THEN 64 ELSE 50
           /\ \A k \in 1..9 : vk = Digit[k] => UsCharacter(chord) = IF shift THEN AboveDigit[k] ELSE Digit[k]
           /\ \A k \in 1..9 : vk = OemKey[k] => UsCharacter(chord) = IF shift THEN Shifted[k] ELSE Unshifted[k]
           /\ vk = 46 => UsCharacter(chord) = 127
<1> DEFINE chord == Chord(vk, mods)
           shift == "shift" \in mods
<1>1. chord.vk = vk /\ chord.mods = mods
  BY DEF Chord
<1>. HIDE DEF chord
<1>. SUFFICES ASSUME "ctrl" \notin mods
              PROVE  /\ vk \in 65 .. 90 => UsCharacter(chord) = IF shift THEN vk ELSE vk + 32
                     /\ vk \in {9, 13, 32} => UsCharacter(chord) = vk
                     /\ vk = 50 => UsCharacter(chord) = IF shift THEN 64 ELSE 50
                     /\ \A k \in 1..9 : vk = Digit[k] =>
                           UsCharacter(chord) = IF shift THEN AboveDigit[k] ELSE Digit[k]
                     /\ \A k \in 1..9 : vk = OemKey[k] =>
                           UsCharacter(chord) = IF shift THEN Shifted[k] ELSE Unshifted[k]
                     /\ vk = 46 => UsCharacter(chord) = 127
  BY DEF chord
<1>digit. OneOf(vk, Digit) => vk \in 48 .. 57 \ {50}
  <2>1. OneOf(vk, Digit) => \E k \in 1..9 : vk = Digit[k]
    BY ONLY OneOfIs
  <2>2. \A k \in 1..9 : Digit[k] \in 48 .. 57 \ {50}
    BY ONLY TableRanges
  <2>. QED  BY ONLY <2>1, <2>2
<1>oem. OneOf(vk, OemKey) => vk \in {186, 188, 190, 191, 192, 219, 220, 221, 222}
  <2>1. OneOf(vk, OemKey) => \E k \in 1..9 : vk = OemKey[k]
    BY ONLY OneOfIs
  <2>2. \A k \in 1..9 : OemKey[k] \in {186, 188, 190, 191, 192, 219, 220, 221, 222}
    BY ONLY TableRanges
  <2>. QED  BY ONLY <2>1, <2>2
<1>2. ASSUME vk \in 65 .. 90 PROVE UsCharacter(chord) = IF shift THEN vk ELSE vk + 32
  <2>1. ~OneOf(vk, Digit) /\ ~OneOf(vk, OemKey)
    BY ONLY <1>2, <1>digit, <1>oem
  <2>. QED  BY <1>1, <1>2, <2>1 DEF UsCharacter
<1>3. ASSUME vk \in {9, 13, 32} PROVE UsCharacter(chord) = vk
  <2>1. ~OneOf(vk, Digit) /\ ~OneOf(vk, OemKey)
    BY ONLY <1>3, <1>digit, <1>oem
  <2>. QED  BY <1>1, <1>3, <2>1 DEF UsCharacter
<1>4. ASSUME vk = 50 PROVE UsCharacter(chord) = IF shift THEN 64 ELSE 50
  <2>1. ~OneOf(vk, Digit) /\ ~OneOf(vk, OemKey)
    BY ONLY <1>4, <1>digit, <1>oem
  <2>. QED  BY <1>1, <1>4, <2>1 DEF UsCharacter
<1>5. ASSUME NEW k \in 1..9, vk = Digit[k]
      PROVE  UsCharacter(chord) = IF shift THEN AboveDigit[k] ELSE Digit[k]
  <2>1. OneOf(vk, Digit) /\ IndexIn(vk, Digit) = k /\ vk \in 48 .. 57 \ {50}
    BY <1>5, OneOfIs, RowsAre, TableRanges
  <2>2. ~OneOf(vk, OemKey)
    BY <2>1, OneOfIs, TableRanges
  <2>. QED  BY <1>1, <2>1, <2>2 DEF UsCharacter
<1>6. ASSUME NEW k \in 1..9, vk = OemKey[k]
      PROVE  UsCharacter(chord) = IF shift THEN Shifted[k] ELSE Unshifted[k]
  <2>1. /\ OneOf(vk, OemKey) /\ IndexIn(vk, OemKey) = k
        /\ vk \in {186, 188, 190, 191, 192, 219, 220, 221, 222}
    BY <1>6, OneOfIs, RowsAre, TableRanges
  <2>2. ~OneOf(vk, Digit)
    BY <2>1, OneOfIs, TableRanges
  <2>. QED  BY <1>1, <2>1, <2>2 DEF UsCharacter
<1>7. ASSUME vk = 46 PROVE UsCharacter(chord) = 127
  <2>1. ~OneOf(vk, Digit) /\ ~OneOf(vk, OemKey)
    BY ONLY <1>7, <1>digit, <1>oem
  <2>. QED  BY <1>1, <1>7, <2>1 DEF UsCharacter
<1>. QED  BY <1>2, <1>3, <1>4, <1>5, <1>6, <1>7

\* With the control key it is what is left of that.
LEMMA CtrlIs ==
    ASSUME NEW vk \in Int, NEW mods, "ctrl" \in mods
    PROVE  UsCharacter(Chord(vk, mods)) = UsCharacter(Chord(vk, mods \ {"ctrl"})) % 32
BY DEF UsCharacter, Chord

\* The key of each character but @, - and = gives it back.
LEMMA KeyGivesCharacter ==
    ASSUME NEW c \in 0 .. 127, c \notin {45, 61, 64}
    PROVE  UsCharacter(AsciiToKeyArray(c)) = c
<1> DEFINE letters == c \in 97 .. 122 \/ c \in 65 .. 90
           plain == c \in {13, 32} \union 48 .. 57
           control == c = 9 \/ c \in 1 .. 26 \ {9, 13}
           A == \E k \in 1..9 : c = AboveDigit[k]
           U == \E k \in 1..9 : c = Unshifted[k]
           S == \E k \in 1..9 : c = Shifted[k]
<1>1. \/ letters \/ plain \/ control \/ A \/ U \/ S \/ c \in {95, 43} \/ c \in 27 .. 29
      \/ c = 0 \/ c = 30 \/ c = 31 \/ c = 127
  <2>1. c \in {33, 35, 36, 37, 94, 38, 42, 40, 41} => A
    BY AboveDigitIs
  <2>2. c \in {59, 44, 46, 47, 96, 91, 92, 93, 39} => U
    BY OemIs
  <2>3. c \in {58, 60, 62, 63, 126, 123, 124, 125, 34} => S
    BY OemIs
  <2>. HIDE DEF A, U, S
  <2>. QED  BY <2>1, <2>2, <2>3
<1>2. /\ A => c \in {33, 35, 36, 37, 94, 38, 42, 40, 41}
      /\ U => c \in {59, 44, 46, 47, 96, 91, 92, 93, 39}
      /\ S => c \in {58, 60, 62, 63, 126, 123, 124, 125, 34}
  BY TableRanges
<1>3. (OneOf(c, AboveDigit) <=> A) /\ (OneOf(c, Unshifted) <=> U) /\ (OneOf(c, Shifted) <=> S)
  BY OneOfIs
<1>0. ASSUME letters \/ plain \/ control
      PROVE  ~OneOf(c, AboveDigit) /\ ~OneOf(c, Unshifted) /\ ~OneOf(c, Shifted)
  <2>. HIDE DEF A, U, S
  <2>. QED  BY <1>0, <1>2, <1>3
<1>4. ASSUME letters PROVE UsCharacter(AsciiToKeyArray(c)) = c
  <2>1. CASE c \in 97 .. 122
    <3>1. AsciiToKeyArray(c) = Chord(c - 32, {})
      BY <1>0, <1>4, <2>1 DEF AsciiToKeyArray
    <3>2. c - 32 \in Int /\ c - 32 \in 65 .. 90 /\ (c - 32) + 32 = c
      BY <2>1
    <3>. QED  BY <3>1, <3>2, UsIs
  <2>2. CASE c \in 65 .. 90
    <3>1. AsciiToKeyArray(c) = Chord(c, {"shift"})
      BY <1>0, <1>4, <2>2 DEF AsciiToKeyArray
    <3>. QED  BY <2>2, <3>1, UsIs
  <2>. QED  BY <1>4, <2>1, <2>2
<1>5. ASSUME plain PROVE UsCharacter(AsciiToKeyArray(c)) = c
  <2>1. AsciiToKeyArray(c) = Chord(c, {})
    BY <1>0, <1>5 DEF AsciiToKeyArray
  <2>2. CASE c \in {13, 32, 50}
    BY <2>1, <2>2, UsIs
  <2>3. CASE c \in 48 .. 57 \ {50}
    <3>1. \E k \in 1..9 : c = Digit[k]
      BY <2>3, AboveDigitIs
    <3>. QED  BY <2>1, <3>1, UsIs
  <2>. QED  BY <1>5, <2>2, <2>3
<1>6. ASSUME control PROVE UsCharacter(AsciiToKeyArray(c)) = c
  <2>1. CASE c = 9
    <3>1. AsciiToKeyArray(c) = Chord(9, {"ctrl"})
      BY <1>0, <1>6, <2>1 DEF AsciiToKeyArray
    <3>2. UsCharacter(Chord(9, {"ctrl"} \ {"ctrl"})) = 9
      BY UsIs
    <3>. QED  BY <2>1, <3>1, <3>2, CtrlIs
  <2>2. CASE c \in 1 .. 26 \ {9, 13}
    <3>1. AsciiToKeyArray(c) = Chord(c + 64, {"ctrl"})
      BY <1>0, <1>6, <2>2 DEF AsciiToKeyArray
    <3>2. c + 64 \in Int /\ c + 64 \in 65 .. 90
      BY <2>2
    <3>3. UsCharacter(Chord(c + 64, {"ctrl"} \ {"ctrl"})) = (c + 64) + 32
      BY <3>2, UsIs
    <3>4. ((c + 64) + 32) % 32 = c
      BY <2>2
    <3>. QED  BY <3>1, <3>2, <3>3, <3>4, CtrlIs
  <2>. QED  BY <1>6, <2>1, <2>2
<1>7. ASSUME A PROVE UsCharacter(AsciiToKeyArray(c)) = c
  <2>1. PICK k \in 1..9 : c = AboveDigit[k]
    BY <1>7
  <2>2. AsciiToKeyArray(c) = Chord(Digit[k], {"shift"})
    <3>1. IndexIn(c, AboveDigit) = k
      BY <2>1, RowsAre
    <3>. HIDE DEF A
    <3>. QED  BY <1>2, <1>3, <1>7, <3>1 DEF AsciiToKeyArray
  <2>3. Digit[k] \in Int
    BY TableRanges
  <2>. QED  BY <2>1, <2>2, <2>3, UsIs
<1>8. ASSUME U PROVE UsCharacter(AsciiToKeyArray(c)) = c
  <2>1. PICK k \in 1..9 : c = Unshifted[k]
    BY <1>8
  <2>2. AsciiToKeyArray(c) = Chord(OemKey[k], {})
    <3>1. IndexIn(c, Unshifted) = k
      BY <2>1, RowsAre
    <3>. HIDE DEF A, U, S
    <3>2. ~OneOf(c, AboveDigit)
      BY <1>2, <1>3, <1>8
    <3>. QED  BY <1>2, <1>3, <1>8, <3>1, <3>2 DEF AsciiToKeyArray
  <2>3. OemKey[k] \in Int
    BY TableRanges
  <2>. QED  BY <2>1, <2>2, <2>3, UsIs
<1>9. ASSUME S PROVE UsCharacter(AsciiToKeyArray(c)) = c
  <2>1. PICK k \in 1..9 : c = Shifted[k]
    BY <1>9
  <2>2. AsciiToKeyArray(c) = Chord(OemKey[k], {"shift"})
    <3>1. IndexIn(c, Shifted) = k
      BY <2>1, RowsAre
    <3>. HIDE DEF A, U, S
    <3>2. ~OneOf(c, AboveDigit) /\ ~OneOf(c, Unshifted)
      BY <1>2, <1>3, <1>9
    <3>. QED  BY <1>2, <1>3, <1>9, <3>1, <3>2 DEF AsciiToKeyArray
  <2>3. OemKey[k] \in Int
    BY TableRanges
  <2>. QED  BY <2>1, <2>2, <2>3, UsIs
<1>. HIDE DEF A, U, S
<1>10. ASSUME c \in {95, 43, 0, 30, 31, 127} \union 27 .. 29 PROVE UsCharacter(AsciiToKeyArray(c)) = c
  <2>1. ~A /\ ~U /\ ~S
    BY <1>2, <1>10
  <2>2. /\ c = 95 => AsciiToKeyArray(c) = Chord(189, {"shift"})
        /\ c = 43 => AsciiToKeyArray(c) = Chord(187, {"shift"})
        /\ c \in 27 .. 29 => AsciiToKeyArray(c) = Chord(c + 192, {"ctrl", "shift"})
        /\ c = 0 => AsciiToKeyArray(c) = Chord(50, {"ctrl", "shift"})
        /\ c = 30 => AsciiToKeyArray(c) = Chord(54, {"ctrl", "shift"})
        /\ c = 31 => AsciiToKeyArray(c) = Chord(189, {"ctrl", "shift"})
        /\ c = 127 => AsciiToKeyArray(c) = Chord(46, {})
    BY <1>3, <1>10, <2>1 DEF AsciiToKeyArray
  <2>3. /\ UsCharacter(Chord(189, {"shift"})) = 95
        /\ UsCharacter(Chord(187, {"shift"})) = 43
    <3>1. \A vk \in {187, 189} : ~OneOf(vk, Digit) /\ ~OneOf(vk, OemKey)
      BY OneOfIs, TableRanges
    <3>. QED  BY <3>1 DEF UsCharacter, Chord
  <2>4. {"ctrl", "shift"} \ {"ctrl"} = {"shift"}
    OBVIOUS
  <2>5. CASE c \in {95, 43}
    BY <2>2, <2>3, <2>5
  <2>6. CASE c \in 27 .. 29
    <3>1. PICK k \in {6, 7, 8} : c + 192 = OemKey[k] /\ Shifted[k] % 32 = c
      <4>1. c = 27 \/ c = 28 \/ c = 29
        BY <2>6
      <4>2. /\ c = 27 => c + 192 = OemKey[6] /\ Shifted[6] % 32 = c
            /\ c = 28 => c + 192 = OemKey[7] /\ Shifted[7] % 32 = c
            /\ c = 29 => c + 192 = OemKey[8] /\ Shifted[8] % 32 = c
        BY OemIs
      <4>. QED  BY <4>1, <4>2
    <3>2. UsCharacter(Chord(c + 192, {"shift"})) = Shifted[k]
      BY <3>1, UsIs
    <3>3. UsCharacter(Chord(c + 192, {"ctrl", "shift"})) = Shifted[k] % 32
      BY <2>4, <3>2, CtrlIs
    <3>. QED  BY <2>2, <2>6, <3>1, <3>3
  <2>7. CASE c = 0
    <3>1. UsCharacter(Chord(50, {"shift"})) = 64
      BY UsIs
    <3>2. UsCharacter(Chord(50, {"ctrl", "shift"})) = 64 % 32
      BY <2>4, <3>1, CtrlIs
    <3>. QED  BY <2>2, <2>7, <3>2
  <2>8. CASE c = 30
    <3>1. Digit[5] = 54 /\ AboveDigit[5] = 94
      BY AboveDigitIs
    <3>2. UsCharacter(Chord(54, {"shift"})) = 94
      BY <3>1, UsIs
    <3>3. UsCharacter(Chord(54, {"ctrl", "shift"})) = 94 % 32
      BY <2>4, <3>2, CtrlIs
    <3>. QED  BY <2>2, <2>8, <3>3
  <2>9. CASE c = 31
    <3>1. UsCharacter(Chord(189, {"ctrl", "shift"})) = 95 % 32
      BY <2>3, <2>4, CtrlIs
    <3>. QED  BY <2>2, <2>9, <3>1
  <2>10. CASE c = 127
    BY <2>2, <2>10, UsIs
  <2>. QED  BY <1>10, <2>5, <2>6, <2>7, <2>8, <2>9, <2>10
<1>. QED  BY <1>1, <1>4, <1>5, <1>6, <1>7, <1>8, <1>9, <1>10

JoinedBox(t, d, k) == t \o d[k]
Joining == INSTANCE FoldProofs WITH op <- JoinedBox, step <- JoinedBox

\* What is sent for a slave.
KeyEvent == {e \in [event : {"key"}, char : 0 .. 255, down : BOOLEAN,
                    chord : {AsciiToKeyArray(c) : c \in 0 .. 127}] : e.chord = AsciiToKeyArray(e.char % 128)}
Event == KeyEvent \union {Signal(number) : number \in {2, 3}}

LEMMA ConcatRegroups ==
    ASSUME NEW S, NEW a \in Seq(S), NEW b \in Seq(S), NEW c \in Seq(S)
    PROVE  (a \o b) \o c = a \o (b \o c)
BY ConcatAssociative

LEMMA ConcatTyped ==
    ASSUME NEW S, NEW a \in Seq(S), NEW b \in Seq(S)
    PROVE  a \o b \in Seq(S)
BY ConcatProperties

LEMMA ConcatNothing ==
    ASSUME NEW S, NEW a \in Seq(S)
    PROVE  a \o <<>> = a /\ <<>> \o a = a
BY ConcatEmptySeq

LEMMA FlatTyped ==
    ASSUME NEW s \in Seq(Seq(Event))
    PROVE  FlattenSeq(s) \in Seq(Event)
<1>1. Joining!Joins
  BY DEF Joining!Joins, JoinedBox
<1>2. <<>> \in Seq(Event)
  OBVIOUS
<1>3. Joining!FlattenSeq(s) \in Seq(Event)
  BY <1>1, <1>2, Joining!FlattenAppend
<1>. QED  BY <1>3 DEF FlattenSeq, Joining!FlattenSeq

LEMMA FlatAppend ==
    ASSUME NEW s \in Seq(Seq(Event)), NEW x \in Seq(Event)
    PROVE  FlattenSeq(Append(s, x)) = FlattenSeq(s) \o x
<1>1. Joining!Joins
  BY DEF Joining!Joins, JoinedBox
<1>2. Joining!FlattenSeq(Append(s, x)) = Joining!FlattenSeq(s) \o x
  BY <1>1, Joining!FlattenAppend
<1>3. \A t : Joining!FlattenSeq(t) = FlattenSeq(t)
  BY DEF FlattenSeq, Joining!FlattenSeq
<1>. QED  BY <1>2, <1>3

\* The first sequence comes before the others.
LEMMA FlatHead ==
    ASSUME NEW s \in Seq(Seq(Event)), s # <<>>
    PROVE  FlattenSeq(s) = Head(s) \o FlattenSeq(Tail(s))
<1> DEFINE B == Seq(Event)
           h == Head(s)
           t == Tail(s)
<1>1. Joining!Joins
  BY DEF Joining!Joins, JoinedBox
<1>2. h \in B /\ t \in Seq(B) /\ s = <<h>> \o t /\ <<h>> \in Seq(B)
  <2>. HIDE DEF B
  <2>1. s \in Seq(B)
    BY DEF B
  <2>2. h \in B /\ t \in Seq(B)
    BY <2>1, HeadTailProperties
  <2>3. s = <<h>> \o t
    BY <2>1, <2>2
  <2>. QED  BY <2>2, <2>3
<1>3. \A u : Joining!FlattenSeq(u) = FlattenSeq(u)
  BY DEF FlattenSeq, Joining!FlattenSeq
<1>. HIDE DEF h, t
<1>4. Joining!FlattenSeq(<<h>> \o t) = Joining!FlattenSeq(<<h>>) \o Joining!FlattenSeq(t)
  BY <1>1, <1>2, Joining!FlattenConcat
<1>5. FlattenSeq(<<h>>) = h
  <2>1. FlattenSeq(<<>>) = <<>> /\ <<>> \in Seq(B) /\ Append(<<>>, h) = <<h>>
    <3>. HIDE DEF B
    <3>. QED  BY <1>2 DEF FlattenSeq
  <2>2. FlattenSeq(Append(<<>>, h)) = FlattenSeq(<<>>) \o h
    BY <1>2, <2>1, FlatAppend
  <2>3. <<>> \o h = h
    BY <1>2
  <2>. QED  BY <2>1, <2>2, <2>3
<1>. QED  BY <1>2, <1>3, <1>4, <1>5 DEF h, t

LEMMA PrefixConcat ==
    ASSUME NEW S, NEW a \in Seq(S), NEW b \in Seq(S)
    PROVE  IsPrefix(a, a \o b)
<1>1. Len(a) <= Len(a \o b)
  BY ConcatProperties
<1>2. SubSeq(a \o b, 1, Len(a)) = SubSeq(a, 1, Len(a))
  <2>1. CASE a = <<>>
    BY <2>1
  <2>2. CASE a # <<>>
    BY <2>2, SubSeqOfConcat1
  <2>. QED  BY <2>1, <2>2
<1>. QED  BY <1>1, <1>2 DEF IsPrefix

LEMMA PrefixGrows ==
    ASSUME NEW S, NEW a \in Seq(S), NEW b \in Seq(S), NEW c \in Seq(S), IsPrefix(a, b)
    PROVE  IsPrefix(a, b \o c)
<1>1. Len(a) <= Len(b) /\ SubSeq(a, 1, Len(a)) = SubSeq(b, 1, Len(a)) /\ Len(a) \in Nat /\ Len(b) \in Nat
  BY DEF IsPrefix
<1>2. Len(a) <= Len(b \o c)
  BY <1>1, ConcatProperties
<1>3. SubSeq(b \o c, 1, Len(a)) = SubSeq(b, 1, Len(a))
  <2>1. CASE a = <<>>
    BY <2>1
  <2>2. CASE a # <<>>
    <3>1. Len(a) \in 1 .. Len(b) /\ 1 \in 1 .. Len(b)
      BY <1>1, <2>2
    <3>. QED  BY <3>1, SubSeqOfConcat1
  <2>. QED  BY <2>1, <2>2
<1>. QED  BY <1>1, <1>2, <1>3 DEF IsPrefix

\* Everything sent is in the input, in the mailbox or still to be posted, in this
\* order, while the slave runs; what is in the input stays the first of it.
KeyInv ==
    /\ by \in {"debugger", "detourer"} /\ slave \in {"runs", "ended", "noticed"}
    /\ todo \in Seq(Event) /\ box \in Seq(Seq(Event))
    /\ input \in Seq(Event) /\ sent \in Seq(Seq(Event))
    /\ IsPrefix(input, FlattenSeq(sent))
    /\ slave = "runs" => input \o (FlattenSeq(box) \o todo) = FlattenSeq(sent)

LEMMA StartKept ==
    ASSUME KeyInv, Ready, todo' \in Seq(Event), Start
    PROVE  KeyInv'
<1>1. /\ todo = <<>> /\ sent' = Append(sent, todo')
      /\ by' = by /\ box' = box /\ input' = input /\ slave' = slave
  BY DEF Ready, Start
<1>2. sent' \in Seq(Seq(Event))
  <2> DEFINE B == Seq(Event)
  <2>1. sent \in Seq(B) /\ todo' \in B
    BY DEF KeyInv
  <2>. HIDE DEF B
  <2>2. Append(sent, todo') \in Seq(B)
    BY <2>1, AppendProperties
  <2>. QED  BY <1>1, <2>2 DEF B
<1>3. FlattenSeq(sent') = FlattenSeq(sent) \o todo'
  BY <1>1, FlatAppend DEF KeyInv
<1>4. FlattenSeq(sent) \in Seq(Event) /\ FlattenSeq(box) \in Seq(Event)
  BY FlatTyped DEF KeyInv
<1>5. IsPrefix(input, FlattenSeq(sent'))
  BY <1>3, <1>4, PrefixGrows DEF KeyInv
<1>6. ASSUME slave = "runs" PROVE input \o (FlattenSeq(box) \o todo') = FlattenSeq(sent')
  <2> DEFINE f == FlattenSeq(box)
             g == FlattenSeq(sent)
  <2>1. input \o (f \o todo) = g /\ f \o todo = f
    BY <1>1, <1>4, <1>6, ConcatNothing DEF KeyInv
  <2>2. f \in Seq(Event) /\ input \in Seq(Event)
    BY <1>4 DEF KeyInv
  <2>. HIDE DEF f, g
  <2>3. (input \o f) \o todo' = input \o (f \o todo')
    BY <2>2, ConcatRegroups
  <2>. QED  BY <1>3, <2>1, <2>3 DEF f, g
<1>. QED  BY <1>1, <1>2, <1>5, <1>6 DEF KeyInv

LEMMA PressedIsEvent ==
    ASSUME NEW c \in 0 .. 255
    PROVE  Pressed(c) \in Seq(Event)
<1> DEFINE d == Key(c, TRUE)
           u == Key(c, FALSE)
<1>1. d \in Event /\ u \in Event
  <2>1. c % 128 \in 0 .. 127
    OBVIOUS
  <2> DEFINE chord == AsciiToKeyArray(c % 128)
  <2>2. chord \in {AsciiToKeyArray(code) : code \in 0 .. 127}
    BY <2>1
  <2>3. /\ d = [event |-> "key", char |-> c, down |-> TRUE, chord |-> chord]
        /\ u = [event |-> "key", char |-> c, down |-> FALSE, chord |-> chord]
    BY DEF Key
  <2>. HIDE DEF d, u
  <2>. QED  BY <2>2, <2>3 DEF Event, KeyEvent
<1>. HIDE DEF d, u
<1>2. <<d, u>> \in Seq(Event)
  BY <1>1
<1>. QED  BY <1>2 DEF Pressed, d, u

LEMMA PressedIsEvents ==
    ASSUME NEW text \in Text
    PROVE  FlattenSeq([k \in DOMAIN text |-> Pressed(text[k])]) \in Seq(Event)
<1> DEFINE B == Seq(Event)
           p == [k \in DOMAIN text |-> Pressed(text[k])]
<1>1. text \in Seq(0 .. 255)
  BY KeyboardAssumption
<1>2. \A k \in DOMAIN text : Pressed(text[k]) \in B
  <2>1. DOMAIN text = 1 .. Len(text)
    BY <1>1
  <2>2. \A k \in 1 .. Len(text) : text[k] \in 0 .. 255
    BY <1>1, ElementOfSeq
  <2>. QED  BY <2>1, <2>2, PressedIsEvent
<1>3. DOMAIN text = 1 .. Len(text) /\ Len(text) \in Nat
  BY <1>1
<1>4. p \in Seq(B)
  <2>. HIDE DEF B
  <2>. QED  BY <1>2, <1>3
<1>. HIDE DEF p
<1>. QED  BY <1>4, FlatTyped DEF p

LEMMA BatchFits ==
    ASSUME todo \in Seq(Event), todo # <<>>
    PROVE  Batch \in 1 .. Len(todo)
<1>1. Len(todo) \in Nat /\ Len(todo) >= 1
  OBVIOUS
<1>2. CASE by = "debugger" \/ todo[1].event = "signal"
  BY <1>1, <1>2 DEF Batch
<1>3. CASE ~(by = "debugger" \/ todo[1].event = "signal")
  <2> DEFINE m == 2 * (MAXRECORDS \div 2)
             n == Len(todo)
  <2>1. m \in Nat /\ m >= 1
    BY KeyboardAssumption
  <2>2. Batch = Min({m, n})
    BY <1>3 DEF Batch
  <2>. HIDE DEF m, n
  <2>3. n \in Nat /\ n >= 1
    BY <1>1 DEF n
  <2>4. \E x \in {m, n} : \A y \in {m, n} : x <= y
    BY <2>1, <2>3
  <2>5. Min({m, n}) \in {m, n} /\ \A y \in {m, n} : Min({m, n}) <= y
    BY <2>4 DEF Min
  <2>6. Batch \in 1 .. n
    BY <2>1, <2>2, <2>3, <2>5
  <2>. QED  BY <2>6 DEF n
<1>. QED  BY <1>2, <1>3

LEMMA PostKept ==
    ASSUME KeyInv, PostMessage
    PROVE  KeyInv'
<1> DEFINE m == SubSeq(todo, 1, Batch)
           r == SubSeq(todo, Batch + 1, Len(todo))
           f == FlattenSeq(box)
<1>1. /\ todo # <<>> /\ box' = Append(box, m) /\ todo' = r
      /\ by' = by /\ input' = input /\ slave' = slave /\ sent' = sent
  BY DEF PostMessage
<1>2. /\ todo \in Seq(Event) /\ Batch \in 1 .. Len(todo) /\ Len(todo) \in Nat
      /\ \A k \in 1 .. Len(todo) : todo[k] \in Event
  BY <1>1, BatchFits DEF KeyInv
<1>3. m \in Seq(Event) /\ r \in Seq(Event) /\ m \o r = todo
  <2> DEFINE n == Len(todo)
             b == Batch
  <2>1. b \in 1 .. n /\ n \in Nat /\ (\A k \in 1 .. n : todo[k] \in Event) /\ todo \in Seq(Event)
    BY <1>2
  <2>2. n = Len(todo)
    OBVIOUS
  <2>. HIDE DEF n, b
  <2>3. SubSeq(todo, 1, b) \in Seq(Event) /\ SubSeq(todo, b + 1, n) \in Seq(Event)
    <3>1. (\A k \in 1 .. b : todo[k] \in Event) /\ (\A k \in b + 1 .. n : todo[k] \in Event)
      BY <2>1
    <3>2. b \in Int /\ n \in Int /\ b + 1 \in Int /\ 1 \in Int
      BY <2>1
    <3>. QED  BY <3>1, <3>2, SubSeqProperties
  <2>4. SubSeq(todo, 1, b) \o SubSeq(todo, b + 1, n) = SubSeq(todo, 1, n)
    <3>1. 1 \in 1 .. Len(todo) + 1 /\ b \in (1 - 1) .. Len(todo) /\ n \in b .. Len(todo)
      BY <2>1, <2>2
    <3>. QED  BY <2>1, <3>1, ConcatAdjacentSubSeq
  <2>5. SubSeq(todo, 1, n) = todo
    BY <2>1, <2>2, SubSeqFull
  <2>. QED  BY <2>3, <2>4, <2>5 DEF b, n
<1>. HIDE DEF m, r
<1>4. box' \in Seq(Seq(Event)) /\ FlattenSeq(box') = f \o m /\ f \in Seq(Event)
  <2> DEFINE B == Seq(Event)
  <2>1. box \in Seq(B) /\ m \in B
    BY <1>3 DEF KeyInv
  <2>2. FlattenSeq(Append(box, m)) = f \o m /\ f \in Seq(Event)
    BY <2>1, FlatAppend, FlatTyped
  <2>. HIDE DEF B
  <2>3. Append(box, m) \in Seq(B)
    BY <2>1, AppendProperties
  <2>. QED  BY <1>1, <2>2, <2>3 DEF B
<1>. HIDE DEF f
<1>5. (f \o m) \o r = f \o todo
  <2>1. f \in Seq(Event) /\ m \in Seq(Event) /\ r \in Seq(Event)
    BY <1>3, <1>4
  <2>2. (f \o m) \o r = f \o (m \o r)
    BY ONLY <2>1, ConcatRegroups
  <2>. QED  BY <1>3, <2>2
<1>. QED  BY <1>1, <1>3, <1>4, <1>5 DEF KeyInv, f

LEMMA InjectKept ==
    ASSUME KeyInv, Inject
    PROVE  KeyInv'
<1> DEFINE h == Head(box)
           t == Tail(box)
           f == FlattenSeq(t)
           g == FlattenSeq(sent)
<1>1. /\ slave = "runs" /\ box # <<>> /\ box' = t /\ input' = input \o h
      /\ by' = by /\ todo' = todo /\ slave' = slave /\ sent' = sent
  BY DEF Inject
<1>2. t \in Seq(Seq(Event)) /\ h \in Seq(Event)
  <2> DEFINE B == Seq(Event)
  <2>1. box \in Seq(B)
    BY DEF KeyInv
  <2>. HIDE DEF B
  <2>2. t \in Seq(B) /\ h \in B
    BY <1>1, <2>1, HeadTailProperties
  <2>. QED  BY <2>2 DEF B
<1>3. FlattenSeq(box) = h \o f /\ f \in Seq(Event) /\ g \in Seq(Event)
  BY <1>1, <1>2, FlatHead, FlatTyped DEF KeyInv
<1>4. input \o ((h \o f) \o todo) = g /\ input \in Seq(Event) /\ todo \in Seq(Event)
  BY <1>1, <1>3 DEF KeyInv
<1>5. h \in Seq(Event) /\ f \in Seq(Event)
  BY <1>2, <1>3
<1>. HIDE DEF h, t, f, g
<1>6. (h \o f) \o todo = h \o (f \o todo) /\ f \o todo \in Seq(Event)
  <2>0. h \in Seq(Event) /\ f \in Seq(Event) /\ todo \in Seq(Event)
    BY <1>4, <1>5
  <2>1. (h \o f) \o todo = h \o (f \o todo)
    BY ONLY <2>0, ConcatRegroups
  <2>2. f \o todo \in Seq(Event)
    BY <1>4, <1>5, ConcatTyped
  <2>. QED  BY <2>1, <2>2
<1>7. (input \o h) \o (f \o todo) = g /\ input \o h \in Seq(Event)
  <2> DEFINE v == f \o todo
  <2>0. input \in Seq(Event) /\ h \in Seq(Event) /\ v \in Seq(Event)
    BY <1>4, <1>5, <1>6
  <2>. HIDE DEF v
  <2>3. (input \o h) \o v = input \o (h \o v)
    BY ONLY <2>0, ConcatRegroups
  <2>1. (input \o h) \o (f \o todo) = input \o (h \o (f \o todo))
    BY <2>3 DEF v
  <2>2. input \o h \in Seq(Event)
    BY <1>4, <1>5, ConcatTyped
  <2>. QED  BY <1>4, <1>6, <2>1, <2>2
<1>8. IsPrefix(input \o h, g)
  BY <1>6, <1>7, PrefixConcat
<1>. QED  BY <1>1, <1>2, <1>7, <1>8 DEF KeyInv, f, g

LEMMA KeyKept == KeyInv /\ [KeyNext]_keyVars => KeyInv'
<1>. SUFFICES ASSUME KeyInv, [KeyNext]_keyVars PROVE KeyInv'
  OBVIOUS
<1>1. ASSUME NEW text \in Text, WriteText(text) PROVE KeyInv'
  <2>1. Ready /\ Start /\ todo' = FlattenSeq([k \in DOMAIN text |-> Pressed(text[k])])
    BY <1>1 DEF WriteText
  <2>2. todo' \in Seq(Event)
    BY <2>1, PressedIsEvents
  <2>. QED  BY <2>1, <2>2, StartKept
<1>2. ASSUME NEW number \in {2, 3}, SendKill(number) PROVE KeyInv'
  <2>1. Ready /\ Start /\ todo' = <<Signal(number)>>
    BY <1>2 DEF SendKill
  <2>2. todo' \in Seq(Event)
    <3>1. Signal(number) \in Event
      BY DEF Event
    <3>. QED  BY <2>1, <3>1
  <2>. QED  BY <2>1, <2>2, StartKept
<1>3. CASE PostMessage
  BY <1>3, PostKept
<1>4. CASE PostFails
  <2>1. todo' = <<>> /\ slave = "noticed" /\ UNCHANGED <<by, box, input, slave, sent>>
    BY <1>4 DEF PostFails
  <2>2. todo' \in Seq(Event)
    BY <2>1
  <2>. QED  BY <2>1, <2>2 DEF KeyInv
<1>5. CASE Inject
  BY <1>5, InjectKept
<1>6. CASE SlaveEnds
  BY <1>6 DEF SlaveEnds, KeyInv
<1>7. CASE Notice
  BY <1>7 DEF Notice, KeyInv
<1>8. CASE UNCHANGED keyVars
  BY <1>8 DEF keyVars, KeyInv
<1>. QED  BY <1>1, <1>2, <1>3, <1>4, <1>5, <1>6, <1>7, <1>8 DEF KeyNext

\* A slave finds in its input what was sent to it, in order, nothing twice and
\* nothing left out, for all texts, any size of messages and of the mailbox, and
\* each key gives its character (Typed of Keyboard: Write of the debugger and of
\* the detourer, AsciiToKeyArray, and ThreadHandlerProc of the injector).
THEOREM TypedAsSent == KeySpec => []Typed
<1>1. KeyInit => KeyInv
  <2>. SUFFICES ASSUME KeyInit PROVE KeyInv
    OBVIOUS
  <2>1. /\ by \in {"debugger", "detourer"} /\ todo = <<>> /\ box = <<>> /\ input = <<>>
        /\ slave = "runs" /\ sent = <<>>
    BY DEF KeyInit
  <2>2. FlattenSeq(<<>>) = <<>>
    BY DEF FlattenSeq
  <2>3. <<>> \in Seq(Event) /\ <<>> \in Seq(Seq(Event)) /\ <<>> \o <<>> = <<>>
    OBVIOUS
  <2>4. IsPrefix(<<>>, <<>>)
    BY DEF IsPrefix
  <2>. QED  BY <2>1, <2>2, <2>3, <2>4 DEF KeyInv
<1>2. KeyInv => Typed
  <2>. SUFFICES ASSUME KeyInv PROVE Typed
    OBVIOUS
  <2>1. IsPrefix(input, FlattenSeq(sent)) /\ input \in Seq(Event)
    BY DEF KeyInv
  <2>2. ASSUME slave = "runs", todo = <<>>, box = <<>> PROVE input = FlattenSeq(sent)
    <3>1. FlattenSeq(box) = <<>> /\ <<>> \o <<>> = <<>>
      BY <2>2 DEF FlattenSeq
    <3>2. input \o <<>> = input
      BY <2>1, ConcatNothing
    <3>. QED  BY <2>2, <3>1, <3>2 DEF KeyInv
  <2>3. ASSUME NEW r \in Range(input), r.event = "key", r.char % 128 \notin {45, 61, 64}
        PROVE  UsCharacter(r.chord) = r.char % 128
    <3>1. r \in Event
      BY <2>1, RangeOfSeq
    <3>2. r \in KeyEvent
      BY <2>3, <3>1 DEF Event, Signal
    <3>3. r.char \in 0 .. 255 /\ r.chord = AsciiToKeyArray(r.char % 128)
      BY <3>2 DEF KeyEvent
    <3>4. r.char % 128 \in 0 .. 127
      BY <3>3
    <3>. QED  BY <2>3, <3>3, <3>4, KeyGivesCharacter
  <2>. QED  BY <2>1, <2>2, <2>3 DEF Typed
<1>. QED  BY <1>1, <1>2, KeyKept, PTL DEF KeySpec
-----------------------------------------------------------------------------
(***************************************************************************)
(* Channels, for any channels of the script and any number of spawn ids    *)
(* over them.  What Tcl has of the handlers, and what each driver has been *)
(* told to watch, is right for the slaves and for the sides of the pair    *)
(* while interest goes down, and after each channel that ends.             *)
(***************************************************************************)
Proc == {"ExpChanReadable", "ExpChanWritable", "ExpPairReadable", "ExpPairWritable"}
Handler == [on : Base \union {Pair}, proc : Proc, owner : Exp \union {Pair}, mask : SUBSET Conditions]
Tcl == [handlers : SUBSET Handler, watch : [Base \union {Pair} -> SUBSET Conditions], null : BOOLEAN]

\* The directions of the pair: the side, the event, the procedure.
Ends == {<<In, "readable", "ExpPairReadable">>, <<Out, "writable", "ExpPairWritable">>}

\* A handler of a spawn id is on its slave; one of the pair is on the side that
\* has the event, which is in the mask w of the pair.
OfExp(h, slaves) == h.owner \in Exp /\ h.on = slaves[h.owner]
OfPair(h, sides, w) ==
    h.owner = Pair /\ \E x \in Ends : h.proc = x[3] /\ h.on = sides[x[1]] /\ x[2] \in w

Owned(t, slaves, sides, w) ==
    /\ t \in Tcl
    /\ \A h \in t.handlers : OfExp(h, slaves) \/ OfPair(h, sides, w)
    /\ t.null => NoChannel \in {sides[In], sides[Out]}

Good(t, slaves, sides) == Owned(t, slaves, sides, t.watch[Pair])

LEMMA ChannelNames ==
    /\ NoChannel \notin Base \union {Pair} \union Exp /\ Pair \notin Base /\ Pair \notin Exp
    /\ Stdinout \notin Base /\ Stdinout \notin Spawned /\ Base \intersect Exp = {} /\ In # Out
BY ChannelsAssumption DEF Base, Exp, In, Out, Pair, Stdinout

LEMMA EndsAre ==
    ASSUME NEW x \in Ends
    PROVE  /\ x[1] \in {In, Out} /\ x[2] \in Conditions /\ x[3] \in Proc
           /\ \A y \in Ends : x[3] = y[3] => x = y
           /\ \A y \in Ends : x[2] = y[2] => x = y
BY DEF Ends, Proc, Conditions, In, Out

LEMMA TclFields ==
    ASSUME NEW t \in Tcl
    PROVE  /\ t.handlers \in SUBSET Handler /\ t.watch \in [Base \union {Pair} -> SUBSET Conditions]
           /\ t.null \in BOOLEAN
BY DEF Tcl

\* Another set of handlers.
LEMMA OtherHandlers ==
    ASSUME NEW t \in Tcl, NEW hs \in SUBSET Handler
    PROVE  LET u == [t EXCEPT !.handlers = hs] IN
           u \in Tcl /\ u.handlers = hs /\ u.watch = t.watch /\ u.null = t.null
BY DEF Tcl

\* A driver is told of another mask.
LEMMA OtherWatch ==
    ASSUME NEW t \in Tcl, NEW c \in Base \union {Pair}, NEW mask \in SUBSET Conditions
    PROVE  LET u == [t EXCEPT !.watch[c] = mask] IN
           /\ u \in Tcl /\ u.handlers = t.handlers /\ u.null = t.null
           /\ \A b \in Base \union {Pair} : u.watch[b] = IF b = c THEN mask ELSE t.watch[b]
BY DEF Tcl

Rewatched(t, u, c, mask) ==
    /\ u \in Tcl /\ u.handlers = t.handlers /\ u.null = t.null
    /\ \A b \in Base \union {Pair} : u.watch[b] = IF b = c THEN mask ELSE t.watch[b]

LEMMA OtherWatched ==
    ASSUME NEW t \in Tcl, NEW c \in Base \union {Pair}, NEW mask \in SUBSET Conditions,
           NEW u, u = [t EXCEPT !.watch[c] = mask]
    PROVE  Rewatched(t, u, c, mask)
<1>1. t.watch \in [Base \union {Pair} -> SUBSET Conditions]
  BY DEF Tcl
<1>2. u.handlers = t.handlers /\ u.null = t.null /\ u.watch = [t.watch EXCEPT ![c] = mask]
  BY DEF Tcl
<1>3. u \in Tcl
  BY DEF Tcl
<1>. QED  BY ONLY <1>1, <1>2, <1>3, c \in Base \union {Pair} DEF Rewatched

\* There is no channel to ask.
LEMMA NullTold ==
    ASSUME NEW t \in Tcl
    PROVE  LET u == [t EXCEPT !.null = TRUE] IN
           u \in Tcl /\ u.handlers = t.handlers /\ u.watch = t.watch /\ u.null
BY DEF Tcl

LEMMA InterestTyped ==
    ASSUME NEW t \in Tcl, NEW c
    PROVE  Interest(t, c) \in SUBSET Conditions
<1>1. \A h \in t.handlers : h.mask \subseteq Conditions
  BY TclFields DEF Handler
<1>. QED  BY <1>1 DEF Interest

LEMMA OthersAre ==
    ASSUME NEW t \in Tcl, NEW c, NEW proc, NEW owner
    PROVE  /\ Others(t, c, proc, owner) \in SUBSET Handler
           /\ Others(t, c, proc, owner) \subseteq t.handlers
           /\ \A h \in t.handlers : h \in Others(t, c, proc, owner) <=> ~(h.on = c /\ h.proc = proc /\ h.owner = owner)
BY TclFields DEF Others, Same

LEMMA WatchKeeps ==
    ASSUME NEW t, NEW slaves, NEW sides, NEW w, Owned(t, slaves, sides, w),
           NEW c \in Base, NEW mask \in SUBSET Conditions
    PROVE  LET u == [t EXCEPT !.watch[c] = mask] IN
           Owned(u, slaves, sides, w) /\ u.watch[Pair] = t.watch[Pair] /\ u.handlers = t.handlers
<1> DEFINE u == [t EXCEPT !.watch[c] = mask]
<1>1. t \in Tcl /\ c \in Base \union {Pair} /\ Pair \in Base \union {Pair} /\ c # Pair
  BY ChannelNames DEF Owned
<1>2. /\ u \in Tcl /\ u.handlers = t.handlers /\ u.null = t.null
      /\ u.watch[Pair] = t.watch[Pair]
  BY <1>1, OtherWatch
<1>. HIDE DEF u
<1>3. Owned(u, slaves, sides, w)
  BY <1>2 DEF Owned
<1>. QED  BY <1>2, <1>3 DEF u

\* From t to u: the handlers agree with w, and the mask of the pair is still the old one.
Halfway(t, u, slaves, w) == Owned(u, slaves, side, w) /\ u.watch[Pair] = t.watch[Pair]

\* One direction of the pair: what is watched of it is in the new mask.
LEMMA SideKeeps ==
    ASSUME NEW t, NEW slaves, NEW w \in SUBSET Conditions, Owned(t, slaves, side, w),
           side \in [{In, Out} -> Base \union {NoChannel}],
           NEW x \in Ends, NEW mask \in SUBSET Conditions,
           x[2] \in w <=> x[2] \in t.watch[Pair]
    PROVE  Halfway(t, WatchSide(t, x[1], x[2], x[3], mask), slaves,
                   (w \ {x[2]}) \union (mask \intersect {x[2]}))
<1> DEFINE s == x[1]
           event == x[2]
           proc == x[3]
           base == side[s]
           w1 == (w \ {event}) \union (mask \intersect {event})
           told == IF base = NoChannel THEN t ELSE [t EXCEPT !.watch[base] = mask \intersect {event}]
           u == WatchSide(t, s, event, proc, mask)
<1>1. s \in {In, Out} /\ event \in Conditions /\ proc \in Proc
  BY EndsAre
<1>2. base \in Base \union {NoChannel} /\ NoChannel \notin Base
  BY <1>1, ChannelNames
<1>3. /\ Owned(told, slaves, side, w) /\ told.watch[Pair] = t.watch[Pair] /\ told.handlers = t.handlers
  <2>1. CASE base = NoChannel
    BY <2>1
  <2>2. CASE base # NoChannel
    <3>1. base \in Base /\ mask \intersect {event} \in SUBSET Conditions
      BY <1>2, <2>2
    <3>2. told = [t EXCEPT !.watch[base] = mask \intersect {event}]
      BY <2>2
    <3>. HIDE DEF told, base, event
    <3>. QED  BY <3>1, <3>2, WatchKeeps
  <2>. QED  BY <2>1, <2>2
<1>4. u = IF event \in mask
          THEN IF event \in t.watch[Pair] THEN told ELSE CreateOnBase(told, base, proc, Pair, {event})
          ELSE IF event \in t.watch[Pair] THEN DeleteOnBase(t, base, proc, Pair) ELSE t
  BY DEF WatchSide
<1>. HIDE DEF told, u
<1>0. SUFFICES Owned(u, slaves, side, w1) /\ u.watch[Pair] = t.watch[Pair]
  BY DEF u, Halfway
<1>5. ASSUME NEW h, OfPair(h, side, w), h.proc # proc PROVE OfPair(h, side, w1)
  <2>1. PICK y \in Ends : h.proc = y[3] /\ h.on = side[y[1]] /\ y[2] \in w
    BY <1>5 DEF OfPair
  <2>2. y[2] # event
    BY <1>5, <2>1, EndsAre
  <2>3. y[2] \in w1
    BY <2>1, <2>2
  <2>. HIDE DEF w1
  <2>. QED  BY <1>5, <2>1, <2>3 DEF OfPair
<1>6. CASE event \in mask
  <2>1. w \subseteq w1 /\ event \in w1
    BY <1>6
  <2>2. \A h : OfPair(h, side, w) => OfPair(h, side, w1)
    BY <2>1 DEF OfPair
  <2>3. Owned(told, slaves, side, w1)
    <3>. HIDE DEF w1, event, s
    <3>. QED  BY <1>3, <2>2 DEF Owned
  <2>4. CASE event \in t.watch[Pair]
    BY <1>3, <1>4, <1>6, <2>3, <2>4
  <2>5. CASE event \notin t.watch[Pair] /\ base = NoChannel
    <3>1. u = [told EXCEPT !.null = TRUE]
      BY <1>4, <1>6, <2>5 DEF CreateOnBase
    <3>2. told \in Tcl
      BY <1>3 DEF Owned
    <3>3. u \in Tcl /\ u.handlers = told.handlers /\ u.watch = told.watch
      BY <3>1, <3>2, NullTold
    <3>4. NoChannel \in {side[In], side[Out]}
      BY <1>1, <2>5
    <3>. HIDE DEF w1, s, base, event
    <3>. QED  BY <1>3, <2>3, <3>3, <3>4 DEF Owned
  <2>6. CASE event \notin t.watch[Pair] /\ base # NoChannel
    <3> DEFINE new == [on |-> base, proc |-> proc, owner |-> Pair, mask |-> {event}]
               hs == Others(told, base, proc, Pair) \union {new}
               v == [told EXCEPT !.handlers = hs]
    <3>1. u = WatchBase(v, base)
      BY <1>4, <1>6, <2>6 DEF CreateOnBase
    <3>2. told \in Tcl /\ base \in Base
      BY <1>2, <1>3, <2>6 DEF Owned
    <3>3. new \in Handler
      BY <1>1, <3>2 DEF Handler
    <3>4. OfPair(new, side, w1)
      <4>1. new.owner = Pair /\ new.proc = proc /\ new.on = base
        OBVIOUS
      <4>. HIDE DEF new, w1
      <4>. QED  BY <2>1, <4>1 DEF OfPair
    <3>. HIDE DEF new
    <3>5. hs \in SUBSET Handler /\ hs \subseteq told.handlers \union {new}
      BY <3>2, <3>3, OthersAre
    <3>. HIDE DEF hs
    <3>6. v \in Tcl /\ v.handlers = hs /\ v.watch = told.watch /\ v.null = told.null
      BY <3>2, <3>5, OtherHandlers
    <3>. HIDE DEF v, w1
    <3>7. Owned(v, slaves, side, w1)
      BY <2>3, <3>4, <3>5, <3>6 DEF Owned
    <3>8. Interest(v, base) \in SUBSET Conditions
      BY <3>6, InterestTyped
    <3>9. u = [v EXCEPT !.watch[base] = Interest(v, base)]
      BY <3>1 DEF WatchBase
    <3>10. Owned(u, slaves, side, w1) /\ u.watch[Pair] = v.watch[Pair]
      <4>. HIDE DEF base
      <4>. QED  BY <3>2, <3>7, <3>8, <3>9, WatchKeeps
    <3>. QED  BY <1>3, <3>6, <3>10
  <2>. QED  BY <2>4, <2>5, <2>6
<1>7. CASE event \notin mask /\ event \notin t.watch[Pair]
  <2>1. w1 = w
    BY <1>7
  <2>. QED  BY <1>4, <1>7, <2>1
<1>8. CASE event \notin mask /\ event \in t.watch[Pair] /\ base = NoChannel
  <2>1. u = [t EXCEPT !.null = TRUE]
    BY <1>4, <1>8 DEF DeleteOnBase
  <2>2. t \in Tcl
    BY DEF Owned
  <2>3. u \in Tcl /\ u.handlers = t.handlers /\ u.watch = t.watch
    BY <2>1, <2>2, NullTold
  <2>4. NoChannel \in {side[In], side[Out]}
    BY <1>1, <1>8
  <2>5. ASSUME NEW h \in t.handlers, OfPair(h, side, w) PROVE OfPair(h, side, w1)
    <3>1. PICK y \in Ends : h.proc = y[3] /\ h.on = side[y[1]] /\ y[2] \in w
      BY <2>5 DEF OfPair
    <3>2. h.on \in Base \union {Pair} /\ h.on # NoChannel
      BY <2>2, TclFields, ChannelNames DEF Handler
    <3>3. y # x
      BY <1>8, <3>1, <3>2
    <3>4. h.proc # proc
      BY <3>1, <3>3, EndsAre
    <3>. QED  BY <1>5, <2>5, <3>4
  <2>. HIDE DEF w1, s, base, event
  <2>6. Owned(u, slaves, side, w1)
    BY <2>3, <2>4, <2>5 DEF Owned
  <2>. QED  BY <2>3, <2>6
<1>9. CASE event \notin mask /\ event \in t.watch[Pair] /\ base # NoChannel
  <2> DEFINE hs == Others(t, base, proc, Pair)
             v == [t EXCEPT !.handlers = hs]
  <2>1. u = WatchBase(v, base)
    BY <1>4, <1>9 DEF DeleteOnBase
  <2>2. t \in Tcl /\ base \in Base
    BY <1>2, <1>9 DEF Owned
  <2>3. /\ hs \in SUBSET Handler /\ hs \subseteq t.handlers
        /\ \A h \in hs : ~(h.on = base /\ h.proc = proc /\ h.owner = Pair)
    BY <2>2, OthersAre
  <2>. HIDE DEF hs
  <2>4. v \in Tcl /\ v.handlers = hs /\ v.watch = t.watch /\ v.null = t.null
    BY <2>2, <2>3, OtherHandlers
  <2>. HIDE DEF v
  <2>5. ASSUME NEW h \in hs, OfPair(h, side, w) PROVE OfPair(h, side, w1)
    <3>1. PICK y \in Ends : h.proc = y[3] /\ h.on = side[y[1]] /\ y[2] \in w
      BY <2>5 DEF OfPair
    <3>2. h.owner = Pair
      BY <2>5 DEF OfPair
    <3>3. y # x
      BY <2>3, <3>1, <3>2
    <3>4. h.proc # proc
      BY <3>1, <3>3, EndsAre
    <3>. QED  BY <1>5, <2>5, <3>4
  <2>. HIDE DEF w1
  <2>7. Owned(v, slaves, side, w1)
    BY <2>3, <2>4, <2>5 DEF Owned
  <2>8. Interest(v, base) \in SUBSET Conditions
    BY <2>4, InterestTyped
  <2>9. u = [v EXCEPT !.watch[base] = Interest(v, base)]
    BY <2>1 DEF WatchBase
  <2>10. Owned(u, slaves, side, w1) /\ u.watch[Pair] = v.watch[Pair]
    <3>. HIDE DEF base
    <3>. QED  BY <2>2, <2>7, <2>8, <2>9, WatchKeeps
  <2>. QED  BY <2>4, <2>10
<1>. QED  BY <1>6, <1>7, <1>8, <1>9

LEMMA PairKeeps ==
    ASSUME NEW t, NEW slaves, Good(t, slaves, side),
           side \in [{In, Out} -> Base \union {NoChannel}], NEW mask \in SUBSET Conditions
    PROVE  Good(ExpPairWatch(t, mask), slaves, side)
<1> DEFINE r == WatchSide(t, In, "readable", "ExpPairReadable", mask)
           w == WatchSide(r, Out, "writable", "ExpPairWritable", mask)
           old == t.watch[Pair]
           m1 == (old \ {"readable"}) \union (mask \intersect {"readable"})
           m2 == (m1 \ {"writable"}) \union (mask \intersect {"writable"})
           u == [w EXCEPT !.watch[Pair] = mask]
<1>1. t \in Tcl /\ Owned(t, slaves, side, old)
  BY DEF Good, Owned
<1>2. old \in SUBSET Conditions
  BY <1>1, TclFields
<1>3. Owned(r, slaves, side, m1) /\ r.watch[Pair] = old
  <2> DEFINE x == <<In, "readable", "ExpPairReadable">>
  <2>1. x \in Ends /\ x[1] = In /\ x[2] = "readable" /\ x[3] = "ExpPairReadable"
    BY DEF Ends
  <2>2. x[2] \in old <=> x[2] \in t.watch[Pair]
    OBVIOUS
  <2>3. LET v == WatchSide(t, x[1], x[2], x[3], mask) IN
        Halfway(t, v, slaves, (old \ {x[2]}) \union (mask \intersect {x[2]}))
    <3>1. /\ old \in SUBSET Conditions /\ Owned(t, slaves, side, old) /\ mask \in SUBSET Conditions
          /\ side \in [{In, Out} -> Base \union {NoChannel}]
          /\ x \in Ends /\ (x[2] \in old <=> x[2] \in t.watch[Pair])
      BY <1>1, <1>2, <2>1, <2>2
    <3>. HIDE DEF x, old
    <3>. QED  BY ONLY <3>1, SideKeeps
  <2>. HIDE DEF x
  <2>. QED  BY <2>1, <2>3 DEF Halfway
<1>4. m1 \in SUBSET Conditions /\ ("writable" \in m1 <=> "writable" \in r.watch[Pair])
  BY <1>2, <1>3 DEF Conditions
<1>5. m2 = mask
  BY <1>2 DEF Conditions
<1>. HIDE DEF m1, r
<1>6. Owned(w, slaves, side, m2)
  <2> DEFINE x == <<Out, "writable", "ExpPairWritable">>
  <2>1. x \in Ends /\ x[1] = Out /\ x[2] = "writable" /\ x[3] = "ExpPairWritable"
    BY DEF Ends
  <2>2. x[2] \in m1 <=> x[2] \in r.watch[Pair]
    BY <1>4
  <2>3. LET v == WatchSide(r, x[1], x[2], x[3], mask) IN
        Halfway(r, v, slaves, (m1 \ {x[2]}) \union (mask \intersect {x[2]}))
    <3>1. /\ m1 \in SUBSET Conditions /\ Owned(r, slaves, side, m1) /\ mask \in SUBSET Conditions
          /\ side \in [{In, Out} -> Base \union {NoChannel}]
          /\ x \in Ends /\ (x[2] \in m1 <=> x[2] \in r.watch[Pair])
      BY <1>3, <1>4, <2>1, <2>2
    <3>. HIDE DEF x
    <3>. QED  BY ONLY <3>1, SideKeeps
  <2>. HIDE DEF x
  <2>. QED  BY <2>1, <2>3 DEF Halfway
<1>. HIDE DEF w, m2
<1>7. w \in Tcl /\ Owned(w, slaves, side, mask) /\ Pair \in Base \union {Pair}
  BY <1>5, <1>6 DEF Owned
<1>8. u \in Tcl /\ u.handlers = w.handlers /\ u.null = w.null /\ u.watch[Pair] = mask
  <2>1. /\ u \in Tcl /\ u.handlers = w.handlers /\ u.null = w.null
        /\ \A b \in Base \union {Pair} : u.watch[b] = IF b = Pair THEN mask ELSE w.watch[b]
    <3>1. u = [w EXCEPT !.watch[Pair] = mask] /\ mask \in SUBSET Conditions
      BY <1>7
    <3>. HIDE DEF u
    <3>2. Rewatched(w, u, Pair, mask)
      BY ONLY <1>7, <3>1, OtherWatched
    <3>. QED  BY ONLY <3>2 DEF Rewatched
  <2>. QED  BY <1>7, <2>1
<1>9. u = ExpPairWatch(t, mask)
  BY DEF u, w, r, ExpPairWatch
<1>. HIDE DEF u
<1>10. Good(u, slaves, side)
  BY <1>7, <1>8 DEF Good, Owned
<1>. QED  BY <1>9, <1>10

LEMMA DriverKeeps ==
    ASSUME NEW t, NEW slaves, Good(t, slaves, side),
           side \in [{In, Out} -> Base \union {NoChannel}],
           NEW c \in Base \union {Pair}, NEW mask \in SUBSET Conditions
    PROVE  Good(WatchDriver(t, c, mask), slaves, side)
<1>1. CASE c = Pair
  BY <1>1, PairKeeps DEF WatchDriver
<1>2. CASE c # Pair
  <2> DEFINE u == [t EXCEPT !.watch[c] = mask]
  <2>1. c \in Base /\ Owned(t, slaves, side, t.watch[Pair])
    BY <1>2 DEF Good
  <2>2. Owned(u, slaves, side, t.watch[Pair]) /\ u.watch[Pair] = t.watch[Pair]
    BY <2>1, WatchKeeps
  <2>. HIDE DEF u
  <2>3. Good(u, slaves, side)
    BY <2>2 DEF Good
  <2>. QED  BY <1>2, <2>3 DEF WatchDriver, u
<1>. QED  BY <1>1, <1>2

\* The handlers of a spawn id.
LEMMA CreateKeeps ==
    ASSUME NEW t, NEW slaves, Good(t, slaves, side),
           side \in [{In, Out} -> Base \union {NoChannel}],
           NEW e \in Exp, NEW c \in Base \union {Pair}, c = slaves[e],
           NEW proc \in Proc, NEW mask \in SUBSET Conditions
    PROVE  Good(Create(t, c, proc, e, mask), slaves, side)
<1> DEFINE new == [on |-> c, proc |-> proc, owner |-> e, mask |-> mask]
           hs == Others(t, c, proc, e) \union {new}
           u == [t EXCEPT !.handlers = hs]
<1>1. t \in Tcl
  BY DEF Good, Owned
<1>2. new \in Handler /\ OfExp(new, slaves)
  BY DEF Handler, OfExp
<1>3. Create(t, c, proc, e, mask) = WatchDriver(u, c, Interest(u, c))
  BY DEF Create
<1>. HIDE DEF new
<1>4. hs \in SUBSET Handler /\ hs \subseteq t.handlers \union {new}
  BY <1>1, <1>2, OthersAre
<1>. HIDE DEF hs
<1>5. u \in Tcl /\ u.handlers = hs /\ u.watch = t.watch /\ u.null = t.null
  BY <1>1, <1>4, OtherHandlers
<1>. HIDE DEF u
<1>6. Good(u, slaves, side)
  BY <1>2, <1>4, <1>5 DEF Good, Owned
<1>7. Interest(u, c) \in SUBSET Conditions
  BY <1>5, InterestTyped
<1>. QED  BY <1>3, <1>6, <1>7, DriverKeeps

LEMMA DeleteKeeps ==
    ASSUME NEW t, NEW slaves, Good(t, slaves, side),
           side \in [{In, Out} -> Base \union {NoChannel}],
           NEW e, NEW c \in Base \union {Pair}, NEW proc
    PROVE  Good(Delete(t, c, proc, e), slaves, side)
<1> DEFINE hs == Others(t, c, proc, e)
           u == [t EXCEPT !.handlers = hs]
<1>1. t \in Tcl
  BY DEF Good, Owned
<1>2. Delete(t, c, proc, e) = WatchDriver(u, c, Interest(u, c))
  BY DEF Delete
<1>3. hs \in SUBSET Handler /\ hs \subseteq t.handlers
  BY <1>1, OthersAre
<1>. HIDE DEF hs
<1>4. u \in Tcl /\ u.handlers = hs /\ u.watch = t.watch /\ u.null = t.null
  BY <1>1, <1>3, OtherHandlers
<1>. HIDE DEF u
<1>5. Good(u, slaves, side)
  BY <1>3, <1>4 DEF Good, Owned
<1>6. Interest(u, c) \in SUBSET Conditions
  BY <1>4, InterestTyped
<1>. QED  BY <1>2, <1>5, <1>6, DriverKeeps

LEMMA WatchedKeeps ==
    ASSUME NEW t, Good(t, slaveOf, side),
           side \in [{In, Out} -> Base \union {NoChannel}],
           NEW e \in Exp, slaveOf[e] \in Base \union {Pair}, NEW mask \in SUBSET Conditions
    PROVE  Good(ExpChanWatch(t, e, mask), slaveOf, side)
<1> DEFINE c == slaveOf[e]
           old == wanted[e]
           r == IF "readable" \in mask \ old THEN Create(t, c, "ExpChanReadable", e, {"readable"})
                ELSE IF "readable" \in old \ mask THEN Delete(t, c, "ExpChanReadable", e) ELSE t
           w == IF "writable" \in mask \ old THEN Create(r, c, "ExpChanReadable", e, {"writable"})
                ELSE IF "writable" \in old \ mask THEN Delete(r, c, "ExpChanWritable", e) ELSE r
<1>1. {"readable"} \in SUBSET Conditions /\ {"writable"} \in SUBSET Conditions /\ "ExpChanReadable" \in Proc
  BY DEF Conditions, Proc
<1>2. Good(r, slaveOf, side)
  <2>1. Good(Create(t, c, "ExpChanReadable", e, {"readable"}), slaveOf, side)
    BY <1>1, CreateKeeps
  <2>2. Good(Delete(t, c, "ExpChanReadable", e), slaveOf, side)
    BY DeleteKeeps
  <2>. QED  BY <2>1, <2>2
<1>. HIDE DEF r
<1>3. Good(w, slaveOf, side)
  <2>1. Good(Create(r, c, "ExpChanReadable", e, {"writable"}), slaveOf, side)
    BY <1>1, <1>2, CreateKeeps
  <2>2. Good(Delete(r, c, "ExpChanWritable", e), slaveOf, side)
    BY <1>2, DeleteKeeps
  <2>. QED  BY <1>2, <2>1, <2>2
<1>4. ExpChanWatch(t, e, mask) = WatchDriver(w, c, mask)
  BY DEF ExpChanWatch, w, r
<1>. HIDE DEF w
<1>5. Good(WatchDriver(w, c, mask), slaveOf, side)
  BY <1>3, DriverKeeps
<1>. QED  BY <1>4, <1>5

Unwatching == INSTANCE FoldProofs WITH op <- ExpChanWatch, step <- ExpChanWatch

\* Each of the spawn ids that close stops to watch.
LEMMA SeqOfSet ==
    ASSUME NEW S, IsFiniteSet(S)
    PROVE  \E n \in Nat : SetToSeq(S) \in [1 .. n -> S] /\ DOMAIN SetToSeq(S) = 1 .. n
<1> DEFINE n == Cardinality(S)
           Right(f) == f \in [1 .. n -> S] /\ IsInjective(f)
<1>1. n \in Nat
  BY FS_CardinalityType
<1>2. PICK m \in Nat : ExistsBijection(1 .. m, S)
  BY FS_NatBijection
<1>3. m = n
  BY <1>2, FS_CountingElements
<1>4. \E f : Right(f)
  <2>1. PICK f \in Bijection(1 .. n, S) : TRUE
    BY <1>2, <1>3 DEF ExistsBijection
  <2>2. f \in [1 .. n -> S] /\ \A a, b \in 1 .. n : f[a] = f[b] => a = b
    BY <2>1 DEF Bijection, Injection, IsInjective
  <2>. QED  BY <2>2 DEF IsInjective
<1>5. SetToSeq(S) = CHOOSE f : Right(f)
  BY DEF SetToSeq
<1>6. Right(SetToSeq(S))
  <2>. HIDE DEF Right
  <2>. QED  BY <1>4, <1>5
<1>. QED  BY <1>1, <1>6

SlavesRight ==
    /\ slaveOf \in [Exp -> Base \union {Pair, NoChannel}]
    /\ side \in [{In, Out} -> Base \union {NoChannel}]
    /\ odd \in [written : SUBSET Exp, shared : SUBSET Base, panic : BOOLEAN]
    /\ held \subseteq Base
    /\ \A e \in Exp : slaveOf[e] = Pair => e = Stdinout /\ Pair \notin freed
    /\ \A e \in Exp : slaveOf[e] \in held => e \in leaveopen
    /\ \A e \in Spawned : slaveOf[e] # NoChannel => e \in live /\ e \notin freed
    /\ Stdinout \notin freed
    /\ odd.panic => leaveopen \intersect closed # {}

ChanInv == SlavesRight /\ Good(tcl, slaveOf, side)

LEMMA UnwatchedIsFold ==
    ASSUME NEW es
    PROVE  Unwatched(es) = Unwatching!Fold(tcl, SetToSeq(Shown(es)), {})
BY DEF Unwatched, Unwatching!Fold, FoldLeft, MapThenFoldSet, Unwatching!FoldLeft, Unwatching!MapThenFoldSet,
       Max, Unwatching!Max

LEMMA UnwatchedKeeps ==
    ASSUME ChanInv, NEW es \in SUBSET Exp
    PROVE  Good(Unwatched(es), slaveOf, side)
<1> DEFINE S == {t \in Tcl : Good(t, slaveOf, side)}
           seq == SetToSeq(Shown(es))
           base == tcl
<1>1. Shown(es) \subseteq Exp /\ \A e \in Shown(es) : slaveOf[e] \in Base \union {Pair}
  BY DEF Shown, ChanInv, SlavesRight
<1>2. IsFiniteSet(Shown(es))
  <2>1. IsFiniteSet(Exp)
    BY ChannelsAssumption, FS_Singleton, FS_Union DEF Exp
  <2>. QED  BY <1>1, <2>1, FS_Subset
<1>3. PICK n \in Nat : seq \in [1 .. n -> Shown(es)] /\ DOMAIN seq = 1 .. n
  BY <1>2, SeqOfSet
<1>4. base \in S
  BY DEF ChanInv, Good, Owned
<1>5. ASSUME NEW t \in S, NEW k \in 1 .. n PROVE ExpChanWatch(t, seq[k], {}) \in S
  <2>1. seq[k] \in Exp /\ slaveOf[seq[k]] \in Base \union {Pair} /\ {} \in SUBSET Conditions
    BY <1>1, <1>3
  <2>. HIDE DEF seq
  <2>2. Good(ExpChanWatch(t, seq[k], {}), slaveOf, side)
    BY <2>1, WatchedKeeps DEF ChanInv, SlavesRight
  <2>. QED  BY <2>2 DEF Good, Owned
<1>6. Unwatching!Fold(base, seq, {}) \in S
  <2>. HIDE DEF base, seq, S
  <2>. QED  BY <1>3, <1>4, <1>5, Unwatching!FoldStays
<1>. QED  BY <1>6, UnwatchedIsFold

\* Channels of the script end, and what is over them forgets them.
LEMMA DetachedKeeps ==
    ASSUME NEW t, NEW slaves \in [Exp -> Base \union {Pair, NoChannel}], NEW sides, Good(t, slaves, sides),
           NEW gone \in SUBSET Base, NEW after, NEW sidesAfter,
           \A e \in Exp : after[e] = IF slaves[e] \in gone THEN NoChannel ELSE slaves[e],
           \A s \in {In, Out} : sidesAfter[s] = sides[s] \/ (sides[s] \in gone /\ sidesAfter[s] = NoChannel)
    PROVE  Good(Detached(t, gone), after, sidesAfter)
<1> DEFINE hs == {h \in t.handlers : h.on \notin gone}
           w == [c \in Base \union {Pair} |-> IF c \in gone THEN {} ELSE t.watch[c]]
           u == [handlers |-> hs, watch |-> w, null |-> t.null]
<1>1. t \in Tcl /\ DOMAIN t.watch = Base \union {Pair}
  BY TclFields DEF Good, Owned
<1>2. u = Detached(t, gone)
  <2>1. w = [c \in DOMAIN t.watch |-> IF c \in gone THEN {} ELSE t.watch[c]]
    BY <1>1
  <2>2. Detached(t, gone) = [t EXCEPT !.handlers = hs, !.watch = w]
    BY <2>1 DEF Detached
  <2>. HIDE DEF hs, w
  <2>. QED  BY <1>1, <2>2 DEF Tcl
<1>3. w \in [Base \union {Pair} -> SUBSET Conditions] /\ w[Pair] = t.watch[Pair]
  BY <1>1, TclFields, ChannelNames
<1>4. hs \in SUBSET Handler /\ hs \subseteq t.handlers /\ \A h \in hs : h.on \notin gone
  BY <1>1, TclFields
<1>. HIDE DEF w, hs
<1>5. u \in Tcl /\ u.handlers = hs /\ u.watch = w /\ u.null = t.null
  BY <1>1, <1>3, <1>4, TclFields DEF Tcl
<1>. HIDE DEF u
<1>6. ASSUME NEW h \in hs PROVE OfExp(h, after) \/ OfPair(h, sidesAfter, w[Pair])
  <2>1. h \in t.handlers /\ h.on \notin gone
    BY <1>4
  <2>2. CASE OfExp(h, slaves)
    BY <2>1, <2>2 DEF OfExp
  <2>3. CASE OfPair(h, sides, t.watch[Pair])
    <3>1. PICK x \in Ends : h.proc = x[3] /\ h.on = sides[x[1]] /\ x[2] \in t.watch[Pair]
      BY <2>3 DEF OfPair
    <3>2. sidesAfter[x[1]] = sides[x[1]]
      BY <2>1, <3>1, EndsAre
    <3>. QED  BY <1>3, <2>3, <3>1, <3>2 DEF OfPair
  <2>. QED  BY <2>1, <2>2, <2>3 DEF Good, Owned
<1>7. t.null => NoChannel \in {sidesAfter[In], sidesAfter[Out]}
  <2>1. NoChannel \notin gone
    BY ChannelNames
  <2>. QED  BY <2>1 DEF Good, Owned
<1>8. Good(u, after, sidesAfter)
  BY <1>5, <1>6, <1>7 DEF Good, Owned
<1>. QED  BY <1>2, <1>8

LEMMA PairClosedKeeps ==
    ASSUME NEW t, NEW slaves, Good(t, slaves, side), NEW after,
           \A e \in Exp : after[e] = IF slaves[e] \in {Pair} THEN NoChannel ELSE slaves[e]
    PROVE  Good([t EXCEPT !.handlers = {h \in @ : h.on # Pair}], after, side)
<1> DEFINE hs == {h \in t.handlers : h.on # Pair}
           u == [t EXCEPT !.handlers = hs]
<1>1. t \in Tcl
  BY DEF Good, Owned
<1>2. hs \in SUBSET Handler /\ hs \subseteq t.handlers /\ \A h \in hs : h.on # Pair
  BY <1>1, TclFields
<1>. HIDE DEF hs
<1>3. u \in Tcl /\ u.handlers = hs /\ u.watch = t.watch /\ u.null = t.null
  BY <1>1, <1>2, OtherHandlers
<1>. HIDE DEF u
<1>4. \A h \in hs : OfExp(h, slaves) => OfExp(h, after)
  BY <1>2 DEF OfExp
<1>5. Good(u, after, side)
  BY <1>2, <1>3, <1>4 DEF Good, Owned
<1>. QED  BY <1>5 DEF u, hs

LEMMA ChanInitGood == ChannelsInit => ChanInv
<1>. SUFFICES ASSUME ChannelsInit PROVE ChanInv
  OBVIOUS
<1>1. /\ slaveOf = [e \in Exp |-> IF e = Stdinout THEN Pair ELSE NoChannel]
      /\ side = [s \in {In, Out} |-> IF s = In THEN In ELSE Out]
      /\ held = Base /\ freed = {} /\ odd = [written |-> {}, shared |-> {}, panic |-> FALSE]
  BY DEF ChannelsInit, Exp_CreatePairChannel
<1>2. tcl \in Tcl /\ tcl.handlers = {} /\ tcl.null = FALSE
  BY DEF ChannelsInit, Exp_CreatePairChannel, Tcl
<1>3. Good(tcl, slaveOf, side)
  BY <1>2 DEF Good, Owned
<1>4. In \in Base /\ Out \in Base /\ Pair \notin Base /\ NoChannel \notin Base
  BY ChannelNames DEF Base
<1>5. side \in [{In, Out} -> Base \union {NoChannel}]
  BY <1>1, <1>4
<1>6. slaveOf \in [Exp -> Base \union {Pair, NoChannel}]
  BY <1>1
<1>7. \A e \in Exp : slaveOf[e] = IF e = Stdinout THEN Pair ELSE NoChannel
  BY <1>1
<1>8. odd \in [written : SUBSET Exp, shared : SUBSET Base, panic : BOOLEAN] /\ odd.panic = FALSE
  BY <1>1
<1>9. Spawned \subseteq Exp /\ Stdinout \notin Spawned /\ Pair # NoChannel
  BY ChannelNames DEF Exp
<1>10. SlavesRight
  BY <1>1, <1>4, <1>5, <1>6, <1>7, <1>8, <1>9 DEF SlavesRight
<1>. QED  BY <1>3, <1>10 DEF ChanInv

LEMMA ChanSame ==
    ASSUME ChanInv, UNCHANGED <<live, held, slaveOf, side, leaveopen, tcl, freed, odd>>,
           closed \subseteq closed'
    PROVE  ChanInv'
BY DEF ChanInv, SlavesRight, Good, Owned

LEMMA WatchExpKeeps ==
    ASSUME ChanInv, NEW e \in Exp, NEW mask \in SUBSET Conditions, WatchExp(e, mask)
    PROVE  ChanInv'
<1>1. /\ UNCHANGED <<live, held, slaveOf, side, leaveopen, closed, freed>>
      /\ slaveOf[e] = NoChannel => UNCHANGED <<tcl, odd>>
      /\ slaveOf[e] # NoChannel => /\ tcl' = ExpChanWatch(tcl, e, mask)
                                   /\ odd' = IF "writable" \in mask THEN [odd EXCEPT !.written = @ \union {e}] ELSE odd
  BY DEF WatchExp
<1>2. odd' \in [written : SUBSET Exp, shared : SUBSET Base, panic : BOOLEAN] /\ odd'.panic = odd.panic
  BY <1>1 DEF ChanInv, SlavesRight
<1>3. SlavesRight'
  BY <1>1, <1>2 DEF ChanInv, SlavesRight
<1>4. Good(tcl', slaveOf, side)
  <2>1. slaveOf[e] # NoChannel => slaveOf[e] \in Base \union {Pair}
    BY DEF ChanInv, SlavesRight
  <2>. QED  BY <1>1, <2>1, WatchedKeeps DEF ChanInv, SlavesRight
<1>. QED  BY <1>1, <1>3, <1>4 DEF ChanInv

LEMMA ScriptCloseKeeps ==
    ASSUME ChanInv, NEW c \in Base, ScriptClose(c)
    PROVE  ChanInv'
<1>1. /\ UNCHANGED <<leaveopen, closed, freed, odd>> /\ held' = held \ {c} /\ live' = live \ {c}
      /\ slaveOf' = [e \in Exp |-> IF slaveOf[e] \in {c} THEN NoChannel ELSE slaveOf[e]]
      /\ side' = IF Pair \in {c} \union freed THEN side
                 ELSE [s \in {In, Out} |-> IF side[s] \in {c} THEN NoChannel ELSE side[s]]
      /\ tcl' = Detached(tcl, {c})
  BY DEF ScriptClose, Forget
<1>2. SlavesRight'
  <2>1. c \notin Exp
    BY ChannelNames
  <2>. QED  BY <1>1, <2>1, ChannelNames DEF ChanInv, SlavesRight, Exp
<1>3. Good(tcl', slaveOf', side')
  <2>1. \A s \in {In, Out} : side'[s] = side[s] \/ (side[s] \in {c} /\ side'[s] = NoChannel)
    BY <1>1
  <2>2. \A e \in Exp : slaveOf'[e] = IF slaveOf[e] \in {c} THEN NoChannel ELSE slaveOf[e]
    BY <1>1
  <2>3. slaveOf \in [Exp -> Base \union {Pair, NoChannel}] /\ Good(tcl, slaveOf, side) /\ {c} \in SUBSET Base
    BY DEF ChanInv, SlavesRight
  <2>. QED  BY <1>1, <2>1, <2>2, <2>3, DetachedKeeps
<1>. QED  BY <1>2, <1>3 DEF ChanInv

LEMMA SpawnOpenKeeps ==
    ASSUME ChanInv, NEW e \in Spawned, NEW c \in Base, NEW leave \in BOOLEAN, SpawnOpen(e, c, leave)
    PROVE  ChanInv'
<1>1. /\ e \notin live /\ e \notin freed /\ e \in Exp /\ c \in held
      /\ UNCHANGED <<side, closed, tcl, freed>>
      /\ live' = live \union {e}
      /\ held' = IF leave THEN held ELSE held \ {c}
      /\ slaveOf' = [slaveOf EXCEPT ![e] = c]
      /\ leaveopen' = IF leave THEN leaveopen \union {e} ELSE leaveopen
  BY DEF SpawnOpen, Exp
<1>2. odd' \in [written : SUBSET Exp, shared : SUBSET Base, panic : BOOLEAN] /\ odd'.panic = odd.panic
  BY DEF ChanInv, SlavesRight, SpawnOpen
<1>3. Pair # c /\ Pair \notin Base
  BY ChannelNames
<1>4. \A f \in Exp : slaveOf'[f] = IF f = e THEN c ELSE slaveOf[f]
  BY <1>1 DEF ChanInv, SlavesRight
<1>5. \A f \in Exp : slaveOf'[f] \in held' => f \in leaveopen'
  BY <1>1, <1>4 DEF ChanInv, SlavesRight
<1>6. slaveOf' \in [Exp -> Base \union {Pair, NoChannel}]
  BY <1>1 DEF ChanInv, SlavesRight
<1>7. SlavesRight'
  <2>1. \A f \in Spawned : slaveOf'[f] # NoChannel => f \in live' /\ f \notin freed'
    BY <1>1, <1>4 DEF ChanInv, SlavesRight, Exp
  <2>2. \A f \in Exp : slaveOf'[f] = Pair => f = Stdinout /\ Pair \notin freed'
    BY <1>1, <1>3, <1>4 DEF ChanInv, SlavesRight
  <2>. QED  BY <1>1, <1>2, <1>5, <1>6, <2>1, <2>2 DEF ChanInv, SlavesRight
<1>8. slaveOf[e] = NoChannel
  BY <1>1 DEF ChanInv, SlavesRight
<1>9. \A h \in tcl.handlers : OfExp(h, slaveOf) => OfExp(h, slaveOf')
  <2>1. \A h \in tcl.handlers : h.on # NoChannel
    BY TclFields, ChannelNames DEF ChanInv, Good, Owned, Handler
  <2>. QED  BY <1>4, <1>8, <2>1 DEF OfExp
<1>10. Good(tcl', slaveOf', side')
  BY <1>1, <1>9 DEF ChanInv, Good, Owned
<1>. QED  BY <1>7, <1>10 DEF ChanInv

LEMMA ExpCloseKeeps ==
    ASSUME ChanInv, NEW e \in Exp, ExpClose(e)
    PROVE  ChanInv'
<1>1. /\ UNCHANGED <<live, held, slaveOf, side, leaveopen, freed, odd>>
      /\ closed' = closed \union {e} /\ tcl' = Unwatched({e})
  BY DEF ExpClose, Quiet
<1>2. SlavesRight'
  BY <1>1 DEF ChanInv, SlavesRight
<1>3. Good(tcl', slaveOf, side)
  BY <1>1, UnwatchedKeeps
<1>. QED  BY <1>1, <1>2, <1>3 DEF ChanInv

LEMMA ExpChanCloseKeeps ==
    ASSUME ChanInv, NEW e \in Exp, ExpChanClose(e)
    PROVE  ChanInv'
<1> DEFINE gone == IF e = Stdinout \/ slaveOf[e] = NoChannel THEN {} ELSE {slaveOf[e]}
<1>1. /\ UNCHANGED <<leaveopen, closed>> /\ e \in live \intersect closed
      /\ live' = (live \ {e}) \ gone /\ held' = held \ gone
      /\ slaveOf' = [f \in Exp |-> IF slaveOf[f] \in gone THEN NoChannel ELSE slaveOf[f]]
      /\ side' = IF Pair \in gone \union freed THEN side
                 ELSE [s \in {In, Out} |-> IF side[s] \in gone THEN NoChannel ELSE side[s]]
      /\ tcl' = Detached(tcl, gone)
      /\ odd' = [odd EXCEPT !.panic = gone \intersect held # {}]
      /\ freed' = IF e = Stdinout THEN freed ELSE freed \union {e}
  BY DEF ExpChanClose, Forget
<1>2. gone \in SUBSET Base
  BY DEF ChanInv, SlavesRight
<1>3. gone \intersect held # {} => e \in leaveopen
  BY DEF ChanInv, SlavesRight
<1>4. e # Stdinout => slaveOf'[e] = NoChannel
  BY <1>1
<1>. HIDE DEF gone
<1>5. \A f \in Exp : slaveOf'[f] = IF slaveOf[f] \in gone THEN NoChannel ELSE slaveOf[f]
  BY <1>1
<1>6. gone \intersect Exp = {} /\ NoChannel \notin gone /\ Pair \notin gone /\ Pair \notin Exp /\ Pair # NoChannel
  BY <1>2, ChannelNames
<1>7. \A s \in {In, Out} : side'[s] = side[s] \/ (side[s] \in gone /\ side'[s] = NoChannel)
  BY <1>1
<1>8. SlavesRight'
  <2>1. /\ slaveOf' \in [Exp -> Base \union {Pair, NoChannel}]
        /\ side' \in [{In, Out} -> Base \union {NoChannel}]
    BY <1>1 DEF ChanInv, SlavesRight
  <2>2. /\ odd' \in [written : SUBSET Exp, shared : SUBSET Base, panic : BOOLEAN]
        /\ odd'.panic => leaveopen' \intersect closed' # {}
    BY <1>1, <1>3 DEF ChanInv, SlavesRight
  <2>3. held' \subseteq Base /\ Stdinout \notin freed' /\ (Pair \in freed' => Pair \in freed)
    BY <1>1, <1>6 DEF ChanInv, SlavesRight
  <2>4. \A f \in Exp : slaveOf'[f] = Pair => f = Stdinout /\ Pair \notin freed'
    BY <1>5, <1>6, <2>3 DEF ChanInv, SlavesRight
  <2>5. \A f \in Exp : slaveOf'[f] \in held' => f \in leaveopen'
    <3>1. NoChannel \notin held'
      BY <2>3, ChannelNames
    <3>. QED  BY <1>1, <1>5, <3>1 DEF ChanInv, SlavesRight
  <2>6. \A f \in Spawned : slaveOf'[f] # NoChannel => f \in live' /\ f \notin freed'
    <3>. SUFFICES ASSUME NEW f \in Spawned, slaveOf'[f] # NoChannel PROVE f \in live' /\ f \notin freed'
      OBVIOUS
    <3>1. f \in Exp /\ f # Stdinout
      BY ChannelNames DEF Exp
    <3>2. slaveOf[f] # NoChannel /\ f # e
      BY <1>4, <1>5, <3>1
    <3>3. f \in live /\ f \notin freed
      BY <3>2 DEF ChanInv, SlavesRight
    <3>. QED  BY <1>1, <1>6, <3>1, <3>2, <3>3
  <2>. QED  BY <2>1, <2>2, <2>3, <2>4, <2>5, <2>6 DEF SlavesRight
<1>9. Good(tcl', slaveOf', side')
  <2>1. slaveOf \in [Exp -> Base \union {Pair, NoChannel}] /\ Good(tcl, slaveOf, side)
    BY DEF ChanInv, SlavesRight
  <2>. QED  BY <1>1, <1>2, <1>5, <1>7, <2>1, DetachedKeeps
<1>. QED  BY <1>8, <1>9 DEF ChanInv

\* The pair ends, and the handlers that are on it.
LEMMA PairEnds ==
    ASSUME ChanInv, NEW t, Good(t, slaveOf, side), ExpPairClose(t),
           UNCHANGED <<held, leaveopen, odd>>, closed \subseteq closed'
    PROVE  ChanInv'
<1>1. /\ live' = live \ {Pair} /\ freed' = freed \union {Pair}
      /\ slaveOf' = [e \in Exp |-> IF slaveOf[e] \in {Pair} THEN NoChannel ELSE slaveOf[e]]
      /\ side' = side
      /\ tcl' = [t EXCEPT !.handlers = {h \in @ : h.on # Pair}]
  BY DEF ExpPairClose, Forget
<1>2. \A e \in Exp : slaveOf'[e] = IF slaveOf[e] \in {Pair} THEN NoChannel ELSE slaveOf[e]
  BY <1>1
<1>3. Good(tcl', slaveOf', side)
  BY <1>1, <1>2, PairClosedKeeps
<1>4. SlavesRight'
  <2>1. slaveOf' \in [Exp -> Base \union {Pair, NoChannel}]
    BY <1>1 DEF ChanInv, SlavesRight
  <2>2. Pair \notin Exp /\ Stdinout \in Exp /\ NoChannel # Pair /\ NoChannel \notin held /\ Spawned \subseteq Exp
    BY ChannelNames DEF ChanInv, SlavesRight, Exp
  <2>3. \A e \in Exp : slaveOf'[e] = Pair => e = Stdinout /\ Pair \notin freed'
    BY <1>2, <2>2
  <2>4. \A e \in Exp : slaveOf'[e] \in held' => e \in leaveopen'
    BY <1>2, <2>2 DEF ChanInv, SlavesRight
  <2>5. \A e \in Spawned : slaveOf'[e] # NoChannel => e \in live' /\ e \notin freed'
    BY <1>1, <1>2, <2>2 DEF ChanInv, SlavesRight
  <2>. QED  BY <1>1, <2>1, <2>2, <2>3, <2>4, <2>5 DEF ChanInv, SlavesRight
<1>. QED  BY <1>1, <1>3, <1>4 DEF ChanInv

LEMMA ClosePairKeeps ==
    ASSUME ChanInv, ClosePair
    PROVE  ChanInv'
BY PairEnds DEF ClosePair, ChanInv

LEMMA ExpCloseAllKeeps ==
    ASSUME ChanInv, ExpCloseAll
    PROVE  ChanInv'
<1> DEFINE es == (live \intersect Exp) \ closed
<1>1. /\ UNCHANGED <<held, leaveopen, odd>> /\ closed \subseteq closed'
      /\ IF Pair \in live THEN ExpPairClose(Unwatched(es))
         ELSE tcl' = Unwatched(es) /\ UNCHANGED <<live, freed, slaveOf, side>>
  BY DEF ExpCloseAll, Quiet
<1>2. Good(Unwatched(es), slaveOf, side)
  BY UnwatchedKeeps
<1>. HIDE DEF es
<1>3. CASE Pair \in live
  BY <1>1, <1>2, <1>3, PairEnds
<1>4. CASE Pair \notin live
  <2>1. SlavesRight'
    BY <1>1, <1>4 DEF ChanInv, SlavesRight
  <2>. QED  BY <1>1, <1>2, <1>4, <2>1 DEF ChanInv
<1>. QED  BY <1>3, <1>4

LEMMA ChanInvKept == ChanInv /\ [ChannelsNext]_chanVars => ChanInv'
<1>. SUFFICES ASSUME ChanInv, [ChannelsNext]_chanVars PROVE ChanInv'
  OBVIOUS
<1>1. CASE UNCHANGED chanVars
  BY <1>1, ChanSame DEF chanVars
<1>2. ASSUME NEW e \in Exp, NEW m \in {"blocking", "nonblocking"}, BlockExp(e, m) PROVE ChanInv'
  BY <1>2, ChanSame DEF BlockExp
<1>3. ASSUME NEW value \in BOOLEAN, ExpPairSetOption(value) PROVE ChanInv'
  BY <1>3, ChanSame DEF ExpPairSetOption
<1>. QED
  BY <1>1, <1>2, <1>3, WatchExpKeeps, ScriptCloseKeeps, SpawnOpenKeeps, ExpCloseKeeps,
     ExpChanCloseKeeps, ClosePairKeeps, ExpCloseAllKeeps DEF ChannelsNext

LEMMA ChanInvHolds == ChannelsSpec => []ChanInv
BY ChanInitGood, ChanInvKept, PTL DEF ChannelsSpec

LEMMA ChanInvLive == ChanInv => HandlersAreLive
<1>. SUFFICES ASSUME ChanInv PROVE HandlersAreLive
  OBVIOUS
<1>1. ASSUME NEW h \in tcl.handlers, h.owner \in freed PROVE h.owner = Pair /\ tcl.watch[Pair] # {}
  <2>1. ~OfExp(h, slaveOf)
    <3>. SUFFICES ASSUME OfExp(h, slaveOf) PROVE FALSE
      OBVIOUS
    <3>1. h.owner \in Spawned /\ h.on = slaveOf[h.owner]
      BY <1>1 DEF OfExp, ChanInv, SlavesRight, Exp
    <3>2. h.on # NoChannel
      BY TclFields, ChannelNames DEF ChanInv, Good, Owned, Handler
    <3>. QED  BY <1>1, <3>1, <3>2 DEF ChanInv, SlavesRight
  <2>. QED  BY <2>1 DEF ChanInv, Good, Owned, OfPair
<1>. QED  BY <1>1 DEF ChanInv, SlavesRight, Good, Owned, HandlersAreLive

(***************************************************************************)
(* No event goes to a freed record: for any channels of the script and any *)
(* number of spawn ids over them, a handler that a channel still has       *)
(* belongs to a record that is there, or to a pair that closed while its   *)
(* input was awaited, and nothing is asked of a channel that is gone but by *)
(* a pair that lost a side (ExpChanWatch, ExpPairWatch, ExpChanClose and   *)
(* ExpPairClose of exp_chan.c, Exp_SpawnObjCmd, exp_close_all).            *)
(***************************************************************************)
THEOREM HandlersLive == ChannelsSpec => []HandlersAreLive
BY ChanInvHolds, ChanInvLive, PTL

-----------------------------------------------------------------------------
(***************************************************************************)
(* Input that is awaited gets to the spawn id.                             *)
(***************************************************************************)
\* A handler on the channel c tells owner of the event.
Told(t, c, owner, event) == \E h \in t.handlers : h.on = c /\ h.owner = owner /\ event \in h.mask

LEMMA InterestHas ==
    ASSUME NEW t, NEW c, NEW owner, NEW event, Told(t, c, owner, event)
    PROVE  event \in Interest(t, c)
BY DEF Told, Interest

LEMMA CreatedOnBase ==
    ASSUME NEW t \in Tcl, NEW base \in Base, NEW proc \in Proc, NEW owner \in Exp \union {Pair},
           NEW event \in Conditions
    PROVE  LET u == CreateOnBase(t, base, proc, owner, {event}) IN
           /\ \A h : h.owner # owner \/ h.on # base => (h \in u.handlers <=> h \in t.handlers)
           /\ \A b \in Base \union {Pair} : b # base => u.watch[b] = t.watch[b]
           /\ event \in u.watch[base]
           /\ Told(u, base, owner, event)
<1> DEFINE new == [on |-> base, proc |-> proc, owner |-> owner, mask |-> {event}]
           hs == Others(t, base, proc, owner) \union {new}
           v == [t EXCEPT !.handlers = hs]
           u == CreateOnBase(t, base, proc, owner, {event})
<1>1. u = WatchBase(v, base)
  BY ChannelNames DEF CreateOnBase
<1>2. new \in Handler /\ new.on = base /\ new.owner = owner /\ event \in new.mask
  BY DEF Handler
<1>. HIDE DEF new
<1>3. /\ hs \in SUBSET Handler /\ new \in hs
      /\ \A h : h.owner # owner \/ h.on # base => (h \in hs <=> h \in t.handlers)
  BY <1>2, OthersAre
<1>. HIDE DEF hs
<1>4. v \in Tcl /\ v.handlers = hs /\ v.watch = t.watch
  BY <1>3, OtherHandlers
<1>. HIDE DEF v
<1>5. Interest(v, base) \in SUBSET Conditions /\ base \in Base \union {Pair}
  BY <1>4, InterestTyped
<1>6. u = [v EXCEPT !.watch[base] = Interest(v, base)]
  BY <1>1 DEF WatchBase
<1>. HIDE DEF u
<1>7. /\ u.handlers = v.handlers
      /\ \A b \in Base \union {Pair} : u.watch[b] = IF b = base THEN Interest(v, base) ELSE v.watch[b]
  BY <1>4, <1>5, <1>6, OtherWatch
<1>8. Told(v, base, owner, event) /\ Told(u, base, owner, event)
  BY <1>2, <1>3, <1>4, <1>7 DEF Told
<1>9. event \in u.watch[base]
  BY <1>5, <1>7, <1>8, InterestHas
<1>. QED  BY <1>3, <1>4, <1>7, <1>8, <1>9 DEF u

LEMMA DeletedOnBase ==
    ASSUME NEW t \in Tcl, NEW base \in Base, NEW proc, NEW owner
    PROVE  LET u == DeleteOnBase(t, base, proc, owner) IN
           /\ \A h : h.owner # owner \/ h.on # base => (h \in u.handlers <=> h \in t.handlers)
           /\ \A b \in Base \union {Pair} : b # base => u.watch[b] = t.watch[b]
<1> DEFINE hs == Others(t, base, proc, owner)
           v == [t EXCEPT !.handlers = hs]
           u == DeleteOnBase(t, base, proc, owner)
<1>1. u = WatchBase(v, base)
  BY ChannelNames DEF DeleteOnBase
<1>3. /\ hs \in SUBSET Handler
      /\ \A h : h.owner # owner \/ h.on # base => (h \in hs <=> h \in t.handlers)
  BY OthersAre
<1>. HIDE DEF hs
<1>4. v \in Tcl /\ v.handlers = hs /\ v.watch = t.watch
  BY <1>3, OtherHandlers
<1>. HIDE DEF v
<1>5. Interest(v, base) \in SUBSET Conditions /\ base \in Base \union {Pair}
  BY <1>4, InterestTyped
<1>6. u = [v EXCEPT !.watch[base] = Interest(v, base)]
  BY <1>1 DEF WatchBase
<1>. HIDE DEF u
<1>7. /\ u.handlers = v.handlers
      /\ \A b \in Base \union {Pair} : u.watch[b] = IF b = base THEN Interest(v, base) ELSE v.watch[b]
  BY <1>4, <1>5, <1>6, OtherWatch
<1>. QED  BY <1>3, <1>4, <1>7 DEF u

\* One direction of the pair lets all else be, and does what the mask says.
LEMMA SideDoes ==
    ASSUME NEW t \in Tcl, side \in [{In, Out} -> Base \union {NoChannel}],
           NEW x \in Ends, NEW mask \in SUBSET Conditions
    PROVE  LET u == WatchSide(t, x[1], x[2], x[3], mask)
               c == side[x[1]]
           IN  /\ \A h : h.owner # Pair \/ h.on # c => (h \in u.handlers <=> h \in t.handlers)
               /\ \A b \in Base \union {Pair} : b # c => u.watch[b] = t.watch[b]
               /\ x[2] \in mask /\ c # NoChannel => x[2] \in u.watch[c]
               /\ x[2] \in mask /\ c # NoChannel /\ x[2] \notin t.watch[Pair] => Told(u, c, Pair, x[2])
               /\ x[2] \in mask /\ c # NoChannel /\ x[2] \in t.watch[Pair] => u.handlers = t.handlers
<1> DEFINE s == x[1]
           event == x[2]
           proc == x[3]
           c == side[s]
           m == mask \intersect {event}
           told == IF c = NoChannel THEN t ELSE [t EXCEPT !.watch[c] = m]
           u == WatchSide(t, s, event, proc, mask)
<1>1. s \in {In, Out} /\ event \in Conditions /\ proc \in Proc /\ Pair \in Exp \union {Pair}
  BY EndsAre
<1>2. c \in Base \union {NoChannel} /\ NoChannel \notin Base \union {Pair} /\ m \in SUBSET Conditions
  BY <1>1, ChannelNames
<1>3. u = IF event \in mask
          THEN IF event \in t.watch[Pair] THEN told ELSE CreateOnBase(told, c, proc, Pair, {event})
          ELSE IF event \in t.watch[Pair] THEN DeleteOnBase(t, c, proc, Pair) ELSE t
  BY DEF WatchSide
<1>4. event \in mask => event \in m
  OBVIOUS
<1>. HIDE DEF u, c, event, proc, s, m
<1>5. /\ told \in Tcl /\ told.handlers = t.handlers
      /\ \A b \in Base \union {Pair} : b # c => told.watch[b] = t.watch[b]
      /\ c # NoChannel => told.watch[c] = m
  <2>1. CASE c = NoChannel
    BY <1>2, <2>1
  <2>2. CASE c # NoChannel
    <3> DEFINE v == [t EXCEPT !.watch[c] = m]
    <3>1. c \in Base \union {Pair} /\ told = v
      BY <1>2, <2>2
    <3>2. /\ v \in Tcl /\ v.handlers = t.handlers
          /\ \A b \in Base \union {Pair} : v.watch[b] = IF b = c THEN m ELSE t.watch[b]
      <4>1. t \in Tcl /\ c \in Base \union {Pair} /\ m \in SUBSET Conditions
        BY <1>2, <3>1
      <4>2. v = [t EXCEPT !.watch[c] = m]
        OBVIOUS
      <4>. HIDE DEF v
      <4>3. Rewatched(t, v, c, m)
        BY ONLY <4>1, <4>2, OtherWatched
      <4>. QED  BY ONLY <4>3 DEF Rewatched
    <3>. HIDE DEF told, v
    <3>. QED  BY <3>1, <3>2
  <2>. QED  BY <2>1, <2>2
<1>. HIDE DEF told
<1>6. CASE c = NoChannel
  <2>1. \/ u = t \/ u = told
        \/ u = [told EXCEPT !.null = TRUE] \/ u = [t EXCEPT !.null = TRUE]
    BY <1>3, <1>6 DEF CreateOnBase, DeleteOnBase
  <2>2. u.handlers = t.handlers /\ \A b \in Base \union {Pair} : u.watch[b] = t.watch[b]
    <3>1. \A b \in Base \union {Pair} : b # c
      BY <1>2, <1>6
    <3>2. ASSUME NEW v \in Tcl, u = [v EXCEPT !.null = TRUE] PROVE u.handlers = v.handlers /\ u.watch = v.watch
      BY <3>2, NullTold
    <3>3. told \in Tcl /\ told.handlers = t.handlers /\ \A b \in Base \union {Pair} : told.watch[b] = t.watch[b]
      BY <1>5, <3>1
    <3>4. CASE u = t \/ u = told
      BY ONLY <3>3, <3>4
    <3>5. CASE u = [told EXCEPT !.null = TRUE]
      <4>1. u.handlers = told.handlers /\ u.watch = told.watch
        BY <3>2, <3>3, <3>5
      <4>. QED  BY ONLY <3>3, <4>1
    <3>6. CASE u = [t EXCEPT !.null = TRUE]
      <4>1. u.handlers = t.handlers /\ u.watch = t.watch
        BY <3>2, <3>6
      <4>. QED  BY ONLY <4>1
    <3>. QED  BY <2>1, <3>4, <3>5, <3>6
  <2>. QED  BY <1>6, <2>2 DEF u, c, event, s, proc
<1>7. CASE c # NoChannel
  <2>0. c \in Base
    BY <1>2, <1>7
  <2>1. CASE event \in mask /\ event \in t.watch[Pair]
    BY <1>3, <1>4, <1>5, <1>7, <2>1 DEF u, c, event, s, proc
  <2>2. CASE event \in mask /\ event \notin t.watch[Pair]
    <3>1. u = CreateOnBase(told, c, proc, Pair, {event})
      BY <1>3, <2>2
    <3>2. /\ \A h : h.owner # Pair \/ h.on # c => (h \in u.handlers <=> h \in told.handlers)
          /\ \A b \in Base \union {Pair} : b # c => u.watch[b] = told.watch[b]
          /\ event \in u.watch[c]
          /\ Told(u, c, Pair, event)
      BY <1>1, <1>5, <2>0, <3>1, CreatedOnBase
    <3>. QED  BY <1>5, <2>2, <3>2 DEF u, c, event, s, proc
  <2>3. CASE event \notin mask /\ event \in t.watch[Pair]
    <3>1. u = DeleteOnBase(t, c, proc, Pair)
      BY <1>3, <2>3
    <3>2. /\ \A h : h.owner # Pair \/ h.on # c => (h \in u.handlers <=> h \in t.handlers)
          /\ \A b \in Base \union {Pair} : b # c => u.watch[b] = t.watch[b]
      BY <2>0, <3>1, DeletedOnBase
    <3>. QED  BY <2>3, <3>2 DEF u, c, event, s, proc
  <2>4. CASE event \notin mask /\ event \notin t.watch[Pair]
    BY <1>3, <2>4 DEF u, c, event, s, proc
  <2>. QED  BY <2>1, <2>2, <2>3, <2>4
<1>. QED  BY <1>6, <1>7

\* Input of the pair is asked for at its side.
PairAsked(t) ==
    "readable" \in t.watch[Pair] /\ side[In] # NoChannel => Told(t, side[In], Pair, "readable")

SidesRight ==
    /\ side \in [{In, Out} -> Base \union {NoChannel}]
    /\ side[In] \in {In, NoChannel} /\ side[Out] \in {Out, NoChannel}

\* What the driver of the channel c is told of, it tells.
Touched(c) == IF c = Pair THEN {Pair, side[In], side[Out]} ELSE {c}

LEMMA PairDoes ==
    ASSUME NEW t, NEW slaves, Good(t, slaves, side), SidesRight, NEW mask \in SUBSET Conditions
    PROVE  LET u == ExpPairWatch(t, mask) IN
           /\ \A h : h.owner # Pair => (h \in u.handlers <=> h \in t.handlers)
           /\ \A b \in Base : b \notin {side[In], side[Out]} => u.watch[b] = t.watch[b]
           /\ u.watch[Pair] = mask
           /\ PairAsked(t) => PairAsked(u)
           /\ "readable" \in mask /\ side[In] # NoChannel => "readable" \in u.watch[side[In]]
<1> DEFINE r == WatchSide(t, In, "readable", "ExpPairReadable", mask)
           w == WatchSide(r, Out, "writable", "ExpPairWritable", mask)
           u == [w EXCEPT !.watch[Pair] = mask]
           old == t.watch[Pair]
           m1 == (old \ {"readable"}) \union (mask \intersect {"readable"})
<1>1. t \in Tcl /\ Owned(t, slaves, side, old) /\ old \in SUBSET Conditions
  BY TclFields DEF Good, Owned
<1>2. side \in [{In, Out} -> Base \union {NoChannel}] /\ Pair \notin {side[In], side[Out]}
  BY ChannelNames DEF SidesRight, Base
<1>3. /\ r \in Tcl
      /\ \A h : h.owner # Pair \/ h.on # side[In] => (h \in r.handlers <=> h \in t.handlers)
      /\ \A b \in Base \union {Pair} : b # side[In] => r.watch[b] = t.watch[b]
      /\ "readable" \in mask /\ side[In] # NoChannel => "readable" \in r.watch[side[In]]
      /\ "readable" \in mask /\ side[In] # NoChannel /\ "readable" \notin old
           => Told(r, side[In], Pair, "readable")
      /\ "readable" \in mask /\ side[In] # NoChannel /\ "readable" \in old => r.handlers = t.handlers
  <2> DEFINE x == <<In, "readable", "ExpPairReadable">>
             v == WatchSide(t, x[1], x[2], x[3], mask)
             c == side[x[1]]
  <2>1. x \in Ends /\ x[1] = In /\ x[2] = "readable" /\ x[3] = "ExpPairReadable"
    BY DEF Ends
  <2>2. v = r /\ c = side[In]
    OBVIOUS
  <2>. HIDE DEF x
  <2>3. /\ \A h : h.owner # Pair \/ h.on # c => (h \in v.handlers <=> h \in t.handlers)
        /\ \A b \in Base \union {Pair} : b # c => v.watch[b] = t.watch[b]
        /\ x[2] \in mask /\ c # NoChannel => x[2] \in v.watch[c]
        /\ x[2] \in mask /\ c # NoChannel /\ x[2] \notin t.watch[Pair] => Told(v, c, Pair, x[2])
        /\ x[2] \in mask /\ c # NoChannel /\ x[2] \in t.watch[Pair] => v.handlers = t.handlers
    BY <1>1, <1>2, <2>1, SideDoes
  <2>4. v \in Tcl
    <3> HIDE DEF old
    <3>1. x[2] \in old <=> x[2] \in t.watch[Pair]
      BY DEF old
    <3>2. Owned(v, slaves, side, (old \ {x[2]}) \union (mask \intersect {x[2]}))
      <4>1. /\ old \in SUBSET Conditions /\ Owned(t, slaves, side, old) /\ mask \in SUBSET Conditions
            /\ side \in [{In, Out} -> Base \union {NoChannel}] /\ x \in Ends
        BY <1>1, <1>2, <2>1
      <4>2. Halfway(t, v, slaves, (old \ {x[2]}) \union (mask \intersect {x[2]}))
        BY ONLY <3>1, <4>1, SideKeeps
      <4>. QED  BY <4>2 DEF Halfway
    <3>. QED  BY <3>2 DEF Owned
  <2>. HIDE DEF v, c, r
  <2>. QED  BY <2>1, <2>2, <2>3, <2>4
<1>4. r.watch[Pair] = old
  BY <1>2, <1>3
<1>. HIDE DEF r
<1>5. /\ \A h : h.owner # Pair \/ h.on # side[Out] => (h \in w.handlers <=> h \in r.handlers)
      /\ \A b \in Base \union {Pair} : b # side[Out] => w.watch[b] = r.watch[b]
  <2> DEFINE x == <<Out, "writable", "ExpPairWritable">>
             v == WatchSide(r, x[1], x[2], x[3], mask)
             c == side[x[1]]
  <2>1. x \in Ends /\ x[1] = Out /\ x[2] = "writable" /\ x[3] = "ExpPairWritable"
    BY DEF Ends
  <2>2. v = w /\ c = side[Out]
    OBVIOUS
  <2>. HIDE DEF x
  <2>3. /\ \A h : h.owner # Pair \/ h.on # c => (h \in v.handlers <=> h \in r.handlers)
        /\ \A b \in Base \union {Pair} : b # c => v.watch[b] = r.watch[b]
    BY <1>2, <1>3, <2>1, SideDoes
  <2>. HIDE DEF v, c, w
  <2>. QED  BY <2>2, <2>3
<1>6. u = ExpPairWatch(t, mask)
  BY DEF u, w, r, ExpPairWatch
<1>7. w \in Tcl
  <2> DEFINE x == <<Out, "writable", "ExpPairWritable">>
             v == WatchSide(r, x[1], x[2], x[3], mask)
  <2>1. x \in Ends /\ x[1] = Out /\ x[2] = "writable" /\ x[3] = "ExpPairWritable"
    BY DEF Ends
  <2>2. v = w
    OBVIOUS
  <2>3. Owned(r, slaves, side, m1) /\ m1 \in SUBSET Conditions /\ (x[2] \in m1 <=> x[2] \in r.watch[Pair])
    <3>1. Owned(r, slaves, side, m1)
      <4> DEFINE y == <<In, "readable", "ExpPairReadable">>
                 z == WatchSide(t, y[1], y[2], y[3], mask)
      <4>1. y \in Ends /\ y[1] = In /\ y[2] = "readable" /\ y[3] = "ExpPairReadable"
        BY DEF Ends
      <4>2. z = r
        BY DEF r
      <4>. HIDE DEF y
      <4>3. y[2] \in old <=> y[2] \in t.watch[Pair]
        OBVIOUS
      <4>4. Owned(z, slaves, side, (old \ {y[2]}) \union (mask \intersect {y[2]}))
        <5>1. /\ old \in SUBSET Conditions /\ Owned(t, slaves, side, old) /\ mask \in SUBSET Conditions
              /\ side \in [{In, Out} -> Base \union {NoChannel}] /\ y \in Ends
          BY <1>1, <1>2, <4>1
        <5>. HIDE DEF old
        <5>2. Halfway(t, z, slaves, (old \ {y[2]}) \union (mask \intersect {y[2]}))
          BY ONLY <4>3, <5>1, SideKeeps
        <5>. QED  BY <5>2 DEF Halfway
      <4>. HIDE DEF z
      <4>. QED  BY <4>1, <4>2, <4>4
    <3>. QED  BY <1>1, <1>4, <3>1 DEF Conditions
  <2>. HIDE DEF x, m1
  <2>4. Owned(v, slaves, side, (m1 \ {x[2]}) \union (mask \intersect {x[2]}))
    <3>1. /\ mask \in SUBSET Conditions
          /\ side \in [{In, Out} -> Base \union {NoChannel}] /\ x \in Ends
      BY <1>2, <2>1
    <3>2. Halfway(r, v, slaves, (m1 \ {x[2]}) \union (mask \intersect {x[2]}))
      BY ONLY <2>3, <3>1, SideKeeps
    <3>. QED  BY <3>2 DEF Halfway
  <2>. QED  BY <2>2, <2>4 DEF Owned
<1>. HIDE DEF w
<1>8. /\ u.handlers = w.handlers
      /\ \A b \in Base \union {Pair} : u.watch[b] = IF b = Pair THEN mask ELSE w.watch[b]
  <2>1. /\ Pair \in Base \union {Pair} /\ w \in Tcl /\ mask \in SUBSET Conditions
        /\ u = [w EXCEPT !.watch[Pair] = mask]
    BY <1>7
  <2>. HIDE DEF u
  <2>2. Rewatched(w, u, Pair, mask)
    BY ONLY <2>1, OtherWatched
  <2>. QED  BY ONLY <2>2 DEF Rewatched
<1>. HIDE DEF u
<1>9. \A h : h.owner # Pair => (h \in u.handlers <=> h \in t.handlers)
  BY <1>3, <1>5, <1>8
<1>10. \A b \in Base : b \notin {side[In], side[Out]} => u.watch[b] = t.watch[b]
  BY <1>3, <1>5, <1>8, ChannelNames
<1>11. u.watch[Pair] = mask
  BY <1>8
<1>12. side[In] # NoChannel => side[In] # side[Out] /\ side[In] \in Base /\ side[In] # Pair
  BY ChannelNames DEF SidesRight
<1>13. "readable" \in mask /\ side[In] # NoChannel => "readable" \in u.watch[side[In]]
  BY <1>3, <1>5, <1>8, <1>12
<1>14. ASSUME PairAsked(t), "readable" \in mask, side[In] # NoChannel PROVE Told(u, side[In], Pair, "readable")
  <2>1. Told(r, side[In], Pair, "readable")
    BY <1>3, <1>14 DEF PairAsked, Told
  <2>. QED  BY <1>5, <1>8, <1>12, <1>14, <2>1 DEF Told
<1>. QED  BY <1>6, <1>9, <1>10, <1>11, <1>13, <1>14 DEF PairAsked

LEMMA DriverDoes ==
    ASSUME NEW t, NEW slaves, Good(t, slaves, side), SidesRight,
           NEW c \in Base \union {Pair}, NEW mask \in SUBSET Conditions
    PROVE  LET u == WatchDriver(t, c, mask) IN
           /\ \A h : h.owner # Pair \/ c # Pair => (h \in u.handlers <=> h \in t.handlers)
           /\ \A b \in Base \union {Pair} : b \notin Touched(c) => u.watch[b] = t.watch[b]
           /\ u.watch[c] = mask
           /\ PairAsked(t) => PairAsked(u)
           /\ c = Pair /\ "readable" \in mask /\ side[In] # NoChannel => "readable" \in u.watch[side[In]]
<1> DEFINE u == WatchDriver(t, c, mask)
<1>1. CASE c = Pair
  <2>1. u = ExpPairWatch(t, mask)
    BY <1>1 DEF WatchDriver
  <2>2. /\ \A h : h.owner # Pair => (h \in u.handlers <=> h \in t.handlers)
        /\ \A b \in Base : b \notin {side[In], side[Out]} => u.watch[b] = t.watch[b]
        /\ u.watch[Pair] = mask
        /\ PairAsked(t) => PairAsked(u)
        /\ "readable" \in mask /\ side[In] # NoChannel => "readable" \in u.watch[side[In]]
    BY <2>1, PairDoes
  <2>. QED  BY <1>1, <2>2 DEF Touched
<1>2. CASE c # Pair
  <2>1. u = [t EXCEPT !.watch[c] = mask] /\ t \in Tcl
    BY <1>2 DEF WatchDriver, Good, Owned
  <2>. HIDE DEF u
  <2>2. /\ u.handlers = t.handlers
        /\ \A b \in Base \union {Pair} : u.watch[b] = IF b = c THEN mask ELSE t.watch[b]
    <3>1. t \in Tcl /\ c \in Base \union {Pair} /\ mask \in SUBSET Conditions
      BY <2>1
    <3>. QED  BY ONLY <2>1, <3>1, OtherWatch
  <2>3. u.watch[Pair] = t.watch[Pair]
    BY <1>2, <2>2
  <2>4. PairAsked(t) => PairAsked(u)
    BY <2>2, <2>3 DEF PairAsked, Told
  <2>. QED  BY <1>2, <2>2, <2>4 DEF Touched, u
<1>. QED  BY <1>1, <1>2

HandlerOf(c, proc, e, mask) == [on |-> c, proc |-> proc, owner |-> e, mask |-> mask]

\* From t to u, what does not belong to e, nor to the pair if e is over it, is
\* as it was.
LetsBe(t, u, c, e) ==
    /\ \A h : h.owner # e /\ (h.owner # Pair \/ c # Pair) => (h \in u.handlers <=> h \in t.handlers)
    /\ \A b \in Base \union {Pair} : b \notin Touched(c) => u.watch[b] = t.watch[b]
    /\ PairAsked(t) => PairAsked(u)

\* The handlers of e after it has another one.
Replaced(t, u, c, proc, e, mask) ==
    \A h : h.owner = e => (h \in u.handlers <=>
              h = HandlerOf(c, proc, e, mask) \/ (h \in t.handlers /\ ~(h.on = c /\ h.proc = proc)))

LEMMA CreateDoes ==
    ASSUME NEW t, NEW slaves, Good(t, slaves, side), SidesRight,
           NEW e \in Exp, NEW c \in Base \union {Pair}, c = slaves[e],
           NEW proc \in Proc, NEW mask \in SUBSET Conditions
    PROVE  /\ LetsBe(t, Create(t, c, proc, e, mask), c, e)
           /\ Replaced(t, Create(t, c, proc, e, mask), c, proc, e, mask)
<1> DEFINE new == HandlerOf(c, proc, e, mask)
           hs == Others(t, c, proc, e) \union {new}
           v == [t EXCEPT !.handlers = hs]
           u == Create(t, c, proc, e, mask)
<1>1. t \in Tcl /\ e # Pair
  BY ChannelNames DEF Good, Owned
<1>2. new \in Handler /\ OfExp(new, slaves) /\ new.owner = e
  BY DEF Handler, OfExp, HandlerOf
<1>3. u = WatchDriver(v, c, Interest(v, c))
  BY DEF Create, HandlerOf
<1>. HIDE DEF new
<1>4. /\ hs \in SUBSET Handler /\ hs \subseteq t.handlers \union {new}
      /\ \A h : h.owner # e => (h \in hs <=> h \in t.handlers)
      /\ \A h : h.owner = e => (h \in hs <=> h = new \/ (h \in t.handlers /\ ~(h.on = c /\ h.proc = proc)))
  <2>1. /\ Others(t, c, proc, e) \in SUBSET Handler
        /\ Others(t, c, proc, e) \subseteq t.handlers
        /\ \A h \in t.handlers : h \in Others(t, c, proc, e) <=> ~(h.on = c /\ h.proc = proc /\ h.owner = e)
    BY <1>1, OthersAre
  <2>. QED  BY <1>2, <2>1
<1>. HIDE DEF hs
<1>5. v \in Tcl /\ v.handlers = hs /\ v.watch = t.watch /\ v.null = t.null
  BY <1>1, <1>4, OtherHandlers
<1>. HIDE DEF v, u
<1>6. Good(v, slaves, side)
  BY <1>2, <1>4, <1>5 DEF Good, Owned
<1>7. Interest(v, c) \in SUBSET Conditions
  BY <1>5, InterestTyped
<1>8. /\ \A h : h.owner # Pair \/ c # Pair => (h \in u.handlers <=> h \in v.handlers)
      /\ \A b \in Base \union {Pair} : b \notin Touched(c) => u.watch[b] = v.watch[b]
      /\ PairAsked(v) => PairAsked(u)
  BY <1>3, <1>6, <1>7, DriverDoes
<1>9. PairAsked(t) => PairAsked(v)
  BY <1>1, <1>4, <1>5 DEF PairAsked, Told
<1>10. Replaced(t, u, c, proc, e, mask)
  BY <1>1, <1>4, <1>5, <1>8 DEF new, Replaced
<1>11. LetsBe(t, u, c, e)
  BY <1>1, <1>4, <1>5, <1>8, <1>9 DEF LetsBe
<1>. QED  BY <1>10, <1>11 DEF u

LEMMA DeleteDoes ==
    ASSUME NEW t, NEW slaves, Good(t, slaves, side), SidesRight,
           NEW e \in Exp, NEW c \in Base \union {Pair}, NEW proc
    PROVE  /\ LetsBe(t, Delete(t, c, proc, e), c, e)
           /\ \A h : h.owner = e => (h \in Delete(t, c, proc, e).handlers <=>
                            h \in t.handlers /\ ~(h.on = c /\ h.proc = proc))
<1> DEFINE hs == Others(t, c, proc, e)
           v == [t EXCEPT !.handlers = hs]
           u == Delete(t, c, proc, e)
<1>1. t \in Tcl /\ e # Pair
  BY ChannelNames DEF Good, Owned
<1>3. u = WatchDriver(v, c, Interest(v, c))
  BY DEF Delete
<1>4. /\ hs \in SUBSET Handler /\ hs \subseteq t.handlers
      /\ \A h : h.owner # e => (h \in hs <=> h \in t.handlers)
      /\ \A h : h.owner = e => (h \in hs <=> h \in t.handlers /\ ~(h.on = c /\ h.proc = proc))
  BY <1>1, OthersAre
<1>. HIDE DEF hs
<1>5. v \in Tcl /\ v.handlers = hs /\ v.watch = t.watch /\ v.null = t.null
  BY <1>1, <1>4, OtherHandlers
<1>. HIDE DEF v, u
<1>6. Good(v, slaves, side)
  BY <1>4, <1>5 DEF Good, Owned
<1>7. Interest(v, c) \in SUBSET Conditions
  BY <1>5, InterestTyped
<1>8. /\ \A h : h.owner # Pair \/ c # Pair => (h \in u.handlers <=> h \in v.handlers)
      /\ \A b \in Base \union {Pair} : b \notin Touched(c) => u.watch[b] = v.watch[b]
      /\ PairAsked(v) => PairAsked(u)
  BY <1>3, <1>6, <1>7, DriverDoes
<1>9. PairAsked(t) => PairAsked(v)
  BY <1>1, <1>4, <1>5 DEF PairAsked, Told
<1>10. LetsBe(t, u, c, e)
  BY <1>1, <1>4, <1>5, <1>8, <1>9 DEF LetsBe
<1>. QED  BY <1>1, <1>4, <1>5, <1>8, <1>10 DEF u

\* What ExpChanWatch lets be.
LEMMA WatchedLetsBe ==
    ASSUME NEW t, Good(t, slaveOf, side), SidesRight,
           NEW e \in Exp, slaveOf[e] \in Base \union {Pair}, NEW mask \in SUBSET Conditions
    PROVE  LetsBe(t, ExpChanWatch(t, e, mask), slaveOf[e], e)
<1> DEFINE c == slaveOf[e]
           old == wanted[e]
           r == IF "readable" \in mask \ old THEN Create(t, c, "ExpChanReadable", e, {"readable"})
                ELSE IF "readable" \in old \ mask THEN Delete(t, c, "ExpChanReadable", e) ELSE t
           w == IF "writable" \in mask \ old THEN Create(r, c, "ExpChanReadable", e, {"writable"})
                ELSE IF "writable" \in old \ mask THEN Delete(r, c, "ExpChanWritable", e) ELSE r
           u == WatchDriver(w, c, mask)
<1>1. {"readable"} \in SUBSET Conditions /\ {"writable"} \in SUBSET Conditions /\ "ExpChanReadable" \in Proc
  BY DEF Conditions, Proc
<1>2. side \in [{In, Out} -> Base \union {NoChannel}] /\ e # Pair
  BY ChannelNames DEF SidesRight
<1>3. Good(r, slaveOf, side) /\ LetsBe(t, r, c, e)
  <2>1. Good(Create(t, c, "ExpChanReadable", e, {"readable"}), slaveOf, side)
    BY <1>1, <1>2, CreateKeeps
  <2>2. LetsBe(t, Create(t, c, "ExpChanReadable", e, {"readable"}), c, e)
    BY <1>1, CreateDoes
  <2>3. Good(Delete(t, c, "ExpChanReadable", e), slaveOf, side)
    BY <1>2, DeleteKeeps
  <2>4. LetsBe(t, Delete(t, c, "ExpChanReadable", e), c, e)
    BY DeleteDoes
  <2>5. LetsBe(t, t, c, e)
    BY DEF LetsBe
  <2>. QED  BY <2>1, <2>2, <2>3, <2>4, <2>5
<1>. HIDE DEF r
<1>4. Good(w, slaveOf, side) /\ LetsBe(r, w, c, e)
  <2>1. Good(Create(r, c, "ExpChanReadable", e, {"writable"}), slaveOf, side)
    BY <1>1, <1>2, <1>3, CreateKeeps
  <2>2. LetsBe(r, Create(r, c, "ExpChanReadable", e, {"writable"}), c, e)
    BY <1>1, <1>3, CreateDoes
  <2>3. Good(Delete(r, c, "ExpChanWritable", e), slaveOf, side)
    BY <1>2, <1>3, DeleteKeeps
  <2>4. LetsBe(r, Delete(r, c, "ExpChanWritable", e), c, e)
    BY <1>3, DeleteDoes
  <2>5. LetsBe(r, r, c, e)
    BY DEF LetsBe
  <2>. QED  BY <1>3, <2>1, <2>2, <2>3, <2>4, <2>5
<1>5. ExpChanWatch(t, e, mask) = u
  BY DEF ExpChanWatch, w, r
<1>. HIDE DEF w, u
<1>6. LetsBe(w, u, c, e)
  <2>1. /\ \A h : h.owner # Pair \/ c # Pair => (h \in u.handlers <=> h \in w.handlers)
        /\ \A b \in Base \union {Pair} : b \notin Touched(c) => u.watch[b] = w.watch[b]
        /\ PairAsked(w) => PairAsked(u)
    BY <1>4, DriverDoes DEF u
  <2>. QED  BY <2>1 DEF LetsBe
<1>7. LetsBe(t, u, c, e)
  BY <1>3, <1>4, <1>6 DEF LetsBe
<1>. QED  BY <1>5, <1>7

\* The handlers of a spawn id, and what is watched for it, agree with what it wants.
Tracks(t, e, w) ==
    /\ \A h \in t.handlers : h.owner = e =>
          h.mask = {"readable"} /\ h.proc = "ExpChanReadable" /\ "readable" \in w
    /\ "readable" \in w => \E h \in t.handlers : h.owner = e
    /\ "readable" \in w /\ Through(e, In) \notin {NoChannel} \union odd.shared =>
          "readable" \in t.watch[Through(e, In)]
    /\ "readable" \in w /\ slaveOf[e] = Pair => "readable" \in t.watch[Pair]

LEMMA WatchedTracks ==
    ASSUME NEW t, Good(t, slaveOf, side), SidesRight,
           NEW e \in Exp, slaveOf[e] \in Base \union {Pair}, NEW mask \in SUBSET {"readable"},
           wanted[e] \in SUBSET {"readable"}, Tracks(t, e, wanted[e])
    PROVE  Tracks(ExpChanWatch(t, e, mask), e, mask)
<1> DEFINE c == slaveOf[e]
           old == wanted[e]
           r == IF "readable" \in mask \ old THEN Create(t, c, "ExpChanReadable", e, {"readable"})
                ELSE IF "readable" \in old \ mask THEN Delete(t, c, "ExpChanReadable", e) ELSE t
           u == WatchDriver(r, c, mask)
           new == HandlerOf(c, "ExpChanReadable", e, {"readable"})
           Right(a) == /\ \A h \in a.handlers : h.owner = e =>
                             h.mask = {"readable"} /\ h.proc = "ExpChanReadable" /\ "readable" \in mask
                       /\ "readable" \in mask => \E h \in a.handlers : h.owner = e
<1>1. {"readable"} \in SUBSET Conditions /\ mask \in SUBSET Conditions /\ "ExpChanReadable" \in Proc
  BY DEF Conditions, Proc
<1>2. side \in [{In, Out} -> Base \union {NoChannel}] /\ e # Pair
  BY ChannelNames DEF SidesRight
<1>3. \A h \in t.handlers : h.owner = e => h.on = c
  BY <1>2 DEF Good, Owned, OfExp, OfPair
<1>4. Good(r, slaveOf, side)
  <2>1. Good(Create(t, c, "ExpChanReadable", e, {"readable"}), slaveOf, side)
    BY <1>1, <1>2, CreateKeeps
  <2>2. Good(Delete(t, c, "ExpChanReadable", e), slaveOf, side)
    BY <1>2, DeleteKeeps
  <2>. QED  BY <2>1, <2>2
<1>5. Right(r)
  <2>1. CASE "readable" \in mask \ old
    <3> DEFINE v == Create(t, c, "ExpChanReadable", e, {"readable"})
    <3>1. \A h : h.owner = e => (h \in v.handlers <=>
                    h = new \/ (h \in t.handlers /\ ~(h.on = c /\ h.proc = "ExpChanReadable")))
      <4>1. Replaced(t, v, c, "ExpChanReadable", e, {"readable"})
        BY <1>1, CreateDoes
      <4>. QED  BY <4>1 DEF Replaced
    <3>2. new.owner = e /\ new.mask = {"readable"} /\ new.proc = "ExpChanReadable"
      BY DEF HandlerOf
    <3>3. r = v
      BY <2>1
    <3>4. \A h \in t.handlers : h.owner = e => h.proc = "ExpChanReadable"
      BY DEF Tracks
    <3>. HIDE DEF v, new, r
    <3>. QED  BY <1>3, <2>1, <3>1, <3>2, <3>3, <3>4
  <2>2. CASE "readable" \in old \ mask
    <3> DEFINE v == Delete(t, c, "ExpChanReadable", e)
    <3>1. \A h : h.owner = e => (h \in v.handlers <=>
                    h \in t.handlers /\ ~(h.on = c /\ h.proc = "ExpChanReadable"))
      BY DeleteDoes
    <3>3. r = v
      BY <2>2
    <3>4. \A h \in t.handlers : h.owner = e => h.proc = "ExpChanReadable"
      BY DEF Tracks
    <3>. HIDE DEF v, r
    <3>. QED  BY <1>3, <2>2, <3>1, <3>3, <3>4
  <2>3. CASE ("readable" \in mask) <=> ("readable" \in old)
    BY <2>3 DEF Tracks
  <2>. QED  BY <2>1, <2>2, <2>3
<1>6. ExpChanWatch(t, e, mask) = u
  <2>1. "writable" \notin mask \ old /\ "writable" \notin old \ mask
    OBVIOUS
  <2>. QED  BY <2>1 DEF ExpChanWatch
<1>. HIDE DEF r, u
<1>7. /\ \A h : h.owner # Pair \/ c # Pair => (h \in u.handlers <=> h \in r.handlers)
      /\ u.watch[c] = mask
      /\ c = Pair /\ "readable" \in mask /\ side[In] # NoChannel => "readable" \in u.watch[side[In]]
  BY <1>1, <1>4, DriverDoes DEF u
<1>8. Right(u)
  BY <1>2, <1>5, <1>7
<1>9. "readable" \in mask /\ Through(e, In) # NoChannel => "readable" \in u.watch[Through(e, In)]
  BY <1>7 DEF Through
<1>. QED  BY <1>6, <1>7, <1>8, <1>9 DEF Tracks

\* Two spawn ids are not over one channel that is not known to be shared.
Apart ==
    \A e, f \in Exp : \A s, r \in {In, Out} :
        e # f /\ Through(e, s) = Through(f, r) => Through(e, s) \in {NoChannel} \union odd.shared

Tracked == {e \in (live \intersect Exp) \ (closed \union odd.written) : slaveOf[e] # NoChannel}

FwdInv ==
    /\ ChanInv /\ SidesRight /\ Apart
    /\ wanted \in [Exp -> SUBSET Conditions]
    /\ \A e \in Exp : e \notin odd.written => wanted[e] \subseteq {"readable"}
    /\ \A e \in Spawned : e \notin live /\ e \notin freed => wanted[e] = {}
    /\ slaveOf[Stdinout] = Pair => PairAsked(tcl)
    /\ \A e \in Tracked : Tracks(tcl, e, wanted[e])

\* What another spawn id watches makes no difference.
LEMMA OthersTrack ==
    ASSUME FwdInv, NEW t, Good(t, slaveOf, side), NEW u,
           NEW e \in Exp, NEW f \in Exp, e # f, slaveOf[e] # NoChannel, slaveOf[f] # NoChannel,
           LetsBe(t, u, slaveOf[f], f), NEW w, Tracks(t, e, w)
    PROVE  Tracks(u, e, w)
<1>1. /\ slaveOf[e] \in Base \union {Pair} /\ slaveOf[f] \in Base \union {Pair}
      /\ slaveOf[e] = Pair => slaveOf[f] # Pair
      /\ side[In] \in Base \union {NoChannel} /\ side[Out] \in Base \union {NoChannel}
      /\ e # Pair /\ Pair \notin Base /\ Pair # NoChannel
  BY ChannelNames DEF FwdInv, ChanInv, SlavesRight
<1>2. \A h : h.owner = e => (h \in u.handlers <=> h \in t.handlers)
  BY <1>1 DEF LetsBe
<1>3. ASSUME Through(e, In) \notin {NoChannel} \union odd.shared PROVE u.watch[Through(e, In)] = t.watch[Through(e, In)]
  <2>1. Through(e, In) \in Base
    BY <1>1, <1>3 DEF Through
  <2>2. \A r \in {In, Out} : Through(e, In) # Through(f, r)
    BY <1>3 DEF FwdInv, Apart
  <2>3. Through(e, In) \notin Touched(slaveOf[f])
    BY <1>1, <2>1, <2>2 DEF Through, Touched
  <2>. QED  BY <2>1, <2>3 DEF LetsBe
<1>4. ASSUME slaveOf[e] = Pair PROVE u.watch[Pair] = t.watch[Pair]
  <2>1. Pair \notin Touched(slaveOf[f])
    BY <1>1, <1>4 DEF Touched
  <2>. QED  BY <2>1 DEF LetsBe
<1>. QED  BY <1>2, <1>3, <1>4 DEF Tracks

\* The spawn ids es stop to watch.
LEMMA UnwatchedTracks ==
    ASSUME FwdInv, NEW es \in SUBSET Exp
    PROVE  /\ \A e \in Tracked \ es : Tracks(Unwatched(es), e, wanted[e])
           /\ slaveOf[Stdinout] = Pair => PairAsked(Unwatched(es))
<1> DEFINE Asked(t) == slaveOf[Stdinout] = Pair => PairAsked(t)
           All(t) == \A e \in Tracked \ es : Tracks(t, e, wanted[e])
           S == {t \in Tcl : Good(t, slaveOf, side) /\ All(t) /\ Asked(t)}
           seq == SetToSeq(Shown(es))
           base == tcl
<1>1. Shown(es) \subseteq Exp /\ \A e \in Shown(es) : slaveOf[e] \in Base \union {Pair}
  BY DEF Shown, FwdInv, ChanInv, SlavesRight
<1>2. IsFiniteSet(Shown(es))
  <2>1. IsFiniteSet(Exp)
    BY ChannelsAssumption, FS_Singleton, FS_Union DEF Exp
  <2>. QED  BY <1>1, <2>1, FS_Subset
<1>3. PICK n \in Nat : seq \in [1 .. n -> Shown(es)] /\ DOMAIN seq = 1 .. n
  BY <1>2, SeqOfSet
<1>4. base \in S
  BY DEF FwdInv, ChanInv, Good, Owned
<1>5. ASSUME NEW t \in S, NEW k \in 1 .. n PROVE ExpChanWatch(t, seq[k], {}) \in S
  <2> DEFINE f == seq[k]
             u == ExpChanWatch(t, f, {})
  <2>1. /\ f \in Exp /\ slaveOf[f] \in Base \union {Pair} /\ {} \in SUBSET Conditions
        /\ f \in es /\ slaveOf[f] # NoChannel
    BY <1>1, <1>3 DEF Shown
  <2>2. Good(t, slaveOf, side) /\ All(t) /\ Asked(t)
    OBVIOUS
  <2>. HIDE DEF f, S, All, Asked
  <2>3. Good(u, slaveOf, side)
    BY <2>1, <2>2, WatchedKeeps DEF FwdInv, SidesRight
  <2>4. LetsBe(t, u, slaveOf[f], f)
    BY <2>1, <2>2, WatchedLetsBe DEF FwdInv
  <2>. HIDE DEF u
  <2>5. All(u)
    <3>. SUFFICES ASSUME NEW e \in Tracked \ es PROVE Tracks(u, e, wanted[e])
      BY DEF All
    <3>1. e \in Exp /\ e # f /\ slaveOf[e] # NoChannel /\ Tracks(t, e, wanted[e])
      BY <2>1, <2>2 DEF Tracked, All
    <3>. QED  BY <2>1, <2>2, <2>4, <3>1, OthersTrack
  <2>6. Asked(u)
    BY <2>2, <2>4 DEF Asked, LetsBe
  <2>7. u \in Tcl
    BY <2>3 DEF Good, Owned
  <2>. QED  BY <2>3, <2>5, <2>6, <2>7 DEF S, u, f
<1>6. Unwatching!Fold(base, seq, {}) \in S
  <2>. HIDE DEF base, seq, S
  <2>. QED  BY <1>3, <1>4, <1>5, Unwatching!FoldStays
<1>. QED  BY <1>6, UnwatchedIsFold

\* The channels gone end: what was over them forgets them.
LEMMA EndsTrack ==
    ASSUME FwdInv, NEW gone \in SUBSET Base, tcl' = Detached(tcl, gone),
           \A e \in Exp : slaveOf'[e] = IF slaveOf[e] \in gone THEN NoChannel ELSE slaveOf[e],
           side' = IF Pair \in freed THEN side
                   ELSE [s \in {In, Out} |-> IF side[s] \in gone THEN NoChannel ELSE side[s]],
           odd'.shared = odd.shared, UNCHANGED wanted
    PROVE  /\ SidesRight' /\ Apart'
           /\ (slaveOf[Stdinout] = Pair => PairAsked(tcl))'
           /\ \A e \in Tracked : slaveOf'[e] # NoChannel => Tracks(tcl, e, wanted[e])'
<1>0. NoChannel \notin gone /\ Pair \notin gone /\ Pair # NoChannel /\ Stdinout \in Exp
  BY ChannelNames DEF Exp
<1>1. SidesRight'
  BY <1>0 DEF FwdInv, SidesRight
<1>2. \A e \in Exp : slaveOf'[e] # NoChannel => slaveOf'[e] = slaveOf[e] /\ slaveOf[e] \notin gone
  <2>1. \A e \in Exp : slaveOf[e] \in gone => slaveOf'[e] = NoChannel
    OBVIOUS
  <2>. QED  BY <2>1
<1>3. ASSUME NEW e \in Exp, slaveOf[e] = Pair PROVE Pair \notin freed /\ e = Stdinout
  BY <1>3 DEF FwdInv, ChanInv, SlavesRight
<1>4. \A e \in Exp, s \in {In, Out} : Through(e, s)' = NoChannel \/ (Through(e, s)' = Through(e, s) /\ Through(e, s) \notin gone)
  <2>. SUFFICES ASSUME NEW e \in Exp, NEW s \in {In, Out}
                PROVE  Through(e, s)' = NoChannel \/ (Through(e, s)' = Through(e, s) /\ Through(e, s) \notin gone)
    OBVIOUS
  <2>1. CASE slaveOf[e] = Pair
    <3>1. slaveOf'[e] = Pair /\ side'[s] = IF side[s] \in gone THEN NoChannel ELSE side[s]
      BY <1>0, <1>3, <2>1
    <3>. QED  BY <2>1, <3>1 DEF Through
  <2>2. CASE slaveOf[e] # Pair
    BY <1>0, <2>2 DEF Through
  <2>. QED  BY <2>1, <2>2
<1>5. Apart'
  <2>. SUFFICES ASSUME NEW e \in Exp, NEW f \in Exp, NEW s \in {In, Out}, NEW r \in {In, Out},
                       e # f, Through(e, s)' = Through(f, r)'
                PROVE  Through(e, s)' \in {NoChannel} \union odd'.shared
    BY DEF Apart
  <2>1. CASE Through(e, s)' = NoChannel
    BY <2>1
  <2>2. CASE Through(e, s)' # NoChannel
    <3>1. Through(e, s)' = Through(e, s) /\ Through(f, r)' = Through(f, r)
      BY <1>4, <2>2
    <3>. QED  BY <3>1 DEF FwdInv, Apart
  <2>. QED  BY <2>1, <2>2
<1>6. /\ \A h : h \in tcl'.handlers <=> h \in tcl.handlers /\ h.on \notin gone
      /\ \A b \in Base \union {Pair} : b \notin gone => tcl'.watch[b] = tcl.watch[b]
  <2> DEFINE t == tcl
             hs == {h \in t.handlers : h.on \notin gone}
             w == [c \in DOMAIN t.watch |-> IF c \in gone THEN {} ELSE t.watch[c]]
  <2>1. t \in Tcl /\ DOMAIN t.watch = Base \union {Pair}
    BY TclFields DEF FwdInv, ChanInv, Good, Owned
  <2>2. tcl' = [t EXCEPT !.handlers = hs, !.watch = w]
    BY DEF Detached
  <2>3. \A b \in Base \union {Pair} : b \notin gone => w[b] = t.watch[b]
    BY <2>1
  <2>4. \A h : h \in hs <=> h \in t.handlers /\ h.on \notin gone
    OBVIOUS
  <2>. HIDE DEF hs, w
  <2>5. tcl'.handlers = hs /\ tcl'.watch = w
    <3>. HIDE DEF t
    <3>. QED  BY <2>1, <2>2 DEF Tcl
  <2>. QED  BY <2>3, <2>4, <2>5
<1>7. (slaveOf[Stdinout] = Pair => PairAsked(tcl))'
  <2>. SUFFICES ASSUME slaveOf'[Stdinout] = Pair, "readable" \in tcl'.watch[Pair], side'[In] # NoChannel
                PROVE  \E h \in tcl'.handlers : h.on = side'[In] /\ h.owner = Pair /\ "readable" \in h.mask
    BY DEF PairAsked, Told
  <2>1. slaveOf[Stdinout] = Pair
    BY <1>0, <1>2
  <2>2. side'[In] = side[In] /\ side[In] \notin gone
    BY <1>0, <1>3, <2>1
  <2>3. tcl'.watch[Pair] = tcl.watch[Pair]
    BY <1>0, <1>6
  <2>4. Told(tcl, side[In], Pair, "readable")
    BY <2>1, <2>2, <2>3 DEF FwdInv, PairAsked
  <2>. QED  BY <1>6, <2>2, <2>4 DEF Told
<1>8. ASSUME NEW e \in Tracked, slaveOf'[e] # NoChannel PROVE Tracks(tcl, e, wanted[e])'
  <2>1. e \in Exp /\ slaveOf'[e] = slaveOf[e] /\ slaveOf[e] \notin gone /\ Tracks(tcl, e, wanted[e])
    BY <1>2, <1>8 DEF Tracked, FwdInv
  <2>2. e # Pair /\ slaveOf[e] \in Base \union {Pair, NoChannel} /\ side[In] \in Base \union {NoChannel}
    BY <2>1, ChannelNames DEF FwdInv, ChanInv, SlavesRight
  <2>3. \A h : h.owner = e => (h \in tcl'.handlers <=> h \in tcl.handlers)
    <3>1. \A h \in tcl.handlers : h.owner = e => h.on = slaveOf[e]
      BY <2>2 DEF FwdInv, ChanInv, Good, Owned, OfExp, OfPair
    <3>. QED  BY <1>6, <2>1, <3>1
  <2>4. ASSUME Through(e, In)' \notin {NoChannel} \union odd'.shared, "readable" \in wanted[e]
        PROVE  "readable" \in tcl'.watch[Through(e, In)']
    <3>1. Through(e, In)' = Through(e, In) /\ Through(e, In) \notin gone
      BY <1>4, <2>1, <2>4
    <3>2. Through(e, In) \in Base
      BY <2>2, <2>4, <3>1 DEF Through
    <3>3. "readable" \in tcl.watch[Through(e, In)]
      BY <2>1, <2>4, <3>1 DEF Tracks
    <3>. QED  BY <1>6, <3>1, <3>2, <3>3
  <2>5. tcl'.watch[Pair] = tcl.watch[Pair]
    BY <1>0, <1>6
  <2>. QED  BY <2>1, <2>3, <2>4, <2>5 DEF Tracks
<1>. QED  BY <1>1, <1>5, <1>7, <1>8

LEMMA FwdInit == ChannelsInit => FwdInv
<1>. SUFFICES ASSUME ChannelsInit PROVE FwdInv
  OBVIOUS
<1>1. /\ slaveOf = [e \in Exp |-> IF e = Stdinout THEN Pair ELSE NoChannel]
      /\ side = [s \in {In, Out} |-> IF s = In THEN In ELSE Out]
      /\ wanted = [e \in Exp |-> {}]
      /\ tcl.watch = [c \in Base \union {Pair} |-> {}] /\ tcl.handlers = {}
  BY DEF ChannelsInit, Exp_CreatePairChannel
<1>2. ChanInv
  BY ChanInitGood
<1>3. side[In] = In /\ side[Out] = Out /\ In # Out
  BY <1>1, ChannelNames
<1>4. SidesRight
  BY <1>1, <1>3 DEF SidesRight, Base
<1>5. Apart
  <2>. SUFFICES ASSUME NEW e \in Exp, NEW f \in Exp, NEW s \in {In, Out}, NEW r \in {In, Out},
                       e # f, Through(e, s) = Through(f, r)
                PROVE  Through(e, s) \in {NoChannel} \union odd.shared
    BY DEF Apart
  <2>1. \A g \in Exp : slaveOf[g] = IF g = Stdinout THEN Pair ELSE NoChannel
    BY <1>1
  <2>2. Pair # NoChannel
    BY ChannelNames
  <2>. QED  BY <2>1, <2>2 DEF Through
<1>6. \A e \in Exp : wanted[e] = {}
  BY <1>1
<1>7. wanted \in [Exp -> SUBSET Conditions]
  BY <1>1
<1>8. PairAsked(tcl)
  BY <1>1 DEF PairAsked
<1>9. \A e \in Exp : Tracks(tcl, e, wanted[e])
  BY <1>1, <1>6 DEF Tracks
<1>. QED  BY <1>2, <1>4, <1>5, <1>6, <1>7, <1>8, <1>9 DEF FwdInv, Tracked, Exp

\* As long as the slaves and the sides are as they were.
LEMMA FwdKept ==
    ASSUME FwdInv, ChanInv', UNCHANGED <<slaveOf, side>>, odd'.shared = odd.shared,
           odd.written \subseteq odd'.written, freed \subseteq freed',
           \A e \in Exp : e \in live \ freed => e \in live' \union freed',
           \A e \in Exp : e \in live' => e \in live, closed \subseteq closed',
           wanted' \in [Exp -> SUBSET Conditions],
           \A e \in Exp : wanted'[e] # wanted[e] =>
              e \in live /\ (e \notin odd'.written => wanted'[e] \subseteq {"readable"}),
           slaveOf[Stdinout] = Pair => PairAsked(tcl'),
           \A e \in Tracked : e \notin closed' \union odd'.written => Tracks(tcl', e, wanted'[e])
    PROVE  FwdInv'
<1>1. SidesRight' /\ Apart'
  BY DEF FwdInv, SidesRight, Apart, Through
<1>2. \A e \in Exp : e \notin odd'.written => wanted'[e] \subseteq {"readable"}
  BY DEF FwdInv
<1>3. \A e \in Spawned : e \notin live' /\ e \notin freed' => wanted'[e] = {}
  BY DEF FwdInv, Exp
<1>4. (slaveOf[Stdinout] = Pair => PairAsked(tcl))'
  BY DEF PairAsked, Told
<1>5. \A e \in Tracked' : Tracks(tcl, e, wanted[e])'
  <2>. SUFFICES ASSUME NEW e \in Tracked' PROVE Tracks(tcl, e, wanted[e])'
    OBVIOUS
  <2>1. e \in Tracked /\ e \notin closed' \union odd'.written
    BY DEF Tracked
  <2>. QED  BY <2>1 DEF Tracks, Through
<1>. QED  BY <1>1, <1>2, <1>3, <1>4, <1>5 DEF FwdInv

LEMMA WatchExpForwards ==
    ASSUME FwdInv, NEW e \in Exp, NEW mask \in SUBSET Conditions, WatchExp(e, mask)
    PROVE  FwdInv'
<1>1. /\ e \in live /\ UNCHANGED <<live, slaveOf, side, closed, freed>>
      /\ slaveOf[e] = NoChannel => UNCHANGED <<tcl, wanted, odd>>
      /\ slaveOf[e] # NoChannel => /\ tcl' = ExpChanWatch(tcl, e, mask)
                                   /\ wanted' = [wanted EXCEPT ![e] = mask]
                                   /\ odd' = IF "writable" \in mask THEN [odd EXCEPT !.written = @ \union {e}] ELSE odd
  BY DEF WatchExp
<1>2. ChanInv'
  BY WatchExpKeeps DEF FwdInv
<1>3. CASE slaveOf[e] = NoChannel
  BY <1>1, <1>2, <1>3, FwdKept DEF FwdInv
<1>4. CASE slaveOf[e] # NoChannel
  <2>1. /\ odd'.shared = odd.shared /\ odd.written \subseteq odd'.written
        /\ e \notin odd'.written => mask \subseteq {"readable"} /\ e \notin odd.written
    BY <1>1, <1>4 DEF FwdInv, ChanInv, SlavesRight, Conditions
  <2>2. wanted' \in [Exp -> SUBSET Conditions] /\ \A f \in Exp : wanted'[f] = IF f = e THEN mask ELSE wanted[f]
    BY <1>1, <1>4 DEF FwdInv
  <2>3. slaveOf[e] \in Base \union {Pair} /\ Good(tcl, slaveOf, side)
    BY <1>4 DEF FwdInv, ChanInv, SlavesRight
  <2>4. LetsBe(tcl, tcl', slaveOf[e], e)
    BY <1>1, <1>4, <2>3, WatchedLetsBe DEF FwdInv
  <2>5. slaveOf[Stdinout] = Pair => PairAsked(tcl')
    BY <2>4 DEF FwdInv, LetsBe
  <2>6. ASSUME NEW f \in Tracked, f \notin closed' \union odd'.written
        PROVE  Tracks(tcl', f, wanted'[f])
    <3>1. f \in Exp /\ slaveOf[f] # NoChannel /\ Tracks(tcl, f, wanted[f])
      BY DEF FwdInv, Tracked
    <3>2. CASE f # e
      <4>1. Tracks(tcl', f, wanted[f])
        BY <1>4, <2>3, <2>4, <3>1, <3>2, OthersTrack
      <4>. QED  BY <2>2, <3>1, <3>2, <4>1
    <3>3. CASE f = e
      <4>1. mask \in SUBSET {"readable"} /\ wanted[e] \in SUBSET {"readable"}
        BY <2>1, <2>6, <3>3 DEF FwdInv
      <4>2. Tracks(ExpChanWatch(tcl, e, mask), e, mask)
        BY <2>3, <3>1, <3>3, <4>1, WatchedTracks DEF FwdInv
      <4>. QED  BY <1>1, <1>4, <2>2, <3>3, <4>2
    <3>. QED  BY <3>2, <3>3
  <2>. QED  BY <1>1, <1>2, <2>1, <2>2, <2>5, <2>6, FwdKept
<1>. QED  BY <1>3, <1>4

LEMMA ScriptCloseForwards ==
    ASSUME FwdInv, NEW c \in Base, ScriptClose(c)
    PROVE  FwdInv'
<1>1. /\ UNCHANGED <<closed, wanted, freed, odd>> /\ live' = live \ {c}
      /\ slaveOf' = [e \in Exp |-> IF slaveOf[e] \in {c} THEN NoChannel ELSE slaveOf[e]]
      /\ side' = IF Pair \in {c} \union freed THEN side
                 ELSE [s \in {In, Out} |-> IF side[s] \in {c} THEN NoChannel ELSE side[s]]
      /\ tcl' = Detached(tcl, {c})
  BY DEF ScriptClose, Forget
<1>2. ChanInv' /\ c # Pair /\ c \notin Exp
  BY ScriptCloseKeeps, ChannelNames DEF FwdInv
<1>3. \A e \in Exp : slaveOf'[e] = IF slaveOf[e] \in {c} THEN NoChannel ELSE slaveOf[e]
  BY <1>1
<1>4. /\ SidesRight' /\ Apart'
      /\ (slaveOf[Stdinout] = Pair => PairAsked(tcl))'
      /\ \A e \in Tracked : slaveOf'[e] # NoChannel => Tracks(tcl, e, wanted[e])'
  <2>1. side' = IF Pair \in freed THEN side
                ELSE [s \in {In, Out} |-> IF side[s] \in {c} THEN NoChannel ELSE side[s]]
    BY <1>1, <1>2
  <2>2. {c} \in SUBSET Base /\ odd'.shared = odd.shared /\ UNCHANGED wanted
    BY <1>1
  <2>. QED  BY <1>1, <1>3, <2>1, <2>2, EndsTrack
<1>5. \A e \in Tracked' : e \in Tracked /\ slaveOf'[e] # NoChannel
  BY <1>1, <1>3 DEF Tracked
<1>6. Spawned \subseteq Exp
  BY DEF Exp
<1>. QED  BY <1>1, <1>2, <1>4, <1>5, <1>6 DEF FwdInv

LEMMA SpawnOpenForwards ==
    ASSUME FwdInv, NEW e \in Spawned, NEW c \in Base, NEW leave \in BOOLEAN, SpawnOpen(e, c, leave)
    PROVE  FwdInv'
<1>1. /\ e \notin live /\ e \notin freed /\ e \in Exp /\ e # Stdinout
      /\ UNCHANGED <<side, closed, tcl, wanted, freed>>
      /\ live' = live \union {e}
      /\ slaveOf' = [slaveOf EXCEPT ![e] = c]
      /\ odd' = IF \E f \in Exp : c \in {Through(f, In), Through(f, Out)}
                THEN [odd EXCEPT !.shared = @ \union {c}] ELSE odd
  BY ChannelNames DEF SpawnOpen, Exp
<1>2. ChanInv'
  BY SpawnOpenKeeps DEF FwdInv
<1>3. \A f \in Exp : slaveOf'[f] = IF f = e THEN c ELSE slaveOf[f]
  BY <1>1 DEF FwdInv, ChanInv, SlavesRight
<1>4. c # Pair /\ c # NoChannel /\ Pair # NoChannel
  BY ChannelNames
<1>5. /\ odd.shared \subseteq odd'.shared /\ odd'.written = odd.written
      /\ \A f \in Exp, s \in {In, Out} : Through(f, s) = c => c \in odd'.shared
  BY <1>1 DEF FwdInv, ChanInv, SlavesRight
<1>6. /\ \A s \in {In, Out} : Through(e, s)' = c
      /\ \A f \in Exp, s \in {In, Out} : f # e => Through(f, s)' = Through(f, s)
  BY <1>1, <1>3, <1>4 DEF Through
<1>7. Apart'
  <2>. SUFFICES ASSUME NEW f \in Exp, NEW g \in Exp, NEW s \in {In, Out}, NEW r \in {In, Out},
                       f # g, Through(f, s)' = Through(g, r)'
                PROVE  Through(f, s)' \in {NoChannel} \union odd'.shared
    BY DEF Apart
  <2>1. CASE f # e /\ g # e
    BY <1>5, <1>6, <2>1 DEF FwdInv, Apart
  <2>2. CASE f = e
    BY <1>5, <1>6, <2>2
  <2>3. CASE g = e
    BY <1>5, <1>6, <2>3
  <2>. QED  BY <2>1, <2>2, <2>3
<1>8. SidesRight' /\ (slaveOf[Stdinout] = Pair => PairAsked(tcl))'
  BY <1>1, <1>3 DEF FwdInv, SidesRight, PairAsked, Told, Exp
<1>9. ASSUME NEW f \in Tracked' PROVE Tracks(tcl, f, wanted[f])'
  <2>1. CASE f = e
    <3>1. wanted[e] = {} /\ slaveOf[e] = NoChannel
      BY <1>1 DEF FwdInv, ChanInv, SlavesRight
    <3>2. \A h \in tcl.handlers : h.owner # e
      BY <1>1, <3>1, TclFields, ChannelNames DEF FwdInv, ChanInv, Good, Owned, OfExp, OfPair, Handler
    <3>. QED  BY <1>1, <2>1, <3>1, <3>2 DEF Tracks
  <2>2. CASE f # e
    <3>1. f \in Exp /\ f \in Tracked
      BY <1>1, <1>3, <1>5, <2>2 DEF Tracked
    <3>2. Tracks(tcl, f, wanted[f]) /\ Through(f, In)' = Through(f, In) /\ slaveOf'[f] = slaveOf[f]
      BY <1>3, <1>6, <2>2, <3>1 DEF FwdInv
    <3>. QED  BY <1>1, <1>5, <3>2 DEF Tracks
  <2>. QED  BY <2>1, <2>2
<1>. QED  BY <1>1, <1>2, <1>5, <1>7, <1>8, <1>9 DEF FwdInv

\* The spawn ids es are closed, and the channels stay.
LEMMA QuietForwards ==
    ASSUME FwdInv, NEW es \in SUBSET Exp, Quiet(es)
    PROVE  /\ wanted' \in [Exp -> SUBSET Conditions]
           /\ \A e \in Exp : wanted'[e] = wanted[e] \/ (slaveOf[e] # NoChannel /\ wanted'[e] = {})
           /\ \A e \in Exp \ es : wanted'[e] = wanted[e]
           /\ closed' = closed \union es
<1>1. wanted' = [e \in Exp |-> IF e \in Shown(es) THEN {} ELSE wanted[e]] /\ closed' = closed \union es
  BY DEF Quiet
<1>2. \A e \in Exp : e \in Shown(es) <=> e \in es /\ slaveOf[e] # NoChannel
  BY DEF Shown
<1>. HIDE DEF Shown
<1>. QED  BY <1>1, <1>2 DEF FwdInv

LEMMA ExpCloseForwards ==
    ASSUME FwdInv, NEW e \in Exp, ExpClose(e)
    PROVE  FwdInv'
<1>1. /\ e \in live /\ UNCHANGED <<live, held, slaveOf, side, leaveopen, freed, odd>>
      /\ Quiet({e}) /\ tcl' = Unwatched({e}) /\ {e} \in SUBSET Exp
  BY DEF ExpClose
<1>2. ChanInv'
  BY ExpCloseKeeps DEF FwdInv
<1>3. /\ wanted' \in [Exp -> SUBSET Conditions]
      /\ \A f \in Exp : wanted'[f] = wanted[f] \/ (slaveOf[f] # NoChannel /\ wanted'[f] = {})
      /\ \A f \in Exp \ {e} : wanted'[f] = wanted[f]
      /\ closed' = closed \union {e}
  BY <1>1, QuietForwards
<1>4. /\ \A f \in Tracked \ {e} : Tracks(tcl', f, wanted[f])
      /\ slaveOf[Stdinout] = Pair => PairAsked(tcl')
  BY <1>1, UnwatchedTracks
<1>5. \A f \in Tracked : f \notin closed' \union odd'.written => Tracks(tcl', f, wanted'[f])
  BY <1>3, <1>4 DEF Tracked
<1>6. \A f \in Exp : wanted'[f] # wanted[f] =>
         f \in live /\ (f \notin odd'.written => wanted'[f] \subseteq {"readable"})
  BY <1>1, <1>3
<1>. QED  BY <1>1, <1>2, <1>3, <1>4, <1>5, <1>6, FwdKept

LEMMA ExpChanCloseForwards ==
    ASSUME FwdInv, NEW e \in Exp, ExpChanClose(e)
    PROVE  FwdInv'
<1> DEFINE gone == IF e = Stdinout \/ slaveOf[e] = NoChannel THEN {} ELSE {slaveOf[e]}
<1>1. /\ UNCHANGED <<closed, wanted>> /\ e \in closed
      /\ live' = (live \ {e}) \ gone
      /\ slaveOf' = [f \in Exp |-> IF slaveOf[f] \in gone THEN NoChannel ELSE slaveOf[f]]
      /\ side' = IF Pair \in gone \union freed THEN side
                 ELSE [s \in {In, Out} |-> IF side[s] \in gone THEN NoChannel ELSE side[s]]
      /\ tcl' = Detached(tcl, gone)
      /\ odd' = [odd EXCEPT !.panic = gone \intersect held # {}]
      /\ freed' = IF e = Stdinout THEN freed ELSE freed \union {e}
  BY DEF ExpChanClose, Forget
<1>2. gone \in SUBSET Base
  BY DEF FwdInv, ChanInv, SlavesRight
<1>. HIDE DEF gone
<1>3. ChanInv' /\ Pair \notin gone /\ gone \intersect Exp = {}
  BY <1>2, ExpChanCloseKeeps, ChannelNames DEF FwdInv
<1>4. \A f \in Exp : slaveOf'[f] = IF slaveOf[f] \in gone THEN NoChannel ELSE slaveOf[f]
  BY <1>1
<1>5. odd'.shared = odd.shared /\ odd'.written = odd.written
  BY <1>1 DEF FwdInv, ChanInv, SlavesRight
<1>6. /\ SidesRight' /\ Apart'
      /\ (slaveOf[Stdinout] = Pair => PairAsked(tcl))'
      /\ \A f \in Tracked : slaveOf'[f] # NoChannel => Tracks(tcl, f, wanted[f])'
  <2>1. side' = IF Pair \in freed THEN side
                ELSE [s \in {In, Out} |-> IF side[s] \in gone THEN NoChannel ELSE side[s]]
    BY <1>1, <1>3
  <2>. QED  BY <1>1, <1>2, <1>4, <1>5, <2>1, EndsTrack
<1>7. \A f \in Tracked' : f \in Tracked /\ slaveOf'[f] # NoChannel
  <2>1. NoChannel \notin gone
    BY <1>2, ChannelNames
  <2>. QED  BY <1>1, <1>4, <1>5, <2>1 DEF Tracked
<1>8. \A f \in Spawned : f \notin live' /\ f \notin freed' => f \notin live /\ f \notin freed
  <2>1. Stdinout \notin Spawned /\ Spawned \subseteq Exp
    BY ChannelNames DEF Exp
  <2>. QED  BY <1>1, <1>3, <2>1
<1>. QED  BY <1>1, <1>3, <1>5, <1>6, <1>7, <1>8 DEF FwdInv

\* The pair ends: what is not over it is as it was.
LEMMA PairEndsForwards ==
    ASSUME FwdInv, NEW t, Good(t, slaveOf, side), ExpPairClose(t), ChanInv', UNCHANGED odd,
           closed \subseteq closed', wanted' \in [Exp -> SUBSET Conditions],
           \A e \in Exp : wanted'[e] = wanted[e] \/ (slaveOf[e] # NoChannel /\ wanted'[e] = {}),
           \A e \in Tracked : e \notin closed' => Tracks(t, e, wanted'[e])
    PROVE  FwdInv'
<1>1. /\ live' = live \ {Pair} /\ freed' = freed \union {Pair}
      /\ slaveOf' = [e \in Exp |-> IF slaveOf[e] \in {Pair} THEN NoChannel ELSE slaveOf[e]]
      /\ side' = side
      /\ tcl' = [t EXCEPT !.handlers = {h \in @ : h.on # Pair}]
  BY DEF ExpPairClose, Forget
<1>2. \A e \in Exp : slaveOf'[e] = IF slaveOf[e] = Pair THEN NoChannel ELSE slaveOf[e]
  BY <1>1
<1>3. /\ \A h : h \in tcl'.handlers <=> h \in t.handlers /\ h.on # Pair
      /\ tcl'.watch = t.watch
  <2> DEFINE hs == {h \in t.handlers : h.on # Pair}
  <2>1. t \in Tcl /\ hs \in SUBSET Handler /\ tcl' = [t EXCEPT !.handlers = hs]
    BY <1>1, TclFields DEF Good, Owned
  <2>2. \A h : h \in hs <=> h \in t.handlers /\ h.on # Pair
    OBVIOUS
  <2>. HIDE DEF hs
  <2>. QED  BY <2>1, <2>2, OtherHandlers
<1>4. Pair # NoChannel /\ Stdinout \in Exp /\ Pair \notin Exp /\ Spawned \subseteq Exp
  BY ChannelNames DEF Exp
<1>5. SidesRight' /\ (slaveOf[Stdinout] = Pair => PairAsked(tcl))'
  BY <1>1, <1>2, <1>4 DEF FwdInv, SidesRight
<1>6. \A e \in Exp, s \in {In, Out} : Through(e, s)' = IF slaveOf[e] = Pair THEN NoChannel ELSE Through(e, s)
  BY <1>1, <1>2, <1>4 DEF Through
<1>7. Apart'
  <2>. SUFFICES ASSUME NEW f \in Exp, NEW g \in Exp, NEW s \in {In, Out}, NEW r \in {In, Out},
                       f # g, Through(f, s)' = Through(g, r)'
                PROVE  Through(f, s)' \in {NoChannel} \union odd'.shared
    BY DEF Apart
  <2>. QED  BY <1>6 DEF FwdInv, Apart
<1>8. ASSUME NEW e \in Tracked' PROVE Tracks(tcl, e, wanted[e])'
  <2>1. e \in Exp /\ slaveOf[e] # Pair /\ slaveOf'[e] = slaveOf[e] /\ e \in Tracked /\ e \notin closed'
    BY <1>1, <1>2 DEF Tracked
  <2>2. Tracks(t, e, wanted'[e]) /\ Through(e, In)' = Through(e, In)
    BY <1>6, <2>1
  <2>3. \A h : h.owner = e => (h \in tcl'.handlers <=> h \in t.handlers)
    <3>1. \A h \in t.handlers : h.owner = e => h.on = slaveOf[e]
      BY <1>4, <2>1 DEF Good, Owned, OfExp, OfPair
    <3>. QED  BY <1>3, <2>1, <3>1
  <2>. QED  BY <1>3, <2>1, <2>2, <2>3 DEF Tracks
<1>9. /\ \A e \in Exp : e \notin odd'.written => wanted'[e] \subseteq {"readable"}
      /\ \A e \in Spawned : e \notin live' /\ e \notin freed' => wanted'[e] = {}
  BY <1>1, <1>4 DEF FwdInv
<1>. QED  BY <1>5, <1>7, <1>8, <1>9 DEF FwdInv

LEMMA ClosePairForwards ==
    ASSUME FwdInv, ClosePair
    PROVE  FwdInv'
<1>1. ExpPairClose(tcl) /\ UNCHANGED <<closed, wanted, odd>> /\ Good(tcl, slaveOf, side)
  BY DEF ClosePair, FwdInv, ChanInv
<1>2. ChanInv'
  BY ClosePairKeeps DEF FwdInv
<1>. QED  BY <1>1, <1>2, PairEndsForwards DEF FwdInv

LEMMA ExpCloseAllForwards ==
    ASSUME FwdInv, ExpCloseAll
    PROVE  FwdInv'
<1> DEFINE es == (live \intersect Exp) \ closed
<1>1. /\ Quiet(es) /\ UNCHANGED odd
      /\ IF Pair \in live THEN ExpPairClose(Unwatched(es))
         ELSE tcl' = Unwatched(es) /\ UNCHANGED <<live, freed, slaveOf, side>>
  BY DEF ExpCloseAll
<1>2. ChanInv'
  BY ExpCloseAllKeeps DEF FwdInv
<1>3. es \in SUBSET Exp /\ es \subseteq live
  OBVIOUS
<1>. HIDE DEF es
<1>4. Good(Unwatched(es), slaveOf, side)
  BY <1>3, UnwatchedKeeps DEF FwdInv
<1>5. /\ wanted' \in [Exp -> SUBSET Conditions]
      /\ \A f \in Exp : wanted'[f] = wanted[f] \/ (slaveOf[f] # NoChannel /\ wanted'[f] = {})
      /\ \A f \in Exp \ es : wanted'[f] = wanted[f]
      /\ closed' = closed \union es
  BY <1>1, <1>3, QuietForwards
<1>6. /\ \A f \in Tracked \ es : Tracks(Unwatched(es), f, wanted[f])
      /\ slaveOf[Stdinout] = Pair => PairAsked(Unwatched(es))
  BY <1>3, UnwatchedTracks
<1>7. \A f \in Tracked : f \notin closed' => Tracks(Unwatched(es), f, wanted'[f])
  BY <1>5, <1>6 DEF Tracked
<1>8. CASE Pair \in live
  BY <1>1, <1>2, <1>4, <1>5, <1>7, <1>8, PairEndsForwards
<1>9. CASE Pair \notin live
  <2>1. \A f \in Exp : wanted'[f] # wanted[f] => f \in live /\ wanted'[f] \subseteq {"readable"}
    BY <1>3, <1>5
  <2>2. tcl' = Unwatched(es) /\ UNCHANGED <<live, freed, slaveOf, side>>
    BY <1>1, <1>9
  <2>3. slaveOf[Stdinout] = Pair => PairAsked(tcl')
    BY <1>6, <2>2
  <2>4. \A f \in Tracked : f \notin closed' \union odd'.written => Tracks(tcl', f, wanted'[f])
    BY <1>7, <2>2
  <2>5. odd'.shared = odd.shared /\ odd.written \subseteq odd'.written /\ closed \subseteq closed'
        /\ freed \subseteq freed' /\ UNCHANGED <<slaveOf, side>>
    BY <1>1, <1>5, <2>2
  <2>6. (\A f \in Exp : f \in live \ freed => f \in live' \union freed') /\ \A f \in Exp : f \in live' => f \in live
    BY <2>2
  <2>. QED  BY <1>2, <1>5, <2>1, <2>3, <2>4, <2>5, <2>6, FwdKept
<1>. QED  BY <1>8, <1>9

LEMMA FwdInvKept == FwdInv /\ [ChannelsNext]_chanVars => FwdInv'
<1>. SUFFICES ASSUME FwdInv, [ChannelsNext]_chanVars PROVE FwdInv'
  OBVIOUS
<1>1. ASSUME UNCHANGED <<live, held, slaveOf, side, leaveopen, closed, tcl, wanted, freed, odd>> PROVE FwdInv'
  <2>1. ChanInv'
    BY <1>1, ChanSame DEF FwdInv
  <2>. QED  BY <1>1, <2>1, FwdKept DEF FwdInv
<1>2. CASE UNCHANGED chanVars
  BY <1>1, <1>2 DEF chanVars
<1>3. ASSUME NEW e \in Exp, NEW m \in {"blocking", "nonblocking"}, BlockExp(e, m) PROVE FwdInv'
  BY <1>1, <1>3 DEF BlockExp
<1>4. ASSUME NEW value \in BOOLEAN, ExpPairSetOption(value) PROVE FwdInv'
  BY <1>1, <1>4 DEF ExpPairSetOption
<1>. QED
  BY <1>2, <1>3, <1>4, WatchExpForwards, ScriptCloseForwards, SpawnOpenForwards, ExpCloseForwards,
     ExpChanCloseForwards, ClosePairForwards, ExpCloseAllForwards DEF ChannelsNext

LEMMA FwdInvForwards == FwdInv => Forwarded
<1>. SUFFICES ASSUME FwdInv, NEW e \in (live \intersect Exp) \ (closed \union odd.written),
                     Through(e, In) \notin {NoChannel} \union odd.shared
              PROVE  "readable" \in wanted[e] <=> Reaches(e, "readable")
  BY DEF Forwarded
<1> DEFINE c == Through(e, In)
           Handles(on, owner) == \E h \in tcl.handlers : h.on = on /\ h.owner = owner /\ "readable" \in h.mask
<1>1. e \in Exp /\ e # Pair /\ slaveOf[e] # NoChannel /\ Tracks(tcl, e, wanted[e])
  BY ChannelNames DEF Through, FwdInv, Tracked
<1>2. Reaches(e, "readable") <=>
         /\ "readable" \in tcl.watch[c]
         /\ slaveOf[e] # Pair => Handles(c, e)
         /\ slaveOf[e] = Pair => Handles(c, Pair) /\ Handles(Pair, e)
  BY DEF Reaches
<1>3. \A h \in tcl.handlers : h.owner = e => h.on = slaveOf[e] /\ h.mask = {"readable"} /\ "readable" \in wanted[e]
  BY <1>1 DEF FwdInv, ChanInv, Good, Owned, OfExp, OfPair, Tracks
<1>4. ASSUME "readable" \in wanted[e] PROVE Reaches(e, "readable")
  <2>1. Handles(slaveOf[e], e) /\ "readable" \in tcl.watch[c]
    BY <1>1, <1>3, <1>4 DEF Tracks
  <2>2. slaveOf[e] # Pair => c = slaveOf[e]
    BY DEF Through
  <2>3. ASSUME slaveOf[e] = Pair PROVE Handles(c, Pair)
    <3>1. e = Stdinout /\ c = side[In]
      BY <1>1, <2>3 DEF FwdInv, ChanInv, SlavesRight, Through
    <3>2. Told(tcl, side[In], Pair, "readable")
      BY <1>1, <1>4, <2>3, <3>1 DEF FwdInv, PairAsked, Tracks
    <3>. QED  BY <3>1, <3>2 DEF Told
  <2>. QED  BY <1>2, <2>1, <2>2, <2>3
<1>5. ASSUME Reaches(e, "readable") PROVE "readable" \in wanted[e]
  <2>1. Handles(c, e) \/ Handles(Pair, e)
    BY <1>2, <1>5
  <2>. QED  BY <1>3, <2>1
<1>. QED  BY <1>4, <1>5

(***************************************************************************)
(* Input below a spawn id is reported to it exactly while it is awaited,   *)
(* for any channels of the script and any number of spawn ids over them,   *)
(* whatever was opened, closed, watched or set before: the handlers that   *)
(* ExpChanWatch and ExpPairWatch keep on the channels below agree with     *)
(* what each spawn id wants, but for one that was watched for writing and  *)
(* for channels that two spawn ids are over.                               *)
(***************************************************************************)
THEOREM ForwardedAlways == ChannelsSpec => []Forwarded
<1>1. ChannelsInit => FwdInv
  BY FwdInit
<1>. QED  BY <1>1, FwdInvKept, FwdInvForwards, PTL DEF ChannelsSpec
=============================================================================
