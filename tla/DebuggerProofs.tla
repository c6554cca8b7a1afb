--------------------------- MODULE DebuggerProofs ---------------------------
(***************************************************************************)
(* Proofs about the console debugger, and about the log that expect keeps  *)
(* of what it shows.                                                       *)
(*                                                                         *)
(* Breakpoints: however many threads call however many functions, each     *)
(* thread goes on where its call came from, a breakpoint that was put aside *)
(* is written again, and a handler is told of the end of a call as often as *)
(* of the beginning.                                                       *)
(***************************************************************************)
EXTENDS Breakpoints, Debuggee, SlaveMemory, Log, SequenceTheorems, FiniteSetTheorems, TLAPS

Alive(t) == pc[t] \notin {"new", "dead"}

\* Each living thread has a ThreadInfo, and no two have the same.
InfoOK ==
    /\ \A t \in Thread : Alive(t) <=> info[t] \in Info
    /\ \A t, u \in Thread : Alive(t) /\ info[t] = info[u] => t = u

\* Where a thread is agrees with the calls it is in and with lastBrkpt.
PlaceOK ==
    \A t \in Thread :
        /\ pc[t] \in {"entry", "hit", "stepped", "returning"} => frames[t] # <<>>
        /\ ~Alive(t) => frames[t] = <<>>
        /\ pc[t] = "stepped" => lastBrkpt[t] = Top(t).fn

\* A thread that is to step over a function has not executed it yet.
StepOK ==
    \A t \in Thread : tf[t] => pc[t] \in {"entry", "hit"} /\ lastBrkpt[t] = Top(t).fn

\* Breakpoint i is for the return of call d of thread t.
IsFor(i, t, d) == brkptList[i].thread = t /\ brkptList[i].depth = d
Waits(t, d) == \E i \in 1..Len(brkptList) : IsFor(i, t, d)

\* A breakpoint of a living thread is for a call that thread is in.
OwnerOK ==
    \A i \in 1..Len(brkptList) :
        LET b == brkptList[i] IN
        /\ pc[b.thread] # "new"
        /\ pc[b.thread] # "dead" =>
             /\ b.threadInfo = info[b.thread]
             /\ b.depth \in 1..Depth(b.thread)
             /\ b.codePtr = frames[b.thread][b.depth].fn

\* Those with one ThreadInfo are in the order of the calls, the dead first.
OrderOK ==
    \A i, j \in 1..Len(brkptList) :
        /\ i < j
        /\ brkptList[i].threadInfo = brkptList[j].threadInfo
        /\ pc[brkptList[i].thread] # "dead"
        => /\ brkptList[j].thread = brkptList[i].thread
           /\ brkptList[i].depth <= brkptList[j].depth

\* The first breakpoint of a call knows where it came from, the later ones lead
\* back to the stub.
ReturnOK ==
    \A i \in 1..Len(brkptList) :
        LET b == brkptList[i] IN
        pc[b.thread] # "dead" =>
            b.origRetAddr = IF \E j \in 1..Len(brkptList) : j < i /\ IsFor(j, b.thread, b.depth)
                            THEN b.codePtr ELSE frames[b.thread][b.depth].site

\* A call returns to the stub as long as there is a breakpoint for it.
SlotOK ==
    \A t \in Thread : \A d \in 1..Depth(t) :
        frames[t][d].slot = IF Waits(t, d) THEN frames[t][d].fn ELSE frames[t][d].site

ReturningOK == \A t \in Thread : pc[t] = "returning" => Waits(t, Depth(t))

\* The inductive invariant.
IInv == /\ TypeOK /\ InfoOK /\ PlaceOK /\ StepOK
        /\ OwnerOK /\ OrderOK /\ ReturnOK /\ SlotOK /\ ReturningOK
        /\ ReturnsHome
-----------------------------------------------------------------------------
\* What Pop and WithTop make of a call stack.
LEMMA PopFacts ==
    ASSUME NEW S, NEW s \in Seq(S), s # <<>>
    PROVE  /\ SubSeq(s, 1, Len(s) - 1) \in Seq(S)
           /\ Len(SubSeq(s, 1, Len(s) - 1)) = Len(s) - 1
           /\ Len(s) \in Nat /\ Len(s) >= 1 /\ s[Len(s)] \in S
           /\ \A i \in 1..Len(s) - 1 : SubSeq(s, 1, Len(s) - 1)[i] = s[i]
  <1> DEFINE n == Len(s)
             q == SubSeq(s, 1, n - 1)
  <1>1. n \in Nat \ {0}
    BY EmptySeq
  <1>2. \A i \in 1..n : s[i] \in S
    OBVIOUS
  <1> HIDE DEF n
  <1>3. n - 1 \in Int /\ (\A i \in 1..n - 1 : s[i] \in S) /\ s[n] \in S
    BY <1>1, <1>2
  <1>4. /\ q \in Seq(S) /\ Len(q) = IF 1 <= n - 1 THEN n - 1 - 1 + 1 ELSE 0
        /\ \A i \in 1..n - 1 - 1 + 1 : q[i] = s[1 + i - 1]
    BY <1>3, SubSeqProperties
  <1> HIDE DEF q
  <1>5. Len(q) = n - 1 /\ \A i \in 1..n - 1 : q[i] = s[i]
    BY <1>1, <1>4
  <1> QED
    BY <1>1, <1>3, <1>4, <1>5 DEF n, q

LEMMA TopFacts ==
    ASSUME NEW S, NEW s \in Seq(S), s # <<>>, NEW e \in S
    PROVE  LET r == Append(SubSeq(s, 1, Len(s) - 1), e) IN
           /\ r \in Seq(S) /\ Len(r) = Len(s) /\ r[Len(s)] = e
           /\ \A i \in 1..Len(s) - 1 : r[i] = s[i]
  <1> DEFINE q == SubSeq(s, 1, Len(s) - 1)
  <1>1. /\ q \in Seq(S) /\ Len(q) = Len(s) - 1 /\ Len(s) \in Nat
        /\ \A i \in 1..Len(s) - 1 : q[i] = s[i]
    BY PopFacts
  <1> HIDE DEF q
  <1>2. /\ Append(q, e) \in Seq(S) /\ Len(Append(q, e)) = Len(s)
        /\ Append(q, e)[Len(s)] = e
        /\ \A i \in 1..Len(s) - 1 : Append(q, e)[i] = q[i]
    BY <1>1
  <1> QED
    BY <1>1, <1>2 DEF q

\* Append, and the removal of element i, of the list of breakpoints.
LEMMA AppendFacts ==
    ASSUME NEW S, NEW s \in Seq(S), NEW e \in S
    PROVE  /\ Append(s, e) \in Seq(S) /\ Len(s) \in Nat
           /\ Len(Append(s, e)) = Len(s) + 1 /\ Append(s, e)[Len(s) + 1] = e
           /\ \A i \in 1..Len(s) : Append(s, e)[i] = s[i]
  OBVIOUS

\* Where element j of the list without element i was before.
From(i, j) == IF j < i THEN j ELSE j + 1

LEMMA UnlinkedFacts ==
    ASSUME brkptList \in Seq(Breakpoint), NEW i \in 1..Len(brkptList)
    PROVE  /\ Unlinked(i) \in Seq(Breakpoint)
           /\ Len(Unlinked(i)) = Len(brkptList) - 1
           /\ \A j \in 1..Len(Unlinked(i)) :
                /\ From(i, j) \in 1..Len(brkptList) \ {i}
                /\ Unlinked(i)[j] = brkptList[From(i, j)]
           /\ \A j \in 1..Len(brkptList) \ {i} :
                \E k \in 1..Len(Unlinked(i)) : From(i, k) = j
           /\ \A j, k \in 1..Len(Unlinked(i)) : j < k <=> From(i, j) < From(i, k)
  <1> DEFINE n == Len(brkptList)
  <1>1. n \in Nat /\ i \in 1..n /\ \A j \in 1..n : brkptList[j] \in Breakpoint
    OBVIOUS
  <1>2. \A j \in 1..n - 1 : From(i, j) \in 1..n \ {i}
    BY <1>1 DEF From
  <1>3. Unlinked(i) = [j \in 1..n - 1 |-> brkptList[From(i, j)]]
    BY DEF Unlinked, From
  <1>4. Unlinked(i) \in Seq(Breakpoint) /\ Len(Unlinked(i)) = n - 1
    BY <1>1, <1>2, <1>3
  <1>5. \A j \in 1..n \ {i} : \E k \in 1..n - 1 : From(i, k) = j
    <2> TAKE j \in 1..n \ {i}
    <2>1. CASE j < i
      BY <1>1, <2>1 DEF From
    <2>2. CASE j > i
      <3>1. j - 1 \in 1..n - 1 /\ From(i, j - 1) = j
        BY <1>1, <2>2 DEF From
      <3> QED
        BY <3>1
    <2> QED
      BY <1>1, <2>1, <2>2
  <1>6. \A j, k \in 1..n - 1 : j < k <=> From(i, j) < From(i, k)
    BY <1>1 DEF From
  <1> QED
    BY <1>2, <1>3, <1>4, <1>5, <1>6
-----------------------------------------------------------------------------
ListInv == OwnerOK /\ OrderOK /\ ReturnOK /\ SlotOK

\* What TypeOK says of single elements.
LEMMA ElementTypes ==
    ASSUME TypeOK
    PROVE  /\ Len(brkptList) \in Nat
           /\ \A i \in 1..Len(brkptList) : brkptList[i] \in Breakpoint
           /\ \A t \in Thread : /\ frames[t] \in Seq(Frame) /\ Depth(t) \in Nat
                               /\ \A d \in 1..Depth(t) : frames[t][d] \in Frame
  BY DEF TypeOK, Depth

\* A step that leaves the list alone, and changes the calls of a living thread
\* at their end only.
LEMMA ListKept ==
    ASSUME TypeOK, ListInv, brkptList' = brkptList,
           \A u \in Thread :
             /\ pc'[u] = "new" => pc[u] = "new"
             /\ pc[u] = "dead" => pc'[u] = "dead"
             /\ pc[u] # "new" /\ pc'[u] # "dead" => info'[u] = info[u],
           \A u \in Thread : \A d \in 1..Len(frames'[u]) :
             IF d \in 1..Depth(u) THEN frames'[u][d] = frames[u][d]
             ELSE pc[u] # "dead" /\ frames'[u][d].slot = frames'[u][d].site,
           \A i \in 1..Len(brkptList) : pc'[brkptList[i].thread] # "dead" =>
             brkptList[i].depth \in 1..Len(frames'[brkptList[i].thread])
    PROVE  ListInv'
  <1>1. /\ Len(brkptList) \in Nat
        /\ \A i \in 1..Len(brkptList) : brkptList[i].thread \in Thread
    BY ElementTypes DEF Breakpoint
  <1>2. \A i \in 1..Len(brkptList) :
          LET b == brkptList[i] IN
          pc'[b.thread] # "dead" =>
            /\ pc[b.thread] # "dead" /\ pc[b.thread] # "new"
            /\ b.depth \in 1..Depth(b.thread) /\ b.depth \in 1..Len(frames'[b.thread])
            /\ frames'[b.thread][b.depth] = frames[b.thread][b.depth]
            /\ info'[b.thread] = info[b.thread]
    <2> TAKE i \in 1..Len(brkptList)
    <2>1. /\ pc[brkptList[i].thread] # "new" /\ brkptList[i].thread \in Thread
          /\ pc[brkptList[i].thread] # "dead" =>
               brkptList[i].depth \in 1..Depth(brkptList[i].thread)
      BY <1>1 DEF ListInv, OwnerOK
    <2> QED
      BY <2>1
  <1>3. OwnerOK'
    <2> SUFFICES ASSUME NEW i \in 1..Len(brkptList)
                 PROVE  LET b == brkptList[i] IN
                        /\ pc'[b.thread] # "new"
                        /\ pc'[b.thread] # "dead" =>
                             /\ b.threadInfo = info'[b.thread]
                             /\ b.depth \in 1..Len(frames'[b.thread])
                             /\ b.codePtr = frames'[b.thread][b.depth].fn
      BY DEF OwnerOK, Depth
    <2>1. LET b == brkptList[i] IN
          /\ pc[b.thread] # "new"
          /\ pc[b.thread] # "dead" =>
               /\ b.threadInfo = info[b.thread]
               /\ b.codePtr = frames[b.thread][b.depth].fn
      BY DEF ListInv, OwnerOK
    <2> QED
      BY <1>1, <1>2, <2>1
  <1>4. OrderOK'
    BY <1>1, <1>2 DEF ListInv, OrderOK
  <1>5. ReturnOK'
    BY <1>1, <1>2 DEF ListInv, ReturnOK, IsFor
  <1>6. SlotOK'
    <2> SUFFICES ASSUME NEW u \in Thread, NEW d \in 1..Len(frames'[u])
                 PROVE  frames'[u][d].slot = IF Waits(u, d) THEN frames'[u][d].fn
                                             ELSE frames'[u][d].site
      BY DEF SlotOK, Depth, Waits, IsFor
    <2>1. CASE d \in 1..Depth(u)
      BY <2>1 DEF ListInv, SlotOK
    <2>2. CASE d \notin 1..Depth(u)
      <3>1. ~Waits(u, d)
        BY <2>2 DEF ListInv, OwnerOK, Waits, IsFor
      <3> QED
        BY <2>2, <3>1
    <2> QED
      BY <2>1, <2>2
  <1> QED
    BY <1>3, <1>4, <1>5, <1>6 DEF ListInv
\* The frame of a call that was seen.
LEMMA SeenFrame ==
    ASSUME NEW x \in Frame
    PROVE  LET y == [x EXCEPT !.slot = x.fn, !.ins = @ + 1] IN
           /\ y \in Frame /\ y.slot = x.fn /\ y.fn = x.fn /\ y.site = x.site
           /\ y.ins = x.ins + 1 /\ y.outs = x.outs
  <1>1. x.fn \in Fn /\ x.fn \in Addr /\ x.ins + 1 \in Nat
    BY DEF Frame, Addr
  <1> DEFINE k == x.ins + 1
             a == x.fn
  <1>2. a \in Addr /\ k \in Nat
    BY <1>1
  <1> HIDE DEF k, a
  <1>3. LET y == [x EXCEPT !.slot = a, !.ins = k] IN
        /\ y \in Frame /\ y.slot = a /\ y.fn = x.fn /\ y.site = x.site
        /\ y.ins = k /\ y.outs = x.outs
    BY <1>2 DEF Frame
  <1> QED
    BY <1>3 DEF k, a

\* A call seen: its breakpoint goes behind all that are for calls around it.
LEMMA ListGrows ==
    ASSUME TypeOK, InfoOK, PlaceOK, ListInv, NEW t \in Thread, OnXBreakpointIn(t)
    PROVE  /\ ListInv' /\ brkptList' \in Seq(Breakpoint) /\ frames' \in [Thread -> Seq(Frame)]
           /\ \A u \in Thread : Len(frames'[u]) = Len(frames[u])
           /\ frames'[t][Depth(t)].fn = Top(t).fn
           /\ \A u \in Thread \ {t} : frames'[u] = frames[u]
           /\ \A i \in 1..Len(brkptList) :
                i \in 1..Len(brkptList') /\ brkptList'[i] = brkptList[i]
  <1> DEFINE n == Len(brkptList)
             D == Depth(t)
             fr == [Top(t) EXCEPT !.slot = Top(t).fn, !.ins = @ + 1]
             e == [codePtr |-> Top(t).fn, threadInfo |-> info[t],
                   origRetAddr |-> Top(t).slot, thread |-> t, depth |-> D]
  <1>1. /\ pc[t] = "hit" /\ Alive(t) /\ info[t] \in Info /\ info' = info
        /\ frames[t] \in Seq(Frame) /\ frames[t] # <<>>
        /\ frames' = [frames EXCEPT ![t] = WithTop(t, fr)]
        /\ brkptList' = Append(brkptList, e) /\ pc' = [pc EXCEPT ![t] = "entry"]
    BY DEF TypeOK, InfoOK, PlaceOK, OnXBreakpointIn, ReturnBreakpoint, Goto, Alive
  <1>2. D \in Nat /\ D >= 1 /\ Top(t) \in Frame
    BY <1>1, PopFacts DEF Depth, Top
  <1>3. /\ fr \in Frame /\ fr.slot = Top(t).fn /\ fr.fn = Top(t).fn
        /\ fr.site = Top(t).site
    BY <1>2, SeenFrame
  <1> HIDE DEF fr
  <1>4. /\ WithTop(t, fr) \in Seq(Frame) /\ Len(WithTop(t, fr)) = D
        /\ WithTop(t, fr)[D] = fr
        /\ \A d \in 1..D - 1 : WithTop(t, fr)[d] = frames[t][d]
    BY <1>1, <1>3, TopFacts DEF WithTop, Pop, Depth
  <1>5. e \in Breakpoint
    BY <1>1, <1>2 DEF Breakpoint, Frame, Addr
  <1> HIDE DEF e
  <1>6. /\ brkptList' \in Seq(Breakpoint) /\ n \in Nat /\ Len(brkptList') = n + 1
        /\ brkptList'[n + 1] = e /\ \A i \in 1..n : brkptList'[i] = brkptList[i]
    BY <1>1, <1>5, AppendFacts DEF TypeOK
  <1>7. /\ frames' \in [Thread -> Seq(Frame)] /\ frames'[t] = WithTop(t, fr)
        /\ \A u \in Thread \ {t} : frames'[u] = frames[u]
    BY <1>1, <1>4 DEF TypeOK
  <1>8. /\ \A u \in Thread : Len(frames'[u]) = Len(frames[u])
        /\ frames'[t][D].fn = Top(t).fn
    BY <1>3, <1>4, <1>7 DEF Depth
  <1>9. /\ \A u \in Thread : \A d \in 1..Depth(u) :
             /\ frames'[u][d].fn = frames[u][d].fn
             /\ frames'[u][d].site = frames[u][d].site
             /\ ~(u = t /\ d = D) => frames'[u][d] = frames[u][d]
        /\ frames'[t][D].slot = frames'[t][D].fn
    BY <1>2, <1>3, <1>4, <1>7 DEF Top, Depth
  <1>10. /\ e.thread = t /\ e.depth = D /\ e.threadInfo = info[t]
         /\ e.codePtr = frames[t][D].fn /\ e.origRetAddr = frames[t][D].slot
    BY DEF e, Top
  <1>11. \A u \in Thread : pc'[u] \in {"new", "dead"} <=> pc[u] \in {"new", "dead"}
    BY <1>1 DEF TypeOK
  <1>12. \A u \in Thread : (pc'[u] = "new" <=> pc[u] = "new") /\ (pc'[u] = "dead" <=> pc[u] = "dead")
    BY <1>1 DEF TypeOK
  <1>13. \A i \in 1..n : /\ brkptList[i].thread \in Thread
                         /\ pc[brkptList[i].thread] # "dead" =>
                              brkptList[i].depth \in 1..Depth(brkptList[i].thread)
    BY ElementTypes DEF Breakpoint, ListInv, OwnerOK
  <1> HIDE DEF n, D
  <1>14. OwnerOK'
    <2> SUFFICES ASSUME NEW i \in 1..n + 1
                 PROVE  LET b == brkptList'[i] IN
                        /\ pc'[b.thread] # "new"
                        /\ pc'[b.thread] # "dead" =>
                             /\ b.threadInfo = info'[b.thread]
                             /\ b.depth \in 1..Len(frames'[b.thread])
                             /\ b.codePtr = frames'[b.thread][b.depth].fn
      BY <1>6 DEF OwnerOK, Depth
    <2>1. CASE i \in 1..n
      <3>1. /\ brkptList'[i] = brkptList[i] /\ brkptList[i].thread \in Thread
        BY <1>6, <1>13, <2>1
      <3> QED
        BY <1>1, <1>8, <1>9, <1>12, <1>13, <2>1, <3>1 DEF ListInv, OwnerOK, Depth, n
    <2>2. CASE i = n + 1
      <3>1. brkptList'[i] = e /\ D \in 1..Len(frames'[t])
        BY <1>2, <1>6, <1>8, <2>2 DEF Depth, D
      <3> QED
        BY <1>1, <1>2, <1>8, <1>10, <3>1 DEF Top, D, TypeOK
    <2> QED
      BY <1>6, <2>1, <2>2
  <1>15. OrderOK'
    <2> SUFFICES ASSUME NEW i \in 1..n + 1, NEW j \in 1..n + 1, i < j,
                        brkptList'[i].threadInfo = brkptList'[j].threadInfo,
                        pc'[brkptList'[i].thread] # "dead"
                 PROVE  /\ brkptList'[j].thread = brkptList'[i].thread
                        /\ brkptList'[i].depth <= brkptList'[j].depth
      BY <1>6 DEF OrderOK
    <2>1. /\ i \in 1..n /\ brkptList'[i] = brkptList[i]
          /\ pc[brkptList[i].thread] # "dead" /\ brkptList[i].thread \in Thread
      BY <1>6, <1>12, <1>13
    <2>2. CASE j \in 1..n
      BY <1>6, <2>1, <2>2 DEF ListInv, OrderOK, n
    <2>3. CASE j = n + 1
      <3>1. brkptList'[j] = e
        BY <1>6, <2>3
      <3>2. info[brkptList[i].thread] = info[t] /\ Alive(brkptList[i].thread)
        BY <1>10, <2>1, <3>1 DEF ListInv, OwnerOK, Alive, n
      <3>3. brkptList[i].thread = t
        BY <2>1, <3>2 DEF InfoOK
      <3>4. brkptList[i].depth \in 1..D
        BY <1>13, <2>1, <3>3 DEF D
      <3> QED
        BY <1>2, <1>10, <2>1, <3>1, <3>3, <3>4
    <2> QED
      BY <1>6, <2>2, <2>3
  <1>16. \A u \in Thread : \A d :
           Waits(u, d)' <=> Waits(u, d) \/ (u = t /\ d = D)
    BY <1>6, <1>10 DEF Waits, IsFor, n
  <1>17. SlotOK'
    BY <1>8, <1>9, <1>16, <1>2 DEF ListInv, SlotOK, Depth, D
  <1>18. ReturnOK'
    <2> SUFFICES ASSUME NEW i \in 1..n + 1, pc'[brkptList'[i].thread] # "dead"
                 PROVE  LET b == brkptList'[i] IN
                        b.origRetAddr =
                          IF \E j \in 1..n + 1 : j < i /\ brkptList'[j].thread = b.thread
                                                       /\ brkptList'[j].depth = b.depth
                          THEN b.codePtr ELSE frames'[b.thread][b.depth].site
      BY <1>6 DEF ReturnOK, IsFor
    <2>1. CASE i \in 1..n
      <3> DEFINE b == brkptList[i]
      <3>1. /\ brkptList'[i] = b /\ pc[b.thread] # "dead" /\ b.thread \in Thread
            /\ b.depth \in 1..Depth(b.thread)
        BY <1>6, <1>12, <1>13, <2>1
      <3>2. (\E j \in 1..n + 1 : j < i /\ brkptList'[j].thread = b.thread
                                       /\ brkptList'[j].depth = b.depth)
              <=> \E j \in 1..n : j < i /\ IsFor(j, b.thread, b.depth)
        BY <1>6, <2>1 DEF IsFor
      <3>3. frames'[b.thread][b.depth].site = frames[b.thread][b.depth].site
        BY <1>9, <3>1
      <3>4. b.origRetAddr = IF \E j \in 1..n : j < i /\ IsFor(j, b.thread, b.depth)
                            THEN b.codePtr ELSE frames[b.thread][b.depth].site
        BY <2>1, <3>1 DEF ListInv, ReturnOK, n
      <3> QED
        BY <3>1, <3>2, <3>3, <3>4
    <2>2. CASE i = n + 1
      <3>1. brkptList'[i] = e
        BY <1>6, <2>2
      <3>2. (\E j \in 1..n + 1 : j < i /\ brkptList'[j].thread = t
                                       /\ brkptList'[j].depth = D) <=> Waits(t, D)
        BY <1>6, <2>2 DEF IsFor, Waits, n
      <3>3. frames[t][D].slot = IF Waits(t, D) THEN frames[t][D].fn ELSE frames[t][D].site
        BY <1>2 DEF ListInv, SlotOK, D
      <3>4. frames'[t][D].site = frames[t][D].site
        BY <1>2, <1>9 DEF D
      <3> QED
        BY <1>10, <3>1, <3>2, <3>3, <3>4
    <2> QED
      BY <1>6, <2>1, <2>2
  <1> QED
    BY <1>6, <1>7, <1>8, <1>14, <1>15, <1>17, <1>18 DEF ListInv, D, n
\* The last breakpoint of a call is taken out of the list.
LEMMA ListCut ==
    ASSUME TypeOK, ListInv, NEW t \in Thread, NEW i \in 1..Len(brkptList),
           brkptList' = Unlinked(i), info' = info,
           NEW D, IsFor(i, t, D), \A j \in 1..Len(brkptList) : IsFor(j, t, D) => j <= i,
           \A u \in Thread : (pc'[u] = "new" <=> pc[u] = "new")
                           /\ (pc'[u] = "dead" <=> pc[u] = "dead"),
           \A u \in Thread : \A d \in 1..Len(frames'[u]) :
             /\ d \in 1..Depth(u)
             /\ frames'[u][d].fn = frames[u][d].fn
             /\ frames'[u][d].site = frames[u][d].site
             /\ frames'[u][d].slot = frames[u][d].slot,
           \A k \in 1..Len(brkptList) \ {i} : pc[brkptList[k].thread] # "dead" =>
             brkptList[k].depth \in 1..Len(frames'[brkptList[k].thread]),
           (\E j \in 1..Len(brkptList) : j < i /\ IsFor(j, t, D)) \/ D \notin 1..Len(frames'[t])
    PROVE  ListInv'
  <1> DEFINE n == Len(brkptList)
             m == Len(brkptList')
  <1>1. /\ n \in Nat /\ m \in Nat
        /\ \A j \in 1..m : From(i, j) \in 1..n \ {i} /\ brkptList'[j] = brkptList[From(i, j)]
        /\ \A j \in 1..n \ {i} : \E k \in 1..m : From(i, k) = j
        /\ \A j, k \in 1..m : j < k <=> From(i, j) < From(i, k)
    <2>1. /\ Unlinked(i) \in Seq(Breakpoint)
          /\ \A j \in 1..Len(Unlinked(i)) :
                /\ From(i, j) \in 1..n \ {i}
                /\ Unlinked(i)[j] = brkptList[From(i, j)]
          /\ \A j \in 1..n \ {i} : \E k \in 1..Len(Unlinked(i)) : From(i, k) = j
          /\ \A j, k \in 1..Len(Unlinked(i)) : j < k <=> From(i, j) < From(i, k)
      BY UnlinkedFacts DEF TypeOK
    <2> QED
      BY <2>1, ElementTypes
  <1>2. \A k \in 1..n : brkptList[k].thread \in Thread
    BY ElementTypes DEF Breakpoint
  <1>3. \A k \in 1..n \ {i} :
          LET b == brkptList[k] IN
          /\ pc'[b.thread] # "new"
          /\ pc'[b.thread] # "dead" =>
               /\ pc[b.thread] # "dead" /\ b.threadInfo = info'[b.thread]
               /\ b.depth \in 1..Len(frames'[b.thread])
               /\ b.codePtr = frames'[b.thread][b.depth].fn
               /\ frames'[b.thread][b.depth].site = frames[b.thread][b.depth].site
    <2> TAKE k \in 1..n \ {i}
    <2>1. LET b == brkptList[k] IN
          /\ pc[b.thread] # "new" /\ b.thread \in Thread
          /\ pc[b.thread] # "dead" =>
               /\ b.threadInfo = info[b.thread]
               /\ b.codePtr = frames[b.thread][b.depth].fn
      BY <1>2 DEF ListInv, OwnerOK
    <2> QED
      BY <2>1
  <1> HIDE DEF n, m
  <1>4. OwnerOK'
    <2> SUFFICES ASSUME NEW j \in 1..m
                 PROVE  LET b == brkptList'[j] IN
                        /\ pc'[b.thread] # "new"
                        /\ pc'[b.thread] # "dead" =>
                             /\ b.threadInfo = info'[b.thread]
                             /\ b.depth \in 1..Len(frames'[b.thread])
                             /\ b.codePtr = frames'[b.thread][b.depth].fn
      BY DEF OwnerOK, Depth, m
    <2>1. From(i, j) \in 1..n \ {i} /\ brkptList'[j] = brkptList[From(i, j)]
      BY <1>1
    <2> QED
      BY <1>3, <2>1
  <1>5. OrderOK'
    <2> SUFFICES ASSUME NEW j \in 1..m, NEW k \in 1..m, j < k,
                        brkptList'[j].threadInfo = brkptList'[k].threadInfo,
                        pc'[brkptList'[j].thread] # "dead"
                 PROVE  /\ brkptList'[k].thread = brkptList'[j].thread
                        /\ brkptList'[j].depth <= brkptList'[k].depth
      BY DEF OrderOK, m
    <2> DEFINE fj == From(i, j)
               fk == From(i, k)
    <2>1. /\ fj \in 1..n /\ fk \in 1..n /\ fj < fk
          /\ brkptList'[j] = brkptList[fj] /\ brkptList'[k] = brkptList[fk]
      BY <1>1
    <2> HIDE DEF fj, fk
    <2>2. pc[brkptList[fj].thread] # "dead"
      BY <1>2, <2>1
    <2> QED
      BY <2>1, <2>2 DEF ListInv, OrderOK, n
  <1>6. ASSUME NEW u, NEW d
        PROVE  (\E k \in 1..m : brkptList'[k].thread = u /\ brkptList'[k].depth = d)
                 <=> \E k \in 1..n \ {i} : IsFor(k, u, d)
    <2>1. ASSUME NEW k \in 1..m, brkptList'[k].thread = u, brkptList'[k].depth = d
          PROVE  \E q \in 1..n \ {i} : IsFor(q, u, d)
      <3>1. From(i, k) \in 1..n \ {i} /\ IsFor(From(i, k), u, d)
        BY <1>1, <2>1 DEF IsFor
      <3> QED
        BY <3>1
    <2>2. ASSUME NEW q \in 1..n \ {i}, IsFor(q, u, d)
          PROVE  \E k \in 1..m : brkptList'[k].thread = u /\ brkptList'[k].depth = d
      <3>1. PICK k \in 1..m : From(i, k) = q
        BY <1>1
      <3> QED
        BY <1>1, <2>2, <3>1 DEF IsFor
    <2> QED
      BY <2>1, <2>2
  <1>7. SlotOK'
    <2> DEFINE W(u, d) == \E k \in 1..m : /\ brkptList'[k].thread = u
                                          /\ brkptList'[k].depth = d
    <2> SUFFICES ASSUME NEW u \in Thread, NEW d \in 1..Len(frames'[u])
                 PROVE  frames'[u][d].slot = IF W(u, d) THEN frames'[u][d].fn
                                             ELSE frames'[u][d].site
      BY DEF SlotOK, Depth, Waits, IsFor, m
    <2>0. W(u, d) <=> \E k \in 1..n \ {i} : IsFor(k, u, d)
      BY <1>6
    <2> HIDE DEF W
    <2>1. W(u, d) <=> Waits(u, d)
      <3>1. CASE u = t /\ d = D
        <4>1. \E j \in 1..n \ {i} : IsFor(j, u, d)
          BY <3>1, <1>1 DEF n
        <4> QED
          BY <2>0, <4>1 DEF Waits, n
      <3>2. CASE ~(u = t /\ d = D)
        BY <2>0, <3>2 DEF Waits, IsFor, n
      <3> QED
        BY <3>1, <3>2
    <2>2. frames[u][d].slot = IF Waits(u, d) THEN frames[u][d].fn ELSE frames[u][d].site
      BY DEF ListInv, SlotOK
    <2> QED
      BY <2>1, <2>2
  <1>8. ReturnOK'
    <2> SUFFICES ASSUME NEW j \in 1..m, pc'[brkptList'[j].thread] # "dead"
                 PROVE  LET b == brkptList'[j] IN
                        b.origRetAddr =
                          IF \E k \in 1..m : k < j /\ brkptList'[k].thread = b.thread
                                                   /\ brkptList'[k].depth = b.depth
                          THEN b.codePtr ELSE frames'[b.thread][b.depth].site
      BY DEF ReturnOK, IsFor, m
    <2> DEFINE p == From(i, j)
               b == brkptList[p]
    <2>1. /\ p \in 1..n \ {i} /\ brkptList'[j] = b
      BY <1>1
    <2>2. \A k \in 1..n \ {i} : k < p <=> \E q \in 1..m : From(i, q) = k /\ q < j
      BY <1>1
    <2> HIDE DEF p
    <2>3. /\ pc[b.thread] # "dead"
          /\ frames'[b.thread][b.depth].site = frames[b.thread][b.depth].site
      BY <1>3, <2>1
    <2>4. b.origRetAddr = IF \E k \in 1..n : k < p /\ IsFor(k, b.thread, b.depth)
                          THEN b.codePtr ELSE frames[b.thread][b.depth].site
      BY <2>1, <2>3 DEF ListInv, ReturnOK, n
    <2>5. ~(i < p /\ IsFor(i, b.thread, b.depth))
      <3> SUFFICES ASSUME i < p, IsFor(i, b.thread, b.depth) PROVE FALSE
        OBVIOUS
      <3>1. IsFor(p, t, D)
        BY DEF IsFor
      <3> QED
        BY <1>1, <2>1, <3>1 DEF n
    <2>6. (\E k \in 1..n : k < p /\ IsFor(k, b.thread, b.depth))
            <=> \E q \in 1..m : q < j /\ IsFor(From(i, q), b.thread, b.depth)
      BY <1>1, <2>2, <2>5
    <2>7. (\E q \in 1..m : q < j /\ IsFor(From(i, q), b.thread, b.depth))
            <=> \E k \in 1..m : k < j /\ brkptList'[k].thread = b.thread
                                      /\ brkptList'[k].depth = b.depth
      <3>1. \A q \in 1..m : IsFor(From(i, q), b.thread, b.depth)
              <=> brkptList'[q].thread = b.thread /\ brkptList'[q].depth = b.depth
        BY <1>1 DEF IsFor
      <3> QED
        BY <3>1
    <2> DEFINE before == \E k \in 1..n : k < p /\ IsFor(k, b.thread, b.depth)
               after == \E k \in 1..m : k < j /\ brkptList'[k].thread = b.thread
                                              /\ brkptList'[k].depth = b.depth
    <2>8. before <=> after
      BY ONLY <2>6, <2>7
    <2>9. b.origRetAddr = IF before THEN b.codePtr ELSE frames[b.thread][b.depth].site
      BY ONLY <2>4
    <2> HIDE DEF before, after
    <2>10. b.origRetAddr = IF after THEN b.codePtr ELSE frames'[b.thread][b.depth].site
      BY ONLY <2>3, <2>8, <2>9
    <2> QED
      BY ONLY <2>1, <2>10 DEF after
  <1> QED
    BY <1>4, <1>5, <1>7, <1>8 DEF ListInv

\* What a thread finds at the stub: the last breakpoint for its innermost call.
LEMMA LastMatch ==
    ASSUME TypeOK, InfoOK, PlaceOK, ListInv, ReturningOK,
           NEW t \in Thread, pc[t] = "returning"
    PROVE  /\ Matching(t) # {}
           /\ \A i \in Matching(t) : (\A j \in Matching(t) : j <= i) =>
                /\ i \in 1..Len(brkptList) /\ IsFor(i, t, Depth(t))
                /\ \A j \in 1..Len(brkptList) : IsFor(j, t, Depth(t)) => j <= i
  <1> DEFINE n == Len(brkptList)
             D == Depth(t)
  <1>1. n \in Nat /\ D \in Nat
    BY ElementTypes
  <1>2. \A j \in 1..n : IsFor(j, t, D) =>
          /\ j \in Matching(t) /\ brkptList[j].threadInfo = info[t]
    BY DEF ListInv, OwnerOK, IsFor, Matching, Top
  <1>3. PICK k \in 1..n : IsFor(k, t, D)
    BY DEF ReturningOK, Waits
  <1>4. Matching(t) # {}
    BY <1>2, <1>3
  <1>5. ASSUME NEW i \in Matching(t), \A j \in Matching(t) : j <= i
        PROVE  i \in 1..n /\ IsFor(i, t, D)
    <2>1. i \in 1..n /\ k <= i /\ brkptList[i].threadInfo = info[t]
      BY <1>2, <1>3, <1>5 DEF Matching
    <2>2. CASE k = i
      BY <1>3, <2>1, <2>2
    <2>3. CASE k < i
      <3>1. brkptList[i].thread = t /\ D <= brkptList[i].depth
        BY <1>2, <1>3, <2>1, <2>3 DEF ListInv, OrderOK, IsFor
      <3>2. brkptList[i].depth \in 1..D
        BY <2>1, <3>1 DEF ListInv, OwnerOK
      <3>3. brkptList[i].depth = D
        BY <1>1, <3>1, <3>2
      <3> QED
        BY <2>1, <3>1, <3>3 DEF IsFor
    <2> QED
      BY <1>1, <2>1, <2>2, <2>3
  <1> QED
    BY <1>2, <1>4, <1>5

\* The other breakpoints are still in the list.
LEMMA CutElements ==
    ASSUME TypeOK, NEW i \in 1..Len(brkptList), brkptList' = Unlinked(i)
    PROVE  \A j \in 1..Len(brkptList) \ {i} :
             \E k \in 1..Len(brkptList') : brkptList'[k] = brkptList[j]
  <1> TAKE j \in 1..Len(brkptList) \ {i}
  <1>1. PICK k \in 1..Len(Unlinked(i)) : From(i, k) = j
    BY UnlinkedFacts DEF TypeOK
  <1>2. Unlinked(i)[k] = brkptList[From(i, k)]
    BY UnlinkedFacts DEF TypeOK
  <1> QED
    BY <1>1, <1>2

\* The frame of a call whose end was told once more.
LEMMA ToldFrame ==
    ASSUME NEW x \in Frame
    PROVE  LET y == [x EXCEPT !.outs = @ + 1] IN
           /\ y \in Frame /\ y.slot = x.slot /\ y.fn = x.fn /\ y.site = x.site
           /\ y.outs = x.outs + 1 /\ y.ins = x.ins
  <1> DEFINE k == x.outs + 1
  <1>1. k \in Nat
    BY DEF Frame
  <1> HIDE DEF k
  <1>2. LET y == [x EXCEPT !.outs = k] IN
        /\ y \in Frame /\ y.slot = x.slot /\ y.fn = x.fn /\ y.site = x.site
        /\ y.outs = k /\ y.ins = x.ins
    BY <1>1 DEF Frame
  <1> QED
    BY <1>2 DEF k

\* A return is told: the thread gets home with the first breakpoint of the call,
\* and to the stub once more with a later one.
LEMMA ListShrinks ==
    ASSUME IInv, NEW t \in Thread, OnXBreakpointOut(t)
    PROVE  /\ ListInv' /\ ReturningOK' /\ pc'[t] \in {"run", "returning"}
           /\ pc' = [pc EXCEPT ![t] = pc'[t]]
           /\ brkptList' \in Seq(Breakpoint) /\ frames' \in [Thread -> Seq(Frame)]
           /\ pc'[t] = "returning" => frames'[t] # <<>>
           /\ \A u \in Thread \ {t} : frames'[u] = frames[u]
  <1> DEFINE n == Len(brkptList)
             D == Depth(t)
  <1>1. /\ pc[t] = "returning" /\ Alive(t) /\ info' = info
        /\ frames[t] \in Seq(Frame) /\ frames[t] # <<>> /\ pc \in [Thread -> {"new", "run",
              "entry", "hit", "stepped", "returning", "astray", "dead"}]
        /\ frames \in [Thread -> Seq(Frame)] /\ TypeOK /\ ListInv
    BY DEF IInv, TypeOK, PlaceOK, OnXBreakpointOut, Alive, ListInv
  <1>2. /\ D \in Nat /\ D >= 1 /\ Top(t) = frames[t][D] /\ Top(t) \in Frame
        /\ Pop(t) \in Seq(Frame) /\ Len(Pop(t)) = D - 1
        /\ \A d \in 1..D - 1 : Pop(t)[d] = frames[t][d]
    BY <1>1, PopFacts DEF Depth, Top, Pop
  <1>3. /\ Matching(t) # {}
        /\ \A i \in Matching(t) : (\A j \in Matching(t) : j <= i) =>
             /\ i \in 1..n /\ IsFor(i, t, D)
             /\ \A j \in 1..n : IsFor(j, t, D) => j <= i
    BY <1>1, LastMatch DEF IInv
  <1>4. PICK i \in Matching(t) : /\ \A j \in Matching(t) : j <= i
                                 /\ Resume(t, brkptList[i])
                                 /\ brkptList' = Unlinked(i)
    BY <1>3 DEF OnXBreakpointOut
  <1>5. /\ i \in 1..n /\ IsFor(i, t, D) /\ \A j \in 1..n : IsFor(j, t, D) => j <= i
    BY <1>3, <1>4
  <1> DEFINE b == brkptList[i]
             More == \E j \in 1..n : j < i /\ IsFor(j, t, D)
  <1>6. b.codePtr = Top(t).fn /\ b.origRetAddr = IF More THEN Top(t).fn ELSE Top(t).site
    <2>1. b.thread = t /\ b.depth = D
      BY <1>5 DEF IsFor
    <2>2. b.codePtr = frames[t][D].fn
      BY <1>1, <1>5, <2>1 DEF ListInv, OwnerOK
    <2>3. b.origRetAddr = IF \E j \in 1..n : j < i /\ IsFor(j, b.thread, b.depth)
                          THEN b.codePtr ELSE frames[b.thread][b.depth].site
      BY <1>1, <1>5, <2>1 DEF ListInv, ReturnOK
    <2> QED
      BY <1>2, <2>1, <2>2, <2>3
  <1>7. Top(t).fn \notin Site /\ Top(t).site \in Site /\ More \in BOOLEAN
    BY <1>2, BreakpointsAssumption DEF Frame
  <1>8. brkptList' \in Seq(Breakpoint)
    BY <1>1, <1>4, <1>5, UnlinkedFacts DEF TypeOK
  <1>9. \A k \in 1..n : /\ brkptList[k].thread \in Thread
                        /\ pc[brkptList[k].thread] # "dead" =>
                             brkptList[k].depth \in 1..Depth(brkptList[k].thread)
    BY <1>1, ElementTypes DEF Breakpoint, ListInv, OwnerOK
  <1>10. CASE More
    <2> DEFINE fr == [Top(t) EXCEPT !.outs = @ + 1]
    <2>1. /\ pc' = [pc EXCEPT ![t] = "returning"]
          /\ frames' = [frames EXCEPT ![t] = WithTop(t, fr)]
      BY <1>4, <1>6, <1>7, <1>10 DEF Resume, Goto
    <2>2. fr \in Frame /\ fr.slot = Top(t).slot /\ fr.fn = Top(t).fn /\ fr.site = Top(t).site
      BY <1>2, ToldFrame
    <2> HIDE DEF fr, More
    <2>3. /\ WithTop(t, fr) \in Seq(Frame) /\ Len(WithTop(t, fr)) = D
          /\ WithTop(t, fr)[D] = fr
          /\ \A d \in 1..D - 1 : WithTop(t, fr)[d] = frames[t][d]
      BY <1>1, <2>2, TopFacts DEF WithTop, Pop, Depth
    <2>4. /\ frames' \in [Thread -> Seq(Frame)] /\ frames'[t] = WithTop(t, fr)
          /\ \A u \in Thread \ {t} : frames'[u] = frames[u]
      BY <1>1, <2>1, <2>3
    <2>5. \A u \in Thread : Len(frames'[u]) = Depth(u)
      BY <2>3, <2>4 DEF Depth
    <2>6. \A u \in Thread : \A d \in 1..Len(frames'[u]) :
             /\ d \in 1..Depth(u)
             /\ frames'[u][d].fn = frames[u][d].fn
             /\ frames'[u][d].site = frames[u][d].site
             /\ frames'[u][d].slot = frames[u][d].slot
      BY <1>2, <2>2, <2>3, <2>4, <2>5
    <2>7. \A u \in Thread : (pc'[u] = "new" <=> pc[u] = "new")
                          /\ (pc'[u] = "dead" <=> pc[u] = "dead")
      BY <1>1, <2>1
    <2>8. \A k \in 1..n \ {i} : pc[brkptList[k].thread] # "dead" =>
             brkptList[k].depth \in 1..Len(frames'[brkptList[k].thread])
      BY <1>9, <2>5
    <2>9. ListInv'
      BY <1>1, <1>4, <1>5, <1>10, <2>6, <2>7, <2>8, ListCut DEF More
    <2>10. pc'[t] = "returning" /\ frames'[t] # <<>>
      <3>1. pc'[t] = "returning" /\ Len(frames'[t]) = D
        BY <1>1, <2>1, <2>5
      <3> QED
        BY <1>2, <2>4, <3>1, EmptySeq
    <2>11. ReturningOK'
      <3> SUFFICES ASSUME NEW u \in Thread, pc'[u] = "returning"
                   PROVE  \E k \in 1..Len(brkptList') : /\ brkptList'[k].thread = u
                                                        /\ brkptList'[k].depth = Depth(u)
        BY <2>5 DEF ReturningOK, Waits, IsFor, Depth
      <3>1. PICK j \in 1..n \ {i} : IsFor(j, u, Depth(u))
        <4>1. CASE u = t
          BY <1>10, <4>1 DEF More
        <4>2. CASE u # t
          <5>1. pc[u] = "returning"
            BY <1>1, <2>1, <4>2
          <5> QED
            BY <1>5, <4>2, <5>1 DEF IInv, ReturningOK, Waits, IsFor
        <4> QED
          BY <4>1, <4>2
      <3> QED
        <4>1. PICK k \in 1..Len(brkptList') : brkptList'[k] = brkptList[j]
          BY <1>1, <1>4, <1>5, CutElements
        <4> QED
          BY <3>1, <4>1 DEF IsFor
    <2> QED
      BY <1>1, <1>8, <2>1, <2>4, <2>9, <2>10, <2>11
  <1>11. CASE ~More
    <2>1. /\ pc' = [pc EXCEPT ![t] = "run"] /\ frames' = [frames EXCEPT ![t] = Pop(t)]
      BY <1>4, <1>6, <1>7, <1>11 DEF Resume, Goto
    <2> HIDE DEF More
    <2>2. /\ frames' \in [Thread -> Seq(Frame)] /\ frames'[t] = Pop(t)
          /\ \A u \in Thread \ {t} : frames'[u] = frames[u]
      BY <1>1, <1>2, <2>1
    <2>3. \A u \in Thread : Len(frames'[u]) = IF u = t THEN D - 1 ELSE Depth(u)
      BY <1>2, <2>2 DEF Depth
    <2>4. \A u \in Thread : \A d \in 1..Len(frames'[u]) :
             /\ d \in 1..Depth(u)
             /\ frames'[u][d].fn = frames[u][d].fn
             /\ frames'[u][d].site = frames[u][d].site
             /\ frames'[u][d].slot = frames[u][d].slot
      BY <1>2, <2>2, <2>3
    <2>5. \A u \in Thread : (pc'[u] = "new" <=> pc[u] = "new")
                          /\ (pc'[u] = "dead" <=> pc[u] = "dead")
      BY <1>1, <2>1
    <2>6. \A k \in 1..n \ {i} : ~IsFor(k, t, D)
      <3>1. n \in Nat
        BY <1>1, ElementTypes
      <3> QED
        BY <1>5, <1>11, <3>1 DEF More
    <2>7. \A k \in 1..n \ {i} : pc[brkptList[k].thread] # "dead" =>
             brkptList[k].depth \in 1..Len(frames'[brkptList[k].thread])
      <3> SUFFICES ASSUME NEW k \in 1..n \ {i}, pc[brkptList[k].thread] # "dead"
                   PROVE  brkptList[k].depth \in 1..Len(frames'[brkptList[k].thread])
        OBVIOUS
      <3>1. brkptList[k].depth \in 1..Depth(brkptList[k].thread)
        BY <1>9
      <3>2. brkptList[k].thread = t => brkptList[k].depth # D
        BY <2>6 DEF IsFor
      <3> QED
        BY <1>2, <1>9, <2>3, <3>1, <3>2
    <2>8. D \notin 1..Len(frames'[t])
      BY <1>2, <2>3
    <2>9. ListInv'
      BY <1>1, <1>4, <1>5, <2>4, <2>5, <2>7, <2>8, ListCut
    <2>10. ReturningOK'
      <3> SUFFICES ASSUME NEW u \in Thread, pc'[u] = "returning"
                   PROVE  \E k \in 1..Len(brkptList') : /\ brkptList'[k].thread = u
                                                        /\ brkptList'[k].depth = Len(frames'[u])
        BY DEF ReturningOK, Waits, IsFor, Depth
      <3>1. pc[u] = "returning" /\ u # t
        BY <1>1, <2>1
      <3>2. PICK j \in 1..n \ {i} : IsFor(j, u, Depth(u))
        BY <1>5, <3>1 DEF IInv, ReturningOK, Waits, IsFor
      <3>3. Len(frames'[u]) = Depth(u)
        BY <2>3, <3>1
      <3> QED
        <4>1. PICK k \in 1..Len(brkptList') : brkptList'[k] = brkptList[j]
          BY <1>1, <1>4, <1>5, CutElements
        <4> QED
          BY <3>2, <3>3, <4>1 DEF IsFor
    <2> QED
      BY <1>1, <1>8, <2>1, <2>2, <2>9, <2>10
  <1> QED
    BY <1>10, <1>11
-----------------------------------------------------------------------------
LEMMA InitHolds == Init => IInv
  <1> SUFFICES ASSUME Init PROVE IInv
    OBVIOUS
  <1>1. TypeOK
    BY BreakpointsAssumption DEF Init, TypeOK
  <1>2. /\ \A t \in Thread : frames[t] = <<>> /\ pc[t] = IF t = Main THEN "run" ELSE "new"
        /\ Len(brkptList) = 0 /\ \A t \in Thread : Len(frames[t]) = 0
    BY DEF Init
  <1>3. InfoOK
    BY <1>2, BreakpointsAssumption DEF Init, InfoOK, Alive
  <1>4. PlaceOK /\ StepOK /\ ReturningOK /\ ReturnsHome
    BY <1>2 DEF Init, PlaceOK, StepOK, ReturningOK, ReturnsHome, Alive
  <1>5. OwnerOK /\ OrderOK /\ ReturnOK /\ SlotOK
    BY <1>2 DEF OwnerOK, OrderOK, ReturnOK, SlotOK, Depth
  <1> QED
    BY <1>1, <1>3, <1>4, <1>5 DEF IInv

LEMMA CreateKeeps == ASSUME IInv, NEW t \in Thread, OnXCreateThread(t) PROVE IInv'
  <1>1. /\ pc[t] = "new" /\ pc' = [pc EXCEPT ![t] = "run"]
        /\ UNCHANGED <<brkptList, lastBrkpt, args, opcode, tf, frames, calls, met, cut>>
    BY DEF OnXCreateThread, Goto
  <1>2. PICK a \in Info : (\A u \in Thread : info[u] # a) /\ info' = [info EXCEPT ![t] = a]
    BY DEF OnXCreateThread
  <1>3. TypeOK'
    BY <1>1, <1>2 DEF IInv, TypeOK
  <1>4. InfoOK'
    BY <1>1, <1>2 DEF IInv, TypeOK, InfoOK, Alive
  <1>5. PlaceOK' /\ StepOK' /\ ReturningOK' /\ ReturnsHome'
    BY <1>1 DEF IInv, TypeOK, PlaceOK, StepOK, ReturningOK, Waits, IsFor, ReturnsHome, Alive, Top, Depth
  <1>6. ListInv'
    <2>1. TypeOK /\ ListInv
      BY DEF IInv, ListInv
    <2>2. \A u \in Thread : /\ pc'[u] = "new" => pc[u] = "new"
                            /\ pc[u] = "dead" => pc'[u] = "dead"
                            /\ pc'[u] = "dead" => pc[u] = "dead"
                            /\ pc[u] # "new" /\ pc'[u] # "dead" => info'[u] = info[u]
      BY <1>1, <1>2, <2>1 DEF TypeOK
    <2>3. \A i \in 1..Len(brkptList) : brkptList[i].thread \in Thread
      BY <2>1, ElementTypes DEF Breakpoint
    <2>4. \A i \in 1..Len(brkptList) : pc'[brkptList[i].thread] # "dead" =>
            brkptList[i].depth \in 1..Depth(brkptList[i].thread)
      <3> SUFFICES ASSUME NEW i \in 1..Len(brkptList), pc'[brkptList[i].thread] # "dead"
                   PROVE  brkptList[i].depth \in 1..Depth(brkptList[i].thread)
        OBVIOUS
      <3>1. pc[brkptList[i].thread] # "dead"
        BY <2>2, <2>3
      <3> QED
        BY <2>1, <3>1 DEF ListInv, OwnerOK
    <2>5. \A u \in Thread : \A d \in 1..Len(frames'[u]) :
            d \in 1..Depth(u) /\ frames'[u][d] = frames[u][d]
      BY <1>1 DEF Depth
    <2>6. \A i \in 1..Len(brkptList) : pc'[brkptList[i].thread] # "dead" =>
            brkptList[i].depth \in 1..Len(frames'[brkptList[i].thread])
      BY <1>1, <2>4 DEF Depth
    <2>7. brkptList' = brkptList
      BY <1>1
    <2> QED
      <3>1. \A u \in Thread :
              /\ pc'[u] = "new" => pc[u] = "new"
              /\ pc[u] = "dead" => pc'[u] = "dead"
              /\ pc[u] # "new" /\ pc'[u] # "dead" => info'[u] = info[u]
        BY <2>2
      <3>2. \A u \in Thread : \A d \in 1..Len(frames'[u]) :
              IF d \in 1..Depth(u) THEN frames'[u][d] = frames[u][d]
              ELSE pc[u] # "dead" /\ frames'[u][d].slot = frames'[u][d].site
        BY <2>5
      <3> QED
        BY ONLY <2>1, <2>6, <2>7, <3>1, <3>2, ListKept
  <1> QED
    BY <1>3, <1>4, <1>5, <1>6 DEF IInv, ListInv

LEMMA DeleteKeeps == ASSUME IInv, NEW t \in Thread, OnXDeleteThread(t) PROVE IInv'
  <1>1. /\ pc[t] \in {"run", "entry"} /\ pc' = [pc EXCEPT ![t] = "dead"]
        /\ frames' = [frames EXCEPT ![t] = <<>>] /\ info' = [info EXCEPT ![t] = None]
        /\ lastBrkpt' = [lastBrkpt EXCEPT ![t] = None]
        /\ args' = [args EXCEPT ![t] = 0] /\ tf' = [tf EXCEPT ![t] = FALSE]
        /\ UNCHANGED <<brkptList, opcode, calls, met>>
        /\ TypeOK /\ ListInv
    BY DEF OnXDeleteThread, Goto, IInv, ListInv
  <1>2. cut' \in [Fn -> BOOLEAN]
    BY DEF OnXDeleteThread, IInv, TypeOK
  <1>3. TypeOK'
    <2>1. /\ pc' \in [Thread -> {"new", "run", "entry", "hit", "stepped", "returning",
                               "astray", "dead"}]
          /\ info' \in [Thread -> Info \cup {None}]
          /\ lastBrkpt' \in [Thread -> Fn \cup {None}] /\ args' \in [Thread -> Nat]
      BY <1>1 DEF TypeOK
    <2>2. frames' \in [Thread -> Seq(Frame)]
      BY <1>1, EmptySeq DEF TypeOK
    <2>3. tf' \in [Thread -> BOOLEAN]
      BY <1>1, ZenonT(30) DEF TypeOK
    <2> QED
      BY <1>1, <1>2, <2>1, <2>2, <2>3, ZenonT(60) DEF TypeOK
  <1>4. InfoOK'
    BY <1>1, BreakpointsAssumption DEF IInv, TypeOK, InfoOK, Alive
  <1>5. PlaceOK' /\ StepOK' /\ ReturningOK' /\ ReturnsHome'
    <2>1. \A u \in Thread :
            IF u = t THEN pc'[u] = "dead" /\ frames'[u] = <<>> /\ ~tf'[u]
            ELSE /\ pc'[u] = pc[u] /\ frames'[u] = frames[u]
                 /\ tf'[u] = tf[u] /\ lastBrkpt'[u] = lastBrkpt[u]
      BY <1>1 DEF TypeOK
    <2>2. PlaceOK' /\ ReturnsHome'
      BY <2>1 DEF IInv, PlaceOK, ReturnsHome, Alive, Top, Depth
    <2>3. StepOK'
      BY <2>1 DEF IInv, StepOK, Top, Depth
    <2>4. ReturningOK'
      BY <1>1, <2>1 DEF IInv, ReturningOK, Waits, IsFor, Depth
    <2> QED
      BY <2>2, <2>3, <2>4
  <1>6. ListInv'
    <2>0. TypeOK /\ ListInv
      BY <1>1
    <2>1. \A u \in Thread : /\ pc'[u] = "new" => pc[u] = "new"
                            /\ pc[u] = "dead" => pc'[u] = "dead"
                            /\ pc'[u] # "dead" => u # t /\ pc[u] # "dead"
                            /\ pc[u] # "new" /\ pc'[u] # "dead" => info'[u] = info[u]
      BY <1>1 DEF TypeOK
    <2>2. \A u \in Thread : frames'[u] = IF u = t THEN <<>> ELSE frames[u]
      BY <1>1 DEF TypeOK
    <2>3. \A u \in Thread : \A d \in 1..Len(frames'[u]) :
            d \in 1..Depth(u) /\ frames'[u][d] = frames[u][d]
      BY <2>2, EmptySeq DEF Depth
    <2>4. \A i \in 1..Len(brkptList) : pc'[brkptList[i].thread] # "dead" =>
            brkptList[i].depth \in 1..Len(frames'[brkptList[i].thread])
      <3>1. \A i \in 1..Len(brkptList) : brkptList[i].thread \in Thread
        BY <1>1, ElementTypes DEF Breakpoint
      <3>2. \A i \in 1..Len(brkptList) : pc[brkptList[i].thread] # "dead" =>
              brkptList[i].depth \in 1..Depth(brkptList[i].thread)
        BY <2>0 DEF ListInv, OwnerOK
      <3> SUFFICES ASSUME NEW i \in 1..Len(brkptList), pc'[brkptList[i].thread] # "dead"
                   PROVE  brkptList[i].depth \in 1..Len(frames'[brkptList[i].thread])
        OBVIOUS
      <3>3. brkptList[i].thread # t /\ pc[brkptList[i].thread] # "dead"
        BY <2>1, <3>1
      <3> QED
        BY <2>2, <3>1, <3>2, <3>3 DEF Depth
    <2>5. brkptList' = brkptList
      BY <1>1
    <2> QED
      <3>1. \A u \in Thread :
              /\ pc'[u] = "new" => pc[u] = "new"
              /\ pc[u] = "dead" => pc'[u] = "dead"
              /\ pc[u] # "new" /\ pc'[u] # "dead" => info'[u] = info[u]
        BY <2>1
      <3>2. \A u \in Thread : \A d \in 1..Len(frames'[u]) :
              IF d \in 1..Depth(u) THEN frames'[u][d] = frames[u][d]
              ELSE pc[u] # "dead" /\ frames'[u][d].slot = frames'[u][d].site
        BY <2>3
      <3> QED
        BY ONLY <2>0, <2>4, <2>5, <3>1, <3>2, ListKept
  <1> QED
    BY <1>3, <1>4, <1>5, <1>6 DEF IInv, ListInv
\* Steps of a living thread that leave list, ThreadInfos and calls alone.
LEMMA QuietKeeps ==
    ASSUME IInv, NEW t \in Thread, NEW p, Alive(t), pc' = [pc EXCEPT ![t] = p],
           p \in {"run", "hit", "stepped", "returning"},
           UNCHANGED <<brkptList, info, frames, lastBrkpt>>,
           p \in {"hit", "stepped", "returning"} => frames[t] # <<>>,
           p = "stepped" => lastBrkpt[t] = Top(t).fn,
           p = "returning" => Waits(t, Depth(t))
    PROVE  /\ ListInv' /\ InfoOK' /\ PlaceOK' /\ ReturningOK' /\ ReturnsHome'
           /\ pc' \in [Thread -> {"new", "run", "entry", "hit", "stepped", "returning",
                                  "astray", "dead"}]
  <1>1. TypeOK /\ ListInv
    BY DEF IInv, ListInv
  <1>2. pc' \in [Thread -> {"new", "run", "entry", "hit", "stepped", "returning",
                            "astray", "dead"}]
    BY <1>1 DEF TypeOK
  <1>3. \A u \in Thread :
          /\ pc'[u] = IF u = t THEN p ELSE pc[u]
          /\ (pc'[u] = "new" <=> pc[u] = "new") /\ (pc'[u] = "dead" <=> pc[u] = "dead")
    BY <1>1 DEF TypeOK, Alive
  <1>4. InfoOK'
    BY <1>3 DEF IInv, InfoOK, Alive
  <1>5. PlaceOK'
    BY <1>3 DEF IInv, PlaceOK, Alive, Top, Depth
  <1>6. ReturningOK'
    <2> SUFFICES ASSUME NEW u \in Thread, pc'[u] = "returning"
                 PROVE  Waits(u, Len(frames[u]))
      BY DEF ReturningOK, Waits, IsFor, Depth
    <2> QED
      BY <1>3 DEF IInv, ReturningOK, Depth
  <1>7. ReturnsHome'
    BY <1>3 DEF IInv, ReturnsHome
  <1>8. ListInv'
    <2>1. \A i \in 1..Len(brkptList) : pc'[brkptList[i].thread] # "dead" =>
            brkptList[i].depth \in 1..Len(frames'[brkptList[i].thread])
      <3> SUFFICES ASSUME NEW i \in 1..Len(brkptList), pc'[brkptList[i].thread] # "dead"
                   PROVE  brkptList[i].depth \in 1..Len(frames[brkptList[i].thread])
        OBVIOUS
      <3>1. brkptList[i].thread \in Thread
        BY <1>1, ElementTypes DEF Breakpoint
      <3> QED
        BY <1>1, <1>3, <3>1 DEF ListInv, OwnerOK, Depth
    <2>2. \A u \in Thread :
            /\ pc'[u] = "new" => pc[u] = "new"
            /\ pc[u] = "dead" => pc'[u] = "dead"
            /\ pc[u] # "new" /\ pc'[u] # "dead" => info'[u] = info[u]
      BY <1>3
    <2>3. \A u \in Thread : \A d \in 1..Len(frames'[u]) :
            IF d \in 1..Depth(u) THEN frames'[u][d] = frames[u][d]
            ELSE pc[u] # "dead" /\ frames'[u][d].slot = frames'[u][d].site
      BY DEF Depth
    <2>4. brkptList' = brkptList
      OBVIOUS
    <2> QED
      BY ONLY <1>1, <2>1, <2>2, <2>3, <2>4, ListKept
  <1> QED
    BY <1>2, <1>4, <1>5, <1>6, <1>7, <1>8

LEMMA ExecuteKeeps == ASSUME IInv, NEW t \in Thread, Execute(t) PROVE IInv'
  <1>1. /\ pc[t] = "entry" /\ Alive(t) /\ frames[t] # <<>> /\ TypeOK /\ StepOK
        /\ UNCHANGED <<brkptList, info, frames, lastBrkpt, args, opcode, calls, met, cut>>
    BY DEF Execute, IInv, PlaceOK, Alive, debugger
  <1>2. CASE opcode[Top(t).fn] = "brk"
    <2>1. pc' = [pc EXCEPT ![t] = "hit"] /\ tf' = tf
      BY <1>2 DEF Execute, Goto
    <2>2. TypeOK'
      BY <1>1, <2>1 DEF TypeOK
    <2>3. StepOK'
      BY <1>1, <2>1 DEF TypeOK, StepOK, Top, Depth
    <2> QED
      BY <1>1, <2>1, <2>2, <2>3, QuietKeeps DEF IInv, ListInv
  <1>3. CASE opcode[Top(t).fn] # "brk"
    <2> DEFINE p == IF tf[t] THEN "stepped" ELSE "run"
    <2>1. pc' = [pc EXCEPT ![t] = p] /\ tf' = [tf EXCEPT ![t] = FALSE]
      BY <1>3 DEF Execute, Goto
    <2>2. p \in {"run", "stepped"} /\ (p = "stepped" => lastBrkpt[t] = Top(t).fn)
      BY <1>1 DEF StepOK
    <2> HIDE DEF p
    <2>3. /\ ListInv' /\ InfoOK' /\ PlaceOK' /\ ReturningOK' /\ ReturnsHome'
          /\ pc' \in [Thread -> {"new", "run", "entry", "hit", "stepped", "returning",
                                 "astray", "dead"}]
      BY <1>1, <2>1, <2>2, QuietKeeps
    <2>4. tf' \in [Thread -> BOOLEAN]
      BY <1>1, <2>1, ZenonT(30) DEF TypeOK
    <2>5. TypeOK'
      BY <1>1, <2>3, <2>4 DEF TypeOK
    <2>6. StepOK'
      BY <1>1, <2>1 DEF TypeOK, StepOK, Top, Depth
    <2> QED
      BY <2>3, <2>5, <2>6 DEF IInv, ListInv
  <1> QED
    BY <1>2, <1>3

LEMMA SingleStepKeeps == ASSUME IInv, NEW t \in Thread, OnXSingleStep(t) PROVE IInv'
  <1>1. /\ pc[t] = "stepped" /\ Alive(t) /\ TypeOK /\ StepOK
        /\ pc' = [pc EXCEPT ![t] = "run"]
        /\ UNCHANGED <<brkptList, info, frames, lastBrkpt, args, tf, calls, met, cut>>
    BY DEF OnXSingleStep, Goto, IInv, Alive, debugger
  <1>2. opcode' \in [Fn -> {"brk", "code"}]
    BY <1>1 DEF OnXSingleStep, TypeOK
  <1>3. /\ ListInv' /\ InfoOK' /\ PlaceOK' /\ ReturningOK' /\ ReturnsHome'
        /\ pc' \in [Thread -> {"new", "run", "entry", "hit", "stepped", "returning",
                               "astray", "dead"}]
    BY <1>1, QuietKeeps
  <1>4. TypeOK'
    BY <1>1, <1>2, <1>3 DEF TypeOK
  <1>5. StepOK'
    BY <1>1 DEF TypeOK, StepOK, Top, Depth
  <1> QED
    BY <1>3, <1>4, <1>5 DEF IInv, ListInv

LEMMA BreakpointInKeeps == ASSUME IInv, NEW t \in Thread, OnXBreakpointIn(t) PROVE IInv'
  <1>1. /\ pc[t] = "hit" /\ Alive(t) /\ frames[t] # <<>> /\ TypeOK /\ StepOK /\ ListInv
        /\ args' = [args EXCEPT ![t] = Depth(t)]
        /\ lastBrkpt' = [lastBrkpt EXCEPT ![t] = Top(t).fn]
        /\ opcode' = [opcode EXCEPT ![Top(t).fn] = "code"]
        /\ tf' = [tf EXCEPT ![t] = TRUE] /\ pc' = [pc EXCEPT ![t] = "entry"]
        /\ UNCHANGED <<info, calls, met, cut>>
    BY DEF OnXBreakpointIn, RestoreOpcode, Goto, IInv, PlaceOK, Alive, ListInv
  <1>2. /\ ListInv' /\ brkptList' \in Seq(Breakpoint) /\ frames' \in [Thread -> Seq(Frame)]
        /\ \A u \in Thread : Len(frames'[u]) = Len(frames[u])
        /\ frames'[t][Depth(t)].fn = Top(t).fn
        /\ \A u \in Thread \ {t} : frames'[u] = frames[u]
        /\ \A i \in 1..Len(brkptList) :
             i \in 1..Len(brkptList') /\ brkptList'[i] = brkptList[i]
    BY <1>1, ListGrows DEF IInv
  <1>3. Depth(t) \in Nat /\ Depth(t) >= 1 /\ Top(t).fn \in Fn
    <2>1. frames[t] \in Seq(Frame)
      BY <1>1 DEF TypeOK
    <2>2. Depth(t) \in Nat /\ Depth(t) >= 1 /\ Top(t) \in Frame
      BY <1>1, <2>1, PopFacts DEF Depth, Top
    <2> QED
      BY <2>2 DEF Frame
  <1>4. TypeOK'
    <2>1. /\ args' \in [Thread -> Nat] /\ lastBrkpt' \in [Thread -> Fn \cup {None}]
          /\ opcode' \in [Fn -> {"brk", "code"}]
          /\ pc' \in [Thread -> {"new", "run", "entry", "hit", "stepped", "returning",
                                 "astray", "dead"}]
      BY <1>1, <1>3 DEF TypeOK
    <2>2. tf' \in [Thread -> BOOLEAN]
      BY <1>1, ZenonT(30) DEF TypeOK
    <2> QED
      BY <1>1, <1>2, <2>1, <2>2 DEF TypeOK
  <1>5. \A u \in Thread : /\ pc'[u] = IF u = t THEN "entry" ELSE pc[u]
                          /\ Alive(u)' <=> Alive(u)
    BY <1>1 DEF TypeOK, Alive
  <1>6. InfoOK'
    BY <1>1, <1>5 DEF IInv, InfoOK
  <1>7. \A u \in Thread : frames'[u] = <<>> <=> frames[u] = <<>>
    BY <1>1, <1>2, <1>3, EmptySeq DEF TypeOK, Depth
  <1>8. PlaceOK' /\ ReturnsHome'
    BY <1>1, <1>2, <1>5, <1>7 DEF IInv, PlaceOK, ReturnsHome, TypeOK, Top, Depth
  <1>9. ReturningOK'
    <2> SUFFICES ASSUME NEW u \in Thread, pc'[u] = "returning"
                 PROVE  \E k \in 1..Len(brkptList') : /\ brkptList'[k].thread = u
                                                      /\ brkptList'[k].depth = Len(frames'[u])
      BY DEF ReturningOK, Waits, IsFor, Depth
    <2>1. pc[u] = "returning"
      BY <1>5
    <2>2. PICK i \in 1..Len(brkptList) : IsFor(i, u, Depth(u))
      BY <2>1 DEF IInv, ReturningOK, Waits
    <2> QED
      BY <1>2, <2>2 DEF IsFor, Depth
  <1>10. StepOK'
    BY <1>1, <1>2, <1>5 DEF TypeOK, StepOK, Top, Depth
  <1> QED
    BY <1>2, <1>4, <1>6, <1>8, <1>9, <1>10 DEF IInv, ListInv
LEMMA BreakpointOutKeeps == ASSUME IInv, NEW t \in Thread, OnXBreakpointOut(t) PROVE IInv'
  <1>1. /\ pc[t] = "returning" /\ Alive(t) /\ TypeOK /\ StepOK
        /\ UNCHANGED <<info, lastBrkpt, args, opcode, tf, calls, met, cut>>
    BY DEF OnXBreakpointOut, IInv, Alive
  <1>2. /\ ListInv' /\ ReturningOK' /\ pc'[t] \in {"run", "returning"}
        /\ pc' = [pc EXCEPT ![t] = pc'[t]]
        /\ brkptList' \in Seq(Breakpoint) /\ frames' \in [Thread -> Seq(Frame)]
        /\ pc'[t] = "returning" => frames'[t] # <<>>
        /\ \A u \in Thread \ {t} : frames'[u] = frames[u]
    BY ListShrinks
  <1> DEFINE p == pc'[t]
  <1>3. p \in {"run", "returning"} /\ pc' = [pc EXCEPT ![t] = p]
    BY <1>2
  <1>4. \A u \in Thread : /\ pc'[u] = IF u = t THEN p ELSE pc[u]
                          /\ Alive(u)' <=> Alive(u)
    BY <1>1, <1>3 DEF TypeOK, Alive
  <1>5. pc' \in [Thread -> {"new", "run", "entry", "hit", "stepped", "returning",
                            "astray", "dead"}]
    BY <1>1, <1>3 DEF TypeOK
  <1>6. TypeOK'
    BY <1>1, <1>2, <1>5 DEF TypeOK
  <1>7. InfoOK'
    BY <1>1, <1>4 DEF IInv, InfoOK
  <1>8. PlaceOK' /\ ReturnsHome'
    BY <1>1, <1>2, <1>3, <1>4 DEF IInv, PlaceOK, ReturnsHome, Top, Depth
  <1>9. StepOK'
    BY <1>1, <1>2, <1>3, <1>4 DEF StepOK, Top, Depth
  <1> QED
    BY <1>2, <1>6, <1>7, <1>8, <1>9 DEF IInv, ListInv

LEMMA CallKeeps ==
    ASSUME IInv, NEW t \in Thread, NEW f \in Fn, NEW s \in Site, Call(t, f, s)
    PROVE  IInv'
  <1> DEFINE fr == [fn |-> f, site |-> s, slot |-> s, ins |-> 0, outs |-> 0]
  <1>1. /\ pc[t] = "run" /\ Alive(t) /\ TypeOK /\ StepOK /\ ListInv
        /\ pc' = [pc EXCEPT ![t] = "entry"]
        /\ frames' = [frames EXCEPT ![t] = Append(frames[t], fr)]
        /\ UNCHANGED <<brkptList, info, lastBrkpt, args, opcode, tf, cut>>
    BY DEF Call, Goto, IInv, Alive, ListInv, debugger
  <1>2. calls' \in Nat /\ met' \in [Fn -> BOOLEAN]
    <2>1. calls' \in Nat
      BY <1>1 DEF Call, TypeOK
    <2>2. met' \in [Fn -> BOOLEAN]
      BY <1>1, ZenonT(30) DEF Call, TypeOK
    <2> QED
      BY <2>1, <2>2
  <1>3. fr \in Frame /\ fr.slot = fr.site
    BY DEF Frame, Addr
  <1> HIDE DEF fr
  <1>4. /\ Append(frames[t], fr) \in Seq(Frame) /\ Depth(t) \in Nat
        /\ Len(Append(frames[t], fr)) = Depth(t) + 1
        /\ Append(frames[t], fr)[Depth(t) + 1] = fr
        /\ \A d \in 1..Depth(t) : Append(frames[t], fr)[d] = frames[t][d]
    BY <1>1, <1>3, AppendFacts DEF TypeOK, Depth
  <1>5. /\ frames' \in [Thread -> Seq(Frame)] /\ frames'[t] = Append(frames[t], fr)
        /\ \A u \in Thread \ {t} : frames'[u] = frames[u]
    BY <1>1, <1>4 DEF TypeOK
  <1>6. \A u \in Thread : /\ pc'[u] = IF u = t THEN "entry" ELSE pc[u]
                          /\ Alive(u)' <=> Alive(u)
    BY <1>1 DEF TypeOK, Alive
  <1>7. TypeOK'
    <2>1. pc' \in [Thread -> {"new", "run", "entry", "hit", "stepped", "returning",
                              "astray", "dead"}]
      BY <1>1 DEF TypeOK
    <2> QED
      BY <1>1, <1>2, <1>5, <2>1 DEF TypeOK
  <1>8. InfoOK'
    BY <1>1, <1>6 DEF IInv, InfoOK
  <1>9. frames'[t] # <<>>
    <2>1. Len(frames'[t]) # 0
      BY <1>4, <1>5
    <2> QED
      BY <2>1, EmptySeq
  <1>10. PlaceOK' /\ ReturnsHome'
    BY <1>1, <1>5, <1>6, <1>9 DEF IInv, PlaceOK, ReturnsHome, Alive, Top, Depth
  <1>11. StepOK'
    BY <1>1, <1>5, <1>6 DEF StepOK, Top, Depth
  <1>12. ReturningOK'
    BY <1>1, <1>5, <1>6 DEF IInv, ReturningOK, Waits, IsFor, Depth
  <1>13. ListInv'
    <2>1. \A u \in Thread :
            /\ pc'[u] = "new" => pc[u] = "new"
            /\ pc[u] = "dead" => pc'[u] = "dead"
            /\ pc'[u] = "dead" => pc[u] = "dead"
            /\ pc[u] # "new" /\ pc'[u] # "dead" => info'[u] = info[u]
      BY <1>1, <1>6
    <2>2. \A u \in Thread : \A d \in 1..Len(frames'[u]) :
            IF d \in 1..Depth(u) THEN frames'[u][d] = frames[u][d]
            ELSE pc[u] # "dead" /\ frames'[u][d].slot = frames'[u][d].site
      <3> TAKE u \in Thread
      <3>1. CASE u = t
        BY <1>1, <1>3, <1>4, <1>5, <3>1 DEF Depth
      <3>2. CASE u # t
        BY <1>5, <3>2 DEF Depth
      <3> QED
        BY <3>1, <3>2
    <2>3. \A u \in Thread : \A d \in 1..Depth(u) : d \in 1..Len(frames'[u])
      <3> TAKE u \in Thread
      <3>1. CASE u = t
        BY <1>4, <1>5, <3>1
      <3>2. CASE u # t
        BY <1>5, <3>2 DEF Depth
      <3> QED
        BY <3>1, <3>2
    <2>4. \A i \in 1..Len(brkptList) : pc'[brkptList[i].thread] # "dead" =>
            brkptList[i].depth \in 1..Len(frames'[brkptList[i].thread])
      <3> SUFFICES ASSUME NEW i \in 1..Len(brkptList), pc'[brkptList[i].thread] # "dead"
                   PROVE  brkptList[i].depth \in 1..Len(frames'[brkptList[i].thread])
        OBVIOUS
      <3>1. brkptList[i].thread \in Thread
        BY <1>1, ElementTypes DEF Breakpoint
      <3>2. brkptList[i].depth \in 1..Depth(brkptList[i].thread)
        BY <1>1, <2>1, <3>1 DEF ListInv, OwnerOK
      <3> QED
        BY <2>3, <3>1, <3>2
    <2>5. \A u \in Thread :
            /\ pc'[u] = "new" => pc[u] = "new"
            /\ pc[u] = "dead" => pc'[u] = "dead"
            /\ pc[u] # "new" /\ pc'[u] # "dead" => info'[u] = info[u]
      BY <2>1
    <2>6. TypeOK /\ ListInv /\ brkptList' = brkptList
      BY <1>1
    <2> QED
      BY ONLY <2>2, <2>4, <2>5, <2>6, ListKept
  <1> QED
    BY <1>7, <1>8, <1>10, <1>11, <1>12, <1>13 DEF IInv, ListInv
LEMMA ReturnKeeps == ASSUME IInv, NEW t \in Thread, Return(t) PROVE IInv'
  <1>1. /\ pc[t] = "run" /\ Alive(t) /\ TypeOK /\ StepOK /\ ListInv
        /\ frames[t] \in Seq(Frame) /\ frames[t] # <<>>
        /\ UNCHANGED <<brkptList, info, lastBrkpt, args, opcode, tf, calls, met, cut>>
    BY DEF Return, IInv, Alive, ListInv, debugger, TypeOK
  <1>2. /\ Depth(t) \in Nat /\ Depth(t) >= 1 /\ Top(t) \in Frame
        /\ Pop(t) \in Seq(Frame) /\ Len(Pop(t)) = Depth(t) - 1
        /\ \A d \in 1..Depth(t) - 1 : Pop(t)[d] = frames[t][d]
    BY <1>1, PopFacts DEF Depth, Top, Pop
  <1>3. Top(t).slot = IF Waits(t, Depth(t)) THEN Top(t).fn ELSE Top(t).site
    BY <1>1, <1>2 DEF ListInv, SlotOK, Top
  <1>4. Top(t).fn \notin Site /\ Top(t).site \in Site
    BY <1>2, BreakpointsAssumption DEF Frame
  <1>5. CASE Top(t).slot \notin Site
    <2>1. pc' = [pc EXCEPT ![t] = "returning"] /\ frames' = frames
      BY <1>5 DEF Return, Goto
    <2>2. Waits(t, Depth(t))
      BY <1>3, <1>4, <1>5
    <2>3. /\ ListInv' /\ InfoOK' /\ PlaceOK' /\ ReturningOK' /\ ReturnsHome'
          /\ pc' \in [Thread -> {"new", "run", "entry", "hit", "stepped", "returning",
                                 "astray", "dead"}]
      BY <1>1, <2>1, <2>2, QuietKeeps
    <2>4. TypeOK'
      BY <1>1, <2>1, <2>3 DEF TypeOK
    <2>5. StepOK'
      BY <1>1, <2>1 DEF TypeOK, StepOK, Top, Depth
    <2> QED
      BY <2>3, <2>4, <2>5 DEF IInv, ListInv
  <1>6. CASE Top(t).slot \in Site
    <2>1. pc' = pc /\ frames' = [frames EXCEPT ![t] = Pop(t)]
      BY <1>6 DEF Return
    <2>2. ~Waits(t, Depth(t))
      BY <1>3, <1>4, <1>6
    <2>3. /\ frames' \in [Thread -> Seq(Frame)] /\ frames'[t] = Pop(t)
          /\ \A u \in Thread \ {t} : frames'[u] = frames[u]
      BY <1>1, <1>2, <2>1 DEF TypeOK
    <2>4. TypeOK'
      BY <1>1, <2>1, <2>3 DEF TypeOK
    <2>5. InfoOK'
      BY <1>1, <2>1 DEF IInv, InfoOK, Alive
    <2>6. PlaceOK' /\ ReturnsHome'
      BY <1>1, <2>1, <2>3 DEF IInv, PlaceOK, ReturnsHome, Alive, Top, Depth
    <2>7. StepOK'
      BY <1>1, <2>1, <2>3 DEF StepOK, Top, Depth
    <2>8. ReturningOK'
      BY <1>1, <2>1, <2>3 DEF IInv, ReturningOK, Waits, IsFor, Depth
    <2>9. ListInv'
      <3>1. \A u \in Thread :
              /\ pc'[u] = "new" => pc[u] = "new"
              /\ pc[u] = "dead" => pc'[u] = "dead"
              /\ pc[u] # "new" /\ pc'[u] # "dead" => info'[u] = info[u]
        BY <1>1, <2>1
      <3>2. \A u \in Thread : \A d \in 1..Len(frames'[u]) :
              IF d \in 1..Depth(u) THEN frames'[u][d] = frames[u][d]
              ELSE pc[u] # "dead" /\ frames'[u][d].slot = frames'[u][d].site
        <4> TAKE u \in Thread
        <4>1. CASE u = t
          BY <1>2, <2>3, <4>1
        <4>2. CASE u # t
          BY <2>3, <4>2 DEF Depth
        <4> QED
          BY <4>1, <4>2
      <3>3. \A i \in 1..Len(brkptList) : pc'[brkptList[i].thread] # "dead" =>
              brkptList[i].depth \in 1..Len(frames'[brkptList[i].thread])
        <4> SUFFICES ASSUME NEW i \in 1..Len(brkptList), pc[brkptList[i].thread] # "dead"
                     PROVE  brkptList[i].depth \in 1..Len(frames'[brkptList[i].thread])
          BY <2>1
        <4>1. brkptList[i].thread \in Thread
          BY <1>1, ElementTypes DEF Breakpoint
        <4>2. brkptList[i].depth \in 1..Depth(brkptList[i].thread)
          BY <1>1, <4>1 DEF ListInv, OwnerOK
        <4>3. brkptList[i].thread = t => brkptList[i].depth # Depth(t)
          BY <2>2 DEF Waits, IsFor
        <4>4. CASE brkptList[i].thread = t
          BY <1>2, <2>3, <4>2, <4>3, <4>4
        <4>5. CASE brkptList[i].thread # t
          BY <2>3, <4>1, <4>2, <4>5 DEF Depth
        <4> QED
          BY <4>4, <4>5
      <3>4. TypeOK /\ ListInv /\ brkptList' = brkptList
        BY <1>1
      <3> QED
        BY ONLY <3>1, <3>2, <3>3, <3>4, ListKept
    <2> QED
      BY <2>4, <2>5, <2>6, <2>7, <2>8, <2>9 DEF IInv, ListInv
  <1> QED
    BY <1>5, <1>6

LEMMA StutterKeeps == ASSUME IInv, UNCHANGED vars PROVE IInv'
  <1>1. /\ UNCHANGED <<brkptList, info, lastBrkpt, args, opcode, pc, tf, frames, calls, met, cut>>
        /\ TypeOK /\ InfoOK /\ PlaceOK /\ StepOK /\ OwnerOK /\ OrderOK /\ ReturnOK /\ SlotOK
        /\ ReturningOK /\ ReturnsHome
    BY DEF vars, debugger, IInv
  <1>2. TypeOK'
    BY <1>1 DEF TypeOK
  <1>3. InfoOK' /\ PlaceOK' /\ StepOK' /\ ReturnsHome'
    BY <1>1 DEF InfoOK, PlaceOK, StepOK, ReturnsHome, Alive, Top, Depth
  <1>4. OwnerOK' /\ OrderOK' /\ ReturnOK' /\ SlotOK' /\ ReturningOK'
    BY <1>1 DEF OwnerOK, OrderOK, ReturnOK, SlotOK, ReturningOK, Waits, IsFor, Depth
  <1> QED
    BY <1>2, <1>3, <1>4 DEF IInv

LEMMA Inductive == IInv /\ [Next]_vars => IInv'
  <1> SUFFICES ASSUME IInv, [Next]_vars PROVE IInv'
    OBVIOUS
  <1>1. ASSUME NEW t \in Thread, OnXCreateThread(t) PROVE IInv'
    BY <1>1, CreateKeeps
  <1>2. ASSUME NEW t \in Thread, OnXDeleteThread(t) PROVE IInv'
    BY <1>2, DeleteKeeps
  <1>3. ASSUME NEW t \in Thread, NEW f \in Fn, NEW s \in Site, Call(t, f, s) PROVE IInv'
    BY <1>3, CallKeeps
  <1>4. ASSUME NEW t \in Thread, Execute(t) PROVE IInv'
    BY <1>4, ExecuteKeeps
  <1>5. ASSUME NEW t \in Thread, Return(t) PROVE IInv'
    BY <1>5, ReturnKeeps
  <1>6. ASSUME NEW t \in Thread, OnXBreakpointIn(t) PROVE IInv'
    BY <1>6, BreakpointInKeeps
  <1>7. ASSUME NEW t \in Thread, OnXSingleStep(t) PROVE IInv'
    BY <1>7, SingleStepKeeps
  <1>8. ASSUME NEW t \in Thread, OnXBreakpointOut(t) PROVE IInv'
    BY <1>8, BreakpointOutKeeps
  <1>9. CASE UNCHANGED vars
    BY <1>9, StutterKeeps
  <1> QED
    BY <1>1, <1>2, <1>3, <1>4, <1>5, <1>6, <1>7, <1>8, <1>9 DEF Next, Event

\* Every variable keeps its type; above all, a breakpoint on a return is always
\* for some ThreadInfo, never for 0, which stands for all threads (OnXBreakpoint).
THEOREM TypeCorrect == Spec => []TypeOK
  <1>1. IInv => TypeOK
    BY DEF IInv
  <1> QED
    BY InitHolds, Inductive, <1>1, PTL DEF Spec

\* For any number of threads, functions, calls and ThreadInfo records: a thread
\* that returns to the stub goes on where its call came from (OnXBreakpoint).
THEOREM ThreadsReturnHome == Spec => []ReturnsHome
  <1>1. IInv => ReturnsHome
    BY DEF IInv
  <1> QED
    BY InitHolds, Inductive, <1>1, PTL DEF Spec
-----------------------------------------------------------------------------
\* A thread that does not move keeps the place it has.
LEMMA SteppingKept ==
    ASSUME NEW u, NEW f, Stepping(u, f), pc'[u] = pc[u], tf'[u] = tf[u], frames'[u] = frames[u]
    PROVE  Stepping(u, f)'
  BY DEF Stepping, AtEntry, Top, Depth

\* A function whose opcode is as it was, and a thread that is on the way over no
\* function it leaves in this step.
LEMMA RearmedKept ==
    ASSUME Rearmed, NEW t, opcode' = opcode, cut' = cut,
           \A u \in Thread \ {t} : pc'[u] = pc[u] /\ tf'[u] = tf[u] /\ frames'[u] = frames[u],
           \A f \in Fn : Stepping(t, f) => Stepping(t, f)'
    PROVE  Rearmed'
  <1> SUFFICES ASSUME NEW f \in Fn, opcode[f] # "brk", ~cut[f]
               PROVE  \E u \in Thread : Stepping(u, f)'
    BY DEF Rearmed
  <1>1. PICK u \in Thread : Stepping(u, f)
    BY DEF Rearmed
  <1> QED
    BY <1>1, SteppingKept

LEMMA RearmedStep == IInv /\ Rearmed /\ [Next]_vars => Rearmed'
  <1> SUFFICES ASSUME IInv, Rearmed, [Next]_vars PROVE Rearmed'
    OBVIOUS
  <1>0. TypeOK /\ PlaceOK /\ StepOK
    BY DEF IInv
  <1>1. ASSUME NEW t \in Thread, OnXCreateThread(t) PROVE Rearmed'
    <2>1. /\ pc[t] = "new" /\ opcode' = opcode /\ cut' = cut /\ tf' = tf /\ frames' = frames
          /\ \A u \in Thread \ {t} : pc'[u] = pc[u]
      BY <1>0, <1>1 DEF OnXCreateThread, Goto, TypeOK
    <2> QED
      BY <2>1, RearmedKept DEF Stepping, AtEntry
  <1>2. ASSUME NEW t \in Thread, OnXDeleteThread(t) PROVE Rearmed'
    <2>1. /\ pc[t] \in {"run", "entry"} /\ opcode' = opcode
          /\ \A u \in Thread \ {t} : pc'[u] = pc[u] /\ tf'[u] = tf[u] /\ frames'[u] = frames[u]
      BY <1>0, <1>2 DEF OnXDeleteThread, Goto, TypeOK
    <2>2. \A f \in Fn : cut'[f] <=> cut[f] \/ (AtEntry(t, f) /\ tf[t])
      BY <1>2 DEF OnXDeleteThread
    <2> SUFFICES ASSUME NEW f \in Fn, opcode[f] # "brk", ~cut'[f]
                 PROVE  \E u \in Thread : Stepping(u, f)'
      BY <2>1 DEF Rearmed
    <2>3. PICK u \in Thread : Stepping(u, f)
      BY <2>2 DEF Rearmed
    <2>4. u # t
      BY <2>1, <2>2, <2>3 DEF Stepping
    <2> QED
      BY <2>1, <2>3, <2>4, SteppingKept
  <1>3. ASSUME NEW t \in Thread, NEW f \in Fn, NEW s \in Site, Call(t, f, s) PROVE Rearmed'
    <2>1. /\ pc[t] = "run" /\ opcode' = opcode /\ cut' = cut /\ tf' = tf
          /\ \A u \in Thread \ {t} : pc'[u] = pc[u] /\ frames'[u] = frames[u]
      BY <1>0, <1>3 DEF Call, Goto, TypeOK
    <2> QED
      BY <2>1, RearmedKept DEF Stepping, AtEntry
  <1>4. ASSUME NEW t \in Thread, Execute(t) PROVE Rearmed'
    <2>1. /\ pc[t] = "entry" /\ opcode' = opcode /\ cut' = cut /\ frames' = frames
          /\ \A u \in Thread \ {t} : pc'[u] = pc[u] /\ tf'[u] = tf[u]
          /\ (pc'[t] = "hit" /\ tf'[t] = tf[t]) \/ (tf[t] => pc'[t] = "stepped")
      BY <1>0, <1>4 DEF Execute, Goto, TypeOK
    <2>2. \A f \in Fn : Stepping(t, f) => Stepping(t, f)'
      BY <2>1 DEF Stepping, AtEntry, Top, Depth
    <2> QED
      BY <2>1, <2>2, RearmedKept
  <1>5. ASSUME NEW t \in Thread, Return(t) PROVE Rearmed'
    <2>1. /\ pc[t] = "run" /\ opcode' = opcode /\ cut' = cut /\ tf' = tf
          /\ \A u \in Thread \ {t} : pc'[u] = pc[u] /\ frames'[u] = frames[u]
      BY <1>0, <1>5 DEF Return, Goto, TypeOK
    <2> QED
      BY <2>1, RearmedKept DEF Stepping, AtEntry
  <1>6. ASSUME NEW t \in Thread, OnXBreakpointIn(t) PROVE Rearmed'
    <2>1. /\ pc'[t] = "entry" /\ tf'[t] /\ cut' = cut /\ opcode' = [opcode EXCEPT ![Top(t).fn] = "code"]
          /\ \A u \in Thread \ {t} : pc'[u] = pc[u] /\ tf'[u] = tf[u]
      BY <1>0, <1>6 DEF OnXBreakpointIn, RestoreOpcode, Goto, TypeOK
    <2>2. /\ \A u \in Thread : Len(frames'[u]) = Len(frames[u])
          /\ frames'[t][Depth(t)].fn = Top(t).fn
          /\ \A u \in Thread \ {t} : frames'[u] = frames[u]
      BY <1>6, ListGrows DEF IInv, ListInv
    <2>3. \A f : f = Top(t).fn => Stepping(t, f)'
      BY <2>1, <2>2 DEF Stepping, AtEntry, Top, Depth
    <2> SUFFICES ASSUME NEW f \in Fn, opcode'[f] # "brk", ~cut[f]
                 PROVE  \E u \in Thread : Stepping(u, f)'
      BY <2>1 DEF Rearmed
    <2>4. CASE f = Top(t).fn
      BY <2>3, <2>4
    <2>5. CASE f # Top(t).fn
      <3>1. opcode[f] # "brk"
        BY <1>0, <2>1, <2>5 DEF TypeOK
      <3>2. PICK u \in Thread : Stepping(u, f)
        BY <3>1 DEF Rearmed
      <3>3. u # t
        BY <2>5, <3>2 DEF Stepping, AtEntry
      <3> QED
        BY <2>1, <2>2, <3>2, <3>3, SteppingKept
    <2> QED
      BY <2>4, <2>5
  <1>7. ASSUME NEW t \in Thread, OnXSingleStep(t) PROVE Rearmed'
    <2>1. /\ pc[t] = "stepped" /\ lastBrkpt[t] = Top(t).fn /\ cut' = cut /\ tf' = tf /\ frames' = frames
          /\ opcode' = [opcode EXCEPT ![Top(t).fn] = "brk"]
          /\ \A u \in Thread \ {t} : pc'[u] = pc[u]
      BY <1>0, <1>7 DEF OnXSingleStep, Goto, TypeOK, PlaceOK
    <2> SUFFICES ASSUME NEW f \in Fn, opcode'[f] # "brk", ~cut[f]
                 PROVE  \E u \in Thread : Stepping(u, f)'
      BY <2>1 DEF Rearmed
    <2>2. f # Top(t).fn /\ opcode[f] # "brk"
      BY <1>0, <2>1 DEF TypeOK
    <2>3. PICK u \in Thread : Stepping(u, f)
      BY <2>2 DEF Rearmed
    <2>4. u # t
      BY <2>2, <2>3 DEF Stepping, AtEntry
    <2> QED
      BY <2>1, <2>3, <2>4, SteppingKept
  <1>8. ASSUME NEW t \in Thread, OnXBreakpointOut(t) PROVE Rearmed'
    <2>1. /\ pc[t] = "returning" /\ opcode' = opcode /\ cut' = cut /\ tf' = tf
          /\ \A u \in Thread \ {t} : frames'[u] = frames[u] /\ pc'[u] = pc[u]
      BY <1>0, <1>8, ListShrinks DEF OnXBreakpointOut, TypeOK
    <2> QED
      BY <2>1, RearmedKept DEF Stepping, AtEntry
  <1>9. CASE UNCHANGED vars
    BY <1>9 DEF vars, debugger, Rearmed, Stepping, AtEntry, Top, Depth
  <1> QED
    BY <1>1, <1>2, <1>3, <1>4, <1>5, <1>6, <1>7, <1>8, <1>9 DEF Next, Event

\* A function is never left without its breakpoint: the opcode is original only
\* while some thread is on the way over it that will have it written again, or
\* since one was ended on that way (OnXBreakpoint, OnXSingleStep).
THEOREM BreakpointsAreRearmed == Spec => []Rearmed
  <1>1. Init => Rearmed
    BY DEF Init, Rearmed
  <1> QED
    BY InitHolds, Inductive, RearmedStep, <1>1, PTL DEF Spec
-----------------------------------------------------------------------------
(* The calls the debugger told of, counted.                                *)

\* The breakpoints on the return of call d of thread t: one more each time the
\* debugger sees the call begin, one less each time it sees it return.
Pending(t, d) == {i \in 1..Len(brkptList) : IsFor(i, t, d)}
PairsOK == \A t \in Thread : \A d \in 1..Depth(t) :
    frames[t][d].ins = frames[t][d].outs + Cardinality(Pending(t, d))

\* What a handler does to the call its thread is in.
LEMMA SeenCall ==
    ASSUME IInv, NEW t \in Thread, OnXBreakpointIn(t)
    PROVE  LET D == Depth(t) IN
           /\ D \in Nat /\ D >= 1 /\ Len(frames'[t]) = D
           /\ \A u \in Thread \ {t} : frames'[u] = frames[u]
           /\ \A d \in 1..D - 1 : frames'[t][d] = frames[t][d]
           /\ frames'[t][D].fn = Top(t).fn /\ frames'[t][D].outs = Top(t).outs
           /\ frames'[t][D].ins = Top(t).ins + 1 /\ Top(t) \in Frame
           /\ \E b \in Breakpoint : b.thread = t /\ b.depth = D /\ brkptList' = Append(brkptList, b)
  <1> DEFINE D == Depth(t)
             fr == [Top(t) EXCEPT !.slot = Top(t).fn, !.ins = @ + 1]
             e == [codePtr |-> Top(t).fn, threadInfo |-> info[t],
                   origRetAddr |-> Top(t).slot, thread |-> t, depth |-> D]
  <1>1. /\ TypeOK /\ pc[t] = "hit" /\ Alive(t) /\ info[t] \in Info
        /\ frames[t] \in Seq(Frame) /\ frames[t] # <<>>
        /\ frames' = [frames EXCEPT ![t] = WithTop(t, fr)]
        /\ brkptList' = Append(brkptList, e)
    BY DEF IInv, TypeOK, InfoOK, PlaceOK, OnXBreakpointIn, ReturnBreakpoint, Goto, Alive
  <1>2. D \in Nat /\ D >= 1 /\ Top(t) \in Frame
    BY <1>1, PopFacts DEF Depth, Top
  <1>3. fr \in Frame /\ fr.fn = Top(t).fn /\ fr.ins = Top(t).ins + 1 /\ fr.outs = Top(t).outs
    BY <1>2, SeenFrame
  <1> HIDE DEF fr
  <1>4. /\ WithTop(t, fr) \in Seq(Frame) /\ Len(WithTop(t, fr)) = D
        /\ WithTop(t, fr)[D] = fr
        /\ \A d \in 1..D - 1 : WithTop(t, fr)[d] = frames[t][d]
    BY <1>1, <1>3, TopFacts DEF WithTop, Pop, Depth
  <1>5. e \in Breakpoint /\ e.thread = t /\ e.depth = D
    BY <1>1, <1>2 DEF Breakpoint, Frame, Addr
  <1> HIDE DEF e
  <1>6. frames'[t] = WithTop(t, fr) /\ \A u \in Thread \ {t} : frames'[u] = frames[u]
    BY <1>1, <1>4 DEF TypeOK
  <1> QED
    BY <1>1, <1>2, <1>3, <1>4, <1>5, <1>6

LEMMA ToldCall ==
    ASSUME IInv, NEW t \in Thread, OnXBreakpointOut(t)
    PROVE  LET D == Depth(t) IN
           /\ D \in Nat /\ D >= 1 /\ Top(t) \in Frame /\ pc[t] = "returning"
           /\ \A u \in Thread \ {t} : frames'[u] = frames[u]
           /\ \A d \in 1..D - 1 : frames'[t][d] = frames[t][d]
           /\ \E i \in Pending(t, D) : /\ brkptList' = Unlinked(i)
                                       /\ Len(frames'[t]) = D - 1 => Pending(t, D) = {i}
           /\ \/ Len(frames'[t]) = D - 1
              \/ /\ Len(frames'[t]) = D /\ frames'[t][D].fn = Top(t).fn
                 /\ frames'[t][D].ins = Top(t).ins /\ frames'[t][D].outs = Top(t).outs + 1
  <1> DEFINE n == Len(brkptList)
             D == Depth(t)
  <1>1. /\ pc[t] = "returning" /\ frames[t] \in Seq(Frame) /\ frames[t] # <<>>
        /\ frames \in [Thread -> Seq(Frame)] /\ TypeOK /\ ListInv
    BY DEF IInv, TypeOK, PlaceOK, OnXBreakpointOut, ListInv
  <1>2. /\ D \in Nat /\ D >= 1 /\ Top(t) = frames[t][D] /\ Top(t) \in Frame
        /\ Pop(t) \in Seq(Frame) /\ Len(Pop(t)) = D - 1
        /\ \A d \in 1..D - 1 : Pop(t)[d] = frames[t][d]
    BY <1>1, PopFacts DEF Depth, Top, Pop
  <1>3. /\ Matching(t) # {}
        /\ \A i \in Matching(t) : (\A j \in Matching(t) : j <= i) =>
             /\ i \in 1..n /\ IsFor(i, t, D)
             /\ \A j \in 1..n : IsFor(j, t, D) => j <= i
    BY <1>1, LastMatch DEF IInv
  <1>4. PICK i \in Matching(t) : /\ \A j \in Matching(t) : j <= i
                                 /\ Resume(t, brkptList[i])
                                 /\ brkptList' = Unlinked(i)
    BY <1>3 DEF OnXBreakpointOut
  <1>5. /\ i \in 1..n /\ IsFor(i, t, D) /\ \A j \in 1..n : IsFor(j, t, D) => j <= i
    BY <1>3, <1>4
  <1> DEFINE b == brkptList[i]
             More == \E j \in 1..n : j < i /\ IsFor(j, t, D)
  <1>6. b.origRetAddr = IF More THEN Top(t).fn ELSE Top(t).site
    <2>1. b.thread = t /\ b.depth = D
      BY <1>5 DEF IsFor
    <2>2. b.codePtr = frames[t][D].fn
      BY <1>1, <1>5, <2>1 DEF ListInv, OwnerOK
    <2>3. b.origRetAddr = IF \E j \in 1..n : j < i /\ IsFor(j, b.thread, b.depth)
                          THEN b.codePtr ELSE frames[b.thread][b.depth].site
      BY <1>1, <1>5, <2>1 DEF ListInv, ReturnOK
    <2> QED
      BY <1>2, <2>1, <2>2, <2>3
  <1>7. Top(t).fn \notin Site /\ Top(t).site \in Site /\ More \in BOOLEAN /\ n \in Nat
    BY <1>1, <1>2, ElementTypes, BreakpointsAssumption DEF Frame
  <1>8. i \in Pending(t, D)
    BY <1>5 DEF Pending
  <1>9. CASE More
    <2> DEFINE fr == [Top(t) EXCEPT !.outs = @ + 1]
    <2>1. frames' = [frames EXCEPT ![t] = WithTop(t, fr)]
      BY <1>4, <1>6, <1>7, <1>9 DEF Resume
    <2>2. fr \in Frame /\ fr.fn = Top(t).fn /\ fr.ins = Top(t).ins /\ fr.outs = Top(t).outs + 1
      BY <1>2, ToldFrame
    <2> HIDE DEF fr, More
    <2>3. /\ WithTop(t, fr) \in Seq(Frame) /\ Len(WithTop(t, fr)) = D
          /\ WithTop(t, fr)[D] = fr
          /\ \A d \in 1..D - 1 : WithTop(t, fr)[d] = frames[t][d]
      BY <1>1, <2>2, TopFacts DEF WithTop, Pop, Depth
    <2>4. /\ frames'[t] = WithTop(t, fr)
          /\ \A u \in Thread \ {t} : frames'[u] = frames[u]
      BY <1>1, <2>1
    <2>5. D # D - 1
      BY <1>2
    <2> QED
      BY <1>1, <1>2, <1>4, <1>8, <2>2, <2>3, <2>4, <2>5
  <1>10. CASE ~More
    <2>1. frames' = [frames EXCEPT ![t] = Pop(t)]
      BY <1>4, <1>6, <1>7, <1>10 DEF Resume
    <2>2. frames'[t] = Pop(t) /\ \A u \in Thread \ {t} : frames'[u] = frames[u]
      BY <1>1, <2>1
    <2>3. \A j \in 1..n : IsFor(j, t, D) => j = i
      BY <1>5, <1>7, <1>10
    <2>4. Pending(t, D) = {i}
      BY <1>8, <2>3 DEF Pending
    <2> QED
      BY <1>1, <1>2, <1>4, <1>8, <2>2, <2>4
  <1> QED
    BY <1>9, <1>10

LEMMA ReturnCall ==
    ASSUME IInv, NEW t \in Thread, Return(t)
    PROVE  LET D == Depth(t) IN
           /\ D \in Nat /\ D >= 1 /\ Top(t) \in Frame /\ pc[t] = "run"
           /\ \A u \in Thread \ {t} : frames'[u] = frames[u]
           /\ \/ frames' = frames
              \/ /\ Pending(t, D) = {} /\ Len(frames'[t]) = D - 1
                 /\ \A d \in 1..D - 1 : frames'[t][d] = frames[t][d]
  <1>1. /\ pc[t] = "run" /\ TypeOK /\ ListInv /\ frames \in [Thread -> Seq(Frame)]
        /\ frames[t] \in Seq(Frame) /\ frames[t] # <<>>
    BY DEF Return, IInv, ListInv, TypeOK
  <1>2. /\ Depth(t) \in Nat /\ Depth(t) >= 1 /\ Top(t) \in Frame
        /\ Pop(t) \in Seq(Frame) /\ Len(Pop(t)) = Depth(t) - 1
        /\ \A d \in 1..Depth(t) - 1 : Pop(t)[d] = frames[t][d]
    BY <1>1, PopFacts DEF Depth, Top, Pop
  <1>3. Top(t).slot = IF Waits(t, Depth(t)) THEN Top(t).fn ELSE Top(t).site
    BY <1>1, <1>2 DEF ListInv, SlotOK, Top
  <1>4. Top(t).fn \notin Site
    BY <1>2, BreakpointsAssumption DEF Frame
  <1>5. CASE Top(t).slot \notin Site
    BY <1>1, <1>2, <1>5 DEF Return
  <1>6. CASE Top(t).slot \in Site
    <2>1. frames' = [frames EXCEPT ![t] = Pop(t)]
      BY <1>6 DEF Return
    <2>2. Pending(t, Depth(t)) = {}
      BY <1>3, <1>4, <1>6 DEF Waits, Pending
    <2>3. frames'[t] = Pop(t) /\ \A u \in Thread \ {t} : frames'[u] = frames[u]
      BY <1>1, <2>1
    <2> QED
      BY <1>1, <1>2, <2>2, <2>3
  <1> QED
    BY <1>5, <1>6

\* How many breakpoints a call has after one was added, and after one was taken out.
LEMMA PendingFinite ==
    ASSUME brkptList \in Seq(Breakpoint), NEW t, NEW d
    PROVE  IsFiniteSet(Pending(t, d)) /\ Cardinality(Pending(t, d)) \in Nat
  <1>1. Len(brkptList) \in Nat /\ Pending(t, d) \subseteq 1..Len(brkptList)
    BY DEF Pending
  <1>2. IsFiniteSet(1..Len(brkptList))
    BY <1>1, FS_Interval
  <1> QED
    BY <1>1, <1>2, FS_Subset, FS_CardinalityType

LEMMA OneMorePending ==
    ASSUME brkptList \in Seq(Breakpoint), NEW b \in Breakpoint,
           brkptList' = Append(brkptList, b), NEW t, NEW d
    PROVE  Cardinality(Pending(t, d)') = IF b.thread = t /\ b.depth = d
                                         THEN Cardinality(Pending(t, d)) + 1
                                         ELSE Cardinality(Pending(t, d))
  <1> DEFINE n == Len(brkptList)
  <1>1. /\ n \in Nat /\ Len(brkptList') = n + 1 /\ brkptList'[n + 1] = b
        /\ \A i \in 1..n : brkptList'[i] = brkptList[i]
    BY AppendFacts
  <1>2. Pending(t, d)' = IF b.thread = t /\ b.depth = d THEN Pending(t, d) \cup {n + 1}
                         ELSE Pending(t, d)
    <2>1. \A i : i \in 1..n + 1 <=> i \in 1..n \/ i = n + 1
      BY <1>1
    <2>2. \A i : i \in Pending(t, d)' <=> \/ i \in Pending(t, d)
                                          \/ i = n + 1 /\ b.thread = t /\ b.depth = d
      BY <1>1, <2>1 DEF Pending, IsFor
    <2> QED
      BY <2>2
  <1>3. n + 1 \notin Pending(t, d)
    BY <1>1 DEF Pending
  <1> QED
    BY <1>2, <1>3, PendingFinite, FS_AddElement

LEMMA OneLessPending ==
    ASSUME brkptList \in Seq(Breakpoint), NEW i \in 1..Len(brkptList),
           brkptList' = Unlinked(i), NEW t, NEW d
    PROVE  Cardinality(Pending(t, d)') = IF i \in Pending(t, d)
                                         THEN Cardinality(Pending(t, d)) - 1
                                         ELSE Cardinality(Pending(t, d))
  <1> DEFINE S == Pending(t, d) \ {i}
             T == Pending(t, d)'
             f == [k \in T |-> From(i, k)]
  <1>1. /\ brkptList' \in Seq(Breakpoint) /\ Len(brkptList') \in Nat
        /\ \A j \in 1..Len(brkptList') :
             /\ From(i, j) \in 1..Len(brkptList) \ {i}
             /\ brkptList'[j] = brkptList[From(i, j)]
        /\ \A j \in 1..Len(brkptList) \ {i} :
             \E k \in 1..Len(brkptList') : From(i, k) = j
        /\ \A j, k \in 1..Len(brkptList') : j < k <=> From(i, j) < From(i, k)
    <2> DEFINE U == Unlinked(i)
    <2>1. /\ U \in Seq(Breakpoint)
          /\ \A j \in 1..Len(U) : /\ From(i, j) \in 1..Len(brkptList) \ {i}
                                   /\ U[j] = brkptList[From(i, j)]
          /\ \A j \in 1..Len(brkptList) \ {i} : \E k \in 1..Len(U) : From(i, k) = j
          /\ \A j, k \in 1..Len(U) : j < k <=> From(i, j) < From(i, k)
      BY UnlinkedFacts
    <2>2. brkptList' = U
      OBVIOUS
    <2> HIDE DEF U
    <2> QED
      BY <2>1, <2>2
  <1>2. \A k \in T : k \in 1..Len(brkptList') /\ f[k] \in S /\ f[k] = From(i, k)
    BY <1>1 DEF Pending, IsFor
  <1>3. \A j \in S : \E k \in T : f[k] = j
    <2> TAKE j \in S
    <2>1. j \in 1..Len(brkptList) \ {i} /\ IsFor(j, t, d)
      BY DEF Pending
    <2>2. PICK k \in 1..Len(brkptList') : From(i, k) = j
      BY <1>1, <2>1
    <2>3. k \in T
      BY <1>1, <2>1, <2>2 DEF Pending, IsFor
    <2> QED
      BY <2>2, <2>3
  <1>4. \A j, k \in T : f[j] = f[k] => j = k
    <2> TAKE j, k \in T
    <2>1. HAVE f[j] = f[k]
    <2>2. j \in Nat /\ k \in Nat /\ f[j] \in Int
      BY <1>2, <1>1 DEF Pending
    <2>3. ~(j < k) /\ ~(k < j)
      BY <1>1, <1>2, <2>1, <2>2
    <2> QED
      BY <2>2, <2>3
  <1>5. f \in Bijection(T, S)
    <2>1. f \in [T -> S]
      BY <1>2
    <2> HIDE DEF S, T, f
    <2> QED
      BY <1>3, <1>4, <2>1 DEF Bijection, Injection, Surjection, IsInjective
  <1>6. IsFiniteSet(T) /\ Cardinality(S) = Cardinality(T)
    <2>1. IsFiniteSet(T)
      <3>1. T \subseteq 1..Len(brkptList') /\ IsFiniteSet(1..Len(brkptList'))
        BY <1>1, FS_Interval DEF Pending
      <3> QED
        BY <3>1, FS_Subset
    <2>2. ExistsBijection(T, S)
      BY <1>5 DEF ExistsBijection
    <2> HIDE DEF S, T
    <2> QED
      BY <2>1, <2>2, FS_Bijection
  <1> QED
    BY <1>6, PendingFinite, FS_RemoveElement

\* A step that leaves the list alone, and the calls that are still there.
LEMMA PairsKept ==
    ASSUME PairsOK, brkptList' = brkptList,
           NEW f, f = frames',
           \A u \in Thread : \A d \in 1..Len(f[u]) :
               \/ /\ d \in 1..Depth(u) /\ f[u][d].ins = frames[u][d].ins
                  /\ f[u][d].outs = frames[u][d].outs
               \/ /\ f[u][d].ins = 0 /\ f[u][d].outs = 0 /\ Pending(u, d) = {}
    PROVE  PairsOK'
  <1>1. \A u, d : Pending(u, d)' = Pending(u, d)
    BY DEF Pending, IsFor
  <1> SUFFICES ASSUME NEW u \in Thread, NEW d \in 1..Len(f[u])
               PROVE  f[u][d].ins = f[u][d].outs + Cardinality(Pending(u, d))
    BY <1>1 DEF PairsOK, Depth
  <1>2. CASE f[u][d].ins = 0 /\ f[u][d].outs = 0 /\ Pending(u, d) = {}
    BY <1>2, FS_EmptySet
  <1>3. CASE /\ d \in 1..Depth(u) /\ f[u][d].ins = frames[u][d].ins
             /\ f[u][d].outs = frames[u][d].outs
    BY <1>3 DEF PairsOK
  <1> QED
    BY <1>2, <1>3

LEMMA PairsStep == IInv /\ PairsOK /\ [Next]_vars => PairsOK'
  <1> SUFFICES ASSUME IInv, PairsOK, [Next]_vars PROVE PairsOK'
    OBVIOUS
  <1>0. /\ TypeOK /\ ListInv /\ brkptList \in Seq(Breakpoint)
        /\ \A u \in Thread : /\ frames[u] \in Seq(Frame) /\ Depth(u) \in Nat
                             /\ \A d \in 1..Depth(u) : frames[u][d] \in Frame
    BY DEF IInv, TypeOK, ListInv, Depth
  <1>1. CASE UNCHANGED frames /\ UNCHANGED brkptList
    BY <1>1, PairsKept DEF Depth
  <1>2. ASSUME NEW t \in Thread, OnXCreateThread(t) \/ OnXSingleStep(t) \/ Execute(t)
        PROVE  PairsOK'
    BY <1>1, <1>2 DEF OnXCreateThread, OnXSingleStep, Execute, debugger
  <1>3. ASSUME NEW t \in Thread, OnXDeleteThread(t) PROVE PairsOK'
    <2>1. \A u \in Thread : frames'[u] = IF u = t THEN <<>> ELSE frames[u]
      BY <1>3 DEF OnXDeleteThread, IInv, TypeOK
    <2>2. \A u \in Thread : \A d \in 1..Len(frames'[u]) :
            d \in 1..Depth(u) /\ frames'[u][d] = frames[u][d]
      BY <2>1 DEF Depth
    <2>3. brkptList' = brkptList
      BY <1>3 DEF OnXDeleteThread
    <2> QED
      BY <2>2, <2>3, PairsKept
  <1>4. ASSUME NEW t \in Thread, NEW f \in Fn, NEW s \in Site, Call(t, f, s) PROVE PairsOK'
    <2> DEFINE fr == [fn |-> f, site |-> s, slot |-> s, ins |-> 0, outs |-> 0]
    <2>1. /\ pc[t] = "run" /\ brkptList' = brkptList
          /\ frames'[t] = Append(frames[t], fr) /\ \A u \in Thread \ {t} : frames'[u] = frames[u]
      BY <1>4 DEF Call, debugger, IInv, TypeOK
    <2>2. fr.ins = 0 /\ fr.outs = 0
      OBVIOUS
    <2> HIDE DEF fr
    <2>3. /\ Len(frames'[t]) = Depth(t) + 1 /\ frames'[t][Depth(t) + 1] = fr
          /\ \A d \in 1..Depth(t) : frames'[t][d] = frames[t][d]
      BY <1>0, <2>1 DEF Depth
    <2>4. Pending(t, Depth(t) + 1) = {}
      <3>1. \A i \in 1..Len(brkptList) : brkptList[i].thread = t => brkptList[i].depth \in 1..Depth(t)
        BY <1>0, <2>1 DEF ListInv, OwnerOK
      <3>2. Depth(t) + 1 \notin 1..Depth(t)
        BY <1>0
      <3> QED
        BY <3>1, <3>2 DEF Pending, IsFor
    <2>5. ASSUME NEW u \in Thread, NEW d \in 1..Len(frames'[u])
          PROVE  \/ d \in 1..Depth(u) /\ frames'[u][d] = frames[u][d]
                 \/ frames'[u][d] = fr /\ Pending(u, d) = {}
      <3>1. CASE u # t
        BY <2>1, <3>1 DEF Depth
      <3>2. CASE u = t
        BY <1>0, <2>3, <2>4, <3>2
      <3> QED
        BY <3>1, <3>2
    <2> QED
      BY <2>1, <2>2, <2>5, PairsKept
  <1>5. ASSUME NEW t \in Thread, Return(t) PROVE PairsOK'
    <2>1. brkptList' = brkptList
      BY <1>5 DEF Return, debugger
    <2>2. ASSUME NEW u \in Thread, NEW d \in 1..Len(frames'[u])
          PROVE  d \in 1..Depth(u) /\ frames'[u][d] = frames[u][d]
      <3>1. CASE frames'[u] = frames[u]
        BY <3>1 DEF Depth
      <3>2. CASE frames'[u] # frames[u]
        BY <1>0, <1>5, <3>2, ReturnCall
      <3> QED
        BY <3>1, <3>2
    <2> QED
      BY <2>1, <2>2, PairsKept
  <1>6. ASSUME NEW t \in Thread, OnXBreakpointIn(t) PROVE PairsOK'
    <2> DEFINE D == Depth(t)
    <2>1. /\ D \in Nat /\ D >= 1 /\ Len(frames'[t]) = D
          /\ \A u \in Thread \ {t} : frames'[u] = frames[u]
          /\ \A d \in 1..D - 1 : frames'[t][d] = frames[t][d]
          /\ frames'[t][D].outs = Top(t).outs
          /\ frames'[t][D].ins = Top(t).ins + 1 /\ Top(t) \in Frame
      BY <1>6, SeenCall
    <2>2. PICK b \in Breakpoint : b.thread = t /\ b.depth = D /\ brkptList' = Append(brkptList, b)
      BY <1>6, SeenCall
    <2> SUFFICES ASSUME NEW u \in Thread, NEW d \in 1..Len(frames'[u])
                 PROVE  frames'[u][d].ins = frames'[u][d].outs + Cardinality(Pending(u, d)')
      BY DEF PairsOK, Depth
    <2>3. d \in 1..Depth(u) /\ frames[u][d].ins = frames[u][d].outs + Cardinality(Pending(u, d))
      BY <2>1 DEF PairsOK, Depth
    <2>4. Cardinality(Pending(u, d)') = IF u = t /\ d = D THEN Cardinality(Pending(u, d)) + 1
                                        ELSE Cardinality(Pending(u, d))
      BY <1>0, <2>2, OneMorePending
    <2>5. CASE u = t /\ d = D
      <3>1. Cardinality(Pending(u, d)) \in Nat /\ Top(t).outs \in Nat /\ Top(t) = frames[t][D]
        BY <1>0, <2>1, PendingFinite DEF Frame, Top
      <3> QED
        BY <2>1, <2>3, <2>4, <2>5, <3>1
    <2>6. CASE ~(u = t /\ d = D)
      <3>1. frames'[u][d] = frames[u][d]
        BY <2>1, <2>6
      <3> QED
        BY <2>3, <2>4, <2>6, <3>1
    <2> QED
      BY <2>5, <2>6
  <1>7. ASSUME NEW t \in Thread, OnXBreakpointOut(t) PROVE PairsOK'
    <2> DEFINE D == Depth(t)
    <2>1. /\ D \in Nat /\ D >= 1 /\ Top(t) \in Frame
          /\ \A u \in Thread \ {t} : frames'[u] = frames[u]
          /\ \A d \in 1..D - 1 : frames'[t][d] = frames[t][d]
          /\ \/ Len(frames'[t]) = D - 1
             \/ /\ Len(frames'[t]) = D
                /\ frames'[t][D].ins = Top(t).ins /\ frames'[t][D].outs = Top(t).outs + 1
      BY <1>7, ToldCall
    <2>2. PICK i \in Pending(t, D) : brkptList' = Unlinked(i)
      BY <1>7, ToldCall
    <2> SUFFICES ASSUME NEW u \in Thread, NEW d \in 1..Len(frames'[u])
                 PROVE  frames'[u][d].ins = frames'[u][d].outs + Cardinality(Pending(u, d)')
      BY DEF PairsOK, Depth
    <2>3. d \in 1..Depth(u) /\ frames[u][d].ins = frames[u][d].outs + Cardinality(Pending(u, d))
      <3>1. d \in 1..Depth(u)
        BY <2>1 DEF Depth
      <3> QED
        BY <3>1 DEF PairsOK
    <2>4. i \in 1..Len(brkptList) /\ (i \in Pending(u, d) <=> u = t /\ d = D)
      BY <2>2 DEF Pending, IsFor
    <2>5. Cardinality(Pending(u, d)') = IF u = t /\ d = D THEN Cardinality(Pending(u, d)) - 1
                                        ELSE Cardinality(Pending(u, d))
      BY <1>0, <2>2, <2>4, OneLessPending
    <2>6. CASE u = t /\ d = D
      <3>1. Cardinality(Pending(u, d)) \in Nat /\ Top(t).outs \in Nat /\ Top(t) = frames[t][D]
        BY <1>0, <2>1, PendingFinite DEF Frame, Top
      <3>2. frames'[u][d].ins = Top(t).ins /\ frames'[u][d].outs = Top(t).outs + 1
        BY <2>1, <2>6
      <3>3. Top(t).ins = Top(t).outs + Cardinality(Pending(u, d))
        BY <2>3, <2>6, <3>1
      <3>4. Cardinality(Pending(u, d)') = Cardinality(Pending(u, d)) - 1
        BY <2>5, <2>6
      <3>5. \A o, c \in Nat : o + c = (o + 1) + (c - 1)
        OBVIOUS
      <3> QED
        BY <3>1, <3>2, <3>3, <3>4, <3>5
    <2>7. CASE ~(u = t /\ d = D)
      <3>1. frames'[u][d] = frames[u][d]
        BY <2>1, <2>7
      <3> QED
        BY <2>3, <2>5, <2>7, <3>1
    <2> QED
      BY <2>6, <2>7
  <1>8. CASE UNCHANGED vars
    BY <1>1, <1>8 DEF vars, debugger
  <1> QED
    BY <1>2, <1>3, <1>4, <1>5, <1>6, <1>7, <1>8 DEF Next, Event

\* Where threads neither met nor ended, one thread at most is at a function; a call
\* is seen when that thread gets to it, and not again.
Alone(f) == \A t, u \in Thread : AtEntry(t, f) /\ AtEntry(u, f) => t = u
Once(t, f) ==
    /\ \A d \in 1..Depth(t) : frames[t][d].fn = f =>
         frames[t][d].ins = IF d = Depth(t) /\ AtEntry(t, f) /\ ~Stepping(t, f) THEN 0 ELSE 1
    /\ AtEntry(t, f) /\ tf[t] => pc[t] = "entry" /\ opcode[f] = "code"
OnceOK == \A f \in Fn : ~met[f] /\ ~cut[f] => Alone(f) /\ \A t \in Thread : Once(t, f)

\* A thread that does not move.
LEMMA OnceKept ==
    ASSUME NEW u, NEW f, Once(u, f), pc'[u] = pc[u], tf'[u] = tf[u], frames'[u] = frames[u],
           AtEntry(u, f) => opcode'[f] = opcode[f]
    PROVE  Once(u, f)' /\ (AtEntry(u, f)' <=> AtEntry(u, f))
  <1>1. /\ AtEntry(u, f)' <=> AtEntry(u, f)
        /\ Stepping(u, f)' <=> Stepping(u, f)
    BY DEF AtEntry, Stepping, Top, Depth
  <1> QED
    BY <1>1 DEF Once, Depth

\* A thread that is at no function, neither before the step nor after it.
LEMMA OnceAway ==
    ASSUME NEW t, NEW f, Once(t, f), ~AtEntry(t, f), ~AtEntry(t, f)',
           \A d \in 1..Len(frames'[t]) :
             /\ d \in 1..Depth(t) /\ frames'[t][d].fn = frames[t][d].fn
             /\ frames'[t][d].ins = frames[t][d].ins
    PROVE  Once(t, f)'
  BY DEF Once, Depth

LEMMA AloneKept ==
    ASSUME NEW f, Alone(f), NEW t, AtEntry(t, f)' => AtEntry(t, f),
           \A u \in Thread \ {t} : AtEntry(u, f)' <=> AtEntry(u, f)
    PROVE  Alone(f)'
  BY DEF Alone

LEMMA OnceStep == IInv /\ Rearmed /\ OnceOK /\ [Next]_vars => OnceOK'
  <1> SUFFICES ASSUME IInv, Rearmed, OnceOK, [Next]_vars, NEW f \in Fn, ~met'[f], ~cut'[f]
               PROVE  Alone(f)' /\ \A u \in Thread : Once(u, f)'
    BY DEF OnceOK
  <1>0. /\ TypeOK /\ PlaceOK /\ StepOK
        /\ \A u \in Thread : /\ frames[u] \in Seq(Frame) /\ Depth(u) \in Nat
                             /\ \A d \in 1..Depth(u) : frames[u][d] \in Frame
    BY DEF IInv, TypeOK, Depth
  <1> DEFINE Still(u) == pc'[u] = pc[u] /\ tf'[u] = tf[u] /\ frames'[u] = frames[u]
             Fine == Alone(f) /\ \A u \in Thread : Once(u, f)
  <1>a. ASSUME Fine, NEW t \in Thread, \A u \in Thread \ {t} : Still(u),
               \A u \in Thread \ {t} : AtEntry(u, f) => opcode'[f] = opcode[f],
               Once(t, f)', AtEntry(t, f)' => AtEntry(t, f)
        PROVE  Alone(f)' /\ \A u \in Thread : Once(u, f)'
    <2>1. \A u \in Thread \ {t} : Once(u, f)' /\ (AtEntry(u, f)' <=> AtEntry(u, f))
      BY <1>a, OnceKept
    <2> QED
      BY <1>a, <2>1, AloneKept
  <1>b. ASSUME ~met[f], ~cut[f] PROVE Fine
    BY <1>b DEF OnceOK
  <1> HIDE DEF Fine
  <1>1. ASSUME NEW t \in Thread, OnXCreateThread(t)
        PROVE  Alone(f)' /\ \A u \in Thread : Once(u, f)'
    <2>1. /\ Fine /\ pc[t] = "new" /\ pc'[t] = "run" /\ opcode' = opcode /\ frames' = frames
          /\ \A u \in Thread \ {t} : Still(u)
      BY <1>0, <1>1, <1>b DEF OnXCreateThread, Goto, TypeOK
    <2>2. ~AtEntry(t, f) /\ ~AtEntry(t, f)' /\ Once(t, f)
      BY <2>1 DEF AtEntry, Fine
    <2>3. Once(t, f)'
      BY <2>1, <2>2, OnceAway DEF Depth
    <2> QED
      BY <1>a, <2>1, <2>2, <2>3
  <1>2. ASSUME NEW t \in Thread, OnXDeleteThread(t)
        PROVE  Alone(f)' /\ \A u \in Thread : Once(u, f)'
    <2>1. /\ Fine /\ pc'[t] = "dead" /\ opcode' = opcode /\ frames'[t] = <<>>
          /\ \A u \in Thread \ {t} : Still(u)
      BY <1>0, <1>2, <1>b DEF OnXDeleteThread, Goto, TypeOK
    <2>2. ~AtEntry(t, f)'
      BY <2>1 DEF AtEntry
    <2>3. Once(t, f)'
      BY <2>1, <2>2 DEF Once, Depth
    <2> QED
      BY <1>a, <2>1, <2>2, <2>3
  <1>3. ASSUME NEW t \in Thread, NEW g \in Fn, NEW s \in Site, Call(t, g, s)
        PROVE  Alone(f)' /\ \A u \in Thread : Once(u, f)'
    <2> DEFINE fr == [fn |-> g, site |-> s, slot |-> s, ins |-> 0, outs |-> 0]
    <2>1. /\ pc[t] = "run" /\ pc'[t] = "entry" /\ ~tf'[t] /\ opcode' = opcode /\ cut' = cut
          /\ frames'[t] = Append(frames[t], fr) /\ \A u \in Thread \ {t} : Still(u)
      BY <1>0, <1>3 DEF Call, Goto, debugger, TypeOK, StepOK
    <2>2. fr.fn = g /\ fr.ins = 0
      OBVIOUS
    <2> HIDE DEF fr
    <2>3. met'[f] <=> met[f] \/ (f = g /\ \E u \in Thread : AtEntry(u, f))
      BY <1>0, <1>3, Zenon DEF Call, TypeOK
    <2>4. Fine /\ ~AtEntry(t, f)
      BY <2>1, <2>3, <1>b DEF AtEntry
    <2>5. /\ Depth(t) \in Nat /\ Len(frames'[t]) = Depth(t) + 1 /\ frames'[t][Depth(t) + 1] = fr
          /\ \A d \in 1..Depth(t) : frames'[t][d] = frames[t][d]
      BY <1>0, <2>1 DEF Depth
    <2>6. AtEntry(t, f)' <=> f = g
      BY <2>1, <2>2, <2>5 DEF AtEntry, Top, Depth
    <2>7. ~Stepping(t, f)'
      BY <2>1 DEF Stepping
    <2>8. Once(t, f)
      BY <2>4 DEF Fine
    <2>9. ASSUME NEW d \in 1..Len(frames'[t]), frames'[t][d].fn = f
          PROVE  frames'[t][d].ins = IF d = Len(frames'[t]) /\ AtEntry(t, f)' THEN 0 ELSE 1
      <3>1. CASE d = Depth(t) + 1
        BY <2>2, <2>5, <2>6, <2>9, <3>1
      <3>2. CASE d # Depth(t) + 1
        <4>1. d \in 1..Depth(t) /\ d # Len(frames'[t])
          BY <2>5, <3>2
        <4> QED
          BY <2>4, <2>5, <2>8, <2>9, <4>1 DEF Once
      <3> QED
        BY <3>1, <3>2
    <2>10. Once(t, f)'
      BY <2>1, <2>7, <2>9 DEF Once, Depth
    <2>11. CASE f # g
      BY <1>a, <2>1, <2>4, <2>6, <2>10, <2>11
    <2>12. CASE f = g
      <3>1. \A u \in Thread : ~AtEntry(u, f)
        BY <2>3, <2>12
      <3>2. \A u \in Thread \ {t} : Once(u, f)' /\ ~AtEntry(u, f)'
        BY <2>1, <2>4, <3>1, OnceKept DEF Fine
      <3> QED
        BY <2>10, <3>2 DEF Alone
    <2> QED
      BY <2>11, <2>12
  <1>4. ASSUME NEW t \in Thread, Execute(t)
        PROVE  Alone(f)' /\ \A u \in Thread : Once(u, f)'
    <2>1. /\ Fine /\ pc[t] = "entry" /\ opcode' = opcode /\ frames' = frames
          /\ \A u \in Thread \ {t} : Still(u)
          /\ \/ opcode[Top(t).fn] = "brk" /\ pc'[t] = "hit" /\ tf'[t] = tf[t]
             \/ opcode[Top(t).fn] # "brk" /\ tf[t] /\ pc'[t] = "stepped" /\ ~tf'[t]
             \/ opcode[Top(t).fn] # "brk" /\ ~tf[t] /\ pc'[t] = "run" /\ ~tf'[t]
      <3>1. /\ pc[t] = "entry" /\ opcode' = opcode /\ frames' = frames /\ met' = met /\ cut' = cut
            /\ \A u \in Thread \ {t} : Still(u)
        BY <1>0, <1>4 DEF Execute, Goto, TypeOK
      <3>2. /\ opcode[Top(t).fn] = "brk" => pc'[t] = "hit" /\ tf'[t] = tf[t]
            /\ opcode[Top(t).fn] # "brk" => pc'[t] = (IF tf[t] THEN "stepped" ELSE "run") /\ ~tf'[t]
        BY <1>0, <1>4 DEF Execute, Goto, TypeOK
      <3> QED
        BY <3>1, <3>2, <1>b
    <2>2. Once(t, f) /\ Alone(f)
      BY <2>1 DEF Fine
    <2>3. CASE Top(t).fn # f
      <3>1. ~AtEntry(t, f) /\ ~AtEntry(t, f)'
        BY <2>1, <2>3 DEF AtEntry, Top, Depth
      <3>2. Once(t, f)'
        BY <2>1, <2>2, <3>1, OnceAway DEF Depth
      <3> QED
        BY <1>a, <2>1, <3>1, <3>2
    <2>4. CASE Top(t).fn = f
      <3>1. AtEntry(t, f)
        BY <2>1, <2>4 DEF AtEntry
      <3>2. tf[t] <=> opcode[f] # "brk"
        <4>1. tf[t] => opcode[f] = "code"
          BY <2>2, <3>1 DEF Once
        <4>2. ASSUME opcode[f] # "brk" PROVE tf[t]
          <5>1. ~cut[f]
            BY <1>4 DEF Execute
          <5>2. PICK u \in Thread : Stepping(u, f)
            BY <4>2, <5>1 DEF Rearmed
          <5>3. u = t
            BY <2>2, <3>1, <5>2 DEF Alone, Stepping
          <5> QED
            BY <2>1, <5>2, <5>3 DEF Stepping
        <4> QED
          BY <4>1, <4>2
      <3>3. AtEntry(t, f)' /\ (Stepping(t, f)' <=> Stepping(t, f))
        BY <2>1, <2>4, <3>1, <3>2 DEF AtEntry, Stepping, Top, Depth
      <3>4. ~tf'[t]
        BY <2>1, <2>4, <3>2
      <3>5. Once(t, f)'
        BY <2>1, <2>2, <3>1, <3>3, <3>4 DEF Once, Depth
      <3> QED
        BY <1>a, <2>1, <3>1, <3>5
    <2> QED
      BY <2>3, <2>4
  <1>5. ASSUME NEW t \in Thread, Return(t)
        PROVE  Alone(f)' /\ \A u \in Thread : Once(u, f)'
    <2>1. /\ Fine /\ pc[t] = "run" /\ pc'[t] \in {"run", "returning"} /\ opcode' = opcode
          /\ \A u \in Thread \ {t} : Still(u)
      <3>1. /\ pc[t] = "run" /\ pc'[t] \in {"run", "returning"} /\ met' = met /\ cut' = cut
            /\ opcode' = opcode /\ tf' = tf /\ \A u \in Thread \ {t} : pc'[u] = pc[u]
        BY <1>0, <1>5 DEF Return, Goto, TypeOK, debugger
      <3> QED
        BY <3>1, <1>5, <1>b, ReturnCall
    <2>2. ~AtEntry(t, f) /\ ~AtEntry(t, f)' /\ Once(t, f)
      BY <2>1 DEF AtEntry, Fine
    <2>3. \A d \in 1..Len(frames'[t]) : d \in 1..Depth(t) /\ frames'[t][d] = frames[t][d]
      <3>1. CASE frames' = frames
        BY <3>1 DEF Depth
      <3>2. CASE frames' # frames
        BY <1>5, <3>2, ReturnCall
      <3> QED
        BY <3>1, <3>2
    <2> QED
      BY <1>a, <2>1, <2>2, <2>3, OnceAway
  <1>6. ASSUME NEW t \in Thread, OnXBreakpointIn(t)
        PROVE  Alone(f)' /\ \A u \in Thread : Once(u, f)'
    <2> DEFINE D == Depth(t)
    <2>1. /\ D \in Nat /\ D >= 1 /\ Len(frames'[t]) = D
          /\ \A u \in Thread \ {t} : frames'[u] = frames[u]
          /\ \A d \in 1..D - 1 : frames'[t][d] = frames[t][d]
          /\ frames'[t][D].fn = Top(t).fn
          /\ frames'[t][D].ins = Top(t).ins + 1 /\ Top(t) \in Frame
      BY <1>6, SeenCall
    <2>2. /\ Fine /\ pc[t] = "hit" /\ pc'[t] = "entry" /\ tf'[t]
          /\ opcode' = [opcode EXCEPT ![Top(t).fn] = "code"]
          /\ \A u \in Thread \ {t} : Still(u)
      <3>1. /\ pc[t] = "hit" /\ pc'[t] = "entry" /\ tf'[t] /\ met' = met /\ cut' = cut
            /\ opcode' = [opcode EXCEPT ![Top(t).fn] = "code"]
            /\ \A u \in Thread \ {t} : pc'[u] = pc[u] /\ tf'[u] = tf[u]
        BY <1>0, <1>6 DEF OnXBreakpointIn, RestoreOpcode, Goto, TypeOK
      <3> QED
        BY <2>1, <3>1, <1>b
    <2>3. Once(t, f) /\ Alone(f)
      BY <2>2 DEF Fine
    <2>4. AtEntry(t, f)' <=> AtEntry(t, f)
      BY <2>1, <2>2 DEF AtEntry, Top, Depth
    <2>5. Stepping(t, f)' <=> AtEntry(t, f)
      BY <2>2, <2>4 DEF Stepping
    <2>6. CASE Top(t).fn # f
      <3>1. ~AtEntry(t, f) /\ opcode'[f] = opcode[f]
        BY <1>0, <2>2, <2>6 DEF AtEntry, TypeOK
      <3>2. ASSUME NEW d \in 1..Len(frames'[t]), frames'[t][d].fn = f
            PROVE  frames'[t][d].ins = 1
        <4>1. d \in 1..D - 1
          BY <2>1, <2>6, <3>2
        <4> QED
          BY <2>1, <2>3, <3>1, <3>2, <4>1 DEF Once
      <3>3. Once(t, f)'
        BY <2>4, <3>1, <3>2 DEF Once, Depth
      <3> QED
        BY <1>a, <2>2, <2>4, <3>1, <3>3
    <2>7. CASE Top(t).fn = f
      <3>1. AtEntry(t, f) /\ opcode'[f] = "code"
        BY <1>0, <2>2, <2>7 DEF AtEntry, TypeOK
      <3>2. \A u \in Thread \ {t} : ~AtEntry(u, f)
        BY <2>3, <3>1 DEF Alone
      <3>3. ~tf[t] /\ ~Stepping(t, f) /\ Top(t) = frames[t][D]
        BY <2>2, <2>3, <3>1 DEF Once, Stepping, Top
      <3>4. ASSUME NEW d \in 1..Len(frames'[t]), frames'[t][d].fn = f
            PROVE  frames'[t][d].ins = 1
        <4>1. CASE d = D
          <5>1. Top(t).ins = 0
            BY <2>1, <2>3, <2>7, <3>1, <3>3 DEF Once
          <5> QED
            BY <2>1, <4>1, <5>1
        <4>2. CASE d # D
          <5>1. d \in 1..D - 1
            BY <2>1, <4>2
          <5> QED
            BY <2>1, <2>3, <3>4, <4>2, <5>1 DEF Once
        <4> QED
          BY <4>1, <4>2
      <3>5. Once(t, f)'
        BY <2>2, <2>5, <3>1, <3>4 DEF Once, Depth
      <3> QED
        BY <1>a, <2>2, <3>1, <3>2, <3>5
    <2> QED
      BY <2>6, <2>7
  <1>7. ASSUME NEW t \in Thread, OnXSingleStep(t)
        PROVE  Alone(f)' /\ \A u \in Thread : Once(u, f)'
    <2>1. /\ Fine /\ pc[t] = "stepped" /\ pc'[t] = "run" /\ ~tf'[t] /\ frames' = frames
          /\ opcode' = [opcode EXCEPT ![Top(t).fn] = "brk"]
          /\ \A u \in Thread \ {t} : Still(u)
      BY <1>0, <1>7, <1>b DEF OnXSingleStep, Goto, TypeOK, PlaceOK, StepOK
    <2>2. Once(t, f) /\ Alone(f) /\ ~AtEntry(t, f)'
      BY <2>1 DEF Fine, AtEntry
    <2>3. AtEntry(t, f) => Stepping(t, f)
      BY <2>1 DEF Stepping
    <2>4. Once(t, f)'
      BY <2>1, <2>2, <2>3 DEF Once, Depth
    <2>5. \A u \in Thread \ {t} : AtEntry(u, f) => opcode'[f] = opcode[f]
      <3>1. CASE Top(t).fn = f
        <4>1. AtEntry(t, f)
          BY <2>1, <3>1 DEF AtEntry
        <4> QED
          BY <2>2, <4>1 DEF Alone
      <3>2. CASE Top(t).fn # f
        BY <1>0, <2>1, <3>2 DEF TypeOK
      <3> QED
        BY <3>1, <3>2
    <2> QED
      BY <1>a, <2>1, <2>2, <2>4, <2>5
  <1>8. ASSUME NEW t \in Thread, OnXBreakpointOut(t)
        PROVE  Alone(f)' /\ \A u \in Thread : Once(u, f)'
    <2> DEFINE D == Depth(t)
    <2>1. /\ D \in Nat /\ D >= 1 /\ Top(t) \in Frame /\ pc[t] = "returning"
          /\ \A u \in Thread \ {t} : frames'[u] = frames[u]
          /\ \A d \in 1..D - 1 : frames'[t][d] = frames[t][d]
          /\ \/ Len(frames'[t]) = D - 1
             \/ /\ Len(frames'[t]) = D /\ frames'[t][D].fn = Top(t).fn
                /\ frames'[t][D].ins = Top(t).ins
      BY <1>8, ToldCall
    <2>2. /\ Fine /\ pc'[t] \in {"run", "returning"} /\ opcode' = opcode
          /\ \A u \in Thread \ {t} : Still(u)
      <3>1. /\ met' = met /\ cut' = cut /\ opcode' = opcode /\ tf' = tf
            /\ pc'[t] \in {"run", "returning"} /\ \A u \in Thread \ {t} : pc'[u] = pc[u]
        BY <1>0, <1>8, ListShrinks DEF OnXBreakpointOut, TypeOK
      <3> QED
        BY <2>1, <3>1, <1>b
    <2>3. ~AtEntry(t, f) /\ ~AtEntry(t, f)' /\ Once(t, f)
      BY <2>1, <2>2 DEF AtEntry, Fine
    <2>4. \A d \in 1..Len(frames'[t]) : /\ d \in 1..Depth(t)
                                        /\ frames'[t][d].fn = frames[t][d].fn
                                        /\ frames'[t][d].ins = frames[t][d].ins
      BY <2>1 DEF Top
    <2> QED
      BY <1>a, <2>2, <2>3, <2>4, OnceAway
  <1>9. CASE UNCHANGED vars
    <2>1. Fine /\ opcode' = opcode /\ \A u \in Thread : Still(u)
      BY <1>9, <1>b DEF vars
    <2>2. \A u \in Thread : Once(u, f)' /\ (AtEntry(u, f)' <=> AtEntry(u, f))
      BY <2>1, OnceKept DEF Fine
    <2> QED
      BY <2>1, <2>2 DEF Fine, Alone
  <1> QED
    BY <1>1, <1>2, <1>3, <1>4, <1>5, <1>6, <1>7, <1>8, <1>9 DEF Next, Event

\* What is known of the call a thread gets back from.
LEMMA BackCall ==
    ASSUME IInv, PairsOK, [Next]_vars, NEW t \in Thread, Back(t)
    PROVE  /\ Depth(t) \in Nat /\ Depth(t) >= 1 /\ Top(t) \in Frame
           /\ pc[t] \in {"run", "returning"} /\ Outs(t) = Top(t).ins
  <1> DEFINE D == Depth(t)
  <1>0. /\ TypeOK /\ pc[t] \in {"run", "returning"} /\ pc'[t] # "dead"
        /\ Len(frames'[t]) < Len(frames[t]) /\ frames'[t] # frames[t]
        /\ frames[t] \in Seq(Frame) /\ Len(frames[t]) \in Nat
    BY DEF Back, IInv, TypeOK
  <1>1. CASE Return(t)
    <2>1. D \in Nat /\ D >= 1 /\ Top(t) \in Frame /\ pc[t] = "run" /\ Pending(t, D) = {}
      BY <1>0, <1>1, ReturnCall
    <2>2. Top(t).ins = Top(t).outs + 0
      BY <2>1, FS_EmptySet DEF PairsOK, Top
    <2> QED
      BY <2>1, <2>2 DEF Frame, Outs
  <1>2. CASE OnXBreakpointOut(t)
    <2>1. /\ D \in Nat /\ D >= 1 /\ Top(t) \in Frame /\ pc[t] = "returning"
          /\ Len(frames'[t]) = D - 1
      BY <1>0, <1>2, ToldCall DEF Depth
    <2>2. \E i : Pending(t, D) = {i}
      BY <1>2, <2>1, ToldCall
    <2>3. Cardinality(Pending(t, D)) = 1
      BY <2>2, FS_Singleton
    <2>4. Top(t).ins = Top(t).outs + 1
      BY <2>1, <2>3 DEF PairsOK, Top
    <2> QED
      BY <2>1, <2>4 DEF Frame, Outs
  <1>3. ASSUME NEW u \in Thread, Return(u) \/ OnXBreakpointOut(u), u # t PROVE FALSE
    BY <1>0, <1>3, ReturnCall, ToldCall
  <1>4. ASSUME NEW u \in Thread, OnXBreakpointIn(u) PROVE FALSE
    BY <1>0, <1>4, SeenCall DEF Depth
  <1>5. ASSUME NEW u \in Thread, NEW g \in Fn, NEW s \in Site, Call(u, g, s) PROVE FALSE
    <2> DEFINE fr == [fn |-> g, site |-> s, slot |-> s, ins |-> 0, outs |-> 0]
    <2>1. frames'[t] = IF u = t THEN Append(frames[t], fr) ELSE frames[t]
      BY <1>5 DEF Call, IInv, TypeOK
    <2> HIDE DEF fr
    <2>2. Len(Append(frames[t], fr)) = Len(frames[t]) + 1
      BY <1>0
    <2> QED
      BY <1>0, <2>1, <2>2
  <1>6. ASSUME NEW u \in Thread, OnXDeleteThread(u) PROVE FALSE
    BY <1>0, <1>6 DEF OnXDeleteThread, Goto, TypeOK
  <1>7. ASSUME NEW u \in Thread, OnXCreateThread(u) \/ Execute(u) \/ OnXSingleStep(u) PROVE FALSE
    BY <1>0, <1>7 DEF OnXCreateThread, Execute, OnXSingleStep
  <1>8. CASE UNCHANGED vars
    BY <1>0, <1>8 DEF vars
  <1> QED
    BY <1>1, <1>2, <1>3, <1>4, <1>5, <1>6, <1>7, <1>8 DEF Next, Event

LEMMA PairsInit == Init => PairsOK /\ OnceOK
  <1> SUFFICES ASSUME Init PROVE PairsOK /\ OnceOK
    OBVIOUS
  <1>1. \A t \in Thread : /\ frames[t] = <<>> /\ Depth(t) = 0
                          /\ pc[t] \in {"run", "new"}
    BY DEF Init, Depth
  <1>2. PairsOK
    BY <1>1 DEF PairsOK
  <1>3. \A t, f : t \in Thread => ~AtEntry(t, f)
    BY <1>1 DEF AtEntry
  <1> QED
    BY <1>1, <1>2, <1>3 DEF OnceOK, Once, Alone

\* For any number of threads, functions and calls: the handler of a function is
\* told of the end of a call as often as it was of the beginning, and of both once
\* if no threads met at the function and none ended there (OnXBreakpoint).
THEOREM CallsAreToldInPairs == Spec => ToldInPairs
  <1>1. ASSUME IInv, PairsOK, OnceOK, [Next]_vars
        PROVE  [\A t \in Thread : Back(t) =>
                  /\ Outs(t) = Top(t).ins
                  /\ met[Top(t).fn] \/ cut[Top(t).fn] \/ Top(t).ins = 1]_vars
    <2> SUFFICES ASSUME NEW t \in Thread, Back(t), ~met[Top(t).fn], ~cut[Top(t).fn]
                 PROVE  Top(t).ins = 1
      BY <1>1, BackCall
    <2> DEFINE f == Top(t).fn
    <2>1. /\ Depth(t) \in Nat /\ Depth(t) >= 1 /\ f \in Fn /\ Top(t) = frames[t][Depth(t)]
          /\ pc[t] \in {"run", "returning"}
      BY <1>1, BackCall DEF Frame, Top
    <2>2. Once(t, f) /\ ~AtEntry(t, f)
      BY <1>1, <2>1 DEF OnceOK, AtEntry
    <2> QED
      BY <2>1, <2>2 DEF Once
  <1>2. Init => Rearmed
    BY DEF Init, Rearmed
  <1> QED
    BY InitHolds, Inductive, RearmedStep, PairsInit, PairsStep, OnceStep, <1>1, <1>2, PTL
    DEF Spec, ToldInPairs
-----------------------------------------------------------------------------
(***************************************************************************)
(* Debuggee, for any libraries and functions: breakpoints are where the    *)
(* names are.                                                              *)
(***************************************************************************)

\* Setting the breakpoints is a fold.
Setting == INSTANCE FoldProofs WITH op <- SetBreakpoint, step <- SetBreakpoint

\* The function f is at the place a, in a library that the slave has.
IsAt(f, a) == \E b \in Homes(f) : \E n \in 1 .. Len(image[b].names) :
                  image[b].names[n] = f /\ a = Exported(b, image[b], n)

Spots == {funcTable[f] : f \in DOMAIN funcTable}

\* A name that is known is that of a function there, or was met twice, or its
\* library is gone.
KnownOK ==
    /\ image \in [Base -> Image \union {NoImage}]
    /\ \A f \in DOMAIN funcTable :
          /\ \E b \in Base, x \in {funcTable[f][2]} : funcTable[f] = <<b, x>>
          /\ f \in moved \/ funcTable[f][1] \in left \/ IsAt(f, funcTable[f])

\* A breakpoint is where its name is known to be.
ListOK(list) ==
    /\ list \in Seq([name : DOMAIN funcTable, at : Spots, code : {"code", "brk"}])
    /\ \A i \in 1 .. Len(list) :
         /\ list[i].at = funcTable[list[i].name]
         /\ list[i].code = "brk" => \E j \in 1 .. i - 1 : list[j].at = list[i].at

OpcodeOK ==
    /\ phase = "starts" => stepping = NoHit
    /\ broken \subseteq {planted[i].at : i \in 1 .. Len(planted)}
    /\ stepping = NoHit \/ \E i \in 1 .. Len(planted) : stepping = planted[i]
    /\ \A i \in 1 .. Len(planted) :
         planted[i].at[1] \in left \/ planted[i].at \in broken \/ planted[i].at = stepping.at

DebuggeeInv == KnownOK /\ ListOK(planted) /\ OpcodeOK

LEMMA DebuggeeStarts == DebuggeeInit => DebuggeeInv
<1>. SUFFICES ASSUME DebuggeeInit PROVE DebuggeeInv
  OBVIOUS
<1>1. funcTable = <<>> /\ planted = <<>> /\ broken = {} /\ stepping = NoHit /\ DOMAIN funcTable = {}
      /\ Len(planted) = 0 
  BY DEF DebuggeeInit
<1>2. KnownOK
  BY <1>1, DebuggeeAssumption DEF KnownOK, DebuggeeInit
<1>3. ListOK(planted)
  BY <1>1 DEF ListOK
<1>4. OpcodeOK
  BY <1>1 DEF OpcodeOK
<1>. QED  BY <1>2, <1>3, <1>4 DEF DebuggeeInv

\* What setting the breakpoints has made so far.
Progress(st) ==
    /\ ListOK(st.list)
    /\ st.broken = {st.list[i].at : i \in 1 .. Len(st.list)}
Progresses == {st \in [list : Seq([name : DOMAIN funcTable, at : Spots, code : {"code", "brk"}]),
                       broken : SUBSET Spots, reported : {"NO_ERROR", "CANT_READ_SUB_MEM"}] : Progress(st)}

LEMMA SettingProgresses ==
    ASSUME KnownOK, NEW st \in Progresses, NEW f, NEW unwritable
    PROVE  SetBreakpoint(st, f, unwritable) \in Progresses
<1>1. CASE f \notin DOMAIN funcTable
  BY <1>1 DEF SetBreakpoint
<1>2. CASE f \in DOMAIN funcTable
  <2> DEFINE a == funcTable[f]
             e == [name |-> f, at |-> a, code |-> IF a \in st.broken THEN "brk" ELSE "code"]
             Hit == [name : DOMAIN funcTable, at : Spots, code : {"code", "brk"}]
             list == Append(st.list, e)
  <2>1. CASE image[a[1]] = NoImage
    <3>1. SetBreakpoint(st, f, unwritable) = [st EXCEPT !.reported = "CANT_READ_SUB_MEM"]
      BY <1>2, <2>1 DEF SetBreakpoint, SetBreakpointAtAddr
    <3>. QED  BY <3>1 DEF Progresses, Progress
  <2>2. CASE f \in unwritable /\ image[a[1]] # NoImage
    BY <1>2, <2>2 DEF SetBreakpoint, SetBreakpointAtAddr
  <2>3. CASE f \notin unwritable /\ image[a[1]] # NoImage
    <3> DEFINE u == [st EXCEPT !.list = list, !.broken = @ \union {a}]
    <3>1. SetBreakpoint(st, f, unwritable) = u
      BY <1>2, <2>3 DEF SetBreakpoint, SetBreakpointAtAddr
    <3>2. e \in Hit /\ e.at = a /\ e.name = f /\ (e.code = "brk" => a \in st.broken) /\ a \in Spots
      BY <1>2 DEF Spots
    <3>3. /\ st.list \in Seq(Hit) /\ st.broken \in SUBSET Spots /\ st.reported \in {"NO_ERROR", "CANT_READ_SUB_MEM"}
          /\ st.broken = {st.list[i].at : i \in 1 .. Len(st.list)}
          /\ \A i \in 1 .. Len(st.list) :
                /\ st.list[i].at = funcTable[st.list[i].name]
                /\ st.list[i].code = "brk" => \E j \in 1 .. i - 1 : st.list[j].at = st.list[i].at
      BY DEF Progresses, Progress, ListOK
    <3> HIDE DEF e, Hit
    <3>4. /\ list \in Seq(Hit) /\ Len(list) = Len(st.list) + 1 /\ Len(st.list) \in Nat
          /\ \A i \in 1 .. Len(st.list) : list[i] = st.list[i]
          /\ list[Len(st.list) + 1] = e
      BY <3>2, <3>3, AppendProperties
    <3> HIDE DEF list
    <3>5. \A i \in 1 .. Len(list) : i \in 1 .. Len(st.list) \/ i = Len(st.list) + 1
      BY <3>4
    <3>6. \A i \in 1 .. Len(st.list) :
             /\ list[i].at = funcTable[list[i].name]
             /\ list[i].code = "brk" => \E j \in 1 .. i - 1 : list[j].at = list[i].at
      <4>. TAKE i \in 1 .. Len(st.list)
      <4>1. \A j \in 1 .. i - 1 : j \in 1 .. Len(st.list)
        BY <3>4
      <4>. QED  BY <3>3, <3>4, <4>1
    <3>7. e.code = "brk" => \E j \in 1 .. Len(st.list) : list[j].at = a
      BY <3>2, <3>3, <3>4
    <3>8. ListOK(list)
      <4>1. \A i \in 1 .. Len(list) : list[i].at = funcTable[list[i].name]
        BY <3>2, <3>4, <3>5, <3>6
      <4>2. \A i \in 1 .. Len(list) : list[i].code = "brk" => \E j \in 1 .. i - 1 : list[j].at = list[i].at
        <5>. TAKE i \in 1 .. Len(list)
        <5>1. CASE i \in 1 .. Len(st.list)
          BY <5>1, <3>6
        <5>2. CASE i = Len(st.list) + 1
          <6>1. 1 .. i - 1 = 1 .. Len(st.list) /\ list[i] = e
            BY <5>2, <3>4
          <6>. QED  BY <6>1, <3>2, <3>7
        <5>. QED  BY <5>1, <5>2, <3>5
      <4>. QED  BY <3>4, <4>1, <4>2 DEF ListOK, Hit
    <3>9. {list[i].at : i \in 1 .. Len(list)} = st.broken \union {a}
      <4>1. \A i \in 1 .. Len(st.list) : i \in 1 .. Len(list)
        BY <3>4
      <4>2. Len(st.list) + 1 \in 1 .. Len(list) /\ list[Len(st.list) + 1].at = a
        BY <3>2, <3>4
      <4>3. \A i \in 1 .. Len(list) : list[i].at \in st.broken \union {a}
        BY <3>3, <3>4, <3>5, <4>2
      <4>4. st.broken \subseteq {list[i].at : i \in 1 .. Len(list)}
        BY <3>3, <3>4, <4>1
      <4>5. a \in {list[i].at : i \in 1 .. Len(list)}
        BY <4>2
      <4>. QED  BY <4>3, <4>4, <4>5
    <3>10. u.list = list /\ u.broken = st.broken \union {a} /\ u.reported = st.reported
           /\ u \in [list : Seq(Hit), broken : SUBSET Spots, reported : {"NO_ERROR", "CANT_READ_SUB_MEM"}]
      <4>1. st \in [list : Seq(Hit), broken : SUBSET Spots, reported : {"NO_ERROR", "CANT_READ_SUB_MEM"}]
        BY DEF Progresses, Hit
      <4>. QED  BY <4>1, <3>2, <3>3, <3>4
    <3> HIDE DEF u
    <3>11. Progress(u)
      BY <3>8, <3>9, <3>10 DEF Progress
    <3>12. u \in Progresses
      BY <3>10, <3>11 DEF Progresses, Hit
    <3>. QED  BY <3>1, <3>12
  <2>. QED  BY <2>1, <2>2, <2>3
<1>. QED  BY <1>1, <1>2

LEMMA AllAreSet ==
    ASSUME KnownOK, NEW unwritable
    PROVE  SetAll(unwritable) \in Progresses
<1> DEFINE seq == Wanted["kernel32"] \o Wanted["user32"]
           st0 == [list |-> <<>>, broken |-> {}, reported |-> "NO_ERROR"]
<1>1. seq \in Seq(STRING)
  BY DebuggeeAssumption
<1>2. DOMAIN seq = 1 .. Len(seq) /\ Len(seq) \in Nat
  <2>. HIDE DEF seq
  <2>. QED  BY <1>1
<1>3. st0 \in Progresses
  <2>1. /\ st0.list = <<>> /\ st0.broken = {} /\ Len(<<>>) = 0
        /\ st0 \in [list : Seq([name : DOMAIN funcTable, at : Spots, code : {"code", "brk"}]),
                    broken : SUBSET Spots, reported : {"NO_ERROR", "CANT_READ_SUB_MEM"}]
    OBVIOUS
  <2>2. 1 .. 0 = {}
    OBVIOUS
  <2>3. ListOK(<<>>)
    BY <2>1, <2>2 DEF ListOK
  <2>4. {<<>>[i].at : i \in 1 .. Len(<<>>)} = {}
    BY <2>1, <2>2
  <2>. HIDE DEF st0
  <2>. QED  BY <2>1, <2>3, <2>4 DEF Progresses, Progress
<1>4. SetAll(unwritable) = Setting!Fold(st0, seq, unwritable)
  BY DEF SetAll, Setting!Fold, FoldLeft, MapThenFoldSet, Setting!FoldLeft, Setting!MapThenFoldSet, Max, Setting!Max
<1> HIDE DEF seq, st0
<1>5. \A st \in Progresses : \A k \in 1 .. Len(seq) : SetBreakpoint(st, seq[k], unwritable) \in Progresses
  BY SettingProgresses
<1>6. Setting!Fold(st0, seq, unwritable) \in Progresses
  BY <1>2, <1>3, <1>5, Setting!FoldStays
<1>. QED  BY <1>4, <1>6

\* The names keep their addresses, so the list stays as it is.
LEMMA ListStays ==
    ASSUME NEW list, ListOK(list), KnownOK, DOMAIN funcTable \subseteq DOMAIN funcTable',
           \A f \in DOMAIN funcTable : funcTable'[f] = funcTable[f]
    PROVE  ListOK(list)'
<1> DEFINE Hit == [name : DOMAIN funcTable, at : Spots, code : {"code", "brk"}]
           Later == [name : DOMAIN funcTable', at : Spots', code : {"code", "brk"}]
<1>1. Spots \subseteq Spots'
  BY DEF Spots
<1>2. Hit \subseteq Later
  BY <1>1
<1>3. list \in Seq(Hit) /\ Len(list) \in Nat /\ \A i \in 1 .. Len(list) : list[i] \in Hit
  <2>1. list \in Seq(Hit)
    BY DEF ListOK
  <2>. HIDE DEF Hit
  <2>. QED  BY <2>1
<1>4. list \in Seq(Later)
  <2>. HIDE DEF Hit, Later
  <2>. QED  BY <1>2, <1>3
<1>5. \A i \in 1 .. Len(list) : list[i].name \in DOMAIN funcTable
  BY <1>3
<1>. QED  BY <1>4, <1>5 DEF ListOK, Later

LEMMA LoadKeeps ==
    ASSUME DebuggeeInv, NEW b \in Base, NEW img \in Image, OnXLoadDll(b, img)
    PROVE  DebuggeeInv'
<1>1. /\ image[b] = NoImage /\ image' = [image EXCEPT ![b] = img]
      /\ moved' = moved \union (ExportsOf(img) \intersect DOMAIN funcTable)
      /\ UNCHANGED <<planted, broken, stepping, phase, left>>
      /\ image \in [Base -> Image \union {NoImage}]
  BY DEF OnXLoadDll, DebuggeeInv, KnownOK
<1>2. \A f : \A a : IsAt(f, a) => IsAt(f, a)'
  <2>. SUFFICES ASSUME NEW f, NEW a, IsAt(f, a) PROVE IsAt(f, a)'
    OBVIOUS
  <2>1. PICK c \in Homes(f) : \E n \in 1 .. Len(image[c].names) :
                  image[c].names[n] = f /\ a = Exported(c, image[c], n)
    BY DEF IsAt
  <2>2. c \in Base /\ c # b /\ image'[c] = image[c]
    BY <1>1, <2>1 DEF Homes
  <2>3. c \in Homes(f)'
    BY <2>1, <2>2 DEF Homes
  <2>. QED  BY <2>1, <2>2, <2>3 DEF IsAt, Exported
<1>3. CASE ~(img.valid /\ img.name \in DOMAIN Wanted)
  <2>1. funcTable' = funcTable
    BY <1>3 DEF OnXLoadDll
  <2>2. KnownOK'
    BY <1>1, <1>2, <2>1 DEF DebuggeeInv, KnownOK
  <2>3. ListOK(planted)'
    <3>1. ListOK(planted) /\ KnownOK
      BY DEF DebuggeeInv
    <3>. QED  BY <1>1, <2>1, <3>1 DEF ListOK, Spots
  <2>4. OpcodeOK'
    BY <1>1 DEF DebuggeeInv, OpcodeOK
  <2>. QED  BY <2>2, <2>3, <2>4 DEF DebuggeeInv
<1>4. CASE img.valid /\ img.name \in DOMAIN Wanted
  <2> DEFINE new == Found(b, img)
  <2>1. funcTable' = AddAll(funcTable, new) /\ DOMAIN new = ExportsOf(img)
    BY <1>4 DEF OnXLoadDll, Found
  <2>2. \A f \in ExportsOf(img) : /\ new[f] = <<b, new[f][2]>>
                                   /\ IsAt(f, new[f])'
    <3>. TAKE f \in ExportsOf(img)
    <3> DEFINE n == CHOOSE n \in 1 .. Len(img.names) : img.names[n] = f
    <3>1. n \in 1 .. Len(img.names) /\ img.names[n] = f
      BY DEF ExportsOf
    <3>2. new[f] = Exported(b, img, n)
      BY DEF Found
    <3>3. image'[b] = img /\ img # NoImage
      BY <1>1, DebuggeeAssumption
    <3>4. b \in Homes(f)'
      BY <1>4, <3>3 DEF Homes
    <3> HIDE DEF n, new
    <3>5. IsAt(f, new[f])'
      BY <3>1, <3>2, <3>3, <3>4 DEF IsAt, Exported
    <3>. QED  BY <3>2, <3>5 DEF Exported
  <2> HIDE DEF new
  <2>3. /\ DOMAIN funcTable' = DOMAIN funcTable \union ExportsOf(img)
        /\ \A f \in DOMAIN funcTable : funcTable'[f] = funcTable[f]
        /\ \A f \in ExportsOf(img) : f \notin DOMAIN funcTable => funcTable'[f] = new[f]
    BY <2>1 DEF AddAll
  <2>4. KnownOK'
    <3>1. image' \in [Base -> Image \union {NoImage}]
      BY <1>1
    <3>2. \A f \in DOMAIN funcTable' :
             /\ \E c \in Base, x \in {funcTable'[f][2]} : funcTable'[f] = <<c, x>>
             /\ f \in moved' \/ funcTable'[f][1] \in left' \/ IsAt(f, funcTable[f])'
      <4>. TAKE f \in DOMAIN funcTable'
      <4>1. CASE f \in DOMAIN funcTable
        BY <1>1, <1>2, <2>3, <4>1 DEF DebuggeeInv, KnownOK
      <4>2. CASE f \notin DOMAIN funcTable
        <5>1. f \in ExportsOf(img) /\ funcTable'[f] = new[f]
          BY <2>3, <4>2
        <5>. QED  BY <5>1, <2>2
      <4>. QED  BY <4>1, <4>2
    <3>. QED  BY <3>1, <3>2 DEF KnownOK
  <2>5. ListOK(planted)'
    <3>1. ListOK(planted) /\ KnownOK
      BY DEF DebuggeeInv
    <3>2. planted' = planted
      BY <1>1
    <3>3. \A list : list = planted => ListOK(list)'
      BY <2>3, <3>1, ListStays
    <3>. QED  BY <3>2, <3>3 DEF ListOK
  <2>6. OpcodeOK'
    BY <1>1 DEF DebuggeeInv, OpcodeOK
  <2>. QED  BY <2>4, <2>5, <2>6 DEF DebuggeeInv
<1>. QED  BY <1>3, <1>4

LEMMA UnloadKeeps ==
    ASSUME DebuggeeInv, NEW b \in Base, OnXUnloadDll(b)
    PROVE  DebuggeeInv'
<1>1. /\ image' = [image EXCEPT ![b] = NoImage] /\ broken' = {a \in broken : a[1] # b}
      /\ left' = left \union {b} /\ stepping = NoHit
      /\ UNCHANGED <<funcTable, planted, stepping, phase, moved>>
      /\ image \in [Base -> Image \union {NoImage}]
  BY DEF OnXUnloadDll, DebuggeeInv, KnownOK
<1>2. \A f : \A a : IsAt(f, a) => a[1] = b \/ IsAt(f, a)'
  <2>. SUFFICES ASSUME NEW f, NEW a, IsAt(f, a), a[1] # b PROVE IsAt(f, a)'
    OBVIOUS
  <2>1. PICK c \in Homes(f) : \E n \in 1 .. Len(image[c].names) :
                  image[c].names[n] = f /\ a = Exported(c, image[c], n)
    BY DEF IsAt
  <2>2. c \in Base /\ c # b /\ image'[c] = image[c]
    BY <1>1, <2>1 DEF Homes, Exported
  <2>3. c \in Homes(f)'
    BY <2>1, <2>2 DEF Homes
  <2>. QED  BY <2>1, <2>2, <2>3 DEF IsAt, Exported
<1>3. KnownOK'
  BY <1>1, <1>2 DEF DebuggeeInv, KnownOK
<1>4. ListOK(planted)'
  <2>1. ListOK(planted)
    BY DEF DebuggeeInv
  <2>. QED  BY <1>1, <2>1 DEF ListOK, Spots
<1>5. OpcodeOK'
  <2>1. OpcodeOK
    BY DEF DebuggeeInv
  <2>2. \A i \in 1 .. Len(planted) :
           planted[i].at[1] \in left' \/ planted[i].at \in broken' \/ planted[i].at = stepping.at
    BY <1>1, <2>1 DEF OpcodeOK
  <2>. QED  BY <1>1, <2>1, <2>2 DEF OpcodeOK
<1>. QED  BY <1>3, <1>4, <1>5 DEF DebuggeeInv

LEMMA ThirdBreakpointKeeps ==
    ASSUME DebuggeeInv, OnXThirdBreakpoint
    PROVE  DebuggeeInv'
<1>1. PICK unwritable \in SUBSET WantedNames : \E st \in {SetAll(unwritable)} :
         planted' = st.list /\ broken' = st.broken /\ reported' = st.reported
  BY DEF OnXThirdBreakpoint
<1> DEFINE st == SetAll(unwritable)
<1>2. planted' = st.list /\ broken' = st.broken
  BY <1>1
<1>3. st \in Progresses
  BY AllAreSet DEF DebuggeeInv
<1>4. ListOK(st.list) /\ st.broken = {st.list[i].at : i \in 1 .. Len(st.list)}
  BY <1>3 DEF Progresses, Progress
<1> HIDE DEF st
<1>5. UNCHANGED <<image, funcTable, stepping, moved, left>> /\ stepping = NoHit
  BY DEF OnXThirdBreakpoint, DebuggeeInv, OpcodeOK
<1>6. KnownOK'
  BY <1>5 DEF DebuggeeInv, KnownOK, IsAt, Homes, Exported
<1>7. ListOK(planted)'
  BY <1>2, <1>4, <1>5 DEF ListOK, Spots
<1>8. OpcodeOK'
  BY <1>2, <1>4, <1>5 DEF OpcodeOK
<1>. QED  BY <1>6, <1>7, <1>8 DEF DebuggeeInv

LEMMA BreakpointKeeps ==
    ASSUME DebuggeeInv, NEW a \in broken, OnXBreakpointAt(a)
    PROVE  DebuggeeInv'
<1>1. PICK i \in Listed(a) :
         /\ stepping' = planted[i]
         /\ broken' = IF planted[i].code = "brk" THEN broken ELSE broken \ {a}
  BY DEF OnXBreakpointAt
<1>2. i \in 1 .. Len(planted) /\ planted[i].at = a
  BY DEF Listed
<1>3. UNCHANGED <<image, funcTable, planted, moved, left, phase>> /\ phase = "set"
      /\ (stepping = NoHit \/ stepping.at = a)
  BY DEF OnXBreakpointAt
<1>4. KnownOK' /\ ListOK(planted)'
  BY <1>3 DEF DebuggeeInv, KnownOK, IsAt, Homes, Exported, ListOK, Spots
<1>5. \A k \in 1 .. Len(planted) : planted[k].at # NoHit.at
  <2>. TAKE k \in 1 .. Len(planted)
  <2> DEFINE Hit == [name : DOMAIN funcTable, at : Spots, code : {"code", "brk"}]
  <2>1. planted \in Seq(Hit) /\ planted[k].at = funcTable[planted[k].name]
    BY DEF DebuggeeInv, ListOK
  <2>2. planted[k] \in Hit
    <3>. HIDE DEF Hit
    <3>. QED  BY <2>1
  <2>3. planted[k].name \in DOMAIN funcTable
    BY <2>2
  <2>4. PICK b \in Base, x \in {funcTable[planted[k].name][2]} : planted[k].at = <<b, x>>
    BY <2>1, <2>3 DEF DebuggeeInv, KnownOK
  <2>5. Len(<<b, x>>) = 2 /\ Len(<<>>) = 0
    OBVIOUS
  <2>6. NoHit.at = <<>>
    BY DEF NoHit
  <2>. QED  BY <2>4, <2>5, <2>6
<1>6. OpcodeOK'
  <2>1. OpcodeOK
    BY DEF DebuggeeInv
  <2>2. broken' \subseteq {planted[k].at : k \in 1 .. Len(planted)}
    BY <1>1, <2>1 DEF OpcodeOK
  <2>3. \A k \in 1 .. Len(planted) :
           planted[k].at[1] \in left \/ planted[k].at \in broken' \/ planted[k].at = planted[i].at
    <3>. TAKE k \in 1 .. Len(planted)
    <3>1. planted[k].at[1] \in left \/ planted[k].at \in broken \/ planted[k].at = stepping.at
      BY <2>1 DEF OpcodeOK
    <3>2. planted[k].at = stepping.at => planted[k].at = a
      BY <1>3, <1>5
    <3>. QED  BY <1>1, <1>2, <3>1, <3>2
  <2>. QED  BY <1>1, <1>2, <1>3, <2>2, <2>3 DEF OpcodeOK
<1>. QED  BY <1>4, <1>6 DEF DebuggeeInv

LEMMA StepOverKeeps ==
    ASSUME DebuggeeInv, OnXSingleStepAt
    PROVE  DebuggeeInv'
<1>1. /\ stepping # NoHit /\ broken' = broken \union {stepping.at} /\ stepping' = NoHit
      /\ UNCHANGED <<image, funcTable, planted, moved, left, phase>>
  BY DEF OnXSingleStepAt
<1>2. KnownOK' /\ ListOK(planted)'
  BY <1>1 DEF DebuggeeInv, KnownOK, IsAt, Homes, Exported, ListOK, Spots
<1>3. OpcodeOK'
  BY <1>1 DEF DebuggeeInv, OpcodeOK
<1>. QED  BY <1>2, <1>3 DEF DebuggeeInv

LEMMA OthersKeep ==
    ASSUME DebuggeeInv, UNCHANGED <<image, funcTable, planted, broken, stepping, moved, left>>,
           phase' # "starts" \/ phase' = phase
    PROVE  DebuggeeInv'
<1>1. KnownOK'
  BY DEF DebuggeeInv, KnownOK, IsAt, Homes, Exported
<1>2. ListOK(planted)'
  BY DEF DebuggeeInv, ListOK, Spots
<1>3. OpcodeOK'
  BY DEF DebuggeeInv, OpcodeOK
<1>. QED  BY <1>1, <1>2, <1>3 DEF DebuggeeInv

LEMMA DebuggeeKeeps == DebuggeeInv /\ [DebuggeeNext]_dbgeVars => DebuggeeInv'
<1>. SUFFICES ASSUME DebuggeeInv, [DebuggeeNext]_dbgeVars PROVE DebuggeeInv'
  OBVIOUS
<1>1. CASE \E b \in Base : OnXUnloadDll(b) \/ \E img \in Image : OnXLoadDll(b, img)
  BY <1>1, UnloadKeeps, LoadKeeps
<1>2. CASE OnXThirdBreakpoint
  BY <1>2, ThirdBreakpointKeeps
<1>3. CASE \E a \in broken : OnXBreakpointAt(a)
  BY <1>3, BreakpointKeeps
<1>4. CASE OnXSingleStepAt
  BY <1>4, StepOverKeeps
<1>5. CASE MakeSubprocessMemoryFails
  BY <1>5, OthersKeep DEF MakeSubprocessMemoryFails
<1>6. CASE OnXSecondChanceException
  BY <1>6, OthersKeep DEF OnXSecondChanceException
<1>7. CASE OnXRip
  BY <1>7, OthersKeep DEF OnXRip
<1>8. CASE UNCHANGED dbgeVars
  BY <1>8, OthersKeep DEF dbgeVars
<1>. QED  BY <1>1, <1>2, <1>3, <1>4, <1>5, <1>6, <1>7, <1>8 DEF DebuggeeNext

LEMMA DebuggeePlanted == DebuggeeInv => Planted
<1>. SUFFICES ASSUME DebuggeeInv PROVE Planted
  OBVIOUS
<1> DEFINE Hit == [name : DOMAIN funcTable, at : Spots, code : {"code", "brk"}]
<1>1. planted \in Seq(Hit)
  BY DEF DebuggeeInv, ListOK
<1>2. \A i \in 1 .. Len(planted) : planted[i] \in Hit /\ DOMAIN planted = 1 .. Len(planted)
  <2>. HIDE DEF Hit
  <2>. QED  BY <1>1
<1>3. broken \subseteq {p.at : p \in Range(planted)}
  <2>1. \A i \in 1 .. Len(planted) : planted[i] \in Range(planted)
    BY <1>2 DEF Range
  <2>. QED  BY <2>1 DEF DebuggeeInv, OpcodeOK
<1>4. \A i \in 1 .. Len(planted) : LET p == planted[i] IN p.at[1] \notin left =>
         /\ p.name \in moved \/ \E b \in Homes(p.name) : \E n \in 1 .. Len(image[b].names) :
                                image[b].names[n] = p.name /\ p.at = Exported(b, image[b], n)
         /\ p.code = "code" \/ \E j \in 1 .. i - 1 : planted[j].at = p.at
         /\ p.at \in broken \/ p.at = stepping.at
  <2>. SUFFICES ASSUME NEW i \in 1 .. Len(planted), planted[i].at[1] \notin left
                PROVE  /\ planted[i].name \in moved \/ IsAt(planted[i].name, planted[i].at)
                       /\ planted[i].code = "code" \/ \E j \in 1 .. i - 1 : planted[j].at = planted[i].at
                       /\ planted[i].at \in broken \/ planted[i].at = stepping.at
    BY DEF IsAt
  <2>1. planted[i].name \in DOMAIN funcTable /\ planted[i].code \in {"code", "brk"}
    BY <1>2
  <2>2. /\ planted[i].at = funcTable[planted[i].name]
        /\ planted[i].code = "brk" => \E j \in 1 .. i - 1 : planted[j].at = planted[i].at
    BY DEF DebuggeeInv, ListOK
  <2>. QED  BY <2>1, <2>2 DEF DebuggeeInv, KnownOK, OpcodeOK
<1>. QED  BY <1>3, <1>4 DEF Planted

\* Whatever the slave loads and unloads, and whichever pages refuse, a breakpoint
\* is on the function of its name, saved the original byte, and is in the list if
\* and only if the opcode is in the slave (SetBreakpoint, OnXLoadDll).
THEOREM PlantedCorrect == DebuggeeSpec => []Planted
<1>1. DebuggeeInit => DebuggeeInv
  BY DebuggeeStarts
<1>2. DebuggeeInv /\ [DebuggeeNext]_dbgeVars => DebuggeeInv'
  BY DebuggeeKeeps
<1>3. DebuggeeInv => Planted
  BY DebuggeePlanted
<1>. QED  BY <1>1, <1>2, <1>3, PTL DEF DebuggeeSpec
-----------------------------------------------------------------------------
(***************************************************************************)
(* The memory of a slave.                                                  *)
(***************************************************************************)
LEMMA FirstIsOne ==
    ASSUME NEW ps \in Runs
    PROVE  ps \subseteq Page /\ FirstOf(ps) \in ps /\ \A q \in ps : FirstOf(ps) <= q
<1>1. PICK p \in Page, q \in Page : ps = p .. q /\ ps # {}
  BY DEF Runs
<1>2. p \in ps /\ \A r \in ps : p <= r
  BY <1>1, SlaveMemoryAssumption
<1>3. FirstOf(ps) \in ps /\ \A r \in ps : FirstOf(ps) <= r
  BY <1>2 DEF FirstOf
<1>. QED  BY <1>1, <1>3, SlaveMemoryAssumption

\* An access closes what it opened: with the protection of the first page, which
\* all the others had.
LEMMA AccessRestores ==
    ASSUME NEW pr \in [Page -> Protections], NEW ps, FirstOf(ps) \in ps,
           \A p, q \in ps : pr[p] = pr[q],
           NEW asis, NEW opened, NEW can
    PROVE  Access(pr, ps, asis, opened, can).pages = pr
<1> DEFINE now == Protect(pr, ps, opened)
           back == Restore(now, ps, pr[FirstOf(ps)])
<1>1. now = [p \in Page |-> IF p \in ps THEN opened ELSE pr[p]]
  BY DEF Protect
<1>2. back = [p \in Page |-> IF p \in ps THEN pr[FirstOf(ps)] ELSE now[p]]
  BY <1>1 DEF Restore, Protect
<1>3. \A p \in Page : back[p] = pr[p]
  BY <1>1, <1>2
<1>4. back = pr
  BY <1>2, <1>3
<1>5. ASSUME pr[FirstOf(ps)] \notin asis /\ MayProtect(pr, ps)
      PROVE  Access(pr, ps, asis, opened, can).pages = back
  BY <1>5 DEF Access
<1>6. ASSUME ~(pr[FirstOf(ps)] \notin asis /\ MayProtect(pr, ps))
      PROVE  Access(pr, ps, asis, opened, can).pages = pr
  BY <1>6 DEF Access
<1>. QED  BY <1>4, <1>5, <1>6

LEMMA ReadRestores ==
    ASSUME NEW pr \in [Page -> Protections], NEW ps, FirstOf(ps) \in ps,
           \A p, q \in ps : pr[p] = pr[q]
    PROVE  ReadSubprocessMemory(pr, ps).pages = pr
BY AccessRestores DEF ReadSubprocessMemory

LEMMA WriteRestores ==
    ASSUME NEW pr \in [Page -> Protections], NEW ps, FirstOf(ps) \in ps,
           \A p, q \in ps : pr[p] = pr[q]
    PROVE  WriteSubprocessMemory(pr, ps).pages = pr
BY AccessRestores DEF WriteSubprocessMemory

\* What an access got it says that it got.
LEMMA GotIsOk ==
    ASSUME NEW pr, NEW ps
    PROVE  /\ ReadSubprocessMemory(pr, ps).got => ReadSubprocessMemory(pr, ps).ok
           /\ WriteSubprocessMemory(pr, ps).got => WriteSubprocessMemory(pr, ps).ok
<1>1. CASE pr[FirstOf(ps)] = "free"
  BY <1>1 DEF ReadSubprocessMemory, WriteSubprocessMemory
<1>2. CASE pr[FirstOf(ps)] # "free"
  BY <1>2 DEF ReadSubprocessMemory, WriteSubprocessMemory
<1>. QED  BY <1>1, <1>2

LEMMA SingleFirst ==
    ASSUME NEW p
    PROVE  FirstOf({p}) \in {p}
BY DEF FirstOf

LEMMA AccessTyped ==
    ASSUME NEW pr \in [Page -> Protections], NEW ps, FirstOf(ps) \in ps, ps \subseteq Page,
           NEW asis, NEW opened \in Protections, NEW can
    PROVE  Access(pr, ps, asis, opened, can).pages \in [Page -> Protections]
<1> DEFINE now == Protect(pr, ps, opened)
           back == Restore(now, ps, pr[FirstOf(ps)])
<1>1. now \in [Page -> Protections]
  BY DEF Protect
<1>2. pr[FirstOf(ps)] \in Protections
  OBVIOUS
<1>3. back \in [Page -> Protections]
  BY <1>1, <1>2 DEF Restore, Protect
<1>4. Access(pr, ps, asis, opened, can).pages \in {pr, back}
  BY DEF Access
<1>. QED  BY <1>3, <1>4

LEMMA MemoryTyped ==
    ASSUME NEW pr \in [Page -> Protections], NEW ps, FirstOf(ps) \in ps, ps \subseteq Page
    PROVE  /\ ReadSubprocessMemory(pr, ps).pages \in [Page -> Protections]
           /\ WriteSubprocessMemory(pr, ps).pages \in [Page -> Protections]
           /\ ReadSubprocessMemory(pr, ps).got \in BOOLEAN
           /\ WriteSubprocessMemory(pr, ps).got \in BOOLEAN
<1>1. "r" \in Protections /\ "rw" \in Protections
  BY DEF Protections, Committed
<1>2. \A asis, can : /\ Access(pr, ps, asis, "r", can).pages \in [Page -> Protections]
                     /\ Access(pr, ps, asis, "rw", can).pages \in [Page -> Protections]
  BY <1>1, AccessTyped
<1>3. \A asis, opened, can : Access(pr, ps, asis, opened, can).done \in BOOLEAN
  BY DEF Access
<1>4. /\ ReadSubprocessMemory(pr, ps).pages \in [Page -> Protections]
      /\ ReadSubprocessMemory(pr, ps).got \in BOOLEAN
  BY <1>2, <1>3 DEF ReadSubprocessMemory
<1>5. /\ WriteSubprocessMemory(pr, ps).pages \in [Page -> Protections]
      /\ WriteSubprocessMemory(pr, ps).got \in BOOLEAN
  BY <1>2, <1>3 DEF WriteSubprocessMemory
<1>. QED  BY <1>4, <1>5

\* Every variable of SlaveMemory keeps its type.
LEMMA MemTyped == MemSpec => []MemTypeOK
<1>1. MemInit => MemTypeOK
  BY DEF MemInit, MemTypeOK, Protections, Committed
<1>2. MemTypeOK /\ [MemNext]_memVars => MemTypeOK'
  <2>. SUFFICES ASSUME MemTypeOK, [MemNext]_memVars PROVE MemTypeOK'
    OBVIOUS
  <2>1. ASSUME NEW ps \in Runs, Answer(ReadSubprocessMemory(prot, ps)), mixed' = Mixed(ps)
        PROVE  MemTypeOK'
    <3>1. prot' \in [Page -> Protections] /\ filled' \in BOOLEAN /\ answer' \in {"yes", "no"}
      BY <2>1, FirstIsOne, MemoryTyped DEF Answer, MemTypeOK
    <3>2. mixed' \in BOOLEAN
      BY <2>1 DEF Mixed, MemTypeOK
    <3>. QED  BY <3>1, <3>2 DEF MemTypeOK
  <2>2. ASSUME NEW p \in Page, Answer(WriteSubprocessMemory(prot, {p})), UNCHANGED mixed
        PROVE  MemTypeOK'
    <3>1. prot' \in [Page -> Protections] /\ filled' \in BOOLEAN /\ answer' \in {"yes", "no"}
      BY <2>2, SingleFirst, MemoryTyped DEF Answer, MemTypeOK
    <3>. QED  BY <2>2, <3>1 DEF MemTypeOK
  <2>3. CASE ReadSubprocessString
    <3>1. PICK ps \in Runs : /\ answer' = "yes"
                             /\ filled' = \A p \in ps : ReadSubprocessMemory(prot, {p}).got
                             /\ \E read : prot' = [p \in Page |-> IF p \in read
                                     THEN ReadSubprocessMemory(prot, {p}).pages[p] ELSE prot[p]]
                             /\ UNCHANGED mixed
      BY <2>3 DEF ReadSubprocessString
    <3>2. \A p \in Page : ReadSubprocessMemory(prot, {p}).pages[p] \in Protections
      BY SingleFirst, MemoryTyped DEF MemTypeOK
    <3>3. prot' \in [Page -> Protections]
      BY <3>1, <3>2 DEF MemTypeOK
    <3>. QED  BY <3>1, <3>3 DEF MemTypeOK
  <2>4. CASE SlaveProtects
    BY <2>4 DEF SlaveProtects, MemTypeOK
  <2>5. CASE UNCHANGED memVars
    BY <2>5 DEF memVars, MemTypeOK
  <2>. QED  BY <2>1, <2>2, <2>3, <2>4, <2>5 DEF MemNext, ReadArgument, WriteByte
<1>. QED  BY <1>1, <1>2, PTL DEF MemSpec

\* No access of the debugger leaves behind pages with another protection than
\* the slave gave them, and each that got what it asked for says so, whatever
\* the pages are and whoever changed them before (Undisturbed of SlaveMemory:
\* ReadSubprocessMemory and WriteSubprocessMemory open pages and close them).
THEOREM LeavesUndisturbed == MemSpec => Undisturbed
<1> DEFINE Leaves == answer' # "none" => (prot' = prot \/ mixed') /\ (filled' => answer' = "yes")
<1>1. MemTypeOK /\ [MemNext]_memVars => [Leaves]_memVars
  <2>. SUFFICES ASSUME MemTypeOK, MemNext, answer' # "none"
                PROVE  (prot' = prot \/ mixed') /\ (filled' => answer' = "yes")
    OBVIOUS
  <2>1. ASSUME NEW ps \in Runs, Answer(ReadSubprocessMemory(prot, ps)), mixed' = Mixed(ps)
        PROVE  (prot' = prot \/ mixed') /\ (filled' => answer' = "yes")
    <3>1. filled' => answer' = "yes"
      BY <2>1, GotIsOk DEF Answer
    <3>2. ASSUME ~mixed' PROVE prot' = prot
      <4>1. \A p, q \in ps : prot[p] = prot[q]
        BY <2>1, <3>2 DEF Mixed
      <4>. QED  BY <2>1, <4>1, FirstIsOne, ReadRestores DEF Answer, MemTypeOK
    <3>. QED  BY <3>1, <3>2
  <2>2. ASSUME NEW p \in Page, Answer(WriteSubprocessMemory(prot, {p}))
        PROVE  prot' = prot /\ (filled' => answer' = "yes")
    <3>1. filled' => answer' = "yes"
      BY <2>2, GotIsOk DEF Answer
    <3>2. prot' = prot
      BY <2>2, SingleFirst, WriteRestores DEF Answer, MemTypeOK
    <3>. QED  BY <3>1, <3>2
  <2>3. CASE ReadSubprocessString
    <3>1. answer' = "yes" /\ \E read : prot' = [p \in Page |-> IF p \in read
                                     THEN ReadSubprocessMemory(prot, {p}).pages[p] ELSE prot[p]]
      BY <2>3 DEF ReadSubprocessString
    <3>2. \A p \in Page : ReadSubprocessMemory(prot, {p}).pages = prot
      BY SingleFirst, ReadRestores DEF MemTypeOK
    <3>3. prot' = prot
      BY <3>1, <3>2 DEF MemTypeOK
    <3>. QED  BY <3>1, <3>3
  <2>4. ~SlaveProtects
    BY DEF SlaveProtects
  <2>. QED  BY <2>1, <2>2, <2>3, <2>4 DEF MemNext, ReadArgument, WriteByte
<1>. QED  BY <1>1, MemTyped, PTL DEF MemSpec, Undisturbed

-----------------------------------------------------------------------------
(***************************************************************************)
(* Log, for any channels, files and spawn ids.  Expect's own files and the *)
(* log it was told of are kept apart, and each way of writing is compared  *)
(* with them.                                                              *)
(***************************************************************************)
Shown == {"stdout", "stderr", user}

\* Places of x in s.
Places(s, x) == {k \in DOMAIN s : s[k] = x}

\* Expect's own files are open exactly as long as they are used, for one thing
\* each; a channel of the script is logged to without a name.
FilesRight ==
    /\ registered \subseteq Channel
    /\ log \in [channel : Channel \union {Null}, filename : File \union {Null},
                all : BOOLEAN, leaveOpen : BOOLEAN, user : BOOLEAN]
    /\ diag \in [channel : Pool \union {Null}, toStderr : BOOLEAN]
    /\ log.filename # Null => log.channel \in Pool
    /\ log.filename = Null => log.channel \in Script \union {Null}
    /\ registered \intersect Pool = {diag.channel, IF log.filename = Null THEN Null ELSE log.channel} \ {Null}
    /\ log.channel # Null => log.channel # diag.channel
    /\ log.channel = Null => ~log.all /\ log.filename = Null

\* What is written, for a log and a file of diagnostics that are c and d.
Shows(writes, c) ==
    /\ Null \notin ToSet(writes)
    /\ ToSet(writes) \intersect Shown # {} /\ c # Null => Cardinality(Places(writes, c)) = 1

LogInv == FilesRight /\ Shows(wrote, log.channel)

LEMMA NamesApart ==
    /\ \A c \in Channel \union {Null} : c \notin Shown
    /\ Null \notin Channel /\ Null \notin File /\ Null \notin Pool /\ Null \notin Script
    /\ Pool \intersect Script = {} /\ ReadOnly \subseteq Script /\ Channel = Pool \union Script
BY LogAssumption DEF Shown, Channel

\* A channel that is between two lists without it is written to once.
LEMMA OnceBetween ==
    ASSUME NEW S, NEW p \in Seq(S), NEW q \in Seq(S), NEW x \in S,
           x \notin ToSet(p), x \notin ToSet(q)
    PROVE  Cardinality(Places((p \o <<x>>) \o q, x)) = 1
<1> DEFINE m == p \o <<x>>
           w == m \o q
<1>1. <<x>> \in Seq(S) /\ Len(<<x>>) = 1 /\ <<x>>[1] = x /\ Len(p) \in Nat /\ Len(q) \in Nat
  OBVIOUS
<1>2. /\ m \in Seq(S) /\ Len(m) = Len(p) + 1
      /\ \A place \in 1 .. Len(p) + 1 : m[place] = IF place <= Len(p) THEN p[place] ELSE <<x>>[place - Len(p)]
  BY ONLY <1>1, p \in Seq(S), ConcatProperties
<1>. HIDE DEF m
<1>3. /\ w \in Seq(S) /\ Len(w) = Len(m) + Len(q)
      /\ \A place \in 1 .. Len(m) + Len(q) : w[place] = IF place <= Len(m) THEN m[place] ELSE q[place - Len(m)]
  <2>1. m \in Seq(S) /\ q \in Seq(S)
    BY <1>2
  <2>. QED  BY ONLY <2>1, ConcatProperties
<1>. HIDE DEF w
<1>4. (\A k \in 1 .. Len(p) : p[k] # x) /\ (\A k \in 1 .. Len(q) : q[k] # x)
  BY DEF ToSet
<1>5. DOMAIN w = 1 .. (Len(p) + 1) + Len(q)
  BY <1>2, <1>3
<1>6. w[Len(p) + 1] = x /\ Len(p) + 1 \in DOMAIN w
  BY <1>1, <1>2, <1>3, <1>5
<1>7. ASSUME NEW k \in DOMAIN w, w[k] = x PROVE k = Len(p) + 1
  <2>0. k \in Int /\ 1 <= k /\ k <= (Len(p) + 1) + Len(q)
    BY <1>1, <1>5
  <2>1. CASE k <= Len(p)
    <3>1. w[k] = p[k] /\ k \in 1 .. Len(p)
      BY <1>1, <1>2, <1>3, <2>0, <2>1
    <3>. QED  BY <1>4, <1>7, <3>1
  <2>2. CASE k > Len(p) + 1
    <3>1. w[k] = q[k - Len(m)] /\ k - Len(m) \in 1 .. Len(q)
      BY <1>1, <1>2, <1>3, <2>0, <2>2
    <3>. QED  BY <1>4, <1>7, <3>1
  <2>. QED  BY <1>1, <2>0, <2>1, <2>2
<1>8. Places(w, x) = {Len(p) + 1}
  BY <1>6, <1>7 DEF Places
<1>9. Cardinality({Len(p) + 1}) = 1
  BY FS_Singleton
<1>. QED  BY <1>8, <1>9 DEF w, m

-----------------------------------------------------------------------------
(***************************************************************************)
(* The texts that are not sent to a process.                               *)
(***************************************************************************)
Line == Channel \union Shown

LEMMA SetOfConcat ==
    ASSUME NEW S, NEW a \in Seq(S), NEW b \in Seq(S)
    PROVE  ToSet(a \o b) = ToSet(a) \union ToSet(b)
<1>1. Range(a \o b) = Range(a) \union Range(b)
  BY RangeConcatenation
<1>2. \A s : ToSet(s) = Range(s)
  BY DEF ToSet, Range
<1>. QED  BY <1>1, <1>2

LEMMA TypedConcat ==
    ASSUME NEW S, NEW a \in Seq(S), NEW b \in Seq(S)
    PROVE  a \o b \in Seq(S)
BY ConcatProperties

LEMMA GroupedConcat ==
    ASSUME NEW S, NEW a \in Seq(S), NEW b \in Seq(S), NEW c \in Seq(S)
    PROVE  (a \o b) \o c = a \o (b \o c)
BY ConcatAssociative

LEMMA EmptyConcat ==
    ASSUME NEW S, NEW a \in Seq(S)
    PROVE  a \o <<>> = a /\ <<>> \o a = a
BY ConcatEmptySeq

LEMMA TwoLines ==
    ASSUME NEW a \in Seq(Line), NEW b \in Seq(Line), NEW c, c = a \o b
    PROVE  c \in Seq(Line) /\ ToSet(c) = ToSet(a) \union ToSet(b)
BY TypedConcat, SetOfConcat

LEMMA OneLine ==
    ASSUME NEW x \in Line
    PROVE  <<x>> \in Seq(Line) /\ ToSet(<<x>>) = {x}
BY DEF ToSet

LEMMA NoLine == <<>> \in Seq(Line) /\ ToSet(<<>>) = {}
BY DEF ToSet

LEMMA ToIs ==
    ASSUME NEW c \in Channel \union {Null}
    PROVE  To(c) \in Seq(Line) /\ ToSet(To(c)) = {c} \ {Null}
<1>1. CASE c = Null
  BY <1>1, NoLine DEF To
<1>2. CASE c # Null
  <2>1. c \in Line
    BY <1>2 DEF Line
  <2>. QED  BY <1>2, <2>1, OneLine DEF To
<1>. QED  BY <1>1, <1>2

LEMMA WhenIs ==
    ASSUME NEW condition, NEW w \in Seq(Line)
    PROVE  /\ When(condition, w) \in Seq(Line)
           /\ ToSet(When(condition, w)) = IF condition THEN ToSet(w) ELSE {}
           /\ condition => When(condition, w) = w
BY NoLine DEF When

\* Who writes to the log, once, whenever the user is shown something.
LEMMA ShowsOnce ==
    ASSUME NEW w \in Seq(Line), NEW c \in Channel \union {Null},
           NEW p \in Seq(Line), NEW q \in Seq(Line), c \notin ToSet(p), c \notin ToSet(q),
           ToSet(w) \intersect Shown # {} /\ c # Null => w = (p \o <<c>>) \o q
    PROVE  Shows(w, c)
<1>1. Null \notin ToSet(w)
  <2>1. Null \notin Line
    BY NamesApart DEF Line
  <2>2. ToSet(w) \subseteq Line
    BY DEF ToSet
  <2>. QED  BY <2>1, <2>2
<1>2. ASSUME ToSet(w) \intersect Shown # {}, c # Null PROVE Cardinality(Places(w, c)) = 1
  <2>1. c \in Line
    BY <1>2 DEF Line
  <2>2. w = (p \o <<c>>) \o q
    BY <1>2
  <2>. QED  BY ONLY <2>1, <2>2, p \in Seq(Line), q \in Seq(Line), c \notin ToSet(p), c \notin ToSet(q), OnceBetween
<1>. QED  BY <1>1, <1>2 DEF Shows

LEMMA ShowsNothing ==
    ASSUME NEW c
    PROVE  Shows(<<>>, c)
BY NoLine DEF Shows

\* What FilesRight says of the two channels.
LEMMA TwoChannels ==
    ASSUME FilesRight
    PROVE  /\ log.channel \in Channel \union {Null} /\ diag.channel \in Channel \union {Null}
           /\ log.channel # Null => log.channel # diag.channel /\ log.channel \in Line
           /\ log.all => log.channel # Null
           /\ log.channel \notin Shown /\ diag.channel \notin Shown
           /\ log.all \in BOOLEAN /\ log.user \in BOOLEAN /\ diag.toStderr \in BOOLEAN
<1>1. log.channel \in Channel \union {Null} /\ diag.channel \in Channel \union {Null}
  BY DEF FilesRight, Channel
<1>2. log.all \in BOOLEAN /\ log.user \in BOOLEAN /\ diag.toStderr \in BOOLEAN
  BY DEF FilesRight
<1>3. log.channel \notin Shown /\ diag.channel \notin Shown
  BY <1>1, NamesApart
<1>. QED  BY <1>1, <1>2, <1>3 DEF FilesRight, Line

LEMMA LogDiagShows ==
    ASSUME FilesRight
    PROVE  Shows(expLogDiagU, log.channel)
<1> DEFINE c == log.channel
           d == diag.channel
           x == To(d)
           y == To(c)
           w == x \o y
<1>1. w \in Seq(Line) /\ ToSet(w) = ({d} \ {Null}) \union ({c} \ {Null})
  <2>1. /\ x \in Seq(Line) /\ ToSet(x) = {d} \ {Null}
        /\ y \in Seq(Line) /\ ToSet(y) = {c} \ {Null}
    BY TwoChannels, ToIs
  <2>. HIDE DEF c, d, x, y
  <2>2. w \in Seq(Line) /\ ToSet(w) = ToSet(x) \union ToSet(y)
    BY <2>1, TwoLines
  <2>. QED  BY <2>1, <2>2
<1>2. ToSet(w) \intersect Shown = {}
  BY <1>1, TwoChannels
<1>3. Null \notin ToSet(w)
  BY <1>1
<1>. QED  BY <1>2, <1>3 DEF Shows, expLogDiagU

LEMMA InteractionShows ==
    ASSUME FilesRight, NEW id
    PROVE  Shows(expLogInteractionU(id), log.channel)
<1> DEFINE c == log.channel
           d == diag.channel
           cond == log.all \/ (log.user /\ log.channel # Null)
           told == log.user /\ id \notin {user, tty} /\ user \notin gone
           a == When(cond, <<c>>)
           b == When(told, <<user>>)
           q == b \o To(d)
           w == (a \o b) \o To(d)
<1>1. /\ c \in Channel \union {Null} /\ d \in Channel \union {Null} /\ c \notin Shown /\ d \notin Shown
      /\ c # Null => c # d /\ c \in Line
      /\ cond => c # Null
  BY TwoChannels
<1>2. user \in Shown /\ user \in Line
  BY DEF Shown, Line
<1>3. b \in Seq(Line) /\ ToSet(b) = IF told THEN {user} ELSE {}
  BY <1>2, OneLine, WhenIs
<1>4. a \in Seq(Line) /\ ToSet(a) = IF cond THEN {c} ELSE {}
  <2>1. CASE cond
    BY <1>1, <2>1, OneLine, WhenIs
  <2>2. CASE ~cond
    BY <2>2, NoLine DEF When
  <2>. QED  BY <2>1, <2>2
<1>5. To(d) \in Seq(Line) /\ ToSet(To(d)) = {d} \ {Null}
  BY <1>1, ToIs
<1>6. cond => a = <<c>>
  BY DEF When
<1>. HIDE DEF a, b
<1>7. q \in Seq(Line) /\ ToSet(q) = ToSet(b) \union ToSet(To(d))
  BY <1>3, <1>5, TwoLines
<1>8. w = a \o q
  BY <1>3, <1>4, <1>5, GroupedConcat
<1>. HIDE DEF q, w
<1>9. w \in Seq(Line) /\ ToSet(w) = ToSet(a) \union ToSet(q)
  BY <1>4, <1>7, <1>8, TwoLines
<1>10. ASSUME ToSet(w) \intersect Shown # {}, c # Null PROVE w = (<<>> \o <<c>>) \o q
  <2>1. told
    BY <1>1, <1>3, <1>4, <1>5, <1>7, <1>9, <1>10
  <2>2. cond
    BY <1>10, <2>1
  <2>3. <<c>> \in Seq(Line)
    BY <1>1, <1>10, OneLine
  <2>4. <<>> \o <<c>> = <<c>>
    BY <2>3, EmptyConcat
  <2>. QED  BY <1>6, <1>8, <2>2, <2>4
<1>11. c \notin ToSet(q) \/ c = Null
  BY <1>1, <1>2, <1>3, <1>5, <1>7
<1>12. c = Null => c \notin ToSet(q)
  BY <1>2, <1>3, <1>5, <1>7, NamesApart
<1>13. Shows(w, c)
  <2>. HIDE DEF c
  <2>. QED  BY <1>1, <1>7, <1>9, <1>10, <1>11, <1>12, NoLine, ShowsOnce
<1>. QED  BY <1>13 DEF expLogInteractionU, w, a, b

LEMMA StdoutShows ==
    ASSUME FilesRight, NEW force \in BOOLEAN
    PROVE  Shows(expStdoutLogU(force), log.channel)
<1> DEFINE c == log.channel
           d == diag.channel
           some == log.user \/ force \/ log.all
           cond == log.all \/ ((log.user \/ force) /\ log.channel # Null)
           told == log.user \/ force
           p == To(d)
           a == When(cond, <<c>>)
           q == When(told, <<"stdout">>)
           v == (p \o a) \o q
           w == When(some, v)
<1>1. /\ c \in Channel \union {Null} /\ d \in Channel \union {Null} /\ c \notin Shown /\ d \notin Shown
      /\ c # Null => c # d /\ c \in Line
      /\ cond => c # Null
  BY TwoChannels
<1>2. "stdout" \in Shown /\ "stdout" \in Line
  BY DEF Shown, Line
<1>3. q \in Seq(Line) /\ ToSet(q) = IF told THEN {"stdout"} ELSE {}
  BY <1>2, OneLine, WhenIs
<1>4. a \in Seq(Line) /\ ToSet(a) = IF cond THEN {c} ELSE {}
  <2>1. CASE cond
    BY <1>1, <2>1, OneLine, WhenIs
  <2>2. CASE ~cond
    BY <2>2, NoLine DEF When
  <2>. QED  BY <2>1, <2>2
<1>5. p \in Seq(Line) /\ ToSet(p) = {d} \ {Null}
  BY <1>1, ToIs
<1>6. (cond => a = <<c>>) /\ (w = IF some THEN v ELSE <<>>)
  BY DEF When
<1>. HIDE DEF a, p, q, w
<1>7. p \o a \in Seq(Line) /\ ToSet(p \o a) = ToSet(p) \union ToSet(a)
  BY <1>4, <1>5, TwoLines
<1>8. v \in Seq(Line) /\ ToSet(v) = ToSet(p \o a) \union ToSet(q)
  BY <1>3, <1>7, TwoLines
<1>. HIDE DEF v
<1>9. w \in Seq(Line) /\ (w = v \/ (w = <<>> /\ ToSet(w) = {}))
  BY <1>6, <1>8, NoLine
<1>10. ASSUME ToSet(w) \intersect Shown # {}, c # Null PROVE w = (p \o <<c>>) \o q
  <2>1. w = v
    BY <1>9, <1>10
  <2>2. told
    BY <1>1, <1>3, <1>4, <1>5, <1>7, <1>8, <1>10, <2>1
  <2>3. cond
    BY <1>10, <2>2
  <2>. QED  BY <1>6, <2>1, <2>3 DEF v
<1>11. c \notin ToSet(p) /\ c \notin ToSet(q)
  BY <1>1, <1>2, <1>3, <1>5, NamesApart
<1>12. Shows(w, c)
  <2>. HIDE DEF c
  <2>. QED  BY <1>1, <1>3, <1>5, <1>9, <1>10, <1>11, ShowsOnce
<1>. QED  BY <1>12 DEF expStdoutLogU, w, v, p, q, a

LEMMA ErrorShows ==
    ASSUME FilesRight
    PROVE  Shows(expErrorLogU, log.channel)
<1> DEFINE c == log.channel
           d == diag.channel
           p == To(d) \o <<"stderr">>
           w == p \o To(c)
<1>1. /\ c \in Channel \union {Null} /\ d \in Channel \union {Null} /\ c \notin Shown /\ d \notin Shown
      /\ c # Null => c # d /\ c \in Line
  BY TwoChannels
<1>2. "stderr" \in Shown /\ "stderr" \in Line
  BY DEF Shown, Line
<1>3. /\ <<"stderr">> \in Seq(Line) /\ ToSet(<<"stderr">>) = {"stderr"}
      /\ To(d) \in Seq(Line) /\ ToSet(To(d)) = {d} \ {Null}
      /\ To(c) \in Seq(Line)
  BY <1>1, <1>2, OneLine, ToIs
<1>4. p \in Seq(Line) /\ ToSet(p) = ({d} \ {Null}) \union {"stderr"}
  <2>1. p \in Seq(Line) /\ ToSet(p) = ToSet(To(d)) \union ToSet(<<"stderr">>)
    BY <1>3, TwoLines
  <2>. HIDE DEF p
  <2>. QED  BY <1>3, <2>1
<1>. HIDE DEF p
<1>5. w \in Seq(Line)
  BY <1>3, <1>4, TypedConcat
<1>6. ASSUME c # Null PROVE w = (p \o <<c>>) \o <<>>
  <2>1. <<c>> \in Seq(Line)
    BY <1>1, <1>6, OneLine
  <2>2. p \o <<c>> \in Seq(Line)
    BY <1>4, <2>1, TypedConcat
  <2>3. (p \o <<c>>) \o <<>> = p \o <<c>>
    BY <2>2, EmptyConcat
  <2>. QED  BY <1>6, <2>3 DEF To
<1>7. c \notin ToSet(p) /\ c \notin ToSet(<<>>)
  BY <1>1, <1>2, <1>4, NoLine
<1>. HIDE DEF w
<1>8. Shows(w, c)
  <2>. HIDE DEF c
  <2>. QED  BY <1>1, <1>4, <1>5, <1>6, <1>7, NoLine, ShowsOnce
<1>. QED  BY <1>8 DEF expErrorLogU, w, p

LEMMA DiagShows ==
    ASSUME FilesRight
    PROVE  Shows(expDiagLogU, log.channel)
<1> DEFINE c == log.channel
           d == diag.channel
           e == <<"stderr">> \o To(c)
           b == When(diag.toStderr, e)
           p == To(d) \o <<"stderr">>
           w == To(d) \o b
<1>1. /\ c \in Channel \union {Null} /\ d \in Channel \union {Null} /\ c \notin Shown /\ d \notin Shown
      /\ c # Null => c # d /\ c \in Line
  BY TwoChannels
<1>2. "stderr" \in Shown /\ "stderr" \in Line
  BY DEF Shown, Line
<1>3. /\ <<"stderr">> \in Seq(Line) /\ ToSet(<<"stderr">>) = {"stderr"}
      /\ To(d) \in Seq(Line) /\ ToSet(To(d)) = {d} \ {Null}
      /\ To(c) \in Seq(Line) /\ ToSet(To(c)) = {c} \ {Null}
  BY <1>1, <1>2, OneLine, ToIs
<1>4. p \in Seq(Line) /\ ToSet(p) = ({d} \ {Null}) \union {"stderr"}
  <2>1. p \in Seq(Line) /\ ToSet(p) = ToSet(To(d)) \union ToSet(<<"stderr">>)
    BY <1>3, TwoLines
  <2>. HIDE DEF p
  <2>. QED  BY <1>3, <2>1
<1>5. e \in Seq(Line)
  BY <1>3, TypedConcat
<1>6. b \in Seq(Line) /\ ToSet(b) = (IF diag.toStderr THEN ToSet(e) ELSE {}) /\ (diag.toStderr => b = e)
  BY <1>5, WhenIs
<1>. HIDE DEF b
<1>7. w \in Seq(Line) /\ ToSet(w) = ({d} \ {Null}) \union ToSet(b)
  <2>1. w \in Seq(Line) /\ ToSet(w) = ToSet(To(d)) \union ToSet(b)
    BY <1>3, <1>6, TwoLines
  <2>. HIDE DEF w
  <2>. QED  BY <1>3, <2>1
<1>. HIDE DEF w
<1>8. ASSUME ToSet(w) \intersect Shown # {}, c # Null PROVE w = (p \o <<c>>) \o <<>>
  <2>1. diag.toStderr
    BY <1>1, <1>6, <1>7, <1>8
  <2>2. <<c>> \in Seq(Line) /\ To(c) = <<c>>
    BY <1>1, <1>8, OneLine DEF To
  <2>3. w = To(d) \o (<<"stderr">> \o <<c>>)
    BY <1>6, <2>1, <2>2 DEF w
  <2>4. (To(d) \o <<"stderr">>) \o <<c>> = To(d) \o (<<"stderr">> \o <<c>>)
    BY <1>3, <2>2, GroupedConcat
  <2>5. p \o <<c>> \in Seq(Line)
    BY <1>4, <2>2, TypedConcat
  <2>6. (p \o <<c>>) \o <<>> = p \o <<c>>
    BY <2>5, EmptyConcat
  <2>. QED  BY <2>3, <2>4, <2>6
<1>9. c \notin ToSet(p) /\ c \notin ToSet(<<>>)
  BY <1>1, <1>2, <1>4, NoLine
<1>10. Shows(w, c)
  <2>. HIDE DEF c, p
  <2>. QED  BY <1>1, <1>4, <1>7, <1>8, <1>9, NoLine, ShowsOnce
<1>. QED  BY <1>10 DEF expDiagLogU, w, b

-----------------------------------------------------------------------------
(***************************************************************************)
(* log_file, exp_internal and the channels of the script.                  *)
(***************************************************************************)
LEMMA FilesInit == LogInit => LogInv
<1>. SUFFICES ASSUME LogInit PROVE LogInv
  OBVIOUS
<1>1. /\ registered = Script /\ wrote = <<>>
      /\ log = [channel |-> Null, filename |-> Null, all |-> FALSE, leaveOpen |-> FALSE, user |-> TRUE]
      /\ diag = [channel |-> Null, toStderr |-> FALSE]
  BY DEF LogInit
<1>2. FilesRight
  BY <1>1, NamesApart DEF FilesRight
<1>. QED  BY <1>1, <1>2, ShowsNothing DEF LogInv

\* The log goes on, in another mode.
LEMMA LogGoesOn ==
    ASSUME FilesRight, UNCHANGED <<registered, diag>>, NEW all \in BOOLEAN, NEW shown \in BOOLEAN,
           all => log.channel # Null,
           log' = [log EXCEPT !.all = all, !.user = shown]
    PROVE  FilesRight'
<1>1. log' \in [channel : Channel \union {Null}, filename : File \union {Null},
                all : BOOLEAN, leaveOpen : BOOLEAN, user : BOOLEAN]
  BY DEF FilesRight
<1>2. log'.channel = log.channel /\ log'.filename = log.filename /\ log'.all = all
  BY DEF FilesRight
<1>. QED  BY <1>1, <1>2 DEF FilesRight

\* A log begins: on a file of Expect's own, or on a channel of the script.
LEMMA LogBegins ==
    ASSUME FilesRight, UNCHANGED diag, log.channel = Null,
           NEW c, NEW f, NEW all \in BOOLEAN, NEW leave \in BOOLEAN,
           log' = [channel |-> c, filename |-> f, all |-> all, leaveOpen |-> leave, user |-> log.user],
           \/ f \in File /\ c \in Pool \ registered /\ registered' = registered \union {c}
           \/ f = Null /\ c \in Script /\ UNCHANGED registered
    PROVE  FilesRight'
<1>1. /\ log.filename = Null /\ log.user \in BOOLEAN
      /\ registered \intersect Pool = {diag.channel} \ {Null}
      /\ diag.channel \in Pool \union {Null}
  BY DEF FilesRight
<1>2. /\ log'.channel = c /\ log'.filename = f /\ log'.all = all
      /\ diag' = diag
  OBVIOUS
<1>3. log' \in [channel : Channel \union {Null}, filename : File \union {Null},
                all : BOOLEAN, leaveOpen : BOOLEAN, user : BOOLEAN]
  BY <1>1, NamesApart
<1>4. registered' \subseteq Channel /\ diag' \in [channel : Pool \union {Null}, toStderr : BOOLEAN]
  BY NamesApart DEF FilesRight
<1>5. c # Null /\ c # diag.channel
  BY <1>1, NamesApart
<1>6. registered' \intersect Pool = {diag.channel, IF f = Null THEN Null ELSE c} \ {Null}
  BY <1>1, <1>5, NamesApart
<1>7. (f # Null => c \in Pool) /\ (f = Null => c \in Script)
  BY NamesApart
<1>. QED  BY <1>2, <1>3, <1>4, <1>5, <1>6, <1>7 DEF FilesRight

\* A log ends.  Its file is closed unless it is the script's to keep.
LEMMA LogEnds ==
    ASSUME FilesRight, UNCHANGED diag, NEW leave \in BOOLEAN,
           registered' = expLogChannelClose.registered,
           log' = [channel |-> Null, filename |-> Null, all |-> FALSE, leaveOpen |-> leave, user |-> log.user]
    PROVE  FilesRight'
<1>1. /\ registered' = IF log.filename = Null /\ log.leaveOpen THEN registered
                       ELSE registered \ {log.channel}
  BY DEF expLogChannelClose
<1>2. /\ log'.channel = Null /\ log'.filename = Null /\ log'.all = FALSE
      /\ diag' = diag /\ log.user \in BOOLEAN
  BY DEF FilesRight
<1>3. log' \in [channel : Channel \union {Null}, filename : File \union {Null},
                all : BOOLEAN, leaveOpen : BOOLEAN, user : BOOLEAN]
  BY <1>2
<1>4. registered' \intersect Pool = {diag.channel} \ {Null}
  <2>1. CASE log.filename = Null
    BY <1>1, <2>1, NamesApart DEF FilesRight
  <2>2. CASE log.filename # Null
    BY <1>1, <2>2, NamesApart DEF FilesRight
  <2>. QED  BY <2>1, <2>2
<1>5. registered' \subseteq Channel /\ diag' \in [channel : Pool \union {Null}, toStderr : BOOLEAN]
  BY <1>1 DEF FilesRight
<1>. QED  BY <1>2, <1>3, <1>4, <1>5 DEF FilesRight

LEMMA LogFileKeeps ==
    ASSUME FilesRight, NEW given \in Args, LogFile(given)
    PROVE  FilesRight'
<1>1. /\ given.channel \in Script \union {Null} /\ given.leave \in BOOLEAN
      /\ given.file \in File \union {Null} /\ given.all \in BOOLEAN
  BY DEF Args
<1>2. /\ log \in [channel : Channel \union {Null}, filename : File \union {Null},
                  all : BOOLEAN, leaveOpen : BOOLEAN, user : BOOLEAN]
      /\ log.channel = Null => log.filename = Null
      /\ registered \subseteq Channel
  BY DEF FilesRight
<1>3. diag' = diag
  BY DEF LogFile
<1>4. CASE log.channel # Null /\ log' = [log EXCEPT !.all = given.all] /\ UNCHANGED registered
  <2>1. log' = [log EXCEPT !.all = given.all, !.user = log.user]
    BY <1>2, <1>4
  <2>. QED  BY <1>1, <1>2, <1>3, <1>4, <2>1, LogGoesOn
<1>5. CASE log.channel = Null /\ given.file # Null
           /\ \E channel \in OpenFile :
                 /\ registered' = registered \union {channel}
                 /\ log' = Opened(channel, [log EXCEPT !.filename = given.file], given)
  <2>1. PICK channel \in OpenFile :
                 /\ registered' = registered \union {channel}
                 /\ log' = Opened(channel, [log EXCEPT !.filename = given.file], given)
    BY <1>5
  <2>2. log' = [channel |-> channel, filename |-> given.file, all |-> given.all,
                leaveOpen |-> given.leave, user |-> log.user]
    BY <1>2, <2>1 DEF Opened
  <2>3. given.file \in File /\ channel \in Pool \ registered
    BY <1>1, <1>5, <2>1 DEF OpenFile
  <2>. QED  BY <1>1, <1>3, <1>5, <2>1, <2>2, <2>3, LogBegins
<1>6. CASE /\ log.channel = Null /\ given.channel \in registered \ ReadOnly
           /\ log' = Opened(given.channel, log, given)
           /\ UNCHANGED registered
  <2>1. log' = [channel |-> given.channel, filename |-> Null, all |-> given.all,
                leaveOpen |-> given.leave, user |-> log.user]
    BY <1>2, <1>6 DEF Opened
  <2>2. given.channel \in Script
    BY <1>1, <1>2, <1>6, NamesApart
  <2>. QED  BY <1>1, <1>3, <1>6, <2>1, <2>2, LogBegins
<1>7. CASE /\ registered' = expLogChannelClose.registered
           /\ log' = IF given.all THEN expLogChannelClose.log
                     ELSE [expLogChannelClose.log EXCEPT !.leaveOpen = FALSE]
  <2>1. expLogChannelClose.log = [channel |-> Null, filename |-> Null, all |-> FALSE,
                                  leaveOpen |-> log.leaveOpen, user |-> log.user]
    BY <1>2 DEF expLogChannelClose
  <2>2. log.leaveOpen \in BOOLEAN
    BY <1>2
  <2>3. CASE given.all
    BY <1>3, <1>7, <2>1, <2>2, <2>3, LogEnds
  <2>4. CASE ~given.all
    <3>1. log' = [channel |-> Null, filename |-> Null, all |-> FALSE,
                  leaveOpen |-> FALSE, user |-> log.user]
      <4> DEFINE closed == expLogChannelClose.log
      <4>1. closed = [channel |-> Null, filename |-> Null, all |-> FALSE,
                      leaveOpen |-> log.leaveOpen, user |-> log.user]
        BY <2>1
      <4>2. log' = [closed EXCEPT !.leaveOpen = FALSE]
        BY <1>7, <2>4
      <4>. HIDE DEF closed
      <4>. QED  BY <4>1, <4>2
    <3>. QED  BY <1>3, <1>7, <3>1, LogEnds
  <2>. QED  BY <2>3, <2>4
<1>. QED  BY <1>4, <1>5, <1>6, <1>7 DEF LogFile

LEMMA LogUserKeeps ==
    ASSUME FilesRight, NEW value \in BOOLEAN, LogUser(value)
    PROVE  FilesRight'
<1>1. /\ log \in [channel : Channel \union {Null}, filename : File \union {Null},
                  all : BOOLEAN, leaveOpen : BOOLEAN, user : BOOLEAN]
      /\ log.all => log.channel # Null
  BY DEF FilesRight
<1>2. log' = [log EXCEPT !.all = log.all, !.user = value] /\ UNCHANGED <<registered, diag>>
  BY <1>1 DEF LogUser
<1>3. log.all \in BOOLEAN
  BY <1>1
<1>. QED  BY <1>1, <1>2, <1>3, LogGoesOn

\* The diagnostics get another channel, or none.
LEMMA DiagChanges ==
    ASSUME FilesRight, UNCHANGED log, NEW c \in Pool \union {Null}, NEW value \in BOOLEAN,
           diag' = [channel |-> c, toStderr |-> value],
           c \notin registered \ {diag.channel},
           registered' = (registered \ {diag.channel}) \union ({c} \ {Null})
    PROVE  FilesRight'
<1> DEFINE file == IF log.filename = Null THEN Null ELSE log.channel
<1>1. /\ log'.channel = log.channel /\ log'.filename = log.filename /\ log'.all = log.all
      /\ log' = log /\ diag'.channel = c
  OBVIOUS
<1>2. /\ registered \intersect Pool = {diag.channel, file} \ {Null}
      /\ file # Null => file # diag.channel /\ file \in Pool /\ file = log.channel
  BY NamesApart DEF FilesRight
<1>3. file # Null => file \in registered \ {diag.channel}
  BY <1>2
<1>4. (registered \ {diag.channel}) \intersect Pool = {file} \ {Null}
  BY <1>2
<1>5. registered' \intersect Pool = {c, file} \ {Null}
  BY <1>4, NamesApart
<1>6. registered' \subseteq Channel
  BY NamesApart DEF FilesRight
<1>7. log.channel # Null => log.channel # c
  <2>1. CASE log.filename = Null
    BY <2>1, NamesApart DEF FilesRight
  <2>2. CASE log.filename # Null
    BY <1>3, <2>2
  <2>. QED  BY <2>1, <2>2
<1>8. diag' \in [channel : Pool \union {Null}, toStderr : BOOLEAN]
  OBVIOUS
<1>. QED  BY <1>1, <1>5, <1>6, <1>7, <1>8 DEF FilesRight

LEMMA ExpInternalKeeps ==
    ASSUME FilesRight, NEW file \in BOOLEAN, NEW value \in BOOLEAN, ExpInternal(file, value)
    PROVE  FilesRight'
<1>1. diag.toStderr \in BOOLEAN /\ registered \subseteq Channel /\ UNCHANGED log
  BY DEF FilesRight, ExpInternal
<1>2. CASE ~file
  <2>1. registered' = registered \ {diag.channel} /\ diag' = [channel |-> Null, toStderr |-> value]
    BY <1>2 DEF ExpInternal
  <2>2. Null \notin registered \ {diag.channel}
    BY <1>1, NamesApart
  <2>3. registered' = (registered \ {diag.channel}) \union ({Null} \ {Null})
    BY <2>1
  <2>. QED  BY <1>1, <2>1, <2>2, <2>3, DiagChanges
<1>3. CASE file
  <2> DEFINE closed == registered \ {diag.channel}
  <2>1. PICK channel \in {Null} \union (Pool \ closed) :
               /\ registered' = IF channel = Null THEN closed ELSE closed \union {channel}
               /\ diag' = [channel |-> channel,
                           toStderr |-> IF channel = Null THEN diag.toStderr ELSE value]
    BY <1>3 DEF ExpInternal
  <2>2. channel \in Pool \union {Null} /\ channel \notin closed
    BY <1>1, <2>1, NamesApart
  <2>3. registered' = closed \union ({channel} \ {Null})
    BY <2>1
  <2>4. (IF channel = Null THEN diag.toStderr ELSE value) \in BOOLEAN
    BY <1>1
  <2>. QED  BY <1>1, <2>1, <2>2, <2>3, <2>4, DiagChanges
<1>. QED  BY <1>2, <1>3

LEMMA ScriptKeeps ==
    ASSUME FilesRight, NEW channel \in Script, ScriptOpen(channel) \/ ScriptClose(channel)
    PROVE  FilesRight'
<1>1. /\ UNCHANGED <<log, diag>>
      /\ registered' = registered \union {channel} \/ registered' = registered \ {channel}
  BY DEF ScriptOpen, ScriptClose
<1>2. channel \in Channel /\ channel \notin Pool
  BY NamesApart
<1>3. registered' \intersect Pool = registered \intersect Pool /\ registered' \subseteq Channel
  BY <1>1, <1>2 DEF FilesRight
<1>. QED  BY <1>1, <1>3 DEF FilesRight

LEMMA FilesKeep ==
    ASSUME FilesRight, UNCHANGED <<registered, log, diag>>
    PROVE  FilesRight'
BY DEF FilesRight

-----------------------------------------------------------------------------
(***************************************************************************)
(* Every step.                                                             *)
(***************************************************************************)
LEMMA SilentKeeps ==
    ASSUME FilesRight', wrote' = <<>>
    PROVE  LogInv'
<1>1. Shows(<<>>, log'.channel)
  BY ShowsNothing
<1>. QED  BY <1>1 DEF LogInv

LEMMA WritesKeep ==
    ASSUME FilesRight, UNCHANGED <<registered, log, diag>>, NEW w, Shows(w, log.channel), wrote' = w
    PROVE  LogInv'
BY FilesKeep DEF LogInv

LEMMA LogInvKept == LogInv /\ [LogNext]_logVars => LogInv'
<1>. SUFFICES ASSUME LogInv, [LogNext]_logVars PROVE LogInv'
  OBVIOUS
<1>1. FilesRight
  BY DEF LogInv
<1>2. CASE UNCHANGED logVars
  <2>1. UNCHANGED <<registered, log, diag, wrote>>
    BY <1>2 DEF logVars
  <2>. QED  BY <2>1, FilesKeep DEF LogInv
<1>3. ASSUME NEW id \in Id, Read(id) PROVE LogInv'
  <2>1. UNCHANGED <<registered, log, diag>> /\ wrote' = expLogInteractionU(id)
    BY <1>3 DEF Read, Write
  <2>. QED  BY <1>1, <2>1, InteractionShows, WritesKeep
<1>4. ASSUME NEW force \in BOOLEAN, Tell(force) PROVE LogInv'
  <2>1. UNCHANGED <<registered, log, diag>> /\ wrote' = expStdoutLogU(force)
    BY <1>4 DEF Tell, Write
  <2>. QED  BY <1>1, <2>1, StdoutShows, WritesKeep
<1>5. CASE Complain
  <2>1. UNCHANGED <<registered, log, diag>> /\ wrote' = expErrorLogU
    BY <1>5 DEF Complain, Write
  <2>. QED  BY <1>1, <2>1, ErrorShows, WritesKeep
<1>6. CASE Trace
  <2>1. UNCHANGED <<registered, log, diag>> /\ wrote' = expDiagLogU
    BY <1>6 DEF Trace, Write
  <2>. QED  BY <1>1, <2>1, DiagShows, WritesKeep
<1>7. CASE SendLog
  <2>1. UNCHANGED <<registered, log, diag>> /\ wrote' = expLogDiagU
    BY <1>7 DEF SendLog, Write
  <2>. QED  BY <1>1, <2>1, LogDiagShows, WritesKeep
<1>8. ASSUME NEW given \in Args, LogFile(given) PROVE LogInv'
  <2>1. wrote' = <<>>
    BY <1>8 DEF LogFile, Command
  <2>. QED  BY <1>1, <1>8, <2>1, LogFileKeeps, SilentKeeps
<1>9. ASSUME NEW value \in BOOLEAN, LogUser(value) PROVE LogInv'
  <2>1. wrote' = <<>>
    BY <1>9 DEF LogUser, Command
  <2>. QED  BY <1>1, <1>9, <2>1, LogUserKeeps, SilentKeeps
<1>10. ASSUME NEW file \in BOOLEAN, NEW value \in BOOLEAN, ExpInternal(file, value) PROVE LogInv'
  <2>1. wrote' = <<>>
    BY <1>10 DEF ExpInternal, Command
  <2>. QED  BY <1>1, <1>10, <2>1, ExpInternalKeeps, SilentKeeps
<1>11. ASSUME NEW channel \in Script, ScriptOpen(channel) \/ ScriptClose(channel) PROVE LogInv'
  <2>1. wrote' = <<>>
    BY <1>11 DEF ScriptOpen, ScriptClose, Command
  <2>. QED  BY <1>1, <1>11, <2>1, ScriptKeeps, SilentKeeps
<1>12. ASSUME NEW s \in Sends,
              SendRefused(s.style, s.var) \/ Send(s.list, s.default, s.style, s.var, s.text)
       PROVE  LogInv'
  <2>1. CASE SendRefused(s.style, s.var)
    BY <1>1, <2>1, FilesKeep, SilentKeeps DEF SendRefused
  <2>2. CASE Send(s.list, s.default, s.style, s.var, s.text)
    <3>1. /\ UNCHANGED <<registered, log, diag>>
          /\ wrote' = expDiagLogU \/ wrote' = expLogDiagU
      BY <2>2 DEF Send
    <3>. QED  BY <1>1, <3>1, DiagShows, LogDiagShows, WritesKeep
  <2>. QED  BY <1>12, <2>1, <2>2
<1>13. CASE SendPiece
  BY <1>1, <1>13, FilesKeep, SilentKeeps DEF SendPiece
<1>14. ASSUME NEW id, Spawn(id) PROVE LogInv'
  BY <1>1, <1>14, FilesKeep, SilentKeeps DEF Spawn
<1>15. ASSUME NEW id, Close(id) \/ Wait(id) PROVE LogInv'
  BY <1>1, <1>15, FilesKeep, SilentKeeps DEF Close, Wait
<1>. QED
  BY <1>2, <1>3, <1>4, <1>5, <1>6, <1>7, <1>8, <1>9, <1>10, <1>11, <1>12, <1>13, <1>14, <1>15
     DEF LogNext

LEMMA LogInvHolds == LogSpec => []LogInv
BY FilesInit, LogInvKept, PTL DEF LogSpec

LEMMA LogInvShows == LogInv => Transcript
BY DEF LogInv, FilesRight, Shows, Places, Shown, Transcript

(***************************************************************************)
(* The transcript is complete: for any channels, files, spawn ids and      *)
(* texts, what the user is shown while a log is open is written to the log *)
(* once, no text goes to a channel that is not there, and Expect's own     *)
(* files are open exactly as long as they are used, each for one thing     *)
(* (expStdoutLogU and its like test logAll and not logChannel, log_file,   *)
(* log_user and exp_internal change one without the other).                *)
(***************************************************************************)
THEOREM TranscriptKept == LogSpec => []Transcript
BY LogInvHolds, LogInvShows, PTL
-----------------------------------------------------------------------------
(***************************************************************************)
(* Sends: what a spawn id has of the text, and which of them are next.     *)
(***************************************************************************)
Plus(a, b, data) == a + b

Adding == INSTANCE FoldProofs WITH op <- Plus, step <- Plus

\* No character has less than one byte.
LEMMA SizeIs ==
    ASSUME NEW t \in Seq(1..3), NEW f \in 1..Len(t)
    PROVE  /\ Size(t, f, Len(t)) \in Nat /\ Size(t, f, Len(t)) >= Len(t) - f + 1
           /\ ToSet(t) = {1} => Size(t, f, Len(t)) = Len(t) - f + 1
<1> DEFINE s == SubSeq(t, f, Len(t))
           n == Len(t) - f + 1
<1>1. Len(t) \in Nat /\ n \in Nat /\ DOMAIN s = 1..n /\ \A k \in 1..n : s[k] = t[f + k - 1] /\ f + k - 1 \in 1..Len(t)
  OBVIOUS
<1>2. \A k \in 1..n : s[k] \in 1..3 /\ (ToSet(t) = {1} => s[k] = 1)
  <2>. TAKE k \in 1..n
  <2>1. s[k] = t[f + k - 1] /\ f + k - 1 \in 1..Len(t)
    BY <1>1
  <2>2. t[f + k - 1] \in 1..3 /\ t[f + k - 1] \in ToSet(t)
    BY <2>1 DEF ToSet
  <2>. QED  BY <2>1, <2>2
<1> HIDE DEF s, n
<1>3. PICK h : Adding!Trace(h, 0, s, 0, n) /\ Adding!Fold(0, s, 0) = h[n]
  BY ONLY <1>1, Adding!FoldTrace
<1>4. h[0] = 0 /\ \A k \in 1..n : h[k] = h[k - 1] + s[k]
  BY <1>3 DEF Adding!Trace, Plus
<1>5. Size(t, f, Len(t)) = h[n]
  <2>1. Size(t, f, Len(t)) = Adding!Fold(0, s, 0)
    BY DEF Size, s, Adding!Fold, Plus, FoldLeft, MapThenFoldSet, Adding!FoldLeft, Adding!MapThenFoldSet,
           Max, Adding!Max
  <2>. QED  BY <1>3, <2>1
<1>6. \A k \in 0..n : h[k] \in Nat /\ h[k] >= k /\ (ToSet(t) = {1} => h[k] = k)
  <2> DEFINE Good(k) == h[k] \in Nat /\ h[k] >= k /\ (ToSet(t) = {1} => h[k] = k)
             T == {k \in 0..n : ~Good(k)}
  <2>1. SUFFICES ASSUME T # {} PROVE FALSE
    BY <2>1
  <2>2. PICK m \in T : \A k \in T : m <= k
    <3>1. T \in SUBSET Nat
      BY <1>1
    <3>. HIDE DEF T
    <3>. QED  BY <2>1, <3>1, Adding!Least
  <2>3. m \in 0..n /\ ~Good(m)
    OBVIOUS
  <2>4. m # 0
    BY <1>4, <2>3
  <2>5. m - 1 \in 0..n /\ m \in 1..n /\ m - 1 \notin T
    BY <1>1, <2>2, <2>3, <2>4
  <2>6. Good(m - 1)
    BY <2>5
  <2>7. h[m] = h[m - 1] + s[m] /\ s[m] \in 1..3 /\ (ToSet(t) = {1} => s[m] = 1)
    BY <1>2, <1>4, <2>5
  <2>8. m - 1 \in Nat /\ m \in Nat
    BY ONLY <1>1, <2>5
  <2>9. \A a \in Nat, x \in 1..3 :
           a >= m - 1 => a + x \in Nat /\ a + x >= m /\ (x = 1 /\ a = m - 1 => a + x = m)
    BY ONLY <2>8
  <2>10. h[m] \in Nat /\ h[m] >= m /\ (ToSet(t) = {1} => h[m] = m)
    BY ONLY <2>6, <2>7, <2>9
  <2>. QED  BY ONLY <2>3, <2>10
<1>. QED  BY <1>1, <1>5, <1>6 DEF n

LEMMA MinOfTwo ==
    ASSUME NEW a \in Nat, NEW b \in Nat
    PROVE  Min({a, b}) \in {a, b} /\ Min({a, b}) <= a /\ Min({a, b}) <= b
<1> DEFINE m == CHOOSE x \in {a, b} : \A y \in {a, b} : x =< y
<1>1. \E x \in {a, b} : \A y \in {a, b} : x =< y
  OBVIOUS
<1>2. m \in {a, b} /\ \A y \in {a, b} : m =< y
  BY <1>1
<1>. QED  BY <1>2 DEF Min

\* The characters from the first to the one before c.
Upto(n) == [c \in 1..n |-> c]

\* A spawn id has the whole text.
Sated(has, s) ==
    /\ \E m \in Nat : has = Upto(m) /\ m >= Len(s.text)
                      /\ (m > Len(s.text) => s.style = "slow" /\ ToSet(s.text) # {1})

\* The first d have the whole text, the next one has m characters of it and those
\* behind nothing.
SentSoFar(s, has, d, m) ==
    /\ d \in 0..Len(s.list) /\ m \in 0..Len(s.text)
    /\ \A k \in 1..d : Sated(has[s.list[k]], s)
    /\ d < Len(s.list) => has[s.list[d + 1]] = Upto(m)
    /\ \A k \in (d + 2)..Len(s.list) : has[s.list[k]] = <<>>
    /\ s.targets # <<>> => /\ d < Len(s.list) /\ s.targets = SubSeq(s.list, d + 1, Len(s.list))
                           /\ m = s.next - 1 /\ s.next \in 1..Len(s.text)
                           /\ Timed(s.style, s.var) /\ (s.style = "plain" => s.next = 1)
    /\ s.targets = <<>> /\ s.rc = "ok" => d = Len(s.list)

Sound(s, has) ==
    /\ s \in [list : Seq(Id), targets : Seq(Id), style : Style, var : Seq(Int), text : Seq(1..3),
              next : Nat, rc : {"ok", "error", "fault"}]
    /\ s.style # "zero" =>
         /\ has \in [Id -> Seq(Nat)]
         /\ \A i, j \in 1..Len(s.list) : s.list[i] = s.list[j] => i = j
         /\ \E d, m \in Nat : SentSoFar(s, has, d, m)

SendInv == Sound(sending, got)

\* No spawn id is given twice.
GivenOnce == \A s \in Sends : \A i, j \in 1..Len(s.list) : s.list[i] = s.list[j] => i = j

LEMMA PieceIs ==
    ASSUME sending.text \in Seq(1..3), sending.var \in Seq(Int), sending.style \in {"plain", "slow", "human"},
           Timed(sending.style, sending.var), sending.next \in 1..Len(sending.text)
    PROVE  /\ Piece \in Nat /\ Piece >= 1
           /\ sending.style = "plain" => Piece = Len(sending.text)
           /\ sending.style = "human" => Piece = 1
           /\ sending.style = "slow" /\ ToSet(sending.text) = {1} => Piece <= Len(sending.text) - sending.next + 1
<1> DEFINE rest == Size(sending.text, sending.next, Len(sending.text))
<1>1. /\ rest \in Nat /\ rest >= Len(sending.text) - sending.next + 1
      /\ ToSet(sending.text) = {1} => rest = Len(sending.text) - sending.next + 1
      /\ Len(sending.text) \in Nat
  <2>1. /\ sending.text \in Seq(1..3) /\ sending.next \in 1..Len(sending.text)
        /\ rest = Size(sending.text, sending.next, Len(sending.text)) /\ Len(sending.text) \in Nat
    OBVIOUS
  <2>. HIDE DEF rest
  <2>. QED  BY ONLY <2>1, SizeIs
<1>2. CASE sending.style = "plain"
  <2>1. Piece = Len(sending.text)
    BY <1>2 DEF Piece
  <2>. QED  BY <1>1, <1>2, <2>1
<1>3. CASE sending.style = "human"
  <2>1. Piece = 1
    BY <1>3 DEF Piece
  <2>. QED  BY <1>3, <2>1
<1>4. CASE sending.style = "slow"
  <2>1. sending.var[1] \in Nat /\ sending.var[1] > 0
    BY <1>4 DEF Timed, get_slow_args
  <2>2. Piece = Min({sending.var[1], rest})
    BY <1>4 DEF Piece
  <2>. HIDE DEF rest
  <2>3. Piece \in {sending.var[1], rest} /\ Piece <= rest
    BY <1>1, <2>1, <2>2, MinOfTwo
  <2>. QED  BY <1>1, <1>4, <2>1, <2>3
<1>. QED  BY <1>2, <1>3, <1>4

LEMMA IdleSound == ASSUME NEW rc \in {"ok", "error"} PROVE Sound([Idle EXCEPT !.rc = rc], Nothing)
<1> DEFINE s == [Idle EXCEPT !.rc = rc]
<1>1. /\ s \in [list : Seq(Id), targets : Seq(Id), style : Style, var : Seq(Int), text : Seq(1..3),
                next : Nat, rc : {"ok", "error", "fault"}]
      /\ s.list = <<>> /\ s.targets = <<>> /\ s.text = <<>>
  <2>1. s = [list |-> <<>>, targets |-> <<>>, style |-> "plain", var |-> <<>>, text |-> <<>>, next |-> 1, rc |-> rc]
    BY DEF Idle
  <2>2. /\ <<>> \in Seq(Id) /\ <<>> \in Seq(Int) /\ <<>> \in Seq(1..3)
        /\ rc \in {"ok", "error", "fault"} /\ "plain" \in Style /\ 1 \in Nat
    BY DEF Style
  <2>. HIDE DEF s
  <2>. QED  BY <2>1, <2>2
<1>2. Nothing \in [Id -> Seq(Nat)] /\ Len(<<>>) = 0
  BY DEF Nothing
<1> HIDE DEF s
<1>3. SentSoFar(s, Nothing, 0, 0)
  BY <1>1, <1>2 DEF SentSoFar
<1>4. \A i, j \in 1..Len(s.list) : s.list[i] = s.list[j] => i = j
  BY <1>1, <1>2
<1>. QED  BY <1>1, <1>2, <1>3, <1>4 DEF Sound, s

LEMMA OtherwiseIdle ==
    ASSUME SendInv, Sleeping, Ended \/ (sending' = Idle /\ got' = Nothing)
    PROVE  SendInv'
<1>1. CASE sending' = Idle /\ got' = Nothing
  <2>1. Idle = [Idle EXCEPT !.rc = "ok"]
    BY DEF Idle
  <2>. QED  BY <1>1, <2>1, IdleSound DEF SendInv
<1>2. CASE UNCHANGED <<sending, got>>
  BY <1>2 DEF SendInv
<1>. QED  BY <1>1, <1>2 DEF Ended

\* exp_i_add_state puts each at the front, and none twice.
LEMMA ReversedOnce ==
    ASSUME NEW S, NEW s \in Seq(S), \A i, j \in 1..Len(s) : s[i] = s[j] => i = j
    PROVE  /\ Reverse(s) \in Seq(S)
           /\ \A i, j \in 1..Len(Reverse(s)) : Reverse(s)[i] = Reverse(s)[j] => i = j
<1>1. Len(s) \in Nat /\ \A i \in 1..Len(s) : (Len(s) - i) + 1 \in 1..Len(s) /\ s[(Len(s) - i) + 1] \in S
  OBVIOUS
<1>2. Reverse(s) \in [1..Len(s) -> S] /\ \A i \in 1..Len(s) : Reverse(s)[i] = s[(Len(s) - i) + 1]
  BY <1>1 DEF Reverse
<1>3. Reverse(s) \in Seq(S) /\ Len(Reverse(s)) = Len(s)
  <2>1. Reverse(s) \in Seq(S)
    BY <1>1, <1>2
  <2>2. DOMAIN Reverse(s) = 1..Len(s) /\ DOMAIN Reverse(s) = 1..Len(Reverse(s)) /\ Len(Reverse(s)) \in Nat
    BY <1>2, <2>1
  <2>. QED  BY <1>1, <2>1, <2>2
<1>4. ASSUME NEW i \in 1..Len(s), NEW j \in 1..Len(s), Reverse(s)[i] = Reverse(s)[j]
      PROVE  i = j
  <2>1. (Len(s) - i) + 1 = (Len(s) - j) + 1
    BY <1>1, <1>2, <1>4
  <2>. QED  BY <1>1, <2>1
<1>. QED  BY <1>3, <1>4

LEMMA SendSounds ==
    ASSUME NEW s \in Sends, \A i, j \in 1..Len(s.list) : s.list[i] = s.list[j] => i = j,
           Send(s.list, s.default, s.style, s.var, s.text)
    PROVE  SendInv'
<1>1. /\ s.list \in Seq(Id) /\ s.style \in Style /\ s.var \in Seq(Int)
      /\ s.text \in Seq(1..3) /\ s.text # <<>>
  <2>1. /\ s.list \in Seq(Process) \union {<<id>> : id \in Special}
        /\ s.style \in Style /\ s.var \in Seq(Int) /\ s.text \in Seq(1..3) \ {<<>>}
    BY LogAssumption
  <2>2. CASE s.list \in Seq(Process)
    BY <2>1, <2>2 DEF Id
  <2>3. CASE s.list \in {<<id>> : id \in Special}
    <3>1. PICK id \in Special : s.list = <<id>>
      BY <2>3
    <3>2. s.list \in Seq(Id)
      BY <3>1 DEF Id
    <3>. QED  BY <2>1, <3>2
  <2>. QED  BY <2>1, <2>2, <2>3
<1> DEFINE r == Reverse(s.list)
<1>2. /\ r \in Seq(Id)
      /\ \A i, j \in 1..Len(r) : r[i] = r[j] => i = j
  BY <1>1, ReversedOnce
<1>3. /\ sending' = [list |-> r, targets |-> r, style |-> s.style,
                     var |-> s.var, text |-> s.text, next |-> 1, rc |-> "ok"]
      /\ got' = Nothing /\ Timed(s.style, s.var)
  BY DEF Send
<1> HIDE DEF r
<1>4. /\ sending' \in [list : Seq(Id), targets : Seq(Id), style : Style, var : Seq(Int), text : Seq(1..3),
                       next : Nat, rc : {"ok", "error", "fault"}]
      /\ sending'.list = r /\ sending'.targets = r /\ sending'.text = s.text /\ sending'.next = 1
      /\ sending'.rc = "ok" /\ sending'.style = s.style /\ sending'.var = s.var
  BY <1>1, <1>2, <1>3
<1>5. Nothing \in [Id -> Seq(Nat)] /\ \A i \in Id : Nothing[i] = <<>>
  BY DEF Nothing
<1>6. Len(s.text) \in Nat /\ Len(s.text) >= 1 /\ Len(r) \in Nat /\ \A i \in 1..Len(r) : r[i] \in Id
  <2>1. Len(s.text) # 0
    BY <1>1, EmptySeq
  <2>. QED  BY <1>1, <1>2, <2>1
<1>7. Upto(0) = <<>>
  BY DEF Upto
<1>8. SentSoFar(sending', got', 0, 0)
  <2>1. r # <<>> => Len(r) > 0 /\ r = SubSeq(r, 1, Len(r))
    BY <1>2, <1>6, EmptySeq
  <2>2. r = <<>> => Len(r) = 0
    BY <1>2, EmptySeq
  <2>3. \A k \in 1..Len(r) : got'[r[k]] = <<>>
    BY <1>3, <1>5, <1>6
  <2>4. 0 < Len(r) => 0 + 1 \in 1..Len(r) /\ 0 + 1 = 1
    BY <1>6
  <2>5. \A k \in (0 + 2)..Len(r) : k \in 1..Len(r)
    BY <1>6
  <2>6. 1..0 = {} /\ 1 \in 1..Len(s.text) /\ 0 = 1 - 1
    BY <1>6
  <2>. QED  BY <1>3, <1>4, <1>6, <1>7, <2>1, <2>2, <2>3, <2>4, <2>5, <2>6 DEF SentSoFar
<1>9. Sound(sending', got')
  BY <1>2, <1>3, <1>4, <1>5, <1>8 DEF Sound
<1>. QED  BY <1>9 DEF SendInv

LEMMA EndSounds ==
    ASSUME Sound(sending, got), sending.targets # <<>>, NEW rc \in {"error", "fault"}, End(rc), got' = got
    PROVE  SendInv'
<1>1. sending' = [sending EXCEPT !.targets = <<>>, !.next = 1, !.rc = rc]
  BY DEF End
<1>2. sending \in [list : Seq(Id), targets : Seq(Id), style : Style, var : Seq(Int), text : Seq(1..3),
                   next : Nat, rc : {"ok", "error", "fault"}]
  BY DEF Sound
<1>3. /\ sending' \in [list : Seq(Id), targets : Seq(Id), style : Style, var : Seq(Int), text : Seq(1..3),
                       next : Nat, rc : {"ok", "error", "fault"}]
      /\ sending'.list = sending.list /\ sending'.targets = <<>> /\ sending'.text = sending.text
      /\ sending'.rc = rc /\ sending'.style = sending.style
  <2>1. <<>> \in Seq(Id) /\ 1 \in Nat /\ rc \in {"ok", "error", "fault"}
    OBVIOUS
  <2>. QED  BY ONLY <1>1, <1>2, <2>1
<1>4. ASSUME sending.style # "zero" PROVE \E d, m \in Nat : SentSoFar(sending', got', d, m)
  <2>1. PICK d \in Nat, m \in Nat : SentSoFar(sending, got, d, m)
    BY <1>4 DEF Sound
  <2>2. \A k : Sated(got[sending.list[k]], sending) => Sated(got[sending.list[k]], sending')
    BY <1>3 DEF Sated
  <2>3. SentSoFar(sending', got', d, m)
    BY <1>3, <2>1, <2>2 DEF SentSoFar
  <2>. QED  BY <2>3
<1>. QED  BY <1>3, <1>4 DEF Sound, SendInv

LEMMA PieceJoins ==
    ASSUME NEW m \in Nat, NEW p \in Nat
    PROVE  Upto(m) \o [k \in 1..p |-> (m + 1) + k - 1] = Upto(m + p)
<1> DEFINE a == Upto(m)
           b == [k \in 1..p |-> (m + 1) + k - 1]
<1>1. a \in Seq(Nat) /\ Len(a) = m /\ \A c \in 1..m : a[c] = c
  <2>1. a \in [1..m -> Nat]
    BY DEF Upto
  <2>2. a \in Seq(Nat)
    BY <2>1
  <2>3. DOMAIN a = 1..m /\ DOMAIN a = 1..Len(a) /\ Len(a) \in Nat
    BY <2>1, <2>2
  <2>. QED  BY <2>2, <2>3 DEF Upto
<1>2. b \in Seq(Nat) /\ Len(b) = p /\ \A c \in 1..p : b[c] = m + c
  <2>1. b \in [1..p -> Nat]
    OBVIOUS
  <2>2. b \in Seq(Nat)
    BY <2>1
  <2>3. DOMAIN b = 1..p /\ DOMAIN b = 1..Len(b) /\ Len(b) \in Nat
    BY <2>1, <2>2
  <2>. QED  BY <2>2, <2>3
<1> HIDE DEF a, b
<1>3. a \o b = [c \in 1..(m + p) |-> c]
  <2>1. a \o b \in Seq(Nat) /\ Len(a \o b) = m + p
    BY ONLY <1>1, <1>2, m \in Nat, p \in Nat
  <2>2. \A c \in 1..(m + p) : (a \o b)[c] = c
    <3>. TAKE c \in 1..(m + p)
    <3>1. CASE c \in 1..m
      BY <1>1, <1>2, <3>1
    <3>2. CASE c \notin 1..m
      <4>1. c - m \in 1..p /\ c > Len(a)
        BY <1>1, <3>2
      <4>2. (a \o b)[c] = b[c - Len(a)]
        BY <1>1, <1>2, <4>1
      <4>3. b[c - m] = m + (c - m)
        BY <1>2, <4>1
      <4>. QED  BY <1>1, <4>2, <4>3
    <3>. QED  BY <3>1, <3>2
  <2> DEFINE u == [c \in 1..(m + p) |-> c]
  <2>3. u \in Seq(Nat) /\ Len(u) = m + p /\ \A c \in 1..(m + p) : u[c] = c
    <3>1. u \in [1..(m + p) -> Nat] /\ m + p \in Nat
      OBVIOUS
    <3>2. u \in Seq(Nat)
      BY <3>1
    <3>3. DOMAIN u = 1..(m + p) /\ DOMAIN u = 1..Len(u) /\ Len(u) \in Nat
      BY <3>1, <3>2
    <3>. QED  BY <3>1, <3>2, <3>3
  <2>. HIDE DEF u
  <2>4. a \o b = u
    BY <2>1, <2>2, <2>3, SeqEqual
  <2>. QED  BY <2>4 DEF u
<1>. QED  BY <1>3 DEF Upto, a, b

\* What is behind the first of those that are left.
LEMMA TargetsAre ==
    ASSUME NEW S, NEW s \in Seq(S), NEW d \in Nat, d < Len(s), NEW t, t = SubSeq(s, d + 1, Len(s))
    PROVE  /\ Head(t) = s[d + 1] /\ s[d + 1] \in S /\ d + 1 \in 1..Len(s)
           /\ Tail(t) \in Seq(S) /\ Tail(t) = SubSeq(s, (d + 1) + 1, Len(s))
           /\ Tail(t) # <<>> => d + 1 < Len(s)
           /\ Tail(t) = <<>> => d + 1 = Len(s)
<1> DEFINE l == Len(s)
           r == Tail(t)
           u == SubSeq(s, (d + 1) + 1, Len(s))
<1>1. /\ l \in Nat /\ d + 1 \in 1..l /\ d + 1 \in Nat /\ l - d \in Nat /\ l - d >= 1
      /\ \A k \in 1..l : s[k] \in S
  OBVIOUS
<1>2. t \in Seq(S) /\ Len(t) = l - d /\ \A k \in 1..(l - d) : t[k] = s[d + k]
  <2>1. t = [k \in 1..(l - d) |-> s[d + k]]
    BY <1>1
  <2>2. \A k \in 1..(l - d) : d + k \in 1..l
    BY <1>1
  <2>3. t \in [1..(l - d) -> S]
    BY <1>1, <2>1, <2>2
  <2>4. t \in Seq(S)
    BY <1>1, <2>3
  <2>5. DOMAIN t = 1..(l - d) /\ DOMAIN t = 1..Len(t) /\ Len(t) \in Nat
    BY <2>3, <2>4
  <2>. HIDE DEF l
  <2>. QED  BY <1>1, <2>1, <2>4, <2>5
<1>3. t # <<>> /\ Head(t) = s[d + 1]
  <2>. HIDE DEF l
  <2>. QED  BY ONLY <1>1, <1>2, d \in Nat
<1>4. r \in Seq(S) /\ Len(r) = l - (d + 1) /\ \A k \in 1..(l - (d + 1)) : r[k] = t[k + 1]
  <2>. HIDE DEF l
  <2>. QED  BY ONLY <1>1, <1>2, <1>3, d \in Nat
<1>5. u \in Seq(S) /\ Len(u) = l - (d + 1) /\ \A k \in 1..(l - (d + 1)) : u[k] = s[(d + 1) + k]
  <2>1. u = [k \in 1..(l - (d + 1)) |-> s[(d + 1) + k]]
    BY <1>1
  <2>2. l - (d + 1) \in Nat /\ \A k \in 1..(l - (d + 1)) : (d + 1) + k \in 1..l
    BY <1>1
  <2>3. u \in [1..(l - (d + 1)) -> S]
    BY <1>1, <2>1, <2>2
  <2>4. u \in Seq(S)
    BY <2>2, <2>3
  <2>5. DOMAIN u = 1..(l - (d + 1)) /\ DOMAIN u = 1..Len(u) /\ Len(u) \in Nat
    BY <2>3, <2>4
  <2>. HIDE DEF l, u
  <2>. QED  BY <2>1, <2>2, <2>4, <2>5
<1>6. \A k \in 1..(l - (d + 1)) : t[k + 1] = s[(d + 1) + k]
  <2>. TAKE k \in 1..(l - (d + 1))
  <2>. HIDE DEF l
  <2>1. k + 1 \in 1..(l - d) /\ d + (k + 1) = (d + 1) + k
    BY ONLY <1>1, d \in Nat, k \in 1..(l - (d + 1))
  <2>. QED  BY <1>2, <2>1
<1>. HIDE DEF r, u, l
<1>7. r = u
  <2>1. r \in Seq(S) /\ u \in Seq(S) /\ Len(r) = Len(u)
    BY ONLY <1>4, <1>5
  <2>2. \A k \in 1..Len(r) : r[k] = u[k]
    BY ONLY <1>4, <1>5, <1>6
  <2>. QED  BY ONLY <2>1, <2>2, SeqEqual
<1>8. (r = <<>> <=> Len(r) = 0) /\ Len(r) \in Nat
  BY <1>4, EmptySeq
<1>9. (r # <<>> => d + 1 < l) /\ (r = <<>> => d + 1 = l)
  BY <1>1, <1>4, <1>8
<1>. QED  BY <1>1, <1>3, <1>4, <1>7, <1>9 DEF r, u, l

\* Where a piece of p characters leads to when the next one is f.
LEMMA PieceEnds ==
    ASSUME NEW n \in Nat, NEW f \in 1..n, NEW m \in Nat, m = f - 1, NEW p \in Nat, p >= 1
    PROVE  /\ m + p \in Nat
           /\ f + p <= n => m + p \in 0..n /\ m + p = (f + p) - 1 /\ f + p \in 1..n /\ f + p \in Nat
           /\ ~(f + p <= n) => m + p >= n
           /\ p <= n - f + 1 => m + p <= n
           /\ f = 1 /\ p = n => m + p = n /\ ~(f + p <= n)
OBVIOUS

LEMMA PlacesBehind ==
    ASSUME NEW l \in Nat, NEW d \in Nat, d < l
    PROVE  /\ d + 1 < l => (d + 1) + 1 \in (d + 2)..l
           /\ \A k \in ((d + 1) + 2)..l : k \in (d + 2)..l
           /\ d + 1 \in 0..l
           /\ \A k \in 1..d : k \in 1..l /\ k # d + 1
           /\ \A k \in (d + 2)..l : k \in 1..l /\ k # d + 1
           /\ \A k \in 1..(d + 1) : k \in 1..d \/ k = d + 1
OBVIOUS

\* A piece goes to the next spawn id, which goes on with the one behind it when it
\* has the whole text.
LEMMA PieceSounds ==
    ASSUME Sound(sending, got), sending.targets # <<>>,
           got' = [got EXCEPT ![Head(sending.targets)] = @ \o [k \in 1 .. Piece |-> sending.next + k - 1]],
           IF sending.next + Piece <= Len(sending.text)
           THEN sending' = [sending EXCEPT !.next = sending.next + Piece] ELSE NextTarget
    PROVE  SendInv'
<1> DEFINE given == sending.list
           n == Len(sending.text)
           id == Head(sending.targets)
           Type == [list : Seq(Id), targets : Seq(Id), style : Style, var : Seq(Int), text : Seq(1..3),
                    next : Nat, rc : {"ok", "error", "fault"}]
           Goes == sending' = [sending EXCEPT !.next = sending.next + Piece]
           Ends == sending' = [sending EXCEPT !.targets = Tail(@), !.next = 1]
<1>1. /\ sending \in Type /\ given \in Seq(Id) /\ Len(given) \in Nat /\ n \in Nat /\ sending.next \in Nat
      /\ \A k \in 1..Len(given) : given[k] \in Id
  BY DEF Sound
<1>2. CASE sending.style = "zero"
  <2>1. Piece = n
    BY <1>2 DEF Piece
  <2>2. Tail(sending.targets) \in Seq(Id) /\ <<>> \in Seq(1..3)
    BY <1>1
  <2>3. sending' \in Type /\ sending'.style = "zero"
    <3>1. CASE sending.next + Piece <= n
      <4>1. Goes /\ sending.next + Piece \in Nat
        BY <1>1, <2>1, <3>1
      <4>. QED  BY <1>1, <1>2, <4>1
    <3>2. CASE ~(sending.next + Piece <= n)
      <4>1. sending' = [sending EXCEPT !.targets = Tail(@), !.next = 1, !.text = <<>>]
        BY <1>2, <3>2 DEF NextTarget
      <4>. QED  BY <1>1, <1>2, <2>2, <4>1
    <3>. QED  BY <3>1, <3>2
  <2>. QED  BY <2>3 DEF Sound, SendInv
<1>3. CASE sending.style # "zero"
  <2>1. /\ got \in [Id -> Seq(Nat)]
        /\ \A i, j \in 1..Len(given) : given[i] = given[j] => i = j
        /\ sending.style \in {"plain", "slow", "human"}
    BY <1>1, <1>3 DEF Sound, Style
  <2>2. PICK d \in Nat, m \in Nat : SentSoFar(sending, got, d, m)
    BY <1>3 DEF Sound
  <2>3. /\ d \in 0..Len(given) /\ m \in 0..n
        /\ \A k \in 1..d : Sated(got[given[k]], sending)
        /\ got[given[d + 1]] = Upto(m)
        /\ \A k \in (d + 2)..Len(given) : got[given[k]] = <<>>
        /\ d < Len(given) /\ sending.targets = SubSeq(given, d + 1, Len(given))
        /\ m = sending.next - 1 /\ sending.next \in 1..n
        /\ Timed(sending.style, sending.var) /\ (sending.style = "plain" => sending.next = 1)
    BY <2>2 DEF SentSoFar
  <2>4. /\ id = given[d + 1] /\ given[d + 1] \in Id /\ d + 1 \in 1..Len(given)
        /\ Tail(sending.targets) \in Seq(Id)
        /\ Tail(sending.targets) = SubSeq(given, (d + 1) + 1, Len(given))
        /\ Tail(sending.targets) # <<>> => d + 1 < Len(given)
        /\ Tail(sending.targets) = <<>> => d + 1 = Len(given)
    <3>1. given \in Seq(Id) /\ d \in Nat /\ d < Len(given) /\ sending.targets = SubSeq(given, d + 1, Len(given))
      BY <1>1, <2>3
    <3>. HIDE DEF given
    <3>. QED  BY ONLY <3>1, TargetsAre DEF id
  <2>5. /\ Piece \in Nat /\ Piece >= 1
        /\ sending.style = "plain" => Piece = n
        /\ sending.style = "human" => Piece = 1
        /\ sending.style = "slow" /\ ToSet(sending.text) = {1} => Piece <= n - sending.next + 1
    BY <1>1, <2>1, <2>3, PieceIs
  <2>A. /\ m + Piece \in Nat
        /\ sending.next + Piece <= n => /\ m + Piece \in 0..n /\ m + Piece = (sending.next + Piece) - 1
                                        /\ sending.next + Piece \in 1..n /\ sending.next + Piece \in Nat
        /\ ~(sending.next + Piece <= n) => m + Piece >= n
        /\ Piece <= n - sending.next + 1 => m + Piece <= n
        /\ sending.next = 1 /\ Piece = n => m + Piece = n /\ ~(sending.next + Piece <= n)
    <3>1. n \in Nat /\ sending.next \in 1..n /\ m \in Nat /\ m = sending.next - 1 /\ Piece \in Nat /\ Piece >= 1
      BY <1>1, <2>3, <2>5
    <3>. HIDE DEF n
    <3>. QED  BY ONLY <3>1, PieceEnds
  <2>B. /\ d + 1 < Len(given) => (d + 1) + 1 \in (d + 2)..Len(given)
        /\ \A k \in ((d + 1) + 2)..Len(given) : k \in (d + 2)..Len(given)
        /\ d + 1 \in 0..Len(given)
        /\ \A k \in 1..d : k \in 1..Len(given) /\ k # d + 1
        /\ \A k \in (d + 2)..Len(given) : k \in 1..Len(given) /\ k # d + 1
        /\ \A k \in 1..(d + 1) : k \in 1..d \/ k = d + 1
    <3>1. Len(given) \in Nat /\ d \in Nat /\ d < Len(given)
      BY <1>1, <2>3
    <3>. HIDE DEF given
    <3>. QED  BY ONLY <3>1, PlacesBehind
  <2>6. Upto(m) \o [k \in 1 .. Piece |-> sending.next + k - 1] = Upto(m + Piece)
    <3>1. sending.next = m + 1
      <4>1. n \in Nat /\ sending.next \in 1..n /\ m = sending.next - 1
        BY ONLY <1>1, <2>3
      <4>. HIDE DEF n
      <4>. QED  BY ONLY <4>1
    <3>2. Upto(m) \o [k \in 1..Piece |-> (m + 1) + k - 1] = Upto(m + Piece)
      BY <2>5, PieceJoins
    <3>. QED  BY <3>1, <3>2
  <2>7. /\ got' \in [Id -> Seq(Nat)] /\ got'[given[d + 1]] = Upto(m + Piece)
        /\ \A k \in 1..Len(given) : k # d + 1 => got'[given[k]] = got[given[k]]
    <3>1. Upto(m + Piece) \in Seq(Nat)
      <4>1. m + Piece \in Nat
        BY <2>A
      <4>2. Upto(m + Piece) \in [1..(m + Piece) -> Nat]
        BY DEF Upto
      <4>. QED  BY <4>1, <4>2
    <3>2. got' = [got EXCEPT ![id] = @ \o [k \in 1 .. Piece |-> sending.next + k - 1]]
      OBVIOUS
    <3>3. \A k \in 1..Len(given) : k # d + 1 => given[k] # id /\ given[k] \in Id
      BY <1>1, <2>1, <2>4
    <3> HIDE DEF id, given
    <3>4. got[id] = Upto(m)
      BY <2>3, <2>4
    <3>5. got' = [got EXCEPT ![id] = Upto(m + Piece)]
      BY ONLY <2>6, <3>2, <3>4
    <3>6. id \in Id /\ id = given[d + 1] /\ got \in [Id -> Seq(Nat)]
      BY <2>1, <2>4
    <3>. QED  BY ONLY <3>1, <3>3, <3>5, <3>6
  <2>8. CASE sending.next + Piece <= n
    <3>1. Goes /\ sending.next + Piece \in Nat
      BY <2>8, <2>A
    <3>2. /\ sending' \in Type /\ sending'.list = given /\ sending'.targets = sending.targets
          /\ sending'.text = sending.text /\ sending'.style = sending.style /\ sending'.rc = sending.rc
          /\ sending'.var = sending.var /\ sending'.next = sending.next + Piece
      BY <1>1, <3>1
    <3>3. m + Piece \in 0..n /\ m + Piece = sending'.next - 1 /\ sending'.next \in 1..n
      BY <2>8, <2>A, <3>2
    <3>4. sending.style # "plain"
      BY <2>3, <2>5, <2>8, <2>A
    <3>5. \A k \in 1..d : Sated(got'[sending'.list[k]], sending')
      <4>1. \A k \in 1..d : k \in 1..Len(given) /\ k # d + 1
        BY <2>B
      <4>. QED  BY <2>3, <2>7, <3>2, <4>1 DEF Sated
    <3>6. \A k \in (d + 2)..Len(given) : got'[given[k]] = <<>>
      <4>1. \A k \in (d + 2)..Len(given) : k \in 1..Len(given) /\ k # d + 1
        BY <2>B
      <4>. QED  BY <2>3, <2>7, <4>1
    <3>7. SentSoFar(sending', got', d, m + Piece)
      BY <2>3, <2>7, <3>2, <3>3, <3>4, <3>5, <3>6 DEF SentSoFar
    <3>8. m + Piece \in Nat
      BY <2>A
    <3>9. Sound(sending', got')
      BY <2>1, <2>7, <3>2, <3>7, <3>8 DEF Sound
    <3>. QED  BY <3>9 DEF SendInv
  <2>9. CASE ~(sending.next + Piece <= n)
    <3>1. Ends
      <4>1. NextTarget
        BY <2>9
      <4>2. sending.text = IF sending.style = "zero" THEN <<>> ELSE sending.text
        BY <1>3
      <4>3. sending' = [sending EXCEPT !.targets = Tail(@), !.next = 1,
                                       !.text = IF sending.style = "zero" THEN <<>> ELSE @]
        BY <4>1 DEF NextTarget
      <4>. QED  BY <1>1, <1>3, <4>3
    <3>2. /\ sending' \in Type /\ sending'.list = given /\ sending'.targets = Tail(sending.targets)
          /\ sending'.text = sending.text /\ sending'.style = sending.style /\ sending'.rc = sending.rc
          /\ sending'.var = sending.var /\ sending'.next = 1
      BY <1>1, <2>4, <3>1
    <3>3. /\ m + Piece \in Nat /\ m + Piece >= n
          /\ m + Piece > n => sending.style = "slow" /\ ToSet(sending.text) # {1}
      <4>1. CASE sending.style = "plain"
        <5>1. sending.next = 1 /\ Piece = n
          BY ONLY <2>3, <2>5, <4>1
        <5>2. m + Piece = n /\ n \in Nat
          BY ONLY <1>1, <2>A, <5>1
        <5>3. ~(n > n) /\ n >= n
          <6>1. n \in Nat
            BY ONLY <5>2
          <6>. HIDE DEF n
          <6>. QED  BY ONLY <6>1
        <5>. QED  BY ONLY <5>2, <5>3
      <4>2. CASE sending.style = "human"
        <5>1. n \in Nat /\ sending.next \in 1..n /\ Piece = 1
          BY ONLY <1>1, <2>3, <2>5, <4>2
        <5>2. Piece <= n - sending.next + 1
          <6>. HIDE DEF n
          <6>. QED  BY ONLY <5>1
        <5>. QED  BY <1>1, <2>9, <2>A, <5>2
      <4>3. CASE sending.style = "slow"
        BY <1>1, <2>5, <2>9, <2>A, <4>3
      <4>. QED  BY <2>1, <4>1, <4>2, <4>3
    <3>4. \A k \in 1..(d + 1) : Sated(got'[sending'.list[k]], sending')
      <4>1. \A k \in 1..d : k \in 1..Len(given) /\ k # d + 1
        BY <2>B
      <4>2. \A k \in 1..d : Sated(got'[sending'.list[k]], sending')
        BY <2>3, <2>7, <3>2, <4>1 DEF Sated
      <4>3. Sated(got'[sending'.list[d + 1]], sending')
        BY <2>7, <3>2, <3>3 DEF Sated
      <4>4. \A k \in 1..(d + 1) : k \in 1..d \/ k = d + 1
        BY <2>B
      <4>. QED  BY <4>2, <4>3, <4>4
    <3>5. \A k \in (d + 2)..Len(given) : got'[given[k]] = <<>>
      <4>1. \A k \in (d + 2)..Len(given) : k \in 1..Len(given) /\ k # d + 1
        BY <2>B
      <4>. QED  BY <2>3, <2>7, <4>1
    <3>6. Upto(0) = <<>>
      BY DEF Upto
    <3>7. /\ d + 1 < Len(given) => (d + 1) + 1 \in (d + 2)..Len(given)
          /\ \A k \in ((d + 1) + 2)..Len(given) : k \in (d + 2)..Len(given)
          /\ d + 1 \in 0..Len(given) /\ 0 \in 0..n /\ 0 = 1 - 1 /\ 1 \in 1..n /\ d + 1 \in Nat
      <4>1. 0 \in 0..n /\ 0 = 1 - 1 /\ 1 \in 1..n
        <5>1. n \in Nat /\ sending.next \in 1..n
          BY <1>1, <2>3
        <5>. HIDE DEF n
        <5>. QED  BY ONLY <5>1
      <4>. QED  BY <2>B, <4>1
    <3>8. SentSoFar(sending', got', d + 1, 0)
      BY <2>3, <2>4, <3>2, <3>4, <3>5, <3>6, <3>7 DEF SentSoFar
    <3>9. Sound(sending', got')
      BY <2>1, <2>7, <3>2, <3>7, <3>8 DEF Sound
    <3>. QED  BY <3>9 DEF SendInv
  <2>. QED  BY <2>8, <2>9
<1>. QED  BY <1>2, <1>3

LEMMA SendInvKept ==
    ASSUME GivenOnce, SendInv, [LogNext]_logVars
    PROVE  SendInv'
<1>1. CASE UNCHANGED logVars
  BY <1>1 DEF logVars, SendInv
<1>2. ASSUME sending' = Idle /\ got' = Nothing
      PROVE  SendInv'
  <2>1. Idle = [Idle EXCEPT !.rc = "ok"]
    BY DEF Idle
  <2>. QED  BY <1>2, <2>1, IdleSound DEF SendInv
<1>3. ASSUME NEW id, Close(id) \/ Wait(id) PROVE SendInv'
  BY <1>3, OtherwiseIdle DEF Close, Wait
<1>4. ASSUME NEW s \in Sends, SendRefused(s.style, s.var) PROVE SendInv'
  BY <1>4, IdleSound DEF SendRefused, SendInv
<1>5. ASSUME NEW s \in Sends, Send(s.list, s.default, s.style, s.var, s.text) PROVE SendInv'
  BY <1>5, SendSounds DEF GivenOnce
<1>6. CASE SendPiece
  <2> DEFINE id == Head(sending.targets)
             after == sending.next + Piece
  <2>1. sending.targets # <<>>
    BY <1>6 DEF SendPiece
  <2>2. \/ (\E rc \in {"error", "fault"} : End(rc)) /\ got' = got
        \/ /\ got' = [got EXCEPT ![id] = @ \o [k \in 1 .. Piece |-> sending.next + k - 1]]
           /\ IF after <= Len(sending.text)
              THEN sending' = [sending EXCEPT !.next = after]
              ELSE NextTarget
    BY <1>6 DEF SendPiece
  <2>3. CASE (\E rc \in {"error", "fault"} : End(rc)) /\ got' = got
    BY <2>1, <2>3, EndSounds DEF SendInv
  <2>4. CASE /\ got' = [got EXCEPT ![id] = @ \o [k \in 1 .. Piece |-> sending.next + k - 1]]
             /\ IF after <= Len(sending.text)
                THEN sending' = [sending EXCEPT !.next = after]
                ELSE NextTarget
    <3>1. Sound(sending, got)
      BY DEF SendInv
    <3>. QED  BY ONLY <2>1, <2>4, <3>1, PieceSounds
  <2>. QED  BY <2>2, <2>3, <2>4
<1>7. CASE \/ \E id \in Id : Read(id)
           \/ \E force \in BOOLEAN : Tell(force)
           \/ Complain \/ Trace \/ SendLog
  BY <1>2, <1>7 DEF Read, Tell, Complain, Trace, SendLog, Write
<1>8. CASE \/ \E given \in Args : LogFile(given)
           \/ \E value \in BOOLEAN : LogUser(value)
           \/ \E file, value \in BOOLEAN : ExpInternal(file, value)
           \/ \E channel \in Script : ScriptOpen(channel) \/ ScriptClose(channel)
  BY <1>2, <1>8 DEF LogFile, LogUser, ExpInternal, ScriptOpen, ScriptClose, Command
<1>9. CASE \E id \in Process : Spawn(id)
  BY <1>2, <1>9 DEF Spawn
<1>. QED  BY <1>1, <1>3, <1>4, <1>5, <1>6, <1>7, <1>8, <1>9 DEF LogNext

LEMMA SendInit == LogInit => SendInv
<1>. SUFFICES ASSUME LogInit PROVE SendInv
  OBVIOUS
<1>1. sending = [Idle EXCEPT !.rc = "ok"] /\ got = Nothing
  BY DEF LogInit, Idle
<1>2. Sound([Idle EXCEPT !.rc = "ok"], Nothing)
  BY IdleSound
<1>. QED  BY <1>1, <1>2 DEF SendInv

LEMMA UptoLength ==
    ASSUME NEW m \in Nat, NEW w, w = Upto(m)
    PROVE  Len(w) = m /\ w = [c \in 1..Len(w) |-> c]
<1>1. w \in [1..m -> Nat]
  BY DEF Upto
<1>2. w \in Seq(Nat)
  BY <1>1
<1>3. DOMAIN w = 1..m /\ DOMAIN w = 1..Len(w) /\ Len(w) \in Nat
  BY <1>1, <1>2
<1>4. Len(w) = m
  BY <1>3
<1>. QED  BY <1>4 DEF Upto

LEMMA SendIsWhole == SendInv => Whole
<1> DEFINE n == Len(sending.text)
           given == sending.list
           Got(k) == Len(got[given[k]])
<1>. SUFFICES ASSUME SendInv, sending.style # "zero"
              PROVE  /\ \A k \in DOMAIN given : got[given[k]] = [c \in 1 .. Got(k) |-> c]
                     /\ \A j, k \in DOMAIN given : j < k /\ Got(k) > 0 => Got(j) >= n
                     /\ Free /\ sending.rc = "ok" => \A k \in DOMAIN given : Got(k) >= n
                     /\ \A k \in DOMAIN given :
                           Got(k) > n => sending.style = "slow" /\ ToSet(sending.text) # {1}
  BY DEF Whole
<1>1. /\ given \in Seq(Id) /\ Len(given) \in Nat /\ DOMAIN given = 1..Len(given) /\ n \in Nat
  BY DEF SendInv, Sound
<1>2. PICK d \in Nat, m \in Nat : SentSoFar(sending, got, d, m)
  BY DEF SendInv, Sound
<1>3. /\ d \in 0..Len(given) /\ m \in 0..n
      /\ \A k \in 1..d : Sated(got[given[k]], sending)
      /\ d < Len(given) => got[given[d + 1]] = Upto(m)
      /\ \A k \in (d + 2)..Len(given) : got[given[k]] = <<>>
      /\ sending.targets = <<>> /\ sending.rc = "ok" => d = Len(given)
  BY <1>2 DEF SentSoFar
<1>4. ASSUME NEW k \in 1..d
      PROVE  /\ got[given[k]] = [c \in 1 .. Got(k) |-> c] /\ Got(k) \in Nat /\ Got(k) >= n
             /\ Got(k) > n => sending.style = "slow" /\ ToSet(sending.text) # {1}
  <2>1. PICK g \in Nat : /\ got[given[k]] = Upto(g) /\ g >= n
                         /\ g > n => sending.style = "slow" /\ ToSet(sending.text) # {1}
    BY <1>3 DEF Sated
  <2>. QED  BY <2>1, UptoLength
<1>5. ASSUME NEW k \in DOMAIN given, k > d
      PROVE  got[given[k]] = [c \in 1 .. Got(k) |-> c] /\ Got(k) \in Nat /\ Got(k) <= n /\ (Got(k) = 0 \/ k = d + 1)
  <2>1. CASE k = d + 1
    <3>1. got[given[k]] = Upto(m)
      BY <1>1, <1>3, <1>5, <2>1
    <3>2. Got(k) = m /\ got[given[k]] = [c \in 1..Got(k) |-> c]
      BY ONLY <3>1, m \in Nat, UptoLength
    <3>3. m \in 0..n
      BY <1>3
    <3>. QED  BY <1>1, <2>1, <3>2, <3>3
  <2>2. CASE k # d + 1
    <3>1. k \in (d + 2)..Len(given)
      BY <1>1, <1>5, <2>2
    <3>2. got[given[k]] = Upto(0)
      BY <1>3, <3>1 DEF Upto
    <3>3. Got(k) = 0 /\ got[given[k]] = [c \in 1..Got(k) |-> c]
      BY <3>2, UptoLength
    <3>. QED  BY <1>1, <3>3
  <2>. QED  BY <2>1, <2>2
<1>6. \A k \in DOMAIN given : k \in 1..d \/ k > d
  BY <1>1
<1>. HIDE DEF given, Got, n
<1>7. \A k \in DOMAIN given : got[given[k]] = [c \in 1 .. Got(k) |-> c]
  BY <1>4, <1>5, <1>6
<1>8. ASSUME NEW j \in DOMAIN given, NEW k \in DOMAIN given, j < k, Got(k) > 0
      PROVE  Got(j) >= n
  <2>1. k \in 1..d \/ k = d + 1
    <3>1. k > d => Got(k) = 0 \/ k = d + 1
      BY <1>5
    <3>2. Got(k) # 0
      BY <1>8
    <3>. QED  BY <1>6, <3>1, <3>2
  <2>2. j \in 1..d
    BY <1>1, <1>8, <2>1
  <2>. QED  BY <1>4, <2>2
<1>9. Free /\ sending.rc = "ok" => \A k \in DOMAIN given : Got(k) >= n
  <2>. SUFFICES ASSUME Free, sending.rc = "ok", NEW k \in DOMAIN given PROVE Got(k) >= n
    OBVIOUS
  <2>1. k \in 1..d
    BY <1>1, <1>3 DEF Free
  <2>. QED  BY <1>4, <2>1
<1>10. ASSUME NEW k \in DOMAIN given, Got(k) > n
       PROVE  sending.style = "slow" /\ ToSet(sending.text) # {1}
  <2>1. k \in 1..d
    <3>1. k > d => Got(k) \in Nat /\ Got(k) <= n
      BY <1>5
    <3>2. k > d => FALSE
      BY <1>1, <1>10, <3>1
    <3>. QED  BY <1>6, <3>2
  <2>2. Got(k) > n => sending.style = "slow" /\ ToSet(sending.text) # {1}
    BY ONLY <1>4, <2>1
  <2>. QED  BY <1>10, <2>2
<1>. QED  BY <1>7, <1>8, <1>9, <1>10 DEF given, Got

\* A send gives each of its spawn ids the whole text, in order, before it goes on
\* to the next one, whatever is closed and waited for while it sleeps.  A spawn id
\* that is given twice gets the text twice, so none is.
THEOREM WholeAlways == ASSUME GivenOnce PROVE LogSpec => []Whole
<1>1. GivenOnce
  OBVIOUS
<1>2. SendInv /\ [LogNext]_logVars => SendInv'
  BY <1>1, SendInvKept
<1>. QED  BY <1>2, SendInit, SendIsWhole, PTL DEF LogSpec
====
