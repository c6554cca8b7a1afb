--------------------------- MODULE SessionProofs ---------------------------
(***************************************************************************)
(* Proofs about Session for any root process, any set of processes below   *)
(* it and any number of slots; and about LinkedList for any threads that   *)
(* put, one that gets and removes, and any number of nodes; and about       *)
(* Console, the mirror of the slave's screen, of any size.                 *)
(***************************************************************************)
EXTENDS Session, LinkedList, Console, SequenceTheorems, FiniteSetTheorems, TLAPS

\* The root process ends the list, and is there once.
RootLast(l) == /\ Len(l) > 0 /\ l[Len(l)] = Root
               /\ \A i \in 1..(Len(l) - 1) : l[i] # Root

\* Before the debugger was told of the root process there is nothing else; from
\* then until its exit it ends the list.
Going == dbg = "wait" =>
           \/ stage[Root] = "born" /\ list = << >> /\ \A p \in Kids : stage[p] = "none"
           \/ stage[Root] \notin {"none", "born", "gone"} /\ RootLast(list)
Fresh == dbg = "create" => list = << >> /\ \A p \in Procs : stage[p] = "none"
Again == dbg = "again" => gaveUp

\* The inductive invariant.
IInv == TypeOK /\ Fresh /\ Going /\ Again /\ RootEndsIt

\* What ProcessFree leaves of the list.
LEMMA BehindIsEnd ==
  ASSUME NEW s \in Seq(Procs), NEW p \in Procs, \E j \in 1..Len(s) : s[j] = p
  PROVE  /\ Behind(s, p) \in Seq(Procs)
         /\ \E j \in 1..Len(s) :
              /\ s[j] = p /\ Len(Behind(s, p)) = Len(s) - j
              /\ \A k \in 1..(Len(s) - j) : Behind(s, p)[k] = s[j + k]
<1> DEFINE j == CHOOSE x \in 1..Len(s) : s[x] = p
           n == Len(s)
           b == SubSeq(s, j + 1, n)
<1>1. j \in 1..n /\ s[j] = p
    OBVIOUS
<1>2. n \in Nat
    OBVIOUS
<1>3. Behind(s, p) = b
    BY DEF Behind
<1>4. \A k \in 1..n : s[k] \in Procs
    OBVIOUS
<1> HIDE DEF j, n
<1>5. j + 1 \in Int /\ n \in Int /\ \A k \in (j + 1)..n : s[k] \in Procs
    BY <1>1, <1>2, <1>4
<1>6. /\ b \in Seq(Procs)
      /\ Len(b) = IF j + 1 <= n THEN n - (j + 1) + 1 ELSE 0
      /\ \A k \in 1..(n - (j + 1) + 1) : b[k] = s[(j + 1) + k - 1]
    BY <1>5, SubSeqProperties
<1> HIDE DEF b
<1>7. Len(b) = n - j
    BY <1>1, <1>2, <1>6
<1>8. ASSUME NEW k \in 1..(n - j) PROVE b[k] = s[j + k]
  <2>1. k \in 1..(n - (j + 1) + 1) /\ (j + 1) + k - 1 = j + k
      BY <1>1, <1>2
  <2> QED BY <2>1, <1>6
<1> QED BY <1>1, <1>3, <1>6, <1>7, <1>8 DEF n

\* Freeing the root process empties the list, and freeing another leaves the
\* root process where it was.
LEMMA BehindKeepsRoot ==
  ASSUME NEW s \in Seq(Procs), NEW p \in Procs, \E j \in 1..Len(s) : s[j] = p, RootLast(s)
  PROVE  /\ p = Root => Behind(s, p) = << >>
         /\ p # Root => RootLast(Behind(s, p))
<1> DEFINE b == Behind(s, p)
           n == Len(s)
<1>1. b \in Seq(Procs)
    BY BehindIsEnd
<1>2. PICK j \in 1..n : s[j] = p /\ Len(b) = n - j /\ \A k \in 1..(n - j) : b[k] = s[j + k]
    BY BehindIsEnd
<1>3. n \in Nat /\ n > 0 /\ s[n] = Root /\ \A i \in 1..(n - 1) : s[i] # Root
    BY DEF RootLast
<1> HIDE DEF b, n
<1>4. CASE p = Root
  <2>1. j = n
      BY <1>2, <1>3, <1>4
  <2>2. Len(b) = 0
      BY <1>2, <1>3, <2>1
  <2>3. b = << >>
      BY <1>1, <2>2, EmptySeq
  <2> QED BY <1>4, <2>3 DEF b
<1>5. CASE p # Root
  <2>1. j # n
      BY <1>2, <1>3, <1>5
  <2>2. n - j \in 1..(n - j) /\ Len(b) > 0 /\ j + (n - j) = n
      BY <1>2, <1>3, <2>1
  <2>3. b[Len(b)] = Root
      BY <1>2, <1>3, <2>2
  <2>4. ASSUME NEW k \in 1..(Len(b) - 1) PROVE b[k] # Root
    <3>1. k \in 1..(n - j) /\ j + k \in 1..(n - 1)
        BY <1>2, <1>3
    <3>2. b[k] = s[j + k]
        BY <1>2, <3>1
    <3> QED BY <1>3, <3>1, <3>2
  <2>5. RootLast(b)
      BY <2>2, <2>3, <2>4 DEF RootLast
  <2> QED BY <1>5, <2>5 DEF b
<1> QED BY <1>4, <1>5

\* A new process at the head leaves the root process at the end.
LEMMA NewKeepsRoot ==
  ASSUME NEW s \in Seq(Procs), NEW p \in Procs
  PROVE  /\ <<p>> \o s \in Seq(Procs)
         /\ p # Root /\ RootLast(s) => RootLast(<<p>> \o s)
         /\ p = Root /\ s = << >> => RootLast(<<p>> \o s)
<1> DEFINE h == <<p>>
           b == h \o s
           n == Len(s)
<1>1. h \in Seq(Procs) /\ Len(h) = 1 /\ h[1] = p /\ n \in Nat
    OBVIOUS
<1> HIDE DEF h
<1>2. /\ b \in Seq(Procs) /\ Len(b) = 1 + n
      /\ \A k \in 1..(1 + n) : b[k] = IF k <= 1 THEN h[k] ELSE s[k - 1]
  <2>1. /\ b \in Seq(Procs) /\ Len(b) = Len(h) + Len(s)
        /\ \A k \in 1..(Len(h) + Len(s)) : b[k] = IF k <= Len(h) THEN h[k] ELSE s[k - Len(h)]
    <3>1. h \in Seq(Procs) /\ s \in Seq(Procs)
        BY <1>1
    <3> QED BY ONLY <3>1, ConcatProperties, SMTT(30)
  <2> HIDE DEF b
  <2> QED BY <1>1, <2>1
<1> HIDE DEF b
<1>4. ASSUME p # Root, RootLast(s) PROVE RootLast(b)
  <2>1. n > 0 /\ s[n] = Root /\ \A k \in 1..(n - 1) : s[k] # Root
      BY <1>4 DEF RootLast
  <2> HIDE DEF n
  <2>2. b[1 + n] = Root
    <3>1. 1 + n \in 1..(1 + n) /\ ~(1 + n <= 1) /\ (1 + n) - 1 = n
        BY <1>1, <2>1
    <3> QED BY <1>2, <2>1, <3>1
  <2>3. ASSUME NEW k \in 1..n PROVE b[k] # Root
    <3>1. k \in 1..(1 + n)
        BY <1>1
    <3>2. b[k] = IF k <= 1 THEN h[k] ELSE s[k - 1]
        BY <1>2, <3>1
    <3>3. CASE k = 1
        BY <1>1, <1>4, <3>2, <3>3
    <3>4. CASE k # 1
      <4>1. ~(k <= 1) /\ k - 1 \in 1..(n - 1)
          BY <1>1, <3>4
      <4> QED BY <2>1, <3>2, <4>1
    <3> QED BY <3>3, <3>4
  <2>4. Len(b) > 0 /\ b[Len(b)] = Root /\ 1..(Len(b) - 1) = 1..n
      BY <1>1, <1>2, <2>2
  <2> QED BY <2>3, <2>4 DEF RootLast
<1>5. ASSUME p = Root, s = << >> PROVE RootLast(b)
  <2>1. n = 0
      BY <1>5
  <2> HIDE DEF n
  <2>2. Len(b) = 1 /\ b[1] = Root
    <3>1. 1 \in 1..(1 + n) /\ 1 <= 1
        BY <2>1
    <3> QED BY <1>1, <1>2, <1>5, <2>1, <3>1
  <2> QED BY <2>2 DEF RootLast
<1> QED BY <1>2, <1>4, <1>5 DEF b, h

\* It holds at the start.
LEMMA InitIInv == Init => IInv
<1> SUFFICES ASSUME Init PROVE IInv
    OBVIOUS
<1>1. TypeOK
  <2>1. breakCount \in 0..4 /\ slots \in 0..NumSlots /\ list \in Seq(Procs)
      BY SlotsAssumption DEF Init
  <2>2. stage \in [Procs -> Stages] /\ dying \subseteq Procs
      BY DEF Init, Stages
  <2> QED BY <2>1, <2>2, Zenon DEF Init, TypeOK
<1>2. Fresh /\ Going /\ Again /\ RootEndsIt
    BY DEF Init, Fresh, Going, Again, RootEndsIt
<1> QED BY <1>1, <1>2 DEF IInv

\* A step that touches neither the debugger thread's place, nor the list, nor how
\* far the processes have come, preserves all but the types.
LEMMA Aside ==
  ASSUME IInv, TypeOK', UNCHANGED <<dbg, list, stage, gaveUp>>
  PROVE  IInv'
<1>1. Fresh' /\ Going' /\ Again' /\ RootEndsIt'
    BY DEF IInv, Fresh, Going, Again, RootEndsIt, RootLast
<1> QED BY <1>1 DEF IInv

\* So does a step by which the debugger thread leaves its loop for another reason
\* than an exit.
LEMMA GivesUp ==
  ASSUME IInv, TypeOK', dbg' \in {"again", "done"}, gaveUp'
  PROVE  IInv'
<1>1. Fresh' /\ Going' /\ Again' /\ RootEndsIt'
    BY DEF Fresh, Going, Again, RootEndsIt
<1> QED BY <1>1 DEF IInv

\* A process that was told of gets further.
LEMMA Further ==
  ASSUME IInv, TypeOK', NEW p \in Procs, NEW x \in {"loading", "entry", "stub", "runs"},
         dbg = "wait", stage[p] \notin {"none", "born", "gone"},
         stage' = [stage EXCEPT ![p] = x], UNCHANGED <<dbg, list>>
  PROVE  IInv'
<1> USE DEF Procs
<1>1. stage \in [Procs -> Stages]
    BY DEF IInv, TypeOK
<1>2. stage[Root] \notin {"none", "born", "gone"} /\ RootLast(list)
  <2>1. ~(stage[Root] = "born" /\ \A q \in Kids : stage[q] = "none")
      BY DEF Procs
  <2> QED BY <2>1 DEF IInv, Going
<1>3. stage'[Root] \notin {"none", "born", "gone"}
    BY <1>1, <1>2
<1>4. Going'
    BY <1>2, <1>3 DEF Going, RootLast
<1>5. Fresh' /\ Again' /\ RootEndsIt'
    BY DEF Fresh, Again, RootEndsIt
<1> QED BY <1>4, <1>5 DEF IInv

\* In the loop, a process the debugger was told of is in the list only while the
\* root process is.
LEMMA ToldOf ==
  ASSUME IInv, dbg = "wait", Len(list) > 0
  PROVE  stage[Root] \notin {"none", "born", "gone"} /\ RootLast(list)
<1>1. list # << >>
    OBVIOUS
<1> QED BY <1>1 DEF IInv, Going

\* The breakpoints.
LEMMA BreaksIInv ==
  ASSUME IInv, NEW p \in Procs, Breakpoint(p) \/ SecondFails(p) \/ ThirdWithoutMailbox(p) \/ ThirdFails(p)
  PROVE  IInv'
<1> USE DEF IInv, TypeOK, Breaks
<1>1. stage \in [Procs -> Stages]
    OBVIOUS
<1>2. NextBreak \in 0..4
    BY DEF NextBreak
<1>3. CASE OnXFirstBreakpoint(p)
  <2>1. TypeOK'
      BY <1>1, <1>2, <1>3 DEF OnXFirstBreakpoint, Stages
  <2> QED BY <1>3, <2>1, Further DEF OnXFirstBreakpoint
<1>4. CASE OnXSecondBreakpoint(p)
  <2>1. TypeOK'
      BY <1>1, <1>2, <1>4 DEF OnXSecondBreakpoint, Stages
  <2> QED BY <1>4, <2>1, Further DEF OnXSecondBreakpoint
<1>5. CASE OnXThirdBreakpoint(p)
  <2>1. TypeOK'
      BY <1>1, <1>2, <1>5 DEF OnXThirdBreakpoint, Stages
  <2> QED BY <1>5, <2>1, Further DEF OnXThirdBreakpoint
<1>6. CASE OnXBreakpoint(p)
  <2>1. TypeOK'
      BY <1>1, <1>2, <1>6 DEF OnXBreakpoint, Stages
  <2> QED BY <1>6, <2>1, Further DEF OnXBreakpoint
<1>7. CASE SkipBreakpoint(p)
  <2>1. TypeOK'
      BY <1>1, <1>7 DEF SkipBreakpoint, Stages
  <2> QED BY <1>7, <2>1, Further DEF SkipBreakpoint
<1>8. CASE ThirdWithoutMailbox(p)
  <2>1. TypeOK'
      BY <1>1, <1>2, <1>8 DEF ThirdWithoutMailbox, Stages
  <2> QED BY <1>8, <2>1, Further DEF ThirdWithoutMailbox
<1>9. CASE SecondFails(p)
  <2>1. TypeOK'
      BY <1>2, <1>9 DEF SecondFails
  <2> QED BY <1>9, <2>1, GivesUp DEF SecondFails
<1>10. CASE ThirdFails(p)
  <2>1. TypeOK'
      BY <1>2, <1>10 DEF ThirdFails
  <2> QED BY <1>10, <2>1, GivesUp DEF ThirdFails
<1> QED BY <1>3, <1>4, <1>5, <1>6, <1>7, <1>8, <1>9, <1>10 DEF Breakpoint

\* A process is told of: the root process first, into an empty list.
LEMMA CreateIInv ==
  ASSUME IInv, NEW p \in Procs, OnXCreateProcess(p)
  PROVE  IInv'
<1>1. stage \in [Procs -> Stages] /\ list \in Seq(Procs) /\ Root \in Procs
    BY DEF IInv, TypeOK, Procs
<1>2. dbg = "wait" /\ dbg' = "wait" /\ stage[p] = "born" /\ stage' = [stage EXCEPT ![p] = "loading"] /\ list' = <<p>> \o list
    BY DEF OnXCreateProcess, ProcessNew
<1>3. list' \in Seq(Procs)
    BY <1>1, <1>2, NewKeepsRoot
<1>4. TypeOK'
    BY <1>1, <1>3 DEF IInv, TypeOK, OnXCreateProcess, Stages
<1>5. CASE p = Root
  <2>1. list = << >>
      BY <1>2, <1>5 DEF IInv, Going
  <2>2. RootLast(<<p>> \o list)
      BY <1>1, <1>5, <2>1, NewKeepsRoot
  <2>3. RootLast(list)'
      BY <1>2, <2>2 DEF RootLast
  <2>4. stage'[Root] = "loading"
      BY <1>1, <1>2, <1>5
  <2> QED BY <1>2, <1>4, <2>3, <2>4 DEF IInv, Fresh, Going, Again, RootEndsIt
<1>6. CASE p # Root
  <2>1. p \in Kids
      BY <1>6 DEF Procs
  <2>2. stage[Root] \notin {"none", "born", "gone"} /\ RootLast(list)
      BY <1>2, <2>1 DEF IInv, Going
  <2>3. RootLast(<<p>> \o list)
      BY <1>1, <1>6, <2>2, NewKeepsRoot
  <2>4. RootLast(list)'
      BY <1>2, <2>3 DEF RootLast
  <2>5. stage'[Root] = stage[Root]
      BY <1>1, <1>2, <1>6
  <2> QED BY <1>2, <1>4, <2>2, <2>4, <2>5 DEF IInv, Fresh, Going, Again, RootEndsIt
<1> QED BY <1>5, <1>6

\* A listed process has exited: the list is empty afterwards if it was the root
\* process, and ends with it otherwise.
LEMMA ExitIInv ==
  ASSUME IInv, NEW p \in Procs, OnXExitProcess(p)
  PROVE  IInv'
<1>1. stage \in [Procs -> Stages] /\ list \in Seq(Procs) /\ Root \in Procs
    BY DEF IInv, TypeOK, Procs
<1>2. /\ dbg = "wait" /\ \E j \in 1..Len(list) : list[j] = p
      /\ stage' = [stage EXCEPT ![p] = "gone"] /\ list' = Behind(list, p)
      /\ dbg' = IF list' = << >> THEN "done" ELSE "wait"
    BY DEF OnXExitProcess, ProcessFree, Listed
<1>3. stage[Root] \notin {"none", "born", "gone"} /\ RootLast(list)
    BY <1>1, <1>2, ToldOf
<1>4. list' \in Seq(Procs)
    BY <1>1, <1>2, BehindIsEnd
<1>5. stage' \in [Procs -> Stages] /\ dbg' \in {"wait", "done"}
    BY <1>1, <1>2 DEF Stages
<1>6. TypeOK'
  <2>1. pidKilled' = TRUE /\ UNCHANGED <<breakCount, dying, status, gaveUp, slaveDone, readyUp, ipc, injector, slots, tcl>>
      BY DEF OnXExitProcess, ProcessFree
  <2>2. dbg' \in {"create", "wait", "again", "done", "ended"}
      BY <1>5
  <2> QED BY <1>4, <1>5, <2>1, <2>2, ZenonT(60) DEF IInv, TypeOK
<1>7. CASE p = Root
  <2>1. list' = << >>
      BY <1>1, <1>2, <1>3, <1>7, BehindKeepsRoot
  <2>2. dbg' = "done" /\ stage'[Root] = "gone"
      BY <1>1, <1>2, <1>7, <2>1
  <2> QED BY <1>6, <2>2 DEF IInv, Fresh, Going, Again, RootEndsIt
<1>8. CASE p # Root
  <2>1. RootLast(Behind(list, p))
      BY <1>1, <1>2, <1>3, <1>8, BehindKeepsRoot
  <2>2. RootLast(list)'
      BY <1>2, <2>1 DEF RootLast
  <2>3. list' # << >>
      BY <2>2 DEF RootLast
  <2>4. dbg' = "wait" /\ stage'[Root] = stage[Root]
      BY <1>1, <1>2, <1>8, <2>3
  <2> QED BY <1>3, <1>6, <2>2, <2>4 DEF IInv, Fresh, Going, Again, RootEndsIt
<1> QED BY <1>7, <1>8

\* Every step preserves the invariant.
LEMMA NextIInv == IInv /\ [Next]_vars => IInv'
<1> SUFFICES ASSUME IInv, [Next]_vars PROVE IInv'
    OBVIOUS
<1>1. stage \in [Procs -> Stages] /\ Root \in Procs
    BY DEF IInv, TypeOK, Procs
<1>2. CASE CreateFails
  <2>1. TypeOK'
      BY <1>2 DEF CreateFails, IInv, TypeOK
  <2> QED BY <1>2, <2>1 DEF CreateFails, IInv, Fresh, Going, Again, RootEndsIt
<1>3. CASE CreateProcess
  <2>1. TypeOK'
      BY <1>1, <1>3 DEF CreateProcess, IInv, TypeOK, Stages
  <2>2. list' = << >> /\ stage'[Root] = "born" /\ \A p \in Kids : stage'[p] = "none"
      BY <1>1, <1>3, KidsAssumption DEF CreateProcess, IInv, Fresh, Procs
  <2>3. dbg' = "wait"
      BY <1>3 DEF CreateProcess
  <2> QED BY <2>1, <2>2, <2>3 DEF IInv, Fresh, Going, Again, RootEndsIt
<1>4. CASE SetAgain
  <2>1. TypeOK'
      BY <1>4 DEF SetAgain, IInv, TypeOK
  <2>2. dbg' = "done" /\ gaveUp'
      BY <1>4 DEF SetAgain, IInv, Again
  <2> QED BY <2>1, <2>2, GivesUp
<1>5. CASE NotifyDone
  <2>1. TypeOK'
      BY <1>1, <1>5 DEF NotifyDone, IInv, TypeOK, Stages
  <2> QED BY <1>5, <2>1 DEF NotifyDone, IInv, Fresh, Going, Again, RootEndsIt
<1>6. CASE LoopFails
  <2>1. TypeOK'
      BY <1>6 DEF LoopFails, IInv, TypeOK
  <2> QED BY <1>6, <2>1, GivesUp DEF LoopFails
<1>7. ASSUME NEW p \in Procs, Noncontinuable(p) PROVE IInv'
  <2>1. TypeOK'
      BY <1>7 DEF Noncontinuable, IInv, TypeOK
  <2> QED BY <1>7, <2>1, GivesUp DEF Noncontinuable
<1>8. ASSUME NEW p \in Procs, SkipExit(p) PROVE IInv'
  <2>1. TypeOK'
      BY <1>1, <1>8 DEF SkipExit, IInv, TypeOK, Stages
  <2>2. p # Root /\ stage[Root] \notin {"none", "born", "gone"} /\ RootLast(list)
    <3>1. dbg = "wait" /\ stage[p] \notin {"none", "born", "gone"} /\ ~Listed(p)
        BY <1>8 DEF SkipExit
    <3>2. stage[Root] \notin {"none", "born", "gone"} /\ RootLast(list)
        BY <3>1 DEF IInv, Going, Procs
    <3>3. Len(list) \in 1..Len(list) /\ list[Len(list)] = Root
        BY <3>2 DEF RootLast, IInv, TypeOK
    <3> QED BY <3>1, <3>2, <3>3 DEF Listed
  <2>3. stage'[Root] = stage[Root] /\ RootLast(list)'
      BY <1>1, <1>8, <2>2 DEF SkipExit, RootLast
  <2>4. dbg' = "wait"
      BY <1>8 DEF SkipExit
  <2> QED BY <2>1, <2>2, <2>3, <2>4 DEF IInv, Fresh, Going, Again, RootEndsIt
<1>9. ASSUME NEW p \in Procs, Dies(p) PROVE IInv'
  <2>1. TypeOK'
      BY <1>9 DEF Dies, IInv, TypeOK
  <2> QED BY <1>9, <2>1, Aside DEF Dies
<1>10. ASSUME NEW p \in Procs, NEW q \in Kids, Starts(p, q) PROVE IInv'
  <2>1. TypeOK'
      BY <1>1, <1>10 DEF Starts, IInv, TypeOK, Stages, Procs
  <2>2. stage[Root] \notin {"none", "born", "gone"} /\ RootLast(list)
      BY <1>10 DEF Starts, IInv, Going, Procs
  <2>3. stage'[Root] = stage[Root] /\ RootLast(list)'
      BY <1>1, <1>10, <2>2, KidsAssumption DEF Starts, RootLast
  <2>4. dbg' = "wait"
      BY <1>10 DEF Starts
  <2> QED BY <2>1, <2>2, <2>3, <2>4 DEF IInv, Fresh, Going, Again, RootEndsIt
<1>11. CASE InjectorTakes
  <2>1. slots' \in 0..NumSlots
      BY <1>11, SlotsAssumption DEF InjectorTakes, IInv, TypeOK
  <2>2. TypeOK'
      BY <1>11, <2>1 DEF InjectorTakes, dvars, IInv, TypeOK
  <2> QED BY <1>11, <2>2, Aside DEF InjectorTakes, dvars
<1>19. CASE InjectorOpens \/ InjectorFails
  <2>1. TypeOK'
      BY <1>19 DEF InjectorOpens, InjectorFails, dvars, IInv, TypeOK
  <2> QED BY <1>19, <2>1, Aside DEF InjectorOpens, InjectorFails, dvars
<1>12. CASE WriteTest \/ Close \/ Constructed \/ Wait200Over \/ Closed
  <2>1. UNCHANGED <<dvars, ipc, pidKilled, injector, slots>>
      BY <1>12 DEF WriteTest, Close, Constructed, Wait200Over, Closed
  <2>2. tcl' \in {"failed", "open", "post", "wait200", "ctrl", "wait40", "closed"}
      BY <1>12 DEF WriteTest, Close, Constructed, Wait200Over, Closed
  <2>3. readyUp' \in BOOLEAN
      BY <1>12 DEF WriteTest, Close, Constructed, Wait200Over, Closed, IInv, TypeOK
  <2>4. TypeOK'
      BY <2>1, <2>2, <2>3 DEF dvars, IInv, TypeOK, InClose
  <2> QED BY <2>1, <2>4, Aside DEF dvars
<1>13. CASE Post
  <2>1. slots' \in 0..NumSlots /\ tcl' \in {"open", "wait40"} /\ UNCHANGED <<dvars, readyUp, ipc, pidKilled, injector>>
      BY <1>13, SlotsAssumption DEF Post, IInv, TypeOK
  <2>2. TypeOK'
      BY <2>1 DEF dvars, IInv, TypeOK, InClose
  <2> QED BY <2>1, <2>2, Aside DEF dvars
<1>14. CASE Wait40Over
  <2>1. TypeOK'
      BY <1>1, <1>14 DEF Wait40Over, IInv, TypeOK, InClose
  <2> QED BY <1>14, <2>1, Aside DEF Wait40Over
<1>15. CASE UNCHANGED vars
  <2>1. TypeOK'
      BY <1>15 DEF vars, dvars, IInv, TypeOK
  <2> QED BY <1>15, <2>1, Aside DEF vars, dvars
<1>16. CASE Turn
    BY <1>3, <1>4, <1>5, <1>8, <1>16, CreateIInv, ExitIInv, BreaksIInv DEF Turn, Event
<1>17. CASE Failure
    BY <1>2, <1>6, <1>7, <1>17, BreaksIInv DEF Failure
<1>18. CASE Waits
    BY <1>12, <1>13, <1>14, <1>18 DEF Waits
<1> QED BY <1>9, <1>10, <1>11, <1>12, <1>15, <1>16, <1>17, <1>18, <1>19 DEF Next

\* Every variable has its type in every reachable state.
THEOREM TypeCorrect == Spec => []TypeOK
<1>1. IInv => TypeOK
    BY DEF IInv
<1> QED BY InitIInv, NextIInv, <1>1, PTL DEF Spec

\* A session never ends under a root process that is still there, however many
\* processes it starts and in whatever order they come and go.
THEOREM RootCorrect == Spec => []RootEndsIt
<1>1. IInv => RootEndsIt
    BY DEF IInv
<1> QED BY InitIInv, NextIInv, <1>1, PTL DEF Spec

-----------------------------------------------------------------------------
(***************************************************************************)
(* The two rings of a CMclLinkedList.                                      *)
(***************************************************************************)
\* The place k of a ring through the nodes of s.
Node(s, ring, k) == IF k \in 1..Len(s) THEN s[k] ELSE ring

Linked(l, ring, s) ==
    \A k \in 0..Len(s) : /\ l.next[Node(s, ring, k)] = Node(s, ring, k + 1)
                         /\ l.prev[Node(s, ring, k + 1)] = Node(s, ring, k)

Once(s) == \A i, j \in 1..Len(s) : s[i] = s[j] => i = j
Apart(s, t) == \A i \in 1..Len(s), j \in 1..Len(t) : s[i] # t[j]
Outside(n, s) == \A i \in 1..Len(s) : s[i] # n

Ends == {Master, Free}
Places == Nodes \union Ends
Links == [next : [Places -> Places], prev : [Places -> Places]]

Sentinels(ring, other) == {ring, other} = Ends

\* Two rings, and no node in both.
Rings(l, ring, s, other, t) ==
    /\ l \in Links
    /\ s \in Seq(Nodes) /\ t \in Seq(Nodes)
    /\ Once(s) /\ Once(t) /\ Apart(s, t)
    /\ Linked(l, ring, s) /\ Linked(l, other, t)

\* s without its place k.
Cut(s, k) == [i \in 1..(Len(s) - 1) |-> IF i < k THEN s[i] ELSE s[i + 1]]

LEMMA EndsAre ==
    /\ \A n \in Nodes : n # Master /\ n # Free
    /\ Master # Free
    /\ \A ring, other : Sentinels(ring, other) =>
          /\ ring \in Places /\ other \in Places /\ ring # other
          /\ \A n \in Nodes : n # ring /\ n # other
<1>1. /\ \A n \in Nodes : n # Master /\ n # Free
      /\ Master # Free
  BY ListAssumption DEF Master, Free
<1>. QED  BY <1>1 DEF Sentinels, Ends, Places

\* The places of a ring are different.
LEMMA NodesAre ==
    ASSUME NEW s \in Seq(Nodes), Once(s), NEW ring, \A n \in Nodes : n # ring
    PROVE  /\ \A k \in 1..Len(s) : Node(s, ring, k) = s[k] /\ s[k] \in Nodes
           /\ Node(s, ring, 0) = ring /\ Node(s, ring, Len(s) + 1) = ring
           /\ \A i, j \in 0..Len(s) : Node(s, ring, i) = Node(s, ring, j) => i = j
           /\ \A i, j \in 1..(Len(s) + 1) : Node(s, ring, i) = Node(s, ring, j) => i = j
<1>1. Len(s) \in Nat /\ \A k \in 1..Len(s) : s[k] \in Nodes
  OBVIOUS
<1>2. \A k \in 1..Len(s) : Node(s, ring, k) = s[k] /\ s[k] \in Nodes
  BY <1>1 DEF Node
<1>3. Node(s, ring, 0) = ring /\ Node(s, ring, Len(s) + 1) = ring
  BY <1>1 DEF Node
<1>4. ASSUME NEW i \in 0..Len(s), NEW j \in 0..Len(s), Node(s, ring, i) = Node(s, ring, j)
      PROVE  i = j
  <2>1. CASE i = 0
    BY <1>1, <1>2, <1>3, <1>4, <2>1
  <2>2. CASE j = 0
    BY <1>1, <1>2, <1>3, <1>4, <2>2
  <2>3. CASE i \in 1..Len(s) /\ j \in 1..Len(s)
    BY <1>2, <1>4, <2>3 DEF Once
  <2>. QED  BY <1>1, <2>1, <2>2, <2>3
<1>5. ASSUME NEW i \in 1..(Len(s) + 1), NEW j \in 1..(Len(s) + 1), Node(s, ring, i) = Node(s, ring, j)
      PROVE  i = j
  <2>1. CASE i = Len(s) + 1
    BY <1>1, <1>2, <1>3, <1>5, <2>1
  <2>2. CASE j = Len(s) + 1
    BY <1>1, <1>2, <1>3, <1>5, <2>2
  <2>3. CASE i \in 1..Len(s) /\ j \in 1..Len(s)
    BY <1>2, <1>5, <2>3 DEF Once
  <2>. QED  BY <1>1, <2>1, <2>2, <2>3
<1>. QED  BY <1>2, <1>3, <1>4, <1>5

LEMMA RingsSwap ==
    ASSUME NEW l, NEW ring, NEW s, NEW other, NEW t, Rings(l, ring, s, other, t)
    PROVE  Rings(l, other, t, ring, s)
BY DEF Rings, Apart

\* A ring that keeps its links is still there.
LEMMA LinkedKept ==
    ASSUME NEW l, NEW m, NEW ring, NEW s, Linked(l, ring, s),
           \A k \in 0..Len(s) : /\ m.next[Node(s, ring, k)] = l.next[Node(s, ring, k)]
                                /\ m.prev[Node(s, ring, k + 1)] = l.prev[Node(s, ring, k + 1)]
    PROVE  Linked(m, ring, s)
BY DEF Linked

\* AddToFreeList and PutOnTailOfList put a node behind the last one.
LEMMA TailKeeps ==
    ASSUME NEW l, NEW ring, NEW s, NEW other, NEW t, Rings(l, ring, s, other, t),
           Sentinels(ring, other), NEW n \in Nodes, Outside(n, s), Outside(n, t)
    PROVE  Rings(AtTail(l, ring, n), ring, Append(s, n), other, t)
<1> DEFINE m == AtTail(l, ring, n)
           u == Append(s, n)
           last == Node(s, ring, Len(s))
<1>1. /\ s \in Seq(Nodes) /\ t \in Seq(Nodes) /\ Len(s) \in Nat /\ Len(t) \in Nat
      /\ Once(s) /\ Once(t) /\ Apart(s, t) /\ Linked(l, ring, s) /\ Linked(l, other, t)
      /\ l.next \in [Places -> Places] /\ l.prev \in [Places -> Places]
      /\ ring \in Places /\ other \in Places /\ ring # other /\ n \in Places
      /\ \A x \in Nodes : x # ring /\ x # other
  BY EndsAre DEF Rings, Links, Places
<1>2. /\ \A k \in 1..Len(s) : Node(s, ring, k) = s[k] /\ s[k] \in Nodes
      /\ Node(s, ring, 0) = ring /\ Node(s, ring, Len(s) + 1) = ring
      /\ \A i, j \in 0..Len(s) : Node(s, ring, i) = Node(s, ring, j) => i = j
      /\ \A i, j \in 1..(Len(s) + 1) : Node(s, ring, i) = Node(s, ring, j) => i = j
  BY <1>1, NodesAre
<1>3. /\ \A k \in 1..Len(t) : Node(t, other, k) = t[k] /\ t[k] \in Nodes
      /\ Node(t, other, 0) = other /\ Node(t, other, Len(t) + 1) = other
  BY <1>1, NodesAre
<1>4. l.prev[ring] = last /\ last \in Places
  <2>1. Len(s) \in 0..Len(s)
    BY <1>1
  <2>2. l.prev[Node(s, ring, Len(s) + 1)] = last
    BY <1>1, <2>1 DEF Linked
  <2>. QED  BY <1>1, <1>2, <2>2
<1>5. \A k \in 0..Len(s) : Node(s, ring, k) # n
  <2>1. \A k \in 1..Len(s) : Node(s, ring, k) # n
    BY <1>2 DEF Outside
  <2>. QED  BY <1>1, <1>2, <2>1
<1>6. /\ m \in Links
      /\ \A x \in Places : m.next[x] = IF x = n THEN ring ELSE IF x = last THEN n ELSE l.next[x]
      /\ \A x \in Places : m.prev[x] = IF x = ring THEN n ELSE IF x = n THEN last ELSE l.prev[x]
  <2>1. last # n
    BY <1>1, <1>5
  <2>. HIDE DEF last
  <2>. QED  BY <1>1, <1>4, <2>1 DEF AtTail, Links
<1>7. /\ u \in Seq(Nodes) /\ Len(u) = Len(s) + 1 /\ u[Len(s) + 1] = n
      /\ \A k \in 1..Len(s) : u[k] = s[k]
  BY <1>1, AppendProperties
<1> HIDE DEF m, u
<1>8. /\ \A k \in 0..Len(s) : Node(u, ring, k) = Node(s, ring, k) /\ Node(s, ring, k) \in Places
      /\ Node(u, ring, Len(s) + 1) = n /\ Node(u, ring, Len(s) + 2) = ring
  <2>1. \A k \in 1..Len(s) : Node(u, ring, k) = Node(s, ring, k) /\ Node(s, ring, k) \in Places
    BY <1>1, <1>2, <1>7 DEF Node, Places
  <2>2. Node(u, ring, 0) = ring
    BY <1>1, <1>7 DEF Node
  <2>3. Node(u, ring, Len(s) + 1) = n /\ Node(u, ring, Len(s) + 2) = ring
    BY <1>1, <1>7 DEF Node
  <2>. QED  BY <1>1, <1>2, <2>1, <2>2, <2>3
<1>9. Linked(m, ring, u)
  <2>1. ASSUME NEW k \in 0..(Len(s) - 1)
        PROVE  /\ m.next[Node(u, ring, k)] = Node(u, ring, k + 1)
               /\ m.prev[Node(u, ring, k + 1)] = Node(u, ring, k)
    <3>1. k \in 0..Len(s) /\ k + 1 \in 0..Len(s) /\ k # Len(s) /\ k + 1 \in 1..Len(s)
      BY <1>1
    <3>2. Node(s, ring, k) # last
      BY <1>1, <1>2, <3>1
    <3>3. Node(s, ring, k + 1) # ring /\ Node(s, ring, k + 1) # n /\ Node(s, ring, k) # n
      BY <1>1, <1>2, <1>5, <3>1
    <3>4. /\ l.next[Node(s, ring, k)] = Node(s, ring, k + 1)
          /\ l.prev[Node(s, ring, k + 1)] = Node(s, ring, k)
      BY <1>1, <3>1 DEF Linked
    <3>5. /\ Node(u, ring, k) = Node(s, ring, k) /\ Node(s, ring, k) \in Places
          /\ Node(u, ring, k + 1) = Node(s, ring, k + 1) /\ Node(s, ring, k + 1) \in Places
      BY <1>8, <3>1
    <3>. QED  BY <1>6, <3>2, <3>3, <3>4, <3>5
  <2>2. /\ m.next[Node(u, ring, Len(s))] = Node(u, ring, Len(s) + 1)
        /\ m.prev[Node(u, ring, Len(s) + 1)] = Node(u, ring, Len(s))
    <3>1. Len(s) \in 0..Len(s) /\ last # n
      BY <1>1, <1>5
    <3>2. Node(u, ring, Len(s)) = last /\ Node(u, ring, Len(s) + 1) = n
      BY <1>8, <3>1
    <3>. HIDE DEF last
    <3>. QED  BY <1>1, <1>4, <1>6, <3>1, <3>2
  <2>3. /\ m.next[Node(u, ring, Len(s) + 1)] = Node(u, ring, Len(s) + 2)
        /\ m.prev[Node(u, ring, Len(s) + 2)] = Node(u, ring, Len(s) + 1)
    BY <1>1, <1>6, <1>8
  <2>. QED
    <3>. SUFFICES ASSUME NEW k \in 0..Len(u)
                  PROVE  /\ m.next[Node(u, ring, k)] = Node(u, ring, k + 1)
                         /\ m.prev[Node(u, ring, k + 1)] = Node(u, ring, k)
      BY DEF Linked
    <3>1. k \in 0..(Len(s) - 1) \/ k = Len(s) \/ (k = Len(s) + 1 /\ k + 1 = Len(s) + 2)
      BY <1>1, <1>7
    <3>. QED  BY <2>1, <2>2, <2>3, <3>1
<1>10. Linked(m, other, t)
  <2>1. \A k \in 0..(Len(t) + 1) : /\ Node(t, other, k) \in Places /\ Node(t, other, k) # n
                                    /\ Node(t, other, k) # ring /\ Node(t, other, k) # last
    <3>. TAKE k \in 0..(Len(t) + 1)
    <3>1. CASE k \in 1..Len(t)
      <4>1. Node(t, other, k) = t[k] /\ t[k] \in Nodes /\ t[k] # n
        BY <1>3, <3>1 DEF Outside
      <4>2. t[k] # last
        <5>1. CASE Len(s) = 0
          BY <1>1, <1>2, <4>1, <5>1
        <5>2. CASE Len(s) # 0
          <6>1. Len(s) \in 1..Len(s)
            BY <1>1, <5>2
          <6>. QED  BY <1>1, <1>2, <3>1, <6>1 DEF Apart
        <5>. QED  BY <5>1, <5>2
      <4>. QED  BY <1>1, <4>1, <4>2 DEF Places
    <3>2. CASE k \notin 1..Len(t)
      <4>1. Node(t, other, k) = other
        BY <3>2 DEF Node
      <4>2. other # last
        <5>1. CASE Len(s) = 0
          BY <1>1, <1>2, <5>1
        <5>2. CASE Len(s) # 0
          <6>1. Len(s) \in 1..Len(s)
            BY <1>1, <5>2
          <6>. QED  BY <1>1, <1>2, <6>1
        <5>. QED  BY <5>1, <5>2
      <4>. QED  BY <1>1, <4>1, <4>2
    <3>. QED  BY <3>1, <3>2
  <2>2. \A k \in 0..Len(t) : k \in 0..(Len(t) + 1) /\ k + 1 \in 0..(Len(t) + 1)
    BY <1>1
  <2>. HIDE DEF last
  <2>3. \A k \in 0..Len(t) : /\ m.next[Node(t, other, k)] = l.next[Node(t, other, k)]
                             /\ m.prev[Node(t, other, k + 1)] = l.prev[Node(t, other, k + 1)]
    BY <1>6, <2>1, <2>2
  <2>. QED  BY <1>1, <2>3, LinkedKept
<1>11. Once(u)
  <2>. SUFFICES ASSUME NEW i \in 1..Len(u), NEW j \in 1..Len(u), u[i] = u[j] PROVE i = j
    BY DEF Once
  <2>1. (i \in 1..Len(s) \/ i = Len(s) + 1) /\ (j \in 1..Len(s) \/ j = Len(s) + 1)
    BY <1>1, <1>7
  <2>2. \A k \in 1..Len(s) : s[k] # n
    BY DEF Outside
  <2>. QED  BY <1>1, <1>7, <2>1, <2>2 DEF Once
<1>12. Apart(u, t)
  <2>1. \A i \in 1..Len(u) : i \in 1..Len(s) \/ i = Len(s) + 1
    BY <1>1, <1>7
  <2>. QED  BY <1>1, <1>7, <2>1 DEF Apart, Outside
<1>. QED  BY <1>1, <1>6, <1>7, <1>9, <1>10, <1>11, <1>12 DEF Rings, m, u

LEMMA NodesApart ==
    ASSUME NEW s \in Seq(Nodes), NEW t \in Seq(Nodes), Apart(s, t), NEW ring, NEW other, Sentinels(ring, other)
    PROVE  \A i, j \in Int : /\ Node(s, ring, i) # Node(t, other, j)
                             /\ Node(s, ring, i) \in Places
                             /\ Node(t, other, j) \in Nodes => j \in 1..Len(t) /\ Node(t, other, j) = t[j]
                             /\ Node(t, other, j) \in Places
<1>1. /\ ring \in Places /\ other \in Places /\ ring # other
      /\ \A x \in Nodes : x # ring /\ x # other
      /\ \A i \in 1..Len(s) : s[i] \in Nodes
      /\ \A i \in 1..Len(t) : t[i] \in Nodes
  BY EndsAre
<1>. TAKE i, j \in Int
<1>2. CASE i \in 1..Len(s) /\ j \in 1..Len(t)
  BY <1>1, <1>2 DEF Node, Apart, Places
<1>3. CASE i \in 1..Len(s) /\ j \notin 1..Len(t)
  BY <1>1, <1>3 DEF Node, Places
<1>4. CASE i \notin 1..Len(s) /\ j \in 1..Len(t)
  BY <1>1, <1>4 DEF Node, Places
<1>5. CASE i \notin 1..Len(s) /\ j \notin 1..Len(t)
  BY <1>1, <1>5 DEF Node, Places
<1>. QED  BY <1>2, <1>3, <1>4, <1>5

\* PutOnHeadOfList puts a node before the first one.
LEMMA HeadKeeps ==
    ASSUME NEW l, NEW ring, NEW s, NEW other, NEW t, Rings(l, ring, s, other, t),
           Sentinels(ring, other), NEW n \in Nodes, Outside(n, s), Outside(n, t)
    PROVE  Rings(AtHead(l, ring, n), ring, <<n>> \o s, other, t)
<1> DEFINE m == AtHead(l, ring, n)
           u == <<n>> \o s
           first == Node(s, ring, 1)
<1>1. /\ s \in Seq(Nodes) /\ t \in Seq(Nodes) /\ Len(s) \in Nat /\ Len(t) \in Nat
      /\ Once(s) /\ Once(t) /\ Apart(s, t) /\ Linked(l, ring, s) /\ Linked(l, other, t)
      /\ l.next \in [Places -> Places] /\ l.prev \in [Places -> Places]
      /\ ring \in Places /\ other \in Places /\ ring # other /\ n \in Places
      /\ \A x \in Nodes : x # ring /\ x # other
  BY EndsAre DEF Rings, Links, Places
<1>2. /\ \A k \in 1..Len(s) : Node(s, ring, k) = s[k] /\ s[k] \in Nodes
      /\ Node(s, ring, 0) = ring /\ Node(s, ring, Len(s) + 1) = ring
      /\ \A i, j \in 0..Len(s) : Node(s, ring, i) = Node(s, ring, j) => i = j
      /\ \A i, j \in 1..(Len(s) + 1) : Node(s, ring, i) = Node(s, ring, j) => i = j
  BY <1>1, NodesAre
<1>3. /\ \A k \in 1..Len(t) : Node(t, other, k) = t[k] /\ t[k] \in Nodes
      /\ Node(t, other, 0) = other /\ Node(t, other, Len(t) + 1) = other
  BY <1>1, NodesAre
<1>A. \A i, j \in Int : /\ Node(s, ring, i) # Node(t, other, j)
                        /\ Node(s, ring, i) \in Places
                        /\ Node(t, other, j) \in Nodes => j \in 1..Len(t) /\ Node(t, other, j) = t[j]
                        /\ Node(t, other, j) \in Places
  BY <1>1, NodesApart
<1>4. l.next[ring] = first /\ first \in Places
  <2>1. 0 \in 0..Len(s) /\ 0 + 1 = 1 /\ 1 \in Int
    BY <1>1
  <2>2. l.next[Node(s, ring, 0)] = Node(s, ring, 0 + 1)
    BY <1>1, <2>1 DEF Linked
  <2>. QED  BY <1>2, <1>A, <2>1, <2>2
<1>5. \A k \in 0..(Len(s) + 1) : Node(s, ring, k) # n
  <2>1. \A k \in 1..Len(s) : Node(s, ring, k) # n
    BY <1>2 DEF Outside
  <2>. QED  BY <1>1, <1>2, <2>1
<1>6. /\ m \in Links
      /\ \A x \in Places : m.next[x] = IF x = ring THEN n ELSE IF x = n THEN first ELSE l.next[x]
      /\ \A x \in Places : m.prev[x] = IF x = n THEN ring ELSE IF x = first THEN n ELSE l.prev[x]
  <2>1. first # n
    BY <1>1, <1>5
  <2>. HIDE DEF first
  <2>. QED  BY <1>1, <1>4, <2>1 DEF AtHead, Links
<1>7. /\ u \in Seq(Nodes) /\ Len(u) = Len(s) + 1 /\ u[1] = n
      /\ \A k \in 1..Len(s) : u[k + 1] = s[k]
      /\ \A k \in 2..Len(u) : u[k] = s[k - 1] /\ k - 1 \in 1..Len(s)
  BY <1>1
<1> HIDE DEF m, u
<1>8. /\ \A k \in 1..(Len(s) + 1) : Node(u, ring, k + 1) = Node(s, ring, k) /\ Node(s, ring, k) \in Places
      /\ Node(u, ring, 0) = ring /\ Node(u, ring, 1) = n
  <2>1. \A k \in 1..Len(s) : Node(u, ring, k + 1) = Node(s, ring, k) /\ Node(s, ring, k) \in Places
    BY <1>1, <1>2, <1>7 DEF Node, Places
  <2>2. Node(u, ring, 0) = ring /\ Node(u, ring, (Len(s) + 1) + 1) = ring
    BY <1>1, <1>7 DEF Node
  <2>3. Node(u, ring, 1) = n
    BY <1>1, <1>7 DEF Node
  <2>. QED  BY <1>1, <1>2, <2>1, <2>2, <2>3
<1>9. Linked(m, ring, u)
  <2>1. ASSUME NEW k \in 1..Len(s)
        PROVE  /\ m.next[Node(u, ring, k + 1)] = Node(u, ring, k + 2)
               /\ m.prev[Node(u, ring, k + 2)] = Node(u, ring, k + 1)
    <3>1. k \in 0..Len(s) /\ k \in 0..(Len(s) + 1) /\ k + 1 \in 0..(Len(s) + 1) /\ k + 1 \in 1..(Len(s) + 1) /\ 1 \in 1..(Len(s) + 1) /\ k + 1 # 1 /\ k \in 1..(Len(s) + 1)
          /\ (k + 1) + 1 = k + 2
      BY <1>1
    <3>2. Node(s, ring, k + 1) # first
      BY <1>2, <3>1
    <3>3. Node(s, ring, k + 1) # n /\ Node(s, ring, k) # n /\ Node(s, ring, k) # ring
      BY <1>1, <1>2, <1>5, <3>1
    <3>4. /\ l.next[Node(s, ring, k)] = Node(s, ring, k + 1)
          /\ l.prev[Node(s, ring, k + 1)] = Node(s, ring, k)
      BY <1>1, <3>1 DEF Linked
    <3>5. /\ Node(u, ring, k + 1) = Node(s, ring, k) /\ Node(s, ring, k) \in Places
          /\ Node(u, ring, k + 2) = Node(s, ring, k + 1) /\ Node(s, ring, k + 1) \in Places
      BY <1>8, <3>1
    <3>. QED  BY <1>6, <3>2, <3>3, <3>4, <3>5
  <2>2. /\ m.next[Node(u, ring, 1)] = Node(u, ring, 2)
        /\ m.prev[Node(u, ring, 2)] = Node(u, ring, 1)
    <3>1. 1 \in 1..(Len(s) + 1) /\ 1 + 1 = 2 /\ 1 \in 0..(Len(s) + 1)
      BY <1>1
    <3>2. Node(u, ring, 2) = first /\ Node(u, ring, 1) = n /\ first # n
      BY <1>5, <1>8, <3>1
    <3>. HIDE DEF first
    <3>. QED  BY <1>1, <1>4, <1>6, <3>2
  <2>3. /\ m.next[Node(u, ring, 0)] = Node(u, ring, 1)
        /\ m.prev[Node(u, ring, 1)] = Node(u, ring, 0)
    BY <1>1, <1>6, <1>8
  <2>. QED
    <3>. SUFFICES ASSUME NEW k \in 0..Len(u)
                  PROVE  /\ m.next[Node(u, ring, k)] = Node(u, ring, k + 1)
                         /\ m.prev[Node(u, ring, k + 1)] = Node(u, ring, k)
      BY DEF Linked
    <3>1. (k = 0 /\ k + 1 = 1) \/ (k = 1 /\ k + 1 = 2) \/ (k - 1 \in 1..Len(s) /\ (k - 1) + 1 = k /\ (k - 1) + 2 = k + 1)
      BY <1>1, <1>7
    <3>. QED  BY <2>1, <2>2, <2>3, <3>1
<1>10. Linked(m, other, t)
  <2>1. \A k \in 0..(Len(t) + 1) : /\ Node(t, other, k) \in Places /\ Node(t, other, k) # n
                                    /\ Node(t, other, k) # ring /\ Node(t, other, k) # first
    <3>. TAKE k \in 0..(Len(t) + 1)
    <3>1. k \in Int /\ 0 \in Int /\ 1 \in Int
      OBVIOUS
    <3>2. Node(t, other, k) # n
      BY <1>A, <3>1 DEF Outside
    <3>. QED  BY <1>2, <1>A, <3>1, <3>2
  <2>2. \A k \in 0..Len(t) : k \in 0..(Len(t) + 1) /\ k + 1 \in 0..(Len(t) + 1)
    BY <1>1
  <2>. HIDE DEF first
  <2>3. \A k \in 0..Len(t) : /\ m.next[Node(t, other, k)] = l.next[Node(t, other, k)]
                             /\ m.prev[Node(t, other, k + 1)] = l.prev[Node(t, other, k + 1)]
    BY <1>6, <2>1, <2>2
  <2>. QED  BY <1>1, <2>3, LinkedKept
<1>11. Once(u)
  <2>. SUFFICES ASSUME NEW i \in 1..Len(u), NEW j \in 1..Len(u), u[i] = u[j] PROVE i = j
    BY DEF Once
  <2>1. (i = 1 \/ i \in 2..Len(u)) /\ (j = 1 \/ j \in 2..Len(u))
    BY <1>1, <1>7
  <2>2. \A k \in 1..Len(s) : s[k] # n
    BY DEF Outside
  <2>3. CASE i \in 2..Len(u) /\ j \in 2..Len(u)
    <3>1. /\ u[i] = s[i - 1] /\ i - 1 \in 1..Len(s)
          /\ u[j] = s[j - 1] /\ j - 1 \in 1..Len(s)
      BY <1>7, <2>3
    <3>2. i - 1 = j - 1
      BY <1>1, <3>1 DEF Once
    <3>. QED  BY <2>3, <3>2
  <2>. QED  BY <1>7, <2>1, <2>2, <2>3
<1>12. Apart(u, t)
  <2>. SUFFICES ASSUME NEW i \in 1..Len(u), NEW j \in 1..Len(t) PROVE u[i] # t[j]
    BY DEF Apart
  <2>1. CASE i = 1
    BY <1>7, <2>1 DEF Outside
  <2>2. CASE i \in 2..Len(u)
    <3>1. u[i] = s[i - 1] /\ i - 1 \in 1..Len(s)
      BY <1>7, <2>2
    <3>. QED  BY <1>1, <3>1 DEF Apart
  <2>. QED  BY <1>1, <1>7, <2>1, <2>2
<1>. QED  BY <1>1, <1>6, <1>7, <1>9, <1>10, <1>11, <1>12 DEF Rings, m, u

\* RemoveNode takes a node out of its ring.
LEMMA CutKeeps ==
    ASSUME NEW l, NEW ring, NEW s, NEW other, NEW t, Rings(l, ring, s, other, t),
           Sentinels(ring, other), NEW c \in 1..Len(s)
    PROVE  /\ Rings(Unspliced(l, s[c]), ring, Cut(s, c), other, t)
           /\ Outside(s[c], Cut(s, c)) /\ Outside(s[c], t) /\ s[c] \in Nodes
           /\ Len(Cut(s, c)) = Len(s) - 1
<1> DEFINE m == Unspliced(l, s[c])
           u == Cut(s, c)
           before == Node(s, ring, c - 1)
           behind == Node(s, ring, c + 1)
<1>1. /\ s \in Seq(Nodes) /\ t \in Seq(Nodes) /\ Len(s) \in Nat /\ Len(t) \in Nat
      /\ Once(s) /\ Once(t) /\ Apart(s, t) /\ Linked(l, ring, s) /\ Linked(l, other, t)
      /\ l.next \in [Places -> Places] /\ l.prev \in [Places -> Places]
      /\ ring \in Places /\ other \in Places /\ ring # other
      /\ \A x \in Nodes : x # ring /\ x # other
      /\ s[c] \in Nodes /\ s[c] \in Places
  BY EndsAre DEF Rings, Links, Places
<1>2. /\ \A k \in 1..Len(s) : Node(s, ring, k) = s[k] /\ s[k] \in Nodes
      /\ Node(s, ring, 0) = ring /\ Node(s, ring, Len(s) + 1) = ring
      /\ \A i, j \in 0..Len(s) : Node(s, ring, i) = Node(s, ring, j) => i = j
      /\ \A i, j \in 1..(Len(s) + 1) : Node(s, ring, i) = Node(s, ring, j) => i = j
  <2>1. s \in Seq(Nodes) /\ Once(s) /\ \A x \in Nodes : x # ring
    BY <1>1
  <2>. QED  BY ONLY <2>1, NodesAre
<1>A. \A i, j \in Int : /\ Node(s, ring, i) # Node(t, other, j)
                        /\ Node(s, ring, i) \in Places
                        /\ Node(t, other, j) \in Places
  BY <1>1, NodesApart
<1>4. l.next[s[c]] = behind /\ behind \in Places /\ l.prev[s[c]] = before /\ before \in Places
  <2>1. c \in 0..Len(s) /\ c - 1 \in 0..Len(s) /\ (c - 1) + 1 = c /\ c - 1 \in Int /\ c + 1 \in Int
    BY <1>1
  <2>2. l.next[Node(s, ring, c)] = Node(s, ring, c + 1)
    BY <1>1, <2>1 DEF Linked
  <2>3. l.prev[Node(s, ring, (c - 1) + 1)] = Node(s, ring, c - 1)
    BY <1>1, <2>1 DEF Linked
  <2>. QED  BY <1>2, <1>A, <2>1, <2>2, <2>3
<1>6. /\ m \in Links
      /\ \A x \in Places : m.next[x] = IF x = before THEN behind ELSE l.next[x]
      /\ \A x \in Places : m.prev[x] = IF x = behind THEN before ELSE l.prev[x]
  <2>. HIDE DEF before, behind
  <2>. QED  BY <1>1, <1>4 DEF Unspliced, Links
<1>7. /\ u \in Seq(Nodes) /\ Len(u) = Len(s) - 1
      /\ \A k \in 1..(c - 1) : u[k] = s[k] /\ k \in 1..Len(s) /\ k \in 1..Len(u)
      /\ \A k \in c..Len(u) : u[k] = s[k + 1] /\ k + 1 \in 1..Len(s) /\ k \in 1..Len(u)
  <2>1. \A k \in 1..(Len(s) - 1) : (IF k < c THEN s[k] ELSE s[k + 1]) \in Nodes
    BY <1>1
  <2>2. u \in Seq(Nodes) /\ Len(u) = Len(s) - 1
    <3>1. u \in [1..(Len(s) - 1) -> Nodes] /\ Len(s) - 1 \in Nat
      BY <1>1, <2>1 DEF Cut
    <3>2. u \in Seq(Nodes)
      BY <3>1
    <3>3. DOMAIN u = 1..(Len(s) - 1) /\ DOMAIN u = 1..Len(u) /\ Len(u) \in Nat
      BY <3>1, <3>2
    <3>. QED  BY <1>1, <3>1, <3>2, <3>3
  <2>. QED  BY <1>1, <2>2 DEF Cut
<1> HIDE DEF m, u
<1>8. /\ \A k \in 0..(c - 1) : Node(u, ring, k) = Node(s, ring, k)
      /\ \A k \in c..Len(s) : Node(u, ring, k) = Node(s, ring, k + 1)
  <2>1. \A k \in 1..(c - 1) : Node(u, ring, k) = Node(s, ring, k)
    BY <1>1, <1>7 DEF Node
  <2>2. Node(u, ring, 0) = ring
    BY <1>1, <1>7 DEF Node
  <2>3. \A k \in c..Len(u) : Node(u, ring, k) = Node(s, ring, k + 1)
    BY <1>1, <1>7 DEF Node
  <2>4. Node(u, ring, Len(s)) = ring
    BY <1>1, <1>7 DEF Node
  <2>5. \A k \in c..Len(s) : k \in c..Len(u) \/ k = Len(s)
    BY <1>1, <1>7
  <2>6. \A k \in 0..(c - 1) : k = 0 \/ k \in 1..(c - 1)
    OBVIOUS
  <2>. QED  BY <1>2, <2>1, <2>2, <2>3, <2>4, <2>5, <2>6
<1>9. Linked(m, ring, u)
  <2>. SUFFICES ASSUME NEW k \in 0..(Len(s) - 1)
                PROVE  /\ m.next[Node(u, ring, k)] = Node(u, ring, k + 1)
                       /\ m.prev[Node(u, ring, k + 1)] = Node(u, ring, k)
    BY <1>7 DEF Linked
  <2>0. /\ c \in 1..Len(s) /\ Len(s) \in Nat /\ c - 1 \in 0..Len(s) /\ c + 1 \in 1..(Len(s) + 1)
        /\ c + 1 \in Int /\ c - 1 \in Int
    BY <1>1
  <2>1. CASE k < c - 1
    <3>1. /\ k \in 0..(c - 1) /\ k + 1 \in 0..(c - 1) /\ k \in 0..Len(s) /\ k # c - 1
          /\ k + 1 \in 1..(Len(s) + 1) /\ k + 1 # c + 1 /\ k \in Int /\ k + 1 \in Int
      BY <2>0, <2>1
    <3>2. Node(s, ring, k) # before /\ Node(s, ring, k + 1) # behind
      BY <1>2, <2>0, <3>1
    <3>3. /\ l.next[Node(s, ring, k)] = Node(s, ring, k + 1)
          /\ l.prev[Node(s, ring, k + 1)] = Node(s, ring, k)
      BY <1>1, <3>1 DEF Linked
    <3>4. Node(s, ring, k) \in Places /\ Node(s, ring, k + 1) \in Places
      BY <1>A, <3>1
    <3>5. Node(u, ring, k) = Node(s, ring, k) /\ Node(u, ring, k + 1) = Node(s, ring, k + 1)
      BY <1>8, <3>1
    <3>. QED  BY <1>6, <3>2, <3>3, <3>4, <3>5
  <2>2. CASE k = c - 1
    <3>1. c - 1 \in 0..(c - 1) /\ c \in c..Len(s) /\ k + 1 = c
      BY <2>0, <2>2
    <3>2. Node(u, ring, k) = before /\ Node(u, ring, k + 1) = behind
      BY <1>8, <2>2, <3>1
    <3>. HIDE DEF before, behind
    <3>. QED  BY <1>4, <1>6, <3>2
  <2>3. CASE k > c - 1
    <3>1. /\ k \in c..Len(s) /\ k + 1 \in c..Len(s) /\ k + 1 \in 0..Len(s) /\ k + 1 # c - 1
          /\ (k + 1) + 1 \in 1..(Len(s) + 1) /\ (k + 1) + 1 # c + 1 /\ k + 1 \in Int /\ (k + 1) + 1 \in Int
      BY <2>0, <2>3
    <3>2. Node(s, ring, k + 1) # before /\ Node(s, ring, (k + 1) + 1) # behind
      BY <1>2, <2>0, <3>1
    <3>3. /\ l.next[Node(s, ring, k + 1)] = Node(s, ring, (k + 1) + 1)
          /\ l.prev[Node(s, ring, (k + 1) + 1)] = Node(s, ring, k + 1)
      BY <1>1, <3>1 DEF Linked
    <3>4. Node(s, ring, k + 1) \in Places /\ Node(s, ring, (k + 1) + 1) \in Places
      BY <1>A, <3>1
    <3>5. Node(u, ring, k) = Node(s, ring, k + 1) /\ Node(u, ring, k + 1) = Node(s, ring, (k + 1) + 1)
      BY <1>8, <3>1
    <3>. QED  BY <1>6, <3>2, <3>3, <3>4, <3>5
  <2>4. k < c - 1 \/ k = c - 1 \/ k > c - 1
    BY <2>0
  <2>. QED  BY <2>1, <2>2, <2>3, <2>4
<1>10. Linked(m, other, t)
  <2>1. \A k \in 0..(Len(t) + 1) : /\ Node(t, other, k) \in Places
                                    /\ Node(t, other, k) # before /\ Node(t, other, k) # behind
    <3>. TAKE k \in 0..(Len(t) + 1)
    <3>1. k \in Int /\ c - 1 \in Int /\ c + 1 \in Int
      BY <1>1
    <3>. QED  BY <1>A, <3>1
  <2>2. \A k \in 0..Len(t) : k \in 0..(Len(t) + 1) /\ k + 1 \in 0..(Len(t) + 1)
    BY <1>1
  <2>. HIDE DEF before, behind
  <2>3. \A k \in 0..Len(t) : /\ m.next[Node(t, other, k)] = l.next[Node(t, other, k)]
                             /\ m.prev[Node(t, other, k + 1)] = l.prev[Node(t, other, k + 1)]
    BY <1>6, <2>1, <2>2
  <2>. QED  BY <1>1, <2>3, LinkedKept
<1>11. \A i \in 1..Len(u) : \E k \in 1..Len(s) : /\ u[i] = s[k] /\ k # c /\ (i < c => k = i) /\ (i >= c => k = i + 1)
  <2>. TAKE i \in 1..Len(u)
  <2>1. i \in 1..(c - 1) \/ i \in c..Len(u)
    BY <1>1, <1>7
  <2>2. CASE i \in 1..(c - 1)
    <3>1. u[i] = s[i] /\ i \in 1..Len(s) /\ i # c /\ i < c
      BY <1>7, <2>2
    <3>. QED  BY <3>1
  <2>3. CASE i \in c..Len(u)
    <3>1. u[i] = s[i + 1] /\ i + 1 \in 1..Len(s) /\ i + 1 # c /\ i >= c
      BY <1>7, <2>3
    <3>. QED  BY <3>1
  <2>. QED  BY <2>1, <2>2, <2>3
<1>12. Once(u)
  <2>. SUFFICES ASSUME NEW i \in 1..Len(u), NEW j \in 1..Len(u), u[i] = u[j] PROVE i = j
    BY DEF Once
  <2>1. PICK k \in 1..Len(s) : /\ u[i] = s[k] /\ k # c /\ (i < c => k = i) /\ (i >= c => k = i + 1)
    BY <1>11
  <2>2. PICK h \in 1..Len(s) : /\ u[j] = s[h] /\ h # c /\ (j < c => h = j) /\ (j >= c => h = j + 1)
    BY <1>11
  <2>3. k = h
    BY <1>1, <2>1, <2>2 DEF Once
  <2>. QED  BY <2>1, <2>2, <2>3
<1>13. Apart(u, t)
  BY <1>1, <1>11 DEF Apart
<1>14. Outside(s[c], u)
  BY <1>1, <1>11 DEF Outside, Once
<1>15. Outside(s[c], t)
  BY <1>1 DEF Outside, Apart
<1>. QED  BY <1>1, <1>6, <1>7, <1>9, <1>10, <1>12, <1>13, <1>14, <1>15 DEF Rings, m, u

(***************************************************************************)
(* What a walk along the links gives.                                      *)
(***************************************************************************)
NextNode(node, to, k) == to[node]

Walking == INSTANCE FoldProofs WITH op <- NextNode, step <- NextNode

LEMMA NoMoreThanNodes ==
    ASSUME NEW s \in Seq(Nodes), Once(s)
    PROVE  Cardinality(Nodes) \in Nat /\ Len(s) <= Cardinality(Nodes)
<1>1. s \in Injection(1..Len(s), Nodes)
  BY DEF Once, Injection, IsInjective
<1>2. IsFiniteSet(Nodes)
  BY ListAssumption
<1>3. Cardinality(1..Len(s)) = Len(s)
  <2>1. Len(s) \in Nat /\ 1 \in Int /\ Len(s) \in Int
    OBVIOUS
  <2>2. Cardinality(1..Len(s)) = IF 1 > Len(s) THEN 0 ELSE Len(s) - 1 + 1
    BY ONLY <2>1, FS_Interval
  <2>. QED  BY <2>1, <2>2
<1>4. Cardinality(1..Len(s)) <= Cardinality(Nodes)
  BY <1>1, <1>2, FS_Injection
<1>5. Cardinality(Nodes) \in Nat
  BY <1>2, FS_CardinalityType
<1>. QED  BY <1>3, <1>4, <1>5

LEMMA RingIs ==
    ASSUME NEW to, NEW ring, NEW s \in Seq(Nodes), Once(s), \A n \in Nodes : n # ring,
           \A k \in 0..Len(s) : to[Node(s, ring, k)] = Node(s, ring, k + 1)
    PROVE  Ring(to, ring) = s
<1> DEFINE c == Cardinality(Nodes) + 1
           G(g) == g = [k \in 1..c |-> IF k = 1 THEN to[ring] ELSE to[g[k - 1]]]
           g == CHOOSE g : G(g)
           closed == {k \in DOMAIN g : g[k] = ring}
<1>1. Len(s) \in Nat /\ Cardinality(Nodes) \in Nat /\ Len(s) <= Cardinality(Nodes)
  BY NoMoreThanNodes
<1>2. G(g)
  <2>1. \E f : Walking!Iterates(f, to[ring], to, c)
    <3>1. c \in Nat
      BY <1>1
    <3>. HIDE DEF c
    <3>. QED  BY ONLY <3>1, Walking!Iterated
  <2>2. \E f : G(f)
    BY <2>1 DEF Walking!Iterates, NextNode
  <2>. HIDE DEF G
  <2>. QED  BY <2>2
<1>3. Ring(to, ring) = IF closed = {} THEN <<Nobody>> ELSE [k \in 1 .. Min(closed) - 1 |-> g[k]]
  BY DEF Ring
<1> HIDE DEF g
<1>4. /\ DOMAIN g = 1..c
      /\ \A k \in 1..c : g[k] = IF k = 1 THEN to[ring] ELSE to[g[k - 1]]
  BY <1>2
<1>5. /\ \A k \in 1..Len(s) : Node(s, ring, k) = s[k] /\ s[k] \in Nodes
      /\ Node(s, ring, 0) = ring /\ Node(s, ring, Len(s) + 1) = ring
  BY NodesAre
<1>6. \A k \in 1..(Len(s) + 1) : g[k] = Node(s, ring, k)
  <2> DEFINE T == {k \in 1..(Len(s) + 1) : g[k] # Node(s, ring, k)}
  <2>1. SUFFICES ASSUME T # {} PROVE FALSE
    BY <2>1
  <2>2. T \in SUBSET Nat
    BY <1>1
  <2>3. PICK m \in T : \A k \in T : m <= k
    <3>. HIDE DEF T
    <3>. QED  BY <2>1, <2>2, Walking!Least
  <2>4. m \in 1..(Len(s) + 1) /\ g[m] # Node(s, ring, m) /\ m \in 1..c
    BY <1>1
  <2>5. CASE m = 1
    <3>1. to[Node(s, ring, 0)] = Node(s, ring, 0 + 1)
      BY <1>1
    <3>. QED  BY <1>4, <1>5, <2>4, <2>5, <3>1
  <2>6. CASE m # 1
    <3>1. m - 1 \in 1..(Len(s) + 1) /\ m - 1 \in 0..Len(s) /\ (m - 1) + 1 = m /\ m - 1 < m
      BY <1>1, <2>4, <2>6
    <3>2. g[m - 1] = Node(s, ring, m - 1)
      BY <2>3, <2>4, <3>1
    <3>3. to[Node(s, ring, m - 1)] = Node(s, ring, (m - 1) + 1)
      BY <3>1
    <3>. QED  BY <1>4, <2>4, <2>6, <3>1, <3>2, <3>3
  <2>. QED  BY <2>5, <2>6
<1>7. Len(s) + 1 \in closed /\ \A k \in closed : k \in Nat /\ Len(s) + 1 <= k
  <2>1. \A k \in 1..Len(s) : k \in 1..(Len(s) + 1) /\ g[k] # ring
    BY <1>1, <1>5, <1>6
  <2>. QED  BY <1>1, <1>4, <1>5, <1>6, <2>1
<1>8. Min(closed) = Len(s) + 1
  <2>1. \A x \in closed : (\A y \in closed : x =< y) => x = Len(s) + 1
    BY <1>1, <1>7
  <2>2. \E x \in closed : \A y \in closed : x =< y
    BY <1>7
  <2> DEFINE x == CHOOSE x \in closed : \A y \in closed : x =< y
  <2>3. x \in closed /\ \A y \in closed : x =< y
    BY <2>2
  <2>. QED  BY <2>1, <2>3 DEF Min
<1>9. Ring(to, ring) = [k \in 1..Len(s) |-> g[k]]
  <2>1. Min(closed) - 1 = Len(s)
    BY <1>1, <1>8
  <2>. QED  BY <1>3, <1>7, <2>1
<1>10. \A k \in 1..Len(s) : k \in 1..(Len(s) + 1) /\ g[k] = s[k]
  BY <1>1, <1>5, <1>6
<1>11. s = [k \in 1..Len(s) |-> s[k]]
  OBVIOUS
<1>. QED  BY <1>9, <1>10, <1>11

\* Along m_pNext both rings are the nodes of s, along m_pPrev in reverse.
LEMMA LinkedRing ==
    ASSUME NEW l, NEW ring, NEW s \in Seq(Nodes), Once(s), \A n \in Nodes : n # ring, Linked(l, ring, s)
    PROVE  Ring(l.next, ring) = s /\ Reverse(Ring(l.prev, ring)) = s
<1>1. Ring(l.next, ring) = s
  BY RingIs DEF Linked
<1> DEFINE b == Reverse(s)
<1>2. /\ Len(s) \in Nat
      /\ \A k \in 1..Len(s) : Len(s) - k + 1 \in 1..Len(s)
  OBVIOUS
<1>3. /\ b \in Seq(Nodes) /\ Len(b) = Len(s)
      /\ \A k \in 1..Len(s) : b[k] = s[Len(s) - k + 1]
  <2>1. b \in [1..Len(s) -> Nodes]
    BY <1>2 DEF Reverse
  <2>2. b \in Seq(Nodes)
    BY <1>2, <2>1
  <2>3. Len(b) = Len(s)
    BY <1>2, <2>1, <2>2
  <2>. QED  BY <2>2, <2>3 DEF Reverse
<1> HIDE DEF b
<1>4. Once(b)
  <2>. SUFFICES ASSUME NEW i \in 1..Len(b), NEW j \in 1..Len(b), b[i] = b[j] PROVE i = j
    BY DEF Once
  <2>1. s[Len(s) - i + 1] = s[Len(s) - j + 1] /\ Len(s) - i + 1 \in 1..Len(s) /\ Len(s) - j + 1 \in 1..Len(s)
    BY <1>2, <1>3
  <2>2. Len(s) - i + 1 = Len(s) - j + 1
    BY <2>1 DEF Once
  <2>. QED  BY <1>2, <1>3, <2>2
<1>5. \A k \in 0..(Len(s) + 1) : Node(b, ring, k) = Node(s, ring, Len(s) + 1 - k)
  <2>. TAKE k \in 0..(Len(s) + 1)
  <2>1. CASE k \in 1..Len(s)
    <3>1. Len(s) - k + 1 \in 1..Len(s) /\ Len(s) + 1 - k = Len(s) - k + 1
      BY <1>2, <2>1
    <3>. QED  BY <1>3, <2>1, <3>1 DEF Node
  <2>2. CASE k \notin 1..Len(s)
    <3>1. Len(s) + 1 - k \notin 1..Len(s)
      BY <1>2, <2>2
    <3>. QED  BY <1>3, <2>2, <3>1 DEF Node
  <2>. QED  BY <2>1, <2>2
<1>6. \A k \in 0..Len(b) : l.prev[Node(b, ring, k)] = Node(b, ring, k + 1)
  <2>. TAKE k \in 0..Len(b)
  <2>1. /\ k \in 0..(Len(s) + 1) /\ k + 1 \in 0..(Len(s) + 1) /\ Len(s) - k \in 0..Len(s)
        /\ Len(s) + 1 - k = (Len(s) - k) + 1 /\ Len(s) + 1 - (k + 1) = Len(s) - k
    BY <1>2, <1>3
  <2>2. l.prev[Node(s, ring, (Len(s) - k) + 1)] = Node(s, ring, Len(s) - k)
    BY <2>1 DEF Linked
  <2>. QED  BY <1>5, <2>1, <2>2
<1>7. Ring(l.prev, ring) = b
  BY <1>3, <1>4, <1>6, RingIs
<1>8. Reverse(b) = s
  <2>1. \A k \in 1..Len(s) : b[(Len(b) - k) + 1] = s[k]
    <3>. TAKE k \in 1..Len(s)
    <3>1. Len(s) - k + 1 \in 1..Len(s) /\ Len(s) - (Len(s) - k + 1) + 1 = k
      BY <1>2
    <3>2. b[Len(s) - k + 1] = s[Len(s) - (Len(s) - k + 1) + 1]
      BY <1>3, <3>1
    <3>. QED  BY <1>3, <3>1, <3>2
  <2>2. s = [k \in 1..Len(s) |-> s[k]]
    OBVIOUS
  <2>. QED  BY <1>3, <2>1, <2>2 DEF Reverse
<1>. QED  BY <1>1, <1>7, <1>8

(***************************************************************************)
(* The list holds what is queued, in its order.                            *)
(***************************************************************************)
Asks == {"head", "tail", "empty"}
Takes == {"take head", "take tail"}

\* What the semaphore has counted down for an element that is still in the list.
Promised(c) == IF at[c] \in Takes \/ (at[c] \in Asks /\ granted) THEN 1 ELSE 0

Holds(used, els, q) == Len(q) = Len(used) /\ \A k \in 1..Len(used) : els[used[k]] = q[k]

\* RemoveIf is at a place of the list and has left no equal element before it.
Walked(used, q, w) ==
    \E p \in 1..(Len(used) + 1) : /\ w.node = Node(used, Master, p)
                                  /\ \A j \in 1..(p - 1) : q[j] # w.element

ListType ==
    /\ element \in [Nodes -> Data \union {Nobody}]
    /\ queue \in Seq(Data)
    /\ permits \in Nat /\ granted \in BOOLEAN
    /\ at \in [Consumers -> {"idle", "remove"} \union Asks \union Takes]
    /\ walk \in [node : Places, element : Data \union {Nobody}]

ListInv(c) ==
    /\ ListType /\ ~thrown
    /\ (at[c] = "remove" <=> lock # Nobody)
    /\ permits + Promised(c) = Len(queue)
    /\ \E used, free : /\ Rings(links, Master, used, Free, free)
                       /\ Holds(used, element, queue)
                       /\ at[c] = "remove" => Walked(used, queue, walk)

LEMMA CutIs ==
    ASSUME NEW D, NEW q \in Seq(D), NEW k \in 1..Len(q)
    PROVE  /\ Cut(q, k) \in Seq(D) /\ Len(Cut(q, k)) = Len(q) - 1 /\ Len(q) \in Nat
           /\ \A i \in 1..(Len(q) - 1) : Cut(q, k)[i] = IF i < k THEN q[i] ELSE q[i + 1]
           /\ RemoveAt(q, k) = Cut(q, k)
           /\ k = 1 => Tail(q) = Cut(q, k)
           /\ k = Len(q) => Front(q) = Cut(q, k)
<1>1. Len(q) \in Nat /\ Len(q) - 1 \in Nat /\ \A i \in 1..Len(q) : q[i] \in D
  OBVIOUS
<1>2. Cut(q, k) \in [1..(Len(q) - 1) -> D]
  <2>1. \A i \in 1..(Len(q) - 1) : (IF i < k THEN q[i] ELSE q[i + 1]) \in D
    BY <1>1
  <2>. QED  BY <2>1 DEF Cut
<1>3. Cut(q, k) \in Seq(D) /\ Len(Cut(q, k)) = Len(q) - 1
  <2>1. Cut(q, k) \in Seq(D)
    BY <1>1, <1>2
  <2>2. DOMAIN Cut(q, k) = 1..Len(Cut(q, k)) /\ Len(Cut(q, k)) \in Nat
    BY <2>1
  <2>3. DOMAIN Cut(q, k) = 1..(Len(q) - 1)
    BY <1>2
  <2>. QED  BY <1>1, <2>1, <2>2, <2>3
<1>4. \A i \in 1..(Len(q) - 1) : Cut(q, k)[i] = IF i < k THEN q[i] ELSE q[i + 1]
  BY DEF Cut
<1>5. RemoveAt(q, k) = Cut(q, k)
  <2> DEFINE a == SubSeq(q, 1, k - 1)
             b == SubSeq(q, k + 1, Len(q))
  <2>1. a \in Seq(D) /\ Len(a) = k - 1 /\ \A i \in 1..(k - 1) : a[i] = q[i]
    BY <1>1
  <2>2. b \in Seq(D) /\ Len(b) = Len(q) - k /\ \A i \in 1..(Len(q) - k) : b[i] = q[k + i]
    BY <1>1
  <2>3. RemoveAt(q, k) = a \o b
    BY DEF RemoveAt
  <2> HIDE DEF a, b
  <2>4. /\ a \o b \in Seq(D) /\ Len(a \o b) = Len(q) - 1
        /\ \A i \in 1..(Len(q) - 1) : (a \o b)[i] = IF i < k THEN q[i] ELSE q[i + 1]
    <3>1. a \o b \in Seq(D) /\ Len(a \o b) = Len(q) - 1
      BY <1>1, <2>1, <2>2
    <3>2. ASSUME NEW i \in 1..(Len(q) - 1)
          PROVE  (a \o b)[i] = IF i < k THEN q[i] ELSE q[i + 1]
      <4>1. CASE i < k
        <5>1. i \in 1..(k - 1)
          BY <4>1
        <5>. QED  BY <1>1, <2>1, <2>2, <4>1, <5>1
      <4>2. CASE ~(i < k)
        <5>1. i - (k - 1) \in 1..(Len(q) - k) /\ k + (i - (k - 1)) = i + 1 /\ i > Len(a)
          BY <1>1, <2>1, <4>2
        <5>2. (a \o b)[i] = b[i - Len(a)]
          BY <1>1, <2>1, <2>2, <5>1
        <5>3. b[i - (k - 1)] = q[i + 1]
          BY <2>2, <5>1
        <5>. QED  BY <2>1, <4>2, <5>2, <5>3
      <4>. QED  BY <4>1, <4>2
    <3>. QED  BY <3>1, <3>2
  <2>. QED  BY <1>3, <1>4, <2>3, <2>4, SeqEqual
<1>6. k = 1 => Tail(q) = Cut(q, k)
  <2>. SUFFICES ASSUME k = 1 PROVE Tail(q) = Cut(q, k)
    OBVIOUS
  <2>1. Tail(q) \in Seq(D) /\ Len(Tail(q)) = Len(q) - 1 /\ \A i \in 1..(Len(q) - 1) : Tail(q)[i] = q[i + 1]
    BY <1>1
  <2>. QED  BY <1>3, <1>4, <2>1, SeqEqual
<1>7. k = Len(q) => Front(q) = Cut(q, k)
  <2>. SUFFICES ASSUME k = Len(q) PROVE Front(q) = Cut(q, k)
    OBVIOUS
  <2>1. Front(q) \in Seq(D) /\ Len(Front(q)) = Len(q) - 1 /\ \A i \in 1..(Len(q) - 1) : Front(q)[i] = q[i]
    BY <1>1 DEF Front
  <2>. QED  BY <1>3, <1>4, <2>1, SeqEqual
<1>. QED  BY <1>1, <1>3, <1>4, <1>5, <1>6, <1>7

LEMMA HoldsCut ==
    ASSUME NEW used \in Seq(Nodes), NEW els, NEW q \in Seq(Data), Holds(used, els, q), NEW k \in 1..Len(used)
    PROVE  Holds(Cut(used, k), els, Cut(q, k))
<1>1. /\ Len(Cut(used, k)) = Len(used) - 1 /\ Len(used) \in Nat
      /\ \A i \in 1..(Len(used) - 1) : Cut(used, k)[i] = IF i < k THEN used[i] ELSE used[i + 1]
  BY CutIs
<1>2. k \in 1..Len(q) /\ Len(q) = Len(used)
  BY DEF Holds
<1>3. /\ Len(Cut(q, k)) = Len(q) - 1
      /\ \A i \in 1..(Len(q) - 1) : Cut(q, k)[i] = IF i < k THEN q[i] ELSE q[i + 1]
  BY <1>2, CutIs
<1>4. ASSUME NEW i \in 1..(Len(used) - 1)
      PROVE  els[Cut(used, k)[i]] = Cut(q, k)[i]
  <2>1. i \in 1..Len(used) /\ i + 1 \in 1..Len(used) /\ i \in 1..(Len(q) - 1)
    BY <1>1, <1>2
  <2>2. els[used[i]] = q[i] /\ els[used[i + 1]] = q[i + 1]
    BY <2>1 DEF Holds
  <2>. QED  BY <1>1, <1>3, <2>1, <2>2
<1>. QED  BY <1>1, <1>2, <1>3, <1>4 DEF Holds

LEMMA AllocateGives ==
    ASSUME NEW used, NEW free, Rings(links, Master, used, Free, free), Holds(used, element, queue),
           ListType, NEW n \in AllocateListNode
    PROVE  /\ n \in Nodes /\ Outside(n, used)
           /\ \E rest : Rings(Allocated(n), Master, used, Free, rest) /\ Outside(n, rest)
<1>1. /\ used \in Seq(Nodes) /\ free \in Seq(Nodes) /\ Once(used) /\ Once(free) /\ Apart(used, free)
      /\ Linked(links, Free, free)
  BY DEF Rings
<1>2. Sentinels(Free, Master) /\ Sentinels(Master, Free)
  BY DEF Sentinels, Ends
<1>3. \A x \in Nodes : x # Free
  BY EndsAre
<1>4. links.next[Free] = Node(free, Free, 1)
  <2>1. 0 \in 0..Len(free) /\ 0 + 1 = 1
    BY <1>1
  <2>2. Node(free, Free, 0) = Free
    BY <1>1, <1>3, NodesAre
  <2>. QED  BY <1>1, <2>1, <2>2 DEF Linked
<1>5. CASE links.next[Free] # Free
  <2>1. n = links.next[Free]
    BY <1>5 DEF AllocateListNode
  <2>2. 1 \in 1..Len(free) /\ n = free[1]
    BY <1>4, <1>5, <2>1 DEF Node
  <2>3. Allocated(n) = Unspliced(links, free[1])
    BY <2>1, <2>2 DEF Allocated
  <2>4. Rings(links, Free, free, Master, used)
    BY RingsSwap
  <2>5. /\ Rings(Unspliced(links, free[1]), Free, Cut(free, 1), Master, used)
        /\ Outside(free[1], Cut(free, 1)) /\ Outside(free[1], used) /\ free[1] \in Nodes
    BY ONLY <1>2, <2>2, <2>4, CutKeeps
  <2>6. Rings(Unspliced(links, free[1]), Master, used, Free, Cut(free, 1))
    BY <2>5, RingsSwap
  <2>. QED  BY <2>2, <2>3, <2>5, <2>6
<1>6. CASE links.next[Free] = Free
  <2>1. n \in Nodes /\ element[n] = Nobody
    BY <1>6 DEF AllocateListNode
  <2>2. Allocated(n) = links
    BY <1>3, <1>6, <2>1 DEF Allocated
  <2>3. Outside(n, used)
    <3>1. \A k \in 1..Len(used) : element[used[k]] \in Data
      BY <1>1 DEF Holds, ListType
    <3>. QED  BY <2>1, <3>1, ListAssumption DEF Outside
  <2>4. 1 \notin 1..Len(free)
    BY <1>1, <1>3, <1>4, <1>6 DEF Node
  <2>5. Outside(n, free)
    BY <1>1, <2>4 DEF Outside
  <2>. QED  BY <2>1, <2>2, <2>3, <2>5
<1>. QED  BY <1>5, <1>6

LEMMA PutListed ==
    ASSUME NEW c, Consumers = {c}, ListInv(c), NEW x \in Data, NEW end \in {"tail", "head"}, Put(x, end)
    PROVE  ListInv(c)'
<1>1. PICK used, free : /\ Rings(links, Master, used, Free, free)
                        /\ Holds(used, element, queue)
  BY DEF ListInv
<1>2. /\ ListType /\ ~thrown /\ lock = Nobody /\ at[c] # "remove"
      /\ permits + Promised(c) = Len(queue)
  BY DEF ListInv, Put
<1>3. PICK n \in AllocateListNode :
         /\ element' = [element EXCEPT ![n] = x]
         /\ links' = IF end = "tail" THEN AtTail(Allocated(n), Master, n)
                     ELSE AtHead(Allocated(n), Master, n)
  BY DEF Put
<1>4. /\ queue' = IF end = "tail" THEN Append(queue, x) ELSE <<x>> \o queue
      /\ permits' = permits + 1
      /\ UNCHANGED <<granted, lock, at, walk, thrown>>
  BY DEF Put
<1>5. /\ n \in Nodes /\ Outside(n, used)
      /\ \E rest : Rings(Allocated(n), Master, used, Free, rest) /\ Outside(n, rest)
  BY <1>1, <1>2, AllocateGives
<1>6. PICK rest : Rings(Allocated(n), Master, used, Free, rest) /\ Outside(n, rest)
  BY <1>5
<1>7. Sentinels(Master, Free) /\ used \in Seq(Nodes) /\ Len(used) \in Nat
  BY <1>1 DEF Sentinels, Ends, Rings
<1>8. /\ queue \in Seq(Data) /\ Len(queue) = Len(used)
      /\ \A k \in 1..Len(used) : element[used[k]] = queue[k]
      /\ element \in [Nodes -> Data \union {Nobody}] /\ permits \in Nat
  BY <1>1, <1>2 DEF Holds, ListType
<1>9. element' \in [Nodes -> Data \union {Nobody}] /\ element'[n] = x
      /\ \A k \in 1..Len(used) : element'[used[k]] = queue[k]
  BY <1>3, <1>5, <1>7, <1>8 DEF Outside
<1>10. queue' \in Seq(Data) /\ Len(queue') = Len(queue) + 1
  BY <1>4, <1>8
<1>11. \E all : Rings(links', Master, all, Free, rest) /\ Holds(all, element', queue')
  <2>1. CASE end = "tail"
    <3>1. Rings(links', Master, Append(used, n), Free, rest)
      <4>1. Rings(AtTail(Allocated(n), Master, n), Master, Append(used, n), Free, rest)
        BY ONLY <1>5, <1>6, <1>7, TailKeeps
      <4>. QED  BY <1>3, <2>1, <4>1
    <3>2. /\ Len(Append(used, n)) = Len(used) + 1 /\ Append(used, n)[Len(used) + 1] = n
          /\ \A k \in 1..Len(used) : Append(used, n)[k] = used[k]
      BY <1>5, <1>7, AppendProperties
    <3>3. /\ queue'[Len(used) + 1] = x /\ \A k \in 1..Len(used) : queue'[k] = queue[k]
      BY <1>4, <1>8, <2>1, AppendProperties
    <3>4. \A k \in 1..(Len(used) + 1) : k \in 1..Len(used) \/ k = Len(used) + 1
      BY <1>7
    <3>5. Holds(Append(used, n), element', queue')
      BY <1>8, <1>9, <1>10, <3>2, <3>3, <3>4 DEF Holds
    <3>. QED  BY <3>1, <3>5
  <2>2. CASE end = "head"
    <3>1. Rings(links', Master, <<n>> \o used, Free, rest)
      <4>1. Rings(AtHead(Allocated(n), Master, n), Master, <<n>> \o used, Free, rest)
        BY ONLY <1>5, <1>6, <1>7, HeadKeeps
      <4>. QED  BY <1>3, <2>2, <4>1
    <3>2. /\ Len(<<n>> \o used) = Len(used) + 1 /\ (<<n>> \o used)[1] = n
          /\ \A k \in 2..(Len(used) + 1) : (<<n>> \o used)[k] = used[k - 1] /\ k - 1 \in 1..Len(used)
      BY <1>5, <1>7
    <3>3. queue'[1] = x /\ \A k \in 2..(Len(used) + 1) : queue'[k] = queue[k - 1]
      BY <1>4, <1>8, <2>2
    <3>4. \A k \in 1..(Len(used) + 1) : k = 1 \/ k \in 2..(Len(used) + 1)
      BY <1>7
    <3>5. Holds(<<n>> \o used, element', queue')
      BY <1>8, <1>9, <1>10, <3>2, <3>3, <3>4 DEF Holds
    <3>. QED  BY <3>1, <3>5
  <2>. QED  BY <2>1, <2>2
<1>12. ListType'
  BY <1>2, <1>4, <1>8, <1>9, <1>10 DEF ListType
<1>13. Promised(c)' = Promised(c) /\ Promised(c) \in Nat
  BY <1>4 DEF Promised
<1>14. permits' + Promised(c)' = Len(queue')
  BY <1>2, <1>4, <1>8, <1>10, <1>13
<1>15. at'[c] # "remove" /\ lock' = Nobody /\ ~thrown'
  BY <1>2, <1>4
<1>. QED  BY <1>11, <1>12, <1>14, <1>15 DEF ListInv

\* What a thread tells itself changes neither ring.
LEMMA WaitListed ==
    ASSUME NEW c, Consumers = {c}, ListInv(c), (\E op \in Asks : Wait(c, op)) \/ Told(c)
    PROVE  ListInv(c)'
<1>1. PICK used, free : /\ Rings(links, Master, used, Free, free)
                        /\ Holds(used, element, queue)
                        /\ at[c] = "remove" => Walked(used, queue, walk)
  BY DEF ListInv
<1>2. /\ ListType /\ ~thrown /\ (at[c] = "remove" <=> lock # Nobody)
      /\ permits + Promised(c) = Len(queue) /\ permits \in Nat /\ granted \in BOOLEAN
      /\ at \in [Consumers -> {"idle", "remove"} \union Asks \union Takes]
  BY DEF ListInv, ListType
<1>3. UNCHANGED <<links, element, lock, walk, queue, thrown>>
  BY DEF Wait, Told
<1>4. /\ at' \in [Consumers -> {"idle", "remove"} \union Asks \union Takes]
      /\ at[c] # "remove" /\ at'[c] # "remove" /\ permits' \in Nat /\ granted' \in BOOLEAN
      /\ permits' + Promised(c)' = permits + Promised(c)
  <2>1. CASE \E op \in Asks : Wait(c, op)
    <3>1. PICK op \in Asks : Wait(c, op)
      BY <2>1
    <3>2. /\ at[c] = "idle" /\ at'[c] = op /\ at' \in [Consumers -> {"idle", "remove"} \union Asks \union Takes]
          /\ granted' = (permits > 0) /\ permits' = IF permits > 0 THEN permits - 1 ELSE 0
      BY <1>2, <3>1 DEF Wait
    <3>3. op \notin Takes /\ op # "remove" /\ "idle" \notin Takes \union Asks
      BY <3>1 DEF Asks, Takes
    <3>4. Promised(c) = 0 /\ Promised(c)' = IF permits > 0 THEN 1 ELSE 0
      BY <3>1, <3>2, <3>3 DEF Promised
    <3>. QED  BY <1>2, <3>2, <3>3, <3>4
  <2>2. CASE Told(c)
    <3>1. /\ at[c] \in Asks /\ granted' = granted
          /\ at' = [at EXCEPT ![c] = IF ~granted \/ @ = "empty" THEN "idle"
                                     ELSE IF @ = "head" THEN "take head" ELSE "take tail"]
          /\ permits' = IF granted /\ at[c] = "empty" THEN permits + 1 ELSE permits
      BY <2>2 DEF Told, Asks
    <3>2. /\ at' \in [Consumers -> {"idle", "remove"} \union Asks \union Takes]
          /\ at'[c] = IF ~granted \/ at[c] = "empty" THEN "idle"
                      ELSE IF at[c] = "head" THEN "take head" ELSE "take tail"
      BY <1>2, <3>1 DEF Takes
    <3>3. at[c] \notin Takes /\ at[c] # "remove" /\ at'[c] # "remove" /\ at'[c] \notin Asks
      BY <3>1, <3>2 DEF Asks, Takes
    <3>4. /\ Promised(c) = IF granted THEN 1 ELSE 0
          /\ Promised(c)' = IF ~granted \/ at[c] = "empty" THEN 0 ELSE 1
      BY <3>1, <3>2, <3>3 DEF Promised, Takes
    <3>5. permits' \in Nat /\ permits' + Promised(c)' = permits + Promised(c)
      <4>1. permits \in Nat /\ granted \in BOOLEAN
        BY <1>2
      <4>2. permits' = IF granted /\ at[c] = "empty" THEN permits + 1 ELSE permits
        BY <3>1
      <4>3. CASE ~granted
        BY <3>4, <4>1, <4>2, <4>3
      <4>4. CASE granted /\ at[c] = "empty"
        BY <3>4, <4>1, <4>2, <4>4
      <4>5. CASE granted /\ at[c] # "empty"
        BY <3>4, <4>1, <4>2, <4>5
      <4>. QED  BY <4>1, <4>3, <4>4, <4>5
    <3>. QED  BY <1>2, <3>1, <3>2, <3>3, <3>5
  <2>. QED  BY <2>1, <2>2
<1>5. ListType'
  BY <1>2, <1>3, <1>4 DEF ListType
<1>6. Rings(links', Master, used, Free, free) /\ Holds(used, element', queue')
  BY <1>1, <1>3
<1>7. lock' = Nobody /\ ~thrown' /\ permits' + Promised(c)' = Len(queue')
  BY <1>2, <1>3, <1>4
<1>. QED  BY <1>4, <1>5, <1>6, <1>7 DEF ListInv

\* A node that is taken out of the list is free.
LEMMA Retires ==
    ASSUME NEW used, NEW free, Rings(links, Master, used, Free, free), NEW k \in 1..Len(used)
    PROVE  Rings(AddToFreeList(Unspliced(links, used[k]), used[k]), Master, Cut(used, k), Free, Append(free, used[k]))
<1>1. Sentinels(Master, Free) /\ Sentinels(Free, Master)
  BY DEF Sentinels, Ends
<1>2. /\ Rings(Unspliced(links, used[k]), Master, Cut(used, k), Free, free)
      /\ Outside(used[k], Cut(used, k)) /\ Outside(used[k], free) /\ used[k] \in Nodes
  BY ONLY Rings(links, Master, used, Free, free), k \in 1..Len(used), <1>1, CutKeeps
<1>3. Rings(Unspliced(links, used[k]), Free, free, Master, Cut(used, k))
  BY <1>2, RingsSwap
<1>4. Rings(AtTail(Unspliced(links, used[k]), Free, used[k]), Free, Append(free, used[k]), Master, Cut(used, k))
  BY ONLY <1>1, <1>2, <1>3, TailKeeps
<1>. QED  BY <1>4, RingsSwap DEF AddToFreeList

LEMMA TakeListed ==
    ASSUME NEW c, Consumers = {c}, ListInv(c), Take(c)
    PROVE  ListInv(c)'
<1>1. PICK used, free : /\ Rings(links, Master, used, Free, free)
                        /\ Holds(used, element, queue)
  BY DEF ListInv
<1>2. /\ ListType /\ ~thrown /\ lock = Nobody /\ at[c] \in Takes
      /\ permits + Promised(c) = Len(queue) /\ permits \in Nat /\ queue \in Seq(Data)
      /\ at \in [Consumers -> {"idle", "remove"} \union Asks \union Takes]
  BY DEF ListInv, ListType, Take, Takes
<1>3. /\ used \in Seq(Nodes) /\ Len(used) \in Nat /\ Once(used) /\ Linked(links, Master, used)
      /\ \A x \in Nodes : x # Master
  BY <1>1, EndsAre DEF Rings
<1>4. Promised(c) = 1 /\ Len(queue) = Len(used) /\ Len(used) >= 1 /\ Len(used) = permits + 1
  <2>1. Promised(c) = 1
    BY <1>2 DEF Promised
  <2>2. Len(queue) = Len(used)
    BY <1>1 DEF Holds
  <2>. QED  BY <1>2, <1>3, <2>1, <2>2
<1> DEFINE k == IF at[c] = "take head" THEN 1 ELSE Len(used)
<1>5. k \in 1..Len(used) /\ k \in 1..Len(queue)
  <2>1. 1 \in 1..Len(used) /\ Len(used) \in 1..Len(used)
    BY <1>3, <1>4
  <2>. QED  BY <1>4, <2>1
<1>6. used[k] = IF at[c] = "take head" THEN links.next[Master] ELSE links.prev[Master]
  <2>1. /\ \A i \in 1..Len(used) : Node(used, Master, i) = used[i]
        /\ Node(used, Master, 0) = Master /\ Node(used, Master, Len(used) + 1) = Master
    BY <1>3, NodesAre
  <2>2. 0 \in 0..Len(used) /\ Len(used) \in 0..Len(used) /\ 0 + 1 = 1 /\ 1 \in 1..Len(used) /\ Len(used) \in 1..Len(used)
    BY <1>3, <1>4
  <2>3. links.next[Master] = used[1]
    <3>1. links.next[Node(used, Master, 0)] = Node(used, Master, 0 + 1)
      BY <1>3, <2>2 DEF Linked
    <3>. QED  BY <2>1, <2>2, <3>1
  <2>4. links.prev[Master] = used[Len(used)]
    <3>1. links.prev[Node(used, Master, Len(used) + 1)] = Node(used, Master, Len(used))
      BY <1>3, <2>2 DEF Linked
    <3>. QED  BY <2>1, <2>2, <3>1
  <2>. QED  BY <2>3, <2>4
<1>7. used[k] # Master
  <2>1. used[k] \in Nodes
    <3>. HIDE DEF k
    <3>. QED  BY <1>3, <1>5
  <2>. QED  BY <1>3, <2>1
<1> HIDE DEF k
<1>8. /\ links' = AddToFreeList(Unspliced(links, used[k]), used[k])
      /\ queue' = IF at[c] = "take head" THEN Tail(queue) ELSE Front(queue)
      /\ UNCHANGED thrown
  <2> DEFINE n == IF at[c] = "take head" THEN links.next[Master] ELSE links.prev[Master]
  <2>1. IF n = Master THEN thrown' = TRUE /\ UNCHANGED <<links, queue>>
        ELSE /\ links' = AddToFreeList(Unspliced(links, n), n)
             /\ queue' = IF at[c] = "take head" THEN Tail(queue) ELSE Front(queue)
             /\ UNCHANGED thrown
    BY DEF Take
  <2>2. n = used[k]
    BY <1>6
  <2>. HIDE DEF n
  <2>. QED  BY <1>7, <2>1, <2>2
<1>9. at' = [at EXCEPT ![c] = "idle"] /\ UNCHANGED <<element, permits, granted, lock, walk>>
  BY DEF Take
<1>10. /\ queue' = Cut(queue, k) /\ queue' \in Seq(Data) /\ Len(queue') = Len(queue) - 1
  <2>1. /\ Cut(queue, k) \in Seq(Data) /\ Len(Cut(queue, k)) = Len(queue) - 1
        /\ k = 1 => Tail(queue) = Cut(queue, k)
        /\ k = Len(queue) => Front(queue) = Cut(queue, k)
    BY ONLY <1>2, <1>5, CutIs
  <2>2. IF at[c] = "take head" THEN k = 1 ELSE k = Len(queue)
    BY <1>4 DEF k
  <2>. QED  BY ONLY <1>8, <2>1, <2>2
<1>11. Rings(links', Master, Cut(used, k), Free, Append(free, used[k]))
  BY <1>1, <1>5, <1>8, Retires
<1>12. Holds(Cut(used, k), element', queue')
  <2>1. Holds(Cut(used, k), element, Cut(queue, k))
    BY <1>1, <1>2, <1>3, <1>5, HoldsCut
  <2>. QED  BY <1>9, <1>10, <2>1
<1>13. at'[c] = "idle" /\ at' \in [Consumers -> {"idle", "remove"} \union Asks \union Takes]
  BY <1>2, <1>9
<1>14. ListType'
  BY <1>2, <1>9, <1>10, <1>13 DEF ListType
<1>15. Promised(c)' = 0
  BY <1>13 DEF Promised, Asks, Takes
<1>16. lock' = Nobody /\ ~thrown' /\ at'[c] # "remove"
  BY <1>2, <1>8, <1>9, <1>13
<1>17. permits' + Promised(c)' = Len(queue')
  <2>1. permits' = permits /\ Promised(c)' = 0 /\ Len(queue') = Len(queue) - 1 /\ Len(queue) = permits + 1 /\ permits \in Nat
    BY <1>2, <1>4, <1>9, <1>10, <1>15
  <2>. QED  BY ONLY <2>1
<1>. QED  BY <1>11, <1>12, <1>14, <1>16, <1>17 DEF ListInv

LEMMA RemoveIfListed ==
    ASSUME NEW c, Consumers = {c}, ListInv(c), RemoveIf(c)
    PROVE  ListInv(c)'
<1>1. PICK used, free : /\ Rings(links, Master, used, Free, free)
                        /\ Holds(used, element, queue)
  BY DEF ListInv
<1>2. /\ ListType /\ ~thrown /\ at[c] = "idle" /\ permits \in Nat
      /\ permits + Promised(c) = Len(queue)
      /\ at \in [Consumers -> {"idle", "remove"} \union Asks \union Takes]
  BY DEF ListInv, ListType, RemoveIf
<1>3. /\ used \in Seq(Nodes) /\ Len(used) \in Nat /\ Once(used) /\ Linked(links, Master, used)
      /\ \A x \in Nodes : x # Master
      /\ links \in Links /\ Master \in Places
  BY <1>1, EndsAre DEF Rings, Places, Ends
<1>4. PICK x \in Data : walk' = [node |-> links.next[Master], element |-> x]
  BY DEF RemoveIf
<1>5. /\ lock' = c /\ at' = [at EXCEPT ![c] = "remove"]
      /\ UNCHANGED <<links, element, permits, granted, queue, thrown>>
  BY DEF RemoveIf
<1>6. links.next[Master] = Node(used, Master, 1)
  <2>1. 0 \in 0..Len(used) /\ 0 + 1 = 1 /\ Node(used, Master, 0) = Master
    BY <1>3, NodesAre
  <2>2. links.next[Node(used, Master, 0)] = Node(used, Master, 0 + 1)
    BY <1>3, <2>1 DEF Linked
  <2>. QED  BY <2>1, <2>2
<1>7. Walked(used, queue, walk)'
  <2>1. 1 \in 1..(Len(used) + 1) /\ 1..(1 - 1) = {}
    BY <1>3
  <2>2. walk'.node = Node(used, Master, 1)
    BY <1>4, <1>6
  <2>3. \A j \in 1..(1 - 1) : queue[j] # walk'.element
    BY <2>1
  <2>4. Walked(used, queue, walk')
    BY <2>1, <2>2, <2>3 DEF Walked
  <2>. QED  BY <1>5, <2>4
<1>8. walk' \in [node : Places, element : Data \union {Nobody}]
  <2>1. links.next[Master] \in Places
    BY <1>3 DEF Links
  <2>. QED  BY <1>4, <2>1
<1>9. at'[c] = "remove" /\ at' \in [Consumers -> {"idle", "remove"} \union Asks \union Takes]
  BY <1>2, <1>5
<1>10. ListType'
  BY <1>2, <1>5, <1>8, <1>9 DEF ListType
<1>11. Promised(c) = 0 /\ Promised(c)' = 0
  BY <1>2, <1>9 DEF Promised, Asks, Takes
<1>12. lock' # Nobody
  BY <1>5, ListAssumption
<1>13. Rings(links', Master, used, Free, free) /\ Holds(used, element', queue')
  BY <1>1, <1>5
<1>14. permits' + Promised(c)' = Len(queue') /\ ~thrown'
  BY <1>2, <1>5, <1>11
<1>. QED  BY <1>7, <1>9, <1>10, <1>12, <1>13, <1>14 DEF ListInv

\* Where the walk goes next it has left no equal element behind, also where it has
\* just taken one out.
LEMMA RemoveStepListed ==
    ASSUME NEW c, Consumers = {c}, ListInv(c), RemoveStep(c)
    PROVE  ListInv(c)'
<1>1. PICK used, free : /\ Rings(links, Master, used, Free, free)
                        /\ Holds(used, element, queue)
                        /\ at[c] = "remove" => Walked(used, queue, walk)
  BY DEF ListInv
<1>2. /\ ListType /\ ~thrown /\ at[c] = "remove" /\ lock # Nobody /\ permits \in Nat
      /\ permits + Promised(c) = Len(queue) /\ queue \in Seq(Data)
      /\ at \in [Consumers -> {"idle", "remove"} \union Asks \union Takes]
      /\ walk \in [node : Places, element : Data \union {Nobody}]
  BY DEF ListInv, ListType, RemoveStep
<1>3. /\ used \in Seq(Nodes) /\ Len(used) \in Nat /\ Once(used) /\ Linked(links, Master, used)
      /\ \A x \in Nodes : x # Master
      /\ links \in Links
  BY <1>1, EndsAre DEF Rings
<1>4. PICK p \in 1..(Len(used) + 1) : /\ walk.node = Node(used, Master, p)
                                      /\ \A j \in 1..(p - 1) : queue[j] # walk.element
  BY <1>1, <1>2 DEF Walked
<1>5. Len(queue) = Len(used) /\ \A k \in 1..Len(used) : element[used[k]] = queue[k]
  BY <1>1 DEF Holds
<1>6. Promised(c) = 0
  BY <1>2 DEF Promised, Asks, Takes
<1>7. UNCHANGED <<element, granted, thrown>>
  BY DEF RemoveStep
<1>8. CASE walk.node = Master
  <2>1. lock' = Nobody /\ at' = [at EXCEPT ![c] = "idle"] /\ UNCHANGED <<links, permits, walk, queue>>
    BY <1>8 DEF RemoveStep
  <2>2. at'[c] = "idle" /\ at' \in [Consumers -> {"idle", "remove"} \union Asks \union Takes]
    BY <1>2, <2>1
  <2>3. ListType'
    BY <1>2, <1>7, <2>1, <2>2 DEF ListType
  <2>4. Promised(c)' = 0
    BY <2>2 DEF Promised, Asks, Takes
  <2>5. permits' + Promised(c)' = Len(queue')
    BY <1>2, <1>6, <2>1, <2>4
  <2>6. Rings(links', Master, used, Free, free) /\ Holds(used, element', queue')
    BY <1>1, <1>7, <2>1
  <2>. QED  BY <1>2, <1>7, <2>1, <2>2, <2>3, <2>5, <2>6 DEF ListInv
<1>9. CASE walk.node # Master
  <2>1. /\ walk' = [walk EXCEPT !.node = links.next[@]]
        /\ IF element[walk.node] = walk.element THEN RemoveNode(walk.node)
           ELSE UNCHANGED <<links, permits, queue>>
        /\ UNCHANGED <<lock, at>>
    BY <1>9 DEF RemoveStep
  <2>2. /\ p \in 1..Len(used) /\ walk.node = used[p] /\ p \in 0..Len(used) /\ p \in 1..Len(queue)
        /\ used[p] \in Nodes /\ element[used[p]] = queue[p]
    <3>1. p \in 1..Len(used)
      BY <1>3, <1>4, <1>9 DEF Node
    <3>2. walk.node = used[p]
      BY <1>4, <3>1 DEF Node
    <3>. QED  BY <1>3, <1>5, <3>1, <3>2
  <2>3. links.next[walk.node] = Node(used, Master, p + 1)
    <3>1. links.next[Node(used, Master, p)] = Node(used, Master, p + 1)
      BY <1>3, <2>2 DEF Linked
    <3>. QED  BY <1>4, <3>1
  <2>4. /\ walk' \in [node : Places, element : Data \union {Nobody}]
        /\ walk'.node = Node(used, Master, p + 1) /\ walk'.element = walk.element
    <3>1. links.next[walk.node] \in Places
      BY <1>2, <1>3 DEF Links
    <3>. QED  BY <1>2, <2>1, <2>3, <3>1
  <2>5. at'[c] = "remove" /\ lock' # Nobody /\ ~thrown'
        /\ at' \in [Consumers -> {"idle", "remove"} \union Asks \union Takes]
    BY <1>2, <1>7, <2>1
  <2>6. Promised(c)' = 0
    BY <2>5 DEF Promised, Asks, Takes
  <2>7. CASE element[walk.node] # walk.element
    <3>1. UNCHANGED <<links, permits, queue>>
      BY <2>1, <2>7
    <3>2. Walked(used, queue, walk')
      <4>1. p + 1 \in 1..(Len(used) + 1) /\ \A j \in 1..((p + 1) - 1) : j \in 1..(p - 1) \/ j = p
        BY <1>3, <2>2
      <4>2. \A j \in 1..((p + 1) - 1) : queue[j] # walk'.element
        BY <1>4, <2>2, <2>4, <2>7, <4>1
      <4>. QED  BY <2>4, <4>1, <4>2 DEF Walked
    <3>3. ListType'
      BY <1>2, <1>7, <2>4, <2>5, <3>1 DEF ListType
    <3>4. Rings(links', Master, used, Free, free) /\ Holds(used, element', queue') /\ Walked(used, queue', walk')
      BY <1>1, <1>7, <3>1, <3>2
    <3>5. permits' + Promised(c)' = Len(queue')
      BY <1>2, <1>6, <2>6, <3>1
    <3>. QED  BY <2>5, <3>3, <3>4, <3>5 DEF ListInv
  <2>8. CASE element[walk.node] = walk.element
    <3>1. RemoveNode(used[p])
      BY <2>1, <2>2, <2>8
    <3>2. /\ links' = AddToFreeList(Unspliced(links, used[p]), used[p])
          /\ permits' = IF permits > 0 THEN permits - 1 ELSE 0
      BY <3>1 DEF RemoveNode
    <3>3. SelectInSeq(queue, LAMBDA x : x = element[used[p]]) = p
      <4> DEFINE I == {i \in 1..Len(queue) : queue[i] = element[used[p]]}
      <4>1. p \in I /\ \A i \in I : i \in Nat /\ p <= i
        <5>1. p \in I
          BY <2>2
        <5>2. ASSUME NEW i \in I PROVE i \in Nat /\ p <= i
          <6>1. i \in 1..Len(queue) /\ queue[i] = walk.element
            BY <2>2, <2>8
          <6>2. i \notin 1..(p - 1)
            BY <1>4, <6>1
          <6>. QED  BY <1>4, <6>1, <6>2
        <5>. QED  BY <5>1, <5>2
      <4>2. Min(I) = p
        <5>. HIDE DEF I
        <5>1. \A x \in I : (\A y \in I : x =< y) => x = p
          BY <1>4, <4>1
        <5>2. \E x \in I : \A y \in I : x =< y
          BY <4>1
        <5> DEFINE x == CHOOSE x \in I : \A y \in I : x =< y
        <5>3. x \in I /\ \A y \in I : x =< y
          BY <5>2
        <5>. QED  BY <5>1, <5>3 DEF Min
      <4>3. SelectInSeq(queue, LAMBDA x : x = element[used[p]]) = IF I # {} THEN Min(I) ELSE 0
        BY DEF SelectInSeq
      <4>. HIDE DEF I
      <4>. QED  BY <4>1, <4>2, <4>3
    <3>4. queue' = RemoveAt(queue, p)
      BY <3>1, <3>3 DEF RemoveNode
    <3>5. /\ queue' = Cut(queue, p) /\ queue' \in Seq(Data) /\ Len(queue') = Len(queue) - 1
          /\ \A i \in 1..(Len(queue) - 1) : Cut(queue, p)[i] = IF i < p THEN queue[i] ELSE queue[i + 1]
      BY <1>2, <2>2, <3>4, CutIs
    <3>6. Rings(links', Master, Cut(used, p), Free, Append(free, used[p]))
      BY <1>1, <2>2, <3>2, Retires
    <3>7. Holds(Cut(used, p), element', queue')
      <4>1. Holds(Cut(used, p), element, Cut(queue, p))
        BY <1>1, <1>2, <1>3, <2>2, HoldsCut
      <4>. QED  BY <1>7, <3>5, <4>1
    <3>8. Walked(Cut(used, p), queue', walk')
      <4>1. /\ Len(Cut(used, p)) = Len(used) - 1
            /\ \A i \in 1..(Len(used) - 1) : Cut(used, p)[i] = IF i < p THEN used[i] ELSE used[i + 1]
        BY <1>3, <2>2, CutIs
      <4>2. p \in 1..(Len(Cut(used, p)) + 1)
        BY <1>3, <2>2, <4>1
      <4>3. Node(Cut(used, p), Master, p) = Node(used, Master, p + 1)
        <5>1. CASE p = Len(used)
          BY <1>3, <2>2, <4>1, <5>1 DEF Node
        <5>2. CASE p # Len(used)
          <6>1. p \in 1..(Len(used) - 1) /\ p + 1 \in 1..Len(used) /\ ~(p < p)
            BY <1>3, <2>2, <5>2
          <6>. QED  BY <4>1, <6>1 DEF Node
        <5>. QED  BY <5>1, <5>2
      <4>4. \A j \in 1..(p - 1) : queue'[j] # walk'.element
        <5>. TAKE j \in 1..(p - 1)
        <5>1. j \in 1..(Len(queue) - 1) /\ j < p
          BY <1>2, <2>2
        <5>. QED  BY <1>4, <2>4, <3>5, <5>1
      <4>. QED  BY <2>4, <4>2, <4>3, <4>4 DEF Walked
    <3>9. permits' \in Nat /\ permits' + Promised(c)' = Len(queue')
      BY <1>2, <1>3, <1>5, <1>6, <2>2, <2>6, <3>2, <3>5
    <3>10. ListType'
      BY <1>2, <1>7, <2>4, <2>5, <3>5, <3>9 DEF ListType
    <3>. QED  BY <2>5, <3>6, <3>7, <3>8, <3>9, <3>10 DEF ListInv
  <2>. QED  BY <2>7, <2>8
<1>. QED  BY <1>8, <1>9

LEMMA ListInitGood ==
    ASSUME NEW c, Consumers = {c}, ListInit
    PROVE  ListInv(c)
<1>1. /\ << >> \in Seq(Nodes) /\ << >> \in Seq(Data) /\ Len(<< >>) = 0 /\ 1..0 = {}
  OBVIOUS
<1>2. \A x : x \in 0..0 <=> x = 0
  OBVIOUS
<1>3. links \in Links /\ \A x \in Places : links.next[x] = x /\ links.prev[x] = x
  BY DEF ListInit, Links, Places, Ends
<1>4. Master \in Places /\ Free \in Places
  BY DEF Places, Ends
<1>5. \A ring \in Places : Linked(links, ring, << >>)
  BY <1>1, <1>2, <1>3 DEF Linked, Node
<1>6. Rings(links, Master, << >>, Free, << >>)
  BY <1>1, <1>3, <1>4, <1>5 DEF Rings, Once, Apart
<1>7. Holds(<< >>, element, queue)
  BY <1>1 DEF ListInit, Holds
<1>8. at[c] = "idle" /\ Promised(c) = 0
  BY DEF ListInit, Promised, Asks, Takes
<1>9. ListType
  BY <1>1, <1>4 DEF ListInit, ListType, Asks, Takes
<1>10. ~thrown /\ lock = Nobody /\ permits = 0 /\ queue = << >>
  BY DEF ListInit
<1>. QED  BY <1>1, <1>6, <1>7, <1>8, <1>9, <1>10 DEF ListInv

LEMMA ListNextGood ==
    ASSUME NEW c, Consumers = {c}, ListInv(c), [ListNext]_listVars
    PROVE  ListInv(c)'
<1>1. CASE UNCHANGED listVars
  BY <1>1 DEF listVars, ListInv, ListType, Promised
<1>2. CASE \E t \in Producers \union Consumers : PutOnTailOfList(t)
  BY <1>2, PutListed DEF PutOnTailOfList
<1>3. CASE PutOnHeadOfList(c)
  BY <1>3, PutListed DEF PutOnHeadOfList
<1>4. CASE (\E op \in Asks : Wait(c, op)) \/ Told(c)
  BY <1>4, WaitListed
<1>5. CASE Take(c) \/ RemoveIf(c) \/ RemoveStep(c)
  BY <1>5, TakeListed, RemoveIfListed, RemoveStepListed
<1>. QED  BY <1>1, <1>2, <1>3, <1>4, <1>5 DEF ListNext, Asks

LEMMA ListIsIntact ==
    ASSUME NEW c, Consumers = {c}, ListInv(c)
    PROVE  ListIntact
<1>1. PICK used, free : /\ Rings(links, Master, used, Free, free)
                        /\ Holds(used, element, queue)
  BY DEF ListInv
<1>2. /\ used \in Seq(Nodes) /\ free \in Seq(Nodes) /\ Once(used) /\ Once(free) /\ Apart(used, free)
      /\ Linked(links, Master, used) /\ Linked(links, Free, free)
  BY <1>1 DEF Rings
<1>3. \A x \in Nodes : x # Master /\ x # Free
  BY EndsAre
<1>4. /\ Ring(links.next, Master) = used /\ Reverse(Ring(links.prev, Master)) = used
      /\ Ring(links.next, Free) = free /\ Reverse(Ring(links.prev, Free)) = free
  BY <1>2, <1>3, LinkedRing
<1>5. [k \in DOMAIN used |-> element[used[k]]] = queue
  <2>1. /\ queue \in Seq(Data) /\ Len(queue) = Len(used) /\ DOMAIN used = 1..Len(used)
        /\ \A k \in 1..Len(used) : element[used[k]] = queue[k]
    BY <1>1, <1>2 DEF Holds, ListInv, ListType
  <2>2. queue = [k \in 1..Len(queue) |-> queue[k]]
    BY <2>1
  <2>. QED  BY <2>1, <2>2
<1>6. ToSet(used) \intersect ToSet(free) = {}
  BY <1>2 DEF ToSet, Apart
<1> DEFINE taken == {t \in Consumers : at[t] \in {"take head", "take tail"}
                                         \/ (at[t] \in {"head", "tail", "empty"} /\ granted)}
<1>7. Cardinality(taken) = Promised(c)
  <2>1. CASE at[c] \in Takes \/ (at[c] \in Asks /\ granted)
    <3>1. taken = {c}
      BY <2>1 DEF Takes, Asks
    <3>. QED  BY <2>1, <3>1, FS_Singleton DEF Promised
  <2>2. CASE ~(at[c] \in Takes \/ (at[c] \in Asks /\ granted))
    <3>1. taken = {}
      BY <2>2 DEF Takes, Asks
    <3>. QED  BY <2>2, <3>1, FS_EmptySet DEF Promised
  <2>. QED  BY <2>1, <2>2
<1>8. permits + Cardinality(taken) = Len(queue) /\ ~thrown
  BY <1>7 DEF ListInv
<1>. QED  BY <1>4, <1>5, <1>6, <1>8 DEF ListIntact

\* CMclLinkedList: with one thread that gets and removes, whatever the others put
\* between its wait and its critical section, both rings are whole in both
\* directions and share no node, the list has what was put and neither got nor
\* removed, in its order, none is got that is not there, and the semaphore has
\* counted what is there.
THEOREM ListIntactAlways ==
    ASSUME NEW c, Consumers = {c}
    PROVE  ListSpec => []ListIntact
<1>1. ListInit => ListInv(c)
  BY ListInitGood
<1>2. ListInv(c) /\ [ListNext]_listVars => ListInv(c)'
  BY ListNextGood
<1>3. ListInv(c) => ListIntact
  BY ListIsIntact
<1>. QED  BY <1>1, <1>2, <1>3, PTL DEF ListSpec
-----------------------------------------------------------------------------
(***************************************************************************)
(* Cells, rows and columns.                                                *)
(***************************************************************************)
LEMMA Divides ==
    ASSUME NEW w \in Nat, w > 0, NEW p \in Int
    PROVE  p \div w \in Int /\ p % w \in 0..(w - 1) /\ p = (p \div w) * w + (p % w)
OBVIOUS

LEMMA DividesOnce ==
    ASSUME NEW w \in Nat, w > 0, NEW a \in Int, NEW b \in Int, NEW x \in 0..(w - 1), NEW y \in 0..(w - 1),
           a * w + x = b * w + y
    PROVE  a = b /\ x = y
<1>1. a <= b
  <2>1. SUFFICES ASSUME a > b PROVE FALSE
    OBVIOUS
  <2>2. a >= b + 1
    BY <2>1
  <2>3. a * w >= (b + 1) * w
    BY <2>2
  <2>4. (b + 1) * w = b * w + w
    OBVIOUS
  <2>. QED  BY <2>3, <2>4
<1>2. b <= a
  <2>1. SUFFICES ASSUME b > a PROVE FALSE
    OBVIOUS
  <2>2. b >= a + 1
    BY <2>1
  <2>3. b * w >= (a + 1) * w
    BY <2>2
  <2>4. (a + 1) * w = a * w + w
    OBVIOUS
  <2>. QED  BY <2>3, <2>4
<1>. QED  BY <1>1, <1>2

LEMMA Sizes == Width \in Nat /\ Width >= 2 /\ Height \in Nat /\ Height >= 2
BY ConsoleAssumption

\* A cell is in one row and one column.
LEMMA CellAt ==
    ASSUME NEW y \in Int, NEW x \in Cols
    PROVE  At(y, x) \in Int /\ Row(At(y, x)) = y /\ Col(At(y, x)) = x
<1>1. Width \in Nat /\ Width > 0 /\ x \in 0..(Width - 1)
  BY Sizes DEF Cols
<1> DEFINE p == y * Width + x
<1>2. p \in Int
  BY <1>1
<1>3. p \div Width \in Int /\ p % Width \in 0..(Width - 1) /\ p = (p \div Width) * Width + (p % Width)
  BY <1>1, <1>2, Divides
<1>4. y * Width + x = (p \div Width) * Width + (p % Width)
  BY <1>3
<1> HIDE DEF p
<1>5. y = p \div Width /\ x = p % Width
  BY ONLY <1>1, <1>3, <1>4, y \in Int, DividesOnce
<1>. QED  BY <1>2, <1>5 DEF p, At, Row, Col

LEMMA CellHas ==
    ASSUME NEW p \in Int
    PROVE  Row(p) \in Int /\ Col(p) \in Cols /\ At(Row(p), Col(p)) = p
<1>1. Width \in Nat /\ Width > 0
  BY Sizes
<1>2. p \div Width \in Int /\ p % Width \in 0..(Width - 1) /\ p = (p \div Width) * Width + (p % Width)
  BY <1>1, Divides
<1>. QED  BY <1>2 DEF Row, Col, Cols, At

\* Cells are numbered row by row.
LEMMA Ordered ==
    ASSUME NEW a \in Int, NEW b \in Int, NEW x \in 0..Width, NEW y \in Cols, a < b
    PROVE  At(a, x) <= At(b, y) /\ (x < Width => At(a, x) < At(b, y))
<1>1. Width \in Nat /\ y \in Nat /\ x \in Nat /\ x <= Width
  BY Sizes DEF Cols
<1>2. b >= a + 1
  OBVIOUS
<1>3. b * Width >= (a + 1) * Width
  BY <1>1, <1>2
<1>4. (a + 1) * Width = a * Width + Width
  BY <1>1
<1>5. b * Width \in Int /\ a * Width \in Int
  BY <1>1
<1>. QED  BY <1>1, <1>3, <1>4, <1>5 DEF At

LEMMA CellsAre ==
    ASSUME NEW p \in Int
    PROVE  p \in Cells <=> Row(p) \in Rows
<1>1. Width \in Nat /\ Width > 0 /\ Height \in Nat /\ Height > 0
  BY Sizes
<1> DEFINE r == Row(p)
           c == Col(p)
<1>2. r \in Int /\ c \in 0..(Width - 1) /\ p = r * Width + c
  BY CellHas DEF At, Cols
<1> HIDE DEF r, c
<1>3. ASSUME r >= Height PROVE p >= Height * Width
  <2>1. r * Width >= Height * Width
    BY <1>1, <1>2, <1>3
  <2>2. r * Width \in Int /\ Height * Width \in Int
    BY <1>1, <1>2
  <2>. QED  BY <1>1, <1>2, <2>1, <2>2
<1>4. ASSUME r < 0 PROVE p < 0
  <2>1. r <= 0 - 1
    BY <1>2, <1>4
  <2>2. r * Width <= (0 - 1) * Width
    BY <1>1, <1>2, <2>1
  <2>3. (0 - 1) * Width = 0 - Width
    BY <1>1
  <2>4. r * Width \in Int
    BY <1>1, <1>2
  <2>. QED  BY <1>1, <1>2, <2>2, <2>3, <2>4
<1>5. ASSUME r >= 0, r < Height PROVE p >= 0 /\ p < Height * Width
  <2>1. r <= Height - 1
    BY <1>1, <1>2, <1>5
  <2>2. r * Width <= (Height - 1) * Width /\ r * Width >= 0
    BY <1>1, <1>2, <1>5, <2>1
  <2>3. (Height - 1) * Width = Height * Width - Width
    BY <1>1
  <2>4. r * Width \in Int /\ Height * Width \in Int
    BY <1>1, <1>2
  <2>. QED  BY <1>1, <1>2, <2>2, <2>3, <2>4
<1>6. Height * Width = Width * Height /\ Height * Width \in Int
  BY <1>1
<1>7. p \in Cells <=> p >= 0 /\ p < Height * Width
  BY <1>6 DEF Cells
<1>8. r \in Rows <=> r >= 0 /\ r < Height
  BY <1>1, <1>2 DEF Rows
<1>. QED  BY <1>1, <1>2, <1>3, <1>4, <1>5, <1>6, <1>7, <1>8 DEF r

LEMMA RowsApart ==
    ASSUME NEW p \in Int, NEW n \in Int
    PROVE  Row(p + n * Width) = Row(p) + n /\ Col(p + n * Width) = Col(p) /\ p + n * Width \in Int
<1>1. Width \in Nat
  BY Sizes
<1>2. Row(p) \in Int /\ Col(p) \in Cols /\ At(Row(p), Col(p)) = p
  BY CellHas
<1>3. p + n * Width = At(Row(p) + n, Col(p))
  <2>1. (Row(p) + n) * Width = Row(p) * Width + n * Width
    BY <1>1, <1>2
  <2>2. Row(p) * Width \in Int /\ n * Width \in Int /\ Col(p) \in Int
    BY <1>1, <1>2 DEF Cols
  <2>. QED  BY <1>2, <2>1, <2>2 DEF At
<1>. QED  BY <1>2, <1>3, CellAt

(***************************************************************************)
(* The terminal.                                                           *)
(***************************************************************************)
Screen == [Cells -> Char]
Terminal == [cell : Screen, y : Rows, x : 0..Width, plain : BOOLEAN, strayed : BOOLEAN]

\* Nothing but characters and line feeds came between t and u.
SameOtherwise(t, u) == u.plain = t.plain /\ u.strayed = t.strayed

LEMMA PutIs ==
    ASSUME NEW s \in Screen, NEW S, NEW c \in Char
    PROVE  PutCells(s, S, c) \in Screen /\ \A p \in Cells : PutCells(s, S, c)[p] = IF p \in S THEN c ELSE s[p]
BY DEF PutCells, Screen

LEMMA SameScreen ==
    ASSUME NEW s \in Screen, NEW u \in Screen, \A p \in Cells : s[p] = u[p]
    PROVE  s = u
BY DEF Screen

LEMMA BlankIsChar == Blank \in Char
BY ConsoleAssumption

LEMMA LineFeedIs ==
    ASSUME NEW t \in Terminal
    PROVE  /\ LineFeed(t) \in Terminal /\ SameOtherwise(t, LineFeed(t)) /\ LineFeed(t).x = t.x
           /\ t.y + 1 \in Rows => LineFeed(t).y = t.y + 1 /\ LineFeed(t).cell = t.cell
<1> DEFINE u == LineFeed(t)
<1>1. t.y \in Rows /\ t.cell \in Screen /\ Height \in Nat /\ t.y \in Int
  BY Sizes DEF Terminal, Rows
<1>2. CASE t.y < Height - 1
  <2>1. u = [t EXCEPT !.y = t.y + 1]
    BY <1>2 DEF LineFeed
  <2>2. t.y + 1 \in Rows
    BY <1>1, <1>2 DEF Rows
  <2>. HIDE DEF u
  <2>3. u \in Terminal /\ u.x = t.x /\ u.y = t.y + 1 /\ u.cell = t.cell /\ SameOtherwise(t, u)
    BY <2>1, <2>2 DEF Terminal, SameOtherwise
  <2>. QED  BY <2>3 DEF u
<1>3. CASE ~(t.y < Height - 1)
  <2> DEFINE s == [p \in Cells |-> IF p + Width \in Cells THEN t.cell[p + Width] ELSE Blank]
  <2>1. s \in Screen
    BY <1>1, BlankIsChar DEF Screen
  <2>2. u = [t EXCEPT !.cell = s]
    BY <1>3 DEF LineFeed
  <2>3. t.y + 1 \notin Rows
    BY <1>1, <1>3 DEF Rows
  <2>. HIDE DEF u, s
  <2>4. u \in Terminal /\ u.x = t.x /\ SameOtherwise(t, u)
    BY <2>1, <2>2 DEF Terminal, SameOtherwise
  <2>. QED  BY <2>3, <2>4 DEF u
<1>. QED  BY <1>2, <1>3

LEMMA TypeOneIs ==
    ASSUME NEW t \in Terminal, NEW c \in Char
    PROVE  /\ TypeOne(t, c) \in Terminal /\ SameOtherwise(t, TypeOne(t, c)) /\ TypeOne(t, c).x >= 1
           /\ At(t.y, t.x) \in Int
           /\ At(t.y, t.x) \in Cells =>
                 /\ TypeOne(t, c).cell = PutCells(t.cell, {At(t.y, t.x)}, c)
                 /\ At(TypeOne(t, c).y, TypeOne(t, c).x) = At(t.y, t.x) + 1
<1> DEFINE v == IF t.x = Width THEN LineFeed([t EXCEPT !.x = 0]) ELSE t
           p == At(v.y, v.x)
           s == [v.cell EXCEPT ![p] = c]
           r == TypeOne(t, c)
<1>1. /\ t.y \in Rows /\ t.x \in 0..Width /\ Width \in Nat /\ Width >= 2 /\ t.y \in Int /\ t.x \in Int
      /\ t.cell \in Screen
  BY Sizes DEF Terminal, Rows
<1>2. At(t.y, t.x) \in Int
  BY <1>1 DEF At
<1>3. /\ v \in Terminal /\ SameOtherwise(t, v) /\ v.x \in Cols
      /\ At(t.y, t.x) \in Cells => v.cell = t.cell /\ At(v.y, v.x) = At(t.y, t.x)
  <2>1. CASE t.x = Width
    <3> DEFINE z == [t EXCEPT !.x = 0]
    <3>1. z \in Terminal /\ z.x = 0 /\ z.y = t.y /\ z.cell = t.cell /\ SameOtherwise(t, z)
      BY <1>1 DEF Terminal, SameOtherwise
    <3>2. v = LineFeed(z)
      BY <2>1
    <3>. HIDE DEF z, v
    <3>3. /\ v \in Terminal /\ SameOtherwise(z, v) /\ v.x = 0
          /\ t.y + 1 \in Rows => v.y = t.y + 1 /\ v.cell = t.cell
      BY <3>1, <3>2, LineFeedIs
    <3>4. 0 \in Cols
      BY <1>1 DEF Cols
    <3>5. At(t.y, t.x) = At(t.y + 1, 0)
      <4>1. (t.y + 1) * Width = t.y * Width + Width
        BY <1>1
      <4>2. t.y * Width \in Int
        BY <1>1
      <4>. QED  BY <1>1, <2>1, <4>1, <4>2 DEF At
    <3>6. At(t.y, t.x) \in Cells => t.y + 1 \in Rows
      <4>1. t.y + 1 \in Int
        BY <1>1
      <4>2. At(t.y + 1, 0) \in Int /\ Row(At(t.y + 1, 0)) = t.y + 1
        BY <3>4, <4>1, CellAt
      <4>. QED  BY <3>5, <4>2, CellsAre
    <3>. QED  BY <3>1, <3>3, <3>4, <3>5, <3>6 DEF SameOtherwise
  <2>2. CASE t.x # Width
    BY <1>1, <2>2 DEF SameOtherwise, Cols
  <2>. QED  BY <2>1, <2>2
<1>4. r = [v EXCEPT !.cell[At(v.y, v.x)] = c, !.x = @ + 1]
  BY DEF TypeOne
<1>. HIDE DEF v, r
<1>5. r = [v EXCEPT !.cell = s, !.x = v.x + 1]
  BY <1>3, <1>4 DEF Terminal
<1>6. v.y \in Rows /\ v.y \in Int /\ v.cell \in Screen /\ v.x + 1 \in 0..Width /\ v.x + 1 >= 1 /\ v.x \in Int
  BY <1>1, <1>3 DEF Terminal, Cols, Rows
<1>7. p \in Cells
  <2>1. p \in Int /\ Row(p) = v.y
    BY <1>3, <1>6, CellAt
  <2>. HIDE DEF p
  <2>. QED  BY <1>6, <2>1, CellsAre
<1>8. s \in Screen /\ s = PutCells(v.cell, {p}, c)
  BY <1>6, <1>7 DEF Screen, PutCells
<1>. HIDE DEF s
<1>9. /\ r \in Terminal /\ SameOtherwise(v, r) /\ r.x = v.x + 1 /\ r.y = v.y /\ r.cell = s
  BY <1>3, <1>5, <1>6, <1>8 DEF Terminal, SameOtherwise
<1>10. At(r.y, r.x) = p + 1
  <2>1. v.y * Width \in Int
    BY <1>1, <1>6
  <2>. QED  BY <1>6, <1>9, <2>1 DEF At
<1>11. SameOtherwise(t, r) /\ r.x >= 1
  BY <1>3, <1>6, <1>9 DEF SameOtherwise
<1>. QED  BY <1>2, <1>3, <1>8, <1>9, <1>10, <1>11 DEF r

TypeStep(t, e, data) == TypeOne(t, e)

Typing == INSTANCE FoldProofs WITH op <- TypeStep, step <- TypeStep

FeedStep(t, e, data) == LineFeed(t)

Feeding == INSTANCE FoldProofs WITH op <- FeedStep, step <- FeedStep

\* Of characters typed one after the other none is lost, and the cursor stays
\* behind the last.
Typed(t, u, n, c) ==
    /\ u \in Terminal /\ SameOtherwise(t, u)
    /\ n = 0 => u = t
    /\ n > 0 => u.x >= 1
    /\ Run(At(t.y, t.x), n) \subseteq Cells =>
         /\ u.cell = PutCells(t.cell, Run(At(t.y, t.x), n), c)
         /\ At(u.y, u.x) = At(t.y, t.x) + n

LEMMA TypedOne ==
    ASSUME NEW t \in Terminal, NEW u, NEW n \in Nat, NEW c \in Char, Typed(t, u, n, c)
    PROVE  Typed(t, TypeOne(u, c), n + 1, c)
<1> DEFINE p == At(t.y, t.x)
           v == TypeOne(u, c)
<1>1. /\ u \in Terminal /\ SameOtherwise(t, u)
      /\ Run(p, n) \subseteq Cells => u.cell = PutCells(t.cell, Run(p, n), c) /\ At(u.y, u.x) = p + n
  BY DEF Typed
<1>2. p \in Int
  BY TypeOneIs
<1>3. /\ v \in Terminal /\ SameOtherwise(u, v) /\ v.x >= 1
      /\ At(u.y, u.x) \in Cells => /\ v.cell = PutCells(u.cell, {At(u.y, u.x)}, c)
                                   /\ At(v.y, v.x) = At(u.y, u.x) + 1
  BY <1>1, TypeOneIs
<1> HIDE DEF p, v
<1>4. ASSUME Run(p, n + 1) \subseteq Cells
      PROVE  v.cell = PutCells(t.cell, Run(p, n + 1), c) /\ At(v.y, v.x) = p + (n + 1)
  <2>1. Run(p, n) \subseteq Run(p, n + 1) /\ p + n \in Run(p, n + 1)
        /\ Run(p, n + 1) = Run(p, n) \union {p + n}
    BY <1>2 DEF Run
  <2>2. u.cell = PutCells(t.cell, Run(p, n), c) /\ At(u.y, u.x) = p + n /\ p + n \in Cells
    BY <1>1, <1>4, <2>1
  <2>3. v.cell = PutCells(u.cell, {p + n}, c) /\ At(v.y, v.x) = p + n + 1
    BY <1>3, <2>2
  <2>4. v.cell = PutCells(t.cell, Run(p, n + 1), c)
    BY <2>1, <2>2, <2>3 DEF PutCells
  <2>. QED  BY <1>2, <2>3, <2>4
<1>5. SameOtherwise(t, v) /\ n + 1 # 0
  BY <1>1, <1>3 DEF SameOtherwise
<1>. QED  BY <1>3, <1>4, <1>5 DEF Typed, p, v

LEMMA TypeIs ==
    ASSUME NEW t \in Terminal, NEW n \in Nat, NEW c \in Char
    PROVE  Typed(t, Type(t, n, c), n, c)
<1>1. DOMAIN Times(n, c) = 1..n /\ \A k \in 1..n : Times(n, c)[k] = c
  BY DEF Times
<1>2. PICK h : Typing!Trace(h, t, Times(n, c), c, n) /\ Typing!Fold(t, Times(n, c), c) = h[n]
  BY <1>1, Typing!FoldTrace
<1>3. h[0] = t /\ \A k \in 1..n : h[k] = TypeOne(h[k - 1], c)
  BY <1>1, <1>2 DEF Typing!Trace, TypeStep
<1>4. Type(t, n, c) = h[n]
  <2>1. Type(t, n, c) = Typing!Fold(t, Times(n, c), c)
    BY DEF Type, Typing!Fold, TypeStep, FoldLeft, MapThenFoldSet, Typing!FoldLeft, Typing!MapThenFoldSet,
           Max, Typing!Max
  <2>. QED  BY <1>2, <2>1
<1>5. Typed(t, h[0], 0, c)
  <2>1. At(t.y, t.x) \in Int
    BY TypeOneIs
  <2>2. Run(At(t.y, t.x), 0) = {}
    BY <2>1 DEF Run
  <2>3. t.cell = PutCells(t.cell, {}, c)
    BY DEF PutCells, Terminal, Screen
  <2>. QED  BY <1>3, <2>1, <2>2, <2>3 DEF Typed, SameOtherwise
<1>6. \A k \in 0..n : Typed(t, h[k], k, c)
  <2> DEFINE T == {k \in 0..n : ~Typed(t, h[k], k, c)}
  <2>1. SUFFICES ASSUME T # {} PROVE FALSE
    BY <2>1
  <2>2. PICK m \in T : \A k \in T : m <= k
    <3>1. T \in SUBSET Nat
      OBVIOUS
    <3>. HIDE DEF T
    <3>. QED  BY <2>1, <3>1, Typing!Least
  <2>3. m \in 0..n /\ ~Typed(t, h[m], m, c) /\ m # 0
    BY <1>5
  <2>4. m - 1 \in 0..n /\ m \in 1..n /\ m - 1 \notin T /\ m - 1 \in Nat /\ (m - 1) + 1 = m
    BY <2>2, <2>3
  <2>5. Typed(t, h[m - 1], m - 1, c)
    BY <2>4
  <2>6. h[m] = TypeOne(h[m - 1], c)
    BY <1>3, <2>4
  <2>7. Typed(t, TypeOne(h[m - 1], c), (m - 1) + 1, c)
    BY <2>4, <2>5, TypedOne
  <2>. QED  BY <2>3, <2>4, <2>6, <2>7
<1>. QED  BY <1>4, <1>6

\* Cells from At(y, x) on, as long as they are in the row.
LEMMA RunInRow ==
    ASSUME NEW y \in Rows, NEW x \in 0..Width, NEW n \in Nat, x + n <= Width
    PROVE  /\ Run(At(y, x), n) = {p \in Cells : Row(p) = y /\ Col(p) >= x /\ Col(p) < x + n}
           /\ At(y, x) \in Int
<1>1. Width \in Nat /\ y \in Int /\ x \in Int
  BY Sizes DEF Rows
<1>2. y * Width \in Int
  BY <1>1
<1>3. At(y, x) \in Int
  BY <1>1, <1>2 DEF At
<1>4. ASSUME NEW p \in Run(At(y, x), n)
      PROVE  p \in Cells /\ Row(p) = y /\ Col(p) >= x /\ Col(p) < x + n
  <2> DEFINE k == p - y * Width
  <2>1. p \in Int /\ k \in Int /\ k >= x /\ k < x + n
    BY <1>1, <1>2, <1>3 DEF Run, At
  <2>2. k \in Cols
    BY <1>1, <2>1 DEF Cols
  <2>3. p = At(y, k)
    BY <1>2, <2>1 DEF At
  <2> HIDE DEF k
  <2>4. Row(p) = y /\ Col(p) = k
    BY <1>1, <2>2, <2>3, CellAt
  <2>5. p \in Cells
    BY <2>1, <2>4, CellsAre
  <2>. QED  BY <2>1, <2>4, <2>5
<1>5. ASSUME NEW p \in Cells, Row(p) = y, Col(p) >= x, Col(p) < x + n
      PROVE  p \in Run(At(y, x), n)
  <2>1. p \in Int
    BY Sizes DEF Cells
  <2>2. Col(p) \in Int /\ p = y * Width + Col(p)
    BY <1>1, <1>5, <2>1, CellHas DEF At, Cols
  <2>. QED  BY <1>1, <1>2, <1>5, <2>1, <2>2 DEF Run, At
<1>. QED  BY <1>3, <1>4, <1>5

LEMMA OneLess ==
    ASSUME NEW f \in Int, NEW g \in Int, NEW a \in Int, NEW b \in Int, NEW n \in Int, f + a = (g + b) + n
    PROVE  f + (a - 1) = g + (b + n - 1)
OBVIOUS

LEMMA TypeInRow ==
    ASSUME NEW t \in Terminal, NEW n \in Nat, NEW c \in Char, t.x + n <= Width
    PROVE  /\ Type(t, n, c) \in Terminal /\ SameOtherwise(t, Type(t, n, c))
           /\ Type(t, n, c).cell = PutCells(t.cell, Run(At(t.y, t.x), n), c)
           /\ Type(t, n, c).y = t.y /\ Type(t, n, c).x = t.x + n
<1> DEFINE u == Type(t, n, c)
<1>1. Typed(t, u, n, c)
  BY TypeIs
<1>2. /\ t.y \in Rows /\ t.x \in 0..Width /\ t.y \in Int /\ t.x \in Int /\ Width \in Nat /\ Width >= 2
  BY Sizes DEF Terminal, Rows
<1>3. Run(At(t.y, t.x), n) \subseteq Cells
  BY <1>2, RunInRow
<1> HIDE DEF u
<1>4. /\ u \in Terminal /\ SameOtherwise(t, u) /\ u.cell = PutCells(t.cell, Run(At(t.y, t.x), n), c)
      /\ At(u.y, u.x) = At(t.y, t.x) + n /\ (n > 0 => u.x >= 1) /\ (n = 0 => u = t)
  BY <1>1, <1>3 DEF Typed
<1>5. u.y = t.y /\ u.x = t.x + n
  <2>1. CASE n = 0
    BY <1>2, <1>4, <2>1
  <2>2. CASE n > 0
    <3> DEFINE a == u.x - 1
               b == t.x + n - 1
    <3>1. /\ u.y \in Int /\ u.x \in 1..Width
      BY <1>4, <2>2 DEF Terminal, Rows
    <3>2. a \in 0..(Width - 1) /\ b \in 0..(Width - 1)
      BY <1>2, <2>2, <3>1
    <3>3. u.y * Width + a = t.y * Width + b
      <4> DEFINE f == u.y * Width
                 g == t.y * Width
      <4>1. f \in Int /\ g \in Int
        BY <1>2, <3>1
      <4>2. f + u.x = (g + t.x) + n
        BY <1>4 DEF At
      <4>3. u.x \in Int
        BY <3>1
      <4>. HIDE DEF f, g
      <4>4. f + (u.x - 1) = g + (t.x + n - 1)
        <5>1. f \in Int /\ g \in Int /\ u.x \in Int /\ t.x \in Int /\ n \in Int
          BY <1>2, <4>1, <4>3
        <5>. QED  BY ONLY <4>2, <5>1, OneLess
      <4>. QED  BY <4>4 DEF f, g
    <3>. HIDE DEF a, b
    <3>4. u.y = t.y /\ a = b
      <4>1. u.y \in Int /\ t.y \in Int /\ a \in Cols /\ b \in Cols
        BY <1>2, <3>1, <3>2 DEF Cols
      <4>2. At(u.y, a) = At(t.y, b)
        BY <3>3 DEF At
      <4>3. u.y = Row(At(u.y, a)) /\ a = Col(At(u.y, a)) /\ t.y = Row(At(t.y, b)) /\ b = Col(At(t.y, b))
        BY ONLY <4>1, CellAt
      <4>. QED  BY ONLY <4>2, <4>3
    <3>. QED  BY <1>2, <3>1, <3>4 DEF a, b
  <2>. QED  BY <2>1, <2>2
<1>. QED  BY <1>4, <1>5 DEF u

LEMMA LineFeedsAre ==
    ASSUME NEW t \in Terminal, NEW n \in Nat
    PROVE  /\ LineFeeds(t, n) \in Terminal /\ SameOtherwise(t, LineFeeds(t, n)) /\ LineFeeds(t, n).x = t.x
           /\ t.y + n \in Rows => LineFeeds(t, n).y = t.y + n /\ LineFeeds(t, n).cell = t.cell
<1> DEFINE Fed(u, k) == /\ u \in Terminal /\ SameOtherwise(t, u) /\ u.x = t.x
                        /\ t.y + k \in Rows => u.y = t.y + k /\ u.cell = t.cell
<1>1. DOMAIN Times(n, 0) = 1..n
  BY DEF Times
<1>2. PICK h : Feeding!Trace(h, t, Times(n, 0), 0, n) /\ Feeding!Fold(t, Times(n, 0), 0) = h[n]
  BY <1>1, Feeding!FoldTrace
<1>3. h[0] = t /\ \A k \in 1..n : h[k] = LineFeed(h[k - 1])
  BY <1>2 DEF Feeding!Trace, FeedStep
<1>4. LineFeeds(t, n) = h[n]
  <2>1. LineFeeds(t, n) = Feeding!Fold(t, Times(n, 0), 0)
    BY DEF LineFeeds, Feeding!Fold, FeedStep, FoldLeft, MapThenFoldSet, Feeding!FoldLeft, Feeding!MapThenFoldSet,
           Max, Feeding!Max
  <2>. QED  BY <1>2, <2>1
<1>5. t.y \in Int /\ Height \in Nat
  BY Sizes DEF Terminal, Rows
<1>6. Fed(h[0], 0)
  BY <1>3, <1>5 DEF SameOtherwise
<1>7. \A k \in 0..n : Fed(h[k], k)
  <2> DEFINE T == {k \in 0..n : ~Fed(h[k], k)}
  <2>1. SUFFICES ASSUME T # {} PROVE FALSE
    BY <2>1
  <2>2. PICK m \in T : \A k \in T : m <= k
    <3>1. T \in SUBSET Nat
      OBVIOUS
    <3>. HIDE DEF T
    <3>. QED  BY <2>1, <3>1, Feeding!Least
  <2>3. m \in 0..n /\ ~Fed(h[m], m) /\ m # 0
    BY <1>6
  <2>4. m - 1 \in 0..n /\ m \in 1..n /\ m - 1 \notin T
    BY <2>2, <2>3
  <2>5. Fed(h[m - 1], m - 1)
    BY <2>4
  <2>6. h[m] = LineFeed(h[m - 1])
    BY <1>3, <2>4
  <2> DEFINE u == h[m - 1]
             v == h[m]
  <2>7. /\ u \in Terminal /\ SameOtherwise(t, u) /\ u.x = t.x
        /\ t.y + (m - 1) \in Rows => u.y = t.y + (m - 1) /\ u.cell = t.cell
    BY <2>5
  <2> HIDE DEF u, v
  <2>8. /\ v \in Terminal /\ SameOtherwise(u, v) /\ v.x = u.x
        /\ u.y + 1 \in Rows => v.y = u.y + 1 /\ v.cell = u.cell
    BY <2>6, <2>7, LineFeedIs DEF u, v
  <2>9. t.y + m \in Rows => v.y = t.y + m /\ v.cell = t.cell
    <3>1. SUFFICES ASSUME t.y + m \in Rows PROVE v.y = t.y + m /\ v.cell = t.cell
      OBVIOUS
    <3>2. t.y >= 0
      BY DEF Terminal, Rows
    <3>3. t.y + (m - 1) \in Rows
      BY <1>5, <2>4, <3>1, <3>2 DEF Rows
    <3>4. u.y = t.y + (m - 1) /\ u.cell = t.cell /\ u.y + 1 = t.y + m
      BY <1>5, <2>4, <2>7, <3>3
    <3>. QED  BY <2>8, <3>1, <3>4
  <2>10. Fed(v, m)
    BY <2>7, <2>8, <2>9 DEF SameOtherwise
  <2>. QED  BY <2>3, <2>10 DEF v
<1>8. Fed(h[n], n)
  BY <1>7
<1>. QED  BY <1>4, <1>8

LEMMA LeastOfTwo ==
    ASSUME NEW a \in Int, NEW b \in Int
    PROVE  Min({a, b}) = IF a <= b THEN a ELSE b
<1> DEFINE m == CHOOSE x \in {a, b} : \A y \in {a, b} : x =< y
<1>1. \E x \in {a, b} : \A y \in {a, b} : x =< y
  OBVIOUS
<1>2. m \in {a, b} /\ \A y \in {a, b} : m =< y
  BY <1>1
<1>. QED  BY <1>2 DEF Min

LEMMA MoveToIs ==
    ASSUME NEW t \in Terminal, NEW y \in Rows, NEW x \in Cols
    PROVE  /\ MoveTo(t, y, x) \in Terminal /\ MoveTo(t, y, x).cell = t.cell
           /\ MoveTo(t, y, x).y = y /\ MoveTo(t, y, x).x = x /\ ~MoveTo(t, y, x).strayed
<1>1. Min({y, Height - 1}) = y /\ Min({x, Width - 1}) = x
  BY Sizes, LeastOfTwo DEF Rows, Cols
<1>2. MoveTo(t, y, x) = [t EXCEPT !.y = y, !.x = x, !.plain = FALSE, !.strayed = FALSE]
  BY <1>1 DEF MoveTo
<1>3. x \in 0..Width
  BY Sizes DEF Cols
<1>. QED  BY <1>2, <1>3 DEF Terminal

(***************************************************************************)
(* What the master sees.  As long as nothing lapsed it is the slave's      *)
(* console, and the debugger knows the row of the terminal's cursor unless *)
(* it moved it without noting that.                                        *)
(***************************************************************************)
Stripped == term \in Terminal /\ term.plain /\ CursorPosition.y \in Int

Shown ==
    /\ term \in Terminal /\ term.cell = cell
    /\ CursorKnown \in BOOLEAN /\ CursorPosition.y \in Nat
    /\ CursorKnown /\ ~term.strayed => CursorPosition.y = term.y

MirrorInv ==
    /\ strip \in BOOLEAN
    /\ strip => Stripped
    /\ ~strip /\ lapse = "none" => Shown

\* The cursor goes to the row y, by line feeds or not.
LEMMA CreatedIs ==
    ASSUME Shown, ~strip, NEW y \in Rows, NEW x \in Cols, NEW n \in Nat, n > 0, ~Stale(y, x)
    PROVE  LET t == CreateVtSequence(term, y, x, n)
           IN  t \in Terminal /\ t.cell = cell /\ t.y = y /\ t.x = x
<1> DEFINE t == CreateVtSequence(term, y, x, n)
<1>1. CASE Shortcut(y, x)
  <2> DEFINE z == [term EXCEPT !.x = 0]
             k == y - CursorPosition.y
  <2>1. CursorKnown /\ y > CursorPosition.y /\ x = 0 /\ ~term.strayed
    BY <1>1 DEF Shortcut, Stale
  <2>2. t = LineFeeds(z, k)
    BY <1>1 DEF CreateVtSequence
  <2>3. CursorPosition.y = term.y /\ y \in Int /\ term \in Terminal
    BY <2>1 DEF Shown, Rows
  <2>4. k \in Nat
    BY <2>1, <2>3 DEF Shown
  <2>5. z \in Terminal /\ z.x = 0 /\ z.y = term.y /\ z.cell = cell
    BY Sizes DEF Shown, Terminal
  <2>6. z.y + k = y
    BY <2>3, <2>5 DEF Terminal, Rows
  <2> HIDE DEF z, k, t
  <2>7. t \in Terminal /\ t.x = z.x /\ t.y = z.y + k /\ t.cell = z.cell
    BY <2>2, <2>4, <2>5, <2>6, LineFeedsAre
  <2>. QED  BY <2>1, <2>5, <2>6, <2>7 DEF t
<1>2. CASE ~Shortcut(y, x)
  <2>1. t = MoveTo(term, y, x)
    BY <1>2 DEF CreateVtSequence
  <2>2. term \in Terminal /\ term.cell = cell
    BY DEF Shown
  <2>. QED  BY <2>1, <2>2, MoveToIs
<1>. QED  BY <1>1, <1>2

LEMMA StartOfLoop == ASSUME NEW t \in Terminal PROVE At(t.y, t.x) \in Int /\ At(t.y, t.x) >= 0
<1>1. t.y \in Nat /\ t.x \in Nat /\ Width \in Nat
  BY Sizes DEF Terminal, Rows
<1>2. t.y * Width \in Nat
  BY <1>1
<1>. QED  BY <1>1, <1>2 DEF At

LEMMA RunInCells ==
    ASSUME NEW p \in Int, p >= 0, NEW n \in Nat, p + n \in Cells \/ p + n = Width * Height
    PROVE  Run(p, n) \subseteq Cells
<1>1. Width * Height \in Nat
  BY Sizes
<1>. QED  BY <1>1 DEF Run, Cells

LEMMA WriteShows ==
    ASSUME Shown, ~strip, NEW form, NEW n \in Nat, NEW done \in Nat, NEW c \in Char,
           OnWriteConsole(form, n, done, c), lapse' = "none"
    PROVE  Shown'
<1>1. /\ cursor + done \in Cells /\ At(term.y, term.x) = cursor
      /\ term' = Type(term, done, c) /\ cell' = PutCells(cell, Run(cursor, done), c)
      /\ CursorKnown' = FALSE /\ CursorPosition' = CursorPosition
  BY DEF OnWriteConsole, Handled
<1>2. term \in Terminal /\ term.cell = cell /\ CursorPosition.y \in Nat
  BY DEF Shown
<1>3. Run(cursor, done) \subseteq Cells
  BY <1>1, <1>2, StartOfLoop, RunInCells
<1>4. Typed(term, term', done, c)
  BY <1>1, <1>2, TypeIs
<1>5. term' \in Terminal /\ term'.cell = cell'
  BY <1>1, <1>2, <1>3, <1>4 DEF Typed
<1>. QED  BY <1>1, <1>2, <1>5 DEF Shown

LEMMA OutputCharacterShows ==
    ASSUME Shown, ~strip, NEW p \in Cells, NEW n \in Cells, n > 0, NEW c \in Char,
           OnWriteConsoleOutputCharacter(p, n, c), lapse' = "none"
    PROVE  Shown'
<1> DEFINE y == Row(p)
           x == Col(p)
           t == CreateVtSequence(term, y, x, n)
<1>1. /\ Run(p, n) \subseteq Cells /\ ~Stale(y, x)
      /\ cell' = PutCells(cell, Run(p, n), c) /\ term' = Type(t, n, c)
      /\ CursorPosition' = CursorAfter(y, x, n) /\ CursorKnown' = FALSE
  BY DEF OnWriteConsoleOutputCharacter, Handled
<1>2. n \in Nat /\ p \in Int /\ Width \in Nat /\ Width > 0
  BY Sizes DEF Cells
<1>3. y \in Rows /\ x \in Cols /\ At(y, x) = p
  BY <1>2, CellHas, CellsAre
<1>4. t \in Terminal /\ t.cell = cell /\ t.y = y /\ t.x = x
  BY <1>1, <1>2, <1>3, CreatedIs
<1> HIDE DEF t, y, x
<1>5. Typed(t, term', n, c)
  BY <1>1, <1>2, <1>4, TypeIs
<1>6. term' \in Terminal /\ term'.cell = cell'
  BY <1>1, <1>3, <1>4, <1>5 DEF Typed
<1>7. CursorPosition'.y \in Nat
  <2>1. CursorPosition' = [y |-> y + (n \div Width), x |-> x + (n % Width)]
    BY <1>1 DEF CursorAfter
  <2>2. n \div Width \in Int /\ n % Width \in 0..(Width - 1) /\ n = (n \div Width) * Width + (n % Width)
    BY <1>2, Divides
  <2>3. n \div Width >= 0
    BY <1>2
  <2>. QED  BY <1>3, <2>1, <2>2, <2>3 DEF Rows
<1>. QED  BY <1>1, <1>6, <1>7 DEF Shown

LEMMA SetCursorShows ==
    ASSUME Shown, ~strip, NEW p \in Cells, OnSetConsoleCursorPosition(p)
    PROVE  Shown'
<1>1. /\ term' = MoveTo(term, Row(p), Col(p)) /\ cell' = cell
      /\ CursorPosition' = [y |-> Row(p), x |-> Col(p)] /\ CursorKnown' = TRUE
  BY DEF OnSetConsoleCursorPosition
<1>2. p \in Int
  BY Sizes DEF Cells
<1>3. Row(p) \in Rows /\ Col(p) \in Cols /\ Row(p) \in Nat
  BY <1>2, CellHas, CellsAre DEF Rows
<1>4. term \in Terminal /\ term.cell = cell
  BY DEF Shown
<1>5. term' \in Terminal /\ term'.cell = term.cell /\ term'.y = Row(p)
  BY <1>1, <1>3, <1>4, MoveToIs
<1>. QED  BY <1>1, <1>3, <1>4, <1>5 DEF Shown

\* A cell n rows further.
LEMMA MovedCell ==
    ASSUME NEW p \in Cells, NEW n \in Int
    PROVE  Row(p) \in Rows /\ Row(p) \in Int /\ (Row(p) - n \in Rows => p - n * Width \in Cells)
<1>1. p \in Int /\ 0 - n \in Int
  BY Sizes DEF Cells
<1>2. Row(p) \in Rows /\ Row(p) \in Int
  BY <1>1, CellsAre, CellHas
<1>3. p + (0 - n) * Width = p - n * Width
  BY <1>1, Sizes
<1>4. Row(p - n * Width) = Row(p) + (0 - n) /\ p - n * Width \in Int
  BY <1>1, <1>3, RowsApart
<1>5. Row(p) + (0 - n) = Row(p) - n
  BY <1>2
<1>. QED  BY <1>2, <1>4, <1>5, CellsAre

LEMMA MoveLinesIs ==
    ASSUME NEW t \in Terminal, NEW top \in Rows, NEW bottom \in Rows, NEW n \in Int
    PROVE  /\ MoveLines(t, top, bottom, n) \in Terminal /\ MoveLines(t, top, bottom, n).strayed
           /\ \A p \in Cells :
                 MoveLines(t, top, bottom, n).cell[p] =
                   IF Row(p) \notin top .. bottom THEN t.cell[p]
                   ELSE IF Row(p) - n \in top .. bottom THEN t.cell[p - n * Width] ELSE Blank
<1> DEFINE s == [p \in Cells |-> IF Row(p) \notin top .. bottom THEN t.cell[p]
                                 ELSE IF Row(p) - n \in top .. bottom THEN t.cell[p - n * Width] ELSE Blank]
<1>1. Min({bottom, Height - 1}) = bottom
  BY Sizes, LeastOfTwo DEF Rows
<1>2. MoveLines(t, top, bottom, n) = [t EXCEPT !.cell = s, !.y = 0, !.x = 0, !.plain = FALSE, !.strayed = TRUE]
  BY <1>1 DEF MoveLines
<1>3. s \in Screen
  <2>. SUFFICES ASSUME NEW p \in Cells
                PROVE  (IF Row(p) \notin top .. bottom THEN t.cell[p]
                        ELSE IF Row(p) - n \in top .. bottom THEN t.cell[p - n * Width] ELSE Blank) \in Char
    BY DEF Screen
  <2>1. Row(p) \in Rows /\ (Row(p) - n \in Rows => p - n * Width \in Cells)
    BY MovedCell
  <2>2. Row(p) - n \in top .. bottom => Row(p) - n \in Rows
    BY Sizes DEF Rows
  <2>3. t.cell \in [Cells -> Char]
    BY DEF Terminal, Screen
  <2>. QED  BY <2>1, <2>2, <2>3, BlankIsChar
<1>4. 0 \in Rows /\ 0 \in 0..Width
  BY Sizes DEF Rows
<1>5. \A p \in Cells : s[p] = IF Row(p) \notin top .. bottom THEN t.cell[p]
                              ELSE IF Row(p) - n \in top .. bottom THEN t.cell[p - n * Width] ELSE Blank
  OBVIOUS
<1> HIDE DEF s
<1>6. MoveLines(t, top, bottom, n) \in Terminal /\ MoveLines(t, top, bottom, n).strayed
      /\ MoveLines(t, top, bottom, n).cell = s
  BY <1>2, <1>3, <1>4 DEF Terminal
<1>. QED  BY <1>5, <1>6

LEMMA ScrollPlaces ==
    ASSUME NEW r \in Int, NEW top \in Int, NEW bottom \in Int, NEW n \in Int, top <= bottom, n # 0,
           n \in top - bottom - 1 .. bottom - top + 1
    PROVE  /\ n < 0 => (r \notin (top + n)..bottom \/ r - n \notin (top + n)..bottom => r - n \notin top..bottom)
           /\ n < 0 => (r \in (top + n)..bottom /\ r - n \in (top + n)..bottom => r - n \in top..bottom)
           /\ n < 0 => (r \notin (top + n)..bottom => r \notin top..bottom)
           /\ n < 0 => (r \in (top + n)..bottom /\ r - n \notin (top + n)..bottom => r \in top..bottom)
           /\ n > 0 => (r \notin top..(bottom + n) \/ r - n \notin top..(bottom + n) => r - n \notin top..bottom)
           /\ n > 0 => (r \in top..(bottom + n) /\ r - n \in top..(bottom + n) => r - n \in top..bottom)
           /\ n > 0 => (r \notin top..(bottom + n) => r \notin top..bottom)
           /\ n > 0 => (r \in top..(bottom + n) /\ r - n \notin top..(bottom + n) => r \in top..bottom)
OBVIOUS

LEMMA ScrollShows ==
    ASSUME Shown, ~strip, NEW top \in Rows, NEW bottom \in Rows, NEW edge \in Cols, NEW dest \in Rows, NEW fill \in Char,
           top <= bottom, dest + bottom - top < Height,
           OnScrollConsoleScreenBuffer(top, bottom, edge, dest, fill), lapse' = "none"
    PROVE  Shown'
<1> DEFINE n == dest - top
           first == IF n < 0 THEN dest ELSE top
           last == IF n < 0 THEN bottom ELSE bottom + n
<1>1. top \in Int /\ bottom \in Int /\ dest \in Int /\ n \in Int /\ dest = top + n
  BY DEF Rows
<1>2. /\ edge = 0 /\ fill = Blank /\ n # 0 /\ n \in top - bottom - 1 .. bottom - top + 1
  BY Sizes, <1>1 DEF OnScrollConsoleScreenBuffer, Handled, Cols
<1>3. /\ cell' = [p \in Cells |-> IF Col(p) < edge THEN cell[p]
                                  ELSE IF Row(p) - n \in top .. bottom THEN cell[p - n * Width]
                                  ELSE IF Row(p) \in top .. bottom THEN fill ELSE cell[p]]
      /\ CursorKnown' = CursorKnown /\ CursorPosition' = CursorPosition
  BY DEF OnScrollConsoleScreenBuffer
<1>4. term' = MoveLines(term, first, last, n)
  BY <1>1, <1>2 DEF OnScrollConsoleScreenBuffer
<1>5. first \in Rows /\ last \in Rows
  BY Sizes, <1>1 DEF Rows
<1>6. term \in Terminal /\ term.cell = cell
  BY DEF Shown
<1> HIDE DEF n, first, last
<1>7. /\ term' \in Terminal /\ term'.strayed
      /\ \A p \in Cells : term'.cell[p] = IF Row(p) \notin first .. last THEN cell[p]
                                          ELSE IF Row(p) - n \in first .. last THEN cell[p - n * Width] ELSE Blank
  BY <1>1, <1>4, <1>5, <1>6, MoveLinesIs
<1>8. \A p \in Cells : term'.cell[p] = cell'[p]
  <2>. TAKE p \in Cells
  <2>1. p \in Int
    BY Sizes DEF Cells
  <2>2. Row(p) \in Int /\ Col(p) \in Cols
    BY <2>1, CellHas
  <2>3. ~(Col(p) < 0)
    BY <2>2, Sizes DEF Cols
  <2>4. cell'[p] = IF Row(p) - n \in top .. bottom THEN cell[p - n * Width]
                   ELSE IF Row(p) \in top .. bottom THEN Blank ELSE cell[p]
    BY <1>2, <1>3, <2>3
  <2>5. term'.cell[p] = IF Row(p) \notin first .. last THEN cell[p]
                        ELSE IF Row(p) - n \in first .. last THEN cell[p - n * Width] ELSE Blank
    BY <1>7
  <2>6. /\ Row(p) \notin first..last \/ Row(p) - n \notin first..last => Row(p) - n \notin top..bottom
        /\ Row(p) \in first..last /\ Row(p) - n \in first..last => Row(p) - n \in top..bottom
        /\ Row(p) \notin first..last => Row(p) \notin top..bottom
        /\ Row(p) \in first..last /\ Row(p) - n \notin first..last => Row(p) \in top..bottom
    <3>1. CASE n < 0
      <4>1. first = top + n /\ last = bottom
        BY <1>1, <3>1 DEF first, last
      <4>. QED  BY ONLY <1>1, <1>2, <2>2, <3>1, <4>1, top <= bottom, ScrollPlaces
    <3>2. CASE ~(n < 0)
      <4>1. first = top /\ last = bottom + n /\ n > 0
        BY <1>1, <1>2, <3>2 DEF first, last
      <4>. QED  BY ONLY <1>1, <1>2, <2>2, <4>1, top <= bottom, ScrollPlaces
    <3>. QED  BY <3>1, <3>2
  <2>. QED  BY <2>4, <2>5, <2>6
<1>9. cell' = [p \in Cells |-> cell'[p]]
  BY <1>3
<1>10. term'.cell = [p \in Cells |-> term'.cell[p]]
  BY <1>7 DEF Terminal, Screen
<1>11. term'.cell = cell'
  BY <1>8, <1>9, <1>10
<1>. QED  BY <1>3, <1>7, <1>11 DEF Shown

LEMMA BlockIs ==
    ASSUME NEW top \in Int, NEW bottom \in Int, NEW edge \in Int, NEW right \in Int, edge >= 0, right < Width, NEW p \in Cells
    PROVE  p \in Block(top, bottom, edge, right) <=> Row(p) \in top..bottom /\ Col(p) \in edge..right
<1>1. p \in Int /\ Width \in Nat
  BY Sizes DEF Cells
<1>2. Row(p) \in Int /\ Col(p) \in Cols /\ At(Row(p), Col(p)) = p
  BY <1>1, CellHas
<1>3. ASSUME NEW y \in top..bottom, NEW x \in edge..right, p = At(y, x)
      PROVE  Row(p) = y /\ Col(p) = x
  <2>1. x \in Cols /\ y \in Int
    BY <1>1 DEF Cols
  <2>. QED  BY <1>3, <2>1, CellAt
<1>. QED  BY <1>2, <1>3 DEF Block

\* One row of a block; d has the columns, the character and the form of the call.
RowStep(s, y, d) ==
    LET width == d.right - d.edge + 1
        sent == IF d.form = "A" THEN width ELSE (width + 1) \div 2
    IN  [t |-> Type(IF s.known /\ y > s.at.y /\ d.edge = 0
                    THEN LineFeeds([s.t EXCEPT !.x = 0], y - s.at.y)
                    ELSE MoveTo(s.t, y, d.edge), sent, d.c),
         at |-> [y |-> y, x |-> d.right], known |-> s.known]

Writing == INSTANCE FoldProofs WITH op <- RowStep, step <- RowStep

\* The rows before y are written.
RowsWritten(s, top, y, d) ==
    /\ s.t \in Terminal /\ s.known = CursorKnown /\ s.at.y \in Nat
    /\ s.t.cell = PutCells(cell, Block(top, y - 1, d.edge, d.right), d.c)
    /\ s.known /\ y > s.at.y /\ d.edge = 0 => s.at.y = s.t.y
    /\ y > top => s.at.y = y - 1 /\ s.t.y = y - 1

LEMMA RowWritten ==
    ASSUME NEW s, NEW d, NEW top \in Rows, NEW y \in Rows, top <= y, CursorKnown \in BOOLEAN, cell \in Screen,
           d.edge \in Cols, d.right \in Cols, d.edge <= d.right, d.c \in Char,
           (IF d.form = "A" THEN d.right - d.edge + 1 ELSE ((d.right - d.edge + 1) + 1) \div 2) = d.right - d.edge + 1,
           RowsWritten(s, top, y, d)
    PROVE  RowsWritten(RowStep(s, y, d), top, y + 1, d)
<1> DEFINE width == d.right - d.edge + 1
           near == s.known /\ y > s.at.y /\ d.edge = 0
           u == IF near THEN LineFeeds([s.t EXCEPT !.x = 0], y - s.at.y) ELSE MoveTo(s.t, y, d.edge)
           v == Type(u, width, d.c)
           r == RowStep(s, y, d)
<1>1. r = [t |-> v, at |-> [y |-> y, x |-> d.right], known |-> s.known]
  BY DEF RowStep
<1>2. /\ s.t \in Terminal /\ s.known = CursorKnown /\ s.at.y \in Nat
      /\ s.t.cell = PutCells(cell, Block(top, y - 1, d.edge, d.right), d.c)
      /\ s.known /\ y > s.at.y /\ d.edge = 0 => s.at.y = s.t.y
  BY DEF RowsWritten
<1>3. /\ width \in Nat /\ d.edge + width <= Width /\ d.edge \in 0..Width /\ d.edge \in Int /\ d.right \in Int
      /\ y \in Int /\ top \in Int /\ Width \in Nat /\ d.edge >= 0 /\ d.right < Width /\ y \in Nat
  BY Sizes DEF Cols, Rows
<1>4. u \in Terminal /\ u.cell = s.t.cell /\ u.y = y /\ u.x = d.edge
  <2>1. CASE near
    <3> DEFINE z == [s.t EXCEPT !.x = 0]
               k == y - s.at.y
    <3>1. u = LineFeeds(z, k)
      BY <2>1
    <3>2. k \in Nat /\ s.at.y = s.t.y
      BY <1>2, <1>3, <2>1
    <3>3. z \in Terminal /\ z.x = 0 /\ z.y = s.t.y /\ z.cell = s.t.cell
      BY <1>2, Sizes DEF Terminal
    <3>4. z.y + k = y
      BY <1>2, <1>3, <3>2, <3>3
    <3> HIDE DEF z, k, u
    <3>5. u \in Terminal /\ u.x = z.x /\ u.y = z.y + k /\ u.cell = z.cell
      BY <3>1, <3>2, <3>3, <3>4, LineFeedsAre
    <3>. QED  BY <2>1, <3>3, <3>4, <3>5
  <2>2. CASE ~near
    BY <1>2, <2>2, MoveToIs
  <2>. QED  BY <2>1, <2>2
<1> HIDE DEF u
<1>5. /\ v \in Terminal /\ v.cell = PutCells(u.cell, Run(At(u.y, u.x), width), d.c) /\ v.y = u.y
  BY <1>3, <1>4, TypeInRow
<1>6. Run(At(y, d.edge), width) = {p \in Cells : Row(p) = y /\ Col(p) >= d.edge /\ Col(p) < d.edge + width}
  BY <1>3, RunInRow
<1> HIDE DEF v
<1>7. v.cell = PutCells(cell, Block(top, y, d.edge, d.right), d.c)
  <2> DEFINE a == Block(top, y - 1, d.edge, d.right)
             b == Run(At(y, d.edge), width)
             e == Block(top, y, d.edge, d.right)
  <2>1. \A p \in Cells : p \in e <=> p \in a \/ p \in b
    <3>. TAKE p \in Cells
    <3>0. /\ top \in Int /\ y - 1 \in Int /\ y \in Int /\ d.edge \in Int /\ d.right \in Int
          /\ d.edge >= 0 /\ d.right < Width
      BY <1>3
    <3>1. p \in a <=> Row(p) \in top..(y - 1) /\ Col(p) \in d.edge..d.right
      BY ONLY <3>0, p \in Cells, BlockIs
    <3>2. p \in e <=> Row(p) \in top..y /\ Col(p) \in d.edge..d.right
      BY ONLY <3>0, p \in Cells, BlockIs
    <3>3. Row(p) \in Int /\ Col(p) \in Int
      <4>1. p \in Int
        BY Sizes DEF Cells
      <4>. QED  BY <4>1, CellHas DEF Cols
    <3>4. p \in b <=> Row(p) = y /\ Col(p) >= d.edge /\ Col(p) < d.edge + width
      BY <1>6
    <3>. HIDE DEF a, b, e
    <3>5. p \in b <=> Row(p) = y /\ Col(p) \in d.edge..d.right
      BY <1>3, <3>3, <3>4
    <3>6. Row(p) \in top..y <=> Row(p) \in top..(y - 1) \/ Row(p) = y
      BY ONLY <1>3, <3>3, top <= y
    <3>. QED  BY ONLY <3>1, <3>2, <3>5, <3>6
  <2>2. v.cell = PutCells(PutCells(cell, a, d.c), b, d.c)
    BY <1>2, <1>4, <1>5
  <2>. HIDE DEF a, b, e
  <2>3. v.cell = PutCells(cell, e, d.c)
    BY <2>1, <2>2 DEF PutCells
  <2>. QED  BY <2>3 DEF e
<1>8. (y + 1) - 1 = y
  BY <1>3
<1>9. r.t = v /\ r.at.y = y /\ r.known = CursorKnown
  BY <1>1, <1>2
<1> HIDE DEF r
<1>10. v.y = y
  BY <1>4, <1>5
<1>11. RowsWritten(r, top, y + 1, d)
  BY <1>3, <1>5, <1>7, <1>8, <1>9, <1>10 DEF RowsWritten
<1>. QED  BY <1>11 DEF r

LEMMA OutputShows ==
    ASSUME Shown, ~strip, NEW d, NEW top \in Rows, NEW bottom \in Rows, top <= bottom,
           d.edge \in Cols, d.right \in Cols, d.edge <= d.right, d.c \in Char,
           OnWriteConsoleOutput(d.form, top, bottom, d.edge, d.right, d.c), lapse' = "none"
    PROVE  Shown'
<1> DEFINE m == bottom - top + 1
           base == [t |-> term, at |-> CursorPosition, known |-> CursorKnown]
           seq == [i \in 1 .. bottom - top + 1 |-> top + i - 1]
           shown == Writing!Fold(base, seq, d)
           width == d.right - d.edge + 1
           sent == IF d.form = "A" THEN width ELSE (width + 1) \div 2
<1>1. /\ ~Stale(top, d.edge) /\ width # 1 /\ sent = width
      /\ cell' = PutCells(cell, Block(top, bottom, d.edge, d.right), d.c)
  BY DEF OnWriteConsoleOutput, Handled
<1>2. term' = shown.t /\ CursorPosition' = shown.at /\ CursorKnown' = CursorKnown
  BY <1>1 DEF OnWriteConsoleOutput, Writing!Fold, RowStep, FoldLeft, MapThenFoldSet, Writing!FoldLeft,
              Writing!MapThenFoldSet, Max, Writing!Max
<1>3. /\ top \in Int /\ bottom \in Int /\ m \in Nat /\ m >= 1 /\ DOMAIN seq = 1..m
      /\ \A i \in 1..m : seq[i] = top + i - 1
  BY DEF Rows
<1>4. PICK h : Writing!Trace(h, base, seq, d, m) /\ shown = h[m]
  BY <1>3, Writing!FoldTrace
<1>5. h[0] = base /\ \A k \in 1..m : h[k] = RowStep(h[k - 1], seq[k], d)
  BY <1>4 DEF Writing!Trace
<1>6. term \in Terminal /\ term.cell = cell /\ CursorKnown \in BOOLEAN /\ CursorPosition.y \in Nat /\ cell \in Screen
  BY DEF Shown, Terminal
<1>7. RowsWritten(h[0], top, top, d)
  <2>1. h[0].t = term /\ h[0].at = CursorPosition /\ h[0].known = CursorKnown
    BY <1>5
  <2>2. \A p \in Cells : p \notin Block(top, top - 1, d.edge, d.right)
    BY <1>3 DEF Block
  <2>3. cell = PutCells(cell, Block(top, top - 1, d.edge, d.right), d.c)
    BY <1>6, <2>2 DEF PutCells, Screen
  <2>4. CursorKnown /\ top > CursorPosition.y /\ d.edge = 0 => CursorPosition.y = term.y
    BY <1>1 DEF Shown, Stale, Shortcut
  <2>5. ~(top > top)
    BY <1>3
  <2>. QED  BY <1>6, <2>1, <2>3, <2>4, <2>5 DEF RowsWritten
<1>8. \A k \in 0..m : RowsWritten(h[k], top, top + k, d)
  <2> DEFINE T == {k \in 0..m : ~RowsWritten(h[k], top, top + k, d)}
  <2>1. SUFFICES ASSUME T # {} PROVE FALSE
    BY <2>1
  <2>2. PICK j \in T : \A k \in T : j <= k
    <3>1. T \in SUBSET Nat
      BY <1>3
    <3>. HIDE DEF T
    <3>. QED  BY <2>1, <3>1, Writing!Least
  <2>3. j \in 0..m /\ ~RowsWritten(h[j], top, top + j, d)
    OBVIOUS
  <2>4. j # 0
    <3>1. top + 0 = top
      BY <1>3
    <3>. QED  BY <1>7, <2>3, <3>1
  <2>5. j - 1 \in 0..m /\ j \in 1..m /\ j - 1 \notin T
    BY <1>3, <2>2, <2>3, <2>4
  <2>6. RowsWritten(h[j - 1], top, top + (j - 1), d)
    BY <2>5
  <2> DEFINE y == top + (j - 1)
  <2>7. y \in Rows /\ top <= y /\ y + 1 = top + j /\ seq[j] = y
    <3>1. seq[j] = top + j - 1
      BY <1>3, <2>5
    <3>. QED  BY <1>3, <2>5, <3>1, Sizes DEF Rows
  <2>8. h[j] = RowStep(h[j - 1], y, d)
    BY <1>5, <2>5, <2>7
  <2>9. (IF d.form = "A" THEN d.right - d.edge + 1 ELSE ((d.right - d.edge + 1) + 1) \div 2) = d.right - d.edge + 1
    BY <1>1
  <2> HIDE DEF y, T, sent, width, m, seq, base, shown
  <2>10. RowsWritten(h[j - 1], top, y, d)
    BY <2>6 DEF y
  <2>11. RowsWritten(RowStep(h[j - 1], y, d), top, y + 1, d)
    BY <1>6, <2>7, <2>9, <2>10, RowWritten
  <2>. QED  BY <2>3, <2>7, <2>8, <2>11
<1>9. RowsWritten(shown, top, bottom + 1, d)
  <2>1. top + m = bottom + 1 /\ m \in 0..m
    BY <1>3
  <2>. HIDE DEF m, shown
  <2>. QED  BY <1>4, <1>8, <2>1
<1> HIDE DEF shown
<1>10. /\ shown.t \in Terminal /\ shown.at.y = bottom /\ shown.t.y = bottom
       /\ shown.t.cell = PutCells(cell, Block(top, bottom, d.edge, d.right), d.c)
  <2>1. (bottom + 1) - 1 = bottom /\ bottom + 1 > top
    BY <1>3
  <2>. QED  BY <1>9, <2>1 DEF RowsWritten
<1>11. bottom \in Nat
  BY DEF Rows
<1>. QED  BY <1>1, <1>2, <1>6, <1>10, <1>11 DEF Shown

(***************************************************************************)
(* Filling: each part of it is what the slave's console has of it.         *)
(***************************************************************************)
\* The screen of u is that of t with the character c in n cells from p on.
Fills(t, u, p, n, c) == u \in Terminal /\ u.cell = PutCells(t.cell, Run(p, n), c)

LEMMA FillsOn ==
    ASSUME NEW t, NEW u, NEW v, NEW p \in Int, NEW m \in Nat, NEW n \in Nat, NEW c, t.cell \in Screen,
           Fills(t, u, p, m, c), Fills(u, v, p + m, n, c)
    PROVE  Fills(t, v, p, m + n, c)
<1>1. v.cell = PutCells(PutCells(t.cell, Run(p, m), c), Run(p + m, n), c) /\ v \in Terminal
  BY DEF Fills
<1>2. \A q \in Int : q \in Run(p, m + n) <=> q \in Run(p, m) \/ q \in Run(p + m, n)
  BY DEF Run
<1>3. \A q \in Cells : q \in Int
  BY Sizes DEF Cells
<1>4. v.cell = PutCells(t.cell, Run(p, m + n), c)
  BY <1>1, <1>2, <1>3 DEF PutCells
<1>. QED  BY <1>1, <1>4 DEF Fills

LEMMA EraseIs ==
    ASSUME NEW t \in Terminal, NEW S
    PROVE  Erase(t, S) \in Terminal /\ Erase(t, S).cell = PutCells(t.cell, S, Blank)
<1>1. PutCells(t.cell, S, Blank) \in Screen
  BY BlankIsChar, PutIs DEF Terminal
<1>2. Erase(t, S) = [t EXCEPT !.cell = PutCells(t.cell, S, Blank), !.plain = FALSE]
  BY DEF Erase, Terminal
<1>. QED  BY <1>1, <1>2 DEF Terminal

LEMMA HereIs ==
    ASSUME NEW t \in Terminal, NEW y \in Rows, NEW x \in Cols
    PROVE  /\ MoveTo(t, y, x) \in Terminal /\ MoveTo(t, y, x).cell = t.cell /\ MoveTo(t, y, x).y = y
           /\ Here(MoveTo(t, y, x)) = At(y, x) /\ At(y, x) \in Int
<1>1. Min({x, Width - 1}) = x
  BY Sizes, LeastOfTwo DEF Rows, Cols
<1>2. y \in Int
  BY DEF Rows
<1> DEFINE u == MoveTo(t, y, x)
<1>3. u \in Terminal /\ u.cell = t.cell /\ u.y = y /\ u.x = x
  BY MoveToIs
<1> HIDE DEF u
<1>4. Here(u) = At(y, x)
  BY <1>1, <1>3 DEF Here
<1>5. At(y, x) \in Int
  BY <1>2, CellAt
<1>. QED  BY <1>3, <1>4, <1>5 DEF u

LEMMA InOneRow ==
    ASSUME NEW y \in Rows, NEW a \in Int, NEW b \in Int
    PROVE  At(y, a) .. At(y, b) = Run(At(y, a), (b - a) + 1) /\ At(y, a) \in Int /\ At(y, b) \in Int
<1>1. Width \in Nat /\ y \in Int
  BY Sizes DEF Rows
<1>2. y * Width \in Int
  BY <1>1
<1>. QED  BY <1>2 DEF At, Run

LEMMA LeftErased ==
    ASSUME NEW t \in Terminal, NEW y \in Rows, NEW n \in 1..Width
    PROVE  Fills(t, EraseLeft(MoveTo(t, y, n - 1)), At(y, 0), n, Blank)
<1>1. n - 1 \in Cols /\ n - 1 \in Int /\ 0 \in Int /\ (n - 1 - 0) + 1 = n
  BY Sizes DEF Cols
<1> DEFINE u == MoveTo(t, y, n - 1)
<1>2. u \in Terminal /\ u.cell = t.cell /\ u.y = y /\ Here(u) = At(y, n - 1)
  BY <1>1, HereIs
<1> HIDE DEF u
<1>3. At(y, 0) .. At(y, n - 1) = Run(At(y, 0), n)
  BY <1>1, InOneRow
<1>4. EraseLeft(u) = Erase(u, Run(At(y, 0), n))
  BY <1>2, <1>3 DEF EraseLeft
<1>. QED  BY <1>2, <1>4, EraseIs DEF Fills, u

LEMMA RightErased ==
    ASSUME NEW t \in Terminal, NEW y \in Rows, NEW x \in Cols
    PROVE  Fills(t, EraseRight(MoveTo(t, y, x)), At(y, x), Width - x, Blank)
<1>1. x \in Int /\ Width - 1 \in Int /\ (Width - 1 - x) + 1 = Width - x
  BY Sizes DEF Cols
<1> DEFINE u == MoveTo(t, y, x)
<1>2. u \in Terminal /\ u.cell = t.cell /\ u.y = y /\ Here(u) = At(y, x)
  BY HereIs
<1> HIDE DEF u
<1>3. At(y, x) .. At(y, Width - 1) = Run(At(y, x), Width - x)
  BY <1>1, InOneRow
<1>4. EraseRight(u) = Erase(u, Run(At(y, x), Width - x))
  BY <1>2, <1>3 DEF EraseRight
<1>. QED  BY <1>2, <1>4, EraseIs DEF Fills, u

LEMMA LineErased ==
    ASSUME NEW t \in Terminal, NEW y \in Rows
    PROVE  Fills(t, EraseLine(MoveTo(t, y, 0)), At(y, 0), Width, Blank)
<1>1. 0 \in Cols
  BY Sizes DEF Cols
<1> DEFINE u == MoveTo(t, y, 0)
<1>2. u \in Terminal /\ u.cell = t.cell /\ u.y = y
  BY <1>1, HereIs
<1> HIDE DEF u
<1>3. EraseLine(u) = Erase(u, Run(At(y, 0), Width))
  BY <1>2 DEF EraseLine
<1>. QED  BY <1>2, <1>3, EraseIs DEF Fills, u

LEMMA RowTyped ==
    ASSUME NEW t \in Terminal, NEW y \in Rows, NEW x \in Cols, NEW n \in Nat, x + n <= Width, NEW c \in Char
    PROVE  Fills(t, Type(MoveTo(t, y, x), n, c), At(y, x), n, c)
<1> DEFINE u == MoveTo(t, y, x)
<1>1. u \in Terminal /\ u.cell = t.cell /\ u.y = y /\ u.x = x
  BY MoveToIs
<1> HIDE DEF u
<1>2. Type(u, n, c) \in Terminal /\ Type(u, n, c).cell = PutCells(u.cell, Run(At(u.y, u.x), n), c)
  BY <1>1, TypeInRow
<1>. QED  BY <1>1, <1>2 DEF Fills, u

LEMMA BelowErased ==
    ASSUME NEW t \in Terminal, NEW y \in Rows, NEW n \in Nat, y + n = Height
    PROVE  Fills(t, EraseBelow(MoveTo(t, y, 0)), At(y, 0), n * Width, Blank)
<1>1. 0 \in Cols /\ y \in Nat /\ Width \in Nat
  BY Sizes DEF Cols, Rows
<1> DEFINE u == MoveTo(t, y, 0)
<1>2. u \in Terminal /\ u.cell = t.cell /\ u.y = y /\ Here(u) = At(y, 0)
  BY <1>1, HereIs
<1> HIDE DEF u
<1>3. EraseBelow(u) = Erase(u, {p \in Cells : p >= At(y, 0)})
  BY <1>2 DEF EraseBelow
<1>4. PutCells(t.cell, {p \in Cells : p >= At(y, 0)}, Blank) = PutCells(t.cell, Run(At(y, 0), n * Width), Blank)
  <2>1. (y + n) * Width = y * Width + n * Width
    BY <1>1
  <2>2. Width * Height = (y + n) * Width
    BY <1>1
  <2>3. y * Width \in Nat /\ n * Width \in Nat
    BY <1>1
  <2>4. \A p \in Cells : p \in Int /\ p < y * Width + n * Width
    BY <2>1, <2>2, <2>3 DEF Cells
  <2>5. At(y, 0) = y * Width
    BY <2>3 DEF At
  <2>6. \A p \in Cells : p >= At(y, 0) <=> p \in Run(At(y, 0), n * Width)
    BY <2>3, <2>4, <2>5 DEF Run
  <2>. QED  BY <2>6 DEF PutCells
<1>. QED  BY <1>2, <1>3, <1>4, EraseIs DEF Fills, u

\* One of the whole rows.
FillStep(u, i, d) ==
    IF d.c = Blank THEN EraseLine(MoveTo(u, d.y + i, 0)) ELSE Type(MoveTo(u, d.y + i, 0), Width, d.c)

Filling == INSTANCE FoldProofs WITH op <- FillStep, step <- FillStep

LEMMA NextRow ==
    ASSUME NEW y \in Int, NEW k \in Int
    PROVE  At(y + k, 0) = At(y, 0) + k * Width /\ k * Width + Width = (k + 1) * Width /\ k * Width \in Int
           /\ At(y, 0) \in Int /\ (k >= 0 => k * Width \in Nat)
<1>1. Width \in Nat
  BY Sizes
<1>2. (y + k) * Width = y * Width + k * Width /\ (k + 1) * Width = k * Width + Width
  BY <1>1
<1>3. y * Width \in Int /\ k * Width \in Int /\ (k >= 0 => k * Width \in Nat)
  BY <1>1
<1>. QED  BY <1>2, <1>3 DEF At

LEMMA LinesFilled ==
    ASSUME NEW t \in Terminal, NEW d, NEW n \in Nat, n > 0, d.y \in Rows, d.y + n <= Height, d.c \in Char,
           ~(d.c = Blank /\ d.y = 0 /\ n < Height)
    PROVE  Fills(t, FillLines(t, n, d.y, d.c), At(d.y, 0), n * Width, d.c)
<1> DEFINE seq == [i \in 1 .. n |-> i - 1]
           p == At(d.y, 0)
<1>1. d.y \in Nat /\ Height \in Nat
  BY Sizes DEF Rows
<1>2. CASE d.c = Blank /\ n + d.y >= Height
  <2>1. FillLines(t, n, d.y, d.c) = EraseBelow(MoveTo(t, d.y, 0))
    BY <1>2 DEF FillLines
  <2>2. d.y + n = Height
    BY <1>1, <1>2
  <2>. QED  BY <1>2, <2>1, <2>2, BelowErased
<1>3. CASE ~(d.c = Blank /\ n + d.y >= Height)
  <2>1. ~(d.c = Blank /\ d.y = 0)
    BY <1>1, <1>3
  <2>2. FillLines(t, n, d.y, d.c) = Filling!Fold(t, seq, d)
    BY <1>3, <2>1 DEF FillLines, Filling!Fold, FillStep, FoldLeft, MapThenFoldSet, Filling!FoldLeft,
             Filling!MapThenFoldSet, Max, Filling!Max
  <2>3. DOMAIN seq = 1..n /\ \A k \in 1..n : seq[k] = k - 1
    OBVIOUS
  <2>4. PICK h : Filling!Trace(h, t, seq, d, n) /\ Filling!Fold(t, seq, d) = h[n]
    BY <2>3, Filling!FoldTrace
  <2>5. h[0] = t /\ \A k \in 1..n : h[k] = FillStep(h[k - 1], k - 1, d)
    BY <2>3, <2>4 DEF Filling!Trace
  <2>6. p \in Int
    <3>1. d.y \in Int /\ 0 \in Cols
      BY <1>1, Sizes DEF Cols
    <3>. QED  BY <3>1, CellAt
  <2>7. Fills(t, h[0], p, 0 * Width, d.c)
    <3>1. 0 * Width = 0
      BY Sizes
    <3>2. Run(p, 0) = {}
      BY <2>6 DEF Run
    <3>3. t.cell = PutCells(t.cell, {}, d.c)
      BY DEF PutCells, Terminal, Screen
    <3>. QED  BY <2>5, <3>1, <3>2, <3>3 DEF Fills
  <2>8. \A k \in 0..n : Fills(t, h[k], p, k * Width, d.c)
    <3> DEFINE T == {k \in 0..n : ~Fills(t, h[k], p, k * Width, d.c)}
    <3>1. SUFFICES ASSUME T # {} PROVE FALSE
      BY <3>1
    <3>2. PICK m \in T : \A k \in T : m <= k
      <4>1. T \in SUBSET Nat
        OBVIOUS
      <4>. HIDE DEF T
      <4>. QED  BY <3>1, <4>1, Filling!Least
    <3>3. m \in 0..n /\ ~Fills(t, h[m], p, m * Width, d.c) /\ m # 0
      BY <2>7
    <3>4. m - 1 \in 0..n /\ m \in 1..n /\ m - 1 \notin T
      BY <3>2, <3>3
    <3>5. Fills(t, h[m - 1], p, (m - 1) * Width, d.c)
      BY <3>4
    <3> DEFINE u == h[m - 1]
               v == h[m]
               k == m - 1
    <3>6. v = FillStep(u, k, d) /\ k \in Nat /\ k + 1 = m /\ d.y + k \in Rows /\ k \in Int
      BY <1>1, <2>5, <3>4 DEF Rows
    <3> HIDE DEF u, v, k, T
    <3>7. Fills(t, u, p, k * Width, d.c)
      BY <3>5 DEF u, k
    <3>8. u \in Terminal /\ t.cell \in Screen
      BY <3>7 DEF Fills, Terminal
    <3>9. Fills(u, v, At(d.y + k, 0), Width, d.c)
      <4>1. CASE d.c = Blank
        BY <3>6, <3>8, <4>1, LineErased DEF FillStep
      <4>2. CASE d.c # Blank
        <5>1. v = Type(MoveTo(u, d.y + k, 0), Width, d.c)
          BY <3>6, <4>2 DEF FillStep
        <5>2. 0 \in Cols /\ Width \in Nat /\ 0 + Width <= Width
          BY Sizes DEF Cols
        <5>. QED  BY <3>6, <3>8, <5>1, <5>2, RowTyped
      <4>. QED  BY <4>1, <4>2
    <3>10. At(d.y + k, 0) = p + k * Width /\ k * Width + Width = m * Width /\ k * Width \in Nat
      <4>1. d.y \in Int /\ k \in Int /\ k >= 0
        BY <1>1, <3>6
      <4>2. At(d.y + k, 0) = p + k * Width /\ k * Width + Width = (k + 1) * Width /\ k * Width \in Nat
        BY <4>1, NextRow
      <4>. QED  BY <3>6, <4>2
    <3>11. Fills(t, v, p, k * Width + Width, d.c)
      <4>1. Width \in Nat /\ Fills(u, v, p + k * Width, Width, d.c)
        BY <3>9, <3>10, Sizes
      <4>. HIDE DEF p
      <4>. QED  BY ONLY <2>6, <3>7, <3>8, <3>10, <4>1, FillsOn
    <3>. QED  BY <3>3, <3>10, <3>11 DEF v
  <2>9. Fills(t, h[n], p, n * Width, d.c)
    BY <2>8
  <2>. QED  BY <2>2, <2>4, <2>9
<1>. QED  BY <1>2, <1>3

LEMMA NoMoreRows ==
    ASSUME NEW r \in Int, NEW b \in Nat, r * Width + b <= Width * Height
    PROVE  r <= Height /\ (b > 0 => r < Height)
<1>1. Width \in Nat /\ Width > 0 /\ Height \in Nat
  BY Sizes
<1>2. Width * Height = Height * Width /\ Height * Width \in Int /\ r * Width \in Int
  BY <1>1
<1>3. ASSUME r >= Height + 1 PROVE FALSE
  <2>1. r * Width >= (Height + 1) * Width
    BY <1>1, <1>3
  <2>2. (Height + 1) * Width = Height * Width + Width
    BY <1>1
  <2>. QED  BY <1>1, <1>2, <2>1, <2>2
<1>4. r <= Height
  BY <1>1, <1>3
<1>5. ASSUME b > 0, r = Height PROVE FALSE
  BY <1>1, <1>2, <1>5
<1>. QED  BY <1>1, <1>4, <1>5

LEMMA FillPlaces ==
    ASSUME NEW p \in Cells, NEW n \in Nat, n > 0, Run(p, n) \subseteq Cells
    PROVE  LET y == Row(p)
               x == Col(p)
               a == Pre(n, x)
               l == Lines(n, x)
               b == PostCells(n, x)
               r == Below(n, y, x)
           IN  /\ y \in Rows /\ x \in Cols /\ At(y, x) = p /\ p \in Int
               /\ a \in 0..n /\ l \in Nat /\ b \in 0..(Width - 1) /\ n = (a + l * Width) + b /\ l * Width \in Nat
               /\ a = n => l = 0 /\ b = 0
               /\ x > 0 => a >= 1 /\ x + a <= Width /\ (a < n => a = Width - x)
               /\ x = 0 /\ a > 0 => a = n /\ n < Width
               /\ r \in Int /\ r >= 0 /\ (a < n => At(r, 0) = p + a /\ At(r + l, 0) = (p + a) + l * Width)
               /\ l > 0 => r \in Rows /\ r + l <= Height
               /\ b > 0 => r + l \in Rows
<1> DEFINE y == Row(p)
           x == Col(p)
           a == Pre(n, x)
           l == Lines(n, x)
           b == PostCells(n, x)
           r == Below(n, y, x)
<1>1. Width \in Nat /\ Width >= 2 /\ Height \in Nat /\ p \in Int
  BY Sizes DEF Cells
<1>2. y \in Rows /\ x \in Cols /\ At(y, x) = p /\ y \in Nat /\ x \in Nat /\ x < Width
  BY <1>1, CellHas, CellsAre DEF Rows, Cols
<1>3. /\ a \in 0..n
      /\ x > 0 => a >= 1 /\ x + a <= Width /\ (a < n => a = Width - x)
      /\ x = 0 /\ a > 0 => a = n /\ n < Width
      /\ a < n /\ x = 0 => a = 0
  <2>1. CASE x > 0
    <3>1. a = IF n <= Width - x THEN n ELSE Width - x
      BY <1>1, <1>2, <2>1, LeastOfTwo DEF Pre
    <3>. HIDE DEF x, a
    <3>. QED  BY ONLY <1>1, <1>2, <2>1, <3>1, n \in Nat, n > 0
  <2>2. CASE x = 0
    <3>1. a = IF n < Width THEN n ELSE 0
      BY <1>2, <2>2 DEF Pre
    <3>. HIDE DEF x, a
    <3>. QED  BY ONLY <1>1, <1>2, <2>2, <3>1, n \in Nat, n > 0
  <2>. QED  BY <1>2, <2>1, <2>2
<1>4. l \in Int /\ b \in 0..(Width - 1) /\ n - a = l * Width + b /\ n - a \in Nat
  <2>1. n - a \in Nat
    BY <1>3
  <2>2. l = (n - a) \div Width /\ b = (n - a) % Width
    BY DEF Lines, PostCells
  <2>3. Width \in Nat /\ Width > 0 /\ n - a \in Int
    BY <1>1, <2>1
  <2>. HIDE DEF a, b, l
  <2>. QED  BY ONLY <2>1, <2>2, <2>3, Divides
<1>5. l >= 0 /\ (a = n => l = 0 /\ b = 0)
  <2>1. 0 = 0 * Width + 0 /\ 0 \in 0..(Width - 1) /\ 0 \in Int /\ Width > 0
    BY <1>1
  <2>2. ASSUME l < 0 PROVE FALSE
    <3>1. l <= 0 - 1
      BY <1>4, <2>2
    <3>2. l * Width <= (0 - 1) * Width
      BY <1>1, <1>4, <3>1
    <3>3. (0 - 1) * Width = 0 - Width /\ l * Width \in Int
      BY <1>1, <1>4
    <3>. HIDE DEF a, b, l
    <3>. QED  BY <1>1, <1>4, <3>2, <3>3
  <2>3. ASSUME a = n PROVE l = 0 /\ b = 0
    <3>1. l * Width + b = 0 * Width + 0
      <4>1. n - a = 0
        BY <2>3
      <4>. HIDE DEF a, b, l
      <4>. QED  BY <1>4, <2>1, <4>1
    <3>. HIDE DEF a, b, l
    <3>. QED  BY ONLY <1>1, <1>4, <2>1, <3>1, DividesOnce
  <2>. QED  BY <1>4, <2>2, <2>3
<1>6. r \in Int /\ r >= 0
  BY <1>2 DEF Below
<1>7. ASSUME a < n PROVE At(r, 0) = p + a
  <2>1. CASE x = 0
    <3>1. a = 0 /\ r = y
      <4>1. a = 0
        BY <1>3, <1>7, <2>1
      <4>. QED  BY <1>2, <4>1 DEF Below
    <3>. QED  BY <1>1, <1>2, <2>1, <3>1
  <2>2. CASE x > 0
    <3>1. a = Width - x /\ a > 0
      BY <1>3, <1>7, <2>2
    <3>2. r = y + 1
      BY <3>1 DEF Below
    <3>3. (y + 1) * Width = y * Width + Width /\ y * Width \in Int
      BY <1>1, <1>2
    <3>4. At(r, 0) = y * Width + Width /\ p = y * Width + x
      BY <1>1, <1>2, <3>2, <3>3 DEF At
    <3>. HIDE DEF a, x, y, r
    <3>. QED  BY <1>1, <1>2, <3>1, <3>3, <3>4
  <2>. QED  BY <1>2, <2>1, <2>2
<1>8. p + n <= Width * Height
  <2>1. p + n - 1 \in Run(p, n)
    BY <1>1 DEF Run
  <2>2. p + n - 1 \in Cells
    BY <2>1
  <2>3. Width * Height \in Int
    BY <1>1
  <2>. QED  BY <1>1, <2>2, <2>3 DEF Cells
<1> HIDE DEF a, b, l, r, x, y
<1>9. l * Width \in Nat /\ n = (a + l * Width) + b /\ l \in Nat
  <2>1. l * Width \in Nat
    BY <1>1, <1>4, <1>5
  <2>. QED  BY <1>3, <1>4, <1>5, <2>1
<1>10. ASSUME a < n
       PROVE  At(r + l, 0) = (p + a) + l * Width /\ r + l <= Height /\ (b > 0 => r + l < Height)
  <2>1. At(r + l, 0) = At(r, 0) + l * Width
    BY <1>4, <1>6, NextRow
  <2>2. At(r + l, 0) = (r + l) * Width + 0 /\ (r + l) * Width \in Int
    BY <1>1, <1>4, <1>6 DEF At
  <2>3. At(r + l, 0) = (p + a) + l * Width
    BY <1>7, <1>10, <2>1
  <2>4. (r + l) * Width + b <= Width * Height
    <3>1. (r + l) * Width + b = p + n
      BY <1>1, <1>3, <1>4, <1>9, <2>2, <2>3
    <3>. QED  BY <1>8, <3>1
  <2>5. r + l \in Int /\ b \in Nat
    BY <1>4, <1>6, <1>1
  <2>6. r + l <= Height /\ (b > 0 => r + l < Height)
    BY ONLY <2>4, <2>5, NoMoreRows
  <2>. QED  BY <2>3, <2>6
<1>11. l > 0 \/ b > 0 => a < n
  BY <1>3, <1>4, <1>5
<1>12. l > 0 => r \in Rows /\ r + l <= Height
  BY <1>1, <1>4, <1>6, <1>10, <1>11 DEF Rows
<1>13. b > 0 => r + l \in Rows
  BY <1>1, <1>4, <1>5, <1>6, <1>10, <1>11 DEF Rows
<1>. QED  BY <1>1, <1>2, <1>3, <1>4, <1>5, <1>6, <1>7, <1>9, <1>10, <1>12, <1>13 DEF a, b, l, r, x, y

LEMMA NoneFilled == ASSUME NEW t \in Terminal, NEW p \in Int, NEW c PROVE Fills(t, t, p, 0, c)
<1>1. Run(p, 0) = {}
  BY DEF Run
<1>2. t.cell = PutCells(t.cell, {}, c)
  BY DEF PutCells, Terminal, Screen
<1>. QED  BY <1>1, <1>2 DEF Fills

LEMMA FilledIs ==
    ASSUME NEW t \in Terminal, NEW p \in Cells, NEW n \in Nat, n > 0, NEW c \in Char, Run(p, n) \subseteq Cells,
           ~ClearsTop(n, Row(p), Col(p), c), c = Blank \/ PostCells(n, Col(p)) = 0
    PROVE  Fills(t, Filled(t, n, Row(p), Col(p), c), p, n, c)
<1> DEFINE y == Row(p)
           x == Col(p)
           a == Pre(n, x)
           l == Lines(n, x)
           b == PostCells(n, x)
           r == Below(n, y, x)
           begun == IF a = 0 THEN t ELSE FillPre(t, n, y, x, c)
           upTo == IF l = 0 THEN begun ELSE FillLines(begun, l, r, c)
           all == IF b = 0 THEN upTo ELSE FillPost(upTo, b, r + l, c)
<1>1. /\ y \in Rows /\ x \in Cols /\ At(y, x) = p /\ p \in Int
      /\ a \in 0..n /\ l \in Nat /\ b \in 0..(Width - 1) /\ n = (a + l * Width) + b /\ l * Width \in Nat
      /\ a = n => l = 0 /\ b = 0
      /\ x > 0 => a >= 1 /\ x + a <= Width /\ (a < n => a = Width - x)
      /\ x = 0 /\ a > 0 => a = n /\ n < Width
      /\ r \in Int /\ r >= 0 /\ (a < n => At(r, 0) = p + a /\ At(r + l, 0) = (p + a) + l * Width)
      /\ l > 0 => r \in Rows /\ r + l <= Height
      /\ b > 0 => r + l \in Rows
  BY FillPlaces
<1>2. all = Filled(t, n, y, x, c)
  BY DEF Filled
<1>3. Width \in Nat /\ Width >= 2 /\ x \in Int /\ x >= 0 /\ a \in Nat /\ b \in Nat
  BY <1>1, Sizes DEF Cols
<1>4. ~(c = Blank /\ l > 0 /\ r = 0 /\ l < Height)
  BY DEF ClearsTop
<1>5. c = Blank \/ b = 0
  OBVIOUS
<1> HIDE DEF all, a, b, l, r, x, y
<1>6. Fills(t, begun, p, a, c)
  <2>1. CASE a = 0
    BY <1>1, <2>1, NoneFilled
  <2>2. CASE a > 0 /\ x = 0 /\ c = Blank
    <3>1. begun = EraseLeft(MoveTo(t, y, n - 1))
      BY <2>2 DEF FillPre
    <3>2. n \in 1..Width /\ a = n
      BY <1>1, <1>3, <2>2
    <3>3. Fills(t, EraseLeft(MoveTo(t, y, n - 1)), At(y, 0), n, Blank)
      BY <1>1, <3>2, LeftErased
    <3>. QED  BY <1>1, <2>2, <3>1, <3>2, <3>3
  <2>3. CASE a > 0 /\ ~(x = 0 /\ c = Blank) /\ n > a /\ c = Blank
    <3>1. begun = EraseRight(MoveTo(t, y, x))
      BY <2>3 DEF FillPre, a
    <3>2. a = Width - x
      BY <1>1, <1>3, <2>3
    <3>3. Fills(t, EraseRight(MoveTo(t, y, x)), At(y, x), Width - x, Blank)
      BY <1>1, RightErased
    <3>. QED  BY <1>1, <2>3, <3>1, <3>2, <3>3
  <2>4. CASE a > 0 /\ ~(x = 0 /\ c = Blank) /\ ~(n > a /\ c = Blank)
    <3>1. begun = Type(MoveTo(t, y, x), a, c)
      BY <2>4 DEF FillPre, a
    <3>2. x + a <= Width
      BY <1>1, <1>3, <2>4
    <3>. QED  BY <1>1, <1>3, <3>1, <3>2, RowTyped
  <2>. QED  BY <1>3, <2>1, <2>2, <2>3, <2>4
<1> HIDE DEF begun
<1>7. Fills(t, upTo, p, a + l * Width, c)
  <2>1. CASE l = 0
    <3>1. a + l * Width = a
      BY <1>3, <2>1
    <3>. QED  BY <1>6, <2>1, <3>1
  <2>2. CASE l > 0
    <3> DEFINE d == [y |-> r, c |-> c]
    <3>1. d.y = r /\ d.c = c /\ d.y \in Rows /\ d.y + l <= Height
      BY <1>1, <2>2
    <3> HIDE DEF d
    <3>2. begun \in Terminal
      BY <1>6 DEF Fills
    <3>3. Fills(begun, FillLines(begun, l, d.y, d.c), At(d.y, 0), l * Width, d.c)
      BY <1>1, <1>4, <2>2, <3>1, <3>2, LinesFilled
    <3>4. a < n
      BY <1>1, <1>3, <2>2
    <3>5. upTo = FillLines(begun, l, r, c) /\ At(r, 0) = p + a
      BY <1>1, <2>2, <3>4
    <3>6. Fills(begun, upTo, p + a, l * Width, c)
      BY <3>1, <3>3, <3>5
    <3>7. t.cell \in Screen
      BY DEF Terminal
    <3> HIDE DEF upTo
    <3>. QED  BY <1>1, <1>3, <1>6, <3>6, <3>7, FillsOn
  <2>. QED  BY <1>1, <2>1, <2>2
<1> HIDE DEF upTo
<1>8. Fills(t, all, p, n, c)
  <2>1. CASE b = 0
    <3>1. a + l * Width = n
      BY <1>1, <1>3, <2>1
    <3>. QED  BY <1>7, <2>1, <3>1 DEF all
  <2>2. CASE b > 0
    <3>1. c = Blank /\ a < n
      BY <1>1, <1>3, <1>5, <2>2
    <3>2. all = EraseLeft(MoveTo(upTo, r + l, b - 1))
      BY <2>2, <3>1 DEF all, FillPost
    <3>3. upTo \in Terminal /\ t.cell \in Screen
      BY <1>7 DEF Fills, Terminal
    <3>4. r + l \in Rows /\ b \in 1..Width /\ At(r + l, 0) = (p + a) + l * Width
      BY <1>1, <1>3, <2>2, <3>1
    <3>5. Fills(upTo, all, At(r + l, 0), b, c)
      BY <3>1, <3>2, <3>3, <3>4, LeftErased
    <3>6. a + l * Width \in Nat /\ (p + a) + l * Width = p + (a + l * Width)
      BY <1>1, <1>3
    <3>7. Fills(upTo, all, p + (a + l * Width), b, c)
      BY <3>4, <3>5, <3>6
    <3>8. Fills(t, all, p, (a + l * Width) + b, c)
      BY ONLY <1>1, <1>3, <1>7, <3>3, <3>6, <3>7, FillsOn
    <3>. QED  BY <1>1, <3>8
  <2>. QED  BY <1>3, <2>1, <2>2
<1>. QED  BY <1>2, <1>8 DEF x, y

LEMMA FillShows ==
    ASSUME Shown, ~strip, NEW p \in Cells, NEW n \in Cells, n > 0, NEW c \in Char, NEW master \in MasterAt,
           OnFillConsoleOutputCharacter(p, n, c, master), lapse' = "none"
    PROVE  Shown'
<1> DEFINE t == Filled(term, n, Row(p), Col(p), c)
<1>1. /\ Run(p, n) \subseteq Cells /\ cell' = PutCells(cell, Run(p, n), c)
      /\ ~ClearsTop(n, Row(p), Col(p), c)
      /\ IF master \notin Cells
         THEN term' = [t EXCEPT !.strayed = TRUE] /\ UNCHANGED <<CursorPosition, CursorKnown>>
         ELSE /\ term' = MoveTo(t, Row(master), Col(master))
              /\ CursorPosition' = [y |-> Row(master), x |-> Col(master)]
              /\ CursorKnown' = TRUE
  BY DEF OnFillConsoleOutputCharacter, Handled
<1>2. ~(c # Blank /\ PostCells(n, Col(p)) > 0)
  BY DEF OnFillConsoleOutputCharacter, Handled
<1>3. n \in Nat /\ p \in Int /\ Width * Height \in Int
  BY Sizes DEF Cells
<1>4. c = Blank \/ PostCells(n, Col(p)) = 0
  <2>1. PostCells(n, Col(p)) \in 0..(Width - 1) /\ Width \in Nat
    BY <1>1, <1>3, FillPlaces, Sizes
  <2>. QED  BY <1>2, <2>1
<1>5. term \in Terminal /\ term.cell = cell
  BY DEF Shown
<1>6. Fills(term, t, p, n, c)
  BY <1>1, <1>3, <1>4, <1>5, FilledIs
<1> HIDE DEF t
<1>7. t \in Terminal /\ t.cell = cell'
  BY <1>1, <1>5, <1>6 DEF Fills
<1>8. CASE master \notin Cells
  <2>1. term' \in Terminal /\ term'.cell = t.cell /\ term'.strayed
    BY <1>1, <1>7, <1>8 DEF Terminal
  <2>. QED  BY <1>1, <1>7, <1>8, <2>1 DEF Shown
<1>9. CASE master \in Cells
  <2>1. Row(master) \in Rows /\ Col(master) \in Cols /\ Row(master) \in Nat
    <3>1. master \in Int
      BY <1>9, Sizes DEF Cells
    <3>. QED  BY <1>9, <3>1, CellHas, CellsAre DEF Rows
  <2>2. term' \in Terminal /\ term'.cell = t.cell /\ term'.y = Row(master)
    BY <1>1, <1>7, <1>9, <2>1, MoveToIs
  <2>. QED  BY <1>1, <1>7, <1>9, <2>1, <2>2 DEF Shown
<1>. QED  BY <1>8, <1>9

(***************************************************************************)
(* With exp::winnt_stripvt100 nothing but characters and line feeds comes. *)
(***************************************************************************)
LEMMA TypedPlain ==
    ASSUME Stripped, NEW n \in Nat, NEW c \in Char
    PROVE  Type(term, n, c) \in Terminal /\ Type(term, n, c).plain
<1>1. Typed(term, Type(term, n, c), n, c)
  BY TypeIs DEF Stripped
<1>. QED  BY <1>1 DEF Typed, Stripped, SameOtherwise

LEMMA StrippedKept ==
    ASSUME strip, Stripped, Handler
    PROVE  Stripped'
<1>0. term \in Terminal /\ term.plain /\ CursorPosition.y \in Int /\ Width \in Nat
  BY Sizes DEF Stripped
<1>1. ASSUME NEW form \in {"A", "W"}, NEW n \in 1..(Width + 1), NEW done \in 1..(Width + 1), NEW c \in Char,
             OnWriteConsole(form, n, done, c)
      PROVE  Stripped'
  <2>1. PICK sent \in {done, n} : term' = Type(term, sent, c) /\ CursorPosition' = CursorPosition
    BY <1>1 DEF OnWriteConsole
  <2>2. sent \in Nat
    BY <1>0
  <2>. QED  BY <1>0, <2>1, <2>2, TypedPlain DEF Stripped
<1>2. ASSUME NEW p \in Cells, NEW n \in Cells, n > 0, NEW c \in Char, OnWriteConsoleOutputCharacter(p, n, c)
      PROVE  Stripped'
  <2>1. term' = Type(term, n, c) /\ CursorPosition' = CursorPosition /\ n \in Nat
    BY <1>2, Sizes DEF OnWriteConsoleOutputCharacter, CreateVtSequence, CursorAfter, Cells
  <2>. QED  BY <1>0, <2>1, TypedPlain DEF Stripped
<1>3. ASSUME NEW form \in {"A", "W"}, NEW top \in Rows, NEW bottom \in Rows, NEW edge \in Cols, NEW right \in Cols,
             NEW c \in Char, top <= bottom, edge <= right, OnWriteConsoleOutput(form, top, bottom, edge, right, c)
      PROVE  Stripped'
  <2> DEFINE width == right - edge + 1
             sent == IF form = "A" THEN width ELSE (width + 1) \div 2
             n == sent * (bottom - top + 1)
  <2>1. term' = Type(term, n, c) /\ CursorPosition' = CursorPosition
    BY <1>3 DEF OnWriteConsoleOutput
  <2>2. width \in Nat /\ bottom - top + 1 \in Nat
    BY <1>0, <1>3 DEF Rows, Cols
  <2>3. sent \in Nat
    BY <2>2
  <2>. HIDE DEF sent
  <2>4. n \in Nat
    BY <2>2, <2>3
  <2>. HIDE DEF n
  <2>. QED  BY <1>0, <2>1, <2>4, TypedPlain DEF Stripped
<1>4. ASSUME NEW p \in Cells, NEW n \in Cells, NEW c \in Char, NEW master \in MasterAt,
             OnFillConsoleOutputCharacter(p, n, c, master)
      PROVE  Stripped'
  <2>1. term' = Type(term, n, c) /\ CursorPosition' = CursorPosition /\ n \in Nat
    BY <1>4, Sizes DEF OnFillConsoleOutputCharacter, Cells
  <2>. QED  BY <1>0, <2>1, TypedPlain DEF Stripped
<1>5. ASSUME NEW top, NEW bottom, NEW dest, NEW edge, NEW fill,
             OnScrollConsoleScreenBuffer(top, bottom, edge, dest, fill)
      PROVE  Stripped'
  <2>1. (term' = term \/ term' = LineFeed(term)) /\ CursorPosition' = CursorPosition
    BY <1>5 DEF OnScrollConsoleScreenBuffer
  <2>2. LineFeed(term) \in Terminal /\ LineFeed(term).plain
    BY <1>0, LineFeedIs DEF SameOtherwise
  <2>. QED  BY <1>0, <2>1, <2>2 DEF Stripped
<1>6. ASSUME NEW p \in Cells, OnSetConsoleCursorPosition(p)
      PROVE  Stripped'
  <2> DEFINE k == Row(p) - CursorPosition.y
  <2>1. /\ term' = IF Col(p) = 0 /\ CursorPosition.y < Row(p) THEN LineFeeds(term, k) ELSE term
        /\ CursorPosition' = [y |-> Row(p), x |-> Col(p)]
    BY <1>6 DEF OnSetConsoleCursorPosition
  <2>2. Row(p) \in Int
    <3>1. p \in Int
      BY Sizes DEF Cells
    <3>. QED  BY <3>1, CellHas
  <2>3. CursorPosition.y < Row(p) => k \in Nat
    BY <1>0, <2>2
  <2>4. k \in Nat => LineFeeds(term, k) \in Terminal /\ LineFeeds(term, k).plain
    BY <1>0, LineFeedsAre DEF SameOtherwise
  <2>. QED  BY <1>0, <2>1, <2>2, <2>3, <2>4 DEF Stripped
<1>. QED  BY <1>1, <1>2, <1>3, <1>4, <1>5, <1>6 DEF Handler

LEMMA ShownKept ==
    ASSUME ~strip, Shown, Handler, lapse' = "none"
    PROVE  Shown'
<1>1. ASSUME NEW form \in {"A", "W"}, NEW n \in 1..(Width + 1), NEW done \in 1..(Width + 1), NEW c \in Char,
             OnWriteConsole(form, n, done, c)
      PROVE  Shown'
  <2>1. n \in Nat /\ done \in Nat
    BY Sizes
  <2>. QED  BY <1>1, <2>1, WriteShows
<1>2. ASSUME NEW p \in Cells, NEW n \in Cells, n > 0, NEW c \in Char, OnWriteConsoleOutputCharacter(p, n, c)
      PROVE  Shown'
  BY <1>2, OutputCharacterShows
<1>3. ASSUME NEW form \in {"A", "W"}, NEW top \in Rows, NEW bottom \in Rows, NEW edge \in Cols, NEW right \in Cols,
             NEW c \in Char, top <= bottom, edge <= right, OnWriteConsoleOutput(form, top, bottom, edge, right, c)
      PROVE  Shown'
  <2> DEFINE d == [form |-> form, edge |-> edge, right |-> right, c |-> c]
  <2>1. d.form = form /\ d.edge = edge /\ d.right = right /\ d.c = c
    OBVIOUS
  <2> HIDE DEF d
  <2>2. OnWriteConsoleOutput(d.form, top, bottom, d.edge, d.right, d.c)
    BY ONLY <1>3, <2>1
  <2>. QED  BY <1>3, <2>1, <2>2, OutputShows
<1>4. ASSUME NEW p \in Cells, NEW n \in Cells, n > 0, NEW c \in Char, NEW master \in MasterAt,
             OnFillConsoleOutputCharacter(p, n, c, master)
      PROVE  Shown'
  BY <1>4, FillShows
<1>5. ASSUME NEW top \in Rows, NEW bottom \in Rows, NEW dest \in Rows, NEW edge \in Cols, NEW fill \in Char,
             top <= bottom, dest + bottom - top < Height, OnScrollConsoleScreenBuffer(top, bottom, edge, dest, fill)
      PROVE  Shown'
  BY <1>5, ScrollShows
<1>6. ASSUME NEW p \in Cells, OnSetConsoleCursorPosition(p)
      PROVE  Shown'
  BY <1>6, SetCursorShows
<1>. QED  BY <1>1, <1>2, <1>3, <1>4, <1>5, <1>6 DEF Handler

LEMMA StripStays == ASSUME Handler PROVE strip' = strip
<1>1. \A why : Handled(why) => strip' = strip
  BY DEF Handled
<1>2. ASSUME NEW form, NEW n, NEW done, NEW c, OnWriteConsole(form, n, done, c) PROVE strip' = strip
  BY <1>1, <1>2 DEF OnWriteConsole
<1>3. ASSUME NEW p, NEW n, NEW c, OnWriteConsoleOutputCharacter(p, n, c) PROVE strip' = strip
  BY <1>1, <1>3 DEF OnWriteConsoleOutputCharacter
<1>4. ASSUME NEW form, NEW top, NEW bottom, NEW edge, NEW right, NEW c,
             OnWriteConsoleOutput(form, top, bottom, edge, right, c)
      PROVE  strip' = strip
  BY <1>1, <1>4 DEF OnWriteConsoleOutput
<1>5. ASSUME NEW p, NEW n, NEW c, NEW master, OnFillConsoleOutputCharacter(p, n, c, master) PROVE strip' = strip
  BY <1>1, <1>5 DEF OnFillConsoleOutputCharacter
<1>6. ASSUME NEW top, NEW bottom, NEW edge, NEW dest, NEW fill,
             OnScrollConsoleScreenBuffer(top, bottom, edge, dest, fill)
      PROVE  strip' = strip
  BY <1>1, <1>6 DEF OnScrollConsoleScreenBuffer
<1>7. ASSUME NEW p, OnSetConsoleCursorPosition(p) PROVE strip' = strip
  BY <1>1, <1>7 DEF OnSetConsoleCursorPosition
<1>. QED  BY <1>2, <1>3, <1>4, <1>5, <1>6, <1>7 DEF Handler

LEMMA MirrorInit == ConsoleInit => MirrorInv
<1>. SUFFICES ASSUME ConsoleInit PROVE MirrorInv
  OBVIOUS
<1>1. 0 \in Rows /\ 0 \in 0..Width /\ Blank \in Char
  BY Sizes, BlankIsChar DEF Rows
<1>2. term \in Terminal /\ term.cell = cell /\ term.plain
  BY <1>1 DEF ConsoleInit, Terminal, Screen
<1>3. CursorPosition.y = 0 /\ CursorKnown = FALSE /\ strip \in BOOLEAN
  BY DEF ConsoleInit
<1>4. CursorPosition.y \in Nat /\ CursorPosition.y \in Int
  BY <1>3
<1>5. Stripped
  BY <1>2, <1>4 DEF Stripped
<1>6. CursorKnown \in BOOLEAN /\ ~CursorKnown
  BY <1>3
<1>7. Shown
  BY <1>2, <1>4, <1>6 DEF Shown
<1>. QED  BY <1>3, <1>5, <1>7 DEF MirrorInv

LEMMA MirrorKept == MirrorInv /\ [ConsoleNext]_consoleVars => MirrorInv'
<1>1. ASSUME MirrorInv, UNCHANGED consoleVars PROVE MirrorInv'
  BY <1>1 DEF MirrorInv, consoleVars, Stripped, Shown
<1>2. ASSUME MirrorInv, ConsoleNext PROVE MirrorInv'
  <2>1. Handler /\ lapse = "none" /\ strip' = strip
    BY <1>2, StripStays DEF ConsoleNext
  <2>2. strip => Stripped'
    BY <1>2, <2>1, StrippedKept DEF MirrorInv
  <2>3. ~strip /\ lapse' = "none" => Shown'
    BY <1>2, <2>1, ShownKept DEF MirrorInv
  <2>. QED  BY <1>2, <2>1, <2>2, <2>3 DEF MirrorInv
<1>. QED  BY <1>1, <1>2

\* OnWriteConsole and the other handlers: on a console of any size the master sees
\* what is in the slave's, every character in its place, after any calls, but
\* those that lapse names; with exp::winnt_stripvt100 it gets text only.
THEOREM MirroredAlways == ConsoleSpec => []Mirrored
<1>1. MirrorInv => Mirrored
  BY DEF MirrorInv, Mirrored, Stripped, Shown
<1>. QED  BY <1>1, MirrorInit, MirrorKept, PTL DEF ConsoleSpec
=============================================================================
