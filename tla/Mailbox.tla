------------------------------ MODULE Mailbox ------------------------------
(***************************************************************************)
(* CMclMailbox of win/Mcl: a ring of Depth slots in memory that expect and *)
(* the slave share.  A semaphore counts the free slots, another one the    *)
(* pending messages, and a mutex guards the ring.  The injector in the     *)
(* slave's process and the debugger or detourer thread of expect are at    *)
(* the two ends.                                                           *)
(*                                                                         *)
(* A step is one call to the system or one access to the shared header.    *)
(* Either process may be killed between any two of them (expect kills its  *)
(* slaves, and a process that ends stops its threads wherever they are):   *)
(* a mutex that was held is then abandoned, a permit that was taken from a *)
(* semaphore is gone.                                                      *)
(***************************************************************************)
EXTENDS Integers, Sequences, FiniteSets

CONSTANTS
    Poster, Getter,     \* threads at the two ends
    Depth,              \* dwMaxDepth
    MaxPosts,           \* bound: calls of Post
    Mortal,             \* threads that may be killed
    Alertable,          \* threads that pass an interrupt event
    Timeouts,           \* TRUE if waits have a time limit (the program has none)
    NoOne               \* the mutex has no owner

ASSUME DepthAssumption == Depth \in Nat \ {0}

ASSUME ThreadAssumption ==
    /\ IsFiniteSet(Poster) /\ IsFiniteSet(Getter)
    /\ Poster \cap Getter = {}
    /\ NoOne \notin Poster \cup Getter
    /\ Timeouts \in BOOLEAN
    /\ MaxPosts \in Nat

Thread == Poster \cup Getter

VARIABLES
    slot,       \* the ring
    head, tail, \* dwHeadIndex, dwTailIndex
    free,       \* the FreeCount semaphore
    pending,    \* the PendingCount semaphore
    guard,      \* owner of the guard mutex
    orphan,     \* the mutex was abandoned and nobody took it since
    interrupt,  \* the event of the alertable threads
    pc,         \* where a thread is
    msg,        \* the message a thread posts, or has got
    adopted,    \* the thread took the mutex when it was abandoned
    made,       \* messages given to Post so far
    posted,     \* messages put into the ring, in that order
    got,        \* messages taken out of it
    refused     \* messages for which Post returned FALSE

ring  == <<slot, head, tail>>
calls == <<made, refused>>
vars  == <<slot, head, tail, free, pending, guard, orphan, interrupt, pc, msg,
           adopted, made, posted, got, refused>>

Init ==
    /\ slot = [i \in 0..Depth-1 |-> 0]
    /\ head = 0 /\ tail = 0
    /\ free = Depth
    /\ pending = 0
    /\ guard = NoOne /\ orphan = FALSE
    /\ interrupt = FALSE
    /\ pc = [t \in Thread |-> "idle"]
    /\ msg = [t \in Thread |-> 0]
    /\ adopted = [t \in Thread |-> FALSE]
    /\ made = 0
    /\ posted = <<>> /\ got = <<>>
    /\ refused = {}

Goto(t, place) == pc' = [pc EXCEPT ![t] = place]
-----------------------------------------------------------------------------
(***************************************************************************)
(* Waits shared by Post and Get.                                           *)
(***************************************************************************)

\* m_cGuardMutexAPtr->Wait(): an abandoned mutex is taken like a free one.
TakeGuard(t) ==
    /\ pc[t] = "guard"
    /\ guard = NoOne
    /\ guard' = t
    /\ orphan' = FALSE
    /\ adopted' = [adopted EXCEPT ![t] = orphan]
    /\ Goto(t, "copy")
    /\ UNCHANGED <<ring, free, pending, interrupt, msg, calls, posted, got>>

\* m_cGuardMutexAPtr->Release()
DropGuard(t) ==
    /\ pc[t] = "leave"
    /\ guard' = NoOne
    /\ Goto(t, "signal")
    /\ UNCHANGED <<ring, free, pending, orphan, interrupt, msg, adopted, calls,
                   posted, got>>

\* The interrupt event comes first in WaitForTwo.
Interrupted(t) == t \in Alertable /\ interrupt
-----------------------------------------------------------------------------
(***************************************************************************)
(* Post and PostAlertable.                                                 *)
(***************************************************************************)
PostCall(t) ==
    /\ pc[t] = "idle"
    /\ made < MaxPosts
    /\ made' = made + 1
    /\ msg' = [msg EXCEPT ![t] = made + 1]
    /\ Goto(t, "permit")
    /\ UNCHANGED <<ring, free, pending, guard, orphan, interrupt, adopted, posted,
                   got, refused>>

PostPermit(t) ==
    /\ pc[t] = "permit"
    /\ ~Interrupted(t)
    /\ free > 0
    /\ free' = free - 1
    /\ Goto(t, "guard")
    /\ UNCHANGED <<ring, pending, guard, orphan, interrupt, msg, adopted, calls,
                   posted, got>>

\* The call returns FALSE: interrupted, or a wait timed out.  When it is the
\* wait for the mutex, the permit is not given back.
PostFail(t) ==
    /\ \/ pc[t] = "permit" /\ Interrupted(t)
       \/ pc[t] \in {"permit", "guard"} /\ Timeouts
    /\ refused' = refused \cup {msg[t]}
    /\ Goto(t, "idle")
    /\ UNCHANGED <<ring, free, pending, guard, orphan, interrupt, msg, adopted,
                   made, posted, got>>

\* CopyMemory(GetTailPtr(), lpMsg, ...)
PostCopy(t) ==
    /\ pc[t] = "copy"
    /\ slot' = [slot EXCEPT ![tail] = msg[t]]
    /\ Goto(t, "advance")
    /\ UNCHANGED <<head, tail, free, pending, guard, orphan, interrupt, msg,
                   adopted, calls, posted, got>>

\* Mutant of PostAdvance: IncrementTail without the wrap at the last slot.
PostAdvanceNoWrap(t) ==
    /\ pc[t] = "advance"
    /\ tail' = IF tail + 1 < Depth THEN tail + 1 ELSE tail
    /\ posted' = Append(posted, msg[t])
    /\ Goto(t, "leave")
    /\ UNCHANGED <<slot, head, free, pending, guard, orphan, interrupt, msg,
                   adopted, calls, got>>

\* IncrementTail()
PostAdvance(t) ==
    /\ pc[t] = "advance"
    /\ tail' = (tail + 1) % Depth
    /\ posted' = Append(posted, msg[t])
    /\ Goto(t, "leave")
    /\ UNCHANGED <<slot, head, free, pending, guard, orphan, interrupt, msg,
                   adopted, calls, got>>

\* Mutant of PostSignal: the message is announced on the semaphore of Post.
PostSignalWrong(t) ==
    /\ pc[t] = "signal"
    /\ free' = free + 1
    /\ UNCHANGED refused
    /\ Goto(t, "idle")
    /\ UNCHANGED <<ring, pending, guard, orphan, interrupt, msg, adopted, made,
                   posted, got>>

\* m_cPendingCountSemaphoreAPtr->Release(1); Post tells whether the wait for
\* the mutex succeeded, which it did not if the mutex was abandoned, while
\* PostAlertable tells whether the message was copied.
PostSignal(t) ==
    /\ pc[t] = "signal"
    /\ pending' = pending + 1
    /\ refused' = IF adopted[t] /\ t \notin Alertable
                  THEN refused \cup {msg[t]} ELSE refused
    /\ Goto(t, "idle")
    /\ UNCHANGED <<ring, free, guard, orphan, interrupt, msg, adopted, made,
                   posted, got>>

PostOn(t) == \/ PostPermit(t) \/ TakeGuard(t) \/ PostCopy(t)
             \/ PostAdvance(t) \/ DropGuard(t) \/ PostSignal(t)
Post(t) == PostOn(t) \/ PostFail(t)
-----------------------------------------------------------------------------
(***************************************************************************)
(* Get and GetAlertable.  Its callers are loops that call it again until   *)
(* it returns FALSE.                                                       *)
(***************************************************************************)
GetPermit(t) ==
    /\ pc[t] = "idle"
    /\ ~Interrupted(t)
    /\ pending > 0
    /\ pending' = pending - 1
    /\ Goto(t, "guard")
    /\ UNCHANGED <<ring, free, guard, orphan, interrupt, msg, adopted, calls,
                   posted, got>>

GetFail(t) ==
    /\ \/ pc[t] = "idle" /\ Interrupted(t)
       \/ pc[t] \in {"idle", "guard"} /\ Timeouts
    /\ Goto(t, "stopped")
    /\ UNCHANGED <<ring, free, pending, guard, orphan, interrupt, msg, adopted,
                   calls, posted, got>>

\* CopyMemory(lpMsg, GetHeadPtr(), ...)
GetCopy(t) ==
    /\ pc[t] = "copy"
    /\ msg' = [msg EXCEPT ![t] = slot[head]]
    /\ Goto(t, "advance")
    /\ UNCHANGED <<ring, free, pending, guard, orphan, interrupt, adopted, calls,
                   posted, got>>

\* IncrementHead()
GetAdvance(t) ==
    /\ pc[t] = "advance"
    /\ head' = (head + 1) % Depth
    /\ got' = Append(got, msg[t])
    /\ Goto(t, "leave")
    /\ UNCHANGED <<slot, tail, free, pending, guard, orphan, interrupt, msg,
                   adopted, calls, posted>>

\* Mutant of GetSignal: the slot is announced on the semaphore of Get.
GetSignalWrong(t) ==
    /\ pc[t] = "signal"
    /\ pending' = pending + 1
    /\ Goto(t, "idle")
    /\ UNCHANGED <<ring, free, guard, orphan, interrupt, msg, adopted, calls,
                   posted, got>>

\* m_cFreeCountSemaphoreAPtr->Release(1)
GetSignal(t) ==
    /\ pc[t] = "signal"
    /\ free' = free + 1
    /\ Goto(t, "idle")
    /\ UNCHANGED <<ring, pending, guard, orphan, interrupt, msg, adopted, calls,
                   posted, got>>

GetOn(t) == \/ GetPermit(t) \/ TakeGuard(t) \/ GetCopy(t)
            \/ GetAdvance(t) \/ DropGuard(t) \/ GetSignal(t)
Get(t) == GetOn(t) \/ GetFail(t)
-----------------------------------------------------------------------------
\* The other side sets the interrupt event to end a loop of GetAlertable.
Interrupt ==
    /\ ~interrupt
    /\ Alertable # {}
    /\ interrupt' = TRUE
    /\ UNCHANGED <<ring, free, pending, guard, orphan, pc, msg, adopted, calls,
                   posted, got>>

\* The thread's process is terminated.
Kill(t) ==
    /\ t \in Mortal
    /\ pc[t] # "dead"
    /\ Goto(t, "dead")
    /\ guard' = IF guard = t THEN NoOne ELSE guard
    /\ orphan' = (orphan \/ guard = t)
    /\ UNCHANGED <<ring, free, pending, interrupt, msg, adopted, calls, posted, got>>

Next == \/ \E t \in Poster : PostCall(t) \/ Post(t) \/ Kill(t)
        \/ \E t \in Getter : Get(t) \/ Kill(t)
        \/ Interrupt

(***************************************************************************)
(* Fairness: threads run, and the system's semaphores and mutexes starve   *)
(* none of those that wait for them.  Nobody has to call Post, and no wait *)
(* has to time out.                                                        *)
(***************************************************************************)
Fairness == /\ \A t \in Poster : /\ SF_vars(PostPermit(t) \/ TakeGuard(t))
                                 /\ WF_vars(PostOn(t))
            /\ \A t \in Getter : /\ SF_vars(GetPermit(t) \/ TakeGuard(t))
                                 /\ WF_vars(GetOn(t))

Spec     == Init /\ [][Next]_vars
FairSpec == Spec /\ Fairness
-----------------------------------------------------------------------------
(***************************************************************************)
(* Properties.                                                             *)
(***************************************************************************)
Places == {"idle", "permit", "guard", "copy", "advance", "leave", "signal",
           "stopped", "dead"}

\* Every variable has its type; the indexes stay inside the ring and neither
\* semaphore is ever released beyond Depth.
TypeOK ==
    /\ slot \in [0..Depth-1 -> Nat]
    /\ head \in 0..Depth-1 /\ tail \in 0..Depth-1
    /\ free \in 0..Depth /\ pending \in 0..Depth
    /\ guard \in Thread \cup {NoOne} /\ orphan \in BOOLEAN
    /\ interrupt \in BOOLEAN
    /\ pc \in [Thread -> Places]
    /\ msg \in [Thread -> Nat]
    /\ adopted \in [Thread -> BOOLEAN]
    /\ made \in Nat
    /\ posted \in Seq(Nat) /\ got \in Seq(Nat)
    /\ refused \subseteq Nat

\* Of all threads, of whatever process, one at most is between the two calls on
\* the mutex: the copy and the step of the index are never interleaved with
\* another's, also when a thread was killed in between.
InRing(t) == pc[t] \in {"copy", "advance", "leave"}
OneInRing == \A t, u \in Thread : InRing(t) /\ InRing(u) => t = u

\* The messages between head and tail are the ones that were posted and not yet
\* got, in order: Post never overwrites a message that is pending, Get never
\* reads a slot that was not written, wherever a thread was killed.
Wrap(i) == IF i < Depth THEN i ELSE i - Depth
RingIntact ==
    LET n == Len(posted) - Len(got) IN
    /\ n \in 0..Depth
    /\ tail = Wrap(head + n)
    /\ \A i \in 0..Depth-1 :
         i < n => slot[Wrap(head + i)] = posted[Len(got) + 1 + i]

\* The mailbox is a bounded queue: first in first out, nothing invented, nothing
\* returned twice, also across the death of a thread at either end.
Fifo == INSTANCE BoundedFifo
            WITH put <- posted, taken <- got, Message <- 1..MaxPosts
ImplementsFifo == Fifo!Spec

\* FALSE from Post means that the message was not posted.
PostTells == \A i \in 1..Len(posted) : posted[i] \notin refused

\* No thread was interrupted, has given up or died: a permit it had taken would
\* be lost.
Calm == ~interrupt /\ refused = {} /\ \A t \in Thread : pc[t] \notin {"stopped", "dead"}

\* While that is so, what was posted is received, and a Post that waits for a free
\* slot gets one.
Received ==
    []Calm =>
      /\ \A k \in 1..MaxPosts : Len(posted) >= k ~> Len(got) >= k
      /\ \A t \in Poster : pc[t] = "permit" ~> pc[t] = "idle"
=============================================================================
