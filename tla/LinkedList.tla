----------------------------- MODULE LinkedList -----------------------------
(***************************************************************************)
(* CMclLinkedList (Mcl/CMclLinkedLists.h): two rings of nodes in a         *)
(* critical section, a semaphore that counts the elements outside of it,   *)
(* and the status of the last wait, which is a member that every thread    *)
(* writes.  SpawnChan takes its queues for atomic.                         *)
(***************************************************************************)
EXTENDS Integers, SequencesExt

CONSTANTS
    Producers,      \* threads that put: the debuggers of the channels
    Consumers,      \* threads that do everything: the thread of Tcl
    Data,           \* what is put
    Nodes,          \* numbers of nodes, a bound on how many are allocated
    Nobody

ASSUME ListAssumption ==
    /\ Nodes \subseteq Nat \ {0} /\ IsFiniteSet(Nodes)
    /\ Nobody \notin Data \union Consumers

Master == 0
Free == -1

VARIABLES
    links,          \* m_pNext and m_pPrev of every node
    element,        \* m_data of a node; Nobody before it is allocated
    permits,        \* m_csNotEmpty
    granted,        \* m_dwStatus: the last wait succeeded
    lock,           \* who is in m_cCritSec
    at,             \* where a thread is
    walk,           \* pNode of RemoveIf, and what it looks for
    queue,          \* history: what was put and neither got nor removed
    thrown          \* the data of a sentinel was asked for

listVars == <<links, element, permits, granted, lock, at, walk, queue, thrown>>

ListInit ==
    /\ links = LET self == [n \in Nodes \union {Master, Free} |-> n] IN [next |-> self, prev |-> self]
    /\ element = [n \in Nodes |-> Nobody]
    /\ permits = 0 /\ granted = TRUE
    /\ lock = Nobody
    /\ at = [t \in Consumers |-> "idle"]
    /\ walk = [node |-> Master, element |-> Nobody]
    /\ queue = <<>> /\ thrown = FALSE
-----------------------------------------------------------------------------
(***************************************************************************)
(* The rings.                                                              *)
(***************************************************************************)
AtTail(l, ring, n) ==
    [next |-> [l.next EXCEPT ![l.prev[ring]] = n, ![n] = ring],
     prev |-> [l.prev EXCEPT ![n] = l.prev[ring], ![ring] = n]]

AtHead(l, ring, n) ==
    [next |-> [l.next EXCEPT ![n] = l.next[ring], ![ring] = n],
     prev |-> [l.prev EXCEPT ![l.next[ring]] = n, ![n] = ring]]

Unspliced(l, n) ==
    [next |-> [l.next EXCEPT ![l.prev[n]] = l.next[n]],
     prev |-> [l.prev EXCEPT ![l.next[n]] = l.prev[n]]]

AddToFreeList(l, n) == AtTail(l, Free, n)

\* A node of the free list, or a new one.
AllocateListNode ==
    IF links.next[Free] # Free THEN {links.next[Free]}
    ELSE {n \in Nodes : element[n] = Nobody /\ \A m \in Nodes : element[m] = Nobody => n <= m}

Allocated(n) == IF links.next[Free] = n THEN Unspliced(links, n) ELSE links
-----------------------------------------------------------------------------
(***************************************************************************)
(* The operations, one critical section or one wait each.                  *)
(***************************************************************************)
Put(x, end) ==
    /\ lock = Nobody
    /\ \E n \in AllocateListNode :
         /\ element' = [element EXCEPT ![n] = x]
         /\ links' = IF end = "tail" THEN AtTail(Allocated(n), Master, n)
                     ELSE AtHead(Allocated(n), Master, n)
    /\ queue' = IF end = "tail" THEN Append(queue, x) ELSE <<x>> \o queue
    /\ permits' = permits + 1
    /\ UNCHANGED <<granted, lock, at, walk, thrown>>

PutOnTailOfList(t) == (t \in Consumers => at[t] = "idle") /\ \E x \in Data : Put(x, "tail")
PutOnHeadOfList(t) == at[t] = "idle" /\ \E x \in Data : Put(x, "head")

\* The wait of an operation on the semaphore; its result goes to the member.
Wait(t, op) ==
    /\ at[t] = "idle"
    /\ granted' = (permits > 0)
    /\ permits' = IF permits > 0 THEN permits - 1 ELSE 0
    /\ at' = [at EXCEPT ![t] = op]
    /\ UNCHANGED <<links, element, lock, walk, queue, thrown>>

\* Then the member is read.  Empty puts back what it has taken.
Told(t) ==
    /\ at[t] \in {"head", "tail", "empty"}
    /\ at' = [at EXCEPT ![t] = IF ~granted \/ @ = "empty" THEN "idle"
                                 ELSE IF @ = "head" THEN "take head" ELSE "take tail"]
    /\ permits' = IF granted /\ at[t] = "empty" THEN permits + 1 ELSE permits
    /\ UNCHANGED <<links, element, granted, lock, walk, queue, thrown>>

\* The node at an end goes to the free list.  There is one, says the semaphore.
Take(t) ==
    /\ at[t] \in {"take head", "take tail"} /\ lock = Nobody
    /\ LET n == IF at[t] = "take head" THEN links.next[Master] ELSE links.prev[Master] IN
       IF n = Master THEN thrown' = TRUE /\ UNCHANGED <<links, queue>>
       ELSE /\ links' = AddToFreeList(Unspliced(links, n), n)
            /\ queue' = IF at[t] = "take head" THEN Tail(queue) ELSE Front(queue)
            /\ UNCHANGED thrown
    /\ at' = [at EXCEPT ![t] = "idle"]
    /\ UNCHANGED <<element, permits, granted, lock, walk>>

RemoveIf(t) ==
    /\ at[t] = "idle" /\ lock = Nobody
    /\ lock' = t
    /\ at' = [at EXCEPT ![t] = "remove"]
    /\ \E x \in Data : walk' = [node |-> links.next[Master], element |-> x]
    /\ UNCHANGED <<links, element, permits, granted, queue, thrown>>

\* Mutant of RemoveNode: the count is left as it is.
RemoveNodeCounted(n) ==
    /\ links' = AddToFreeList(Unspliced(links, n), n)
    /\ queue' = RemoveAt(queue, SelectInSeq(queue, LAMBDA x : x = element[n]))
    /\ UNCHANGED permits

RemoveNode(n) ==
    /\ links' = AddToFreeList(Unspliced(links, n), n)
    /\ queue' = RemoveAt(queue, SelectInSeq(queue, LAMBDA x : x = element[n]))
    /\ permits' = IF permits > 0 THEN permits - 1 ELSE 0

\* Each element that is equal is taken out, and counted down, before the next is
\* looked at.
RemoveStep(t) ==
    /\ at[t] = "remove"
    /\ IF walk.node = Master
       THEN /\ lock' = Nobody /\ at' = [at EXCEPT ![t] = "idle"]
            /\ UNCHANGED <<links, permits, walk, queue>>
       ELSE /\ walk' = [walk EXCEPT !.node = links.next[@]]
            /\ IF element[walk.node] = walk.element THEN RemoveNode(walk.node)
               ELSE UNCHANGED <<links, permits, queue>>
            /\ UNCHANGED <<lock, at>>
    /\ UNCHANGED <<element, granted, thrown>>

ListNext ==
    \/ \E t \in Producers \union Consumers : PutOnTailOfList(t)
    \/ \E t \in Consumers :
         \/ PutOnHeadOfList(t)
         \/ \E op \in {"head", "tail", "empty"} : Wait(t, op)
         \/ Told(t) \/ Take(t) \/ RemoveIf(t) \/ RemoveStep(t)

ListSpec == ListInit /\ [][ListNext]_listVars
-----------------------------------------------------------------------------
\* The nodes of a ring in order, or <<Nobody>> if it does not close.
Ring(to, ring) ==
    LET step[k \in 1 .. Cardinality(Nodes) + 1] == IF k = 1 THEN to[ring] ELSE to[step[k - 1]]
        closed == {k \in DOMAIN step : step[k] = ring}
    IN  IF closed = {} THEN <<Nobody>> ELSE [k \in 1 .. Min(closed) - 1 |-> step[k]]

\* With one thread that gets and removes, whatever others put between its wait and
\* its critical section: both rings are whole in both directions and share no
\* node, the list has what was put and neither got nor removed, in order, no
\* element is got that is not there, and what the semaphore has counted, with
\* what a wait has taken for an element still to be got, is the length.
ListIntact ==
    LET list == Ring(links.next, Master)
        free == Ring(links.next, Free)
        taken == {t \in Consumers : at[t] \in {"take head", "take tail"}
                                      \/ (at[t] \in {"head", "tail", "empty"} /\ granted)}
    IN  /\ [k \in DOMAIN list |-> element[list[k]]] = queue
        /\ Reverse(Ring(links.prev, Master)) = list
        /\ Reverse(Ring(links.prev, Free)) = free
        /\ ToSet(list) \intersect ToSet(free) = {}
        /\ ~thrown
        /\ permits + Cardinality(taken) = Len(queue)
=============================================================================
