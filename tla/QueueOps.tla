------------------------------ MODULE QueueOps ------------------------------
(***************************************************************************)
(* What is left of a queue when some entries are taken out, as             *)
(* CMclLinkedList::RemoveIf, Tcl_DeleteEvents and expNullStrip do.         *)
(***************************************************************************)
EXTENDS Integers, Sequences, FiniteSets

\* The places of q that hold something else than x.
Kept(q, x) == {i \in 1..Len(q) : q[i] # x}

\* How many elements of K come before i.
Place(K, i) == Cardinality({k \in K : k < i})

\* The entries at the places in K, in the order they had.
Selected(q, K) == [j \in 1..Cardinality(K) |-> q[CHOOSE i \in K : Place(K, i) = j - 1]]

Without(q, x) == Selected(q, Kept(q, x))
=============================================================================
