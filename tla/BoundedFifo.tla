---------------------------- MODULE BoundedFifo ----------------------------
(***************************************************************************)
(* What a mailbox promises its users: messages come out in the order they  *)
(* went in, each at most once, and no more than Depth of them are inside.  *)
(***************************************************************************)
EXTENDS Naturals, Sequences

CONSTANTS Depth,    \* messages the mailbox holds
          Message   \* what is sent; every Put sends another one

VARIABLES put,      \* messages that went in, in that order
          taken     \* messages that came out

Init == put = <<>> /\ taken = <<>>

Put == /\ Len(put) - Len(taken) < Depth
       /\ \E m \in Message : /\ \A i \in 1..Len(put) : put[i] # m
                               /\ put' = Append(put, m)
       /\ UNCHANGED taken

Take == /\ Len(taken) < Len(put)
        /\ taken' = Append(taken, put[Len(taken) + 1])
        /\ UNCHANGED put

Next == Put \/ Take

Spec == Init /\ [][Next]_<<put, taken>>
=============================================================================
