----------------------------- MODULE MCMailbox -----------------------------
(***************************************************************************)
(* Mailbox on small instances.                                             *)
(***************************************************************************)
EXTENDS Mailbox, TLC

CONSTANTS p1, p2, g1, g2

Symmetry == Permutations({p1, p2}) \cup Permutations({g1, g2})
=============================================================================
