----------------------------- MODULE MCSession -----------------------------
(* Session for TLC: a root process that may start two others.              *)
EXTENDS Session

CONSTANTS root, k1, k2
MCKids == {k1, k2}
=============================================================================
