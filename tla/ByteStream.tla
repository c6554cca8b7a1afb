----------------------------- MODULE ByteStream -----------------------------
(***************************************************************************)
(* What a spawn channel promises to the layer above it: the bytes a slave  *)
(* printed come out of the channel in the order they were printed, each    *)
(* once, and end-of-file is reported only when the slave is done and every *)
(* byte has come out.  A byte is identified by its position in the output  *)
(* of the slave, so counting them is enough to know which they are.        *)
(*                                                                         *)
(* The promise is the one Tcl makes of every channel driver; in the code   *)
(* it is ExpWinSpawnClass::Read that has to keep it.                       *)
(***************************************************************************)
EXTENDS Naturals

CONSTANT Chan           \* the spawn channels

VARIABLES written,      \* bytes the slave has printed so far, per channel
          done,         \* the slave has printed its last byte
          delivered,    \* bytes the channel has handed out
          eof           \* the channel has reported end-of-file

vars == <<written, done, delivered, eof>>

Init == /\ written   = [c \in Chan |-> 0]
        /\ done      = [c \in Chan |-> FALSE]
        /\ delivered = [c \in Chan |-> 0]
        /\ eof       = [c \in Chan |-> FALSE]

Produce(c) == /\ ~done[c]
              /\ written' = [written EXCEPT ![c] = written'[c]]
              /\ written'[c] \in Nat
              /\ written[c] < written'[c]
              /\ UNCHANGED <<done, delivered, eof>>

Exit(c) == /\ ~done[c]
           /\ done' = [done EXCEPT ![c] = TRUE]
           /\ UNCHANGED <<written, delivered, eof>>

Deliver(c) == /\ ~eof[c]
              /\ delivered' = [delivered EXCEPT ![c] = delivered'[c]]
              /\ delivered[c] < delivered'[c]
              /\ delivered'[c] <= written[c]
              /\ delivered'[c] \in Nat
              /\ UNCHANGED <<written, done, eof>>

EndOfFile(c) == /\ done[c]
                /\ ~eof[c]
                /\ delivered[c] = written[c]
                /\ eof' = [eof EXCEPT ![c] = TRUE]
                /\ UNCHANGED <<written, done, delivered>>

Next == \E c \in Chan : Produce(c) \/ Exit(c) \/ Deliver(c) \/ EndOfFile(c)

Spec == Init /\ [][Next]_vars
=============================================================================
