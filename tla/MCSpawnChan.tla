---------------------------- MODULE MCSpawnChan ----------------------------
(***************************************************************************)
(* SpawnChan on small instances: values for the constants of the .cfg      *)
(* files, and the bound on the queues.                                     *)
(***************************************************************************)
EXTENDS SpawnChan

CONSTANTS c1, c2

MCReadable == {{"readable"}}
MCReadableOrWritable == {{"readable"}, {"readable", "writable"}}

\* Bound: entries of the driver's ready queue and of Tcl's event queue.
MaxQueue == 4
QueueBound == Len(readyQ) <= MaxQueue /\ Len(evQ) <= MaxQueue
=============================================================================
