---------------------------- MODULE MCMatchBuffer ----------------------------
(****************************************************************************)
(* What the slave prints on small instances: the list of the debugger's     *)
(* messages, and the buffer expect reads into.  UtfMax is that of the       *)
(* program; with match_max 2 and 3 the buffer is full at 2 and at 4         *)
(* characters.  The two share no state, so a behaviour is one of the        *)
(* machine in focus, and the other waits where it starts.                   *)
(****************************************************************************)
EXTENDS MatchBuffer, LinkedList

MCSizes == {2, 3}
MCNulls == {2}

VARIABLE focus      \* the machine that runs

MCInit ==
    /\ focus \in {"buffer", "list"}
    /\ BufferInit /\ ListInit
    /\ focus = "list" => umsize = 2

BufferStep == focus = "buffer" /\ BufferNext /\ UNCHANGED <<listVars, focus>>
ListStep == focus = "list" /\ ListNext /\ UNCHANGED <<bufferVars, focus>>

MCNext == BufferStep \/ ListStep

MCSpec == MCInit /\ [][MCNext]_<<bufferVars, listVars, focus>>
==============================================================================
