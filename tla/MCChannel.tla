------------------------------ MODULE MCChannel ------------------------------
(****************************************************************************)
(* A spawn id on small instances, from its top to its bottom: its life in   *)
(* Expect, with direct and indirect background cases; the channels of       *)
(* exp_chan.c, one over the other; and the driver of a spawned process.     *)
(* Each takes the one below for what it promises, so a behaviour is one of  *)
(* the machine in focus, and the others wait where they start.              *)
(****************************************************************************)
EXTENDS MCSpawnId, MCSpawnChan, Channels

VARIABLE focus      \* the machine that runs

MCInit == focus \in {"id", "channels", "stream"} /\ IdInit /\ ChannelsInit /\ Init

IdStep == focus = "id" /\ IdNext /\ UNCHANGED <<chanVars, vars, focus>>
ChannelsStep == focus = "channels" /\ ChannelsNext /\ UNCHANGED <<idVars, vars, focus>>
StreamStep == focus = "stream" /\ Next /\ UNCHANGED <<idVars, chanVars, focus>>

MCNext == IdStep \/ ChannelsStep \/ StreamStep

MCSpec == MCInit /\ [][MCNext]_<<idVars, chanVars, vars, focus>>
==============================================================================
