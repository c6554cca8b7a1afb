------------------------------ MODULE MCSpawnId ------------------------------
(***************************************************************************)
(* SpawnId on small instances: which commands the scripts use.             *)
(***************************************************************************)
EXTENDS SpawnId, TLC

CONSTANTS i1, i2, i3, v1

MCSymmetry2 == Permutations({i1, i2})
MCSymmetry3 == Permutations({i1, i2, i3})

MCBackground == {"close", "wait", "background", "update"}
MCExpect     == {"close", "wait", "background", "before", "expect"}
MCDirect     == MCBackground \cup MCExpect \cup {"tclclose"}
MCNamed      == {"close", "wait", "background", "indirect", "update"}
MCIndirect   == MCNamed \cup {"tclclose"}
MCTclClose   == {"tclclose", "background", "update"}
=============================================================================
