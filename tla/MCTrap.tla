-------------------------------- MODULE MCTrap --------------------------------
(* Trap on small instances: the constants are in the .cfg files.            *)
EXTENDS Trap
===============================================================================
