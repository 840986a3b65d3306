-------------------------- MODULE ThreadRegistryMC --------------------------
(* Small instances of ThreadRegistry: who may call what.                   *)
EXTENDS ThreadRegistry, TLC

CONSTANTS c1, c2, t1, t2, t3, t4

AnyCalls == [c \in Callers |-> Operations]
(* One task makes a Thread, sets its core and then initialises it.         *)
Configuring == [c \in Callers |-> {"Construct", "SetCoreID", "Initialize"}]
Adding == [c \in Callers |-> {"Construct", "AddThread", "Destroy"}]
Symmetry == Permutations({c1, c2})
=============================================================================
