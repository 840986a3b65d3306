-------------------------- MODULE ThreadManagerMC --------------------------
(* Small instances of ThreadManager: who may call what.                    *)
EXTENDS ThreadManager, TLC

CONSTANTS c1, c2, c3, t1, t2

(* One iterates, one cleans up, one owns: it releases, keeps, shuts down.  *)
OneOfEach ==
  c1 :> {"ForEachThread", "WithThread"} @@ c2 :> {"CleanUp"}
  @@ c3 :> {"Release", "Keep", "Shutdown", "RemoveThread"}
TwoCleaners ==
  c1 :> {"ForEachThread"} @@ c2 :> {"CleanUp"} @@ c3 :> {"CleanUp", "Release", "Shutdown"}
(* One cleans up while two decide about the same Threads.                  *)
TwoOwners ==
  c1 :> {"CleanUp"} @@ c2 :> {"Release", "Keep"} @@ c3 :> {"Release", "Keep", "RemoveThread"}
Symmetry == Permutations({t1, t2})
=============================================================================
