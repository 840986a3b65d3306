---------------------- MODULE TerminationDispatcherMC ----------------------
(* Small instances of TerminationDispatcher.                               *)
EXTENDS TerminationDispatcher, TLC

CONSTANTS a, b, c, app

(* Threads that differ in their policy are not interchangeable.            *)
Symmetry == Permutations(KeptAtFirst)
=============================================================================
