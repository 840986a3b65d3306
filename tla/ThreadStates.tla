---------------------------- MODULE ThreadStates ----------------------------
(***************************************************************************)
(* The lifecycle states of an ESPressio Thread and the effect of the two   *)
(* operations that change them, SetThreadState and TrySetThreadState.      *)
(* Both run under a recursive mutex, so each is one atomic function of the *)
(* state it finds; both ignore a request the transition table refuses.     *)
(***************************************************************************)

ThreadState == {"Uninitialized", "Initialized", "Running", "Paused",
                "Terminating", "Terminated", "Destroyed"}

(* The table of _isValidThreadStateTransition, one entry per switch label. *)
Successors ==
  [Uninitialized |-> {"Initialized", "Terminating"},
   Initialized   |-> {"Running", "Terminating"},
   Running       |-> {"Paused", "Terminating"},
   Paused        |-> {"Running", "Terminating"},
   Terminating   |-> {"Terminated"},
   Terminated    |-> {"Uninitialized"},
   Destroyed     |-> {}]

IsValidTransition(old, new) ==
  /\ old # new
  /\ new = "Destroyed" \/ new \in Successors[old]

(* The state after SetThreadState(new), for a Thread found in state old.   *)
AfterSet(old, new) == IF IsValidTransition(old, new) THEN new ELSE old

(* The state after TrySetThreadState(expected, new).                       *)
AfterTrySet(old, expected, new) ==
  IF old = expected THEN AfterSet(old, new) ELSE old

(* States in which Terminate() requests termination.                       *)
Terminable == {"Uninitialized", "Initialized", "Running", "Paused"}

(* States in which the worker's loop returns.                              *)
Ending == {"Terminating", "Terminated", "Destroyed"}
=============================================================================
