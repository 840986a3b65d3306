------------------------------ MODULE ThreadMC ------------------------------
(* Small instances of Thread: who may call what.                           *)
EXTENDS Thread, TLC

CONSTANTS owner, other, third

(* The documented discipline: one owner initialises, shuts down and        *)
(* destroys; other tasks may pause or terminate.                           *)
OwnedCalls ==
  owner :> {"Initialize", "Start", "Shutdown", "Destroy"} @@ other :> {"Pause", "Terminate"}
OwnedCallsOfThree == OwnedCalls @@ third :> {"Pause", "Terminate"}

(* Two tasks that both initialise, one directly and one by starting, while *)
(* the first may also shut the Thread down.                                *)
AnyCalls == owner :> {"Initialize", "Shutdown"} @@ other :> {"Start"}

TwoInitializers == [c \in {owner, other} |-> {"Initialize"}]
TwoShutdowns == owner :> {"Initialize", "Shutdown"} @@ other :> {"Shutdown"}
RacingShutdown == owner :> {"Initialize"} @@ other :> {"Shutdown"}
=============================================================================
