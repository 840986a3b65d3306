--------------------------- MODULE ThreadContract ---------------------------
(***************************************************************************)
(* What an ESPressio Thread promises about the native task behind it,      *)
(* without saying how: tasks come one after the other, each starts behind  *)
(* a gate, runs, stops and is deleted, and its end is announced before the *)
(* next one is created.                                                    *)
(***************************************************************************)
VARIABLES
  task,  \* the current native task
  owed   \* its end has not been fully announced yet

Init == task = "none" /\ owed = FALSE

Create   == task = "none" /\ ~owed /\ task' = "gated" /\ UNCHANGED owed
Open     == task = "gated" /\ task' = "running" /\ UNCHANGED owed
(* Initialisation failed: the task is deleted before it ever ran.          *)
Discard  == task = "gated" /\ task' = "none" /\ owed' = TRUE
Stop     == task = "running" /\ task' = "stopped" /\ owed' = TRUE
Delete   == task = "stopped" /\ task' = "none" /\ UNCHANGED owed
Announce == task = "none" /\ owed /\ owed' = FALSE /\ UNCHANGED task

Next == Create \/ Open \/ Discard \/ Stop \/ Delete \/ Announce

vars == <<task, owed>>
Spec == Init /\ [][Next]_vars
=============================================================================
