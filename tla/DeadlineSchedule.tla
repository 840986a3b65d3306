-------------------------- MODULE DeadlineSchedule --------------------------
(***************************************************************************)
(* What PrecisionThread promises about its schedule: deadlines lie a whole *)
(* number of periods after an anchor, an iteration begins at a reading of  *)
(* the clock at or after the next one, it is told how many deadlines       *)
(* passed without it, and the next deadline is the first one still ahead.  *)
(***************************************************************************)
EXTENDS Naturals, FiniteSets, FiniteSetsExt

CONSTANT Top        \* the last time the representation has
Times == 0 .. Top
Idle == Top + 1     \* no iteration in progress

VARIABLES
  clock,    \* the present
  period,   \* distance of two deadlines, 0 for none
  armed,    \* the anchor has been set
  next,     \* the next deadline
  begun,    \* the reading of the clock the iteration in progress began at
  skipped   \* the deadlines it was told it missed

vars == <<clock, period, armed, next, begun, skipped>>

Init ==
  /\ clock \in Times /\ period \in Times /\ armed = FALSE
  /\ next = 0 /\ begun = Idle /\ skipped = 0

(* The next deadline as someone sees it who reads t: t is the first anchor. *)
Anchor(t) == IF armed THEN next ELSE t
Deadlines(n) == Times \cap {n + k * period : k \in Times}
Passed(n, t) == {d \in Deadlines(n) : d <= t}
Ahead(n, t) == Deadlines(n) \ Passed(n, t)

Begin(t) ==
  /\ begun = Idle /\ begun' = t /\ armed' = TRUE
  /\ LET n == Anchor(t) IN
       \/ period = 0 /\ next' = n /\ skipped' = 0
       \/ /\ period > 0 /\ n <= t
          /\ skipped' = Cardinality(Passed(n, t)) - 1
          /\ next' = IF Ahead(n, t) = {} THEN Top ELSE Min(Ahead(n, t))
  /\ UNCHANGED <<clock, period>>

Look(t) ==
  /\ begun = Idle /\ armed' = TRUE /\ next' = Anchor(t)
  /\ UNCHANGED <<clock, period, begun, skipped>>

End ==
  /\ begun # Idle /\ begun' = Idle /\ skipped' = 0
  /\ UNCHANGED <<clock, period, armed, next>>

(* The deadlines start again, at a given time or at the next look.         *)
Restart(t) ==
  /\ \/ armed' = TRUE /\ next' = t /\ UNCHANGED period
     \/ armed' = FALSE /\ next' \in {next, 0} /\ period' \in Times
  /\ UNCHANGED <<clock, begun, skipped>>

Tick == clock' \in clock .. Top /\ UNCHANGED <<period, armed, next, begun, skipped>>

Next == End \/ Tick \/ \E t \in 0 .. clock : Begin(t) \/ Look(t) \/ Restart(t)

Spec == Init /\ [][Next]_vars
=============================================================================
