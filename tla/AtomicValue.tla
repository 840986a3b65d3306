----------------------------- MODULE AtomicValue -----------------------------
(***************************************************************************)
(* What a thread-safe value promises: reads, assignments and updates take  *)
(* effect one at a time, and the change that is reported to OnChange is    *)
(* the one the assignment made.                                            *)
(***************************************************************************)
CONSTANTS Callers, Values, Succ(_), Nothing

VARIABLES
  value,   \* the value
  seen,    \* seen[c]: what the read in progress of caller c found
  change   \* change[c]: the old and new value c has still to report

vars == <<value, seen, change>>

Init ==
  /\ value \in Values
  /\ seen = [c \in Callers |-> Nothing] /\ change = [c \in Callers |-> Nothing]

Read(c)   == seen[c] = Nothing /\ seen' = [seen EXCEPT ![c] = value]
             /\ UNCHANGED <<value, change>>
Return(c) == seen' = [seen EXCEPT ![c] = Nothing] /\ UNCHANGED <<value, change>>

Set(c, new) ==
  /\ change[c] = Nothing /\ new # value
  /\ value' = new /\ change' = [change EXCEPT ![c] = <<value, new>>]
  /\ UNCHANGED seen

Update == value' = Succ(value) /\ UNCHANGED <<seen, change>>

Report(c) == change' = [change EXCEPT ![c] = Nothing] /\ UNCHANGED <<value, seen>>

Next ==
  \/ Update
  \/ \E c \in Callers : Read(c) \/ Return(c) \/ Report(c) \/ \E v \in Values : Set(c, v)

Spec == Init /\ [][Next]_vars
=============================================================================
