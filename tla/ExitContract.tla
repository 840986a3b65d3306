---------------------------- MODULE ExitContract ----------------------------
(***************************************************************************)
(* What the library promises about the end of a Thread that nobody         *)
(* releases before it: its worker stops, its exit is announced once and no *)
(* more, and the Thread is reclaimed only when its dispatch is over.       *)
(***************************************************************************)
EXTENDS Naturals

CONSTANT Threads

VARIABLES
  stage,         \* stage[th]: "active", "stopped", "announced", "over" or
                 \* "reclaimed"
  announcements  \* announcements[th]: how often the exit was announced

vars == <<stage, announcements>>

Init == /\ stage = [th \in Threads |-> "active"]
        /\ announcements = [th \in Threads |-> 0]

Move(th, from, to) == stage[th] = from /\ stage' = [stage EXCEPT ![th] = to]

Announce(th) ==
  /\ Move(th, "stopped", "announced")
  /\ announcements' = [announcements EXCEPT ![th] = @ + 1]

Go(th, from, to) == Move(th, from, to) /\ UNCHANGED announcements

Next == \E th \in Threads :
  \/ Go(th, "active", "stopped")
  \/ Announce(th)
  \/ Go(th, "announced", "over")
  \/ Go(th, "over", "reclaimed")

Spec == Init /\ [][Next]_vars
=============================================================================
