-------------------------- MODULE SafeReclamation --------------------------
(***************************************************************************)
(* What the ThreadManager promises about deletion.  An iteration pins      *)
(* Threads that exist, and a pinned Thread is not deleted, by anyone,      *)
(* until every iteration has let go of it.  Who deletes a Thread is        *)
(* settled before, by its claim: manual, and its owner disposes of it, or  *)
(* automatic, and a pass reclaims it.  Either does so once.                *)
(***************************************************************************)
EXTENDS Naturals

CONSTANTS Threads, Callers

VARIABLES
  lifetime,   \* lifetime[th]: "absent", "live", "reclaimed" or "disposed"
  deletions,  \* deletions[th]: how often th has been deleted
  claim,      \* claim[th]: "Available", "Manual" or "Automatic"
  pins        \* pins[c]: the Threads c's iteration has still to visit

vars == <<lifetime, deletions, claim, pins>>

Init ==
  /\ lifetime = [th \in Threads |-> "absent"]
  /\ deletions = [th \in Threads |-> 0]
  /\ claim = [th \in Threads |-> "Available"]
  /\ pins = [c \in Callers |-> {}]

Construct(th) ==
  /\ lifetime[th] = "absent"
  /\ lifetime' = [lifetime EXCEPT ![th] = "live"]
  /\ UNCHANGED <<deletions, claim, pins>>

Pin(c) ==
  /\ pins[c] = {}
  /\ \E S \in SUBSET {th \in Threads : lifetime[th] = "live"} :
       pins' = [pins EXCEPT ![c] = S]
  /\ UNCHANGED <<lifetime, deletions, claim>>

Unpin(c) ==
  /\ \E S \in SUBSET pins[c] : pins' = [pins EXCEPT ![c] = S]
  /\ UNCHANGED <<lifetime, deletions, claim>>

(* An offered Thread is claimed, by a pass or back by its owner; an        *)
(* automatic claim is for good.                                            *)
Claim(th) ==
  /\ lifetime[th] = "live" /\ claim[th] # "Automatic"
  /\ \E new \in IF claim[th] = "Manual" THEN {"Available"} ELSE {"Manual", "Automatic"} :
       claim' = [claim EXCEPT ![th] = new]
  /\ UNCHANGED <<lifetime, deletions, pins>>

End(th, whose, end) ==
  /\ lifetime[th] = "live" /\ claim[th] = whose
  /\ \A c \in Callers : th \notin pins[c]
  /\ lifetime' = [lifetime EXCEPT ![th] = end]
  /\ deletions' = [deletions EXCEPT ![th] = @ + 1]
  /\ UNCHANGED <<claim, pins>>

Reclaim(th) == End(th, "Automatic", "reclaimed")
Dispose(th) == End(th, "Manual", "disposed")

Next ==
  \/ \E th \in Threads : Construct(th) \/ Claim(th) \/ Reclaim(th) \/ Dispose(th)
  \/ \E c \in Callers : Pin(c) \/ Unpin(c)

Spec == Init /\ [][Next]_vars
=============================================================================
