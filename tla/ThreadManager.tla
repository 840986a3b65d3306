---------------------------- MODULE ThreadManager ----------------------------
(***************************************************************************)
(* The process-wide ThreadManager: the registry of Threads, the iterations *)
(* that pin what they visit, the automatic cleanup pass that claims,       *)
(* unregisters and deletes terminated Threads, and the ownership claim it  *)
(* shares with Shutdown and SetFreeOnTerminate.                            *)
(*                                                                         *)
(* A caller is any activity that calls the manager.  The manager knows no  *)
(* caller, so a call nested in an iteration's callback is the call of      *)
(* another caller here.  A Thread's own lifecycle (module Thread) shows    *)
(* only as Terminated or not.  IDs and cores are in ThreadRegistry.        *)
(***************************************************************************)
EXTENDS Naturals, FiniteSets

CONSTANTS
  Threads,    \* Thread objects; one is constructed and deleted at most once
  Callers,    \* activities that call the manager or a Thread
  NoCaller,   \* holder of a free mutex
  Calls,      \* Calls[c]: the operations caller c may call
  MaxCalls,   \* bound: operations each caller performs
  Faults,     \* "throw": an IThread method throws during a cleanup pass
  Reentrant   \* Threads whose overridden methods iterate the manager

Operations == {"ForEachThread", "WithThread", "CleanUp", "RemoveThread",
               "Release", "Keep", "Shutdown"}
Claims == {"Available", "Manual", "Automatic"}

ASSUME CallersAssumption == IsFiniteSet(Callers) /\ NoCaller \notin Callers
ASSUME CallsAssumption == Calls \in [Callers -> SUBSET Operations]
ASSUME BoundsAssumption == MaxCalls \in Nat

VARIABLES
  registry,          \* the Threads in _threads
  iterationMutex,    \* holder of _iterationMutex
  activeIterations,  \* _activeIterations
  cleanupPending,    \* _cleanupPending
  lifetime,          \* lifetime[th]: "absent", "live", and then "reclaimed"
                     \* by a pass or "disposed" of by its owner
  deletions,         \* history: how often th has been deleted
  terminated,        \* terminated[th]: the state is Terminated
  free,              \* free[th]: _freeOnTerminate
  claim,             \* claim[th]: _cleanupClaim
  pc, op, calls,     \* each caller: next step, operation, calls made
  target,            \* the Thread an operation on one Thread is about
  snapshot,          \* the Threads an iteration or a pass has still to visit
  claimed            \* the Threads a pass has claimed and not yet deleted

managerVars == <<registry, iterationMutex, activeIterations, cleanupPending>>
lifeVars == <<lifetime, deletions>>
threadVars == <<lifeVars, terminated, free, claim>>
callVars == <<op, calls, target>>
listVars == <<snapshot, claimed>>
vars == <<managerVars, threadVars, pc, callVars, listVars>>

Labels == {"idle", "begin", "copy", "visit", "end",
           "cleanUp", "collect", "examine", "compare", "delete",
           "unregister", "storePolicy", "movePolicy", "shutdownClaim"}

Iterating == {"copy", "visit", "end"}           \* counted in activeIterations
Cleaning == {"collect", "examine", "compare"}   \* holds the mutex

Live == {th \in Threads : lifetime[th] = "live"}

TypeOK ==
  /\ registry \subseteq Threads
  /\ iterationMutex \in Callers \cup {NoCaller}
  /\ activeIterations \in Nat
  /\ cleanupPending \in BOOLEAN
  /\ lifetime \in [Threads -> {"absent", "live", "reclaimed", "disposed"}]
  /\ deletions \in [Threads -> Nat]
  /\ terminated \in [Threads -> BOOLEAN]
  /\ free \in [Threads -> BOOLEAN]
  /\ claim \in [Threads -> Claims]
  /\ pc \in [Callers -> Labels]
  /\ op \in [Callers -> Operations]
  /\ calls \in [Callers -> 0 .. MaxCalls]
  /\ target \in [Callers -> SUBSET Threads]
  /\ snapshot \in [Callers -> SUBSET Threads]
  /\ claimed \in [Callers -> SUBSET Threads]

Init ==
  /\ registry = {}
  /\ iterationMutex = NoCaller /\ activeIterations = 0 /\ cleanupPending = FALSE
  /\ lifetime = [th \in Threads |-> "absent"] /\ deletions = [th \in Threads |-> 0]
  /\ terminated = [th \in Threads |-> FALSE]
  /\ free = [th \in Threads |-> FALSE]
  /\ claim = [th \in Threads |-> "Available"]
  /\ pc = [c \in Callers |-> "idle"]
  /\ op = [c \in Callers |-> "CleanUp"]
  /\ calls = [c \in Callers |-> 0]
  /\ target = [c \in Callers |-> {}]
  /\ snapshot = [c \in Callers |-> {}]
  /\ claimed = [c \in Callers |-> {}]

-----------------------------------------------------------------------------
At(c, from) == pc[c] = from
Goto(c, to) == pc' = [pc EXCEPT ![c] = to]
Step(c, from, to) == At(c, from) /\ Goto(c, to)
MutexFree == iterationMutex = NoCaller

FirstStep ==
  [ForEachThread |-> "begin", WithThread |-> "begin", CleanUp |-> "cleanUp",
   RemoveThread |-> "unregister", Release |-> "storePolicy", Keep |-> "storePolicy",
   Shutdown |-> "shutdownClaim"]
OnOneThread == {"RemoveThread", "Release", "Keep", "Shutdown"}

(* A call on one Thread is about one the caller may use: application code  *)
(* must not touch a Thread once automatic cleanup has claimed it.          *)
Begin(c, o) ==
  /\ calls[c] < MaxCalls /\ o \in Calls[c]
  /\ Step(c, "idle", FirstStep[o])
  /\ op' = [op EXCEPT ![c] = o]
  /\ calls' = [calls EXCEPT ![c] = @ + 1]
  /\ \/ o \in OnOneThread /\ \E th \in Live : /\ claim[th] # "Automatic"
                                              /\ target' = [target EXCEPT ![c] = {th}]
     \/ o \notin OnOneThread /\ UNCHANGED target
  /\ UNCHANGED <<managerVars, threadVars, listVars>>

-----------------------------------------------------------------------------
(* ForEachThread, WithThread and Initialize hold an IterationGuard.        *)
BeginIteration(c) ==
  /\ MutexFree
  /\ Step(c, "begin", "copy")
  /\ activeIterations' = activeIterations + 1
  /\ UNCHANGED <<registry, iterationMutex, cleanupPending, threadVars, callVars, listVars>>

(* Mutant: a lookup that finds nothing still calls back. *)
CopyUnchecked(c) ==
  /\ Step(c, "copy", "visit")
  /\ snapshot' = [snapshot EXCEPT ![c] = IF op[c] = "WithThread" THEN {"null"} ELSE registry]
  /\ UNCHANGED <<managerVars, threadVars, callVars, claimed>>

(* Under the registry's read lock: every Thread, or the one with an ID.    *)
Copy(c) ==
  /\ Step(c, "copy", "visit")
  /\ \/ op[c] # "WithThread" /\ snapshot' = [snapshot EXCEPT ![c] = registry]
     \/ op[c] = "WithThread" /\ \E S \in SUBSET registry :
          Cardinality(S) <= 1 /\ snapshot' = [snapshot EXCEPT ![c] = S]
  /\ UNCHANGED <<managerVars, threadVars, callVars, claimed>>

(* The callback on one Thread returns; or the traversal is over, or the    *)
(* callback threw, and the guard's destructor runs.                        *)
Visit(c) ==
  /\ \/ /\ \E th \in snapshot[c] : snapshot' = [snapshot EXCEPT ![c] = @ \ {th}]
        /\ Step(c, "visit", "visit")
     \/ /\ snapshot' = [snapshot EXCEPT ![c] = {}]
        /\ Step(c, "visit", "end")
  /\ UNCHANGED <<managerVars, threadVars, callVars, claimed>>

(* The last iteration to end runs the cleanup that was deferred.           *)
OneFewer(n) == IF n > 0 THEN n - 1 ELSE n
(* Mutant: the deferred cleanup is forgotten. *)
DeferredForgotten == FALSE
RunsDeferredCleanup == OneFewer(activeIterations) = 0 /\ cleanupPending
(* Mutant: the deferred cleanup runs with the mutex still held. *)
EndIterationLocked(c) ==
  /\ MutexFree
  /\ activeIterations' = OneFewer(activeIterations)
  /\ \/ /\ RunsDeferredCleanup /\ cleanupPending' = FALSE /\ Step(c, "end", "cleanUp")
        /\ iterationMutex' = c
     \/ /\ ~RunsDeferredCleanup /\ Step(c, "end", "idle")
        /\ UNCHANGED <<cleanupPending, iterationMutex>>
  /\ UNCHANGED <<registry, threadVars, callVars, listVars>>

EndIteration(c) ==
  /\ MutexFree
  /\ activeIterations' = OneFewer(activeIterations)
  /\ \/ RunsDeferredCleanup /\ cleanupPending' = FALSE /\ Step(c, "end", "cleanUp")
     \/ ~RunsDeferredCleanup /\ UNCHANGED cleanupPending /\ Step(c, "end", "idle")
  /\ UNCHANGED <<registry, iterationMutex, threadVars, callVars, listVars>>

-----------------------------------------------------------------------------
(* CleanUpWithResult.                                                      *)
(* Mutant: a pass does not mind the iterations in progress. *)
CleansUpAnyway == TRUE
MayCleanUp == activeIterations = 0

DeferCleanUp(c) ==
  /\ MutexFree /\ ~MayCleanUp
  /\ Step(c, "cleanUp", "idle")
  /\ cleanupPending' = TRUE
  /\ UNCHANGED <<registry, iterationMutex, activeIterations, threadVars, callVars, listVars>>

BeginCleanUp(c) ==
  /\ MutexFree /\ MayCleanUp
  /\ Step(c, "cleanUp", "collect")
  /\ iterationMutex' = c
  /\ UNCHANGED <<registry, activeIterations, cleanupPending, threadVars, callVars, listVars>>

Collect(c) ==
  /\ Step(c, "collect", "examine")
  /\ snapshot' = [snapshot EXCEPT ![c] = registry]
  /\ claimed' = [claimed EXCEPT ![c] = {}]
  /\ UNCHANGED <<managerVars, threadVars, callVars>>

(* The pass looks at one Thread through its virtual methods; one that is   *)
(* terminated and released on termination goes on to the claim.  A method  *)
(* that iterates the manager needs the iteration mutex to do so.  What an  *)
(* owner has deleted since the list was made answers from freed memory:    *)
(* either way.                                                             *)
Eligible(th) == terminated[th] /\ free[th]
Examine(c) ==
  \E th \in snapshot[c] :
    /\ th \in Reentrant => MutexFree
    /\ snapshot' = [snapshot EXCEPT ![c] = @ \ {th}]
    /\ \/ /\ th \in Live => Eligible(th)
          /\ Step(c, "examine", "compare")
          /\ target' = [target EXCEPT ![c] = {th}]
       \/ /\ th \in Live => ~Eligible(th)
          /\ Step(c, "examine", "examine") /\ UNCHANGED target
    /\ UNCHANGED <<managerVars, threadVars, op, calls, claimed>>

(* The compare-exchange of TryClaimAutomaticCleanup.                       *)
(* Mutant: the claim is a store, not a compare-exchange. *)
ClaimsAnyway(th) == TRUE
MayClaim(th) == claim[th] = "Available"
CompareClaim(c) ==
  /\ Step(c, "compare", "examine")
  /\ \E th \in target[c] :
       \/ /\ th \in Live /\ MayClaim(th)
          /\ claim' = [claim EXCEPT ![th] = "Automatic"]
          /\ claimed' = [claimed EXCEPT ![c] = @ \cup {th}]
       \/ th \notin Live /\ claimed' = [claimed EXCEPT ![c] = @ \cup {th}] /\ UNCHANGED claim
       \/ (th \in Live => ~MayClaim(th)) /\ UNCHANGED <<claim, claimed>>
  /\ target' = [target EXCEPT ![c] = {}]
  /\ UNCHANGED <<managerVars, lifeVars, terminated, free, op, calls, snapshot>>

(* An exception releases the mutex and forgets what was claimed.           *)
CleanUpThrows(c) ==
  /\ "throw" \in Faults
  /\ Step(c, "examine", "idle")
  /\ iterationMutex' = NoCaller
  /\ claimed' = [claimed EXCEPT ![c] = {}]
  /\ snapshot' = [snapshot EXCEPT ![c] = {}]
  /\ UNCHANGED <<registry, activeIterations, cleanupPending, threadVars, callVars>>

(* Only what is still registered is removed, and only that is deleted.     *)
(* Mutant: what is claimed stays registered until it is deleted. *)
StillListed(S) == registry
Unregistered(S) == registry \ S

(* Mutant: looks for the records after it erased them. *)
ErasedFirst(S) == S \cap Unregistered(S)
(* Mutant: deletes what it claimed without looking for the records. *)
AllClaimed(S) == S
StillRegistered(S) == S \cap registry

Remove(c) ==
  /\ snapshot[c] = {}
  /\ Step(c, "examine", "delete")
  /\ claimed' = [claimed EXCEPT ![c] = StillRegistered(@)]
  /\ registry' = Unregistered(claimed[c])
  /\ iterationMutex' = NoCaller
  /\ UNCHANGED <<activeIterations, cleanupPending, threadVars, callVars, snapshot>>

(* Mutant: the destructor leaves the record behind. *)
RecordLeft(th) == registry
(* _removeRegistration, in the destructor.                                 *)
WithoutRegistration(th) == registry \ {th}

(* delete runs the destructor, which removes any registration left.        *)
Deleted(th, end) ==
  /\ lifetime' = [lifetime EXCEPT ![th] = end]
  /\ deletions' = [deletions EXCEPT ![th] = @ + 1]
  /\ free' = [free EXCEPT ![th] = FALSE]
  /\ registry' = WithoutRegistration(th)

Delete(c) ==
  /\ Step(c, "delete", "delete")
  /\ \E th \in claimed[c] :
       /\ Deleted(th, "reclaimed")
       /\ claimed' = [claimed EXCEPT ![c] = @ \ {th}]
  /\ UNCHANGED <<iterationMutex, activeIterations, cleanupPending, terminated, claim,
                 callVars, snapshot>>

EndCleanUp(c) ==
  /\ claimed[c] = {}
  /\ Step(c, "delete", "idle")
  /\ UNCHANGED <<managerVars, threadVars, callVars, listVars>>

-----------------------------------------------------------------------------
(* RemoveThread takes a Thread out of the registry without deleting it.    *)
RemoveThread(c) ==
  /\ Step(c, "unregister", "idle")
  /\ registry' = registry \ target[c]
  /\ target' = [target EXCEPT ![c] = {}]
  /\ UNCHANGED <<iterationMutex, activeIterations, cleanupPending, threadVars, op, calls, listVars>>

(* SetFreeOnTerminate stores the flag and then moves the claim to match.   *)
StorePolicy(c) ==
  /\ Step(c, "storePolicy", "movePolicy")
  /\ \E th \in target[c] : free' = [free EXCEPT ![th] = (op[c] = "Release")]
  /\ UNCHANGED <<managerVars, lifeVars, terminated, claim, callVars, listVars>>

(* Mutant: the claim is overwritten. *)
Overwritten(from, to, th) == [claim EXCEPT ![th] = to]
Moved(from, to, th) == IF claim[th] = from THEN [claim EXCEPT ![th] = to] ELSE claim

MovePolicy(c) ==
  /\ Step(c, "movePolicy", "idle")
  /\ \E th \in target[c] :
       claim' = IF op[c] = "Release" THEN Moved("Manual", "Available", th)
                                     ELSE Moved("Available", "Manual", th)
  /\ target' = [target EXCEPT ![c] = {}]
  /\ UNCHANGED <<managerVars, lifeVars, terminated, free, op, calls, listVars>>

(* Mutant: Shutdown forgets to clear the release flag. *)
ShutdownClaimOnly(c) ==
  /\ Step(c, "shutdownClaim", "idle")
  /\ \E th \in target[c] : claim' = Moved("Available", "Manual", th)
  /\ target' = [target EXCEPT ![c] = {}]
  /\ UNCHANGED <<managerVars, lifeVars, terminated, free, op, calls, listVars>>

(* Shutdown claims manual ownership before it calls SetFreeOnTerminate.    *)
ShutdownClaim(c) ==
  /\ Step(c, "shutdownClaim", "storePolicy")
  /\ \E th \in target[c] : claim' = Moved("Available", "Manual", th)
  /\ UNCHANGED <<managerVars, lifeVars, terminated, free, callVars, listVars>>

CallerStep(c) ==
  \/ BeginIteration(c) \/ Copy(c) \/ Visit(c) \/ EndIteration(c)
  \/ DeferCleanUp(c) \/ BeginCleanUp(c) \/ Collect(c) \/ Examine(c) \/ CompareClaim(c)
  \/ CleanUpThrows(c) \/ Remove(c) \/ Delete(c) \/ EndCleanUp(c)
  \/ RemoveThread(c) \/ StorePolicy(c) \/ MovePolicy(c) \/ ShutdownClaim(c)

-----------------------------------------------------------------------------
(* What happens to the Threads themselves.                                 *)
Construct(th) ==
  /\ lifetime[th] = "absent"
  /\ lifetime' = [lifetime EXCEPT ![th] = "live"]
  /\ registry' = registry \cup {th}
  /\ UNCHANGED <<deletions, iterationMutex, activeIterations, cleanupPending, terminated, free, claim,
                 pc, callVars, listVars>>

Terminate(th) ==
  /\ lifetime[th] = "live" /\ ~terminated[th]
  /\ terminated' = [terminated EXCEPT ![th] = TRUE]
  /\ UNCHANGED <<managerVars, lifeVars, free, claim, pc, callVars, listVars>>

(* Initialize() of a terminated Thread.  A released one must not be used   *)
(* again: it may be reclaimed at any time.                                 *)
Reuse(th) ==
  /\ lifetime[th] = "live" /\ terminated[th] /\ ~free[th] /\ claim[th] = "Manual"
  /\ terminated' = [terminated EXCEPT ![th] = FALSE]
  /\ UNCHANGED <<managerVars, lifeVars, free, claim, pc, callVars, listVars>>

(* The owner of a terminated Thread deletes it after Shutdown returned:    *)
(* while no call of the application's works on it and, as documented, no   *)
(* iteration runs.  Nothing keeps it away from a cleanup pass.             *)
OwnerMayDelete(th) ==
  /\ terminated[th] /\ claim[th] = "Manual"
  /\ activeIterations = 0
  /\ \A c \in Callers : pc[c] # "compare" => th \notin target[c]

OwnerDelete(th) ==
  /\ lifetime[th] = "live" /\ OwnerMayDelete(th)
  /\ Deleted(th, "disposed")
  /\ UNCHANGED <<iterationMutex, activeIterations, cleanupPending, terminated, claim,
                 pc, callVars, listVars>>

ThreadStep(th) == Construct(th) \/ Terminate(th) \/ Reuse(th) \/ OwnerDelete(th)

(* Every call has returned.                                                *)
Quiet == (\A c \in Callers : pc[c] = "idle") /\ UNCHANGED vars

Next ==
  \/ \E c \in Callers : (\E o \in Operations : Begin(c, o)) \/ CallerStep(c)
  \/ \E th \in Threads : ThreadStep(th)
  \/ Quiet

Spec == Init /\ [][Next]_vars

(* A call in progress keeps going whenever it can.  The iteration mutex is *)
(* a platform mutex that wakes its waiters in turn, so a caller waiting    *)
(* for it gets it in the end; Threads and owners need not do anything.     *)
FairSpec == Spec /\ \A c \in Callers : SF_vars(CallerStep(c))

-----------------------------------------------------------------------------
(* A Thread an iteration has still to visit exists: neither a cleanup pass *)
(* that began before the iteration nor one that came during it deletes it. *)
PinnedAlive == \A c \in Callers : pc[c] \in Iterating => snapshot[c] \subseteq Live

Examined(c) ==
  IF pc[c] \in Cleaning THEN snapshot[c] \cup (IF pc[c] = "compare" THEN target[c] ELSE {}) ELSE {}

(* A Thread a cleanup pass has still to examine, or is about to claim, has *)
(* not been reclaimed: a pass that begins between another's unregistering  *)
(* and its deleting does not find what the other is about to delete.       *)
ExaminedNotReclaimed ==
  \A c \in Callers : \A th \in Examined(c) : lifetime[th] # "reclaimed"

(* Nor has its owner deleted it: an owner that Shutdown has told it may    *)
(* destroy the Thread does so while a pass has it on its list.             *)
ExaminedAlive == \A c \in Callers : Examined(c) \subseteq Live

(* A pass deletes only what it alone claimed and what still exists, even   *)
(* if an owner deleted some of what it examined in the meantime.           *)
ReclaimedOnce ==
  \A c \in Callers : \A th \in claimed[c] :
    pc[c] = "delete" =>
      /\ th \in Live /\ claim[th] = "Automatic"
      /\ \A d \in Callers \ {c} : th \notin claimed[d]

(* The registry never holds a Thread that has been deleted.                *)
RegisteredAlive == registry \subseteq Live

(* A deferred cleanup always has an iteration left that will run it.       *)
PendingHasIteration == cleanupPending => \E c \in Callers : pc[c] \in Iterating

(* Once Shutdown has claimed a Thread only the application offering it     *)
(* again gives it back: no pass deletes a manually owned Thread.           *)
ManualOwnershipWins ==
  [][\A th \in Threads : claim[th] = "Manual" /\ claim'[th] # "Manual"
        => \E c \in Callers : pc[c] = "movePolicy" /\ op[c] = "Release"]_vars

(* With no policy call in progress the flag and the claim agree, so a      *)
(* Thread set to be released can be claimed, and one set to be kept was    *)
(* never offered since.                                                    *)
PolicySettled ==
  \A th \in Live :
    (\A c \in Callers : th \notin target[c]) => (free[th] => claim[th] # "Manual")

Reclaimable(th) == th \in registry /\ Eligible(th) /\ claim[th] = "Available"

(* A cleanup deferred by an iteration is not forgotten: a Thread that was  *)
(* reclaimable then does not stay so.                                      *)
DeferredCleanUpRuns ==
  \A th \in Threads : cleanupPending /\ Reclaimable(th) ~> ~Reclaimable(th)

(* An automatic claim on a Thread that still exists belongs to a pass that *)
(* will delete it: no claim is left behind that keeps every later pass and *)
(* the owner away.                                                         *)
NoOrphanClaim ==
  \A th \in Live : claim[th] = "Automatic" => \E c \in Callers : th \in claimed[c]

(* A cleanup that was asked for ends, deferred or done.                    *)
CleanUpEnds == \A c \in Callers : pc[c] \in Cleaning \cup {"cleanUp"} ~> pc[c] = "idle"

-----------------------------------------------------------------------------
(* What an iteration pins: see SafeReclamation.                            *)
pins == [c \in Callers |-> IF pc[c] \in Iterating THEN snapshot[c] ELSE {}]

Reclamation == INSTANCE SafeReclamation WITH pins <- pins, lifetime <- lifetime,
                                             deletions <- deletions, claim <- claim

(* No deletion takes a Thread an iteration has pinned or one that was      *)
(* deleted before; a pass deletes only what an automatic claim gave it and *)
(* an owner only what is its own.                                          *)
ImplementsReclamation == Reclamation!Spec
=============================================================================
