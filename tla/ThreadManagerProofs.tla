------------------------- MODULE ThreadManagerProofs -------------------------
(***************************************************************************)
(* Proofs about ThreadManager, for every set of Threads, every finite set  *)
(* of callers and every assignment of operations to them, whatever owners  *)
(* delete during a pass and whether IThread methods throw or re-enter.     *)
(***************************************************************************)
EXTENDS ThreadManager, FiniteSetTheorems, TLAPS

(* The callers counted in _activeIterations.                               *)
Pinning == {c \in Callers : pc[c] \in Iterating}

(* A pass between taking and releasing the iteration mutex holds it, and   *)
(* the count it found at zero has stayed there.                            *)
PassHoldsMutex ==
  \A c \in Callers : pc[c] \in Cleaning => iterationMutex = c /\ activeIterations = 0

PinsCounted == activeIterations = Cardinality(Pinning)

(* What a pass has claimed is its own as long as it exists, and once       *)
(* unregistered it does exist and is in no registry and on no iteration's  *)
(* list.                                                                   *)
ClaimsAreExclusive ==
  \A c \in Callers : \A th \in claimed[c] \cap Live :
    /\ claim[th] = "Automatic"
    /\ \A d \in Callers \ {c} : th \notin claimed[d]

DoomedIsUnreachable ==
  \A c \in Callers : pc[c] = "delete" =>
    /\ claimed[c] \subseteq Live
    /\ claimed[c] \cap registry = {}
    /\ \A d \in Pinning : claimed[c] \cap snapshot[d] = {}

PendingIsCounted == cleanupPending => activeIterations > 0

(* A list is empty outside the loop that walks it.                         *)
ListsInUse ==
  \A c \in Callers : snapshot[c] # {} => pc[c] \in {"visit", "examine", "compare"}

(* Whatever a pass has met has been constructed.                           *)
Constructed == {th \in Threads : lifetime[th] # "absent"}
MetConstructed ==
  \A c \in Callers :
    /\ claimed[c] \subseteq Constructed
    /\ pc[c] \in Cleaning => snapshot[c] \subseteq Constructed
    /\ pc[c] = "compare" => target[c] \subseteq Constructed

(* A call on a Thread finds it there, or claimed by a pass.                *)
TargetsUsable ==
  \A c \in Callers : pc[c] \in {"unregister", "storePolicy", "movePolicy", "shutdownClaim"} =>
    \A th \in target[c] : th \in Live \/ claim[th] = "Automatic"

IInv ==
  /\ TypeOK
  /\ MetConstructed
  /\ TargetsUsable
  /\ PassHoldsMutex
  /\ PinsCounted
  /\ ClaimsAreExclusive
  /\ DoomedIsUnreachable
  /\ PendingIsCounted
  /\ ListsInUse
  /\ RegisteredAlive
  /\ PinnedAlive

-----------------------------------------------------------------------------
(* The variables keep their types: the case analysis of the other proofs   *)
(* rests on it.                                                            *)
LEMMA TypeStep == TypeOK /\ [Next]_vars => TypeOK'
<1> SUFFICES ASSUME TypeOK, [Next]_vars PROVE TypeOK'
  OBVIOUS
<1> USE DEF TypeOK, Operations, Claims, Labels, At, Goto, Step,
            managerVars, threadVars, lifeVars, callVars, listVars, Live
<1>1. ASSUME NEW c \in Callers, NEW o \in Operations, Begin(c, o) PROVE TypeOK'
  BY <1>1, CallsAssumption, BoundsAssumption DEF Begin, FirstStep, OnOneThread
<1>2. ASSUME NEW c \in Callers, CallerStep(c) PROVE TypeOK'
  <2>1. CASE BeginIteration(c) BY <2>1 DEF BeginIteration
  <2>2. CASE Copy(c) BY <2>2 DEF Copy
  <2>3. CASE Visit(c) BY <2>3 DEF Visit
  <2>4. CASE EndIteration(c)
    <3>1. activeIterations' \in Nat BY <2>4 DEF EndIteration, OneFewer
    <3>2. cleanupPending' \in BOOLEAN BY <2>4 DEF EndIteration
    <3>3. pc' \in [Callers -> Labels] BY <2>4 DEF EndIteration
    <3>4. QED BY <2>4, <3>1, <3>2, <3>3 DEF EndIteration
  <2>5. CASE DeferCleanUp(c) BY <2>5 DEF DeferCleanUp
  <2>6. CASE BeginCleanUp(c) BY <2>6 DEF BeginCleanUp
  <2>7. CASE Collect(c) BY <2>7 DEF Collect
  <2>8. CASE Examine(c) BY <2>8 DEF Examine
  <2>9. CASE CompareClaim(c) BY <2>9 DEF CompareClaim
  <2>10. CASE CleanUpThrows(c) BY <2>10 DEF CleanUpThrows
  <2>11. CASE Remove(c) BY <2>11 DEF Remove, Unregistered, StillRegistered
  <2>12. CASE Delete(c) BY <2>12 DEF Delete, Deleted, WithoutRegistration
  <2>13. CASE EndCleanUp(c) BY <2>13 DEF EndCleanUp
  <2>14. CASE RemoveThread(c) BY <2>14 DEF RemoveThread
  <2>15. CASE StorePolicy(c) BY <2>15 DEF StorePolicy
  <2>16. CASE MovePolicy(c) BY <2>16 DEF MovePolicy, Moved
  <2>17. CASE ShutdownClaim(c) BY <2>17 DEF ShutdownClaim, Moved
  <2>18. QED
    BY <1>2, <2>1, <2>2, <2>3, <2>4, <2>5, <2>6, <2>7, <2>8, <2>9, <2>10,
       <2>11, <2>12, <2>13, <2>14, <2>15, <2>16, <2>17 DEF CallerStep
<1>3. ASSUME NEW th \in Threads, ThreadStep(th) PROVE TypeOK'
  <2>1. CASE Construct(th) BY <2>1 DEF Construct
  <2>2. CASE Terminate(th) BY <2>2 DEF Terminate
  <2>3. CASE Reuse(th) BY <2>3 DEF Reuse
  <2>4. CASE OwnerDelete(th) BY <2>4 DEF OwnerDelete, Deleted, WithoutRegistration
  <2>5. QED
    BY <1>3, <2>1, <2>2, <2>3, <2>4 DEF ThreadStep
<1>4. CASE UNCHANGED vars
  BY <1>4 DEF vars
<1>5. QED
  BY <1>1, <1>2, <1>3, <1>4 DEF Next, Quiet

LEMMA TypeInit == Init => TypeOK
<1> SUFFICES ASSUME Init PROVE TypeOK
  OBVIOUS
<1>1. calls \in [Callers -> 0 .. MaxCalls]
  BY BoundsAssumption DEF Init
<1>2. QED
  BY <1>1 DEF Init, TypeOK, Operations, Claims, Labels

(* The registry, the lives and claims of Threads and every call keep their *)
(* types, for any callers, Threads and faults.                             *)
THEOREM TypeCorrect == Spec => []TypeOK
  BY TypeInit, TypeStep, PTL DEF Spec

-----------------------------------------------------------------------------
(* An empty count means nobody iterates.                                   *)
LEMMA NobodyIterates ==
  ASSUME PinsCounted, activeIterations = 0
  PROVE  Pinning = {}
<1>1. IsFiniteSet(Pinning)
  BY CallersAssumption, FS_Subset DEF Pinning
<1>2. QED
  BY <1>1, FS_EmptySet DEF PinsCounted

(* A step that takes a caller neither into nor out of an iteration, and    *)
(* leaves the count alone, keeps it right.                                 *)
LEMMA CountUnmoved ==
  ASSUME PinsCounted, UNCHANGED activeIterations, Pinning' = Pinning
  PROVE  PinsCounted'
BY DEF PinsCounted

LEMMA CountBegins ==
  ASSUME TypeOK, PinsCounted, NEW c \in Callers, BeginIteration(c)
  PROVE  PinsCounted'
<1>1. c \notin Pinning /\ Pinning' = Pinning \cup {c}
  BY DEF BeginIteration, Pinning, Iterating, Step, At, Goto, TypeOK
<1>2. IsFiniteSet(Pinning)
  BY CallersAssumption, FS_Subset DEF Pinning
<1>3. Cardinality(Pinning \cup {c}) = Cardinality(Pinning) + 1
  BY <1>1, <1>2, FS_AddElement
<1>4. QED
  BY <1>1, <1>3 DEF PinsCounted, BeginIteration

LEMMA CountEnds ==
  ASSUME TypeOK, PinsCounted, NEW c \in Callers, EndIteration(c)
  PROVE  PinsCounted' /\ activeIterations > 0
<1>1. c \in Pinning /\ Pinning' = Pinning \ {c}
  BY DEF EndIteration, Pinning, Iterating, Step, At, Goto, TypeOK
<1>2. IsFiniteSet(Pinning)
  BY CallersAssumption, FS_Subset DEF Pinning
<1>3. Cardinality(Pinning \ {c}) = Cardinality(Pinning) - 1
  BY <1>1, <1>2, FS_RemoveElement
<1>4. activeIterations > 0
  BY <1>1, NobodyIterates DEF TypeOK
<1>5. activeIterations' = activeIterations - 1
  BY <1>4 DEF EndIteration, OneFewer
<1>6. PinsCounted'
  BY <1>1, <1>3, <1>5 DEF PinsCounted
<1>7. QED
  BY <1>4, <1>6

-----------------------------------------------------------------------------
(* What a pass has met stays constructed, and what a call is about stays   *)
(* usable or claimed: an owner deletes nothing a call is about, a pass     *)
(* only what it has claimed.                                               *)
LEMMA MetStep == IInv /\ [Next]_vars => MetConstructed' /\ TargetsUsable'
<1> SUFFICES ASSUME IInv, [Next]_vars PROVE MetConstructed' /\ TargetsUsable'
  OBVIOUS
<1> USE DEF IInv, TypeOK, MetConstructed, TargetsUsable, Constructed, Step, At, Goto, Live, Cleaning,
            managerVars, threadVars, lifeVars, callVars, listVars
<1> DEFINE Kept == MetConstructed' /\ TargetsUsable'
<1>1. ASSUME NEW c \in Callers,
             BeginIteration(c) \/ Copy(c) \/ Visit(c) \/ EndIteration(c) \/ DeferCleanUp(c)
      PROVE  Kept
  BY <1>1 DEF BeginIteration, Copy, Visit, EndIteration, DeferCleanUp
<1>2. ASSUME NEW c \in Callers, BeginCleanUp(c) PROVE Kept
  BY <1>2 DEF BeginCleanUp, ListsInUse
<1>3. ASSUME NEW c \in Callers, Collect(c) PROVE Kept
  BY <1>3 DEF Collect, RegisteredAlive
<1>4. ASSUME NEW c \in Callers, Examine(c) PROVE Kept
  BY <1>4 DEF Examine
<1>5. ASSUME NEW c \in Callers, CompareClaim(c) PROVE Kept
  BY <1>5 DEF CompareClaim
<1>6. ASSUME NEW c \in Callers, CleanUpThrows(c) \/ Remove(c) \/ EndCleanUp(c) PROVE Kept
  BY <1>6 DEF CleanUpThrows, Remove, StillRegistered, EndCleanUp
<1>7. ASSUME NEW c \in Callers, Delete(c) PROVE Kept
  BY <1>7 DEF Delete, Deleted, DoomedIsUnreachable, ClaimsAreExclusive
<1>8. ASSUME NEW c \in Callers, RemoveThread(c) \/ StorePolicy(c) PROVE Kept
  BY <1>8 DEF RemoveThread, StorePolicy
<1>9. ASSUME NEW c \in Callers, MovePolicy(c) PROVE Kept
  BY <1>9 DEF MovePolicy, Moved
<1>10. ASSUME NEW c \in Callers, ShutdownClaim(c) PROVE Kept
  BY <1>10 DEF ShutdownClaim, Moved
<1>11. ASSUME NEW c \in Callers, NEW o \in Operations, Begin(c, o) PROVE Kept
  BY <1>11 DEF Begin, FirstStep, Operations, OnOneThread
<1>12. ASSUME NEW th \in Threads, Construct(th) \/ Terminate(th) \/ Reuse(th) PROVE Kept
  BY <1>12 DEF Construct, Terminate, Reuse
<1>13. ASSUME NEW th \in Threads, OwnerDelete(th) PROVE Kept
  BY <1>13 DEF OwnerDelete, Deleted, OwnerMayDelete
<1>14. CASE UNCHANGED vars
  BY <1>14 DEF vars
<1>15. QED
  BY <1>1, <1>2, <1>3, <1>4, <1>5, <1>6, <1>7, <1>8, <1>9, <1>10, <1>11, <1>12, <1>13, <1>14
  DEF Next, CallerStep, ThreadStep, Quiet

(* The steps of a caller, a Thread or an owner keep the invariant.  The    *)
(* types come from TypeStep; the count is untouched by every action that   *)
(* takes no caller into or out of an iteration.                            *)
LEMMA InvariantStep == IInv /\ [Next]_vars => IInv'
<1> SUFFICES ASSUME IInv, [Next]_vars PROVE IInv'
  OBVIOUS
<1>0. TypeOK' /\ MetConstructed' /\ TargetsUsable'
  BY TypeStep, MetStep DEF IInv
<1> USE <1>0 DEF IInv, TypeOK, Step, At, Goto, Live, Cleaning, Iterating, Pinning,
                 managerVars, threadVars, lifeVars, callVars, listVars
<1>1. ASSUME NEW c \in Callers, BeginIteration(c) PROVE IInv'
  <2> USE <1>1 DEF BeginIteration
  <2>1. PinsCounted'
    BY CountBegins
  <2>2. PassHoldsMutex'
    BY CallersAssumption DEF PassHoldsMutex, MutexFree
  <2>3. DoomedIsUnreachable'
    BY DEF DoomedIsUnreachable, ListsInUse
  <2>4. PinnedAlive'
    BY DEF PinnedAlive, ListsInUse
  <2>5. ClaimsAreExclusive' /\ PendingIsCounted' /\ ListsInUse' /\ RegisteredAlive'
    BY DEF PassHoldsMutex, ClaimsAreExclusive, DoomedIsUnreachable, PendingIsCounted, ListsInUse, RegisteredAlive, PinnedAlive
  <2>6. QED
    BY <2>1, <2>2, <2>3, <2>4, <2>5
<1>2. ASSUME NEW c \in Callers, Copy(c) PROVE IInv'
  <2> USE <1>2 DEF Copy
  <2>1. PinsCounted'
    BY CountUnmoved
  <2>2. /\ PassHoldsMutex' /\ ClaimsAreExclusive' /\ DoomedIsUnreachable' /\ PendingIsCounted'
        /\ ListsInUse' /\ RegisteredAlive' /\ PinnedAlive'
    BY DEF PassHoldsMutex, ClaimsAreExclusive, DoomedIsUnreachable, PendingIsCounted, ListsInUse, RegisteredAlive, PinnedAlive
  <2>3. QED
    BY <2>1, <2>2
<1>3. ASSUME NEW c \in Callers, Visit(c) PROVE IInv'
  <2> USE <1>3 DEF Visit
  <2>1. PinsCounted'
    BY CountUnmoved
  <2>2. /\ PassHoldsMutex' /\ ClaimsAreExclusive' /\ DoomedIsUnreachable' /\ PendingIsCounted'
        /\ ListsInUse' /\ RegisteredAlive' /\ PinnedAlive'
    BY DEF PassHoldsMutex, ClaimsAreExclusive, DoomedIsUnreachable, PendingIsCounted, ListsInUse, RegisteredAlive, PinnedAlive
  <2>3. QED
    BY <2>1, <2>2
<1>4. ASSUME NEW c \in Callers, EndIteration(c) PROVE IInv'
  <2> USE <1>4 DEF EndIteration
  <2>1. PinsCounted'
    BY CountEnds
  <2>2. PassHoldsMutex'
    BY CallersAssumption DEF PassHoldsMutex, MutexFree
  <2>3. PendingIsCounted'
    <3>1. CASE RunsDeferredCleanup
      <4>1. ~cleanupPending' BY <3>1
      <4>2. QED BY <4>1 DEF PendingIsCounted
    <3>2. CASE ~RunsDeferredCleanup
      <4>1. cleanupPending' = cleanupPending BY <3>2
      <4>2. cleanupPending => activeIterations' > 0
        BY <3>2, CountEnds DEF RunsDeferredCleanup, OneFewer
      <4>3. QED BY <4>1, <4>2 DEF PendingIsCounted
    <3>3. QED BY <3>1, <3>2
  <2>4. /\ ClaimsAreExclusive' /\ DoomedIsUnreachable' /\ ListsInUse' /\ RegisteredAlive'
        /\ PinnedAlive'
    BY DEF PassHoldsMutex, ClaimsAreExclusive, DoomedIsUnreachable, PendingIsCounted, ListsInUse, RegisteredAlive, PinnedAlive
  <2>5. QED
    BY <2>1, <2>2, <2>3, <2>4
<1>5. ASSUME NEW c \in Callers, DeferCleanUp(c) PROVE IInv'
  <2> USE <1>5 DEF DeferCleanUp
  <2>1. PinsCounted'
    BY CountUnmoved
  <2>2. PendingIsCounted'
    BY DEF PendingIsCounted, MayCleanUp
  <2>3. /\ PassHoldsMutex' /\ ClaimsAreExclusive' /\ DoomedIsUnreachable' /\ ListsInUse'
        /\ RegisteredAlive' /\ PinnedAlive'
    BY DEF PassHoldsMutex, ClaimsAreExclusive, DoomedIsUnreachable, PendingIsCounted, ListsInUse, RegisteredAlive, PinnedAlive
  <2>4. QED
    BY <2>1, <2>2, <2>3
<1>6. ASSUME NEW c \in Callers, BeginCleanUp(c) PROVE IInv'
  <2> USE <1>6 DEF BeginCleanUp
  <2>1. PinsCounted'
    BY CountUnmoved
  <2>2. PassHoldsMutex'
    BY CallersAssumption DEF PassHoldsMutex, MutexFree, MayCleanUp
  <2>3. /\ ClaimsAreExclusive' /\ DoomedIsUnreachable' /\ PendingIsCounted' /\ ListsInUse'
        /\ RegisteredAlive' /\ PinnedAlive'
    BY DEF PassHoldsMutex, ClaimsAreExclusive, DoomedIsUnreachable, PendingIsCounted, ListsInUse, RegisteredAlive, PinnedAlive
  <2>4. QED
    BY <2>1, <2>2, <2>3
<1>7. ASSUME NEW c \in Callers, Collect(c) PROVE IInv'
  <2> USE <1>7 DEF Collect
  <2>1. PinsCounted'
    BY CountUnmoved
  <2>2. /\ PassHoldsMutex' /\ ClaimsAreExclusive' /\ DoomedIsUnreachable' /\ PendingIsCounted'
        /\ ListsInUse' /\ RegisteredAlive' /\ PinnedAlive'
    BY DEF PassHoldsMutex, ClaimsAreExclusive, DoomedIsUnreachable, PendingIsCounted, ListsInUse, RegisteredAlive, PinnedAlive
  <2>3. QED
    BY <2>1, <2>2
<1>8. ASSUME NEW c \in Callers, Examine(c) PROVE IInv'
  <2> USE <1>8 DEF Examine
  <2>1. PinsCounted'
    BY CountUnmoved
  <2>2. /\ PassHoldsMutex' /\ ClaimsAreExclusive' /\ DoomedIsUnreachable' /\ PendingIsCounted'
        /\ ListsInUse' /\ RegisteredAlive' /\ PinnedAlive'
    BY DEF PassHoldsMutex, ClaimsAreExclusive, DoomedIsUnreachable, PendingIsCounted, ListsInUse, RegisteredAlive, PinnedAlive
  <2>3. QED
    BY <2>1, <2>2
<1>9. ASSUME NEW c \in Callers, CompareClaim(c) PROVE IInv'
  <2> USE <1>9 DEF CompareClaim
  <2>1. PinsCounted'
    BY CountUnmoved
  <2>2. ClaimsAreExclusive'
    BY DEF ClaimsAreExclusive, MayClaim, MetConstructed, Constructed
  <2>3. /\ PassHoldsMutex' /\ DoomedIsUnreachable' /\ PendingIsCounted' /\ ListsInUse'
        /\ RegisteredAlive' /\ PinnedAlive'
    BY DEF PassHoldsMutex, ClaimsAreExclusive, DoomedIsUnreachable, PendingIsCounted, ListsInUse, RegisteredAlive, PinnedAlive
  <2>4. QED
    BY <2>1, <2>2, <2>3
<1>10. ASSUME NEW c \in Callers, CleanUpThrows(c) PROVE IInv'
  <2> USE <1>10 DEF CleanUpThrows
  <2>1. PinsCounted'
    BY CountUnmoved
  <2>2. /\ PassHoldsMutex' /\ ClaimsAreExclusive' /\ DoomedIsUnreachable' /\ PendingIsCounted'
        /\ ListsInUse' /\ RegisteredAlive' /\ PinnedAlive'
    BY DEF PassHoldsMutex, ClaimsAreExclusive, DoomedIsUnreachable, PendingIsCounted, ListsInUse, RegisteredAlive, PinnedAlive
  <2>3. QED
    BY <2>1, <2>2
<1>11. ASSUME NEW c \in Callers, Remove(c) PROVE IInv'
  <2> USE <1>11 DEF Remove, StillRegistered
  <2>1. PinsCounted'
    BY CountUnmoved
  <2>2. DoomedIsUnreachable'
    BY NobodyIterates DEF DoomedIsUnreachable, PassHoldsMutex, RegisteredAlive, Unregistered
  <2>3. RegisteredAlive'
    BY DEF RegisteredAlive, Unregistered
  <2>4. /\ PassHoldsMutex' /\ ClaimsAreExclusive' /\ PendingIsCounted' /\ ListsInUse'
        /\ PinnedAlive'
    BY DEF PassHoldsMutex, ClaimsAreExclusive, DoomedIsUnreachable, PendingIsCounted, ListsInUse, RegisteredAlive, PinnedAlive
  <2>5. QED
    BY <2>1, <2>2, <2>3, <2>4
<1>12. ASSUME NEW c \in Callers, Delete(c) PROVE IInv'
  <2> USE <1>12 DEF Delete, Deleted, WithoutRegistration
  <2>1. PinsCounted'
    BY CountUnmoved
  <2>2. /\ PassHoldsMutex' /\ ClaimsAreExclusive' /\ DoomedIsUnreachable' /\ PendingIsCounted'
        /\ ListsInUse' /\ RegisteredAlive' /\ PinnedAlive'
    BY DEF PassHoldsMutex, ClaimsAreExclusive, DoomedIsUnreachable, PendingIsCounted, ListsInUse, RegisteredAlive, PinnedAlive
  <2>3. QED
    BY <2>1, <2>2
<1>13. ASSUME NEW c \in Callers, EndCleanUp(c) PROVE IInv'
  <2> USE <1>13 DEF EndCleanUp
  <2>1. PinsCounted'
    BY CountUnmoved
  <2>2. /\ PassHoldsMutex' /\ ClaimsAreExclusive' /\ DoomedIsUnreachable' /\ PendingIsCounted'
        /\ ListsInUse' /\ RegisteredAlive' /\ PinnedAlive'
    BY DEF PassHoldsMutex, ClaimsAreExclusive, DoomedIsUnreachable, PendingIsCounted, ListsInUse, RegisteredAlive, PinnedAlive
  <2>3. QED
    BY <2>1, <2>2
<1>14. ASSUME NEW c \in Callers, RemoveThread(c) PROVE IInv'
  <2> USE <1>14 DEF RemoveThread
  <2>1. PinsCounted'
    BY CountUnmoved
  <2>2. /\ PassHoldsMutex' /\ ClaimsAreExclusive' /\ DoomedIsUnreachable' /\ PendingIsCounted'
        /\ ListsInUse' /\ RegisteredAlive' /\ PinnedAlive'
    BY DEF PassHoldsMutex, ClaimsAreExclusive, DoomedIsUnreachable, PendingIsCounted, ListsInUse, RegisteredAlive, PinnedAlive
  <2>3. QED
    BY <2>1, <2>2
<1>15. ASSUME NEW c \in Callers, StorePolicy(c) PROVE IInv'
  <2> USE <1>15 DEF StorePolicy
  <2>1. PinsCounted'
    BY CountUnmoved
  <2>2. /\ PassHoldsMutex' /\ ClaimsAreExclusive' /\ DoomedIsUnreachable' /\ PendingIsCounted'
        /\ ListsInUse' /\ RegisteredAlive' /\ PinnedAlive'
    BY DEF PassHoldsMutex, ClaimsAreExclusive, DoomedIsUnreachable, PendingIsCounted, ListsInUse, RegisteredAlive, PinnedAlive
  <2>3. QED
    BY <2>1, <2>2
<1>16. ASSUME NEW c \in Callers, MovePolicy(c) PROVE IInv'
  <2> USE <1>16 DEF MovePolicy
  <2>1. PinsCounted'
    BY CountUnmoved
  <2>2. ClaimsAreExclusive'
    BY DEF ClaimsAreExclusive, Moved
  <2>3. /\ PassHoldsMutex' /\ DoomedIsUnreachable' /\ PendingIsCounted' /\ ListsInUse'
        /\ RegisteredAlive' /\ PinnedAlive'
    BY DEF PassHoldsMutex, ClaimsAreExclusive, DoomedIsUnreachable, PendingIsCounted, ListsInUse, RegisteredAlive, PinnedAlive
  <2>4. QED
    BY <2>1, <2>2, <2>3
<1>17. ASSUME NEW c \in Callers, ShutdownClaim(c) PROVE IInv'
  <2> USE <1>17 DEF ShutdownClaim
  <2>1. PinsCounted'
    BY CountUnmoved
  <2>2. ClaimsAreExclusive'
    BY DEF ClaimsAreExclusive, Moved
  <2>3. /\ PassHoldsMutex' /\ DoomedIsUnreachable' /\ PendingIsCounted' /\ ListsInUse'
        /\ RegisteredAlive' /\ PinnedAlive'
    BY DEF PassHoldsMutex, ClaimsAreExclusive, DoomedIsUnreachable, PendingIsCounted, ListsInUse, RegisteredAlive, PinnedAlive
  <2>4. QED
    BY <2>1, <2>2, <2>3
<1>18. ASSUME NEW c \in Callers, NEW o \in Operations, Begin(c, o) PROVE IInv'
  <2> USE <1>18 DEF Begin, FirstStep, OnOneThread, Operations
  <2>1. PinsCounted'
    BY CountUnmoved
  <2>2. /\ PassHoldsMutex' /\ ClaimsAreExclusive' /\ DoomedIsUnreachable' /\ PendingIsCounted'
        /\ ListsInUse' /\ RegisteredAlive' /\ PinnedAlive'
    BY DEF PassHoldsMutex, ClaimsAreExclusive, DoomedIsUnreachable, PendingIsCounted, ListsInUse, RegisteredAlive, PinnedAlive
  <2>3. QED
    BY <2>1, <2>2
<1>19. ASSUME NEW th \in Threads, Construct(th) PROVE IInv'
  <2> USE <1>19 DEF Construct
  <2>1. PinsCounted'
    BY CountUnmoved
  <2>2. /\ PassHoldsMutex' /\ ClaimsAreExclusive' /\ DoomedIsUnreachable' /\ PendingIsCounted'
        /\ ListsInUse' /\ RegisteredAlive' /\ PinnedAlive'
    BY DEF MetConstructed, Constructed, PassHoldsMutex, ClaimsAreExclusive, DoomedIsUnreachable, PendingIsCounted, ListsInUse, RegisteredAlive, PinnedAlive
  <2>3. QED
    BY <2>1, <2>2
<1>20. ASSUME NEW th \in Threads, Terminate(th) PROVE IInv'
  <2> USE <1>20 DEF Terminate
  <2>1. PinsCounted'
    BY CountUnmoved
  <2>2. /\ PassHoldsMutex' /\ ClaimsAreExclusive' /\ DoomedIsUnreachable' /\ PendingIsCounted'
        /\ ListsInUse' /\ RegisteredAlive' /\ PinnedAlive'
    BY DEF PassHoldsMutex, ClaimsAreExclusive, DoomedIsUnreachable, PendingIsCounted, ListsInUse, RegisteredAlive, PinnedAlive
  <2>3. QED
    BY <2>1, <2>2
<1>21. ASSUME NEW th \in Threads, Reuse(th) PROVE IInv'
  <2> USE <1>21 DEF Reuse
  <2>1. PinsCounted'
    BY CountUnmoved
  <2>2. /\ PassHoldsMutex' /\ ClaimsAreExclusive' /\ DoomedIsUnreachable' /\ PendingIsCounted'
        /\ ListsInUse' /\ RegisteredAlive' /\ PinnedAlive'
    BY DEF PassHoldsMutex, ClaimsAreExclusive, DoomedIsUnreachable, PendingIsCounted, ListsInUse, RegisteredAlive, PinnedAlive
  <2>3. QED
    BY <2>1, <2>2
<1>22. ASSUME NEW th \in Threads, OwnerDelete(th) PROVE IInv'
  <2> USE <1>22 DEF OwnerDelete, Deleted, OwnerMayDelete, WithoutRegistration
  <2>1. PinsCounted'
    BY CountUnmoved
  <2>2. DoomedIsUnreachable'
    BY NobodyIterates DEF DoomedIsUnreachable, ClaimsAreExclusive
  <2>3. PinnedAlive'
    BY NobodyIterates DEF PinnedAlive
  <2>4. /\ PassHoldsMutex' /\ ClaimsAreExclusive' /\ PendingIsCounted' /\ ListsInUse'
        /\ RegisteredAlive'
    BY DEF PassHoldsMutex, ClaimsAreExclusive, DoomedIsUnreachable, PendingIsCounted, ListsInUse, RegisteredAlive, PinnedAlive
  <2>5. QED
    BY <2>1, <2>2, <2>3, <2>4
<1>23. CASE UNCHANGED vars
  <2> USE <1>23 DEF vars
  <2>1. PinsCounted'
    BY CountUnmoved
  <2>2. /\ PassHoldsMutex' /\ ClaimsAreExclusive' /\ DoomedIsUnreachable' /\ PendingIsCounted'
        /\ ListsInUse' /\ RegisteredAlive' /\ PinnedAlive'
    BY DEF PassHoldsMutex, ClaimsAreExclusive, DoomedIsUnreachable, PendingIsCounted, ListsInUse, RegisteredAlive, PinnedAlive
  <2>3. QED
    BY <2>1, <2>2
<1>24. QED
  BY <1>1, <1>2, <1>3, <1>4, <1>5, <1>6, <1>7, <1>8, <1>9, <1>10, <1>11,
     <1>12, <1>13, <1>14, <1>15, <1>16, <1>17, <1>18, <1>19, <1>20, <1>21, <1>22, <1>23
  DEF Next, CallerStep, ThreadStep, Quiet

LEMMA InvariantInit == Init => IInv
<1> SUFFICES ASSUME Init PROVE IInv
  OBVIOUS
<1>1. PinsCounted
  <2>1. Pinning = {}
    BY DEF Init, Pinning, Iterating
  <2>2. QED
    BY <2>1, FS_EmptySet DEF Init, PinsCounted
<1>2. QED
  BY <1>1, TypeInit DEF Init, IInv, MetConstructed, Constructed, TargetsUsable, Live, PassHoldsMutex, ClaimsAreExclusive, DoomedIsUnreachable,
     PendingIsCounted, ListsInUse, RegisteredAlive, PinnedAlive, Cleaning, Iterating

(* The inductive invariant of passes and iterations holds throughout.      *)
THEOREM Invariance == Spec => []IInv
  BY InvariantInit, InvariantStep, PTL DEF Spec

-----------------------------------------------------------------------------
(* A Thread that an iteration has still to visit is never deleted under    *)
(* it: the promise the IterationGuard makes to every callback.             *)
THEOREM PinsHold == Spec => []PinnedAlive
<1>1. IInv => PinnedAlive
  BY DEF IInv
<1>2. QED
  BY <1>1, Invariance, PTL

(* A deleted Thread is in no registry, so no later iteration, lookup or    *)
(* cleanup pass can find it.                                               *)
THEOREM RegistryHolds == Spec => []RegisteredAlive
<1>1. IInv => RegisteredAlive
  BY DEF IInv
<1>2. QED
  BY <1>1, Invariance, PTL

(* A cleanup request that was deferred always has an iteration that will   *)
(* run it when it ends: none is left behind with nobody to run it.         *)
THEOREM DeferredHasIteration == Spec => []PendingHasIteration
<1>1. IInv => PendingHasIteration
  <2> SUFFICES ASSUME IInv, cleanupPending PROVE Pinning # {}
    BY DEF PendingHasIteration, Pinning
  <2>1. Cardinality(Pinning) > 0
    BY DEF IInv, PendingIsCounted, PinsCounted
  <2>2. QED
    BY <2>1, FS_EmptySet
<1>2. QED
  BY <1>1, Invariance, PTL

-----------------------------------------------------------------------------
(* The manager implements SafeReclamation: whoever deletes a Thread, no    *)
(* iteration has it pinned, the claim is the deleter's, and it has not     *)
(* been deleted before.                                                    *)
THEOREM Refinement == Spec => ImplementsReclamation
<1>1. Init => Reclamation!Init
  BY DEF Init, Reclamation!Init, pins, Iterating
<1>2. IInv /\ IInv' /\ [Next]_vars => [Reclamation!Next]_(Reclamation!vars)
  <2> SUFFICES ASSUME IInv, [Next]_vars PROVE [Reclamation!Next]_(Reclamation!vars)
    OBVIOUS
  <2> USE DEF IInv, TypeOK, Step, At, Goto, Live, Iterating, pins,
              managerVars, threadVars, lifeVars, callVars, listVars
  <2>1. ASSUME NEW c \in Callers, Copy(c) PROVE Reclamation!Pin(c)
    BY <2>1 DEF Copy, Reclamation!Pin, ListsInUse, RegisteredAlive
  <2>2. ASSUME NEW c \in Callers, Visit(c) PROVE Reclamation!Unpin(c)
    <3>1. PICK S \in SUBSET snapshot[c] : snapshot' = [snapshot EXCEPT ![c] = S]
      BY <2>2 DEF Visit
    <3>2. pc[c] = "visit" /\ pc' = [pc EXCEPT ![c] = pc'[c]] /\ pc'[c] \in {"visit", "end"}
      BY <2>2 DEF Visit
    <3>3. pins' = [pins EXCEPT ![c] = S]
      BY <3>1, <3>2
    <3>4. QED
      BY <2>2, <3>1, <3>2, <3>3 DEF Visit, Reclamation!Unpin
  <2>3. ASSUME NEW c \in Callers, Delete(c)
        PROVE  \E th \in Threads : Reclamation!Reclaim(th)
    <3>1. PICK th \in claimed[c] : Deleted(th, "reclaimed")
      BY <2>3 DEF Delete
    <3>2. /\ th \in Threads /\ lifetime[th] = "live" /\ claim[th] = "Automatic"
          /\ \A d \in Callers : th \notin pins[d]
      BY <2>3, <3>1 DEF Delete, DoomedIsUnreachable, ClaimsAreExclusive, Pinning
    <3>3. pc' = pc /\ UNCHANGED <<snapshot, claim>>
      BY <2>3 DEF Delete
    <3>4. QED
      BY <3>1, <3>2, <3>3 DEF Deleted, Reclamation!Reclaim, Reclamation!End
  <2>4. ASSUME NEW th \in Threads, OwnerDelete(th) PROVE Reclamation!Dispose(th)
    BY <2>4, NobodyIterates
    DEF OwnerDelete, Deleted, OwnerMayDelete, Reclamation!Dispose, Reclamation!End, Pinning
  <2>5. ASSUME NEW th \in Threads, Construct(th) PROVE Reclamation!Construct(th)
    BY <2>5 DEF Construct, Reclamation!Construct
  <2>6. ASSUME NEW c \in Callers, BeginIteration(c) \/ EndIteration(c) PROVE UNCHANGED Reclamation!vars
    BY <2>6 DEF BeginIteration, EndIteration, ListsInUse, Reclamation!vars
  <2>7. ASSUME NEW c \in Callers, DeferCleanUp(c) \/ BeginCleanUp(c) \/ Collect(c) \/ Examine(c)
                                 \/ CleanUpThrows(c) \/ Remove(c) \/ EndCleanUp(c)
        PROVE UNCHANGED Reclamation!vars
    BY <2>7 DEF DeferCleanUp, BeginCleanUp, Collect, Examine, CleanUpThrows, Remove,
                EndCleanUp, Reclamation!vars
  <2>8. ASSUME NEW c \in Callers, RemoveThread(c) \/ StorePolicy(c) PROVE UNCHANGED Reclamation!vars
    BY <2>8 DEF RemoveThread, StorePolicy, Reclamation!vars
  <2>9. ASSUME NEW c \in Callers, NEW o \in Operations, Begin(c, o) PROVE UNCHANGED Reclamation!vars
    BY <2>9 DEF Begin, FirstStep, Operations, Reclamation!vars
  <2>10. ASSUME NEW th \in Threads, Terminate(th) \/ Reuse(th) PROVE UNCHANGED Reclamation!vars
    BY <2>10 DEF Terminate, Reuse, Reclamation!vars
  <2>11. CASE UNCHANGED vars
    BY <2>11 DEF vars, Reclamation!vars
  <2>12. ASSUME NEW c \in Callers, CompareClaim(c) \/ MovePolicy(c) \/ ShutdownClaim(c)
         PROVE  UNCHANGED Reclamation!vars \/ \E th \in Threads : Reclamation!Claim(th)
    <3>1. UNCHANGED <<lifetime, deletions, snapshot>> /\ pins' = pins
      BY <2>12 DEF CompareClaim, MovePolicy, ShutdownClaim
    <3>2. \/ claim' = claim
          \/ \E th \in target[c] :
               /\ th \in Live /\ claim[th] # "Automatic"
               /\ \E new \in IF claim[th] = "Manual" THEN {"Available"} ELSE {"Manual", "Automatic"} :
                    claim' = [claim EXCEPT ![th] = new]
      <4>1. CASE CompareClaim(c)
        BY <4>1 DEF CompareClaim, MayClaim
      <4>2. CASE MovePolicy(c)
        BY <4>2 DEF MovePolicy, Moved, TargetsUsable
      <4>3. CASE ShutdownClaim(c)
        BY <4>3 DEF ShutdownClaim, Moved, TargetsUsable
      <4>4. QED
        BY <2>12, <4>1, <4>2, <4>3
    <3>3. QED
      BY <3>1, <3>2 DEF Reclamation!Claim, Reclamation!vars
  <2>13. QED
    BY <2>1, <2>2, <2>3, <2>4, <2>5, <2>6, <2>7, <2>8, <2>9, <2>10, <2>11, <2>12
    DEF Next, CallerStep, ThreadStep, Quiet, Reclamation!Next
<1>3. QED
  BY <1>1, <1>2, Invariance, PTL DEF Spec, ImplementsReclamation, Reclamation!Spec

-----------------------------------------------------------------------------
(* What Shutdown claimed stays with the application: only SetFreeOnTerminate *)
(* offers it again, whatever cleanup passes do in the meantime.            *)
THEOREM ManualOwnership == Spec => ManualOwnershipWins
<1> DEFINE Offered(th) ==
      claim[th] = "Manual" /\ claim'[th] # "Manual"
        => \E c \in Callers : pc[c] = "movePolicy" /\ op[c] = "Release"
<1>1. TypeOK /\ [Next]_vars => \A th \in Threads : Offered(th)
  <2> SUFFICES ASSUME TypeOK, [Next]_vars, NEW th \in Threads, claim'[th] # claim[th],
                      claim[th] = "Manual"
               PROVE  \E c \in Callers : pc[c] = "movePolicy" /\ op[c] = "Release"
    OBVIOUS
  <2> USE DEF TypeOK, threadVars, lifeVars
  <2>1. PICK c \in Callers : CompareClaim(c) \/ MovePolicy(c) \/ ShutdownClaim(c)
    BY DEF Next, CallerStep, ThreadStep, Quiet, vars, Begin, BeginIteration, Copy, Visit, EndIteration, DeferCleanUp, BeginCleanUp, Collect, Examine, CleanUpThrows, Remove, Delete, EndCleanUp, RemoveThread, StorePolicy,
           Construct, Terminate, Reuse, OwnerDelete, Deleted
  <2>2. CASE CompareClaim(c)
    BY <2>2 DEF CompareClaim, MayClaim
  <2>3. CASE MovePolicy(c)
    BY <2>3 DEF MovePolicy, Moved, Step, At
  <2>4. CASE ShutdownClaim(c)
    BY <2>4 DEF ShutdownClaim, Moved
  <2>5. QED
    BY <2>1, <2>2, <2>3, <2>4
<1>2. QED
  BY <1>1, TypeCorrect, PTL DEF Spec, ManualOwnershipWins

-----------------------------------------------------------------------------
(* What one pass is deleting is not on another's list, because it left the *)
(* registry before the mutex was released.                                 *)
DoomedIsUnexamined ==
  \A c, d \in Callers : pc[d] = "delete" => claimed[d] \cap Examined(c) = {}

PassInv == ExaminedNotReclaimed /\ DoomedIsUnexamined

LEMMA PassStep ==
  ASSUME IInv, PassInv, [Next]_vars
  PROVE  PassInv'
<1> USE DEF IInv, PassInv, TypeOK, Step, At, Goto, Live, Cleaning,
            managerVars, threadVars, lifeVars, callVars, listVars
<1> USE DEF ExaminedNotReclaimed, DoomedIsUnexamined, Examined
<1>1. ASSUME NEW c \in Callers, BeginIteration(c) PROVE PassInv'
  BY <1>1 DEF BeginIteration
<1>2. ASSUME NEW c \in Callers, Copy(c) PROVE PassInv'
  BY <1>2 DEF Copy
<1>3. ASSUME NEW c \in Callers, Visit(c) PROVE PassInv'
  BY <1>3 DEF Visit
<1>4. ASSUME NEW c \in Callers, EndIteration(c) PROVE PassInv'
  BY <1>4 DEF EndIteration
<1>5. ASSUME NEW c \in Callers, DeferCleanUp(c) PROVE PassInv'
  BY <1>5 DEF DeferCleanUp
<1>6. ASSUME NEW c \in Callers, BeginCleanUp(c) PROVE PassInv'
  BY <1>6 DEF BeginCleanUp, ListsInUse
<1>7. ASSUME NEW c \in Callers, Collect(c) PROVE PassInv'
  BY <1>7 DEF Collect, RegisteredAlive, DoomedIsUnreachable
<1>8. ASSUME NEW c \in Callers, Examine(c) PROVE PassInv'
  BY <1>8 DEF Examine
<1>9. ASSUME NEW c \in Callers, CompareClaim(c) PROVE PassInv'
  BY <1>9 DEF CompareClaim
<1>10. ASSUME NEW c \in Callers, CleanUpThrows(c) PROVE PassInv'
  BY <1>10 DEF CleanUpThrows
<1>11. ASSUME NEW c \in Callers, Remove(c) PROVE PassInv'
  BY <1>11, CallersAssumption DEF Remove, StillRegistered, PassHoldsMutex
<1>12. ASSUME NEW c \in Callers, Delete(c) PROVE PassInv'
  BY <1>12 DEF Delete, Deleted, ClaimsAreExclusive, DoomedIsUnreachable
<1>13. ASSUME NEW c \in Callers, EndCleanUp(c) PROVE PassInv'
  BY <1>13 DEF EndCleanUp
<1>14. ASSUME NEW c \in Callers, RemoveThread(c) PROVE PassInv'
  BY <1>14 DEF RemoveThread
<1>15. ASSUME NEW c \in Callers, StorePolicy(c) PROVE PassInv'
  BY <1>15 DEF StorePolicy
<1>16. ASSUME NEW c \in Callers, MovePolicy(c) PROVE PassInv'
  BY <1>16 DEF MovePolicy
<1>17. ASSUME NEW c \in Callers, ShutdownClaim(c) PROVE PassInv'
  BY <1>17 DEF ShutdownClaim
<1>18. ASSUME NEW c \in Callers, NEW o \in Operations, Begin(c, o) PROVE PassInv'
  BY <1>18 DEF Begin, FirstStep, Operations
<1>19. ASSUME NEW th \in Threads, Construct(th) PROVE PassInv'
  BY <1>19 DEF Construct
<1>20. ASSUME NEW th \in Threads, Terminate(th) PROVE PassInv'
  BY <1>20 DEF Terminate
<1>21. ASSUME NEW th \in Threads, Reuse(th) PROVE PassInv'
  BY <1>21 DEF Reuse
<1>22. ASSUME NEW th \in Threads, OwnerDelete(th) PROVE PassInv'
  BY <1>22 DEF OwnerDelete, Deleted, OwnerMayDelete, ClaimsAreExclusive
<1>23. CASE UNCHANGED vars
  BY <1>23 DEF vars
<1>24. QED
  BY <1>1, <1>2, <1>3, <1>4, <1>5, <1>6, <1>7, <1>8, <1>9, <1>10, <1>11,
     <1>12, <1>13, <1>14, <1>15, <1>16, <1>17, <1>18, <1>19, <1>20, <1>21, <1>22, <1>23
  DEF Next, CallerStep, ThreadStep, Quiet

(* No pass examines or claims what another pass deleted, whatever owners   *)
(* delete in the meantime.                                                 *)
THEOREM PassesStayApart == Spec => []ExaminedNotReclaimed
<1>1. Init => PassInv
  BY DEF Init, PassInv, ExaminedNotReclaimed, DoomedIsUnexamined, Examined, Cleaning
<1>2. IInv /\ PassInv /\ [Next]_vars => PassInv'
  BY PassStep
<1>3. PassInv => ExaminedNotReclaimed
  BY DEF PassInv
<1>4. QED
  BY <1>1, <1>2, <1>3, Invariance, PTL DEF Spec

(* And a pass deletes only what it alone claimed and what still exists,    *)
(* though what it examined may have been deleted by its owner.             *)
THEOREM ReclaimedOnceHolds == Spec => []ReclaimedOnce
<1>1. IInv => ReclaimedOnce
  BY DEF IInv, TypeOK, ClaimsAreExclusive, DoomedIsUnreachable, ReclaimedOnce
<1>2. QED
  BY <1>1, Invariance, PTL

-----------------------------------------------------------------------------
(* Policy.  SetFreeOnTerminate stores the flag and moves the claim in two  *)
(* steps, so the two agree only as long as no other such call works on the *)
(* same Thread in between.                                                 *)
InPolicyCall(c) == pc[c] \in {"storePolicy", "movePolicy", "shutdownClaim"}

(* What callers owe each other: no two policy calls on one Thread at once. *)
PolicyCallsTakeTurns ==
  \A c, d \in Callers :
    InPolicyCall(c) /\ InPolicyCall(d) /\ target[c] \cap target[d] # {} => c = d

Settled(th) ==
  (\A c \in Callers : InPolicyCall(c) => th \notin target[c])
    => (free[th] => claim[th] # "Manual")

(* A policy call is about one Thread, and once it has stored the flag the  *)
(* flag says what the call asked for.                                      *)
PolicyStored ==
  \A c \in Callers :
    /\ InPolicyCall(c) => \A s, th \in target[c] : s = th
    /\ pc[c] = "movePolicy" => \A th \in target[c] : free[th] => op[c] = "Release"

PolicyInv == (\A th \in Threads : Settled(th)) /\ PolicyStored

LEMMA PolicyStep ==
  ASSUME TypeOK, PolicyCallsTakeTurns, PolicyInv, [Next]_vars
  PROVE  PolicyInv'
<1> USE DEF PolicyInv, PolicyStored, Settled, InPolicyCall, TypeOK, Step, At, Goto,
            managerVars, threadVars, lifeVars, callVars, listVars
<1>1. ASSUME UNCHANGED <<free, claim, op>>,
             \A c \in Callers : /\ target'[c] = target[c] \/ ~InPolicyCall(c)'
                                /\ InPolicyCall(c) <=> InPolicyCall(c)'
                                /\ pc'[c] = "movePolicy" => pc[c] = "movePolicy"
      PROVE  PolicyInv'
  BY <1>1
<1>2. ASSUME NEW c \in Callers,
             BeginIteration(c) \/ Copy(c) \/ Visit(c) \/ EndIteration(c) \/ DeferCleanUp(c)
               \/ BeginCleanUp(c) \/ Collect(c) \/ CleanUpThrows(c) \/ Remove(c)
               \/ EndCleanUp(c)
      PROVE  PolicyInv'
  BY <1>1, <1>2 DEF BeginIteration, Copy, Visit, EndIteration, DeferCleanUp, BeginCleanUp,
                    Collect, CleanUpThrows, Remove, EndCleanUp
<1>3. ASSUME NEW c \in Callers, Examine(c) PROVE PolicyInv'
  BY <1>1, <1>3 DEF Examine
<1>4. ASSUME NEW c \in Callers, CompareClaim(c) PROVE PolicyInv'
  BY <1>4 DEF CompareClaim, MayClaim
<1>5. ASSUME NEW c \in Callers, Delete(c) PROVE PolicyInv'
  BY <1>5 DEF Delete, Deleted
<1>6. ASSUME NEW c \in Callers, RemoveThread(c) PROVE PolicyInv'
  BY <1>1, <1>6 DEF RemoveThread
<1>7. ASSUME NEW c \in Callers, StorePolicy(c) PROVE PolicyInv'
  <2>1. PICK th \in target[c] : free' = [free EXCEPT ![th] = (op[c] = "Release")]
    BY <1>7 DEF StorePolicy
  <2>2. /\ pc[c] = "storePolicy" /\ pc' = [pc EXCEPT ![c] = "movePolicy"]
        /\ UNCHANGED <<claim, op, target>> /\ th \in Threads
    BY <1>7 DEF StorePolicy
  <2>3. \A s \in Threads \ {th} : free'[s] = free[s]
    BY <2>1
  <2>4. free'[th] => op[c] = "Release"
    BY <2>1, <2>2
  <2>5. \A d \in Callers : InPolicyCall(d)' <=> InPolicyCall(d)
    BY <2>2
  <2>6. \A s \in Threads : Settled(s)'
    BY <2>2, <2>3, <2>5
  <2>7. \A d \in Callers \ {c} : pc[d] = "movePolicy" => th \notin target[d]
    BY <2>2 DEF PolicyCallsTakeTurns
  <2>8. PolicyStored'
    BY <2>2, <2>3, <2>4, <2>7
  <2>9. QED
    BY <2>6, <2>8
<1>8. ASSUME NEW c \in Callers, MovePolicy(c) PROVE PolicyInv'
  <2>1. PICK th \in target[c] :
               claim' = IF op[c] = "Release" THEN Moved("Manual", "Available", th)
                                             ELSE Moved("Available", "Manual", th)
    BY <1>8 DEF MovePolicy
  <2>2. /\ pc[c] = "movePolicy" /\ pc' = [pc EXCEPT ![c] = "idle"]
        /\ target' = [target EXCEPT ![c] = {}] /\ UNCHANGED <<free, op>> /\ th \in Threads
    BY <1>8 DEF MovePolicy
  <2>3. \A s \in Threads \ {th} : claim'[s] = claim[s]
    BY <2>1 DEF Moved
  <2>4. free[th] => claim'[th] # "Manual"
    BY <2>1, <2>2 DEF Moved
  <2>5. \A s \in Threads \ {th} : Settled(s)'
    BY <2>2, <2>3
  <2>6. QED
    BY <2>2, <2>4, <2>5
<1>9. ASSUME NEW c \in Callers, ShutdownClaim(c) PROVE PolicyInv'
  BY <1>9 DEF ShutdownClaim, Moved
<1>10. ASSUME NEW c \in Callers, NEW o \in Operations, Begin(c, o) PROVE PolicyInv'
  <2>1. /\ pc[c] = "idle" /\ pc' = [pc EXCEPT ![c] = FirstStep[o]]
        /\ FirstStep[o] # "movePolicy" /\ UNCHANGED <<free, claim>>
    BY <1>10 DEF Begin, FirstStep, Operations
  <2>2. \/ \E th \in Threads : target' = [target EXCEPT ![c] = {th}]
        \/ target' = target /\ FirstStep[o] \in {"begin", "cleanUp"}
    BY <1>10 DEF Begin, FirstStep, Operations, OnOneThread, Live
  <2>3. op' = [op EXCEPT ![c] = o]
    BY <1>10 DEF Begin
  <2>4. QED
    BY <2>1, <2>2, <2>3
<1>11. ASSUME NEW th \in Threads, Construct(th) \/ Terminate(th) \/ Reuse(th)
       PROVE  PolicyInv'
  BY <1>1, <1>11 DEF Construct, Terminate, Reuse
<1>12. ASSUME NEW th \in Threads, OwnerDelete(th) PROVE PolicyInv'
  BY <1>12 DEF OwnerDelete, Deleted
<1>13. CASE UNCHANGED vars
  BY <1>1, <1>13 DEF vars
<1>14. QED
  BY <1>2, <1>3, <1>4, <1>5, <1>6, <1>7, <1>8, <1>9, <1>10, <1>11, <1>12, <1>13
  DEF Next, CallerStep, ThreadStep, Quiet

LEMMA PolicyInit == Init => PolicyInv
  BY DEF Init, PolicyInv, Settled, PolicyStored, InPolicyCall

(* SetFreeOnTerminate and Shutdown, called on one Thread by one caller at  *)
(* a time, leave a flag and a claim that agree, whatever passes claim in   *)
(* between.  Without the turns it fails: see the hazard of opposite calls. *)
THEOREM PolicySettles == Spec /\ []PolicyCallsTakeTurns => []PolicySettled
<1>1. TypeOK /\ PolicyCallsTakeTurns /\ PolicyInv /\ [Next]_vars => PolicyInv'
  BY PolicyStep
<1>2. TypeOK /\ PolicyInv => PolicySettled
  BY DEF PolicyInv, Settled, PolicySettled, Live
<1>3. QED
  BY <1>1, <1>2, PolicyInit, TypeCorrect, PTL DEF Spec

(* One caller makes all the policy calls, as the owner of the Threads.     *)
SoleOwner ==
  \A c, d \in Callers :
    /\ Calls[c] \cap {"Release", "Keep", "Shutdown"} # {}
    /\ Calls[d] \cap {"Release", "Keep", "Shutdown"} # {}
    => c = d

(* A sole owner keeps the turns: its flags and claims always settle.       *)
THEOREM SoleOwnerSettles == ASSUME SoleOwner PROVE Spec => []PolicySettled
<1> DEFINE Allowed == \A c \in Callers :
                        InPolicyCall(c) => Calls[c] \cap {"Release", "Keep", "Shutdown"} # {}
<1>1. Init => Allowed
  BY DEF Init, InPolicyCall
<1>2. TypeOK /\ Allowed /\ [Next]_vars => Allowed'
  <2> SUFFICES ASSUME TypeOK, Allowed, [Next]_vars, NEW c \in Callers, InPolicyCall(c)'
               PROVE  Calls[c] \cap {"Release", "Keep", "Shutdown"} # {}
    OBVIOUS
  <2> USE DEF TypeOK, Step, At, Goto, InPolicyCall
  <2>1. CASE \E d \in Callers, o \in Operations : Begin(d, o)
    BY <2>1 DEF Begin, FirstStep, Operations
  <2>2. CASE \E d \in Callers : CallerStep(d)
    <3>1. InPolicyCall(c)
      BY <2>2 DEF CallerStep, BeginIteration, Copy, Visit, EndIteration, DeferCleanUp, BeginCleanUp,
         Collect, Examine, CompareClaim, CleanUpThrows, Remove, Delete, EndCleanUp,
         RemoveThread, StorePolicy, MovePolicy, ShutdownClaim
    <3>2. QED
      BY <3>1
  <2>3. CASE pc' = pc
    BY <2>3
  <2>4. QED
    BY <2>1, <2>2, <2>3 DEF Next, ThreadStep, Construct, Terminate, Reuse, OwnerDelete, Quiet, vars
<1>3. Allowed => PolicyCallsTakeTurns
  BY DEF SoleOwner, PolicyCallsTakeTurns
<1>4. QED
  BY <1>1, <1>2, <1>3, PolicySettles, TypeCorrect, PTL DEF Spec

-----------------------------------------------------------------------------
(* Claims.  Where no call is RemoveThread and no method throws, what a     *)
(* pass has claimed is still registered when the pass comes to remove it.  *)
(* A live Thread is registered, or a pass that unregistered it is about to *)
(* delete it.                                                              *)
LiveAccounted ==
  \A th \in Live : th \in registry \/ \E c \in Callers : pc[c] = "delete" /\ th \in claimed[c]

(* An automatic claim is on the list of the pass that made it.             *)
ClaimsHeld ==
  /\ \A th \in Threads : claim[th] = "Automatic" =>
       /\ th \in Constructed
       /\ th \in Live => \E c \in Callers : th \in claimed[c]
  /\ \A c \in Callers : claimed[c] # {} => pc[c] \in {"examine", "compare", "delete"}

NothingWithdrawn == \A c \in Callers : pc[c] # "unregister"

HeldInv == LiveAccounted /\ ClaimsHeld /\ NothingWithdrawn

NothingInterferes == "throw" \notin Faults /\ \A c \in Callers : "RemoveThread" \notin Calls[c]

LEMMA HeldStep ==
  ASSUME NothingInterferes, IInv, HeldInv, [Next]_vars
  PROVE  HeldInv'
<1> USE DEF IInv, TypeOK, HeldInv, LiveAccounted, ClaimsHeld, NothingWithdrawn, MetConstructed,
            Constructed, Live, Step, At, Goto, Cleaning,
            managerVars, threadVars, lifeVars, callVars, listVars
<1>1. ASSUME NEW c \in Callers,
             BeginIteration(c) \/ Copy(c) \/ Visit(c) \/ EndIteration(c) \/ DeferCleanUp(c)
      PROVE  HeldInv'
  BY <1>1 DEF BeginIteration, Copy, Visit, EndIteration, DeferCleanUp
<1>2. ASSUME NEW c \in Callers, BeginCleanUp(c) PROVE HeldInv'
  BY <1>2 DEF BeginCleanUp, ListsInUse
<1>3. ASSUME NEW c \in Callers, Collect(c) PROVE HeldInv'
  BY <1>3 DEF Collect
<1>4. ASSUME NEW c \in Callers, Examine(c) PROVE HeldInv'
  BY <1>4 DEF Examine
<1>5. ASSUME NEW c \in Callers, CompareClaim(c) PROVE HeldInv'
  BY <1>5 DEF CompareClaim
<1>6. ASSUME NEW c \in Callers, Remove(c) PROVE HeldInv'
  BY <1>6 DEF Remove, StillRegistered, Unregistered, ClaimsAreExclusive
<1>7. ASSUME NEW c \in Callers, Delete(c) PROVE HeldInv'
  BY <1>7 DEF Delete, Deleted, WithoutRegistration
<1>8. ASSUME NEW c \in Callers, EndCleanUp(c) PROVE HeldInv'
  BY <1>8 DEF EndCleanUp
<1>9. ASSUME NEW c \in Callers, CleanUpThrows(c) \/ RemoveThread(c) PROVE HeldInv'
  BY <1>9 DEF CleanUpThrows, RemoveThread, NothingInterferes
<1>10. ASSUME NEW c \in Callers, StorePolicy(c) \/ MovePolicy(c) \/ ShutdownClaim(c)
       PROVE  HeldInv'
  BY <1>10 DEF StorePolicy, MovePolicy, ShutdownClaim, Moved
<1>11. ASSUME NEW c \in Callers, NEW o \in Operations, Begin(c, o) PROVE HeldInv'
  BY <1>11 DEF Begin, FirstStep, Operations, NothingInterferes
<1>12. ASSUME NEW th \in Threads, Construct(th) PROVE HeldInv'
  BY <1>12 DEF Construct
<1>13. ASSUME NEW th \in Threads, Terminate(th) \/ Reuse(th) PROVE HeldInv'
  BY <1>13 DEF Terminate, Reuse
<1>14. ASSUME NEW th \in Threads, OwnerDelete(th) PROVE HeldInv'
  BY <1>14 DEF OwnerDelete, Deleted, OwnerMayDelete, WithoutRegistration
<1>15. CASE UNCHANGED vars
  BY <1>15 DEF vars
<1>16. QED
  BY <1>1, <1>2, <1>3, <1>4, <1>5, <1>6, <1>7, <1>8, <1>9, <1>10, <1>11, <1>12, <1>13,
     <1>14, <1>15 DEF Next, CallerStep, ThreadStep, Quiet

(* An automatic claim on a Thread that still exists belongs to a pass that *)
(* will delete it, as long as no IThread method throws in a pass and       *)
(* nobody takes a Thread out of the registry under a pass that claimed it. *)
THEOREM ClaimsAreServed == ASSUME NothingInterferes PROVE Spec => []NoOrphanClaim
<1>1. Init => HeldInv
  BY DEF Init, HeldInv, LiveAccounted, ClaimsHeld, NothingWithdrawn,
         Constructed, Live, Cleaning
<1>2. IInv /\ HeldInv /\ [Next]_vars => HeldInv'
  BY HeldStep
<1>3. HeldInv => NoOrphanClaim
  BY DEF HeldInv, ClaimsHeld, NoOrphanClaim, Live
<1>4. QED
  BY <1>1, <1>2, <1>3, Invariance, PTL DEF Spec
=============================================================================
