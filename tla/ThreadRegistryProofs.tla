------------------------ MODULE ThreadRegistryProofs ------------------------
(***************************************************************************)
(* Proofs about ThreadRegistry, for any Threads, callers, operations, IDs  *)
(* and cores.                                                              *)
(***************************************************************************)
EXTENDS ThreadRegistry, FiniteSetTheorems, TLAPS

(* What a caller in a call is about: which operation can be where, and on  *)
(* which Thread.                                                           *)
Busy(c) == pc[c] # "idle"
OpAt ==
  \A c \in Callers :
    /\ pc[c] \in {"check", "storeID", "setCore", "setRegistered"}
         => op[c] \in {"Construct", "Initialize"}
    /\ pc[c] \in {"lookup", "insert"} => op[c] \in {"Construct", "Initialize", "AddThread"}
    /\ pc[c] = "readID" => op[c] = "AddThread"
    /\ pc[c] \in {"lock", "attach"} => op[c] = "Initialize"
    /\ pc[c] = "configure" => op[c] = "SetCoreID"
    /\ pc[c] = "remove" => op[c] \in {"RemoveThread", "RemoveID", "Destroy"}
    /\ Busy(c) /\ op[c] # "RemoveID" => target[c] \in Threads

RecordsOfThreads == \A r \in records : r.thread \in Threads

TypeInv == TypeOK /\ OpAt /\ RecordsOfThreads

LEMMA FirstStepType ==
  ASSUME NEW o \in Operations
  PROVE  /\ FirstStep[o] \in {"check", "lookup", "remove", "configure"}
         /\ FirstStep[o] = "check" => o \in {"Construct", "Initialize"}
         /\ FirstStep[o] = "lookup" => o = "AddThread"
         /\ FirstStep[o] = "remove" => o \in {"RemoveThread", "RemoveID", "Destroy"}
         /\ FirstStep[o] = "configure" => o = "SetCoreID"
  BY DEF FirstStep, Operations

LEMMA InitType == Init => TypeInv
  BY BoundsAssumption
     DEF Init, TypeInv, TypeOK, OpAt, RecordsOfThreads, Busy, IDs, Cores, NoCore, Labels, Operations, Record,
         NoRecord, AnyID

LEMMA BeginType ==
  ASSUME TypeInv, NEW c \in Callers, NEW o \in Operations, Begin(c, o)
  PROVE  TypeInv'
<1> USE DEF TypeInv, RecordsOfThreads
<1>1. PICK th \in Threads \cup {NoThread} :
        /\ th = NoThread => o = "RemoveID"
        /\ target' = [target EXCEPT ![c] = th]
        /\ added' = IF o = "AddThread" THEN added \cup {th} ELSE added
        /\ IF o = "Construct" /\ th \in Deferred
           THEN life' = [life EXCEPT ![th] = "live"] /\ Step(c, "idle", "idle")
           ELSE Step(c, "idle", FirstStep[o]) /\ UNCHANGED life
  BY DEF Begin
<1>2. /\ op' = [op EXCEPT ![c] = o] /\ calls' = [calls EXCEPT ![c] = @ + 1]
      /\ request' = [request EXCEPT ![c] = AnyID] /\ calls[c] < MaxCalls
      /\ UNCHANGED <<records, nextCore, registered, threadID, coreID, configMutex, taskCore,
                     chosen, removed, found>>
  BY DEF Begin, registryVars
<1>3. added' \subseteq Threads /\ life' \in [Threads -> {"absent", "live", "gone"}]
  BY <1>1, ThreadsAssumption DEF TypeOK, Step, Goto
<1>4. pc' \in [Callers -> Labels]
  BY <1>1, FirstStepType DEF TypeOK, Step, Goto, Labels
<1>5. calls' \in [Callers -> 0 .. MaxCalls]
  BY <1>2, BoundsAssumption DEF TypeOK
<1>6. TypeOK'
  BY <1>1, <1>2, <1>3, <1>4, <1>5 DEF TypeOK
<1>7. OpAt' /\ RecordsOfThreads'
  BY <1>1, <1>2, FirstStepType DEF TypeOK, OpAt, Busy, Step, Goto
<1>8. QED
  BY <1>6, <1>7

(* A step of a call in progress.                                           *)
LEMMA CallerStepType ==
  ASSUME TypeInv, NEW c \in Callers, CallerStep(c)
  PROVE  TypeInv'
<1> USE DEF TypeInv, RecordsOfThreads, Step, Goto, registryVars, threadVars, callVars, historyVars
<1>1. CASE CheckRegistered(c)
  BY <1>1 DEF CheckRegistered, AfterEnsure, TypeOK, OpAt, Busy, Labels
<1>2. CASE Lookup(c)
  <2>1. CASE UNCHANGED found
    BY <1>2, <2>1 DEF Lookup, AfterAdd, TypeOK, OpAt, Busy, Labels
  <2>2. CASE \E r \in Existing(target[c]) : /\ found' = [found EXCEPT ![c] = r]
                                            /\ Step(c, "lookup", AfterAdd(c))
    <3>1. found' \in [Callers -> Record]
      BY <2>2 DEF Existing, TypeOK
    <3>2. UNCHANGED <<registryVars, threadVars, callVars, request>>
      BY <1>2 DEF Lookup
    <3>3. QED
      BY <2>2, <3>1, <3>2 DEF AfterAdd, TypeOK, OpAt, Busy, Labels
  <2>3. QED
    BY <1>2, <2>1, <2>2 DEF Lookup
<1>3. CASE ReadID(c)
  <2>1. target[c] \in Threads
    BY <1>3 DEF ReadID, OpAt, Busy
  <2>2. QED
    BY <1>3, <2>1 DEF ReadID, TypeOK, OpAt, Busy, Labels
<1>4. CASE Insert(c)
  <2>1. pc[c] = "insert" /\ target[c] \in Threads
    BY <1>4 DEF Insert, OpAt, Busy
  <2>2. /\ records' \subseteq Record /\ nextCore' \in Cores /\ found' \in [Callers -> Record]
        /\ RecordsOfThreads'
    <3>1. CASE Registers(target[c])
      <4> DEFINE new == [id |-> RecordID(c), thread |-> target[c], core |-> nextCore]
      <4>1. new \in Record /\ new.thread \in Threads
        BY <1>4, <3>1, <2>1 DEF Insert, Free, Record, TypeOK
      <4>2. NextCore \in Cores
        BY BoundsAssumption DEF NextCore, Cores, TypeOK
      <4>3. records' = records \cup {new} /\ nextCore' = NextCore
            /\ found' = [found EXCEPT ![c] = new]
        BY <1>4, <3>1 DEF Insert
      <4>4. QED
        BY <4>1, <4>2, <4>3 DEF TypeOK
    <3>2. CASE ~Registers(target[c])
      BY <1>4, <3>2 DEF Insert, Existing, TypeOK
    <3>3. QED
      BY <3>1, <3>2
  <2>3. pc' = [pc EXCEPT ![c] = AfterAdd(c)] /\ UNCHANGED <<threadVars, callVars, request>>
    BY <1>4 DEF Insert
  <2>4. QED
    BY <2>1, <2>2, <2>3 DEF AfterAdd, TypeOK, OpAt, Busy, Labels
<1>5. CASE InsertThrows(c)
  BY <1>5 DEF InsertThrows, TypeOK, OpAt, Busy, Labels
<1>6. CASE StoreID(c)
  BY <1>6 DEF StoreID, Record, TypeOK, OpAt, Busy, Labels
<1>7. CASE SetCore(c)
  BY <1>7 DEF SetCore, CoreAfterSet, Record, TypeOK, OpAt, Busy, Labels
<1>8. CASE SetRegistered(c)
  BY <1>8 DEF SetRegistered, Constructed, AfterEnsure, TypeOK, OpAt, Busy, Labels
<1>9. CASE LockConfiguration(c)
  <2>1. target[c] \in Threads
    BY <1>9 DEF LockConfiguration, OpAt, Busy
  <2>2. CASE UNCHANGED found
    BY <1>9, <2>1, <2>2 DEF LockConfiguration, TypeOK, OpAt, Busy, Labels
  <2>3. CASE found' = [found EXCEPT ![c].core = coreID[target[c]]]
    <3>1. found' \in [Callers -> Record]
      BY <2>1, <2>3 DEF Record, TypeOK
    <3>2. QED
      BY <1>9, <2>1, <3>1 DEF LockConfiguration, TypeOK, OpAt, Busy, Labels
  <2>4. QED
    BY <1>9, <2>2, <2>3 DEF LockConfiguration
<1>10. CASE AttachTask(c)
  BY <1>10 DEF AttachTask, Record, TypeOK, OpAt, Busy, Labels
<1>11. CASE Configure(c)
  <2>1. /\ coreID' \in [Threads -> Cores] /\ chosen' \in [Threads -> Cores \cup {NoCore}]
    BY <1>11 DEF Configure, CoreAfterSet, TypeOK
  <2>2. QED
    BY <1>11, <2>1 DEF Configure, TypeOK, OpAt, Busy, Labels
<1>12. CASE Remove(c)
  <2>1. records' \subseteq records
    BY <1>12 DEF Remove
  <2>2. /\ life' \in [Threads -> {"absent", "live", "gone"}]
        /\ registered' \in [Threads -> BOOLEAN]
    BY <1>12 DEF Remove, TypeOK
  <2>3. removed' \subseteq Threads
    BY <1>12 DEF Remove, TypeOK, RecordsOfThreads
  <2>4. QED
    BY <1>12, <2>1, <2>2, <2>3 DEF Remove, TypeOK, OpAt, Busy, Labels
<1>13. QED
  BY <1>1, <1>2, <1>3, <1>4, <1>5, <1>6, <1>7, <1>8, <1>9, <1>10, <1>11, <1>12 DEF CallerStep

LEMMA TypeStep == TypeInv /\ [Next]_vars => TypeInv'
<1> SUFFICES ASSUME TypeInv, [Next]_vars
             PROVE  TypeInv'
  OBVIOUS
<1>1. ASSUME NEW th \in Threads, DeleteTask(th)
      PROVE  TypeInv'
  BY <1>1
     DEF DeleteTask, TypeInv, TypeOK, OpAt, RecordsOfThreads, Busy, registryVars, callVars, historyVars
<1>2. CASE UNCHANGED vars
  BY <1>2 DEF TypeInv, TypeOK, OpAt, RecordsOfThreads, Busy, vars, registryVars, threadVars,
              callVars, historyVars
<1>3. QED
  BY <1>1, <1>2, BeginType, CallerStepType DEF Next, Quiet

(* The registry, its records and the Threads' copies of them keep their    *)
(* types: no ID and no core is ever outside its range.                     *)
THEOREM TypeCorrect == Spec => []TypeOK
<1>1. Init => TypeInv
  BY InitType
<1>2. TypeInv /\ [Next]_vars => TypeInv'
  BY TypeStep
<1>3. TypeInv => TypeOK
  BY DEF TypeInv
<1>4. QED
  BY <1>1, <1>2, <1>3, PTL DEF Spec

-----------------------------------------------------------------------------
(* Only an insertion and a removal touch the registry.                     *)
LEMMA RegistryFrame ==
  ASSUME [Next]_vars, ~\E c \in Callers : Insert(c) \/ Remove(c)
  PROVE  records' = records /\ nextCore' = nextCore /\ removed' = removed
<1> USE DEF vars, registryVars, threadVars, historyVars, callVars
<1>1. ASSUME NEW c \in Callers, NEW o \in Operations, Begin(c, o)
      PROVE  records' = records /\ nextCore' = nextCore /\ removed' = removed
  BY <1>1 DEF Begin
<1>2. ASSUME NEW c \in Callers, CallerStep(c)
      PROVE  records' = records /\ nextCore' = nextCore /\ removed' = removed
  BY <1>2 DEF CallerStep, CheckRegistered, Lookup, ReadID, InsertThrows, StoreID, SetCore,
              SetRegistered, LockConfiguration, AttachTask, Configure
<1>3. ASSUME NEW th \in Threads, DeleteTask(th)
      PROVE  records' = records /\ nextCore' = nextCore /\ removed' = removed
  BY <1>3 DEF DeleteTask
<1>4. QED
  BY <1>1, <1>2, <1>3 DEF Next, Quiet

(* What an insertion does to the registry.                                 *)
LEMMA Inserted ==
  ASSUME TypeInv, NEW c \in Callers, Insert(c)
  PROVE  \/ /\ Existing(target[c]) = {} /\ RecordID(c) \in Free
            /\ records' = records \cup {[id |-> RecordID(c), thread |-> target[c],
                                         core |-> nextCore]}
            /\ found' = [found EXCEPT ![c] = [id |-> RecordID(c), thread |-> target[c],
                                              core |-> nextCore]]
            /\ nextCore' = NextCore
         \/ /\ records' = records /\ nextCore' = nextCore
            /\ \E r \in Existing(target[c]) : found' = [found EXCEPT ![c] = r]
  BY DEF Insert, Registers, registryVars

(* However many tasks register Threads at once, an ID finds one Thread and *)
(* a Thread has one record: the second look under the write lock suffices. *)
THEOREM RecordsAreUnique == Spec => []UniqueRecords
<1>1. Init => UniqueRecords
  BY DEF Init, UniqueRecords
<1>2. TypeInv /\ UniqueRecords /\ [Next]_vars => UniqueRecords'
  <2> SUFFICES ASSUME TypeInv, UniqueRecords, [Next]_vars
               PROVE  UniqueRecords'
    OBVIOUS
  <2>1. ASSUME NEW c \in Callers, Insert(c)
        PROVE  UniqueRecords'
    BY <2>1, Inserted DEF UniqueRecords, Existing, Free
  <2>2. ASSUME NEW c \in Callers, Remove(c)
        PROVE  UniqueRecords'
    BY <2>2 DEF Remove, UniqueRecords
  <2>3. QED
    BY <2>1, <2>2, RegistryFrame DEF UniqueRecords
<1>3. QED
  BY <1>1, <1>2, InitType, TypeStep, PTL DEF Spec

-----------------------------------------------------------------------------
(* From the look at the handle to the attachment, the caller holds the     *)
(* mutex, no task is attached, and the core it read is still the Thread's. *)
Attaching ==
  \A c \in Callers : pc[c] = "attach" =>
    /\ configMutex[target[c]] = c /\ taskCore[target[c]] = NoCore
    /\ found[c].core = coreID[target[c]]

(* SetCoreID is refused while a task is attached and while one is being    *)
(* attached, so the core a Thread reports is the one its task runs on.     *)
THEOREM TaskRunsWhereReported == Spec => []RunsWhereReported
<1> DEFINE Inv == Attaching /\ RunsWhereReported
<1>1. Init => Inv
  BY BoundsAssumption DEF Init, Attaching, RunsWhereReported
<1>2. TypeInv /\ Inv /\ [Next]_vars => Inv'
  <2> SUFFICES ASSUME TypeInv, Inv, [Next]_vars
               PROVE  Inv'
    OBVIOUS
  <2> USE DEF Attaching, RunsWhereReported, Step, Goto, registryVars, threadVars, historyVars,
              callVars
  <2>1. ASSUME NEW c \in Callers, NEW o \in Operations, Begin(c, o)
        PROVE  Inv'
    <3>1. /\ \A d \in Callers : pc'[d] = "attach" => d # c /\ pc[d] = "attach"
          /\ \A d \in Callers \ {c} : target'[d] = target[d]
          /\ UNCHANGED <<found, configMutex, taskCore, coreID>>
      BY <2>1, FirstStepType DEF Begin, TypeInv, TypeOK
    <3>2. QED
      BY <3>1
  <2>2. ASSUME NEW c \in Callers, CallerStep(c)
        PROVE  Inv'
    <3>1. CASE CheckRegistered(c) \/ ReadID(c) \/ InsertThrows(c) \/ StoreID(c)
               \/ SetRegistered(c) \/ Remove(c)
      <4>1. /\ \A d \in Callers : pc'[d] = "attach" => pc[d] = "attach"
            /\ UNCHANGED <<target, found, configMutex, taskCore, coreID>>
        BY <3>1 DEF CheckRegistered, AfterEnsure, ReadID, InsertThrows, StoreID, SetRegistered,
                    Remove, TypeInv, TypeOK
      <4>2. QED
        BY <4>1
    <3>2. CASE Lookup(c) \/ Insert(c)
      <4>1. /\ \A d \in Callers : pc'[d] = "attach" => d # c /\ pc[d] = "attach"
            /\ \A d \in Callers \ {c} : found'[d] = found[d]
            /\ UNCHANGED <<target, configMutex, taskCore, coreID>>
        BY <3>2 DEF Lookup, Insert, AfterAdd, TypeInv, TypeOK
      <4>2. QED
        BY <4>1
    <3>3. CASE SetCore(c) \/ Configure(c)
      <4>1. /\ \A d \in Callers : pc'[d] = "attach" => d # c /\ pc[d] = "attach"
            /\ UNCHANGED <<target, found, configMutex, taskCore>>
            /\ configMutex[target[c]] = NoCaller
            /\ taskCore[target[c]] # NoCore => coreID' = coreID
            /\ \A th \in Threads \ {target[c]} : coreID'[th] = coreID[th]
        BY <3>3 DEF SetCore, Configure, MayConfigure, CoreAfterSet, TypeInv, TypeOK
      <4>2. \A d \in Callers : pc[d] = "attach" => target[d] \in Threads \ {target[c]}
        BY <4>1, CallersAssumption DEF TypeInv, OpAt, Busy
      <4>3. QED
        BY <4>1, <4>2
    <3>4. CASE LockConfiguration(c)
      <4>1. target[c] \in Threads /\ configMutex[target[c]] = NoCaller
        BY <3>4 DEF LockConfiguration, TypeInv, OpAt, Busy
      <4>2. \A d \in Callers : pc[d] = "attach" => d # c /\ target[d] \in Threads \ {target[c]}
        BY <3>4, <4>1, CallersAssumption DEF LockConfiguration, TypeInv, OpAt, Busy
      <4>3. QED
        BY <3>4, <4>1, <4>2 DEF LockConfiguration, TypeInv, TypeOK, Record
    <3>5. CASE AttachTask(c)
      <4>1. target[c] \in Threads /\ configMutex[target[c]] = c
            /\ found[c].core = coreID[target[c]]
        BY <3>5 DEF AttachTask, TypeInv, OpAt, Busy
      <4>2. \A d \in Callers \ {c} : pc[d] = "attach" => target[d] \in Threads \ {target[c]}
        BY <3>5, <4>1 DEF AttachTask, TypeInv, OpAt, Busy
      <4>3. QED
        BY <3>5, <4>1, <4>2 DEF AttachTask, TypeInv, TypeOK
    <3>6. QED
      BY <2>2, <3>1, <3>2, <3>3, <3>4, <3>5 DEF CallerStep
  <2>3. ASSUME NEW th \in Threads, DeleteTask(th)
        PROVE  Inv'
    BY <2>3 DEF DeleteTask, TypeInv, TypeOK, OpAt, Busy
  <2>4. CASE UNCHANGED vars
    BY <2>4 DEF vars
  <2>5. QED
    BY <2>1, <2>2, <2>3, <2>4 DEF Next, Quiet
<1>3. QED
  BY <1>1, <1>2, InitType, TypeStep, PTL DEF Spec

-----------------------------------------------------------------------------
(* The life of the Thread a call is about: a constructor's begins after    *)
(* it, every other call has it throughout.                                 *)
CallsMeetTheLiving ==
  \A c \in Callers : Busy(c) =>
    /\ op[c] = "Construct" => life[target[c]] = "absent"
    /\ op[c] \notin {"Construct", "RemoveID"} => life[target[c]] = "live"

(* Nobody else has a call on a Thread that is constructed or destroyed.    *)
Exclusive ==
  \A c, d \in Callers :
    Busy(c) /\ op[c] \in {"Construct", "Destroy"} /\ Busy(d) /\ target[d] = target[c] => d = c

LifeInv == TypeInv /\ CallsMeetTheLiving /\ Exclusive

(* What a step of a call may do to lives: its own Thread's, if it          *)
(* constructs or destroys it, and then the call is over.                   *)
LEMMA LifeFrame ==
  ASSUME TypeInv, NEW c \in Callers, CallerStep(c)
  PROVE  /\ UNCHANGED <<op, target, added>>
         /\ Busy(c) /\ \A d \in Callers \ {c} : pc'[d] = pc[d] /\ found'[d] = found[d]
         /\ \/ UNCHANGED life
            \/ /\ op[c] \in {"Construct", "Destroy"} /\ ~Busy(c)'
               /\ \A th \in Threads \ {target[c]} : life'[th] = life[th]
<1> USE DEF TypeInv, TypeOK, OpAt, Busy, Step, Goto, registryVars, threadVars, callVars, historyVars
<1>1. CASE CheckRegistered(c) \/ ReadID(c) \/ StoreID(c) \/ SetCore(c) \/ AttachTask(c)
           \/ Configure(c)
  BY <1>1 DEF CheckRegistered, ReadID, StoreID, SetCore, AttachTask, Configure
<1>2. CASE Lookup(c)
  BY <1>2 DEF Lookup
<1>3. CASE LockConfiguration(c)
  BY <1>3 DEF LockConfiguration
<1>4. CASE Insert(c)
  BY <1>4 DEF Insert
<1>5. CASE InsertThrows(c)
  BY <1>5 DEF InsertThrows
<1>6. CASE SetRegistered(c)
  BY <1>6 DEF SetRegistered, Constructed, AfterEnsure
<1>7. CASE Remove(c)
  BY <1>7 DEF Remove
<1>8. QED
  BY <1>1, <1>2, <1>3, <1>4, <1>5, <1>6, <1>7 DEF CallerStep

(* What the beginning of a call asks of its Thread, and changes.           *)
LEMMA Begun ==
  ASSUME TypeInv, NEW c \in Callers, NEW o \in Operations, Begin(c, o)
  PROVE  \E th \in Threads \cup {NoThread} :
           /\ th = NoThread => o = "RemoveID"
           /\ MayCall(o, th)
           /\ \A d \in Callers : Busy(d) /\ target[d] = th => op[d] \notin {"Construct", "Destroy"}
           /\ ~Busy(c) /\ target'[c] = th /\ op'[c] = o
           /\ \A d \in Callers \ {c} : pc'[d] = pc[d] /\ target'[d] = target[d] /\ op'[d] = op[d]
           /\ added' = IF o = "AddThread" THEN added \cup {th} ELSE added
           /\ Busy(c)' => pc'[c] = FirstStep[o] /\ life' = life
           /\ ~Busy(c)' => o = "Construct" /\ life' = [life EXCEPT ![th] = "live"]
           /\ UNCHANGED <<records, nextCore, registered, threadID, removed, found>>
<1> USE DEF Busy, Step, Goto, registryVars, TypeInv, TypeOK
<1>1. PICK th \in Threads \cup {NoThread} :
        /\ th = NoThread => o = "RemoveID"
        /\ MayCall(o, th)
        /\ ~(\E d \in Callers : pc[d] # "idle" /\ target[d] = th
                                /\ op[d] \in {"Construct", "Destroy"})
        /\ target' = [target EXCEPT ![c] = th]
        /\ added' = IF o = "AddThread" THEN added \cup {th} ELSE added
        /\ IF o = "Construct" /\ th \in Deferred
           THEN life' = [life EXCEPT ![th] = "live"] /\ Step(c, "idle", "idle")
           ELSE Step(c, "idle", FirstStep[o]) /\ UNCHANGED life
  BY DEF Begin
<1>2. op' = [op EXCEPT ![c] = o]
      /\ UNCHANGED <<records, nextCore, registered, threadID, removed, found>>
  BY DEF Begin
<1>3. pc[c] = "idle" /\ target'[c] = th /\ op'[c] = o
  BY <1>1, <1>2
<1>4. \A d \in Callers \ {c} : pc'[d] = pc[d] /\ target'[d] = target[d] /\ op'[d] = op[d]
  BY <1>1, <1>2
<1>5. CASE o = "Construct" /\ th \in Deferred
  BY <1>1, <1>2, <1>3, <1>4, <1>5
<1>6. CASE ~(o = "Construct" /\ th \in Deferred)
  <2>1. pc'[c] = FirstStep[o] /\ FirstStep[o] # "idle" /\ life' = life
    BY <1>1, <1>6, FirstStepType
  <2>2. QED
    BY <1>1, <1>2, <1>3, <1>4, <2>1
<1>7. QED
  BY <1>5, <1>6

LEMMA LifeStep == LifeInv /\ [Next]_vars => LifeInv'
<1> SUFFICES ASSUME LifeInv, [Next]_vars
             PROVE  CallsMeetTheLiving' /\ Exclusive'
  BY TypeStep DEF LifeInv
<1> USE DEF LifeInv
<1>1. ASSUME NEW c \in Callers, NEW o \in Operations, Begin(c, o)
      PROVE  CallsMeetTheLiving' /\ Exclusive'
  <2>1. PICK th \in Threads \cup {NoThread} :
           /\ th = NoThread => o = "RemoveID"
           /\ MayCall(o, th)
           /\ \A d \in Callers : Busy(d) /\ target[d] = th => op[d] \notin {"Construct", "Destroy"}
           /\ ~Busy(c) /\ target'[c] = th /\ op'[c] = o
           /\ \A d \in Callers \ {c} : pc'[d] = pc[d] /\ target'[d] = target[d] /\ op'[d] = op[d]
           /\ added' = IF o = "AddThread" THEN added \cup {th} ELSE added
           /\ Busy(c)' => pc'[c] = FirstStep[o] /\ life' = life
           /\ ~Busy(c)' => o = "Construct" /\ life' = [life EXCEPT ![th] = "live"]
           /\ UNCHANGED <<records, nextCore, registered, threadID, removed, found>>
    BY <1>1, Begun
  <2>2. o \in {"Construct", "Destroy"} => \A d \in Callers : Busy(d) => target[d] # th
    BY <2>1, ThreadsAssumption DEF MayCall, InUse, Busy
  <2>3. /\ o = "Construct" => life[th] = "absent"
        /\ o \notin {"Construct", "RemoveID"} => life[th] = "live"
    BY <2>1 DEF MayCall, Operations
  <2>4. \A d \in Callers \ {c} : Busy(d)' = Busy(d)
    BY <2>1 DEF Busy
  <2>5. CASE Busy(c)'
    BY <2>1, <2>2, <2>3, <2>4, <2>5 DEF CallsMeetTheLiving, Exclusive
  <2>6. CASE ~Busy(c)'
    <3>1. \A d \in Callers : Busy(d)' => d # c /\ Busy(d) /\ target[d] # th
      BY <2>1, <2>2, <2>4, <2>6
    <3>2. \A d \in Callers : Busy(d)' /\ op[d] # "RemoveID" =>
                               life'[target[d]] = life[target[d]]
      BY <2>1, <2>6, <3>1 DEF TypeInv, TypeOK, OpAt
    <3>3. QED
      BY <2>1, <2>4, <3>1, <3>2 DEF CallsMeetTheLiving, Exclusive
  <2>7. QED
    BY <2>5, <2>6
<1>2. ASSUME NEW c \in Callers, CallerStep(c)
      PROVE  CallsMeetTheLiving' /\ Exclusive'
  <2>1. \A d \in Callers : Busy(d)' => Busy(d)
    BY <1>2, LifeFrame DEF Busy
  <2>2. \A d \in Callers : Busy(d)' => target'[d] = target[d] /\ op'[d] = op[d]
    BY <1>2, LifeFrame
  <2>3. Exclusive'
    BY <2>1, <2>2 DEF Exclusive
  <2>4. \A d \in Callers : Busy(d)' /\ op[d] # "RemoveID" => life'[target[d]] = life[target[d]]
    <3>1. CASE UNCHANGED life
      BY <3>1
    <3>2. CASE /\ op[c] \in {"Construct", "Destroy"} /\ ~Busy(c)'
               /\ \A th \in Threads \ {target[c]} : life'[th] = life[th]
      <4>1. \A d \in Callers : Busy(d)' => target[d] # target[c]
        BY <3>2, <2>1, <1>2, LifeFrame DEF Exclusive
      <4>2. \A d \in Callers : Busy(d)' /\ op[d] # "RemoveID" => target[d] \in Threads
        BY <2>1 DEF TypeInv, OpAt
      <4>3. QED
        BY <3>2, <4>1, <4>2
    <3>3. QED
      BY <1>2, <3>1, <3>2, LifeFrame
  <2>5. QED
    BY <2>1, <2>2, <2>3, <2>4 DEF CallsMeetTheLiving
<1>3. ASSUME NEW th \in Threads, DeleteTask(th)
      PROVE  CallsMeetTheLiving' /\ Exclusive'
  BY <1>3 DEF DeleteTask, CallsMeetTheLiving, Exclusive, Busy, callVars
<1>4. CASE UNCHANGED vars
  BY <1>4 DEF vars, threadVars, callVars, CallsMeetTheLiving, Exclusive, Busy
<1>5. QED
  BY <1>1, <1>2, <1>3, <1>4 DEF Next, Quiet

LEMMA InitLife == Init => LifeInv
  BY InitType DEF Init, LifeInv, CallsMeetTheLiving, Exclusive, Busy

-----------------------------------------------------------------------------
(* A record that the application did not ask for is its Thread's own: the  *)
(* Thread knows it, or whoever inserted it is about to tell it.            *)
Storing(c) == pc[c] \in {"storeID", "setCore", "setRegistered"}
Accounted ==
  \A r \in records : r.thread \notin added =>
    registered[r.thread] \/ \E c \in Callers : Storing(c) /\ target[c] = r.thread
RegisteredLive == \A th \in Threads : registered[th] => life[th] = "live"
AddedFirst == \A c \in Callers : Busy(c) /\ op[c] = "AddThread" => target[c] \in added

OwnInv == LifeInv /\ Accounted /\ RegisteredLive /\ AddedFirst

LEMMA OwnBegin ==
  ASSUME OwnInv, NEW c \in Callers, NEW o \in Operations, Begin(c, o)
  PROVE  Accounted' /\ RegisteredLive' /\ AddedFirst'
<1> USE DEF OwnInv, LifeInv
<1>1. PICK th \in Threads \cup {NoThread} :
         /\ ~Busy(c) /\ target'[c] = th /\ op'[c] = o
         /\ \A d \in Callers \ {c} : pc'[d] = pc[d] /\ target'[d] = target[d] /\ op'[d] = op[d]
         /\ added' = IF o = "AddThread" THEN added \cup {th} ELSE added
         /\ Busy(c)' => life' = life
         /\ ~Busy(c)' => life' = [life EXCEPT ![th] = "live"]
         /\ UNCHANGED <<records, registered>>
  BY Begun
<1>2. \A d \in Callers : Storing(d) => Storing(d)' /\ target'[d] = target[d]
  BY <1>1 DEF Storing, Busy
<1>3. Accounted'
  BY <1>1, <1>2 DEF Accounted
<1>4. RegisteredLive'
  BY <1>1 DEF RegisteredLive, TypeInv, TypeOK
<1>5. AddedFirst'
  BY <1>1 DEF AddedFirst, Busy
<1>6. QED
  BY <1>3, <1>4, <1>5

LEMMA OwnCallerStep ==
  ASSUME OwnInv, NEW c \in Callers, CallerStep(c)
  PROVE  Accounted' /\ RegisteredLive' /\ AddedFirst'
<1> USE DEF OwnInv, LifeInv
<1>1. AddedFirst'
  BY LifeFrame DEF AddedFirst, Busy
<1>2. target' = target /\ added' = added /\ \A d \in Callers \ {c} : Storing(d)' = Storing(d)
  BY LifeFrame DEF Storing
<1>3. pc[c] \in Labels /\ pc' \in [Callers -> Labels]
  BY CallerStepType DEF TypeInv, TypeOK
<1> USE DEF Step, Goto, registryVars, threadVars, callVars, historyVars
<1>4. ASSUME UNCHANGED <<records, registered, life>>, Storing(c) => Storing(c)'
      PROVE  Accounted' /\ RegisteredLive'
  BY <1>2, <1>4 DEF Accounted, RegisteredLive
<1>5. CASE CheckRegistered(c) \/ ReadID(c) \/ StoreID(c) \/ SetCore(c) \/ LockConfiguration(c)
           \/ AttachTask(c) \/ Configure(c) \/ Lookup(c)
  <2>1. UNCHANGED <<records, registered, life>>
    BY <1>5 DEF CheckRegistered, ReadID, StoreID, SetCore, LockConfiguration, AttachTask,
                Configure, Lookup
  <2>2. Storing(c) => Storing(c)'
    BY <1>5 DEF CheckRegistered, ReadID, StoreID, SetCore, LockConfiguration, AttachTask,
                Configure, Lookup, Storing, TypeInv, TypeOK
  <2>3. QED
    BY <1>1, <1>4, <2>1, <2>2
<1>6. CASE Insert(c)
  <2>1. UNCHANGED <<registered, life>> /\ ~Storing(c)
    BY <1>6 DEF Insert, Storing
  <2>2. op[c] # "AddThread" => Storing(c)'
    BY <1>6 DEF Insert, AfterAdd, Storing, TypeInv, TypeOK
  <2>3. op[c] = "AddThread" => target[c] \in added
    BY <1>6 DEF Insert, AddedFirst, Busy
  <2>4. \A r \in records' : r \in records \/ r.thread = target[c]
    BY <1>6, Inserted
  <2>5. Accounted'
    BY <1>2, <2>1, <2>2, <2>3, <2>4 DEF Accounted
  <2>6. QED
    BY <1>1, <2>1, <2>5 DEF RegisteredLive
<1>7. CASE InsertThrows(c)
  <2>1. UNCHANGED <<records, registered>> /\ ~Storing(c) /\ target[c] \in Threads
    BY <1>7 DEF InsertThrows, Storing, TypeInv, OpAt, Busy
  <2>2. Accounted'
    BY <1>2, <2>1 DEF Accounted
  <2>3. op[c] = "Construct" => ~registered[target[c]]
    BY <1>7, <2>1 DEF InsertThrows, RegisteredLive, CallsMeetTheLiving, Busy
  <2>4. RegisteredLive'
    BY <1>7, <2>1, <2>3 DEF InsertThrows, RegisteredLive, TypeInv, TypeOK
  <2>5. QED
    BY <1>1, <2>2, <2>4
<1>8. CASE SetRegistered(c)
  <2>1. /\ target[c] \in Threads /\ op[c] \in {"Construct", "Initialize"} /\ Busy(c)
        /\ records' = records /\ registered' = [registered EXCEPT ![target[c]] = TRUE]
        /\ life' = Constructed(c)
    BY <1>8 DEF SetRegistered, TypeInv, OpAt, Busy
  <2>2. Accounted'
    <3> SUFFICES ASSUME NEW r \in records, r.thread \notin added
                 PROVE  registered'[r.thread] \/ \E d \in Callers : Storing(d)' /\ target[d] = r.thread
      BY <1>2, <2>1 DEF Accounted
    <3>1. r.thread \in Threads
      BY DEF TypeInv, RecordsOfThreads
    <3>2. CASE r.thread = target[c]
      BY <2>1, <3>1, <3>2 DEF TypeInv, TypeOK
    <3>3. CASE r.thread # target[c]
      <4>1. registered[r.thread] => registered'[r.thread]
        BY <2>1, <3>1, <3>3 DEF TypeInv, TypeOK
      <4>2. QED
        BY <1>2, <3>3, <4>1 DEF Accounted
    <3>4. QED
      BY <3>2, <3>3
  <2>3. life'[target[c]] = "live" /\ \A th \in Threads \ {target[c]} : life'[th] = life[th]
    BY <2>1 DEF Constructed, CallsMeetTheLiving, TypeInv, TypeOK
  <2>4. RegisteredLive'
    BY <2>1, <2>3 DEF RegisteredLive, TypeInv, TypeOK
  <2>5. QED
    BY <1>1, <2>2, <2>4
<1>9. CASE Remove(c)
  <2>1. ~Storing(c) /\ Busy(c) /\ records' \subseteq records
    BY <1>9 DEF Remove, Storing, Busy
  <2>2. CASE op[c] # "Destroy"
    BY <1>1, <1>2, <1>9, <2>1, <2>2 DEF Remove, Accounted, RegisteredLive
  <2>3. CASE op[c] = "Destroy"
    <3>1. /\ target[c] \in Threads
          /\ registered' = [registered EXCEPT ![target[c]] = FALSE]
          /\ life' = [life EXCEPT ![target[c]] = "gone"]
          /\ registered[target[c]] => records' = records \ Existing(target[c])
      BY <1>9, <2>3 DEF Remove, Removed, TypeInv, OpAt, Busy
    <3>2. \A d \in Callers : Storing(d) => target[d] # target[c]
      BY <2>1, <2>3 DEF Exclusive, Storing, Busy
    <3>3. \A r \in records' : r.thread \notin added => r.thread # target[c]
      BY <2>1, <3>1, <3>2 DEF Accounted, Existing
    <3>4. Accounted'
      BY <1>2, <2>1, <3>1, <3>3 DEF Accounted, TypeInv, TypeOK, RecordsOfThreads
    <3>5. RegisteredLive'
      BY <3>1 DEF RegisteredLive, TypeInv, TypeOK
    <3>6. QED
      BY <1>1, <3>4, <3>5
  <2>4. QED
    BY <2>2, <2>3
<1>10. QED
  BY <1>5, <1>6, <1>7, <1>8, <1>9 DEF CallerStep

(* A record that a Thread made of itself goes when the Thread goes, or     *)
(* when its constructor throws, whatever other tasks do with it meanwhile. *)
THEOREM OwnRecordsGo == Spec => []OwnRecordsOfLive
<1>1. Init => OwnInv
  BY InitLife DEF Init, OwnInv, Accounted, RegisteredLive, AddedFirst, Busy
<1>2. OwnInv /\ [Next]_vars => OwnInv'
  <2> SUFFICES ASSUME OwnInv, [Next]_vars
               PROVE  Accounted' /\ RegisteredLive' /\ AddedFirst'
    BY LifeStep DEF OwnInv
  <2>1. ASSUME UNCHANGED <<records, registered, life, added, pc, op, target>>
        PROVE  Accounted' /\ RegisteredLive' /\ AddedFirst'
    BY <2>1 DEF OwnInv, Accounted, RegisteredLive, AddedFirst, Storing, Busy
  <2>2. ASSUME NEW th \in Threads, DeleteTask(th)
        PROVE  UNCHANGED <<records, registered, life, added, pc, op, target>>
    BY <2>2 DEF DeleteTask, registryVars, historyVars, callVars
  <2>3. CASE UNCHANGED vars
    BY <2>1, <2>3 DEF vars, registryVars, threadVars, historyVars, callVars
  <2>4. QED
    BY <2>1, <2>2, <2>3, OwnBegin, OwnCallerStep DEF Next, Quiet
<1>3. OwnInv => OwnRecordsOfLive
  BY DEF OwnInv, LifeInv, TypeInv, RecordsOfThreads, Accounted, RegisteredLive,
         OwnRecordsOfLive, InUse, Storing
<1>4. QED
  BY <1>1, <1>2, <1>3, PTL DEF Spec

-----------------------------------------------------------------------------
(* As long as a Thread's record was never removed, whoever resolved it     *)
(* holds that record, has stored its ID once it is past that step, and the *)
(* Thread itself has the ID from then on.                                  *)
Resolved ==
  \A c \in Callers : Storing(c) /\ target[c] \notin removed =>
    /\ found[c] \in records /\ found[c].thread = target[c]
    /\ pc[c] # "storeID" => threadID[target[c]] = found[c].id
HasItsID ==
  \A th \in Threads : registered[th] /\ th \notin removed =>
    \E r \in records : r.thread = th /\ threadID[th] = r.id

IdentityInv == TypeInv /\ UniqueRecords /\ Resolved /\ HasItsID

(* A call in progress on a Thread stays on it.                             *)
LEMMA IdentityCallerStep ==
  ASSUME IdentityInv, NEW c \in Callers, CallerStep(c)
  PROVE  Resolved' /\ HasItsID'
<1> USE DEF IdentityInv, Step, Goto, registryVars, threadVars, callVars, historyVars
<1>1. /\ target' = target
      /\ \A d \in Callers \ {c} : pc'[d] = pc[d] /\ found'[d] = found[d]
  BY LifeFrame
<1>2. \A d \in Callers : Storing(d) => target[d] \in Threads
  BY DEF Storing, TypeInv, OpAt, Busy
<1>3. ASSUME UNCHANGED <<threadID, registered, removed>>, records \subseteq records',
             Storing(c)' => /\ found'[c] \in records' /\ found'[c].thread = target[c]
                            /\ target[c] \notin removed /\ pc'[c] # "storeID" =>
                                 threadID[target[c]] = found'[c].id
      PROVE  Resolved' /\ HasItsID'
  BY <1>1, <1>3 DEF Resolved, HasItsID, Storing
<1>4. CASE \/ CheckRegistered(c) \/ ReadID(c) \/ InsertThrows(c) \/ LockConfiguration(c)
           \/ AttachTask(c) \/ Configure(c)
  <2>1. UNCHANGED <<threadID, registered, removed, records>>
    BY <1>4 DEF CheckRegistered, ReadID, InsertThrows, LockConfiguration, AttachTask, Configure
  <2>2. ~Storing(c)'
    BY <1>4 DEF CheckRegistered, AfterEnsure, ReadID, InsertThrows, LockConfiguration, AttachTask,
                Configure, Storing, TypeInv, TypeOK
  <2>3. QED
    BY <1>3, <2>1, <2>2
<1>5. CASE Lookup(c)
  <2>1. UNCHANGED <<threadID, registered, removed, records>>
    BY <1>5 DEF Lookup
  <2>2. Storing(c)' => pc'[c] = "storeID" /\ \E r \in Existing(target[c]) : found'[c] = r
    BY <1>5 DEF Lookup, AfterAdd, Storing, TypeInv, TypeOK
  <2>3. QED
    BY <1>3, <2>1, <2>2 DEF Existing
<1>6. CASE Insert(c)
  <2>1. UNCHANGED <<threadID, registered, removed>>
    BY <1>6 DEF Insert
  <2>2. records \subseteq records' /\ found'[c] \in records' /\ found'[c].thread = target[c]
    BY <1>6, Inserted DEF Existing, TypeInv, TypeOK
  <2>3. Storing(c)' => pc'[c] = "storeID"
    BY <1>6 DEF Insert, AfterAdd, Storing, TypeInv, TypeOK
  <2>4. QED
    BY <1>3, <2>1, <2>2, <2>3
<1>7. CASE StoreID(c)
  <2>1. /\ UNCHANGED <<registered, removed, records, found>> /\ Storing(c) /\ pc[c] = "storeID"
        /\ threadID' = [threadID EXCEPT ![target[c]] = found[c].id]
    BY <1>7 DEF StoreID, Storing
  <2>2. \A r \in records : r.thread = target[c] /\ target[c] \notin removed =>
          threadID'[target[c]] = r.id
    BY <1>2, <2>1 DEF Resolved, UniqueRecords, TypeInv, TypeOK
  <2>3. \A th \in Threads \ {target[c]} : threadID'[th] = threadID[th]
    BY <2>1 DEF TypeInv, TypeOK
  <2>4. \A d \in Callers : Storing(d)' => Storing(d)
    BY <1>1, <2>1 DEF Storing
  <2>5. Resolved'
    <3> SUFFICES ASSUME NEW d \in Callers, Storing(d)', target[d] \notin removed
                 PROVE  /\ found[d] \in records /\ found[d].thread = target[d]
                        /\ pc'[d] # "storeID" => threadID'[target[d]] = found[d].id
      BY <1>1, <2>1 DEF Resolved
    <3>1. found[d] \in records /\ found[d].thread = target[d] /\ target[d] \in Threads
      BY <1>2, <2>4 DEF Resolved
    <3>2. CASE target[d] = target[c]
      BY <2>2, <3>1, <3>2
    <3>3. CASE target[d] # target[c]
      BY <1>1, <2>3, <2>4, <3>1, <3>3 DEF Resolved
    <3>4. QED
      BY <3>2, <3>3
  <2>6. HasItsID'
    <3> SUFFICES ASSUME NEW th \in Threads, registered[th], th \notin removed
                 PROVE  \E r \in records : r.thread = th /\ threadID'[th] = r.id
      BY <2>1 DEF HasItsID
    <3>1. PICK r \in records : r.thread = th /\ threadID[th] = r.id
      BY DEF HasItsID
    <3>2. threadID'[th] = r.id
      BY <2>2, <2>3, <3>1
    <3>3. QED
      BY <3>1, <3>2
  <2>7. QED
    BY <2>5, <2>6
<1>8. CASE SetCore(c)
  <2>1. UNCHANGED <<threadID, registered, removed, records, found>> /\ pc[c] = "setCore"
    BY <1>8 DEF SetCore
  <2>2. Storing(c)' /\ target[c] \notin removed =>
          found[c] \in records /\ found[c].thread = target[c] /\ threadID[target[c]] = found[c].id
    BY <2>1 DEF Resolved, Storing
  <2>3. QED
    BY <1>1, <2>1, <2>2 DEF Resolved, HasItsID, Storing
<1>9. CASE SetRegistered(c)
  <2>1. /\ UNCHANGED <<threadID, removed, records, found>> /\ pc[c] = "setRegistered"
        /\ registered' = [registered EXCEPT ![target[c]] = TRUE]
        /\ Storing(c) /\ ~Storing(c)'
    BY <1>9 DEF SetRegistered, AfterEnsure, Storing, TypeInv, TypeOK
  <2>2. Resolved'
    BY <1>1, <2>1 DEF Resolved, Storing
  <2>3. target[c] \notin removed =>
          \E r \in records : r.thread = target[c] /\ threadID[target[c]] = r.id
    BY <2>1 DEF Resolved
  <2>4. HasItsID'
    BY <1>2, <2>1, <2>3 DEF HasItsID, TypeInv, TypeOK
  <2>5. QED
    BY <2>2, <2>4
<1>10. CASE Remove(c)
  <2>1. /\ UNCHANGED <<threadID, found>> /\ ~Storing(c)' /\ removed \subseteq removed'
        /\ \A r \in records : r.thread \notin removed' => r \in records'
        /\ \A th \in Threads : registered'[th] => registered[th]
    BY <1>10 DEF Remove, Storing, TypeInv, TypeOK
  <2>2. Resolved'
    BY <1>1, <2>1 DEF Resolved, Storing
  <2>3. HasItsID'
    BY <2>1 DEF HasItsID
  <2>4. QED
    BY <2>2, <2>3
<1>11. QED
  BY <1>4, <1>5, <1>6, <1>7, <1>8, <1>9, <1>10 DEF CallerStep

(* A registered Thread reports the ID of its record, however many tasks    *)
(* resolved that record at once and in whatever order they stored it.      *)
THEOREM IdentitiesAgree == Spec => []IdentityAgrees
<1>1. Init => IdentityInv
  BY InitType DEF Init, IdentityInv, UniqueRecords, Resolved, HasItsID, Storing
<1>2. IdentityInv /\ UniqueRecords' /\ [Next]_vars => IdentityInv'
  <2> SUFFICES ASSUME IdentityInv, UniqueRecords', [Next]_vars
               PROVE  Resolved' /\ HasItsID'
    BY TypeStep DEF IdentityInv
  <2>1. ASSUME UNCHANGED <<records, registered, threadID, removed, found>>,
               \A d \in Callers : Storing(d)' =>
                 Storing(d) /\ pc'[d] = pc[d] /\ target'[d] = target[d]
        PROVE  Resolved' /\ HasItsID'
    BY <2>1 DEF IdentityInv, Resolved, HasItsID
  <2>2. ASSUME NEW c \in Callers, NEW o \in Operations, Begin(c, o)
        PROVE  Resolved' /\ HasItsID'
    <3>1. ~Storing(c)'
      BY <2>2, FirstStepType DEF Begin, Step, Goto, Storing, IdentityInv, TypeInv, TypeOK
    <3>2. /\ UNCHANGED <<records, registered, threadID, removed, found>>
          /\ \A d \in Callers \ {c} : pc'[d] = pc[d] /\ target'[d] = target[d]
      BY <2>2, Begun DEF IdentityInv
    <3>3. QED
      BY <2>1, <3>1, <3>2 DEF Storing
  <2>3. ASSUME NEW th \in Threads, DeleteTask(th)
        PROVE  Resolved' /\ HasItsID'
    BY <2>1, <2>3 DEF DeleteTask, Storing, registryVars, historyVars, callVars
  <2>4. CASE UNCHANGED vars
    BY <2>1, <2>4 DEF vars, Storing, registryVars, threadVars, historyVars, callVars
  <2>5. QED
    BY <2>2, <2>3, <2>4, IdentityCallerStep DEF Next, Quiet
<1>3. IdentityInv => IdentityAgrees
  BY DEF IdentityInv, IdentityAgrees, HasItsID, UniqueRecords, TypeInv, RecordsOfThreads
<1>4. QED
  BY <1>1, <1>2, <1>3, RecordsAreUnique, PTL DEF Spec

-----------------------------------------------------------------------------
(* As long as nothing is removed, every core has k records, and those      *)
(* before the next in turn have one more.                                  *)
OnCore(p) == {r \in records : r.core = p}
Turns(k) ==
  \A p \in Cores : Cardinality(OnCore(p)) = IF p < nextCore THEN k + 1 ELSE k
InTurn == removed = {} => \E k \in Nat : Turns(k)

LEMMA TurnTaken ==
  ASSUME TypeInv, IsFiniteSet(records), NEW k \in Nat, Turns(k), NEW new \in Record,
         new \notin records, new.core = nextCore, records' = records \cup {new},
         nextCore' = NextCore
  PROVE  \E l \in Nat : Turns(l)'
<1>1. \A p \in Cores : IsFiniteSet(OnCore(p))
  BY FS_Subset DEF OnCore
<1>2. nextCore \in Cores /\ nextCore \in Nat /\ CoreCount \in Nat \ {0} /\ nextCore < CoreCount
  BY BoundsAssumption DEF TypeInv, TypeOK, Cores
<1>3. /\ OnCore(nextCore)' = {r \in records' : r.core = nextCore'}
      /\ \A p \in Cores : {r \in records' : r.core = p} =
           IF p = nextCore THEN OnCore(p) \cup {new} ELSE OnCore(p)
  BY DEF OnCore
<1>4. Cardinality({r \in records' : r.core = nextCore}) = k + 1
  <2>1. Cardinality(OnCore(nextCore)) = k /\ IsFiniteSet(OnCore(nextCore))
    BY <1>1, <1>2 DEF Turns
  <2>2. new \notin OnCore(nextCore)
    BY DEF OnCore
  <2>3. Cardinality(OnCore(nextCore) \cup {new}) = k + 1
    BY <2>1, <2>2, FS_AddElement
  <2>4. QED
    BY <1>2, <1>3, <2>3
<1>5. \A p \in Cores \ {nextCore} :
        Cardinality({r \in records' : r.core = p}) = IF p < nextCore THEN k + 1 ELSE k
  BY <1>3 DEF Turns
<1>6. CASE nextCore + 1 < CoreCount
  <2>1. nextCore' = nextCore + 1
    BY <1>2, <1>6 DEF NextCore
  <2>2. ASSUME NEW p \in Cores
        PROVE  Cardinality({r \in records' : r.core = p}) = IF p < nextCore' THEN k + 1 ELSE k
    <3>1. CASE p = nextCore
      BY <1>2, <1>4, <2>1, <3>1
    <3>2. CASE p # nextCore
      <4>1. p < nextCore' <=> p < nextCore
        BY <1>2, <2>1, <3>2 DEF Cores
      <4>2. QED
        BY <1>5, <3>2, <4>1
    <3>3. QED
      BY <3>1, <3>2
  <2>3. QED
    BY <2>2 DEF Turns, OnCore
<1>7. CASE nextCore + 1 = CoreCount
  <2>1. nextCore' = 0
    BY <1>2, <1>7 DEF NextCore
  <2>2. ASSUME NEW p \in Cores
        PROVE  Cardinality({r \in records' : r.core = p}) =
                 IF p < nextCore' THEN (k + 1) + 1 ELSE k + 1
    BY <1>2, <1>4, <1>5, <1>7, <2>1 DEF Cores
  <2>3. k + 1 \in Nat /\ Turns(k + 1)'
    BY <2>2 DEF Turns, OnCore
  <2>4. QED
    BY <2>3
<1>8. QED
  BY <1>2, <1>6, <1>7

(* As long as nothing is removed, no core has two records more than        *)
(* another: a repeated or failed registration does not take a turn.        *)
THEOREM CoresTakeTurns == Spec => []CoresInTurn
<1> DEFINE Inv == IsFiniteSet(records) /\ InTurn
<1>1. Init => Inv
  <2> SUFFICES ASSUME Init PROVE Inv
    OBVIOUS
  <2>1. records = {} /\ nextCore = 0
    BY DEF Init
  <2>2. \A p \in Cores : OnCore(p) = {}
    BY <2>1 DEF OnCore
  <2>3. Turns(0)
    BY <2>1, <2>2, FS_EmptySet, BoundsAssumption DEF Turns, Cores
  <2>4. QED
    BY <2>1, <2>3, FS_EmptySet DEF InTurn
<1>2. TypeInv /\ Inv /\ [Next]_vars => Inv'
  <2> SUFFICES ASSUME TypeInv, Inv, [Next]_vars
               PROVE  Inv'
    OBVIOUS
  <2>1. CASE records' = records /\ nextCore' = nextCore /\ (removed' = {} => removed = {})
    BY <2>1 DEF InTurn, Turns, OnCore
  <2>2. ASSUME NEW c \in Callers, Insert(c)
        PROVE  Inv'
    <3>1. removed' = removed
      BY <2>2 DEF Insert, threadVars, historyVars
    <3>2. CASE records' = records /\ nextCore' = nextCore
      BY <2>1, <3>1, <3>2
    <3>3. CASE ~(records' = records /\ nextCore' = nextCore)
      <4> DEFINE new == [id |-> RecordID(c), thread |-> target[c], core |-> nextCore]
      <4>1. /\ Existing(target[c]) = {} /\ RecordID(c) \in Free
            /\ records' = records \cup {new} /\ nextCore' = NextCore
        BY <2>2, <3>3, Inserted
      <4>2. target[c] \in Threads
        BY <2>2 DEF Insert, Step, TypeInv, OpAt, Busy
      <4>3. new \in Record /\ new.core = nextCore /\ new \notin records
        BY <4>1, <4>2 DEF Record, Free, Existing, TypeInv, TypeOK
      <4>4. IsFiniteSet(records')
        BY <4>1, FS_AddElement
      <4>5. removed = {} => \E l \in Nat : Turns(l)'
        BY <4>1, <4>3, TurnTaken DEF InTurn
      <4>6. QED
        BY <3>1, <4>4, <4>5 DEF InTurn
    <3>4. QED
      BY <3>2, <3>3
  <2>3. ASSUME NEW c \in Callers, Remove(c)
        PROVE  Inv'
    <3>1. /\ records' \subseteq records /\ nextCore' = nextCore
          /\ removed' = removed \cup {r.thread : r \in records \ records'}
      BY <2>3 DEF Remove
    <3>2. IsFiniteSet(records')
      BY <3>1, FS_Subset
    <3>3. CASE records' = records
      BY <2>1, <3>1, <3>3
    <3>4. CASE records' # records
      BY <3>1, <3>2, <3>4 DEF InTurn
    <3>5. QED
      BY <3>3, <3>4
  <2>4. QED
    BY <2>1, <2>2, <2>3, RegistryFrame
<1>3. TypeInv /\ Inv => CoresInTurn
  BY DEF InTurn, Turns, OnCore, CoresInTurn, Cores
<1>4. QED
  BY <1>1, <1>2, <1>3, InitType, TypeStep, PTL DEF Spec
=============================================================================
