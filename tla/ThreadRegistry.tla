--------------------------- MODULE ThreadRegistry ---------------------------
(***************************************************************************)
(* Identity in the ThreadManager: how a Thread gets its record, its unique *)
(* ID and its core, how the record and the Thread's own copy of both come  *)
(* to agree, and how the core a task runs on is fixed when the task is     *)
(* created.  Callers race to register, initialise, configure and remove.   *)
(***************************************************************************)
EXTENDS Naturals, FiniteSets

CONSTANTS
  Threads,    \* objects, each constructed and destroyed at most once
  Deferred,   \* Threads made with the deferred registration policy
  NoThread,   \* no Thread
  Callers,    \* tasks
  NoCaller,   \* holder of a free mutex
  Calls,      \* Calls[c]: the operations caller c may call
  MaxCalls,   \* bound: operations each caller performs
  MaxID,      \* the largest uint8_t
  CoreCount   \* what _getCoreCount returns

IDs == 0 .. MaxID
Cores == 0 .. CoreCount - 1
NoCore == CoreCount
Operations == {"Construct", "Initialize", "AddThread", "RemoveThread", "RemoveID",
               "SetCoreID", "Destroy"}

ASSUME CallersAssumption == NoCaller \notin Callers /\ Calls \in [Callers -> SUBSET Operations]
ASSUME ThreadsAssumption == Deferred \subseteq Threads /\ NoThread \notin Threads
ASSUME BoundsAssumption == MaxCalls \in Nat /\ MaxID \in Nat /\ CoreCount \in Nat \ {0}

VARIABLES
  records,      \* _threads: the registered [id, thread, core]
  nextCore,     \* _nextCoreID
  life,         \* life[th]: "absent", "live" or "gone"
  registered,   \* registered[th]: _registered
  threadID,     \* threadID[th]: _threadID
  coreID,       \* coreID[th]: _coreID
  configMutex,  \* configMutex[th]: holder of _taskConfigurationMutex
  taskCore,     \* taskCore[th]: core of the attached task, NoCore if none
  chosen,       \* history: the core the application last asked for
  added,        \* history: the Threads passed to AddThread by the application
  removed,      \* history: the Threads whose record was ever removed
  pc, op, calls, \* each caller: next step, operation, operations performed
  target,       \* each caller: the Thread its operation is about
  request,      \* each caller: the ID it asks the registry for
  found         \* each caller: the record AddThread resolved

historyVars == <<chosen, added, removed>>
threadVars == <<life, registered, threadID, coreID, configMutex, taskCore, historyVars>>
registryVars == <<records, nextCore>>
callVars == <<op, calls, target>>
vars == <<registryVars, threadVars, pc, callVars, request, found>>

Record == [id : IDs, thread : Threads \cup {NoThread}, core : Cores]
NoRecord == [id |-> 0, thread |-> NoThread, core |-> 0]
AnyID == MaxID + 1   \* the manager is to assign the ID

Labels == {"idle", "check", "lookup", "readID", "insert", "storeID", "setCore",
           "setRegistered", "lock", "attach", "remove", "configure"}

TypeOK ==
  /\ records \subseteq Record /\ nextCore \in Cores
  /\ life \in [Threads -> {"absent", "live", "gone"}]
  /\ registered \in [Threads -> BOOLEAN]
  /\ threadID \in [Threads -> IDs] /\ coreID \in [Threads -> Cores]
  /\ configMutex \in [Threads -> Callers \cup {NoCaller}]
  /\ taskCore \in [Threads -> Cores \cup {NoCore}]
  /\ chosen \in [Threads -> Cores \cup {NoCore}]
  /\ added \subseteq Threads /\ removed \subseteq Threads
  /\ pc \in [Callers -> Labels] /\ op \in [Callers -> Operations]
  /\ calls \in [Callers -> 0 .. MaxCalls]
  /\ target \in [Callers -> Threads \cup {NoThread}]
  /\ request \in [Callers -> IDs \cup {AnyID}]
  /\ found \in [Callers -> Record]

Init ==
  /\ records = {} /\ nextCore = 0
  /\ life = [th \in Threads |-> "absent"]
  /\ registered = [th \in Threads |-> FALSE]
  /\ threadID = [th \in Threads |-> 0] /\ coreID = [th \in Threads |-> 0]
  /\ configMutex = [th \in Threads |-> NoCaller]
  /\ taskCore = [th \in Threads |-> NoCore] /\ chosen = [th \in Threads |-> NoCore]
  /\ added = {} /\ removed = {}
  /\ pc = [c \in Callers |-> "idle"] /\ op = [c \in Callers |-> "RemoveID"]
  /\ calls = [c \in Callers |-> 0]
  /\ target = [c \in Callers |-> NoThread]
  /\ request = [c \in Callers |-> AnyID]
  /\ found = [c \in Callers |-> NoRecord]

-----------------------------------------------------------------------------
Goto(c, to) == pc' = [pc EXCEPT ![c] = to]
Step(c, from, to) == pc[c] = from /\ Goto(c, to)

FirstStep ==
  [Construct |-> "check", Initialize |-> "check", AddThread |-> "lookup",
   RemoveThread |-> "remove", RemoveID |-> "remove", SetCoreID |-> "configure",
   Destroy |-> "remove"]

InUse(th) == \E c \in Callers : pc[c] # "idle" /\ target[c] = th

(* A Thread is constructed and destroyed by one task, with no other call   *)
(* on it in progress; every other call is on a live Thread.                *)
MayCall(o, th) ==
  CASE o = "Construct" -> life[th] = "absent" /\ ~InUse(th)
    [] o = "Destroy"   -> life[th] = "live" /\ ~InUse(th) /\ taskCore[th] = NoCore
    [] o = "RemoveID"  -> th = NoThread
    [] OTHER           -> life[th] = "live"

(* Constructing a Thread registers it, unless its registration is deferred *)
(* until Initialize().                                                     *)
Begin(c, o) ==
  /\ calls[c] < MaxCalls /\ o \in Calls[c]
  /\ \E th \in Threads \cup {NoThread} :
       /\ th = NoThread => o = "RemoveID"
       /\ MayCall(o, th) /\ ~(\E d \in Callers : pc[d] # "idle" /\ target[d] = th
                                                 /\ op[d] \in {"Construct", "Destroy"})
       /\ target' = [target EXCEPT ![c] = th]
       /\ added' = IF o = "AddThread" THEN added \cup {th} ELSE added
       /\ IF o = "Construct" /\ th \in Deferred
          THEN /\ life' = [life EXCEPT ![th] = "live"]
               /\ Step(c, "idle", "idle")
          ELSE Step(c, "idle", FirstStep[o]) /\ UNCHANGED life
  /\ op' = [op EXCEPT ![c] = o]
  /\ calls' = [calls EXCEPT ![c] = @ + 1]
  /\ request' = [request EXCEPT ![c] = AnyID]
  /\ UNCHANGED <<registryVars, registered, threadID, coreID, configMutex, taskCore,
                 chosen, removed, found>>

-----------------------------------------------------------------------------
(* _ensureRegistered() and the AddThread inside it.                        *)
AfterEnsure(c) == IF op[c] = "Construct" THEN "idle" ELSE "lock"
Constructed(c) == IF op[c] = "Construct" THEN [life EXCEPT ![target[c]] = "live"] ELSE life

CheckRegistered(c) ==
  /\ Step(c, "check", IF registered[target[c]] THEN AfterEnsure(c) ELSE "lookup")
  /\ UNCHANGED <<registryVars, threadVars, callVars, request, found>>

(* Under the registry's read lock: is the Thread registered already?       *)
AfterAdd(c) == IF op[c] = "AddThread" THEN "idle" ELSE "storeID"
Existing(th) == {r \in records : r.thread = th}
Lookup(c) ==
  LET existing == Existing(target[c]) IN
  /\ \/ \E r \in existing : /\ found' = [found EXCEPT ![c] = r]
                            /\ Step(c, "lookup", AfterAdd(c))
     \/ /\ existing = {}
        /\ Step(c, "lookup", IF op[c] = "AddThread" THEN "readID" ELSE "insert")
        /\ UNCHANGED found
  /\ UNCHANGED <<registryVars, threadVars, callVars, request>>

(* AddThread(thread) without a place for an assigned ID asks the Thread.   *)
ReadID(c) ==
  /\ Step(c, "readID", "insert")
  /\ request' = [request EXCEPT ![c] = threadID[target[c]]]
  /\ UNCHANGED <<registryVars, threadVars, callVars, found>>

(* The lowest free ID from 1, and 0 when no other is free.                 *)
Free == {i \in IDs : \A r \in records : r.id # i}
AssignedID == IF Free \ {0} = {} THEN 0
              ELSE CHOOSE i \in Free \ {0} : \A j \in Free \ {0} : i <= j

(* Under the write lock: look again, choose the ID and the core, insert;   *)
(* or throw for want of an ID, which ends the call.                        *)
(* Mutant: no second look under the write lock. *)
RegistersAnyway(th) == TRUE
Registers(th) == Existing(th) = {}
RecordID(c) == IF request[c] = AnyID THEN AssignedID ELSE request[c]
(* Mutant: the rotation does not advance. *)
SameCore == nextCore
NextCore == (nextCore + 1) % CoreCount

Insert(c) ==
  LET new == [id |-> RecordID(c), thread |-> target[c], core |-> nextCore] IN
  /\ ~Registers(target[c]) \/ RecordID(c) \in Free
  /\ Step(c, "insert", AfterAdd(c))
  /\ \/ /\ Registers(target[c])
        /\ records' = records \cup {new}
        /\ nextCore' = NextCore
        /\ found' = [found EXCEPT ![c] = new]
     \/ /\ ~Registers(target[c])
        /\ \E r \in Existing(target[c]) : found' = [found EXCEPT ![c] = r]
        /\ UNCHANGED registryVars
  /\ UNCHANGED <<threadVars, callVars, request>>

InsertThrows(c) ==
  /\ Registers(target[c]) /\ RecordID(c) \notin Free
  /\ Step(c, "insert", "idle")
  /\ life' = IF op[c] = "Construct" THEN [life EXCEPT ![target[c]] = "gone"] ELSE life
  /\ UNCHANGED <<registryVars, registered, threadID, coreID, configMutex, taskCore, historyVars,
                 callVars, request, found>>

StoreID(c) ==
  /\ Step(c, "storeID", "setCore")
  /\ threadID' = [threadID EXCEPT ![target[c]] = found[c].id]
  /\ UNCHANGED <<registryVars, life, registered, coreID, configMutex, taskCore, historyVars,
                 callVars, request, found>>

(* SetCoreID: refused while a task is attached.                            *)
(* Mutant: a configuration setter does not take the mutex. *)
ConfiguresAnyway(th) == TRUE
MayConfigure(th) == configMutex[th] = NoCaller
CoreAfterSet(th, core) ==
  IF taskCore[th] = NoCore THEN [coreID EXCEPT ![th] = core] ELSE coreID

SetCore(c) ==
  LET th == target[c] IN
  /\ Step(c, "setCore", "setRegistered")
  /\ MayConfigure(th)
  /\ coreID' = CoreAfterSet(th, found[c].core)
  /\ UNCHANGED <<registryVars, life, registered, threadID, configMutex, taskCore, historyVars,
                 callVars, request, found>>

SetRegistered(c) ==
  /\ Step(c, "setRegistered", AfterEnsure(c))
  /\ registered' = [registered EXCEPT ![target[c]] = TRUE]
  /\ life' = Constructed(c)
  /\ UNCHANGED <<registryVars, threadID, coreID, configMutex, taskCore, historyVars,
                 callVars, request, found>>

-----------------------------------------------------------------------------
(* The rest of Initialize(): with the mutex held from the look at the      *)
(* handle until the task, made for the core read then, is attached.        *)
LockConfiguration(c) ==
  LET th == target[c] IN
  /\ pc[c] = "lock" /\ configMutex[th] = NoCaller
  /\ \/ taskCore[th] # NoCore /\ Goto(c, "idle") /\ UNCHANGED <<configMutex, found>>
     \/ /\ taskCore[th] = NoCore /\ Goto(c, "attach")
        /\ configMutex' = [configMutex EXCEPT ![th] = c]
        /\ found' = [found EXCEPT ![c].core = coreID[th]]
  /\ UNCHANGED <<registryVars, life, registered, threadID, coreID, taskCore, historyVars,
                 callVars, request>>

AttachTask(c) ==
  /\ Step(c, "attach", "idle")
  /\ taskCore' = [taskCore EXCEPT ![target[c]] = found[c].core]
  /\ configMutex' = [configMutex EXCEPT ![target[c]] = NoCaller]
  /\ UNCHANGED <<registryVars, life, registered, threadID, coreID, historyVars,
                 callVars, request, found>>

(* The worker exits and its task is deleted.                               *)
DeleteTask(th) ==
  /\ taskCore[th] # NoCore
  /\ taskCore' = [taskCore EXCEPT ![th] = NoCore]
  /\ UNCHANGED <<registryVars, life, registered, threadID, coreID, configMutex, historyVars,
                 pc, callVars, request, found>>

(* The application's SetCoreID.                                            *)
Configure(c) ==
  LET th == target[c] IN
  /\ Step(c, "configure", "idle")
  /\ MayConfigure(th)
  /\ \E core \in Cores :
       /\ coreID' = CoreAfterSet(th, core)
       /\ chosen' = IF taskCore[th] = NoCore THEN [chosen EXCEPT ![th] = core] ELSE chosen
  /\ UNCHANGED <<registryVars, added, removed, life, registered, threadID, configMutex, taskCore,
                 callVars, request, found>>

(* RemoveThread by pointer or by ID, and the destructor, which removes the *)
(* record only if the Thread believes it is registered.                    *)
(* Mutant: the destructor leaves its record. *)
RemovedByCallOnly(c) == IF op[c] = "RemoveThread" THEN Existing(target[c]) ELSE {}
Removed(c) ==
  CASE op[c] = "RemoveThread" -> Existing(target[c])
    [] op[c] = "Destroy" -> IF registered[target[c]] THEN Existing(target[c]) ELSE {}
    [] OTHER -> {}

Remove(c) ==
  /\ Step(c, "remove", "idle")
  /\ \/ op[c] # "RemoveID" /\ records' = records \ Removed(c)
     \/ op[c] = "RemoveID" /\ \E i \in IDs : records' = {r \in records : r.id # i}
  /\ \/ op[c] = "Destroy" /\ life' = [life EXCEPT ![target[c]] = "gone"]
        /\ registered' = [registered EXCEPT ![target[c]] = FALSE]
     \/ op[c] # "Destroy" /\ UNCHANGED <<life, registered>>
  /\ removed' = removed \cup {r.thread : r \in records \ records'}
  /\ UNCHANGED <<nextCore, threadID, coreID, configMutex, taskCore, chosen, added,
                 callVars, request, found>>

CallerStep(c) ==
  \/ CheckRegistered(c) \/ Lookup(c) \/ ReadID(c) \/ Insert(c) \/ InsertThrows(c)
  \/ StoreID(c) \/ SetCore(c) \/ SetRegistered(c)
  \/ LockConfiguration(c) \/ AttachTask(c) \/ Configure(c) \/ Remove(c)

Quiet == (\A c \in Callers : pc[c] = "idle") /\ UNCHANGED vars

Next ==
  \/ \E c \in Callers : (\E o \in Operations : Begin(c, o)) \/ CallerStep(c)
  \/ \E th \in Threads : DeleteTask(th)
  \/ Quiet

Spec == Init /\ [][Next]_vars

-----------------------------------------------------------------------------
(* An ID finds one Thread, and a Thread has one record, however many tasks *)
(* register it at once.                                                    *)
UniqueRecords ==
  \A r, s \in records : r.id = s.id \/ r.thread = s.thread => r = s

(* A Thread that believes it is registered reports the ID of its record,   *)
(* however many tasks registered it: as long as the record was not removed *)
(* and made again while they did.                                          *)
IdentityAgrees ==
  \A r \in records : registered[r.thread] /\ r.thread \notin removed
                        => threadID[r.thread] = r.id

(* As long as nothing is removed, cores are handed out in turn: a failed   *)
(* or a repeated registration does not take a turn.                        *)
CoresInTurn ==
  removed = {} =>
    \A p, q \in Cores : Cardinality({r \in records : r.core = p})
                          <= Cardinality({r \in records : r.core = q}) + 1

(* A task runs on the core its Thread reports.                             *)
RunsWhereReported ==
  \A th \in Threads : taskCore[th] # NoCore => taskCore[th] = coreID[th]

(* The manager is a registry of live Threads.                              *)
RegistryOfLive ==
  \A r \in records : life[r.thread] = "live" \/ InUse(r.thread)

(* A record a Thread made of itself goes when the Thread goes, or when its *)
(* constructor throws.                                                     *)
OwnRecordsOfLive ==
  \A r \in records : r.thread \notin added => life[r.thread] = "live" \/ InUse(r.thread)

(* The manager allocates a core only to a Thread whose core the application *)
(* has not set.                                                            *)
ChosenCoreKept ==
  \A th \in Threads : taskCore[th] # NoCore /\ chosen[th] # NoCore => taskCore[th] = chosen[th]
=============================================================================
