------------------------------- MODULE Thread -------------------------------
(***************************************************************************)
(* One ESPressio Thread object: the client tasks that call its lifecycle   *)
(* operations, the native worker tasks it creates one after the other, and *)
(* the termination dispatcher that deletes a stopped worker and announces  *)
(* its exit.  Each action is one access to the atomics, signals and mutex  *)
(* the three of them share, so every interleaving the code allows appears. *)
(*                                                                         *)
(* Left out: the callbacks' own effects (they run inside an action), the   *)
(* manager's cleanup claim (ThreadManager), task names and sizes, and the  *)
(* exits of other Threads, which compete for the same dispatcher           *)
(* (TerminationDispatcher).                                                *)
(***************************************************************************)
EXTENDS Naturals, ThreadStates

CONSTANTS
  Clients,     \* tasks, other than the worker, that call the operations
  NoClient,    \* nobody: the holder of a free mutex
  Calls,       \* Calls[c]: the operations client c may call
  MaxTasks,    \* bound: native tasks created over the object's life
  Faults       \* platform failures allowed: "give", "wait", "send", and
               \* "ensure": the dispatcher cannot be created

Operations == {"Initialize", "Start", "Pause", "Terminate", "Shutdown", "Destroy"}
NoTask == 0                     \* InvalidExecutionHandle
Tasks == 1 .. MaxTasks

ASSUME CallsAssumption == Calls \in [Clients -> SUBSET Operations]
ASSUME NoClientAssumption == NoClient \notin Clients
ASSUME MaxTasksAssumption == MaxTasks \in Nat

VARIABLES
  state,       \* _threadState
  handle,      \* _taskHandle
  pending,     \* _terminationDispatchPending
  finalizing,  \* _taskExitFinalizationStarted
  exited,      \* the binary signal _taskExited
  gate,        \* the binary signal _taskStartGate
  configMutex, \* holder of _taskConfigurationMutex
  dispatchMutex, \* holder of the dispatcher's _initializationMutex
  created,     \* how many native tasks Create has returned
  worker,      \* worker[t]: where native task t is
  records,     \* this Thread's records in the dispatcher's queue
  dispatcher,  \* where the dispatcher is in _dispatchTermination
  taken,       \* the handle the dispatcher's _deleteTask exchanged out
  pc, op, held, \* each client: its next step, its call, its local handle
  alive        \* the destructor has not returned

signals == <<exited, gate>>
exitVars == <<pending, finalizing, records>>
mutexes == <<configMutex, dispatchMutex>>
taskVars == <<handle, created, worker>>
dispatcherVars == <<dispatcher, taken>>
clientVars == <<pc, op, held>>
vars == <<state, exitVars, signals, mutexes, taskVars, dispatcherVars,
          clientVars, alive>>

ClientLabels ==
  {"idle",
   "checkHandle", "checkPending", "checkAvailable", "checkState", "reset", "lock", "prepare",
   "create", "attach", "onInitialization", "checkAborted", "setInitialized",
   "checkPublished", "setRunning", "openGate", "unwind", "unwindSet",
   "detach", "kill", "claimExit", "setPending",
   "send", "ensured", "locked", "sent", "refused",
   "readStart", "startRun", "pause",
   "readState", "setTerminating", "setTerminated", "requestStop",
   "loadHandle", "inspect", "force", "awaitExit",
   "awaitDispatch", "askTask", "poll",
   "awaitDestructor", "askAgain", "pollAgain", "setDestroyed"}

WorkerLabels ==
  {"none", "gated", "loop", "body", "claimExit", "settle", "setPending",
   "send", "ensured", "locked", "sent", "refused", "queued", "suspended", "deleted"}

DispatcherLabels == {"receive", "detach", "kill", "notify", "give", "clear"}

(* A native task that still executes, or may execute, the Thread's code.   *)
Executing == {"gated", "loop", "body", "claimExit", "settle", "setPending",
              "send", "ensured", "locked", "refused"}

TypeOK ==
  /\ state \in ThreadState
  /\ handle \in 0 .. MaxTasks
  /\ pending \in BOOLEAN /\ finalizing \in BOOLEAN /\ records \in Nat
  /\ exited \in BOOLEAN /\ gate \in BOOLEAN
  /\ configMutex \in Clients \cup {NoClient}
  /\ dispatchMutex \in Clients \cup Tasks \cup {NoTask}
  /\ created \in 0 .. MaxTasks
  /\ worker \in [Tasks -> WorkerLabels]
  /\ dispatcher \in DispatcherLabels /\ taken \in 0 .. MaxTasks
  /\ pc \in [Clients -> ClientLabels]
  /\ op \in [Clients -> Operations]
  /\ held \in [Clients -> 0 .. MaxTasks]
  /\ alive \in BOOLEAN

Init ==
  /\ state = "Uninitialized" /\ handle = NoTask
  /\ pending = FALSE /\ finalizing = FALSE /\ records = 0
  /\ exited = FALSE /\ gate = FALSE
  /\ configMutex = NoClient /\ dispatchMutex = NoTask
  /\ created = 0 /\ worker = [t \in Tasks |-> "none"]
  /\ dispatcher = "receive" /\ taken = NoTask
  /\ pc = [c \in Clients |-> "idle"]
  /\ op = [c \in Clients |-> "Pause"]
  /\ held = [c \in Clients |-> NoTask]
  /\ alive = TRUE

-----------------------------------------------------------------------------
(* Moving a client, a worker or the dispatcher from one step to the next.  *)
At(c, from) == pc[c] = from
Goto(c, to) == pc' = [pc EXCEPT ![c] = to]
Step(c, from, to) == At(c, from) /\ Goto(c, to)
WorkerStep(t, from, to) == worker[t] = from /\ worker' = [worker EXCEPT ![t] = to]
DispatcherStep(from, to) == dispatcher = from /\ dispatcher' = to

(* The owner's part of the contract: no call overlaps the destructor.      *)
Retiring == \E c \in Clients : op[c] = "Destroy" /\ pc[c] # "idle"

FirstStep ==
  [Initialize |-> "checkHandle", Start |-> "readStart", Pause |-> "pause",
   Terminate |-> "readState", Shutdown |-> "loadHandle", Destroy |-> "loadHandle"]

Begin(c, o) ==
  /\ alive /\ ~Retiring /\ o \in Calls[c]
  /\ o = "Destroy" => \A d \in Clients : pc[d] = "idle"
  /\ Step(c, "idle", FirstStep[o])
  /\ op' = [op EXCEPT ![c] = o]
  /\ UNCHANGED <<state, exitVars, signals, mutexes, taskVars,
                 dispatcherVars, held, alive>>

(* A step that only reads shared state.                                    *)
Reads == UNCHANGED <<state, exitVars, signals, mutexes, taskVars,
                     dispatcherVars, op, held, alive>>
(* A step that changes only the lifecycle state.                           *)
SetsState(new) ==
  /\ state' = new
  /\ UNCHANGED <<exitVars, signals, mutexes, taskVars, dispatcherVars,
                 op, held, alive>>

(* Terminate() called by the task that is initialising, or by the worker:  *)
(* its read and its writes are one step here, two for every other caller.  *)
AfterTerminate(s) ==
  CASE s = "Uninitialized" -> "Terminated"
    [] s \in Terminable \ {"Uninitialized"} -> "Terminating"
    [] OTHER -> s

-----------------------------------------------------------------------------
(* Initialize().  A check that refuses returns to the caller.              *)

MayInitialize == handle = NoTask
CheckHandle(c) ==
  /\ At(c, "checkHandle")
  /\ Goto(c, IF MayInitialize THEN "checkPending" ELSE "idle")
  /\ Reads

(* Mutant: initialises while the last exit is still being announced. *)
DispatchUnchecked == TRUE
DispatchDone == ~pending
CheckPending(c) ==
  /\ At(c, "checkPending")
  /\ Goto(c, IF DispatchDone THEN "checkAvailable" ELSE "idle")
  /\ Reads

(* The dispatcher looks at itself under its mutex, and creates itself the  *)
(* first time.                                                             *)
DispatcherFree == dispatchMutex = NoTask
CheckAvailable(c) ==
  /\ DispatcherFree
  /\ \/ Step(c, "checkAvailable", "checkState")
     \/ created = 0 /\ "ensure" \in Faults /\ Step(c, "checkAvailable", "idle")
  /\ Reads

CheckState(c) ==
  /\ At(c, "checkState")
  /\ Goto(c, CASE state = "Terminated" -> "reset"
               [] state = "Uninitialized" -> "lock"
               [] OTHER -> "idle")
  /\ Reads

(* A terminated Thread may be used again.                                  *)
ResetState(c) ==
  /\ At(c, "reset")
  /\ Goto(c, IF state = "Terminated" THEN "lock" ELSE "idle")
  /\ SetsState(AfterTrySet(state, "Terminated", "Uninitialized"))

(* Takes _taskConfigurationMutex and looks at the handle again: another    *)
(* client may have attached a task since checkHandle.                      *)
(* Mutant: no second look at the handle. *)
CreatesAnyway == TRUE
MayCreate == handle = NoTask
LockConfiguration(c) ==
  /\ configMutex = NoClient
  /\ \/ /\ MayCreate
        /\ Step(c, "lock", "prepare")
        /\ configMutex' = c
     \/ /\ ~MayCreate
        /\ Step(c, "lock", "idle")
        /\ UNCHANGED configMutex
  /\ UNCHANGED <<state, exitVars, signals, dispatchMutex, taskVars, dispatcherVars,
                 op, held, alive>>

(* Mutant: the exit of the next worker is never claimed. *)
ClaimKept == TRUE
Rearmed == FALSE
Prepare(c) ==
  /\ Step(c, "prepare", "create")
  /\ exited' = FALSE /\ gate' = FALSE /\ finalizing' = Rearmed
  /\ UNCHANGED <<state, pending, records, mutexes, taskVars, dispatcherVars,
                 op, held, alive>>

(* The new task starts waiting at the gate.  Creation may always fail.     *)
CreateTask(c) ==
  /\ created < MaxTasks
  /\ Step(c, "create", "attach")
  /\ created' = created + 1
  /\ worker' = [worker EXCEPT ![created + 1] = "gated"]
  /\ held' = [held EXCEPT ![c] = created + 1]
  /\ UNCHANGED <<state, exitVars, signals, mutexes, handle, dispatcherVars, op, alive>>

CreateFails(c) ==
  /\ Step(c, "create", "idle")
  /\ configMutex' = NoClient
  /\ UNCHANGED <<state, exitVars, signals, dispatchMutex, taskVars, dispatcherVars, op, held, alive>>

(* The compare-exchange that publishes the task; losing it deletes the     *)
(* task just created and returns ConcurrentInitializationLost.             *)
AttachTask(c) ==
  /\ At(c, "attach")
  /\ Goto(c, IF handle = NoTask THEN "onInitialization" ELSE "idle")
  /\ handle' = IF handle = NoTask THEN held[c] ELSE handle
  /\ worker' = IF handle = NoTask THEN worker
               ELSE [worker EXCEPT ![held[c]] = "deleted"]
  /\ configMutex' = NoClient
  /\ UNCHANGED <<state, exitVars, signals, dispatchMutex, created, dispatcherVars, op, held, alive>>

(* OnInitialization() returns, asks for termination (Terminate or Shutdown *)
(* from inside it both only call Terminate), or throws.                    *)
OnInitialization(c) ==
  /\ At(c, "onInitialization")
  /\ \/ Goto(c, "checkAborted") /\ Reads
     \/ Goto(c, "checkAborted") /\ SetsState(AfterTerminate(state))
     \/ Goto(c, "unwind") /\ Reads

(* After OnInitialization, and again after Initialized was published.      *)
Aborted == state \in {"Terminating", "Terminated"}
CheckAborted(c) ==
  /\ At(c, "checkAborted")
  /\ Goto(c, IF Aborted THEN "detach" ELSE "setInitialized")
  /\ SetsState(IF Aborted THEN AfterSet(state, "Terminated") ELSE state)

(* A lifecycle callback that throws while initialising unwinds the call.   *)
SetInitialized(c) ==
  LET new == AfterSet(state, "Initialized") IN
  /\ At(c, "setInitialized")
  /\ \/ Goto(c, "checkPublished")
     \/ new # state /\ Goto(c, "unwind")
  /\ SetsState(new)

CheckPublished(c) ==
  /\ At(c, "checkPublished")
  /\ \/ Aborted /\ Goto(c, "detach")
     \/ state = "Initialized" /\ Goto(c, "setRunning")   \* start on initialize
     \/ ~Aborted /\ Goto(c, "openGate")
  /\ SetsState(IF Aborted THEN AfterSet(state, "Terminated") ELSE state)

SetRunning(c) ==
  LET new == AfterSet(state, "Running") IN
  /\ At(c, "setRunning")
  /\ \/ Goto(c, "openGate")
     \/ new # state /\ Goto(c, "unwind")
  /\ SetsState(new)

OpenGate(c) ==
  /\ Step(c, "openGate", IF op[c] = "Start" THEN "startRun" ELSE "idle")
  /\ gate' = TRUE
  /\ UNCHANGED <<state, exitVars, exited, mutexes, taskVars, dispatcherVars,
                 op, held, alive>>

OpenGateFails(c) == "give" \in Faults /\ Step(c, "openGate", "detach") /\ Reads

(* catch (...): Terminate(), then SetThreadState(Terminated).              *)
(* Mutant: a failed initialisation forgets to ask for termination. *)
UnwindSilently(c) == Step(c, "unwind", "unwindSet") /\ Reads
Unwind(c) == Step(c, "unwind", "unwindSet") /\ SetsState(AfterTerminate(state))
UnwindSet(c) == Step(c, "unwindSet", "detach") /\ SetsState(AfterSet(state, "Terminated"))

-----------------------------------------------------------------------------
(* _deleteTask(), run by a client whose initialisation failed and by the   *)
(* destructor: the handle is exchanged out first and deleted after.        *)
DetachTask(c) ==
  /\ Step(c, "detach", "kill")
  /\ held' = [held EXCEPT ![c] = handle]
  /\ handle' = NoTask
  /\ UNCHANGED <<state, exitVars, signals, mutexes, created, worker,
                 dispatcherVars, op, alive>>

WithoutTask(t) == IF t = NoTask THEN worker ELSE [worker EXCEPT ![t] = "deleted"]

KillTask(c) ==
  /\ Step(c, "kill", IF op[c] = "Destroy" THEN "idle" ELSE "claimExit")
  /\ worker' = WithoutTask(held[c])
  /\ alive' = (op[c] # "Destroy")
  /\ UNCHANGED <<state, exitVars, signals, mutexes, handle, created,
                 dispatcherVars, op, held>>

(* _finalizeStoppedTaskExit(): whoever wins the claim queues the record.   *)
ClaimExit(c) ==
  /\ Step(c, "claimExit", IF finalizing THEN "idle" ELSE "setPending")
  /\ finalizing' = TRUE
  /\ UNCHANGED <<state, pending, records, signals, mutexes, taskVars,
                 dispatcherVars, op, held, alive>>

SetPending(c) ==
  /\ Step(c, "setPending", "send")
  /\ pending' = TRUE
  /\ UNCHANGED <<state, finalizing, records, signals, mutexes, taskVars,
                 dispatcherVars, op, held, alive>>

(* Dispatch(): EnsureAvailable takes the dispatcher's mutex and gives it    *)
(* back; then the mutex is held while the queue takes the record, or the   *)
(* platform refuses it, which takes the pending flag back.                 *)
Ensure(c) == DispatcherFree /\ Step(c, "send", "ensured") /\ Reads

Lock(c) ==
  /\ DispatcherFree
  /\ Step(c, "ensured", "locked")
  /\ dispatchMutex' = c
  /\ UNCHANGED <<state, exitVars, signals, configMutex, taskVars, dispatcherVars,
                 op, held, alive>>

Send(c) ==
  /\ \/ Step(c, "locked", "sent") /\ records' = records + 1
     \/ "send" \in Faults /\ Step(c, "locked", "refused") /\ UNCHANGED records
  /\ UNCHANGED <<state, pending, finalizing, signals, mutexes, taskVars,
                 dispatcherVars, op, held, alive>>

Unlock(c) ==
  /\ \/ Step(c, "sent", "idle") /\ UNCHANGED pending
     \/ Step(c, "refused", "idle") /\ pending' = FALSE
  /\ dispatchMutex' = NoTask
  /\ UNCHANGED <<state, finalizing, records, signals, configMutex, taskVars,
                 dispatcherVars, op, held, alive>>

InitializeStep(c) ==
  \/ CheckHandle(c) \/ CheckPending(c) \/ CheckAvailable(c) \/ CheckState(c) \/ ResetState(c)
  \/ LockConfiguration(c) \/ Prepare(c) \/ CreateTask(c) \/ CreateFails(c)
  \/ AttachTask(c) \/ OnInitialization(c) \/ CheckAborted(c)
  \/ SetInitialized(c) \/ CheckPublished(c) \/ SetRunning(c)
  \/ OpenGate(c) \/ OpenGateFails(c) \/ Unwind(c) \/ UnwindSet(c)
  \/ DetachTask(c) \/ KillTask(c) \/ ClaimExit(c) \/ SetPending(c)
  \/ Ensure(c) \/ Lock(c) \/ Send(c) \/ Unlock(c)

-----------------------------------------------------------------------------
(* Start() and Pause().                                                    *)
ReadStart(c) ==
  LET fresh == state \in {"Uninitialized", "Terminated"} IN
  /\ At(c, "readStart")
  /\ Goto(c, IF fresh THEN "checkHandle" ELSE "idle")
  /\ SetsState(IF state \in {"Initialized", "Paused"} THEN "Running" ELSE state)

StartRun(c) ==
  /\ Step(c, "startRun", "idle")
  /\ SetsState(AfterTrySet(state, "Initialized", "Running"))

Pause(c) ==
  /\ Step(c, "pause", "idle")
  /\ SetsState(AfterTrySet(state, "Running", "Paused"))

(* Terminate() reads the state and then sets it: what it found may be gone *)
(* by the time it writes.                                                  *)
AfterTermination(c) ==
  IF op[c] = "Terminate" THEN "idle"
  ELSE IF held[c] = NoTask THEN "force" ELSE "awaitExit"

ReadState(c) ==
  /\ At(c, "readState")
  /\ Goto(c, CASE state = "Uninitialized" -> "setTerminating"
               [] state \in Terminable \ {"Uninitialized"} -> "requestStop"
               [] OTHER -> AfterTermination(c))
  /\ Reads

SetTerminating(c) ==
  Step(c, "setTerminating", "setTerminated") /\ SetsState(AfterSet(state, "Terminating"))
SetTerminated(c) ==
  Step(c, "setTerminated", AfterTermination(c)) /\ SetsState(AfterSet(state, "Terminated"))
RequestStop(c) ==
  Step(c, "requestStop", AfterTermination(c)) /\ SetsState(AfterSet(state, "Terminating"))

(* Shutdown(), and the destructor that a caller of Destroy runs after it.  *)
LoadHandle(c) ==
  /\ Step(c, "loadHandle", IF handle = NoTask THEN "inspect" ELSE "readState")
  /\ held' = [held EXCEPT ![c] = handle]
  /\ UNCHANGED <<state, exitVars, signals, mutexes, taskVars, dispatcherVars, op, alive>>

Inspect(c) ==
  /\ At(c, "inspect")
  /\ Goto(c, IF state \in {"Terminated", "Destroyed"} THEN "awaitDispatch" ELSE "readState")
  /\ Reads

ForceTerminated(c) == Step(c, "force", "awaitDispatch") /\ SetsState(AfterSet(state, "Terminated"))

(* Waiting for the exit consumes the signal: it is binary, and released    *)
(* once.                                                                   *)
AwaitExit(c) ==
  /\ exited
  /\ Step(c, "awaitExit", "awaitDispatch")
  /\ exited' = FALSE
  /\ UNCHANGED <<state, exitVars, gate, mutexes, taskVars, dispatcherVars, op, held, alive>>

(* _waitForTerminationDispatch: whoever finds a dispatch pending asks which *)
(* task it is, under the dispatcher's mutex, and, not being the            *)
(* dispatcher, polls.                                                      *)
(* Mutant: nobody waits for the dispatcher. *)
AnnouncementIgnored == TRUE
Announced == ~pending
WaitForDispatch(c, look, ask, poll, after) ==
  /\ \/ Step(c, look, IF Announced THEN after ELSE ask)
     \/ DispatcherFree /\ Step(c, ask, poll)
     \/ Announced /\ Step(c, poll, after)
  /\ Reads

AwaitDispatch(c) ==
  WaitForDispatch(c, "awaitDispatch", "askTask", "poll",
                  IF op[c] = "Destroy" THEN "awaitDestructor" ELSE "idle")

AwaitDestructor(c) ==
  WaitForDispatch(c, "awaitDestructor", "askAgain", "pollAgain", "setDestroyed")

SetDestroyed(c) ==
  Step(c, "setDestroyed", "detach") /\ SetsState(AfterSet(state, "Destroyed"))

ControlStep(c) ==
  \/ ReadStart(c) \/ StartRun(c) \/ Pause(c)
  \/ ReadState(c) \/ SetTerminating(c) \/ SetTerminated(c) \/ RequestStop(c)
  \/ LoadHandle(c) \/ Inspect(c) \/ ForceTerminated(c) \/ AwaitExit(c) \/ AwaitDispatch(c)
  \/ AwaitDestructor(c) \/ SetDestroyed(c)

-----------------------------------------------------------------------------
(* The native task: _taskEntry, _loop and _finalizeCurrentTaskExit.        *)
GateOpens == gate

PassGate(t) ==
  /\ GateOpens
  /\ WorkerStep(t, "gated", "loop")
  /\ gate' = FALSE
  /\ UNCHANGED <<state, exitVars, exited, mutexes, handle, created,
                 dispatcherVars, clientVars, alive>>

GateFails(t) ==
  /\ "wait" \in Faults
  /\ WorkerStep(t, "gated", "claimExit")
  /\ UNCHANGED <<state, exitVars, signals, mutexes, handle, created,
                 dispatcherVars, clientVars, alive>>

(* The loop body runs while Running, sleeps while not, and returns once    *)
(* termination was asked for.                                              *)
(* Mutant: the loop goes on while Terminating. *)
LoopEndsLate == state \in Ending \ {"Terminating"}
LoopEnds == state \in Ending
Loop(t) ==
  /\ \/ state = "Running" /\ WorkerStep(t, "loop", "body")
     \/ LoopEnds /\ WorkerStep(t, "loop", "claimExit")
  /\ UNCHANGED <<state, exitVars, signals, mutexes, handle, created,
                 dispatcherVars, clientVars, alive>>

(* One OnLoop(): it returns, it has paused or terminated its own Thread    *)
(* (Shutdown from inside only terminates), or it throws.                   *)
OnLoop(t) ==
  /\ \/ WorkerStep(t, "body", "loop")
        /\ state' \in {state, AfterTrySet(state, "Running", "Paused"), AfterTerminate(state)}
     \/ WorkerStep(t, "body", "claimExit") /\ state' = AfterTerminate(state)
  /\ UNCHANGED <<exitVars, signals, mutexes, handle, created,
                 dispatcherVars, clientVars, alive>>

WorkerClaimExit(t) ==
  /\ WorkerStep(t, "claimExit", IF finalizing THEN "suspended" ELSE "settle")
  /\ finalizing' = TRUE
  /\ UNCHANGED <<state, pending, records, signals, mutexes, handle, created,
                 dispatcherVars, clientVars, alive>>

Settle(t) ==
  /\ WorkerStep(t, "settle", "setPending")
  /\ state' = AfterTrySet(state, "Terminating", "Terminated")
  /\ UNCHANGED <<exitVars, signals, mutexes, handle, created,
                 dispatcherVars, clientVars, alive>>

WorkerSetPending(t) ==
  /\ WorkerStep(t, "setPending", "send")
  /\ pending' = TRUE
  /\ UNCHANGED <<state, finalizing, records, signals, mutexes, handle, created,
                 dispatcherVars, clientVars, alive>>

(* Dispatch() again, by the task.  As soon as the queue has the record the *)
(* dispatcher may delete the task, before it has unlocked the mutex.       *)
WorkerEnsure(t) ==
  /\ DispatcherFree
  /\ WorkerStep(t, "send", "ensured")
  /\ UNCHANGED <<state, exitVars, signals, mutexes, handle, created,
                 dispatcherVars, clientVars, alive>>

WorkerLock(t) ==
  /\ DispatcherFree
  /\ WorkerStep(t, "ensured", "locked")
  /\ dispatchMutex' = t
  /\ UNCHANGED <<state, exitVars, signals, configMutex, handle, created,
                 dispatcherVars, clientVars, alive>>

WorkerSend(t) ==
  /\ \/ WorkerStep(t, "locked", "sent") /\ records' = records + 1
     \/ "send" \in Faults /\ WorkerStep(t, "locked", "refused") /\ UNCHANGED records
  /\ UNCHANGED <<state, pending, finalizing, signals, mutexes, handle, created,
                 dispatcherVars, clientVars, alive>>

WorkerUnlock(t) ==
  /\ \/ WorkerStep(t, "sent", "queued") /\ UNCHANGED pending
     \/ WorkerStep(t, "refused", "queued") /\ pending' = FALSE
  /\ dispatchMutex' = NoTask
  /\ UNCHANGED <<state, finalizing, records, signals, configMutex, handle, created,
                 dispatcherVars, clientVars, alive>>

(* The task still reports the record to observers and then suspends itself. *)
Suspend(t) ==
  /\ WorkerStep(t, "queued", "suspended")
  /\ UNCHANGED <<state, exitVars, signals, mutexes, handle, created,
                 dispatcherVars, clientVars, alive>>

TaskStep(t) ==
  \/ PassGate(t) \/ GateFails(t) \/ Loop(t) \/ OnLoop(t) \/ WorkerClaimExit(t)
  \/ Settle(t) \/ WorkerSetPending(t) \/ WorkerEnsure(t) \/ WorkerLock(t)
  \/ WorkerSend(t) \/ WorkerUnlock(t) \/ Suspend(t)

-----------------------------------------------------------------------------
(* The dispatcher: one record of this Thread, from Receive to the end of   *)
(* _dispatchTermination.                                                   *)
(* Mutant: the dispatcher acts without a record. *)
RecordAssumed == TRUE
HasRecord == records > 0
Receive ==
  /\ HasRecord
  /\ records' = records - 1
  /\ DispatcherStep("receive", "detach")
  /\ UNCHANGED <<state, pending, finalizing, signals, mutexes, taskVars, taken,
                 clientVars, alive>>

DispatcherDetach ==
  /\ DispatcherStep("detach", "kill")
  /\ taken' = handle
  /\ handle' = NoTask
  /\ UNCHANGED <<state, exitVars, signals, mutexes, created, worker, clientVars, alive>>

(* Deleting a task leaves a mutex it holds locked.                         *)
DispatcherKill ==
  /\ DispatcherStep("kill", "notify")
  /\ worker' = WithoutTask(taken)
  /\ UNCHANGED <<state, exitVars, signals, mutexes, handle, created, taken,
                 clientVars, alive>>

(* OnTerminated and NotifyTaskExited, if the state is Terminated.          *)
Notify ==
  /\ DispatcherStep("notify", "give")
  /\ UNCHANGED <<state, exitVars, signals, mutexes, taskVars, taken, clientVars, alive>>

Give ==
  /\ DispatcherStep("give", "clear")
  /\ exited' = TRUE
  /\ UNCHANGED <<state, exitVars, gate, mutexes, taskVars, taken, clientVars, alive>>

Clear ==
  /\ DispatcherStep("clear", "receive")
  /\ pending' = FALSE
  /\ UNCHANGED <<state, finalizing, records, signals, mutexes, taskVars, taken,
                 clientVars, alive>>

Dispatch == Receive \/ DispatcherDetach \/ DispatcherKill \/ Notify \/ Give \/ Clear

(* Nothing is left to do once the object is gone.                          *)
Gone == ~alive /\ UNCHANGED vars

ClientStep(c) == InitializeStep(c) \/ ControlStep(c)

Next ==
  \/ \E c \in Clients : (\E o \in Operations : Begin(c, o)) \/ ClientStep(c)
  \/ \E t \in Tasks : TaskStep(t)
  \/ Dispatch
  \/ Gone

Spec == Init /\ [][Next]_vars

(* The platform scheduler runs every ready task: a call in progress, a     *)
(* native task and the dispatcher each keep taking the steps they can      *)
(* take, so OnLoop and OnInitialization return.  No call has to be made.   *)
Fairness ==
  /\ \A c \in Clients : WF_vars(ClientStep(c))
  /\ \A t \in Tasks : WF_vars(TaskStep(t))
  /\ WF_vars(Dispatch)

FairSpec == Spec /\ Fairness

-----------------------------------------------------------------------------
(* Two initialisations never create two tasks: whoever is between the      *)
(* second look at the handle and the compare-exchange holds the            *)
(* configuration mutex and the handle stays empty, so the exchange cannot  *)
(* lose and ConcurrentInitializationLost cannot be returned.               *)
CreationIsExclusive ==
  \A c \in Clients : pc[c] \in {"prepare", "create", "attach"} =>
                       configMutex = c /\ handle = NoTask

(* A state that promises a worker is backed by a task: nobody sees         *)
(* Running or Paused on a Thread whose native task is detached.            *)
LiveStateHasTask ==
  state \in {"Initialized", "Running", "Paused"} => handle # NoTask

(* No task but the owner touches the object once the destructor returned.  *)
NoAccessAfterDestroy ==
  ~alive => /\ \A t \in Tasks : worker[t] \notin Executing
            /\ records = 0 /\ dispatcher = "receive"
            /\ \A c \in Clients : pc[c] = "idle"

(* Shutdown returns only when the worker cannot run the Thread's code any  *)
(* more and its announcement is complete.                                  *)
ShutdownMeansStopped ==
  [][\A c \in Clients : op[c] = "Shutdown" /\ pc[c] # "idle" /\ pc'[c] = "idle"
        => /\ \A t \in Tasks : worker[t] \notin Executing
           /\ records = 0 /\ dispatcher = "receive"]_vars

(* The dispatcher deletes a worker that has suspended.                     *)
DeletesSuspendedWorker ==
  [][dispatcher = "kill" /\ taken # NoTask /\ dispatcher' = "notify"
        => worker[taken] \in {"suspended", "deleted"}]_vars

(* Concurrent lifecycle activity never queues a second record while one is *)
(* queued or being dispatched.                                             *)
OneRecord == records + (IF dispatcher = "receive" THEN 0 ELSE 1) <= 1

(* A Shutdown in progress returns.                                         *)
ShutdownReturns ==
  \A c \in Clients : op[c] = "Shutdown" /\ pc[c] # "idle" ~> pc[c] = "idle"

(* The dispatcher's mutex belongs to a worker deleted inside Dispatch.     *)
MutexOrphaned == dispatchMutex \in Tasks /\ worker[dispatchMutex] = "deleted"

(* Nothing but an orphaned mutex of the dispatcher, for which the look at  *)
(* the current task then waits for ever, keeps a Shutdown from returning:  *)
(* no signal of an exit is lost or consumed by the exit before, and no     *)
(* pending flag stays set.                                                 *)
OnlyOrphanStopsShutdown ==
  \A c \in Clients :
    op[c] = "Shutdown" /\ pc[c] # "idle" ~> pc[c] = "idle" \/ MutexOrphaned

-----------------------------------------------------------------------------
(* What the Thread promises about its worker: see ThreadContract.          *)
Workers(labels) == \E t \in Tasks : worker[t] \in labels

task == IF Workers(Executing \ {"gated"}) THEN "running"
        ELSE IF Workers({"gated"}) THEN "gated"
        ELSE IF Workers({"sent", "queued", "suspended"}) THEN "stopped" ELSE "none"

(* An announcement is owed from the worker's end until Clear.              *)
owed == \/ records > 0
        \/ dispatcher # "receive"
        \/ \E c \in Clients :
             pc[c] \in {"claimExit", "setPending", "send", "ensured", "locked"}

Contract == INSTANCE ThreadContract WITH task <- task, owed <- owed

(* The Thread runs one worker at a time, deletes it only stopped or still  *)
(* gated, and creates the next only after the last exit was announced.     *)
ImplementsContract == Contract!Spec

(* A requested termination completes as long as there is a worker: it ends *)
(* with the Thread terminated, the worker deleted and its end announced.   *)
TerminationCompletes ==
  state = "Terminating" /\ handle # NoTask ~> state = "Terminated" /\ task = "none" /\ ~owed
=============================================================================
