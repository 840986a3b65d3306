---------------------------- MODULE ThreadProofs ----------------------------
(***************************************************************************)
(* Proofs about Thread.  The first half is for every set of clients,       *)
(* whatever each of them may call, for any number of native tasks and with *)
(* any platform failure; the second, from OwnedBy on, for every set of     *)
(* clients that keeps the documented discipline of ownership.              *)
(***************************************************************************)
EXTENDS Thread, TLAPS

(* The two state-changing operations and Terminate() lead to a state.      *)
LEMMA AfterSetTyped ==
  ASSUME NEW old \in ThreadState, NEW new \in ThreadState
  PROVE  AfterSet(old, new) \in ThreadState
  BY DEF AfterSet

LEMMA AfterTrySetTyped ==
  ASSUME NEW old \in ThreadState, NEW expected, NEW new \in ThreadState
  PROVE  AfterTrySet(old, expected, new) \in ThreadState
  BY AfterSetTyped DEF AfterTrySet

LEMMA AfterTerminateTyped ==
  ASSUME NEW s \in ThreadState
  PROVE  AfterTerminate(s) \in ThreadState
  BY DEF AfterTerminate, Terminable, ThreadState

-----------------------------------------------------------------------------
(* The variables keep their types.                                         *)
LEMMA TypeStep == TypeOK /\ [Next]_vars => TypeOK'
<1> SUFFICES ASSUME TypeOK, [Next]_vars PROVE TypeOK'
  OBVIOUS
<1> USE MaxTasksAssumption
    DEF TypeOK, ClientLabels, WorkerLabels, DispatcherLabels, Tasks, NoTask,
        At, Goto, Step, WorkerStep, DispatcherStep, Reads, SetsState,
        signals, exitVars, mutexes, taskVars, dispatcherVars, clientVars
<1>0. /\ "Uninitialized" \in ThreadState /\ "Initialized" \in ThreadState
      /\ "Running" \in ThreadState /\ "Paused" \in ThreadState
      /\ "Terminating" \in ThreadState /\ "Terminated" \in ThreadState
      /\ "Destroyed" \in ThreadState
  BY DEF ThreadState
<1> USE <1>0
<1>1. ASSUME NEW c \in Clients, NEW o \in Operations, Begin(c, o) PROVE TypeOK'
  <2>1. FirstStep[o] \in ClientLabels BY DEF FirstStep, Operations
  <2>2. QED BY <1>1, <2>1 DEF Begin
<1>2. ASSUME NEW c \in Clients, InitializeStep(c) PROVE TypeOK'
  <2>1. CASE CheckHandle(c) BY <2>1 DEF CheckHandle, MayInitialize
  <2>2. CASE CheckPending(c) BY <2>2 DEF CheckPending, DispatchDone
  <2>3. CASE CheckState(c) BY <2>3 DEF CheckState
  <2>4. CASE ResetState(c) BY <2>4, AfterTrySetTyped DEF ResetState
  <2>5. CASE LockConfiguration(c) BY <2>5 DEF LockConfiguration, MayCreate
  <2>6. CASE Prepare(c) BY <2>6 DEF Prepare, Rearmed
  <2>7. CASE CreateTask(c) BY <2>7 DEF CreateTask
  <2>8. CASE CreateFails(c) BY <2>8 DEF CreateFails
  <2>9. CASE AttachTask(c) BY <2>9 DEF AttachTask
  <2>10. CASE OnInitialization(c)
    <3>1. pc' \in [Clients -> ClientLabels] BY <2>10 DEF OnInitialization
    <3>2. state' \in ThreadState BY <2>10, AfterTerminateTyped DEF OnInitialization
    <3>3. QED BY <2>10, <3>1, <3>2 DEF OnInitialization
  <2>11. CASE CheckAborted(c) BY <2>11, AfterSetTyped DEF CheckAborted, Aborted
  <2>12. CASE SetInitialized(c) BY <2>12, AfterSetTyped DEF SetInitialized
  <2>13. CASE CheckPublished(c)
    <3>1. pc' \in [Clients -> ClientLabels] BY <2>13 DEF CheckPublished
    <3>2. state' \in ThreadState BY <2>13, AfterSetTyped DEF CheckPublished
    <3>3. QED BY <2>13, <3>1, <3>2 DEF CheckPublished
  <2>14. CASE SetRunning(c) BY <2>14, AfterSetTyped DEF SetRunning
  <2>15. CASE OpenGate(c) BY <2>15 DEF OpenGate
  <2>16. CASE OpenGateFails(c) BY <2>16 DEF OpenGateFails
  <2>17. CASE Unwind(c) BY <2>17, AfterTerminateTyped DEF Unwind
  <2>18. CASE UnwindSet(c) BY <2>18, AfterSetTyped DEF UnwindSet
  <2>19. CASE DetachTask(c) BY <2>19 DEF DetachTask
  <2>20. CASE KillTask(c) BY <2>20 DEF KillTask, WithoutTask
  <2>21. CASE ClaimExit(c) BY <2>21 DEF ClaimExit
  <2>22. CASE SetPending(c) BY <2>22 DEF SetPending
  <2>23. CASE CheckAvailable(c) BY <2>23 DEF CheckAvailable
  <2>24. CASE Ensure(c) BY <2>24 DEF Ensure
  <2>25. CASE Lock(c) BY <2>25 DEF Lock
  <2>26. CASE Send(c)
    <3>1. pc' \in [Clients -> ClientLabels] BY <2>26 DEF Send
    <3>2. records' \in Nat BY <2>26 DEF Send
    <3>3. QED BY <2>26, <3>1, <3>2 DEF Send
  <2>27. CASE Unlock(c)
    <3>1. pc' \in [Clients -> ClientLabels] BY <2>27 DEF Unlock
    <3>2. pending' \in BOOLEAN BY <2>27 DEF Unlock
    <3>3. QED BY <2>27, <3>1, <3>2 DEF Unlock
  <2>28. QED
    BY <1>2, <2>1, <2>2, <2>3, <2>4, <2>5, <2>6, <2>7, <2>8, <2>9, <2>10,
       <2>11, <2>12, <2>13, <2>14, <2>15, <2>16, <2>17, <2>18, <2>19, <2>20,
       <2>21, <2>22, <2>23, <2>24, <2>25, <2>26, <2>27 DEF InitializeStep
<1>3. ASSUME NEW c \in Clients, ControlStep(c) PROVE TypeOK'
  <2>1. CASE ReadStart(c) BY <2>1 DEF ReadStart
  <2>2. CASE StartRun(c) BY <2>2, AfterTrySetTyped DEF StartRun
  <2>3. CASE Pause(c) BY <2>3, AfterTrySetTyped DEF Pause
  <2>4. CASE ReadState(c) BY <2>4 DEF ReadState, AfterTermination
  <2>5. CASE SetTerminating(c) BY <2>5, AfterSetTyped DEF SetTerminating
  <2>6. CASE SetTerminated(c) BY <2>6, AfterSetTyped DEF SetTerminated, AfterTermination
  <2>7. CASE RequestStop(c) BY <2>7, AfterSetTyped DEF RequestStop, AfterTermination
  <2>8. CASE LoadHandle(c) BY <2>8 DEF LoadHandle
  <2>9. CASE Inspect(c) BY <2>9 DEF Inspect
  <2>10. CASE ForceTerminated(c) BY <2>10, AfterSetTyped DEF ForceTerminated
  <2>11. CASE AwaitExit(c) BY <2>11 DEF AwaitExit
  <2>12. CASE AwaitDispatch(c) BY <2>12 DEF AwaitDispatch, WaitForDispatch
  <2>13. CASE AwaitDestructor(c) BY <2>13 DEF AwaitDestructor, WaitForDispatch
  <2>14. CASE SetDestroyed(c) BY <2>14, AfterSetTyped DEF SetDestroyed
  <2>15. QED
    BY <1>3, <2>1, <2>2, <2>3, <2>4, <2>5, <2>6, <2>7, <2>8, <2>9, <2>10,
       <2>11, <2>12, <2>13, <2>14 DEF ControlStep
<1>4. ASSUME NEW t \in Tasks, TaskStep(t) PROVE TypeOK'
  <2>1. CASE PassGate(t) BY <2>1 DEF PassGate, GateOpens
  <2>2. CASE GateFails(t) BY <2>2 DEF GateFails
  <2>3. CASE Loop(t) BY <2>3 DEF Loop, LoopEnds
  <2>4. CASE OnLoop(t) BY <2>4, AfterTrySetTyped, AfterTerminateTyped DEF OnLoop
  <2>5. CASE WorkerClaimExit(t) BY <2>5 DEF WorkerClaimExit
  <2>6. CASE Settle(t) BY <2>6, AfterTrySetTyped DEF Settle
  <2>7. CASE WorkerSetPending(t) BY <2>7 DEF WorkerSetPending
  <2>8. CASE WorkerEnsure(t) BY <2>8 DEF WorkerEnsure
  <2>9. CASE WorkerLock(t) BY <2>9 DEF WorkerLock
  <2>10. CASE WorkerSend(t) BY <2>10 DEF WorkerSend
  <2>11. CASE WorkerUnlock(t) BY <2>11 DEF WorkerUnlock
  <2>12. CASE Suspend(t) BY <2>12 DEF Suspend
  <2>13. QED
    BY <1>4, <2>1, <2>2, <2>3, <2>4, <2>5, <2>6, <2>7, <2>8, <2>9, <2>10, <2>11, <2>12 DEF
       TaskStep
<1>5. CASE Dispatch
  <2>1. CASE Receive BY <2>1 DEF Receive, HasRecord
  <2>2. CASE DispatcherDetach BY <2>2 DEF DispatcherDetach
  <2>3. CASE DispatcherKill BY <2>3 DEF DispatcherKill, WithoutTask
  <2>4. CASE Notify BY <2>4 DEF Notify
  <2>5. CASE Give BY <2>5 DEF Give
  <2>6. CASE Clear BY <2>6 DEF Clear
  <2>7. QED
    BY <1>5, <2>1, <2>2, <2>3, <2>4, <2>5, <2>6 DEF Dispatch
<1>6. CASE UNCHANGED vars
  BY <1>6 DEF vars
<1>7. QED
  BY <1>1, <1>2, <1>3, <1>4, <1>5, <1>6 DEF Next, ClientStep, Gone

LEMMA TypeInit == Init => TypeOK
<1> SUFFICES ASSUME Init PROVE TypeOK
  OBVIOUS
<1>1. /\ handle \in 0 .. MaxTasks /\ created \in 0 .. MaxTasks /\ taken \in 0 .. MaxTasks
      /\ held \in [Clients -> 0 .. MaxTasks]
  BY MaxTasksAssumption DEF Init, NoTask
<1>2. QED
  BY <1>1 DEF Init, TypeOK, ThreadState, ClientLabels, WorkerLabels, DispatcherLabels,
              Operations

(* The type invariant holds in every reachable state.                      *)
THEOREM TypeCorrect == Spec => []TypeOK
  BY TypeInit, TypeStep, PTL DEF Spec

-----------------------------------------------------------------------------
(* Who may be creating a task: the invariant carries itself, because only  *)
(* the holder of the mutex that is about to attach sets the handle, and it *)
(* leaves the creating steps as it does.                                   *)
LEMMA CreationStep == TypeOK /\ CreationIsExclusive /\ [Next]_vars => CreationIsExclusive'
<1> SUFFICES ASSUME TypeOK, CreationIsExclusive, [Next]_vars,
                    NEW d \in Clients, pc'[d] \in {"prepare", "create", "attach"}
             PROVE  configMutex' = d /\ handle' = NoTask
  BY DEF CreationIsExclusive
<1> USE NoClientAssumption
    DEF CreationIsExclusive, TypeOK, At, Goto, Step, Reads, SetsState,
        signals, exitVars, mutexes, taskVars, dispatcherVars, clientVars
<1>1. ASSUME NEW c \in Clients, NEW o \in Operations, Begin(c, o)
      PROVE  configMutex' = d /\ handle' = NoTask
  <2>1. FirstStep[o] \notin {"prepare", "create", "attach"} BY DEF FirstStep, Operations
  <2>2. QED BY <1>1, <2>1 DEF Begin
<1>2. ASSUME NEW c \in Clients, InitializeStep(c)
      PROVE  configMutex' = d /\ handle' = NoTask
  <2>1. CASE CheckHandle(c) BY <2>1 DEF CheckHandle
  <2>2. CASE CheckPending(c) BY <2>2 DEF CheckPending
  <2>3. CASE CheckState(c) BY <2>3 DEF CheckState
  <2>4. CASE ResetState(c) BY <2>4 DEF ResetState
  <2>5. CASE LockConfiguration(c) BY <2>5 DEF LockConfiguration, MayCreate
  <2>6. CASE Prepare(c) BY <2>6 DEF Prepare
  <2>7. CASE CreateTask(c) BY <2>7 DEF CreateTask
  <2>8. CASE CreateFails(c) BY <2>8 DEF CreateFails
  <2>9. CASE AttachTask(c) BY <2>9 DEF AttachTask
  <2>10. CASE OnInitialization(c) BY <2>10 DEF OnInitialization
  <2>11. CASE CheckAborted(c) BY <2>11 DEF CheckAborted
  <2>12. CASE SetInitialized(c) BY <2>12 DEF SetInitialized
  <2>13. CASE CheckPublished(c) BY <2>13 DEF CheckPublished
  <2>14. CASE SetRunning(c) BY <2>14 DEF SetRunning
  <2>15. CASE OpenGate(c) BY <2>15 DEF OpenGate
  <2>16. CASE OpenGateFails(c) BY <2>16 DEF OpenGateFails
  <2>17. CASE Unwind(c) BY <2>17 DEF Unwind
  <2>18. CASE UnwindSet(c) BY <2>18 DEF UnwindSet
  <2>19. CASE DetachTask(c) BY <2>19 DEF DetachTask
  <2>20. CASE KillTask(c) BY <2>20 DEF KillTask
  <2>21. CASE ClaimExit(c) BY <2>21 DEF ClaimExit
  <2>22. CASE SetPending(c) BY <2>22 DEF SetPending
  <2>23. CASE CheckAvailable(c) BY <2>23 DEF CheckAvailable
  <2>24. CASE Ensure(c) BY <2>24 DEF Ensure
  <2>25. CASE Lock(c) BY <2>25 DEF Lock
  <2>26. CASE Send(c) BY <2>26 DEF Send
  <2>27. CASE Unlock(c) BY <2>27 DEF Unlock
  <2>28. QED
    BY <1>2, <2>1, <2>2, <2>3, <2>4, <2>5, <2>6, <2>7, <2>8, <2>9, <2>10,
       <2>11, <2>12, <2>13, <2>14, <2>15, <2>16, <2>17, <2>18, <2>19, <2>20,
       <2>21, <2>22, <2>23, <2>24, <2>25, <2>26, <2>27 DEF InitializeStep
<1>3. ASSUME NEW c \in Clients, ControlStep(c)
      PROVE  configMutex' = d /\ handle' = NoTask
  <2>1. CASE ReadStart(c) BY <2>1 DEF ReadStart
  <2>2. CASE StartRun(c) BY <2>2 DEF StartRun
  <2>3. CASE Pause(c) BY <2>3 DEF Pause
  <2>4. CASE ReadState(c) BY <2>4 DEF ReadState, AfterTermination
  <2>5. CASE SetTerminating(c) BY <2>5 DEF SetTerminating
  <2>6. CASE SetTerminated(c) BY <2>6 DEF SetTerminated, AfterTermination
  <2>7. CASE RequestStop(c) BY <2>7 DEF RequestStop, AfterTermination
  <2>8. CASE LoadHandle(c) BY <2>8 DEF LoadHandle
  <2>9. CASE Inspect(c) BY <2>9 DEF Inspect
  <2>10. CASE ForceTerminated(c) BY <2>10 DEF ForceTerminated
  <2>11. CASE AwaitExit(c) BY <2>11 DEF AwaitExit
  <2>12. CASE AwaitDispatch(c) BY <2>12 DEF AwaitDispatch, WaitForDispatch
  <2>13. CASE AwaitDestructor(c) BY <2>13 DEF AwaitDestructor, WaitForDispatch
  <2>14. CASE SetDestroyed(c) BY <2>14 DEF SetDestroyed
  <2>15. QED
    BY <1>3, <2>1, <2>2, <2>3, <2>4, <2>5, <2>6, <2>7, <2>8, <2>9, <2>10,
       <2>11, <2>12, <2>13, <2>14 DEF ControlStep
<1>4. ASSUME NEW t \in Tasks, TaskStep(t)
      PROVE  configMutex' = d /\ handle' = NoTask
  BY <1>4 DEF TaskStep, PassGate, GateFails, Loop, OnLoop, WorkerClaimExit, Settle, WorkerSetPending, WorkerEnsure, WorkerLock,
         WorkerSend, WorkerUnlock, Suspend
<1>5. CASE Dispatch
  BY <1>5 DEF Dispatch, Receive, DispatcherDetach, DispatcherKill, Notify, Give, Clear
<1>6. CASE UNCHANGED vars
  BY <1>6 DEF vars
<1>7. QED
  BY <1>1, <1>2, <1>3, <1>4, <1>5, <1>6 DEF Next, ClientStep, Gone

(* However many clients initialise the Thread at once, whatever else they  *)
(* call, and whatever fails: the client between the second look at the     *)
(* handle and the exchange holds the mutex and finds the handle empty.     *)
THEOREM CreationHolds == Spec => []CreationIsExclusive
<1>1. Init => CreationIsExclusive
  BY DEF Init, CreationIsExclusive
<1>2. QED
  BY <1>1, TypeInit, TypeStep, CreationStep, PTL DEF Spec

-----------------------------------------------------------------------------
(* The documented discipline: one client, the owner, initialises, starts,  *)
(* shuts down and destroys; every other may only pause and terminate; and  *)
(* the platform fails in none of its operations but the creation of tasks. *)
OwnedBy(o) ==
  /\ o \in Clients /\ Faults = {}
  /\ \A c \in Clients \ {o} : Calls[c] \subseteq {"Pause", "Terminate"}

(* Only the latest native task can be anything but deleted.                *)
Latest == IF created = 0 THEN "none" ELSE worker[created]
Absent == Latest \in {"none", "deleted"}

OneTask ==
  /\ created > 0 => worker[created] # "none"
  /\ \A t \in Tasks : /\ t < created => worker[t] = "deleted"
                      /\ t > created => worker[t] = "none"

(* Where a call of the owner's is.                                         *)
Attached == {"onInitialization", "checkAborted", "setInitialized", "checkPublished",
             "setRunning", "openGate", "unwind", "unwindSet"}
Starting == {"readStart", "checkHandle", "checkPending", "checkAvailable", "checkState",
             "reset", "lock", "prepare", "create", "attach"}
Unencumbered == {"checkAvailable", "checkState", "reset", "lock", "prepare", "create",
                 "awaitDestructor", "askAgain", "pollAgain", "setDestroyed"}
Sending == {"send", "ensured", "locked"}
Discarding == {"claimExit", "setPending"} \cup Sending
Stopping == {"readState", "setTerminating", "setTerminated", "requestStop"}

NothingOwed == records = 0 /\ dispatcher = "receive" /\ ~pending
ExitUnderWay ==
  /\ pending
  /\ records = IF dispatcher = "receive" THEN 1 ELSE 0

(* A task whose record is in the queue.                                    *)
Stopped == {"sent", "queued", "suspended"}

(* The exit of the latest task, from its claim to the last signal.         *)
ExitInv(o) ==
  /\ Latest \in {"gated", "loop", "body", "claimExit"} => ~finalizing
  /\ Latest \in Executing \ Sending => NothingOwed
  /\ Latest \in Sending => pending /\ records = 0 /\ dispatcher = "receive"
  /\ Latest # "refused"
  /\ Latest \in Stopped =>
       ExitUnderWay /\ dispatcher \in {"receive", "detach", "kill"}
  /\ Absent /\ pc[o] \notin Discarding => NothingOwed \/ ExitUnderWay

(* Who refers to the latest task.                                          *)
HandleInv(o) ==
  /\ Absent => handle = NoTask /\ (dispatcher = "kill" => taken = NoTask)
  /\ Latest = "gated" => IF pc[o] \in {"attach", "kill"} THEN handle = NoTask /\ held[o] = created
                                                         ELSE handle = created
  /\ Latest \in Executing \ {"gated"} => handle = created
  /\ Latest \in Stopped =>
       IF dispatcher = "kill" THEN handle = NoTask /\ taken = created ELSE handle = created

(* What the owner may rely on at each step of its calls.                   *)
OwnerInv(o) ==
  /\ pc[o] \in Attached \cup {"attach"} => Latest = "gated" /\ ~gate
  /\ pc[o] = "create" => ~gate /\ ~finalizing
  /\ pc[o] \in Unencumbered => Absent /\ NothingOwed
  /\ pc[o] \in Discarding =>
       /\ Latest = "deleted" /\ records = 0 /\ dispatcher = "receive"
       /\ pending <=> pc[o] \in Sending
       /\ pc[o] = "claimExit" => ~finalizing
  /\ pc[o] \in {"detach", "kill"} =>
       IF op[o] = "Destroy" THEN Absent /\ NothingOwed /\ (pc[o] = "kill" => held[o] = NoTask)
                            ELSE Latest = "gated" /\ ~gate
  /\ pc[o] \in {"checkPending", "inspect", "force", "awaitDispatch", "askTask", "poll"} =>
       handle = NoTask
  /\ pc[o] # "refused"
  /\ pc[o] \in Stopping /\ op[o] # "Terminate" /\ held[o] = NoTask => handle = NoTask
  /\ exited => handle = NoTask /\ pc[o] \notin {"create", "attach"}
  /\ ~alive => pc[o] = "idle" /\ Absent /\ NothingOwed

OpInv(o) ==
  /\ pc[o] \in Starting \cup Attached \cup Discarding \cup {"startRun", "sent"} =>
       op[o] \in {"Initialize", "Start"}
  /\ pc[o] \in {"detach", "kill"} => op[o] \in {"Initialize", "Start", "Destroy"}
  /\ pc[o] = "pause" => op[o] = "Pause"
  /\ pc[o] \in Stopping => op[o] \in {"Terminate", "Shutdown", "Destroy"}
  /\ pc[o] \in {"loadHandle", "inspect", "force", "awaitExit", "awaitDispatch", "askTask", "poll"} =>
       op[o] \in {"Shutdown", "Destroy"}
  /\ pc[o] \in {"awaitDestructor", "askAgain", "pollAgain", "setDestroyed"} => op[o] = "Destroy"

(* The lifecycle state promises no more than the task does.                *)
Dormant == {"Uninitialized"} \cup Ending
StateInv(o) ==
  /\ Absent \/ pc[o] \in {"attach", "onInitialization", "checkAborted", "setInitialized"}
       => state \in Dormant
  /\ pc[o] \in Discarding \cup {"unwindSet", "detach", "kill"} => state \in Ending
  /\ Latest \notin {"none", "deleted", "gated", "loop", "body"} => state \in Ending

OthersInv(o) ==
  \A c \in Clients \ {o} :
    /\ pc[c] \in Stopping \cup {"idle", "pause"} /\ op[c] \in {"Pause", "Terminate"}
    /\ pc[c] \in Stopping => op[c] = "Terminate"
    /\ ~alive \/ (op[o] = "Destroy" /\ pc[o] # "idle") => pc[c] = "idle"

OwnedInv(o) ==
  /\ TypeOK /\ OneTask /\ ExitInv(o) /\ HandleInv(o) /\ OwnerInv(o) /\ OpInv(o)
  /\ StateInv(o) /\ OthersInv(o)

CoreInv(o) ==
  OneTask /\ ExitInv(o) /\ HandleInv(o) /\ OwnerInv(o) /\ OpInv(o) /\ StateInv(o)

(* A state once ending or dormant remains so, whatever is set but the      *)
(* reset of a terminated Thread and its initialisation.                    *)
Falls(old, new) == (old \in Ending => new \in Ending) /\ (old \in Dormant => new \in Dormant)

LEMMA SetsFall ==
  ASSUME NEW s \in ThreadState
  PROVE  /\ \A new \in {"Running", "Paused", "Terminating", "Terminated", "Destroyed"} :
              Falls(s, AfterSet(s, new))
         /\ \A expected \in ThreadState, new \in {"Running", "Paused", "Terminated"} :
              Falls(s, AfterTrySet(s, expected, new))
         /\ Falls(s, AfterTerminate(s)) /\ AfterTerminate(s) \in Ending
         /\ AfterSet(s, "Destroyed") \in Ending
         /\ s \in Ending => AfterSet(s, "Terminated") \in Ending /\ AfterSet(s, "Initialized") \in Ending
<1> USE DEF Falls, Dormant, Ending, AfterSet, IsValidTransition, Successors, ThreadState
<1>1. \A new \in {"Running", "Paused", "Terminating", "Terminated", "Destroyed"} :
        Falls(s, AfterSet(s, new))
  OBVIOUS
<1>2. \A expected \in ThreadState, new \in {"Running", "Paused", "Terminated"} :
              Falls(s, AfterTrySet(s, expected, new))
  BY DEF AfterTrySet
<1>3. AfterTerminate(s) \in Ending
  BY DEF AfterTerminate, Terminable
<1>4. AfterSet(s, "Destroyed") \in Ending
  OBVIOUS
<1>5. s \in Ending => AfterSet(s, "Terminated") \in Ending /\ AfterSet(s, "Initialized") \in Ending
  OBVIOUS
<1>6. Falls(s, AfterTerminate(s))
  BY <1>3
<1>7. QED
  BY <1>1, <1>2, <1>3, <1>4, <1>5, <1>6

(* A step that leaves the task, its exit and the owner alone.              *)
LEMMA StateOnly ==
  ASSUME NEW o \in Clients, CoreInv(o), Falls(state, state'), 
         UNCHANGED <<exitVars, signals, taskVars, dispatcherVars, alive>>,
         pc'[o] = pc[o], op'[o] = op[o], held'[o] = held[o]
  PROVE  CoreInv(o)'
<1> USE DEF CoreInv, exitVars, signals, taskVars, dispatcherVars
<1>1. Latest' = Latest /\ (Absent' <=> Absent) /\ OneTask'
  BY DEF Latest, Absent, OneTask
<1>2. ExitInv(o)' /\ HandleInv(o)'
  BY <1>1 DEF ExitInv, HandleInv, NothingOwed, ExitUnderWay, Stopped, Sending
<1>3. OwnerInv(o)'
  BY <1>1 DEF OwnerInv, NothingOwed
<1>4. OpInv(o)'
  BY DEF OpInv
<1>5. StateInv(o)'
  BY <1>1 DEF StateInv, Falls
<1>6. QED
  BY <1>1, <1>2, <1>3, <1>4, <1>5

LEMMA OtherStep ==
  ASSUME NEW o, OwnedBy(o), OwnedInv(o), NEW c \in Clients \ {o},
         ClientStep(c) \/ \E x \in Operations : Begin(c, x)
  PROVE  /\ CoreInv(o)' /\ OthersInv(o)' /\ pc'[o] = pc[o]
         /\ UNCHANGED <<exitVars, taskVars, dispatcherVars>>
<1>0. /\ o \in Clients /\ TypeOK /\ CoreInv(o) /\ OthersInv(o)
      /\ pc[c] \in Stopping \cup {"idle", "pause"} /\ op[c] \in {"Pause", "Terminate"}
      /\ pc[c] \in Stopping => op[c] = "Terminate"
  BY DEF OwnedBy, OwnedInv, CoreInv, OthersInv
<1> USE DEF At, Goto, Step, Reads, SetsState, signals, exitVars, mutexes, taskVars, dispatcherVars, clientVars
<1>1. CASE \E x \in Operations : Begin(c, x)
  <2>1. PICK x \in Calls[c] : Begin(c, x)
    BY <1>1 DEF Begin
  <2>2. x \in {"Pause", "Terminate"}
    BY <2>1 DEF OwnedBy
  <2>3. /\ pc' = [pc EXCEPT ![c] = FirstStep[x]] /\ op' = [op EXCEPT ![c] = x]
        /\ FirstStep[x] \in {"pause", "readState"}
        /\ alive /\ ~Retiring
        /\ UNCHANGED <<state, exitVars, signals, taskVars, dispatcherVars, held, alive>>
    BY <2>1, <2>2 DEF Begin, FirstStep
  <2>4. pc'[o] = pc[o] /\ op'[o] = op[o] /\ ~(op[o] = "Destroy" /\ pc[o] # "idle")
    BY <1>0, <2>3 DEF TypeOK, Retiring
  <2>5. CoreInv(o)'
    BY <1>0, <2>3, <2>4, StateOnly DEF Falls
  <2>6. OthersInv(o)'
    <3>1. pc'[c] \in {"pause", "readState"} /\ op'[c] = x
      BY <1>0, <2>3 DEF TypeOK
    <3>2. x = "Pause" => pc'[c] = "pause"
      BY <1>0, <2>3 DEF TypeOK, FirstStep
    <3>3. \A d \in Clients \ {c} : pc'[d] = pc[d] /\ op'[d] = op[d]
      BY <1>0, <2>3 DEF TypeOK
    <3>4. alive' /\ ~(op'[o] = "Destroy" /\ pc'[o] # "idle")
      BY <2>3, <2>4
    <3>5. QED
      BY <1>0, <2>2, <3>1, <3>2, <3>3, <3>4 DEF OthersInv, Stopping
  <2>7. QED
    BY <2>3, <2>4, <2>5, <2>6
<1>2. CASE ClientStep(c)
  <2>1. Pause(c) \/ ReadState(c) \/ SetTerminating(c) \/ SetTerminated(c) \/ RequestStop(c)
    BY <1>0, <1>2 DEF ClientStep, InitializeStep, ControlStep, Stopping, CheckHandle, CheckPending, CheckAvailable, CheckState, ResetState,
       LockConfiguration, Prepare, CreateTask, CreateFails, AttachTask, OnInitialization,
       CheckAborted, SetInitialized, CheckPublished, SetRunning, OpenGate, OpenGateFails, Unwind,
       UnwindSet, DetachTask, KillTask, ClaimExit, SetPending, Ensure, Lock, Send, Unlock, ReadStart, StartRun,
       LoadHandle, Inspect, ForceTerminated, AwaitExit, WaitForDispatch,
       AwaitDispatch, AwaitDestructor, SetDestroyed
  <2>2. /\ UNCHANGED <<exitVars, signals, taskVars, dispatcherVars, op, held, alive>>
        /\ \E to \in Stopping \cup {"idle"} :
             /\ pc' = [pc EXCEPT ![c] = to]
             /\ to \in Stopping => pc[c] \in Stopping
    <3>1. pc[c] \in Stopping => AfterTermination(c) = "idle"
      BY <1>0 DEF AfterTermination
    <3>2. CASE Pause(c)
      BY <3>2 DEF Pause, Stopping
    <3>3. CASE ReadState(c)
      BY <3>1, <3>3 DEF ReadState, Stopping
    <3>4. CASE SetTerminating(c) \/ SetTerminated(c) \/ RequestStop(c)
      BY <3>1, <3>4 DEF SetTerminating, SetTerminated, RequestStop, Stopping
    <3>5. QED
      BY <2>1, <3>2, <3>3, <3>4
  <2>3. Falls(state, state')
    <3>1. \/ state' \in {state, AfterSet(state, "Terminating"), AfterSet(state, "Terminated")}
          \/ state' = AfterTrySet(state, "Running", "Paused")
      BY <2>1 DEF Pause, ReadState, SetTerminating, SetTerminated, RequestStop
    <3>2. state \in ThreadState /\ "Running" \in ThreadState /\ Falls(state, state)
      BY <1>0 DEF TypeOK, ThreadState, Falls
    <3>3. QED
      BY <3>1, <3>2, SetsFall
  <2>4. pc'[o] = pc[o] /\ pc[c] # "idle"
    BY <1>0, <2>1, <2>2 DEF TypeOK, Pause, ReadState, SetTerminating, SetTerminated, RequestStop, Stopping
  <2>5. CoreInv(o)'
    BY <1>0, <2>2, <2>3, <2>4, StateOnly
  <2>6. OthersInv(o)'
    <3>1. PICK to \in Stopping \cup {"idle"} :
                 /\ pc' = [pc EXCEPT ![c] = to]
                 /\ to \in Stopping => pc[c] \in Stopping
      BY <2>2
    <3>2. pc'[c] = to /\ \A d \in Clients \ {c} : pc'[d] = pc[d]
      <4>1. pc \in [Clients -> ClientLabels] /\ c \in Clients
        BY <1>0 DEF TypeOK
      <4>2. pc' = [pc EXCEPT ![c] = to]
        BY <3>1
      <4>3. QED
        BY <4>1, <4>2
    <3>3. op' = op /\ (alive' <=> alive) /\ pc'[o] = pc[o]
      BY <2>2, <2>4
    <3>4. alive /\ ~(op[o] = "Destroy" /\ pc[o] # "idle")
      BY <1>0, <2>4 DEF OthersInv
    <3>5. alive' /\ ~(op'[o] = "Destroy" /\ pc'[o] # "idle")
      BY <3>3, <3>4
    <3>6. \A d \in Clients \ {o} :
            /\ pc'[d] \in Stopping \cup {"idle", "pause"} /\ op'[d] \in {"Pause", "Terminate"}
            /\ pc'[d] \in Stopping => op'[d] = "Terminate"
      BY <1>0, <3>1, <3>2, <3>3 DEF OthersInv
    <3>7. QED
      BY <3>5, <3>6 DEF OthersInv
  <2>7. QED
    BY <2>2, <2>4, <2>5, <2>6
<1>3. QED
  BY <1>1, <1>2

(* The latest task moves; no other does.                                   *)
LEMMA LatestMoves ==
  ASSUME TypeOK, OneTask, NEW t \in Tasks, NEW to, worker[t] \notin {"none", "deleted"},
         worker' = [worker EXCEPT ![t] = to], created' = created, to # "none"
  PROVE  t = created /\ Latest = worker[t] /\ Latest' = to /\ OneTask'
<1>1. t = created /\ created \in Tasks /\ created # 0
  BY MaxTasksAssumption DEF TypeOK, OneTask, Tasks
<1>2. worker'[t] = to /\ \A s \in Tasks \ {t} : worker'[s] = worker[s]
  BY DEF TypeOK
<1>3. QED
  BY <1>1, <1>2 DEF Latest, OneTask

(* What is neither the state nor the task nor its exit stays as it is.     *)
Untouched == UNCHANGED <<clientVars, created, alive>>

LEMMA UntouchedOthers ==
  ASSUME NEW o, OthersInv(o), UNCHANGED <<clientVars, alive>>
  PROVE  OthersInv(o)'
  BY DEF OthersInv, clientVars

LEMMA TaskKeeps ==
  ASSUME NEW o, OwnedBy(o), OwnedInv(o), NEW t \in Tasks, TaskStep(t)
  PROVE  CoreInv(o)' /\ OthersInv(o)'
<1>0. TypeOK /\ OneTask /\ state \in ThreadState
  BY DEF OwnedInv, TypeOK
<1>1. UNCHANGED <<clientVars, handle, created, dispatcherVars, alive>>
  BY DEF TaskStep, PassGate, GateFails, Loop, OnLoop, WorkerClaimExit, Settle, WorkerSetPending,
         WorkerEnsure, WorkerLock,
         WorkerSend, WorkerUnlock, Suspend
<1>2. OthersInv(o)'
  BY <1>1, UntouchedOthers DEF OwnedInv
<1> USE DEF WorkerStep
<1>3. worker[t] \notin {"none", "deleted"} /\ \E to : worker' = [worker EXCEPT ![t] = to] /\ to # "none"
  BY DEF TaskStep, PassGate, GateFails, Loop, OnLoop, WorkerClaimExit, Settle, WorkerSetPending,
         WorkerEnsure, WorkerLock,
         WorkerSend, WorkerUnlock, Suspend
<1>4. t = created /\ Latest = worker[t] /\ Latest' = worker'[t] /\ OneTask'
  <2>1. PICK to : worker' = [worker EXCEPT ![t] = to] /\ to # "none"
    BY <1>3
  <2>2. worker'[t] = to
    BY <1>0, <2>1 DEF TypeOK
  <2>3. QED
    BY <1>0, <1>1, <1>3, <2>1, <2>2, LatestMoves
<1>5. \A to : worker' = [worker EXCEPT ![t] = to] => worker'[t] = to
  BY <1>0 DEF TypeOK
<1> DEFINE Facts == ExitInv(o) /\ HandleInv(o) /\ OwnerInv(o) /\ OpInv(o) /\ StateInv(o)
<1>6. Facts
  BY DEF OwnedInv
<1>7. handle' = handle /\ created' = created /\ dispatcher' = dispatcher /\ taken' = taken
      /\ (alive' <=> alive) /\ pc' = pc /\ op' = op /\ held' = held
  BY <1>1 DEF clientVars, dispatcherVars
<1> USE DEF Absent, NothingOwed, ExitUnderWay, Executing, Starting, Attached, Unencumbered, Discarding, Sending
<1>8. ASSUME ExitInv(o)', HandleInv(o)', OwnerInv(o)', StateInv(o)'
      PROVE  CoreInv(o)' /\ OthersInv(o)'
  BY <1>2, <1>4, <1>6, <1>7, <1>8 DEF CoreInv, OpInv
<1>9. CASE PassGate(t)
  <2>1. Latest = "gated" /\ Latest' = "loop" /\ gate
        /\ UNCHANGED <<state, pending, finalizing, records, exited>>
    BY <1>4, <1>5, <1>9 DEF PassGate, GateOpens, exitVars
  <2>2. pc[o] \notin Attached \cup {"attach", "kill", "detach"}
    BY <1>6, <2>1 DEF OwnerInv
  <2>3. ExitInv(o)' BY <1>6, <1>7, <2>1, <2>2 DEF ExitInv, Stopped, Sending
  <2>4. HandleInv(o)' BY <1>6, <1>7, <2>1, <2>2 DEF HandleInv, Stopped, Sending
  <2>5. OwnerInv(o)' BY <1>6, <1>7, <2>1, <2>2 DEF OwnerInv
  <2>6. StateInv(o)' BY <1>6, <1>7, <2>1, <2>2 DEF StateInv
  <2>7. QED BY <1>8, <2>3, <2>4, <2>5, <2>6
<1>10. CASE GateFails(t)
  BY <1>10 DEF GateFails, OwnedBy
<1>11. CASE Loop(t)
  <2>1. /\ Latest = "loop"
        /\ \/ Latest' = "body"
           \/ Latest' = "claimExit" /\ state \in Ending
        /\ UNCHANGED <<state, pending, finalizing, records, gate, exited>>
    BY <1>4, <1>5, <1>11 DEF Loop, LoopEnds, exitVars, signals
  <2>3. ExitInv(o)' BY <1>6, <1>7, <2>1 DEF ExitInv, Stopped, Sending
  <2>4. HandleInv(o)' BY <1>6, <1>7, <2>1 DEF HandleInv, Stopped, Sending
  <2>5. OwnerInv(o)' BY <1>6, <1>7, <2>1 DEF OwnerInv
  <2>6. StateInv(o)' BY <1>6, <1>7, <2>1 DEF StateInv, OwnerInv
  <2>7. QED BY <1>8, <2>3, <2>4, <2>5, <2>6
<1>12. CASE OnLoop(t)
  <2>1. /\ Latest = "body"
        /\ \/ Latest' = "loop"
           \/ Latest' = "claimExit" /\ state' = AfterTerminate(state)
        /\ UNCHANGED <<pending, finalizing, records, gate, exited>>
    BY <1>4, <1>5, <1>12 DEF OnLoop, exitVars, signals
  <2>2. Falls(state, state') /\ (Latest' = "claimExit" => state' \in Ending)
    <3>1. state' \in {state, AfterTrySet(state, "Running", "Paused"), AfterTerminate(state)}
      BY <1>12 DEF OnLoop
    <3>2. Falls(state, state) /\ "Running" \in ThreadState
      BY DEF Falls, ThreadState
    <3>3. QED
      BY <1>0, <2>1, <3>1, <3>2, SetsFall
  <2>3. ExitInv(o)' BY <1>6, <1>7, <2>1 DEF ExitInv, Stopped, Sending
  <2>4. HandleInv(o)' BY <1>6, <1>7, <2>1 DEF HandleInv, Stopped, Sending
  <2>5. OwnerInv(o)' BY <1>6, <1>7, <2>1 DEF OwnerInv
  <2>6. StateInv(o)' BY <1>6, <1>7, <2>1, <2>2 DEF StateInv, OwnerInv, Falls
  <2>7. QED BY <1>8, <2>3, <2>4, <2>5, <2>6
<1>13. CASE WorkerClaimExit(t)
  <2>1. /\ Latest = "claimExit" /\ ~finalizing
        /\ UNCHANGED <<state, pending, records, gate, exited>>
    BY <1>4, <1>6, <1>13 DEF WorkerClaimExit, signals, ExitInv, Stopped, Sending
  <2>2. Latest' = "settle"
    BY <1>4, <1>5, <1>13, <2>1 DEF WorkerClaimExit
  <2>3. ExitInv(o)' BY <1>6, <1>7, <2>1, <2>2 DEF ExitInv, Stopped, Sending
  <2>4. HandleInv(o)' BY <1>6, <1>7, <2>1, <2>2 DEF HandleInv, Stopped, Sending
  <2>5. OwnerInv(o)' BY <1>6, <1>7, <2>1, <2>2 DEF OwnerInv
  <2>6. StateInv(o)' BY <1>6, <1>7, <2>1, <2>2 DEF StateInv
  <2>7. QED BY <1>8, <2>3, <2>4, <2>5, <2>6
<1>14. CASE Settle(t)
  <2>1. /\ Latest = "settle" /\ Latest' = "setPending"
        /\ state' = AfterTrySet(state, "Terminating", "Terminated")
        /\ UNCHANGED <<pending, finalizing, records, gate, exited>>
    BY <1>4, <1>5, <1>14 DEF Settle, exitVars, signals
  <2>2. Falls(state, state')
    <3>1. "Terminating" \in ThreadState
      BY DEF ThreadState
    <3>2. QED
      BY <1>0, <2>1, <3>1, SetsFall
  <2>3. ExitInv(o)' BY <1>6, <1>7, <2>1 DEF ExitInv, Stopped, Sending
  <2>4. HandleInv(o)' BY <1>6, <1>7, <2>1 DEF HandleInv, Stopped, Sending
  <2>5. OwnerInv(o)' BY <1>6, <1>7, <2>1 DEF OwnerInv
  <2>6. StateInv(o)' BY <1>6, <1>7, <2>1, <2>2 DEF StateInv, OwnerInv, Falls
  <2>7. QED BY <1>8, <2>3, <2>4, <2>5, <2>6
<1>15. CASE WorkerSetPending(t)
  <2>1. /\ Latest = "setPending" /\ Latest' = "send" /\ pending' = TRUE
        /\ UNCHANGED <<state, finalizing, records, gate, exited>>
    BY <1>4, <1>5, <1>15 DEF WorkerSetPending, signals
  <2>3. ExitInv(o)' BY <1>6, <1>7, <2>1 DEF ExitInv, Stopped, Sending
  <2>4. HandleInv(o)' BY <1>6, <1>7, <2>1 DEF HandleInv, Stopped, Sending
  <2>5. OwnerInv(o)' BY <1>6, <1>7, <2>1 DEF OwnerInv
  <2>6. StateInv(o)' BY <1>6, <1>7, <2>1 DEF StateInv
  <2>7. QED BY <1>8, <2>3, <2>4, <2>5, <2>6
<1>16. CASE WorkerEnsure(t) \/ WorkerLock(t)
  <2>1. /\ Latest \in {"send", "ensured"} /\ Latest' \in {"ensured", "locked"}
        /\ UNCHANGED <<state, pending, finalizing, records, gate, exited>>
    BY <1>4, <1>5, <1>16 DEF WorkerEnsure, WorkerLock, exitVars, signals
  <2>3. ExitInv(o)' BY <1>6, <1>7, <2>1 DEF ExitInv, Sending, Stopped
  <2>4. HandleInv(o)' BY <1>6, <1>7, <2>1 DEF HandleInv, Stopped
  <2>5. OwnerInv(o)' BY <1>6, <1>7, <2>1 DEF OwnerInv
  <2>6. StateInv(o)' BY <1>6, <1>7, <2>1 DEF StateInv
  <2>7. QED BY <1>8, <2>3, <2>4, <2>5, <2>6
<1>17. CASE WorkerSend(t)
  <2>1. /\ Latest = "locked" /\ Latest' = "sent" /\ records' = records + 1
        /\ UNCHANGED <<state, pending, finalizing, gate, exited>>
    BY <1>4, <1>5, <1>17 DEF WorkerSend, signals, OwnedBy
  <2>3. ExitInv(o)' BY <1>6, <1>7, <2>1 DEF ExitInv, Sending, Stopped
  <2>4. HandleInv(o)' BY <1>6, <1>7, <2>1 DEF HandleInv, ExitInv, Sending, Stopped
  <2>5. OwnerInv(o)' BY <1>6, <1>7, <2>1 DEF OwnerInv
  <2>6. StateInv(o)' BY <1>6, <1>7, <2>1 DEF StateInv
  <2>7. QED BY <1>8, <2>3, <2>4, <2>5, <2>6
<1>18. CASE WorkerUnlock(t) \/ Suspend(t)
  <2>0. Latest # "refused"
    BY <1>6 DEF ExitInv
  <2>1. /\ Latest \in {"sent", "queued"} /\ Latest' \in {"queued", "suspended"}
        /\ UNCHANGED <<state, pending, finalizing, records, gate, exited>>
    BY <1>4, <1>5, <1>18, <2>0 DEF WorkerUnlock, Suspend, exitVars, signals
  <2>3. ExitInv(o)' BY <1>6, <1>7, <2>1 DEF ExitInv, Sending, Stopped
  <2>4. HandleInv(o)' BY <1>6, <1>7, <2>1 DEF HandleInv, Stopped
  <2>5. OwnerInv(o)' BY <1>6, <1>7, <2>1 DEF OwnerInv
  <2>6. StateInv(o)' BY <1>6, <1>7, <2>1 DEF StateInv
  <2>7. QED BY <1>8, <2>3, <2>4, <2>5, <2>6
<1>19. QED
  BY <1>9, <1>10, <1>11, <1>12, <1>13, <1>14, <1>15, <1>16, <1>17, <1>18 DEF TaskStep

LEMMA DispatchKeeps ==
  ASSUME NEW o, OwnedBy(o), OwnedInv(o), Dispatch
  PROVE  CoreInv(o)' /\ OthersInv(o)'
<1>0. TypeOK /\ OneTask /\ records \in Nat
  BY DEF OwnedInv, TypeOK
<1>1. /\ UNCHANGED <<state, finalizing, gate, created, clientVars, alive>>
      /\ pc' = pc /\ op' = op /\ held' = held
  BY DEF Dispatch, Receive, DispatcherDetach, DispatcherKill, Notify, Give, Clear,
         exitVars, signals, taskVars, clientVars
<1>2. OthersInv(o)'
  BY <1>1, UntouchedOthers DEF OwnedInv
<1> USE DEF Absent, NothingOwed, ExitUnderWay, Executing, Starting, Attached, Unencumbered, Discarding, Sending
<1> DEFINE Kept == ExitInv(o) /\ HandleInv(o) /\ OwnerInv(o) /\ StateInv(o)
<1>3. Kept /\ OpInv(o)
  BY DEF OwnedInv
<1>4. ASSUME Kept', OneTask'
      PROVE  CoreInv(o)' /\ OthersInv(o)'
  BY <1>1, <1>2, <1>3, <1>4 DEF CoreInv, OpInv
<1>5. worker' = worker => Latest' = Latest /\ OneTask'
  BY <1>0, <1>1 DEF Latest, OneTask
<1>6. Latest \in WorkerLabels
  BY <1>0, MaxTasksAssumption DEF Latest, TypeOK, Tasks, WorkerLabels
<1>7. CASE Receive
  <2>1. /\ records > 0 /\ records' = records - 1 /\ dispatcher = "receive" /\ dispatcher' = "detach"
        /\ worker' = worker /\ UNCHANGED <<pending, exited, handle, taken>>
    BY <1>7 DEF Receive, HasRecord, DispatcherStep, signals, taskVars
  <2>2. Kept'
    BY <1>0, <1>1, <1>3, <1>5, <2>1 DEF ExitInv, HandleInv, OwnerInv, StateInv, Stopped, Sending
  <2>3. QED
    BY <1>4, <1>5, <2>1, <2>2
<1>8. CASE DispatcherDetach
  <2>1. /\ dispatcher = "detach" /\ dispatcher' = "kill" /\ taken' = handle /\ handle' = NoTask
        /\ worker' = worker /\ UNCHANGED <<pending, records, exited>>
    BY <1>8 DEF DispatcherDetach, DispatcherStep, exitVars, signals
  <2>2. Kept'
    BY <1>0, <1>1, <1>3, <1>5, <2>1 DEF ExitInv, HandleInv, OwnerInv, StateInv, Stopped, Sending
  <2>3. QED
    BY <1>4, <1>5, <2>1, <2>2
<1>9. CASE DispatcherKill
  <2>1. /\ dispatcher = "kill" /\ dispatcher' = "notify" /\ worker' = WithoutTask(taken)
        /\ UNCHANGED <<pending, records, exited, handle, taken>>
    BY <1>9 DEF DispatcherKill, DispatcherStep, exitVars, signals
  <2>2. /\ Absent => taken = NoTask
        /\ ~Absent => Latest \in Stopped /\ taken = created
        /\ handle = NoTask /\ pending /\ records = 0
    BY <1>3, <1>6, <2>1 DEF ExitInv, HandleInv, OwnerInv, WorkerLabels, Stopped, Sending
  <2>3. Latest' \in {"none", "deleted"} /\ OneTask'
    <3>1. CASE taken = NoTask
      <4>1. worker' = worker
        BY <2>1, <3>1 DEF WithoutTask
      <4>2. Absent
        BY <2>2, <3>1 DEF Latest, NoTask
      <4>3. QED
        BY <1>5, <4>1, <4>2
    <3>2. CASE taken # NoTask
      <4>1. taken = created /\ taken \in Tasks /\ worker[taken] \notin {"none", "deleted"}
        BY <1>0, <2>2, <3>2 DEF Latest, TypeOK, Tasks, NoTask
      <4>2. worker' = [worker EXCEPT ![taken] = "deleted"] /\ created' = created
        BY <1>1, <2>1, <3>2 DEF WithoutTask
      <4>3. QED
        BY <1>0, <4>1, <4>2, LatestMoves
    <3>3. QED
      BY <3>1, <3>2
  <2>4. Kept'
    BY <1>0, <1>1, <1>3, <2>1, <2>2, <2>3 DEF ExitInv, HandleInv, OwnerInv, StateInv, Dormant, Stopped, Sending
  <2>5. QED
    BY <1>4, <2>3, <2>4
<1>10. CASE Notify
  <2>1. /\ dispatcher = "notify" /\ dispatcher' = "give"
        /\ worker' = worker /\ UNCHANGED <<pending, records, exited, handle, taken>>
    BY <1>10 DEF Notify, DispatcherStep, exitVars, signals, taskVars
  <2>2. Kept'
    BY <1>0, <1>1, <1>3, <1>5, <2>1 DEF ExitInv, HandleInv, OwnerInv, StateInv, Stopped, Sending
  <2>3. QED
    BY <1>4, <1>5, <2>1, <2>2
<1>11. CASE Give
  <2>1. /\ dispatcher = "give" /\ dispatcher' = "clear" /\ exited' = TRUE
        /\ worker' = worker /\ UNCHANGED <<pending, records, handle, taken>>
    BY <1>11 DEF Give, DispatcherStep, exitVars, taskVars
  <2>2. Kept'
    BY <1>0, <1>1, <1>3, <1>5, <1>6, <2>1 DEF WorkerLabels, ExitInv, HandleInv, OwnerInv, StateInv, Stopped, Sending
  <2>3. QED
    BY <1>4, <1>5, <2>1, <2>2
<1>12. CASE Clear
  <2>1. /\ dispatcher = "clear" /\ dispatcher' = "receive" /\ pending' = FALSE
        /\ worker' = worker /\ UNCHANGED <<records, exited, handle, taken>>
    BY <1>12 DEF Clear, DispatcherStep, signals, taskVars
  <2>2. Kept'
    BY <1>0, <1>1, <1>3, <1>5, <2>1 DEF ExitInv, HandleInv, OwnerInv, StateInv, Stopped, Sending
  <2>3. QED
    BY <1>4, <1>5, <2>1, <2>2
<1>13. QED
  BY <1>7, <1>8, <1>9, <1>10, <1>11, <1>12 DEF Dispatch

LEMMA OwnerBegins ==
  ASSUME NEW o, OwnedBy(o), OwnedInv(o), NEW x \in Operations, Begin(o, x)
  PROVE  CoreInv(o)' /\ OthersInv(o)'
<1>0. TypeOK /\ o \in Clients /\ pc \in [Clients -> ClientLabels] /\ op \in [Clients -> Operations]
  BY DEF OwnedInv, OwnedBy, TypeOK
<1>1. /\ pc[o] = "idle" /\ pc'[o] = FirstStep[x] /\ op'[o] = x /\ alive
      /\ \A c \in Clients \ {o} : pc'[c] = pc[c] /\ op'[c] = op[c]
      /\ x = "Destroy" => \A c \in Clients : pc[c] = "idle"
      /\ UNCHANGED <<state, exitVars, signals, taskVars, dispatcherVars, held, alive>>
  BY <1>0 DEF Begin, Step, At, Goto
<1>2. FirstStep[x] \in {"checkHandle", "readStart", "pause", "readState", "loadHandle"}
      /\ (FirstStep[x] = "readState" => x = "Terminate")
      /\ (FirstStep[x] \in {"checkHandle", "readStart"} => x \in {"Initialize", "Start"})
      /\ (FirstStep[x] = "pause" => x = "Pause")
      /\ (FirstStep[x] = "loadHandle" => x \in {"Shutdown", "Destroy"})
  BY DEF FirstStep, Operations
<1>3. Latest' = Latest /\ OneTask'
  BY <1>1 DEF Latest, OwnedInv, OneTask, taskVars
<1>4. ExitInv(o)' /\ HandleInv(o)'
  BY <1>1, <1>2, <1>3 DEF OwnedInv, ExitInv, HandleInv, NothingOwed, ExitUnderWay, Absent, Discarding, Sending,
     exitVars, taskVars, dispatcherVars, Stopped
<1>5. OwnerInv(o)' /\ OpInv(o)' /\ StateInv(o)'
  BY <1>1, <1>2, <1>3 DEF OwnedInv, OwnerInv, OpInv, StateInv, Absent, Discarding, Sending, Starting, Attached,
     Unencumbered, Stopping, exitVars, signals, taskVars, dispatcherVars
<1>6. OthersInv(o)'
  BY <1>0, <1>1 DEF OwnedInv, OthersInv
<1>7. QED
  BY <1>3, <1>4, <1>5, <1>6 DEF CoreInv

(* Where a step of the owner's leads.                                      *)
LEMMA OwnerStep ==
  ASSUME NEW o, OwnedBy(o), OwnedInv(o), ClientStep(o)
  PROVE  /\ OthersInv(o)' /\ op' = op
         /\ \A to : Goto(o, to) => pc'[o] = to
<1>0. TypeOK /\ o \in Clients /\ pc \in [Clients -> ClientLabels]
  BY DEF OwnedInv, OwnedBy, TypeOK
<1>1. op' = op /\ \E to : pc' = [pc EXCEPT ![o] = to]
  BY DEF ClientStep, InitializeStep, ControlStep, CheckHandle, CheckPending, CheckAvailable, CheckState, ResetState,
       LockConfiguration, Prepare, CreateTask, CreateFails, AttachTask, OnInitialization,
       CheckAborted, SetInitialized, CheckPublished, SetRunning, OpenGate, OpenGateFails, Unwind,
       UnwindSet, DetachTask, KillTask, ClaimExit, SetPending, Ensure, Lock, Send, Unlock, ReadStart, StartRun, Pause,
       ReadState, SetTerminating, SetTerminated, RequestStop, LoadHandle, Inspect,
       ForceTerminated, AwaitExit, WaitForDispatch, AwaitDispatch, AwaitDestructor, SetDestroyed,
       Reads, SetsState, Step, Goto
<1>2. pc[o] # "idle"
  BY DEF ClientStep, InitializeStep, ControlStep, CheckHandle, CheckPending, CheckAvailable, CheckState, ResetState,
       LockConfiguration, Prepare, CreateTask, CreateFails, AttachTask, OnInitialization,
       CheckAborted, SetInitialized, CheckPublished, SetRunning, OpenGate, OpenGateFails, Unwind,
       UnwindSet, DetachTask, KillTask, ClaimExit, SetPending, Ensure, Lock, Send, Unlock, ReadStart, StartRun, Pause,
       ReadState, SetTerminating, SetTerminated, RequestStop, LoadHandle, Inspect,
       ForceTerminated, AwaitExit, WaitForDispatch, AwaitDispatch, AwaitDestructor, SetDestroyed, Step, At
<1>3. ~alive' => ~alive \/ op[o] = "Destroy"
  BY DEF ClientStep, InitializeStep, ControlStep, CheckHandle, CheckPending, CheckAvailable, CheckState, ResetState,
       LockConfiguration, Prepare, CreateTask, CreateFails, AttachTask, OnInitialization,
       CheckAborted, SetInitialized, CheckPublished, SetRunning, OpenGate, OpenGateFails, Unwind,
       UnwindSet, DetachTask, KillTask, ClaimExit, SetPending, Ensure, Lock, Send, Unlock, ReadStart, StartRun, Pause,
       ReadState, SetTerminating, SetTerminated, RequestStop, LoadHandle, Inspect,
       ForceTerminated, AwaitExit, WaitForDispatch, AwaitDispatch, AwaitDestructor, SetDestroyed, Reads, SetsState
<1>4. \A c \in Clients \ {o} : pc'[c] = pc[c]
  BY <1>0, <1>1
<1>5. OthersInv(o)'
  BY <1>1, <1>2, <1>3, <1>4 DEF OwnedInv, OthersInv
<1>6. \A to : Goto(o, to) => pc'[o] = to
  BY <1>0 DEF Goto
<1>7. QED
  BY <1>1, <1>5, <1>6

LEMMA InitializeKeeps ==
  ASSUME NEW o, OwnedBy(o), OwnedInv(o), InitializeStep(o)
  PROVE  CoreInv(o)'
<1>0. TypeOK /\ OneTask /\ state \in ThreadState /\ o \in Clients
  BY DEF OwnedInv, OwnedBy, TypeOK
<1>1. op' = op /\ \A to : Goto(o, to) => pc'[o] = to
  BY OwnerStep DEF ClientStep
<1>2. UNCHANGED <<worker, created>> => Latest' = Latest /\ OneTask'
  BY <1>0 DEF Latest, OneTask
<1>3. Latest \in WorkerLabels /\ (handle = NoTask /\ Latest \notin {"none", "deleted"} => created # NoTask)
  BY <1>0, MaxTasksAssumption DEF Latest, TypeOK, Tasks, WorkerLabels, NoTask
<1> DEFINE Kept == ExitInv(o) /\ HandleInv(o) /\ OwnerInv(o) /\ OpInv(o) /\ StateInv(o)
<1>4. Kept
  BY DEF OwnedInv
<1>5. ASSUME Kept', OneTask'
      PROVE  CoreInv(o)'
  BY <1>5 DEF CoreInv
<1> USE DEF Absent, NothingOwed, ExitUnderWay, Executing, Starting, Attached, Unencumbered, Discarding, Sending,
            Stopping, At, Step, Reads, SetsState, signals, exitVars, taskVars, dispatcherVars
<1>6. CASE CheckHandle(o)
  <2>1. Kept' /\ OneTask'
    BY <1>0, <1>1, <1>2, <1>3, <1>4, <1>6, SetsFall DEF CheckHandle, MayInitialize, ExitInv, HandleInv, OwnerInv, OpInv, StateInv, WorkerLabels, Dormant, Ending, Falls, Stopped, Sending
  <2>2. QED
    BY <1>5, <2>1
<1>7. CASE CheckPending(o)
  <2>1. Kept' /\ OneTask'
    BY <1>0, <1>1, <1>2, <1>3, <1>4, <1>7, SetsFall DEF CheckPending, DispatchDone, ExitInv, HandleInv, OwnerInv, OpInv, StateInv, WorkerLabels, Dormant, Ending, Falls, Stopped, Sending
  <2>2. QED
    BY <1>5, <2>1
<1>8. CASE CheckState(o)
  <2>1. Kept' /\ OneTask'
    BY <1>0, <1>1, <1>2, <1>3, <1>4, <1>8, SetsFall DEF CheckState, ExitInv, HandleInv, OwnerInv, OpInv, StateInv, WorkerLabels, Dormant, Ending, Falls, Stopped, Sending
  <2>2. QED
    BY <1>5, <2>1
<1>9. CASE ResetState(o)
  <2>0. state' \in {state, "Uninitialized"}
    BY <1>9 DEF ResetState, AfterTrySet, AfterSet
  <2>1. Kept' /\ OneTask'
    BY <1>0, <1>1, <1>2, <1>3, <1>4, <1>9, <2>0 DEF ResetState, ExitInv, HandleInv, OwnerInv, OpInv, StateInv, Dormant, Ending, Stopped, Sending
  <2>2. QED
    BY <1>5, <2>1
<1>10. CASE LockConfiguration(o)
  <2>1. Kept' /\ OneTask'
    BY <1>0, <1>1, <1>2, <1>3, <1>4, <1>10, SetsFall DEF LockConfiguration, MayCreate, ExitInv, HandleInv, OwnerInv, OpInv, StateInv, WorkerLabels, Dormant, Ending, Falls, Stopped, Sending
  <2>2. QED
    BY <1>5, <2>1
<1>11. CASE Prepare(o)
  <2>1. Kept' /\ OneTask'
    BY <1>0, <1>1, <1>2, <1>3, <1>4, <1>11, SetsFall DEF Prepare, Rearmed, ExitInv, HandleInv, OwnerInv, OpInv, StateInv, WorkerLabels, Dormant, Ending, Falls, Stopped, Sending
  <2>2. QED
    BY <1>5, <2>1
<1>12. CASE CreateFails(o)
  <2>1. Kept' /\ OneTask'
    BY <1>0, <1>1, <1>2, <1>3, <1>4, <1>12, SetsFall DEF CreateFails, ExitInv, HandleInv, OwnerInv, OpInv, StateInv, WorkerLabels, Dormant, Ending, Falls, Stopped, Sending
  <2>2. QED
    BY <1>5, <2>1
<1>13. CASE OnInitialization(o)
  <2>1. Kept' /\ OneTask'
    BY <1>0, <1>1, <1>2, <1>3, <1>4, <1>13, SetsFall DEF OnInitialization, ExitInv, HandleInv, OwnerInv, OpInv, StateInv, WorkerLabels, Dormant, Ending, Falls, Stopped, Sending
  <2>2. QED
    BY <1>5, <2>1
<1>14. CASE CheckAborted(o)
  <2>1. Kept' /\ OneTask'
    BY <1>0, <1>1, <1>2, <1>3, <1>4, <1>14, SetsFall DEF CheckAborted, Aborted, ExitInv, HandleInv, OwnerInv, OpInv, StateInv, WorkerLabels, Dormant, Ending, Falls, Stopped, Sending
  <2>2. QED
    BY <1>5, <2>1
<1>15. CASE SetInitialized(o)
  <2>1. Kept' /\ OneTask'
    BY <1>0, <1>1, <1>2, <1>3, <1>4, <1>15, SetsFall DEF SetInitialized, ExitInv, HandleInv, OwnerInv, OpInv, StateInv, WorkerLabels, Dormant, Ending, Falls, Stopped, Sending
  <2>2. QED
    BY <1>5, <2>1
<1>16. CASE CheckPublished(o)
  <2>1. Kept' /\ OneTask'
    BY <1>0, <1>1, <1>2, <1>3, <1>4, <1>16, SetsFall DEF CheckPublished, Aborted, ExitInv, HandleInv, OwnerInv, OpInv, StateInv, WorkerLabels, Dormant, Ending, Falls, Stopped, Sending
  <2>2. QED
    BY <1>5, <2>1
<1>17. CASE SetRunning(o)
  <2>1. Kept' /\ OneTask'
    BY <1>0, <1>1, <1>2, <1>3, <1>4, <1>17, SetsFall DEF SetRunning, ExitInv, HandleInv, OwnerInv, OpInv, StateInv, WorkerLabels, Dormant, Ending, Falls, Stopped, Sending
  <2>2. QED
    BY <1>5, <2>1
<1>18. CASE OpenGate(o)
  <2>1. Kept' /\ OneTask'
    BY <1>0, <1>1, <1>2, <1>3, <1>4, <1>18, SetsFall DEF OpenGate, ExitInv, HandleInv, OwnerInv, OpInv, StateInv, WorkerLabels, Dormant, Ending, Falls, Stopped, Sending
  <2>2. QED
    BY <1>5, <2>1
<1>19. CASE Unwind(o)
  <2>1. Kept' /\ OneTask'
    BY <1>0, <1>1, <1>2, <1>3, <1>4, <1>19, SetsFall DEF Unwind, ExitInv, HandleInv, OwnerInv, OpInv, StateInv, WorkerLabels, Dormant, Ending, Falls, Stopped, Sending
  <2>2. QED
    BY <1>5, <2>1
<1>20. CASE UnwindSet(o)
  <2>1. Kept' /\ OneTask'
    BY <1>0, <1>1, <1>2, <1>3, <1>4, <1>20, SetsFall DEF UnwindSet, ExitInv, HandleInv, OwnerInv, OpInv, StateInv, WorkerLabels, Dormant, Ending, Falls, Stopped, Sending
  <2>2. QED
    BY <1>5, <2>1
<1>21. CASE DetachTask(o)
  <2>0. held'[o] = handle
    BY <1>0, <1>21 DEF DetachTask, TypeOK
  <2>1. Kept' /\ OneTask'
    BY <1>0, <1>1, <1>2, <1>3, <1>4, <1>21, <2>0 DEF DetachTask, ExitInv, HandleInv, OwnerInv, OpInv, StateInv, Stopped, Sending
  <2>2. QED
    BY <1>5, <2>1
<1>22. CASE ClaimExit(o)
  <2>1. Kept' /\ OneTask'
    BY <1>0, <1>1, <1>2, <1>3, <1>4, <1>22, SetsFall DEF ClaimExit, ExitInv, HandleInv, OwnerInv, OpInv, StateInv, WorkerLabels, Dormant, Ending, Falls, Stopped, Sending
  <2>2. QED
    BY <1>5, <2>1
<1>23. CASE SetPending(o)
  <2>1. Kept' /\ OneTask'
    BY <1>0, <1>1, <1>2, <1>3, <1>4, <1>23, SetsFall DEF SetPending, ExitInv, HandleInv, OwnerInv, OpInv, StateInv, WorkerLabels, Dormant, Ending, Falls, Stopped, Sending
  <2>2. QED
    BY <1>5, <2>1
<1>24. CASE Send(o)
  <2>1. Kept' /\ OneTask'
    BY <1>0, <1>1, <1>2, <1>3, <1>4, <1>24, SetsFall DEF Send, OwnedBy, ExitInv, HandleInv, OwnerInv, OpInv, StateInv, WorkerLabels, Dormant, Ending, Falls, Stopped, Sending
  <2>2. QED
    BY <1>5, <2>1
<1>25. CASE CreateTask(o)
  <2>1. /\ Absent /\ NothingOwed /\ pc[o] = "create" /\ pc'[o] = "attach"
        /\ UNCHANGED <<state, exitVars, signals, handle, dispatcherVars, alive>>
    BY <1>1, <1>4, <1>25 DEF CreateTask, OwnerInv
  <2>2. /\ created' = created + 1 /\ created \in Nat /\ created' \in Tasks /\ created' # 0
        /\ \A t \in Tasks : worker'[t] = IF t = created' THEN "gated" ELSE worker[t]
        /\ held'[o] = created'
    BY <1>0, <1>25, MaxTasksAssumption DEF CreateTask, TypeOK, Tasks
  <2>3. Latest' = "gated"
    BY <2>2 DEF Latest
  <2>4. OneTask'
    <3>1. created' > 0 => worker'[created'] # "none"
      BY <2>2
    <3>2. ASSUME NEW t \in Tasks
          PROVE  /\ t < created' => worker'[t] = "deleted"
                 /\ t > created' => worker'[t] = "none"
      <4>1. t \in Nat /\ t # 0
        BY MaxTasksAssumption DEF Tasks
      <4>2. t = created => worker[t] = "deleted"
        BY <1>0, <2>1, <2>2, <4>1 DEF Latest, OneTask
      <4>3. QED
        BY <1>0, <2>2, <4>1, <4>2 DEF OneTask
    <3>3. QED
      BY <3>1, <3>2 DEF OneTask
  <2>5. Kept'
    <3>1. held'[o] = created' /\ ~gate /\ ~finalizing /\ ~exited /\ alive /\ op[o] # "Destroy"
      BY <1>4, <2>1, <2>2 DEF OwnerInv, OpInv
    <3>2. QED
      BY <1>1, <1>4, <2>1, <2>3, <3>1 DEF ExitInv, HandleInv, OwnerInv, OpInv, StateInv, Stopped, Sending
  <2>6. QED
    BY <1>5, <2>4, <2>5
<1>26. CASE AttachTask(o)
  <2>1. /\ pc[o] = "attach" /\ pc'[o] = "onInitialization" /\ handle' = created
        /\ UNCHANGED <<state, exitVars, signals, worker, created, dispatcherVars, held, alive>>
    BY <1>1, <1>4, <1>26 DEF AttachTask, OwnerInv, HandleInv, Stopped, Sending
  <2>2. Kept' /\ OneTask'
    BY <1>1, <1>2, <1>4, <2>1 DEF ExitInv, HandleInv, OwnerInv, OpInv, StateInv, Stopped, Sending
  <2>3. QED
    BY <1>5, <2>2
<1>27. CASE OpenGateFails(o)
  BY <1>27 DEF OpenGateFails, OwnedBy
<1>28. CASE KillTask(o)
  <2>1. /\ pc[o] = "kill" /\ pc'[o] = IF op[o] = "Destroy" THEN "idle" ELSE "claimExit"
        /\ worker' = WithoutTask(held[o]) /\ (alive' <=> op[o] # "Destroy")
        /\ UNCHANGED <<state, exitVars, signals, handle, created, dispatcherVars, held>>
    BY <1>1, <1>28 DEF KillTask
  <2>2. CASE op[o] = "Destroy"
    <3>1. worker' = worker
      BY <1>4, <2>1, <2>2 DEF OwnerInv, WithoutTask
    <3>2. Kept' /\ OneTask'
      BY <1>1, <1>2, <1>4, <2>1, <2>2, <3>1 DEF ExitInv, HandleInv, OwnerInv, OpInv, StateInv, Stopped, Sending
    <3>3. QED
      BY <1>5, <3>2
  <2>3. CASE op[o] # "Destroy"
    <3>1. Latest = "gated" /\ handle = NoTask /\ held[o] = created
      BY <1>4, <2>1, <2>3 DEF OwnerInv, HandleInv, Stopped, Sending
    <3>2. created \in Tasks /\ worker[created] = "gated" /\ created # NoTask
      BY <1>0, <3>1, MaxTasksAssumption DEF Latest, TypeOK, Tasks, NoTask
    <3>3. worker' = [worker EXCEPT ![created] = "deleted"] /\ created' = created
      BY <2>1, <3>1, <3>2 DEF WithoutTask
    <3>4. Latest' = "deleted" /\ OneTask'
      BY <1>0, <3>2, <3>3, LatestMoves
    <3>5. Kept'
      BY <1>1, <1>4, <2>1, <2>3, <3>1, <3>4 DEF ExitInv, HandleInv, OwnerInv, OpInv, StateInv, Dormant, Stopped, Sending
    <3>6. QED
      BY <1>5, <3>4, <3>5
  <2>4. QED
    BY <2>2, <2>3
<1>29. CASE CheckAvailable(o)
  <2>1. Kept' /\ OneTask'
    BY <1>0, <1>1, <1>2, <1>3, <1>4, <1>29, SetsFall DEF CheckAvailable, ExitInv, HandleInv, OwnerInv, OpInv, StateInv, WorkerLabels, Dormant, Ending, Falls, Stopped, Sending
  <2>2. QED
    BY <1>5, <2>1
<1>30. CASE Ensure(o)
  <2>1. Kept' /\ OneTask'
    BY <1>0, <1>1, <1>2, <1>3, <1>4, <1>30, SetsFall DEF Ensure, ExitInv, HandleInv, OwnerInv, OpInv, StateInv, WorkerLabels, Dormant, Ending, Falls, Stopped, Sending
  <2>2. QED
    BY <1>5, <2>1
<1>31. CASE Lock(o)
  <2>1. Kept' /\ OneTask'
    BY <1>0, <1>1, <1>2, <1>3, <1>4, <1>31, SetsFall DEF Lock, ExitInv, HandleInv, OwnerInv, OpInv, StateInv, WorkerLabels, Dormant, Ending, Falls, Stopped, Sending
  <2>2. QED
    BY <1>5, <2>1
<1>32. CASE Unlock(o)
  <2>1. Kept' /\ OneTask'
    BY <1>0, <1>1, <1>2, <1>3, <1>4, <1>32, SetsFall DEF Unlock, ExitInv, HandleInv, OwnerInv, OpInv, StateInv, WorkerLabels, Dormant, Ending, Falls, Stopped, Sending
  <2>2. QED
    BY <1>5, <2>1
<1>33. QED
  BY <1>6, <1>7, <1>8, <1>9, <1>10, <1>11, <1>12, <1>13, <1>14, <1>15, <1>16, <1>17, <1>18, <1>19,
     <1>20, <1>21, <1>22, <1>23, <1>24, <1>25, <1>26, <1>27, <1>28, <1>29, <1>30, <1>31, <1>32
     DEF InitializeStep

LEMMA ControlKeeps ==
  ASSUME NEW o, OwnedBy(o), OwnedInv(o), ControlStep(o)
  PROVE  CoreInv(o)'
<1>0. TypeOK /\ OneTask /\ state \in ThreadState /\ o \in Clients
  BY DEF OwnedInv, OwnedBy, TypeOK
<1>1. op' = op /\ \A to : Goto(o, to) => pc'[o] = to
  BY OwnerStep DEF ClientStep
<1>2. UNCHANGED <<worker, created>> => Latest' = Latest /\ OneTask'
  BY <1>0 DEF Latest, OneTask
<1>3. Latest \in WorkerLabels /\ (handle = NoTask /\ Latest \notin {"none", "deleted"} => created # NoTask)
  BY <1>0, MaxTasksAssumption DEF Latest, TypeOK, Tasks, WorkerLabels, NoTask
<1> DEFINE Kept == ExitInv(o) /\ HandleInv(o) /\ OwnerInv(o) /\ OpInv(o) /\ StateInv(o)
<1>4. Kept
  BY DEF OwnedInv
<1>5. ASSUME Kept', OneTask'
      PROVE  CoreInv(o)'
  BY <1>5 DEF CoreInv
<1> USE DEF Absent, NothingOwed, ExitUnderWay, Executing, Starting, Attached, Unencumbered, Discarding, Sending,
            Stopping, At, Step, Reads, SetsState, signals, exitVars, taskVars, dispatcherVars
<1>6. CASE ReadStart(o)
  <2>1. Kept' /\ OneTask'
    BY <1>0, <1>1, <1>2, <1>3, <1>4, <1>6, SetsFall DEF ReadStart, ExitInv, HandleInv, OwnerInv, OpInv, StateInv, WorkerLabels, Dormant, Ending, Falls, Stopped, Sending
  <2>2. QED
    BY <1>5, <2>1
<1>7. CASE StartRun(o)
  <2>0. Falls(state, AfterTrySet(state, "Initialized", "Running"))
    BY <1>0, SetsFall DEF ThreadState
  <2>1. Kept' /\ OneTask'
    BY <1>0, <1>1, <1>2, <1>4, <1>7, <2>0 DEF StartRun, ExitInv, HandleInv, OwnerInv, OpInv, StateInv, Falls, Stopped, Sending
  <2>2. QED
    BY <1>5, <2>1
<1>8. CASE Pause(o)
  <2>0. Falls(state, AfterTrySet(state, "Running", "Paused"))
    BY <1>0, SetsFall DEF ThreadState
  <2>1. Kept' /\ OneTask'
    BY <1>0, <1>1, <1>2, <1>4, <1>8, <2>0 DEF Pause, ExitInv, HandleInv, OwnerInv, OpInv, StateInv, Falls, Stopped, Sending
  <2>2. QED
    BY <1>5, <2>1
<1>9. CASE ReadState(o)
  <2>1. Kept' /\ OneTask'
    BY <1>0, <1>1, <1>2, <1>3, <1>4, <1>9, SetsFall DEF ReadState, AfterTermination, ExitInv, HandleInv, OwnerInv, OpInv, StateInv, WorkerLabels, Dormant, Ending, Falls, Stopped, Sending
  <2>2. QED
    BY <1>5, <2>1
<1>10. CASE SetTerminating(o)
  <2>1. Kept' /\ OneTask'
    BY <1>0, <1>1, <1>2, <1>3, <1>4, <1>10, SetsFall DEF SetTerminating, ExitInv, HandleInv, OwnerInv, OpInv, StateInv, WorkerLabels, Dormant, Ending, Falls, Stopped, Sending
  <2>2. QED
    BY <1>5, <2>1
<1>11. CASE SetTerminated(o)
  <2>1. Kept' /\ OneTask'
    BY <1>0, <1>1, <1>2, <1>3, <1>4, <1>11, SetsFall DEF SetTerminated, AfterTermination, ExitInv, HandleInv, OwnerInv, OpInv, StateInv, WorkerLabels, Dormant, Ending, Falls, Stopped, Sending
  <2>2. QED
    BY <1>5, <2>1
<1>12. CASE RequestStop(o)
  <2>1. Kept' /\ OneTask'
    BY <1>0, <1>1, <1>2, <1>3, <1>4, <1>12, SetsFall DEF RequestStop, AfterTermination, ExitInv, HandleInv, OwnerInv, OpInv, StateInv, WorkerLabels, Dormant, Ending, Falls, Stopped, Sending
  <2>2. QED
    BY <1>5, <2>1
<1>13. CASE LoadHandle(o)
  <2>1. held'[o] = handle
    BY <1>0, <1>13 DEF LoadHandle, TypeOK
  <2>2. Kept' /\ OneTask'
    BY <1>0, <1>1, <1>2, <1>4, <1>13, <2>1 DEF LoadHandle, ExitInv, HandleInv, OwnerInv, OpInv, StateInv, Stopped, Sending
  <2>3. QED
    BY <1>5, <2>2
<1>14. CASE Inspect(o)
  <2>1. Kept' /\ OneTask'
    BY <1>0, <1>1, <1>2, <1>3, <1>4, <1>14, SetsFall DEF Inspect, ExitInv, HandleInv, OwnerInv, OpInv, StateInv, WorkerLabels, Dormant, Ending, Falls, Stopped, Sending
  <2>2. QED
    BY <1>5, <2>1
<1>15. CASE ForceTerminated(o)
  <2>1. Kept' /\ OneTask'
    BY <1>0, <1>1, <1>2, <1>3, <1>4, <1>15, SetsFall DEF ForceTerminated, ExitInv, HandleInv, OwnerInv, OpInv, StateInv, WorkerLabels, Dormant, Ending, Falls, Stopped, Sending
  <2>2. QED
    BY <1>5, <2>1
<1>16. CASE AwaitExit(o)
  <2>1. Kept' /\ OneTask'
    BY <1>0, <1>1, <1>2, <1>3, <1>4, <1>16, SetsFall DEF AwaitExit, ExitInv, HandleInv, OwnerInv, OpInv, StateInv, WorkerLabels, Dormant, Ending, Falls, Stopped, Sending
  <2>2. QED
    BY <1>5, <2>1
<1>17. CASE AwaitDispatch(o)
  <2>1. Kept' /\ OneTask'
    BY <1>0, <1>1, <1>2, <1>3, <1>4, <1>17, SetsFall DEF AwaitDispatch, WaitForDispatch, Announced, ExitInv, HandleInv, OwnerInv, OpInv, StateInv, WorkerLabels, Dormant, Ending, Falls, Stopped, Sending
  <2>2. QED
    BY <1>5, <2>1
<1>18. CASE AwaitDestructor(o)
  <2>1. Kept' /\ OneTask'
    BY <1>0, <1>1, <1>2, <1>3, <1>4, <1>18, SetsFall DEF AwaitDestructor, WaitForDispatch, Announced, ExitInv, HandleInv, OwnerInv, OpInv, StateInv, WorkerLabels, Dormant, Ending, Falls, Stopped, Sending
  <2>2. QED
    BY <1>5, <2>1
<1>19. CASE SetDestroyed(o)
  <2>1. Kept' /\ OneTask'
    BY <1>0, <1>1, <1>2, <1>3, <1>4, <1>19, SetsFall DEF SetDestroyed, ExitInv, HandleInv, OwnerInv, OpInv, StateInv, WorkerLabels, Dormant, Ending, Falls, Stopped, Sending
  <2>2. QED
    BY <1>5, <2>1
<1>20. QED
  BY <1>6, <1>7, <1>8, <1>9, <1>10, <1>11, <1>12, <1>13, <1>14, <1>15, <1>16, <1>17, <1>18, <1>19 DEF ControlStep

(* The discipline keeps the invariant, one step after the other.           *)
LEMMA OwnedStep == ASSUME NEW o, OwnedBy(o) PROVE OwnedInv(o) /\ [Next]_vars => OwnedInv(o)'
<1> SUFFICES ASSUME OwnedInv(o), [Next]_vars
             PROVE  CoreInv(o)' /\ OthersInv(o)'
  BY TypeStep DEF OwnedInv, CoreInv
<1>1. ASSUME NEW c \in Clients, ClientStep(c) \/ \E x \in Operations : Begin(c, x)
      PROVE  CoreInv(o)' /\ OthersInv(o)'
  <2>1. CASE c # o
    BY <1>1, <2>1, OtherStep
  <2>2. CASE c = o /\ ClientStep(o)
    BY <2>2, OwnerStep, InitializeKeeps, ControlKeeps DEF ClientStep
  <2>3. CASE c = o /\ \E x \in Operations : Begin(o, x)
    BY <2>3, OwnerBegins
  <2>4. QED
    BY <1>1, <2>1, <2>2, <2>3
<1>2. ASSUME NEW t \in Tasks, TaskStep(t)
      PROVE  CoreInv(o)' /\ OthersInv(o)'
  BY <1>2, TaskKeeps
<1>3. CASE Dispatch
  BY <1>3, DispatchKeeps
<1>4. CASE UNCHANGED vars
  <2>1. UNCHANGED <<clientVars, alive>>
    BY <1>4 DEF vars
  <2>2. OthersInv(o)'
    BY <2>1, UntouchedOthers DEF OwnedInv
  <2>3. CoreInv(o)'
    BY <1>4, StateOnly DEF vars, clientVars, OwnedInv, OwnedBy, CoreInv, Falls
  <2>4. QED
    BY <2>2, <2>3
<1>5. QED
  BY <1>1, <1>2, <1>3, <1>4 DEF Next, Gone

LEMMA OwnedInit == ASSUME NEW o, OwnedBy(o) PROVE Init => OwnedInv(o)
<1> SUFFICES ASSUME Init PROVE OwnedInv(o)
  OBVIOUS
<1>1. /\ o \in Clients /\ pc[o] = "idle" /\ op[o] = "Pause" /\ held[o] = NoTask /\ Latest = "none"
      /\ created = 0
  BY DEF OwnedBy, Init, Latest
<1>2. OneTask
  BY MaxTasksAssumption DEF Init, OneTask, Tasks
<1>3. ExitInv(o) /\ HandleInv(o) /\ OwnerInv(o) /\ OpInv(o) /\ StateInv(o)
  BY <1>1 DEF Init, ExitInv, HandleInv, OwnerInv, OpInv, StateInv, Absent, NothingOwed, ExitUnderWay,
     Executing, Starting, Attached, Unencumbered, Discarding, Sending, Stopping, Dormant, Stopped
<1>4. OthersInv(o)
  BY <1>1 DEF Init, OthersInv, Stopping
<1>5. QED
  BY <1>2, <1>3, <1>4, TypeInit DEF OwnedInv

LEMMA OwnedInvariance == ASSUME NEW o, OwnedBy(o) PROVE Spec => []OwnedInv(o)
<1>1. Init => OwnedInv(o)
  BY OwnedInit
<1>2. OwnedInv(o) /\ [Next]_vars => OwnedInv(o)'
  BY OwnedStep
<1>3. QED
  BY <1>1, <1>2, PTL DEF Spec

(* Where a Thread has no exit to announce and no task, nobody but its      *)
(* callers can touch it.                                                   *)
LEMMA AtRest ==
  ASSUME NEW o, OwnedBy(o), OwnedInv(o), Absent, NothingOwed
  PROVE  /\ \A t \in Tasks : worker[t] \notin Executing
         /\ records = 0 /\ dispatcher = "receive"
<1>1. \A t \in Tasks : worker[t] \in {"none", "deleted"}
  BY DEF OwnedInv, OneTask, TypeOK, Latest, Absent, Tasks
<1>2. QED
  BY <1>1 DEF Executing, NothingOwed

LEMMA UnannouncedAtRest ==
  ASSUME NEW o, OwnedBy(o), OwnedInv(o), handle = NoTask, ~pending, pc[o] \in {"awaitDispatch", "poll"}
  PROVE  Absent /\ NothingOwed
<1>1. Latest \in WorkerLabels /\ (Latest \notin {"none", "deleted"} => created # NoTask)
  BY MaxTasksAssumption DEF OwnedInv, Latest, TypeOK, Tasks, WorkerLabels, NoTask
<1>2. QED
  BY <1>1 DEF OwnedInv, ExitInv, HandleInv, NothingOwed, ExitUnderWay, Absent, Executing,
              Discarding, Sending, WorkerLabels, Stopped

(* Nobody sees Initialized, Running or Paused on a Thread without a task.  *)
THEOREM LiveStates == ASSUME NEW o, OwnedBy(o) PROVE Spec => []LiveStateHasTask
<1>1. OwnedInv(o) => LiveStateHasTask
  <2> SUFFICES ASSUME OwnedInv(o), state \in {"Initialized", "Running", "Paused"}
               PROVE  handle # NoTask
    BY DEF LiveStateHasTask
  <2>1. state \notin Dormant
    BY DEF Dormant, Ending
  <2>2. Latest \in {"gated", "loop", "body"} /\ pc[o] \notin {"attach", "kill"}
    BY <2>1 DEF OwnedInv, StateInv, Absent, Dormant
  <2>3. handle = created /\ created # 0
    BY <2>2 DEF OwnedInv, HandleInv, Executing, Latest, Stopped, Sending
  <2>4. QED
    BY <2>3 DEF NoTask
<1>2. QED
  BY <1>1, OwnedInvariance, PTL

(* No task but the owner touches the object once the destructor returned.  *)
THEOREM DestructionIsLast == ASSUME NEW o, OwnedBy(o) PROVE Spec => []NoAccessAfterDestroy
<1>1. OwnedInv(o) => NoAccessAfterDestroy
  <2> SUFFICES ASSUME OwnedInv(o), ~alive
               PROVE  /\ \A t \in Tasks : worker[t] \notin Executing
                      /\ records = 0 /\ dispatcher = "receive"
                      /\ \A c \in Clients : pc[c] = "idle"
    BY DEF NoAccessAfterDestroy
  <2>1. Absent /\ NothingOwed /\ pc[o] = "idle"
    BY DEF OwnedInv, OwnerInv
  <2>2. \A c \in Clients : pc[c] = "idle"
    BY <2>1 DEF OwnedInv, OthersInv
  <2>3. QED
    BY <2>1, <2>2, AtRest
<1>2. QED
  BY <1>1, OwnedInvariance, PTL

(* Shutdown returns only when the worker cannot run the Thread's code any  *)
(* more and its exit has been announced to the last signal.                *)
THEOREM ShutdownStops == ASSUME NEW o, OwnedBy(o) PROVE Spec => ShutdownMeansStopped
<1>1. OwnedInv(o) /\ [Next]_vars =>
        \A c \in Clients : op[c] = "Shutdown" /\ pc[c] # "idle" /\ pc'[c] = "idle"
          => /\ \A t \in Tasks : worker[t] \notin Executing
             /\ records = 0 /\ dispatcher = "receive"
  <2> SUFFICES ASSUME OwnedInv(o), [Next]_vars, NEW c \in Clients,
                      op[c] = "Shutdown", pc[c] # "idle", pc'[c] = "idle"
               PROVE  /\ \A t \in Tasks : worker[t] \notin Executing
                      /\ records = 0 /\ dispatcher = "receive"
    OBVIOUS
  <2>1. c = o
    BY DEF OwnedInv, OthersInv
  <2>2. ClientStep(o)
    <3>1. pc' # pc
      OBVIOUS
    <3>2. \A d \in Clients, x \in Operations : Begin(d, x) => pc[d] = "idle" /\ pc'[c] = pc[c]
      BY DEF Begin, Step, At, Goto, OwnedInv, TypeOK
    <3>3. \A d \in Clients \ {o} : ClientStep(d) => pc'[c] = pc[c]
      BY <2>1, OtherStep
    <3>4. QED
      BY <2>1, <3>1, <3>2, <3>3 DEF Next, TaskStep, Dispatch, PassGate, GateFails, Loop, OnLoop, WorkerClaimExit, Settle,
         WorkerSetPending, WorkerEnsure, WorkerLock,
         WorkerSend, WorkerUnlock, Suspend, Receive, DispatcherDetach, DispatcherKill,
         Notify, Give, Clear, Gone, vars, clientVars
  <2>3. pc[o] \in {"awaitDispatch", "poll"} /\ ~pending
    <3>1. \A to : Goto(o, to) => to = "idle"
      BY <2>1, <2>2, OwnerStep
    <3>2. /\ pc[o] \notin Starting \cup Attached \cup Discarding
          /\ pc[o] \notin {"startRun", "detach", "kill", "pause", "sent", "refused", "awaitDestructor", "askAgain",
                        "pollAgain", "setDestroyed"}
      BY <2>1 DEF OwnedInv, OpInv, OwnerInv
    <3>3. ~InitializeStep(o)
      BY <3>2 DEF InitializeStep, Starting, Attached, Discarding, Sending, At, Step, CheckHandle, CheckPending,
         CheckAvailable, CheckState, ResetState, LockConfiguration, Prepare, CreateTask, CreateFails, AttachTask,
         OnInitialization, CheckAborted, SetInitialized, CheckPublished, SetRunning, OpenGate,
         OpenGateFails, Unwind, UnwindSet, DetachTask, KillTask, ClaimExit, SetPending, Ensure, Lock, Send, Unlock
    <3>4. ~ReadStart(o) /\ ~StartRun(o) /\ ~Pause(o) /\ ~AwaitDestructor(o) /\ ~SetDestroyed(o)
      BY <3>2 DEF ReadStart, StartRun, Pause, AwaitDestructor, WaitForDispatch, SetDestroyed, Starting, At, Step
    <3>5. ~ReadState(o) /\ ~SetTerminating(o) /\ ~SetTerminated(o) /\ ~RequestStop(o)
      BY <2>1, <3>1 DEF ReadState, SetTerminating, SetTerminated, RequestStop, AfterTermination, Step
    <3>6. ~LoadHandle(o) /\ ~Inspect(o) /\ ~ForceTerminated(o) /\ ~AwaitExit(o)
      BY <3>1 DEF LoadHandle, Inspect, ForceTerminated, AwaitExit, Step
    <3>7. AwaitDispatch(o)
      BY <2>2, <3>3, <3>4, <3>5, <3>6 DEF ClientStep, ControlStep
    <3>8. QED
      BY <3>1, <3>7 DEF AwaitDispatch, WaitForDispatch, Announced, Step, At
  <2>4. Absent /\ NothingOwed
    BY <2>3, UnannouncedAtRest DEF OwnedInv, OwnerInv
  <2>5. QED
    BY <2>4, AtRest
<1>2. QED
  BY <1>1, OwnedInvariance, PTL DEF Spec, ShutdownMeansStopped

(* What the contract shows of the latest task and of the exit it owes.     *)
Shown(label) ==
  IF label \in Executing \ {"gated"} THEN "running"
  ELSE IF label = "gated" THEN "gated"
  ELSE IF label \in Stopped THEN "stopped" ELSE "none"

Due(o) == records > 0 \/ dispatcher # "receive" \/ pc[o] \in Discarding

LEMMA ContractView ==
  ASSUME NEW o, OwnedBy(o), TypeOK, OneTask, OthersInv(o)
  PROVE  task = Shown(Latest) /\ (owed <=> Due(o))
<1>1. \A t \in Tasks : t # created => worker[t] \in {"none", "deleted"}
  BY MaxTasksAssumption DEF TypeOK, OneTask, Tasks
<1>2. created # 0 => created \in Tasks
  BY MaxTasksAssumption DEF TypeOK, Tasks
<1>3. 0 \notin Tasks
  BY MaxTasksAssumption DEF Tasks
<1>4. \A labels : "none" \notin labels /\ "deleted" \notin labels => (Workers(labels) <=> Latest \in labels)
  BY <1>1, <1>2, <1>3 DEF Workers, Latest
<1>5. task = Shown(Latest)
  BY <1>4 DEF task, Shown, Executing, Stopped, Sending
<1>6. owed <=> Due(o)
  BY DEF owed, Due, OthersInv, OwnedBy, Discarding, Sending, Stopping
<1>7. QED
  BY <1>5, <1>6

LEMMA ContractViewNext ==
  ASSUME NEW o, OwnedBy(o), TypeOK', OneTask', OthersInv(o)'
  PROVE  task' = Shown(Latest') /\ (owed' <=> Due(o)')
<1>1. \A t \in Tasks : t # created' => worker'[t] \in {"none", "deleted"}
  BY MaxTasksAssumption DEF TypeOK, OneTask, Tasks
<1>2. created' # 0 => created' \in Tasks
  BY MaxTasksAssumption DEF TypeOK, Tasks
<1>3. 0 \notin Tasks
  BY MaxTasksAssumption DEF Tasks
<1>4. \A labels : "none" \notin labels /\ "deleted" \notin labels => (Workers(labels)' <=> Latest' \in labels)
  BY <1>1, <1>2, <1>3 DEF Workers, Latest
<1>5. task' = Shown(Latest')
  BY <1>4 DEF task, Shown, Executing, Stopped, Sending
<1>6. owed' <=> Due(o)'
  BY DEF owed, Due, OthersInv, OwnedBy, Discarding, Sending, Stopping
<1>7. QED
  BY <1>5, <1>6

(* How a step of the Thread shows: the contract's view of it, from what it *)
(* shows of the latest task and what it owes.                              *)
LEMMA Showing ==
  ASSUME NEW o, OwnedBy(o), OwnedInv(o), OwnedInv(o)',
         \/ Shown(Latest') = Shown(Latest) /\ (Due(o)' <=> Due(o))
         \/ Latest = "gated" /\ Latest' = "loop" /\ (Due(o)' <=> Due(o))
         \/ Latest = "gated" /\ Latest' = "deleted" /\ Due(o)'
         \/ Latest = "locked" /\ Latest' = "sent" /\ Due(o)'
         \/ Latest \in Stopped /\ Latest' = "deleted" /\ (Due(o)' <=> Due(o))
         \/ Absent /\ Latest' = "gated" /\ ~Due(o) /\ ~Due(o)'
         \/ Absent /\ Latest' = Latest /\ Due(o) /\ ~Due(o)'
  PROVE  [Contract!Next]_(Contract!vars)
<1>1. task = Shown(Latest) /\ (owed <=> Due(o))
  BY ContractView DEF OwnedInv
<1>2. task' = Shown(Latest') /\ (owed' <=> Due(o)')
  BY ContractViewNext DEF OwnedInv
<1> HIDE DEF task, owed, Due
<1>3. owed \in BOOLEAN /\ owed' \in BOOLEAN
  BY DEF owed
<1>4. Latest' = Latest => Shown(Latest') = Shown(Latest)
  OBVIOUS
<1>5. QED
  BY <1>1, <1>2, <1>3, <1>4 DEF Absent, Shown, Executing, Contract!Next, Contract!vars, Contract!Create, Contract!Open,
     Contract!Discard, Contract!Stop, Contract!Delete, Contract!Announce, Stopped, Sending

LEMMA OthersShow ==
  ASSUME NEW o, OwnedBy(o), OwnedInv(o), OwnedInv(o)', NEW c \in Clients \ {o},
         ClientStep(c) \/ \E x \in Operations : Begin(c, x)
  PROVE  [Contract!Next]_(Contract!vars)
<1>1. pc'[o] = pc[o] /\ UNCHANGED <<exitVars, taskVars, dispatcherVars>>
  BY OtherStep
<1>2. Latest' = Latest /\ (Due(o)' <=> Due(o))
  BY <1>1 DEF Latest, Due, exitVars, taskVars, dispatcherVars
<1>3. QED
  BY <1>2, Showing

LEMMA BeginningShows ==
  ASSUME NEW o, OwnedBy(o), OwnedInv(o), OwnedInv(o)', NEW x \in Operations, Begin(o, x)
  PROVE  [Contract!Next]_(Contract!vars)
<1>1. pc[o] = "idle" /\ pc'[o] = FirstStep[x] /\ UNCHANGED <<exitVars, taskVars, dispatcherVars>>
  BY DEF Begin, Step, At, Goto, OwnedInv, TypeOK, OwnedBy
<1>2. pc[o] \notin Discarding /\ pc'[o] \notin Discarding
  BY <1>1 DEF FirstStep, Operations, Discarding, Sending
<1>3. Latest' = Latest /\ (Due(o)' <=> Due(o))
  BY <1>1, <1>2 DEF Latest, Due, exitVars, taskVars, dispatcherVars
<1>4. QED
  BY <1>3, Showing

LEMMA TaskShows ==
  ASSUME NEW o, OwnedBy(o), OwnedInv(o), OwnedInv(o)', NEW t \in Tasks, TaskStep(t)
  PROVE  [Contract!Next]_(Contract!vars)
<1>0. TypeOK /\ OneTask /\ records \in Nat
  BY DEF OwnedInv, TypeOK
<1>1. UNCHANGED <<clientVars, handle, created, dispatcherVars, alive>>
  BY DEF TaskStep, PassGate, GateFails, Loop, OnLoop, WorkerClaimExit, Settle, WorkerSetPending,
         WorkerEnsure, WorkerLock,
         WorkerSend, WorkerUnlock, Suspend
<1>2. \E to : worker' = [worker EXCEPT ![t] = to] /\ to # "none" /\ worker[t] \notin {"none", "deleted"}
  BY DEF TaskStep, PassGate, GateFails, Loop, OnLoop, WorkerClaimExit, Settle, WorkerSetPending,
         WorkerEnsure, WorkerLock,
         WorkerSend, WorkerUnlock, Suspend, WorkerStep
<1>3. Latest = worker[t] /\ Latest' = worker'[t]
  <2>1. PICK to : worker' = [worker EXCEPT ![t] = to] /\ to # "none" /\ worker[t] \notin {"none", "deleted"}
    BY <1>2
  <2>2. worker'[t] = to
    BY <1>0, <2>1 DEF TypeOK
  <2>3. QED
    BY <1>0, <1>1, <2>1, <2>2, LatestMoves
<1>4. \A from, to : WorkerStep(t, from, to) => Latest = from /\ Latest' = to
  BY <1>0, <1>3 DEF WorkerStep, TypeOK
<1>5. pc' = pc /\ dispatcher' = dispatcher
  BY <1>1 DEF clientVars, dispatcherVars
<1>6. CASE PassGate(t)
  <2>1. Latest = "gated" /\ Latest' = "loop" /\ records' = records
    BY <1>4, <1>6 DEF PassGate, exitVars
  <2>2. QED
    BY <1>5, <2>1, Showing DEF Due
<1>7. CASE WorkerSend(t)
  <2>1. Latest = "locked" /\ Latest' = "sent"
    BY <1>4, <1>7 DEF WorkerSend, OwnedBy
  <2>2. records' > 0
    BY <1>0, <1>7 DEF WorkerSend, OwnedBy
  <2>3. QED
    BY <2>1, <2>2, Showing DEF Due
<1>8. CASE \/ Loop(t) \/ OnLoop(t) \/ WorkerClaimExit(t) \/ Settle(t) \/ WorkerSetPending(t)
           \/ WorkerEnsure(t) \/ WorkerLock(t) \/ WorkerUnlock(t) \/ Suspend(t)
  <2>1. records' = records
    BY <1>8 DEF Loop, OnLoop, WorkerClaimExit, Settle, WorkerSetPending, WorkerEnsure, WorkerLock,
       WorkerUnlock, Suspend, exitVars
  <2>2. (Latest = "claimExit" => ~finalizing) /\ Latest # "refused"
    BY DEF OwnedInv, ExitInv
  <2>3. \/ /\ Latest \in {"loop", "body", "claimExit", "settle", "setPending", "send", "ensured"}
           /\ Latest' \in {"loop", "body", "claimExit", "settle", "setPending", "send",
                             "ensured", "locked"}
        \/ Latest \in {"sent", "queued"} /\ Latest' \in {"queued", "suspended"}
    BY <1>4, <1>8, <2>2 DEF Loop, OnLoop, WorkerClaimExit, Settle, WorkerSetPending, WorkerEnsure,
       WorkerLock, WorkerUnlock, Suspend
  <2>4. Shown(Latest') = Shown(Latest)
    BY <2>3 DEF Shown, Executing, Stopped
  <2>5. Due(o)' <=> Due(o)
    BY <1>5, <2>1 DEF Due
  <2>6. QED
    BY <2>4, <2>5, Showing
<1>9. CASE GateFails(t)
  BY <1>9 DEF GateFails, OwnedBy
<1>10. QED
  BY <1>6, <1>7, <1>8, <1>9 DEF TaskStep

LEMMA DispatchShows ==
  ASSUME NEW o, OwnedBy(o), OwnedInv(o), OwnedInv(o)', Dispatch
  PROVE  [Contract!Next]_(Contract!vars)
<1>0. /\ TypeOK /\ OneTask /\ records \in Nat
      /\ Latest \in WorkerLabels /\ (Latest \notin {"none", "deleted"} => created # NoTask)
  BY MaxTasksAssumption DEF OwnedInv, Latest, TypeOK, Tasks, WorkerLabels, NoTask
<1>1. created' = created /\ pc' = pc
  BY DEF Dispatch, Receive, DispatcherDetach, DispatcherKill, Notify, Give, Clear, taskVars, clientVars
<1>2. worker' = worker => Latest' = Latest
  BY <1>1 DEF Latest
<1>3. CASE Receive \/ DispatcherDetach \/ Notify \/ Give
  <2>1. worker' = worker /\ dispatcher' # "receive" /\ (records > 0 \/ dispatcher # "receive")
    BY <1>3 DEF Receive, HasRecord, DispatcherDetach, Notify, Give, DispatcherStep, taskVars
  <2>2. QED
    BY <1>2, <2>1, Showing DEF Due
<1>4. CASE DispatcherKill
  <2>1. /\ dispatcher = "kill" /\ dispatcher' = "notify" /\ worker' = WithoutTask(taken)
    BY <1>4 DEF DispatcherKill, DispatcherStep
  <2>2. /\ Absent => taken = NoTask
        /\ ~Absent => Latest \in Stopped /\ taken = created
    BY <1>0, <2>1 DEF OwnedInv, ExitInv, HandleInv, NothingOwed, Executing, WorkerLabels, Absent, Stopped, Sending
  <2>3. Due(o)' /\ Due(o)
    BY <2>1 DEF Due
  <2>4. CASE Absent
    <3>1. Latest' = Latest
      BY <1>2, <2>1, <2>2, <2>4 DEF WithoutTask
    <3>2. QED
      BY <2>3, <3>1, Showing
  <2>5. CASE ~Absent
    <3>1. taken = created /\ taken \in Tasks /\ taken # NoTask /\ worker[taken] \notin {"none", "deleted"}
      BY <1>0, <2>2, <2>5, MaxTasksAssumption DEF Latest, TypeOK, Tasks, NoTask, Absent
    <3>2. worker' = [worker EXCEPT ![taken] = "deleted"]
      BY <2>1, <3>1 DEF WithoutTask
    <3>3. Latest' = "deleted"
      BY <1>0, <1>1, <3>1, <3>2, LatestMoves
    <3>4. QED
      BY <2>2, <2>3, <2>5, <3>3, Showing
  <2>6. QED
    BY <2>4, <2>5
<1>5. CASE Clear
  <2>1. dispatcher = "clear" /\ dispatcher' = "receive" /\ worker' = worker /\ records' = records
    BY <1>5 DEF Clear, DispatcherStep, taskVars
  <2>2. Absent /\ pc[o] \notin Discarding /\ records = 0
    BY <1>0, <2>1 DEF OwnedInv, ExitInv, OwnerInv, NothingOwed, ExitUnderWay, Executing, WorkerLabels, Absent, Stopped, Sending
  <2>3. Due(o) /\ ~Due(o)'
    BY <1>1, <2>1, <2>2 DEF Due
  <2>4. QED
    BY <1>2, <2>1, <2>2, <2>3, Showing
<1>6. QED
  BY <1>3, <1>4, <1>5 DEF Dispatch

LEMMA OwnerShows ==
  ASSUME NEW o, OwnedBy(o), OwnedInv(o), OwnedInv(o)', ClientStep(o)
  PROVE  [Contract!Next]_(Contract!vars)
<1>0. TypeOK /\ OneTask /\ o \in Clients /\ records \in Nat
  BY DEF OwnedInv, OwnedBy, TypeOK
<1>1. op' = op /\ \A to : Goto(o, to) => pc'[o] = to
  BY OwnerStep
<1>2. worker' = worker /\ created' = created => Latest' = Latest
  BY DEF Latest
<1> USE DEF At, Step, Reads, SetsState, signals, exitVars, taskVars, dispatcherVars
<1>3. CASE CreateTask(o)
  <2>1. /\ pc[o] = "create" /\ pc'[o] = "attach"
        /\ UNCHANGED <<records, dispatcher>>
    BY <1>1, <1>3 DEF CreateTask
  <2>2. Latest' = "gated"
    BY <1>0, <1>3, MaxTasksAssumption DEF CreateTask, TypeOK, Tasks, Latest
  <2>3. Absent /\ NothingOwed
    BY <2>1 DEF OwnedInv, OwnerInv, Unencumbered
  <2>4. ~Due(o) /\ ~Due(o)'
    BY <2>1, <2>3 DEF Due, NothingOwed, Discarding, Sending
  <2>5. QED
    BY <2>2, <2>3, <2>4, Showing
<1>4. CASE AttachTask(o)
  <2>1. pc[o] = "attach" /\ pc'[o] \notin Discarding /\ UNCHANGED <<records, dispatcher, created>>
    BY <1>1, <1>4 DEF AttachTask, Discarding, Sending
  <2>2. worker' = worker
    BY <1>4, <2>1 DEF AttachTask, OwnedInv, OwnerInv, HandleInv, Stopped, Sending
  <2>3. Due(o)' <=> Due(o)
    BY <2>1 DEF Due, Discarding, Sending
  <2>4. QED
    BY <1>2, <2>1, <2>2, <2>3, Showing
<1>5. CASE KillTask(o)
  <2>1. /\ pc[o] = "kill" /\ pc'[o] = IF op[o] = "Destroy" THEN "idle" ELSE "claimExit"
        /\ worker' = WithoutTask(held[o]) /\ UNCHANGED <<records, dispatcher, created>>
    BY <1>1, <1>5 DEF KillTask
  <2>2. CASE op[o] = "Destroy"
    <3>1. worker' = worker
      BY <2>1, <2>2 DEF OwnedInv, OwnerInv, WithoutTask
    <3>2. Due(o)' <=> Due(o)
      BY <2>1, <2>2 DEF Due, Discarding, Sending
    <3>3. QED
      BY <1>2, <2>1, <3>1, <3>2, Showing
  <2>3. CASE op[o] # "Destroy"
    <3>1. Latest = "gated" /\ held[o] = created
      BY <2>1, <2>3 DEF OwnedInv, OwnerInv, HandleInv, Stopped, Sending
    <3>2. created \in Tasks /\ worker[created] = "gated" /\ created # NoTask
      BY <1>0, <3>1, MaxTasksAssumption DEF Latest, TypeOK, Tasks, NoTask
    <3>3. worker' = [worker EXCEPT ![created] = "deleted"] /\ created' = created
      BY <2>1, <3>1, <3>2 DEF WithoutTask
    <3>4. Latest' = "deleted"
      BY <1>0, <3>2, <3>3, LatestMoves
    <3>5. Due(o)'
      BY <2>1, <2>3 DEF Due, Discarding, Sending
    <3>6. QED
      BY <3>1, <3>4, <3>5, Showing
  <2>4. QED
    BY <2>2, <2>3
<1>6. CASE ClaimExit(o) \/ SetPending(o) \/ Ensure(o) \/ Lock(o)
  <2>1. /\ pc[o] \in {"claimExit", "setPending", "send", "ensured"}
        /\ UNCHANGED <<worker, created, records, dispatcher>>
    BY <1>6 DEF ClaimExit, SetPending, Ensure, Lock
  <2>2. pc'[o] \in {"setPending", "send", "ensured", "locked"}
    BY <1>1, <1>6 DEF ClaimExit, SetPending, Ensure, Lock, OwnedInv, OwnerInv, Discarding, Sending
  <2>3. Due(o) /\ Due(o)'
    BY <2>1, <2>2 DEF Due, Discarding, Sending
  <2>4. QED
    BY <1>2, <2>1, <2>3, Showing
<1>7. CASE Send(o)
  <2>1. /\ pc[o] = "locked" /\ UNCHANGED <<worker, created>> /\ records' > 0
    BY <1>0, <1>7 DEF Send, OwnedBy
  <2>2. Due(o) /\ Due(o)'
    BY <2>1 DEF Due, Discarding, Sending
  <2>3. QED
    BY <1>2, <2>1, <2>2, Showing
<1>8. CASE ~(\/ CreateTask(o) \/ AttachTask(o) \/ KillTask(o) \/ ClaimExit(o) \/ SetPending(o)
             \/ Ensure(o) \/ Lock(o) \/ Send(o))
  <2>1. UNCHANGED <<worker, created, records, dispatcher>> /\ pc[o] \notin Discarding
    BY <1>8 DEF ClientStep, InitializeStep, ControlStep, CheckHandle, CheckPending, CheckAvailable, CheckState, ResetState,
       LockConfiguration, Prepare, CreateFails, OnInitialization, CheckAborted, SetInitialized,
       CheckPublished, SetRunning, OpenGate, OpenGateFails, Unwind, UnwindSet, DetachTask,
       Unlock, ReadStart, StartRun, Pause, ReadState, SetTerminating, SetTerminated, RequestStop,
       LoadHandle, Inspect, ForceTerminated, AwaitExit, WaitForDispatch, AwaitDispatch, AwaitDestructor,
       SetDestroyed, Discarding, Sending
  <2>2. pc'[o] \notin Discarding
    BY <1>1, <1>8 DEF ClientStep, InitializeStep, ControlStep, CheckHandle, CheckPending, CheckAvailable, CheckState, ResetState,
       LockConfiguration, Prepare, CreateFails, OnInitialization, CheckAborted, SetInitialized,
       CheckPublished, SetRunning, OpenGate, OpenGateFails, Unwind, UnwindSet, DetachTask,
       Unlock, ReadStart, StartRun, Pause, ReadState, SetTerminating, SetTerminated, RequestStop,
       LoadHandle, Inspect, ForceTerminated, AwaitExit, WaitForDispatch, AwaitDispatch, AwaitDestructor,
       SetDestroyed, AfterTermination, Discarding, Sending
  <2>3. Due(o)' <=> Due(o)
    BY <2>1, <2>2 DEF Due
  <2>4. QED
    BY <1>2, <2>1, <2>3, Showing
<1>9. QED
  BY <1>3, <1>4, <1>5, <1>6, <1>7, <1>8

(* Under the owner's discipline the Thread implements its contract: one    *)
(* worker at a time, deleted only stopped or still gated, and the next one *)
(* created only after the last exit was announced to the last signal.      *)
THEOREM Refinement == ASSUME NEW o, OwnedBy(o) PROVE Spec => ImplementsContract
<1>1. Init => Contract!Init
  <2> SUFFICES ASSUME Init PROVE Contract!Init
    OBVIOUS
  <2>1. OwnedInv(o)
    BY OwnedInit
  <2>2. task = Shown(Latest) /\ (owed <=> Due(o))
    BY <2>1, ContractView DEF OwnedInv
  <2>3. Latest = "none" /\ ~Due(o)
    BY DEF Init, Latest, Due, OwnedBy, Discarding, Sending
  <2>4. owed \in BOOLEAN
    BY DEF owed
  <2>5. QED
    BY <2>2, <2>3, <2>4 DEF Contract!Init, Shown, Executing, Stopped, Sending
<1>2. OwnedInv(o) /\ OwnedInv(o)' /\ [Next]_vars => [Contract!Next]_(Contract!vars)
  <2> SUFFICES ASSUME OwnedInv(o), OwnedInv(o)', [Next]_vars PROVE [Contract!Next]_(Contract!vars)
    OBVIOUS
  <2>1. ASSUME NEW c \in Clients, ClientStep(c) \/ \E x \in Operations : Begin(c, x)
        PROVE  [Contract!Next]_(Contract!vars)
    BY <2>1, OthersShow, BeginningShows, OwnerShows
  <2>2. ASSUME NEW t \in Tasks, TaskStep(t)
        PROVE  [Contract!Next]_(Contract!vars)
    BY <2>2, TaskShows
  <2>3. CASE Dispatch
    BY <2>3, DispatchShows
  <2>4. CASE UNCHANGED vars
    <3>1. Latest' = Latest /\ (Due(o)' <=> Due(o))
      BY <2>4 DEF vars, exitVars, taskVars, dispatcherVars, clientVars, Latest, Due
    <3>2. QED
      BY <3>1, Showing
  <2>5. QED
    BY <2>1, <2>2, <2>3, <2>4 DEF Next, Gone
<1>3. QED
  BY <1>1, <1>2, OwnedInvariance, PTL DEF Spec, ImplementsContract, Contract!Spec

(* Under the same discipline a second record is never queued while one is  *)
(* queued or being dispatched: two initialisations by different clients    *)
(* can break this, one owner cannot.                                       *)
THEOREM OneExitAtATime == ASSUME NEW o, OwnedBy(o) PROVE Spec => []OneRecord
<1>1. OwnedInv(o) => OneRecord
  <2> SUFFICES ASSUME OwnedInv(o) PROVE OneRecord
    OBVIOUS
  <2>1. Latest \in WorkerLabels /\ records \in Nat
    BY MaxTasksAssumption DEF OwnedInv, Latest, TypeOK, Tasks, WorkerLabels
  <2>2. pc[o] \in Discarding => records = 0 /\ dispatcher = "receive"
    BY DEF OwnedInv, OwnerInv
  <2>3. QED
    BY <2>1, <2>2 DEF OwnedInv, ExitInv, NothingOwed, ExitUnderWay, Absent, Executing, WorkerLabels, OneRecord, Stopped, Sending
<1>2. QED
  BY <1>1, OwnedInvariance, PTL
=============================================================================
