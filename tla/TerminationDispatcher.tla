------------------------ MODULE TerminationDispatcher ------------------------
(***************************************************************************)
(* The one termination dispatcher and the Threads that exit through it:    *)
(* how it comes into being, its bounded queue, the mutex a sender holds    *)
(* while it waits for room, the announcement of each exit, and the cleanup *)
(* pass after it.  Other tasks run cleanup passes too.                     *)
(*                                                                         *)
(* Each Thread runs once here; module Thread has the rest of its life and  *)
(* ThreadManager the inside of a pass.                                     *)
(***************************************************************************)
EXTENDS Naturals, Sequences, SequencesExt

CONSTANTS
  Threads,      \* Thread objects
  Collectors,   \* application tasks that run cleanup passes
  Dispatcher,   \* the dispatcher task
  NoTask,       \* holder of a free mutex
  NoThread,     \* no Thread: nothing is being dispatched or deleted
  ReleasedAtFirst, \* Threads made with ReleaseOnTerminate
  Callbacks,    \* what OnTerminated may do: "Release", "Keep", "Shutdown"
  QueueLength,  \* ESPRESSIO_THREAD_TERMINATION_QUEUE_LENGTH
  Faults,       \* "create": the queue or the task cannot be created
  Outranking    \* Threads whose worker shares the dispatcher's core and has
                \* the higher priority: it is not preempted by the dispatcher

Cleaners == Collectors \cup {Dispatcher}

ASSUME ThreadsAssumption == NoThread \notin Threads
ASSUME TasksAssumption == NoTask \notin Threads \cup Cleaners
ASSUME DispatcherAssumption == Dispatcher \notin Threads \cup Collectors
ASSUME SetsAssumption == ReleasedAtFirst \subseteq Threads /\ Outranking \subseteq Threads
ASSUME QueueAssumption == QueueLength \in Nat \ {0}

VARIABLES
  available,  \* _queue and _taskHandle are set
  reported,   \* what the initialisation observers heard last
  mutex,      \* holder of _initializationMutex
  queue,      \* the Threads of the records in _queue
  at,         \* at[th]: where the Thread's worker is
  pending,    \* pending[th]: _terminationDispatchPending
  released,   \* the Threads with _freeOnTerminate and a claim not Manual
  deleted,    \* the Threads whose destructor has run
  announcements, \* announcements[th]: how often OnTerminated was invoked
  current,    \* the Thread of the record being dispatched
  pc,         \* each cleaner: its next step
  claimed,    \* each cleaner: the Threads its pass claimed
  doomed      \* each cleaner: the Thread whose destructor it runs

dispatcherVars == <<available, reported, queue>>
threadVars == <<at, pending, released, deleted, announcements>>
cleanerVars == <<current, pc, claimed, doomed>>
vars == <<dispatcherVars, mutex, threadVars, cleanerVars>>

(* "settled": Terminated, exit claimed.  "locked" and "sent" hold the mutex *)
WorkerLabels == {"created", "running", "settled", "marked", "ensured", "locked",
                 "sent", "queued", "suspended", "killed"}
CleanerLabels == {"idle", "receive", "kill", "callback", "shutdown", "clear",
                  "begin", "claim", "delete", "wait", "poll", "destroy"}

TypeOK ==
  /\ available \in BOOLEAN
  /\ reported \in {"none", "available", "unavailable"}
  /\ mutex \in Threads \cup {NoTask}
  /\ queue \in Seq(Threads) /\ Len(queue) <= QueueLength
  /\ at \in [Threads -> WorkerLabels]
  /\ pending \in [Threads -> BOOLEAN]
  /\ released \subseteq Threads /\ deleted \subseteq Threads
  /\ announcements \in [Threads -> Nat]
  /\ current \in Threads \cup {NoThread}
  /\ pc \in [Cleaners -> CleanerLabels]
  /\ claimed \in [Cleaners -> SUBSET Threads]
  /\ doomed \in [Cleaners -> Threads \cup {NoThread}]

Rest(k) == IF k = Dispatcher THEN "receive" ELSE "idle"

Init ==
  /\ available = FALSE /\ reported = "none"
  /\ mutex = NoTask /\ queue = << >>
  /\ at = [th \in Threads |-> "created"]
  /\ pending = [th \in Threads |-> FALSE]
  /\ released = ReleasedAtFirst /\ deleted = {}
  /\ announcements = [th \in Threads |-> 0]
  /\ current = NoThread
  /\ pc = [k \in Cleaners |-> Rest(k)]
  /\ claimed = [k \in Cleaners |-> {}]
  /\ doomed = [k \in Cleaners |-> NoThread]

-----------------------------------------------------------------------------
MutexFree == mutex = NoTask
WorkerStep(th, from, to) == at[th] = from /\ at' = [at EXCEPT ![th] = to]
OtherThreadVars == <<released, deleted, announcements>>

(* Initialize() of a Thread: EnsureAvailable creates the queue and the task *)
(* the first time, and again after a failure.                              *)
MayCreate == ~available
Initialize(th) ==
  /\ MutexFree /\ at[th] = "created" /\ th \notin deleted
  /\ \/ /\ ~MayCreate
        /\ WorkerStep(th, "created", "running")
        /\ UNCHANGED <<available, reported>>
     \/ /\ MayCreate
        /\ WorkerStep(th, "created", "running")
        /\ available' = TRUE /\ reported' = "available"
     \/ /\ MayCreate /\ "create" \in Faults
        /\ reported' = "unavailable"
        /\ UNCHANGED <<available, at>>
  /\ UNCHANGED <<queue, mutex, pending, OtherThreadVars, cleanerVars>>

(* The worker leaves its loop, claims its exit and is Terminated.          *)
Settle(th) ==
  /\ WorkerStep(th, "running", "settled")
  /\ UNCHANGED <<dispatcherVars, mutex, pending, OtherThreadVars, cleanerVars>>

SetPending(th) ==
  /\ WorkerStep(th, "settled", "marked")
  /\ pending' = [pending EXCEPT ![th] = TRUE]
  /\ UNCHANGED <<dispatcherVars, mutex, OtherThreadVars, cleanerVars>>

(* Dispatch(): EnsureAvailable takes and releases the mutex first.         *)
Ensure(th) ==
  /\ MutexFree /\ available
  /\ WorkerStep(th, "marked", "ensured")
  /\ UNCHANGED <<dispatcherVars, mutex, pending, OtherThreadVars, cleanerVars>>

Lock(th) ==
  /\ MutexFree
  /\ WorkerStep(th, "ensured", "locked")
  /\ mutex' = th
  /\ UNCHANGED <<dispatcherVars, pending, OtherThreadVars, cleanerVars>>

(* Send waits for room for as long as it takes, with the mutex held.       *)
HasRoom == Len(queue) < QueueLength
(* Mutant: a record that finds the queue full is dropped. *)
SendOrDrop(th) ==
  /\ WorkerStep(th, "locked", "sent")
  /\ queue' = IF HasRoom THEN Append(queue, th) ELSE queue
  /\ UNCHANGED <<available, reported, mutex, pending, OtherThreadVars, cleanerVars>>

Send(th) ==
  /\ HasRoom
  /\ WorkerStep(th, "locked", "sent")
  /\ queue' = Append(queue, th)
  /\ UNCHANGED <<available, reported, mutex, pending, OtherThreadVars, cleanerVars>>

(* Mutant: the mutex is kept until the worker is gone. *)
UnlockNever(th) ==
  /\ WorkerStep(th, "sent", "queued")
  /\ UNCHANGED <<dispatcherVars, mutex, pending, OtherThreadVars, cleanerVars>>

Unlock(th) ==
  /\ WorkerStep(th, "sent", "queued")
  /\ mutex' = NoTask
  /\ UNCHANGED <<dispatcherVars, pending, OtherThreadVars, cleanerVars>>

Suspend(th) ==
  /\ WorkerStep(th, "queued", "suspended")
  /\ UNCHANGED <<dispatcherVars, mutex, pending, OtherThreadVars, cleanerVars>>

ExitStep(th) == \/ SetPending(th) \/ Ensure(th) \/ Lock(th) \/ Send(th)
                \/ Unlock(th) \/ Suspend(th)

-----------------------------------------------------------------------------
(* The dispatcher.  A worker that outranks it finishes its exit first.  A  *)
(* record of a Thread destroyed meanwhile is dispatched from what its      *)
(* memory still holds.                                                     *)
Preempted == \E th \in Outranking : at[th] \in {"sent", "queued"}
CleanerStep(k, from, to) ==
  /\ pc[k] = from /\ pc' = [pc EXCEPT ![k] = to]
  /\ k = Dispatcher => ~Preempted

(* Mutant: the record stays in the queue and is received again. *)
RecordKept ==
  /\ queue # << >>
  /\ CleanerStep(Dispatcher, "receive", "kill")
  /\ current' = Head(queue)
  /\ UNCHANGED <<dispatcherVars, mutex, threadVars, claimed, doomed>>

Receive ==
  /\ queue # << >>
  /\ CleanerStep(Dispatcher, "receive", "kill")
  /\ current' = Head(queue)
  /\ queue' = Tail(queue)
  /\ UNCHANGED <<available, reported, mutex, threadVars, claimed, doomed>>

(* Deleting a task leaves a mutex it holds locked.                         *)
Killed(th) == [at EXCEPT ![th] = "killed"]
KillWorker ==
  /\ CleanerStep(Dispatcher, "kill", "callback")
  /\ at' = Killed(current)
  /\ UNCHANGED <<dispatcherVars, mutex, pending, OtherThreadVars, current, claimed, doomed>>

(* OnTerminated, and what it may do with its sender.                       *)
Callback ==
  /\ announcements' = [announcements EXCEPT ![current] = @ + 1]
  /\ \/ CleanerStep(Dispatcher, "callback", "clear") /\ UNCHANGED released
     \/ /\ CleanerStep(Dispatcher, "callback", "clear") /\ "Release" \in Callbacks
        /\ released' = released \cup {current}
     \/ /\ CleanerStep(Dispatcher, "callback", "clear") /\ "Keep" \in Callbacks
        /\ released' = released \ {current}
     \/ /\ CleanerStep(Dispatcher, "callback", "shutdown") /\ "Shutdown" \in Callbacks
        /\ released' = released \ {current}
  /\ UNCHANGED <<dispatcherVars, mutex, at, pending, deleted, current, claimed, doomed>>

(* Shutdown from OnTerminated asks whether it runs on the dispatcher task, *)
(* under the mutex, and if so does not wait.                               *)
MayAskTask == MutexFree
CallbackShutdown ==
  /\ MayAskTask
  /\ CleanerStep(Dispatcher, "shutdown", "clear")
  /\ UNCHANGED <<dispatcherVars, mutex, threadVars, current, claimed, doomed>>

(* Mutant: no cleanup pass follows the announcement. *)
ClearOnly ==
  /\ CleanerStep(Dispatcher, "clear", "receive")
  /\ pending' = [pending EXCEPT ![current] = FALSE]
  /\ current' = NoThread
  /\ UNCHANGED <<dispatcherVars, mutex, at, OtherThreadVars, claimed, doomed>>

(* The dispatcher's last access to the Thread of this record.              *)
Clear ==
  /\ CleanerStep(Dispatcher, "clear", "begin")
  /\ pending' = [pending EXCEPT ![current] = FALSE]
  /\ current' = NoThread
  /\ UNCHANGED <<dispatcherVars, mutex, at, OtherThreadVars, claimed, doomed>>

-----------------------------------------------------------------------------
(* A cleanup pass: one at a time until it has unregistered what it claimed. *)
Terminated(th) == at[th] \notin {"created", "running"}
Reclaimable == {th \in released \ deleted :
                  Terminated(th) /\ \A k \in Cleaners : th # doomed[k] /\ th \notin claimed[k]}

BeginPass(k) ==
  /\ \A j \in Cleaners : pc[j] # "claim"
  /\ CleanerStep(k, IF k = Dispatcher THEN "begin" ELSE "idle", "claim")
  /\ claimed' = [claimed EXCEPT ![k] = Reclaimable]
  /\ UNCHANGED <<dispatcherVars, mutex, threadVars, current, doomed>>

(* The pass may also meet Threads that terminated after it began.          *)
Claim(k) ==
  /\ CleanerStep(k, "claim", "delete")
  /\ \E S \in SUBSET Reclaimable : claimed' = [claimed EXCEPT ![k] = @ \cup S]
  /\ UNCHANGED <<dispatcherVars, mutex, threadVars, current, doomed>>

(* ~Thread waits for a pending dispatch, except on the dispatcher's task.  *)
BeginDelete(k) ==
  /\ \E th \in claimed[k] :
       /\ doomed' = [doomed EXCEPT ![k] = th]
       /\ claimed' = [claimed EXCEPT ![k] = @ \ {th}]
       /\ CleanerStep(k, "delete", IF pending[th] THEN "wait" ELSE "destroy")
  /\ UNCHANGED <<dispatcherVars, mutex, threadVars, current>>

AskTask(k) ==
  /\ MayAskTask
  /\ CleanerStep(k, "wait", IF k = Dispatcher THEN "destroy" ELSE "poll")
  /\ UNCHANGED <<dispatcherVars, mutex, threadVars, current, claimed, doomed>>

(* Mutant: the destructor does not wait for the dispatcher. *)
DispatchIgnored(th) == TRUE
DispatchOver(th) == ~pending[th]
Poll(k) ==
  /\ CleanerStep(k, "poll", "destroy")
  /\ DispatchOver(doomed[k])
  /\ UNCHANGED <<dispatcherVars, mutex, threadVars, current, claimed, doomed>>

DestroyThread(k) ==
  /\ CleanerStep(k, "destroy", "delete")
  /\ at' = Killed(doomed[k])
  /\ deleted' = deleted \cup {doomed[k]}
  /\ doomed' = [doomed EXCEPT ![k] = NoThread]
  /\ UNCHANGED <<dispatcherVars, mutex, pending, released, announcements, current, claimed>>

EndPass(k) ==
  /\ claimed[k] = {}
  /\ CleanerStep(k, "delete", Rest(k))
  /\ UNCHANGED <<dispatcherVars, mutex, threadVars, current, claimed, doomed>>

PassStep(k) == \/ Claim(k) \/ BeginDelete(k) \/ AskTask(k) \/ Poll(k)
               \/ DestroyThread(k) \/ EndPass(k)

DispatcherStep == \/ Receive \/ KillWorker \/ Callback \/ CallbackShutdown \/ Clear
                  \/ BeginPass(Dispatcher) \/ PassStep(Dispatcher)

Next ==
  \/ \E th \in Threads : Initialize(th) \/ Settle(th) \/ ExitStep(th)
  \/ DispatcherStep
  \/ \E k \in Collectors : BeginPass(k) \/ PassStep(k)

Spec == Init /\ [][Next]_vars

(* Tasks that can run do run; the mutex wakes its waiters in turn, hence   *)
(* strong fairness for the steps that take it.  Nobody has to initialise a *)
(* Thread, to end one or to begin a pass.                                  *)
FairSpec ==
  /\ Spec
  /\ \A th \in Threads : SF_vars(ExitStep(th))
  /\ SF_vars(DispatcherStep)
  /\ \A k \in Collectors : SF_vars(PassStep(k))

-----------------------------------------------------------------------------
announced == {th \in Threads : announcements[th] > 0}

(* Nobody releases these Threads before their OnTerminated does, whatever  *)
(* becomes of the others.                                                  *)
KeptAtFirst == Threads \ ReleasedAtFirst

(* A Thread is destroyed only when no code runs on its worker's stack: of  *)
(* those not released before their exit, and of all of them.               *)
StoppedWhenDestroyed(S) == \A th \in S \cap (deleted' \ deleted) : at[th] \in {"suspended", "killed"}
DestroyedOnlyStopped == [][StoppedWhenDestroyed(KeptAtFirst)]_vars
AllDestroyedOnlyStopped == [][StoppedWhenDestroyed(Threads)]_vars

(* No record, queued or being dispatched, points at a destroyed Thread: of *)
(* those not released before their exit, even while a pass reclaims others *)
(* under their dispatch; and of all of them.                               *)
NoRecordOfDestroyed(S) == \A th \in S \cap deleted : th # current /\ ~Contains(queue, th)
NoDanglingRecord == NoRecordOfDestroyed(KeptAtFirst)
NoDanglingRecordAtAll == NoRecordOfDestroyed(Threads)

(* A Thread is reclaimed only after its exit was announced.                *)
ReclaimedAfterAnnounced == deleted \subseteq announced

(* Whoever waits for a dispatch of a Thread that exists waits for          *)
(* something: until the record is queued the worker is on its way to queue *)
(* it, and then the record stays in the queue until the dispatcher has     *)
(* finished with it, even if Threads are reclaimed as soon as they end.    *)
NoStrandedWaiter ==
  \A th \in Threads \ deleted : pending[th] =>
    \/ at[th] \in {"marked", "ensured", "locked"}
    \/ Contains(queue, th) \/ th = current

(* An exit that began is announced.                                        *)
ExitsAnnounced == \A th \in Threads : Terminated(th) ~> th \in announced

(* A Thread that is released when its exit is complete is reclaimed.       *)
ReleasedReclaimed ==
  \A th \in Threads :
    th \in announced /\ ~pending[th] /\ th \in released ~> th \in deleted

(* OnTerminated may call Shutdown: the callback returns.                   *)
CallbackReturns == pc[Dispatcher] = "shutdown" ~> pc[Dispatcher] = "clear"

(* A dispatcher that was reported unavailable stays so.                    *)
RemainsUnavailable == [][reported = "unavailable" => ~available']_vars

-----------------------------------------------------------------------------
(* The end of each Thread that nobody releases before it: the worker is    *)
(* stopped, OnTerminated invoked, the record done with, the Thread deleted. *)
stage == [th \in KeptAtFirst |->
            IF th \in deleted THEN "reclaimed"
            ELSE IF th \in announced THEN IF th = current THEN "announced" ELSE "over"
            ELSE IF at[th] = "killed" THEN "stopped" ELSE "active"]
announcementsOfKept == [th \in KeptAtFirst |-> announcements[th]]

Exit == INSTANCE ExitContract WITH Threads <- KeptAtFirst, stage <- stage,
                                   announcements <- announcementsOfKept

(* Each of these Threads stops, has OnTerminated invoked once and never    *)
(* again, and is deleted only when the dispatcher has let go of it.        *)
ImplementsExit == Exit!Spec
=============================================================================
