# ESPressio Threads: TLA+ models, checks and proofs

ESPressio Threads is a C++ library for small devices: `Thread` objects that each
run a native (FreeRTOS) task, a `ThreadManager` that registers and reclaims them, and a
`ThreadTerminationDispatcher` that deletes a finished task from outside it. This
directory models that lifecycle, checks it with TLC on small instances, and proves with
TLAPS every safety property, action property and refinement those checks pass. Source paths below are relative to `src/src/`, the file prefix `ESPressio_`
is left out.

## The system

| Part | State it keeps | Operations | Hard behaviour |
|---|---|---|---|
| `Thread` (`Thread.hpp`, `Thread.cpp`) | lifecycle state, task handle, exit claim, dispatch-pending flag, exit and gate signals, two mutexes, cleanup claim | `Initialize`, `Start`, `Pause`, `Terminate`, `Shutdown`, destructor; the worker's `_taskEntry`, `_loop`, `_finalizeCurrentTaskExit` | several clients, the worker and the dispatcher race on atomics; initialisation fails half-way; a Thread is used again |
| `ThreadManager` (`ThreadManager.hpp`) | registry, iteration count, deferred-cleanup flag, iteration mutex, core rotation | `AddThread`, `RemoveThread`, `ForEachThread`, `WithThread`, `InitializeWithResults`, `CleanUpWithResult` | cleanup against iteration, deferred work, three parties claim one Thread, exceptions |
| `ThreadTerminationDispatcher` | bounded queue, its task, the initialisation mutex | `EnsureAvailable`, `Dispatch`, the dispatch loop, `IsCurrentTask` | a full queue, a mutex held while waiting, deleting a task that still runs, raw pointers in the queue |
| Release policy (`ThreadReleasePolicy.hpp`, `Thread.hpp`) | flag and claim of each Thread | `SetFreeOnTerminate`, `TryClaimAutomaticCleanup`, the claim in `Shutdown` | two-step updates that race |
| `PrecisionThread` | period, next deadline, measurements and their generation, wake request, schedule signal | `OnLoop`, `Bump`, `WakeForWork`, the overridden lifecycle operations, setters | arithmetic at the end of the clock, changes during an iteration, a wake-up between decision and wait |
| `ThreadSafe` (`Mutex`, `ReadWriteMutex`) | a value and its lock | `Get`, `Set`, `TrySet`, scoped locks, probes, `OnChange` | callbacks outside the lock, unpaired release |
| Callbacks and observers | callback slots, observer lists | state-change, exit, cleanup and dispatch notifications | callbacks that change the state they are told about |
| Stack telemetry | none | one query | none |

How they interact. `Initialize` registers the Thread with the manager if that was
deferred, makes sure the dispatcher exists, creates the worker behind a gate and opens
the gate when everything succeeded. A worker that ends sets `Terminated`, marks its
dispatch pending, puts a record with a raw pointer in the dispatcher's queue and
suspends. The dispatcher deletes the task, calls `OnTerminated`, gives the exit signal
`Shutdown` waits for, clears the pending flag, and runs a manager cleanup pass, which
claims, unregisters and deletes every terminated Thread that is released on
termination. The destructor waits for a pending dispatch, except on the dispatcher's
own task. The application may run passes, iterate, and delete what it owns.
A `PrecisionThread` is a `Thread` whose `OnLoop` keeps a schedule and whose lifecycle
operations also reset that schedule and wake the worker. Every change of a Thread's
state is told to its callbacks and observers under the state's recursive mutex. The
manager's registry is a `ThreadSafe` value.

## Modules

| Module | Models |
|---|---|
| `ThreadStates` | the state transition table and the two operations that change the state, as functions |
| `Thread` | one Thread: clients, successive workers and the dispatcher's work on it |
| `ThreadContract` | what a Thread promises about its native task; `Thread` is shown to implement it |
| `ThreadManager` | registry, iterations, cleanup passes, ownership claims, owners |
| `SafeReclamation` | what the manager promises about deletion: nothing pinned is deleted, each Thread once, by whom its claim says; `ThreadManager` implements it |
| `TerminationDispatcher` | the dispatcher with several exiting Threads and cleanup passes on several tasks: it composes the exit of `Thread` with the passes of `ThreadManager`, each cut down to the steps the dispatcher interacts with |
| `ExitContract` | the end of a Thread that nobody releases before it: stopped, announced once, its dispatch over, reclaimed, in that order; `TerminationDispatcher` implements it |
| `ThreadRegistry` | records, unique IDs, cores, deferred registration, `SetCoreID` |
| `PrecisionThread` | the worker's schedule and the tasks that steer it |
| `DeadlineSchedule` | deadlines whole periods apart, none skipped without being counted; `PrecisionThread` implements it |
| `ThreadSafe` | a value of two words, its lock, its callers |
| `AtomicValue` | reads, assignments and updates one at a time; `ThreadSafe` implements it |
| `LifecycleNotification` | how state changes reach callbacks and observers that change the state themselves |
| `ThreadProofs`, `ThreadManagerProofs`, `ThreadRegistryProofs`, `TerminationDispatcherProofs`, `PrecisionThreadProofs`, `ThreadSafeProofs`, `LifecycleNotificationProofs` | the theorems about the module each is named after |
| `*MC` | who may call what in the small instances |

**Thread.** The atomics `_threadState`, `_taskHandle`, `_terminationDispatchPending`,
`_taskExitFinalizationStarted` are `state`, `handle`, `pending`, `finalizing`; the
binary signals are `exited` and `gate`. `pc[c]` says where a client is in its call,
`worker[t]` where the t-th native task is. Each action is one access to something
shared. `SetThreadState` and its callbacks run under a recursive mutex and are one
action. `Terminate` is a read and a write for a client (`ReadState`, then
`RequestStop` or `SetTerminating`); from inside `OnInitialization` or `OnLoop` it is
one step. Callbacks themselves have no state here, except that a throwing one unwinds
`Initialize`. Locks are acquired by actions that are disabled while the lock is held.
`dispatchMutex` is the dispatcher's `_initializationMutex`: `Initialize` takes it to look whether
there is a dispatcher (`CheckAvailable`; with the fault `ensure` there is none), `Dispatch` takes
it once to look (`Ensure`) and once to hold it over the queue's `Send` (`Lock`, `Send`, `Unlock`, and
`Worker...` for the task that ends), and `_waitForTerminationDispatch` takes it to ask
which task is current (`WaitForDispatch`). A worker deleted between `Send` and `Unlock` leaves it
locked; then whoever asks waits for ever. A gate or exit signal that could not be created makes
`_initialize` return before it changes anything and is not a separate action.

**ThreadManager.** A *caller* is an activity, not a task: a call made inside an
iteration's callback is the step of another caller, since the manager keeps no record of
who iterates. `lifetime` says whether an object exists, `snapshot[c]` and `claimed[c]`
are the local vectors of iterations and passes. `ForEachThread`, `WithThread` and
`InitializeWithResults` share `BeginIteration`, `Copy`, `Visit`, `EndIteration`: they
differ in what they copy and in what the callback does. The pass holds the iteration
mutex from `BeginCleanUp` to `Remove` and deletes after. The owner's documented
discipline is in the guards of `Begin` (no call on a Thread automatic cleanup has
claimed), `Reuse` and `OwnerMayDelete` (only after `Shutdown`, not under a call of the
application's and never during an iteration). Nothing keeps an owner from deleting while a pass runs: `Examine` and
`CompareClaim` then read freed memory, and the model lets them find anything there.
`deletions` is a history variable that counts the deletions of each Thread.

**TerminationDispatcher.** `at[th]` is a worker's place in its exit, `queue` the bounded
queue, `mutex` the `_initializationMutex`. Cleaners are the dispatcher and the
application tasks that run passes. A pass is `BeginPass` (copy and claim of what is
terminated and released), `Claim` (what terminated since), then one destructor per
claimed Thread: `BeginDelete`, and if a dispatch is pending `AskTask` (which task am I,
under the mutex) and `Poll`. `ReleasedAtFirst` are the Threads made with `ReleaseOnTerminate`: a
pass may take them as soon as they are `Terminated`. What the library guarantees of the others
(`KeptAtFirst`) is stated and proved of them while such Threads are around, whose workers a pass
deletes wherever they are. A record of a destroyed Thread is dispatched from the values
its memory last had. `announcements` counts how often each `OnTerminated` was invoked; the
refinement maps it to the count of `ExitContract`, so that a second announcement is a step the contract
does not have.

**ThreadRegistry.** `records` is the registry; `threadID`, `coreID`, `registered` are
the Thread's own copies, which are stored in three steps after `AddThread` returned.
`taskCore` is the core the attached task was created on. `chosen`, `added` and `removed`
are history variables: the core an application set, the Threads it added and the Threads
that were removed. No guard reads them; properties do.

**PrecisionThread.** Each client call is the sequence of its steps on shared state
(`Program`): a block under `_timingMutex`, a signal, a change of the lifecycle state, or
a reading of the clock. The worker goes through `OnLoop` step by step: take a wake
request (`ServeWake`, `NoWork`), look at the clock, decide under the mutex
(`DecideToWait`, `BeginIteration`), wait (`Yield`, `Park`, `Signalled`, `TimedOut`) or
iterate and record. Time is a counter that stops at `Top`, which stands for
`UINT64_MAX`, so that every sum and product of the code meets its limit. The
lifecycle is that of `Thread` without its waits: `ThreadInitialize` and its neighbours
are the effect on the state and the worker. `remeasure` is a history variable.

The abstract `DeadlineSchedule` has no arithmetic but the set of deadlines: it says
which were passed by the set's size and which is next by its minimum. A change of the
schedule may happen at any time and restart it at any earlier reading of the clock.

**ThreadSafe.** A value is two words, so a reader that a writer does not exclude sees
them differ. `Shared` says whether the shared lock admits several callers (`ReadWriteMutex`
on most platforms) or one (`Mutex`, and both classes on the ESP32). Callbacks of
`WithReadLock` and `WithWriteLock` add one; `OnChange` reads the value. In the
refinement a write takes effect when its second word is stored, a read when it has both.

**LifecycleNotification.** `frames` is the stack of dispatches of the task that holds
the recursive mutex; `stage` is the next event of a dispatch: for each listener the
general one, then that of the new state. A listener may make a request
(`SetThreadState` then pushes a frame), throw, or wait for the end of the Thread
(`Await`). Which states an operation may ask for in which state is `Thread`'s subject,
so a request may name any. `told`, `heard`, `thrown` and `changes` are history variables.
`Terminate` and the others read the state before they ask; that reading is left out,
because an invalid request changes nothing.

## Assumptions about the platform

- `Wait` on the exit signal without a timeout returns only when the signal was given;
  the gate's `Wait` and `Give` and the queue's `Send` fail only where a run's `Faults`
  says so.
- Deleting a native task stops it wherever it is and leaves a mutex it holds locked.
- `Outranking` names workers that share the dispatcher's core and have a higher
  priority than it, so that `Send` does not let the dispatcher run before they
  suspend. The default priorities are equal, so runs without it show the default.
- Memory accesses are sequentially consistent. The code's acquire and release pairs are
  not weakened.

## Runs

Bounds: two or three clients or callers, one to three Threads, two native tasks in the
life of a Thread (a first use and one reuse, which is all that the re-arming of signals and
claims needs), two or three operations per caller, queue lengths one and two, two IDs and
two cores so that both ID exhaustion and rotation wrap happen. `precision_schedule` has a
clock of four values, periods zero, one and three, two ticks to a millisecond and four calls
over the life of the thread: enough for a worker that sleeps, a change of the schedule by each
of two clients during the sleep or an iteration, and a deadline beyond the end of the clock.
`safe_shared` has three callers and three calls, besides those of `OnChange`: two readers and a
writer, or two writers and a reader. `notification_nested` has four requests, so that a change
can be nested three deep in another or meet one of another task, and one observer besides
the callbacks; a further observer repeats the part of the first.

| Run | Shows |
|---|---|
| `thread_owned` | One owner initialises, starts, shuts down, reuses and destroys, two tasks pause and terminate. A live state has a task; `Shutdown` returns only when the worker is stopped and announced; nothing touches a destroyed object; `ThreadContract` is implemented: one record at a time, announced in `Terminated`, no worker deleted before it queued its exit. Under `FairSpec` a `Shutdown` returns unless a worker was deleted with the dispatcher's mutex in its hands (`OnlyOrphanStopsShutdown`), and a requested termination ends with the worker stopped and announced |
| `thread_any` | two tasks that initialise, start and shut down the same Thread, with the gate, the signals, the queue and the creation of the dispatcher failing at will: creation is exclusive |
| `manager_safety` | an iterating, a cleaning and an owning caller on two Threads, passes may throw, the owner may delete what it has shut down while a pass runs: nothing pinned is deleted, no pass meets what another reclaimed, a Thread is deleted once, flag and claim agree, manual ownership wins, `SafeReclamation` is implemented |
| `manager_cleaners` | two cleaners and an iteration on one Thread: claims are not orphaned, the registry holds the living, a deferred cleanup has an iteration that will run it, it runs, and every cleanup asked for ends |
| `dispatcher_kept` | one Thread released from the beginning, two released only by `OnTerminated`, an application task running passes, creation failures: of those two no record dangles and `ExitContract` holds, and nobody waits for nothing for any Thread that exists |
| `dispatcher_live` | three exits through a queue of one, workers outrank the dispatcher: all are announced, and the released ones reclaimed |
| `registry_identity` | racing construction, registration, configuration, removal and destruction of three Threads with two IDs and two cores: unique records, agreement on the ID, cores in turn, a task runs on the core its Thread reports, a destroyed Thread leaves no record it made itself |
| `precision_schedule` | an owner initialises, starts, pauses, terminates and asks for work, a tuner bumps, pauses, changes the period and the mode: a sleeping worker sleeps for the present deadline, a reset keeps the iteration in progress out of the measurements, `DeadlineSchedule` is implemented up to the end of the clock, and a running thread comes to another iteration, as wake-up requests are bounded |
| `safe_shared` | reads are whole, updates are not lost, `OnChange` hears of each change as it was made, and every call returns, with a callback that calls back |
| `notification_nested` | callbacks and observers that change the state, throw and wait: everyone hears of every transition, the last event anyone hears is of the state that is left, and calls end unless a listener waits for another task |

`manager_cleaners` has one Thread so that its liveness is checked without symmetry;
`manager_safety` has two, which is where a pass meets one Thread that was removed and
another that was not.

In two runs TLC finds an execution of the code that does otherwise than a document
of the repository says; the `findings` of `PROJECT.json` quote the text.

| Run | What the code does |
|---|---|
| `dispatcher_orphaned_mutex` | a worker deleted inside `Dispatch` leaves the mutex locked: no later exit is queued |
| `safe_probe` | a probe gives the lock back before it says that its caller has it |

### Further configurations

These configurations show more departures of the same kind. They are not among the runs
of `PROJECT.json`; `tlc -config <file> <module>` finds the violation of the property named.

| Configuration | Property | What the text says, and what the code does |
|---|---|---|
| `ThreadMC_orphaned_mutex.cfg` | `ShutdownReturns` | `README.md:998`: "`Shutdown()` waits for termination dispatch. When it returns"; `docs/THREAD_LIFECYCLE.md:97`: it waits "until termination dispatch has deleted the worker task". The dispatcher deletes the worker after `Send` and before the unlock and gives the exit signal; the waiter sees the dispatch still pending and asks for the current task, under the mutex that stays locked: the race of `dispatcher_orphaned_mutex`, met by the `Shutdown` of the same Thread |
| `ThreadMC_two_shutdowns.cfg` | `OnlyOrphanStopsShutdown` | `docs/THREAD_LIFECYCLE.md:45`: the dispatcher "releases Shutdown() waiters". The exit signal is binary and each waiter consumes it without a timeout: of two tasks in `Shutdown` one waits for ever |
| `ThreadMC_two_initializers.cfg` | `OneRecord` | `docs/THREAD_LIFECYCLE.md:93`: "Concurrent lifecycle activity must not enqueue duplicate termination records". A second `Initialize` re-arms the exit claim while the first exit's record is queued |
| `ThreadMC_racing_shutdown.cfg` | `ShutdownMeansStopped` | `README.md:998`: "When it returns, the dispatcher has deleted the worker FreeRTOS task". A `Shutdown` that finds the handle still invalid while another task is inside `Initialize` returns at once; the worker is created after it |
| `ThreadMC_gate_fault.cfg` | `LiveStateHasTask` | `docs/THREAD_LIFECYCLE.md:79-82`: a failed initialisation does "transition Thread to Terminated". The branch for a gate that cannot be given deletes the task and leaves the state `Initialized` or `Running` |
| `ThreadMC_suspended.cfg` | `DeletesSuspendedWorker` | `docs/THREAD_LIFECYCLE.md:42`: the dispatcher "deletes the suspended FreeRTOS worker task". `Send` wakes the dispatcher before the worker has suspended |
| `ThreadManagerMC_owner.cfg` | `ExaminedAlive` | `README.md:998`: after `Shutdown` "derived members may be destroyed safely". A pass between its copy and its virtual calls still uses the pointer; `README.md:888` forbids the deletion only during an iteration |
| `ThreadManagerMC_reentrant.cfg` | `CleanUpEnds` | `README.md:882`: implementations "may therefore re-enter ThreadManager from these virtual methods". The pass holds `_iterationMutex` over them; one that iterates waits for ever |
| `TerminationDispatcherMC_released.cfg` (run with `-continue`) | `ReclaimedAfterAnnounced`, `NoDanglingRecordAtAll` | `docs/THREAD_LIFECYCLE.md:63`: cleanup "Once the dispatcher has deleted the native task and completed all callbacks"; line 113: "After `_dispatchTermination()` returns". The claim asks only for `Terminated`, so the pass after another exit reclaims a Thread released from the beginning before its `OnTerminated` is invoked; and since the destructor does not wait on the dispatcher's own task, also while its record is still queued |
| `TerminationDispatcherMC_collector.cfg` | `AllDestroyedOnlyStopped` | `docs/THREAD_LIFECYCLE.md:55`: "no `Thread` object can be destroyed while code is still executing on that object's own FreeRTOS task stack". A pass on another task finds the exiting Thread `Terminated` before its dispatch is marked pending |
| `TerminationDispatcherMC_full_queue.cfg` | `CallbackReturns` | `README.md:998`: `Shutdown()` from `OnTerminated` "does not deadlock". It asks for the mutex a worker holds while it waits for room. The model's queue has room for one; the default length is 32, so 34 Threads have to exit together |
| `TerminationDispatcherMC_retry.cfg` | `RemainsUnavailable` | `README.md:1002`: "the dispatcher does not retry initialization". Each later `Initialize` does |
| `ThreadRegistryMC_chosen_core.cfg` | `ChosenCoreKept` | `README.md:123`: a core is allocated "presuming that you do not modify by calling `SetCoreID()` prior to initializing the instance". Deferred registration overwrites it |
| `ThreadRegistryMC_added.cfg` | `RegistryOfLive` | `wiki/Manager-and-Registry.md:7`: "the authoritative registry for live ESPressio Thread objects". A deferred Thread added with `AddThread` and destroyed before its initialisation stays in it |
| `ThreadManagerMC_throw.cfg` | `NoOrphanClaim` | the comment at `src/ESPressio_ThreadTerminationDispatcher.cpp:82`: after a pass that threw "Eligible objects remain manager-owned for a later cleanup pass". What it had claimed stays claimed, and no later pass can claim it |
| `PrecisionThreadMC_bump.cfg` | `SkippedWereMissed` | `README.md:675`: skippedIterations "reports exactly how many scheduled iterations were skipped". `Bump` reads the clock before it takes the mutex; an iteration in between makes it set a deadline of the past, and the next iteration counts deadlines that were served |
| `PrecisionThreadMC_resume.cfg` | `ResumeStartsFresh` | `README.md:679`: "The first iteration after initialization, resume, or a delta-mode change receives a zero delta". `Start` looks for `Paused` before it resets; a `Pause` that comes between, and resets only later, is resumed with the old measurements |
| `LifecycleNotificationMC_contained.cfg` | `FailureReported` | `README.md:321`: "During `Initialize()`, a lifecycle callback exception produces `InitializationException`". The failure of a dispatch nested in a listener's own request is thrown into that listener, which may contain it |
| `LifecycleNotificationMC_waiting.cfg` | `WaitsEnd` | `wiki/Lifecycle-and-Termination-Contract.md:23`: never invoke callbacks "while holding internal locks that would make valid lifecycle calls deadlock". A listener that calls `Shutdown` waits, with the mutex held, for the worker that needs it to set `Terminated` |

`ThreadManagerMC_owners.cfg` contradicts no document, but shows two limits of the manager (run
TLC with `-continue`): two `SetFreeOnTerminate` calls with opposite values can leave a released
Thread with a manual claim (`PolicySettled`), which no pass takes; and a Thread that
`RemoveThread` takes out of the registry after a pass claimed it keeps that claim (`NoOrphanClaim`).

Paths of documents are relative to `src/`.

Deadlock is checked except where the system really stops: `thread_any` (the record of an
exit is lost), `thread_owned`, `ThreadMC_orphaned_mutex.cfg` and `ThreadMC_two_initializers.cfg` (a client waits
for an orphaned mutex), `ThreadMC_two_shutdowns.cfg` (two shutdowns, one signal),
`ThreadManagerMC_reentrant.cfg` (the deadlock it shows), and the dispatcher's
configurations other than `dispatcher_live` (an orphaned mutex, a full queue, or simply
the end of a run in which nothing is left to do). The instances of the last three modules
stop when their calls are used up, or where a listener waits for ever.

### Fairness

`Thread!FairSpec` is weak fairness of each client's call in progress, each native task
and the dispatcher: the scheduler runs ready tasks, and user code (`OnLoop`,
`OnInitialization`, callbacks) returns. No call has to be made, no loop has to end by
itself. `ThreadManager!FairSpec` and `TerminationDispatcher!FairSpec` use strong
fairness for the steps that compete for a mutex, because a FreeRTOS mutex wakes its waiters
in turn; nobody has to begin a call, end a Thread or delete one. `PrecisionThread!FairSpec`
has time pass, the worker scheduled and a call in progress continued. In `ThreadSafe!FairSpec` and
`LifecycleNotification!FairSpec` every task goes on with its call: weak fairness is enough,
since calls are bounded and a lock that nobody asks for again stays free. Listeners
return or throw, but nothing makes one that waits go on before the Thread has terminated.

## Proofs

All of these are checked by `tlapm` to the last leaf. Every theorem holds for any number of
clients, Threads, tasks, IDs, cores, listeners and words of the clock, as far as the named
assumptions on the constants allow; three groups of them hold under a condition that is written
in the theorem, and each condition is there because a configuration shows the property fail without it.

| Theorems | Condition | Without it |
|---|---|---|
| the second half of `ThreadProofs` | `OwnedBy(o)`: all calls but `Pause` and `Terminate` are made by one client, and the gate and the queue do not fail; the creation of a task still may | `ThreadMC_two_initializers.cfg`, `ThreadMC_racing_shutdown.cfg`, `ThreadMC_gate_fault.cfg` |
| `PolicySettles`, `SoleOwnerSettles` | `PolicyCallsTakeTurns`, or one caller makes all policy calls | `ThreadManagerMC_owners.cfg` |
| `ClaimsAreServed` | `NothingInterferes`: no method throws in a pass, nobody calls `RemoveThread` | `ThreadManagerMC_throw.cfg`, `ThreadManagerMC_owners.cfg` |

The runs `thread_owned`, `manager_safety` and `manager_cleaners` are instances that meet them. The theorems about
the dispatcher have no condition: `NoRecordDangles`, `WorkersStopFirst` and `Refinement` speak of the Threads not
released before their exit (of the others `TerminationDispatcherMC_released.cfg` and `_collector.cfg` show
that nothing of the kind holds), whichever others are; `WaitersAreServed` speaks of every Thread that exists.

**Thread, any clients.** `TypeCorrect` and `CreationHolds`. The latter uses `TypeOK` and
`CreationIsExclusive` together as the inductive invariant: whoever is between the second look at
the handle and the compare-exchange holds the configuration mutex and the handle is
empty. It is inductive because only `AttachTask` fills the handle, its client is in
that section, and no two clients can be.

**Thread, one owner.** `LiveStates`, `DestructionIsLast`, `ShutdownStops`, `OneExitAtATime` and
`Refinement` come from one invariant, `OwnedInv`. `OneTask`: every native task but the latest is
deleted. So everything else can be said of the latest task: `ExitInv`, where its exit is, from the
claim over the record to the last signal; `HandleInv`, who refers to it (the object, the
owner's local variable, or the dispatcher's); `OwnerInv`, what the owner may rely on at each
step of its calls, such as that nobody stands at the gate while it creates, and that where it found
no handle and no pending dispatch there is nothing under way; `StateInv`, that the lifecycle
state promises no more than the task does. `OthersInv` keeps the other clients to
`Pause` and `Terminate`. The hard part is that those two may change the state between any two
steps of the owner: `SetsFall` says that whatever they and the worker set, a state that is ending or
dormant remains so, and `StateOnly` that a step with only that effect keeps the invariant. The
refinement then looks at what each step does to the label of the latest task and to
the exit it owes (`ContractView`, `Showing`).

**ThreadManager.** The properties are not inductive by themselves; `IInv` adds what
preserves them. `PassHoldsMutex`: a caller between the copy and the removal holds the
iteration mutex and the iteration count is zero. `PinsCounted`: the count is the number of callers
iterating (a fact about cardinality, hence the finite set of callers); so while a pass
runs nobody iterates. `DoomedIsUnreachable`: what a pass has unregistered exists, is in no registry
and on no iteration's list; so an iteration that begins later cannot copy it. The rest
says that claims are exclusive and that lists are empty outside the loops that walk them.
`TargetsUsable` says that a Thread an application's call is about exists, or has been claimed for
automatic cleanup since the call began. From it follow `PinsHold`, `RegistryHolds`, `DeferredHasIteration`, `ManualOwnership`,
`PassesStayApart` and `ReclaimedOnceHolds`, whatever owners delete during a pass, and `Refinement`, which
maps the initial state and every step of the manager to `SafeReclamation` or a stutter. The abstract
deletion asks that the Thread is live, that no iteration pins it and that its claim is the deleter's,
and increments a count: a pass that deleted a second time, or what its owner had deleted, would be a step the
abstraction does not have.
`PolicySettles` needs that between the store of the flag and the move of the claim the flag is the one
the call stored (`PolicyStored`). `ClaimsAreServed` needs that a live Thread is either
registered or on the list of a pass about to delete it (`LiveAccounted`), so that the removal
finds whatever was claimed.

**ThreadRegistry.** `RecordsAreUnique` is inductive, by the look under the write lock.
`TaskRunsWhereReported` needs `Attaching`: between its look at the handle and the attachment a
caller holds the configuration mutex, so the core it read is still the Thread's.
`OwnRecordsGo` needs that calls other than the constructor find their Thread alive and that nobody has
a call on one that is constructed or destroyed (the caller's part of the contract), and `Accounted`:
a record nobody asked for is known to its Thread, or whoever inserted it is about to store it.
`IdentitiesAgree` follows from `Resolved`: all who resolved a Thread hold the same
record, so it does not matter in which order they store its ID. For `CoresTakeTurns` the
invariant counts the records of each core (`Turns`).

**TerminationDispatcher.** `RecordInv` follows a record: a worker on its way to send is
pending, a sent record is in the queue once, until the dispatcher takes it, and the worker of an
announced or destroyed Thread is gone. `ExitInv` adds that a Thread that is released, claimed or
destroyed was announced or released from the beginning, and that of the former the last step of a
pass is taken when no dispatch is pending: on the dispatcher's own task, which does not wait, because an announced
Thread has no dispatch pending but the one under way. From these follow `NoRecordDangles`, `WaitersAreServed`, `WorkersStopFirst` and `Refinement`.

**PrecisionThread**, for any clients, calls, periods and width of the clock. `TypeCorrect`
(no deadline and no count of `OnLoop` leaves the clock's range, by lemmas about the quotient, the
advance and the saturating sum), `StaleMeasurementsDropped` and `NoWakeIsLost`. The second needs `Overtaken`: an
iteration that a reset overtook still carries the old generation, so `Record` drops it. The
third needs two facts that `NoLostWake` does not say. `CallsPlanned`: in what is left of any
call, a step that changes what the worker waits for is followed by a signal; so between the
change and the signal it is not quiet. And what must hold of a quiet sleeper holds of a quiet
worker from the check that established it on: the state since `_loop` looked (`MayLoop`), the
request since `OnLoop` did (`NothingAsked`), the deadline since the decision (`Aimed`).
`Refinement` relates the division of `OnLoop` to the set of deadlines of `DeadlineSchedule`: lemmas
`Multiples`, `Counted` and `Advanced` show that the quotient is the number of deadlines passed and that
the saturated sum is the least one ahead, or the end of the clock. Its
invariant, `ReadingsPast`, is that no reading of the clock is ahead of it.

**ThreadSafe.** `Refinement`. `LockInv` says who holds the lock at which step and that a writer
excludes all others; `ValueInv` that the two words differ only while a writer is between its
stores, that it knows both, and that a reader half-way has a first word that is still there.

**LifecycleNotification.** `StackInv`: every dispatch but the innermost is inside a listener, and
a request of the mutex's owner comes from the innermost. `TransitionsAreTold` is by a count: what
a listener was told and the dispatches that still owe it an event make up the number of
changes (`Tally`). `ObsoleteIsSuppressed` is by `EventOwed`: a listener that has not heard of the present
state is owed its event by a dispatch under way for that state.

The proofs also corrected the models: four definitions chose with `CASE` between guards that
overlap, which leaves the choice open (`Continued` of `LifecycleNotification`, `AfterTermination` and
`task` of `Thread`, `stage` of `TerminationDispatcher`). TLC takes the first guard, which was meant; they
now say so.

Only model-checked: liveness (`OnlyOrphanStopsShutdown`, `TerminationCompletes`, `DeferredCleanUpRuns`, `CleanUpEnds`,
`ExitsAnnounced`, `ReleasedReclaimed`, `IterationsContinue`, `CallsReturn`, `CallsEnd`), which is out
of the provers' reach. Every other property of a passing run is the subject of a theorem.

## Not modelled

Of `PrecisionThread`: the sample window and the frequencies computed from it, the desired
period and `GetAvailableIterationTime` (values no schedule depends on), the size of a delta (that one
is measured at all is modelled), the iteration observers and the serialisation of settings. Of
`ThreadSafe`: the `Release` operations, which no legal program needs, and exceptions from
callbacks. Of the notifications: callbacks that are replaced (each dispatch copies those it
calls), the notifications of exits and failures, and the observers of the manager and the dispatcher;
`ThreadStackTelemetry` (one platform query); setters of stack size, priority and
start-on-initialize (stores under the same mutex as `SetCoreID`, which is modelled; that
`Initialize` may leave the state at `Initialized` is reached through `CheckPublished`);
the result counters of passes and initialisations; the queries `GetThread`,
`GetThreadCount` and `GetMinimumFreeStackBytes`, which change nothing; the libraries the code builds on
(Observable, System, Task), which appear only as the effect of their calls.

## Plan

1. Done: `Thread`, `ThreadManager`, `TerminationDispatcher`, `ThreadRegistry`, their abstract
   specifications, and the theorems above.
2. Done: `PrecisionThread` with `DeadlineSchedule`, `ThreadSafe` with `AtomicValue`,
   `LifecycleNotification`, and the theorems about `PrecisionThread`.
3. Done: proofs of the other safety properties of the runs and of all refinements.
4. Other disciplines for `Thread`: what is left of its contract when the platform loses a
   record or the gate fails, and what several owners may rely on.
5. The observers of the manager and of the dispatcher, told with a mutex held.
