--------------------------- MODULE PrecisionThread ---------------------------
(***************************************************************************)
(* A PrecisionThread: the worker that runs OnLoop against a clock, and the *)
(* tasks that steer it meanwhile.  The timing mutex makes each block it    *)
(* guards one action; the reads of the clock, the wake-up request and the  *)
(* schedule signal come before and after it, in steps of their own.        *)
(*                                                                         *)
(* The lifecycle is the one of module Thread, with its waits left out.     *)
(* Also left out: the sample window and the frequencies, the desired       *)
(* period, and how large a delta is: only whether one is measured at all.  *)
(***************************************************************************)
EXTENDS Integers, Sequences

CONSTANTS
  Clients,     \* tasks, other than the worker, that call the operations
  Calls,       \* Calls[c]: the operations client c may call
  MaxCalls,    \* bound: calls over the life of the thread
  Periods,     \* the iteration periods they may set
  Top,         \* bound: the largest time, UINT64_MAX in the code
  Millisecond  \* ticks of the clock in a millisecond

Operations == {"Initialize", "Start", "Pause", "Terminate", "Bump", "SetIterationPeriod",
               "SetIterationDeltaMode", "WakeForWork"}

ASSUME ClockAssumption == Top \in Nat /\ Millisecond \in Nat \ {0}
ASSUME CallsAssumption ==
  /\ MaxCalls \in Nat /\ Periods \subseteq 0 .. Top
  /\ \A c \in Clients : Calls[c] \subseteq Operations

VARIABLES
  clock,         \* the system clock
  state,         \* _threadState
  period,        \* _iterationPeriodNanoseconds
  initialized,   \* _scheduleInitialized
  next,          \* _nextIterationNanoseconds
  hasPrevious,   \* _hasPreviousIteration
  previousStart, \* _previousStartNanoseconds
  generation,    \* _measurementGeneration
  wakeRequested, \* _workWakeRequested
  signal,        \* the binary signal _scheduleSignal
  worker,        \* where the worker is
  now,           \* its reading of the clock
  remaining,     \* its distance from the deadline, while it waits
  until,         \* when its wait times out
  skipped,       \* the count it gives to Iterate
  begunIn,       \* the generation its iteration began in
  todo, reading, \* each client: the steps left of its call, its clock reading
  calls,         \* how many calls have been made
  remeasure      \* history: measurements were reset since an iteration began

schedule == <<period, initialized, next>>
measurements == <<hasPrevious, previousStart, generation, remeasure>>
wakeVars == <<wakeRequested, signal>>
locals == <<now, remaining, until, skipped, begunIn>>
clientVars == <<todo, reading, calls>>
vars == <<clock, state, schedule, measurements, wakeVars, worker, locals, clientVars>>

Times == 0 .. Top
Steps == {"reset", "signal", "initialize", "start", "pause", "terminate",
          "readClock", "bump", "setPeriod", "changeMode", "requestWork"}
WorkerLabels == {"none", "loop", "onLoop", "look", "decide", "wait", "parked",
                 "iterate", "record"}

TypeOK ==
  /\ clock \in Times /\ next \in Times /\ previousStart \in Times
  /\ now \in Times /\ remaining \in Times /\ skipped \in Times
  /\ state \in {"Uninitialized", "Running", "Paused", "Terminating", "Terminated"}
  /\ period \in Periods \cup {0}
  /\ initialized \in BOOLEAN /\ hasPrevious \in BOOLEAN /\ remeasure \in BOOLEAN
  /\ wakeRequested \in BOOLEAN /\ signal \in BOOLEAN
  /\ generation \in Nat /\ begunIn \in 0 .. generation
  /\ worker \in WorkerLabels /\ until \in 0 .. 2 * Top
  /\ todo \in [Clients -> Seq(Steps)] /\ reading \in [Clients -> Times]
  /\ calls \in 0 .. MaxCalls

Init ==
  /\ clock = 0 /\ state = "Uninitialized"
  /\ period = 0 /\ initialized = FALSE /\ next = 0
  /\ hasPrevious = FALSE /\ previousStart = 0 /\ generation = 0 /\ remeasure = FALSE
  /\ wakeRequested = FALSE /\ signal = FALSE
  /\ worker = "none" /\ now = 0 /\ remaining = 0 /\ until = 0 /\ skipped = 0 /\ begunIn = 0
  /\ todo = [c \in Clients |-> <<>>] /\ reading = [c \in Clients |-> 0] /\ calls = 0

Tick ==
  /\ clock < Top /\ clock' = clock + 1
  /\ UNCHANGED <<state, schedule, measurements, wakeVars, worker, locals, clientVars>>

-----------------------------------------------------------------------------
(* The calls.  Each is the sequence of its steps on shared state.          *)

(* Mutant: the signal is given before the request it announces. *)
SignalThenRequest == <<"signal", "requestWork">>
WakeForWork == <<"requestWork", "signal">>

Program(o) ==
  CASE o = "Initialize"            -> <<"reset", "signal", "initialize">>
    [] o = "Start"                 -> IF state = "Paused"
                                        THEN <<"reset", "signal", "start", "signal">>
                                        ELSE <<"start", "signal">>
    [] o = "Pause"                 -> <<"pause", "reset", "signal">>
    [] o = "Terminate"             -> <<"terminate", "signal">>
    [] o = "Bump"                  -> <<"readClock", "bump", "signal">>
    [] o = "SetIterationPeriod"    -> <<"setPeriod", "signal">>
    [] o = "SetIterationDeltaMode" -> <<"changeMode">>
    [] o = "WakeForWork"           -> WakeForWork

Call(c, o) ==
  /\ todo[c] = <<>> /\ calls < MaxCalls
  /\ calls' = calls + 1
  /\ todo' = [todo EXCEPT ![c] = Program(o)]
  /\ UNCHANGED <<clock, state, schedule, measurements, wakeVars, worker, locals, reading>>

Takes(c, step) == todo[c] # <<>> /\ Head(todo[c]) = step
Done(c) == todo' = [todo EXCEPT ![c] = Tail(@)] /\ UNCHANGED calls

ResetMeasurements ==
  /\ generation' = generation + 1
  /\ hasPrevious' = FALSE /\ previousStart' = 0
  /\ remeasure' = TRUE

ResetSchedule(c) ==
  /\ Takes(c, "reset") /\ Done(c)
  /\ initialized' = FALSE /\ next' = 0
  /\ ResetMeasurements
  /\ UNCHANGED <<clock, state, period, wakeVars, worker, locals, reading>>

(* A call of SetIterationDeltaMode that changes the mode; any other does   *)
(* nothing.                                                                *)
ChangeDeltaMode(c) ==
  /\ Takes(c, "changeMode") /\ Done(c)
  /\ ResetMeasurements
  /\ UNCHANGED <<clock, state, schedule, wakeVars, worker, locals, reading>>

SignalScheduler(c) ==
  /\ Takes(c, "signal") /\ Done(c)
  /\ signal' = TRUE
  /\ UNCHANGED <<clock, state, schedule, measurements, wakeRequested, worker, locals, reading>>

RequestWork(c) ==
  /\ Takes(c, "requestWork") /\ Done(c)
  /\ wakeRequested' = TRUE
  /\ UNCHANGED <<clock, state, schedule, measurements, signal, worker, locals, reading>>

ReadClock(c) ==
  /\ Takes(c, "readClock") /\ Done(c)
  /\ reading' = [reading EXCEPT ![c] = clock]
  /\ UNCHANGED <<clock, state, schedule, measurements, wakeVars, worker, locals>>

Bump(c) ==
  /\ Takes(c, "bump") /\ Done(c)
  /\ next' = reading[c] /\ initialized' = TRUE
  /\ reading' = [reading EXCEPT ![c] = 0]
  /\ UNCHANGED <<clock, state, period, measurements, wakeVars, worker, locals>>

SetPeriod(c) ==
  /\ Takes(c, "setPeriod") /\ Done(c)
  /\ period' \in Periods /\ initialized' = FALSE
  /\ UNCHANGED <<clock, state, next, measurements, wakeVars, worker, locals, reading>>

(* The lifecycle operations of Thread, each as one change of the state.    *)
Idle == UNCHANGED <<clock, schedule, measurements, wakeVars, locals, reading>>

ThreadInitialize(c) ==
  /\ Takes(c, "initialize") /\ Done(c)
  /\ IF worker = "none" /\ state \in {"Uninitialized", "Terminated"}
       THEN state' = "Running" /\ worker' = "loop"
       ELSE UNCHANGED <<state, worker>>
  /\ Idle

(* Thread::Start calls the overridden Initialize where there is no task.   *)
ThreadStart(c) ==
  /\ Takes(c, "start") /\ UNCHANGED <<calls, worker>>
  /\ IF state \in {"Uninitialized", "Terminated"}
       THEN /\ todo' = [todo EXCEPT ![c] = <<"reset", "signal", "initialize">> \o Tail(@)]
            /\ UNCHANGED state
       ELSE /\ todo' = [todo EXCEPT ![c] = Tail(@)]
            /\ state' = IF state = "Paused" THEN "Running" ELSE state
  /\ Idle

ThreadPause(c) ==
  /\ Takes(c, "pause") /\ Done(c)
  /\ state' = IF state = "Running" THEN "Paused" ELSE state
  /\ UNCHANGED worker /\ Idle

ThreadTerminate(c) ==
  /\ Takes(c, "terminate") /\ Done(c)
  /\ state' = CASE state = "Uninitialized"         -> "Terminated"
                [] state \in {"Running", "Paused"} -> "Terminating"
                [] OTHER                           -> state
  /\ UNCHANGED worker /\ Idle

-----------------------------------------------------------------------------
(* The worker.                                                             *)
WorkerStep(from, to) ==
  worker = from /\ worker' = to /\ UNCHANGED <<clock, clientVars>>

(* The end of OnLoop, and of its local variables.                          *)
Return(from, to) ==
  /\ WorkerStep(from, to)
  /\ now' = 0 /\ remaining' = 0 /\ until' = 0 /\ skipped' = 0 /\ begunIn' = 0

(* Thread::_loop: a paused thread sleeps and looks again.                  *)
EnterLoop ==
  /\ state = "Running" /\ WorkerStep("loop", "onLoop")
  /\ UNCHANGED <<state, schedule, measurements, wakeVars, locals>>

LeaveLoop ==
  /\ state \in {"Terminating", "Terminated"} /\ WorkerStep("loop", "none")
  /\ state' = "Terminated"
  /\ UNCHANGED <<schedule, measurements, wakeVars, locals>>

(* Mutant: the request is read and not taken. *)
RequestStays == wakeRequested
RequestTaken == FALSE

(* OnWorkWake in place of an iteration.                                    *)
ServeWake ==
  /\ wakeRequested /\ Return("onLoop", "loop")
  /\ wakeRequested' = RequestTaken
  /\ UNCHANGED <<state, schedule, measurements, signal>>

NoWork ==
  /\ ~wakeRequested /\ WorkerStep("onLoop", "look")
  /\ UNCHANGED <<state, schedule, measurements, wakeVars, locals>>

LookAtClock ==
  /\ WorkerStep("look", "decide") /\ now' = clock
  /\ UNCHANGED <<state, schedule, measurements, wakeVars, remaining, until, skipped, begunIn>>

(* Mutant: the sum is not saturated. *)
AddUnchecked(left, right) == left + right
AddSaturated(left, right) == IF right > Top - left THEN Top ELSE left + right

(* Mutant: the deadline served now is counted again. *)
PassedPeriodsOnly(elapsed) == elapsed
PeriodsToAdvance(elapsed) == IF elapsed = Top THEN elapsed ELSE elapsed + 1

Advance(elapsed) ==
  LET periods == PeriodsToAdvance(elapsed)
  IN  IF periods > Top \div period THEN Top ELSE periods * period

Deadline == IF initialized THEN next ELSE now

DecideToWait ==
  /\ WorkerStep("decide", "wait")
  /\ period > 0 /\ now < Deadline
  /\ remaining' = Deadline - now
  /\ initialized' = TRUE /\ next' = Deadline
  /\ UNCHANGED <<state, period, measurements, wakeVars, now, until, skipped, begunIn>>

BeginIteration ==
  /\ WorkerStep("decide", "iterate")
  /\ period = 0 \/ now >= Deadline
  /\ IF period = 0
       THEN skipped' = 0 /\ next' = Deadline
       ELSE LET elapsed == (now - Deadline) \div period
            IN  skipped' = elapsed /\ next' = AddSaturated(Deadline, Advance(elapsed))
  /\ initialized' = TRUE /\ begunIn' = generation /\ remeasure' = FALSE
  /\ UNCHANGED <<state, period, hasPrevious, previousStart, generation, wakeVars,
                 now, remaining, until>>

(* Whole milliseconds are waited for on the signal; less is yielded away.  *)
(* The code's limit of 2^32 - 2 milliseconds to one wait is left out.      *)
WaitTicks == Millisecond * (remaining \div Millisecond)

Yield ==
  /\ WaitTicks = 0 /\ Return("wait", "loop")
  /\ UNCHANGED <<state, schedule, measurements, wakeVars>>

Park ==
  /\ WaitTicks > 0 /\ WorkerStep("wait", "parked")
  /\ until' = clock + WaitTicks
  /\ UNCHANGED <<state, schedule, measurements, wakeVars, now, remaining, skipped, begunIn>>

Signalled ==
  /\ signal /\ Return("parked", "loop")
  /\ signal' = FALSE
  /\ UNCHANGED <<state, schedule, measurements, wakeRequested>>

(* The last time of the clock stands for all that follow.                  *)
TimedOut ==
  /\ ~signal /\ (clock >= until \/ clock = Top) /\ Return("parked", "loop")
  /\ UNCHANGED <<state, schedule, measurements, wakeVars>>

IterationReturns ==
  /\ WorkerStep("iterate", "record")
  /\ UNCHANGED <<state, schedule, measurements, wakeVars, locals>>

(* Iterate or OnWorkWake throws: the entry function catches it, terminates *)
(* the thread, which signals the scheduler, and leaves.                    *)
UserCodeThrows ==
  /\ \/ Return("iterate", "none") /\ UNCHANGED wakeRequested
     \/ wakeRequested /\ wakeRequested' = RequestTaken /\ Return("onLoop", "none")
  /\ state' = "Terminated" /\ signal' = TRUE
  /\ UNCHANGED <<schedule, measurements>>

(* Mutant: the iteration is recorded whatever happened since. *)
RecordsAnyway == TRUE
StillMeasured == begunIn = generation

Record ==
  /\ Return("record", "loop")
  /\ IF StillMeasured
       THEN hasPrevious' = TRUE /\ previousStart' = now
       ELSE UNCHANGED <<hasPrevious, previousStart>>
  /\ UNCHANGED <<state, schedule, generation, remeasure, wakeVars>>

-----------------------------------------------------------------------------
ClientNext(c) ==
  \/ ResetSchedule(c) \/ ChangeDeltaMode(c) \/ SignalScheduler(c) \/ RequestWork(c)
  \/ ReadClock(c) \/ Bump(c) \/ SetPeriod(c)
  \/ ThreadInitialize(c) \/ ThreadStart(c) \/ ThreadPause(c) \/ ThreadTerminate(c)

WorkerNext ==
  \/ EnterLoop \/ LeaveLoop \/ ServeWake \/ NoWork \/ LookAtClock
  \/ DecideToWait \/ BeginIteration \/ Yield \/ Park \/ Signalled \/ TimedOut \/ IterationReturns \/ UserCodeThrows \/ Record

Next ==
  \/ Tick \/ WorkerNext
  \/ \E c \in Clients : ClientNext(c) \/ \E o \in Calls[c] : Call(c, o)

Spec == Init /\ [][Next]_vars

(* Time passes, the worker is scheduled and a call that began continues;   *)
(* nobody has to call.                                                     *)
FairSpec ==
  Spec /\ WF_vars(Tick) /\ WF_vars(WorkerNext) /\ \A c \in Clients : WF_vars(ClientNext(c))

-----------------------------------------------------------------------------
(* Nobody who changed what the worker waits for has still to signal it.    *)
Quiet == ~signal /\ \A c \in Clients : \A i \in 1 .. Len(todo[c]) : todo[c][i] # "signal"

(* A worker asleep on the signal that nobody is about to wake sleeps for   *)
(* the present deadline, with no work requested and no end in sight: no    *)
(* wake-up is lost between its decision and its wait.                      *)
NoLostWake ==
  worker = "parked" /\ Quiet =>
    /\ initialized /\ next = now + remaining
    /\ ~wakeRequested /\ state \notin {"Paused", "Terminating"}

(* README: the first iteration after a reset of the measurements receives  *)
(* a zero delta, also when the reset comes while an iteration runs.        *)
NoStaleMeasurement == remeasure => ~hasPrevious

(* README: the first iteration after a resume receives a zero delta.       *)
ResumeStartsFresh == [][state = "Paused" /\ state' = "Running" => ~hasPrevious]_vars

(* README: the count is exactly of scheduled iterations that were skipped. *)
(* No iteration has run at or after the first deadline it counts.          *)
SkippedWereMissed ==
  [][skipped' > 0 /\ worker = "decide" /\ worker' = "iterate" /\ hasPrevious
       => previousStart < Deadline]_vars

(* A running thread comes to its next iteration, whatever was changed or   *)
(* asked for meanwhile, as long as wake-ups are not requested without end. *)
IterationsContinue == state = "Running" ~> worker = "iterate" \/ state # "Running"

-----------------------------------------------------------------------------
Busy == worker \in {"iterate", "record"}
NotBusy == Top + 1

Deadlines == INSTANCE DeadlineSchedule WITH
  armed   <- initialized,
  begun   <- IF Busy THEN now ELSE NotBusy,
  skipped <- IF Busy THEN skipped ELSE 0

(* The saturating arithmetic of OnLoop keeps the schedule of whole periods *)
(* and counts the deadlines that passed, whoever changes it meanwhile.     *)
ImplementsSchedule == Deadlines!Spec
=============================================================================
