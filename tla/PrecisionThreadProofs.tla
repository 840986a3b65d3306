----------------------- MODULE PrecisionThreadProofs -----------------------
(***************************************************************************)
(* Proofs about PrecisionThread, for any clients, whatever each of them    *)
(* may call, for any periods and for a clock of any width.                 *)
(***************************************************************************)
EXTENDS PrecisionThread, FiniteSetTheorems, FiniteSetsExt, TLAPS

(* A quotient is no larger than its dividend, nor is its whole multiple.   *)
LEMMA Quotient ==
  ASSUME NEW a \in Nat, NEW b \in Nat \ {0}
  PROVE  /\ a \div b \in Nat /\ a \div b <= a
         /\ b * (a \div b) \in Nat /\ b * (a \div b) <= a
  OBVIOUS

(* A saturated sum is a time.                                              *)
LEMMA SaturatedSum ==
  ASSUME NEW left \in Times, NEW right \in Nat
  PROVE  AddSaturated(left, right) \in Times
  BY ClockAssumption DEF AddSaturated, Times

(* The deadline is always advanced by some natural number.                 *)
LEMMA AdvanceIsNatural ==
  ASSUME NEW elapsed \in Nat, period \in Nat \ {0}
  PROVE  Advance(elapsed) \in Nat
<1>1. PeriodsToAdvance(elapsed) \in Nat
  BY DEF PeriodsToAdvance
<1>2. PeriodsToAdvance(elapsed) * period \in Nat
  BY <1>1
<1>3. QED
  BY <1>2, ClockAssumption DEF Advance

-----------------------------------------------------------------------------
(* The steps of a call after which a sleeping worker may have to look      *)
(* again, and the plan that ends with telling it so.                       *)
Announced == {"reset", "bump", "setPeriod", "pause", "terminate", "requestWork"}
HasSignal(s) == \E i \in 1 .. Len(s) : s[i] = "signal"
Planned(s) ==
  \A i \in 1 .. Len(s) :
    s[i] \in Announced => \E j \in 1 .. Len(s) : j > i /\ s[j] = "signal"

(* What is left of a planned call is planned.                              *)
LEMMA PlannedTail ==
  ASSUME NEW s \in Seq(Steps), s # <<>>, Planned(s)
  PROVE  Planned(Tail(s))
<1> SUFFICES ASSUME NEW i \in 1 .. Len(Tail(s)), Tail(s)[i] \in Announced
             PROVE  \E j \in 1 .. Len(Tail(s)) : j > i /\ Tail(s)[j] = "signal"
  BY DEF Planned
<1>1. i + 1 \in 1 .. Len(s) /\ s[i + 1] \in Announced
  OBVIOUS
<1>2. PICK j \in 1 .. Len(s) : j > i + 1 /\ s[j] = "signal"
  BY <1>1 DEF Planned
<1>3. j - 1 \in 1 .. Len(Tail(s)) /\ j - 1 > i /\ Tail(s)[j - 1] = "signal"
  BY <1>2
<1>4. QED
  BY <1>3

(* After an announced step the signal is still to come.                    *)
LEMMA AnnouncedHead ==
  ASSUME NEW s \in Seq(Steps), s # <<>>, Planned(s), Head(s) \in Announced
  PROVE  HasSignal(Tail(s))
<1>1. PICK j \in 1 .. Len(s) : j > 1 /\ s[j] = "signal"
  BY DEF Planned
<1>2. j - 1 \in 1 .. Len(Tail(s)) /\ Tail(s)[j - 1] = "signal"
  BY <1>1
<1>3. QED
  BY <1>2 DEF HasSignal

(* A step that is not the signal leaves the signals of the call.           *)
LEMMA SignalInTail ==
  ASSUME NEW s \in Seq(Steps), s # <<>>, Head(s) # "signal", HasSignal(s)
  PROVE  HasSignal(Tail(s))
<1>1. PICK j \in 1 .. Len(s) : s[j] = "signal"
  BY DEF HasSignal
<1>2. j # 1
  BY <1>1
<1>3. j - 1 \in 1 .. Len(Tail(s)) /\ Tail(s)[j - 1] = "signal"
  BY <1>1, <1>2
<1>4. QED
  BY <1>3 DEF HasSignal

(* Every call is planned, also one that continues with an Initialize.      *)
LEMMA ProgramPlanned ==
  ASSUME NEW o \in Operations
  PROVE  Program(o) \in Seq(Steps) /\ Planned(Program(o))
<1> USE DEF Program, Steps, Planned, Announced
<1>1. CASE o = "Initialize"
  BY <1>1
<1>2. CASE o = "Start"
  <2>1. CASE state = "Paused"
    BY <1>2, <2>1
  <2>2. CASE state # "Paused"
    BY <1>2, <2>2
  <2>3. QED
    BY <2>1, <2>2
<1>3. CASE o = "Pause"
  BY <1>3
<1>4. CASE o = "Terminate"
  BY <1>4
<1>5. CASE o = "Bump"
  BY <1>5
<1>6. CASE o = "SetIterationPeriod"
  BY <1>6
<1>7. CASE o = "SetIterationDeltaMode"
  BY <1>7
<1>8. CASE o = "WakeForWork"
  BY <1>8 DEF WakeForWork
<1>9. QED
  BY <1>1, <1>2, <1>3, <1>4, <1>5, <1>6, <1>7, <1>8 DEF Operations

Restarted(s) == <<"reset", "signal", "initialize">> \o s

LEMMA RestartPlanned ==
  ASSUME NEW s \in Seq(Steps), Planned(s)
  PROVE  /\ Restarted(s) \in Seq(Steps) /\ Planned(Restarted(s))
         /\ HasSignal(Restarted(s))
<1>1. /\ Restarted(s) \in Seq(Steps) /\ Len(Restarted(s)) = 3 + Len(s)
      /\ Restarted(s)[1] = "reset" /\ Restarted(s)[2] = "signal"
      /\ Restarted(s)[3] = "initialize"
      /\ \A i \in 1 .. Len(s) : Restarted(s)[i + 3] = s[i]
  BY DEF Restarted, Steps
<1>2. HasSignal(Restarted(s))
  BY <1>1 DEF HasSignal
<1>3. ASSUME NEW i \in 1 .. Len(Restarted(s)), Restarted(s)[i] \in Announced
      PROVE  \E j \in 1 .. Len(Restarted(s)) : j > i /\ Restarted(s)[j] = "signal"
  <2>1. CASE i = 1
    BY <2>1, <1>1
  <2>2. i # 2 /\ i # 3
    BY <1>1, <1>3 DEF Announced
  <2>3. CASE i > 3
    <3>1. i - 3 \in 1 .. Len(s) /\ s[i - 3] \in Announced
      BY <2>3, <1>1, <1>3
    <3>2. PICK j \in 1 .. Len(s) : j > i - 3 /\ s[j] = "signal"
      BY <3>1 DEF Planned
    <3>3. j + 3 \in 1 .. Len(Restarted(s)) /\ j + 3 > i /\ Restarted(s)[j + 3] = "signal"
      BY <3>2, <1>1
    <3>4. QED
      BY <3>3
  <2>4. QED
    BY <2>1, <2>2, <2>3, <1>1
<1>4. QED
  BY <1>1, <1>2, <1>3 DEF Planned

-----------------------------------------------------------------------------
(* Types.                                                                  *)
LEMMA InitType == Init => TypeOK
<1> SUFFICES ASSUME Init PROVE TypeOK
  OBVIOUS
<1>1. /\ initialized \in BOOLEAN /\ hasPrevious \in BOOLEAN /\ remeasure \in BOOLEAN
      /\ wakeRequested \in BOOLEAN /\ signal \in BOOLEAN
  BY DEF Init
<1>2. todo \in [Clients -> Seq(Steps)]
  BY DEF Init
<1>3. QED
  BY <1>1, <1>2, ClockAssumption, CallsAssumption DEF Init, TypeOK, Times, WorkerLabels

(* A client that takes a step of its call keeps the type of its plan.      *)
LEMMA DoneType ==
  ASSUME TypeOK, NEW c \in Clients, NEW step \in Steps, Takes(c, step), Done(c)
  PROVE  todo' \in [Clients -> Seq(Steps)]
  BY DEF TypeOK, Takes, Done

LEMMA ClientType ==
  ASSUME TypeOK, NEW c \in Clients, ClientNext(c)
  PROVE  TypeOK'
<1> USE DEF TypeOK, Times, schedule, measurements, wakeVars, locals, clientVars
<1>1. CASE ResetSchedule(c)
  <2>1. todo' \in [Clients -> Seq(Steps)]
    BY <1>1, DoneType DEF ResetSchedule, Steps
  <2>2. initialized' \in BOOLEAN /\ hasPrevious' \in BOOLEAN /\ remeasure' \in BOOLEAN
    BY <1>1 DEF ResetSchedule, ResetMeasurements
  <2>3. QED
    BY <1>1, <2>1, <2>2, ClockAssumption DEF ResetSchedule, Done, ResetMeasurements
<1>2. CASE ChangeDeltaMode(c)
  <2>1. todo' \in [Clients -> Seq(Steps)]
    BY <1>2, DoneType DEF ChangeDeltaMode, Steps
  <2>2. initialized' \in BOOLEAN /\ hasPrevious' \in BOOLEAN /\ remeasure' \in BOOLEAN
    BY <1>2 DEF ChangeDeltaMode, ResetMeasurements
  <2>3. QED
    BY <1>2, <2>1, <2>2, ClockAssumption DEF ChangeDeltaMode, Done, ResetMeasurements
<1>3. CASE SignalScheduler(c)
  <2>1. todo' \in [Clients -> Seq(Steps)]
    BY <1>3, DoneType DEF SignalScheduler, Steps
  <2>2. QED
    BY <1>3, <2>1 DEF SignalScheduler, Done
<1>4. CASE RequestWork(c)
  <2>1. todo' \in [Clients -> Seq(Steps)]
    BY <1>4, DoneType DEF RequestWork, Steps
  <2>2. QED
    BY <1>4, <2>1 DEF RequestWork, Done
<1>5. CASE ReadClock(c)
  <2>1. todo' \in [Clients -> Seq(Steps)]
    BY <1>5, DoneType DEF ReadClock, Steps
  <2>2. reading' \in [Clients -> Times]
    BY <1>5 DEF ReadClock
  <2>3. QED
    BY <1>5, <2>1, <2>2 DEF ReadClock, Done
<1>6. CASE Bump(c)
  <2>1. todo' \in [Clients -> Seq(Steps)]
    BY <1>6, DoneType DEF Bump, Steps
  <2>2. reading' \in [Clients -> Times] /\ next' \in Times
    BY <1>6, ClockAssumption DEF Bump
  <2>3. QED
    BY <1>6, <2>1, <2>2 DEF Bump, Done
<1>7. CASE SetPeriod(c)
  <2>1. todo' \in [Clients -> Seq(Steps)]
    BY <1>7, DoneType DEF SetPeriod, Steps
  <2>2. QED
    BY <1>7, <2>1 DEF SetPeriod, Done
<1>8. CASE ThreadInitialize(c)
  <2>1. todo' \in [Clients -> Seq(Steps)]
    BY <1>8, DoneType DEF ThreadInitialize, Steps
  <2>2. QED
    BY <1>8, <2>1 DEF ThreadInitialize, Done, Idle, WorkerLabels
<1>9. CASE ThreadStart(c)
  <2>1. todo[c] \in Seq(Steps) /\ Tail(todo[c]) \in Seq(Steps)
    BY <1>9 DEF ThreadStart, Takes
  <2>2. <<"reset", "signal", "initialize">> \o Tail(todo[c]) \in Seq(Steps)
    BY <2>1 DEF Steps
  <2>3. todo' \in [Clients -> Seq(Steps)]
    BY <1>9, <2>1, <2>2 DEF ThreadStart
  <2>4. QED
    BY <1>9, <2>3 DEF ThreadStart, Idle
<1>10. CASE ThreadPause(c)
  <2>1. todo' \in [Clients -> Seq(Steps)]
    BY <1>10, DoneType DEF ThreadPause, Steps
  <2>2. QED
    BY <1>10, <2>1 DEF ThreadPause, Done, Idle
<1>11. CASE ThreadTerminate(c)
  <2>1. todo' \in [Clients -> Seq(Steps)]
    BY <1>11, DoneType DEF ThreadTerminate, Steps
  <2>2. state' \in {"Uninitialized", "Running", "Paused", "Terminating", "Terminated"}
    BY <1>11 DEF ThreadTerminate
  <2>3. QED
    BY <1>11, <2>1, <2>2 DEF ThreadTerminate, Done, Idle
<1>12. QED
  BY <1>1, <1>2, <1>3, <1>4, <1>5, <1>6, <1>7, <1>8, <1>9, <1>10, <1>11 DEF ClientNext

LEMMA WorkerType ==
  ASSUME TypeOK, WorkerNext
  PROVE  TypeOK'
<1> USE ClockAssumption
    DEF TypeOK, Times, schedule, measurements, wakeVars, locals, clientVars,
        WorkerStep, Return, WorkerLabels, RequestTaken
<1>1. CASE EnterLoop
  BY <1>1 DEF EnterLoop
<1>2. CASE LeaveLoop
  BY <1>2 DEF LeaveLoop
<1>3. CASE ServeWake
  <2>1. wakeRequested' \in BOOLEAN
    BY <1>3 DEF ServeWake
  <2>2. QED
    BY <1>3, <2>1 DEF ServeWake
<1>4. CASE NoWork
  BY <1>4 DEF NoWork
<1>5. CASE LookAtClock
  BY <1>5 DEF LookAtClock
<1>6. CASE DecideToWait
  BY <1>6 DEF DecideToWait, Deadline
<1>7. CASE BeginIteration
  <2>1. Deadline \in Times /\ now \in Times /\ period \in Nat
    BY CallsAssumption DEF Deadline
  <2>2. skipped' \in Times /\ next' \in Times
    <3>1. CASE period = 0
      BY <1>7, <3>1, <2>1 DEF BeginIteration
    <3>2. CASE period # 0
      <4>1. period \in Nat \ {0} /\ now - Deadline \in Nat /\ now - Deadline <= Top
        BY <1>7, <3>2, <2>1 DEF BeginIteration
      <4> DEFINE elapsed == (now - Deadline) \div period
      <4>2. elapsed \in Nat /\ elapsed <= Top
        BY <4>1, Quotient
      <4>3. Advance(elapsed) \in Nat
        BY <4>1, <4>2, AdvanceIsNatural
      <4>4. AddSaturated(Deadline, Advance(elapsed)) \in Times
        BY <4>3, <2>1, SaturatedSum
      <4>5. skipped' = elapsed /\ next' = AddSaturated(Deadline, Advance(elapsed))
        BY <1>7, <3>2 DEF BeginIteration
      <4>6. QED
        BY <4>2, <4>4, <4>5
    <3>3. QED
      BY <3>1, <3>2
  <2>3. initialized' \in BOOLEAN /\ remeasure' \in BOOLEAN
    BY <1>7 DEF BeginIteration
  <2>4. QED
    BY <1>7, <2>2, <2>3 DEF BeginIteration
<1>8. CASE Yield
  BY <1>8 DEF Yield
<1>9. CASE Park
  <2>1. WaitTicks \in Nat /\ WaitTicks <= Top
    BY Quotient, remaining \in Nat, remaining <= Top DEF WaitTicks
  <2>2. QED
    BY <1>9, <2>1 DEF Park
<1>10. CASE Signalled
  <2>1. signal' \in BOOLEAN
    BY <1>10 DEF Signalled
  <2>2. QED
    BY <1>10, <2>1 DEF Signalled
<1>11. CASE TimedOut
  BY <1>11 DEF TimedOut
<1>12. CASE IterationReturns
  BY <1>12 DEF IterationReturns
<1>13. CASE UserCodeThrows
  <2>1. signal' \in BOOLEAN /\ wakeRequested' \in BOOLEAN
    BY <1>13 DEF UserCodeThrows
  <2>2. QED
    BY <1>13, <2>1 DEF UserCodeThrows
<1>14. CASE Record
  <2>1. hasPrevious' \in BOOLEAN
    BY <1>14 DEF Record
  <2>2. QED
    BY <1>14, <2>1 DEF Record
<1>15. QED
  BY <1>1, <1>2, <1>3, <1>4, <1>5, <1>6, <1>7, <1>8, <1>9, <1>10, <1>11, <1>12, <1>13, <1>14
     DEF WorkerNext

LEMMA TypeStep == TypeOK /\ [Next]_vars => TypeOK'
<1> SUFFICES ASSUME TypeOK, [Next]_vars
             PROVE  TypeOK'
  OBVIOUS
<1>1. CASE Tick
  BY <1>1, ClockAssumption
     DEF Tick, TypeOK, Times, schedule, measurements, wakeVars, locals, clientVars
<1>2. CASE WorkerNext
  BY <1>2, WorkerType
<1>3. ASSUME NEW c \in Clients, ClientNext(c)
      PROVE  TypeOK'
  BY <1>3, ClientType
<1>4. ASSUME NEW c \in Clients, NEW o \in Calls[c], Call(c, o)
      PROVE  TypeOK'
  <2>1. Program(o) \in Seq(Steps)
    BY CallsAssumption, ProgramPlanned
  <2>2. todo' \in [Clients -> Seq(Steps)] /\ calls' \in 0 .. MaxCalls
    BY <1>4, <2>1, CallsAssumption DEF Call, TypeOK
  <2>3. QED
    BY <1>4, <2>2 DEF Call, TypeOK, Times, schedule, measurements, wakeVars, locals
<1>5. CASE UNCHANGED vars
  BY <1>5 DEF vars, TypeOK, Times, schedule, measurements, wakeVars, locals, clientVars
<1>6. QED
  BY <1>1, <1>2, <1>3, <1>4, <1>5 DEF Next

(* The fields of a PrecisionThread keep their types: no time is beyond the *)
(* largest, and no count of skipped iterations either.                     *)
THEOREM TypeCorrect == Spec => []TypeOK
<1>1. Init => TypeOK
  BY InitType
<1>2. TypeOK /\ [Next]_vars => TypeOK'
  BY TypeStep
<1>3. QED
  BY <1>1, <1>2, PTL DEF Spec

-----------------------------------------------------------------------------
(* Measurements.  NoStaleMeasurement is not inductive: what protects it is *)
(* that an iteration the reset overtook still carries the old generation.  *)
Overtaken == Busy /\ remeasure => begunIn # generation
MeasureInv == TypeOK /\ NoStaleMeasurement /\ Overtaken

LEMMA MeasureStep == MeasureInv /\ [Next]_vars => MeasureInv'
<1> SUFFICES ASSUME MeasureInv, [Next]_vars
             PROVE  NoStaleMeasurement' /\ Overtaken'
  BY TypeStep DEF MeasureInv
<1> USE DEF MeasureInv, NoStaleMeasurement, Overtaken, Busy
<1>1. CASE Tick
  BY <1>1 DEF Tick, measurements, locals
<1>2. CASE WorkerNext
  <2> USE DEF WorkerStep, Return, measurements, locals
  <2>1. CASE EnterLoop \/ LeaveLoop \/ ServeWake \/ NoWork \/ LookAtClock \/ DecideToWait
    BY <2>1 DEF EnterLoop, LeaveLoop, ServeWake, NoWork, LookAtClock, DecideToWait
  <2>2. CASE BeginIteration
    BY <2>2 DEF BeginIteration
  <2>3. CASE Yield \/ Park \/ Signalled \/ TimedOut \/ IterationReturns \/ UserCodeThrows
    BY <2>3 DEF Yield, Park, Signalled, TimedOut, IterationReturns, UserCodeThrows
  <2>4. CASE Record
    <3>1. worker = "record" /\ worker' = "loop" /\ remeasure' = remeasure
      BY <2>4 DEF Record
    <3>2. CASE StillMeasured
      BY <3>1, <3>2 DEF StillMeasured
    <3>3. CASE ~StillMeasured
      BY <2>4, <3>1, <3>3 DEF Record
    <3>4. QED
      BY <3>2, <3>3
  <2>5. QED
    BY <1>2, <2>1, <2>2, <2>3, <2>4 DEF WorkerNext
<1>3. ASSUME NEW c \in Clients, ClientNext(c)
      PROVE  NoStaleMeasurement' /\ Overtaken'
  <2>1. CASE ResetSchedule(c) \/ ChangeDeltaMode(c)
    <3>1. hasPrevious' = FALSE /\ generation' = generation + 1 /\ begunIn' = begunIn
      BY <2>1 DEF ResetSchedule, ChangeDeltaMode, ResetMeasurements, locals
    <3>2. begunIn' # generation'
      BY <3>1 DEF TypeOK
    <3>3. QED
      BY <3>1, <3>2
  <2>2. CASE SignalScheduler(c) \/ RequestWork(c) \/ ReadClock(c) \/ Bump(c) \/ SetPeriod(c)
    BY <2>2 DEF SignalScheduler, RequestWork, ReadClock, Bump, SetPeriod, measurements, locals
  <2>3. CASE ThreadInitialize(c)
    BY <2>3 DEF ThreadInitialize, Idle, measurements, locals
  <2>4. CASE ThreadStart(c) \/ ThreadPause(c) \/ ThreadTerminate(c)
    BY <2>4 DEF ThreadStart, ThreadPause, ThreadTerminate, Idle, measurements, locals
  <2>5. QED
    BY <1>3, <2>1, <2>2, <2>3, <2>4 DEF ClientNext
<1>4. ASSUME NEW c \in Clients, NEW o \in Calls[c], Call(c, o)
      PROVE  NoStaleMeasurement' /\ Overtaken'
  BY <1>4 DEF Call, measurements, locals
<1>5. CASE UNCHANGED vars
  BY <1>5 DEF vars, measurements, locals
<1>6. QED
  BY <1>1, <1>2, <1>3, <1>4, <1>5 DEF Next

(* Once the measurements were reset, no iteration that had begun before    *)
(* stores its start: the next one measures no delta from before the reset. *)
THEOREM StaleMeasurementsDropped == Spec => []NoStaleMeasurement
<1>1. Init => MeasureInv
  BY InitType DEF Init, MeasureInv, NoStaleMeasurement, Overtaken, Busy
<1>2. MeasureInv /\ [Next]_vars => MeasureInv'
  BY MeasureStep
<1>3. MeasureInv => NoStaleMeasurement
  BY DEF MeasureInv
<1>4. QED
  BY <1>1, <1>2, <1>3, PTL DEF Spec

-----------------------------------------------------------------------------
(* Wake-ups.  What NoLostWake says of a sleeping worker holds, while all   *)
(* is quiet, from each check of the worker on: of the state from the one   *)
(* in _loop, of the request from the first of OnLoop, of the deadline from *)
(* the decision to wait.                                                   *)
MayLoop == worker \in {"onLoop", "look", "decide", "wait", "parked"}
             => state \notin {"Paused", "Terminating"}
NothingAsked == worker \in {"look", "decide", "wait", "parked"} => ~wakeRequested
Aimed == worker \in {"wait", "parked"} => initialized /\ next = now + remaining

CallsPlanned == \A c \in Clients : Planned(todo[c])
WakeInv == TypeOK /\ CallsPlanned /\ (Quiet => MayLoop /\ NothingAsked /\ Aimed)

(* Quiet again, by the signals left of each call.                          *)
LEMMA QuietCalls == Quiet <=> ~signal /\ \A c \in Clients : ~HasSignal(todo[c])
  BY DEF Quiet, HasSignal

(* A client that takes a step of its call.                                 *)
LEMMA DoneStep ==
  ASSUME WakeInv, NEW c \in Clients, NEW step \in Steps, Takes(c, step), Done(c)
  PROVE  /\ CallsPlanned'
         /\ step \in Announced => ~Quiet'
         /\ step # "signal" /\ signal' = signal /\ Quiet' => Quiet
<1>1. todo[c] \in Seq(Steps) /\ todo[c] # <<>> /\ Head(todo[c]) = step /\ Planned(todo[c])
  BY DEF WakeInv, TypeOK, CallsPlanned, Takes
<1>2. /\ todo'[c] = Tail(todo[c])
      /\ \A d \in Clients \ {c} : todo'[d] = todo[d]
  BY DEF Done, WakeInv, TypeOK
<1>3. CallsPlanned'
  <2>1. Planned(todo'[c])
    BY <1>1, <1>2, PlannedTail
  <2>2. ASSUME NEW d \in Clients \ {c}
        PROVE  Planned(todo'[d])
    BY <1>2 DEF WakeInv, CallsPlanned
  <2>3. QED
    BY <2>1, <2>2 DEF CallsPlanned
<1>4. Quiet' <=> ~signal' /\ \A d \in Clients : ~HasSignal(todo'[d])
  BY DEF Quiet, HasSignal
<1>5. step \in Announced => ~Quiet'
  BY <1>1, <1>2, <1>4, AnnouncedHead
<1>6. step # "signal" /\ signal' = signal /\ Quiet' => Quiet
  <2> SUFFICES ASSUME step # "signal", signal' = signal, Quiet'
               PROVE  Quiet
    OBVIOUS
  <2>1. ~HasSignal(todo[c])
    BY <1>1, <1>2, <1>4, SignalInTail
  <2>2. \A d \in Clients \ {c} : ~HasSignal(todo[d])
    BY <1>2, <1>4
  <2>3. QED
    BY <2>1, <2>2, <1>4, QuietCalls
<1>7. QED
  BY <1>3, <1>5, <1>6

LEMMA WakeClientStep ==
  ASSUME WakeInv, NEW c \in Clients, ClientNext(c)
  PROVE  CallsPlanned' /\ (Quiet' => MayLoop' /\ NothingAsked' /\ Aimed')
<1>1. CASE ResetSchedule(c)
  BY <1>1, DoneStep DEF ResetSchedule, Announced, Steps
<1>2. CASE Bump(c)
  BY <1>2, DoneStep DEF Bump, Announced, Steps
<1>3. CASE SetPeriod(c)
  BY <1>3, DoneStep DEF SetPeriod, Announced, Steps
<1>4. CASE RequestWork(c)
  BY <1>4, DoneStep DEF RequestWork, Announced, Steps
<1>5. CASE ThreadPause(c)
  BY <1>5, DoneStep DEF ThreadPause, Announced, Steps
<1>6. CASE ThreadTerminate(c)
  BY <1>6, DoneStep DEF ThreadTerminate, Announced, Steps
<1>7. CASE SignalScheduler(c)
  <2>1. CallsPlanned'
    BY <1>7, DoneStep DEF SignalScheduler, Steps
  <2>2. ~Quiet'
    BY <1>7 DEF SignalScheduler, Quiet
  <2>3. QED
    BY <2>1, <2>2
<1>8. CASE ChangeDeltaMode(c) \/ ReadClock(c)
  <2>1. CallsPlanned' /\ (Quiet' => Quiet)
    BY <1>8, DoneStep DEF ChangeDeltaMode, ReadClock, Steps, wakeVars
  <2>2. UNCHANGED <<state, worker, wakeRequested, initialized, next, now, remaining>>
    BY <1>8 DEF ChangeDeltaMode, ReadClock, schedule, wakeVars, locals
  <2>3. QED
    BY <2>1, <2>2 DEF WakeInv, MayLoop, NothingAsked, Aimed
<1>9. CASE ThreadInitialize(c)
  <2>1. CallsPlanned' /\ (Quiet' => Quiet)
    BY <1>9, DoneStep DEF ThreadInitialize, Idle, Steps, wakeVars
  <2>2. UNCHANGED <<wakeRequested, initialized, next, now, remaining>>
    BY <1>9 DEF ThreadInitialize, Idle, schedule, wakeVars, locals
  <2>3. UNCHANGED <<state, worker>> \/ worker' = "loop"
    BY <1>9 DEF ThreadInitialize
  <2>4. QED
    BY <2>1, <2>2, <2>3 DEF WakeInv, MayLoop, NothingAsked, Aimed
<1>10. CASE ThreadStart(c)
  <2>1. UNCHANGED <<worker, signal, wakeRequested, initialized, next, now, remaining>>
    BY <1>10 DEF ThreadStart, Idle, schedule, wakeVars, locals
  <2>2. /\ todo[c] \in Seq(Steps) /\ todo[c] # <<>> /\ Head(todo[c]) = "start"
        /\ Planned(todo[c]) /\ Tail(todo[c]) \in Seq(Steps)
    BY <1>10 DEF ThreadStart, Takes, WakeInv, TypeOK, CallsPlanned
  <2>3. Planned(Tail(todo[c]))
    BY <2>2, PlannedTail
  <2>4. CASE state \in {"Uninitialized", "Terminated"}
    <3>1. todo' = [todo EXCEPT ![c] = Restarted(Tail(todo[c]))]
      BY <1>10, <2>4 DEF ThreadStart, Restarted, WakeInv, TypeOK
    <3>2. /\ todo'[c] = Restarted(Tail(todo[c]))
          /\ \A d \in Clients \ {c} : todo'[d] = todo[d]
      BY <3>1 DEF WakeInv, TypeOK
    <3>3. Planned(todo'[c]) /\ HasSignal(todo'[c])
      BY <2>2, <2>3, <3>2, RestartPlanned
    <3>4. CallsPlanned'
      BY <3>2, <3>3 DEF WakeInv, CallsPlanned
    <3>5. ~Quiet'
      BY <3>3 DEF Quiet, HasSignal
    <3>6. QED
      BY <3>4, <3>5
  <2>5. CASE state \notin {"Uninitialized", "Terminated"}
    <3>1. Done(c) /\ Takes(c, "start")
      BY <1>10, <2>5 DEF ThreadStart, Done
    <3>2. CallsPlanned' /\ (Quiet' => Quiet)
      BY <2>1, <3>1, DoneStep DEF Steps
    <3>3. state' = state \/ state' = "Running"
      BY <1>10, <2>5 DEF ThreadStart
    <3>4. QED
      BY <2>1, <3>2, <3>3 DEF WakeInv, MayLoop, NothingAsked, Aimed
  <2>6. QED
    BY <2>4, <2>5
<1>11. QED
  BY <1>1, <1>2, <1>3, <1>4, <1>5, <1>6, <1>7, <1>8, <1>9, <1>10 DEF ClientNext

LEMMA WakeWorkerStep ==
  ASSUME WakeInv, WorkerNext
  PROVE  CallsPlanned' /\ (Quiet' => MayLoop' /\ NothingAsked' /\ Aimed')
<1>1. todo' = todo
  BY DEF WorkerNext, EnterLoop, LeaveLoop, ServeWake, NoWork, LookAtClock, DecideToWait,
         BeginIteration, Yield, Park, Signalled, TimedOut, IterationReturns, UserCodeThrows,
         Record, Return, WorkerStep, clientVars
<1>2. CallsPlanned'
  BY <1>1 DEF WakeInv, CallsPlanned
<1>3. ASSUME worker' \in {"none", "loop", "iterate", "record"}
      PROVE  MayLoop' /\ NothingAsked' /\ Aimed'
  BY <1>3 DEF MayLoop, NothingAsked, Aimed
<1>4. signal' = signal => (Quiet' => Quiet)
  BY <1>1 DEF Quiet
<1> USE DEF WorkerStep, Return
<1>5. CASE EnterLoop
  BY <1>5, <1>2 DEF EnterLoop, MayLoop, NothingAsked, Aimed
<1>6. CASE NoWork
  <2>1. Quiet' => MayLoop
    BY <1>6, <1>4 DEF NoWork, wakeVars, WakeInv
  <2>2. QED
    BY <1>6, <1>2, <2>1 DEF NoWork, wakeVars, MayLoop, NothingAsked, Aimed
<1>7. CASE LookAtClock
  <2>1. Quiet' => MayLoop /\ NothingAsked
    BY <1>7, <1>4 DEF LookAtClock, wakeVars, WakeInv
  <2>2. QED
    BY <1>7, <1>2, <2>1 DEF LookAtClock, wakeVars, MayLoop, NothingAsked, Aimed
<1>8. CASE DecideToWait
  <2>1. Quiet' => MayLoop /\ NothingAsked
    BY <1>8, <1>4 DEF DecideToWait, wakeVars, WakeInv
  <2>2. initialized' /\ next' = Deadline /\ now' = now /\ remaining' = Deadline - now
    BY <1>8 DEF DecideToWait
  <2>3. Deadline \in Int /\ now \in Int
    BY ClockAssumption DEF Deadline, WakeInv, TypeOK, Times
  <2>4. next' = now' + remaining'
    BY <2>2, <2>3
  <2>5. QED
    BY <1>8, <1>2, <2>1, <2>2, <2>4 DEF DecideToWait, wakeVars, MayLoop, NothingAsked, Aimed
<1>9. CASE Park
  <2>1. Quiet' => MayLoop /\ NothingAsked /\ Aimed
    BY <1>9, <1>4 DEF Park, wakeVars, WakeInv
  <2>2. QED
    BY <1>9, <1>2, <2>1 DEF Park, schedule, wakeVars, MayLoop, NothingAsked, Aimed
<1>10. CASE LeaveLoop \/ ServeWake \/ BeginIteration \/ Yield \/ Signalled \/ TimedOut
              \/ IterationReturns \/ UserCodeThrows \/ Record
  <2>1. worker' \in {"none", "loop", "iterate", "record"}
    BY <1>10 DEF LeaveLoop, ServeWake, BeginIteration, Yield, Signalled, TimedOut,
                 IterationReturns, UserCodeThrows, Record
  <2>2. QED
    BY <2>1, <1>2, <1>3
<1>11. QED
  BY <1>5, <1>6, <1>7, <1>8, <1>9, <1>10 DEF WorkerNext

LEMMA WakeStep == WakeInv /\ [Next]_vars => WakeInv'
<1> SUFFICES ASSUME WakeInv, [Next]_vars
             PROVE  CallsPlanned' /\ (Quiet' => MayLoop' /\ NothingAsked' /\ Aimed')
  BY TypeStep DEF WakeInv
<1>1. ASSUME UNCHANGED <<state, worker, wakeVars, schedule, locals>>, CallsPlanned',
             Quiet' => Quiet
      PROVE  CallsPlanned' /\ (Quiet' => MayLoop' /\ NothingAsked' /\ Aimed')
  BY <1>1 DEF WakeInv, MayLoop, NothingAsked, Aimed, wakeVars, schedule, locals
<1>2. ASSUME todo' = todo, UNCHANGED wakeVars
      PROVE  CallsPlanned' /\ (Quiet' => Quiet)
  BY <1>2 DEF WakeInv, CallsPlanned, Quiet, wakeVars
<1>3. CASE Tick
  BY <1>3, <1>1, <1>2 DEF Tick, clientVars
<1>4. CASE WorkerNext
  BY <1>4, WakeWorkerStep
<1>5. ASSUME NEW c \in Clients, ClientNext(c)
      PROVE  CallsPlanned' /\ (Quiet' => MayLoop' /\ NothingAsked' /\ Aimed')
  BY <1>5, WakeClientStep
<1>6. ASSUME NEW c \in Clients, NEW o \in Calls[c], Call(c, o)
      PROVE  CallsPlanned' /\ (Quiet' => MayLoop' /\ NothingAsked' /\ Aimed')
  <2>1. Planned(Program(o))
    BY CallsAssumption, ProgramPlanned
  <2>2. /\ todo'[c] = Program(o) /\ todo[c] = <<>>
        /\ \A d \in Clients \ {c} : todo'[d] = todo[d]
    BY <1>6 DEF Call, WakeInv, TypeOK
  <2>3. CallsPlanned'
    BY <2>1, <2>2 DEF WakeInv, CallsPlanned
  <2>4. Quiet' => Quiet
    <3>1. ~HasSignal(todo[c])
      BY <2>2 DEF HasSignal
    <3>2. \A d \in Clients \ {c} : HasSignal(todo[d]) => ~Quiet'
      BY <2>2 DEF HasSignal, Quiet
    <3>3. signal' = signal
      BY <1>6 DEF Call, wakeVars
    <3>4. signal => ~Quiet'
      BY <3>3 DEF Quiet
    <3>5. QED
      BY <3>1, <3>2, <3>4, QuietCalls
  <2>5. QED
    BY <1>6, <1>1, <2>3, <2>4 DEF Call
<1>7. CASE UNCHANGED vars
  BY <1>7, <1>1, <1>2 DEF vars, clientVars
<1>8. QED
  BY <1>3, <1>4, <1>5, <1>6, <1>7 DEF Next

(* No wake-up is lost: a worker asleep on the signal with nobody about to  *)
(* give it sleeps for the present deadline, is not to pause or to end, and *)
(* has no work waiting.                                                    *)
THEOREM NoWakeIsLost == Spec => []NoLostWake
<1>1. Init => WakeInv
  <2>1. Init => CallsPlanned
    BY DEF Init, CallsPlanned, Planned
  <2>2. QED
    BY <2>1, InitType DEF Init, WakeInv, MayLoop, NothingAsked, Aimed
<1>2. WakeInv /\ [Next]_vars => WakeInv'
  BY WakeStep
<1>3. WakeInv => NoLostWake
  BY DEF WakeInv, NoLostWake, MayLoop, NothingAsked, Aimed
<1>4. QED
  BY <1>1, <1>2, <1>3, PTL DEF Spec
-----------------------------------------------------------------------------
(* The schedule.  OnLoop counts and advances with divisions and saturating *)
(* sums; DeadlineSchedule speaks of the set of deadlines.                  *)

(* Multiples of a period are apart by it at least.                         *)
LEMMA Multiples ==
  ASSUME NEW p \in Nat \ {0}, NEW j \in Nat, NEW k \in Nat
  PROVE  /\ k * p \in Nat /\ k <= k * p
         /\ j < k => j * p + p <= k * p
<1>1. k * p \in Nat /\ j * p \in Nat
  OBVIOUS
<1>2. k <= k * p
  OBVIOUS
<1>3. ASSUME j < k PROVE j * p + p <= k * p
  <2> DEFINE d == k - j - 1
  <2>1. d \in Nat /\ k = j + 1 + d
    BY <1>3
  <2> HIDE DEF d
  <2>2. k * p = j * p + p + d * p /\ d * p \in Nat
    BY <2>1
  <2>3. QED
    BY <1>1, <2>2
<1>4. QED
  BY <1>1, <1>2, <1>3

(* A quotient is the largest whole number of periods that fits.            *)
LEMMA Division ==
  ASSUME NEW a \in Nat, NEW p \in Nat \ {0}
  PROVE  /\ a \div p \in Nat /\ (a \div p) * p <= a
         /\ a < (a \div p) * p + p
  OBVIOUS

(* The deadlines of period p from n on that lie at or before t.            *)
LEMMA Counted ==
  ASSUME NEW p \in Nat \ {0}, NEW n \in Times, NEW t \in Times, n <= t
  PROVE  LET q == (t - n) \div p
             S == {d \in Times \cap {n + k * p : k \in Times} : d <= t}
         IN  /\ q \in Times /\ \A k \in Nat : n + k * p <= t <=> k <= q
             /\ Cardinality(S) = q + 1
<1> DEFINE q == (t - n) \div p
           S == {d \in Times \cap {n + k * p : k \in Times} : d <= t}
<1>1. /\ t - n \in Nat /\ n \in Nat /\ t \in Nat /\ Top \in Nat /\ t - n <= Top /\ t <= Top
  BY ClockAssumption DEF Times
<1>2. q \in Nat /\ q * p <= t - n /\ t - n < q * p + p
  BY <1>1, Division
<1> HIDE DEF q
<1>3. q \in Times
  BY <1>1, <1>2, Multiples DEF Times
<1>4. ASSUME NEW k \in Nat
      PROVE  n + k * p <= t <=> k <= q
  <2>1. k * p \in Nat /\ q * p \in Nat /\ (k < q => k * p + p <= q * p)
        /\ (q < k => q * p + p <= k * p)
    BY <1>2, Multiples
  <2>2. CASE k <= q
    BY <1>1, <1>2, <2>1, <2>2
  <2>3. CASE q < k
    BY <1>1, <1>2, <2>1, <2>3
  <2>4. QED
    BY <1>2, <2>2, <2>3
<1> DEFINE f == [k \in 0 .. q |-> n + k * p]
<1>5. S = {n + k * p : k \in 0 .. q}
  <2>1. \A k \in Times : k \in Nat
    BY DEF Times
  <2>2. \A k \in 0 .. q : k \in Times /\ k \in Nat /\ k <= q /\ n + k * p \in Nat
    BY <1>1, <1>2, <1>3, Multiples DEF Times
  <2>3. \A k \in 0 .. q : n + k * p <= t /\ n + k * p \in Times
    BY <1>1, <1>4, <2>2 DEF Times
  <2>4. \A k \in Times : n + k * p <= t => k \in 0 .. q
    BY <1>2, <1>4, <2>1
  <2>5. QED
    BY <2>2, <2>3, <2>4
<1>6. f \in Bijection(0 .. q, S)
  <2>1. f \in [0 .. q -> S]
    BY <1>5
  <2>2. \A j, k \in 0 .. q : n + j * p = n + k * p => j = k
    <3> SUFFICES ASSUME NEW j \in 0 .. q, NEW k \in 0 .. q, n + j * p = n + k * p, j # k
                 PROVE  FALSE
      OBVIOUS
    <3>1. j \in Nat /\ k \in Nat /\ (j < k \/ k < j)
      BY <1>2
    <3>2. j * p \in Nat /\ k * p \in Nat /\ (j < k => j * p + p <= k * p)
          /\ (k < j => k * p + p <= j * p)
      BY <3>1, Multiples
    <3>3. QED
      BY <1>1, <3>1, <3>2
  <2>3. f \in Injection(0 .. q, S)
    BY <2>1, <2>2 DEF Injection, IsInjective
  <2>4. f \in Surjection(0 .. q, S)
    BY <1>5, <2>1 DEF Surjection
  <2>5. QED
    BY <2>3, <2>4 DEF Bijection
<1>7. IsFiniteSet(0 .. q) /\ Cardinality(0 .. q) = q + 1
  BY <1>2, FS_Interval
<1>8. Cardinality(S) = q + 1
  BY <1>6, <1>7, FS_Bijection DEF ExistsBijection
<1>9. QED
  BY <1>3, <1>4, <1>8 DEF q

(* OnLoop advances the deadline to the first one after t, or to the last   *)
(* time there is.                                                          *)
LEMMA Advanced ==
  ASSUME period \in Nat \ {0}, period <= Top, NEW n \in Times, NEW t \in Times, n <= t
  PROVE  LET q == (t - n) \div period
             A == (Times \cap {n + k * period : k \in Times})
                    \ {d \in Times \cap {n + k * period : k \in Times} : d <= t}
         IN  AddSaturated(n, Advance(q)) = IF A = {} THEN Top ELSE Min(A)
<1> DEFINE q == (t - n) \div period
           A == (Times \cap {n + k * period : k \in Times})
                  \ {d \in Times \cap {n + k * period : k \in Times} : d <= t}
           e == n + (q + 1) * period
<1>1. n \in Nat /\ t \in Nat /\ Top \in Nat /\ n <= Top /\ t <= Top
  BY ClockAssumption DEF Times
<1>2. q \in Nat /\ q <= Top /\ \A k \in Nat : n + k * period <= t <=> k <= q
  BY <1>1, Counted DEF Times
<1>3. \A d : d \in A <=> \E k \in Times : d = n + k * period /\ d <= Top /\ k > q
  <2>1. \A k \in Times : k \in Nat /\ k * period \in Nat /\ n + k * period \in Nat
    BY <1>1, Multiples DEF Times
  <2>2. \A k \in Times : n + k * period \in Times <=> n + k * period <= Top
    BY <1>1, <2>1 DEF Times
  <2>3. \A k \in Times : ~(n + k * period <= t) <=> k > q
    BY <1>2, <2>1
  <2> HIDE DEF q
  <2>4. QED
    BY <2>2, <2>3
<1> HIDE DEF q, A
<1>4. /\ (q + 1) * period \in Nat /\ q * period \in Nat /\ e \in Nat
      /\ \A k \in Nat : k > q => e <= n + k * period
  <2>1. \A k \in Nat : k * period \in Nat /\ (q + 1 < k => (q + 1) * period + period <= k * period)
    BY <1>2, Multiples
  <2>2. (q + 1) * period \in Nat /\ q * period \in Nat
    BY <1>2, Multiples
  <2>3. ASSUME NEW k \in Nat, k > q
        PROVE  (q + 1) * period <= k * period
    <3>1. k = q + 1 \/ q + 1 < k
      BY <1>2, <2>3
    <3>2. QED
      BY <2>1, <2>2, <3>1
  <2>4. QED
    BY <1>1, <2>1, <2>2, <2>3
<1>5. CASE e <= Top
  <2>1. q + 1 \in Times /\ q # Top
    <3>1. q + 1 <= (q + 1) * period
      BY <1>2, Multiples
    <3>2. QED
      BY <1>1, <1>2, <1>4, <1>5, <3>1 DEF Times
  <2>2. e \in A
    BY <1>2, <1>3, <1>5, <2>1
  <2>3. \A d \in A : e <= d /\ d \in Nat
    BY <1>1, <1>2, <1>3, <1>4, Multiples DEF Times
  <2>4. Min(A) = e
    <3>1. \A d \in A : (\A c \in A : d <= c) => d = e
      BY <1>4, <2>2, <2>3
    <3>2. QED
      BY <2>2, <2>3, <3>1 DEF Min
  <2>5. PeriodsToAdvance(q) = q + 1
    BY <2>1 DEF PeriodsToAdvance
  <2>6. ~(q + 1 > Top \div period)
    <3>1. Top < (Top \div period) * period + period /\ Top \div period \in Nat
      BY <1>1, Division
    <3>2. Top \div period < q + 1 => (Top \div period) * period + period <= (q + 1) * period
      BY <1>2, <3>1, Multiples
    <3>3. (q + 1) * period <= Top
      BY <1>1, <1>4, <1>5
    <3>4. (Top \div period) * period \in Nat
      BY <3>1, Multiples
    <3>5. QED
      BY <1>1, <1>2, <1>4, <3>1, <3>2, <3>3, <3>4
  <2>7. Advance(q) = (q + 1) * period
    BY <2>5, <2>6 DEF Advance
  <2>8. AddSaturated(n, Advance(q)) = e
    BY <1>1, <1>4, <1>5, <2>7 DEF AddSaturated
  <2>9. QED
    BY <2>2, <2>4, <2>8 DEF q, A
<1>6. CASE e > Top
  <2>1. A = {}
    <3> SUFFICES ASSUME NEW d \in A PROVE FALSE
      OBVIOUS
    <3>1. PICK k \in Times : d = n + k * period /\ d <= Top /\ k > q
      BY <1>3
    <3>2. k \in Nat /\ n + k * period \in Nat
      BY <1>1, Multiples DEF Times
    <3>3. QED
      BY <1>1, <1>4, <1>6, <3>1, <3>2
  <2>2. Top > Top - n \/ n = 0
    BY <1>1
  <2>3. (Advance(q) \in Nat /\ Advance(q) > Top - n) \/ Advance(q) = Top
    <3>1. CASE q = Top
      <4>1. PeriodsToAdvance(q) = Top
        BY <3>1 DEF PeriodsToAdvance
      <4>2. Top <= Top * period /\ Top * period \in Nat
        BY <1>1, Multiples
      <4>3. Top * period <= Top
        <5>1. n + Top * period <= t
          BY <1>1, <1>2, <3>1
        <5>2. QED
          BY <1>1, <4>2, <5>1
      <4>4. QED
        BY <1>1, <4>1, <4>2, <4>3 DEF Advance
    <3>2. CASE q # Top
      <4>1. PeriodsToAdvance(q) = q + 1
        BY <3>2 DEF PeriodsToAdvance
      <4>2. (q + 1) * period > Top - n
        BY <1>1, <1>4, <1>6
      <4>3. QED
        BY <1>4, <4>1, <4>2 DEF Advance
    <3>3. QED
      BY <3>1, <3>2
  <2>4. AddSaturated(n, Advance(q)) = Top
    BY <1>1, <2>2, <2>3 DEF AddSaturated
  <2>5. QED
    BY <2>1, <2>4 DEF q, A
<1>7. QED
  BY <1>1, <1>4, <1>5, <1>6

(* No reading of the clock, neither the worker's nor a client's, is ahead  *)
(* of it.                                                                  *)
ReadingsPast == now <= clock /\ \A c \in Clients : reading[c] <= clock
ScheduleInv == TypeOK /\ ReadingsPast

LEMMA ScheduleStep == ScheduleInv /\ [Next]_vars => ScheduleInv'
<1> SUFFICES ASSUME ScheduleInv, [Next]_vars
             PROVE  ReadingsPast'
  BY TypeStep DEF ScheduleInv
<1>1. clock \in Nat /\ now \in Nat /\ \A c \in Clients : reading[c] \in Nat
  BY DEF ScheduleInv, TypeOK, Times
<1> USE DEF ScheduleInv, ReadingsPast
<1>2. ASSUME clock' = clock, now' \in {now, clock, 0}, reading' = reading
      PROVE  ReadingsPast'
  BY <1>1, <1>2
<1>3. CASE Tick
  <2>1. clock' = clock + 1 /\ now' = now /\ reading' = reading
    BY <1>3 DEF Tick, locals, clientVars
  <2>2. QED
    BY <1>1, <2>1
<1>4. CASE WorkerNext
  <2>1. clock' = clock /\ reading' = reading
    BY <1>4 DEF WorkerNext, EnterLoop, LeaveLoop, ServeWake, NoWork, LookAtClock, DecideToWait,
         BeginIteration, Yield, Park, Signalled, TimedOut, IterationReturns, UserCodeThrows,
         Record, Return, WorkerStep, clientVars
  <2>2. now' \in {now, clock, 0}
    BY <1>4 DEF WorkerNext, EnterLoop, LeaveLoop, ServeWake, NoWork, LookAtClock, DecideToWait,
         BeginIteration, Yield, Park, Signalled, TimedOut, IterationReturns, UserCodeThrows,
         Record, Return, locals
  <2>3. QED
    BY <1>2, <2>1, <2>2
<1>5. ASSUME NEW c \in Clients, ClientNext(c)
      PROVE  ReadingsPast'
  <2>1. clock' = clock /\ now' = now
    BY <1>5 DEF ClientNext, ResetSchedule, ChangeDeltaMode, SignalScheduler, RequestWork,
         ReadClock, Bump, SetPeriod, ThreadInitialize, ThreadStart, ThreadPause,
         ThreadTerminate, Idle, locals
  <2>2. reading' = reading \/ \E t \in {0, clock} : reading' = [reading EXCEPT ![c] = t]
    BY <1>5 DEF ClientNext, ResetSchedule, ChangeDeltaMode, SignalScheduler, RequestWork,
         ReadClock, Bump, SetPeriod, ThreadInitialize, ThreadStart, ThreadPause,
         ThreadTerminate, Idle
  <2>3. CASE reading' = reading
    BY <1>2, <2>1, <2>3
  <2>4. ASSUME NEW t \in {0, clock}, reading' = [reading EXCEPT ![c] = t]
        PROVE  ReadingsPast'
    <3>1. \A d \in Clients : reading'[d] = IF d = c THEN t ELSE reading[d]
      BY <2>4 DEF TypeOK
    <3>2. t <= clock
      BY <1>1, <2>4
    <3>3. QED
      BY <2>1, <3>1, <3>2
  <2>5. QED
    BY <2>2, <2>3, <2>4
<1>6. ASSUME NEW c \in Clients, NEW o \in Calls[c], Call(c, o)
      PROVE  ReadingsPast'
  BY <1>6, <1>2 DEF Call, locals
<1>7. CASE UNCHANGED vars
  BY <1>7, <1>2 DEF vars, locals, clientVars
<1>8. QED
  BY <1>3, <1>4, <1>5, <1>6, <1>7 DEF Next

(* What the schedule shows of the worker, in the abstract specification.   *)
Begun == IF Busy THEN now ELSE NotBusy
Told == IF Busy THEN skipped ELSE 0
seen == <<clock, period, initialized, next, Begun, Told>>

LEMMA SeenUnchanged ==
  UNCHANGED seen => UNCHANGED Deadlines!vars
  BY DEF seen, Begun, Told, Deadlines!vars

(* A step of the worker within an iteration or outside of one.             *)
LEMMA Within ==
  ASSUME UNCHANGED <<clock, schedule>>, Busy' <=> Busy, Busy => UNCHANGED <<now, skipped>>
  PROVE  UNCHANGED Deadlines!vars
  BY SeenUnchanged DEF schedule, seen, Begun, Told

(* An iteration begins at the first deadline that is due and moves the     *)
(* deadline past the present.                                              *)
LEMMA BeginIsBegin ==
  ASSUME ScheduleInv, BeginIteration
  PROVE  Deadlines!Begin(now)
<1>1. /\ now \in Times /\ Deadline \in Times /\ Top \in Nat /\ period \in Nat /\ period <= Top
  BY ClockAssumption, CallsAssumption DEF ScheduleInv, TypeOK, Deadline, Times
<1>2. ~Busy /\ Busy' /\ now' = now /\ UNCHANGED <<clock, period>> /\ initialized' = TRUE
  BY DEF BeginIteration, WorkerStep, Busy
<1>3. Begun = Top + 1 /\ Begun' = now /\ Told' = skipped'
  BY <1>2 DEF Begun, Told, NotBusy
<1>4. Deadlines!Anchor(now) = Deadline
  BY DEF Deadlines!Anchor, Deadline
<1>5. CASE period = 0
  <2>1. next' = Deadline /\ skipped' = 0
    BY <1>5 DEF BeginIteration
  <2>2. QED
    BY <1>2, <1>3, <1>4, <1>5, <2>1 DEF Deadlines!Begin, Deadlines!Idle, Begun, Told
<1>6. CASE period # 0
  <2> DEFINE q == (now - Deadline) \div period
             D == Times \cap {Deadline + k * period : k \in Times}
             P == {d \in D : d <= now}
  <2>1. Deadline <= now /\ skipped' = q /\ next' = AddSaturated(Deadline, Advance(q))
    BY <1>1, <1>6 DEF BeginIteration, Times
  <2>2. Cardinality(P) = q + 1 /\ q \in Times
    BY <1>1, <1>6, <2>1, Counted
  <2>3. next' = IF D \ P = {} THEN Top ELSE Min(D \ P)
    <3>1. {d \in Times \cap {Deadline + k * period : k \in Times} : d <= now} = P
      OBVIOUS
    <3>2. QED
      BY <1>1, <1>6, <2>1, Advanced
  <2>4. Deadlines!Passed(Deadline, now) = P /\ Deadlines!Ahead(Deadline, now) = D \ P
    BY DEF Deadlines!Passed, Deadlines!Ahead, Deadlines!Deadlines, Deadlines!Times, Times
  <2>5. /\ Deadlines!Min(D \ P) = Min(D \ P)
        /\ Deadlines!Cardinality(P) = Cardinality(P)
    BY DEF Deadlines!Min, Min, Deadlines!Cardinality, Cardinality
  <2> HIDE DEF q, D, P
  <2>6. skipped' = Cardinality(P) - 1
    BY <2>1, <2>2 DEF Times
  <2>7. period > 0
    BY <1>1, <1>6
  <2>8. QED
    BY <1>2, <1>3, <1>4, <2>1, <2>3, <2>4, <2>5, <2>6, <2>7
       DEF Deadlines!Begin, Deadlines!Idle, Begun, Told
<1>7. QED
  BY <1>5, <1>6

LEMMA WorkerKeepsSchedule ==
  ASSUME ScheduleInv, WorkerNext
  PROVE  Deadlines!Next \/ UNCHANGED Deadlines!vars
<1>1. now \in 0 .. clock /\ clock \in Nat /\ now \in Times
  BY DEF ScheduleInv, ReadingsPast, TypeOK, Times
<1> USE DEF WorkerStep, Return, Busy
<1>2. CASE EnterLoop \/ LeaveLoop \/ ServeWake \/ NoWork \/ LookAtClock
  BY <1>2, Within DEF EnterLoop, LeaveLoop, ServeWake, NoWork, LookAtClock, schedule, locals
<1>3. CASE Yield \/ Park \/ Signalled \/ TimedOut \/ IterationReturns
  BY <1>3, Within DEF Yield, Park, Signalled, TimedOut, IterationReturns, schedule, locals
<1>4. CASE DecideToWait
  <2>1. /\ ~Busy /\ ~Busy' /\ UNCHANGED <<clock, period>>
        /\ initialized' = TRUE /\ next' = Deadline
    BY <1>4 DEF DecideToWait
  <2>2. Deadlines!Look(now)
    BY <2>1 DEF Deadlines!Look, Deadlines!Anchor, Deadlines!Idle, NotBusy, Deadline
  <2>3. QED
    BY <1>1, <2>2 DEF Deadlines!Next
<1>5. CASE BeginIteration
  BY <1>1, <1>5, BeginIsBegin DEF Deadlines!Next
<1>6. CASE Record \/ (UserCodeThrows /\ worker = "iterate")
  <2>1. Busy /\ ~Busy' /\ UNCHANGED <<clock, period, initialized, next>>
    BY <1>6 DEF Record, UserCodeThrows, schedule
  <2>2. now # Top + 1
    BY <1>1, ClockAssumption DEF Times
  <2>3. Deadlines!End
    BY <2>1, <2>2 DEF Deadlines!End, Deadlines!Idle, NotBusy
  <2>4. QED
    BY <2>3 DEF Deadlines!Next
<1>7. CASE UserCodeThrows /\ worker # "iterate"
  BY <1>7, Within DEF UserCodeThrows, schedule
<1>8. QED
  BY <1>2, <1>3, <1>4, <1>5, <1>6, <1>7 DEF WorkerNext

LEMMA ClientKeepsSchedule ==
  ASSUME ScheduleInv, NEW c \in Clients, ClientNext(c)
  PROVE  Deadlines!Next \/ UNCHANGED Deadlines!vars
<1>1. reading[c] \in 0 .. clock /\ clock \in Nat /\ period \in Times /\ Periods \subseteq Times
  BY ClockAssumption, CallsAssumption DEF ScheduleInv, ReadingsPast, TypeOK, Times
<1>2. ASSUME ~UNCHANGED schedule
      PROVE  ResetSchedule(c) \/ Bump(c) \/ SetPeriod(c)
  BY <1>2 DEF ClientNext, ChangeDeltaMode, SignalScheduler, RequestWork, ReadClock,
       ThreadInitialize, ThreadStart, ThreadPause, ThreadTerminate, Idle
<1>3. /\ UNCHANGED <<clock, now, skipped>>
      /\ worker' = worker \/ (worker = "none" /\ worker' = "loop")
  BY DEF ClientNext, ResetSchedule, ChangeDeltaMode, SignalScheduler, RequestWork, ReadClock,
       Bump, SetPeriod, ThreadInitialize, ThreadStart, ThreadPause, ThreadTerminate, Idle, locals
<1>4. (Busy' <=> Busy) /\ Begun' = Begun /\ Told' = Told
  BY <1>3 DEF Busy, Begun, Told, NotBusy
<1>5. CASE UNCHANGED schedule
  BY <1>3, <1>4, <1>5, Within
<1>6. CASE ResetSchedule(c) \/ Bump(c) \/ SetPeriod(c)
  <2>1. \E t \in {0, reading[c]} :
          \/ initialized' = TRUE /\ next' = t /\ period' = period
          \/ initialized' = FALSE /\ next' \in {next, 0} /\ period' \in Times
    BY <1>1, <1>6 DEF ResetSchedule, Bump, SetPeriod
  <2>2. PICK t \in 0 .. clock :
          \/ initialized' = TRUE /\ next' = t /\ period' = period
          \/ initialized' = FALSE /\ next' \in {next, 0} /\ period' \in Times
    BY <1>1, <2>1
  <2>3. Deadlines!Restart(t)
    BY <1>3, <1>4, <2>2 DEF Deadlines!Restart, Deadlines!Times, Times, Begun, Told
  <2>4. QED
    BY <2>3 DEF Deadlines!Next
<1>7. QED
  BY <1>2, <1>5, <1>6

(* The saturating arithmetic of OnLoop keeps the schedule: whoever resets, *)
(* bumps or changes the period meanwhile, an iteration begins at or after  *)
(* a deadline, is told exactly how many deadlines passed without one, and  *)
(* leaves the first deadline still ahead, or the last time of the clock.   *)
THEOREM Refinement == Spec => ImplementsSchedule
<1>1. Init => ScheduleInv
  BY InitType DEF Init, ScheduleInv, ReadingsPast
<1>2. ScheduleInv /\ [Next]_vars => ScheduleInv'
  BY ScheduleStep
<1>3. Init => Deadlines!Init
  BY ClockAssumption DEF Init, Deadlines!Init, Deadlines!Times, Deadlines!Idle, Busy, NotBusy
<1>4. ScheduleInv /\ [Next]_vars => [Deadlines!Next]_(Deadlines!vars)
  <2> SUFFICES ASSUME ScheduleInv, [Next]_vars
               PROVE  Deadlines!Next \/ UNCHANGED Deadlines!vars
    OBVIOUS
  <2>1. CASE Tick
    <3>1. /\ UNCHANGED <<period, initialized, next, worker, now, skipped>>
          /\ clock' \in clock .. Top
      BY <2>1, ClockAssumption DEF Tick, schedule, locals, ScheduleInv, TypeOK, Times
    <3>2. Deadlines!Tick
      BY <3>1 DEF Deadlines!Tick, Busy, NotBusy
    <3>3. QED
      BY <3>2 DEF Deadlines!Next
  <2>2. CASE WorkerNext
    BY <2>2, WorkerKeepsSchedule
  <2>3. ASSUME NEW c \in Clients, ClientNext(c)
        PROVE  Deadlines!Next \/ UNCHANGED Deadlines!vars
    BY <2>3, ClientKeepsSchedule
  <2>4. ASSUME NEW c \in Clients, NEW o \in Calls[c], Call(c, o)
        PROVE  Deadlines!Next \/ UNCHANGED Deadlines!vars
    BY <2>4, Within DEF Call, locals, Busy
  <2>5. CASE UNCHANGED vars
    BY <2>5, Within DEF vars, locals, Busy
  <2>6. QED
    BY <2>1, <2>2, <2>3, <2>4, <2>5 DEF Next
<1>5. QED
  BY <1>1, <1>2, <1>3, <1>4, PTL DEF Spec, ImplementsSchedule, Deadlines!Spec
=============================================================================
