------------------------ MODULE LifecycleNotification ------------------------
(***************************************************************************)
(* How the changes of one Thread's lifecycle state reach its listeners:    *)
(* listener 0 is the pair of callbacks OnStateChange and On<State>, the    *)
(* others are the observers in the order of their registration.  A change  *)
(* is made and dispatched with a recursive mutex held; a listener may      *)
(* change the state again, which is dispatched inside the first dispatch,  *)
(* and a listener may throw.                                               *)
(*                                                                         *)
(* A request stands for any lifecycle operation that sets a state; which   *)
(* one it sets is module Thread's subject.  Left out: replacing a callback *)
(* during a dispatch (a dispatch keeps the callbacks it started with).     *)
(***************************************************************************)
EXTENDS Naturals, Sequences, SequencesExt, ThreadStates

CONSTANTS
  Tasks,       \* the tasks that operate on the Thread
  Nobody,      \* no task, no request
  Observers,   \* how many observers are registered
  MaxRequests, \* bound: requests in all, those of listeners included
  Awaiting     \* listeners that may wait until the Thread has terminated

ASSUME BoundsAssumption == Observers \in Nat /\ MaxRequests \in Nat
ASSUME NobodyAssumption == Nobody \notin Tasks /\ Nobody \notin ThreadState

VARIABLES
  state,        \* _threadState
  owner,        \* holder of _stateTransitionMutex
  frames,       \* its dispatches, the innermost last
  asked,        \* asked[t]: the state the call of task t wants to set
  todo,         \* todo[t]: what its Initialize has to set after that
  initializing, \* the task whose Initialize is in progress
  failure,      \* that Initialize is taking the path of an exception
  requests,     \* how many requests have been made
  changes,      \* history: how often the state changed
  told,         \* history: told[i]: general events listener i heard
  heard,        \* history: heard[i]: the last event of a state it heard
  thrown        \* history: a callback threw on the initialising task

callVars == <<asked, todo, initializing, failure, requests>>
heardVars == <<told, heard, thrown>>
vars == <<state, owner, frames, changes, callVars, heardVars>>

Listeners == 0 .. Observers
Over == 2 * Observers + 2       \* the stage after the last listener's

(* Stage 2i of a dispatch is the general event of listener i, stage 2i + 1 *)
(* the event of the new state.                                             *)
Frame == [new : ThreadState, stage : 0 .. Over, inside : BOOLEAN,
          waits : BOOLEAN, failed : BOOLEAN]

TypeOK ==
  /\ state \in ThreadState /\ owner \in Tasks \cup {Nobody}
  /\ frames \in Seq(Frame) /\ (frames = <<>>) = (owner = Nobody)
  /\ asked \in [Tasks -> ThreadState \cup {Nobody}]
  /\ todo \in [Tasks -> Seq(ThreadState)]
  /\ initializing \in Tasks \cup {Nobody} /\ failure \in BOOLEAN
  /\ requests \in 0 .. MaxRequests /\ changes \in Nat
  /\ told \in [Listeners -> Nat] /\ heard \in [Listeners -> ThreadState]
  /\ thrown \in BOOLEAN

Init ==
  /\ state = "Uninitialized" /\ owner = Nobody /\ frames = <<>>
  /\ asked = [t \in Tasks |-> Nobody] /\ todo = [t \in Tasks |-> <<>>]
  /\ initializing = Nobody /\ failure = FALSE /\ requests = 0 /\ changes = 0
  /\ told = [i \in Listeners |-> 0]
  /\ heard = [i \in Listeners |-> "Uninitialized"] /\ thrown = FALSE

-----------------------------------------------------------------------------
Top == Last(frames)
WithTop(f) == Front(frames) \o <<f>>
Listener == Top.stage \div 2
Inside(t) == owner = t /\ Top.inside /\ ~Top.waits
Free(t) == asked[t] = Nobody /\ todo[t] = <<>> /\ owner # t /\ initializing # t

(* What operations set; the destructor comes when nobody else calls.       *)
Requestable == ThreadState \ {"Initialized", "Destroyed"}

(* A call from outside, or by a listener from inside a dispatch.           *)
Request(t, s) ==
  /\ requests < MaxRequests /\ requests' = requests + 1
  /\ asked[t] = Nobody /\ (Free(t) \/ Inside(t))
  /\ asked' = [asked EXCEPT ![t] = s]
  /\ UNCHANGED <<state, owner, frames, changes, todo, initializing, failure, heardVars>>

(* Initialize on a new Thread; what OnInitialization does is left out.     *)
BeginInitialize(t) ==
  /\ requests < MaxRequests /\ requests' = requests + 1
  /\ Free(t) /\ initializing = Nobody /\ state = "Uninitialized"
  /\ initializing' = t /\ failure' = FALSE /\ thrown' = FALSE
  /\ asked' = [asked EXCEPT ![t] = "Initialized"]
  /\ todo' = [todo EXCEPT ![t] = <<"Running">>]
  /\ UNCHANGED <<state, owner, frames, changes, told, heard>>

(* Initialize sets Running only if the state is still Initialized, and     *)
(* finishes a termination a listener began.                                *)
Continued(s) ==
  IF s # "Running" \/ state = "Initialized" THEN s
  ELSE IF state = "Terminating" THEN "Terminated" ELSE Nobody

ContinueInitialize(t) ==
  /\ initializing = t /\ owner # t /\ asked[t] = Nobody
  /\ IF todo[t] # <<>>
       THEN /\ asked' = [asked EXCEPT ![t] = Continued(Head(todo[t]))]
            /\ todo' = [todo EXCEPT ![t] = Tail(@)]
            /\ UNCHANGED initializing
       ELSE initializing' = Nobody /\ UNCHANGED <<asked, todo>>
  /\ UNCHANGED <<state, owner, frames, changes, failure, requests, heardVars>>

(* SetThreadState: the mutex is recursive.                                 *)
(* Mutant: it is not. *)
FreeMutexOnly(t) == owner = Nobody
MayEnter(t) == owner \in {Nobody, t}

SetThreadState(t) ==
  /\ asked[t] # Nobody /\ MayEnter(t)
  /\ asked' = [asked EXCEPT ![t] = Nobody]
  /\ IF IsValidTransition(state, asked[t])
       THEN /\ state' = asked[t] /\ changes' = changes + 1 /\ owner' = t
            /\ frames' = Append(frames, [new |-> asked[t], stage |-> 0, inside |-> FALSE,
                                         waits |-> FALSE, failed |-> FALSE])
       ELSE UNCHANGED <<state, changes, owner, frames>>
  /\ UNCHANGED <<todo, initializing, failure, requests, heardVars>>

-----------------------------------------------------------------------------
Delivering(t) == owner = t /\ asked[t] = Nobody /\ Top.stage < Over /\ ~Top.inside

(* Mutant: an event is delivered although the state has moved on. *)
EvenObsolete == TRUE
StillCurrent == state = Top.new

(* The callbacks have no event for three of the states.                    *)
HasEvent(i) == i > 0 \/ Top.new \notin {"Uninitialized", "Terminating", "Destroyed"}

Tell(t) ==
  /\ Delivering(t) /\ Top.stage % 2 = 0
  /\ told' = [told EXCEPT ![Listener] = @ + 1]
  /\ frames' = WithTop([Top EXCEPT !.inside = TRUE])
  /\ UNCHANGED <<state, owner, changes, callVars, heard, thrown>>

TellEvent(t) ==
  /\ Delivering(t) /\ Top.stage % 2 = 1 /\ StillCurrent /\ HasEvent(Listener)
  /\ heard' = [heard EXCEPT ![Listener] = Top.new]
  /\ frames' = WithTop([Top EXCEPT !.inside = TRUE])
  /\ UNCHANGED <<state, owner, changes, callVars, told, thrown>>

SkipEvent(t) ==
  /\ Delivering(t) /\ Top.stage % 2 = 1 /\ ~(StillCurrent /\ HasEvent(Listener))
  /\ frames' = WithTop([Top EXCEPT !.stage = @ + 1])
  /\ UNCHANGED <<state, owner, changes, callVars, heardVars>>

(* A listener calls Shutdown and waits for the end of the worker, which    *)
(* sets the state Terminated.                                              *)
Await(t) ==
  /\ Inside(t) /\ asked[t] = Nobody /\ Listener \in Awaiting
  /\ frames' = WithTop([Top EXCEPT !.waits = TRUE])
  /\ UNCHANGED <<state, owner, changes, callVars, heardVars>>

Left(f, threw) == [f EXCEPT !.stage = @ + 1, !.inside = FALSE, !.waits = FALSE,
                            !.failed = @ \/ (threw /\ f.stage < 2)]

ListenerReturns(t) ==
  /\ owner = t /\ Top.inside /\ asked[t] = Nobody
  /\ Top.waits => state = "Terminated"
  /\ frames' = WithTop(Left(Top, FALSE))
  /\ UNCHANGED <<state, owner, changes, callVars, heardVars>>

(* Whatever a listener throws is contained; of a callback it is remembered. *)
(* Mutant: an exception ends the delivery to the others. *)
LeftAtOnce == [Left(Top, TRUE) EXCEPT !.stage = Over]
LeftThrowing == Left(Top, TRUE)

ListenerThrows(t) ==
  /\ Inside(t) /\ asked[t] = Nobody
  /\ frames' = WithTop(LeftThrowing)
  /\ thrown' = (thrown \/ (Listener = 0 /\ initializing = t))
  /\ UNCHANGED <<state, owner, changes, callVars, told, heard>>

(* The end of a dispatch.  On the initialising task a failed callback      *)
(* makes it throw: out of the Initialize, or into the listener that made   *)
(* the change, which may catch it.                                         *)
Throws(t) == Top.failed /\ initializing = t

EndDispatch(t) ==
  /\ owner = t /\ Top.stage = Over /\ Len(frames) = 1
  /\ owner' = Nobody /\ frames' = <<>>
  /\ IF Throws(t) /\ ~failure
       THEN failure' = TRUE /\ todo' = [todo EXCEPT ![t] = <<"Terminating", "Terminated">>]
       ELSE UNCHANGED <<failure, todo>>
  /\ UNCHANGED <<state, changes, asked, initializing, requests, heardVars>>

EndNestedDispatch(t) ==
  /\ owner = t /\ Top.stage = Over /\ Len(frames) > 1
  /\ LET outer == Front(frames)
         f == Last(outer)
     IN  \/ frames' = outer
         \/ Throws(t) /\ frames' = Front(outer) \o <<Left(f, TRUE)>>
  /\ UNCHANGED <<state, owner, changes, callVars, heardVars>>

Continue(t) ==
  \/ ContinueInitialize(t) \/ SetThreadState(t) \/ Tell(t) \/ TellEvent(t) \/ SkipEvent(t)
  \/ ListenerReturns(t) \/ ListenerThrows(t) \/ EndDispatch(t) \/ EndNestedDispatch(t)

Next == \E t \in Tasks :
  \/ Continue(t) \/ Await(t) \/ BeginInitialize(t)
  \/ \E s \in Requestable : Request(t, s)

Spec == Init /\ [][Next]_vars

(* Every task is scheduled and a listener returns, unless it waits.        *)
FairSpec == Spec /\ \A t \in Tasks : WF_vars(Continue(t))

-----------------------------------------------------------------------------
(* README: an obsolete event is suppressed.  When no dispatch is under way *)
(* the last event each listener heard is of the state the Thread is in,    *)
(* however often listeners changed it meanwhile.                           *)
LastEventIsCurrent ==
  owner = Nobody => \A i \in Listeners :
    heard[i] = state \/ (i = 0 /\ state \in {"Uninitialized", "Terminating", "Destroyed"})

(* README: every listener hears of every transition, and one that throws   *)
(* or changes the state does not stop the delivery to the others.          *)
EveryTransitionTold == owner = Nobody => \A i \in Listeners : told[i] = changes

(* A listener waits, with the mutex held, for what another task must do.   *)
Blocked == \E i \in DOMAIN frames : frames[i].waits /\ state # "Terminated"

(* README: a callback may re-enter lifecycle methods.  A call that waits   *)
(* for its turn, from outside or inside a dispatch, gets it and ends,      *)
(* unless a listener waits for another task.                               *)
CallsEnd == \A t \in Tasks : ~Free(t) ~> Free(t) \/ Blocked

(* The wiki: callbacks are never invoked with a lock held that would make  *)
(* a valid lifecycle call deadlock.  A listener that waits for another     *)
(* task, which is about to do what it waits for, goes on.                  *)
WaitsEnd == \A t \in Tasks : Blocked /\ owner # t /\ asked[t] = "Terminated" ~> ~Blocked

(* README: a callback that throws during Initialize makes it fail.         *)
FailureReported ==
  [][initializing # Nobody /\ initializing' = Nobody /\ thrown => failure]_vars
=============================================================================
