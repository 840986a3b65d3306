--------------------- MODULE TerminationDispatcherProofs ---------------------
(***************************************************************************)
(* Proofs about TerminationDispatcher, for any Threads and collectors, any *)
(* length of the queue, any faults, whatever OnTerminated does, and        *)
(* whichever Threads are released before their exit.                       *)
(***************************************************************************)
EXTENDS TerminationDispatcher, TLAPS

(* What a queue contains once something is added or taken.                 *)
LEMMA Added ==
  ASSUME NEW S, NEW s \in Seq(S), NEW x \in S
  PROVE  /\ \A e : Contains(Append(s, x), e) <=> Contains(s, e) \/ e = x
         /\ IsInjective(s) /\ ~Contains(s, x) => IsInjective(Append(s, x))
<1>1. /\ Len(s) \in Nat /\ Len(Append(s, x)) = Len(s) + 1
      /\ \A i \in 1 .. Len(s) : Append(s, x)[i] = s[i]
      /\ Append(s, x)[Len(s) + 1] = x
      /\ DOMAIN s = 1 .. Len(s) /\ DOMAIN Append(s, x) = 1 .. Len(s) + 1
  OBVIOUS
<1>2. /\ \A i \in 1 .. Len(s) + 1 : i \in 1 .. Len(s) \/ i = Len(s) + 1
      /\ 1 .. Len(s) \subseteq 1 .. Len(s) + 1 /\ Len(s) + 1 \in 1 .. Len(s) + 1
  BY <1>1
<1>3. QED
  BY <1>1, <1>2 DEF Contains, IsInjective

LEMMA Taken ==
  ASSUME NEW S, NEW s \in Seq(S), s # << >>, IsInjective(s)
  PROVE  /\ Head(s) \in S /\ Contains(s, Head(s)) /\ Tail(s) \in Seq(S)
         /\ Len(Tail(s)) < Len(s)
         /\ \A e : Contains(Tail(s), e) <=> Contains(s, e) /\ e # Head(s)
         /\ IsInjective(Tail(s))
<1>1. /\ Len(s) \in Nat \ {0} /\ Len(Tail(s)) = Len(s) - 1 /\ Head(s) = s[1]
      /\ Tail(s) \in Seq(S) /\ DOMAIN s = 1 .. Len(s) /\ DOMAIN Tail(s) = 1 .. Len(s) - 1
      /\ \A i \in 1 .. Len(s) - 1 : Tail(s)[i] = s[i + 1]
  OBVIOUS
<1>2. 1 \in 1 .. Len(s) /\ \A i \in 1 .. Len(s) - 1 : i + 1 \in 1 .. Len(s) /\ i + 1 # 1
  BY <1>1
<1>3. \A i \in 1 .. Len(s) : i # 1 => i - 1 \in 1 .. Len(s) - 1 /\ Tail(s)[i - 1] = s[i]
  BY <1>1
<1>4. Contains(s, Head(s)) /\ Head(s) \in S /\ Len(Tail(s)) < Len(s)
  BY <1>1, <1>2 DEF Contains
<1>5. IsInjective(Tail(s))
  <2> SUFFICES ASSUME NEW i \in 1 .. Len(s) - 1, NEW j \in 1 .. Len(s) - 1,
                      s[i + 1] = s[j + 1]
               PROVE  i = j
    BY <1>1 DEF IsInjective
  <2>1. i + 1 = j + 1
    BY <1>1, <1>2 DEF IsInjective
  <2>2. QED
    BY <2>1
<1>6. \A e : Contains(Tail(s), e) <=> Contains(s, e) /\ e # Head(s)
  <2> TAKE e
  <2>1. Contains(Tail(s), e) => Contains(s, e) /\ e # Head(s)
    BY <1>1, <1>2 DEF Contains, IsInjective
  <2>2. Contains(s, e) /\ e # Head(s) => Contains(Tail(s), e)
    BY <1>1, <1>3 DEF Contains
  <2>3. QED
    BY <2>1, <2>2
<1>7. QED
  BY <1>1, <1>4, <1>5, <1>6

(* The dispatcher is at a record between taking it and clearing it, and a  *)
(* pass that destroys is at a Thread.                                      *)
Dispatching == {"kill", "callback", "shutdown", "clear"}
Destroying == {"wait", "poll", "destroy"}
AtRecord == IF pc[Dispatcher] \in Dispatching THEN current \in Threads ELSE current = NoThread
AtThread == \A k \in Cleaners : pc[k] \in Destroying => doomed[k] \in Threads

TypeInv == TypeOK /\ AtRecord /\ AtThread

LEMMA InitType == Init => TypeInv
<1> SUFFICES ASSUME Init PROVE TypeInv
  OBVIOUS
<1>1. \A k \in Cleaners : Rest(k) \in CleanerLabels /\ Rest(k) \notin Dispatching \cup Destroying
  BY DEF Rest, CleanerLabels, Dispatching, Destroying
<1>2. Dispatcher \in Cleaners /\ << >> \in Seq(Threads) /\ Len(<< >>) <= QueueLength
  BY QueueAssumption DEF Cleaners
<1>3. TypeOK
  BY <1>1, <1>2, SetsAssumption DEF Init, TypeOK, WorkerLabels
<1>4. AtRecord /\ AtThread
  BY <1>1, <1>2 DEF Init, AtRecord, AtThread
<1>5. QED
  BY <1>3, <1>4 DEF TypeInv

(* What a worker's step does.                                              *)
WorkerActs(th) == Initialize(th) \/ Settle(th) \/ ExitStep(th)
Before == {"created", "running", "settled"}
Leaving == {"marked", "ensured", "locked"}
Sent == {"sent", "queued", "suspended"}

LEMMA WorkerEffect ==
  ASSUME TypeInv, NEW th \in Threads, WorkerActs(th)
  PROVE  /\ UNCHANGED <<released, deleted, announcements, current, pc, claimed, doomed>>
         /\ at' \in [Threads -> WorkerLabels] /\ pending' \in [Threads -> BOOLEAN]
         /\ \A u \in Threads \ {th} : at'[u] = at[u] /\ pending'[u] = pending[u]
         /\ \/ at[th] \in Before /\ at'[th] \in Before /\ UNCHANGED <<pending, queue>>
            \/ at[th] = "settled" /\ at'[th] = "marked" /\ pending'[th] /\ UNCHANGED queue
            \/ at[th] \in Leaving /\ at'[th] \in Leaving /\ UNCHANGED <<pending, queue>>
            \/ /\ at[th] = "locked" /\ at'[th] = "sent" /\ UNCHANGED pending
               /\ queue' = Append(queue, th)
            \/ at[th] \in Sent /\ at'[th] \in Sent /\ UNCHANGED <<pending, queue>>
<1> USE DEF TypeInv, TypeOK, OtherThreadVars, cleanerVars, dispatcherVars, WorkerStep, Before,
            Leaving, Sent, WorkerLabels
<1>1. CASE Initialize(th)
  BY <1>1 DEF Initialize
<1>2. CASE Settle(th)
  BY <1>2 DEF Settle
<1>3. CASE SetPending(th)
  BY <1>3 DEF SetPending
<1>4. CASE Ensure(th)
  BY <1>4 DEF Ensure
<1>5. CASE Lock(th)
  BY <1>5 DEF Lock
<1>6. CASE Send(th)
  BY <1>6 DEF Send
<1>7. CASE Unlock(th)
  BY <1>7 DEF Unlock
<1>8. CASE Suspend(th)
  BY <1>8 DEF Suspend
<1>9. QED
  BY <1>1, <1>2, <1>3, <1>4, <1>5, <1>6, <1>7, <1>8 DEF WorkerActs, ExitStep

LEMMA WorkerType ==
  ASSUME TypeInv, NEW th \in Threads, WorkerActs(th)
  PROVE  TypeInv'
<1>1. available' \in BOOLEAN /\ reported' \in {"none", "available", "unavailable"}
  BY DEF WorkerActs, Initialize, Settle, ExitStep, SetPending, Ensure, Lock, Send, Unlock, Suspend,
         dispatcherVars, TypeInv, TypeOK
<1>2. mutex' \in Threads \cup {NoTask}
  BY DEF WorkerActs, Initialize, Settle, ExitStep, SetPending, Ensure, Lock, Send, Unlock, Suspend,
         TypeInv, TypeOK
<1>3. queue' \in Seq(Threads) /\ Len(queue') <= QueueLength
  <2>1. CASE Send(th)
    <3>1. queue \in Seq(Threads) /\ Len(queue) < QueueLength /\ queue' = Append(queue, th)
      BY <2>1 DEF Send, HasRoom, TypeInv, TypeOK
    <3>2. Len(queue') = Len(queue) + 1 /\ queue' \in Seq(Threads)
      BY <3>1
    <3>3. QED
      BY <3>1, <3>2, QueueAssumption
  <2>2. CASE ~Send(th)
    BY <2>2 DEF WorkerActs, Initialize, Settle, ExitStep, SetPending, Ensure, Lock, Unlock, Suspend,
                dispatcherVars, TypeInv, TypeOK
  <2>3. QED
    BY <2>1, <2>2
<1>4. QED
  BY <1>1, <1>2, <1>3, WorkerEffect DEF TypeInv, TypeOK, AtRecord, AtThread

-----------------------------------------------------------------------------
(* The dispatcher's steps with the record it has taken.                    *)
DispatchStep == Receive \/ KillWorker \/ Callback \/ CallbackShutdown \/ Clear

LEMMA DispatchType ==
  ASSUME TypeInv, DispatchStep
  PROVE  /\ TypeInv'
         /\ \A k \in Cleaners \ {Dispatcher} : pc'[k] = pc[k]
         /\ UNCHANGED <<claimed, doomed, deleted>>
<1>1. Dispatcher \in Cleaners
  BY DEF Cleaners
<1>2. UNCHANGED <<claimed, doomed, deleted, available, reported, mutex>>
  BY DEF DispatchStep, Receive, KillWorker, Callback, CallbackShutdown, Clear, dispatcherVars,
         threadVars, OtherThreadVars
<1>3. \E l \in CleanerLabels : pc' = [pc EXCEPT ![Dispatcher] = l] /\ l \notin Destroying
  BY DEF DispatchStep, Receive, KillWorker, Callback, CallbackShutdown, Clear, CleanerStep,
         CleanerLabels, Destroying
<1>4. /\ pc' \in [Cleaners -> CleanerLabels] /\ pc'[Dispatcher] \notin Destroying
      /\ \A k \in Cleaners \ {Dispatcher} : pc'[k] = pc[k]
  BY <1>1, <1>3 DEF TypeInv, TypeOK
<1>5. AtThread'
  BY <1>2, <1>4 DEF TypeInv, AtThread
<1>6. CASE Receive
  <2>1. /\ queue \in Seq(Threads) /\ queue # << >> /\ Len(queue) <= QueueLength
        /\ queue' = Tail(queue) /\ current' = Head(queue) /\ pc'[Dispatcher] = "kill"
        /\ UNCHANGED <<at, pending, released, announcements>>
    BY <1>1, <1>6 DEF Receive, CleanerStep, threadVars, TypeInv, TypeOK
  <2>2. /\ current' \in Threads /\ queue' \in Seq(Threads) /\ Len(queue') <= Len(queue)
        /\ Len(queue) \in Nat /\ Len(queue') \in Nat
    BY <2>1
  <2>3. Len(queue') <= QueueLength
    BY <2>1, <2>2, QueueAssumption
  <2>4. TypeOK'
    BY <1>2, <1>4, <2>1, <2>2, <2>3 DEF TypeInv, TypeOK
  <2>5. AtRecord'
    BY <2>1, <2>2 DEF AtRecord, Dispatching
  <2>6. QED
    BY <1>2, <1>4, <1>5, <2>4, <2>5 DEF TypeInv
<1>7. CASE KillWorker \/ Callback \/ CallbackShutdown
  <2>1. pc[Dispatcher] \in Dispatching /\ pc'[Dispatcher] \in Dispatching
        /\ UNCHANGED <<queue, current, pending>>
    BY <1>1, <1>7 DEF KillWorker, Callback, CallbackShutdown, CleanerStep, Dispatching,
                      dispatcherVars, threadVars, TypeInv, TypeOK
  <2>2. current \in Threads /\ AtRecord'
    BY <2>1 DEF TypeInv, AtRecord
  <2>3. at' \in [Threads -> WorkerLabels]
    BY <1>7 DEF KillWorker, Callback, CallbackShutdown, Killed, WorkerLabels, threadVars, TypeInv,
                TypeOK
  <2>4. released' \subseteq Threads /\ announcements' \in [Threads -> Nat]
    <3>1. CASE Callback
      BY <2>2, <3>1 DEF Callback, TypeInv, TypeOK
    <3>2. CASE KillWorker \/ CallbackShutdown
      BY <3>2 DEF KillWorker, CallbackShutdown, OtherThreadVars, threadVars, TypeInv, TypeOK
    <3>3. QED
      BY <1>7, <3>1, <3>2
  <2>5. TypeOK'
    BY <1>2, <1>4, <2>1, <2>3, <2>4 DEF TypeInv, TypeOK
  <2>6. QED
    BY <1>2, <1>4, <1>5, <2>2, <2>5 DEF TypeInv
<1>8. CASE Clear
  <2>1. /\ pc'[Dispatcher] = "begin" /\ current' = NoThread
        /\ pending' = [pending EXCEPT ![current] = FALSE]
        /\ UNCHANGED <<queue, at, released, announcements>>
    BY <1>1, <1>8 DEF Clear, CleanerStep, dispatcherVars, OtherThreadVars, TypeInv, TypeOK
  <2>2. TypeOK'
    BY <1>2, <1>4, <2>1 DEF TypeInv, TypeOK
  <2>3. AtRecord'
    BY <2>1 DEF AtRecord, Dispatching
  <2>4. QED
    BY <1>2, <1>4, <1>5, <2>2, <2>3 DEF TypeInv
<1>9. QED
  BY <1>6, <1>7, <1>8 DEF DispatchStep

(* The steps of a cleanup pass.                                            *)
LEMMA CleanUpEffect ==
  ASSUME TypeInv, NEW k \in Cleaners, BeginPass(k) \/ PassStep(k)
  PROVE  /\ UNCHANGED <<available, reported, mutex, queue, pending, released, announcements, current>>
         /\ pc[k] \notin Dispatching /\ pc'[k] \notin Dispatching
         /\ pc' \in [Cleaners -> CleanerLabels] /\ claimed' \in [Cleaners -> SUBSET Threads]
         /\ \A j \in Cleaners \ {k} : pc'[j] = pc[j] /\ claimed'[j] = claimed[j] /\ doomed'[j] = doomed[j]
         /\ \/ /\ claimed'[k] \subseteq claimed[k] \cup released /\ pc'[k] \notin Destroying
               /\ UNCHANGED <<at, deleted, doomed>>
            \/ /\ \E th \in claimed[k] :
                    /\ doomed' = [doomed EXCEPT ![k] = th]
                    /\ pc'[k] = IF pending[th] THEN "wait" ELSE "destroy"
               /\ claimed'[k] \subseteq claimed[k] /\ UNCHANGED <<at, deleted>>
            \/ /\ pc[k] = "wait" /\ pc'[k] = IF k = Dispatcher THEN "destroy" ELSE "poll"
               /\ UNCHANGED <<at, deleted, doomed, claimed>>
            \/ /\ pc[k] = "poll" /\ pc'[k] = "destroy" /\ ~pending[doomed[k]]
               /\ UNCHANGED <<at, deleted, doomed, claimed>>
            \/ /\ pc[k] = "destroy" /\ pc'[k] = "delete"
               /\ at' = [at EXCEPT ![doomed[k]] = "killed"] /\ deleted' = deleted \cup {doomed[k]}
               /\ doomed' = [doomed EXCEPT ![k] = NoThread] /\ UNCHANGED claimed
<1> USE DEF TypeInv, TypeOK, CleanerStep, dispatcherVars, threadVars, Dispatching, Destroying,
            CleanerLabels
<1>0. Reclaimable \subseteq Threads /\ Reclaimable \subseteq released
  BY DEF Reclaimable
<1>1. CASE BeginPass(k)
  BY <1>0, <1>1 DEF BeginPass
<1>2. CASE Claim(k)
  <2>1. PICK S \in SUBSET Reclaimable : claimed' = [claimed EXCEPT ![k] = @ \cup S]
    BY <1>2 DEF Claim
  <2>2. claimed' \in [Cleaners -> SUBSET Threads] /\ claimed'[k] = claimed[k] \cup S
        /\ \A j \in Cleaners \ {k} : claimed'[j] = claimed[j]
    BY <1>0, <2>1
  <2>3. QED
    BY <1>0, <1>2, <2>1, <2>2 DEF Claim
<1>3. CASE BeginDelete(k)
  <2>1. PICK th \in claimed[k] :
          /\ doomed' = [doomed EXCEPT ![k] = th]
          /\ claimed' = [claimed EXCEPT ![k] = @ \ {th}]
          /\ CleanerStep(k, "delete", IF pending[th] THEN "wait" ELSE "destroy")
    BY <1>3 DEF BeginDelete
  <2>2. /\ pc[k] = "delete" /\ pc'[k] = IF pending[th] THEN "wait" ELSE "destroy"
        /\ pc' \in [Cleaners -> CleanerLabels] /\ \A j \in Cleaners \ {k} : pc'[j] = pc[j]
    BY <2>1
  <2>3. /\ claimed' \in [Cleaners -> SUBSET Threads] /\ claimed'[k] \subseteq claimed[k]
        /\ \A j \in Cleaners \ {k} : claimed'[j] = claimed[j] /\ doomed'[j] = doomed[j]
    BY <2>1
  <2>4. QED
    BY <1>3, <2>1, <2>2, <2>3 DEF BeginDelete
<1>4. CASE AskTask(k)
  BY <1>4 DEF AskTask
<1>5. CASE Poll(k)
  BY <1>5 DEF Poll, DispatchOver
<1>6. CASE DestroyThread(k)
  BY <1>6 DEF DestroyThread, Killed
<1>7. CASE EndPass(k)
  BY <1>7 DEF EndPass, Rest
<1>8. QED
  BY <1>1, <1>2, <1>3, <1>4, <1>5, <1>6, <1>7 DEF PassStep

LEMMA CleanUpType ==
  ASSUME TypeInv, NEW k \in Cleaners, BeginPass(k) \/ PassStep(k)
  PROVE  TypeInv'
<1>1. doomed' \in [Cleaners -> Threads \cup {NoThread}] /\ (pc'[k] \in Destroying => doomed'[k] \in Threads)
  BY CleanUpEffect DEF TypeInv, TypeOK, AtThread, Destroying
<1>2. at' \in [Threads -> WorkerLabels] /\ deleted' \subseteq Threads
  <2>1. pc[k] = "destroy" => doomed[k] \in Threads
    BY DEF TypeInv, AtThread, Destroying
  <2>2. CASE UNCHANGED <<at, deleted>>
    BY <2>2 DEF TypeInv, TypeOK
  <2>3. CASE /\ pc[k] = "destroy" /\ at' = [at EXCEPT ![doomed[k]] = "killed"]
             /\ deleted' = deleted \cup {doomed[k]}
    BY <2>1, <2>3 DEF TypeInv, TypeOK, WorkerLabels
  <2>4. QED
    BY <2>2, <2>3, CleanUpEffect
<1>3. TypeOK'
  BY <1>1, <1>2, CleanUpEffect DEF TypeInv, TypeOK
<1>4. AtRecord'
  BY CleanUpEffect DEF TypeInv, AtRecord, Cleaners
<1>5. AtThread'
  BY <1>1, CleanUpEffect DEF TypeInv, AtThread
<1>6. QED
  BY <1>3, <1>4, <1>5 DEF TypeInv

(* Every step is a worker's, one with a record or one of a pass.           *)
LEMMA StepCases ==
  ASSUME Next
  PROVE  \/ \E th \in Threads : WorkerActs(th)
         \/ DispatchStep
         \/ \E k \in Cleaners : BeginPass(k) \/ PassStep(k)
  BY DEF Next, WorkerActs, DispatcherStep, DispatchStep, Cleaners

LEMMA TypeStep == TypeInv /\ [Next]_vars => TypeInv'
<1>1. CASE UNCHANGED vars
  BY <1>1 DEF vars, dispatcherVars, threadVars, cleanerVars, TypeInv, TypeOK, AtRecord, AtThread
<1>2. QED
  BY <1>1, StepCases, WorkerType, DispatchType, CleanUpType

(* The queue never holds more records than it has room for, and every      *)
(* field keeps its type.                                                   *)
THEOREM TypeCorrect == Spec => []TypeOK
<1>1. TypeInv => TypeOK
  BY DEF TypeInv
<1>2. QED
  BY <1>1, InitType, TypeStep, PTL DEF Spec

-----------------------------------------------------------------------------
(* The way of a record.  A worker on its way to send it is pending; once   *)
(* sent it is in the queue, once, until the dispatcher takes it, and the   *)
(* worker of an announced Thread is gone for good.  A Thread destroyed     *)
(* before that loses its worker and nothing else.                          *)
RecordsOnce == IsInjective(queue)
OnTheWay == \A th \in Threads : at[th] \in Leaving => pending[th]
SentIsRecorded ==
  \A th \in Threads : at[th] \in Sent => Contains(queue, th) \/ th = current
QueuedIsSent ==
  \A th \in Threads : Contains(queue, th) =>
    /\ at[th] \in Sent \/ th \in deleted
    /\ pending[th] /\ th # current /\ th \notin announced
TakenIsPending ==
  current # NoThread =>
    /\ pending[current]
    /\ IF pc[Dispatcher] = "kill" THEN at[current] \in Sent \/ current \in deleted
                                  ELSE at[current] = "killed"
    /\ current \in announced <=> pc[Dispatcher] \in {"shutdown", "clear"}
KilledIsOver ==
  \A th \in Threads : at[th] = "killed" <=>
    \/ th \in announced \cup deleted
    \/ th = current /\ pc[Dispatcher] \in Dispatching \ {"kill"}
WhoWaits == \A th \in Threads \ deleted : pending[th] =>
  at[th] \in Leaving \/ Contains(queue, th) \/ th = current

(* Only Threads that were announced, or released before that, are claimed  *)
(* and destroyed; of the announced ones the last step of a pass is taken   *)
(* when no dispatch is pending any more.                                   *)
Reclaims == announced \cup ReleasedAtFirst
ReleasedIsAnnounced == released \subseteq Reclaims
ClaimedIsAnnounced ==
  \A k \in Cleaners : claimed[k] \subseteq Reclaims /\ doomed[k] \in Reclaims \cup {NoThread}
DeletedIsOver == \A th \in deleted \ ReleasedAtFirst : th \in announced /\ ~pending[th]
DestroyedIsOver ==
  \A k \in Cleaners : pc[k] = "destroy" /\ doomed[k] \notin ReleasedAtFirst => ~pending[doomed[k]]

RecordInv ==
  /\ TypeInv /\ RecordsOnce /\ OnTheWay /\ SentIsRecorded /\ QueuedIsSent
  /\ TakenIsPending /\ KilledIsOver /\ WhoWaits
ExitInv ==
  /\ RecordInv /\ ReleasedIsAnnounced /\ ClaimedIsAnnounced /\ DeletedIsOver
  /\ DestroyedIsOver

LEMMA InitExit == Init => ExitInv
<1> SUFFICES ASSUME Init PROVE ExitInv
  OBVIOUS
<1>1. \A th : ~Contains(queue, th)
  BY DEF Init, Contains
<1>2. RecordsOnce
  BY DEF Init, RecordsOnce, IsInjective
<1>3. \A k \in Cleaners : pc[k] \in {"receive", "idle"}
  BY DEF Init, Rest
<1>4. announced = {}
  BY DEF Init, announced
<1>5. RecordInv
  BY <1>1, <1>2, <1>4, InitType, ThreadsAssumption
     DEF Init, RecordInv, OnTheWay, SentIsRecorded, QueuedIsSent, TakenIsPending,
         KilledIsOver, WhoWaits, Leaving, Sent
<1>6. QED
  BY <1>3, <1>4, <1>5
     DEF Init, ExitInv, Reclaims, ReleasedIsAnnounced, ClaimedIsAnnounced, DeletedIsOver,
         DestroyedIsOver

LEMMA WorkerRecords ==
  ASSUME ExitInv, NEW th \in Threads, WorkerActs(th)
  PROVE  ExitInv'
<1> USE DEF ExitInv, RecordInv
<1>1. /\ UNCHANGED <<released, deleted, announced, current, pc, claimed, doomed>>
      /\ \A u \in Threads \ {th} : at'[u] = at[u] /\ pending'[u] = pending[u]
      /\ at \in [Threads -> WorkerLabels] /\ queue \in Seq(Threads)
  BY WorkerEffect DEF TypeInv, TypeOK, announced
<1>2. /\ at[th] # "killed" /\ at'[th] # "killed" /\ th \notin announced \cup deleted
      /\ th = current => pc[Dispatcher] = "kill"
  <2>1. at[th] # "killed" /\ at'[th] # "killed"
    BY WorkerEffect DEF Before, Leaving, Sent
  <2>2. QED
    BY <2>1, ThreadsAssumption DEF KilledIsOver, TakenIsPending
<1>3. TypeInv'
  BY WorkerType
<1>4. /\ ReleasedIsAnnounced' /\ ClaimedIsAnnounced' /\ KilledIsOver'
  BY <1>1, <1>2 DEF Reclaims, ReleasedIsAnnounced, ClaimedIsAnnounced, KilledIsOver
<1>5. DeletedIsOver' /\ DestroyedIsOver'
  <2>1. \A u \in announced : u \in Threads /\ pending'[u] = pending[u]
    BY <1>1, <1>2 DEF announced
  <2>2. \A k \in Cleaners : pc[k] = "destroy" => doomed[k] \in Reclaims
    BY ThreadsAssumption, SetsAssumption
       DEF ClaimedIsAnnounced, Reclaims, announced, TypeInv, AtThread, Destroying
  <2>3. QED
    BY <1>1, <2>1, <2>2 DEF Reclaims, DeletedIsOver, DestroyedIsOver
<1>6. CASE at[th] \in Before /\ at'[th] \in Before \cup {"marked"} /\ UNCHANGED queue
           /\ (at'[th] \in Before => UNCHANGED pending) /\ (at'[th] = "marked" => pending'[th])
  <2>1. ~Contains(queue, th) /\ th # current
    BY <1>2, <1>6, ThreadsAssumption DEF QueuedIsSent, TakenIsPending, Before, Sent, TypeInv, AtRecord
  <2>2. RecordsOnce' /\ OnTheWay' /\ SentIsRecorded'
    BY <1>1, <1>6 DEF RecordsOnce, OnTheWay, SentIsRecorded, Before, Leaving, Sent
  <2>3. QueuedIsSent' /\ TakenIsPending' /\ WhoWaits'
    BY <1>1, <1>6, <2>1
       DEF QueuedIsSent, TakenIsPending, WhoWaits, Before, Leaving, Sent, TypeInv, AtRecord
  <2>4. QED
    BY <1>3, <1>4, <1>5, <2>2, <2>3
<1>7. CASE at[th] \in Leaving /\ at'[th] \in Leaving /\ UNCHANGED <<pending, queue>>
  <2>1. ~Contains(queue, th) /\ th # current
    BY <1>2, <1>7, ThreadsAssumption DEF QueuedIsSent, TakenIsPending, Leaving, Sent, TypeInv, AtRecord
  <2>2. RecordsOnce' /\ OnTheWay' /\ SentIsRecorded'
    BY <1>1, <1>7 DEF RecordsOnce, OnTheWay, SentIsRecorded, Leaving, Sent
  <2>3. QueuedIsSent' /\ TakenIsPending' /\ WhoWaits'
    BY <1>1, <1>7, <2>1
       DEF QueuedIsSent, TakenIsPending, WhoWaits, Leaving, Sent, TypeInv, AtRecord
  <2>4. QED
    BY <1>3, <1>4, <1>5, <2>2, <2>3
<1>8. CASE /\ at[th] = "locked" /\ at'[th] = "sent" /\ UNCHANGED pending
           /\ queue' = Append(queue, th)
  <2>1. ~Contains(queue, th) /\ th # current /\ pending[th]
    BY <1>2, <1>8, ThreadsAssumption DEF QueuedIsSent, TakenIsPending, OnTheWay, Leaving, Sent, TypeInv, AtRecord
  <2>2. \A u : Contains(queue', u) <=> Contains(queue, u) \/ u = th
    BY <1>1, <1>8, Added
  <2>3. RecordsOnce'
    BY <1>1, <1>8, <2>1, Added DEF RecordsOnce
  <2>4. OnTheWay' /\ SentIsRecorded'
    BY <1>1, <1>8, <2>2 DEF OnTheWay, SentIsRecorded, Leaving, Sent
  <2>5. QueuedIsSent'
    BY <1>1, <1>2, <1>8, <2>1, <2>2 DEF QueuedIsSent, Sent
  <2>6. TakenIsPending' /\ WhoWaits'
    BY <1>1, <1>8, <2>1, <2>2 DEF TakenIsPending, WhoWaits, Leaving, Sent, TypeInv, AtRecord
  <2>7. QED
    BY <1>3, <1>4, <1>5, <2>3, <2>4, <2>5, <2>6
<1>9. CASE at[th] \in Sent /\ at'[th] \in Sent /\ UNCHANGED <<pending, queue>>
  <2>1. RecordsOnce' /\ OnTheWay' /\ SentIsRecorded'
    BY <1>1, <1>9 DEF RecordsOnce, OnTheWay, SentIsRecorded, Leaving, Sent
  <2>2. QueuedIsSent' /\ TakenIsPending' /\ WhoWaits'
    BY <1>1, <1>9
       DEF QueuedIsSent, TakenIsPending, WhoWaits, Leaving, Sent, TypeInv, AtRecord
  <2>3. QED
    BY <1>3, <1>4, <1>5, <2>1, <2>2
<1>10. QED
  BY <1>6, <1>7, <1>8, <1>9, WorkerEffect DEF Before

(* OnTerminated invoked once more.                                         *)
LEMMA AnnouncedOneMore ==
  ASSUME announcements \in [Threads -> Nat], NEW th \in Threads,
         announcements' = [announcements EXCEPT ![th] = @ + 1]
  PROVE  announced' = announced \cup {th}
<1>1. announcements[th] + 1 > 0 /\ announcements'[th] = announcements[th] + 1
  OBVIOUS
<1>2. \A u \in Threads \ {th} : announcements'[u] = announcements[u]
  OBVIOUS
<1>3. QED
  BY <1>1, <1>2 DEF announced

LEMMA DispatchRecords ==
  ASSUME ExitInv, DispatchStep
  PROVE  ExitInv'
<1> USE DEF ExitInv, RecordInv
<1>0. /\ Dispatcher \in Cleaners /\ pc \in [Cleaners -> CleanerLabels]
      /\ at \in [Threads -> WorkerLabels] /\ pending \in [Threads -> BOOLEAN]
      /\ queue \in Seq(Threads) /\ announced \subseteq Threads
  BY DEF Cleaners, TypeInv, TypeOK, announced
<1>1. /\ TypeInv' /\ UNCHANGED <<claimed, doomed, deleted>>
      /\ \A k \in Cleaners \ {Dispatcher} : pc'[k] = pc[k]
  BY DispatchType
<1>2. pc'[Dispatcher] # "destroy" /\ announced \subseteq announced'
  <2>1. pc'[Dispatcher] # "destroy"
    BY <1>0 DEF DispatchStep, Receive, KillWorker, Callback, CallbackShutdown, Clear, CleanerStep
  <2>2. \A th \in Threads : announcements[th] > 0 => announcements'[th] > 0
    <3>1. CASE Callback
      <4>1. announcements' = [announcements EXCEPT ![current] = @ + 1]
        BY <3>1 DEF Callback
      <4>2. \A th \in Threads : announcements[th] \in Nat
        BY DEF TypeInv, TypeOK
      <4>3. QED
        BY <4>1, <4>2 DEF TypeInv, TypeOK
    <3>2. CASE ~Callback
      BY <3>2 DEF DispatchStep, Receive, KillWorker, CallbackShutdown, Clear, threadVars,
                  OtherThreadVars
    <3>3. QED
      BY <3>1, <3>2
  <2>3. QED
    BY <2>1, <2>2 DEF announced
<1>3. ClaimedIsAnnounced'
  BY <1>1, <1>2 DEF ClaimedIsAnnounced, Reclaims
<1>4. \A th \in Threads : pending'[th] => pending[th]
  BY <1>0 DEF DispatchStep, Receive, KillWorker, Callback, CallbackShutdown, Clear, threadVars
<1>5. DeletedIsOver' /\ DestroyedIsOver'
  <2>1. \A k \in Cleaners : pc[k] = "destroy" => doomed[k] \in Threads
    BY DEF TypeInv, AtThread, Destroying
  <2>2. QED
    BY <1>0, <1>1, <1>2, <1>4, <2>1 DEF DeletedIsOver, DestroyedIsOver
<1>6. CASE Receive
  <2>1. /\ queue # << >> /\ current' = Head(queue) /\ queue' = Tail(queue)
        /\ pc[Dispatcher] = "receive" /\ pc'[Dispatcher] = "kill"
        /\ UNCHANGED <<at, pending, released, announced>>
    BY <1>0, <1>6 DEF Receive, CleanerStep, threadVars, announced
  <2>2. /\ current' \in Threads /\ Contains(queue, current') /\ IsInjective(queue')
        /\ \A th : Contains(queue', th) <=> Contains(queue, th) /\ th # current'
    BY <1>0, <2>1, Taken DEF RecordsOnce
  <2>3. current = NoThread
    BY <2>1 DEF TypeInv, AtRecord, Dispatching
  <2>4. RecordsOnce' /\ OnTheWay' /\ ReleasedIsAnnounced'
    BY <2>1, <2>2 DEF RecordsOnce, OnTheWay, ReleasedIsAnnounced, Reclaims
  <2>5. SentIsRecorded' /\ WhoWaits' /\ QueuedIsSent'
    BY <1>1, <2>1, <2>2, <2>3, ThreadsAssumption DEF SentIsRecorded, WhoWaits, QueuedIsSent
  <2>6. TakenIsPending'
    BY <1>1, <2>1, <2>2 DEF TakenIsPending, QueuedIsSent
  <2>7. KilledIsOver'
    BY <1>1, <2>1, <2>3, ThreadsAssumption DEF KilledIsOver, Dispatching
  <2>8. QED
    BY <1>1, <1>3, <1>5, <2>4, <2>5, <2>6, <2>7
<1>7. CASE KillWorker
  <2>1. /\ at' = [at EXCEPT ![current] = "killed"] /\ current' = current
        /\ pc[Dispatcher] = "kill" /\ pc'[Dispatcher] = "callback"
        /\ UNCHANGED <<queue, pending, released, announced>>
    BY <1>0, <1>7 DEF KillWorker, Killed, CleanerStep, dispatcherVars, OtherThreadVars, announced
  <2>2. /\ current \in Threads /\ pending[current] /\ current \notin announced
        /\ ~Contains(queue, current) /\ current # NoThread
    BY <2>1, ThreadsAssumption DEF TypeInv, AtRecord, Dispatching, TakenIsPending, QueuedIsSent
  <2>3. at'[current] = "killed" /\ \A th \in Threads : th # current => at'[th] = at[th]
    BY <1>0, <2>1, <2>2
  <2>4. RecordsOnce' /\ OnTheWay' /\ ReleasedIsAnnounced'
    BY <2>1, <2>3 DEF RecordsOnce, OnTheWay, ReleasedIsAnnounced, Reclaims, Leaving
  <2>5. SentIsRecorded' /\ WhoWaits' /\ QueuedIsSent'
    BY <1>1, <2>1, <2>2, <2>3 DEF SentIsRecorded, WhoWaits, QueuedIsSent, Sent
  <2>6. TakenIsPending'
    BY <1>1, <2>1, <2>2, <2>3 DEF TakenIsPending
  <2>7. KilledIsOver'
    BY <1>1, <2>1, <2>2, <2>3 DEF KilledIsOver, Dispatching
  <2>8. QED
    BY <1>1, <1>3, <1>5, <2>4, <2>5, <2>6, <2>7
<1>8. CASE Callback
  <2>1. /\ announced' = announced \cup {current} /\ current' = current
        /\ pc[Dispatcher] = "callback" /\ pc'[Dispatcher] \in {"shutdown", "clear"}
        /\ released' \subseteq released \cup {current}
        /\ UNCHANGED <<queue, at, pending>>
    <3>1. /\ announcements' = [announcements EXCEPT ![current] = @ + 1] /\ current' = current
          /\ pc[Dispatcher] = "callback" /\ pc'[Dispatcher] \in {"shutdown", "clear"}
          /\ released' \subseteq released \cup {current}
          /\ UNCHANGED <<queue, at, pending>>
      BY <1>0, <1>8 DEF Callback, CleanerStep, dispatcherVars
    <3>2. current \in Threads
      BY <3>1 DEF TypeInv, AtRecord, Dispatching
    <3>3. QED
      BY <3>1, <3>2, AnnouncedOneMore DEF TypeInv, TypeOK
  <2>2. /\ current \in Threads /\ pending[current] /\ at[current] = "killed"
        /\ ~Contains(queue, current) /\ current # NoThread
    BY <2>1, ThreadsAssumption DEF TypeInv, AtRecord, Dispatching, TakenIsPending, QueuedIsSent
  <2>3. RecordsOnce' /\ OnTheWay' /\ ReleasedIsAnnounced' /\ SentIsRecorded' /\ WhoWaits'
    BY <1>1, <2>1 DEF RecordsOnce, OnTheWay, ReleasedIsAnnounced, Reclaims, SentIsRecorded, WhoWaits
  <2>4. QueuedIsSent' /\ TakenIsPending'
    BY <1>1, <2>1, <2>2 DEF QueuedIsSent, TakenIsPending
  <2>5. KilledIsOver'
    BY <1>1, <2>1, <2>2 DEF KilledIsOver, Dispatching
  <2>6. QED
    BY <1>1, <1>3, <1>5, <2>3, <2>4, <2>5
<1>9. CASE CallbackShutdown
  <2>1. /\ pc[Dispatcher] = "shutdown" /\ pc'[Dispatcher] = "clear"
        /\ UNCHANGED <<queue, at, pending, released, announced, current>>
    BY <1>0, <1>9 DEF CallbackShutdown, CleanerStep, dispatcherVars, threadVars, announced
  <2>2. RecordsOnce' /\ OnTheWay' /\ ReleasedIsAnnounced' /\ SentIsRecorded' /\ WhoWaits'
    BY <1>1, <2>1 DEF RecordsOnce, OnTheWay, ReleasedIsAnnounced, Reclaims, SentIsRecorded, WhoWaits
  <2>3. QueuedIsSent' /\ TakenIsPending' /\ KilledIsOver'
    BY <1>1, <2>1 DEF QueuedIsSent, TakenIsPending, KilledIsOver, Dispatching
  <2>4. QED
    BY <1>1, <1>3, <1>5, <2>2, <2>3
<1>10. CASE Clear
  <2>1. /\ pc[Dispatcher] = "clear" /\ pc'[Dispatcher] = "begin" /\ current' = NoThread
        /\ pending' = [pending EXCEPT ![current] = FALSE]
        /\ UNCHANGED <<queue, at, released, announced>>
    BY <1>0, <1>10 DEF Clear, CleanerStep, dispatcherVars, OtherThreadVars, announced
  <2>2. /\ current \in Threads /\ current \in announced /\ at[current] = "killed"
        /\ ~Contains(queue, current) /\ current # NoThread
    BY <2>1, ThreadsAssumption DEF TypeInv, AtRecord, Dispatching, TakenIsPending, QueuedIsSent
  <2>3. ~pending'[current] /\ \A th \in Threads : th # current => pending'[th] = pending[th]
    BY <1>0, <2>1, <2>2
  <2>4. RecordsOnce' /\ OnTheWay' /\ ReleasedIsAnnounced'
    BY <2>1, <2>2, <2>3 DEF RecordsOnce, OnTheWay, ReleasedIsAnnounced, Reclaims, Leaving
  <2>5. SentIsRecorded' /\ WhoWaits' /\ QueuedIsSent'
    BY <1>1, <2>1, <2>2, <2>3, ThreadsAssumption DEF SentIsRecorded, WhoWaits, QueuedIsSent, Sent
  <2>6. TakenIsPending' /\ KilledIsOver'
    BY <1>1, <2>1, <2>2, ThreadsAssumption DEF TakenIsPending, KilledIsOver, Dispatching
  <2>7. QED
    BY <1>1, <1>3, <1>5, <2>4, <2>5, <2>6
<1>11. QED
  BY <1>6, <1>7, <1>8, <1>9, <1>10 DEF DispatchStep

(* An announced Thread has no dispatch pending but the one under way.      *)
LEMMA PendingIsCurrent ==
  ASSUME ExitInv, NEW th \in announced \ ReleasedAtFirst, pending[th]
  PROVE  th = current
<1>1. th \in Threads \ deleted /\ at[th] = "killed" /\ ~Contains(queue, th)
  BY DEF ExitInv, RecordInv, announced, KilledIsOver, QueuedIsSent, DeletedIsOver
<1>2. QED
  BY <1>1 DEF ExitInv, RecordInv, WhoWaits, Leaving

LEMMA CleanUpRecords ==
  ASSUME ExitInv, NEW k \in Cleaners, BeginPass(k) \/ PassStep(k)
  PROVE  ExitInv'
<1> USE DEF ExitInv, RecordInv
<1>1. TypeInv'
  BY CleanUpType
<1>2. /\ UNCHANGED <<queue, pending, released, announced, current>>
      /\ pc[k] \notin Dispatching /\ pc'[k] \notin Dispatching
      /\ \A j \in Cleaners \ {k} : pc'[j] = pc[j] /\ claimed'[j] = claimed[j] /\ doomed'[j] = doomed[j]
  BY CleanUpEffect DEF announced
<1>3. Dispatcher \in Cleaners /\ at \in [Threads -> WorkerLabels] /\ doomed \in [Cleaners -> Threads \cup {NoThread}]
      /\ claimed \in [Cleaners -> SUBSET Threads]
  BY DEF Cleaners, TypeInv, TypeOK
<1>4. k = Dispatcher => current = NoThread
  BY <1>2 DEF TypeInv, AtRecord
<1>5. UNCHANGED <<at, deleted>>
      \/ \E th \in Threads : at' = [at EXCEPT ![th] = "killed"] /\ deleted' = deleted \cup {th}
  BY CleanUpEffect DEF TypeInv, AtThread, Destroying
<1>6. RecordInv'
  <2>1. \/ pc[Dispatcher] = pc'[Dispatcher]
        \/ /\ pc[Dispatcher] \notin Dispatching /\ pc'[Dispatcher] \notin Dispatching
           /\ current = NoThread
    BY <1>2, <1>3, <1>4
  <2>2. \A th \in Threads :
          \/ at'[th] = at[th] /\ (th \in deleted' <=> th \in deleted)
          \/ at'[th] = "killed" /\ th \in deleted'
    BY <1>3, <1>5
  <2>3. deleted \subseteq deleted'
    BY <1>5
  <2>4. RecordsOnce' /\ OnTheWay' /\ SentIsRecorded'
    BY <1>2, <2>2 DEF RecordsOnce, OnTheWay, SentIsRecorded, Leaving, Sent
  <2>5. QueuedIsSent' /\ WhoWaits'
    BY <1>2, <2>2, <2>3 DEF QueuedIsSent, WhoWaits
  <2>6. TakenIsPending'
    <3>1. CASE current = NoThread
      BY <1>2, <3>1 DEF TakenIsPending
    <3>2. CASE current # NoThread
      <4>1. current \in Threads /\ pc[Dispatcher] = pc'[Dispatcher]
        BY <2>1, <3>2 DEF TypeInv, AtRecord
      <4>2. QED
        BY <1>2, <2>2, <2>3, <3>2, <4>1 DEF TakenIsPending
    <3>3. QED
      BY <3>1, <3>2
  <2>7. KilledIsOver'
    BY <1>2, <2>1, <2>2, ThreadsAssumption DEF KilledIsOver
  <2>8. QED
    BY <1>1, <2>4, <2>5, <2>6, <2>7
<1>7. ReleasedIsAnnounced'
  BY <1>2 DEF ReleasedIsAnnounced, Reclaims
<1>8. ClaimedIsAnnounced' /\ DeletedIsOver' /\ DestroyedIsOver'
  <2> USE DEF Reclaims
  <2>1. CASE /\ claimed'[k] \subseteq claimed[k] \cup released /\ pc'[k] \notin Destroying
             /\ UNCHANGED <<at, deleted, doomed>>
    BY <1>2, <2>1
       DEF ReleasedIsAnnounced, ClaimedIsAnnounced, DeletedIsOver, DestroyedIsOver, Destroying
  <2>2. ASSUME NEW th \in claimed[k], doomed' = [doomed EXCEPT ![k] = th],
               pc'[k] = IF pending[th] THEN "wait" ELSE "destroy",
               claimed'[k] \subseteq claimed[k], UNCHANGED <<at, deleted>>
        PROVE  ClaimedIsAnnounced' /\ DeletedIsOver' /\ DestroyedIsOver'
    BY <1>2, <1>3, <2>2 DEF ClaimedIsAnnounced, DeletedIsOver, DestroyedIsOver
  <2>3. CASE /\ pc[k] = "wait" /\ pc'[k] = IF k = Dispatcher THEN "destroy" ELSE "poll"
             /\ UNCHANGED <<at, deleted, doomed, claimed>>
    <3>1. doomed[k] \in Threads /\ doomed[k] \in Reclaims
      BY <2>3, ThreadsAssumption DEF TypeInv, AtThread, Destroying, ClaimedIsAnnounced
    <3>2. k = Dispatcher /\ doomed[k] \notin ReleasedAtFirst => ~pending[doomed[k]]
      BY <1>4, <3>1, PendingIsCurrent, ThreadsAssumption
    <3>3. QED
      BY <1>2, <2>3, <3>2 DEF ClaimedIsAnnounced, DeletedIsOver, DestroyedIsOver
  <2>4. CASE /\ pc[k] = "poll" /\ pc'[k] = "destroy" /\ ~pending[doomed[k]]
             /\ UNCHANGED <<at, deleted, doomed, claimed>>
    BY <1>2, <2>4 DEF ClaimedIsAnnounced, DeletedIsOver, DestroyedIsOver
  <2>5. CASE /\ pc[k] = "destroy" /\ pc'[k] = "delete"
             /\ deleted' = deleted \cup {doomed[k]}
             /\ doomed' = [doomed EXCEPT ![k] = NoThread] /\ UNCHANGED claimed
    <3>1. doomed[k] \in Threads /\ doomed[k] \in Reclaims
      BY <2>5, ThreadsAssumption DEF TypeInv, AtThread, Destroying, ClaimedIsAnnounced
    <3>2. ClaimedIsAnnounced'
      BY <1>2, <1>3, <2>5 DEF ClaimedIsAnnounced
    <3>3. DeletedIsOver' /\ DestroyedIsOver'
      BY <1>2, <1>3, <2>5, <3>1 DEF DeletedIsOver, DestroyedIsOver
    <3>4. QED
      BY <3>2, <3>3
  <2>6. QED
    BY <2>1, <2>2, <2>3, <2>4, <2>5, CleanUpEffect
<1>9. QED
  BY <1>6, <1>7, <1>8

LEMMA ExitStepInv == ExitInv /\ [Next]_vars => ExitInv'
<1>1. CASE UNCHANGED vars
  BY <1>1
     DEF vars, dispatcherVars, threadVars, cleanerVars, ExitInv, RecordInv, TypeInv, TypeOK,
         AtRecord, AtThread, RecordsOnce, OnTheWay, SentIsRecorded, QueuedIsSent, TakenIsPending,
         KilledIsOver, WhoWaits, Reclaims, announced, ReleasedIsAnnounced, ClaimedIsAnnounced,
         DeletedIsOver, DestroyedIsOver
<1>2. QED
  BY <1>1, StepCases, WorkerRecords, DispatchRecords, CleanUpRecords

(* The invariant of the records holds whichever Threads are released       *)
(* before their exit, whatever the callbacks and the collectors do.        *)
THEOREM ExitInvariance == Spec => []ExitInv
  BY InitExit, ExitStepInv, PTL DEF Spec

(* A Thread that nobody releases before its OnTerminated is destroyed only *)
(* when no record, queued or being dispatched, points at it, even while    *)
(* the dispatcher's passes reclaim other Threads whose exit they did not   *)
(* await.                                                                  *)
THEOREM NoRecordDangles == Spec => []NoDanglingRecord
<1>1. ExitInv => NoDanglingRecord
  <2> SUFFICES ASSUME ExitInv, NEW th \in KeptAtFirst \cap deleted
               PROVE  th # current /\ ~Contains(queue, th)
    BY DEF NoDanglingRecord, NoRecordOfDestroyed
  <2>1. th \in Threads /\ th \in announced /\ ~pending[th]
    BY DEF ExitInv, DeletedIsOver, KeptAtFirst
  <2>2. QED
    BY <2>1, ThreadsAssumption DEF ExitInv, RecordInv, TakenIsPending, QueuedIsSent
<1>2. QED
  BY <1>1, ExitInvariance, PTL

(* Whoever waits for a pending dispatch of a Thread that exists waits for  *)
(* a worker that will send its record, or for a record that the dispatcher *)
(* has or will receive: also if Threads are released from the beginning.   *)
THEOREM WaitersAreServed == Spec => []NoStrandedWaiter
<1>1. ExitInv => NoStrandedWaiter
  BY DEF ExitInv, RecordInv, WhoWaits, Leaving, NoStrandedWaiter
<1>2. QED
  BY <1>1, ExitInvariance, PTL

(* A Thread that nobody releases before its OnTerminated is not destroyed  *)
(* under a worker that still runs.                                         *)
THEOREM WorkersStopFirst == Spec => DestroyedOnlyStopped
<1>1. ASSUME ExitInv, [Next]_vars, NEW th \in KeptAtFirst \cap (deleted' \ deleted)
      PROVE  at[th] \in {"suspended", "killed"}
  <2>1. th \in announced /\ th \in Threads
    <3>1. CASE UNCHANGED vars
      BY <1>1, <3>1 DEF vars, threadVars
    <3>2. ASSUME NEW w \in Threads, WorkerActs(w)
          PROVE  deleted' = deleted
      BY <1>1, <3>2, WorkerEffect DEF ExitInv, RecordInv
    <3>3. CASE DispatchStep
      BY <1>1, <3>3, DispatchType DEF ExitInv, RecordInv
    <3>4. ASSUME NEW k \in Cleaners, BeginPass(k) \/ PassStep(k)
          PROVE  th \in announced /\ th \in Threads
      <4>1. TypeInv
        BY <1>1 DEF ExitInv, RecordInv
      <4>2. pc[k] = "destroy" /\ th = doomed[k]
        BY <1>1, <3>4, <4>1, CleanUpEffect
      <4>3. QED
        BY <1>1, <4>1, <4>2, ThreadsAssumption
           DEF ExitInv, ClaimedIsAnnounced, Reclaims, KeptAtFirst, TypeInv, AtThread, Destroying
    <3>5. QED
      BY <1>1, <3>1, <3>2, <3>3, <3>4, StepCases
  <2>2. QED
    BY <1>1, <2>1 DEF ExitInv, RecordInv, KilledIsOver
<1>2. ExitInv /\ [Next]_vars => [StoppedWhenDestroyed(KeptAtFirst)]_vars
  BY <1>1 DEF StoppedWhenDestroyed
<1>3. QED
  BY <1>2, ExitInvariance, PTL DEF Spec, DestroyedOnlyStopped

-----------------------------------------------------------------------------
(* Each step of the dispatcher and its Threads moves one Thread one stage  *)
(* on, or none.                                                            *)
LEMMA StageIs ==
  ASSUME ExitInv, NEW th \in KeptAtFirst
  PROVE  /\ th \in deleted => stage[th] = "reclaimed"
         /\ th \in announced /\ th \notin deleted /\ th = current => stage[th] = "announced"
         /\ th \in announced /\ th \notin deleted /\ th # current => stage[th] = "over"
         /\ th \notin announced /\ at[th] = "killed" => stage[th] = "stopped"
         /\ th \notin announced /\ at[th] # "killed" => stage[th] = "active"
  BY DEF ExitInv, DeletedIsOver, KeptAtFirst, stage

(* A step that shows in no Thread that is kept.                            *)
LEMMA StageSame ==
  ASSUME \A u \in KeptAtFirst :
           /\ u \in deleted' <=> u \in deleted
           /\ u \in announced' <=> u \in announced
           /\ u \in announced => (u = current' <=> u = current)
           /\ at'[u] = "killed" <=> at[u] = "killed"
           /\ announcements'[u] = announcements[u]
  PROVE  UNCHANGED Exit!vars
  BY DEF stage, announcementsOfKept, Exit!vars

(* A step that concerns one Thread only.                                   *)
LEMMA StageMoves ==
  ASSUME NEW th \in KeptAtFirst, NEW s,
         \A u \in KeptAtFirst \ {th} :
           /\ u \in deleted' <=> u \in deleted
           /\ u \in announced' <=> u \in announced
           /\ u \in announced => (u = current' <=> u = current)
           /\ at'[u] = "killed" <=> at[u] = "killed",
         stage'[th] = s
  PROVE  stage' = [stage EXCEPT ![th] = s]
<1>1. \A u \in KeptAtFirst \ {th} : stage'[u] = stage[u]
  BY DEF stage
<1>2. stage' = [u \in KeptAtFirst |-> stage'[u]] /\ stage = [u \in KeptAtFirst |-> stage[u]]
  BY DEF stage
<1>3. QED
  BY <1>1, <1>2

LEMMA AbstractGo ==
  ASSUME NEW th \in KeptAtFirst, announcements' = announcements,
         \/ stage[th] = "active" /\ stage' = [stage EXCEPT ![th] = "stopped"]
         \/ stage[th] = "announced" /\ stage' = [stage EXCEPT ![th] = "over"]
         \/ stage[th] = "over" /\ stage' = [stage EXCEPT ![th] = "reclaimed"]
  PROVE  Exit!Next
<1>1. announcementsOfKept' = announcementsOfKept
  BY DEF announcementsOfKept
<1>2. QED
  BY <1>1 DEF Exit!Next, Exit!Go, Exit!Move

LEMMA AbstractAnnounce ==
  ASSUME NEW th \in KeptAtFirst, announcements \in [Threads -> Nat],
         announcements' = [announcements EXCEPT ![th] = @ + 1],
         stage[th] = "stopped", stage' = [stage EXCEPT ![th] = "announced"]
  PROVE  Exit!Next
<1>1. announcementsOfKept' = [announcementsOfKept EXCEPT ![th] = @ + 1]
  BY DEF announcementsOfKept, KeptAtFirst
<1>2. QED
  BY <1>1 DEF Exit!Next, Exit!Announce, Exit!Move

LEMMA Simulated ==
  ASSUME ExitInv, ExitInv', [Next]_vars
  PROVE  Exit!Next \/ UNCHANGED Exit!vars
<1> USE DEF ExitInv, RecordInv
<1>0. /\ Dispatcher \in Cleaners /\ at \in [Threads -> WorkerLabels]
      /\ pc \in [Cleaners -> CleanerLabels] /\ announced \subseteq Threads
      /\ announcements \in [Threads -> Nat] /\ KeptAtFirst \subseteq Threads
      /\ NoThread \notin KeptAtFirst
  BY ThreadsAssumption DEF Cleaners, KeptAtFirst, TypeInv, TypeOK, announced
<1>1. CASE UNCHANGED vars
  <2>1. UNCHANGED <<at, deleted, announcements, announced, current>>
    BY <1>1 DEF vars, threadVars, cleanerVars, announced
  <2>2. QED
    BY <2>1, StageSame
<1>2. ASSUME NEW th \in Threads, WorkerActs(th)
      PROVE  UNCHANGED Exit!vars
  <2>1. /\ at'[th] # "killed" /\ at[th] # "killed" /\ \A u \in Threads \ {th} : at'[u] = at[u]
        /\ UNCHANGED <<deleted, announcements, announced, current>>
    BY <1>2, WorkerEffect DEF Before, Leaving, Sent, announced
  <2>2. QED
    BY <1>0, <2>1, StageSame
<1>3. CASE Receive
  <2>1. /\ current = NoThread /\ current' = Head(queue)
        /\ UNCHANGED <<at, deleted, announcements, announced>>
    BY <1>0, <1>3 DEF Receive, CleanerStep, Dispatching, TypeInv, AtRecord, threadVars, announced
  <2>2. current' \notin announced
    <3>1. queue \in Seq(Threads) /\ queue # << >> /\ IsInjective(queue)
      BY <1>3 DEF Receive, TypeInv, TypeOK, RecordsOnce
    <3>2. Head(queue) \in Threads /\ Contains(queue, Head(queue))
      BY <3>1, Taken
    <3>3. QED
      BY <2>1, <3>2 DEF QueuedIsSent
  <2>3. QED
    BY <1>0, <2>1, <2>2, StageSame
<1>4. CASE CallbackShutdown
  <2>1. UNCHANGED <<at, deleted, announcements, announced, current>>
    BY <1>4 DEF CallbackShutdown, threadVars, announced
  <2>2. QED
    BY <2>1, StageSame
<1>5. CASE KillWorker
  <2>1. /\ at' = [at EXCEPT ![current] = "killed"] /\ pc[Dispatcher] = "kill"
        /\ UNCHANGED <<deleted, announcements, announced, current>>
    BY <1>5 DEF KillWorker, Killed, CleanerStep, OtherThreadVars, announced
  <2>2. current \in Threads /\ current \notin announced
    BY <2>1, ThreadsAssumption DEF TypeInv, AtRecord, Dispatching, TakenIsPending
  <2>3. at'[current] = "killed" /\ \A u \in Threads \ {current} : at'[u] = at[u]
    BY <1>0, <2>1, <2>2
  <2>4. CASE current \notin KeptAtFirst
    BY <1>0, <2>1, <2>3, <2>4, StageSame
  <2>5. CASE current \in KeptAtFirst
    <3>1. current \notin deleted /\ at[current] # "killed"
      BY <2>1, <2>2, <2>5 DEF DeletedIsOver, KeptAtFirst, KilledIsOver, Dispatching
    <3>2. stage[current] = "active" /\ stage'[current] = "stopped"
      BY <2>1, <2>2, <2>3, <2>5, <3>1 DEF stage
    <3>3. stage' = [stage EXCEPT ![current] = "stopped"]
      BY <1>0, <2>1, <2>3, <2>5, <3>2, StageMoves
    <3>4. QED
      BY <2>1, <2>5, <3>2, <3>3, AbstractGo
  <2>6. QED
    BY <2>4, <2>5
<1>6. CASE Callback
  <2>1. /\ announcements' = [announcements EXCEPT ![current] = @ + 1]
        /\ pc[Dispatcher] = "callback" /\ UNCHANGED <<at, deleted, current>>
    BY <1>6 DEF Callback, CleanerStep
  <2>2. /\ current \in Threads /\ current \notin announced /\ at[current] = "killed"
    BY <2>1, ThreadsAssumption DEF TypeInv, AtRecord, Dispatching, TakenIsPending
  <2>3. announced' = announced \cup {current}
    BY <1>0, <2>1, <2>2, AnnouncedOneMore
  <2>4. \A u \in Threads \ {current} : announcements'[u] = announcements[u]
    BY <1>0, <2>1
  <2>5. CASE current \notin KeptAtFirst
    BY <1>0, <2>1, <2>3, <2>4, <2>5, StageSame
  <2>6. CASE current \in KeptAtFirst
    <3>1. current \notin deleted
      BY <2>2, <2>6 DEF DeletedIsOver, KeptAtFirst
    <3>2. stage[current] = "stopped" /\ stage'[current] = "announced"
      BY <2>1, <2>2, <2>3, <2>6, <3>1 DEF stage
    <3>3. stage' = [stage EXCEPT ![current] = "announced"]
      BY <2>1, <2>3, <2>6, <3>2, StageMoves
    <3>4. QED
      BY <1>0, <2>1, <2>6, <3>2, <3>3, AbstractAnnounce
  <2>7. QED
    BY <2>5, <2>6
<1>7. CASE Clear
  <2>1. /\ pc[Dispatcher] = "clear" /\ current' = NoThread
        /\ UNCHANGED <<at, deleted, announcements, announced>>
    BY <1>7 DEF Clear, CleanerStep, OtherThreadVars, announced
  <2>2. current \in Threads /\ current \in announced /\ pending[current]
    BY <2>1, ThreadsAssumption DEF TypeInv, AtRecord, Dispatching, TakenIsPending
  <2>3. CASE current \notin KeptAtFirst
    BY <1>0, <2>1, <2>3, StageSame
  <2>4. CASE current \in KeptAtFirst
    <3>1. current \notin deleted
      BY <2>2, <2>4 DEF DeletedIsOver, KeptAtFirst
    <3>2. stage[current] = "announced" /\ stage'[current] = "over"
      BY <1>0, <2>1, <2>2, <2>4, <3>1 DEF stage
    <3>3. stage' = [stage EXCEPT ![current] = "over"]
      BY <1>0, <2>1, <2>4, <3>2, StageMoves
    <3>4. QED
      BY <2>1, <2>4, <3>2, <3>3, AbstractGo
  <2>5. QED
    BY <2>3, <2>4
<1>8. ASSUME NEW k \in Cleaners, BeginPass(k) \/ PassStep(k)
      PROVE  Exit!Next \/ UNCHANGED Exit!vars
  <2>0. UNCHANGED <<announcements, announced, current>>
    BY <1>8, CleanUpEffect DEF announced
  <2>1. CASE UNCHANGED <<at, deleted>>
    BY <2>0, <2>1, StageSame
  <2>2. CASE /\ pc[k] = "destroy" /\ deleted' = deleted \cup {doomed[k]}
             /\ at' = [at EXCEPT ![doomed[k]] = "killed"]
    <3> DEFINE th == doomed[k]
    <3>1. th \in Threads /\ th \in Reclaims /\ (th \notin ReleasedAtFirst => ~pending[th])
      BY <2>2, ThreadsAssumption
         DEF TypeInv, AtThread, Destroying, ClaimedIsAnnounced, DestroyedIsOver
    <3>2. \A u \in Threads \ {th} : at'[u] = at[u] /\ (u \in deleted' <=> u \in deleted)
      BY <1>0, <2>2
    <3>3. CASE th \notin KeptAtFirst
      BY <1>0, <2>0, <3>2, <3>3, StageSame
    <3>4. CASE th \in KeptAtFirst
      <4>1. th \in announced /\ at[th] = "killed" /\ at'[th] = "killed"
        BY <1>0, <2>2, <3>1, <3>4 DEF Reclaims, KeptAtFirst, KilledIsOver
      <4>2. CASE th \in deleted
        BY <1>0, <2>0, <2>2, <3>2, <4>1, <4>2, StageSame
      <4>3. CASE th \notin deleted
        <5>1. th # current
          BY <3>1, <3>4, ThreadsAssumption DEF KeptAtFirst, TakenIsPending
        <5>2. stage[th] = "over" /\ stage'[th] = "reclaimed"
          BY <2>2, <3>4, <4>1, <4>3, <5>1 DEF stage
        <5>3. stage' = [stage EXCEPT ![th] = "reclaimed"]
          BY <1>0, <2>0, <3>2, <3>4, <5>2, StageMoves
        <5>4. QED
          BY <2>0, <3>4, <5>2, <5>3, AbstractGo
      <4>4. QED
        BY <4>2, <4>3
    <3>5. QED
      BY <3>3, <3>4
  <2>3. QED
    BY <1>8, <2>1, <2>2, CleanUpEffect
<1>9. QED
  BY <1>1, <1>2, <1>3, <1>4, <1>5, <1>6, <1>7, <1>8, StepCases DEF DispatchStep

(* The dispatcher implements ExitContract for every Thread that nobody     *)
(* releases before its exit: it stops, its OnTerminated is invoked once    *)
(* and never again, and it is deleted only when its dispatch is over.      *)
THEOREM Refinement == Spec => ImplementsExit
<1>1. Init => Exit!Init
  <2> SUFFICES ASSUME Init PROVE Exit!Init
    OBVIOUS
  <2>1. KeptAtFirst \subseteq Threads /\ announced = {}
    BY DEF Init, KeptAtFirst, announced
  <2>2. QED
    BY <2>1 DEF Init, Exit!Init, stage, announcementsOfKept
<1>2. ExitInv /\ ExitInv' /\ [Next]_vars => [Exit!Next]_(Exit!vars)
  BY Simulated
<1>3. QED
  BY <1>1, <1>2, ExitInvariance, PTL DEF Spec, ImplementsExit, Exit!Spec
=============================================================================
