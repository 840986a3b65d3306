--------------------- MODULE LifecycleNotificationProofs ---------------------
(***************************************************************************)
(* Proofs about LifecycleNotification, for any tasks, any number of        *)
(* observers and requests, and any set of listeners that may wait.         *)
(***************************************************************************)
EXTENDS LifecycleNotification, FiniteSetTheorems, TLAPS

(* Taking away, or replacing, what a stack ends with.                      *)
LEMMA Popped ==
  ASSUME NEW S, NEW s \in Seq(S), s # <<>>
  PROVE  /\ Front(s) \in Seq(S) /\ Len(Front(s)) = Len(s) - 1
         /\ \A k \in 1 .. Len(s) - 1 : Front(s)[k] = s[k]
         /\ Len(s) \in Nat \ {0} /\ Last(s) = s[Len(s)] /\ Last(s) \in S
<1>1. Len(s) \in Nat \ {0}
  OBVIOUS
<1>2. Front(s) = [k \in 1 .. Len(s) - 1 |-> s[k]]
  BY <1>1 DEF Front
<1>3. Len(s) - 1 \in Nat /\ \A k \in 1 .. Len(s) - 1 : s[k] \in S
  BY <1>1
<1>4. Front(s) \in Seq(S) /\ Len(Front(s)) = Len(s) - 1
  BY <1>2, <1>3
<1>5. QED
  BY <1>1, <1>2, <1>4 DEF Last

LEMMA Replaced ==
  ASSUME NEW S, NEW s \in Seq(S), s # <<>>, NEW x \in S
  PROVE  /\ Front(s) \o <<x>> \in Seq(S) /\ Front(s) \o <<x>> # <<>>
         /\ Len(Front(s) \o <<x>>) = Len(s)
         /\ \A k \in 1 .. Len(s) - 1 : (Front(s) \o <<x>>)[k] = s[k]
         /\ (Front(s) \o <<x>>)[Len(s)] = x
<1>1. Front(s) \in Seq(S) /\ Len(Front(s)) = Len(s) - 1 /\ <<x>> \in Seq(S)
  BY Popped
<1>2. Len(s) \in Nat \ {0} /\ Len(<<x>>) = 1 /\ <<x>>[1] = x
  BY Popped
<1>3. \A k \in 1 .. Len(s) - 1 : Front(s)[k] = s[k]
  BY Popped
<1>4. QED
  BY <1>1, <1>2, <1>3

LEMMA Predecessor ==
  ASSUME NEW n \in Nat, n > 1
  PROVE  n - 1 \in Nat \ {0} /\ (n - 1) + 1 = n
  OBVIOUS

(* A dispatch at stage n is with listener n \div 2.                        *)
LEMMA Stages ==
  ASSUME NEW n \in 0 .. Over, n < Over
  PROVE  /\ n \div 2 \in Listeners /\ n + 1 \in 0 .. Over
         /\ n % 2 = 0 => n = 2 * (n \div 2)
         /\ n % 2 = 1 => n = 2 * (n \div 2) + 1
         /\ n % 2 \in {0, 1}
  BY BoundsAssumption DEF Over, Listeners

(* Every dispatch but the innermost is inside a listener, which made the   *)
(* next change; a call of the mutex's owner comes from the innermost one.  *)
Nested ==
  \A k \in DOMAIN frames :
    /\ k < Len(frames) => frames[k].inside /\ ~frames[k].waits
    /\ frames[k].inside => frames[k].stage < Over
CallsFromInside ==
  \A t \in Tasks : owner = t /\ asked[t] # Nobody => Top.inside /\ ~Top.waits

StackInv == TypeOK /\ Nested /\ CallsFromInside

(* Listener i has not yet been told of the change that f dispatches, or of *)
(* the event of the state it reached.                                      *)
Owes(f, i) == f.stage < 2 * i \/ (f.stage = 2 * i /\ ~f.inside)
OwesEvent(f, i) == f.stage < 2 * i + 1 \/ (f.stage = 2 * i + 1 /\ ~f.inside)

LEMMA InitStack == Init => StackInv
  BY BoundsAssumption, NobodyAssumption
     DEF Init, StackInv, TypeOK, Nested, CallsFromInside, ThreadState, Listeners

-----------------------------------------------------------------------------
(* The innermost dispatch.                                                 *)
LEMMA TopType ==
  ASSUME StackInv, owner # Nobody
  PROVE  /\ frames # <<>> /\ Len(frames) \in Nat \ {0} /\ Top = frames[Len(frames)]
         /\ Top \in Frame /\ (Top.inside => Top.stage < Over)
         /\ DOMAIN frames = 1 .. Len(frames)
<1>1. frames \in Seq(Frame) /\ frames # <<>>
  BY DEF StackInv, TypeOK
<1>2. Top = frames[Len(frames)] /\ Top \in Frame /\ Len(frames) \in Nat \ {0}
  BY <1>1, Popped DEF Top
<1>3. DOMAIN frames = 1 .. Len(frames) /\ Len(frames) \in DOMAIN frames
  BY <1>1, <1>2
<1>4. QED
  BY <1>1, <1>2, <1>3 DEF StackInv, Nested

(* A step that replaces the innermost dispatch.                            *)
LEMMA TopStep ==
  ASSUME StackInv, owner # Nobody, owner' = owner, NEW f \in Frame,
         f.inside => f.stage < Over, frames' = WithTop(f)
  PROVE  /\ frames' \in Seq(Frame) /\ frames' # <<>> /\ Top' = f
         /\ Len(frames') = Len(frames) /\ DOMAIN frames' = DOMAIN frames
         /\ frames'[Len(frames)] = f
         /\ \A k \in DOMAIN frames : k # Len(frames) => frames'[k] = frames[k]
         /\ Nested'
<1>1. frames \in Seq(Frame) /\ frames # <<>>
  BY TopType DEF StackInv, TypeOK
<1>2. /\ frames' \in Seq(Frame) /\ frames' # <<>> /\ Len(frames') = Len(frames)
      /\ \A k \in 1 .. Len(frames) - 1 : frames'[k] = frames[k]
      /\ frames'[Len(frames)] = f
  BY <1>1, Replaced DEF WithTop
<1>3. DOMAIN frames = 1 .. Len(frames) /\ DOMAIN frames' = DOMAIN frames
  BY <1>1, <1>2
<1>4. Top' = f
  BY <1>2 DEF Top, Last
<1>5. \A k \in DOMAIN frames : k # Len(frames) => frames'[k] = frames[k]
  BY <1>1, <1>2, <1>3
<1>6. Nested'
  BY <1>1, <1>2, <1>3, <1>5 DEF StackInv, Nested
<1>7. QED
  BY <1>2, <1>3, <1>4, <1>5, <1>6

(* What a listener that returns or throws makes of its dispatch.           *)
LEMMA LeftType ==
  ASSUME NEW f \in Frame, f.inside, f.stage < Over, NEW b \in BOOLEAN
  PROVE  /\ Left(f, b) \in Frame /\ Left(f, b).stage = f.stage + 1 /\ ~Left(f, b).inside
         /\ Left(f, b).new = f.new
<1>1. (f.failed \/ (b /\ f.stage < 2)) \in BOOLEAN /\ f.stage + 1 \in 0 .. Over
  BY BoundsAssumption DEF Frame, Over
<1>2. QED
  BY <1>1 DEF Left, Frame

(* Calls and what they still have to do: the stack stays as it is.         *)
LEMMA StackCalls ==
  ASSUME StackInv, NEW t \in Tasks,
         \/ BeginInitialize(t)
         \/ ContinueInitialize(t)
         \/ \E s \in Requestable : Request(t, s)
  PROVE  StackInv'
<1>1. UNCHANGED <<state, owner, frames, changes, told, heard>>
  BY DEF BeginInitialize, ContinueInitialize, Request, heardVars
<1>2. /\ asked' \in [Tasks -> ThreadState \cup {Nobody}]
      /\ todo' \in [Tasks -> Seq(ThreadState)]
      /\ initializing' \in Tasks \cup {Nobody}
  <2>1. CASE BeginInitialize(t)
    <3>1. <<"Running">> \in Seq(ThreadState) /\ "Initialized" \in ThreadState
      BY DEF ThreadState
    <3>2. QED
      BY <2>1, <3>1 DEF BeginInitialize, StackInv, TypeOK
  <2>2. CASE ContinueInitialize(t) /\ todo[t] # <<>>
    <3>1. todo[t] \in Seq(ThreadState)
      BY DEF StackInv, TypeOK
    <3>2. Head(todo[t]) \in ThreadState /\ Tail(todo[t]) \in Seq(ThreadState)
      BY <2>2, <3>1
    <3>3. Continued(Head(todo[t])) \in ThreadState \cup {Nobody}
      BY <3>2 DEF Continued, ThreadState
    <3>4. QED
      BY <2>2, <3>2, <3>3 DEF ContinueInitialize, StackInv, TypeOK
  <2>3. CASE ContinueInitialize(t) /\ todo[t] = <<>>
    BY <2>3 DEF ContinueInitialize, StackInv, TypeOK
  <2>4. CASE \E s \in Requestable : Request(t, s)
    BY <2>4 DEF Request, Requestable, StackInv, TypeOK
  <2>5. QED
    BY <2>1, <2>2, <2>3, <2>4
<1>3. requests' \in 0 .. MaxRequests
  BY BoundsAssumption DEF BeginInitialize, ContinueInitialize, Request, StackInv, TypeOK
<1>4. failure' \in BOOLEAN
  BY DEF BeginInitialize, ContinueInitialize, Request, StackInv, TypeOK
<1>5. thrown' \in BOOLEAN
  BY DEF BeginInitialize, ContinueInitialize, Request, heardVars, StackInv, TypeOK
<1>6. TypeOK'
  BY <1>1, <1>2, <1>3, <1>4, <1>5 DEF StackInv, TypeOK
<1>7. Nested' /\ Top' = Top
  BY <1>1 DEF StackInv, Nested, Top
<1>8. CallsFromInside'
  <2>1. \A u \in Tasks \ {t} : asked'[u] = asked[u]
    BY DEF BeginInitialize, ContinueInitialize, Request, StackInv, TypeOK
  <2>2. owner = t /\ asked'[t] # Nobody => Top.inside /\ ~Top.waits
    BY DEF BeginInitialize, ContinueInitialize, Request, Free, Inside, StackInv,
           CallsFromInside
  <2>3. QED
    BY <1>1, <1>7, <2>1, <2>2 DEF StackInv, CallsFromInside
<1>9. QED
  BY <1>6, <1>7, <1>8 DEF StackInv

(* A new dispatch.                                                         *)
Fresh(s) == [new |-> s, stage |-> 0, inside |-> FALSE, waits |-> FALSE, failed |-> FALSE]
LEMMA StackSet ==
  ASSUME StackInv, NEW t \in Tasks, SetThreadState(t)
  PROVE  /\ StackInv'
         /\ \/ /\ state' = asked[t] /\ changes' = changes + 1
               /\ frames' = Append(frames, Fresh(asked[t])) /\ Fresh(asked[t]) \in Frame
            \/ UNCHANGED <<state, changes, frames>>
         /\ UNCHANGED <<told, heard>>
<1>1. asked[t] \in ThreadState
  BY DEF SetThreadState, StackInv, TypeOK
<1>2. Fresh(asked[t]) \in Frame
  BY <1>1, BoundsAssumption DEF Fresh, Frame, Over
<1>3. /\ asked' = [asked EXCEPT ![t] = Nobody]
      /\ UNCHANGED <<todo, initializing, failure, requests, told, heard, thrown>>
  BY DEF SetThreadState, heardVars
<1>4. CASE IsValidTransition(state, asked[t])
  <2>1. /\ state' = asked[t] /\ changes' = changes + 1 /\ owner' = t
        /\ frames' = Append(frames, Fresh(asked[t]))
    BY <1>4 DEF SetThreadState, Fresh
  <2>2. /\ frames \in Seq(Frame) /\ changes \in Nat
        /\ (frames = <<>> \/ owner = t)
    BY DEF SetThreadState, MayEnter, StackInv, TypeOK
  <2>3. /\ frames' \in Seq(Frame) /\ frames' # <<>> /\ Len(frames') = Len(frames) + 1
        /\ DOMAIN frames' = 1 .. Len(frames) + 1
        /\ \A k \in 1 .. Len(frames) : frames'[k] = frames[k]
        /\ frames'[Len(frames) + 1] = Fresh(asked[t])
    BY <1>2, <2>1, <2>2
  <2>4. TypeOK'
    BY <1>1, <1>3, <2>1, <2>2, <2>3, NobodyAssumption DEF StackInv, TypeOK
  <2>5. frames # <<>> => Top.inside /\ ~Top.waits
    BY <2>2 DEF SetThreadState, StackInv, TypeOK, CallsFromInside
  <2>6. Nested'
    <3> SUFFICES ASSUME NEW k \in DOMAIN frames'
                 PROVE  /\ k < Len(frames') => frames'[k].inside /\ ~frames'[k].waits
                        /\ frames'[k].inside => frames'[k].stage < Over
      BY DEF Nested
    <3>1. CASE k = Len(frames) + 1
      BY <2>2, <2>3, <3>1 DEF Fresh
    <3>2. CASE k # Len(frames) + 1
      <4>1. k \in DOMAIN frames /\ frames'[k] = frames[k] /\ frames # <<>>
        BY <2>2, <2>3, <3>2
      <4>2. k = Len(frames) \/ k < Len(frames)
        BY <2>2, <4>1
      <4>3. k = Len(frames) => frames[k] = Top
        BY DEF Top, Last
      <4>4. QED
        BY <2>5, <4>1, <4>2, <4>3 DEF StackInv, Nested
    <3>3. QED
      BY <3>1, <3>2
  <2>7. CallsFromInside'
    BY <1>3, <2>1 DEF StackInv, TypeOK, CallsFromInside
  <2>8. QED
    BY <1>2, <1>3, <2>1, <2>4, <2>6, <2>7 DEF StackInv
<1>5. CASE ~IsValidTransition(state, asked[t])
  <2>1. UNCHANGED <<state, changes, owner, frames>>
    BY <1>5 DEF SetThreadState
  <2>2. TypeOK'
    BY <1>3, <2>1 DEF StackInv, TypeOK
  <2>3. Nested' /\ CallsFromInside'
    BY <1>3, <2>1 DEF StackInv, TypeOK, Nested, CallsFromInside, Top
  <2>4. QED
    BY <1>3, <2>1, <2>2, <2>3 DEF StackInv
<1>6. QED
  BY <1>4, <1>5

(* A step of the innermost dispatch.                                       *)
LEMMA StackTop ==
  ASSUME StackInv, NEW t \in Tasks, owner = t, asked[t] = Nobody,
         NEW f \in Frame, f.inside => f.stage < Over, frames' = WithTop(f),
         UNCHANGED <<state, owner, changes, callVars>>,
         told' \in [Listeners -> Nat], heard' \in [Listeners -> ThreadState],
         thrown' \in BOOLEAN
  PROVE  StackInv'
<1>1. owner # Nobody
  BY NobodyAssumption
<1>2. frames' \in Seq(Frame) /\ frames' # <<>> /\ Nested'
  BY <1>1, TopStep
<1>3. TypeOK'
  BY <1>1, <1>2 DEF StackInv, TypeOK, callVars
<1>4. CallsFromInside'
  BY DEF CallsFromInside, callVars
<1>5. QED
  BY <1>2, <1>3, <1>4 DEF StackInv

(* The frame that each delivery leaves.                                    *)
Delivery(t) ==
  \/ Tell(t) \/ TellEvent(t) \/ SkipEvent(t) \/ Await(t)
  \/ ListenerReturns(t) \/ ListenerThrows(t)

LEMMA StackDelivery ==
  ASSUME StackInv, NEW t \in Tasks, Delivery(t)
  PROVE  StackInv'
<1>1. owner = t /\ asked[t] = Nobody /\ owner # Nobody
  BY NobodyAssumption
     DEF Delivery, Delivering, Tell, TellEvent, SkipEvent, Await, Inside, ListenerReturns,
         ListenerThrows
<1>2. /\ Top \in Frame /\ (Top.inside => Top.stage < Over)
      /\ Top.stage \in 0 .. Over /\ Top.new \in ThreadState /\ Top.inside \in BOOLEAN
  BY <1>1, TopType DEF Frame
<1>3. UNCHANGED <<state, owner, changes, callVars>>
  BY DEF Delivery, Tell, TellEvent, SkipEvent, Await, ListenerReturns, ListenerThrows, heardVars
<1>4. told' \in [Listeners -> Nat] /\ heard' \in [Listeners -> ThreadState]
  <2>1. CASE Tell(t)
    <3>1. Listener \in Listeners
      BY <1>2, <2>1, Stages DEF Tell, Delivering, Listener
    <3>2. QED
      BY <2>1, <3>1 DEF Tell, StackInv, TypeOK
  <2>2. CASE TellEvent(t)
    BY <1>2, <2>2 DEF TellEvent, StackInv, TypeOK
  <2>3. CASE SkipEvent(t) \/ Await(t) \/ ListenerReturns(t) \/ ListenerThrows(t)
    BY <2>3 DEF SkipEvent, Await, ListenerReturns, ListenerThrows, heardVars, StackInv, TypeOK
  <2>4. QED
    BY <2>1, <2>2, <2>3 DEF Delivery
<1>5. thrown' \in BOOLEAN
  BY DEF Delivery, Tell, TellEvent, SkipEvent, Await, ListenerReturns, ListenerThrows,
         heardVars, StackInv, TypeOK
<1>6. \E f \in Frame : (f.inside => f.stage < Over) /\ frames' = WithTop(f)
  <2>1. CASE Tell(t) \/ TellEvent(t)
    <3>1. [Top EXCEPT !.inside = TRUE] \in Frame
      BY <1>2 DEF Frame
    <3>2. frames' = WithTop([Top EXCEPT !.inside = TRUE])
          /\ [Top EXCEPT !.inside = TRUE].stage < Over
      BY <1>2, <2>1 DEF Tell, TellEvent, Delivering, Frame
    <3>3. QED
      BY <3>1, <3>2
  <2>2. CASE SkipEvent(t)
    <3>1. Top.stage < Over /\ ~Top.inside
      BY <2>2 DEF SkipEvent, Delivering
    <3>2. [Top EXCEPT !.stage = @ + 1] \in Frame /\ ~[Top EXCEPT !.stage = @ + 1].inside
      BY <1>2, <3>1, BoundsAssumption DEF Frame, Over
    <3>3. QED
      BY <2>2, <3>2 DEF SkipEvent
  <2>3. CASE Await(t)
    <3>1. [Top EXCEPT !.waits = TRUE] \in Frame
          /\ ([Top EXCEPT !.waits = TRUE].inside => [Top EXCEPT !.waits = TRUE].stage < Over)
      BY <1>2 DEF Frame
    <3>2. QED
      BY <2>3, <3>1 DEF Await
  <2>4. CASE ListenerReturns(t)
    BY <1>2, <2>4, LeftType DEF ListenerReturns
  <2>5. CASE ListenerThrows(t)
    BY <1>2, <2>5, LeftType DEF ListenerThrows, LeftThrowing, Inside
  <2>6. QED
    BY <2>1, <2>2, <2>3, <2>4, <2>5 DEF Delivery
<1>7. QED
  BY <1>1, <1>3, <1>4, <1>5, <1>6, StackTop

(* The end of a dispatch: the stack is one shorter, and a listener that    *)
(* does not catch has left the dispatch it was in.                         *)
LEMMA StackEnd ==
  ASSUME StackInv, NEW t \in Tasks, EndDispatch(t)
  PROVE  StackInv'
<1>1. owner = t /\ owner' = Nobody /\ frames' = <<>>
  BY DEF EndDispatch
<1>2. todo' \in [Tasks -> Seq(ThreadState)]
  <2>1. <<"Terminating", "Terminated">> \in Seq(ThreadState)
    BY DEF ThreadState
  <2>2. QED
    BY <2>1 DEF EndDispatch, StackInv, TypeOK
<1>3. failure' \in BOOLEAN
  BY DEF EndDispatch, StackInv, TypeOK
<1>4. UNCHANGED <<state, changes, asked, initializing, requests, told, heard, thrown>>
  BY DEF EndDispatch, heardVars
<1>5. TypeOK'
  BY <1>1, <1>2, <1>3, <1>4 DEF StackInv, TypeOK
<1>6. Nested' /\ CallsFromInside'
  BY <1>1, NobodyAssumption DEF Nested, CallsFromInside
<1>7. QED
  BY <1>5, <1>6 DEF StackInv

LEMMA StackEndNested ==
  ASSUME StackInv, NEW t \in Tasks, EndNestedDispatch(t)
  PROVE  /\ StackInv'
         /\ DOMAIN frames = 1 .. Len(frames) /\ DOMAIN frames' = 1 .. Len(frames) - 1
         /\ Len(frames) \in Nat /\ Len(frames) > 1 /\ frames[Len(frames)].stage = Over
         /\ LET n == Len(frames) - 1
            IN  /\ \A k \in 1 .. n : k # n => frames'[k] = frames[k]
                /\ \/ frames'[n] = frames[n]
                   \/ /\ frames[n] \in Frame /\ frames[n].inside /\ frames[n].stage < Over
                      /\ frames'[n] = Left(frames[n], TRUE)
         /\ UNCHANGED <<state, changes, told, heard>>
<1> DEFINE n == Len(frames) - 1
<1>0. n = Len(frames) - 1
  OBVIOUS
<1> HIDE DEF n
<1>1. owner = t /\ owner # Nobody /\ Len(frames) > 1 /\ Top.stage = Over
      /\ UNCHANGED <<state, owner, changes, callVars, told, heard, thrown>>
  BY NobodyAssumption DEF EndNestedDispatch, heardVars
<1>2. /\ frames \in Seq(Frame) /\ DOMAIN frames = 1 .. Len(frames) /\ Len(frames) \in Nat
      /\ Top = frames[Len(frames)] /\ frames # <<>>
  BY <1>1, TopType DEF StackInv, TypeOK
<1>3. n \in Nat \ {0} /\ n \in DOMAIN frames /\ n < Len(frames)
  BY <1>0, <1>1, <1>2
<1>4. frames[n] \in Frame /\ frames[n].inside /\ ~frames[n].waits /\ frames[n].stage < Over
  BY <1>2, <1>3 DEF StackInv, Nested
<1>5. /\ Front(frames) \in Seq(Frame) /\ Len(Front(frames)) = n
      /\ \A k \in 1 .. n : Front(frames)[k] = frames[k]
  BY <1>0, <1>2, Popped
<1>6. Front(frames) # <<>> /\ Last(Front(frames)) = frames[n]
  BY <1>3, <1>5 DEF Last
<1>7. asked[t] = Nobody
  <2>1. ~Top.inside
    BY <1>1, TopType, BoundsAssumption DEF Over
  <2>2. QED
    BY <1>1, <2>1 DEF StackInv, CallsFromInside
<1>8. Left(frames[n], TRUE) \in Frame /\ ~Left(frames[n], TRUE).inside
  BY <1>4, LeftType
<1>9. /\ frames' \in Seq(Frame) /\ frames' # <<>> /\ Len(frames') = n
      /\ \A k \in 1 .. n : k # n => frames'[k] = frames[k]
      /\ frames'[n] = frames[n] \/ frames'[n] = Left(frames[n], TRUE)
  <2>1. CASE frames' = Front(frames)
    <3>1. n \in 1 .. n
      BY <1>3
    <3>2. QED
      BY <1>5, <1>6, <2>1, <3>1
  <2>2. CASE frames' = Front(Front(frames)) \o <<Left(frames[n], TRUE)>>
    <3>1. /\ frames' \in Seq(Frame) /\ frames' # <<>> /\ Len(frames') = n
          /\ \A k \in 1 .. n - 1 : frames'[k] = Front(frames)[k]
          /\ frames'[n] = Left(frames[n], TRUE)
      <4> DEFINE s == Front(frames)
                 x == Left(frames[n], TRUE)
      <4>1. s \in Seq(Frame) /\ s # <<>> /\ Len(s) = n /\ x \in Frame
        BY <1>5, <1>6, <1>8
      <4>2. frames' = Front(s) \o <<x>>
        BY <2>2
      <4> HIDE DEF s, x
      <4>3. /\ Front(s) \o <<x>> \in Seq(Frame) /\ Front(s) \o <<x>> # <<>>
            /\ Len(Front(s) \o <<x>>) = Len(s)
            /\ \A k \in 1 .. Len(s) - 1 : (Front(s) \o <<x>>)[k] = s[k]
            /\ (Front(s) \o <<x>>)[Len(s)] = x
        BY <4>1, Replaced
      <4>4. QED
        BY <4>1, <4>2, <4>3 DEF s, x
    <3>2. \A k \in 1 .. n : k # n => k \in 1 .. n - 1
      BY <1>3
    <3>3. QED
      BY <1>5, <3>1, <3>2
  <2>3. QED
    BY <1>6, <2>1, <2>2 DEF EndNestedDispatch
<1>10. DOMAIN frames' = 1 .. n
  BY <1>9
<1>11. TypeOK'
  BY <1>1, <1>9 DEF StackInv, TypeOK, callVars
<1>12. Nested'
  <2> SUFFICES ASSUME NEW k \in 1 .. n
               PROVE  /\ k < n => frames'[k].inside /\ ~frames'[k].waits
                      /\ frames'[k].inside => frames'[k].stage < Over
    BY <1>9, <1>10 DEF Nested
  <2>1. CASE k = n
    <3>1. ~(k < n)
      BY <1>3, <2>1
    <3>2. QED
      BY <1>4, <1>8, <1>9, <2>1, <3>1
  <2>2. CASE k # n
    <3>1. frames'[k] = frames[k]
      BY <1>9, <2>2
    <3>2. k \in DOMAIN frames /\ k < Len(frames)
      BY <1>2, <1>3
    <3>3. QED
      BY <3>1, <3>2 DEF StackInv, Nested
  <2>3. QED
    BY <2>1, <2>2
<1>13. CallsFromInside'
  BY <1>1, <1>7 DEF CallsFromInside, callVars
<1>14. QED
  BY <1>0, <1>1, <1>2, <1>4, <1>9, <1>10, <1>11, <1>12, <1>13 DEF StackInv

LEMMA StackStep == StackInv /\ [Next]_vars => StackInv'
<1>1. CASE UNCHANGED vars
  BY <1>1 DEF vars, callVars, heardVars, StackInv, TypeOK, Nested, CallsFromInside, Top
<1>2. CASE StackInv /\ Next
  BY <1>2, StackCalls, StackSet, StackDelivery, StackEnd, StackEndNested
     DEF Next, Continue, Delivery
<1>3. QED
  BY <1>1, <1>2

(* The mutex is held exactly while there is a dispatch, and every field    *)
(* keeps its type.                                                         *)
THEOREM TypeCorrect == Spec => []TypeOK
<1>1. StackInv => TypeOK
  BY DEF StackInv
<1>2. QED
  BY <1>1, InitStack, StackStep, PTL DEF Spec

-----------------------------------------------------------------------------
(* What a delivery does to the innermost dispatch f and to the histories.  *)
LEMMA DeliveryEffect ==
  ASSUME StackInv, NEW t \in Tasks, Delivery(t)
  PROVE  \E n \in DOMAIN frames, l \in Listeners :
    LET f == frames[n]
        g == frames'[n]
    IN  /\ DOMAIN frames' = DOMAIN frames
        /\ \A k \in DOMAIN frames : k # n => frames'[k] = frames[k]
        /\ f \in Frame /\ g.new = f.new /\ UNCHANGED <<state, changes>>
        /\ \/ /\ f.stage = 2 * l /\ ~f.inside /\ g.stage = f.stage /\ g.inside
              /\ told' = [told EXCEPT ![l] = @ + 1] /\ UNCHANGED heard
           \/ /\ f.stage = 2 * l + 1 /\ ~f.inside /\ g.stage = f.stage /\ g.inside
              /\ state = f.new /\ heard' = [heard EXCEPT ![l] = f.new] /\ UNCHANGED told
           \/ /\ f.stage = 2 * l + 1 /\ ~f.inside /\ g.stage = f.stage + 1 /\ ~g.inside
              /\ state = f.new => l = 0 /\ state \in {"Uninitialized", "Terminating", "Destroyed"}
              /\ UNCHANGED <<told, heard>>
           \/ g.stage = f.stage /\ g.inside = f.inside /\ UNCHANGED <<told, heard>>
           \/ /\ f.inside /\ g.stage = f.stage + 1 /\ ~g.inside /\ UNCHANGED <<told, heard>>
<1> DEFINE n == Len(frames)
           l == Top.stage \div 2
<1>1. owner = t /\ asked[t] = Nobody /\ owner # Nobody /\ owner' = owner
      /\ UNCHANGED <<state, changes>>
  BY NobodyAssumption
     DEF Delivery, Delivering, Tell, TellEvent, SkipEvent, Await, Inside, ListenerReturns,
         ListenerThrows
<1>2. /\ n \in DOMAIN frames /\ Top = frames[n] /\ Top \in Frame
      /\ (Top.inside => Top.stage < Over) /\ Top.stage \in 0 .. Over
      /\ Top.new \in ThreadState /\ Top.inside \in BOOLEAN
  BY <1>1, TopType DEF Frame
<1>3. 0 \in Listeners
  BY BoundsAssumption DEF Listeners
<1>4. ASSUME NEW g \in Frame, g.inside => g.stage < Over, frames' = WithTop(g)
      PROVE  /\ DOMAIN frames' = DOMAIN frames /\ frames'[n] = g
             /\ \A k \in DOMAIN frames : k # n => frames'[k] = frames[k]
  BY <1>1, <1>4, TopStep
<1>5. CASE Tell(t)
  <2> DEFINE g == [Top EXCEPT !.inside = TRUE]
  <2>1. g \in Frame /\ g.inside /\ g.stage = Top.stage /\ g.new = Top.new
    BY <1>2 DEF Frame
  <2>2. Top.stage < Over /\ Top.stage % 2 = 0 /\ ~Top.inside
    BY <1>5 DEF Tell, Delivering
  <2>3. Top.stage = 2 * l /\ l \in Listeners
    BY <1>2, <2>2, Stages
  <2>4. frames' = WithTop(g) /\ told' = [told EXCEPT ![l] = @ + 1] /\ UNCHANGED heard
    BY <1>5 DEF Tell, Listener
  <2> HIDE DEF g, n, l
  <2>5. QED
    BY <1>1, <1>2, <1>4, <2>1, <2>2, <2>3, <2>4
<1>6. CASE TellEvent(t)
  <2> DEFINE g == [Top EXCEPT !.inside = TRUE]
  <2>1. g \in Frame /\ g.inside /\ g.stage = Top.stage /\ g.new = Top.new
    BY <1>2 DEF Frame
  <2>2. Top.stage < Over /\ Top.stage % 2 = 1 /\ ~Top.inside /\ state = Top.new
    BY <1>6 DEF TellEvent, Delivering, StillCurrent
  <2>3. Top.stage = 2 * l + 1 /\ l \in Listeners
    BY <1>2, <2>2, Stages
  <2>4. frames' = WithTop(g) /\ heard' = [heard EXCEPT ![l] = Top.new] /\ UNCHANGED told
    BY <1>6 DEF TellEvent, Listener
  <2> HIDE DEF g, n, l
  <2>5. QED
    BY <1>1, <1>2, <1>4, <2>1, <2>2, <2>3, <2>4
<1>7. CASE SkipEvent(t)
  <2> DEFINE g == [Top EXCEPT !.stage = @ + 1]
  <2>1. Top.stage < Over /\ Top.stage % 2 = 1 /\ ~Top.inside
    BY <1>7 DEF SkipEvent, Delivering
  <2>2. Top.stage = 2 * l + 1 /\ l \in Listeners /\ Top.stage + 1 \in 0 .. Over
    BY <1>2, <2>1, Stages
  <2>3. g \in Frame /\ ~g.inside /\ g.stage = Top.stage + 1 /\ g.new = Top.new
    BY <1>2, <2>1, <2>2 DEF Frame
  <2>4. state = Top.new => l = 0 /\ state \in {"Uninitialized", "Terminating", "Destroyed"}
    BY <1>7, <2>2, BoundsAssumption
       DEF SkipEvent, StillCurrent, HasEvent, Listener, Listeners
  <2>5. frames' = WithTop(g) /\ UNCHANGED <<told, heard>>
    BY <1>7 DEF SkipEvent, heardVars
  <2> HIDE DEF g, n, l
  <2>6. QED
    BY <1>1, <1>2, <1>4, <2>1, <2>2, <2>3, <2>4, <2>5
<1>8. CASE Await(t)
  <2> DEFINE g == [Top EXCEPT !.waits = TRUE]
  <2>1. g \in Frame /\ g.inside = Top.inside /\ g.stage = Top.stage /\ g.new = Top.new
    BY <1>2 DEF Frame
  <2>2. frames' = WithTop(g) /\ UNCHANGED <<told, heard>>
    BY <1>8 DEF Await, heardVars
  <2> HIDE DEF g, n, l
  <2>3. QED
    BY <1>1, <1>2, <1>3, <1>4, <2>1, <2>2
<1>9. CASE ListenerReturns(t) \/ ListenerThrows(t)
  <2>1. Top.inside /\ UNCHANGED <<told, heard>>
    BY <1>9 DEF ListenerReturns, ListenerThrows, Inside, heardVars
  <2>2. PICK b \in BOOLEAN : frames' = WithTop(Left(Top, b))
    BY <1>9 DEF ListenerReturns, ListenerThrows, LeftThrowing
  <2> DEFINE g == Left(Top, b)
  <2>3. g \in Frame /\ g.stage = Top.stage + 1 /\ ~g.inside /\ g.new = Top.new
    BY <1>2, <2>1, LeftType
  <2> HIDE DEF g, n, l
  <2>4. frames' = WithTop(g)
    BY <2>2 DEF g
  <2>5. QED
    BY <1>1, <1>2, <1>3, <1>4, <2>1, <2>3, <2>4
<1>10. QED
  BY <1>5, <1>6, <1>7, <1>8, <1>9 DEF Delivery

(* Only what is told, or heard, ends what a dispatch owes a listener.      *)
LEMMA DebtKept ==
  ASSUME NEW f, f.stage \in Nat, NEW g, NEW i \in Listeners, NEW l \in Listeners,
         \/ f.stage = 2 * l + 1 /\ ~f.inside /\ g.stage = f.stage /\ g.inside
         \/ f.stage = 2 * l + 1 /\ ~f.inside /\ g.stage = f.stage + 1 /\ ~g.inside
         \/ g.stage = f.stage /\ g.inside = f.inside
         \/ f.inside /\ g.stage = f.stage + 1 /\ ~g.inside
  PROVE  Owes(g, i) <=> Owes(f, i)
<1>1. i \in Nat /\ l \in Nat
  BY BoundsAssumption DEF Listeners
<1>0. /\ 2 * l + 1 # 2 * i /\ 2 * l # 2 * i + 1
      /\ 2 * l < 2 * i + 1 <=> 2 * l <= 2 * i
      /\ f.stage + 1 < 2 * i \/ f.stage + 1 = 2 * i <=> f.stage < 2 * i
      /\ f.stage + 1 < 2 * i + 1 \/ f.stage + 1 = 2 * i + 1 <=> f.stage < 2 * i + 1
      /\ i # l => 2 * l + 1 # 2 * i + 1
  BY <1>1
<1>2. CASE f.stage = 2 * l + 1 /\ ~f.inside /\ g.stage = f.stage /\ g.inside
  BY <1>0, <1>2 DEF Owes
<1>3. CASE f.stage = 2 * l + 1 /\ ~f.inside /\ g.stage = f.stage + 1 /\ ~g.inside
  BY <1>0, <1>3 DEF Owes
<1>4. CASE g.stage = f.stage /\ g.inside = f.inside
  BY <1>4 DEF Owes
<1>5. CASE f.inside /\ g.stage = f.stage + 1 /\ ~g.inside
  BY <1>0, <1>5 DEF Owes
<1>6. QED
  BY <1>2, <1>3, <1>4, <1>5

LEMMA EventDebtKept ==
  ASSUME NEW f, f.stage \in Nat, NEW g, NEW i \in Listeners, NEW l \in Listeners,
         \/ f.stage = 2 * l /\ ~f.inside /\ g.stage = f.stage /\ g.inside
         \/ f.stage = 2 * l + 1 /\ i # l /\ ~f.inside /\ g.stage = f.stage /\ g.inside
         \/ f.stage = 2 * l + 1 /\ i # l /\ ~f.inside /\ g.stage = f.stage + 1 /\ ~g.inside
         \/ g.stage = f.stage /\ g.inside = f.inside
         \/ f.inside /\ g.stage = f.stage + 1 /\ ~g.inside
  PROVE  OwesEvent(g, i) <=> OwesEvent(f, i)
<1>1. i \in Nat /\ l \in Nat
  BY BoundsAssumption DEF Listeners
<1>0. /\ 2 * l + 1 # 2 * i /\ 2 * l # 2 * i + 1
      /\ 2 * l < 2 * i + 1 <=> 2 * l <= 2 * i
      /\ f.stage + 1 < 2 * i \/ f.stage + 1 = 2 * i <=> f.stage < 2 * i
      /\ f.stage + 1 < 2 * i + 1 \/ f.stage + 1 = 2 * i + 1 <=> f.stage < 2 * i + 1
      /\ i # l => 2 * l + 1 # 2 * i + 1
  BY <1>1
<1>2. CASE f.stage = 2 * l /\ ~f.inside /\ g.stage = f.stage /\ g.inside
  BY <1>0, <1>2 DEF OwesEvent
<1>3. CASE f.stage = 2 * l + 1 /\ i # l /\ ~f.inside /\ g.stage = f.stage /\ g.inside
  BY <1>0, <1>3 DEF OwesEvent
<1>4. CASE f.stage = 2 * l + 1 /\ i # l /\ ~f.inside /\ g.stage = f.stage + 1 /\ ~g.inside
  BY <1>0, <1>4 DEF OwesEvent
<1>5. CASE g.stage = f.stage /\ g.inside = f.inside
  BY <1>5 DEF OwesEvent
<1>6. CASE f.inside /\ g.stage = f.stage + 1 /\ ~g.inside
  BY <1>0, <1>6 DEF OwesEvent
<1>7. QED
  BY <1>2, <1>3, <1>4, <1>5, <1>6

LEMMA NothingOwed ==
  ASSUME NEW f, f.stage = Over, NEW i \in Listeners
  PROVE  ~Owes(f, i) /\ ~OwesEvent(f, i)
  BY BoundsAssumption DEF Owes, OwesEvent, Listeners, Over

LEMMA AllOwed ==
  ASSUME NEW s, NEW i \in Listeners
  PROVE  Owes(Fresh(s), i) /\ OwesEvent(Fresh(s), i) /\ Fresh(s).new = s
  BY BoundsAssumption DEF Owes, OwesEvent, Listeners, Fresh

-----------------------------------------------------------------------------
(* What a listener has not been told of yet is owed to it by dispatches    *)
(* under way, one for each change.                                         *)
Debts(i) == {k \in DOMAIN frames : Owes(frames[k], i)}
Tally == \A i \in Listeners : told[i] + Cardinality(Debts(i)) = changes

ToldInv == StackInv /\ Tally

LEMMA DebtsFinite ==
  ASSUME StackInv, NEW i \in Listeners
  PROVE  IsFiniteSet(Debts(i)) /\ Cardinality(Debts(i)) \in Nat
<1>1. Len(frames) \in Nat /\ DOMAIN frames = 1 .. Len(frames)
  BY DEF StackInv, TypeOK
<1>2. IsFiniteSet(1 .. Len(frames))
  BY <1>1, FS_Interval
<1>3. IsFiniteSet(Debts(i))
  BY <1>1, <1>2, FS_Subset DEF Debts
<1>4. QED
  BY <1>3, FS_CardinalityType

LEMMA InitTold == Init => ToldInv
<1> SUFFICES ASSUME Init PROVE Tally
  BY InitStack DEF ToldInv
<1>1. \A i \in Listeners : Debts(i) = {} /\ told[i] = 0 /\ changes = 0
  BY DEF Init, Debts
<1>2. QED
  BY <1>1, FS_EmptySet DEF Tally

(* Steps that leave every debt as it is.                                   *)
LEMMA SameDebts ==
  ASSUME ToldInv, UNCHANGED <<told, changes>>, \A i \in Listeners : Debts(i)' = Debts(i)
  PROVE  Tally'
  BY DEF ToldInv, Tally

LEMMA ToldStep == ToldInv /\ [Next]_vars => ToldInv'
<1> SUFFICES ASSUME ToldInv, [Next]_vars PROVE Tally'
  BY StackStep DEF ToldInv
<1>0. StackInv
  BY DEF ToldInv
<1>1. CASE UNCHANGED vars
  BY <1>1 DEF vars, callVars, heardVars, ToldInv, Tally, Debts
<1>2. ASSUME NEW t \in Tasks,
             \/ BeginInitialize(t)
             \/ ContinueInitialize(t)
             \/ \E s \in Requestable : Request(t, s)
      PROVE  Tally'
  <2>1. UNCHANGED <<frames, told, changes>>
    BY <1>2 DEF BeginInitialize, ContinueInitialize, Request, heardVars
  <2>2. QED
    BY <2>1 DEF ToldInv, Tally, Debts
<1>3. ASSUME NEW t \in Tasks, SetThreadState(t)
      PROVE  Tally'
  <2>1. CASE UNCHANGED <<state, changes, frames>>
    BY <1>0, <1>3, <2>1, StackSet DEF ToldInv, Tally, Debts
  <2>2. CASE /\ changes' = changes + 1 /\ frames' = Append(frames, Fresh(asked[t]))
             /\ Fresh(asked[t]) \in Frame /\ told' = told
    <3> DEFINE n == Len(frames) + 1
    <3>1. /\ n \in Nat /\ DOMAIN frames = 1 .. n - 1 /\ DOMAIN frames' = 1 .. n
          /\ \A k \in DOMAIN frames : frames'[k] = frames[k]
          /\ frames'[n] = Fresh(asked[t]) /\ n \notin DOMAIN frames
      BY <1>0, <2>2 DEF StackInv, TypeOK
    <3>2. DOMAIN frames' = DOMAIN frames \cup {n}
      BY <3>1
    <3> HIDE DEF n
    <3> SUFFICES ASSUME NEW i \in Listeners
                 PROVE  told'[i] + Cardinality(Debts(i)') = changes'
      BY DEF Tally
    <3>3. Debts(i)' = Debts(i) \cup {n} /\ n \notin Debts(i)
      BY <3>1, <3>2, AllOwed DEF Debts
    <3>4. Cardinality(Debts(i)') = Cardinality(Debts(i)) + 1
      BY <1>0, <3>3, DebtsFinite, FS_AddElement
    <3>5. told[i] + Cardinality(Debts(i)) = changes /\ told[i] \in Nat /\ changes \in Nat
      BY <1>0 DEF ToldInv, Tally, StackInv, TypeOK
    <3>6. QED
      BY <1>0, <2>2, <3>4, <3>5, DebtsFinite
  <2>3. QED
    BY <1>0, <1>3, <2>1, <2>2, StackSet
<1>4. ASSUME NEW t \in Tasks, Delivery(t)
      PROVE  Tally'
  <2> DEFINE Told(n, l) ==
        /\ frames[n].stage = 2 * l /\ ~frames[n].inside
        /\ frames'[n].stage = frames[n].stage /\ frames'[n].inside
        /\ told' = [told EXCEPT ![l] = @ + 1]
  <2>1. PICK n \in DOMAIN frames, l \in Listeners :
          /\ DOMAIN frames' = DOMAIN frames
          /\ \A k \in DOMAIN frames : k # n => frames'[k] = frames[k]
          /\ frames[n] \in Frame /\ UNCHANGED changes
          /\ \/ Told(n, l)
             \/ /\ told' = told
                /\ \A i \in Listeners : Owes(frames'[n], i) <=> Owes(frames[n], i)
    <3>1. \A n \in DOMAIN frames : frames[n] \in Frame => frames[n].stage \in Nat
      BY BoundsAssumption DEF Frame, Over
    <3>2. QED
      BY <1>0, <1>4, <3>1, DeliveryEffect, DebtKept
  <2>2. CASE /\ told' = told
             /\ \A i \in Listeners : Owes(frames'[n], i) <=> Owes(frames[n], i)
    <3>1. \A i \in Listeners : Debts(i)' = Debts(i)
      BY <2>1, <2>2 DEF Debts
    <3>2. QED
      BY <2>1, <2>2, <3>1, SameDebts
  <2>3. CASE Told(n, l)
    <3> SUFFICES ASSUME NEW i \in Listeners
                 PROVE  told'[i] + Cardinality(Debts(i)') = changes'
      BY DEF Tally
    <3>1. told[i] + Cardinality(Debts(i)) = changes /\ told[i] \in Nat /\ changes \in Nat
          /\ told \in [Listeners -> Nat] /\ Cardinality(Debts(i)) \in Nat
      BY <1>0, DebtsFinite DEF ToldInv, Tally, StackInv, TypeOK
    <3>2. CASE i # l
      <4>1. Owes(frames'[n], i) <=> Owes(frames[n], i)
        <5>1. i \in Nat /\ l \in Nat /\ 2 * l # 2 * i
          BY <3>2, BoundsAssumption DEF Listeners
        <5>2. QED
          BY <2>3, <5>1 DEF Owes
      <4>2. Debts(i)' = Debts(i)
        BY <2>1, <4>1 DEF Debts
      <4>3. QED
        BY <2>1, <2>3, <3>1, <3>2, <4>2
    <3>3. CASE i = l
      <4>1. Owes(frames[n], i) /\ ~Owes(frames'[n], i)
        BY <2>3, <3>3, BoundsAssumption DEF Owes, Listeners
      <4>2. Debts(i)' = Debts(i) \ {n} /\ n \in Debts(i)
        BY <2>1, <4>1 DEF Debts
      <4>3. Cardinality(Debts(i)') = Cardinality(Debts(i)) - 1
        BY <1>0, <4>2, DebtsFinite, FS_RemoveElement
      <4>4. told'[i] = told[i] + 1
        BY <2>3, <3>1, <3>3
      <4>5. QED
        BY <2>1, <3>1, <4>3, <4>4
    <3>4. QED
      BY <3>2, <3>3
  <2>4. QED
    BY <2>1, <2>2, <2>3
<1>5. ASSUME NEW t \in Tasks, EndDispatch(t)
      PROVE  Tally'
  <2>1. frames' = <<>> /\ Len(frames) = 1 /\ Top.stage = Over
        /\ UNCHANGED <<told, changes>>
    BY <1>5 DEF EndDispatch, heardVars
  <2>2. \A k \in DOMAIN frames : frames[k].stage = Over
    BY <1>0, <2>1 DEF StackInv, TypeOK, Top, Last
  <2>3. \A i \in Listeners : Debts(i) = {} /\ Debts(i)' = {}
    BY <2>1, <2>2, NothingOwed DEF Debts
  <2>4. QED
    BY <2>1, <2>3, SameDebts
<1>6. ASSUME NEW t \in Tasks, EndNestedDispatch(t)
      PROVE  Tally'
  <2>1. \A k \in DOMAIN frames : frames[k] \in Frame
    BY <1>0 DEF StackInv, TypeOK
  <2> DEFINE n == Len(frames) - 1
  <2>7. Len(frames) \in Nat /\ Len(frames) > 1
    BY <1>0, <1>6, StackEndNested
  <2>8. /\ n \in Nat \ {0} /\ 1 .. Len(frames) = (1 .. n) \cup {n + 1}
        /\ n + 1 \notin 1 .. n /\ n + 1 = Len(frames)
    <3>1. n \in Nat \ {0} /\ n + 1 = Len(frames)
      BY <2>7, Predecessor
    <3> HIDE DEF n
    <3>2. 1 .. n + 1 = (1 .. n) \cup {n + 1} /\ n + 1 \notin 1 .. n
      BY <3>1
    <3>3. QED
      BY <3>1, <3>2
  <2>2. /\ n \in Nat \ {0} /\ DOMAIN frames = (1 .. n) \cup {n + 1} /\ DOMAIN frames' = 1 .. n
        /\ n + 1 \notin 1 .. n /\ frames[n + 1].stage = Over
        /\ \A k \in 1 .. n : k # n => frames'[k] = frames[k]
        /\ \/ frames'[n] = frames[n]
           \/ /\ frames[n] \in Frame /\ frames[n].inside /\ frames[n].stage < Over
              /\ frames'[n] = Left(frames[n], TRUE)
        /\ UNCHANGED <<told, changes>>
    BY <1>0, <1>6, <2>8, StackEndNested
  <2> HIDE DEF n
  <2>3. frames[n].stage \in Nat
    BY <2>1, <2>2, BoundsAssumption DEF Frame, Over
  <2>4. \A i \in Listeners : Owes(frames'[n], i) <=> Owes(frames[n], i)
    BY <2>2, <2>3, LeftType, DebtKept
  <2>5. \A i \in Listeners : Debts(i)' = Debts(i)
    BY <2>2, <2>4, NothingOwed DEF Debts
  <2>6. QED
    BY <2>2, <2>5, SameDebts
<1>7. QED
  BY <1>1, <1>2, <1>3, <1>4, <1>5, <1>6 DEF Next, Continue, Delivery

(* When no dispatch is under way every listener has been told of every     *)
(* transition, whatever listeners changed or threw meanwhile.              *)
THEOREM TransitionsAreTold == Spec => []EveryTransitionTold
<1>1. ToldInv => EveryTransitionTold
  <2> SUFFICES ASSUME ToldInv, owner = Nobody, NEW i \in Listeners
               PROVE  told[i] = changes
    BY DEF EveryTransitionTold
  <2>1. frames = <<>>
    BY DEF ToldInv, StackInv, TypeOK
  <2>2. Debts(i) = {}
    BY <2>1 DEF Debts
  <2>3. told[i] + Cardinality({}) = changes /\ told[i] \in Nat
    BY <2>2 DEF ToldInv, Tally, StackInv, TypeOK
  <2>4. QED
    BY <2>3, FS_EmptySet
<1>2. QED
  BY <1>1, InitTold, ToldStep, PTL DEF Spec

-----------------------------------------------------------------------------
(* A listener that has not heard of the state the Thread is in is owed     *)
(* that event by a dispatch under way, unless there is no such event.      *)
EventOwed ==
  \A i \in Listeners :
    \/ heard[i] = state
    \/ i = 0 /\ state \in {"Uninitialized", "Terminating", "Destroyed"}
    \/ \E k \in DOMAIN frames : frames[k].new = state /\ OwesEvent(frames[k], i)

HeardInv == StackInv /\ EventOwed

LEMMA HeardStep == HeardInv /\ [Next]_vars => HeardInv'
<1> SUFFICES ASSUME HeardInv, [Next]_vars PROVE EventOwed'
  BY StackStep DEF HeardInv
<1>0. StackInv
  BY DEF HeardInv
<1>1. CASE UNCHANGED vars
  BY <1>1 DEF vars, callVars, heardVars, HeardInv, EventOwed
<1>2. ASSUME NEW t \in Tasks,
             \/ BeginInitialize(t)
             \/ ContinueInitialize(t)
             \/ \E s \in Requestable : Request(t, s)
      PROVE  EventOwed'
  <2>1. UNCHANGED <<frames, heard, state>>
    BY <1>2 DEF BeginInitialize, ContinueInitialize, Request, heardVars
  <2>2. QED
    BY <2>1 DEF HeardInv, EventOwed
<1>3. ASSUME NEW t \in Tasks, SetThreadState(t)
      PROVE  EventOwed'
  <2>1. CASE UNCHANGED <<state, changes, frames>>
    BY <1>0, <1>3, <2>1, StackSet DEF HeardInv, EventOwed
  <2>2. CASE state' = asked[t] /\ frames' = Append(frames, Fresh(asked[t]))
    <3>1. Len(frames) + 1 \in DOMAIN frames' /\ frames'[Len(frames) + 1] = Fresh(asked[t])
      BY <1>0, <2>2 DEF StackInv, TypeOK
    <3>2. QED
      BY <2>2, <3>1, AllOwed DEF EventOwed
  <2>3. QED
    BY <1>0, <1>3, <2>1, <2>2, StackSet
<1>4. ASSUME NEW t \in Tasks, Delivery(t)
      PROVE  EventOwed'
  <2>1. PICK n \in DOMAIN frames, l \in Listeners :
          /\ DOMAIN frames' = DOMAIN frames
          /\ \A k \in DOMAIN frames : k # n => frames'[k] = frames[k]
          /\ frames[n] \in Frame /\ frames'[n].new = frames[n].new /\ state' = state
          /\ \A i \in Listeners \ {l} :
               /\ OwesEvent(frames'[n], i) <=> OwesEvent(frames[n], i)
               /\ heard'[i] = heard[i]
          /\ \/ /\ OwesEvent(frames'[n], l) <=> OwesEvent(frames[n], l)
                /\ heard' = heard
             \/ heard'[l] = state
             \/ /\ state = frames[n].new =>
                     l = 0 /\ state \in {"Uninitialized", "Terminating", "Destroyed"}
                /\ heard' = heard
    <3>1. \A n \in DOMAIN frames : frames[n] \in Frame => frames[n].stage \in Nat
      BY BoundsAssumption DEF Frame, Over
    <3>2. heard \in [Listeners -> ThreadState]
      BY <1>0 DEF StackInv, TypeOK
    <3>3. QED
      BY <1>0, <1>4, <3>1, <3>2, DeliveryEffect, EventDebtKept
  <2> SUFFICES ASSUME NEW i \in Listeners
               PROVE  \/ heard'[i] = state'
                      \/ i = 0 /\ state' \in {"Uninitialized", "Terminating", "Destroyed"}
                      \/ \E k \in DOMAIN frames' :
                           frames'[k].new = state' /\ OwesEvent(frames'[k], i)
    BY DEF EventOwed
  <2>2. CASE heard[i] = state
    BY <2>1, <2>2
  <2>3. CASE i = 0 /\ state \in {"Uninitialized", "Terminating", "Destroyed"}
    BY <2>1, <2>3
  <2>4. ASSUME NEW k \in DOMAIN frames, frames[k].new = state, OwesEvent(frames[k], i)
        PROVE  \/ heard'[i] = state'
               \/ i = 0 /\ state' \in {"Uninitialized", "Terminating", "Destroyed"}
               \/ frames'[k].new = state' /\ OwesEvent(frames'[k], i)
    BY <2>1, <2>4
  <2>5. QED
    BY <2>1, <2>2, <2>3, <2>4 DEF HeardInv, EventOwed
<1>5. ASSUME NEW t \in Tasks, EndDispatch(t)
      PROVE  EventOwed'
  <2>1. Len(frames) = 1 /\ Top.stage = Over /\ UNCHANGED <<heard, state>>
    BY <1>5 DEF EndDispatch, heardVars
  <2>2. \A k \in DOMAIN frames : frames[k].stage = Over
    BY <1>0, <2>1 DEF StackInv, TypeOK, Top, Last
  <2>3. QED
    BY <2>1, <2>2, NothingOwed DEF HeardInv, EventOwed
<1>6. ASSUME NEW t \in Tasks, EndNestedDispatch(t)
      PROVE  EventOwed'
  <2> DEFINE n == Len(frames) - 1
  <2>1. Len(frames) \in Nat /\ Len(frames) > 1
    BY <1>0, <1>6, StackEndNested
  <2>2. n \in Nat \ {0} /\ n + 1 = Len(frames)
    BY <2>1, Predecessor
  <2>3. /\ DOMAIN frames = 1 .. n + 1 /\ DOMAIN frames' = 1 .. n
        /\ frames[n + 1].stage = Over
        /\ \A k \in 1 .. n : k # n => frames'[k] = frames[k]
        /\ \/ frames'[n] = frames[n]
           \/ /\ frames[n] \in Frame /\ frames[n].inside /\ frames[n].stage < Over
              /\ frames'[n] = Left(frames[n], TRUE)
        /\ UNCHANGED <<heard, state>>
    BY <1>0, <1>6, <2>2, StackEndNested
  <2> HIDE DEF n
  <2>4. frames[n] \in Frame => frames[n].stage \in Nat
    BY BoundsAssumption DEF Frame, Over
  <2>5. /\ \A i \in Listeners : OwesEvent(frames'[n], i) <=> OwesEvent(frames[n], i)
        /\ frames'[n].new = frames[n].new
    <3>1. CASE frames'[n] = frames[n]
      BY <3>1
    <3>2. CASE /\ frames[n] \in Frame /\ frames[n].inside /\ frames[n].stage < Over
               /\ frames'[n] = Left(frames[n], TRUE)
      <4>1. /\ frames'[n].stage = frames[n].stage + 1 /\ ~frames'[n].inside
            /\ frames'[n].new = frames[n].new /\ frames[n].stage \in Nat /\ 0 \in Listeners
        <5>1. 0 \in Listeners
          BY BoundsAssumption DEF Listeners
        <5>2. /\ Left(frames[n], TRUE).stage = frames[n].stage + 1
              /\ ~Left(frames[n], TRUE).inside /\ Left(frames[n], TRUE).new = frames[n].new
          BY <3>2, LeftType
        <5>3. QED
          BY <2>4, <3>2, <5>1, <5>2
      <4>2. QED
        BY <3>2, <4>1, EventDebtKept
    <3>3. QED
      BY <2>3, <3>1, <3>2
  <2>6. \A k \in 1 .. n + 1 : k \in 1 .. n \/ k = n + 1
    BY <2>2
  <2>7. QED
    BY <2>3, <2>5, <2>6, NothingOwed DEF HeardInv, EventOwed
<1>7. QED
  BY <1>1, <1>2, <1>3, <1>4, <1>5, <1>6 DEF Next, Continue, Delivery

(* When no dispatch is under way every listener last heard the event of    *)
(* the state the Thread is in, if that state has one.                      *)
THEOREM ObsoleteIsSuppressed == Spec => []LastEventIsCurrent
<1>1. Init => HeardInv
  BY InitStack DEF Init, HeardInv, EventOwed
<1>2. HeardInv => LastEventIsCurrent
  BY DEF HeardInv, StackInv, TypeOK, EventOwed, LastEventIsCurrent
<1>3. QED
  BY <1>1, <1>2, HeardStep, PTL DEF Spec
=============================================================================
