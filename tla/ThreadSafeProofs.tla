-------------------------- MODULE ThreadSafeProofs --------------------------
(***************************************************************************)
(* Proofs about ThreadSafe, for any callers, any number of values and      *)
(* calls, and for a lock whose shared side admits several callers or one.  *)
(***************************************************************************)
EXTENDS ThreadSafe, TLAPS

(* Which call can be where, and what it holds there.                       *)
Inside == {"low", "high", "compare", "load", "storeLow", "storeHigh", "unlock"}
OpAt ==
  \A c \in Callers :
    /\ pc[c] \in {"low", "high"} => op[c] \in Reads
    /\ pc[c] = "compare" => op[c] \in Sets
    /\ pc[c] = "load" => op[c] \in Updates
    /\ pc[c] \in {"storeLow", "storeHigh"} => op[c] \in Sets \cup Updates
Holds ==
  \A c \in Callers : pc[c] \in Inside =>
    IF op[c] \in TakesShared THEN c \in sharers ELSE owner = c

LockInv == TypeOK /\ OpAt /\ Holds

(* Nobody is inside with a caller that writes.                             *)
Writing == {"compare", "load", "storeLow", "storeHigh"}
LEMMA WritersExclude ==
  ASSUME LockInv, NEW c \in Callers, NEW d \in Callers, pc[c] \in Writing, pc[d] \in Inside
  PROVE  d = c
  BY NothingAssumption
     DEF LockInv, TypeOK, OpAt, Holds, Writing, Inside, TakesShared, Reads, Sets, Updates

LEMMA SuccType == \A v \in Values : Succ(v) \in Values
  BY SizeAssumption DEF Succ, Values

LEMMA InitLock == Init => LockInv
  BY SizeAssumption, NothingAssumption
     DEF Init, LockInv, TypeOK, OpAt, Holds, Inside, Values, Labels, Operations, Reads

LEMMA LockCall ==
  ASSUME LockInv, NEW c \in Callers, NEW o \in Operations, Call(c, o)
  PROVE  LockInv'
<1>1. arg' \in [Callers -> Values] /\ calls' \in 0 .. MaxCalls
  BY SizeAssumption DEF Call, LockInv, TypeOK
<1>2. /\ pc' = [pc EXCEPT ![c] = "lock"] /\ op' = [op EXCEPT ![c] = o]
      /\ UNCHANGED <<low, high, owner, sharers, old, copy, change>>
  BY DEF Call, Step, words, lock
<1>3. TypeOK'
  BY <1>1, <1>2 DEF LockInv, TypeOK, Labels
<1>4. OpAt' /\ Holds'
  BY <1>2 DEF LockInv, TypeOK, OpAt, Holds, Inside
<1>5. QED
  BY <1>3, <1>4 DEF LockInv

LEMMA LockContinue ==
  ASSUME LockInv, NEW c \in Callers, Continue(c)
  PROVE  LockInv'
<1> USE DEF LockInv, Step, words, lock
<1>1. CASE Lock(c)
  <2>1. /\ pc' = [pc EXCEPT ![c] = Body(op[c])] /\ op[c] \in Operations
        /\ UNCHANGED <<low, high, op, arg, old, copy, change, calls>>
    BY <1>1 DEF Lock, TypeOK
  <2>2. /\ Body(op[c]) \in {"low", "compare", "load", "unlock"}
        /\ Body(op[c]) = "low" => op[c] \in Reads
        /\ Body(op[c]) = "compare" => op[c] \in Sets
        /\ Body(op[c]) = "load" => op[c] \in Updates
    BY <2>1 DEF Body, Operations, Reads, Sets, Updates, Probes
  <2>3. /\ owner = Nothing
        /\ \/ op[c] \in TakesShared /\ sharers' = sharers \cup {c} /\ owner' = owner
           \/ op[c] \notin TakesShared /\ owner' = c /\ sharers' = sharers /\ sharers = {}
    BY <1>1 DEF Lock, Grantable
  <2>4. TypeOK'
    BY <2>1, <2>2, <2>3, NothingAssumption DEF TypeOK, Labels
  <2>5. OpAt'
    BY <2>1, <2>2 DEF TypeOK, OpAt
  <2>6. Holds'
    BY <2>1, <2>3, NothingAssumption DEF TypeOK, Holds, Inside
  <2>7. QED
    BY <2>4, <2>5, <2>6
<1>2. CASE GiveUp(c)
  BY <1>2, SizeAssumption DEF GiveUp, TypeOK, OpAt, Holds, Inside, Labels, Values
<1>3. CASE CopyLow(c) \/ CopyHigh(c)
  <2>1. copy' \in [Callers -> Values \X Values]
    BY <1>3 DEF CopyLow, CopyHigh, TypeOK
  <2>2. QED
    BY <1>3, <2>1 DEF CopyLow, CopyHigh, TypeOK, OpAt, Holds, Inside, Labels
<1>4. CASE Compare(c)
  BY <1>4 DEF Compare, TypeOK, OpAt, Holds, Inside, Labels
<1>5. CASE Load(c)
  BY <1>5, SuccType DEF Load, TypeOK, OpAt, Holds, Inside, Labels
<1>6. CASE StoreLow(c)
  BY <1>6 DEF StoreLow, TypeOK, OpAt, Holds, Inside, Labels
<1>7. CASE StoreHigh(c)
  <2>1. change' \in [Callers -> (Values \X Values) \cup {Nothing}]
    BY <1>7 DEF StoreHigh, TypeOK
  <2>2. QED
    BY <1>7, <2>1 DEF StoreHigh, TypeOK, OpAt, Holds, Inside, Labels
<1>8. CASE Unlock(c)
  <2>1. /\ arg' \in [Callers -> Values] /\ old' \in [Callers -> Values]
        /\ copy' \in [Callers -> Values \X Values] /\ pc' \in [Callers -> Labels]
    BY <1>8, SizeAssumption DEF Unlock, TypeOK, Labels, Values
  <2>2. /\ owner' = IF owner = c THEN Nothing ELSE owner
        /\ sharers' = sharers \ {c} /\ pc'[c] \in {"idle", "notify"}
        /\ \A d \in Callers \ {c} : pc'[d] = pc[d]
        /\ UNCHANGED <<low, high, op, change, calls>>
    BY <1>8 DEF Unlock, HeldOnNotify, TypeOK
  <2>3. TypeOK'
    BY <2>1, <2>2 DEF TypeOK
  <2>4. OpAt' /\ Holds'
    BY <2>2 DEF OpAt, Holds, Inside
  <2>5. QED
    BY <2>3, <2>4
<1>9. CASE Notify(c)
  BY <1>9 DEF Notify, TypeOK, OpAt, Holds, Inside, Labels, Operations, Reads
<1>10. QED
  BY <1>1, <1>2, <1>3, <1>4, <1>5, <1>6, <1>7, <1>8, <1>9 DEF Continue

LEMMA LockStep == LockInv /\ [Next]_vars => LockInv'
<1>1. CASE UNCHANGED vars
  BY <1>1 DEF vars, words, lock, LockInv, TypeOK, OpAt, Holds
<1>2. QED
  BY <1>1, LockCall, LockContinue DEF Next

(* The fields of a value and of its lock keep their types; nobody shares a *)
(* lock that somebody owns.                                                *)
THEOREM TypeCorrect == Spec => []TypeOK
<1>1. LockInv => TypeOK
  BY DEF LockInv
<1>2. QED
  BY <1>1, InitLock, LockStep, PTL DEF Spec

-----------------------------------------------------------------------------
(* The two words differ only while a caller is between its two stores, and *)
(* that caller knows both; a reader half-way holds the first word as it is *)
(* still.                                                                  *)
Whole == Halfway = {} => low = high
Planned(c) ==
  /\ op[c] \in Sets => arg[c] # old[c]
  /\ op[c] \in Updates => arg[c] = Succ(old[c])
Writers ==
  \A c \in Callers :
    /\ pc[c] = "storeLow" => old[c] = low /\ Planned(c)
    /\ pc[c] = "storeHigh" => old[c] = high /\ arg[c] = low /\ Planned(c)
HalfRead == \A c \in Callers : pc[c] = "high" => copy[c][1] = low
Changed ==
  \A c \in Callers : change[c] # Nothing => pc[c] \in {"unlock", "notify"} /\ op[c] \in Sets

ValueInv == LockInv /\ Whole /\ Writers /\ HalfRead /\ Changed

LEMMA InitValue == Init => ValueInv
  BY InitLock DEF Init, ValueInv, Whole, Writers, HalfRead, Changed

(* While somebody writes or reads inside, nobody else is half-way.         *)
LEMMA HalfwayAlone ==
  ASSUME LockInv, NEW c \in Callers, pc[c] \in Inside
  PROVE  Halfway = IF pc[c] = "storeHigh" THEN {c} ELSE {}
<1>1. \A d \in Halfway : d = c
  <2> SUFFICES ASSUME NEW d \in Halfway PROVE d = c
    OBVIOUS
  <2>1. d \in Callers /\ pc[d] \in Writing
    BY DEF Halfway, Writing
  <2>2. QED
    BY <2>1, WritersExclude
<1>2. QED
  BY <1>1 DEF Halfway

(* A step of a caller that neither writes nor copies keeps the invariant.  *)
LEMMA ValueContinue ==
  ASSUME ValueInv, NEW c \in Callers, Continue(c)
  PROVE  Whole' /\ Writers' /\ HalfRead' /\ Changed'
<1> USE DEF ValueInv, Step, words, lock
<1>0. \A d \in Callers : pc[c] \in Writing /\ pc[d] \in Inside => d = c
  BY WritersExclude
<1>1. CASE Lock(c) \/ GiveUp(c) \/ Notify(c)
  <2>1. /\ UNCHANGED <<low, high, old, copy>>
        /\ pc[c] \in {"lock", "notify"}
        /\ pc'[c] \in {"low", "compare", "load", "unlock", "idle", "lock"}
        /\ \A d \in Callers \ {c} :
             /\ pc'[d] = pc[d] /\ op'[d] = op[d] /\ arg'[d] = arg[d] /\ change'[d] = change[d]
        /\ change'[c] # Nothing => change[c] # Nothing /\ pc[c] = "lock"
    BY <1>1 DEF Lock, Body, GiveUp, Notify, LockInv, TypeOK, Operations
  <2>2. Halfway' = Halfway
    BY <2>1 DEF Halfway
  <2>3. QED
    BY <2>1, <2>2 DEF Whole, Writers, Planned, HalfRead, Changed
<1>2. CASE CopyLow(c)
  <2>1. /\ UNCHANGED <<low, high, old, op, arg, change>> /\ pc[c] = "low" /\ pc'[c] = "high"
        /\ copy'[c][1] = low
        /\ \A d \in Callers \ {c} : pc'[d] = pc[d] /\ copy'[d] = copy[d]
    BY <1>2 DEF CopyLow, LockInv, TypeOK
  <2>2. Halfway' = Halfway
    BY <2>1 DEF Halfway
  <2>3. QED
    BY <2>1, <2>2 DEF Whole, Writers, Planned, HalfRead, Changed
<1>3. CASE CopyHigh(c)
  <2>1. /\ UNCHANGED <<low, high, old, op, arg, change>> /\ pc[c] = "high" /\ pc'[c] = "unlock"
        /\ \A d \in Callers \ {c} : pc'[d] = pc[d] /\ copy'[d] = copy[d]
    BY <1>3 DEF CopyHigh, LockInv, TypeOK
  <2>2. Halfway' = Halfway
    BY <2>1 DEF Halfway
  <2>3. QED
    BY <2>1, <2>2 DEF Whole, Writers, Planned, HalfRead, Changed
<1>4. CASE Compare(c) \/ Load(c)
  <2>1. /\ UNCHANGED <<low, high, op, copy, change>> /\ pc[c] \in {"compare", "load"}
        /\ pc'[c] \in {"unlock", "storeLow"} /\ old'[c] = low
        /\ pc'[c] = "storeLow" => Planned(c)'
        /\ \A d \in Callers \ {c} : pc'[d] = pc[d] /\ old'[d] = old[d] /\ arg'[d] = arg[d]
    BY <1>4 DEF Compare, Load, Planned, LockInv, TypeOK, OpAt, Sets, Updates
  <2>2. Halfway' = Halfway
    BY <2>1 DEF Halfway
  <2>3. QED
    BY <2>1, <2>2 DEF Whole, Writers, Planned, HalfRead, Changed
<1>5. CASE StoreLow(c)
  <2>1. /\ UNCHANGED <<high, op, arg, old, copy, change>> /\ pc[c] = "storeLow"
        /\ pc'[c] = "storeHigh" /\ low' = arg[c]
        /\ \A d \in Callers \ {c} : pc'[d] = pc[d]
    BY <1>5 DEF StoreLow, LockInv, TypeOK
  <2>2. \A d \in Callers \ {c} : pc[d] \notin Inside
    BY <1>0, <2>1 DEF Writing
  <2>3. Halfway = {} /\ c \in Halfway'
    BY <2>1, HalfwayAlone DEF Halfway, Inside
  <2>4. QED
    BY <2>1, <2>2, <2>3 DEF Whole, Writers, Planned, HalfRead, Changed, Inside
<1>6. CASE StoreHigh(c)
  <2>1. /\ UNCHANGED <<low, op, arg, old, copy>> /\ pc[c] = "storeHigh"
        /\ pc'[c] = "unlock" /\ high' = arg[c]
        /\ \A d \in Callers \ {c} : pc'[d] = pc[d] /\ change'[d] = change[d]
        /\ change'[c] # Nothing => change[c] # Nothing \/ op[c] \in Sets
    BY <1>6 DEF StoreHigh, LockInv, TypeOK
  <2>2. \A d \in Callers \ {c} : pc[d] \notin Inside
    BY <1>0, <2>1 DEF Writing
  <2>3. low' = high'
    BY <2>1 DEF Writers
  <2>4. QED
    BY <2>1, <2>2, <2>3 DEF Whole, Writers, Planned, HalfRead, Changed, Inside
<1>7. CASE Unlock(c)
  <2>1. /\ UNCHANGED <<low, high, op, change>> /\ pc[c] = "unlock"
        /\ pc'[c] = IF change[c] = Nothing THEN "idle" ELSE "notify"
        /\ \A d \in Callers \ {c} :
             pc'[d] = pc[d] /\ copy'[d] = copy[d] /\ old'[d] = old[d] /\ arg'[d] = arg[d]
    BY <1>7 DEF Unlock, LockInv, TypeOK
  <2>2. Halfway' = Halfway
    BY <2>1 DEF Halfway
  <2>3. QED
    BY <2>1, <2>2 DEF Whole, Writers, Planned, HalfRead, Changed
<1>8. QED
  BY <1>1, <1>2, <1>3, <1>4, <1>5, <1>6, <1>7 DEF Continue

LEMMA ValueStep == ValueInv /\ [Next]_vars => ValueInv'
<1> SUFFICES ASSUME ValueInv, [Next]_vars
             PROVE  Whole' /\ Writers' /\ HalfRead' /\ Changed'
  BY LockStep DEF ValueInv
<1>1. ASSUME NEW c \in Callers, NEW o \in Operations, Call(c, o)
      PROVE  Whole' /\ Writers' /\ HalfRead' /\ Changed'
  <2>1. /\ UNCHANGED <<low, high, old, copy, change>> /\ pc[c] = "idle" /\ pc'[c] = "lock"
        /\ \A d \in Callers \ {c} : pc'[d] = pc[d] /\ op'[d] = op[d] /\ arg'[d] = arg[d]
    BY <1>1 DEF Call, Step, words, lock, ValueInv, LockInv, TypeOK
  <2>2. Halfway' = Halfway
    BY <2>1 DEF Halfway
  <2>3. QED
    BY <2>1, <2>2 DEF ValueInv, Whole, Writers, Planned, HalfRead, Changed
<1>2. CASE UNCHANGED vars
  BY <1>2 DEF vars, words, ValueInv, Whole, Halfway, Writers, Planned, HalfRead, Changed
<1>3. QED
  BY <1>1, <1>2, ValueContinue DEF Next

-----------------------------------------------------------------------------
(* The refinement mapping, by name.                                        *)
valueOf == IF Halfway = {} THEN <<low, high>>
           ELSE LET v == old[CHOOSE c \in Halfway : TRUE] IN <<v, v>>
seenBy == [c \in Callers |-> IF pc[c] = "unlock" /\ op[c] \in Reads THEN copy[c] ELSE Nothing]
changeOf == [c \in Callers |->
               IF change[c] = Nothing THEN Nothing
               ELSE <<<<change[c][1], change[c][1]>>, <<change[c][2], change[c][2]>>>>]

LEMMA ValueInit == Init => Value!Init
<1> SUFFICES ASSUME Init PROVE Value!Init
  OBVIOUS
<1>1. Halfway = {} /\ low \in Values /\ high \in Values
  BY SizeAssumption DEF Init, Halfway, Values
<1>2. QED
  BY <1>1 DEF Init, Value!Init

(* The steps of AtomicValue, in terms of the mapping.                      *)
LEMMA AbstractSteps ==
  /\ \A c \in Callers :
       seenBy[c] = Nothing /\ seenBy' = [seenBy EXCEPT ![c] = valueOf]
       /\ UNCHANGED <<valueOf, changeOf>> => Value!Next
  /\ \A c \in Callers :
       seenBy' = [seenBy EXCEPT ![c] = Nothing] /\ UNCHANGED <<valueOf, changeOf>> => Value!Next
  /\ \A c \in Callers :
       changeOf' = [changeOf EXCEPT ![c] = Nothing] /\ UNCHANGED <<valueOf, seenBy>> => Value!Next
  /\ \A c \in Callers, v \in Values :
       /\ changeOf[c] = Nothing /\ <<v, v>> # valueOf /\ valueOf' = <<v, v>>
       /\ changeOf' = [changeOf EXCEPT ![c] = <<valueOf, <<v, v>>>>] /\ seenBy' = seenBy
       => Value!Next
  /\ valueOf' = <<Succ(valueOf[1]), Succ(valueOf[2])>> /\ UNCHANGED <<seenBy, changeOf>>
       => Value!Next
<1> USE DEF valueOf, seenBy, changeOf
<1>1. ASSUME NEW c \in Callers, seenBy[c] = Nothing, seenBy' = [seenBy EXCEPT ![c] = valueOf],
             UNCHANGED <<valueOf, changeOf>>
      PROVE  Value!Next
  BY <1>1 DEF Value!Next, Value!Read
<1>2. ASSUME NEW c \in Callers, seenBy' = [seenBy EXCEPT ![c] = Nothing],
             UNCHANGED <<valueOf, changeOf>>
      PROVE  Value!Next
  BY <1>2 DEF Value!Next, Value!Return
<1>3. ASSUME NEW c \in Callers, changeOf' = [changeOf EXCEPT ![c] = Nothing],
             UNCHANGED <<valueOf, seenBy>>
      PROVE  Value!Next
  BY <1>3 DEF Value!Next, Value!Report
<1>4. ASSUME NEW c \in Callers, NEW v \in Values, changeOf[c] = Nothing, <<v, v>> # valueOf,
             valueOf' = <<v, v>>, changeOf' = [changeOf EXCEPT ![c] = <<valueOf, <<v, v>>>>],
             seenBy' = seenBy
      PROVE  Value!Next
  <2>1. Value!Set(c, <<v, v>>)
    BY <1>4 DEF Value!Set
  <2>2. QED
    BY <2>1 DEF Value!Next
<1>5. ASSUME valueOf' = <<Succ(valueOf[1]), Succ(valueOf[2])>>, UNCHANGED <<seenBy, changeOf>>
      PROVE  Value!Next
  BY <1>5 DEF Value!Next, Value!Update
<1>6. QED
  BY <1>1, <1>2, <1>3, <1>4, <1>5

(* What each step of a caller is in AtomicValue: a write takes effect with *)
(* its second store, a read with its second copy.                          *)
LEMMA Simulated ==
  ASSUME ValueInv, NEW c \in Callers, Continue(c)
  PROVE  UNCHANGED <<valueOf, seenBy, changeOf>> \/ Value!Next
<1> USE DEF ValueInv, LockInv, Step, words, lock
<1>1. CASE Lock(c) \/ GiveUp(c)
  <2>1. /\ UNCHANGED <<low, high, old, op, copy, change>> /\ pc[c] = "lock"
        /\ pc'[c] # "storeHigh" /\ (op[c] \in Reads => pc'[c] # "unlock")
        /\ \A d \in Callers \ {c} : pc'[d] = pc[d]
    BY <1>1 DEF Lock, GiveUp, Body, TypeOK, Operations, Reads, Sets, Updates, Probes
  <2>2. Halfway' = Halfway
    BY <2>1 DEF Halfway
  <2>3. QED
    BY <2>1, <2>2 DEF valueOf, seenBy, changeOf
<1>2. CASE CopyLow(c)
  <2>1. /\ UNCHANGED <<low, high, old, op, change>> /\ pc[c] = "low" /\ pc'[c] = "high"
        /\ \A d \in Callers \ {c} : pc'[d] = pc[d] /\ copy'[d] = copy[d]
    BY <1>2 DEF CopyLow, TypeOK
  <2>2. Halfway' = Halfway
    BY <2>1 DEF Halfway
  <2>3. QED
    BY <2>1, <2>2 DEF valueOf, seenBy, changeOf
<1>3. CASE CopyHigh(c)
  <2>1. /\ UNCHANGED <<low, high, old, op, change>> /\ pc[c] = "high" /\ pc'[c] = "unlock"
        /\ op[c] \in Reads /\ copy'[c] = <<copy[c][1], high>>
        /\ \A d \in Callers \ {c} : pc'[d] = pc[d] /\ copy'[d] = copy[d]
    BY <1>3 DEF CopyHigh, TypeOK, OpAt
  <2>2. Halfway = {} /\ Halfway' = {}
    BY <2>1, HalfwayAlone DEF Halfway, Inside
  <2>3. copy'[c] = valueOf /\ UNCHANGED <<valueOf, changeOf>>
    BY <2>1, <2>2 DEF HalfRead, Whole, valueOf, changeOf
  <2>4. seenBy[c] = Nothing /\ seenBy' = [seenBy EXCEPT ![c] = valueOf]
    BY <2>1, <2>3 DEF seenBy
  <2>5. QED
    BY <2>3, <2>4, AbstractSteps
<1>4. CASE Compare(c) \/ Load(c)
  <2>1. /\ UNCHANGED <<low, high, op, copy, change>> /\ pc[c] \in {"compare", "load"}
        /\ pc'[c] \in {"unlock", "storeLow"} /\ op[c] \notin Reads
        /\ \A d \in Callers \ {c} : pc'[d] = pc[d]
    BY <1>4 DEF Compare, Load, TypeOK, OpAt, Reads, Sets, Updates
  <2>2. Halfway = {} /\ Halfway' = {}
    BY <2>1, HalfwayAlone DEF Halfway, Inside
  <2>3. QED
    BY <2>1, <2>2 DEF valueOf, seenBy, changeOf
<1>5. CASE StoreLow(c)
  <2>1. /\ UNCHANGED <<high, op, old, copy, change>> /\ pc[c] = "storeLow"
        /\ pc'[c] = "storeHigh" /\ old[c] = low
        /\ \A d \in Callers \ {c} : pc'[d] = pc[d]
    BY <1>5 DEF StoreLow, TypeOK, Writers
  <2>2. Halfway = {} /\ Halfway' = {c}
    BY <2>1, HalfwayAlone DEF Halfway, Inside
  <2>3. valueOf' = <<old[c], old[c]>> /\ valueOf = <<low, low>>
    BY <2>1, <2>2 DEF valueOf, Whole
  <2>4. QED
    BY <2>1, <2>3 DEF seenBy, changeOf
<1>6. CASE StoreHigh(c)
  <2>1. /\ UNCHANGED <<low, op, copy>> /\ pc[c] = "storeHigh" /\ low = arg[c]
        /\ pc'[c] = "unlock" /\ high' = arg[c] /\ Planned(c) /\ op[c] \in Sets \cup Updates
        /\ arg[c] \in Values /\ old[c] \in Values
        /\ change' = IF op[c] \in Sets THEN [change EXCEPT ![c] = <<old[c], arg[c]>>] ELSE change
        /\ \A d \in Callers \ {c} : pc'[d] = pc[d]
    BY <1>6 DEF StoreHigh, TypeOK, Writers, OpAt
  <2>2. Halfway = {c} /\ Halfway' = {}
    BY <2>1, HalfwayAlone DEF Halfway, Inside
  <2>3. valueOf = <<old[c], old[c]>> /\ valueOf' = <<arg[c], arg[c]>>
    BY <2>1, <2>2 DEF valueOf
  <2>4. seenBy' = seenBy
    BY <2>1 DEF seenBy, Reads, Sets, Updates
  <2>5. changeOf[c] = Nothing
    BY <2>1 DEF changeOf, Changed
  <2>6. CASE op[c] \in Sets
    <3>1. change' = [change EXCEPT ![c] = <<old[c], arg[c]>>] /\ arg[c] # old[c]
      BY <2>1, <2>6 DEF Planned
    <3>2. <<old[c], arg[c]>> # Nothing
      BY <2>1, NothingAssumption DEF Values
    <3>3. changeOf' = [changeOf EXCEPT ![c] = <<valueOf, <<arg[c], arg[c]>>>>]
      BY <2>3, <3>1, <3>2 DEF changeOf, TypeOK
    <3>4. QED
      BY <2>1, <2>3, <2>4, <2>5, <3>1, <3>3, AbstractSteps
  <2>7. CASE op[c] \in Updates
    <3>1. change' = change /\ arg[c] = Succ(old[c])
      BY <2>1, <2>7 DEF Planned, Sets, Updates
    <3>2. changeOf' = changeOf
      BY <3>1 DEF changeOf
    <3>3. valueOf' = <<Succ(valueOf[1]), Succ(valueOf[2])>>
      BY <2>3, <3>1
    <3>4. QED
      BY <2>4, <3>2, <3>3, AbstractSteps
  <2>8. QED
    BY <2>1, <2>6, <2>7
<1>7. CASE Unlock(c)
  <2>1. /\ UNCHANGED <<low, high, op, change>> /\ pc[c] = "unlock" /\ pc'[c] \in {"idle", "notify"}
        /\ \A d \in Callers \ {c} : pc'[d] = pc[d] /\ copy'[d] = copy[d] /\ old'[d] = old[d]
    BY <1>7 DEF Unlock, TypeOK
  <2>2. Halfway = {} /\ Halfway' = {}
    BY <2>1, HalfwayAlone DEF Halfway, Inside
  <2>3. UNCHANGED <<valueOf, changeOf>>
    BY <2>1, <2>2 DEF valueOf, changeOf
  <2>4. seenBy' = [seenBy EXCEPT ![c] = Nothing]
    BY <2>1 DEF seenBy
  <2>5. QED
    BY <2>3, <2>4, AbstractSteps
<1>8. CASE Notify(c)
  <2>1. /\ UNCHANGED <<low, high, old, copy>> /\ pc[c] = "notify" /\ pc'[c] = "lock"
        /\ change' = [change EXCEPT ![c] = Nothing]
        /\ \A d \in Callers \ {c} : pc'[d] = pc[d] /\ op'[d] = op[d]
    BY <1>8 DEF Notify, TypeOK
  <2>2. Halfway' = Halfway
    BY <2>1 DEF Halfway
  <2>3. UNCHANGED <<valueOf, seenBy>>
    BY <2>1, <2>2 DEF valueOf, seenBy
  <2>4. changeOf' = [changeOf EXCEPT ![c] = Nothing]
    BY <2>1 DEF changeOf, TypeOK
  <2>5. QED
    BY <2>3, <2>4, AbstractSteps
<1>9. QED
  BY <1>1, <1>2, <1>3, <1>4, <1>5, <1>6, <1>7, <1>8 DEF Continue

(* A thread-safe value implements AtomicValue: no read is torn, no update  *)
(* is lost, and OnChange is told of each assignment's change as it was     *)
(* made, whether the shared lock admits several callers or one.            *)
THEOREM Refinement == Spec => ImplementsAtomicValue
<1>1. Init => ValueInv /\ Value!Init
  BY InitValue, ValueInit
<1>2. ValueInv /\ [Next]_vars => ValueInv'
  BY ValueStep
<1>3. ValueInv /\ [Next]_vars => [Value!Next]_(Value!vars)
  <2> SUFFICES ASSUME ValueInv, [Next]_vars
               PROVE  UNCHANGED <<valueOf, seenBy, changeOf>> \/ Value!Next
    BY DEF Value!vars, valueOf, seenBy, changeOf
  <2>1. ASSUME NEW c \in Callers, NEW o \in Operations, Call(c, o)
        PROVE  UNCHANGED <<valueOf, seenBy, changeOf>>
    <3>1. /\ UNCHANGED <<low, high, old, copy, change>> /\ pc[c] = "idle" /\ pc'[c] = "lock"
          /\ \A d \in Callers \ {c} : pc'[d] = pc[d] /\ op'[d] = op[d]
      BY <2>1 DEF Call, Step, words, lock, ValueInv, LockInv, TypeOK
    <3>2. Halfway' = Halfway
      BY <3>1 DEF Halfway
    <3>3. QED
      BY <3>1, <3>2 DEF valueOf, seenBy, changeOf
  <2>2. CASE UNCHANGED vars
    BY <2>2 DEF vars, words, Halfway, valueOf, seenBy, changeOf
  <2>3. QED
    BY <2>1, <2>2, Simulated DEF Next
<1>4. QED
  BY <1>1, <1>2, <1>3, PTL DEF Spec, ImplementsAtomicValue, Value!Spec
=============================================================================
