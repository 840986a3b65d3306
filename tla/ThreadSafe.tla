----------------------------- MODULE ThreadSafe -----------------------------
(***************************************************************************)
(* Mutex<T> and ReadWriteMutex<T>: a value of two words behind a lock, and *)
(* the callers that read, assign, update and probe it.  A word is read or  *)
(* written in one step, so what the lock does not exclude is seen torn.    *)
(*                                                                         *)
(* The two classes differ in what their shared lock admits (constant       *)
(* Shared); on the ESP32 provider it admits one caller in both.  The       *)
(* callbacks of WithSharedReadLock read like Get, those of WithReadLock    *)
(* and WithWriteLock update the value, and OnChange, which is set, reads   *)
(* the value back.                                                         *)
(***************************************************************************)
EXTENDS Naturals

CONSTANTS
  Callers,   \* the tasks that use the value
  Nothing,   \* no value, no change
  MaxCalls,  \* bound: calls in all
  Size,      \* the values are 0 .. Size - 1
  Shared     \* several callers may hold the shared lock

ASSUME SizeAssumption == Size \in Nat \ {0} /\ MaxCalls \in Nat
ASSUME SharedAssumption == Shared \in BOOLEAN
ASSUME NothingAssumption == Nothing \notin Callers /\ Nothing \notin (0 .. Size - 1) \X (0 .. Size - 1)

VARIABLES
  low, high,         \* the two words of _value
  owner, sharers,    \* holders of the lock, exclusive and shared
  pc, op, arg,       \* each caller: its next step, its call, the argument
  old,               \* the value found under the exclusive lock
  copy,              \* the words copied under the shared lock
  change,            \* <<old, new>> for OnChange
  calls              \* how many calls have been made

lock == <<owner, sharers>>
words == <<low, high>>
vars == <<words, lock, pc, op, arg, old, copy, change, calls>>

Values == 0 .. Size - 1
Succ(v) == (v + 1) % Size

Reads == {"Get", "TryGet"}          \* and WithSharedReadLock, TryWithSharedReadLock
Sets == {"Set", "TrySet"}
Updates == {"WithLock", "TryWithLock"}  \* With and TryWith, ReadLock and WriteLock
Probes == {"IsLockedRead", "IsLockedWrite"}
Operations == Reads \cup Sets \cup Updates \cup Probes

(* Mutant: the callback of WithReadLock is given a shared lock. *)
ReadLockShared == {"Get", "TryGet", "IsLockedRead", "WithLock"}
TakesShared == {"Get", "TryGet", "IsLockedRead"}
OnlyTries == {"TryGet", "TrySet", "TryWithLock"} \cup Probes

Labels == {"idle", "lock", "low", "high", "compare", "load", "storeLow", "storeHigh",
           "unlock", "notify"}

TypeOK ==
  /\ low \in Values /\ high \in Values
  /\ owner \in Callers \cup {Nothing} /\ sharers \subseteq Callers
  /\ owner # Nothing => sharers = {}
  /\ pc \in [Callers -> Labels] /\ op \in [Callers -> Operations]
  /\ arg \in [Callers -> Values] /\ old \in [Callers -> Values]
  /\ copy \in [Callers -> Values \X Values]
  /\ change \in [Callers -> (Values \X Values) \cup {Nothing}]
  /\ calls \in 0 .. MaxCalls

Init ==
  /\ low = 0 /\ high = 0 /\ owner = Nothing /\ sharers = {}
  /\ pc = [c \in Callers |-> "idle"] /\ op = [c \in Callers |-> "Get"]
  /\ arg = [c \in Callers |-> 0] /\ old = [c \in Callers |-> 0]
  /\ copy = [c \in Callers |-> <<0, 0>>] /\ change = [c \in Callers |-> Nothing]
  /\ calls = 0

-----------------------------------------------------------------------------
Step(c, from, to) == pc[c] = from /\ pc' = [pc EXCEPT ![c] = to]

Call(c, o) ==
  /\ calls < MaxCalls /\ calls' = calls + 1
  /\ Step(c, "idle", "lock") /\ op' = [op EXCEPT ![c] = o]
  /\ IF o \in Sets THEN \E v \in Values : arg' = [arg EXCEPT ![c] = v] ELSE UNCHANGED arg
  /\ UNCHANGED <<words, lock, old, copy, change>>

Grantable(c) ==
  /\ owner = Nothing
  /\ sharers = {} \/ (Shared /\ op[c] \in TakesShared)

Body(o) ==
  CASE o \in Reads -> "low" [] o \in Sets -> "compare"
    [] o \in Updates -> "load" [] o \in Probes -> "unlock"

Lock(c) ==
  /\ Grantable(c) /\ Step(c, "lock", Body(op[c]))
  /\ IF op[c] \in TakesShared
       THEN sharers' = sharers \cup {c} /\ UNCHANGED owner
       ELSE owner' = c /\ UNCHANGED sharers
  /\ UNCHANGED <<words, op, arg, old, copy, change, calls>>

(* A call that only tries gives up; a probe answers that it is locked.     *)
GiveUp(c) ==
  /\ op[c] \in OnlyTries /\ ~Grantable(c) /\ Step(c, "lock", "idle")
  /\ arg' = [arg EXCEPT ![c] = 0]
  /\ UNCHANGED <<words, lock, op, old, copy, change, calls>>

CopyLow(c) ==
  /\ Step(c, "low", "high") /\ copy' = [copy EXCEPT ![c] = <<low, @[2]>>]
  /\ UNCHANGED <<words, lock, op, arg, old, change, calls>>

CopyHigh(c) ==
  /\ Step(c, "high", "unlock") /\ copy' = [copy EXCEPT ![c] = <<@[1], high>>]
  /\ UNCHANGED <<words, lock, op, arg, old, change, calls>>

(* Set does nothing when the value is the one it has.                      *)
Compare(c) ==
  /\ Step(c, "compare", IF low = arg[c] THEN "unlock" ELSE "storeLow")
  /\ old' = [old EXCEPT ![c] = low]
  /\ UNCHANGED <<words, lock, op, arg, copy, change, calls>>

(* The callback of WithReadLock or WithWriteLock, or of a Try of it.       *)
Load(c) ==
  /\ Step(c, "load", "storeLow")
  /\ old' = [old EXCEPT ![c] = low] /\ arg' = [arg EXCEPT ![c] = Succ(low)]
  /\ UNCHANGED <<words, lock, op, copy, change, calls>>

StoreLow(c) ==
  /\ Step(c, "storeLow", "storeHigh") /\ low' = arg[c]
  /\ UNCHANGED <<high, lock, op, arg, old, copy, change, calls>>

StoreHigh(c) ==
  /\ Step(c, "storeHigh", "unlock") /\ high' = arg[c]
  /\ change' = IF op[c] \in Sets THEN [change EXCEPT ![c] = <<old[c], arg[c]>>] ELSE change
  /\ UNCHANGED <<low, lock, op, arg, old, copy, calls>>

(* Mutant: OnChange is called before the lock is given back. *)
NotifyFirst(c) == change[c] # Nothing
HeldOnNotify(c) == FALSE

(* The guard's destructor, at the end of the block and of its locals.      *)
Unlock(c) ==
  /\ Step(c, "unlock", IF change[c] = Nothing THEN "idle" ELSE "notify")
  /\ IF HeldOnNotify(c)
       THEN UNCHANGED lock
       ELSE /\ owner' = IF owner = c THEN Nothing ELSE owner
            /\ sharers' = sharers \ {c}
  /\ arg' = [arg EXCEPT ![c] = 0] /\ old' = [old EXCEPT ![c] = 0]
  /\ copy' = [copy EXCEPT ![c] = <<0, 0>>]
  /\ UNCHANGED <<words, op, change, calls>>

(* OnChange, which reads the value again before it returns.                *)
Notify(c) ==
  /\ Step(c, "notify", "lock")
  /\ change' = [change EXCEPT ![c] = Nothing] /\ op' = [op EXCEPT ![c] = "Get"]
  /\ UNCHANGED <<words, lock, arg, old, copy, calls>>

Continue(c) ==
  \/ Lock(c) \/ GiveUp(c) \/ CopyLow(c) \/ CopyHigh(c) \/ Compare(c) \/ Load(c)
  \/ StoreLow(c) \/ StoreHigh(c) \/ Unlock(c) \/ Notify(c)

Next == \E c \in Callers : Continue(c) \/ \E o \in Operations : Call(c, o)

Spec == Init /\ [][Next]_vars

(* Every caller is scheduled; a lock that stays free is granted.           *)
FairSpec == Spec /\ \A c \in Callers : WF_vars(Continue(c))

-----------------------------------------------------------------------------
(* Every call returns, also one made by OnChange: the wiki promises that   *)
(* the callback runs after the lock is released.                           *)
CallsReturn == \A c \in Callers : pc[c] # "idle" ~> pc[c] = "idle"

(* README: a caller that IsLockedRead or IsLockedWrite answered false has  *)
(* acquired the lock.                                                      *)
ProbeAcquires ==
  [][\A c \in Callers : op[c] \in Probes /\ pc[c] = "unlock" /\ pc'[c] = "idle"
       => c \in sharers' \cup {owner'}]_vars

-----------------------------------------------------------------------------
Halfway == {c \in Callers : pc[c] = "storeHigh"}

Value == INSTANCE AtomicValue WITH
  Values <- Values \X Values,
  Succ   <- LAMBDA v : <<Succ(v[1]), Succ(v[2])>>,
  value  <- IF Halfway = {} THEN <<low, high>>
            ELSE LET v == old[CHOOSE c \in Halfway : TRUE] IN <<v, v>>,
  seen   <- [c \in Callers |-> IF pc[c] = "unlock" /\ op[c] \in Reads THEN copy[c] ELSE Nothing],
  change <- [c \in Callers |->
               IF change[c] = Nothing THEN Nothing
               ELSE <<<<change[c][1], change[c][1]>>, <<change[c][2], change[c][2]>>>>]

(* No read is torn, no update lost, and each change is reported as it was  *)
(* made, however the callers interleave.                                   *)
ImplementsAtomicValue == Value!Spec
=============================================================================
