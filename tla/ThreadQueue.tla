---------------------------- MODULE ThreadQueue -----------------------------
(***************************************************************************)
(* Thread::Queue (classes/include/DwmThreadQueue.hh): a deque, one mutex,  *)
(* one condition variable that serves both kinds of waiters (those that    *)
(* wait for the deque not to be empty, and those that wait for the atomic  *)
(* flag _signalled), and an optional maximum length.                       *)
(*                                                                         *)
(* A member that only takes the mutex and gives it back is one action.  A  *)
(* member that waits holds the mutex from its test of the predicate to the *)
(* block, and from the wake-up to its return: ConditionSignal(), which     *)
(* takes no mutex, may store and notify at any moment of that.             *)
(*                                                                         *)
(* Length(), Empty(), MaxLength() and Copy() into a caller's deque change  *)
(* nothing and have no action.                                             *)
(***************************************************************************)
EXTENDS Integers, Sequences, FiniteSets

CONSTANTS
  Threads,        \* the threads that use the queue
  Items,          \* the values of _ValueType
  MaxLengths,     \* what MaxLength(n) is called with; 0 is no limit
  MaxRange,       \* longest range given to PushBack and PushFront, 0 for none
  SignalWaiters,  \* threads that call the waits that reset _signalled
  Signallers,     \* threads that call ConditionSignal()
  Exchangers,     \* threads that call Swap(Queue&), or Copy(Queue&) into this one
  Bound,          \* longest deque that is explored
  Free            \* the holder of a mutex nobody holds

ASSUME ThreadsAssumption == IsFiniteSet(Threads) /\ Free \notin Threads
ASSUME RolesAssumption == /\ SignalWaiters \subseteq Threads
                          /\ Signallers \subseteq Threads
                          /\ Exchangers \subseteq Threads
ASSUME NumbersAssumption == MaxLengths \subseteq Nat /\ MaxRange \in Nat /\ Bound \in Nat

VARIABLES
  maxLength,  \* _maxLength
  queue,      \* _queue
  mutex,      \* the holder of _mutex
  signalled,  \* _signalled
  pc,         \* where each thread is; the "asleep" ones are blocked on _cv
  op,         \* the wait each thread is in
  rc          \* the result that wait is about to return

vars == <<maxLength, queue, mutex, signalled, pc, op, rc>>

Waits == {"WaitForNotEmpty", "TimedWaitForNotEmpty", "ConditionWait", "ConditionTimedWait"}
TimedWaits == {"TimedWaitForNotEmpty", "ConditionTimedWait"}

Asleep == {t \in Threads : pc[t] = "asleep"}

(* The ranges a caller may insert, and the contents another queue may have. *)
Ranges == UNION {[1..n -> Items] : n \in 1..MaxRange}
Contents == UNION {[1..n -> Items] : n \in 0..Bound}

(* Mutant: notify_one. *)
AwakenedOne ==
  IF Asleep = {} THEN pc ELSE [pc EXCEPT ![CHOOSE t \in Asleep : TRUE] = "woken"]

(* _cv.notify_all() *)
Awakened == [t \in Threads |-> IF pc[t] = "asleep" THEN "woken" ELSE pc[t]]

(* Mutant: every wait waits for the flag. *)
PredicateFlag(o) == signalled

(* The predicate a wait hands to _cv, and what it returns if that is true. *)
Predicate(o) == IF o = "WaitForNotEmpty" THEN queue # <<>> ELSE signalled
Result(o)    == o = "TimedWaitForNotEmpty" => queue # <<>>

-----------------------------------------------------------------------------

(* A queue without a maximum length, and one whose owner set it. *)
Init ==
  /\ maxLength \in MaxLengths
  /\ queue = <<>>
  /\ mutex = Free
  /\ signalled = FALSE
  /\ pc = [t \in Threads |-> "idle"]
  /\ op = [t \in Threads |-> "WaitForNotEmpty"]
  /\ rc = [t \in Threads |-> FALSE]

(* A member that locks, works and unlocks, called by an idle thread. *)
Locked(t) == pc[t] = "idle" /\ mutex = Free

(* The guard that every PushBack and PushFront has. *)
HasRoom == maxLength = 0 \/ Len(queue) < maxLength

(* Mutant: a push notifies and leaves the flag alone. *)
AnnounceWithoutFlag ==
  /\ pc' = Awakened
  /\ UNCHANGED signalled

(* What every push that inserts does besides: flag and notify_all. *)
Announce ==
  /\ signalled' = TRUE
  /\ pc' = Awakened

(* Mutant: an off-by-one limit, which turns 0 into -1. *)
SetMaxLengthLess(t, n) ==
  /\ pc[t] = "idle"
  /\ maxLength' = n - 1
  /\ UNCHANGED <<queue, mutex, signalled, pc, op, rc>>

(* MaxLength(n) takes no lock. *)
SetMaxLength(t, n) ==
  /\ pc[t] = "idle"
  /\ maxLength' = n
  /\ UNCHANGED <<queue, mutex, signalled, pc, op, rc>>

(* The two PushBack(value). *)
PushBack(t, v) ==
  /\ Locked(t)
  /\ HasRoom /\ Len(queue) < Bound
  /\ queue' = Append(queue, v)
  /\ Announce
  /\ UNCHANGED <<maxLength, mutex, op, rc>>

(* PushBack(firstIter, lastIter): the whole range if there is any room. *)
PushBackRange(t, s) ==
  /\ Locked(t)
  /\ HasRoom /\ Len(queue) + Len(s) <= Bound
  /\ queue' = queue \o s
  /\ Announce
  /\ UNCHANGED <<maxLength, mutex, op, rc>>

PushFront(t, v) ==
  /\ Locked(t)
  /\ HasRoom /\ Len(queue) < Bound
  /\ queue' = <<v>> \o queue
  /\ Announce
  /\ UNCHANGED <<maxLength, mutex, op, rc>>

PushFrontRange(t, s) ==
  /\ Locked(t)
  /\ HasRoom /\ Len(queue) + Len(s) <= Bound
  /\ queue' = s \o queue
  /\ Announce
  /\ UNCHANGED <<maxLength, mutex, op, rc>>

PopFront(t) ==
  /\ Locked(t)
  /\ queue # <<>>
  /\ queue' = Tail(queue)
  /\ UNCHANGED <<maxLength, mutex, signalled, pc, op, rc>>

PopBack(t) ==
  /\ Locked(t)
  /\ queue # <<>>
  /\ queue' = SubSeq(queue, 1, Len(queue) - 1)
  /\ UNCHANGED <<maxLength, mutex, signalled, pc, op, rc>>

Clear(t) ==
  /\ Locked(t)
  /\ queue' = <<>>
  /\ UNCHANGED <<maxLength, mutex, signalled, pc, op, rc>>

RandomShuffle(t) ==
  /\ Locked(t)
  /\ \E p \in {f \in [DOMAIN queue -> DOMAIN queue] :
                 \A i, j \in DOMAIN queue : f[i] = f[j] => i = j} :
       queue' = [i \in DOMAIN queue |-> queue[p[i]]]
  /\ UNCHANGED <<maxLength, mutex, signalled, pc, op, rc>>

(* Swap(deque&): the caller's deque gets the entries, if there are any. *)
SwapDeque(t) ==
  /\ Locked(t)
  /\ queue' = <<>>
  /\ UNCHANGED <<maxLength, mutex, signalled, pc, op, rc>>

(* Swap(Queue&) with another queue, or Copy(Queue&) of another into this   *)
(* one: the contents are replaced under both mutexes, and that is all.     *)
Exchange(t, s) ==
  /\ Locked(t)
  /\ queue' = s
  /\ UNCHANGED <<maxLength, mutex, signalled, pc, op, rc>>

-----------------------------------------------------------------------------

(* A wait takes the mutex and tests.  TimedWaitForNotEmpty looks at the    *)
(* deque first and waits for the flag only if it is empty.                 *)
Wait(t, o) ==
  /\ Locked(t)
  /\ mutex' = t
  /\ op' = [op EXCEPT ![t] = o]
  /\ LET ready == Predicate(o) \/ (o = "TimedWaitForNotEmpty" /\ queue # <<>>)
     IN /\ rc' = [rc EXCEPT ![t] = ready /\ Result(o)]
        /\ pc' = [pc EXCEPT ![t] = IF ready THEN "return" ELSE "block"]
  /\ UNCHANGED <<maxLength, queue, signalled>>

(* _cv blocks the thread and frees the mutex. *)
Block(t) ==
  /\ pc[t] = "block"
  /\ pc' = [pc EXCEPT ![t] = "asleep"]
  /\ mutex' = Free
  /\ UNCHANGED <<maxLength, queue, signalled, op, rc>>

SpuriousWake(t) ==
  /\ pc[t] = "asleep"
  /\ pc' = [pc EXCEPT ![t] = "woken"]
  /\ UNCHANGED <<maxLength, queue, mutex, signalled, op, rc>>

(* timeToWait has passed. *)
Timeout(t) ==
  /\ pc[t] = "asleep"
  /\ op[t] \in TimedWaits
  /\ pc' = [pc EXCEPT ![t] = "expired"]
  /\ UNCHANGED <<maxLength, queue, mutex, signalled, op, rc>>

(* Mutant: a wait that timed out blocks again while its predicate is false. *)
RetestUntilTrue(t) ==
  /\ pc[t] \in {"woken", "expired"}
  /\ mutex = Free
  /\ mutex' = t
  /\ rc' = [rc EXCEPT ![t] = Predicate(op[t]) /\ Result(op[t])]
  /\ pc' = [pc EXCEPT ![t] = IF Predicate(op[t]) THEN "return" ELSE "block"]
  /\ UNCHANGED <<maxLength, queue, signalled, op>>

(* _cv has the mutex again and tests: a woken thread may block once more,  *)
(* an expired one returns in either case.                                  *)
Retest(t) ==
  /\ pc[t] \in {"woken", "expired"}
  /\ mutex = Free
  /\ mutex' = t
  /\ rc' = [rc EXCEPT ![t] = Predicate(op[t]) /\ Result(op[t])]
  /\ pc' = [pc EXCEPT ![t] = IF pc[t] = "expired" \/ Predicate(op[t]) THEN "return" ELSE "block"]
  /\ UNCHANGED <<maxLength, queue, signalled, op>>

(* The wait returns; all but WaitForNotEmpty() reset the flag first. *)
Return(t) ==
  /\ pc[t] = "return"
  /\ signalled' = IF op[t] = "WaitForNotEmpty" THEN signalled ELSE FALSE
  /\ mutex' = Free
  /\ pc' = [pc EXCEPT ![t] = "idle"]
  /\ UNCHANGED <<maxLength, queue, op, rc>>

(* ConditionSignal(): the store, and then the notify_one, without a lock. *)
ConditionSignal(t) ==
  /\ pc[t] = "idle"
  /\ signalled' = TRUE
  /\ pc' = [pc EXCEPT ![t] = "notify"]
  /\ UNCHANGED <<maxLength, queue, mutex, op, rc>>

NotifyOne(t) ==
  /\ pc[t] = "notify"
  /\ \/ Asleep = {} /\ pc' = [pc EXCEPT ![t] = "idle"]
     \/ \E u \in Asleep : pc' = [pc EXCEPT ![t] = "idle", ![u] = "woken"]
  /\ UNCHANGED <<maxLength, queue, mutex, signalled, op, rc>>

-----------------------------------------------------------------------------

Push(t) == \/ \E v \in Items : PushBack(t, v) \/ PushFront(t, v)
           \/ \E s \in Ranges : PushBackRange(t, s) \/ PushFrontRange(t, s)

Take(t) == PopFront(t) \/ PopBack(t) \/ Clear(t) \/ RandomShuffle(t)

Begin(t) == \/ Wait(t, "WaitForNotEmpty")
            \/ t \in SignalWaiters /\ \E o \in Waits : Wait(t, o)

InWait(t) == Block(t) \/ SpuriousWake(t) \/ Timeout(t) \/ Retest(t) \/ Return(t)

Signal(t) == (t \in Signallers /\ ConditionSignal(t)) \/ NotifyOne(t)

Move(t) == SwapDeque(t) \/ (t \in Exchangers /\ \E s \in Contents : Exchange(t, s))

Next == \E t \in Threads :
          \/ \E n \in MaxLengths : SetMaxLength(t, n)
          \/ Push(t) \/ Take(t) \/ Begin(t) \/ InWait(t) \/ Signal(t) \/ Move(t)

Spec == Init /\ [][Next]_vars

(* A thread that is inside a wait goes on when it can; the mutex starves   *)
(* nobody; the clock reaches every deadline, however often the thread is   *)
(* woken before.  No call need be made and no spurious wake-up is assumed. *)
Fairness == \A t \in Threads : /\ WF_vars(Block(t) \/ Return(t) \/ NotifyOne(t))
                               /\ SF_vars(Retest(t))
                               /\ SF_vars(Timeout(t))

FairSpec == Spec /\ Fairness

-----------------------------------------------------------------------------

TypeOK ==
  /\ maxLength \in MaxLengths
  /\ queue \in Seq(Items)
  /\ mutex \in Threads \cup {Free}
  /\ signalled \in BOOLEAN
  /\ pc \in [Threads -> {"idle", "block", "asleep", "woken", "expired", "return", "notify"}]
  /\ op \in [Threads -> Waits]
  /\ rc \in [Threads -> BOOLEAN]

(* No thread is blocked in WaitForNotEmpty() while there is an entry: a    *)
(* push between its test and its block cannot be missed.                   *)
NoMissedPush ==
  \A t \in Asleep : op[t] = "WaitForNotEmpty" => queue = <<>>

(* While the flag is set, a thread that is blocked until it is set will    *)
(* not be left alone with it: another waiter is about to use the flag, or  *)
(* the notify_one that belongs to it is still to come.                     *)
SignalHeard ==
  (signalled /\ \E t \in Asleep : op[t] # "WaitForNotEmpty")
    => \E u \in Threads : \/ pc[u] = "notify"
                          \/ pc[u] \in {"woken", "expired", "return"} /\ op[u] # "WaitForNotEmpty"

(* TimedWaitForNotEmpty() returns whether the deque has an entry, although *)
(* it waits for a flag that is not about the deque.                        *)
TimedResultExact ==
  \A t \in Threads : pc[t] = "return" /\ op[t] = "TimedWaitForNotEmpty" => (rc[t] <=> queue # <<>>)

(* A thread that is in WaitForNotEmpty() returns once there is an entry,   *)
(* unless others take the entries away before it looks.                    *)
WaiterReturns ==
  \A t \in Threads :
    (pc[t] \notin {"idle", "notify"} /\ op[t] = "WaitForNotEmpty" /\ queue # <<>>)
      ~> (pc[t] = "idle" \/ queue = <<>>)

(* A timed wait ends, also when the wake-ups are for others or get lost. *)
TimedWaitReturns ==
  \A t \in Threads :
    (pc[t] = "asleep" /\ op[t] \in TimedWaits) ~> pc[t] = "idle"

(* No wait goes on longer than what it waits for. *)
WaitsReturn == WaiterReturns /\ TimedWaitReturns

=============================================================================
