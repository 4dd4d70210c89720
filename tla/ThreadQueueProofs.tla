------------------------- MODULE ThreadQueueProofs --------------------------
(***************************************************************************)
(* Proofs about ThreadQueue, for every set of threads and of items and any *)
(* bound, under the roles that make each promise of the queue true.        *)
(***************************************************************************)
EXTENDS ThreadQueue, SequenceTheorems, TLAPS

(* The steps that leave everything but the swappers' deques alone, and     *)
(* maxLength, matter to no proof but that of the types.                    *)
LEMMA PushTypes ==
  ASSUME TypeOK, NEW t \in Threads, Push(t)
  PROVE  queue' \in Seq(Items) /\ queue' # <<>> /\ Announce /\ mutex = Free
         /\ UNCHANGED <<maxLength, mutex, op, rc>>
<1> USE DEF TypeOK, Locked
<1>1. ASSUME NEW v \in Items, PushBack(t, v) PROVE queue' \in Seq(Items) /\ queue' # <<>>
  <2>1. Append(queue, v) \in Seq(Items) /\ Append(queue, v) # <<>>
    BY AppendProperties
  <2> QED BY <1>1, <2>1 DEF PushBack
<1>2. ASSUME NEW v \in Items, PushFront(t, v) PROVE queue' \in Seq(Items) /\ queue' # <<>>
  <2>1. <<v>> \in Seq(Items) /\ <<v>> # <<>>
    OBVIOUS
  <2> QED BY <1>2, <2>1, ConcatProperties, ConcatEqualIffEmpty DEF PushFront
<1>3. ASSUME NEW s \in Ranges PROVE s \in Seq(Items) /\ s # <<>>
  BY <1>3, NumbersAssumption DEF Ranges
<1>4. ASSUME NEW s \in Ranges, PushBackRange(t, s) \/ PushFrontRange(t, s)
      PROVE  queue' \in Seq(Items) /\ queue' # <<>>
  <2>1. s \o queue \in Seq(Items) /\ queue \o s \in Seq(Items)
    BY <1>3, ConcatProperties
  <2>2. s \o queue # <<>> /\ queue \o s # <<>>
    BY <1>3, ConcatEqualIffEmpty
  <2> QED BY <1>4, <2>1, <2>2 DEF PushBackRange, PushFrontRange
<1>5. queue' \in Seq(Items) /\ queue' # <<>>
  BY <1>1, <1>2, <1>4 DEF Push
<1> QED BY <1>5 DEF Push, PushBack, PushFront, PushBackRange, PushFrontRange

LEMMA TakeTypes ==
  ASSUME TypeOK, NEW t \in Threads, Take(t)
  PROVE  queue' \in Seq(Items) /\ (queue = <<>> => queue' = <<>>) /\ mutex = Free
         /\ UNCHANGED <<maxLength, mutex, signalled, pc, op, rc>>
<1> USE DEF TypeOK, Locked
<1>1. CASE PopFront(t)
  BY <1>1, HeadTailProperties DEF PopFront
<1>2. CASE PopBack(t)
  <2>1. \A i \in 1 .. Len(queue) - 1 : queue[i] \in Items
    BY ElementOfSeq, LenProperties
  <2>2. SubSeq(queue, 1, Len(queue) - 1) \in Seq(Items)
    BY <2>1, SubSeqProperties, LenProperties
  <2> QED BY <1>2, <2>2 DEF PopBack
<1>3. CASE Clear(t)
  BY <1>3, EmptySeq DEF Clear
<1>4. CASE RandomShuffle(t)
  <2>1. PICK p \in [DOMAIN queue -> DOMAIN queue] : queue' = [i \in DOMAIN queue |-> queue[p[i]]]
    BY <1>4 DEF RandomShuffle
  <2>2. DOMAIN queue = 1 .. Len(queue) /\ Len(queue) \in Nat /\ \A i \in DOMAIN queue : queue[i] \in Items
    BY LenProperties, ElementOfSeq
  <2>3. queue' \in [1 .. Len(queue) -> Items]
    BY <2>1, <2>2
  <2>4. queue' \in Seq(Items)
    <3>1. queue' \in UNION {[1 .. n -> Items] : n \in Nat}
      BY <2>2, <2>3
    <3> QED BY <3>1, SeqDef
  <2>5. queue = <<>> => queue' = <<>>
    <3>1. ASSUME queue = <<>> PROVE Len(queue') = 0
      BY <2>1, <2>2, <2>4, <3>1, LenProperties, EmptySeq
    <3> QED BY <2>4, <3>1, EmptySeq
  <2> QED BY <1>4, <2>4, <2>5 DEF RandomShuffle
<1> QED BY <1>1, <1>2, <1>3, <1>4 DEF Take

(* Type correctness of the queue and of the threads that use it. *)
THEOREM Typing == Spec => []TypeOK
<1>1. Init => TypeOK
  <2>1. <<>> \in Seq(Items)
    BY EmptySeq
  <2>2. ASSUME Init PROVE queue \in Seq(Items) /\ op \in [Threads -> Waits]
    BY <2>1, <2>2 DEF Init, Waits
  <2> QED BY <2>2 DEF Init, TypeOK
<1>2. TypeOK /\ [Next]_vars => TypeOK'
  <2> SUFFICES ASSUME TypeOK, [Next]_vars PROVE TypeOK'
    OBVIOUS
  <2> USE DEF TypeOK
  <2>1. ASSUME NEW t \in Threads, NEW n \in MaxLengths, SetMaxLength(t, n) PROVE TypeOK'
    BY <2>1 DEF SetMaxLength
  <2>2. ASSUME NEW t \in Threads, Push(t) PROVE TypeOK'
    <3>1. Awakened \in [Threads -> {"idle", "block", "asleep", "woken", "expired", "return", "notify"}]
      BY DEF Awakened
    <3> QED BY <2>2, <3>1, PushTypes DEF Announce
  <2>3. ASSUME NEW t \in Threads, Take(t) PROVE TypeOK'
    BY <2>3, TakeTypes
  <2>4. ASSUME NEW t \in Threads, NEW o \in Waits, Wait(t, o) PROVE TypeOK'
    BY <2>4 DEF Wait, Predicate, Result
  <2>5. ASSUME NEW t \in Threads, InWait(t) PROVE TypeOK'
    <3>1. CASE Block(t)
      BY <3>1 DEF Block
    <3>2. CASE SpuriousWake(t)
      BY <3>2 DEF SpuriousWake
    <3>3. CASE Timeout(t)
      BY <3>3 DEF Timeout
    <3>4. CASE Retest(t)
      BY <3>4 DEF Retest, Predicate, Result
    <3>5. CASE Return(t)
      BY <3>5 DEF Return
    <3> QED BY <2>5, <3>1, <3>2, <3>3, <3>4, <3>5 DEF InWait
  <2>6. ASSUME NEW t \in Threads, Signal(t) PROVE TypeOK'
    BY <2>6 DEF Signal, ConditionSignal, NotifyOne, Asleep
  <2>7. ASSUME NEW t \in Threads, Move(t) PROVE TypeOK'
    <3>1. ASSUME SwapDeque(t) PROVE TypeOK'
      BY <3>1, EmptySeq DEF SwapDeque
    <3>2. ASSUME NEW s \in Contents, Exchange(t, s) PROVE TypeOK'
      <4>1. s \in Seq(Items)
        BY NumbersAssumption DEF Contents
      <4> QED BY <3>2, <4>1 DEF Exchange
    <3> QED BY <2>7, <3>1, <3>2 DEF Move
  <2>8. CASE UNCHANGED vars
    BY <2>8 DEF vars
  <2>9. "WaitForNotEmpty" \in Waits
    BY DEF Waits
  <2> QED BY <2>1, <2>2, <2>3, <2>4, <2>5, <2>6, <2>7, <2>8, <2>9 DEF Next, Begin
<1> QED BY <1>1, <1>2, PTL DEF Spec

-----------------------------------------------------------------------------

(* The mutex is held exactly between a test and the block or return after  *)
(* it.                                                                     *)
Held == \A t \in Threads : pc[t] \in {"block", "return"} <=> mutex = t

LEMMA HeldInductive == TypeOK /\ Held /\ [Next]_vars => Held'
<1> SUFFICES ASSUME TypeOK, Held, [Next]_vars PROVE Held'
  OBVIOUS
<1> USE ThreadsAssumption DEF TypeOK, Held
<1>1. ASSUME NEW t \in Threads, Push(t) PROVE Held'
  BY <1>1, PushTypes DEF Announce, Awakened
<1>2. ASSUME NEW t \in Threads, Take(t) PROVE Held'
  BY <1>2, TakeTypes
<1>3. ASSUME NEW t \in Threads, NEW o \in Waits, Wait(t, o) PROVE Held'
  <2>1. mutex = Free /\ mutex' = t /\ pc'[t] \in {"block", "return"}
    BY <1>3 DEF Wait, Locked
  <2>2. \A u \in Threads : u # t => pc'[u] = pc[u]
    BY <1>3 DEF Wait
  <2> QED BY <2>1, <2>2
<1>4. ASSUME NEW t \in Threads, InWait(t) PROVE Held'
  <2>1. CASE Block(t) \/ Return(t)
    BY <2>1 DEF Block, Return
  <2>2. CASE SpuriousWake(t) \/ Timeout(t)
    BY <2>2 DEF SpuriousWake, Timeout
  <2>3. CASE Retest(t)
    <3>1. mutex = Free /\ mutex' = t /\ pc'[t] \in {"block", "return"}
      BY <2>3 DEF Retest
    <3>2. \A u \in Threads : u # t => pc'[u] = pc[u]
      BY <2>3 DEF Retest
    <3> QED BY <3>1, <3>2
  <2> QED BY <1>4, <2>1, <2>2, <2>3 DEF InWait
<1>5. ASSUME NEW t \in Threads, Signal(t) PROVE Held'
  BY <1>5 DEF Signal, ConditionSignal, NotifyOne, Asleep
<1>6. ASSUME UNCHANGED <<mutex, pc>> PROVE Held'
  BY <1>6
<1>7. "WaitForNotEmpty" \in Waits
  BY DEF Waits
<1> QED
  BY <1>1, <1>2, <1>3, <1>4, <1>5, <1>6, <1>7
  DEF Next, Begin, Move, SetMaxLength, SwapDeque, Exchange, vars

(* Who waits for an entry, and saw none, is right about it. *)
EntryWait == \A t \in Threads :
               pc[t] \in {"block", "asleep"} /\ op[t] = "WaitForNotEmpty" => queue = <<>>

(* WaitForNotEmpty() misses no push: every push that inserts holds the     *)
(* mutex, so no thread is between its test and its block, and notify_all   *)
(* wakes the blocked ones.  It needs that nobody fills the queue through   *)
(* Swap(Queue&) or Copy(Queue&), which do not notify.                      *)
THEOREM PushIsNeverMissed == ASSUME Exchangers = {} PROVE Spec => []NoMissedPush
<1>1. Init => Held /\ EntryWait
  BY ThreadsAssumption DEF Init, Held, EntryWait
<1>2. TypeOK /\ Held /\ EntryWait /\ [Next]_vars => EntryWait'
  <2> SUFFICES ASSUME TypeOK, Held, EntryWait, [Next]_vars PROVE EntryWait'
    OBVIOUS
  <2> USE ThreadsAssumption DEF TypeOK, Held, EntryWait
  <2>1. ASSUME NEW t \in Threads, Push(t) PROVE EntryWait'
    <3>1. \A u \in Threads : pc'[u] \notin {"block", "asleep"}
      BY <2>1, PushTypes DEF Announce, Awakened
    <3> QED BY <3>1
  <2>2. ASSUME NEW t \in Threads, Take(t) PROVE EntryWait'
    BY <2>2, TakeTypes
  <2>3. ASSUME NEW t \in Threads, NEW o \in Waits, Wait(t, o) PROVE EntryWait'
    BY <2>3 DEF Wait, Predicate
  <2>4. ASSUME NEW t \in Threads, InWait(t) PROVE EntryWait'
    BY <2>4 DEF InWait, Block, SpuriousWake, Timeout, Retest, Return, Predicate
  <2>5. ASSUME NEW t \in Threads, Signal(t) PROVE EntryWait'
    BY <2>5 DEF Signal, ConditionSignal, NotifyOne, Asleep
  <2>6. ASSUME NEW t \in Threads, Move(t) PROVE EntryWait'
    BY <2>6, Exchangers = {} DEF Move, SwapDeque
  <2>7. ASSUME UNCHANGED <<queue, pc, op>> PROVE EntryWait'
    BY <2>7
  <2>8. "WaitForNotEmpty" \in Waits
    BY DEF Waits
  <2> QED
    BY <2>1, <2>2, <2>3, <2>4, <2>5, <2>6, <2>7, <2>8 DEF Next, Begin, SetMaxLength, vars
<1>3. EntryWait => NoMissedPush
  BY DEF EntryWait, NoMissedPush, Asleep
<1> QED BY <1>1, <1>2, <1>3, HeldInductive, Typing, PTL DEF Spec

(* Who waits for the flag has not seen it set, and still holds the mutex   *)
(* that a push needs to set it.                                            *)
FlagWait == \A t \in Threads : pc[t] = "block" /\ op[t] # "WaitForNotEmpty" => ~signalled

(* Without ConditionSignal() the flag never leaves its waiters behind.     *)
THEOREM FlagIsHeard == ASSUME Signallers = {} PROVE Spec => []SignalHeard
<1> DEFINE Quiet == \A t \in Threads : pc[t] # "notify"
<1>1. Init => Held /\ FlagWait /\ Quiet /\ SignalHeard
  BY ThreadsAssumption DEF Init, Held, FlagWait, SignalHeard, Asleep
<1>2. TypeOK /\ Held /\ Quiet /\ [Next]_vars => Quiet'
  <2> SUFFICES ASSUME TypeOK, Held, Quiet, [Next]_vars PROVE Quiet'
    OBVIOUS
  <2> USE DEF TypeOK
  <2>1. ASSUME NEW t \in Threads, Push(t) PROVE Quiet'
    BY <2>1, PushTypes DEF Announce, Awakened
  <2>2. ASSUME NEW t \in Threads, Take(t) PROVE Quiet'
    BY <2>2, TakeTypes
  <2>3. ASSUME NEW t \in Threads, NEW o \in Waits, Wait(t, o) PROVE Quiet'
    BY <2>3 DEF Wait
  <2>4. ASSUME NEW t \in Threads, InWait(t) PROVE Quiet'
    BY <2>4 DEF InWait, Block, SpuriousWake, Timeout, Retest, Return
  <2>5. ASSUME NEW t \in Threads, Signal(t) PROVE Quiet'
    BY <2>5, Signallers = {} DEF Signal, NotifyOne
  <2>6. ASSUME UNCHANGED pc PROVE Quiet'
    BY <2>6
  <2>7. "WaitForNotEmpty" \in Waits
    BY DEF Waits
  <2> QED
    BY <2>1, <2>2, <2>3, <2>4, <2>5, <2>6, <2>7
    DEF Next, Begin, Move, SetMaxLength, SwapDeque, Exchange, vars
<1>3. TypeOK /\ Held /\ Quiet /\ FlagWait /\ SignalHeard /\ [Next]_vars => FlagWait' /\ SignalHeard'
  <2> SUFFICES ASSUME TypeOK, Held, Quiet, FlagWait, SignalHeard, [Next]_vars
               PROVE  FlagWait' /\ SignalHeard'
    OBVIOUS
  <2> USE ThreadsAssumption DEF TypeOK, Held, FlagWait, SignalHeard, Asleep
  <2>1. ASSUME NEW t \in Threads, Push(t) PROVE FlagWait' /\ SignalHeard'
    <3>1. \A u \in Threads : pc'[u] \notin {"block", "asleep"}
      BY <2>1, PushTypes DEF Announce, Awakened
    <3> QED BY <3>1
  <2>2. ASSUME NEW t \in Threads, Take(t) PROVE FlagWait' /\ SignalHeard'
    BY <2>2, TakeTypes
  <2>3. ASSUME NEW t \in Threads, NEW o \in Waits, Wait(t, o) PROVE FlagWait' /\ SignalHeard'
    <3>1. FlagWait'
      BY <2>3 DEF Wait, Predicate, Locked
    <3>2. \A u \in Threads : u # t => pc'[u] = pc[u] /\ op'[u] = op[u]
      BY <2>3 DEF Wait
    <3>3. pc[t] = "idle" /\ pc'[t] \in {"block", "return"} /\ signalled' = signalled
      BY <2>3 DEF Wait, Locked
    <3> QED BY <3>1, <3>2, <3>3
  <2>4. ASSUME NEW t \in Threads, InWait(t) PROVE FlagWait' /\ SignalHeard'
    <3>1. CASE Block(t)
      BY <3>1 DEF Block
    <3>2. CASE SpuriousWake(t)
      BY <3>2 DEF SpuriousWake
    <3>3. CASE Timeout(t)
      BY <3>3 DEF Timeout, TimedWaits
    <3>4. CASE Retest(t)
      BY <3>4 DEF Retest, Predicate
    <3>5. CASE Return(t)
      BY <3>5 DEF Return
    <3> QED BY <2>4, <3>1, <3>2, <3>3, <3>4, <3>5 DEF InWait
  <2>5. ASSUME NEW t \in Threads, Signal(t) PROVE FlagWait' /\ SignalHeard'
    BY <2>5, Signallers = {} DEF Signal, NotifyOne
  <2>6. ASSUME UNCHANGED <<signalled, pc, op>> PROVE FlagWait' /\ SignalHeard'
    BY <2>6
  <2>7. "WaitForNotEmpty" \in Waits
    BY DEF Waits
  <2> QED
    BY <2>1, <2>2, <2>3, <2>4, <2>5, <2>6, <2>7
    DEF Next, Begin, Move, SetMaxLength, SwapDeque, Exchange, vars
<1> QED BY <1>1, <1>2, <1>3, HeldInductive, Typing, PTL DEF Spec

(* While one thread waits for an entry by way of the flag, an entry means  *)
(* that the flag is set, as that thread alone resets it.                   *)
FlagCovers ==
  \A t \in Threads :
    pc[t] \in {"block", "asleep", "woken", "expired"} /\ op[t] = "TimedWaitForNotEmpty"
      => (queue # <<>> => signalled)

(* Who does not call the flag's waits is in none of them. *)
Roles == \A t \in Threads : t \notin SignalWaiters => op[t] = "WaitForNotEmpty"

(* TimedWaitForNotEmpty() reports the truth when no two threads use the    *)
(* waits that reset the flag, and nobody fills the queue without a push.   *)
THEOREM TimedWaitIsExact ==
  ASSUME Exchangers = {}, \A t, u \in SignalWaiters : t = u
  PROVE  Spec => []TimedResultExact
<1>1. Init => Held /\ FlagCovers /\ Roles /\ TimedResultExact
  BY ThreadsAssumption DEF Init, Held, FlagCovers, Roles, TimedResultExact
<1>2. TypeOK /\ Roles /\ [Next]_vars => Roles'
  <2> SUFFICES ASSUME TypeOK, Roles, [Next]_vars PROVE Roles'
    OBVIOUS
  <2> USE DEF TypeOK, Roles
  <2>1. ASSUME NEW t \in Threads, Begin(t) PROVE Roles'
    BY <2>1 DEF Begin, Wait
  <2>2. ASSUME UNCHANGED op PROVE Roles'
    BY <2>2
  <2>3. ASSUME NEW t \in Threads, Push(t) PROVE UNCHANGED op
    BY <2>3, PushTypes
  <2>4. ASSUME NEW t \in Threads, Take(t) PROVE UNCHANGED op
    BY <2>4, TakeTypes
  <2>5. ASSUME NEW t \in Threads, InWait(t) \/ Signal(t) \/ Move(t) PROVE UNCHANGED op
    BY <2>5 DEF InWait, Block, SpuriousWake, Timeout, Retest, Return, Signal, ConditionSignal,
                NotifyOne, Move, SwapDeque, Exchange
  <2> QED BY <2>1, <2>2, <2>3, <2>4, <2>5 DEF Next, SetMaxLength, vars
<1>3. TypeOK /\ Held /\ Roles /\ FlagCovers /\ TimedResultExact /\ [Next]_vars
        => FlagCovers' /\ TimedResultExact'
  <2> SUFFICES ASSUME TypeOK, Held, Roles, FlagCovers, TimedResultExact, [Next]_vars
               PROVE  FlagCovers' /\ TimedResultExact'
    OBVIOUS
  <2> USE ThreadsAssumption DEF TypeOK, Held, FlagCovers, TimedResultExact
  <2>1. ASSUME NEW t \in Threads, Push(t) PROVE FlagCovers' /\ TimedResultExact'
    <3>1. signalled' /\ pc' = Awakened
      BY <2>1, PushTypes DEF Announce
    <3>2. \A u \in Threads : pc'[u] = IF pc[u] = "asleep" THEN "woken" ELSE pc[u]
      BY <3>1 DEF Awakened
    <3>3. \A u \in Threads : pc[u] # "return"
      BY <2>1, PushTypes
    <3>4. \A u \in Threads : pc'[u] # "return"
      BY <3>2, <3>3
    <3> QED BY <3>1, <3>4
  <2>2. ASSUME NEW t \in Threads, Take(t) PROVE FlagCovers' /\ TimedResultExact'
    <3>1. \A u \in Threads : pc'[u] # "return"
      BY <2>2, TakeTypes
    <3> QED BY <2>2, <3>1, TakeTypes
  <2>3. ASSUME NEW t \in Threads, NEW o \in Waits, Wait(t, o) PROVE FlagCovers' /\ TimedResultExact'
    <3>1. \A u \in Threads : u # t => pc'[u] = pc[u] /\ op'[u] = op[u] /\ rc'[u] = rc[u]
      BY <2>3 DEF Wait
    <3>2. signalled' = signalled /\ queue' = queue /\ op'[t] = o
      BY <2>3 DEF Wait
    <3>3. o = "TimedWaitForNotEmpty" /\ pc'[t] = "return" => (rc'[t] <=> queue # <<>>)
      BY <2>3 DEF Wait, Result
    <3>4. o = "TimedWaitForNotEmpty" /\ pc'[t] # "return" => queue = <<>>
      BY <2>3 DEF Wait
    <3> QED BY <3>1, <3>2, <3>3, <3>4
  <2>4. ASSUME NEW t \in Threads, InWait(t) PROVE FlagCovers' /\ TimedResultExact'
    <3>1. CASE Block(t)
      BY <3>1 DEF Block
    <3>2. CASE SpuriousWake(t)
      BY <3>2 DEF SpuriousWake
    <3>3. CASE Timeout(t)
      BY <3>3 DEF Timeout
    <3>4. CASE Retest(t)
      BY <3>4 DEF Retest, Predicate, Result
    <3>5. CASE Return(t)
      <4>1. CASE op[t] = "WaitForNotEmpty"
        BY <3>5, <4>1 DEF Return
      <4>2. CASE op[t] # "WaitForNotEmpty"
        <5>1. \A u \in Threads : u # t => op[u] = "WaitForNotEmpty"
          BY <4>2, \A v, u \in SignalWaiters : v = u DEF Roles
        <5> QED BY <3>5, <5>1 DEF Return
      <4> QED BY <4>1, <4>2
    <3> QED BY <2>4, <3>1, <3>2, <3>3, <3>4, <3>5 DEF InWait
  <2>5. ASSUME NEW t \in Threads, Signal(t) PROVE FlagCovers' /\ TimedResultExact'
    BY <2>5 DEF Signal, ConditionSignal, NotifyOne, Asleep
  <2>6. ASSUME NEW t \in Threads, Move(t) PROVE FlagCovers' /\ TimedResultExact'
    <3>1. CASE SwapDeque(t)
      <4>1. \A u \in Threads : pc[u] # "return"
        BY <3>1 DEF SwapDeque, Locked
      <4> QED BY <3>1, <4>1 DEF SwapDeque
    <3> QED BY <2>6, <3>1, Exchangers = {} DEF Move
  <2>7. ASSUME UNCHANGED <<queue, signalled, pc, op, rc>> PROVE FlagCovers' /\ TimedResultExact'
    BY <2>7
  <2>8. "WaitForNotEmpty" \in Waits
    BY DEF Waits
  <2> QED
    BY <2>1, <2>2, <2>3, <2>4, <2>5, <2>6, <2>7, <2>8 DEF Next, Begin, SetMaxLength, vars
<1> QED BY <1>1, <1>2, <1>3, HeldInductive, Typing, PTL DEF Spec
=============================================================================
