------------------------- MODULE LoadBalancerProofs -------------------------
(***************************************************************************)
(* Proofs about LoadBalancer, for every finite set of workers and items,   *)
(* every set of producers and feeders, and every MaxWork.                  *)
(***************************************************************************)
EXTENDS LoadBalancer, SequenceTheorems, FiniteSetTheorems, TLAPS

-----------------------------------------------------------------------------
(* What the sequences of the model hold. *)

(* The elements of a sequence are those of the set it is over. *)
LEMMA ElementsOf ==
  ASSUME NEW S, NEW s \in Seq(S)
  PROVE  /\ Elements(s) \subseteq S
         /\ Elements(s) = {} <=> s = <<>>
<1>1. s \in [1 .. Len(s) -> S] /\ Len(s) \in Nat /\ DOMAIN s = 1 .. Len(s)
  OBVIOUS
<1>2. Elements(s) \subseteq S
  BY <1>1 DEF Elements
<1>3. ASSUME s # <<>> PROVE s[1] \in Elements(s)
  BY <1>3, <1>1 DEF Elements
<1>4. Elements(<<>>) = {}
  BY DEF Elements
<1> QED BY <1>2, <1>3, <1>4

(* A range pushed to a queue that has none of its items. *)
LEMMA ElementsConcat ==
  ASSUME NEW S, NEW s \in Seq(S), NEW t \in Seq(S)
  PROVE  /\ s \o t \in Seq(S)
         /\ Elements(s \o t) = Elements(s) \cup Elements(t)
         /\ Distinct(s) /\ Distinct(t) /\ Elements(s) \cap Elements(t) = {} => Distinct(s \o t)
<1> DEFINE u == s \o t
<1>1. /\ u \in Seq(S) /\ Len(u) = Len(s) + Len(t) /\ Len(s) \in Nat /\ Len(t) \in Nat
      /\ DOMAIN u = 1 .. Len(u) /\ DOMAIN s = 1 .. Len(s) /\ DOMAIN t = 1 .. Len(t)
  OBVIOUS
<1>2. \A k \in DOMAIN u : u[k] = IF k <= Len(s) THEN s[k] ELSE t[k - Len(s)]
  OBVIOUS
<1>3. \A k \in DOMAIN s : k \in DOMAIN u /\ u[k] = s[k]
  BY <1>1, <1>2
<1>4. \A k \in DOMAIN t : Len(s) + k \in DOMAIN u /\ u[Len(s) + k] = t[k]
  BY <1>1, <1>2
<1>5. \A k \in DOMAIN u : \/ k \in DOMAIN s /\ u[k] = s[k]
                          \/ k \notin DOMAIN s /\ k - Len(s) \in DOMAIN t /\ u[k] = t[k - Len(s)]
  BY <1>1, <1>2
<1> HIDE DEF u
<1>6. Elements(u) = Elements(s) \cup Elements(t)
  <2>1. Elements(u) \subseteq Elements(s) \cup Elements(t)
    BY <1>5 DEF Elements
  <2>2. Elements(s) \subseteq Elements(u) /\ Elements(t) \subseteq Elements(u)
    BY <1>3, <1>4 DEF Elements
  <2> QED BY <2>1, <2>2
<1>7. ASSUME Distinct(s), Distinct(t), Elements(s) \cap Elements(t) = {} PROVE Distinct(u)
  <2> SUFFICES ASSUME NEW j \in DOMAIN u, NEW k \in DOMAIN u, u[j] = u[k] PROVE j = k
    BY DEF Distinct
  <2>1. \A a \in DOMAIN s, b \in DOMAIN t : s[a] # t[b]
    BY <1>7 DEF Elements
  <2>2. j \in Nat /\ k \in Nat
    BY <1>1
  <2>3. CASE j \in DOMAIN s /\ k \in DOMAIN s
    BY <2>3, <1>3, <1>7 DEF Distinct
  <2>4. CASE j \notin DOMAIN s /\ k \notin DOMAIN s
    <3>1. j - Len(s) = k - Len(s)
      BY <2>4, <1>5, <1>7 DEF Distinct
    <3> QED BY <3>1, <2>2, <1>1
  <2>5. CASE j \in DOMAIN s <=> k \notin DOMAIN s
    BY <2>5, <1>5, <2>1
  <2> QED BY <2>3, <2>4, <2>5
<1> QED BY <1>1, <1>6, <1>7 DEF u

(* The first item of a batch leaves it. *)
LEMMA ElementsHeadTail ==
  ASSUME NEW S, NEW s \in Seq(S), s # <<>>
  PROVE  /\ Head(s) \in Elements(s) /\ Tail(s) \in Seq(S)
         /\ Elements(s) = {Head(s)} \cup Elements(Tail(s))
         /\ Distinct(s) => Distinct(Tail(s)) /\ Head(s) \notin Elements(Tail(s))
<1> DEFINE t == Tail(s)
<1>1. /\ Len(s) \in Nat \ {0} /\ DOMAIN s = 1 .. Len(s) /\ Head(s) = s[1]
      /\ t \in Seq(S) /\ Len(t) = Len(s) - 1 /\ DOMAIN t = 1 .. Len(t)
  OBVIOUS
<1>2. \A k \in DOMAIN t : k + 1 \in DOMAIN s /\ t[k] = s[k + 1]
  BY HeadTailProperties
<1> HIDE DEF t
<1>3. \A k \in DOMAIN s : k # 1 => k - 1 \in DOMAIN t /\ t[k - 1] = s[k]
  BY <1>1, <1>2
<1>4. 1 \in DOMAIN s /\ \A k \in DOMAIN t : k + 1 # 1 /\ k \in Nat
  BY <1>1
<1>5. Head(s) \in Elements(s)
  BY <1>1, <1>4 DEF Elements
<1>6. Elements(t) \subseteq Elements(s)
  BY <1>2 DEF Elements
<1>7. ASSUME NEW x \in Elements(s), x # Head(s) PROVE x \in Elements(t)
  <2>1. PICK k \in DOMAIN s : s[k] = x
    BY DEF Elements
  <2> QED BY <2>1, <1>1, <1>3, <1>7 DEF Elements
<1>8. ASSUME Distinct(s) PROVE Distinct(t) /\ Head(s) \notin Elements(t)
  BY <1>8, <1>1, <1>2, <1>4 DEF Distinct, Elements
<1> QED BY <1>1, <1>5, <1>6, <1>7, <1>8 DEF t

(* An item occurs at most once in a sequence without duplicates. *)
LEMMA OccursOnce ==
  ASSUME NEW s, Distinct(s), NEW i
  PROVE  Occurrences(i, s) = IF i \in Elements(s) THEN 1 ELSE 0
<1> DEFINE K == {k \in DOMAIN s : s[k] = i}
<1>1. CASE i \in Elements(s)
  <2>1. PICK k \in DOMAIN s : s[k] = i
    BY <1>1 DEF Elements
  <2>2. K = {k}
    BY <2>1 DEF Distinct
  <2> QED BY <2>2, <1>1, FS_Singleton DEF Occurrences
<1>2. CASE i \notin Elements(s)
  <2>1. K = {}
    BY <1>2 DEF Elements
  <2> QED BY <2>1, <1>2, FS_EmptySet DEF Occurrences
<1> QED BY <1>1, <1>2

(* A worker is added once, so that there are no more than workers. *)
LEMMA FewWorkers ==
  ASSUME NEW s \in Seq(Workers), Distinct(s)
  PROVE  /\ Cardinality(Workers) \in Nat
         /\ Len(s) \in Nat /\ Len(s) <= Cardinality(Workers)
<1>1. s \in Injection(1 .. Len(s), Workers) /\ Len(s) \in Nat
  BY DEF Distinct, Injection, IsInjective
<1>2. Cardinality(1 .. Len(s)) = Len(s)
  <2>1. \A n \in Nat : Cardinality(1 .. n) = IF 1 > n THEN 0 ELSE n - 1 + 1
    BY FS_Interval
  <2> QED BY <2>1, <1>1
<1>3. Cardinality(1 .. Len(s)) <= Cardinality(Workers)
  BY <1>1, FS_Injection, SetsAssumption
<1> QED BY <1>1, <1>2, <1>3, FS_CardinalityType, SetsAssumption

-----------------------------------------------------------------------------
(* The inductive invariant, one part after the other. *)

LEMMA InitIInv == Init => IInv
<1> SUFFICES ASSUME Init PROVE IInv
  OBVIOUS
<1> USE SetsAssumption DEF Init
<1>1. Cardinality(Workers) \in Nat
  BY FS_CardinalityType
<1>2. TypeOK
  BY <1>1 DEF TypeOK, NoBase, Indices
<1>3. Exclusion
  BY DEF Exclusion
<1>4. Positions
  BY DEF Positions, Distinct
<1>5. Elements(<<>>) = {} /\ Distinct(<<>>)
  BY DEF Elements, Distinct
<1>6. Places
  BY <1>5 DEF Places, Held
<1>7. Leaving /\ Joined
  BY <1>5 DEF Leaving, Joined, Held
<1> QED BY <1>2, <1>3, <1>4, <1>6, <1>7 DEF IInv

(* A caller that scans and a Stop() that walks the workers have the mutex. *)
LEMMA StepExclusion == IInv /\ [Next]_vars => Exclusion'
<1> SUFFICES ASSUME IInv, [Next]_vars PROVE Exclusion'
  OBVIOUS
<1> USE SetsAssumption DEF IInv, TypeOK, Exclusion
<1>1. ASSUME NEW w \in Workers, Start(w) \/ AddWorker(w) \/ Run(w) PROVE Exclusion'
  BY <1>1 DEF Start, AddWorker, Run, ReadKeep, ReadLength, WaitReturns, Swap, ProcessBatch,
     ProcessItem, balancer, caller, stopper
<1>2. ASSUME NEW c \in Callers, Call(c) PROVE Exclusion'
  BY <1>2 DEF Call, AddWork, AddWorkRange, MayCall, balancer, stopper
<1>3. ASSUME NEW c \in Callers, Locks(c) PROVE Exclusion'
  <2>1. CASE WorkerReady(c)
    BY <2>1 DEF WorkerReady, balancer, stopper
  <2>2. CASE SleepFor(c)
    BY <2>2 DEF SleepFor, balancer, stopper
  <2>3. CASE LockAndScan(c)
    BY <2>3 DEF LockAndScan, stopper
  <2> QED BY <1>3, <2>1, <2>2, <2>3 DEF Locks
<1>4. ASSUME NEW c \in Callers, Pushes(c) PROVE Exclusion'
  <2>1. CASE Compare(c)
    BY <2>1 DEF Compare, caller, stopper
  <2>2. CASE PushAccepted(c)
    BY <2>2 DEF PushAccepted, Unlocked, stopper
  <2>3. CASE PushRefused(c)
    BY <2>3 DEF PushRefused, Unlocked, stopper
  <2> QED BY <1>4, <2>1, <2>2, <2>3 DEF Pushes
<1>5. CASE Stop
  BY <1>5 DEF Stop, StopLock, StopFlag, StopJoin, StopRelease, balancer, caller
<1>6. CASE UNCHANGED vars
  BY <1>6 DEF vars, balancer, caller, stopper
<1> QED BY <1>1, <1>2, <1>3, <1>4, <1>5, <1>6 DEF Next

(* Only AddWorker() changes _workers, and nobody is on its way along it. *)
LEMMA StepPositions == IInv /\ [Next]_vars => Positions'
<1> SUFFICES ASSUME IInv, [Next]_vars PROVE Positions'
  OBVIOUS
<1> USE SetsAssumption DEF IInv, TypeOK, Exclusion, Positions
<1>1. workers \in Seq(Workers) /\ Len(workers) \in Nat /\ DOMAIN workers = 1 .. Len(workers)
  OBVIOUS
<1>2. ASSUME NEW w \in Workers, AddWorker(w) PROVE Positions'
  <2>1. Distinct(workers')
    BY <1>2, <1>1 DEF AddWorker, Distinct, Elements
  <2>2. workers' # <<>>
    <3>1. Len(workers') = Len(workers) + 1
      BY <1>2, <1>1 DEF AddWorker
    <3> QED BY <3>1, <1>1
  <2>3. \A c \in Callers : ppc[c] # "scan"
    BY <1>2 DEF AddWorker
  <2> QED BY <1>2, <2>1, <2>2, <2>3 DEF AddWorker, caller, stopper
<1>3. ASSUME NEW w \in Workers, Start(w) \/ Run(w) PROVE Positions'
  BY <1>3 DEF Start, Run, ReadKeep, ReadLength, WaitReturns, Swap, ProcessBatch,
     ProcessItem, balancer, caller, stopper
<1>4. ASSUME NEW c \in Callers, Call(c) PROVE Positions'
  BY <1>4 DEF Call, AddWork, AddWorkRange, MayCall, balancer, stopper
<1>5. ASSUME NEW c \in Callers, Locks(c) PROVE Positions'
  <2>1. CASE WorkerReady(c) \/ SleepFor(c)
    BY <2>1 DEF WorkerReady, SleepFor, balancer, stopper
  <2>2. CASE LockAndScan(c)
    BY <2>2, <1>1 DEF LockAndScan, stopper
  <2> QED BY <1>5, <2>1, <2>2 DEF Locks
<1>6. ASSUME NEW c \in Callers, Pushes(c) PROVE Positions'
  <2>1. CASE Compare(c)
    <3>1. /\ best' \in {best, next} /\ next' = next + 1 /\ next <= Len(workers)
          /\ best \in DOMAIN workers /\ next \in 2 .. Len(workers) + 1
      BY <2>1 DEF Compare
    <3> HIDE DEF TypeOK, Positions, Exclusion
    <3>2. best' \in DOMAIN workers /\ next' \in 2 .. Len(workers) + 1
      BY <3>1, <1>1
    <3> USE DEF TypeOK, Positions, Exclusion
    <3> QED BY <2>1, <3>2 DEF Compare, caller, stopper
  <2>2. CASE PushAccepted(c) \/ PushRefused(c)
    BY <2>2 DEF PushAccepted, PushRefused, Unlocked, stopper
  <2> QED BY <1>6, <2>1, <2>2 DEF Pushes
<1>7. CASE Stop
  <2>1. CASE StopLock
    BY <2>1, <1>1 DEF StopLock, caller
  <2>2. CASE StopFlag
    BY <2>2 DEF StopFlag, balancer, caller
  <2>3. CASE StopJoin
    BY <2>3, <1>1 DEF StopJoin, balancer, caller
  <2>4. CASE StopRelease
    BY <2>4 DEF StopRelease, caller
  <2> QED BY <1>7, <2>1, <2>2, <2>3, <2>4 DEF Stop
<1>8. CASE UNCHANGED vars
  BY <1>8 DEF vars, balancer, caller, stopper
<1> QED BY <1>2, <1>3, <1>4, <1>5, <1>6, <1>7, <1>8 DEF Next

LEMMA StepTypeOK == IInv /\ [Next]_vars => TypeOK'
<1> SUFFICES ASSUME IInv, [Next]_vars PROVE TypeOK'
  OBVIOUS
<1> USE SetsAssumption DEF IInv, TypeOK
<1>1. /\ workers \in Seq(Workers) /\ Len(workers) \in Nat /\ DOMAIN workers = 1 .. Len(workers)
      /\ Cardinality(Workers) \in Nat /\ Len(workers) <= Cardinality(Workers)
  BY FewWorkers DEF Positions
<1>2. ASSUME NEW w \in Workers, Start(w) \/ AddWorker(w) PROVE TypeOK'
  <2>1. CASE Start(w)
    BY <2>1 DEF Start, balancer, caller, stopper
  <2>2. CASE AddWorker(w)
    <3>1. Append(workers, w) \in Seq(Workers)
      BY <1>1
    <3> QED BY <2>2, <3>1 DEF AddWorker, worker, caller, stopper
  <2> QED BY <1>2, <2>1, <2>2
<1>3. ASSUME NEW w \in Workers, Run(w) PROVE TypeOK'
  <2>1. CASE ReadKeep(w) \/ ReadLength(w) \/ WaitReturns(w)
    BY <2>1 DEF ReadKeep, ReadLength, WaitReturns, balancer, caller, stopper
  <2>2. CASE Swap(w)
    BY <2>2 DEF Swap, balancer, caller, stopper
  <2>3. CASE ProcessBatch(w)
    <3>1. ASSUME NEW i \in Items PROVE Occurrences(i, myCopy[w]) \in Nat
      <4>1. Distinct(myCopy[w])
        BY DEF Places
      <4>2. Occurrences(i, myCopy[w]) \in {0, 1}
        BY <4>1, OccursOnce
      <4> QED BY <4>2
    <3>2. done' = [i \in Items |-> done[i] + Occurrences(i, myCopy[w])]
      BY <2>3 DEF ProcessBatch, Occurrences
    <3>3. done' \in [Items -> Nat]
      BY <3>1, <3>2
    <3> QED BY <2>3, <3>3 DEF ProcessBatch, balancer, caller, stopper
  <2>4. CASE ProcessItem(w)
    <3>1. Head(myCopy[w]) \in Items /\ Tail(myCopy[w]) \in Seq(Items)
      BY <2>4, HeadTailProperties DEF ProcessItem
    <3> QED BY <2>4, <3>1 DEF ProcessItem, balancer, caller, stopper
  <2> QED BY <1>3, <2>1, <2>2, <2>3, <2>4 DEF Run
<1>4. ASSUME NEW c \in Callers, NEW i \in Items, AddWork(c, i) PROVE TypeOK'
  BY <1>4 DEF AddWork, balancer, worker, stopper
<1>5. ASSUME NEW c \in Callers, NEW s \in RangeArgs, AddWorkRange(c, s) PROVE TypeOK'
  <2>1. s \in Seq(Items)
    BY NumbersAssumption DEF RangeArgs
  <2> QED BY <1>5, <2>1 DEF AddWorkRange, balancer, worker, stopper
<1>6. ASSUME NEW c \in Callers, Locks(c) PROVE TypeOK'
  <2>1. CASE WorkerReady(c) \/ SleepFor(c)
    BY <2>1 DEF WorkerReady, SleepFor, balancer, worker, stopper
  <2>2. CASE LockAndScan(c)
    <3>1. 1 \in Indices /\ 2 \in Indices
      BY <2>2, <1>1 DEF LockAndScan, Positions, Indices
    <3>2. Lengths \in [Workers -> Nat]
      BY DEF Lengths
    <3> QED BY <2>2, <3>1, <3>2 DEF LockAndScan, worker, stopper
  <2> QED BY <1>6, <2>1, <2>2 DEF Locks
<1>7. ASSUME NEW c \in Callers, Pushes(c) PROVE TypeOK'
  <2>1. CASE Compare(c)
    <3>1. next \in Indices /\ next + 1 \in Indices
      BY <2>1, <1>1 DEF Compare, Positions, Indices
    <3> QED BY <2>1, <3>1 DEF Compare, worker, caller, stopper
  <2>2. CASE PushAccepted(c)
    <3>1. workers[best] \in Workers
      BY <2>2, <1>1 DEF PushAccepted, Positions
    <3>2. Elements(arg[c]) \subseteq Items
      BY ElementsOf
    <3>3. queue[workers[best]] \o arg[c] \in Seq(Items)
      BY <3>1
    <3>4. 0 \in Indices /\ NoBase \in [Workers -> Nat]
      BY <1>1 DEF Indices, NoBase
    <3>5. queue' \in [Workers -> Seq(Items)] /\ accepted' \in SUBSET Items
      BY <2>2, <3>1, <3>2, <3>3 DEF PushAccepted
    <3>6. arg' \in [Callers -> Seq(Items)]
      BY <2>2, EmptySeq DEF PushAccepted
    <3> QED BY <2>2, <3>4, <3>5, <3>6 DEF PushAccepted, Unlocked, stopper
  <2>3. CASE PushRefused(c)
    <3>1. 0 \in Indices /\ NoBase \in [Workers -> Nat]
      BY <1>1 DEF Indices, NoBase
    <3>2. arg' \in [Callers -> Seq(Items)]
      BY <2>3, EmptySeq DEF PushRefused
    <3> QED BY <2>3, <3>1, <3>2 DEF PushRefused, Unlocked, worker, stopper
  <2> QED BY <1>7, <2>1, <2>2, <2>3 DEF Pushes
<1>8. CASE Stop
  <2>1. 0 \in Indices /\ 1 \in Indices
    BY <1>1 DEF Indices
  <2>2. spc = "join" => sidx + 1 \in Indices
    BY <1>1 DEF Positions, Indices
  <2> QED BY <1>8, <2>1, <2>2 DEF Stop, StopLock, StopFlag, StopJoin, StopRelease,
         balancer, worker, caller
<1>9. CASE UNCHANGED vars
  BY <1>9 DEF vars, balancer, worker, caller, stopper
<1> QED BY <1>2, <1>3, <1>4, <1>5, <1>6, <1>7, <1>8, <1>9 DEF Next, Call

(* An item moves from its caller to a queue, from there to the worker's    *)
(* copy, and from there to those that are done.                            *)
LEMMA StepPlaces == IInv /\ [Next]_vars => Places'
<1> SUFFICES ASSUME IInv, [Next]_vars PROVE Places'
  OBVIOUS
<1> USE DEF IInv, TypeOK
<1>1. Elements(<<>>) = {} /\ Distinct(<<>>)
  BY DEF Elements, Distinct
<1>2. ASSUME UNCHANGED <<arg, accepted, queue, myCopy, done>> PROVE Places'
  BY <1>2 DEF Places, Held
<1>13. ASSUME UNCHANGED <<arg, accepted>>,
              \A v \in Workers : /\ Distinct(queue'[v]) /\ Distinct(myCopy'[v])
                                 /\ Elements(queue'[v]) \cap Elements(myCopy'[v]) = {},
              \A v \in Workers : Held(v)' \subseteq Held(v),
              \A i \in Items : done'[i] = IF i \in accepted /\ \A v \in Workers : i \notin Held(v)'
                                         THEN 1 ELSE 0
       PROVE  Places'
  <2>1. \A v, w \in Workers : v # w => Held(v)' \cap Held(w)' = {}
    <3> SUFFICES ASSUME NEW v \in Workers, NEW w \in Workers, v # w PROVE Held(v)' \cap Held(w)' = {}
      OBVIOUS
    <3>1. Held(v) \cap Held(w) = {}
      BY DEF Places
    <3> QED BY <3>1, <1>13
  <2>2. \A v \in Workers : Held(v)' \subseteq accepted'
    <3> SUFFICES ASSUME NEW v \in Workers PROVE Held(v)' \subseteq accepted'
      OBVIOUS
    <3>1. Held(v) \subseteq accepted
      BY DEF Places
    <3> QED BY <3>1, <1>13
  <2>3. /\ \A d \in Callers : Distinct(arg'[d]) /\ Elements(arg'[d]) \cap accepted' = {}
        /\ \A d, e \in Callers : d # e => Elements(arg'[d]) \cap Elements(arg'[e]) = {}
    BY <1>13 DEF Places
  <2> QED BY <2>1, <2>2, <2>3, <1>13 DEF Places
<1>14. ASSUME NEW w \in Workers, NEW i \in Held(w)
       PROVE  i \in Items /\ i \in accepted /\ done[i] = 0 /\ \A v \in Workers : v # w => i \notin Held(v)
  <2>1. i \in accepted
    BY DEF Places
  <2>2. done[i] = 0
    BY <2>1 DEF Places
  <2>3. ASSUME NEW v \in Workers, v # w PROVE i \notin Held(v)
    BY <2>3 DEF Places
  <2> QED BY <2>1, <2>2, <2>3
<1>3. ASSUME NEW w \in Workers, Start(w) \/ AddWorker(w) PROVE Places'
  BY <1>2, <1>3 DEF Start, AddWorker, caller, worker
<1>4. ASSUME NEW w \in Workers, Run(w) PROVE Places'
  <2>1. CASE ReadKeep(w) \/ ReadLength(w) \/ WaitReturns(w)
    BY <1>2, <2>1 DEF ReadKeep, ReadLength, WaitReturns, caller
  <2>2. CASE Swap(w)
    <3>1. myCopy[w] = <<>>
      BY <2>2 DEF Swap, Leaving
    <3>2. queue'[w] = <<>> /\ myCopy'[w] = queue[w]
      BY <2>2 DEF Swap
    <3>3. \A v \in Workers : v # w => queue'[v] = queue[v] /\ myCopy'[v] = myCopy[v]
      BY <2>2 DEF Swap
    <3>4. \A v \in Workers : Held(v)' = Held(v)
      BY <3>1, <3>2, <3>3, <1>1 DEF Held
    <3>5. UNCHANGED <<arg, accepted, done>>
      BY <2>2 DEF Swap, caller
    <3>6. ASSUME NEW v \in Workers
          PROVE  /\ Distinct(queue'[v]) /\ Distinct(myCopy'[v])
                 /\ Elements(queue'[v]) \cap Elements(myCopy'[v]) = {}
      <4>1. CASE v = w
        BY <4>1, <3>2, <1>1 DEF Places
      <4>2. CASE v # w
        BY <4>2, <3>3 DEF Places
      <4> QED BY <4>1, <4>2
    <3>7. \A i \in Items : done'[i] = IF i \in accepted /\ \A v \in Workers : i \notin Held(v)' THEN 1 ELSE 0
      BY <3>4, <3>5 DEF Places
    <3> QED BY <3>4, <3>5, <3>6, <3>7, <1>13
  <2>3. CASE ProcessBatch(w)
    <3>1. \A i \in Items : Occurrences(i, myCopy[w]) = IF i \in Elements(myCopy[w]) THEN 1 ELSE 0
      BY OccursOnce DEF Places
    <3>2. \A i \in Items : done'[i] = done[i] + Occurrences(i, myCopy[w])
      BY <2>3 DEF ProcessBatch, Occurrences
    <3>3. /\ UNCHANGED <<arg, accepted, queue>>
          /\ \A v \in Workers : myCopy'[v] = IF v = w THEN <<>> ELSE myCopy[v]
      BY <2>3 DEF ProcessBatch, caller
    <3>4. \A v \in Workers : Held(v)' = IF v = w THEN Held(v) \ Elements(myCopy[w]) ELSE Held(v)
      BY <3>3, <1>1 DEF Held, Places
    <3>5. Elements(myCopy[w]) \subseteq Held(w)
      BY DEF Held
    <3>6. ASSUME NEW i \in Items
          PROVE  done'[i] = IF i \in accepted /\ \A v \in Workers : i \notin Held(v)' THEN 1 ELSE 0
      <4>1. CASE i \in Elements(myCopy[w])
        <5>1. done[i] = 0 /\ i \in accepted /\ \A v \in Workers : v # w => i \notin Held(v)
          BY <4>1, <3>5, <1>14
        <5>2. \A v \in Workers : i \notin Held(v)'
          BY <4>1, <3>4, <5>1
        <5> QED BY <5>1, <5>2, <4>1, <3>1, <3>2
      <4>2. CASE i \notin Elements(myCopy[w])
        <5>1. \A v \in Workers : i \in Held(v)' <=> i \in Held(v)
          BY <4>2, <3>4
        <5>2. done'[i] = done[i]
          BY <4>2, <3>1, <3>2
        <5> QED BY <5>1, <5>2 DEF Places
      <4> QED BY <4>1, <4>2
    <3>7. \A v \in Workers : /\ Distinct(queue'[v]) /\ Distinct(myCopy'[v])
                             /\ Elements(queue'[v]) \cap Elements(myCopy'[v]) = {}
      BY <3>3, <1>1 DEF Places
    <3>8. \A v \in Workers : Held(v)' \subseteq Held(v)
      BY <3>4
    <3> QED BY <3>3, <3>6, <3>7, <3>8, <1>13
  <2>4. CASE ProcessItem(w)
    <3> DEFINE h == Head(myCopy[w])
    <3>1. /\ h \in Elements(myCopy[w]) /\ h \in Items
          /\ Elements(myCopy[w]) = {h} \cup Elements(Tail(myCopy[w]))
          /\ Distinct(Tail(myCopy[w])) /\ h \notin Elements(Tail(myCopy[w]))
      BY <2>4, ElementsHeadTail, ElementsOf DEF ProcessItem, Places
    <3>2. /\ UNCHANGED <<arg, accepted, queue>>
          /\ \A v \in Workers : myCopy'[v] = IF v = w THEN Tail(myCopy[w]) ELSE myCopy[v]
          /\ \A i \in Items : done'[i] = IF i = h THEN done[i] + 1 ELSE done[i]
      BY <2>4, <3>1 DEF ProcessItem, caller
    <3> HIDE DEF h
    <3>3. \A v \in Workers : Held(v)' = IF v = w THEN Held(v) \ {h} ELSE Held(v)
      BY <3>1, <3>2 DEF Held, Places
    <3>4. h \in Held(w)
      BY <3>1 DEF Held
    <3>5. ASSUME NEW i \in Items
          PROVE  done'[i] = IF i \in accepted /\ \A v \in Workers : i \notin Held(v)' THEN 1 ELSE 0
      <4>1. CASE i = h
        <5>1. done[i] = 0 /\ i \in accepted /\ \A v \in Workers : v # w => i \notin Held(v)
          BY <4>1, <3>4, <1>14
        <5>2. \A v \in Workers : i \notin Held(v)'
          BY <4>1, <3>3, <5>1
        <5> QED BY <5>1, <5>2, <4>1, <3>2
      <4>2. CASE i # h
        <5>1. \A v \in Workers : i \in Held(v)' <=> i \in Held(v)
          BY <4>2, <3>3
        <5> QED BY <5>1, <4>2, <3>2 DEF Places
      <4> QED BY <4>1, <4>2
    <3>6. \A v \in Workers : /\ Distinct(queue'[v]) /\ Distinct(myCopy'[v])
                             /\ Elements(queue'[v]) \cap Elements(myCopy'[v]) = {}
      BY <3>1, <3>2 DEF Places
    <3>7. \A v \in Workers : Held(v)' \subseteq Held(v)
      BY <3>3
    <3> QED BY <3>2, <3>5, <3>6, <3>7, <1>13
  <2> QED BY <1>4, <2>1, <2>2, <2>3, <2>4 DEF Run
<1>5. ASSUME NEW c \in Callers, NEW s \in Seq(Items), Distinct(s), \A x \in Elements(s) : Fresh(x),
             arg' = [arg EXCEPT ![c] = s], UNCHANGED <<accepted, queue, myCopy, done>>
      PROVE  Places'
  <2>1. \A d \in Callers : arg'[d] = IF d = c THEN s ELSE arg[d]
    BY <1>5
  <2>2. Elements(s) \cap accepted = {} /\ \A d \in Callers : Elements(s) \cap Elements(arg[d]) = {}
    BY <1>5 DEF Fresh
  <2>3. \A v \in Workers : Held(v)' = Held(v)
    BY <1>5 DEF Held
  <2> QED BY <1>5, <2>1, <2>2, <2>3 DEF Places
<1>6. ASSUME NEW c \in Callers, Call(c) PROVE Places'
  <2>1. ASSUME NEW i \in Items, AddWork(c, i) PROVE Places'
    <3>1. Elements(<<i>>) = {i} /\ Distinct(<<i>>) /\ <<i>> \in Seq(Items)
      BY DEF Elements, Distinct
    <3> QED BY <2>1, <3>1, <1>5 DEF AddWork, worker
  <2>2. ASSUME NEW s \in RangeArgs, AddWorkRange(c, s) PROVE Places'
    <3>1. s \in Seq(Items) /\ Distinct(s)
      BY NumbersAssumption DEF RangeArgs
    <3>2. \A x \in Elements(s) : Fresh(x)
      BY <2>2 DEF AddWorkRange, Elements
    <3> QED BY <2>2, <3>1, <3>2, <1>5 DEF AddWorkRange, worker
  <2> QED BY <1>6, <2>1, <2>2 DEF Call
<1>7. ASSUME NEW c \in Callers, Locks(c) PROVE Places'
  BY <1>2, <1>7 DEF Locks, WorkerReady, SleepFor, LockAndScan, worker
<1>8. ASSUME NEW c \in Callers, PushAccepted(c) PROVE Places'
  <2>1. PICK b \in Workers : b = workers[best]
    BY <1>8 DEF PushAccepted, Positions
  <2>2. /\ \A v \in Workers : queue'[v] = IF v = b THEN queue[b] \o arg[c] ELSE queue[v]
        /\ \A d \in Callers : arg'[d] = IF d = c THEN <<>> ELSE arg[d]
        /\ accepted' = accepted \cup Elements(arg[c])
        /\ UNCHANGED <<myCopy, done>>
    BY <1>8, <2>1 DEF PushAccepted
  <2>3. \A v \in Workers : Elements(arg[c]) \cap Held(v) = {}
    BY DEF Places
  <2>4. Elements(arg[c]) \cap Elements(queue[b]) = {} /\ Elements(arg[c]) \cap Elements(myCopy[b]) = {}
    BY <2>1, <2>3 DEF Held
  <2>5. /\ Distinct(queue[b] \o arg[c])
        /\ Elements(queue[b] \o arg[c]) = Elements(queue[b]) \cup Elements(arg[c])
    BY <2>1, <2>4, ElementsConcat DEF Places
  <2>6. \A v \in Workers : Held(v)' = IF v = b THEN Held(b) \cup Elements(arg[c]) ELSE Held(v)
    BY <2>2, <2>5 DEF Held
  <2>7. ASSUME NEW i \in Items
        PROVE  done'[i] = IF i \in accepted' /\ \A v \in Workers : i \notin Held(v)' THEN 1 ELSE 0
    <3>1. CASE i \in Elements(arg[c])
      <4>1. i \notin accepted
        BY <3>1 DEF Places
      <4>2. i \in Held(b)'
        BY <3>1, <2>6
      <4>3. done'[i] = 0
        BY <4>1, <2>2 DEF Places
      <4> QED BY <4>2, <4>3
    <3>2. CASE i \notin Elements(arg[c])
      <4>1. /\ i \in accepted' <=> i \in accepted
            /\ \A v \in Workers : i \in Held(v)' <=> i \in Held(v)
        BY <3>2, <2>2, <2>6
      <4> QED BY <4>1, <2>2 DEF Places
    <3> QED BY <3>1, <3>2
  <2>8. \A d \in Callers : Distinct(arg'[d]) /\ Elements(arg'[d]) \cap accepted' = {}
    BY <2>2, <1>1 DEF Places
  <2>9. \A d, e \in Callers : d # e => Elements(arg'[d]) \cap Elements(arg'[e]) = {}
    BY <2>2, <1>1 DEF Places
  <2>10. ASSUME NEW v \in Workers
         PROVE  /\ Distinct(queue'[v]) /\ Distinct(myCopy'[v])
                /\ Elements(queue'[v]) \cap Elements(myCopy'[v]) = {}
    <3>1. Distinct(queue[v]) /\ Distinct(myCopy[v]) /\ Elements(queue[v]) \cap Elements(myCopy[v]) = {}
      BY DEF Places
    <3>2. CASE v = b
      BY <3>1, <3>2, <2>2, <2>4, <2>5
    <3>3. CASE v # b
      BY <3>1, <3>3, <2>2
    <3> QED BY <3>2, <3>3
  <2>11. ASSUME NEW v \in Workers, NEW w \in Workers, v # w PROVE Held(v)' \cap Held(w)' = {}
    <3>1. Held(v) \cap Held(w) = {}
      BY <2>11 DEF Places
    <3>2. Elements(arg[c]) \cap Held(v) = {} /\ Elements(arg[c]) \cap Held(w) = {}
      BY <2>3
    <3>3. CASE v = b
      <4>1. Held(v)' = Held(v) \cup Elements(arg[c]) /\ Held(w)' = Held(w)
        BY <2>6, <2>11, <3>3
      <4> QED BY <4>1, <3>1, <3>2
    <3>4. CASE w = b
      <4>1. Held(v)' = Held(v) /\ Held(w)' = Held(w) \cup Elements(arg[c])
        BY <2>6, <2>11, <3>4
      <4> QED BY <4>1, <3>1, <3>2
    <3>5. CASE v # b /\ w # b
      <4>1. Held(v)' = Held(v) /\ Held(w)' = Held(w)
        BY <2>6, <3>5
      <4> QED BY <4>1, <3>1
    <3> QED BY <3>3, <3>4, <3>5
  <2>12. ASSUME NEW v \in Workers PROVE Held(v)' \subseteq accepted'
    <3>1. Held(v) \subseteq accepted
      BY DEF Places
    <3> QED BY <3>1, <2>2, <2>6
  <2> QED BY <2>7, <2>8, <2>9, <2>10, <2>11, <2>12 DEF Places
<1>9. ASSUME NEW c \in Callers, PushRefused(c) PROVE Places'
  <2>1. /\ \A d \in Callers : arg'[d] = arg[d] \/ arg'[d] = <<>>
        /\ UNCHANGED <<accepted, queue, myCopy, done>>
    BY <1>9 DEF PushRefused, worker
  <2>2. \A d \in Callers : Distinct(arg'[d]) /\ Elements(arg'[d]) \subseteq Elements(arg[d])
    BY <2>1, <1>1 DEF Places
  <2>3. \A v \in Workers : Held(v)' = Held(v)
    BY <2>1 DEF Held
  <2>4. \A d, e \in Callers : d # e => Elements(arg'[d]) \cap Elements(arg'[e]) = {}
    BY <2>2 DEF Places
  <2>5. \A d \in Callers : Elements(arg'[d]) \cap accepted' = {}
    BY <2>1, <2>2 DEF Places
  <2>6. \A i \in Items : done'[i] = IF i \in accepted' /\ \A v \in Workers : i \notin Held(v)' THEN 1 ELSE 0
    BY <2>1, <2>3 DEF Places
  <2>7. /\ \A v, w \in Workers : v # w => Held(v)' \cap Held(w)' = {}
        /\ \A v \in Workers : Held(v)' \subseteq accepted'
    BY <2>1, <2>3 DEF Places
  <2>8. \A v \in Workers : /\ Distinct(queue'[v]) /\ Distinct(myCopy'[v])
                           /\ Elements(queue'[v]) \cap Elements(myCopy'[v]) = {}
    BY <2>1 DEF Places
  <2> QED BY <2>2, <2>4, <2>5, <2>6, <2>7, <2>8 DEF Places
<1>10. ASSUME NEW c \in Callers, Compare(c) PROVE Places'
  BY <1>2, <1>10 DEF Compare, worker, caller
<1>11. CASE Stop
  BY <1>2, <1>11 DEF Stop, StopLock, StopFlag, StopJoin, StopRelease, worker, caller
<1>12. CASE UNCHANGED vars
  BY <1>2, <1>12 DEF vars, worker, caller
<1> QED BY <1>3, <1>4, <1>6, <1>7, <1>8, <1>9, <1>10, <1>11, <1>12 DEF Next, Pushes

(* No queue grows while Stop() has the mutex, and a worker leaves only     *)
(* when its flag is cleared and its queue is empty.                        *)
LEMMA StepLeaving == IInv /\ [Next]_vars => Leaving'
<1> SUFFICES ASSUME IInv, [Next]_vars PROVE Leaving'
  OBVIOUS
<1> USE DEF IInv
<1>1. Elements(<<>>) = {}
  BY DEF Elements
<1>2. ASSUME UNCHANGED <<workers, mtx, spc>>,
             NEW w \in Workers,
             \A v \in Workers \ {w} : UNCHANGED <<keep[v], tpc[v], queue[v], myCopy[v]>>,
             /\ spc = "idle" /\ tpc'[w] # "none" => keep'[w]
             /\ tpc'[w] \in {"length", "exited"} => ~keep'[w]
             /\ tpc'[w] # "process" => myCopy'[w] = <<>>
             /\ mtx = Stopper /\ tpc'[w] = "exited" => queue'[w] = <<>>
             /\ Held(w)' \subseteq Held(w)
      PROVE  Leaving'
  <2>1. \A v \in Workers \ {w} : Held(v)' = Held(v)
    BY <1>2 DEF Held
  <2> QED BY <1>2, <2>1 DEF Leaving
<1>3. ASSUME NEW w \in Workers, Start(w) PROVE Leaving'
  <2>1. /\ UNCHANGED <<workers, queue, myCopy, mtx, spc>>
        /\ keep'[w] /\ tpc[w] = "none" /\ tpc'[w] = "loop"
        /\ \A v \in Workers \ {w} : keep'[v] = keep[v] /\ tpc'[v] = tpc[v]
    BY <1>3 DEF Start, balancer, caller, stopper, TypeOK
  <2>2. Held(w)' = Held(w)
    BY <2>1 DEF Held
  <2> QED BY <2>1, <2>2, <1>2 DEF Leaving
<1>4. ASSUME NEW w \in Workers, AddWorker(w) PROVE Leaving'
  <2>1. /\ UNCHANGED <<keep, tpc, queue, myCopy, mtx, spc>>
        /\ workers' = Append(workers, w)
    BY <1>4 DEF AddWorker, worker, stopper
  <2>2. Elements(workers) \subseteq Elements(workers')
    <3>1. workers \in Seq(Workers) /\ DOMAIN workers = 1 .. Len(workers) /\ Len(workers) \in Nat
      BY DEF TypeOK
    <3>2. DOMAIN workers' = 1 .. Len(workers) + 1 /\ \A k \in DOMAIN workers : workers'[k] = workers[k]
      BY <2>1, <3>1
    <3> QED BY <3>1, <3>2 DEF Elements
  <2>3. \A v \in Workers : Held(v)' = Held(v)
    BY <2>1 DEF Held
  <2> QED BY <2>1, <2>2, <2>3 DEF Leaving
<1>5. ASSUME NEW w \in Workers, ReadKeep(w) \/ ReadLength(w) \/ WaitReturns(w) PROVE Leaving'
  <2>1. /\ UNCHANGED <<workers, keep, queue, myCopy, mtx, spc>>
        /\ \A v \in Workers \ {w} : tpc'[v] = tpc[v]
        /\ tpc[w] \in {"loop", "length", "wait"} /\ tpc'[w] \notin {"none", "process"}
        /\ tpc'[w] = "length" => ~keep[w]
        /\ tpc'[w] = "exited" => tpc[w] = "length" /\ queue[w] = <<>>
    BY <1>5 DEF ReadKeep, ReadLength, WaitReturns, balancer, caller, stopper, TypeOK
  <2>2. Held(w)' = Held(w)
    BY <2>1 DEF Held
  <2> QED BY <2>1, <2>2, <1>2 DEF Leaving
<1>6. ASSUME NEW w \in Workers, Swap(w) PROVE Leaving'
  <2>1. /\ UNCHANGED <<workers, keep, mtx, spc>>
        /\ \A v \in Workers \ {w} : UNCHANGED <<tpc[v], queue[v], myCopy[v]>>
        /\ tpc[w] = "swap" /\ tpc'[w] = "process" /\ queue'[w] = <<>> /\ myCopy'[w] = queue[w]
    BY <1>6 DEF Swap, balancer, caller, stopper, TypeOK
  <2>2. Held(w)' \subseteq Held(w)
    BY <2>1, <1>1 DEF Held
  <2> QED BY <2>1, <2>2, <1>2 DEF Leaving
<1>7. ASSUME NEW w \in Workers, ProcessBatch(w) PROVE Leaving'
  <2>1. /\ UNCHANGED <<workers, keep, queue, mtx, spc>>
        /\ \A v \in Workers \ {w} : UNCHANGED <<tpc[v], myCopy[v]>>
        /\ tpc[w] = "process" /\ tpc'[w] = "loop" /\ myCopy'[w] = <<>>
    BY <1>7 DEF ProcessBatch, MayProcess, balancer, caller, stopper, TypeOK
  <2>2. Held(w)' \subseteq Held(w)
    BY <2>1, <1>1 DEF Held
  <2> QED BY <2>1, <2>2, <1>2 DEF Leaving
<1>8. ASSUME NEW w \in Workers, ProcessItem(w) PROVE Leaving'
  <2>1. myCopy[w] \in Seq(Items) /\ myCopy[w] # <<>>
    BY <1>8 DEF ProcessItem, TypeOK
  <2>2. Elements(Tail(myCopy[w])) \subseteq Elements(myCopy[w])
    BY <2>1, ElementsHeadTail
  <2>3. Len(myCopy[w]) = 1 => Tail(myCopy[w]) = <<>>
    <3>1. Tail(myCopy[w]) \in Seq(Items) /\ Len(Tail(myCopy[w])) = Len(myCopy[w]) - 1
      BY <2>1, HeadTailProperties
    <3>2. Tail(myCopy[w]) # <<>> => Len(Tail(myCopy[w])) \in Nat \ {0}
      BY <3>1, EmptySeq
    <3> QED BY <3>1, <3>2
  <2>4. /\ UNCHANGED <<workers, keep, queue, mtx, spc>>
        /\ \A v \in Workers \ {w} : UNCHANGED <<tpc[v], myCopy[v]>>
        /\ tpc[w] = "process" /\ myCopy'[w] = Tail(myCopy[w])
        /\ tpc'[w] = IF Len(myCopy[w]) = 1 THEN "loop" ELSE "process"
    BY <1>8 DEF ProcessItem, MayProcess, balancer, caller, stopper, TypeOK
  <2>5. Held(w)' \subseteq Held(w)
    BY <2>2, <2>4 DEF Held
  <2> QED BY <2>3, <2>4, <2>5, <1>2 DEF Leaving
<1>9. ASSUME NEW c \in Callers, Call(c) \/ Locks(c) \/ Compare(c) \/ PushRefused(c) PROVE Leaving'
  <2>1. UNCHANGED <<worker, workers, stopper>> /\ mtx' # Stopper
    BY <1>9, SetsAssumption DEF Call, AddWork, AddWorkRange, Locks, WorkerReady, SleepFor,
       LockAndScan, Compare, PushRefused, Unlocked, balancer, Exclusion
  <2>2. \A v \in Workers : Held(v)' = Held(v)
    BY <2>1 DEF Held, worker
  <2> QED BY <2>1, <2>2 DEF Leaving, worker, stopper
<1>10. ASSUME NEW c \in Callers, PushAccepted(c) PROVE Leaving'
  <2>1. PICK b \in Workers : b = workers[best] /\ b \in Elements(workers)
    BY <1>10 DEF PushAccepted, Elements, Positions, TypeOK
  <2>2. mtx' # Stopper
    BY <1>10, SetsAssumption DEF PushAccepted, Unlocked
  <2>3. /\ UNCHANGED <<workers, keep, tpc, myCopy, spc>>
        /\ \A v \in Workers \ {b} : queue'[v] = queue[v]
    BY <1>10, <2>1 DEF PushAccepted, stopper, TypeOK
  <2>4. \A v \in Workers \ {b} : Held(v)' = Held(v)
    BY <2>3 DEF Held
  <2> QED BY <2>1, <2>2, <2>3, <2>4 DEF Leaving
<1>11. CASE Stop
  <2>1. /\ UNCHANGED <<workers, tpc, queue, myCopy>>
        /\ \A v \in Workers : Held(v)' = Held(v)
    BY <1>11 DEF Stop, StopLock, StopFlag, StopJoin, StopRelease, Held, balancer, worker
  <2>2. CASE StopLock
    BY <2>1, <2>2 DEF StopLock, Leaving, worker
  <2>3. CASE StopFlag
    <3>1. spc' = "join" /\ UNCHANGED mtx /\ \A v \in Workers : keep'[v] => keep[v]
      BY <2>3 DEF StopFlag, balancer, TypeOK
    <3> QED BY <2>1, <3>1 DEF Leaving
  <2>4. CASE StopJoin
    BY <2>1, <2>4 DEF StopJoin, Leaving, balancer, worker
  <2>5. CASE StopRelease
    BY <2>1, <2>5, SetsAssumption DEF StopRelease, Leaving, worker
  <2> QED BY <1>11, <2>2, <2>3, <2>4, <2>5 DEF Stop
<1>12. CASE UNCHANGED vars
  <2>1. \A v \in Workers : Held(v)' = Held(v)
    BY <1>12 DEF Held, vars, worker
  <2> QED BY <1>12, <2>1 DEF Leaving, vars, balancer, worker, stopper
<1> QED BY <1>3, <1>4, <1>5, <1>6, <1>7, <1>8, <1>9, <1>10, <1>11, <1>12 DEF Next, Run, Pushes

(* Who has exited stays so, and nobody is added while Stop() walks along.  *)
LEMMA StepJoined == IInv /\ [Next]_vars => Joined'
<1> SUFFICES ASSUME IInv, [Next]_vars PROVE Joined'
  OBVIOUS
<1>1. /\ workers \in Seq(Workers) /\ DOMAIN workers = 1 .. Len(workers) /\ Len(workers) \in Nat
      /\ \A k \in DOMAIN workers : workers[k] \in Workers
  BY DEF IInv, TypeOK
<1>2. ASSUME UNCHANGED <<workers, stopper>>,
             \A v \in Workers : tpc[v] = "exited" => tpc'[v] = "exited"
      PROVE  Joined'
  BY <1>1, <1>2 DEF IInv, Joined, stopper
<1>3. ASSUME NEW w \in Workers, AddWorker(w) PROVE Joined'
  <2>1. spc \notin {"flag", "join", "release"}
    BY <1>3, SetsAssumption DEF AddWorker, IInv, Exclusion
  <2> QED BY <1>3, <2>1 DEF AddWorker, Joined, stopper
<1>4. ASSUME NEW w \in Workers, Start(w) \/ Run(w) PROVE Joined'
  <2>1. UNCHANGED <<workers, stopper>>
    BY <1>4 DEF Start, Run, ReadKeep, ReadLength, WaitReturns, Swap, ProcessBatch, ProcessItem, balancer
  <2>2. tpc[w] # "exited" /\ \A v \in Workers : v # w => tpc'[v] = tpc[v]
    BY <1>4 DEF Start, Run, ReadKeep, ReadLength, WaitReturns, Swap, ProcessBatch, ProcessItem,
       MayProcess, IInv, TypeOK
  <2> QED BY <2>1, <2>2, <1>2
<1>5. ASSUME NEW c \in Callers, Call(c) \/ Locks(c) \/ Pushes(c) PROVE Joined'
  <2>1. UNCHANGED <<workers, stopper, tpc>>
    BY <1>5 DEF Call, AddWork, AddWorkRange, Locks, WorkerReady, SleepFor, LockAndScan,
       Pushes, Compare, PushAccepted, PushRefused, balancer, worker
  <2> QED BY <2>1, <1>2
<1>6. CASE Stop
  <2>1. UNCHANGED <<workers, tpc>>
    BY <1>6 DEF Stop, StopLock, StopFlag, StopJoin, StopRelease, balancer, worker
  <2>2. CASE StopLock
    <3>1. sidx' = 1 /\ spc' = IF workers = <<>> THEN "release" ELSE "flag"
      BY <2>2 DEF StopLock
    <3> QED BY <2>1, <3>1, <1>1 DEF Joined
  <2>3. CASE StopFlag
    BY <2>1, <2>3 DEF StopFlag, IInv, Joined
  <2>4. CASE StopJoin
    <3>1. /\ spc = "join" /\ sidx \in 1 .. Len(workers) /\ tpc[workers[sidx]] = "exited"
          /\ sidx' = sidx + 1 /\ spc' = IF sidx = Len(workers) THEN "release" ELSE "flag"
      BY <2>4, <1>1 DEF StopJoin, IInv, Positions
    <3>2. ASSUME NEW k \in DOMAIN workers, spc' = "release" \/ k < sidx' PROVE k < sidx \/ k = sidx
      <4>1. PICK n \in Nat : n = Len(workers)
        BY <1>1
      <4>2. k \in 1 .. n /\ sidx \in 1 .. n
        BY <4>1, <3>1, <1>1
      <4>3. sidx = n \/ k < sidx + 1
        BY <4>1, <3>1, <3>2
      <4> QED BY <4>2, <4>3
    <3> QED BY <2>1, <3>1, <3>2 DEF IInv, Joined
  <2>5. CASE StopRelease
    BY <2>1, <2>5 DEF StopRelease, Joined
  <2> QED BY <1>6, <2>2, <2>3, <2>4, <2>5 DEF Stop
<1>7. CASE UNCHANGED vars
  BY <1>2, <1>7 DEF vars, balancer, worker
<1> QED BY <1>3, <1>4, <1>5, <1>6, <1>7 DEF Next

(* Who has the mutex, where each item is, which workers have left: the     *)
(* inductive invariant of AddWork, Worker::Run and Stop.                   *)
THEOREM Invariance == Spec => []IInv
<1>1. Init => IInv
  BY InitIInv
<1>2. IInv /\ [Next]_vars => IInv'
  BY StepTypeOK, StepExclusion, StepPositions, StepPlaces, StepLeaving, StepJoined DEF IInv
<1> QED BY <1>1, <1>2, PTL DEF Spec

-----------------------------------------------------------------------------
(* What the invariant is for. *)

(* Type correctness, with every position along _workers in its bounds. *)
THEOREM Typing == Spec => []TypeOK
<1>1. IInv => TypeOK
  BY DEF IInv
<1> QED BY <1>1, Invariance, PTL

(* No accepted item is lost or processed twice between the AddWork that    *)
(* accepts it and the ProcessWork that gets it.                            *)
THEOREM NoItemLostOrRepeated == Spec => []EachItemOnce
<1>1. IInv => EachItemOnce
  <2> SUFFICES ASSUME IInv, NEW i \in Items
               PROVE  /\ done[i] + Cardinality(Holders(i)) = IF i \in accepted THEN 1 ELSE 0
                      /\ \A w \in Holders(i) : Occurrences(i, queue[w]) + Occurrences(i, myCopy[w]) = 1
    BY DEF EachItemOnce
  <2>1. ASSUME NEW w \in Workers
        PROVE  Occurrences(i, queue[w]) + Occurrences(i, myCopy[w]) = IF i \in Held(w) THEN 1 ELSE 0
    <3>1. /\ Distinct(queue[w]) /\ Distinct(myCopy[w])
          /\ Elements(queue[w]) \cap Elements(myCopy[w]) = {}
      BY DEF IInv, Places
    <3>2. /\ Occurrences(i, queue[w]) = IF i \in Elements(queue[w]) THEN 1 ELSE 0
          /\ Occurrences(i, myCopy[w]) = IF i \in Elements(myCopy[w]) THEN 1 ELSE 0
      BY <3>1, OccursOnce
    <3> QED BY <3>1, <3>2 DEF Held
  <2>2. Holders(i) = {w \in Workers : i \in Held(w)}
    BY <2>1 DEF Holders
  <2>3. CASE \E w \in Workers : i \in Held(w)
    <3>1. PICK w \in Workers : i \in Held(w)
      BY <2>3
    <3>2. ASSUME NEW v \in Workers, i \in Held(v) PROVE v = w
      BY <3>1, <3>2 DEF IInv, Places
    <3>3. Holders(i) = {w}
      BY <2>2, <3>1, <3>2
    <3>4. Cardinality(Holders(i)) = 1
      BY <3>3, FS_Singleton
    <3>5. i \in accepted
      BY <3>1 DEF IInv, Places
    <3>6. done[i] = 0
      BY <3>1 DEF IInv, Places
    <3> QED BY <2>1, <3>1, <3>3, <3>4, <3>5, <3>6
  <2>4. CASE \A w \in Workers : i \notin Held(w)
    <3>1. Holders(i) = {}
      BY <2>2, <2>4
    <3>2. Cardinality(Holders(i)) = 0
      BY <3>1, FS_EmptySet
    <3>3. done[i] = IF i \in accepted THEN 1 ELSE 0
      BY <2>4 DEF IInv, Places
    <3> QED BY <3>1, <3>2, <3>3
  <2> QED BY <2>3, <2>4
<1> QED BY <1>1, Invariance, PTL

(* When Stop() has joined every worker nothing is left to process. *)
THEOREM StopDrainsTheQueues == Spec => []StopDrains
<1>1. IInv => StopDrains
  <2> SUFFICES ASSUME IInv, spc = "release", NEW i \in accepted PROVE done[i] = 1
    BY DEF StopDrains
  <2>1. ASSUME NEW w \in Workers PROVE Held(w) = {}
    <3>1. Elements(<<>>) = {}
      BY DEF Elements
    <3>2. CASE tpc[w] = "exited"
      <4>1. queue[w] = <<>> /\ myCopy[w] = <<>>
        BY <3>2 DEF IInv, Leaving, Exclusion
      <4> QED BY <4>1, <3>1 DEF Held
    <3>3. CASE tpc[w] # "exited"
      <4>1. w \notin Elements(workers)
        BY <3>3 DEF IInv, Joined, Elements
      <4> QED BY <4>1 DEF IInv, Leaving
    <3> QED BY <3>2, <3>3
  <2>2. i \in Items
    BY DEF IInv, TypeOK
  <2> QED BY <2>1, <2>2 DEF IInv, Places
<1> QED BY <1>1, Invariance, PTL

-----------------------------------------------------------------------------
(* The choice of the worker.  While a caller scans no queue grows, so that *)
(* every queue is at most as long as it was when the scan began, and the   *)
(* best so far is at most as long as every one compared was then.          *)
ScanBound ==
  \A c \in Callers : ppc[c] = "scan" =>
    /\ \A w \in Workers : Len(queue[w]) <= base[w]
    /\ \A k \in DOMAIN workers : k < next => Len(queue[workers[best]]) <= base[workers[k]]

LEMMA StepScanBound == IInv /\ ScanBound /\ [Next]_vars => ScanBound'
<1> SUFFICES ASSUME IInv, ScanBound, [Next]_vars PROVE ScanBound'
  OBVIOUS
<1>1. /\ workers \in Seq(Workers) /\ DOMAIN workers = 1 .. Len(workers) /\ Len(workers) \in Nat
      /\ \A k \in DOMAIN workers : workers[k] \in Workers
      /\ \A w \in Workers : base[w] \in Nat /\ Len(queue[w]) \in Nat
  BY DEF IInv, TypeOK
<1>2. ASSUME UNCHANGED <<workers, best, next, base>>,
             \A w \in Workers : Len(queue'[w]) \in Nat /\ Len(queue'[w]) <= Len(queue[w]),
             \A c \in Callers : ppc'[c] = "scan" => ppc[c] = "scan"
      PROVE  ScanBound'
  <2> SUFFICES ASSUME NEW c \in Callers, ppc[c] = "scan"
               PROVE  /\ \A w \in Workers : Len(queue'[w]) <= base[w]
                      /\ \A k \in DOMAIN workers : k < next => Len(queue'[workers[best]]) <= base[workers[k]]
    BY <1>2 DEF ScanBound
  <2>1. \A w \in Workers : Len(queue'[w]) <= base[w]
    BY <1>1, <1>2 DEF ScanBound
  <2>2. ASSUME NEW k \in DOMAIN workers, k < next PROVE Len(queue'[workers[best]]) <= base[workers[k]]
    <3>1. workers[best] \in Workers /\ workers[k] \in Workers
      BY <1>1 DEF IInv, Positions
    <3>2. Len(queue[workers[best]]) <= base[workers[k]]
      BY <2>2 DEF ScanBound
    <3> QED BY <3>1, <3>2, <1>1, <1>2
  <2> QED BY <2>1, <2>2
<1>3. ASSUME NEW w \in Workers, AddWorker(w) PROVE ScanBound'
  <2>1. \A c \in Callers : ppc'[c] # "scan"
    BY <1>3, SetsAssumption DEF AddWorker, IInv, Exclusion, caller
  <2> QED BY <2>1 DEF ScanBound
<1>4. ASSUME NEW w \in Workers, Start(w) \/ Run(w) PROVE ScanBound'
  <2>1. UNCHANGED <<workers, best, next, base, ppc>>
    BY <1>4 DEF Start, Run, ReadKeep, ReadLength, WaitReturns, Swap, ProcessBatch, ProcessItem, balancer, caller
  <2>2. \A v \in Workers : queue'[v] = queue[v] \/ queue'[v] = <<>>
    BY <1>4 DEF Start, Run, ReadKeep, ReadLength, WaitReturns, Swap, ProcessBatch, ProcessItem, IInv, TypeOK
  <2>3. \A v \in Workers : Len(queue'[v]) \in Nat /\ Len(queue'[v]) <= Len(queue[v])
    BY <2>2, <1>1, EmptySeq
  <2> QED BY <2>1, <2>3, <1>2
<1>5. ASSUME NEW c \in Callers, Call(c) \/ WorkerReady(c) \/ SleepFor(c) PROVE ScanBound'
  <2>1. UNCHANGED <<workers, best, next, base, queue>> /\ \A d \in Callers : ppc'[d] = "scan" => ppc[d] = "scan"
    BY <1>5 DEF Call, AddWork, AddWorkRange, WorkerReady, SleepFor, balancer, worker, IInv, TypeOK
  <2> QED BY <2>1, <1>1, <1>2
<1>6. ASSUME NEW c \in Callers, LockAndScan(c) PROVE ScanBound'
  <2>1. /\ workers' = workers /\ queue' = queue /\ best' = 1 /\ next' = 2
        /\ \A w \in Workers : base'[w] = Len(queue[w])
    BY <1>6 DEF LockAndScan, worker, Lengths
  <2>2. \A k \in DOMAIN workers : k < 2 => k = 1
    BY <1>1
  <2> QED BY <2>1, <2>2, <1>1 DEF ScanBound
<1>7. ASSUME NEW c \in Callers, Compare(c) PROVE ScanBound'
  <2>1. /\ UNCHANGED <<workers, base, ppc, queue>> /\ ppc[c] = "scan" /\ next' = next + 1
        /\ best \in DOMAIN workers /\ next \in DOMAIN workers /\ best' \in DOMAIN workers
    BY <1>7, <1>1 DEF Compare, worker, caller, IInv, Positions
  <2>2. \/ Len(queue[workers[next]]) < Len(queue[workers[best]]) /\ best' = next
        \/ ~(Len(queue[workers[next]]) < Len(queue[workers[best]])) /\ best' = best
        \/ Len(queue[workers[next]]) = 0 /\ best' = next
    BY <1>7 DEF Compare
  <2> DEFINE L(k) == Len(queue[workers[k]])
  <2>3. /\ \A k \in DOMAIN workers : L(k) \in Nat /\ base[workers[k]] \in Nat /\ L(k) <= base[workers[k]]
        /\ \A k \in DOMAIN workers : k < next => L(best) <= base[workers[k]]
    BY <2>1, <1>1 DEF ScanBound
  <2>4. L(best') <= L(best) \/ L(best') = 0
    BY <2>1, <2>2, <2>3
  <2>5. L(best') <= L(next)
    BY <2>1, <2>2, <2>3
  <2> HIDE DEF L
  <2>6. ASSUME NEW k \in DOMAIN workers, k < next + 1 PROVE L(best') <= base[workers[k]]
    <3>1. k < next \/ k = next
      BY <2>6, <2>1, <1>1
    <3>2. L(best') \in Nat /\ L(best) \in Nat /\ L(next) \in Nat /\ base[workers[k]] \in Nat
      BY <2>1, <2>3
    <3>3. CASE k < next
      <4>1. L(best) <= base[workers[k]]
        BY <3>3, <2>3
      <4> QED BY <4>1, <3>2, <2>4
    <3>4. CASE k = next
      <4>1. L(next) <= base[workers[k]]
        BY <3>4, <2>1, <2>3
      <4> QED BY <4>1, <3>2, <2>5
    <3> QED BY <3>1, <3>3, <3>4
  <2>7. \A w \in Workers : Len(queue[w]) <= base[w]
    BY <2>1 DEF ScanBound
  <2> QED BY <2>1, <2>6, <2>7 DEF ScanBound, L
<1>8. ASSUME NEW c \in Callers, PushAccepted(c) \/ PushRefused(c) PROVE ScanBound'
  <2>1. mtx' = Free /\ Exclusion'
    BY <1>8, StepExclusion DEF PushAccepted, PushRefused, Unlocked
  <2>2. \A d \in Callers : ppc'[d] # "scan"
    BY <2>1, SetsAssumption DEF Exclusion
  <2> QED BY <2>2 DEF ScanBound
<1>9. CASE Stop \/ UNCHANGED vars
  <2>1. UNCHANGED <<workers, best, next, base, ppc, queue>>
    BY <1>9 DEF Stop, StopLock, StopFlag, StopJoin, StopRelease, balancer, worker, caller, vars
  <2> QED BY <2>1, <1>1, <1>2
<1> QED BY <1>3, <1>4, <1>5, <1>6, <1>7, <1>8, <1>9 DEF Next, Locks, Pushes

(* An item goes to a worker whose queue is at most as long as each of the  *)
(* others was when the scan began, whatever the workers do meanwhile.      *)
THEOREM ShortestQueueIsChosen == Spec => Balanced
<1>1. Init => ScanBound
  BY DEF Init, ScanBound
<1>2. IInv /\ ScanBound /\ [Next]_vars =>
        [\A c \in Callers :
           PushAccepted(c) => \A k \in DOMAIN workers : Len(queue[workers[best]]) <= base[workers[k]]]_vars
  <2> SUFFICES ASSUME IInv, ScanBound, NEW c \in Callers, PushAccepted(c), NEW k \in DOMAIN workers
               PROVE  Len(queue[workers[best]]) <= base[workers[k]]
    OBVIOUS
  <2>1. DOMAIN workers = 1 .. Len(workers) /\ Len(workers) \in Nat
    BY DEF IInv, TypeOK
  <2>2. ppc[c] = "scan" /\ next > Len(workers) /\ next \in 2 .. Len(workers) + 1
    BY DEF PushAccepted, IInv, Positions
  <2>3. k < next
    BY <2>1, <2>2
  <2> QED BY <2>2, <2>3 DEF ScanBound
<1> QED BY <1>1, <1>2, StepScanBound, Invariance, PTL DEF Spec, Balanced

-----------------------------------------------------------------------------
(* One producer and workers with the same MaxWork: the room that a range   *)
(* waits for is still there when it is pushed.                             *)
OneProducer ==
  /\ Feeders = {} /\ \A c, d \in Producers : c = d
  /\ \A v, w \in Workers : MaxWork[v] = MaxWork[w]

LengthSeen(c, w) == IF ppc[c] = "scan" THEN base[w] ELSE Len(queue[w])

RoomFound ==
  \A c \in Callers : ppc[c] # "idle" =>
    /\ Len(arg[c]) \in Nat \ {0}
    /\ ~ranged[c] => Len(arg[c]) = 1
    /\ ranged[c] /\ ppc[c] \in {"lock", "scan"} =>
         \E w \in Elements(workers) : MaxWork[w] = 0 \/ LengthSeen(c, w) + Len(arg[c]) <= MaxWork[w]

LEMMA StepRoomFound ==
  ASSUME OneProducer PROVE IInv /\ RoomFound /\ [Next]_vars => RoomFound'
<1> SUFFICES ASSUME IInv, RoomFound, [Next]_vars PROVE RoomFound'
  OBVIOUS
<1>1. /\ Elements(workers) \subseteq Workers /\ MaxWork \in [Workers -> Nat]
      /\ \A w \in Workers : base[w] \in Nat /\ Len(queue[w]) \in Nat
      /\ \A c \in Callers : Len(arg[c]) \in Nat
  BY ElementsOf, NumbersAssumption DEF IInv, TypeOK
<1>2. \A c, d \in Callers : c = d
  BY DEF OneProducer, Callers
<1>3. ASSUME UNCHANGED <<base, ppc, arg, ranged>>, Elements(workers) \subseteq Elements(workers'),
             \A w \in Workers : Len(queue'[w]) \in Nat /\ Len(queue'[w]) <= Len(queue[w])
      PROVE  RoomFound'
  <2> SUFFICES ASSUME NEW c \in Callers, ppc[c] \in {"lock", "scan"}, ranged[c]
               PROVE  \E w \in Elements(workers') :
                        MaxWork[w] = 0 \/ LengthSeen(c, w)' + Len(arg[c]) <= MaxWork[w]
    BY <1>3 DEF RoomFound
  <2>1. PICK w \in Elements(workers) : MaxWork[w] = 0 \/ LengthSeen(c, w) + Len(arg[c]) <= MaxWork[w]
    BY DEF RoomFound
  <2>2. /\ LengthSeen(c, w)' \in Nat /\ LengthSeen(c, w) \in Nat /\ MaxWork[w] \in Nat
        /\ LengthSeen(c, w)' <= LengthSeen(c, w) /\ Len(arg[c]) \in Nat
    BY <1>1, <1>3, <2>1 DEF LengthSeen
  <2>3. MaxWork[w] = 0 \/ LengthSeen(c, w)' + Len(arg[c]) <= MaxWork[w]
    BY <2>1, <2>2
  <2> QED BY <2>1, <2>3, <1>3
<1>4. ASSUME NEW w \in Workers, AddWorker(w) PROVE RoomFound'
  <2>1. UNCHANGED <<base, ppc, arg, ranged, queue>> /\ workers' = Append(workers, w)
    BY <1>4 DEF AddWorker, caller, worker
  <2>2. Elements(workers) \subseteq Elements(workers')
    <3>1. workers \in Seq(Workers) /\ DOMAIN workers = 1 .. Len(workers) /\ Len(workers) \in Nat
      BY DEF IInv, TypeOK
    <3>2. DOMAIN workers' = 1 .. Len(workers) + 1 /\ \A k \in DOMAIN workers : workers'[k] = workers[k]
      BY <2>1, <3>1
    <3> QED BY <3>1, <3>2 DEF Elements
  <2> QED BY <2>1, <2>2, <1>1, <1>3
<1>5. ASSUME NEW w \in Workers, Start(w) \/ Run(w) PROVE RoomFound'
  <2>1. UNCHANGED <<workers, base, ppc, arg, ranged>>
    BY <1>5 DEF Start, Run, ReadKeep, ReadLength, WaitReturns, Swap, ProcessBatch, ProcessItem, balancer, caller
  <2>2. \A v \in Workers : queue'[v] = queue[v] \/ queue'[v] = <<>>
    BY <1>5 DEF Start, Run, ReadKeep, ReadLength, WaitReturns, Swap, ProcessBatch, ProcessItem, IInv, TypeOK
  <2>3. \A v \in Workers : Len(queue'[v]) \in Nat /\ Len(queue'[v]) <= Len(queue[v])
    BY <2>2, <1>1, EmptySeq
  <2> QED BY <2>1, <2>3, <1>3
<1>6. ASSUME NEW c \in Callers, Call(c) PROVE RoomFound'
  <2>1. ASSUME NEW i \in Items, AddWork(c, i) PROVE RoomFound'
    <3>1. ppc'[c] = "lock" /\ ranged'[c] = FALSE /\ arg'[c] = <<i>>
      BY <2>1 DEF AddWork, IInv, TypeOK
    <3>2. Len(<<i>>) = 1
      OBVIOUS
    <3>3. Len(arg'[c]) = 1
      BY <3>1, <3>2
    <3>4. Len(arg'[c]) \in Nat \ {0} /\ ~ranged'[c] /\ \A d \in Callers : d = c
      BY <3>1, <3>3, <1>2
    <3> QED BY <3>3, <3>4 DEF RoomFound
  <2>2. ASSUME NEW s \in RangeArgs, AddWorkRange(c, s) PROVE RoomFound'
    <3>1. ppc'[c] = "ready" /\ ranged'[c] = TRUE /\ arg'[c] = s
      BY <2>2 DEF AddWorkRange, IInv, TypeOK
    <3>2. Len(s) \in Nat \ {0}
      BY NumbersAssumption DEF RangeArgs
    <3> QED BY <3>1, <3>2, <1>2 DEF RoomFound
  <2> QED BY <1>6, <2>1, <2>2 DEF Call
<1>7. ASSUME NEW c \in Callers, Locks(c) PROVE RoomFound'
  <2>1. CASE WorkerReady(c)
    <3>1. UNCHANGED <<workers, queue, arg, ranged>> /\ ppc[c] = "ready"
      BY <2>1 DEF WorkerReady, balancer, worker
    <3>2. ppc'[c] # "scan" /\ (ppc'[c] = "lock" => \E w \in Elements(workers) : ReadyForWork(w, Len(arg[c])))
      BY <2>1 DEF WorkerReady, IInv, TypeOK
    <3>3. ppc'[c] = "lock" => \E w \in Elements(workers) :
                                MaxWork[w] = 0 \/ LengthSeen(c, w)' + Len(arg[c]) <= MaxWork[w]
      BY <3>1, <3>2 DEF ReadyForWork, LengthSeen
    <3> QED BY <3>1, <3>2, <3>3, <1>2 DEF RoomFound
  <2>2. CASE SleepFor(c)
    <3>1. UNCHANGED <<arg, ranged>> /\ ppc[c] = "sleep" /\ ppc'[c] = IF ranged[c] THEN "ready" ELSE "lock"
      BY <2>2 DEF SleepFor, IInv, TypeOK
    <3> QED BY <3>1, <1>2 DEF RoomFound
  <2>3. CASE LockAndScan(c)
    <3>1. UNCHANGED <<workers, arg, ranged>> /\ ppc[c] = "lock" /\ ppc'[c] = "scan"
      BY <2>3 DEF LockAndScan, IInv, TypeOK
    <3>2. \A w \in Workers : LengthSeen(c, w)' = LengthSeen(c, w)
      BY <2>3, <3>1 DEF LockAndScan, Lengths, LengthSeen
    <3> QED BY <3>1, <3>2, <1>1, <1>2 DEF RoomFound
  <2> QED BY <1>7, <2>1, <2>2, <2>3 DEF Locks
<1>8. ASSUME NEW c \in Callers, Compare(c) PROVE RoomFound'
  BY <1>1, <1>3, <1>8 DEF Compare, worker, caller
<1>9. ASSUME NEW c \in Callers, PushAccepted(c) PROVE RoomFound'
  <2>1. ppc'[c] = "idle"
    BY <1>9 DEF PushAccepted, IInv, TypeOK
  <2> QED BY <2>1, <1>2 DEF RoomFound
<1>10. ASSUME NEW c \in Callers, PushRefused(c) PROVE RoomFound'
  <2>1. UNCHANGED ranged /\ ppc[c] = "scan" /\ ppc'[c] = IF ranged[c] THEN "idle" ELSE "sleep"
    BY <1>10 DEF PushRefused, IInv, TypeOK
  <2>2. ~ranged[c] => arg'[c] = arg[c]
    BY <1>10 DEF PushRefused, IInv, TypeOK
  <2> QED BY <2>1, <2>2, <1>2 DEF RoomFound
<1>11. CASE Stop \/ UNCHANGED vars
  <2>1. UNCHANGED <<workers, base, ppc, arg, ranged, queue>>
    BY <1>11 DEF Stop, StopLock, StopFlag, StopJoin, StopRelease, balancer, worker, caller, vars
  <2> QED BY <2>1, <1>1, <1>3
<1> QED BY <1>4, <1>5, <1>6, <1>7, <1>8, <1>9, <1>10, <1>11 DEF Next, Pushes

(* The worker that is chosen has room for all that is pushed to it. *)
LEMMA RoomForAll ==
  ASSUME OneProducer, IInv, ScanBound, RoomFound,
         NEW c \in Callers, ppc[c] = "scan", next > Len(workers),
         ranged[c] \/ HasRoom(workers[best])
  PROVE  MaxWork[workers[best]] = 0 \/ Len(queue[workers[best]]) + Len(arg[c]) <= MaxWork[workers[best]]
<1>1. /\ best \in DOMAIN workers /\ next \in 2 .. Len(workers) + 1
      /\ DOMAIN workers = 1 .. Len(workers) /\ Len(workers) \in Nat
      /\ \A k \in DOMAIN workers : workers[k] \in Workers
  BY DEF IInv, TypeOK, Positions
<1>2. PICK b \in Workers : b = workers[best]
  BY <1>1
<1>3. MaxWork[b] \in Nat /\ Len(queue[b]) \in Nat /\ Len(arg[c]) \in Nat
  BY NumbersAssumption DEF IInv, TypeOK
<1>4. CASE ~ranged[c]
  <2>1. Len(arg[c]) = 1
    BY <1>4 DEF RoomFound
  <2> QED BY <2>1, <1>2, <1>3, <1>4 DEF HasRoom
<1>5. CASE ranged[c]
  <2>1. PICK k \in DOMAIN workers :
          MaxWork[workers[k]] = 0 \/ base[workers[k]] + Len(arg[c]) <= MaxWork[workers[k]]
    BY <1>5 DEF RoomFound, LengthSeen, Elements
  <2>2. k < next
    BY <1>1
  <2>3. Len(queue[b]) <= base[workers[k]] /\ base[workers[k]] \in Nat
    BY <2>2, <1>1, <1>2 DEF ScanBound, IInv, TypeOK
  <2>4. MaxWork[workers[k]] = MaxWork[b]
    BY <1>1, <1>2 DEF OneProducer
  <2>5. MaxWork[b] = 0 \/ base[workers[k]] + Len(arg[c]) <= MaxWork[b]
    BY <2>1, <2>4
  <2>6. MaxWork[b] = 0 \/ Len(queue[b]) + Len(arg[c]) <= MaxWork[b]
    <3>1. \A l, m, n, o \in Nat : l <= n /\ n + o <= m => l + o <= m
      OBVIOUS
    <3> QED BY <3>1, <2>3, <2>5, <1>3
  <2> QED BY <2>6, <1>2
<1> QED BY <1>4, <1>5

(* With one producer no worker's queue outgrows its MaxWork, although the  *)
(* readiness of a worker and the push to it are two critical sections.     *)
THEOREM OneProducerWithinMaxWork ==
  ASSUME OneProducer PROVE Spec => []WithinMaxWork
<1>1. Init => ScanBound /\ RoomFound /\ WithinMaxWork
  BY NumbersAssumption DEF Init, ScanBound, RoomFound, WithinMaxWork
<1>2. IInv /\ ScanBound /\ RoomFound /\ WithinMaxWork /\ [Next]_vars => WithinMaxWork'
  <2> SUFFICES ASSUME IInv, ScanBound, RoomFound, WithinMaxWork, [Next]_vars PROVE WithinMaxWork'
    OBVIOUS
  <2>1. ASSUME NEW c \in Callers, PushAccepted(c) PROVE WithinMaxWork'
    <3>1. PICK b \in Workers : b = workers[best]
      BY <2>1 DEF PushAccepted, IInv, Positions, TypeOK
    <3>2. MaxWork[b] = 0 \/ Len(queue[b]) + Len(arg[c]) <= MaxWork[b]
      BY <2>1, <3>1, RoomForAll DEF PushAccepted
    <3>3. /\ queue[b] \in Seq(Items) /\ arg[c] \in Seq(Items)
          /\ queue'[b] = queue[b] \o arg[c]
          /\ \A v \in Workers : v # b => queue'[v] = queue[v]
      BY <2>1, <3>1 DEF PushAccepted, IInv, TypeOK
    <3>4. Len(queue'[b]) = Len(queue[b]) + Len(arg[c])
      BY <3>3
    <3> QED BY <3>2, <3>3, <3>4 DEF WithinMaxWork
  <2>2. ASSUME NEW w \in Workers, Swap(w) PROVE WithinMaxWork'
    <3>1. \A v \in Workers : queue'[v] = IF v = w THEN <<>> ELSE queue[v]
      BY <2>2 DEF Swap, IInv, TypeOK
    <3> QED BY <3>1, EmptySeq, NumbersAssumption DEF WithinMaxWork
  <2>3. CASE UNCHANGED queue
    BY <2>3 DEF WithinMaxWork
  <2> QED BY <2>1, <2>2, <2>3 DEF Next, Run, Call, Locks, Pushes, Stop, Start, AddWorker, ReadKeep,
         ReadLength, WaitReturns, ProcessBatch, ProcessItem, AddWork, AddWorkRange, WorkerReady,
         SleepFor, LockAndScan, Compare, PushRefused, StopLock, StopFlag, StopJoin, StopRelease,
         worker, vars
<1> QED BY <1>1, <1>2, StepScanBound, StepRoomFound, Invariance, PTL DEF Spec

(* With one producer a range is not refused: it waited for its room. *)
THEOREM OneProducerNotRefused ==
  ASSUME OneProducer PROVE Spec => RangeNotRefused
<1>1. Init => ScanBound /\ RoomFound
  BY DEF Init, ScanBound, RoomFound
<1>2. IInv /\ ScanBound /\ RoomFound /\ [Next]_vars =>
        [\A c \in Callers : ranged[c] => ~PushRefused(c)]_vars
  <2> SUFFICES ASSUME IInv, ScanBound, RoomFound, NEW c \in Callers, ranged[c], PushRefused(c)
               PROVE  FALSE
    OBVIOUS
  <2>1. ppc[c] = "scan" /\ next > Len(workers) /\ ~HasRoom(workers[best])
    BY DEF PushRefused
  <2>2. PICK b \in Workers : b = workers[best]
    BY <2>1 DEF IInv, Positions, TypeOK
  <2>3. MaxWork[b] = 0 \/ Len(queue[b]) + Len(arg[c]) <= MaxWork[b]
    BY <2>1, <2>2, RoomForAll
  <2>4. Len(arg[c]) \in Nat \ {0} /\ Len(queue[b]) \in Nat /\ MaxWork[b] \in Nat
    <3>1. Len(arg[c]) \in Nat \ {0}
      BY <2>1 DEF RoomFound
    <3>2. queue[b] \in Seq(Items)
      BY DEF IInv, TypeOK
    <3> QED BY <3>1, <3>2, NumbersAssumption
  <2>5. MaxWork[b] # 0 /\ ~(Len(queue[b]) < MaxWork[b])
    BY <2>1, <2>2 DEF HasRoom
  <2>6. \A l, m \in Nat, n \in Nat \ {0} : l + n <= m => l < m
    OBVIOUS
  <2> QED BY <2>3, <2>4, <2>5, <2>6
<1> QED BY <1>1, <1>2, StepScanBound, StepRoomFound, Invariance, PTL DEF Spec, RangeNotRefused

=============================================================================
