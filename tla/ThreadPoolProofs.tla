-------------------------- MODULE ThreadPoolProofs --------------------------
(***************************************************************************)
(* Proofs about ThreadPool, for every set of workers, adders and tasks.    *)
(***************************************************************************)
EXTENDS ThreadPool, SequenceTheorems, FiniteSetTheorems, TLAPS

(* Type correctness of the pool's state and of its history variables. *)
THEOREM Typing == Spec => []TypeOK
<1>1. Init => TypeOK
  <2> SUFFICES ASSUME Init PROVE TypeOK
    OBVIOUS
  <2>1. tasks \in Seq(Tasks)
    BY EmptySeq DEF Init
  <2>2. /\ wpc \in [Workers -> {"none", "top", "asleep", "exec", "exited"}]
        /\ cur \in [Workers -> Tasks \cup {NoTask}]
        /\ apc \in [Callers -> {"idle", "notify"}]
        /\ status \in [Tasks -> {"new", "queued", "running", "done", "cleared"}]
    BY DEF Init
  <2>3. /\ run \in BOOLEAN /\ dying \in BOOLEAN /\ owed \in SUBSET Tasks
        /\ ctl \in {"idle", "notify", "join", "clear", "destroyed"}
    BY DEF Init
  <2> QED BY <2>1, <2>2, <2>3 DEF TypeOK
<1>2. TypeOK /\ [Next]_vars => TypeOK'
  <2> SUFFICES ASSUME TypeOK, [Next]_vars PROVE TypeOK'
    OBVIOUS
  <2> USE DEF TypeOK
  <2>1. ASSUME NEW w \in Workers, WorkerStep(w) PROVE TypeOK'
    <3>1. CASE Sleep(w)
      BY <3>1 DEF Sleep
    <3>2. CASE SpuriousWake(w)
      BY <3>2 DEF SpuriousWake
    <3>3. CASE Quit(w)
      BY <3>3 DEF Quit
    <3>4. CASE Take(w)
      <4>1. Head(tasks) \in Tasks /\ Tail(tasks) \in Seq(Tasks)
        BY <3>4, HeadTailProperties DEF Take
      <4> QED BY <4>1, <3>4 DEF Take
    <3>5. CASE Finish(w)
      BY <3>5 DEF Finish
    <3> QED BY <2>1, <3>1, <3>2, <3>3, <3>4, <3>5 DEF WorkerStep
  <2>2. ASSUME NEW c \in Callers, CallerStep(c) PROVE TypeOK'
    <3>1. ASSUME NEW t \in Tasks, AddTask(c, t) PROVE TypeOK'
      BY <3>1 DEF AddTask
    <3>2. CASE NotifyOne(c)
      BY <3>2 DEF NotifyOne, Asleep
    <3>3. CASE ClearTasks(c)
      BY <3>3 DEF ClearTasks
    <3> QED BY <2>2, <3>1, <3>2, <3>3 DEF CallerStep
  <2>3. CASE OwnerStep
    BY <2>3 DEF OwnerStep, Start, StopBegin, StopNotify, StopJoin, StopClear, Destroy
  <2>4. CASE UNCHANGED vars
    BY <2>4 DEF vars
  <2> QED BY <2>1, <2>2, <2>3, <2>4 DEF Next
<1> QED BY <1>1, <1>2, PTL DEF Spec

-----------------------------------------------------------------------------

LEMMA InitIInv == Init => IInv
<1> SUFFICES ASSUME Init PROVE IInv
  OBVIOUS
<1> USE WorkersAssumption, NoTaskAssumption DEF Init
<1>1. TypeOK
  BY EmptySeq DEF TypeOK
<1>2. Phases
  BY DEF Phases, Callers
<1>3. ExactlyOnce
  BY DEF ExactlyOnce
<1>4. OwedServed
  BY DEF OwedServed
<1> QED BY <1>1, <1>2, <1>3, <1>4 DEF IInv

LEMMA StepPhases == IInv /\ TypeOK' /\ [Next]_vars => Phases'
<1> SUFFICES ASSUME IInv, TypeOK', [Next]_vars PROVE Phases'
  OBVIOUS
<1> USE WorkersAssumption, NoTaskAssumption, AddersAssumption DEF IInv, TypeOK, Phases, Joined, Empty, Callers
<1>1. ASSUME NEW w \in Workers, WorkerStep(w) PROVE Phases'
  <2>1. CASE Sleep(w)
    BY <2>1 DEF Sleep
  <2>2. CASE SpuriousWake(w)
    BY <2>2 DEF SpuriousWake
  <2>3. CASE Quit(w)
    BY <2>3 DEF Quit
  <2>4. CASE Take(w)
    <3>1. Head(tasks) \in Tasks
      BY <2>4, HeadTailProperties DEF Take
    <3> QED BY <2>4, <3>1 DEF Take
  <2>5. CASE Finish(w)
    BY <2>5 DEF Finish
  <2> QED BY <1>1, <2>1, <2>2, <2>3, <2>4, <2>5 DEF WorkerStep
<1>2. ASSUME NEW c \in Callers, CallerStep(c) PROVE Phases'
  <2>1. ASSUME NEW t \in Tasks, AddTask(c, t) PROVE Phases'
    BY <2>1 DEF AddTask, Calling
  <2>2. CASE NotifyOne(c)
    BY <2>2 DEF NotifyOne, Asleep
  <2>3. CASE ClearTasks(c)
    BY <2>3 DEF ClearTasks
  <2> QED BY <1>2, <2>1, <2>2, <2>3 DEF CallerStep
<1>3. CASE OwnerStep
  <2>1. CASE Start
    BY <2>1 DEF Start
  <2>2. CASE StopBegin
    BY <2>2 DEF StopBegin
  <2>3. CASE StopNotify
    BY <2>3 DEF StopNotify
  <2>4. CASE StopJoin
    BY <2>4 DEF StopJoin
  <2>5. CASE StopClear
    BY <2>5 DEF StopClear
  <2>6. CASE Destroy
    BY <2>6 DEF Destroy
  <2> QED BY <1>3, <2>1, <2>2, <2>3, <2>4, <2>5, <2>6 DEF OwnerStep
<1>4. CASE UNCHANGED vars
  BY <1>4 DEF vars
<1> QED BY <1>1, <1>2, <1>3, <1>4 DEF Next

LEMMA StepExactlyOnce == IInv /\ TypeOK' /\ [Next]_vars => ExactlyOnce'
<1> SUFFICES ASSUME IInv, TypeOK', [Next]_vars PROVE ExactlyOnce'
  OBVIOUS
<1> USE NoTaskAssumption DEF IInv, TypeOK, ExactlyOnce
<1>1. tasks \in Seq(Tasks) /\ DOMAIN tasks = 1 .. Len(tasks) /\ Len(tasks) \in Nat
  BY LenProperties
<1>2. ASSUME NEW w \in Workers, Take(w) PROVE ExactlyOnce'
  <2>1. /\ Head(tasks) = tasks[1] /\ tasks[1] \in Tasks
        /\ Len(Tail(tasks)) = Len(tasks) - 1
        /\ DOMAIN Tail(tasks) = 1 .. Len(tasks) - 1
        /\ \A i \in 1 .. Len(tasks) - 1 : Tail(tasks)[i] = tasks[i + 1]
    BY <1>1, <1>2, HeadTailProperties, LenProperties DEF Take
  <2>2. \A i, j \in DOMAIN tasks' : tasks'[i] = tasks'[j] => i = j
    BY <1>1, <1>2, <2>1 DEF Take
  <2>3. status[tasks[1]] = "queued" /\ \A v \in Workers : cur[v] # tasks[1]
    BY <1>1, <1>2, <2>1 DEF Take
  <2>4. \A v, u \in Workers : cur'[v] = cur'[u] /\ cur'[v] # NoTask => v = u
    BY <1>2, <2>1, <2>3 DEF Take
  <2>5. ASSUME NEW t \in Tasks PROVE status'[t] = "queued" <=> \E i \in DOMAIN tasks' : tasks'[i] = t
    <3>1. CASE t = tasks[1]
      <4>1. \A i \in DOMAIN tasks' : tasks'[i] # t
        BY <1>1, <1>2, <2>1, <3>1 DEF Take
      <4> QED BY <1>2, <2>1, <3>1, <4>1 DEF Take
    <3>2. CASE t # tasks[1]
      <4>1. status'[t] = status[t]
        BY <1>2, <2>1, <3>2 DEF Take
      <4>2. (\E i \in DOMAIN tasks : tasks[i] = t) => \E i \in DOMAIN tasks' : tasks'[i] = t
        <5>1. SUFFICES ASSUME NEW i \in 1 .. Len(tasks), tasks[i] = t
                       PROVE  \E k \in DOMAIN tasks' : tasks'[k] = t
          BY <1>1
        <5>2. i - 1 \in 1 .. Len(tasks) - 1 /\ Tail(tasks)[i - 1] = t
          BY <1>1, <2>1, <3>2, <5>1
        <5> QED BY <1>2, <2>1, <5>2 DEF Take
      <4>3. (\E i \in DOMAIN tasks' : tasks'[i] = t) => \E i \in DOMAIN tasks : tasks[i] = t
        BY <1>1, <1>2, <2>1 DEF Take
      <4> QED BY <4>1, <4>2, <4>3
    <3> QED BY <3>1, <3>2
  <2>6. ASSUME NEW t \in Tasks PROVE status'[t] = "running" <=> \E v \in Workers : cur'[v] = t
    <3>1. CASE t = tasks[1]
      BY <1>2, <2>1, <3>1 DEF Take
    <3>2. CASE t # tasks[1]
      <4>1. status'[t] = status[t]
        BY <1>2, <2>1, <3>2 DEF Take
      <4>2. \A v \in Workers : cur'[v] = t <=> cur[v] = t
        <5>1. cur[w] = NoTask
          BY <1>2 DEF Phases, Take
        <5> QED BY <1>2, <2>1, <3>2, <5>1 DEF Take
      <4> QED BY <4>1, <4>2
    <3> QED BY <3>1, <3>2
  <2> QED BY <2>2, <2>4, <2>5, <2>6
<1>3. ASSUME NEW w \in Workers, Finish(w) PROVE ExactlyOnce'
  <2>1. cur[w] \in Tasks /\ status[cur[w]] = "running"
    BY <1>3 DEF Finish, Phases
  <2>2. \A t \in Tasks : status'[t] = "queued" <=> status[t] = "queued"
    BY <1>3, <2>1 DEF Finish
  <2>3. \A t \in Tasks : status'[t] = "running" <=> \E v \in Workers : cur'[v] = t
    BY <1>3, <2>1 DEF Finish
  <2> QED BY <1>3, <2>2, <2>3 DEF Finish
<1>4. ASSUME NEW c \in Callers, NEW t \in Tasks, AddTask(c, t) PROVE ExactlyOnce'
  <2>1. /\ DOMAIN tasks' = 1 .. Len(tasks) + 1
        /\ \A i \in 1 .. Len(tasks) : tasks'[i] = tasks[i]
        /\ tasks'[Len(tasks) + 1] = t
    BY <1>1, <1>4, AppendProperties, LenProperties DEF AddTask
  <2>2. \A i \in 1 .. Len(tasks) : tasks[i] # t
    BY <1>1, <1>4 DEF AddTask
  <2>3. \A i, j \in DOMAIN tasks' : tasks'[i] = tasks'[j] => i = j
    BY <1>1, <2>1, <2>2
  <2>4. \A u \in Tasks : status'[u] = "queued" <=> \E i \in DOMAIN tasks' : tasks'[i] = u
    BY <1>1, <1>4, <2>1, <2>2 DEF AddTask
  <2>5. \A u \in Tasks : status'[u] = "running" <=> \E v \in Workers : cur'[v] = u
    BY <1>4 DEF AddTask
  <2> QED BY <1>4, <2>3, <2>4, <2>5 DEF AddTask
<1>5. ASSUME NEW c \in Callers, ClearTasks(c) PROVE ExactlyOnce'
  BY <1>5 DEF ClearTasks
<1>6. ASSUME UNCHANGED <<tasks, cur, status>> PROVE ExactlyOnce'
  BY <1>6
<1> QED
  BY <1>2, <1>3, <1>4, <1>5, <1>6
  DEF Next, WorkerStep, CallerStep, OwnerStep, Sleep, SpuriousWake, Quit, NotifyOne,
      Start, StopBegin, StopNotify, StopJoin, StopClear, Destroy, vars

LEMMA StepOwedServed == IInv /\ TypeOK' /\ [Next]_vars => OwedServed'
<1> SUFFICES ASSUME IInv, TypeOK', [Next]_vars PROVE OwedServed'
  OBVIOUS
<1> USE DEF IInv, TypeOK, OwedServed, Joined
<1>1. ASSUME NEW w \in Workers, WorkerStep(w) PROVE OwedServed'
  <2>1. CASE Sleep(w)
    BY <2>1 DEF Sleep
  <2>2. CASE SpuriousWake(w)
    BY <2>2 DEF SpuriousWake
  <2>3. CASE Quit(w)
    BY <2>3 DEF Quit, ExactlyOnce
  <2>4. CASE Take(w)
    <3>1. Head(tasks) \in Tasks
      BY <2>4, HeadTailProperties DEF Take
    <3> QED BY <2>4, <3>1 DEF Take
  <2>5. CASE Finish(w)
    BY <2>5 DEF Finish
  <2> QED BY <1>1, <2>1, <2>2, <2>3, <2>4, <2>5 DEF WorkerStep
<1>2. ASSUME NEW c \in Callers, CallerStep(c) PROVE OwedServed'
  <2>1. ASSUME NEW t \in Tasks, AddTask(c, t) PROVE OwedServed'
    <3>1. t \notin owed
      BY <2>1 DEF AddTask
    <3>2. CASE c \in Workers /\ ~run
      <4>1. wpc'[c] = "exec" /\ ~Joined'
        BY <2>1, <3>2 DEF AddTask, Calling
      <4>2. \A u \in owed' : status'[u] # "new"
        BY <2>1, <3>2 DEF AddTask
      <4> QED BY <4>1, <4>2
    <3>3. CASE ~(c \in Workers /\ ~run)
      BY <2>1, <3>1, <3>3 DEF AddTask
    <3> QED BY <3>2, <3>3
  <2>2. CASE NotifyOne(c)
    BY <2>2 DEF NotifyOne, Asleep
  <2>3. CASE ClearTasks(c)
    BY <2>3 DEF ClearTasks
  <2> QED BY <1>2, <2>1, <2>2, <2>3 DEF CallerStep
<1>3. CASE OwnerStep
  <2>1. CASE Start
    BY <2>1 DEF Start
  <2>2. CASE StopBegin
    BY <2>2, WorkersAssumption DEF StopBegin, Phases
  <2>3. CASE StopNotify
    BY <2>3 DEF StopNotify
  <2>4. CASE StopJoin
    BY <2>4 DEF StopJoin
  <2>5. CASE StopClear
    BY <2>5 DEF StopClear, Phases
  <2>6. CASE Destroy
    BY <2>6, WorkersAssumption DEF Destroy, Phases
  <2> QED BY <1>3, <2>1, <2>2, <2>3, <2>4, <2>5, <2>6 DEF OwnerStep
<1>4. CASE UNCHANGED vars
  BY <1>4 DEF vars
<1> QED BY <1>1, <1>2, <1>3, <1>4 DEF Next

(* The inductive invariant of the pool. *)
THEOREM Invariance == Spec => []IInv
<1>1. IInv /\ TypeOK' /\ [Next]_vars => IInv'
  BY StepPhases, StepExactlyOnce, StepOwedServed DEF IInv
<1> QED BY <1>1, InitIInv, Typing, PTL DEF Spec

-----------------------------------------------------------------------------

(* ExactlyOnce holds of every pool: it is a part of the invariant. *)
THEOREM TasksInOnePlace == Spec => []ExactlyOnce
BY Invariance, PTL DEF IInv

(* Stop() drains: when its joins have returned, every task it owes is      *)
(* executed or cleared.  Nothing runs, as all workers have exited; nothing *)
(* owed is queued, by OwedServed; nothing owed is new.                     *)
THEOREM StopDrainsTheTasks == Spec => []StopDrains
<1>1. IInv => StopDrains
  <2> SUFFICES ASSUME IInv, ctl = "clear", NEW t \in owed
               PROVE  status[t] \in {"done", "cleared"}
    BY DEF StopDrains
  <2> USE DEF IInv, TypeOK
  <2>1. status[t] # "new" /\ status[t] # "queued"
    BY DEF OwedServed, Phases
  <2>2. \A w \in Workers : cur[w] = NoTask
    BY DEF Phases, Joined
  <2>3. status[t] # "running"
    BY <2>2, NoTaskAssumption DEF ExactlyOnce
  <2> QED BY <2>1, <2>3
<1> QED BY <1>1, Invariance, PTL

(* No worker, and no call made by a task, is left when the pool is gone. *)
THEOREM PoolOutlivesWorkers == Spec => []NoWorkerOutlivesPool
<1>1. IInv => NoWorkerOutlivesPool
  BY DEF IInv, TypeOK, Phases, NoWorkerOutlivesPool, Calling, Empty, Callers
<1> QED BY <1>1, Invariance, PTL

(* A task that was executed or cleared stays so: only Take, which takes a  *)
(* queued task, and Finish, which ends a running one, write its status.    *)
THEOREM TasksNeverRerun == Spec => NoRerun
<1>1. IInv /\ [Next]_vars =>
        [\A t \in Tasks : status[t] \in {"done", "cleared"} => status'[t] = status[t]]_vars
  <2> SUFFICES ASSUME IInv, [Next]_vars, NEW t \in Tasks, status[t] \in {"done", "cleared"}
               PROVE  status'[t] = status[t]
    OBVIOUS
  <2> USE DEF IInv, TypeOK
  <2>1. ASSUME NEW w \in Workers, Take(w) PROVE status'[t] = status[t]
    <3>1. Head(tasks) = tasks[1] /\ 1 \in DOMAIN tasks /\ tasks[1] \in Tasks
      BY <2>1, HeadTailProperties, LenProperties DEF Take
    <3>2. t # tasks[1]
      BY <3>1 DEF ExactlyOnce
    <3> QED BY <2>1, <3>1, <3>2 DEF Take
  <2>2. ASSUME NEW w \in Workers, Finish(w) PROVE status'[t] = status[t]
    BY <2>2 DEF Finish, Phases, ExactlyOnce
  <2>3. ASSUME NEW c \in Callers, NEW u \in Tasks, AddTask(c, u) PROVE status'[t] = status[t]
    BY <2>3 DEF AddTask
  <2>4. ASSUME NEW c \in Callers, ClearTasks(c) PROVE status'[t] = status[t]
    BY <2>4 DEF ClearTasks
  <2> QED
    BY <2>1, <2>2, <2>3, <2>4
    DEF Next, WorkerStep, CallerStep, OwnerStep, Sleep, SpuriousWake, Quit, NotifyOne,
        Start, StopBegin, StopNotify, StopJoin, StopClear, Destroy, vars
<1> QED BY <1>1, Invariance, PTL DEF Spec, NoRerun

(* Stop()'s notify_all reaches every sleeper: afterwards no worker can go  *)
(* to sleep, as the predicate of its wait reads _run under the lock.       *)
THEOREM StopWakesEveryWorker == Spec => []StopWakesAll
<1>1. Init => StopWakesAll
  BY DEF Init, StopWakesAll, Asleep
<1>2. IInv /\ StopWakesAll /\ [Next]_vars => StopWakesAll'
  <2> SUFFICES ASSUME IInv, StopWakesAll, [Next]_vars PROVE StopWakesAll'
    OBVIOUS
  <2> USE DEF IInv, TypeOK, StopWakesAll, Asleep
  <2>1. ASSUME NEW w \in Workers, WorkerStep(w) PROVE StopWakesAll'
    BY <2>1 DEF WorkerStep, Sleep, SpuriousWake, Quit, Take, Finish
  <2>2. ASSUME NEW c \in Callers, CallerStep(c) PROVE StopWakesAll'
    BY <2>2 DEF CallerStep, AddTask, NotifyOne, ClearTasks
  <2>3. CASE OwnerStep
    BY <2>3 DEF OwnerStep, Start, StopBegin, StopNotify, StopJoin, StopClear, Destroy, Phases, Empty
  <2>4. CASE UNCHANGED vars
    BY <2>4 DEF vars
  <2> QED BY <2>1, <2>2, <2>3, <2>4 DEF Next
<1> QED BY <1>1, <1>2, Invariance, PTL DEF Spec

-----------------------------------------------------------------------------

LEMMA FiniteCallers == IsFiniteSet(Workers) /\ IsFiniteSet(Callers)
BY WorkersAssumption, AddersAssumption, FS_Union DEF Callers

LEMMA FiniteThreads == /\ IsFiniteSet(AtTop) /\ Cardinality(AtTop) \in Nat
                       /\ IsFiniteSet(Pending) /\ Cardinality(Pending) \in Nat
<1>1. IsFiniteSet(AtTop)
  BY FiniteCallers, FS_Subset DEF AtTop
<1>2. IsFiniteSet(Pending)
  BY FiniteCallers, FS_Subset DEF Pending
<1> QED BY <1>1, <1>2, FS_CardinalityType

(* An empty deque needs no wake-up, whatever the threads do. *)
LEMMA EmptyNeedsNoWakeUp ==
  ASSUME TypeOK', tasks' = <<>>
  PROVE  NoIdleWorker'
<1>1. Len(tasks') = 0
  BY EmptySeq
<1>2. AtTop' \in SUBSET Workers /\ Pending' \in SUBSET Callers
  BY DEF AtTop, Pending
<1>3. Cardinality(AtTop') \in Nat /\ Cardinality(Pending') \in Nat
  BY <1>2, FiniteCallers, FS_Subset, FS_CardinalityType
<1> QED BY <1>1, <1>3 DEF NoIdleWorker

(* No wake-up is lost: AddTask adds one task and one notify_one, and       *)
(* notify_one turns one of the sleepers into a worker that looks for work, *)
(* which takes one task or finds none.                                     *)
THEOREM NoLostWakeUp == Spec => []NoIdleWorker
<1>1. Init => NoIdleWorker
  BY DEF Init, NoIdleWorker, Asleep
<1>2. IInv /\ TypeOK' /\ NoIdleWorker /\ [Next]_vars => NoIdleWorker'
  <2> SUFFICES ASSUME IInv, TypeOK', NoIdleWorker, [Next]_vars PROVE NoIdleWorker'
    OBVIOUS
  <2> USE FiniteThreads DEF IInv, TypeOK
  <2>1. Len(tasks) \in Nat
    BY LenProperties
  <2>2. ASSUME NEW w \in Workers, WorkerStep(w) PROVE NoIdleWorker'
    <3>1. CASE Sleep(w)
      BY <3>1, EmptyNeedsNoWakeUp DEF Sleep
    <3>2. CASE Quit(w)
      BY <3>2, EmptyNeedsNoWakeUp DEF Quit
    <3>3. CASE SpuriousWake(w)
      <4>1. AtTop' = AtTop \cup {w} /\ w \notin AtTop /\ Pending' = Pending /\ tasks' = tasks
        BY <3>3 DEF SpuriousWake, AtTop, Pending
      <4>2. Asleep # {}
        BY <3>3 DEF SpuriousWake, Asleep
      <4>3. Cardinality(AtTop') = Cardinality(AtTop) + 1
        BY <4>1, FS_AddElement
      <4> QED BY <2>1, <4>1, <4>2, <4>3 DEF NoIdleWorker
    <3>4. CASE Take(w)
      <4>1. AtTop' = AtTop \ {w} /\ w \in AtTop /\ Pending' = Pending /\ Asleep' = Asleep
        BY <3>4 DEF Take, AtTop, Pending, Asleep
      <4>2. Len(tasks') = Len(tasks) - 1
        BY <3>4, HeadTailProperties DEF Take
      <4>3. Cardinality(AtTop') = Cardinality(AtTop) - 1
        BY <4>1, FS_RemoveElement
      <4> QED BY <2>1, <4>1, <4>2, <4>3 DEF NoIdleWorker
    <3>5. CASE Finish(w)
      <4>1. AtTop' = AtTop \cup {w} /\ w \notin AtTop /\ Pending' = Pending /\ Asleep' = Asleep /\ tasks' = tasks
        BY <3>5 DEF Finish, AtTop, Pending, Asleep
      <4>2. Cardinality(AtTop') = Cardinality(AtTop) + 1
        BY <4>1, FS_AddElement
      <4> QED BY <2>1, <4>1, <4>2 DEF NoIdleWorker
    <3> QED BY <2>2, <3>1, <3>2, <3>3, <3>4, <3>5 DEF WorkerStep
  <2>3. ASSUME NEW c \in Callers, CallerStep(c) PROVE NoIdleWorker'
    <3>1. ASSUME NEW t \in Tasks, AddTask(c, t) PROVE NoIdleWorker'
      <4>1. Pending' = Pending \cup {c} /\ c \notin Pending /\ AtTop' = AtTop /\ Asleep' = Asleep
        BY <3>1 DEF AddTask, Pending, AtTop, Asleep
      <4>2. Len(tasks') = Len(tasks) + 1
        BY <3>1, AppendProperties DEF AddTask
      <4>3. Cardinality(Pending') = Cardinality(Pending) + 1
        BY <4>1, FS_AddElement
      <4> QED BY <2>1, <4>1, <4>2, <4>3 DEF NoIdleWorker
    <3>2. CASE NotifyOne(c)
      <4>1. CASE Asleep = {} /\ wpc' = wpc
        BY <4>1 DEF NoIdleWorker, Asleep
      <4>2. ASSUME NEW w \in Asleep, wpc' = [wpc EXCEPT ![w] = "top"] PROVE NoIdleWorker'
        <5>1. Pending' = Pending \ {c} /\ c \in Pending /\ tasks' = tasks
          BY <3>2 DEF NotifyOne, Pending
        <5>2. AtTop' = AtTop \cup {w} /\ w \notin AtTop
          BY <4>2 DEF AtTop, Asleep
        <5>3. /\ Cardinality(Pending') = Cardinality(Pending) - 1
              /\ Cardinality(AtTop') = Cardinality(AtTop) + 1
          BY <5>1, <5>2, FS_AddElement, FS_RemoveElement
        <5> QED BY <2>1, <4>2, <5>1, <5>3 DEF NoIdleWorker
      <4> QED BY <3>2, <4>1, <4>2 DEF NotifyOne
    <3>3. CASE ClearTasks(c)
      BY <3>3, EmptyNeedsNoWakeUp DEF ClearTasks
    <3> QED BY <2>3, <3>1, <3>2, <3>3 DEF CallerStep
  <2>4. CASE Start \/ StopNotify \/ StopClear
    <3>1. Asleep' = {}
      BY <2>4 DEF Start, StopNotify, StopClear, Asleep
    <3> QED BY <3>1 DEF NoIdleWorker
  <2>5. CASE UNCHANGED <<tasks, wpc, apc>>
    BY <2>5 DEF NoIdleWorker, Asleep, AtTop, Pending
  <2>6. CASE StopBegin \/ StopJoin \/ Destroy \/ UNCHANGED vars
    BY <2>5, <2>6 DEF StopBegin, StopJoin, Destroy, vars
  <2> QED BY <2>2, <2>3, <2>4, <2>6 DEF Next, OwnerStep
<1> QED BY <1>1, <1>2, Invariance, Typing, PTL DEF Spec
=============================================================================
