----------------------------- MODULE ThreadPool -----------------------------
(***************************************************************************)
(* Thread::ThreadPool (classes/include/DwmThreadPool.hh): N worker threads *)
(* that share one deque of tasks, one mutex, one condition variable and a  *)
(* run flag.  A block that holds _mtx is one action; what the code does    *)
(* after it has released _mtx (notify_one, notify_all, join) is an action  *)
(* of its own.  One owning thread calls Start, Stop and the destructor, as *)
(* Stop()'s unlocked loop over _workers requires; any thread, and any task *)
(* that is being executed, may call AddTask and ClearTasks.                *)
(***************************************************************************)
EXTENDS Naturals, Sequences, FiniteSets

CONSTANTS Workers,   \* the N threads of the pool
          Adders,    \* the other threads that call AddTask and ClearTasks
          Tasks,     \* the tasks that may be added, each of them once
          NoTask     \* what a worker that executes nothing holds

ASSUME WorkersAssumption == Workers # {} /\ IsFiniteSet(Workers)
ASSUME AddersAssumption == IsFiniteSet(Adders) /\ Adders \cap Workers = {}
ASSUME NoTaskAssumption == NoTask \notin Tasks

VARIABLES
  run,      \* _run
  tasks,    \* _tasks
  wpc,      \* where each worker is; "none" when it is not in _workers
  cur,      \* WorkerThread's local task
  apc,      \* "notify" between AddTask's unlock and its notify_one
  ctl,      \* where the owner is in Stop() or the destructor
  dying,    \* Stop() was called by the destructor
  status,   \* history: what became of each task
  owed      \* history: the tasks the current Stop() has to wait for

vars == <<run, tasks, wpc, cur, apc, ctl, dying, status, owed>>

Callers == Adders \cup Workers

(* A worker calls back into the pool from Execute() only; the other threads *)
(* leave a pool alone that is being destroyed.                              *)
Calling(c) == IF c \in Workers THEN wpc[c] = "exec" ELSE ~dying

Asleep   == {w \in Workers : wpc[w] = "asleep"}
AtTop    == {w \in Workers : wpc[w] = "top"}
Pending  == {c \in Callers : apc[c] = "notify"}
Joined   == \A w \in Workers : wpc[w] \in {"none", "exited"}
Empty    == \A w \in Workers : wpc[w] = "none"      \* _workers.empty()

-----------------------------------------------------------------------------

(* The constructor has run: it calls Start(). *)
Init ==
  /\ run = TRUE
  /\ tasks = <<>>
  /\ wpc = [w \in Workers |-> "top"]
  /\ cur = [w \in Workers |-> NoTask]
  /\ apc = [c \in Callers |-> "idle"]
  /\ ctl = "idle"
  /\ dying = FALSE
  /\ status = [t \in Tasks |-> "new"]
  /\ owed = {}

(* Start(): refused, and nothing changes, while _workers is not empty. *)
Start ==
  /\ ctl = "idle"
  /\ Empty
  /\ run' = TRUE
  /\ wpc' = [w \in Workers |-> "top"]
  /\ UNCHANGED <<tasks, cur, apc, ctl, dying, status, owed>>

(* Mutant: notify_one only when the deque was empty before. *)
AddTaskNotifyFirst(c, t) ==
  /\ apc[c] = "idle"
  /\ Calling(c)
  /\ status[t] = "new"
  /\ tasks' = Append(tasks, t)
  /\ status' = [status EXCEPT ![t] = "queued"]
  /\ apc' = [apc EXCEPT ![c] = IF tasks = <<>> THEN "notify" ELSE "idle"]
  /\ owed' = IF c \in Workers /\ ~run THEN owed \cup {t} ELSE owed
  /\ UNCHANGED <<run, wpc, cur, ctl, dying>>

(* AddTask(), the block under the lock.  A task added by a task while      *)
(* Stop() waits is one more that Stop() has to wait for.                   *)
AddTask(c, t) ==
  /\ apc[c] = "idle"
  /\ Calling(c)
  /\ status[t] = "new"
  /\ tasks' = Append(tasks, t)
  /\ status' = [status EXCEPT ![t] = "queued"]
  /\ apc' = [apc EXCEPT ![c] = "notify"]
  /\ owed' = IF c \in Workers /\ ~run THEN owed \cup {t} ELSE owed
  /\ UNCHANGED <<run, wpc, cur, ctl, dying>>

(* AddTask(), _cv.notify_one(): one sleeper, chosen by the library. *)
NotifyOne(c) ==
  /\ apc[c] = "notify"
  /\ apc' = [apc EXCEPT ![c] = "idle"]
  /\ \/ Asleep = {} /\ wpc' = wpc
     \/ \E w \in Asleep : wpc' = [wpc EXCEPT ![w] = "top"]
  /\ UNCHANGED <<run, tasks, cur, ctl, dying, status, owed>>

(* ClearTasks() *)
ClearTasks(c) ==
  /\ apc[c] = "idle"
  /\ Calling(c)
  /\ tasks' = <<>>
  /\ status' = [t \in Tasks |-> IF status[t] = "queued" THEN "cleared" ELSE status[t]]
  /\ UNCHANGED <<run, wpc, cur, apc, ctl, dying, owed>>

-----------------------------------------------------------------------------

(* WorkerThread(): _cv.wait finds its predicate false and blocks. *)
Sleep(w) ==
  /\ wpc[w] = "top"
  /\ run /\ tasks = <<>>
  /\ wpc' = [wpc EXCEPT ![w] = "asleep"]
  /\ UNCHANGED <<run, tasks, cur, apc, ctl, dying, status, owed>>

(* A condition variable may wake a thread nobody notified. *)
SpuriousWake(w) ==
  /\ wpc[w] = "asleep"
  /\ wpc' = [wpc EXCEPT ![w] = "top"]
  /\ UNCHANGED <<run, tasks, cur, apc, ctl, dying, status, owed>>

(* Mutant: a worker that was asked to stop leaves the tasks behind. *)
QuitAtOnce(w) ==
  /\ wpc[w] = "top"
  /\ ~run
  /\ wpc' = [wpc EXCEPT ![w] = "exited"]
  /\ UNCHANGED <<run, tasks, cur, apc, ctl, dying, status, owed>>

(* WorkerThread(): asked to stop and no task left. *)
Quit(w) ==
  /\ wpc[w] = "top"
  /\ ~run /\ tasks = <<>>
  /\ wpc' = [wpc EXCEPT ![w] = "exited"]
  /\ UNCHANGED <<run, tasks, cur, apc, ctl, dying, status, owed>>

(* Mutant: copies the front task and pops it in another critical section, *)
(* by which time the front may be another worker's.                        *)
TakeWithoutPop(w) ==
  /\ wpc[w] = "top"
  /\ tasks # <<>>
  /\ cur' = [cur EXCEPT ![w] = Head(tasks)]
  /\ tasks' = tasks
  /\ status' = [status EXCEPT ![Head(tasks)] = "running"]
  /\ wpc' = [wpc EXCEPT ![w] = "exec"]
  /\ UNCHANGED <<run, apc, ctl, dying, owed>>

(* WorkerThread(): takes the front task and leaves the lock. *)
Take(w) ==
  /\ wpc[w] = "top"
  /\ tasks # <<>>
  /\ cur' = [cur EXCEPT ![w] = Head(tasks)]
  /\ tasks' = Tail(tasks)
  /\ status' = [status EXCEPT ![Head(tasks)] = "running"]
  /\ wpc' = [wpc EXCEPT ![w] = "exec"]
  /\ UNCHANGED <<run, apc, ctl, dying, owed>>

(* WorkerThread(): Execute() returns, so no call of its task is pending. *)
Finish(w) ==
  /\ wpc[w] = "exec"
  /\ apc[w] = "idle"
  /\ status' = [status EXCEPT ![cur[w]] = "done"]
  /\ cur' = [cur EXCEPT ![w] = NoTask]
  /\ wpc' = [wpc EXCEPT ![w] = "top"]
  /\ UNCHANGED <<run, tasks, apc, ctl, dying, owed>>

-----------------------------------------------------------------------------

(* Stop(): _run = false under the lock.  The tasks that are queued or      *)
(* running when a started pool is stopped are the ones it has to wait for. *)
StopBegin ==
  /\ ctl = "idle"
  /\ run' = FALSE
  /\ owed' = IF run THEN {t \in Tasks : status[t] \in {"queued", "running"}} ELSE owed
  /\ ctl' = "notify"
  /\ UNCHANGED <<tasks, wpc, cur, apc, dying, status>>

(* Mutant: notify_one in place of notify_all. *)
StopNotifyOne ==
  /\ ctl = "notify"
  /\ \/ Asleep = {} /\ wpc' = wpc
     \/ \E w \in Asleep : wpc' = [wpc EXCEPT ![w] = "top"]
  /\ ctl' = "join"
  /\ UNCHANGED <<run, tasks, cur, apc, dying, status, owed>>

(* Stop(): _cv.notify_all() *)
StopNotify ==
  /\ ctl = "notify"
  /\ wpc' = [w \in Workers |-> IF wpc[w] = "asleep" THEN "top" ELSE wpc[w]]
  /\ ctl' = "join"
  /\ UNCHANGED <<run, tasks, cur, apc, dying, status, owed>>

(* Mutant: the threads are not joined. *)
StopWithoutJoin ==
  /\ ctl = "join"
  /\ ctl' = "clear"
  /\ UNCHANGED <<run, tasks, wpc, cur, apc, dying, status, owed>>

(* Stop(): the loop that joins every worker ends. *)
StopJoin ==
  /\ ctl = "join"
  /\ Joined
  /\ ctl' = "clear"
  /\ UNCHANGED <<run, tasks, wpc, cur, apc, dying, status, owed>>

(* Stop(): _workers.clear(), and the return to the caller.  A Stop() that  *)
(* the destructor called returns to the destructor.                        *)
StopClear ==
  /\ ctl = "clear"
  /\ wpc' = [w \in Workers |-> "none"]
  /\ ctl' = IF dying THEN "destroyed" ELSE "idle"
  /\ UNCHANGED <<run, tasks, cur, apc, dying, status, owed>>

(* Mutant: the destructor does not call Stop(). *)
DestroyAtOnce ==
  /\ ctl = "idle"
  /\ \A c \in Adders : apc[c] = "idle"
  /\ dying' = TRUE
  /\ ctl' = "destroyed"
  /\ UNCHANGED <<run, tasks, wpc, cur, apc, status, owed>>

(* The destructor, by an owner who knows that no other thread is inside a  *)
(* call: Stop() when _run is set, then the members.                        *)
Destroy ==
  /\ ctl = "idle"
  /\ \A c \in Adders : apc[c] = "idle"
  /\ dying' = TRUE
  /\ IF run
     THEN /\ run' = FALSE
          /\ owed' = {t \in Tasks : status[t] \in {"queued", "running"}}
          /\ ctl' = "notify"
     ELSE /\ ctl' = "destroyed"
          /\ UNCHANGED <<run, owed>>
  /\ UNCHANGED <<tasks, wpc, cur, apc, status>>

-----------------------------------------------------------------------------

WorkerStep(w) == Sleep(w) \/ SpuriousWake(w) \/ Quit(w) \/ Take(w) \/ Finish(w)
CallerStep(c) == (\E t \in Tasks : AddTask(c, t)) \/ NotifyOne(c) \/ ClearTasks(c)
OwnerStep     == Start \/ StopBegin \/ StopNotify \/ StopJoin \/ StopClear \/ Destroy

Next == \/ \E w \in Workers : WorkerStep(w)
        \/ \E c \in Callers : CallerStep(c)
        \/ OwnerStep

Spec == Init /\ [][Next]_vars

(* The scheduler runs every runnable thread, tasks terminate, and a call   *)
(* that has begun goes on.  Nobody has to call anything, and no spurious   *)
(* wake-up is relied upon.                                                 *)
Fairness ==
  /\ \A w \in Workers : WF_vars(Sleep(w) \/ Quit(w) \/ Take(w) \/ Finish(w))
  /\ \A c \in Callers : WF_vars(NotifyOne(c))
  /\ WF_vars(StopNotify \/ StopJoin \/ StopClear)

FairSpec == Spec /\ Fairness

-----------------------------------------------------------------------------

TypeOK ==
  /\ run \in BOOLEAN
  /\ tasks \in Seq(Tasks)
  /\ wpc \in [Workers -> {"none", "top", "asleep", "exec", "exited"}]
  /\ cur \in [Workers -> Tasks \cup {NoTask}]
  /\ apc \in [Callers -> {"idle", "notify"}]
  /\ ctl \in {"idle", "notify", "join", "clear", "destroyed"}
  /\ dying \in BOOLEAN
  /\ status \in [Tasks -> {"new", "queued", "running", "done", "cleared"}]
  /\ owed \in SUBSET Tasks

(* No wake-up is lost although notify_one is called outside the lock and   *)
(* the predicate is shared: while some worker sleeps, every queued task    *)
(* has a worker that is about to look for it, or a notify_one on its way.  *)
NoIdleWorker == Asleep # {} => Len(tasks) <= Cardinality(AtTop) + Cardinality(Pending)

(* Once _run is false a worker can only be asleep until Stop()'s           *)
(* notify_all: nothing else would end its sleep, and Stop() joins it.      *)
StopWakesAll == ~run /\ Asleep # {} => ctl = "notify"

(* Every task is in one place: in the deque once, in the hands of one      *)
(* worker, or neither; it is executed at most once and only ClearTasks     *)
(* drops it.                                                               *)
ExactlyOnce ==
  /\ \A i, j \in DOMAIN tasks : tasks[i] = tasks[j] => i = j
  /\ \A w, v \in Workers : cur[w] = cur[v] /\ cur[w] # NoTask => w = v
  /\ \A t \in Tasks : /\ status[t] = "queued" <=> \E i \in DOMAIN tasks : tasks[i] = t
                      /\ status[t] = "running" <=> \E w \in Workers : cur[w] = t

(* Stop() returns only when every task that was queued or running when it  *)
(* was called, and every task those added in turn, is executed or cleared. *)
StopDrains ==
  ctl = "clear" => \A t \in owed : status[t] \in {"done", "cleared"}

(* The pool is destroyed only after its threads are joined and dropped: no *)
(* thread touches _mtx, _cv or _tasks of a pool that is gone.              *)
NoWorkerOutlivesPool == ctl = "destroyed" => Empty /\ \A c \in Callers : ~Calling(c) /\ apc[c] = "idle"

(* How the owner's progress, _run and the workers belong together. *)
Phases ==
  /\ ctl \in {"notify", "join", "clear", "destroyed"} => ~run
  /\ ctl = "clear" => Joined
  /\ ctl \in {"idle", "destroyed"} /\ ~run => Empty
  /\ run => \A w \in Workers : wpc[w] \notin {"none", "exited"}
  /\ \A w \in Workers : wpc[w] = "exec" <=> cur[w] # NoTask
  /\ \A w \in Workers : apc[w] = "notify" => wpc[w] = "exec"
  /\ ctl = "destroyed" => dying
  /\ dying => ctl # "idle" /\ \A c \in Adders : apc[c] = "idle"

(* A task that Stop() still has to wait for has a worker that is not gone. *)
OwedServed ==
  /\ \A t \in owed : status[t] # "new"
  /\ ~run /\ (\E t \in owed : status[t] = "queued") => ~Joined

(* The inductive invariant behind the theorems of ThreadPoolProofs. *)
IInv == TypeOK /\ Phases /\ ExactlyOnce /\ OwedServed

(* The execution history of a task never runs backwards: a task that was   *)
(* executed or cleared is never queued or executed again.                  *)
NoRerun ==
  [][\A t \in Tasks : status[t] \in {"done", "cleared"} => status'[t] = status[t]]_vars

(* A task that is queued in a started pool is executed or cleared, also    *)
(* when the pool is stopped meanwhile.                                     *)
TasksServed ==
  \A t \in Tasks : (status[t] = "queued" /\ run) ~> status[t] \in {"done", "cleared"}

(* Stop() returns, although tasks may go on adding tasks while it waits.   *)
StopReturns == ctl = "notify" ~> ctl \in {"idle", "destroyed"}

=============================================================================
