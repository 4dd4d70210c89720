---------------------------- MODULE LoadBalancer ----------------------------
(***************************************************************************)
(* LoadBalancer and LoadBalancer::Worker (classes/include/                 *)
(* DwmLoadBalancer.hh): producers hand items to the worker whose queue is  *)
(* shortest, each worker empties its own Thread::Queue in a thread of its  *)
(* own, and Stop() joins the workers while it holds the balancer's mutex.  *)
(*                                                                         *)
(* A worker's queue is used one member at a time: ThreadQueue shows that   *)
(* with one waiting thread per queue, as here, TimedWaitForNotEmpty()      *)
(* returns whether the queue has an entry (TimedResultExact) and always    *)
(* returns (TimedWaitReturns), so that it is one step here, taken at any   *)
(* time.  Workers are started before they are added, as in every use.      *)
(***************************************************************************)
EXTENDS Naturals, Sequences, FiniteSets, TLC

CONSTANTS
  Workers,    \* the Worker objects
  Producers,  \* the threads that call LoadBalancer::AddWork
  Feeders,    \* the workers whose ProcessWork calls LoadBalancer::AddWork
  Items,      \* the items, each of them handed in once
  MaxWork,    \* MaxWork[w] is the maximum length of w's queue, 0 for none
  RangeSizes, \* the lengths of the ranges that are handed in
  Stopper,    \* the thread that calls Stop()
  CanStop,    \* whether it does
  Free        \* the holder of _mtx when nobody holds it

Callers == Producers \cup Feeders

ASSUME SetsAssumption ==
  /\ IsFiniteSet(Workers) /\ IsFiniteSet(Items)
  /\ Feeders \subseteq Workers /\ Producers \cap Workers = {}
  /\ Stopper \notin Callers /\ Free \notin Callers \cup {Stopper}
ASSUME NumbersAssumption ==
  MaxWork \in [Workers -> Nat] /\ RangeSizes \subseteq Nat \ {0} /\ CanStop \in BOOLEAN

VARIABLES
  mtx,       \* the holder of _mtx
  workers,   \* _workers
  keep,      \* Worker::_keepRunning
  tpc,       \* where the thread of each worker is in Run()
  queue,     \* Worker::_workQueue
  myCopy,    \* Run()'s local deque
  ppc,       \* where each caller of AddWork is
  arg,       \* the items it hands in
  ranged,    \* whether it called AddWork with a range
  best,      \* min_element's result so far, an index of workers
  next,      \* min_element's next candidate
  spc,       \* where Stop() is
  sidx,      \* Stop()'s position in _workers
  accepted,  \* history: the items an AddWork returned true for
  done,      \* history: how often each item was processed
  base       \* history: the lengths of the queues when the scan began

balancer == <<mtx, workers, best, next, base>>
worker   == <<keep, tpc, queue, myCopy, done>>
caller   == <<ppc, arg, ranged, accepted>>
stopper  == <<spc, sidx>>
vars     == <<balancer, worker, caller, stopper>>

Lengths == [w \in Workers |-> Len(queue[w])]
NoBase  == [w \in Workers |-> 0]

Elements(s) == {s[k] : k \in DOMAIN s}
Distinct(s) == \A j, k \in DOMAIN s : s[j] = s[k] => j = k

-----------------------------------------------------------------------------

Init ==
  /\ mtx = Free
  /\ workers = <<>>
  /\ keep = [w \in Workers |-> FALSE]
  /\ tpc = [w \in Workers |-> "none"]
  /\ queue = [w \in Workers |-> <<>>]
  /\ myCopy = [w \in Workers |-> <<>>]
  /\ ppc = [c \in Callers |-> "idle"]
  /\ arg = [c \in Callers |-> <<>>]
  /\ ranged = [c \in Callers |-> FALSE]
  /\ best = 0 /\ next = 0
  /\ spc = "idle" /\ sidx = 0
  /\ accepted = {}
  /\ done = [i \in Items |-> 0]
  /\ base = NoBase

(* Worker::Start() *)
Start(w) ==
  /\ tpc[w] = "none"
  /\ keep' = [keep EXCEPT ![w] = TRUE]
  /\ tpc' = [tpc EXCEPT ![w] = "loop"]
  /\ UNCHANGED <<balancer, queue, myCopy, done, caller, stopper>>

(* Mutant: a worker may be added twice. *)
AddWorkerTwice(w) ==
  /\ mtx = Free
  /\ tpc[w] # "none"
  /\ Len(workers) < 4
  /\ workers' = Append(workers, w)
  /\ UNCHANGED <<mtx, best, next, base, worker, caller, stopper>>

(* LoadBalancer::AddWorker() *)
AddWorker(w) ==
  /\ mtx = Free
  /\ tpc[w] # "none"
  /\ w \notin Elements(workers)
  /\ workers' = Append(workers, w)
  /\ UNCHANGED <<mtx, best, next, base, worker, caller, stopper>>

-----------------------------------------------------------------------------

(* Mutant: the thread ends whenever its queue is empty. *)
ReadKeepAndLength(w) ==
  /\ tpc[w] = "loop"
  /\ tpc' = [tpc EXCEPT ![w] = IF keep[w] /\ queue[w] # <<>> THEN "wait" ELSE "length"]
  /\ UNCHANGED <<balancer, keep, queue, myCopy, done, caller, stopper>>

(* Run(): _keepRunning is read first, and only if it is false the length. *)
ReadKeep(w) ==
  /\ tpc[w] = "loop"
  /\ tpc' = [tpc EXCEPT ![w] = IF keep[w] THEN "wait" ELSE "length"]
  /\ UNCHANGED <<balancer, keep, queue, myCopy, done, caller, stopper>>

(* Mutant: the thread ends without looking at its queue. *)
ReadNothing(w) ==
  /\ tpc[w] = "length"
  /\ tpc' = [tpc EXCEPT ![w] = "exited"]
  /\ UNCHANGED <<balancer, keep, queue, myCopy, done, caller, stopper>>

(* Mutant: the thread waits for work although it shall not go on. *)
ReadLengthAndWait(w) ==
  /\ tpc[w] = "length"
  /\ tpc' = [tpc EXCEPT ![w] = "wait"]
  /\ UNCHANGED <<balancer, keep, queue, myCopy, done, caller, stopper>>

ReadLength(w) ==
  /\ tpc[w] = "length"
  /\ tpc' = [tpc EXCEPT ![w] = IF queue[w] # <<>> THEN "wait" ELSE "exited"]
  /\ UNCHANGED <<balancer, keep, queue, myCopy, done, caller, stopper>>

(* Run(): TimedWaitForNotEmpty() returns. *)
WaitReturns(w) ==
  /\ tpc[w] = "wait"
  /\ tpc' = [tpc EXCEPT ![w] = IF queue[w] # <<>> THEN "swap" ELSE "loop"]
  /\ UNCHANGED <<balancer, keep, queue, myCopy, done, caller, stopper>>

(* Mutant: Copy() in place of Swap(). *)
SwapWithoutClear(w) ==
  /\ tpc[w] = "swap"
  /\ myCopy' = [myCopy EXCEPT ![w] = queue[w]]
  /\ queue' = queue
  /\ tpc' = [tpc EXCEPT ![w] = "process"]
  /\ UNCHANGED <<balancer, keep, done, caller, stopper>>

(* Run(): _workQueue.Swap(myCopy), with an empty myCopy. *)
Swap(w) ==
  /\ tpc[w] = "swap"
  /\ myCopy' = [myCopy EXCEPT ![w] = queue[w]]
  /\ queue' = [queue EXCEPT ![w] = <<>>]
  /\ tpc' = [tpc EXCEPT ![w] = "process"]
  /\ UNCHANGED <<balancer, keep, done, caller, stopper>>

(* A call of ProcessWork that calls AddWork returns after it. *)
MayProcess(w) == tpc[w] = "process" /\ (w \in Feeders => ppc[w] = "idle")

(* Run(): ProcessWork(deque) takes the whole batch. *)
ProcessBatch(w) ==
  /\ MayProcess(w)
  /\ done' = [i \in Items |->
                done[i] + Cardinality({k \in DOMAIN myCopy[w] : myCopy[w][k] = i})]
  /\ myCopy' = [myCopy EXCEPT ![w] = <<>>]
  /\ tpc' = [tpc EXCEPT ![w] = "loop"]
  /\ UNCHANGED <<balancer, keep, queue, caller, stopper>>

(* Run(): or ProcessWork(item) is called for each of them. *)
ProcessItem(w) ==
  /\ MayProcess(w)
  /\ myCopy[w] # <<>>
  /\ done' = [done EXCEPT ![Head(myCopy[w])] = @ + 1]
  /\ myCopy' = [myCopy EXCEPT ![w] = Tail(@)]
  /\ tpc' = [tpc EXCEPT ![w] = IF Len(myCopy[w]) = 1 THEN "loop" ELSE "process"]
  /\ UNCHANGED <<balancer, keep, queue, caller, stopper>>

-----------------------------------------------------------------------------

(* An item that nobody has handed in yet. *)
Fresh(i) == i \notin accepted /\ \A c \in Callers : i \notin Elements(arg[c])

(* A worker calls AddWork only from its ProcessWork. *)
MayCall(c) == ppc[c] = "idle" /\ (c \in Workers => tpc[c] = "process")

(* AddWork(item): the test for workers; without any it returns false. *)
AddWork(c, i) ==
  /\ mtx = Free
  /\ MayCall(c) /\ Fresh(i)
  /\ workers # <<>>
  /\ arg' = [arg EXCEPT ![c] = <<i>>]
  /\ ranged' = [ranged EXCEPT ![c] = FALSE]
  /\ ppc' = [ppc EXCEPT ![c] = "lock"]
  /\ UNCHANGED <<balancer, worker, accepted, stopper>>

(* AddWork(firstIter, lastIter): the same test. *)
AddWorkRange(c, s) ==
  /\ mtx = Free
  /\ MayCall(c) /\ \A k \in DOMAIN s : Fresh(s[k])
  /\ workers # <<>>
  /\ arg' = [arg EXCEPT ![c] = s]
  /\ ranged' = [ranged EXCEPT ![c] = TRUE]
  /\ ppc' = [ppc EXCEPT ![c] = "ready"]
  /\ UNCHANGED <<balancer, worker, accepted, stopper>>

(* Mutant: the number of entries is not taken into account. *)
ReadyForOne(w, n) == keep[w] /\ (MaxWork[w] = 0 \/ Len(queue[w]) < MaxWork[w])

(* Mutant: the maximum is not taken into account. *)
ReadyWhileRunning(w, n) == keep[w]

(* Mutant: one place more than is needed must be free. *)
ReadyStrictly(w, n) == keep[w] /\ (MaxWork[w] = 0 \/ Len(queue[w]) + n < MaxWork[w])

(* Worker::ReadyForWork(numEntries) *)
ReadyForWork(w, n) == keep[w] /\ (MaxWork[w] = 0 \/ Len(queue[w]) + n <= MaxWork[w])

(* AddWork of a range: WorkerReady(lastIter - firstIter), under a lock of  *)
(* its own.  Meanwhile no queue grows, so a worker that is ready stays so. *)
WorkerReady(c) ==
  /\ ppc[c] = "ready"
  /\ mtx = Free
  /\ ppc' = [ppc EXCEPT ![c] =
       IF \E w \in Elements(workers) : ReadyForWork(w, Len(arg[c])) THEN "lock" ELSE "sleep"]
  /\ UNCHANGED <<balancer, worker, arg, ranged, accepted, stopper>>

(* The sleep before the next try, for which MinimumWaitForWorkerReady()    *)
(* takes the mutex.                                                        *)
SleepFor(c) ==
  /\ ppc[c] = "sleep"
  /\ mtx = Free
  /\ ppc' = [ppc EXCEPT ![c] = IF ranged[c] THEN "ready" ELSE "lock"]
  /\ UNCHANGED <<balancer, worker, arg, ranged, accepted, stopper>>

(* Both AddWork: the mutex, and min_element begins. *)
LockAndScan(c) ==
  /\ ppc[c] = "lock"
  /\ mtx = Free
  /\ mtx' = c
  /\ best' = 1 /\ next' = 2
  /\ base' = Lengths
  /\ ppc' = [ppc EXCEPT ![c] = "scan"]
  /\ UNCHANGED <<workers, worker, arg, ranged, accepted, stopper>>

(* Mutant: the longest queue wins. *)
CompareLongest(c) ==
  /\ ppc[c] = "scan"
  /\ next <= Len(workers)
  /\ best' = IF Len(queue[workers[next]]) > Len(queue[workers[best]]) THEN next ELSE best
  /\ next' = next + 1
  /\ UNCHANGED <<mtx, workers, base, worker, caller, stopper>>

(* min_element compares one more worker with the best so far.  The two     *)
(* lengths are read one after the other, so that a best that was swapped   *)
(* away in between may still lose to an empty candidate.                   *)
Compare(c) ==
  /\ ppc[c] = "scan"
  /\ next <= Len(workers)
  /\ \/ Len(queue[workers[next]]) < Len(queue[workers[best]]) /\ best' = next
     \/ ~(Len(queue[workers[next]]) < Len(queue[workers[best]])) /\ best' = best
     \/ Len(queue[workers[next]]) = 0 /\ best' = next
  /\ next' = next + 1
  /\ UNCHANGED <<mtx, workers, base, worker, caller, stopper>>

(* Worker::AddWork, i.e. PushBack: there is room if the queue is not full, *)
(* however long the range is.                                              *)
HasRoom(w) == MaxWork[w] = 0 \/ Len(queue[w]) < MaxWork[w]

Unlocked == mtx' = Free /\ best' = 0 /\ next' = 0 /\ base' = NoBase

(* Both AddWork: the push to the best worker succeeds and true is returned. *)
PushAccepted(c) ==
  LET w == workers[best]
  IN /\ ppc[c] = "scan" /\ next > Len(workers)
     /\ HasRoom(w)
     /\ queue' = [queue EXCEPT ![w] = @ \o arg[c]]
     /\ accepted' = accepted \cup Elements(arg[c])
     /\ arg' = [arg EXCEPT ![c] = <<>>]
     /\ ppc' = [ppc EXCEPT ![c] = "idle"]
     /\ Unlocked
     /\ UNCHANGED <<workers, keep, tpc, myCopy, done, ranged, stopper>>

(* The best worker's queue is full: AddWork(item) tries again, AddWork of  *)
(* a range returns false.                                                  *)
PushRefused(c) ==
  /\ ppc[c] = "scan" /\ next > Len(workers)
  /\ ~HasRoom(workers[best])
  /\ ppc' = [ppc EXCEPT ![c] = IF ranged[c] THEN "idle" ELSE "sleep"]
  /\ arg' = [arg EXCEPT ![c] = IF ranged[c] THEN <<>> ELSE @]
  /\ Unlocked
  /\ UNCHANGED <<workers, worker, ranged, accepted, stopper>>

-----------------------------------------------------------------------------

(* LoadBalancer::Stop(): takes the mutex and keeps it. *)
StopLock ==
  /\ CanStop
  /\ spc = "idle"
  /\ mtx = Free
  /\ mtx' = Stopper
  /\ spc' = IF workers = <<>> THEN "release" ELSE "flag"
  /\ sidx' = 1
  /\ UNCHANGED <<workers, best, next, base, worker, caller>>

(* Worker::Stop() of the next worker: the flag, and then the join. *)
StopFlag ==
  /\ spc = "flag"
  /\ keep' = [keep EXCEPT ![workers[sidx]] = FALSE]
  /\ spc' = "join"
  /\ UNCHANGED <<balancer, tpc, queue, myCopy, done, caller, sidx>>

(* Mutant: it goes on without the join. *)
StopDetach ==
  /\ spc = "join"
  /\ sidx' = sidx + 1
  /\ spc' = IF sidx = Len(workers) THEN "release" ELSE "flag"
  /\ UNCHANGED <<balancer, worker, caller>>

StopJoin ==
  /\ spc = "join"
  /\ tpc[workers[sidx]] = "exited"
  /\ sidx' = sidx + 1
  /\ spc' = IF sidx = Len(workers) THEN "release" ELSE "flag"
  /\ UNCHANGED <<balancer, worker, caller>>

StopRelease ==
  /\ spc = "release"
  /\ mtx' = Free
  /\ spc' = "stopped"
  /\ sidx' = 0
  /\ UNCHANGED <<workers, best, next, base, worker, caller>>

-----------------------------------------------------------------------------

RangeArgs == {s \in UNION {[1..n -> Items] : n \in RangeSizes} : Distinct(s)}

Run(w) == \/ ReadKeep(w) \/ ReadLength(w) \/ WaitReturns(w) \/ Swap(w)
          \/ ProcessBatch(w) \/ ProcessItem(w)

Call(c)   == (\E i \in Items : AddWork(c, i)) \/ (\E s \in RangeArgs : AddWorkRange(c, s))
Locks(c)  == WorkerReady(c) \/ SleepFor(c) \/ LockAndScan(c)
Pushes(c) == Compare(c) \/ PushAccepted(c) \/ PushRefused(c)
Stop      == StopLock \/ StopFlag \/ StopJoin \/ StopRelease

Next == \/ \E w \in Workers : Start(w) \/ AddWorker(w) \/ Run(w)
        \/ \E c \in Callers : Call(c) \/ Locks(c) \/ Pushes(c)
        \/ Stop

Spec == Init /\ [][Next]_vars

(* Every thread that can run does, every ProcessWork returns, and the      *)
(* mutex starves nobody.  No call has to be made.                          *)
Fairness ==
  /\ \A w \in Workers : WF_vars(Run(w))
  /\ \A c \in Callers : SF_vars(Locks(c)) /\ WF_vars(Pushes(c))
  /\ WF_vars(StopFlag \/ StopJoin \/ StopRelease)

FairSpec == Spec /\ Fairness

-----------------------------------------------------------------------------

Indices == 0 .. Cardinality(Workers) + 1

TypeOK ==
  /\ mtx \in Callers \cup {Free, Stopper}
  /\ workers \in Seq(Workers)
  /\ keep \in [Workers -> BOOLEAN]
  /\ tpc \in [Workers -> {"none", "loop", "length", "wait", "swap", "process", "exited"}]
  /\ queue \in [Workers -> Seq(Items)]
  /\ myCopy \in [Workers -> Seq(Items)]
  /\ ppc \in [Callers -> {"idle", "ready", "sleep", "lock", "scan"}]
  /\ arg \in [Callers -> Seq(Items)]
  /\ ranged \in [Callers -> BOOLEAN]
  /\ best \in Indices /\ next \in Indices
  /\ spc \in {"idle", "flag", "join", "release", "stopped"}
  /\ sidx \in Indices
  /\ accepted \in SUBSET Items
  /\ done \in [Items -> Nat]
  /\ base \in [Workers -> Nat]

Occurrences(i, s) == Cardinality({k \in DOMAIN s : s[k] = i})

Holders(i) == {w \in Workers : Occurrences(i, queue[w]) + Occurrences(i, myCopy[w]) > 0}

(* No item is lost or processed twice on its way from the producer through *)
(* the queue and the worker's copy of it: an accepted item is in one of    *)
(* these places, once, or it was processed, once.                          *)
EachItemOnce ==
  \A i \in Items :
    /\ done[i] + Cardinality(Holders(i)) = IF i \in accepted THEN 1 ELSE 0
    /\ \A w \in Holders(i) : Occurrences(i, queue[w]) + Occurrences(i, myCopy[w]) = 1

(* The inductive invariant behind EachItemOnce and StopDrains, in parts:   *)
(* who holds the mutex;                                                    *)
Exclusion ==
  /\ \A c \in Callers : ppc[c] = "scan" <=> mtx = c
  /\ spc \in {"flag", "join", "release"} <=> mtx = Stopper

(* the positions in _workers of those who walk along it;                   *)
Positions ==
  /\ Distinct(workers)
  /\ \A c \in Callers : ppc[c] # "idle" => workers # <<>>
  /\ \A c \in Callers : ppc[c] = "scan" =>
       best \in DOMAIN workers /\ next \in 2 .. Len(workers) + 1
  /\ spc \in {"flag", "join"} => sidx \in DOMAIN workers

(* the one place of each item: with its caller, with a worker, or done;    *)
Held(w) == Elements(queue[w]) \cup Elements(myCopy[w])

Places ==
  /\ \A c \in Callers : Distinct(arg[c]) /\ Elements(arg[c]) \cap accepted = {}
  /\ \A c, d \in Callers : c # d => Elements(arg[c]) \cap Elements(arg[d]) = {}
  /\ \A w \in Workers : /\ Distinct(queue[w]) /\ Distinct(myCopy[w])
                        /\ Elements(queue[w]) \cap Elements(myCopy[w]) = {}
  /\ \A v, w \in Workers : v # w => Held(v) \cap Held(w) = {}
  /\ \A i \in Items : done[i] = IF i \in accepted /\ \A w \in Workers : i \notin Held(w)
                                THEN 1 ELSE 0
  /\ \A w \in Workers : Held(w) \subseteq accepted

(* how far the workers are with what they hold: a worker leaves only after *)
(* its flag was cleared, and while Stop() has the mutex only if it is done;*)
Leaving ==
  /\ \A w \in Workers :
       /\ spc = "idle" /\ tpc[w] # "none" => keep[w]
       /\ tpc[w] \in {"length", "exited"} => ~keep[w]
       /\ tpc[w] # "process" => myCopy[w] = <<>>
       /\ mtx = Stopper /\ tpc[w] = "exited" => queue[w] = <<>>
       /\ Held(w) # {} => w \in Elements(workers)

(* and which workers Stop() has joined.                                    *)
Joined ==
  \A k \in DOMAIN workers :
    spc = "release" \/ (spc \in {"flag", "join"} /\ k < sidx) => tpc[workers[k]] = "exited"

IInv == TypeOK /\ Exclusion /\ Positions /\ Places /\ Leaving /\ Joined

(* Stop() drains: when its last join has returned, and before it gives the *)
(* mutex back, every item that was accepted has been processed.            *)
StopDrains == spc = "release" => \A i \in accepted : done[i] = 1

(* An item goes to a worker whose queue is at most as long as every other  *)
(* one was when the scan began, although workers empty their queues while  *)
(* the scan is under way.                                                  *)
Balanced ==
  [][\A c \in Callers :
       PushAccepted(c) => \A k \in DOMAIN workers : Len(queue[workers[best]]) <= base[workers[k]]]_vars

(* No worker's queue is longer than its MaxWork. *)
WithinMaxWork == \A w \in Workers : MaxWork[w] # 0 => Len(queue[w]) <= MaxWork[w]

(* AddWork of a range waits for a ready worker, so that it is not refused. *)
RangeNotRefused == [][\A c \in Callers : ranged[c] => ~PushRefused(c)]_vars

(* An item for which AddWork has returned true before Stop() is called is  *)
(* processed, also when Stop() is called before it is.                     *)
AcceptedIsProcessed == \A i \in Items : (i \in accepted /\ spc = "idle") ~> done[i] = 1

(* AddWork finds room some time and returns, as long as nobody calls       *)
(* Stop(): the stopped workers make no room, and AddWork tries for ever.   *)
AddWorkReturns == \A c \in Callers : ppc[c] # "idle" ~> (ppc[c] = "idle" \/ spc # "idle")

(* Stop() returns. *)
StopReturns == spc = "flag" ~> spc = "stopped"

(* Both calls return. *)
CallsReturn == AddWorkReturns /\ StopReturns

-----------------------------------------------------------------------------
(* What the configurations of TLC give to the constants: queues of two     *)
(* entries, and items that are alike.                                      *)

MaxTwo == [w \in Workers |-> 2]
ItemSymmetry == Permutations(Items)

=============================================================================
