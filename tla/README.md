# A verification project for libDwm

libDwm is a C++ class library: threads and queues, serialization, addresses and
prefixes and tables of them, rotated log files, time, and wrappers of system
calls. This directory holds TLA+ models of it, the TLC configurations that check
them on small instances, and TLAPS proofs about its concurrent core, its files and
its tables for instances of every size. `PROJECT.json` lists the components, runs, mutants,
findings, hazards and theorems, and maps every definition to the lines it models.

## 1. Inventory

| Component | State it keeps | Operations | Interacts with | What is hard |
|---|---|---|---|---|
| `ThreadPool` | deque of tasks, workers, `_run`; one mutex and condition variable | `Start`, `AddTask`, `Stop`, `ClearTasks`, destructor, the worker loop | tasks may call back into the pool | wake-ups outside the lock, draining on `Stop`, destruction |
| `Thread::Queue` | deque, `_signalled`, `_maxLength`; one mutex and condition variable | pushes and pops at both ends, ranges, swaps and copies, four kinds of waits, `ConditionSignal` | used by `LoadBalancer::Worker` and by applications | one condition variable for two predicates, a flag that waiters reset, an unlocked signal, time-outs |
| `LoadBalancer` | workers, `_mtx`; per worker a `Thread::Queue`, `_keepRunning`, a thread | `AddWorker`, both `AddWork`, `Stop`, `Worker::Run` | workers may hand in work | test-then-act in two critical sections, `Stop` joins under the mutex |
| `ConcurrentQueue` | linked list with a dummy, two spin locks, an atomic length | two `PushBack`, two `PopFront`, destructor | producers and consumers share no lock | memory reclamation outside the locks, a length that lags behind the list |
| `DescriptorIO`, `StreamIO`, `FileIO`, `GZIO`, `BZ2IO`, `ASIO`, `IOUtils`, encoded integers, the classes that read and write themselves | none; the bytes on a device | `Read`, `Write`, `NRead`, `NWrite` of every kind of type, `StreamedLength` | read(2), stdio, zlib, bzip2, iostreams, boost::asio | short reads and writes, counts as results, six formats that should be one |
| prefix tries, route tables, prefix and address maps | tries and hash maps over addresses | add, remove, lookups, aggregation, copy, write and read, iterators | serialization | path compression with parent pointers, counters per length, aggregation in place |
| `FileRoller`, `FileLogger` | a numbered series of files; an open stream | roll over, compress; log, open, close, flush | the file system; `Logger` | partial failure, a crash between two steps |
| `DataLog`, `Descriptor`, `Signal`, `Pacer` | a file of entries; a descriptor; a stack of handlers; a deadline | record and read; copy and assign; push and pop; pace | the operating system | buffers, failing close(2), a signal in the middle of a call, late callers |
| `Base64` | none | encode and decode strings and streams | | four loops that must agree |
| `SysLogger` | an open flag, an ident | open, close, log | syslog(3) | check-then-act |
| process tables, system information, daemon helpers, text, terminal and version helpers, assertions, the tools under `apps` | none, or a snapshot | parse, format, query | the operating system | little behaviour over time |

What makes the modelled ones correct:

- pool: no task is lost or run twice, `Stop()` drains and returns, no thread
  outlives the pool;
- thread queue: no waiter sleeps although what it waits for has come, a timed
  wait returns, and with the right result;
- balancer: an accepted item is processed once, a queue stays within its
  limit, `Stop()` drains and returns;
- concurrent queue: it is a FIFO queue, and no entry is used after it was
  deleted, deleted twice or leaked;
- serialization: what a call says it has read is what was written, what a call
  says it has written is stored, and an undisturbed exchange between any two
  classes with one format loses nothing;
- tables: they are partial functions from prefixes to values, lookups answer
  what the entries say, aggregation changes no route;
- files: only the oldest records are ever lost, and files are in order;
- services: entries are read as they were recorded, descriptors are owned once,
  the handler on top of the stack is the one that is called, a pace is held.

## 2. The modules

A block that holds a mutex is one action, unless another thread can act on the
same data without that mutex. What the code does after an unlock is an action
of its own.

### Threads

**`ThreadPool`** (`DwmThreadPool.hh`). `run`, `tasks` are `_run`, `_tasks`;
`wpc` is where each worker is in `WorkerThread()` (and `none` when it is not in
`_workers`). `AddTask` and `NotifyOne` are the two halves of `AddTask()`;
`StopBegin`, `StopNotify`, `StopJoin` and `StopClear` those of `Stop()`.
`Destroy` is the destructor. Waiting is explicit: `Sleep`, `SpuriousWake`, and
the wake-ups in `NotifyOne` and `StopNotify`. A worker that executes a task may
call `AddTask` and `ClearTasks`. One owner calls `Start`, `Stop` and the
destructor, because `Stop()` walks `_workers` without the mutex. `status` and
`owed` are history variables: what became of each task, and which tasks the
current `Stop()` has to wait for.

**`ThreadQueue`** (`DwmThreadQueue.hh`). All four waits are one machine with
the states `idle`, `block`, `asleep`, `woken` or `expired`, `return`. A wait
holds the mutex from its test to its block, and from its wake-up to its return,
as several steps, since `ConditionSignal()` works without the mutex and can come
in between. The constants `SignalWaiters`, `Signallers` and `Exchangers` say
which threads use the members that reset the flag, `ConditionSignal()`, and
`Swap(Queue&)` or `Copy(Queue&)`.

**`LoadBalancer`** (`DwmLoadBalancer.hh`). The queue of a worker is its
sequence of items. `Thread::Queue` is abstracted: with one waiting thread per
queue, as here, `ThreadQueue` shows that `TimedWaitForNotEmpty()` returns, and
returns whether the queue has an entry. The scan for the shortest queue is one
action per comparison, because workers swap their queues away meanwhile, and
each comparison may see the two lengths at different moments. `Feeders` are
the workers whose `ProcessWork` hands in work. `ProcessBatch` and `ProcessItem`
are the two overloads of `ProcessWork`.

**`ConcurrentQueue`** (`DwmConcurrentQueue.hh`). One action per access to
shared state: `AcquirePush`, `Link`, `SetBack`, `ReleasePush`, `AddLength`, and
so on. An entry has the name of the item it was made for; `freed` holds what was
deleted. `length` wraps at `Modulus`, which stands for 2^64. `order` is a history
variable that no guard reads: the entries in the order in which they were linked.
It grows only in `Link` and keeps the entries that were deleted; the proofs
state what the list is in terms of it.

**`FifoQueue`** is the abstract specification: a sequence with pushes of several
values and pops of one or of all. `ConcurrentQueue` implements it
(`ImplementsFifo`): `contents` is the list behind `_front`, or, while a consumer
of a whole vector walks `_front` along the list, behind the front it has saved.
A `Link` is a `Push`, a `TakeFront` is a `Pop`, `WalkEnds` is a `PopAll`, and
everything else is a stutter.

### Serialization

**`EncodedIntegers`** are `EncodedUnsigned` and `EncodedSigned`: the start byte,
the significant bytes, both byte orders, the sign. It also defines the device
that everything else works on: a record of the bytes `b`, the byte order `host`
of the machine, the most `lim` that one read(2) returns, and the `room` there is.
`SysRead` and `LibRead` are the system's and the libraries' calls (external).
A value is the tuple of its bytes, so that eight-byte numbers stay within TLC.

**`IOTypes`** is the type language: what the overloads of the I/O classes can
take is a tree of records (`k` the kind, `n` its size or extent, `of` its
parts), and `StreamedLength` of it. The six I/O classes are recursive over it, one operator per family of
overloads, with `ord` for the pairs `Read`/`NRead` and `Write`/`NWrite` that
differ in the byte order only:

| Module | Code | Result of a call |
|---|---|---|
| `DescriptorIO` | `DwmDescriptorIO.hh/.cc`: read(2), write(2), readv, writev | bytes or -1 |
| `StreamIO` | `DwmStreamIO.hh/.cc`: istream, ostream, with a failbit that sticks | good or not |
| `FileIO` | `DwmFileIO.hh/.cc`: fread, fwrite of one item | 1 or 0 |
| `GZIO`, `BZ2IO` | `DwmGZIO.hh/.cc`, `DwmBZ2IO.hh/.cc` | bytes or -1 |
| `ASIO` | `DwmASIO.hh/.cc`: three kinds of sockets | true or false |
| `IOTypes` | `DwmIOUtils.hh`: `StreamedLength` | the length |

**`ValueClasses`** are the classes that read and write themselves, by calls of
their own below the I/O classes: times, intervals, addresses, prefixes, MPLS
labels and stacks, `SizedLength`.

**`ValueExchange`** composes them: one program writes through one class, the
stored bytes may lose their tail, and another program on another machine reads
through any class of the same format. Its exceptions are operators with a name
(`TrustedReader`, `TrustedWriter`, `Unreadable`, `Misordered`, `Refused`); each
is a defect of section 4, and what is not excepted is checked.

### Tables

**`Ipv4Prefix`**, **`Ipv6Prefix`** are masks, comparison, containment, halves,
steps to the next and previous prefix, over addresses of `W` bits.
**`Ipv4Ranges`** is `Ipv4RangePrefixes()`.

**`PatriciaTrie`** is the trie node by node: `addNode`, `removeNode`,
`copyNode`, the searches, and the iterators as the walks along `_children` and
`_parent` that they are. **`Ipv4PrefixPatricia`** and **`Ipv6PrefixPatricia`**
instantiate it with their own `firstDiffBit` and `clear` and have one action per
member; the former adds `Aggregate`. **`Ipv4Routes`** has a hash map per length
and `Coalesce`, **`Ipv6Routes`** a map of hash maps, **`Ipv4PrefixMap`** and
**`Ipv6PrefixMap`** a map with a counter per length, **`AddrMap`** is
`Ipv4AddrMap` and `Ipv6AddrMap`. The maps hold their lock from beginning to end
of an operation, so that each is one action; `Write` and `Read` through files or
sockets are `Read` and `Receive`, of which any part may be missing.

**`PrefixTable`** is the abstract specification of all of them: a partial
function, and what each operation answers. `answer` has the operation and its
arguments too, so that a step of a table can be no other operation's step. Its
`Step` is the next-state relation that every table is shown to refine, with its
own abstraction function (the entries with a value of a trie, the union of the
hash maps, ...).

### Files and services

**`FileRoller`** (`DwmFileRoller.cc`) and **`FileLogger`** (`DwmFileLogger.cc`)
have one action per call of the operating system (`unlink`, `link`, `rename`,
`open`, each block of a compression), which may fail, and after which the
program may crash. A name refers to an inode, so that two names may be links to
one file, which is what a crash between `link` and `unlink` leaves. **`RotatedLog`**
is the abstract specification of both: generations of files, and a roll over as
one step. `Generations` is the refinement mapping: in the middle of a roll over
a name that was not reached yet holds a generation that is one older.

**`DataLog`** (`DwmDataLog.hh`): a writer with stdio's buffer, a reader with its
own, a file system that fills up, a crash of the writer. **`Descriptor`**: the
process's table of descriptors against the objects that own them, with a close(2)
that fails. **`Signal`**: the disposition the system has against the stack of the
object, with a signal at any moment. **`Pacer`** (`DwmPacer.hh/.cc` and the
arithmetic of `DwmTimeValue.cc`): the clock, the three ways of `Pace()`, a sleep
that a signal ends. **`Base64`**: the four
loops, against a reference of bits.

### For TLC

`MCIO`, `MCTables` and `MCServices`
hold several components in one run: a variable `subject` (in `MCIO` the case and
the classes) is chosen at the beginning, the actions of the others are disabled,
and a property is the conjunction of theirs. The other runs configure their
module directly. `ThreadPoolProofs`, `ThreadQueueProofs`, `LoadBalancerProofs`,
`ConcurrentQueueProofs`, `ServicesProofs`, `FilesProofs`, `TrieProofs` and
`TablesProofs` hold the proofs.

Definitions whose comment begins with "Mutant:" change one definition the way a
plausible bug would (of `SetKid` it is `Link`, which the trie also uses where no parent
pointer changes). No specification uses them; each shows that the run of
the property named for it in `PROJECT.json` would find that bug.

## 3. The runs

| Run | Instance | What it shows |
|---|---|---|
| `pool` | 3 workers, 1 adding thread, 3 tasks | `NoIdleWorker`, `StopWakesAll`, `StopDrains`, `NoWorkerOutlivesPool`, `IInv`; `TasksServed` and `StopReturns` under fairness |
| `queue_waits` | 3 threads, one of them with the waits that reset the flag, one with `ConditionSignal()`; maximum length 0 or 2, ranges up to 2, deque up to 3 | `NoMissedPush`, `TimedResultExact`; `WaitsReturn` under fairness: a waiter returns once there is an entry, a timed wait in any case |
| `queue_flag` | 3 threads, two that reset the flag, one with exchanges | `SignalHeard`: while only pushes set the flag it is not lost |
| `queue_lost_signal` | the same, with `ConditionSignal()` in place of the exchanges | **violation** of `SignalHeard` |
| `balancer_safety` | 2 workers, 2 producers, worker `w1` hands in work too, 3 items, `MaxWork` 2, ranges of 2 | `EachItemOnce`, `StopDrains`, `Balanced`, `IInv` |
| `balancer_single` | 2 workers, 1 producer, 3 items, ranges of 1 and 2 | `WithinMaxWork`, `RangeNotRefused`; `AcceptedIsProcessed` and `CallsReturn` under fairness |
| `cqueue_lists` | 2 producers, 2 consumers, one of them also in bulk; 3 items, pushes of 1 and 2, maximum length 1 | `MemorySafe` (no use after free, no double delete, no leak), `LengthExact`, `ImplementsFifo` |
| `cqueue_throttle` | 1 producer, 1 consumer, 4 items, maximum length 1 | `SleepsOnlyWhenFull`; `PushReturns` under fairness |
| `cqueue_bulk_lost` | 1 producer, 1 consumer, a vector of 2 | **violation** of `BulkPopDelivers` |
| `io` | 51 cases of one or two values, six classes on both sides, both byte orders, 0 to 14 bytes of room or no limit, lost tails, reads of one byte at a time | `ReadIsWritten`, `WriteIsStored`, `NothingLost`, `LengthExact` |
| `tables` | one of eight tables at a time, addresses of 3 bits, ten of the fifteen prefixes, up to 3 entries, 2 values; every range but that of all addresses | `LookupsExact`, `Intact`, `AggregationKeepsRoutes`, `ImplementsTable` |
| `services` | one of seven services at a time, see below | `FilesInOrder`, `OnlyOldestLost`, `RollReportsLoss`, `ImplementsRotatedLog`, `GotAsRecorded`, `SystemAgrees`, `RateHeld`, `Base64Exact` |

### Bounds

Tasks and items are handed in once each, so their number bounds a behaviour;
three are enough for a deque with more than one entry while another one is in
the hands of a thread, and three threads for one that acts between two others.
`Bound` limits the explored length of `ThreadQueue`'s deque; it exceeds the
maximum length, so that ranges that overshoot are in the instance. `Modulus` is
8 or 16 in place of 2^64: larger than the number of items (assumed by
`NumbersAssumption`), so that the length can wrap below 0 but never reach a
value that it would not reach with 64 bits in the same number of steps.

`io` uses `W = 8`, the size of the lengths on the wire. Its cases have two
values of each kind, chosen for the branches: empty and not, one byte and all
eight, negative and the least, length 0 and full, the first and another
alternative. The rooms from 0 to 14 end a write before, within and after each
part of most values.

`tables` has addresses of three bits, so that a prefix can have a sibling, a
parent with a sibling and a grandparent: every case of `addNode`, `removeNode`
and `Coalesce` depends on the relation of at most three prefixes. The ten
prefixes include 0/0, both halves, a whole subtree and the last address, from
which `++` wraps. The `VIEW` leaves out `answer`, which no action and no
invariant reads; a step sets it as a function of the rest and of its arguments,
so that every step is still seen by the action properties.

`services`: five records in up to four files that are rolled over when they have
two, one failing call, one crash and one change of the settings in the same
behaviour; a buffer holds two records, and a file can outgrow it. Three entries
in a file system with room for two and a half of them, three crashes or
reopenings. Two objects and three descriptors, one failing close. Two handlers,
a stack of up to three. A second of 16 microseconds, in place of a million, with
rates that divide it, looked at for 36 of them, a least sleep of two, which is
longer than a step of the highest rate, and one interrupted sleep: long
enough for a late return after a sleep that began before the time looked at, for
the time after which lateness is forgiven, and for a whole step after both. Strings
of up to four bytes and some of six, texts of up to four characters and some of
eight, over bytes and digits with all the carries.

`balancer_safety` uses symmetry in the items, which no action tells apart; no
other run does. `cqueue_lists` has 208 409 distinct states. `CHECK_DEADLOCK FALSE` is set
everywhere: all items handed in, all queues empty and the owner done, or a
bound reached, is where these systems stop.

### Fairness

Every thread that is inside a call and can go on does so (weak fairness of its
steps), tasks and `ProcessWork` return, and a mutex or spin lock does not starve
a thread that asks for it again and again (strong fairness of taking it). A
time-out happens (strong fairness, because spurious wake-ups may interrupt it).
No thread has to begin a call, with the exception of `cqueue_throttle`, in which
the consumer keeps calling `PopFront`: `PushBack` waits for it by design. No
spurious wake-up is relied upon. `io`, `tables` and `services` check safety
only: their operations end by themselves.

## 4. What the code does otherwise than it says

With a run:

- `ConditionSignal()` can be missed (`queue_lost_signal`): it stores the flag and
  notifies without the mutex, possibly between a waiter's test and its block.
- `PopFront(vector)` loses the last value it takes (`cqueue_bulk_lost`).

The others are in the models as the code has them; where a property would not
hold because of one of them, it names the exception.

**Threads.** With two timed waiters that reset the flag,
`TimedWaitForNotEmpty()` returns false for a queue that is not empty
(`DwmThreadQueue.hh:326`; add a thread to `SignalWaiters` in `queue_waits`).
A queue filled by `Swap(Queue&)` or `Copy(Queue&)` wakes nobody (412; set
`Exchangers`). Ranges pushed by two producers outgrow a worker's `MaxWork`
(`DwmLoadBalancer.hh:306`; a second producer in `balancer_single`). `AddWork`
accepts items after `Stop()` (282), and `Stop()` waits for ever for a worker
that calls `AddWork` (323). `_length` of `ConcurrentQueue` wraps below zero and
a second producer sleeps before an empty queue (`DwmConcurrentQueue.hh:138, 202`);
the queue gets one deeper than `_maxLength` per producer (196). `Swap(deque&)` on
an empty queue returns the size of the caller's deque, not 0 (403).

**Serialization.**
- `ContainerWrite` of `DescriptorIO`, `GZIO` and `BZ2IO` keeps the count of an
  entry in an unsigned variable: -1 is then a success
  (`DwmDescriptorIO.hh:2911-2922`).
- The variant readers of `GZIO` and `BZ2IO` test the count of the index and not
  that of the value, and take an index that is out of range for a success
  (`DwmGZIO.hh:608`, `DwmBZ2IO.hh:758`); that of `DescriptorIO` accepts a count
  of 0 (1426-1502).
- A scalar that was cut short returns a positive count, which pairs, arrays and
  containers take for a success.
- `StreamIO::Write` of a bounded array writes no extent while `NWrite` and all
  other classes do; `Read` of one of non-integers sets the failbit; the readers
  of `vector<char>` and of number vectors read a length of eight bytes where the
  writers put an encoded one.
- `FileIO` puts strings behind a length of eight bytes (its comment speaks of a
  terminating NUL, `DwmFileIO.hh:247-259`) but `string_view`s behind an encoded
  one, and returns 0 for an empty view. The count `BZ2IO` returns for a
  `string_view` is wrong.
- Reading a `unique_ptr` leaks the object that was read in; reading an empty
  `optional` leaves the old value.
- `IOUtils` counts neither the extent of a bounded array nor the flag of a
  pointer or an optional value.
- `DescriptorIO::Write` of a buffer never ends if write(2) returns 0.
- `ScatterRead` and `GatherWrite` never swap floating point values.
- `Ipv6Prefix` reports a count of 1 when the bytes of the address are short, on
  all devices (`DwmIpv6Prefix.cc:551-721`), and on a `FILE` always fails for /0;
  `Ipv4Address` and `Ipv6Address` return short counts as they are;
  `SizedLength` reads in the wrong order from `GZ` and `BZ2` files (314, 355).

**Tables.**
- `copyNode` leaves `_parent` null: a copy cannot be iterated beyond a leaf, and
  so cannot be written. The models do neither (`Iterable`).
- `Ipv6PrefixPatricia::clear()` leaves `_root` dangling
  (`DwmIpv6PrefixPatricia.hh:270`); the model makes no further call (`Defined`).
  Its const `find_longest` calls itself (424-425). The iterator `erase` returns
  keeps the root of before.
- `Coalesce` with an entry that ends at 255.255.255.255 compares it with an
  entry past the wrap (`DwmIpv4Routes.hh:571-573`). `NewFindLongest` returns the
  shortest match (277-282). `AddressesCovered` leaves out /1 and wraps at 2^32
  (699-721). `HaveWiderMatch` skips a nearer entry with another value.
- `SortByKey` and `SortByValue` compare the iterator of one hash map with the
  end of the first one (636-641, 674-679), which works because libraries have
  the same end iterator for all.
- A failed `Ipv6PrefixMap::Read` leaves entries without a counter, for which
  `Remove` decrements past the end (299-300); the model stops there.
- `Ipv4RangePrefixes` of all addresses does not return (`DwmIpv4Prefix.cc:683`).
  `Ipv6Address::operator ++` of all ones goes out of bounds
  (`DwmIpv6Address.hh:141-166`). `Ipv6Prefix::Set` does not mask.

**Files.**
- `FileRoller::GzipFile` compresses the first 65536 bytes of a file only: an
  inner `bytesRead` hides the one the loop tests (263).
- After a failed `link()` the first file is unlinked all the same (198, 228);
  failures of a compression are ignored.
- In `FileLogger`, a failed `rename()` ends the loop over the older files, and
  `.0` is then overwritten (532-543); the result of a roll over replaces that of
  a failed write (365); a failed `fclose()` leaves `_file` dangling (251). With
  `numRolloverFiles` 0 the log is not truncated, as `DwmFileLogger.hh:61-66` says.

**Services.**
- `DataLog::Rewind()` returns true without rewinding once the stream has failed
  (`DwmDataLog.hh:185-200`), `Record` returns true for what is only buffered, and
  `Close` although the flush has failed; a crash tears an entry, and what is
  appended then is read misaligned. An `Open` after a failed one ends in an
  assertion (253).
- `Descriptor` keeps the number of a descriptor whose close(2) has failed
  (`DwmDescriptor.cc:141`), and closes it again, when it may be another file's.
- `Pacer` sleeps a whole step longer when the clock is set back, less when a
  signal ends usleep(3); a rate above 1 000 000 has an interval of 0.
- `Base64`: a malformed text is accepted by the string decoder and not by the
  stream decoder, or the other way round.
- Two `Signal` objects for one signal override each other's disposition.
- `SysLogger::Open()` tests `_isOpen` before it locks (`DwmSysLogger.cc:147-150`),
  openlog(3) keeps the caller's ident, and the flags are set without a lock.

## 5. The proofs

**`ThreadPoolProofs`**, for every finite set of workers and adders and any set
of tasks (`WorkersAssumption`, `AddersAssumption`, `NoTaskAssumption`).
`Typing` comes first. `StopDrains` and the others are not inductive: that a
`Stop()` that has joined everyone leaves nothing behind needs to know that a
worker exits only with an empty deque, and that nobody but a running task adds
to what `Stop()` has to wait for. The inductive invariant `IInv` is
`TypeOK /\ Phases /\ ExactlyOnce /\ OwedServed`: which phase of `Stop()` allows
which worker states; each task in one place; and a worker that is still there
for every queued task that is owed. Each part has a lemma with one step per
action. From `IInv` follow `StopDrainsTheTasks`, `PoolOutlivesWorkers`,
`TasksNeverRerun` and `TasksInOnePlace`. `StopWakesEveryWorker` and
`NoLostWakeUp` are proved by inductions of their own; the latter counts
threads, with the cardinality theorems of `FiniteSetTheorems`.

**`ThreadQueueProofs`**, for every set of threads. `HeldInductive` is the fact
behind all three theorems: a thread that tests, blocks or returns holds the
mutex, so that at most one does.
`PushIsNeverMissed` assumes that no thread exchanges contents; `FlagIsHeard`
that no thread calls `ConditionSignal()`; `TimedWaitIsExact` that none exchanges
contents and at most one resets the flag. Each assumption is needed: without it
TLC finds a violation.

**`LoadBalancerProofs`**, for every finite set of workers and items, any sets of
producers and feeders and any `MaxWork` (`SetsAssumption`, `NumbersAssumption`).
A few lemmas say what `\o`, `Head` and `Tail` do to the items of a sequence; the
rest works with the set of items that a worker holds. `StopDrains` is not
inductive: that the joined workers are empty needs that a worker leaves only
after its flag was cleared, that the flag is cleared only under the mutex, and
that no queue grows while `Stop()` has it. The inductive invariant `IInv` has
these as parts: `Exclusion` (who has the mutex), `Positions` (the indices into
`_workers`, which also bound the types), `Places` (the one place of each item),
`Leaving` (a worker with its flag, its copy and its queue) and `Joined`. From it
follow `Typing`, `NoItemLostOrRepeated` and `StopDrainsTheQueues`.
`ShortestQueueIsChosen` adds `ScanBound`: no queue grows during a scan, and the
best so far was beaten by none of those compared. With one producer and equal
limits (`OneProducer`) `RoomFound` says that the room a range waits for is there
when it is pushed, which gives `OneProducerWithinMaxWork` and
`OneProducerNotRefused`; with two producers the first one fails,
as TLC finds at once.

**`ConcurrentQueueProofs`**, for every finite set of items, any sets of producers
and consumers, any sizes of pushes, any `MaxLength` and any width of `_length`
that the items fit into (`NamesAssumption`, `NumbersAssumption`). `MemorySafe` is
far from inductive: nothing in it says why an entry that a consumer deletes
without a lock is not on the list, or why two consumers do not hold the same one.
The inductive invariant `IInv` speaks of places in `order`:

- `Locks`: who is at a statement that a spin lock protects holds it, and the
  destructor finds nobody inside;
- `Ordered`: entries are linked once, and each leads to the one linked after it,
  deleted or not; `Fresh` and `Chains` say the same of what a producer has made
  and not linked, and that no two producers have an entry in common; `Backs`:
  `_back` is the last entry except between the two assignments of a push;
- `Walks`: a consumer's pointers are at the places between its old front and the
  front, and what it has taken are the values of the entries it passed;
- `Deletions`: the entries before the front are partitioned into the deleted
  ones and those that one consumer is going to delete (`Held`), which is memory
  safety and the absence of leaks in one;
- `Apart` and `Counts`: `_length` is, in the arithmetic of its width, the number
  of linked entries whose producer has added them, less the number of taken
  entries whose consumer has subtracted them.

Each action has a lemma, with one step per part that it disturbs. The abstract
contents are the recursive function `After`; that it is a suffix of `order`
(`AfterIs`) is proved through the least place where the two would differ, since
induction theorems with an operator parameter are out of reach. From `IInv`
follow `Memory` and `LengthRight` and, with the lemmas on what each action does
to the suffix, `Implementation`: `Link` is `Push`, `TakeFront` is `Pop`,
`WalkEnds` is `PopAll`, and every other step leaves the abstract queue as it is.
`SleepsOnlyFull` assumes one producer, one consumer and no
`PopFront(vector)`; then `_length` is the length of the list and at most one entry
that was taken and not yet subtracted (`LengthIs`), so that a `_length` above
`_maxLength` means a list of at least that many. With a
second producer, a second consumer or a bulk pop, TLC violates it.

**`ServicesProofs`** is about the composition `MCSpec`, for all values of its
constants (`ServicesAssumption` gives them their types). `OwnSteps` says that a
step of the composition is a step of each service or leaves it as it is; each
service then has an inductive invariant of its own.

- `SignalInv`: the disposition is the top of the stack outside of a call, and in
  one what the call is about to push or pop; without it a signal in the middle of
  `PopHandler()` could not be judged. `DescriptorInv`: for each descriptor that
  was never closed in vain, at most one owner, and it is open if and only if it
  has one. `SystemAgreement` needs both, and that the lowest free descriptor
  is free.
- `PacerInv`: `_nextTime` is a proper time, at most a step, the least sleep and the
  interrupted steps ahead of the clock (`Ahead`); a sleeper wakes at it
  (`Asleep`); and every return on time has moved it by an interval since the
  mark (`Moved`), so that the returns are bounded by how far it can have moved.
  `ClockAssumption` says that the 32-bit seconds do not wrap within the time
  looked at, which is until 2106 in the code; the lemmas on `\div` and `%` turn
  the operators of `TimeValue` into plain arithmetic below that. The bound first
  stated left out the lateness of a sleep that ends after the mark, and was
  false for longer seconds than TLC was given; the attempt to prove it showed
  that, and the run now looks at enough time to tell the two apart.
- `LogInv`, while nothing was torn: the file and the writer's buffer together are
  the parts of what was recorded, the buffer belongs at the end of the file
  whatever the mode it was opened with, and the reader has seen a first part of
  the file and taken pairs from it. `LogIsRead` follows with the arithmetic of the
  pairs (`PartsAre`, `PartsGrow`).
- `Base64Inv`: outside of the start, the two results are what the two loops make of
  the text; `Base64IsExact` is then about the functions, for texts of any length over
  bytes and over digits, pads and bad characters (`TextAssumption`). The loops that
  put blocks together become one formula for each character (`FlattenBlocks`,
  `FlattenLast`): `IsText` and `Out` say which digits and bytes a text and its
  decoding have, the lemmas `BitsOf...` that these have the same bits, in each of the
  four digits and three bytes of a group. From that follow that both
  encoders make the same text (`EncodedAlike`), that it is decoded into what it was
  (`OutOfEncoded`), and what the two decoders do with a well-formed text
  (`DecodeStringIs`, `DecodeStreamIs`) and with a bad character
  (`BadIsNotDecoded`). The stream decoder is a recursive function; that there is
  one (`StreamExists`) is shown through the last position at which there would be none.

**`FilesProofs`** continues `ServicesProofs` with the two rotated logs, for any
number of files, records, failed calls, crashes and changes of the settings.
`Ordered` and `Contiguous` compare the ends of files; the inductive invariants
compare all records that the files hold, as sets (`Older`, with lemmas on what
`\o`, `Append` and `SubSeq` do to the numbers in a sequence).

- `LoggerInv`: every file and the buffer are rising, each file is older than the
  ones with smaller names and the buffer is the newest (`LoggerOrder`); what is
  gone is older than what is kept (`LoggerSafe`); and a name that `rename()` is
  about to overwrite is empty unless it is the oldest (`LoggerHoles`), for else a
  roll over would lose records from the middle. `LoggerHoles` holds wherever a
  crash ended a roll over, but not after a failed call.
- `RollerInv` is about a disk on which two names may be one file. `Disk` says that
  a file without a name is empty; `RollerOrder`, that of two names the higher one
  has the older file or the same one, and that a first file with a second name has
  records and is not compressed; `RollerPlace`, at each statement of `RollFiles()`,
  which name is free and that a compressed copy is a first part of the first file.
  Losing only the oldest needs `RollerKept`: while nothing fails, a name that
  `RollFiles()` unlinks has its file at the next name too, whatever was written
  after a kept record is kept, and the doubles that crashes leave behind are covered by
  the names below them. It ends with the first file that the loop of `GzipFile()`
  has cut at one buffer (`cut`).
- `FilesAreInOrder` and `OldestAreLost` follow. `LossIsReported` adds
  `RollerRolled`: what a call that has not failed so far has moved is, at each
  name, what the previous name held when the call began.
- `RotationImplements`: the mapping (`Generation`) reads a file under the name it
  is going to have, from the first step of a roll over on. `RollFiles` and
  `RollClose` are `Roll`, `Write` and `Log` are `Write`, and every other step
  leaves each generation as it is. That needs, for the logger, that nothing is
  buffered once the file was closed and that no generation is empty unless all
  older ones are (`LoggerChain`), because `Rename` skips empty files; for the
  roller, that no file has two names at the start of a call (`RollerGens`).

**`TrieProofs`** is about `PatriciaTrie`, for any prefixes that obey six `Laws`:
`Containment` is an order in which what contains a prefix is a chain (`Chains`), a
prefix has the `Bits` of what contains it, of two prefixes one contains the other or
they part at the bit that `firstDiffBit()` returns (`Partings`), and `Less` puts a
prefix first, then what has a zero next in it, then what has a one (`Sorting`).
Each lemma assumes them; `TablesProofs` proves them of both kinds of prefixes
(`Laws4`, `Laws6`), so that nothing of it rests on them.

- `Good` is the inductive invariant. Its `Shape` says of the whole tree what each
  link must be: the root contains every node, and a child every node on its side.
  From this follow the order of lengths, that each node has one parent
  (`OneParent`, `HasParent`) and that a search goes the right way (`Descend`).
  `Intact` follows (`GoodIsIntact`), but compares a node with its neighbours only,
  from which a proof could not tell where a search ends. The other parts: a parent pointer is
  right or, in a copy, null; a node without a value has two children; the size is
  the number of values.
- `ShapeGrows` and `ShapeShrinks` are the two changes of a tree, a node put into a
  link and a node taken out of one. `InsertIs` and `RemoveIs`: the trie is good
  again, has one value more or less, and the result says which. The recursion
  of the code relinks every node on its way; that this changes nothing but the last
  link is proved from the deepest node at which it would (`LongestOf`, `Above`), and
  upwards for a removal.
- `FixedPoint` is what makes the recursive functions tractable: a step that only
  needs what is lower in some rank has a fixed point, with the step as a function, so
  that no induction theorem with an operator parameter is needed. The ranks are
  the depth, the height and the place in the order of prefixes.
- `AnswersAreExact`: the path to a prefix passes every node that contains it, although
  it compares only the bits at branches. `VisitsAreExact`: the iterators, which walk
  along children and parents, visit the entries in the order of prefixes, each
  once, forwards and backwards. `RereadIs`: a trie that was read from what another
  one wrote has its entries, or the first of them.

**`TablesProofs`** is about the composition `MCTables`, for addresses of up to 254
bits, so that the 255 that a length of eight bits becomes below 0 is none of their
lengths, any set of keys that are
prefixes, any values and any bound on the entries (`WAssumption`,
`KeysAssumption`).

- Addresses: the prover has no rules for powers of two, so `2^n` is counted as
  the number of subsets of `1..n` (`PowerIs`, `PowerDoubles`); from that follow
  the leading bits of an address one by one (`LeadingStep`), that two addresses
  agree in `l` bits if and only if the numbers that these bits make are the same
  (`SameLeading`), and that an address has one prefix of each length (`NewIs`).
  `Contains4` and `Contains6` reduce the two tests of the code, a mask and the
  first bit that differs, to it.
- `Counts`: the counters of a prefix map are, for each length, the number of its
  entries, and no length without an entry has a counter; `OneMore` and `OneLess`
  say what an addition and a removal do to that. It is the inductive invariant of
  `Ipv4PrefixMap` (`Map4Inv`) and, until a `Read()` has failed, of
  `Ipv6PrefixMap`, for which it is an invariant only that every counter has an
  entry (`Map6Inv`). `TablesAreIntact` and `CountersAreKept` state this;
  `LookupsAreExact`, that no lookup misses an entry, needs it, because the maps
  try only the lengths that have a counter.
- Tries: the model's operators have the bounds of their own instance of
  `PatriciaTrie`, so that `Same...4` and `Same...6` carry the results of
  `TrieProofs` over. `Trie4Inv` is `Good`, `Trie6Inv` too as long as `clear()` was
  not called (`Defined`).
- `Aggregate()` of `Ipv4PrefixPatricia`: of each value, `CombineAdjacents` walks along
  the sorted entries and joins two halves until a walk joins none. `Combined` is
  kept by each join: in every prefix of the list each address has a widest entry of
  that value (`Solid`), and each entry is a widest one in exactly one of them
  (`Tops`). A walk that changes the list makes it shorter, so that there is a last one
  (`AgainExists`). Then `DropContained` drops a prefix only if all that it is nested in
  has its value (`Remaining`). For all values together that is `Regrouped`, from which
  follow the routes (`RegroupedKeeps`), what is covered and by how many entries.
- `Coalesce()` of `Ipv4Routes` works through the lengths in place, twice.
  `Aggregates` says what each length may do: the same addresses are covered, none
  by a value that it had not or by more entries, and where at most two were nested
  the longest match has the same value. It is reflexive and transitive. For a length
  that is combined (`CombinedAggregates`): what `++` and `Combine()` make of an entry
  (`PairIs`) is its pair, provided that it does not end with the last address, which
  combining preserves; an address is in the whole if and only if it is in one
  of the halves, and none is lost or counted twice. For a length from which
  entries are dropped, `DroppedAggregates`. `DownExists` shows that the recursive
  functions over the lengths are defined, `DownAggregates` goes down them
  by the greatest length that would violate it.
- `RoutesAreKept` follows, and that both are an `Aggregate` of `PrefixTable`.
  `TablesImplement`: the tries, the maps of prefixes and of addresses and
  both route tables refine `PrefixTable`, each with its own abstraction
  (`Contents`), also over a `Read()` that was cut off. `RoutesAreFound` is the
  exactness of `FindLongest`, `FindAll` and `AddressesCovered` of `Ipv4Routes`. For
  the latter, the entries that no wider one contains have no address in
  common (`Apart`), each has `2^(W - l)` addresses (`BlockSize`), and the sum that
  the loop makes of them, entry by entry and modulo `2^W`, is that of their union
  (`SumIs`, by the smallest set of entries that would violate it).
- `Ipv4RangePrefixes`: the loop that widens a prefix ends, for every range but that of
  all addresses, with one that fits and whose wider one does not (`IsWidest`,
  `WidestIs`). `Closed` is what the outer loop keeps: every block that starts before the
  address at which it is and contains it reaches out of the range (`StaysClosed`); so
  the prefixes are the widest ones also to the left. `Covering` says of the rest
  of the prefixes, from the last one back to the first, that they follow each other
  up to the end of the range (`CoveringFrom`). `LookupsAreExact` contains the
  result, `RangeExact`.

Only model-checked: serialization, the sorted lists of `Ipv4Routes` (`ListsExact`;
the prover cannot see what `SortSeq` does), and all liveness properties, which TLAPS
does not handle (fairness and ENABLED). The six I/O classes are recursive over the
type of a value and use RECURSIVE operators, which tlapm cannot reason about.

## 6. Not modelled

Outside the models, because it is undefined: two owners of one pool
(`DwmThreadPool.hh:120`), a queue exchanged with itself (`DwmThreadQueue.hh:411`),
a push of an empty vector (`DwmConcurrentQueue.hh:214`), the destruction of a
worker that runs (`DwmLoadBalancer.hh:98`), calls on a trie whose root was
deleted. Memory order is sequential consistency, which is what the atomics of
`ConcurrentQueue` use; `_front` and `_back` are each protected by a spin lock.
`Thread::Queue::Empty()` and `MaxLength()` read without the mutex, a data race
that changes no state.

`SysLogger` is a flag and an ident around syslog(3), one call each. Parsing and
printing of addresses, dates and labels, the helpers of `Ipv4Utils`, XDR and FFI
wrappers, process tables, system information, daemon, text, terminal and version
helpers and the tools under `apps` are formatting, parsing by generated scanners,
or single calls of the system without state. `UnitAssert` supports tests. In the
modelled components, members that only ask the system about a descriptor, and
the wording, priority and colour of a log record, are left out. Numbers with a
sign, times and addresses are as wide as in the code on the wire; in the tables
they have three bits, in `Pacer` a small clock. Real threads do not appear in the
prefix maps, since each of their operations holds the lock throughout; what a
caller does between two operations is two steps.

Hazards in code that is not modelled, or that no property is about, beyond those
in `PROJECT.json`: `SysLogger` opened by two threads (`DwmSysLogger.cc:147`); an
`Open()` of `DataLog` after a failed one (`DwmDataLog.hh:253`); the log that is not
truncated without rollover files (`DwmFileLogger.cc:523`); the wrap of `Coalesce`
(`DwmIpv4Routes.hh:571`); counters that a failed `Read` leaves behind
(`DwmIpv6PrefixMap.hh:299`); the depth of a throttled `ConcurrentQueue`
(`DwmConcurrentQueue.hh:196`). Those of `PROJECT.json` that have no property are
faults that the code has, or promises that nothing makes: the properties next to
them except what goes wrong there, and the notes say so.

## 7. Plan

1. Serialization as recursive functions over the depth of a type, to prove
   about it what `io` checks.
2. Parsing and printing of addresses and prefixes, as functions against each
   other.
