------------------------------ MODULE DataLog -------------------------------
(***************************************************************************)
(* DwmDataLog.hh: timestamped entries in a file, written through one       *)
(* object, by several threads, and read through another, maybe at the same *)
(* time and in another process.  An entry is two parts, its timestamp and  *)
(* its value: <<number of the entry, 1>> and <<.., 2>>.  Each operation    *)
(* holds the object's _mtx from end to end and so is one step; what the    *)
(* stream below has buffered reaches the file at any time, part by part.   *)
(***************************************************************************)
EXTENDS Integers, Sequences, SequencesExt

CONSTANTS
    MaxEntries,     \* how many entries are recorded,
    Capacity,       \* how many parts the file system has room for,
    Breaks          \* and how often the writer crashes or opens the log anew

VARIABLES
    data,           \* the parts in the file
    stored,         \* the entries recorded in it
    next,           \* the number of the next entry
    writer,         \* [s, app, bad, buffer, at]: _s is there, with ios::app or
                    \* not; its failbit; not in the file yet; where it goes
    reader,         \* [s, bad, seen, pos]: what it has of the file; where it is
    got,            \* the entries read since the last time at the beginning
    breaks,         \* crashes and openings so far
    upset           \* entries were torn, lost or replaced under the reader

dataLogVars == <<data, stored, next, writer, reader, got, breaks, upset>>

NoWriter == [s |-> FALSE, app |-> TRUE, bad |-> FALSE, buffer |-> <<>>, at |-> 0]
NoReader == [s |-> FALSE, bad |-> FALSE, seen |-> <<>>, pos |-> 0]

Init ==
    /\ data = <<>> /\ stored = <<>> /\ got = <<>>
    /\ next = 1 /\ breaks = 0
    /\ writer = NoWriter /\ reader = NoReader
    /\ upset = FALSE

\* Open(ios::out | ios::app), and Open(ios::out), which empties the file.
OpenAppend ==
    /\ ~writer.s /\ breaks < Breaks
    /\ writer' = [NoWriter EXCEPT !.s = TRUE]
    /\ breaks' = breaks + 1
    /\ UNCHANGED <<data, stored, next, reader, got, upset>>
OpenTruncate ==
    /\ ~writer.s /\ breaks < Breaks
    /\ writer' = [NoWriter EXCEPT !.s = TRUE, !.app = FALSE]
    /\ data' = <<>> /\ stored' = <<>>
    /\ upset' = (upset \/ reader.s)
    /\ breaks' = breaks + 1
    /\ UNCHANGED <<next, reader, got>>

\* Where the buffer goes: at the end with ios::app, else where the last ended.
Place == IF writer.app THEN Len(data) ELSE writer.at
Room == Capacity - Place
Fitting == IF Len(writer.buffer) <= Room THEN Len(writer.buffer) ELSE Room

\* A stream that has failed takes nothing more.  What it takes is not in the
\* file yet.
Record ==
    /\ next <= MaxEntries
    /\ next' = next + 1
    /\ IF writer.s /\ ~writer.bad
       THEN /\ writer' = [writer EXCEPT !.buffer = @ \o <<<<next, 1>>, <<next, 2>>>>]
            /\ stored' = Append(stored, next)
       ELSE UNCHANGED <<writer, stored>>
    /\ UNCHANGED <<data, reader, got, breaks, upset>>

\* The buffer goes to the file, as far as there is room; a part that does not
\* go there is lost, and the next call fails.
Written(n) ==
    SubSeq(data, 1, Place) \o SubSeq(writer.buffer, 1, n) \o SubSeq(data, Place + n + 1, Len(data))
Spill ==
    /\ writer.buffer # <<>>
    /\ \E n \in 1..Len(writer.buffer) :
          IF n <= Room
          THEN /\ data' = Written(n)
               /\ writer' = [writer EXCEPT !.buffer = SubSeq(@, n + 1, Len(@)), !.at = Place + n]
               /\ UNCHANGED upset
          ELSE /\ data' = Written(Room)
               /\ writer' = [writer EXCEPT !.buffer = <<>>, !.bad = TRUE]
               /\ upset' = TRUE
    /\ UNCHANGED <<stored, next, reader, got, breaks>>

\* The stream is closed, whether or not all could be written: true.
\* Mutant: what was in the buffer is dropped.
CloseDropping ==
    /\ writer.s
    /\ writer' = NoWriter
    /\ UNCHANGED <<data, stored, next, reader, got, breaks, upset>>
Close ==
    /\ writer.s
    /\ data' = Written(Fitting)
    /\ upset' = (upset \/ Fitting < Len(writer.buffer))
    /\ writer' = NoWriter
    /\ UNCHANGED <<stored, next, reader, got, breaks>>

\* Rewind() of the writer: the buffer is written, and without ios::app what is
\* recorded next replaces the first entries.
RewindWriter ==
    /\ writer.s /\ ~writer.bad
    /\ data' = Written(Fitting)
    /\ writer' = [writer EXCEPT !.buffer = <<>>, !.bad = Fitting < Len(writer.buffer), !.at = 0]
    /\ upset' = (upset \/ Fitting < Len(writer.buffer) \/ (~writer.app /\ data' # <<>>))
    /\ UNCHANGED <<stored, next, reader, got, breaks>>

\* The writer's process dies with what it has buffered.
Crash ==
    /\ writer.s /\ breaks < Breaks
    /\ breaks' = breaks + 1
    /\ upset' = (upset \/ writer.buffer # <<>>)
    /\ writer' = NoWriter
    /\ UNCHANGED <<data, stored, next, reader, got>>

-----------------------------------------------------------------------------
\* Open(ios::in).
OpenRead ==
    /\ ~reader.s
    /\ reader' = [NoReader EXCEPT !.s = TRUE]
    /\ got' = <<>>
    /\ UNCHANGED <<data, stored, next, writer, breaks, upset>>
CloseRead ==
    /\ reader.s
    /\ reader' = NoReader
    /\ got' = <<>>
    /\ UNCHANGED <<data, stored, next, writer, breaks, upset>>

\* The stream's buffer is filled when it is used up, with all there is then.
Refill(r) == IF r.pos < Len(r.seen) THEN r.seen
             ELSE r.seen \o SubSeq(data, Len(r.seen) + 1, Len(data))
ReadPart(r) ==
    LET seen == Refill(r)
    IN  IF r.bad \/ r.pos >= Len(seen) THEN [r EXCEPT !.bad = TRUE]
        ELSE [r EXCEPT !.seen = seen, !.pos = @ + 1]

\* Both parts, or false.
GetNext ==
    /\ reader.s
    /\ LET r == ReadPart(ReadPart(reader))
       IN  /\ reader' = r
           /\ got' = IF r.bad THEN got ELSE Append(got, <<r.seen[r.pos - 1], r.seen[r.pos]>>)
    /\ UNCHANGED <<data, stored, next, writer, breaks, upset>>

\* seekg() does nothing on a stream that has failed, and the answer is true.
Rewind ==
    /\ reader.s
    /\ reader' = IF reader.bad THEN reader ELSE [reader EXCEPT !.seen = <<>>, !.pos = 0]
    /\ got' = IF reader.bad THEN got ELSE <<>>
    /\ UNCHANGED <<data, stored, next, writer, breaks, upset>>

Next ==
    \/ OpenAppend \/ OpenTruncate \/ Record \/ Spill \/ Close \/ RewindWriter \/ Crash
    \/ OpenRead \/ CloseRead \/ GetNext \/ Rewind

Spec == Init /\ [][Next]_dataLogVars

-----------------------------------------------------------------------------
Parts(entries) ==
    [i \in 1..2 * Len(entries) |-> <<entries[(i + 1) \div 2], IF i % 2 = 1 THEN 1 ELSE 2>>]

\* Unless a crash, a full file system or a truncation has come between, the
\* reader gets the entries for which Record() has returned true, whole and in
\* their order, however far the writer's buffer has been written, and all of
\* them are in the file once the log is closed.
GotAsRecorded ==
    ~upset =>
        /\ IsPrefix(got, [i \in 1..Len(stored) |-> <<<<stored[i], 1>>, <<stored[i], 2>>>>])
        /\ IsPrefix(data, Parts(stored))
        /\ ~writer.s => data = Parts(stored)
=============================================================================
