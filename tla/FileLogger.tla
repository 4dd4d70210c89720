----------------------------- MODULE FileLogger -----------------------------
(***************************************************************************)
(* DwmFileLogger.hh/.cc: Log() appends a record to a stdio stream and, when*)
(* the file has grown beyond RolloverSize, rolls the files over: closes    *)
(* the stream, renames each file to the next number and opens a new one.   *)
(* One thread holds the mutex from the beginning to the end of a call, so  *)
(* that the steps of a call are those of the operating system: each may    *)
(* fail, and the program may crash after it and be started again.          *)
(*                                                                         *)
(* Names are numbers: 0 is <filePrefix>, k is <filePrefix>.<k-1>.  All     *)
(* records have one size, and each is numbered as it is logged.            *)
(***************************************************************************)
EXTENDS Integers, Sequences, SequencesExt, FiniteSets, FiniteSetsExt

CONSTANTS
    MaxRecords,     \* bounds the records that are logged
    Top,            \* bounds NumRolloverFiles()
    Sizes,          \* the values of RolloverSize(), in records
    Faults,         \* bounds the calls that fail
    Crashes,        \* bounds the crashes
    Changes         \* bounds the calls that change a setting

VARIABLES
    numRolloverFiles,   \* _numRolloverFiles
    rolloverSize,       \* _rolloverSize
    block,              \* _bufferingType is e_blockBuffered
    file,               \* _file: "null", "open" or "dangling"
    buffer,             \* the records stdio has not written yet
    files,              \* the contents of each name; <<>> if there is none
    safe,               \* the records that have reached a file
    pc,                 \* where a call is, and at which name
    rc,                 \* what it will return, or has returned last
    logged,             \* the number of records
    budget              \* how many failures, crashes and changes are left

vars == <<numRolloverFiles, rolloverSize, block, file, buffer, files, safe, pc, rc, logged,
          budget>>

Names == 0..(Top + 1)
Idle == [at |-> "idle", name |-> 0]

Fail == budget.faults > 0 /\ budget' = [budget EXCEPT !.faults = @ - 1]

\* stdio has handed the first n records of its buffer to the file.
Flushed(n) ==
    /\ files' = [files EXCEPT ![0] = @ \o SubSeq(buffer, 1, n)]
    /\ safe' = safe \cup ToSet(SubSeq(buffer, 1, n))
    /\ buffer' = SubSeq(buffer, n + 1, Len(buffer))

Init ==
    /\ numRolloverFiles \in 0..Top
    /\ rolloverSize \in Sizes
    /\ block \in BOOLEAN
    /\ file = "null"
    /\ buffer = <<>>
    /\ files = [n \in Names |-> <<>>]
    /\ safe = {}
    /\ pc = Idle
    /\ rc = TRUE
    /\ logged = 0
    /\ budget = [faults |-> Faults, crashes |-> Crashes, changes |-> Changes]

-----------------------------------------------------------------------------
\* OpenFile(): fopen(filename, "a+").
OpenFile ==
    \/ file' = "open" /\ rc' = TRUE /\ UNCHANGED budget
    \/ file' = "null" /\ rc' = FALSE /\ Fail

\* OpenNoLock() closes first what is open; unknown log options are refused
\* before anything is done.
Open ==
    /\ pc = Idle
    /\ file \in {"null", "open"}
    /\ \/ /\ OpenFile
          /\ Flushed(Len(buffer))
          /\ block' \in BOOLEAN \/ (rc' = FALSE /\ block' = block)
       \/ /\ file = "open"      \* fclose() fails, and what was buffered is lost
          /\ Fail
          /\ file' = "dangling" /\ rc' = FALSE
          /\ buffer' = <<>>
          /\ UNCHANGED <<files, safe, block>>
    /\ UNCHANGED <<numRolloverFiles, rolloverSize, pc, logged>>

\* CloseNoLock(): a stream that fclose() could not close is not forgotten.
\* What it wrote of the buffer is unknown.
CloseNoLock(next, failed) ==
    \/ /\ Flushed(Len(buffer))
       /\ file' = "null" /\ rc' = TRUE
       /\ pc' = next
       /\ UNCHANGED budget
    \/ /\ Fail
       /\ \E n \in 0..Len(buffer) :
            /\ files' = [files EXCEPT ![0] = @ \o SubSeq(buffer, 1, n)]
            /\ safe' = safe \cup ToSet(SubSeq(buffer, 1, n))
       /\ buffer' = <<>>
       /\ file' = "dangling" /\ rc' = FALSE
       /\ pc' = failed

Close ==
    /\ pc = Idle
    /\ file = "open"
    /\ CloseNoLock(Idle, Idle)
    /\ UNCHANGED <<numRolloverFiles, rolloverSize, block, logged>>

Flush ==
    /\ pc = Idle
    /\ file = "open" /\ buffer # <<>>
    /\ \/ Flushed(Len(buffer)) /\ rc' = TRUE /\ UNCHANGED budget
       \/ Fail /\ rc' = FALSE /\ UNCHANGED <<files, safe, buffer>>
    /\ UNCHANGED <<numRolloverFiles, rolloverSize, block, file, pc, logged>>

\* stdio empties its buffer when it is full, a record at a time here.
Spill ==
    /\ buffer # <<>>
    /\ Flushed(1)
    /\ UNCHANGED <<numRolloverFiles, rolloverSize, block, file, pc, rc, logged, budget>>

Position == Len(files[0]) + Len(buffer)

\* fprintf() of a record.  Its write fails, or that of what is buffered, which
\* stays there.
Put ==
    /\ logged' = logged + 1
    /\ \/ /\ IF block THEN buffer' = Append(buffer, logged') /\ UNCHANGED <<files, safe>>
             ELSE /\ files' = [files EXCEPT ![0] = Append(@, logged')]
                  /\ safe' = safe \cup {logged'}
                  /\ UNCHANGED buffer
          /\ rc' = TRUE
          /\ UNCHANGED budget
       \/ (block => buffer # <<>>) /\ Fail /\ rc' = FALSE /\ UNCHANGED <<files, safe, buffer>>

\* VaLog() of a message that is not below the minimum priority.  Nothing is
\* written of one that is, and nothing if the logger is not open.
Log ==
    /\ pc = Idle
    /\ file = "open"
    /\ logged < MaxRecords
    /\ Put
    /\ pc' = IF rolloverSize # 0 /\ Position' > rolloverSize
             THEN [at |-> "close", name |-> 0] ELSE Idle
    /\ UNCHANGED <<numRolloverFiles, rolloverSize, block, file>>

SetRolloverSize(n) ==
    /\ pc = Idle
    /\ budget.changes > 0 /\ n # rolloverSize
    /\ rolloverSize' = n
    /\ budget' = [budget EXCEPT !.changes = @ - 1]
    /\ UNCHANGED <<numRolloverFiles, block, file, buffer, files, safe, pc, rc, logged>>

SetNumRolloverFiles(n) ==
    /\ pc = Idle
    /\ budget.changes > 0 /\ n # numRolloverFiles
    /\ numRolloverFiles' = n
    /\ budget' = [budget EXCEPT !.changes = @ - 1]
    /\ UNCHANGED <<rolloverSize, block, file, buffer, files, safe, pc, rc, logged>>

-----------------------------------------------------------------------------
(* RollFilesOver().                                                        *)

\* Mutant: the oldest file is not renamed over.
RollCloseLate ==
    /\ pc.at = "close"
    /\ CloseNoLock(IF numRolloverFiles <= 1 THEN [at |-> "first", name |-> 0]
                   ELSE [at |-> "rename", name |-> numRolloverFiles - 1], Idle)
    /\ UNCHANGED <<numRolloverFiles, rolloverSize, block, logged>>

\* The oldest first; without rollover files there is none to rename.
RollClose ==
    /\ pc.at = "close"
    /\ CloseNoLock(IF numRolloverFiles = 0 THEN [at |-> "open", name |-> 0]
                   ELSE [at |-> "rename", name |-> numRolloverFiles], Idle)
    /\ UNCHANGED <<numRolloverFiles, rolloverSize, block, logged>>

Renamed(from, to) == files' = [files EXCEPT ![from] = <<>>, ![to] = files[from]]

\* .<i-1> to .<i>, if there is such a file.  A failure ends the loop.
Rename ==
    /\ pc.at = "rename"
    /\ \/ /\ IF files[pc.name] # <<>> THEN Renamed(pc.name, pc.name + 1) ELSE UNCHANGED files
          /\ pc' = IF pc.name = 1 THEN [at |-> "first", name |-> 0] ELSE [pc EXCEPT !.name = @ - 1]
          /\ UNCHANGED <<rc, budget>>
       \/ /\ files[pc.name] # <<>>
          /\ Fail
          /\ rc' = FALSE
          /\ pc' = [at |-> "first", name |-> 0]
          /\ UNCHANGED files
    /\ UNCHANGED <<numRolloverFiles, rolloverSize, block, file, buffer, safe, logged>>

\* The current file to .0, whether the loop was ended by a failure or not.
RenameFirst ==
    /\ pc.at = "first"
    /\ \/ Renamed(0, 1) /\ UNCHANGED <<rc, budget>>
       \/ Fail /\ rc' = FALSE /\ UNCHANGED files
    /\ pc' = IF rc' THEN [at |-> "open", name |-> 0] ELSE Idle
    /\ UNCHANGED <<numRolloverFiles, rolloverSize, block, file, buffer, safe, logged>>

\* After a failure the logger stays closed; else OpenNoLock() of the name,
\* which is a new file unless none was renamed.
Reopen ==
    /\ pc.at = "open"
    /\ OpenFile
    /\ pc' = Idle
    /\ UNCHANGED <<numRolloverFiles, rolloverSize, block, buffer, files, safe, logged>>

\* The program ends between two calls, with what stdio had buffered, and is
\* started again.
Crash ==
    /\ budget.crashes > 0
    /\ budget' = [budget EXCEPT !.crashes = @ - 1]
    /\ file' = "null"
    /\ buffer' = <<>>
    /\ pc' = Idle
    /\ rc' = FALSE
    /\ UNCHANGED <<numRolloverFiles, rolloverSize, block, files, safe, logged>>

Next ==
    \/ Open \/ Close \/ Flush \/ Spill \/ Log
    \/ \E n \in Sizes : SetRolloverSize(n)
    \/ \E n \in 0..Top : SetNumRolloverFiles(n)
    \/ RollClose \/ Rename \/ RenameFirst \/ Reopen
    \/ Crash

Spec == Init /\ [][Next]_vars

-----------------------------------------------------------------------------
(* Properties.                                                             *)

\* No record of a newer file is older than one of an older file: after any
\* failed renames, crashes and changes of the settings.
Ordered ==
    \A n, m \in Names :
        (n < m /\ files[n] # <<>> /\ files[m] # <<>>) => Last(files[m]) < Head(files[n])

\* With no failed call, of the records that have reached a file only the
\* oldest are ever gone, wherever a roll over was interrupted by a crash.
Contiguous ==
    (budget.faults = Faults /\ budget.changes = Changes) =>
        LET kept == UNION {ToSet(files[n]) : n \in Names}
        IN  \A r \in safe \ kept : \A s \in kept : r < s

\* The contents by generation: those that were not reached yet by a roll over
\* are one generation older than their name says.
Generation(g) ==
    CASE pc.at = "rename" -> IF g = 0 THEN <<>> ELSE files[IF g <= pc.name + 1 THEN g - 1 ELSE g]
      [] pc.at = "first" -> IF g = 0 THEN <<>> ELSE files[IF g = 1 THEN 0 ELSE g]
      [] OTHER -> IF g = 0 THEN files[0] \o buffer ELSE files[g]
Generations == [g \in 1..(numRolloverFiles + 2) |-> Generation(g - 1)]
Promise == INSTANCE RotatedLog WITH Record <- 1..MaxRecords, gens <- Generations
Undisturbed == budget = [faults |-> Faults, crashes |-> Crashes, changes |-> Changes]
\* As long as nothing fails and a file is kept, a roll over is one step, and
\* neither it nor stdio's buffer shows in what is logged.
Implements ==
    (Undisturbed /\ Undisturbed') => Promise!Next \/ UNCHANGED Generations
=============================================================================
