----------------------------- MODULE FileRoller -----------------------------
(***************************************************************************)
(* DwmFileRoller.hh/.cc: an application appends records to the first file, *)
(* and when it has grown to MaxSize closes it and calls RollFiles(), which *)
(* moves each file to the next name by unlink(2) and link(2), compresses   *)
(* the first one if it is asked to, and starts the first one anew.  Each   *)
(* call to the operating system is a step: it may fail, and the program    *)
(* may crash after it and be started again.                                *)
(*                                                                         *)
(* Names are numbers: 0 is <dir>/<prefix>, k is <dir>/<prefix>.<k-1> with  *)
(* the suffix of the compression.  A name refers to a file (an inode), so  *)
(* that two names may be links to one file.  Records are numbered as they  *)
(* are written, and all have one size.                                     *)
(***************************************************************************)
EXTENDS Integers, Sequences, SequencesExt, FiniteSets, FiniteSetsExt

CONSTANTS
    MaxRecords,     \* bounds the records the application writes
    Top,            \* bounds NumFiles()
    MaxSize,        \* _maxSize, in records
    BlockSize,      \* the records one buffer of 65536 bytes holds
    Faults,         \* bounds the calls that fail
    Crashes,        \* bounds the crashes
    Changes         \* bounds the calls of NumFiles(n)

ASSUME RollerAssumption ==
    /\ {MaxRecords, Top, Faults, Crashes, Changes} \subseteq Nat
    /\ {MaxSize, BlockSize} \subseteq Nat \ {0}

VARIABLES
    numFiles,       \* _numFiles
    compression,    \* _compression: "none", "gzip" or "bzip2"
    dir,            \* the file each name refers to, or 0
    data,           \* the records in each file
    pc,             \* where RollFiles() is, and at which name
    rc,             \* what it will return
    before,         \* while it runs: the contents by name when it was called
    written,        \* the number of records written
    cut,            \* GzipFile() has left out a part of a file
    budget          \* how many failures, crashes and changes are left

vars == <<numFiles, compression, dir, data, pc, rc, before, written, cut, budget>>

Names == 0..Top
Inodes == 1..(Top + 2)
Idle == [at |-> "idle", name |-> 0]
Broken == [at |-> "first", name |-> 0]  \* the loop has ended, by itself or early

Exists(n) == dir[n] # 0
Contents(n) == IF Exists(n) THEN data[dir[n]] ELSE <<>>
FreeInode == Min({i \in Inodes : \A n \in Names : dir[n] # i})

\* The operating system takes back the file that has no name any more.
Unlinked(n) ==
    /\ dir' = [dir EXCEPT ![n] = 0]
    /\ data' = IF Exists(n) /\ \A m \in Names \ {n} : dir[m] # dir[n]
               THEN [data EXCEPT ![dir[n]] = <<>>] ELSE data

Fail ==
    /\ budget.faults > 0
    /\ budget' = [budget EXCEPT !.faults = @ - 1]

Init ==
    /\ numFiles \in 0..Top
    /\ compression \in {"none", "gzip", "bzip2"}
    /\ dir = [n \in Names |-> 0]
    /\ data = [i \in Inodes |-> <<>>]
    /\ pc = Idle
    /\ rc = TRUE
    /\ before = <<>>
    /\ written = 0
    /\ cut = FALSE
    /\ budget = [faults |-> Faults, crashes |-> Crashes, changes |-> Changes]

-----------------------------------------------------------------------------
(* The application.                                                        *)

\* It opens the first file for appending, which creates it if need be.
Write ==
    /\ pc = Idle
    /\ written < MaxRecords
    /\ written' = written + 1
    /\ LET i == IF Exists(0) THEN dir[0] ELSE FreeInode
       IN  /\ dir' = [dir EXCEPT ![0] = i]
           /\ data' = [data EXCEPT ![i] = Append(@, written')]
    /\ UNCHANGED <<numFiles, compression, pc, rc, before, cut, budget>>

SetNumFiles(n) ==
    /\ pc = Idle
    /\ budget.changes > 0
    /\ n # numFiles
    /\ numFiles' = n
    /\ budget' = [budget EXCEPT !.changes = @ - 1]
    /\ UNCHANGED <<compression, dir, data, pc, rc, before, written, cut>>

\* MaxSize(maxSize) is covered by writing any number of records before the
\* next call.
FilesNeedRolling == Exists(0) /\ Len(Contents(0)) >= MaxSize

-----------------------------------------------------------------------------
(* RollFiles().                                                            *)

\* The loop begins one name beyond the last, which GetFilename() refuses.
RollFiles ==
    /\ pc = Idle
    /\ FilesNeedRolling
    /\ pc' = IF numFiles = 0 THEN Broken ELSE [at |-> "unlink", name |-> numFiles]
    /\ rc' = TRUE
    /\ before' = [n \in Names |-> IF Exists(n) THEN <<Contents(n)>> ELSE <<>>]
    /\ UNCHANGED <<numFiles, compression, dir, data, written, cut, budget>>

\* After a name is done with, the next lower one; after name 1 the first file.
NextName(n) == IF n = 1 THEN Broken ELSE [at |-> "unlink", name |-> n - 1]

Unlink ==
    /\ pc.at = "unlink"
    /\ \/ /\ Unlinked(pc.name)
          /\ pc' = [pc EXCEPT !.at = IF pc.name = 1 /\ compression # "none" THEN "compress" ELSE "link"]
          /\ UNCHANGED <<rc, budget>>
       \/ /\ Exists(pc.name)
          /\ Fail
          /\ rc' = FALSE
          /\ pc' = Broken
          /\ UNCHANGED <<dir, data>>
    /\ UNCHANGED <<numFiles, compression, before, written, cut>>

\* Mutant: the first file is linked where the previous one was meant.
LinkFirst ==
    /\ pc.at = "link"
    /\ dir' = [dir EXCEPT ![pc.name] = dir[0]]
    /\ pc' = NextName(pc.name)
    /\ UNCHANGED <<numFiles, compression, data, rc, before, written, cut, budget>>

\* Mutant: a failed link() does not change the result.
LinkUnnoticed ==
    /\ pc.at = "link"
    /\ \/ /\ dir' = [dir EXCEPT ![pc.name] = dir[pc.name - 1]]
          /\ pc' = NextName(pc.name)
          /\ UNCHANGED budget
       \/ Exists(pc.name - 1) /\ Fail /\ pc' = Broken /\ UNCHANGED dir
    /\ UNCHANGED <<numFiles, compression, data, rc, before, written, cut>>

\* The name refers to the file that the one before it refers to, too.
Link ==
    /\ pc.at = "link"
    /\ \/ /\ dir' = [dir EXCEPT ![pc.name] = dir[pc.name - 1]]
          /\ pc' = NextName(pc.name)
          /\ UNCHANGED <<rc, budget>>
       \/ /\ Exists(pc.name - 1)
          /\ Fail
          /\ rc' = FALSE
          /\ pc' = Broken
          /\ UNCHANGED dir
    /\ UNCHANGED <<numFiles, compression, data, before, written, cut>>

\* GzipFile() and BzipFile(): without the source, or if the destination
\* cannot be opened, there is none.  Nobody looks at their results.
OpenCompressed ==
    /\ pc.at = "compress"
    /\ \/ /\ Exists(0)
          /\ dir' = [dir EXCEPT ![1] = FreeInode]
          /\ pc' = [pc EXCEPT !.at = "copy"]
          /\ UNCHANGED budget
       \/ /\ ~Exists(0)
          /\ pc' = Broken
          /\ UNCHANGED <<dir, budget>>
       \/ /\ Exists(0)
          /\ Fail
          /\ pc' = Broken
          /\ UNCHANGED dir
    /\ UNCHANGED <<numFiles, compression, data, rc, before, written, cut>>

\* Mutant: BzipFile() has the loop of GzipFile().
CopyOnce ==
    /\ pc.at = "copy"
    /\ LET next == SubSeq(Contents(0), 1, Min({BlockSize, Len(Contents(0))}))
       IN  data' = [data EXCEPT ![dir[1]] = next]
    /\ pc' = Broken
    /\ cut' = (cut \/ (compression = "gzip" /\ Len(Contents(0)) > BlockSize))
    /\ UNCHANGED <<numFiles, compression, dir, rc, before, written, budget>>

\* A buffer is read and compressed.  GzipFile() declares bytesRead a second
\* time inside its loop: the one it tests stays 0, and the loop ends.  What
\* gzwrite() or BZ2_bzwrite() could not write is not noticed.
Copy ==
    /\ pc.at = "copy"
    /\ LET done == Len(Contents(1))
           next == SubSeq(Contents(0), done + 1, Min({done + BlockSize, Len(Contents(0))}))
       IN  \/ /\ data' = [data EXCEPT ![dir[1]] = @ \o next]
              /\ pc' = IF compression = "gzip" \/ next = <<>> THEN Broken ELSE pc
              /\ cut' = (cut \/ (compression = "gzip" /\ Len(Contents(0)) > BlockSize))
              /\ UNCHANGED budget
           \/ /\ next # <<>>
              /\ Fail
              /\ pc' = Broken
              /\ UNCHANGED <<data, cut>>
    /\ UNCHANGED <<numFiles, compression, dir, rc, before, written>>

\* The first file goes whether the loop was ended by a failure or not.
UnlinkFirst ==
    /\ pc.at = "first"
    /\ \/ /\ Unlinked(0)
          /\ pc' = IF Exists(0) THEN [pc EXCEPT !.at = "create"] ELSE Idle
          /\ UNCHANGED <<rc, budget>>
       \/ /\ Exists(0)
          /\ Fail
          /\ rc' = FALSE
          /\ pc' = Idle
          /\ UNCHANGED <<dir, data>>
    /\ before' = IF pc' = Idle THEN <<>> ELSE before
    /\ UNCHANGED <<numFiles, compression, written, cut>>

\* Failing to create it changes nothing of the result.
Create ==
    /\ pc.at = "create"
    /\ \/ dir' = [dir EXCEPT ![0] = FreeInode] /\ UNCHANGED budget
       \/ Fail /\ UNCHANGED dir
    /\ pc' = Idle
    /\ before' = <<>>
    /\ UNCHANGED <<numFiles, compression, data, rc, written, cut>>

\* The program ends between two calls and is started again.
Crash ==
    /\ budget.crashes > 0
    /\ pc # Idle
    /\ budget' = [budget EXCEPT !.crashes = @ - 1]
    /\ pc' = Idle
    /\ rc' = FALSE
    /\ before' = <<>>
    /\ UNCHANGED <<numFiles, compression, dir, data, written, cut>>

Next ==
    \/ Write
    \/ \E n \in 0..Top : SetNumFiles(n)
    \/ RollFiles \/ Unlink \/ Link \/ OpenCompressed \/ Copy \/ UnlinkFirst \/ Create
    \/ Crash

Spec == Init /\ [][Next]_vars

-----------------------------------------------------------------------------
(* Properties.                                                             *)

Recorded(n) == ToSet(Contents(n))

\* From the highest name to the lowest the files are in the order in which
\* they were begun, and, where nothing is compressed (which a crash may leave
\* half done), ended: after any failures, crashes and changes of NumFiles.
Ordered ==
    \A n, m \in Names :
        (n < m /\ Contents(n) # <<>> /\ Contents(m) # <<>>) =>
            /\ Head(Contents(m)) <= Head(Contents(n))
            /\ compression = "none" => Last(Contents(m)) <= Last(Contents(n))

\* With no failed call, and no file longer than what GzipFile() compresses,
\* only the oldest records are ever gone: after a crash at any point of
\* RollFiles() too, there is no record missing between two that are there.
Contiguous ==
    (~cut /\ budget.faults = Faults /\ budget.changes = Changes) =>
        \E lo \in 1..(written + 1) : UNION {Recorded(n) : n \in Names} = lo..written

\* Without compression RollFiles() returns true only if each file has become
\* the next older one and all but the oldest are still there, whichever calls
\* have failed on the way.
TrueIsRolled ==
    (pc # Idle /\ pc' = Idle /\ rc' /\ compression = "none") =>
        \A n \in 1..numFiles :
            LET prev == before[n - 1]
            IN  (dir'[n] # 0) = (prev # <<>>) /\ (prev # <<>> => data'[dir'[n]] = prev[1])

\* The contents by generation: while the files are moved, a name that was not
\* reached yet holds the generation one older.
Generation(g) ==
    IF pc = Idle THEN Contents(g)
    ELSE IF g = 0 THEN <<>>
    ELSE CASE pc.at \in {"unlink", "link", "compress", "copy"} ->
                  Contents(IF g <= pc.name THEN g - 1 ELSE g)
           [] OTHER -> Contents(g)
Generations == [g \in 1..(numFiles + 1) |-> Generation(g - 1)]
Promise == INSTANCE RotatedLog WITH Record <- 1..MaxRecords, gens <- Generations
Undisturbed ==
    ~cut /\ budget = [faults |-> Faults, crashes |-> Crashes, changes |-> Changes]
\* As long as nothing fails and GzipFile() compresses all of a file, RollFiles()
\* rolls the files over as one step.
Implements ==
    (Undisturbed /\ Undisturbed') => Promise!Next \/ UNCHANGED Generations
=============================================================================
