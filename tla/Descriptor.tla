----------------------------- MODULE Descriptor -----------------------------
(***************************************************************************)
(* DwmDescriptor.hh/.cc: objects that own a file descriptor each.  The     *)
(* process has a table of Fds descriptors, from which open and dup take    *)
(* the lowest that is free; what is open and owned by no object is in the  *)
(* program's own hands.  close(2) may fail, with or without freeing the    *)
(* descriptor (Linux does).                                                *)
(***************************************************************************)
EXTENDS Integers, FiniteSets, FiniteSetsExt

CONSTANTS
    Fds,            \* descriptors 0 .. Fds - 1
    Objects,
    Failures        \* how many calls of close(2) fail

VARIABLES
    open,           \* the descriptors that are open
    held,           \* those that the program itself has to close
    fd,             \* _fd of each object, or Gone
    failed          \* the descriptors whose close() has failed

descriptorVars == <<open, held, fd, failed>>

None == -1
Gone == -2
Free == (0..(Fds - 1)) \ open
Lowest == IF Free = {} THEN None ELSE Min(Free)
Taken(d) == IF d = None THEN {} ELSE {d}

Init ==
    /\ open = {} /\ held = {} /\ failed = {}
    /\ fd = [o \in Objects |-> Gone]

\* The program opens and closes descriptors of its own.
OpenOwn ==
    /\ Free # {}
    /\ open' = open \cup {Lowest}
    /\ held' = held \cup {Lowest}
    /\ UNCHANGED <<fd, failed>>
CloseOwn ==
    /\ \E d \in held :
          /\ open' = open \ {d}
          /\ held' = held \ {d}
    /\ UNCHANGED <<fd, failed>>

\* Close() of object o: what stays open, what has failed, and _fd.  The number
\* is kept, as after any failure, if it is not open any more (EBADF).
Closings(o) ==
    IF fd[o] \notin open THEN {[open |-> open, failed |-> failed, fd |-> fd[o]]}
    ELSE {[open |-> open \ {fd[o]}, failed |-> failed, fd |-> None]}
         \cup (IF Cardinality(failed) < Failures
               THEN {[open |-> left, failed |-> failed \cup {fd[o]}, fd |-> fd[o]] :
                         left \in {open, open \ {fd[o]}}}
               ELSE {})

Construct(o) ==
    /\ fd[o] = Gone
    /\ \E d \in held \cup {None} :
          /\ fd' = [fd EXCEPT ![o] = d]
          /\ held' = held \ {d}
    /\ UNCHANGED <<open, failed>>

\* dup() of what another object has: a descriptor of its own, or none.  A
\* descriptor that is no longer open cannot be duplicated.
Dup(source, avail) ==
    IF source \in (0..(Fds - 1)) \ avail /\ avail # {} THEN Min(avail) ELSE None
Copy(o, p) ==
    /\ fd[o] = Gone /\ fd[p] # Gone
    /\ LET d == Dup(fd[p], Free)
       IN  /\ fd' = [fd EXCEPT ![o] = d]
           /\ open' = open \cup Taken(d)
    /\ UNCHANGED <<held, failed>>

\* Mutant: the descriptor that the object had is not closed first.
AssignOver(o, p) ==
    /\ o # p /\ fd[o] # Gone /\ fd[p] # Gone
    /\ LET d == Dup(fd[p], Free)
       IN  IF fd[p] >= 0
           THEN fd' = [fd EXCEPT ![o] = d] /\ open' = open \cup Taken(d)
           ELSE UNCHANGED <<fd, open>>
    /\ UNCHANGED <<held, failed>>
Assign(o, p) ==
    /\ o # p /\ fd[o] # Gone /\ fd[p] # Gone
    /\ \E c \in Closings(o) :
          LET d == Dup(fd[p], (0..(Fds - 1)) \ c.open)
          IN  /\ failed' = c.failed
              /\ IF fd[p] >= 0
                 THEN fd' = [fd EXCEPT ![o] = d] /\ open' = c.open \cup Taken(d)
                 ELSE fd' = [fd EXCEPT ![o] = c.fd] /\ open' = c.open
    /\ UNCHANGED held

\* The program hands over a descriptor, or an invalid one.
Attach(o) ==
    /\ fd[o] # Gone
    /\ \E c \in Closings(o), d \in held \cup {None} :
          /\ open' = c.open
          /\ failed' = c.failed
          /\ fd' = [fd EXCEPT ![o] = IF d >= 0 THEN d ELSE c.fd]
          /\ held' = held \ {d}
Detach(o) ==
    /\ fd[o] >= 0
    /\ fd' = [fd EXCEPT ![o] = None]
    /\ held' = held \cup {fd[o]}
    /\ UNCHANGED <<open, failed>>
Close(o) ==
    /\ fd[o] >= 0
    /\ \E c \in Closings(o) :
          /\ open' = c.open
          /\ failed' = c.failed
          /\ fd' = [fd EXCEPT ![o] = c.fd]
    /\ UNCHANGED held
Destroy(o) ==
    /\ fd[o] # Gone
    /\ \E c \in Closings(o) :
          /\ open' = c.open
          /\ failed' = c.failed
    /\ fd' = [fd EXCEPT ![o] = Gone]
    /\ UNCHANGED held

Next ==
    \/ OpenOwn \/ CloseOwn
    \/ \E o \in Objects : Construct(o) \/ Attach(o) \/ Detach(o) \/ Close(o) \/ Destroy(o)
    \/ \E o, p \in Objects : Copy(o, p) \/ Assign(o, p)

Spec == Init /\ [][Next]_descriptorVars

-----------------------------------------------------------------------------
\* A descriptor is open exactly as long as it has an owner, and never has two,
\* unless a close() of that descriptor has failed: its object keeps it then,
\* though its number may be another file's by now, and destroying or assigning
\* to the object closes it again, or forgets it.
Owners(d) == {o \in Objects : fd[o] = d}
OwnedOnce ==
    \A d \in (0..(Fds - 1)) \ failed :
        Cardinality(Owners(d)) + (IF d \in held THEN 1 ELSE 0) = (IF d \in open THEN 1 ELSE 0)
=============================================================================
