-------------------------- MODULE ConcurrentQueue ---------------------------
(***************************************************************************)
(* Thread::ConcurrentQueue (classes/include/DwmConcurrentQueue.hh): a      *)
(* linked list with a dummy in front, one spin lock for the producers and  *)
(* one for the consumers, and an atomic length that no lock protects.      *)
(*                                                                         *)
(* Every item is pushed once, in an Entry of its own, so that the item is  *)
(* the name of its Entry too; Dummy is the Entry of the constructor.  An   *)
(* address is not used again after it was deleted.  A vector that is       *)
(* pushed is not empty (PushBack reads t[0] of an empty one).              *)
(***************************************************************************)
EXTENDS Integers, Sequences, FiniteSets

CONSTANTS
  Producers, Consumers,  \* the threads that push and the threads that pop
  Items,                 \* what is pushed
  Dummy,                 \* the Entry the constructor makes
  Null,                  \* nullptr, and no thread
  Blank,                 \* a default-constructed T
  PushSizes,             \* the lengths of the pushes; 1 is PushBack(t) too
  BulkPoppers,           \* the consumers that call PopFront(vector)
  MaxLength,             \* _maxLength
  Modulus                \* 2^64, the width of _length

Entries == Items \cup {Dummy}

ASSUME NamesAssumption ==
  /\ IsFiniteSet(Items) /\ Dummy \notin Items /\ Blank \notin Entries
  /\ Null \notin Entries \cup Producers \cup Consumers
  /\ BulkPoppers \subseteq Consumers
ASSUME NumbersAssumption ==
  /\ PushSizes \subseteq Nat \ {0}
  /\ MaxLength \in Nat /\ Modulus \in Nat
  /\ Cardinality(Items) < Modulus /\ MaxLength < Modulus

VARIABLES
  next,     \* Entry::next
  freed,    \* the entries that were deleted
  front,    \* _front
  back,     \* _back
  popping,  \* who set _poppingLocked
  pushing,  \* who set _pushingLocked
  length,   \* _length
  ppc,      \* where each producer is
  chain,    \* the entries it pushes
  cpc,      \* where each consumer is
  loc,      \* its locals: oldFirst or oldFront, newFront, entry, numEntries, i
  result,   \* the caller's T or vector
  taken,    \* history: what the consumer's last pop took off the list
  made,     \* history: the entries of all pushes
  order,    \* history: the entries in the order in which they were linked
  gone      \* the destructor has run

list     == <<next, freed, front, back>>
producer == <<ppc, chain, made, order>>
consumer == <<cpc, loc, result, taken>>
vars     == <<list, popping, pushing, length, producer, consumer, gone>>

NoLocals == [old |-> Null, new |-> Null, entry |-> Null, num |-> 0, i |-> 0]

Wrap(n) == n % Modulus
Elements(s) == {s[k] : k \in DOMAIN s}

(* The entries that follow e on the list. *)
After(e) ==
  LET hop[k \in 0 .. Cardinality(Entries)] ==
        IF k = 0 THEN e ELSE IF hop[k - 1] = Null THEN Null ELSE next[hop[k - 1]]
      n == Cardinality({k \in DOMAIN hop \ {0} : hop[k] # Null})
  IN [k \in 1 .. n |-> hop[k]]

-----------------------------------------------------------------------------

Init ==
  /\ next = [e \in Entries |-> Null]
  /\ freed = {}
  /\ front = Dummy /\ back = Dummy
  /\ popping = Null /\ pushing = Null
  /\ length = 0
  /\ ppc = [p \in Producers |-> "idle"]
  /\ chain = [p \in Producers |-> <<>>]
  /\ cpc = [c \in Consumers |-> "idle"]
  /\ loc = [c \in Consumers |-> NoLocals]
  /\ result = [c \in Consumers |-> <<>>]
  /\ taken = [c \in Consumers |-> <<>>]
  /\ made = {}
  /\ order = <<Dummy>>
  /\ gone = FALSE

-----------------------------------------------------------------------------
(* PushBack(t) and PushBack(vector).                                       *)

Producing(p, here, there) == ppc[p] = here /\ ppc' = [ppc EXCEPT ![p] = there]

Call(p, s) ==
  /\ Producing(p, "idle", "check") /\ ~gone
  /\ Elements(s) \cap made = {}
  /\ made' = made \cup Elements(s)
  /\ chain' = [chain EXCEPT ![p] = s]
  /\ UNCHANGED <<list, popping, pushing, length, order, consumer, gone>>

(* Mutant: sleeps one entry too early. *)
FullEarly == length >= MaxLength
(* Mutant: sleeps one entry too late. *)
FullLate == length > MaxLength + 1
(* _length > _maxLength *)
Full == length > MaxLength

(* usleep, and look again. *)
Throttle(p) ==
  /\ Producing(p, "check", "asleep")
  /\ Full
  /\ UNCHANGED <<list, popping, pushing, length, chain, made, order, consumer, gone>>

WakeUp(p) ==
  /\ Producing(p, "asleep", "check")
  /\ UNCHANGED <<list, popping, pushing, length, chain, made, order, consumer, gone>>

(* The new entries, each with a link to the one after it. *)
Allocate(p) ==
  /\ Producing(p, "check", "acquire")
  /\ ~Full
  /\ LET s == chain[p]
         Followed == {k \in 1 .. Len(s) - 1 : TRUE}
     IN next' = [e \in Entries |-> IF \E k \in Followed : s[k] = e
                                   THEN s[1 + CHOOSE k \in Followed : s[k] = e]
                                   ELSE next[e]]
  /\ UNCHANGED <<freed, front, back, popping, pushing, length, chain, made, order, consumer, gone>>

(* Mutant: the producers do not spin. *)
AcquirePushAtOnce(p) ==
  /\ Producing(p, "acquire", "link")
  /\ pushing' = p
  /\ UNCHANGED <<list, popping, length, chain, made, order, consumer, gone>>

AcquirePush(p) ==
  /\ Producing(p, "acquire", "link")
  /\ pushing = Null
  /\ pushing' = p
  /\ UNCHANGED <<list, popping, length, chain, made, order, consumer, gone>>

(* _back->next = first entry *)
Link(p) ==
  /\ Producing(p, "link", "back")
  /\ next' = [next EXCEPT ![back] = chain[p][1]]
  /\ order' = order \o chain[p]
  /\ UNCHANGED <<freed, front, back, popping, pushing, length, chain, made, consumer, gone>>

(* Mutant: the first entry of a vector becomes the back. *)
SetBackFirst(p) ==
  /\ Producing(p, "back", "release")
  /\ back' = chain[p][1]
  /\ UNCHANGED <<next, freed, front, popping, pushing, length, chain, made, order, consumer, gone>>

(* _back = last entry *)
SetBack(p) ==
  /\ Producing(p, "back", "release")
  /\ back' = chain[p][Len(chain[p])]
  /\ UNCHANGED <<next, freed, front, popping, pushing, length, chain, made, order, consumer, gone>>

(* Mutant: the lock is not given back. *)
ReleasePushNot(p) ==
  /\ Producing(p, "release", "add")
  /\ UNCHANGED <<list, popping, pushing, length, chain, made, order, consumer, gone>>

ReleasePush(p) ==
  /\ Producing(p, "release", "add")
  /\ pushing' = Null
  /\ UNCHANGED <<list, popping, length, chain, made, order, consumer, gone>>

(* Mutant: a vector counts as one entry. *)
AddOne(p) ==
  /\ Producing(p, "add", "idle")
  /\ length' = Wrap(length + 1)
  /\ chain' = [chain EXCEPT ![p] = <<>>]
  /\ UNCHANGED <<list, popping, pushing, made, order, consumer, gone>>

(* ++_length, or _length += t.size() *)
AddLength(p) ==
  /\ Producing(p, "add", "idle")
  /\ length' = Wrap(length + Len(chain[p]))
  /\ chain' = [chain EXCEPT ![p] = <<>>]
  /\ UNCHANGED <<list, popping, pushing, made, order, consumer, gone>>

-----------------------------------------------------------------------------
(* PopFront(result)                                                        *)

Consuming(c, here, there) == cpc[c] = here /\ cpc' = [cpc EXCEPT ![c] = there]

AcquirePop(c) ==
  /\ Consuming(c, "idle", "take") \/ (c \in BulkPoppers /\ Consuming(c, "idle", "first"))
  /\ ~gone
  /\ popping = Null
  /\ popping' = c
  /\ UNCHANGED <<list, pushing, length, producer, loc, result, taken, gone>>

(* Both PopFront: the list is empty; unlock and return false. *)
FindEmpty(c) ==
  /\ Consuming(c, "take", "idle") \/ Consuming(c, "first", "idle")
  /\ next[front] = Null
  /\ popping' = Null
  /\ UNCHANGED <<list, pushing, length, producer, loc, result, taken, gone>>

(* The value of the entry that _front moves on to is copied out. *)
TakeFront(c) ==
  /\ Consuming(c, "take", "unlock")
  /\ next[front] # Null
  /\ loc' = [loc EXCEPT ![c].old = front]
  /\ front' = next[front]
  /\ result' = [result EXCEPT ![c] = <<next[front]>>]
  /\ taken' = [taken EXCEPT ![c] = <<next[front]>>]
  /\ UNCHANGED <<next, freed, back, popping, pushing, length, producer, gone>>

ReleasePop(c) ==
  /\ Consuming(c, "unlock", "delete")
  /\ popping' = Null
  /\ UNCHANGED <<list, pushing, length, producer, loc, result, taken, gone>>

(* Mutant: deletes the entry whose value was handed out. *)
DeleteTaken(c) ==
  /\ Consuming(c, "delete", "subtract")
  /\ freed' = freed \cup Elements(taken[c])
  /\ loc' = [loc EXCEPT ![c] = NoLocals]
  /\ UNCHANGED <<next, front, back, popping, pushing, length, producer, result, taken, gone>>

(* delete oldFirst *)
DeleteFirst(c) ==
  /\ Consuming(c, "delete", "subtract")
  /\ freed' = freed \cup {loc[c].old}
  /\ loc' = [loc EXCEPT ![c] = NoLocals]
  /\ UNCHANGED <<next, front, back, popping, pushing, length, producer, result, taken, gone>>

(* Mutant: a counter that does not wrap. *)
SubtractUnbounded(c) ==
  /\ Consuming(c, "subtract", "idle")
  /\ length' = length - 1
  /\ UNCHANGED <<list, popping, pushing, producer, loc, result, taken, gone>>

(* Mutant: the length is not decremented. *)
SubtractNothing(c) ==
  /\ Consuming(c, "subtract", "idle")
  /\ UNCHANGED <<list, popping, pushing, length, producer, loc, result, taken, gone>>

(* --_length *)
SubtractOne(c) ==
  /\ Consuming(c, "subtract", "idle")
  /\ length' = Wrap(length - 1)
  /\ UNCHANGED <<list, popping, pushing, producer, loc, result, taken, gone>>

-----------------------------------------------------------------------------
(* PopFront(vector)                                                        *)

SaveFront(c) ==
  /\ Consuming(c, "first", "walk")
  /\ next[front] # Null
  /\ loc' = [loc EXCEPT ![c].old = front]
  /\ UNCHANGED <<list, popping, pushing, length, producer, result, taken, gone>>

Walk(c) ==
  /\ Consuming(c, "walk", "walk")
  /\ next[front] # Null
  /\ front' = next[front]
  /\ loc' = [loc EXCEPT ![c].num = @ + 1]
  /\ UNCHANGED <<next, freed, back, popping, pushing, length, producer, result, taken, gone>>

(* The end of the list: what was passed on the way is this consumer's. *)
WalkEnds(c) ==
  /\ Consuming(c, "walk", "subtractAll")
  /\ next[front] = Null
  /\ taken' = [taken EXCEPT ![c] = After(loc[c].old)]
  /\ UNCHANGED <<list, popping, pushing, length, producer, loc, result, gone>>

(* _length -= numEntries, and newFront *)
SubtractAll(c) ==
  /\ Consuming(c, "subtractAll", "unlockAll")
  /\ length' = Wrap(length - loc[c].num)
  /\ loc' = [loc EXCEPT ![c].new = front]
  /\ UNCHANGED <<list, popping, pushing, producer, result, taken, gone>>

(* The unlock; then resize() keeps what the caller's vector held before,   *)
(* and the loop begins.                                                    *)
ReleaseAll(c) ==
  /\ Consuming(c, "unlockAll", "copy")
  /\ popping' = Null
  /\ result' = [result EXCEPT ![c] =
                  [k \in 1 .. loc[c].num |-> IF k <= Len(result[c]) THEN result[c][k] ELSE Blank]]
  /\ loc' = [loc EXCEPT ![c].i = 1, ![c].entry = next[loc[c].old]]
  /\ UNCHANGED <<list, pushing, length, producer, taken, gone>>

(* Mutant: the loop takes the new front for its own. *)
CopyEntryThrough(c) ==
  /\ Consuming(c, "copy", IF loc[c].entry = loc[c].new THEN "idle" ELSE "copy")
  /\ result' = [result EXCEPT ![c][loc[c].i] = loc[c].entry]
  /\ loc' = [loc EXCEPT ![c].i = @ + 1, ![c].entry = next[loc[c].entry]]
  /\ freed' = freed \cup {loc[c].entry}
  /\ UNCHANGED <<next, front, back, popping, pushing, length, producer, taken, gone>>

(* while (entry != newFront): copy the value, delete the entry. *)
CopyEntry(c) ==
  /\ Consuming(c, "copy", "copy")
  /\ loc[c].entry # loc[c].new
  /\ result' = [result EXCEPT ![c][loc[c].i] = loc[c].entry]
  /\ loc' = [loc EXCEPT ![c].i = @ + 1, ![c].entry = next[loc[c].entry]]
  /\ freed' = freed \cup {loc[c].entry}
  /\ UNCHANGED <<next, front, back, popping, pushing, length, producer, taken, gone>>

(* Mutant: the old front is not deleted. *)
KeepOldFront(c) ==
  /\ Consuming(c, "copy", "idle")
  /\ loc[c].entry = loc[c].new
  /\ loc' = [loc EXCEPT ![c] = NoLocals]
  /\ UNCHANGED <<list, popping, pushing, length, producer, result, taken, gone>>

(* delete oldFront, and return. *)
DeleteOldFront(c) ==
  /\ Consuming(c, "copy", "idle")
  /\ loc[c].entry = loc[c].new
  /\ freed' = freed \cup {loc[c].old}
  /\ loc' = [loc EXCEPT ![c] = NoLocals]
  /\ UNCHANGED <<next, front, back, popping, pushing, length, producer, result, taken, gone>>

-----------------------------------------------------------------------------

Quiet == /\ \A p \in Producers : ppc[p] = "idle"
         /\ \A c \in Consumers : cpc[c] = "idle"

(* The destructor, when no thread uses the queue any more. *)
Destroy ==
  /\ ~gone /\ Quiet
  /\ gone' = TRUE
  /\ freed' = freed \cup {front} \cup Elements(After(front))
  /\ front' = Null
  /\ UNCHANGED <<next, back, popping, pushing, length, producer, consumer>>

Vectors == {s \in UNION {[1..n -> Items] : n \in PushSizes} :
              \A j, k \in DOMAIN s : s[j] = s[k] => j = k}

Produce(p) == \/ \E s \in Vectors : Call(p, s)
              \/ Throttle(p) \/ WakeUp(p) \/ Allocate(p) \/ AcquirePush(p)
              \/ Link(p) \/ SetBack(p) \/ ReleasePush(p) \/ AddLength(p)

GoOn(c) == \/ FindEmpty(c) \/ TakeFront(c) \/ ReleasePop(c) \/ DeleteFirst(c) \/ SubtractOne(c)
           \/ SaveFront(c) \/ Walk(c) \/ WalkEnds(c) \/ SubtractAll(c) \/ ReleaseAll(c)
           \/ CopyEntry(c) \/ DeleteOldFront(c)

Next == \/ \E p \in Producers : Produce(p)
        \/ \E c \in Consumers : AcquirePop(c) \/ GoOn(c)
        \/ Destroy

Spec == Init /\ [][Next]_vars

(* Every thread that has entered the queue goes on; consumers keep calling *)
(* PopFront; the exchange of a spin lock is won some time, and so is the   *)
(* look at a length that is again and again small enough.                  *)
Fairness ==
  /\ \A p \in Producers :
       /\ WF_vars(Throttle(p) \/ WakeUp(p) \/ Link(p) \/ SetBack(p) \/ ReleasePush(p) \/ AddLength(p))
       /\ SF_vars(Allocate(p)) /\ SF_vars(AcquirePush(p))
  /\ \A c \in Consumers : SF_vars(AcquirePop(c)) /\ WF_vars(GoOn(c))

FairSpec == Spec /\ Fairness

-----------------------------------------------------------------------------

TypeOK ==
  /\ next \in [Entries -> Entries \cup {Null}]
  /\ freed \in SUBSET Entries
  /\ front \in Entries \cup {Null} /\ back \in Entries
  /\ popping \in Consumers \cup {Null}
  /\ pushing \in Producers \cup {Null}
  /\ length \in 0 .. Modulus - 1
  /\ ppc \in [Producers -> {"idle", "check", "asleep", "acquire", "link", "back", "release", "add"}]
  /\ chain \in [Producers -> Seq(Items)]
  /\ cpc \in [Consumers -> {"idle", "take", "unlock", "delete", "subtract", "first", "walk",
                            "subtractAll", "unlockAll", "copy"}]
  /\ loc \in [Consumers -> [old : Entries \cup {Null}, new : Entries \cup {Null},
                            entry : Entries \cup {Null}, num : Nat, i : Nat]]
  /\ result \in [Consumers -> Seq(Entries \cup {Blank})]
  /\ taken \in [Consumers -> Seq(Items)]
  /\ made \in SUBSET Items
  /\ order \in Seq(Entries)
  /\ gone \in BOOLEAN

(* The entries that the next step of some thread reads, writes or deletes. *)
Touched ==
  {back : p \in {q \in Producers : ppc[q] = "link"}}
  \cup {front : c \in {d \in Consumers : cpc[d] \in {"take", "first", "walk"}}}
  \cup {loc[c].old : c \in {d \in Consumers : cpc[d] \in {"delete", "unlockAll", "copy"}}}
  \cup {loc[c].entry : c \in {d \in Consumers : cpc[d] = "copy" /\ loc[d].entry # loc[d].new}}

(* No thread uses an Entry that another one has deleted: producers and     *)
(* consumers share no lock, and consumers delete outside of theirs.        *)
NoUseAfterFree == Touched \cap freed = {}

Listed == IF gone THEN {} ELSE {front} \cup Elements(After(front))

(* The entries a consumer has taken for itself and has yet to delete. *)
Doomed(c) ==
  IF cpc[c] \in {"unlock", "delete"} THEN {loc[c].old}
  ELSE IF cpc[c] \in {"subtractAll", "unlockAll"}
    THEN {loc[c].old} \cup {taken[c][k] : k \in 1 .. loc[c].num - 1}
  ELSE IF cpc[c] = "copy" THEN {loc[c].old} \cup {taken[c][k] : k \in loc[c].i .. loc[c].num - 1}
  ELSE {}

(* Every Entry is deleted once: what a consumer will delete, outside of    *)
(* its lock, no other one will delete, and the list does not contain it.   *)
NoDoubleDelete ==
  \A c \in Consumers :
    /\ Doomed(c) \cap (freed \cup Listed) = {}
    /\ \A d \in Consumers \ {c} : Doomed(c) \cap Doomed(d) = {}

(* When no thread is inside the queue, _length is the number of entries:   *)
(* what was added late and what was taken away early has evened out.       *)
LengthExact == Quiet /\ ~gone => length = Len(After(front))

(* Nothing is leaked: after the destructor every Entry ever made is gone.  *)
NoLeak == gone => freed = made \cup {Dummy}

(* Pointers are to entries that exist, and each is deleted exactly once.   *)
MemorySafe == TypeOK /\ NoUseAfterFree /\ NoDoubleDelete /\ NoLeak

(* PopFront(vector) hands out the values it took off the list. *)
BulkPopDelivers ==
  [][\A c \in Consumers : DeleteOldFront(c) => result[c] = taken[c]]_vars

(* A producer sleeps only when the queue is full. *)
SleepsOnlyWhenFull ==
  [][\A p \in Producers : Throttle(p) => Len(After(front)) >= MaxLength]_vars

(* Every PushBack returns while the consumers keep popping. *)
PushReturns == \A p \in Producers : ppc[p] # "idle" ~> ppc[p] = "idle"

(* What the list holds: while a consumer walks it, still all of the list.  *)
Contents ==
  LET walkers == {c \in Consumers : cpc[c] = "walk"}
  IN IF gone THEN <<>>
     ELSE After(IF walkers # {} THEN loc[CHOOSE c \in walkers : TRUE].old ELSE front)

Fifo == INSTANCE FifoQueue WITH Pushes <- Vectors, contents <- Contents

(* The linked list is a queue: each Link adds the values of one push at    *)
(* the back, and each TakeFront or finished walk takes from the front.     *)
ImplementsFifo == Fifo!Spec

=============================================================================
