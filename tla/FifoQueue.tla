------------------------------ MODULE FifoQueue -----------------------------
(***************************************************************************)
(* What a concurrent queue promises: a sequence, to whose back a push adds *)
(* all of its values at once, and from whose front a pop takes one value,  *)
(* or all that there are.  ConcurrentQueue is shown to implement it.       *)
(***************************************************************************)
EXTENDS Sequences

CONSTANTS Consumers,
          Pushes      \* the sequences of values that one push may add

VARIABLES
  contents,  \* the values in the queue
  taken,     \* what each consumer took with its last pop
  gone       \* the queue was destroyed

vars == <<contents, taken, gone>>

Init == contents = <<>> /\ taken = [c \in Consumers |-> <<>>] /\ gone = FALSE

Push(s) ==
  /\ ~gone
  /\ contents' = contents \o s
  /\ UNCHANGED <<taken, gone>>

Pop(c) ==
  /\ ~gone /\ contents # <<>>
  /\ contents' = Tail(contents)
  /\ taken' = [taken EXCEPT ![c] = <<Head(contents)>>]
  /\ UNCHANGED gone

PopAll(c) ==
  /\ ~gone /\ contents # <<>>
  /\ contents' = <<>>
  /\ taken' = [taken EXCEPT ![c] = contents]
  /\ UNCHANGED gone

Destroy ==
  /\ gone' = TRUE
  /\ contents' = <<>>
  /\ UNCHANGED taken

Next == \/ \E s \in Pushes : Push(s)
        \/ \E c \in Consumers : Pop(c) \/ PopAll(c)
        \/ Destroy

Spec == Init /\ [][Next]_vars
=============================================================================
