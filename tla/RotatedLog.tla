----------------------------- MODULE RotatedLog -----------------------------
(***************************************************************************)
(* What a rotated log promises: a file that is written to and a number of  *)
(* older ones.  Records are appended to the newest file; rolling over      *)
(* makes each file one older, drops what is older than the oldest one      *)
(* kept, and starts with an empty file.                                    *)
(***************************************************************************)
EXTENDS Integers, Sequences

CONSTANT Record

VARIABLE gens           \* the contents of the files, the newest first

Init == gens \in Seq(Seq(Record))

Write(r) ==
    /\ gens # <<>>
    /\ gens' = [gens EXCEPT ![1] = Append(@, r)]

\* The number of files is what it was.
Roll == gens' = SubSeq(<< <<>> >> \o gens, 1, Len(gens))

Next == (\E r \in Record : Write(r)) \/ Roll

Spec == Init /\ [][Next]_gens
=============================================================================
