------------------------------ MODULE IOTypes ------------------------------
(***************************************************************************)
(* What DescriptorIO, StreamIO, FileIO, GZIO, BZ2IO and ASIO can read and  *)
(* write.  A type is a record: "k" its kind, "n" its size or extent, "of"  *)
(* what it is made of.                                                     *)
(*                                                                         *)
(*   kind                      value                                       *)
(*   char, bool                a byte, a boolean                           *)
(*   int, float, union (n)     n bytes, the most significant first         *)
(*   string, view              a sequence of bytes; view: a string_view    *)
(*   encoded, signed           the bytes of an EncodedUnsigned or -Signed  *)
(*   enum, atomic              a value of the type it is of                *)
(*   pair, tuple, and classes: a sequence with a value for each member     *)
(*     class, fixed, gathered                                              *)
(*   array, bounded (n)        a sequence of n values                      *)
(*   vector, sequence          a sequence: std::vector; deque, list, ...   *)
(*   set, hashset              a set                                       *)
(*   map, hashmap              a set of <<key, value>> with distinct keys  *)
(*   variant                   <<index, value>>; nothing: std::monostate   *)
(*   pointer, optional         <<>> or <<value>>                           *)
(*                                                                         *)
(* "fixed" is a class whose streamed length is a constant, "gathered" one  *)
(* of numbers and arrays of numbers that goes through readv and writev.    *)
(* At the end, IOUtils: how many bytes writing a value takes.              *)
(***************************************************************************)
EXTENDS EncodedIntegers

Kind(k) == [k |-> k]
Uint(n) == [k |-> "int", n |-> n]
Float(n) == [k |-> "float", n |-> n]
Union(n) == [k |-> "union", n |-> n]
Of(k, of) == [k |-> k, of |-> of]
Many(k, of, n) == [k |-> k, of |-> of, n |-> n]

Unlimited == 1000               \* more bytes than any value of the model has

Copies(t, n) == [i \in 1..n |-> t]

\* A number as eight bytes, and back.
IntOf(n) == [i \in 1..8 |-> IF i = 8 THEN n ELSE 0]
NatOf(v) ==
    IF \A i \in 1..7 : v[i] \in {0, Stale}
    THEN (IF v[8] = Stale THEN 0 ELSE v[8]) ELSE MaxLength + 1

\* How a number lies in memory: the order in which NWrite puts it.
Memory(v, host) == IF host = "little" THEN Reverse(v) ELSE v

\* The bytes a call has filled, and what it left of the n there are.
Filled(v, n) == [i \in 1..n |-> IF i <= Len(v) THEN v[i] ELSE Stale]
Byte(v) == IF v = <<>> THEN Stale ELSE v[1]

\* The entries of a container in the order in which it is iterated, and the
\* container from entries inserted one by one.
Entries(t, v) == IF t.k \in {"set", "hashset", "map", "hashmap"} THEN SetToSeq(v) ELSE v
Collected(t, vs) ==
    CASE t.k \in {"set", "hashset"} -> ToSet(vs)
      [] t.k \in {"map", "hashmap"} ->
            {vs[i] : i \in {j \in DOMAIN vs : \A l \in 1..(j - 1) : vs[l][1] # vs[j][1]}}
      [] OTHER -> vs

\* One value after the other while each one's count is above zero; the counts
\* are added up, and a failure is -1.  Get reads a value of a type at a
\* position, Put writes a value of a type to a device.
Added(got, r) ==
    IF r.n > 0 THEN [n |-> got.n + r.n, v |-> Append(got.v, r.v), p |-> r.p]
    ELSE [got EXCEPT !.n = -1, !.p = r.p]
InOrder(Get(_, _), ts, p) ==
    FoldLeft(LAMBDA got, t : IF got.n < 0 THEN got ELSE Added(got, Get(t, got.p)),
             [n |-> 0, v |-> <<>>, p |-> p], ts)
Joined(put, w) == [n |-> IF w.n > 0 THEN put.n + w.n ELSE -1, d |-> w.d]
PutInOrder(Put(_, _, _), ts, vs, d) ==
    FoldLeft(LAMBDA put, i :
                 IF put.n < 0 THEN put ELSE Joined(put, Put(ts[i], vs[i], put.d)),
             [n |-> 0, d |-> d], [i \in 1..Len(ts) |-> i])

\* After a prefix (a length, an index, a flag) r of a value: the count is the
\* sum, unless what follows has failed.
After(r, rest) == [rest EXCEPT !.n = IF @ < 0 THEN -1 ELSE r.n + @]
Failed(r) == [r EXCEPT !.n = -1]

\* The keys and values of a map as one run of values, and as pairs again.
Interleaved(t, n) == [i \in 1..(2 * n) |-> t.of.of[IF i % 2 = 1 THEN 1 ELSE 2]]
Pairs(vs) == [i \in 1..(Len(vs) \div 2) |-> <<vs[2 * i - 1], vs[2 * i]>>]

\* The count of a call that says whether it succeeded, and no more.
AsBool(r) == [r EXCEPT !.n = IF @ >= 0 THEN 1 ELSE 0]

\* sizeof, or the constant streamed length, of a type that has one.
RECURSIVE Size(_)
Size(t) == CASE t.k \in {"char", "bool"} -> 1
             [] t.k \in {"int", "float", "union"} -> t.n
             [] t.k \in {"enum", "atomic"} -> Size(t.of)
             [] t.k \in {"pair", "tuple", "fixed", "gathered", "class"} ->
                    FoldSeq(LAMBDA m, sum : Size(m) + sum, 0, t.of)
             [] t.k = "array" -> t.n * Size(t.of)

-----------------------------------------------------------------------------
(* DwmIOUtils.hh: the number of bytes that writing a value would take,     *)
(* computed from the value alone.                                          *)

RECURSIVE LengthOf(_, _)

\* A sum over types and values taken in pairs.
LengthOfEach(ts, vs) ==
    FoldSeq(LAMBDA i, sum : LengthOf(ts[i], vs[i]) + sum, 0, [i \in 1..Len(ts) |-> i])

EncodedLength(n) == StreamedLength(OfNat(n))

LengthOfScalar(t) == Size(t)
\* Mutant: the start byte of the length is not counted.
LengthOfShortString(s) == 1 + Len(s)
LengthOfString(s) == EncodedLength(Len(s)) + Len(s)
LengthOfEnum(t) == Size(t.of)
LengthOfPair(t, v) == LengthOfEach(t.of, v)
LengthOfArray(t, v) == LengthOfEach(Copies(t.of, t.n), v)
ContainerStreamedLength(t, v) ==
    LET es == Entries(t, v) IN EncodedLength(Len(es)) + LengthOfEach(Copies(t.of, Len(es)), es)
LengthOfTree(t, v) == ContainerStreamedLength(t, v)
LengthOfList(t, v) == ContainerStreamedLength(t, v)
LengthOfHashed(t, v) == ContainerStreamedLength(t, v)
LengthOfTuple(t, v) == LengthOfEach(t.of, v)
LengthOfVariant(t, v) == 8 + LengthOf(t.of[v[1] + 1], v[2])

\* The extent, which is written too, is not counted; nor is the flag of a
\* pointer or an optional value, which must not be empty here.
LengthOfBounded(t, v) == LengthOfEach(Copies(t.of, t.n), v)
LengthOfPointer(t, v) == LengthOf(t.of, v[1])
LengthOfOptional(t, v) == LengthOf(t.of, v[1])
LengthOfAtomic(t, v) == LengthOf(t.of, v)

LengthOf(t, v) ==
    CASE t.k \in {"char", "bool", "int", "float"} -> LengthOfScalar(t)
      [] t.k \in {"string", "view"} -> LengthOfString(v)
      [] t.k = "enum" -> LengthOfEnum(t)
      [] t.k = "pair" -> LengthOfPair(t, v)
      [] t.k = "array" -> LengthOfArray(t, v)
      [] t.k \in {"map", "set"} -> LengthOfTree(t, v)
      [] t.k \in {"vector", "sequence"} -> LengthOfList(t, v)
      [] t.k \in {"hashmap", "hashset"} -> LengthOfHashed(t, v)
      [] t.k = "tuple" -> LengthOfTuple(t, v)
      [] t.k = "nothing" -> 0
      [] t.k = "variant" -> LengthOfVariant(t, v)
      [] t.k = "bounded" -> LengthOfBounded(t, v)
      [] t.k = "pointer" -> LengthOfPointer(t, v)
      [] t.k = "optional" -> LengthOfOptional(t, v)
      [] t.k = "atomic" -> LengthOfAtomic(t, v)
      [] t.k = "encoded" -> StreamedLength(v)
      [] t.k = "signed" -> SignedStreamedLength(v)
      [] t.k = "fixed" -> Size(t)
=============================================================================
