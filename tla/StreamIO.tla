------------------------------ MODULE StreamIO ------------------------------
(***************************************************************************)
(* DwmStreamIO.hh/.cc: values on an istream or ostream.  A stream that has *)
(* failed stays failed, so that all a caller learns is whether it is still *)
(* good: n is 1 or 0.  ord is "net" for Read/Write and "host" for          *)
(* NRead/NWrite.                                                           *)
(***************************************************************************)
EXTENDS IOTypes

RECURSIVE Read(_, _, _, _), Write(_, _, _, _)

\* istream::read and ostream::write of n bytes: all of them, or the stream
\* has failed.
Get(d, p, n) == LET r == LibRead(d, p, n) IN [r EXCEPT !.n = IF @ = n THEN 1 ELSE 0]
Put(d, b) == LET w == SysWrite(d, b) IN [w EXCEPT !.n = IF @ = Len(b) THEN 1 ELSE 0]

GetEach(ord, ts, d, p) == AsBool(InOrder(LAMBDA t, q : Read(ord, t, d, q), ts, p))
PutEach(ord, ts, vs, d) ==
    AsBool(PutInOrder(LAMBDA t, v, e : Write(ord, t, v, e), ts, vs, d))

Count(d, p) == LET r == StreamRead(d, p)
               IN  [n |-> IF r.n > 0 THEN 1 ELSE 0, v |-> ToNat(r.v), p |-> r.p]
PutCount(n, d) == AsBool(StreamWrite(d, OfNat(n)))

\* What follows is read or written only by a stream that is still good.
Then(r, rest) == IF r.n = 0 THEN r ELSE rest

-----------------------------------------------------------------------------
ReadChar(d, p) == LET r == Get(d, p, 1) IN [r EXCEPT !.v = Byte(r.v)]
WriteChar(c, d) == Put(d, <<c>>)
ReadBool(d, p) == LET r == ReadChar(d, p) IN [r EXCEPT !.v = @ \notin {0, Stale}]
WriteBool(b, d) == WriteChar(IF b THEN 1 ELSE 0, d)

InOrderOf(ord, v, d) == IF ord = "net" THEN v ELSE Memory(v, d.host)
ReadInteger(ord, n, d, p) ==
    LET r == Get(d, p, n) IN [r EXCEPT !.v = InOrderOf(ord, Filled(@, n), d)]
WriteInteger(ord, v, d) == Put(d, InOrderOf(ord, v, d))
ReadFloat(ord, n, d, p) == ReadInteger(ord, n, d, p)
WriteFloat(ord, v, d) == WriteInteger(ord, v, d)

ReadString(d, p) == LET len == Count(d, p) IN Then(len, Get(d, len.p, len.v))
WriteString(s, d) == LET len == PutCount(Len(s), d) IN Then(len, Put(len.d, s))

ReadEnum(ord, t, d, p) == Read(ord, t.of, d, p)
WriteEnum(ord, t, v, d) == Write(ord, t.of, v, d)

ReadPair(ord, t, d, p) == GetEach(ord, t.of, d, p)
WritePair(ord, t, v, d) == PutEach(ord, t.of, v, d)
ReadArray(ord, t, d, p) == GetEach(ord, Copies(t.of, t.n), d, p)
WriteArray(ord, t, v, d) == PutEach(ord, Copies(t.of, t.n), v, d)
ReadTuple(ord, t, d, p) == GetEach(ord, t.of, d, p)
WriteTuple(ord, t, v, d) == PutEach(ord, t.of, v, d)
ReadV(ord, ts, d, p) == GetEach(ord, ts, d, p)
WriteV(ord, ts, vs, d) == PutEach(ord, ts, vs, d)

-----------------------------------------------------------------------------
(* Containers.                                                             *)

ReadContainer(ord, t, d, p) ==
    LET n == Count(d, p)
        r == GetEach(ord, Copies(t.of, n.v), d, n.p)
    IN  Then(n, [r EXCEPT !.v = Collected(t, @)])
WriteContainer(ord, t, v, d) ==
    LET es == Entries(t, v)
        n == PutCount(Len(es), d)
    IN  Then(n, PutEach(ord, Copies(t.of, Len(es)), es, n.d))
PairAssocContRead(ord, t, d, p) ==
    LET n == Count(d, p)
        r == GetEach(ord, Interleaved(t, n.v), d, n.p)
    IN  Then(n, [r EXCEPT !.v = Collected(t, Pairs(@))])

\* The readers of two kinds of vectors expect eight bytes with the length,
\* where the writers put an EncodedU64.
Length8(ord, d, p) == LET r == ReadInteger(ord, 8, d, p) IN [r EXCEPT !.v = NatOf(@)]
Block(len, d) == LET r == Get(d, len.p, len.v) IN Then(len, r)
ReadOneByteVector(ord, d, p) == Block(Length8(ord, d, p), d)
WriteOneByteVector(v, d) == WriteString(v, d)

\* All the elements at once.
Elements(ord, t, r, count, d) ==
    Then(r, [r EXCEPT !.v = [i \in 1..count |->
                 InOrderOf(ord, SubSeq(r.v, (i - 1) * t.of.n + 1, i * t.of.n), d)]])
ReadIntegerVector(t, d, p) ==
    LET len == Count(d, p)
    IN  Then(len, Elements("net", t, Get(d, len.p, len.v * t.of.n), len.v, d))
NReadNumberVector(t, d, p) ==
    LET len == Length8("host", d, p)
    IN  Then(len, Elements("host", t, Get(d, len.p, len.v * t.of.n), len.v, d))
NWriteNumberVector(t, v, d) == WriteContainer("host", t, v, d)

ReadBoolVector(ord, t, d, p) == ReadContainer(ord, t, d, p)
WriteBoolVector(ord, t, v, d) == WriteContainer(ord, t, v, d)

ReadVector(ord, t, d, p) ==
    CASE t.of.k = "bool" -> ReadBoolVector(ord, t, d, p)
      [] t.of.k = "char" -> ReadOneByteVector(ord, d, p)
      [] t.of.k = "int" /\ ord = "net" -> ReadIntegerVector(t, d, p)
      [] t.of.k \in {"int", "float"} /\ ord = "host" -> NReadNumberVector(t, d, p)
      [] OTHER -> ReadContainer(ord, t, d, p)
WriteVector(ord, t, v, d) ==
    CASE t.of.k = "bool" -> WriteBoolVector(ord, t, v, d)
      [] t.of.k = "char" -> WriteOneByteVector(v, d)
      [] t.of.k \in {"int", "float"} /\ ord = "host" -> NWriteNumberVector(t, v, d)
      [] OTHER -> WriteContainer(ord, t, v, d)

-----------------------------------------------------------------------------
(* Bounded arrays: with the extent in host order only.                     *)

\* Elements that are no integers: the stream is marked as failed after the
\* first one that was read.
ReadBounded(t, d, p) ==
    CASE t.of.k \in {"char", "int"} -> ReadArray("net", t, d, p)
      [] OTHER -> [Read("net", t.of, d, p) EXCEPT !.n = 0]
WriteBounded(t, v, d) == WriteArray("net", t, v, d)
NReadBounded(t, d, p) ==
    LET n == ReadInteger("host", 8, d, p)
        r == ReadArray("host", t, d, n.p)
    IN  IF n.n = 0 \/ NatOf(n.v) # t.n THEN [n EXCEPT !.n = 0] ELSE r
NWriteBounded(t, v, d) ==
    LET n == WriteInteger("host", IntOf(t.n), d)
    IN  Then(n, WriteArray("host", t, v, n.d))

-----------------------------------------------------------------------------
ReadVariant(ord, t, d, p) ==
    LET i == ReadInteger(ord, 8, d, p)
        r == Read(ord, t.of[NatOf(i.v) + 1], d, i.p)
    IN  IF i.n = 0 \/ NatOf(i.v) >= Len(t.of) THEN [i EXCEPT !.n = 0]
        ELSE [r EXCEPT !.v = <<NatOf(i.v), @>>]
WriteVariant(ord, t, v, d) ==
    LET i == WriteInteger(ord, IntOf(v[1]), d)
    IN  Then(i, Write(ord, t.of[v[1] + 1], v[2], i.d))
Nothing(p) == [n |-> 1, v |-> <<>>, p |-> p]

ReadFlagged(ord, t, d, p, present) ==
    LET b == ReadBool(d, p)
        r == Read(ord, t.of, d, b.p)
    IN  IF b.n = 0 \/ b.v # present THEN [b EXCEPT !.v = <<>>]
        ELSE [r EXCEPT !.v = IF r.n = 0 THEN <<>> ELSE <<@>>]
WriteFlagged(ord, t, v, d, flag) ==
    LET b == WriteBool(flag, d)
    IN  IF v = <<>> THEN b ELSE Then(b, Write(ord, t.of, v[1], b.d))

ReadUniquePtr(ord, t, d, p) == ReadFlagged(ord, t, d, p, FALSE)
WriteUniquePtr(ord, t, v, d) == WriteFlagged(ord, t, v, d, v = <<>>)
ReadOptional(ord, t, d, p) == ReadFlagged(ord, t, d, p, TRUE)
WriteOptional(ord, t, v, d) == WriteFlagged(ord, t, v, d, v # <<>>)
ReadAtomic(ord, t, d, p) == Read(ord, t.of, d, p)
WriteAtomic(ord, t, v, d) == Write(ord, t.of, v, d)
ReadUnion(t, d, p) == ReadInteger("host", t.n, d, p)
WriteUnion(v, d) == WriteInteger("host", v, d)

\* A class: its own members for streams, or else each nonstatic data member.
ReadNonstaticMembers(ord, t, d, p) == GetEach(ord, t.of, d, p)
WriteNonstaticMembers(ord, t, v, d) == PutEach(ord, t.of, v, d)

\* Classes with stream members of their own: encoded numbers.
ReadEncoded(t, d, p) ==
    LET r == IF t.k = "signed" THEN SignedStreamRead(d, p) ELSE StreamRead(d, p)
    IN  AsBool(r)
WriteEncoded(t, v, d) ==
    LET w == IF t.k = "signed" THEN SignedStreamWrite(d, v) ELSE StreamWrite(d, v)
    IN  AsBool(w)

-----------------------------------------------------------------------------
Read(ord, t, d, p) ==
    CASE t.k = "char" -> ReadChar(d, p)
      [] t.k = "bool" -> ReadBool(d, p)
      [] t.k = "int" -> ReadInteger(ord, t.n, d, p)
      [] t.k = "float" -> ReadFloat(ord, t.n, d, p)
      [] t.k \in {"string", "view"} -> ReadString(d, p)
      [] t.k \in {"encoded", "signed"} -> ReadEncoded(t, d, p)
      [] t.k = "enum" -> ReadEnum(ord, t, d, p)
      [] t.k = "pair" -> ReadPair(ord, t, d, p)
      [] t.k = "array" -> ReadArray(ord, t, d, p)
      [] t.k = "tuple" -> ReadTuple(ord, t, d, p)
      [] t.k = "bounded" -> IF ord = "net" THEN ReadBounded(t, d, p) ELSE NReadBounded(t, d, p)
      [] t.k \in {"map", "hashmap"} -> PairAssocContRead(ord, t, d, p)
      [] t.k = "vector" -> ReadVector(ord, t, d, p)
      [] t.k \in {"sequence", "set", "hashset"} -> ReadContainer(ord, t, d, p)
      [] t.k = "nothing" -> Nothing(p)
      [] t.k = "variant" -> ReadVariant(ord, t, d, p)
      [] t.k = "pointer" -> ReadUniquePtr(ord, t, d, p)
      [] t.k = "optional" -> ReadOptional(ord, t, d, p)
      [] t.k = "atomic" -> ReadAtomic(ord, t, d, p)
      [] t.k = "union" -> ReadUnion(t, d, p)
      [] t.k \in {"fixed", "class"} -> ReadNonstaticMembers(ord, t, d, p)

Write(ord, t, v, d) ==
    CASE t.k = "char" -> WriteChar(v, d)
      [] t.k = "bool" -> WriteBool(v, d)
      [] t.k = "int" -> WriteInteger(ord, v, d)
      [] t.k = "float" -> WriteFloat(ord, v, d)
      [] t.k \in {"string", "view"} -> WriteString(v, d)
      [] t.k \in {"encoded", "signed"} -> WriteEncoded(t, v, d)
      [] t.k = "enum" -> WriteEnum(ord, t, v, d)
      [] t.k = "pair" -> WritePair(ord, t, v, d)
      [] t.k = "array" -> WriteArray(ord, t, v, d)
      [] t.k = "tuple" -> WriteTuple(ord, t, v, d)
      [] t.k = "bounded" -> IF ord = "net" THEN WriteBounded(t, v, d) ELSE NWriteBounded(t, v, d)
      [] t.k = "vector" -> WriteVector(ord, t, v, d)
      [] t.k \in {"map", "hashmap", "sequence", "set", "hashset"} -> WriteContainer(ord, t, v, d)
      [] t.k = "nothing" -> [n |-> 1, d |-> d]
      [] t.k = "variant" -> WriteVariant(ord, t, v, d)
      [] t.k = "pointer" -> WriteUniquePtr(ord, t, v, d)
      [] t.k = "optional" -> WriteOptional(ord, t, v, d)
      [] t.k = "atomic" -> WriteAtomic(ord, t, v, d)
      [] t.k = "union" -> WriteUnion(v, d)
      [] t.k \in {"fixed", "class"} -> WriteNonstaticMembers(ord, t, v, d)

\* What other modules call.
ReadValue(ord, t, d, p) == Read(ord, t, d, p)
WriteValue(ord, t, v, d) == Write(ord, t, v, d)
=============================================================================
