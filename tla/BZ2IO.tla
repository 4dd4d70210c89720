------------------------------- MODULE BZ2IO -------------------------------
(***************************************************************************)
(* DwmBZ2IO.hh/.cc: values in a file compressed by bzip2, as what          *)
(* BZ2_bzread and BZ2_bzwrite see.  Calls return the number of bytes, or   *)
(* -1.  The code is GZIO's but for floating point values, string views and *)
(* atomics, whose short counts are failures, or wrong, or both.            *)
(***************************************************************************)
EXTENDS IOTypes

RECURSIVE Read(_, _, _), Write(_, _, _)

ReadEach(ts, d, p) == InOrder(LAMBDA t, q : Read(t, d, q), ts, p)
WriteEach(ts, vs, d) == PutInOrder(LAMBDA t, v, e : Write(t, v, e), ts, vs, d)

\* All the bytes asked for, or a failure.
GetAll(d, p, n) == LET r == LibRead(d, p, n) IN [r EXCEPT !.n = IF @ = n THEN @ ELSE -1]
PutAll(d, b) == LET w == SysWrite(d, b) IN [w EXCEPT !.n = IF @ = Len(b) THEN @ ELSE -1]

-----------------------------------------------------------------------------
ReadChar(d, p) == LET r == LibRead(d, p, 1) IN [r EXCEPT !.v = Byte(r.v)]
WriteChar(c, d) == SysWrite(d, <<c>>)
ReadBool(d, p) ==
    LET r == GetAll(d, p, 1) IN [r EXCEPT !.v = Byte(r.v) \notin {0, Stale}]
WriteBool(b, d) == WriteChar(IF b THEN 1 ELSE 0, d)

\* The count of a short read or write of two or four bytes is returned as it
\* is; one of eight bytes is a failure.
ReadInteger(n, d, p) ==
    LET r == LibRead(d, p, n)
    IN  [r EXCEPT !.n = IF n = 8 /\ @ # 8 THEN -1 ELSE @, !.v = Filled(@, n)]
WriteInteger(v, d) ==
    LET w == SysWrite(d, v) IN [w EXCEPT !.n = IF Len(v) = 8 /\ @ # 8 THEN -1 ELSE @]
ReadFloat(n, d, p) == LET r == GetAll(d, p, n) IN [r EXCEPT !.v = Filled(@, n)]
WriteFloat(v, d) == PutAll(d, v)

ReadString(d, p) ==
    LET len == BZRead(d, p)
    IN  IF len.n <= 1 THEN Failed([len EXCEPT !.v = <<>>])
        ELSE After(len, GetAll(d, len.p, ToNat(len.v)))
WriteString(s, d) ==
    LET len == BZWrite(d, OfNat(Len(s)))
    IN  IF len.n <= 1 THEN Failed(len) ELSE After(len, PutAll(len.d, s))
\* The count has the length's bytes twice, and the string's not at all.
WriteStringView(s, d) ==
    LET len == BZWrite(d, OfNat(Len(s)))
        w == WriteString(s, d)
    IN  [w EXCEPT !.n = IF @ > 0 THEN 2 * len.n ELSE @]

ReadEnum(t, d, p) ==
    LET r == Read(t.of, d, p) IN [r EXCEPT !.n = IF @ = Size(t.of) THEN @ ELSE -1]
WriteEnum(t, v, d) == Write(t.of, v, d)

ReadPair(t, d, p) == ReadEach(t.of, d, p)
WritePair(t, v, d) == WriteEach(t.of, v, d)
ReadArray(t, d, p) == ReadEach(Copies(t.of, t.n), d, p)
WriteArray(t, v, d) == WriteEach(Copies(t.of, t.n), v, d)
ReadTuple(t, d, p) == ReadEach(t.of, d, p)
WriteTuple(t, v, d) == WriteEach(t.of, v, d)
ReadV(ts, d, p) == ReadEach(ts, d, p)
WriteV(ts, vs, d) == WriteEach(ts, vs, d)

-----------------------------------------------------------------------------
ContainerRead(t, d, p) ==
    LET n == BZRead(d, p)
        r == ReadEach(Copies(t.of, ToNat(n.v)), d, n.p)
    IN  IF n.n <= 0 THEN Failed([n EXCEPT !.v = Collected(t, <<>>)])
        ELSE After(n, [r EXCEPT !.v = Collected(t, @)])

\* bytesWritten is unsigned: a failed write of the entries is not zero, and
\* adding it takes one from the count.
ContainerWrite(t, v, d) ==
    LET es == Entries(t, v)
        n == BZWrite(d, OfNat(Len(es)))
        w == WriteEach(Copies(t.of, Len(es)), es, n.d)
    IN  IF n.n < 0 THEN n
        ELSE IF es = <<>> THEN n
        ELSE [w EXCEPT !.n = IF @ = 0 THEN -1 ELSE n.n + @]
PairAssocContRead(t, d, p) ==
    LET n == BZRead(d, p)
        r == ReadEach(Interleaved(t, ToNat(n.v)), d, n.p)
    IN  IF n.n <= 0 THEN Failed([n EXCEPT !.v = Collected(t, <<>>)])
        ELSE After(n, [r EXCEPT !.v = Collected(t, Pairs(@))])

ReadMap(t, d, p) == PairAssocContRead(t, d, p)
WriteMap(t, v, d) == ContainerWrite(t, v, d)
ReadSequence(t, d, p) == ContainerRead(t, d, p)
WriteSequence(t, v, d) == ContainerWrite(t, v, d)
ReadHashed(t, d, p) ==
    IF t.k = "hashmap" THEN PairAssocContRead(t, d, p) ELSE ContainerRead(t, d, p)
WriteHashed(t, v, d) == ContainerWrite(t, v, d)

ReadBounded(t, d, p) ==
    LET n == ReadInteger(8, d, p)
    IN  IF n.n # 8 \/ NatOf(n.v) # t.n THEN Failed(n) ELSE After(n, ReadArray(t, d, n.p))
WriteBounded(t, v, d) ==
    LET n == WriteInteger(IntOf(t.n), d)
    IN  IF n.n # 8 THEN n ELSE After(n, WriteArray(t, v, n.d))

-----------------------------------------------------------------------------
ReadNothing(p) == [n |-> 0, v |-> <<>>, p |-> p]
WriteNothing(d) == [n |-> 0, d |-> d]

\* The count of the index, which is not negative, is tested where the one of
\* the alternative was meant, and an index out of range is no failure.
ReadVariant(t, d, p) ==
    LET i == ReadInteger(8, d, p)
        r == Read(t.of[NatOf(i.v) + 1], d, i.p)
    IN  IF i.n <= 0 \/ NatOf(i.v) >= Len(t.of) THEN [i EXCEPT !.v = <<>>]
        ELSE [r EXCEPT !.n = @ + i.n, !.v = <<NatOf(i.v), @>>]
WriteVariant(t, v, d) ==
    LET i == WriteInteger(IntOf(v[1]), d)
    IN  IF i.n <= 0 THEN i ELSE After(i, Write(t.of[v[1] + 1], v[2], i.d))

\* A flag, and the object unless the flag says that there is none.
ReadFlagged(t, d, p, present) ==
    LET b == ReadBool(d, p)
        r == Read(t.of, d, b.p)
    IN  IF b.n <= 0 \/ b.v # present THEN [b EXCEPT !.v = <<>>]
        ELSE IF r.n <= 0 THEN Failed([r EXCEPT !.v = <<>>])
        ELSE After(b, [r EXCEPT !.v = <<@>>])
WriteFlagged(t, v, d, flag) ==
    LET b == WriteBool(flag, d)
        w == Write(t.of, v[1], b.d)
    IN  IF b.n <= 0 THEN Failed(b)
        ELSE IF v = <<>> THEN b
        ELSE IF w.n <= 0 THEN Failed(w) ELSE After(b, w)
ReadUniquePtr(t, d, p) == ReadFlagged(t, d, p, FALSE)
WriteUniquePtr(t, v, d) == WriteFlagged(t, v, d, v = <<>>)

\* A value that is not there leaves the target what it had.
ReadOptional(t, d, p, old) ==
    LET r == ReadFlagged(t, d, p, TRUE)
    IN  IF r.n > 0 /\ r.v = <<>> THEN [r EXCEPT !.v = old] ELSE r
WriteOptional(t, v, d) == WriteFlagged(t, v, d, v # <<>>)

ReadAtomic(t, d, p) ==
    LET r == Read(t.of, d, p) IN [r EXCEPT !.n = IF @ = Size(t.of) THEN @ ELSE -1]
WriteAtomic(t, v, d) ==
    LET w == Write(t.of, v, d) IN [w EXCEPT !.n = IF @ = Size(t.of) THEN @ ELSE -1]

ReadViaIstream(t, d, p) ==
    LET r == GetAll(d, p, Size(t))
        got == ReadEach(t.of, [d EXCEPT !.b = r.v], 0)
    IN  IF r.n < 0 THEN r ELSE [got EXCEPT !.p = r.p]
WriteViaOstream(t, v, d) ==
    PutAll(d, WriteEach(t.of, v, [d EXCEPT !.b = <<>>, !.room = Unlimited]).d.b)

\* Classes with members of their own for this: encoded numbers.
ReadEncoded(t, d, p) == IF t.k = "signed" THEN SignedBZRead(d, p) ELSE BZRead(d, p)
WriteEncoded(t, v, d) == IF t.k = "signed" THEN SignedBZWrite(d, v) ELSE BZWrite(d, v)

-----------------------------------------------------------------------------
Read(t, d, p) ==
    CASE t.k = "char" -> ReadChar(d, p)
      [] t.k = "bool" -> ReadBool(d, p)
      [] t.k = "int" -> ReadInteger(t.n, d, p)
      [] t.k = "float" -> ReadFloat(t.n, d, p)
      [] t.k \in {"string", "view"} -> ReadString(d, p)
      [] t.k \in {"encoded", "signed"} -> ReadEncoded(t, d, p)
      [] t.k = "enum" -> ReadEnum(t, d, p)
      [] t.k = "pair" -> ReadPair(t, d, p)
      [] t.k = "array" -> ReadArray(t, d, p)
      [] t.k = "tuple" -> ReadTuple(t, d, p)
      [] t.k = "bounded" -> ReadBounded(t, d, p)
      [] t.k = "map" -> ReadMap(t, d, p)
      [] t.k \in {"vector", "sequence", "set"} -> ReadSequence(t, d, p)
      [] t.k \in {"hashmap", "hashset"} -> ReadHashed(t, d, p)
      [] t.k = "nothing" -> ReadNothing(p)
      [] t.k = "variant" -> ReadVariant(t, d, p)
      [] t.k = "pointer" -> ReadUniquePtr(t, d, p)
      [] t.k = "optional" -> ReadOptional(t, d, p, <<>>)
      [] t.k = "atomic" -> ReadAtomic(t, d, p)
      [] t.k = "fixed" -> ReadViaIstream(t, d, p)

Write(t, v, d) ==
    CASE t.k = "char" -> WriteChar(v, d)
      [] t.k = "bool" -> WriteBool(v, d)
      [] t.k = "int" -> WriteInteger(v, d)
      [] t.k = "float" -> WriteFloat(v, d)
      [] t.k = "string" -> WriteString(v, d)
      [] t.k = "view" -> WriteStringView(v, d)
      [] t.k \in {"encoded", "signed"} -> WriteEncoded(t, v, d)
      [] t.k = "enum" -> WriteEnum(t, v, d)
      [] t.k = "pair" -> WritePair(t, v, d)
      [] t.k = "array" -> WriteArray(t, v, d)
      [] t.k = "tuple" -> WriteTuple(t, v, d)
      [] t.k = "bounded" -> WriteBounded(t, v, d)
      [] t.k = "map" -> WriteMap(t, v, d)
      [] t.k \in {"vector", "sequence", "set"} -> WriteSequence(t, v, d)
      [] t.k \in {"hashmap", "hashset"} -> WriteHashed(t, v, d)
      [] t.k = "nothing" -> WriteNothing(d)
      [] t.k = "variant" -> WriteVariant(t, v, d)
      [] t.k = "pointer" -> WriteUniquePtr(t, v, d)
      [] t.k = "optional" -> WriteOptional(t, v, d)
      [] t.k = "atomic" -> WriteAtomic(t, v, d)
      [] t.k = "fixed" -> WriteViaOstream(t, v, d)

\* What other modules call.
ReadValue(t, d, p) == Read(t, d, p)
WriteValue(t, v, d) == Write(t, v, d)
=============================================================================
