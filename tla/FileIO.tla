------------------------------- MODULE FileIO -------------------------------
(***************************************************************************)
(* DwmFileIO.hh/.cc: values on a stdio stream.  fread and fwrite are asked *)
(* for one item at a time, so that all calls answer yes or no: n is 1 or 0 *)
(* (the code returns the size of an integer rather than 1).                *)
(***************************************************************************)
EXTENDS IOTypes

RECURSIVE Read(_, _, _), Write(_, _, _)

\* fread or fwrite of one item of n bytes; an item without bytes is none.
Fread(d, p, n) ==
    LET r == LibRead(d, p, n) IN [r EXCEPT !.n = IF n > 0 /\ @ = n THEN 1 ELSE 0]
Fwrite(d, b) ==
    LET w == SysWrite(d, b) IN [w EXCEPT !.n = IF b # <<>> /\ @ = Len(b) THEN 1 ELSE 0]

ReadEach(ts, d, p) == AsBool(InOrder(LAMBDA t, q : Read(t, d, q), ts, p))
WriteEach(ts, vs, d) == AsBool(PutInOrder(LAMBDA t, v, e : Write(t, v, e), ts, vs, d))
Then(r, rest) == IF r.n = 0 THEN r ELSE rest

-----------------------------------------------------------------------------
ReadChar(d, p) == LET r == Fread(d, p, 1) IN [r EXCEPT !.v = Byte(r.v)]
WriteChar(c, d) == Fwrite(d, <<c>>)
ReadBool(d, p) == LET r == ReadChar(d, p) IN [r EXCEPT !.v = @ \notin {0, Stale}]
WriteBool(b, d) == WriteChar(IF b THEN 1 ELSE 0, d)
ReadInteger(n, d, p) == LET r == Fread(d, p, n) IN [r EXCEPT !.v = Filled(@, n)]
WriteInteger(v, d) == Fwrite(d, v)
ReadFloat(n, d, p) == LET r == Fread(d, p, n) IN [r EXCEPT !.v = Filled(@, n)]
WriteFloat(v, d) == Fwrite(d, v)

\* A string has its length in eight bytes, where the other classes (and the
\* writer of a string_view) put an EncodedU64.
ReadString(d, p) ==
    LET len == ReadInteger(8, d, p)
    IN  IF len.n = 0 \/ NatOf(len.v) = 0 THEN [len EXCEPT !.v = <<>>]
        ELSE Fread(d, len.p, NatOf(len.v))
WriteString(s, d) ==
    LET len == WriteInteger(IntOf(Len(s)), d)
    IN  IF s = <<>> THEN len ELSE Then(len, Fwrite(len.d, s))
WriteStringView(s, d) == LET len == FileWrite(d, OfNat(Len(s))) IN Then(len, Fwrite(len.d, s))

ReadEnum(t, d, p) == Read(t.of, d, p)
WriteEnum(t, v, d) == Write(t.of, v, d)

ReadPair(t, d, p) == ReadEach(t.of, d, p)
WritePair(t, v, d) == WriteEach(t.of, v, d)
ReadArray(t, d, p) == ReadEach(Copies(t.of, t.n), d, p)
WriteArray(t, v, d) == WriteEach(Copies(t.of, t.n), v, d)
ReadTuple(t, d, p) == ReadEach(t.of, d, p)
WriteTuple(t, v, d) == WriteEach(t.of, v, d)
ReadV(ts, d, p) == ReadEach(ts, d, p)
WriteV(ts, vs, d) == WriteEach(ts, vs, d)

ReadContainer(t, d, p) ==
    LET n == FileRead(d, p)
        r == ReadEach(Copies(t.of, ToNat(n.v)), d, n.p)
    IN  Then(n, [r EXCEPT !.v = Collected(t, @)])
WriteContainer(t, v, d) ==
    LET es == Entries(t, v)
        n == FileWrite(d, OfNat(Len(es)))
    IN  Then(n, WriteEach(Copies(t.of, Len(es)), es, n.d))
PairAssocContRead(t, d, p) ==
    LET n == FileRead(d, p)
        r == ReadEach(Interleaved(t, ToNat(n.v)), d, n.p)
    IN  Then(n, [r EXCEPT !.v = Collected(t, Pairs(@))])

ReadBounded(t, d, p) ==
    LET n == ReadInteger(8, d, p)
    IN  IF n.n = 0 \/ NatOf(n.v) # t.n THEN [n EXCEPT !.n = 0] ELSE ReadArray(t, d, n.p)
WriteBounded(t, v, d) ==
    LET n == WriteInteger(IntOf(t.n), d) IN Then(n, WriteArray(t, v, n.d))

ReadVariant(t, d, p) ==
    LET i == ReadInteger(8, d, p)
        r == Read(t.of[NatOf(i.v) + 1], d, i.p)
    IN  IF i.n = 0 \/ NatOf(i.v) >= Len(t.of) THEN [i EXCEPT !.n = 0]
        ELSE [r EXCEPT !.v = <<NatOf(i.v), @>>]
WriteVariant(t, v, d) ==
    LET i == WriteInteger(IntOf(v[1]), d) IN Then(i, Write(t.of[v[1] + 1], v[2], i.d))
ReadNothing(p) == [n |-> 1, v |-> <<>>, p |-> p]
WriteNothing(d) == [n |-> 1, d |-> d]

ReadFlagged(t, d, p, present) ==
    LET b == ReadBool(d, p)
        r == Read(t.of, d, b.p)
    IN  IF b.n = 0 \/ b.v # present THEN [b EXCEPT !.v = <<>>]
        ELSE [r EXCEPT !.v = IF r.n = 0 THEN <<>> ELSE <<@>>]
WriteFlagged(t, v, d, flag) ==
    LET b == WriteBool(flag, d) IN IF v = <<>> THEN b ELSE Then(b, Write(t.of, v[1], b.d))
ReadUniquePtr(t, d, p) == ReadFlagged(t, d, p, FALSE)
WriteUniquePtr(t, v, d) == WriteFlagged(t, v, d, v = <<>>)
ReadOptional(t, d, p) == ReadFlagged(t, d, p, TRUE)
WriteOptional(t, v, d) == WriteFlagged(t, v, d, v # <<>>)
ReadAtomic(t, d, p) == Read(t.of, d, p)
WriteAtomic(t, v, d) == Write(t.of, v, d)

\* A class of constant streamed length goes through a string stream and one
\* item; any other one member by member.
ReadViaIstream(t, d, p) ==
    LET r == Fread(d, p, Size(t))
        got == ReadEach(t.of, [d EXCEPT !.b = r.v], 0)
    IN  Then(r, [got EXCEPT !.p = r.p])
WriteViaOstream(t, v, d) ==
    Fwrite(d, WriteEach(t.of, v, [d EXCEPT !.b = <<>>, !.room = Unlimited]).d.b)
ReadClass(t, d, p) == ReadEach(t.of, d, p)
WriteClass(t, v, d) == WriteEach(t.of, v, d)

\* Classes with members of their own for this: encoded numbers.
ReadEncoded(t, d, p) == IF t.k = "signed" THEN SignedFileRead(d, p) ELSE FileRead(d, p)
WriteEncoded(t, v, d) == IF t.k = "signed" THEN SignedFileWrite(d, v) ELSE FileWrite(d, v)

-----------------------------------------------------------------------------
Read(t, d, p) ==
    CASE t.k = "char" -> ReadChar(d, p)
      [] t.k = "bool" -> ReadBool(d, p)
      [] t.k = "int" -> ReadInteger(t.n, d, p)
      [] t.k = "float" -> ReadFloat(t.n, d, p)
      [] t.k \in {"string", "view"} -> ReadString(d, p)
      [] t.k \in {"encoded", "signed"} -> ReadEncoded(t, d, p)
      [] t.k = "enum" -> ReadEnum(t, d, p)
      [] t.k = "pair" -> ReadPair(t, d, p)
      [] t.k = "array" -> ReadArray(t, d, p)
      [] t.k = "tuple" -> ReadTuple(t, d, p)
      [] t.k = "bounded" -> ReadBounded(t, d, p)
      [] t.k \in {"map", "hashmap"} -> PairAssocContRead(t, d, p)
      [] t.k \in {"vector", "sequence", "set", "hashset"} -> ReadContainer(t, d, p)
      [] t.k = "nothing" -> ReadNothing(p)
      [] t.k = "variant" -> ReadVariant(t, d, p)
      [] t.k = "pointer" -> ReadUniquePtr(t, d, p)
      [] t.k = "optional" -> ReadOptional(t, d, p)
      [] t.k = "atomic" -> ReadAtomic(t, d, p)
      [] t.k = "fixed" -> ReadViaIstream(t, d, p)
      [] t.k = "class" -> ReadClass(t, d, p)

Write(t, v, d) ==
    CASE t.k = "char" -> WriteChar(v, d)
      [] t.k = "bool" -> WriteBool(v, d)
      [] t.k = "int" -> WriteInteger(v, d)
      [] t.k = "float" -> WriteFloat(v, d)
      [] t.k = "string" -> WriteString(v, d)
      [] t.k = "view" -> WriteStringView(v, d)
      [] t.k \in {"encoded", "signed"} -> WriteEncoded(t, v, d)
      [] t.k = "enum" -> WriteEnum(t, v, d)
      [] t.k = "pair" -> WritePair(t, v, d)
      [] t.k = "array" -> WriteArray(t, v, d)
      [] t.k = "tuple" -> WriteTuple(t, v, d)
      [] t.k = "bounded" -> WriteBounded(t, v, d)
      [] t.k \in {"map", "hashmap", "vector", "sequence", "set", "hashset"} ->
            WriteContainer(t, v, d)
      [] t.k = "nothing" -> WriteNothing(d)
      [] t.k = "variant" -> WriteVariant(t, v, d)
      [] t.k = "pointer" -> WriteUniquePtr(t, v, d)
      [] t.k = "optional" -> WriteOptional(t, v, d)
      [] t.k = "atomic" -> WriteAtomic(t, v, d)
      [] t.k = "fixed" -> WriteViaOstream(t, v, d)
      [] t.k = "class" -> WriteClass(t, v, d)

\* What other modules call.
ReadValue(t, d, p) == Read(t, d, p)
WriteValue(t, v, d) == Write(t, v, d)
=============================================================================
