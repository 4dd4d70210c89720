-------------------------------- MODULE ASIO --------------------------------
(***************************************************************************)
(* DwmASIO.hh/.cc: values on a boost::asio TCP, local or generic stream    *)
(* socket.  boost's read and write go on until all bytes have gone or the  *)
(* peer has closed, and each function says yes or no: n is 1 or 0.  The    *)
(* device holds what arrives before the peer closes; a socket that is not  *)
(* open is one on which nothing arrives and that has no room.              *)
(***************************************************************************)
EXTENDS IOTypes

RECURSIVE Read(_, _, _), Write(_, _, _)

\* _asioread and _asiowrite of n bytes.
AsioRead(d, p, n) == LET r == LibRead(d, p, n) IN [r EXCEPT !.n = IF @ = n THEN 1 ELSE 0]
AsioWrite(d, b) == LET w == SysWrite(d, b) IN [w EXCEPT !.n = IF @ = Len(b) THEN 1 ELSE 0]

Then(r, rest) == IF r.n = 0 THEN r ELSE rest
ReadEach(ts, d, p) == AsBool(InOrder(LAMBDA t, q : Read(t, d, q), ts, p))
WriteEach(ts, vs, d) == AsBool(PutInOrder(LAMBDA t, v, e : Write(t, v, e), ts, vs, d))

-----------------------------------------------------------------------------
ReadChar(d, p) == LET r == AsioRead(d, p, 1) IN [r EXCEPT !.v = Byte(r.v)]
WriteChar(c, d) == AsioWrite(d, <<c>>)
ReadBool(d, p) == LET r == ReadChar(d, p) IN [r EXCEPT !.v = @ \notin {0, Stale}]
WriteBool(b, d) == WriteChar(IF b THEN 1 ELSE 0, d)

\* To host byte order after a complete read, to network byte order before.
ReadNetwork(n, d, p) == LET r == AsioRead(d, p, n) IN [r EXCEPT !.v = Filled(@, n)]
WriteNetwork(v, d) == AsioWrite(d, v)
ReadFloat(n, d, p) == ReadNetwork(n, d, p)
WriteFloat(v, d) == AsioWrite(d, v)

\* Lengths and numbers of entries are eight bytes here.
Length(d, p) == LET r == ReadNetwork(8, d, p) IN [r EXCEPT !.v = NatOf(@)]
WriteLength(n, d) == WriteNetwork(IntOf(n), d)

ReadString(d, p) ==
    LET len == Length(d, p) IN Then([len EXCEPT !.v = <<>>], AsioRead(d, len.p, len.v))
WriteString(s, d) == LET len == WriteLength(Len(s), d) IN Then(len, AsioWrite(len.d, s))

ReadEnum(t, d, p) == Read(t.of, d, p)
WriteEnum(t, v, d) == Write(t.of, v, d)

ReadPair(t, d, p) == ReadEach(t.of, d, p)
WritePair(t, v, d) == WriteEach(t.of, v, d)
ReadTuple(t, d, p) == ReadEach(t.of, d, p)
WriteTuple(t, v, d) == WriteEach(t.of, v, d)
ReadV(ts, d, p) == ReadEach(ts, d, p)
WriteV(ts, vs, d) == WriteEach(ts, vs, d)
ReadArray(t, d, p) == ReadEach(Copies(t.of, t.n), d, p)
WriteArray(t, v, d) == WriteEach(Copies(t.of, t.n), v, d)

ReadVariant(t, d, p) ==
    LET i == Length(d, p)
        r == Read(t.of[i.v + 1], d, i.p)
    IN  IF i.n = 0 \/ i.v >= Len(t.of) THEN [i EXCEPT !.n = 0, !.v = <<>>]
        ELSE [r EXCEPT !.v = <<i.v, @>>]
WriteVariant(t, v, d) ==
    LET i == WriteLength(v[1], d) IN Then(i, Write(t.of[v[1] + 1], v[2], i.d))
ReadNothing(p) == [n |-> 1, v |-> <<>>, p |-> p]
WriteNothing(d) == [n |-> 1, d |-> d]

ReadContainer(t, d, p) ==
    LET n == Length(d, p)
        r == ReadEach(Copies(t.of, n.v), d, n.p)
    IN  Then(n, [r EXCEPT !.v = Collected(t, @)])
WriteContainer(t, v, d) ==
    LET es == Entries(t, v)
        n == WriteLength(Len(es), d)
    IN  Then(n, WriteEach(Copies(t.of, Len(es)), es, n.d))
ReadBoolVector(t, d, p) == ReadContainer(t, d, p)
WriteBoolVector(t, v, d) == WriteContainer(t, v, d)
PairAssocContRead(t, d, p) ==
    LET n == Length(d, p)
        r == ReadEach(Interleaved(t, n.v), d, n.p)
    IN  Then(n, [r EXCEPT !.v = Collected(t, Pairs(@))])

ReadBounded(t, d, p) ==
    LET n == Length(d, p)
    IN  IF n.n = 0 \/ n.v # t.n THEN [n EXCEPT !.n = 0] ELSE ReadArray(t, d, n.p)
WriteBounded(t, v, d) == LET n == WriteLength(t.n, d) IN Then(n, WriteArray(t, v, n.d))

ReadFlagged(t, d, p, present) ==
    LET b == ReadBool(d, p)
        r == Read(t.of, d, b.p)
    IN  IF b.n = 0 \/ b.v # present THEN [b EXCEPT !.v = <<>>]
        ELSE [r EXCEPT !.v = IF r.n = 0 THEN <<>> ELSE <<@>>]
WriteFlagged(t, v, d, flag) ==
    LET b == WriteBool(flag, d) IN IF v = <<>> THEN b ELSE Then(b, Write(t.of, v[1], b.d))
ReadUniquePtr(t, d, p) == ReadFlagged(t, d, p, FALSE)
WriteUniquePtr(t, v, d) == WriteFlagged(t, v, d, v = <<>>)
ReadOptional(t, d, p) == ReadFlagged(t, d, p, TRUE)
WriteOptional(t, v, d) == WriteFlagged(t, v, d, v # <<>>)
ReadAtomic(t, d, p) == Read(t.of, d, p)
WriteAtomic(t, v, d) == Write(t.of, v, d)

ReadViaIstream(t, d, p) ==
    LET r == AsioRead(d, p, Size(t))
        got == ReadEach(t.of, [d EXCEPT !.b = r.v], 0)
    IN  Then(r, [got EXCEPT !.p = r.p])
WriteViaOstream(t, v, d) ==
    AsioWrite(d, WriteEach(t.of, v, [d EXCEPT !.b = <<>>, !.room = Unlimited]).d.b)
ReadClass(t, d, p) == ReadEach(t.of, d, p)
WriteClass(t, v, d) == WriteEach(t.of, v, d)

-----------------------------------------------------------------------------
Read(t, d, p) ==
    CASE t.k = "char" -> ReadChar(d, p)
      [] t.k = "bool" -> ReadBool(d, p)
      [] t.k = "int" -> ReadNetwork(t.n, d, p)
      [] t.k = "float" -> ReadFloat(t.n, d, p)
      [] t.k = "string" -> ReadString(d, p)
      [] t.k = "enum" -> ReadEnum(t, d, p)
      [] t.k = "pair" -> ReadPair(t, d, p)
      [] t.k = "array" -> ReadArray(t, d, p)
      [] t.k = "tuple" -> ReadTuple(t, d, p)
      [] t.k = "bounded" -> ReadBounded(t, d, p)
      [] t.k \in {"map", "hashmap"} -> PairAssocContRead(t, d, p)
      [] t.k = "vector" /\ t.of.k = "bool" -> ReadBoolVector(t, d, p)
      [] t.k \in {"vector", "sequence", "set", "hashset"}
            /\ ~(t.k = "vector" /\ t.of.k = "bool") -> ReadContainer(t, d, p)
      [] t.k = "nothing" -> ReadNothing(p)
      [] t.k = "variant" -> ReadVariant(t, d, p)
      [] t.k = "pointer" -> ReadUniquePtr(t, d, p)
      [] t.k = "optional" -> ReadOptional(t, d, p)
      [] t.k = "atomic" -> ReadAtomic(t, d, p)
      [] t.k = "fixed" -> ReadViaIstream(t, d, p)
      [] t.k = "class" -> ReadClass(t, d, p)

Write(t, v, d) ==
    CASE t.k = "char" -> WriteChar(v, d)
      [] t.k = "bool" -> WriteBool(v, d)
      [] t.k = "int" -> WriteNetwork(v, d)
      [] t.k = "float" -> WriteFloat(v, d)
      [] t.k = "string" -> WriteString(v, d)
      [] t.k = "enum" -> WriteEnum(t, v, d)
      [] t.k = "pair" -> WritePair(t, v, d)
      [] t.k = "array" -> WriteArray(t, v, d)
      [] t.k = "tuple" -> WriteTuple(t, v, d)
      [] t.k = "bounded" -> WriteBounded(t, v, d)
      [] t.k = "vector" /\ t.of.k = "bool" -> WriteBoolVector(t, v, d)
      [] t.k \in {"map", "hashmap", "vector", "sequence", "set", "hashset"}
            /\ ~(t.k = "vector" /\ t.of.k = "bool") -> WriteContainer(t, v, d)
      [] t.k = "nothing" -> WriteNothing(d)
      [] t.k = "variant" -> WriteVariant(t, v, d)
      [] t.k = "pointer" -> WriteUniquePtr(t, v, d)
      [] t.k = "optional" -> WriteOptional(t, v, d)
      [] t.k = "atomic" -> WriteAtomic(t, v, d)
      [] t.k = "fixed" -> WriteViaOstream(t, v, d)
      [] t.k = "class" -> WriteClass(t, v, d)

\* What other modules call.
ReadValue(t, d, p) == Read(t, d, p)
WriteValue(t, v, d) == Write(t, v, d)
=============================================================================
