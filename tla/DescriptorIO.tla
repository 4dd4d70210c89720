---------------------------- MODULE DescriptorIO ----------------------------
(***************************************************************************)
(* DwmDescriptorIO.hh/.cc: reading and writing values with read(2) and     *)
(* write(2).  What can be read or written is a tree of type records, "k"   *)
(* the kind (IOTypes.tla).  ord is "net" for Read/Write and "host" for     *)
(* NRead/NWrite: the code has each function twice, and they differ in the  *)
(* byte order of integers and floating point values only.                  *)
(*                                                                         *)
(* Read returns [n |-> what the code returns, v |-> the value, p |-> the   *)
(* new position]; Write returns [n, d |-> the device].                     *)
(***************************************************************************)
EXTENDS IOTypes

RECURSIVE Read(_, _, _, _), Write(_, _, _, _)

ReadEach(ord, ts, d, p) == InOrder(LAMBDA t, q : Read(ord, t, d, q), ts, p)

\* The same for a range of iterators.
WriteEach(ord, ts, vs, d) == PutInOrder(LAMBDA t, v, e : Write(ord, t, v, e), ts, vs, d)

-----------------------------------------------------------------------------
(* Characters, integers, floating point values and strings.                *)

ReadChar(d, p) == LET r == SysRead(d, p, 1) IN [r EXCEPT !.v = Byte(r.v)]
WriteChar(c, d) == SysWrite(d, <<c>>)

ReadBool(d, p) == LET r == ReadChar(d, p) IN [r EXCEPT !.v = r.n > 0 /\ r.v # 0]
WriteBool(b, d) == WriteChar(IF b THEN 1 ELSE 0, d)

\* One read(2) of the object; what it does not fill stays as it was.
NReadInteger(n, d, p) ==
    LET r == SysRead(d, p, n) IN [r EXCEPT !.v = Memory(Filled(r.v, n), d.host)]
NWriteInteger(v, d) == SysWrite(d, Memory(v, d.host))

\* In network order all bytes must come with that one read(2), and the write
\* is NWrite's, so that its count may be short.
\* Mutant: a short count is no failure.
ReadIntegerShort(n, d, p) ==
    LET r == SysRead(d, p, n) IN [r EXCEPT !.v = Filled(r.v, n)]
ReadInteger(n, d, p) ==
    LET r == SysRead(d, p, n)
    IN  [r EXCEPT !.n = IF @ = n THEN @ ELSE -1, !.v = Filled(r.v, n)]
WriteInteger(v, d) == SysWrite(d, v)

\* The count of a short read is returned as it is, and nothing is decoded.
ReadFloat(n, d, p) == LET r == SysRead(d, p, n) IN [r EXCEPT !.v = Filled(r.v, n)]
WriteFloat(v, d) ==
    LET w == SysWrite(d, v) IN [w EXCEPT !.n = IF @ < Len(v) THEN -1 ELSE @]

\* Read and Write of a buffer go on after a short call.
ReadBuffer(n, d, p) ==
    LET r == LibRead(d, p, n) IN [r EXCEPT !.n = IF n > 0 /\ @ = n THEN n ELSE -1]
WriteBuffer(b, d) ==
    LET w == SysWrite(d, b) IN [w EXCEPT !.n = IF b # <<>> /\ @ = Len(b) THEN @ ELSE -1]

ReadString(d, p) ==
    LET len == FdRead(d, p)
        s == ReadBuffer(ToNat(len.v), d, len.p)
    IN  IF len.n <= 1 THEN [n |-> -1, v |-> <<>>, p |-> len.p]
        ELSE IF ToNat(len.v) = 0 THEN [n |-> len.n, v |-> <<>>, p |-> len.p]
        ELSE IF s.n < 0 THEN [n |-> -1, v |-> <<>>, p |-> s.p]
        ELSE After(len, s)

WriteString(s, d) ==
    LET len == FdWrite(d, OfNat(Len(s)))
        w == WriteBuffer(s, len.d)
    IN  IF len.n <= 1 THEN [n |-> -1, d |-> len.d]
        ELSE IF s = <<>> THEN len
        ELSE After(len, w)

ReadEnum(ord, t, d, p) == Read(ord, t.of, d, p)
WriteEnum(ord, t, v, d) == Write(ord, t.of, v, d)

-----------------------------------------------------------------------------
(* Pairs, arrays, tuples and several arguments.                            *)

ReadPair(ord, t, d, p) == ReadEach(ord, t.of, d, p)
WritePair(ord, t, v, d) == WriteEach(ord, t.of, v, d)

ReadArray(ord, t, d, p) == ReadEach(ord, Copies(t.of, t.n), d, p)
WriteArray(ord, t, v, d) == WriteEach(ord, Copies(t.of, t.n), v, d)

ReadTuple(ord, t, d, p) == ReadEach(ord, t.of, d, p)
WriteTuple(ord, t, v, d) == WriteEach(ord, t.of, v, d)

ReadV(ord, ts, d, p) == ReadEach(ord, ts, d, p)
WriteV(ord, ts, vs, d) == WriteEach(ord, ts, vs, d)

\* T[n]: the extent as a 64-bit integer, which must be the one expected.
ReadBounded(ord, t, d, p) ==
    LET n == Read(ord, Uint(8), d, p)
        r == ReadEach(ord, Copies(t.of, t.n), d, n.p)
    IN  IF n.n # 8 \/ NatOf(n.v) # t.n THEN [n |-> -1, v |-> <<>>, p |-> n.p]
        ELSE After(n, r)
WriteBounded(ord, t, v, d) ==
    LET n == Write(ord, Uint(8), IntOf(t.n), d)
        w == WriteEach(ord, Copies(t.of, t.n), v, n.d)
    IN  IF n.n # 8 THEN Failed(n) ELSE After(n, w)

-----------------------------------------------------------------------------
(* Containers: the number of entries as an EncodedU64, then each entry.    *)

ContainerRead(ord, t, d, p) ==
    LET n == FdRead(d, p)
        r == ReadEach(ord, Copies(t.of, ToNat(n.v)), d, n.p)
    IN  IF n.n <= 0 THEN [n |-> -1, v |-> Collected(t, <<>>), p |-> n.p]
        ELSE After(n, [r EXCEPT !.v = Collected(t, @)])

\* bytesWritten is unsigned: a failed write of the entries is not zero, and
\* adding it takes one from the count.
ContainerWrite(ord, t, v, d) ==
    LET es == Entries(t, v)
        n == FdWrite(d, OfNat(Len(es)))
        w == WriteEach(ord, Copies(t.of, Len(es)), es, n.d)
    IN  IF n.n < 0 THEN Failed(n)
        ELSE IF es = <<>> THEN n
        ELSE [w EXCEPT !.n = IF @ = 0 THEN -1 ELSE n.n + @]

\* A key and its value are read one after the other, both counted, and
\* inserted (Collected keeps the first entry of a key).
PairAssocContRead(ord, t, d, p) ==
    LET n == FdRead(d, p)
        r == ReadEach(ord, Interleaved(t, ToNat(n.v)), d, n.p)
    IN  IF n.n <= 0 THEN [n |-> -1, v |-> Collected(t, <<>>), p |-> n.p]
        ELSE After(n, [r EXCEPT !.v = Collected(t, Pairs(@))])

ReadMap(ord, t, d, p) == PairAssocContRead(ord, t, d, p)
WriteMap(ord, t, v, d) == ContainerWrite(ord, t, v, d)
ReadSequence(ord, t, d, p) == ContainerRead(ord, t, d, p)
WriteSequence(ord, t, v, d) == ContainerWrite(ord, t, v, d)
ReadSet(ord, t, d, p) == ContainerRead(ord, t, d, p)
WriteSet(ord, t, v, d) == ContainerWrite(ord, t, v, d)
ReadUnorderedMap(ord, t, d, p) == PairAssocContRead(ord, t, d, p)
WriteUnorderedMap(ord, t, v, d) == ContainerWrite(ord, t, v, d)
ReadUnorderedSet(ord, t, d, p) == ContainerRead(ord, t, d, p)
WriteUnorderedSet(ord, t, v, d) == ContainerWrite(ord, t, v, d)

-----------------------------------------------------------------------------
(* Variants, pointers, optional values, atomics, unions and classes.       *)

\* The index, then the alternative; std::monostate counts zero bytes.
ReadVariant(ord, t, d, p) ==
    LET i == Read(ord, Uint(8), d, p)
        r == Read(ord, t.of[NatOf(i.v) + 1], d, i.p)
    IN  IF i.n <= 0 \/ NatOf(i.v) >= Len(t.of) THEN [n |-> -1, v |-> <<>>, p |-> i.p]
        ELSE After(i, [r EXCEPT !.v = <<NatOf(i.v), @>>])
WriteVariant(ord, t, v, d) ==
    LET i == Write(ord, Uint(8), IntOf(v[1]), d)
        w == Write(ord, t.of[v[1] + 1], v[2], i.d)
    IN  IF i.n <= 0 THEN Failed(i)
        ELSE After(i, w)

\* A flag, and the object unless the flag says that there is none.
ReadFlagged(ord, t, d, p, present) ==
    LET b == ReadBool(d, p)
        r == Read(ord, t.of, d, b.p)
    IN  IF b.n <= 0 THEN [n |-> -1, v |-> <<>>, p |-> b.p]
        ELSE IF b.v # present THEN [b EXCEPT !.v = <<>>]
        ELSE IF r.n <= 0 THEN [n |-> -1, v |-> <<>>, p |-> r.p]
        ELSE After(b, [r EXCEPT !.v = <<@>>])
WriteFlagged(ord, t, v, d, flag) ==
    LET b == WriteBool(flag, d)
        w == Write(ord, t.of, v[1], b.d)
    IN  IF b.n <= 0 THEN Failed(b)
        ELSE IF v = <<>> THEN b
        ELSE [w EXCEPT !.n = IF @ <= 0 THEN -1 ELSE b.n + @]

ReadUniquePtr(ord, t, d, p) == ReadFlagged(ord, t, d, p, FALSE)
WriteUniquePtr(ord, t, v, d) == WriteFlagged(ord, t, v, d, v = <<>>)

\* A value that is not there leaves the target what it had.
ReadOptional(ord, t, d, p, old) ==
    LET r == ReadFlagged(ord, t, d, p, TRUE)
    IN  IF r.n > 0 /\ r.v = <<>> THEN [r EXCEPT !.v = old] ELSE r
WriteOptional(ord, t, v, d) == WriteFlagged(ord, t, v, d, v # <<>>)

ReadAtomic(ord, t, d, p) ==
    LET r == Read(ord, t.of, d, p) IN [r EXCEPT !.n = IF @ = Size(t.of) THEN @ ELSE -1]
WriteAtomic(ord, t, v, d) == Write(ord, t.of, v, d)

\* The bytes of the object as they lie in memory.
ReadUnion(t, d, p) ==
    LET r == ReadBuffer(t.n, d, p) IN [r EXCEPT !.v = Memory(Filled(r.v, t.n), d.host)]
WriteUnion(v, d) == WriteBuffer(Memory(v, d.host), d)

\* A class of constant streamed length without members for descriptors: one
\* read(2) of that many bytes, which are then read as from a stream.
ReadViaIstream(ord, t, d, p) ==
    LET len == Size(t)
        r == SysRead(d, p, len)
        got == ReadEach(ord, t.of, [d EXCEPT !.b = r.v, !.lim = len], 0)
    IN  IF r.n # len THEN [n |-> -1, v |-> <<>>, p |-> r.p] ELSE [got EXCEPT !.p = r.p]
WriteViaOstream(ord, t, v, d) ==
    LET os == WriteEach(ord, t.of, v, [d EXCEPT !.b = <<>>, !.room = Unlimited])
        w == SysWrite(d, os.d.b)
    IN  [w EXCEPT !.n = IF @ # Len(os.d.b) THEN -1 ELSE @]

\* A class all of whose members are numbers or arrays of numbers can go
\* through one readv(2) or writev(2) ("gathered").  Integers are put into
\* network order before or after it, floating point values never are.
MemberOrder(ord, m) == IF "float" \in {m.k} \cup (IF m.k = "array" THEN {m.of.k} ELSE {})
                       THEN "host" ELSE ord
ScatterRead(ord, t, d, p) ==
    LET len == Size(t)
        r == SysRead(d, p, len)
        got == InOrder(LAMBDA m, q : Read(MemberOrder(ord, m), m,
                                          [d EXCEPT !.b = r.v, !.lim = len], q), t.of, 0)
    IN  IF r.n # len THEN [n |-> -1, v |-> <<>>, p |-> r.p] ELSE [got EXCEPT !.p = r.p]
GatherWrite(ord, t, v, d) ==
    LET iovs == PutInOrder(LAMBDA m, x, e : Write(MemberOrder(ord, m), m, x, e), t.of, v,
                           [d EXCEPT !.b = <<>>, !.room = Unlimited])
        w == SysWrite(d, iovs.d.b)
    IN  [w EXCEPT !.n = IF @ = Size(t) THEN @ ELSE -1]

\* Any other class: its members one by one, those marked to be skipped left
\* out of "of".
ReadNonstaticMembers(ord, t, d, p) == ReadEach(ord, t.of, d, p)
WriteNonstaticMembers(ord, t, v, d) == WriteEach(ord, t.of, v, d)

\* Classes with members of their own for this: encoded numbers.
ReadEncoded(t, d, p) == IF t.k = "signed" THEN SignedFdRead(d, p) ELSE FdRead(d, p)
WriteEncoded(t, v, d) == IF t.k = "signed" THEN SignedFdWrite(d, v) ELSE FdWrite(d, v)

-----------------------------------------------------------------------------
Read(ord, t, d, p) ==
    CASE t.k = "char" -> ReadChar(d, p)
      [] t.k = "bool" -> ReadBool(d, p)
      [] t.k = "int" -> IF ord = "net" THEN ReadInteger(t.n, d, p) ELSE NReadInteger(t.n, d, p)
      [] t.k = "float" -> IF ord = "net" THEN ReadFloat(t.n, d, p) ELSE NReadInteger(t.n, d, p)
      [] t.k \in {"string", "view"} -> ReadString(d, p)
      [] t.k \in {"encoded", "signed"} -> ReadEncoded(t, d, p)
      [] t.k = "enum" -> ReadEnum(ord, t, d, p)
      [] t.k = "pair" -> ReadPair(ord, t, d, p)
      [] t.k = "array" -> ReadArray(ord, t, d, p)
      [] t.k = "tuple" -> ReadTuple(ord, t, d, p)
      [] t.k = "bounded" -> ReadBounded(ord, t, d, p)
      [] t.k = "map" -> ReadMap(ord, t, d, p)
      [] t.k \in {"vector", "sequence"} -> ReadSequence(ord, t, d, p)
      [] t.k = "set" -> ReadSet(ord, t, d, p)
      [] t.k = "hashmap" -> ReadUnorderedMap(ord, t, d, p)
      [] t.k = "hashset" -> ReadUnorderedSet(ord, t, d, p)
      [] t.k = "nothing" -> [n |-> 0, v |-> <<>>, p |-> p]
      [] t.k = "variant" -> ReadVariant(ord, t, d, p)
      [] t.k = "pointer" -> ReadUniquePtr(ord, t, d, p)
      [] t.k = "optional" -> ReadOptional(ord, t, d, p, <<>>)
      [] t.k = "atomic" -> ReadAtomic(ord, t, d, p)
      [] t.k = "union" -> ReadUnion(t, d, p)
      [] t.k = "fixed" -> ReadViaIstream(ord, t, d, p)
      [] t.k = "gathered" -> ScatterRead(ord, t, d, p)
      [] t.k = "class" -> ReadNonstaticMembers(ord, t, d, p)

Write(ord, t, v, d) ==
    CASE t.k = "char" -> WriteChar(v, d)
      [] t.k = "bool" -> WriteBool(v, d)
      [] t.k = "int" -> IF ord = "net" THEN WriteInteger(v, d) ELSE NWriteInteger(v, d)
      [] t.k = "float" -> IF ord = "net" THEN WriteFloat(v, d) ELSE NWriteInteger(v, d)
      [] t.k \in {"string", "view"} -> WriteString(v, d)
      [] t.k \in {"encoded", "signed"} -> WriteEncoded(t, v, d)
      [] t.k = "enum" -> WriteEnum(ord, t, v, d)
      [] t.k = "pair" -> WritePair(ord, t, v, d)
      [] t.k = "array" -> WriteArray(ord, t, v, d)
      [] t.k = "tuple" -> WriteTuple(ord, t, v, d)
      [] t.k = "bounded" -> WriteBounded(ord, t, v, d)
      [] t.k = "map" -> WriteMap(ord, t, v, d)
      [] t.k \in {"vector", "sequence"} -> WriteSequence(ord, t, v, d)
      [] t.k = "set" -> WriteSet(ord, t, v, d)
      [] t.k = "hashmap" -> WriteUnorderedMap(ord, t, v, d)
      [] t.k = "hashset" -> WriteUnorderedSet(ord, t, v, d)
      [] t.k = "nothing" -> [n |-> 0, d |-> d]
      [] t.k = "variant" -> WriteVariant(ord, t, v, d)
      [] t.k = "pointer" -> WriteUniquePtr(ord, t, v, d)
      [] t.k = "optional" -> WriteOptional(ord, t, v, d)
      [] t.k = "atomic" -> WriteAtomic(ord, t, v, d)
      [] t.k = "union" -> WriteUnion(v, d)
      [] t.k = "fixed" -> WriteViaOstream(ord, t, v, d)
      [] t.k = "gathered" -> GatherWrite(ord, t, v, d)
      [] t.k = "class" -> WriteNonstaticMembers(ord, t, v, d)

\* What other modules call.
ReadValue(ord, t, d, p) == Read(ord, t, d, p)
WriteValue(ord, t, v, d) == Write(ord, t, v, d)
=============================================================================
