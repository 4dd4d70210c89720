---------------------------- MODULE ValueClasses ----------------------------
(***************************************************************************)
(* Classes that read and write themselves through the I/O classes, or by   *)
(* calls of their own to the libraries beneath them: times, addresses,     *)
(* prefixes, MPLS labels, lengths.  A type of kind "own" has the name of   *)
(* the class; a value is                                                   *)
(*   TimeValue, TimeValue64      <<seconds, microseconds>>                 *)
(*   TimeInterval, -64           <<start, end>>                            *)
(*   Ipv4Address, Ipv6Address,   the bytes of the object                   *)
(*     Ipv4Prefix, MacAddress                                              *)
(*   Ipv6Prefix                  <<length, the 16 bytes of the address>>   *)
(*   MplsLabel, MplsLabelStack   4 bytes, a sequence of labels             *)
(*   SizedLength                 a Value of EncodedUnsigned                *)
(* "by" is the I/O class whose kind of device it is, "ord" as there.       *)
(***************************************************************************)
EXTENDS IOTypes

DIO == INSTANCE DescriptorIO
SIO == INSTANCE StreamIO
FIO == INSTANCE FileIO
GIO == INSTANCE GZIO
BIO == INSTANCE BZ2IO
AIO == INSTANCE ASIO

\* A class may be made of other classes.
RECURSIVE ReadWith(_, _, _, _, _), WriteBy(_, _, _, _, _)

TransportRead(by, ord, t, d, p) ==
    CASE by = "Descriptor" -> DIO!ReadValue(ord, t, d, p)
      [] by = "Stream" -> SIO!ReadValue(ord, t, d, p)
      [] by = "File" -> FIO!ReadValue(t, d, p)
      [] by = "GZ" -> GIO!ReadValue(t, d, p)
      [] by = "BZ2" -> BIO!ReadValue(t, d, p)
      [] by = "ASIO" -> AIO!ReadValue(t, d, p)
TransportWrite(by, ord, t, v, d) ==
    CASE by = "Descriptor" -> DIO!WriteValue(ord, t, v, d)
      [] by = "Stream" -> SIO!WriteValue(ord, t, v, d)
      [] by = "File" -> FIO!WriteValue(t, v, d)
      [] by = "GZ" -> GIO!WriteValue(t, v, d)
      [] by = "BZ2" -> BIO!WriteValue(t, v, d)
      [] by = "ASIO" -> AIO!WriteValue(t, v, d)

\* One call to the library beneath for n bytes.
RawRead(by, d, p, n) ==
    CASE by = "Descriptor" -> SysRead(d, p, n)
      [] by \in {"GZ", "BZ2"} -> LibRead(d, p, n)
      [] by = "Stream" -> SIO!Get(d, p, n)
      [] by = "File" -> FIO!Fread(d, p, n)
      [] by = "ASIO" -> AIO!AsioRead(d, p, n)
RawWrite(by, d, b) ==
    CASE by \in {"Descriptor", "GZ", "BZ2"} -> SysWrite(d, b)
      [] by = "Stream" -> SIO!Put(d, b)
      [] by = "File" -> FIO!Fwrite(d, b)
      [] by = "ASIO" -> AIO!AsioWrite(d, b)

\* Calls on descriptors and compressed files count bytes, others say yes or no.
Counting(by) == by \in {"Descriptor", "GZ", "BZ2"}
Answer(by, r) == IF Counting(by) THEN r ELSE AsBool(r)

\* What must be there as a whole, and is a failure otherwise.
Whole(by, r, size) ==
    [r EXCEPT !.n = IF (IF Counting(by) THEN @ = size ELSE @ > 0) THEN @ ELSE -1]

Own(name) == [k |-> "own", name |-> name]

\* The StreamedLength() that all objects of a class have; 0: it depends on the value.
OwnSize(name) ==
    CASE name = "TimeValue" -> 8 [] name = "TimeValue64" -> 12
      [] name = "TimeInterval" -> 16 [] name = "TimeInterval64" -> 24
      [] name = "Ipv4Address" -> 4 [] name = "Ipv6Address" -> 16 [] name = "Ipv4Prefix" -> 5
      [] name = "MacAddress" -> 6 [] name = "MplsLabel" -> 4
      [] OTHER -> 0

SizeOf(t) == IF t.k = "own" THEN OwnSize(t.name) ELSE Size(t)
ReadMembers(by, ord, ts, d, p) ==
    Answer(by, InOrder(LAMBDA t, q : Whole(by, ReadWith(by, ord, t, d, q), SizeOf(t)), ts, p))
WriteMembers(by, ord, ts, vs, d) ==
    Answer(by, PutInOrder(LAMBDA t, v, e : Whole(by, WriteBy(by, ord, t, v, e), SizeOf(t)),
                          ts, vs, d))

-----------------------------------------------------------------------------
(* Times: each member must be there as a whole; an interval is a pair.     *)

ReadTimeValue(by, ord, d, p) == ReadMembers(by, ord, <<Uint(4), Uint(4)>>, d, p)
WriteTimeValue(by, ord, v, d) == WriteMembers(by, ord, <<Uint(4), Uint(4)>>, v, d)
ReadTimeValue64(by, ord, d, p) == ReadMembers(by, ord, <<Uint(8), Uint(4)>>, d, p)
WriteTimeValue64(by, ord, v, d) == WriteMembers(by, ord, <<Uint(8), Uint(4)>>, v, d)

Twice(name) == <<Own(name), Own(name)>>
ReadTimeInterval(by, ord, d, p) == ReadMembers(by, ord, Twice("TimeValue"), d, p)
WriteTimeInterval(by, ord, v, d) == WriteMembers(by, ord, Twice("TimeValue"), v, d)
ReadTimeInterval64(by, ord, d, p) == ReadMembers(by, ord, Twice("TimeValue64"), d, p)
WriteTimeInterval64(by, ord, v, d) == WriteMembers(by, ord, Twice("TimeValue64"), v, d)

-----------------------------------------------------------------------------
(* Addresses and prefixes: the bytes of the object in one call, whose      *)
(* count is returned as it is.                                             *)

ReadBytes(by, n, d, p) == LET r == RawRead(by, d, p, n) IN [r EXCEPT !.v = Filled(@, n)]

ReadIpv4Address(by, d, p) == ReadBytes(by, 4, d, p)
WriteIpv4Address(by, v, d) == RawWrite(by, d, v)
ReadIpv6Address(by, d, p) == ReadBytes(by, 16, d, p)
WriteIpv6Address(by, v, d) == RawWrite(by, d, v)

\* A short count on a compressed file is a failure, one on a descriptor is not.
ReadIpv4Prefix(by, d, p) ==
    LET r == ReadBytes(by, 5, d, p) IN IF by \in {"GZ", "BZ2"} THEN Whole(by, r, 5) ELSE r
WriteIpv4Prefix(by, v, d) ==
    LET w == RawWrite(by, d, v) IN IF by \in {"GZ", "BZ2"} THEN Whole(by, w, 5) ELSE w

NumAddrBytes(length) == (length + 7) \div 8

\* The length, and as many bytes of the address as it needs.  When these are
\* short the count is that of the length alone, which is not negative; on a
\* socket the number of the bytes is compared with the size of the length when
\* reading and with that of the whole address when writing.
LengthThen(by, l, rest, bytes, expected) ==
    IF l.n <= 0 THEN [rest EXCEPT !.n = IF Counting(by) THEN -1 ELSE 0]
    ELSE IF Counting(by) THEN [rest EXCEPT !.n = IF @ = bytes THEN 1 + @ ELSE 1]
    ELSE IF by = "ASIO" THEN [rest EXCEPT !.n = IF bytes = expected THEN @ ELSE 0]
    ELSE rest
ReadIpv6Prefix(by, d, p) ==
    LET l == RawRead(by, d, p, 1)
        bytes == IF l.n <= 0 THEN 0 ELSE NumAddrBytes(l.v[1])
        a == RawRead(by, d, l.p, bytes)
    IN  LengthThen(by, l, [a EXCEPT !.v = <<Byte(l.v), [i \in 1..16 |->
                                            IF i <= Len(@) THEN @[i] ELSE 0]>>], bytes, 1)
WriteIpv6Prefix(by, v, d) ==
    LET l == RawWrite(by, d, <<v[1]>>)
        bytes == NumAddrBytes(v[1])
    IN  IF l.n <= 0 THEN LengthThen(by, l, l, bytes, 16)
        ELSE LengthThen(by, l, RawWrite(by, l.d, SubSeq(v[2], 1, bytes)), bytes, 16)

ReadMacAddress(by, ord, d, p) == ReadWith(by, ord, Many("array", Kind("char"), 6), d, p)
WriteMacAddress(by, ord, v, d) == WriteBy(by, ord, Many("array", Kind("char"), 6), v, d)

-----------------------------------------------------------------------------
(* MPLS labels: a stack ends with the label whose S bit is set, and so     *)
(* does reading it.                                                        *)

ReadMplsLabel(by, ord, d, p) == ReadWith(by, ord, Uint(4), d, p)
WriteMplsLabel(by, ord, v, d) == WriteBy(by, ord, Uint(4), v, d)
S(label) == label[3] % 2 = 1

RECURSIVE ReadLabels(_, _, _, _)
ReadLabels(by, ord, d, so) ==
    LET l == Whole(by, ReadMplsLabel(by, ord, d, so.p), 4)
        more == [n |-> so.n + l.n, v |-> Append(so.v, l.v), p |-> l.p]
    IN  IF l.n < 0 THEN [so EXCEPT !.n = -1, !.p = l.p]
        ELSE IF S(l.v) THEN more
        ELSE ReadLabels(by, ord, d, more)
ReadMplsLabelStack(by, ord, d, p) ==
    Answer(by, ReadLabels(by, ord, d, [n |-> 0, v |-> <<>>, p |-> p]))
\* The labels are not empty and the last has its S bit set: asserted.
WriteMplsLabelStack(by, ord, v, d) == WriteMembers(by, ord, Copies(Uint(4), Len(v)), v, d)

-----------------------------------------------------------------------------
(* SizedLength: an EncodedUnsigned of eight bytes, but for what is read on *)
(* a compressed file by a big-endian host: BE2Host() leaves bytes as they  *)
(* are there, whoever has written them.                                    *)

SizedLengthVector(v, host) == MakeNativeEndianWriteVector(v, host)
ReadSizedLength(by, d, p) ==
    LET r == CASE by = "Stream" -> AsBool(StreamRead(d, p))
               [] by = "File" -> FileRead(d, p)
               [] by = "Descriptor" -> FdRead(d, p)
               [] by \in {"GZ", "BZ2"} -> GzRead(d, p)
    IN  IF by \in {"GZ", "BZ2"} /\ r.n > 0 /\ d.host = "big" /\ d.b[p + 1] < 128
        THEN [r EXCEPT !.v = Reverse(@)] ELSE r
WriteSizedLength(by, v, d) ==
    LET buf == SizedLengthVector(v, d.host)
    IN  Whole(by, RawWrite(by, d, buf), Len(buf))

-----------------------------------------------------------------------------
OwnRead(by, ord, name, d, p) ==
    CASE name = "TimeValue" -> ReadTimeValue(by, ord, d, p)
      [] name = "TimeValue64" -> ReadTimeValue64(by, ord, d, p)
      [] name = "TimeInterval" -> ReadTimeInterval(by, ord, d, p)
      [] name = "TimeInterval64" -> ReadTimeInterval64(by, ord, d, p)
      [] name = "Ipv4Address" -> ReadIpv4Address(by, d, p)
      [] name = "Ipv6Address" -> ReadIpv6Address(by, d, p)
      [] name = "Ipv4Prefix" -> ReadIpv4Prefix(by, d, p)
      [] name = "Ipv6Prefix" -> ReadIpv6Prefix(by, d, p)
      [] name = "MacAddress" -> ReadMacAddress(by, ord, d, p)
      [] name = "MplsLabel" -> ReadMplsLabel(by, ord, d, p)
      [] name = "MplsLabelStack" -> ReadMplsLabelStack(by, ord, d, p)
      [] name = "SizedLength" -> ReadSizedLength(by, d, p)
OwnWrite(by, ord, name, v, d) ==
    CASE name = "TimeValue" -> WriteTimeValue(by, ord, v, d)
      [] name = "TimeValue64" -> WriteTimeValue64(by, ord, v, d)
      [] name = "TimeInterval" -> WriteTimeInterval(by, ord, v, d)
      [] name = "TimeInterval64" -> WriteTimeInterval64(by, ord, v, d)
      [] name = "Ipv4Address" -> WriteIpv4Address(by, v, d)
      [] name = "Ipv6Address" -> WriteIpv6Address(by, v, d)
      [] name = "Ipv4Prefix" -> WriteIpv4Prefix(by, v, d)
      [] name = "Ipv6Prefix" -> WriteIpv6Prefix(by, v, d)
      [] name = "MacAddress" -> WriteMacAddress(by, ord, v, d)
      [] name = "MplsLabel" -> WriteMplsLabel(by, ord, v, d)
      [] name = "MplsLabelStack" -> WriteMplsLabelStack(by, ord, v, d)
      [] name = "SizedLength" -> WriteSizedLength(by, v, d)

WriteBy(by, ord, t, v, d) ==
    IF t.k = "own" THEN OwnWrite(by, ord, t.name, v, d) ELSE TransportWrite(by, ord, t, v, d)
ReadWith(by, ord, t, d, p) ==
    IF t.k = "own" THEN OwnRead(by, ord, t.name, d, p) ELSE TransportRead(by, ord, t, d, p)

OwnLength(name, v) ==
    CASE name = "Ipv6Prefix" -> 1 + NumAddrBytes(v[1])
      [] name = "MplsLabelStack" -> 4 * Len(v)
      [] OTHER -> OwnSize(name)

\* The devices a class has members for.
OwnSupported(by, ord, name) ==
    CASE by = "ASIO" -> name \in {"Ipv4Address", "Ipv6Address", "Ipv4Prefix", "Ipv6Prefix"}
      [] ord = "host" -> by = "Stream" /\ name \in {"TimeValue", "TimeValue64", "TimeInterval",
                                                    "TimeInterval64", "MplsLabel", "MplsLabelStack"}
      [] OTHER -> TRUE
=============================================================================
