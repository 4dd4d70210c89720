-------------------------- MODULE EncodedIntegers --------------------------
(***************************************************************************)
(* DwmEncodedUnsigned.hh: an unsigned integer of W bytes on the wire is a  *)
(* start byte, which holds the number of value bytes that follow and the   *)
(* byte order of the host that wrote them, and the value's significant     *)
(* bytes.  A value is the tuple of its W bytes, the LEAST significant      *)
(* first, so that no number of the model outgrows TLC's integers.          *)
(*                                                                         *)
(* A byte device is a record: "b" holds the bytes, "host" the byte order   *)
(* of the machine that reads or writes, "lim" the most one read(2) returns *)
(* and "room" the most the device can hold.                                *)
(***************************************************************************)
EXTENDS Integers, Sequences, FiniteSets, SequencesExt, FiniteSetsExt

CONSTANT W                      \* sizeof(T): 2, 4 or 8

ASSUME WAssumption == W \in {2, 4, 8}

\* What a byte holds that a short read has left as it was.
Stale == 256

Value == [1..W -> 0..255]

\* A length or an index as a value, and back; a value above MaxLength is one
\* no container of the model has.
MaxLength == 255
OfNat(n) == [i \in 1..W |-> IF i = 1 THEN n ELSE 0]
ToNat(v) == IF \A i \in 2..W : v[i] = 0 THEN v[1] ELSE MaxLength + 1

-----------------------------------------------------------------------------
\* The smallest of the sizes whose threshold the value does not exceed.
SizeFromValue(v) ==
    Min({W} \cup {k \in 1..7 : k <= W /\ \A i \in (k + 1)..W : v[i] = 0})

StreamedLength(v) == 1 + SizeFromValue(v)

\* The high bit of the start byte is set by a big-endian writer.
EncodedStartByte(sz, host) == (sz - 1) + (IF host = "big" THEN 128 ELSE 0)

MakeNativeEndianWriteVector(v, host) ==
    LET sz == SizeFromValue(v)
        low == SubSeq(v, 1, sz)
    IN  <<EncodedStartByte(sz, host)>> \o (IF host = "big" THEN Reverse(low) ELSE low)

\* What the first two bytes tell: how many value bytes, and their order.
TwoBytesProcessed(buf) ==
    [sz |-> (buf[1] % W) + 1, encoding |-> IF buf[1] >= 128 THEN "big" ELSE "little"]

\* The value from all its bytes: those a big-endian writer has put are placed
\* at the end of the object and swapped on a little-endian host; a big-endian
\* host places and swaps them the other way round.
\* Mutant: the byte order is not looked at.
DecodedUnswapped(bytes, encoding) ==
    [i \in 1..W |-> IF i <= Len(bytes) THEN bytes[i] ELSE 0]
Decoded(bytes, encoding) ==
    LET low == IF encoding = "big" THEN Reverse(bytes) ELSE bytes
    IN  [i \in 1..W |-> IF i <= Len(low) THEN low[i] ELSE 0]

-----------------------------------------------------------------------------
(* One system or library call.  read(2) may return fewer bytes than asked; *)
(* istream::read, fread, gzread and BZ2_bzread return all unless the data  *)
(* ends.                                                                   *)

Available(d, p) == Len(d.b) - p

SysRead(d, p, n) ==
    LET k == Min({n, Available(d, p), d.lim})
    IN  [n |-> k, v |-> SubSeq(d.b, p + 1, p + k), p |-> p + k]

LibRead(d, p, n) ==
    LET k == Min({n, Available(d, p)})
    IN  [n |-> k, v |-> SubSeq(d.b, p + 1, p + k), p |-> p + k]

\* A write that finds no room fails; one that finds too little is short.
SysWrite(d, b) ==
    LET k == Min({Len(b), d.room - Len(d.b)})
    IN  [n |-> IF k = 0 /\ b # <<>> THEN -1 ELSE k,
         d |-> [d EXCEPT !.b = @ \o SubSeq(b, 1, k)]]

\* Two reads, of two bytes and of the rest, by the calls of one library.
CallRead(call, d, p, n) == IF call = "sys" THEN SysRead(d, p, n) ELSE LibRead(d, p, n)
ReadBy(call, d, p) ==
    LET two == CallRead(call, d, p, 2)
        bp == TwoBytesProcessed(two.v)
        more == CallRead(call, d, two.p, bp.sz - 1)
    IN  IF two.n # 2 THEN [n |-> -1, v |-> OfNat(0), p |-> two.p]
        ELSE IF bp.sz = 1
             THEN [n |-> 2, v |-> Decoded(<<two.v[2]>>, bp.encoding), p |-> two.p]
        ELSE IF more.n # bp.sz - 1 THEN [n |-> -1, v |-> OfNat(0), p |-> more.p]
        ELSE [n |-> bp.sz + 1, v |-> Decoded(<<two.v[2]>> \o more.v, bp.encoding),
              p |-> more.p]

\* One write of the whole vector.
WriteAll(d, v) ==
    LET buf == MakeNativeEndianWriteVector(v, d.host)
        w == SysWrite(d, buf)
    IN  [n |-> IF w.n = Len(buf) THEN w.n ELSE -1, d |-> w.d]

StreamRead(d, p) == ReadBy("lib", d, p)
StreamWrite(d, v) == WriteAll(d, v)

\* fread and fwrite of one item: 1 or 0.
FileRead(d, p) ==
    LET r == ReadBy("lib", d, p) IN [r EXCEPT !.n = IF @ > 0 THEN 1 ELSE 0]
FileWrite(d, v) ==
    LET w == WriteAll(d, v) IN [w EXCEPT !.n = IF @ > 0 THEN 1 ELSE 0]

FdRead(d, p) == ReadBy("sys", d, p)
FdWrite(d, v) == WriteAll(d, v)

BZRead(d, p) == ReadBy("lib", d, p)
BZWrite(d, v) == WriteAll(d, v)

GzRead(d, p) == ReadBy("lib", d, p)
GzWrite(d, v) == WriteAll(d, v)
-----------------------------------------------------------------------------
(* DwmEncodedSigned.hh: a signed integer on the wire is the encoded form   *)
(* of its magnitude with a sign bit in the start byte.  A value is the     *)
(* tuple of the W bytes of its two's complement.                           *)

IsNegative(v) == v[W] >= 128

\* ~v + 1, which is also what multiplying by -1 does to the bits; the least
\* value is its own negation (the built code wraps there).
Negate(v) ==
    LET carry[i \in 1..(W + 1)] ==
            IF i = 1 THEN 1 ELSE IF 255 - v[i - 1] + carry[i - 1] > 255 THEN 1 ELSE 0
    IN  [i \in 1..W |-> (255 - v[i] + carry[i]) % 256]

Magnitude(v) == IF IsNegative(v) THEN Negate(v) ELSE v

SignedSizeFromValue(v) == SizeFromValue(Magnitude(v))

SignedStreamedLength(v) == 1 + SignedSizeFromValue(v)

\* The bytes of the magnitude behind a start byte that tells the sign.
SignedWriteVector(v, host) ==
    LET buf == MakeNativeEndianWriteVector(Magnitude(v), host)
    IN  [buf EXCEPT ![1] = @ + (IF IsNegative(v) THEN 64 ELSE 0)]

\* The value from the start byte and the bytes behind it.
SignedDecoded(start, bytes) ==
    LET val == Decoded(bytes, TwoBytesProcessed(<<start>>).encoding)
    IN  IF (start \div 64) % 2 = 1 THEN Negate(val) ELSE val

\* Two reads, of two bytes and of the rest; what was read counts only when
\* both succeed.
SignedReadBy(call, d, p) ==
    LET two == CallRead(call, d, p, 2)
        sz == TwoBytesProcessed(two.v).sz
        more == CallRead(call, d, two.p, sz - 1)
    IN  IF two.n # 2 \/ (sz > 1 /\ more.n # sz - 1)
        THEN [n |-> -1, v |-> OfNat(0), p |-> two.p]
        ELSE [n |-> sz + 1, p |-> IF sz > 1 THEN more.p ELSE two.p,
              v |-> SignedDecoded(two.v[1], <<two.v[2]>> \o
                                  (IF sz > 1 THEN more.v ELSE <<>>))]

SignedWriteAll(d, v) ==
    LET buf == SignedWriteVector(v, d.host)
        w == SysWrite(d, buf)
    IN  [n |-> IF w.n = Len(buf) THEN w.n ELSE -1, d |-> w.d]

SignedStreamRead(d, p) == SignedReadBy("lib", d, p)
SignedStreamWrite(d, v) == SignedWriteAll(d, v)
SignedFileRead(d, p) ==
    LET r == SignedReadBy("lib", d, p) IN [r EXCEPT !.n = IF @ > 0 THEN 1 ELSE 0]
SignedFileWrite(d, v) ==
    LET w == SignedWriteAll(d, v) IN [w EXCEPT !.n = IF @ > 0 THEN 1 ELSE 0]
SignedFdRead(d, p) == SignedReadBy("sys", d, p)
SignedFdWrite(d, v) == SignedWriteAll(d, v)
SignedBZRead(d, p) == SignedReadBy("lib", d, p)
SignedBZWrite(d, v) == SignedWriteAll(d, v)
SignedGzRead(d, p) == SignedReadBy("lib", d, p)
SignedGzWrite(d, v) == SignedWriteAll(d, v)
=============================================================================
