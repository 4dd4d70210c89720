--------------------------- MODULE ValueExchange ---------------------------
(***************************************************************************)
(* A program writes values through one of the I/O classes, as long as it   *)
(* is told that they were written; what is stored may lose its tail (a     *)
(* crash, a full disk, a peer that closes); another program, on a machine  *)
(* of another byte order maybe, reads the values back through a class that *)
(* uses the same format, as long as it is told that they were read.        *)
(*                                                                         *)
(* A case is a record: "t" a type and "vs" the values of it to be written. *)
(***************************************************************************)
EXTENDS ValueClasses

CONSTANTS Cases, Rooms

VARIABLES
    case,       \* what is written
    via,        \* [by, ord]: the class, and the byte order: "net" or "host"
    device,     \* what is stored, and what limits reading and writing it
    phase,      \* "write", "stored", "read" or "done"
    told,       \* the counts returned for the values said to be written
    ends,       \* where the device ended after each of them
    cut,        \* the tail was lost
    reader,     \* the class that reads
    pos,        \* where it reads
    got         \* the values said to be read

vars == <<case, via, device, phase, told, ends, cut, reader, pos, got>>

Lengths == INSTANCE IOTypes

Length(t, v) ==
    IF t.k = "own" THEN OwnLength(t.name, v) ELSE Lengths!LengthOf(t, v)

-----------------------------------------------------------------------------
(* What the classes can do with a type, by the kinds it is made of.        *)

RECURSIVE Parts(_)
Parts(t) ==
    {t} \cup (CASE t.k \in {"pair", "tuple", "fixed", "gathered", "class", "variant"} ->
                       UNION {Parts(t.of[i]) : i \in DOMAIN t.of}
                [] t.k \in {"enum", "array", "bounded", "vector", "sequence", "set", "map",
                            "hashmap", "hashset", "pointer", "optional", "atomic"} -> Parts(t.of)
                [] OTHER -> {})
Named(t, names) == t.k = "own" /\ t.name \in names
Has(t, kinds) == \E part \in Parts(t) : part.k \in kinds
Strings == {"string", "view"}
Containers == {"vector", "sequence", "set", "map", "hashmap", "hashset"}

Supported(by, ord, t) ==
    /\ t.k = "own" => OwnSupported(by, ord, t.name)
    /\ ~Has(t, {"class"}) \/ by \in {"Descriptor", "Stream", "File", "ASIO"}
    /\ ~Has(t, {"union"}) \/ by \in {"Descriptor", "Stream"}
    /\ ~Has(t, {"view", "encoded", "signed"}) \/ by # "ASIO"
    /\ ~Has(t, {"gathered"}) \/ by = "Descriptor"
Classes == {[by |-> by, ord |-> "net"] :
                by \in {"Descriptor", "Stream", "File", "GZ", "BZ2", "ASIO"}}
           \cup {[by |-> by, ord |-> "host"] : by \in {"Descriptor", "Stream"}}

\* Where the formats of the classes differ.
Peculiar(by) == CASE by = "File" -> Strings
                  [] by = "ASIO" -> Strings \cup Containers
                  [] by = "Stream" -> {"bounded"}
                  [] OTHER -> {}
SameFormat(a, b, ord, t) ==
    a = b \/ (ord = "net" /\ ~Has(t, Peculiar(a) \cup Peculiar(b) \cup {"union"}))

\* What lies on the device as it lay in memory.
HostBound(t) == \E part \in Parts(t) :
                    part.k = "union" \/ (part.k = "gathered" /\ Has(part, {"float"}))

\* What a class cannot read back that it has written: the readers of
\* StreamIO's vectors and bounded arrays and of FileIO's strings expect
\* another format than the writers use.
Unreadable(by, ord, t) ==
    \E part \in Parts(t) :
        \/ by = "File" /\ part.k = "view"
        \/ by = "Stream" /\ part.k = "vector" /\ part.of.k = "char"
        \/ by = "Stream" /\ ord = "host" /\ part.k = "vector" /\ part.of.k \in {"int", "float"}
        \/ by = "Stream" /\ ord = "net" /\ part.k = "bounded" /\ part.of.k \notin {"char", "int"}

\* A prefix without address bytes cannot be written to a stdio stream, and
\* on a socket none with fewer than 121 bits, nor read with more than eight.
Refused(by, t, v) ==
    Named(t, {"Ipv6Prefix"}) /\ (by = "ASIO" \/ (by = "File" /\ v[1] = 0))

\* The scalars (and the index of a variant) for which a short count is above
\* zero and so not taken as a failure by what is made of them.
ShortRead(by, ord, t) ==
    CASE by = "Descriptor" -> t.k = "float" \/ (ord = "host" /\ t.k \in {"int", "variant"})
      [] by = "GZ" -> t.k = "float" \/ (t.k = "int" /\ t.n # 8)
      [] by = "BZ2" -> t.k = "int" /\ t.n # 8
      [] OTHER -> FALSE
ShortWrite(by, ord, t) ==
    CASE by = "Descriptor" -> t.k \in {"int", "variant"} \/ (ord = "host" /\ t.k = "float")
      [] by \in {"GZ", "BZ2"} -> t.k = "int" /\ t.n # 8
      [] OTHER -> FALSE
Composite(t) == t.k \notin {"int", "float", "enum", "atomic"}
\* Lengths that a big-endian host reads from a compressed file as the bytes
\* lie there, which a little-endian host may have written.
Misordered(by, t) ==
    Named(t, {"SizedLength"}) /\ by \in {"GZ", "BZ2"} /\ device.host = "big"
TrustedReader(by, ord, t) ==
    /\ Counting(by) => ~Has(t, {"variant"}) /\ ~Named(t, {"Ipv6Prefix"})
    /\ ~Misordered(by, t)
    /\ Composite(t) /\ t.k # "gathered" => ~\E part \in Parts(t) : ShortRead(by, ord, part)
TrustedWriter(by, ord, t) ==
    /\ Counting(by) => ~Has(t, Containers) /\ ~Named(t, {"Ipv6Prefix"})
    /\ Composite(t) /\ t.k # "gathered" => ~\E part \in Parts(t) : ShortWrite(by, ord, part)

\* What a caller takes as success: the streamed length of a class that has
\* the same one for all its objects, a scalar's full count, or any count above
\* zero of what is made of scalars.
Success(by, t, n) ==
    IF ~Counting(by) THEN n > 0
    ELSE IF t.k = "own" THEN (IF OwnSize(t.name) = 0 THEN n > 0 ELSE n = OwnSize(t.name))
    ELSE IF Composite(t) THEN n > 0 ELSE n = Size(t)

-----------------------------------------------------------------------------
Init ==
    /\ case \in Cases
    /\ via \in {c \in Classes : Supported(c.by, c.ord, case.t)}
    /\ device \in [b : {<<>>}, host : {"little", "big"}, lim : {Unlimited}, room : Rooms]
    /\ phase = "write"
    /\ told = <<>> /\ ends = <<>>
    /\ cut = FALSE
    /\ reader = via.by
    /\ pos = 0
    /\ got = <<>>

\* The next value; the first failure that is reported ends the writing.
Written(w, ok) ==
    /\ device' = w.d
    /\ told' = IF ok THEN Append(told, w.n) ELSE told
    /\ ends' = IF ok THEN Append(ends, Len(w.d.b)) ELSE ends
    /\ phase' = IF ok /\ Len(told) + 1 < Len(case.vs) THEN "write" ELSE "stored"
WriteNext ==
    /\ phase = "write"
    /\ \E w \in {WriteBy(via.by, via.ord, case.t, case.vs[Len(told) + 1], device)} :
            Written(w, Success(via.by, case.t, w.n))
    /\ UNCHANGED <<case, via, cut, reader, pos, got>>

\* A reader opens what was stored, all of it or, once, less.
Open ==
    /\ phase = "stored"
    /\ phase' = "read"
    /\ \/ /\ cut' = FALSE
          /\ \E r \in {c.by : c \in {x \in Classes : Supported(x.by, x.ord, case.t)}}, h \in {"little", "big"} :
                /\ SameFormat(via.by, r, via.ord, case.t)
                /\ (via.ord = "host" \/ HostBound(case.t)) => h = device.host
                /\ reader' = r
                /\ device' = [device EXCEPT !.host = h]
       \/ /\ cut' = TRUE
          /\ device.room = Unlimited
          /\ \E k \in 0..(Len(device.b) - 1), l \in {1, Unlimited} :
                device' = [device EXCEPT !.b = SubSeq(@, 1, k), !.lim = l]
          /\ UNCHANGED reader
    /\ UNCHANGED <<case, via, told, ends, pos, got>>

Taken(r, ok) ==
    /\ got' = IF ok THEN Append(got, r.v) ELSE got
    /\ pos' = r.p
    /\ phase' = IF ok /\ Len(got) + 1 < Len(case.vs) THEN "read" ELSE "done"
ReadNext ==
    /\ phase = "read"
    /\ \E r \in {ReadWith(reader, via.ord, case.t, device, pos)} :
            Taken(r, Success(reader, case.t, r.n))
    /\ UNCHANGED <<case, via, device, told, ends, cut, reader>>

Next == WriteNext \/ Open \/ ReadNext

Spec == Init /\ [][Next]_vars

-----------------------------------------------------------------------------
(* Properties.                                                             *)

\* What is said to be read was written at that place, whatever was lost and
\* however short the calls were.
ReadSaidTrue == \A i \in DOMAIN got : got[i] = case.vs[i]

\* The same for the readers and types that do not take a short count, or the
\* failure of an alternative, for a success.
ReadIsWritten == TrustedReader(reader, via.ord, case.t) => ReadSaidTrue

\* What is said to be written is stored: as many bytes as it takes.
Extent(v) == Len(WriteBy(via.by, via.ord, case.t, v,
                         [device EXCEPT !.b = <<>>, !.room = Unlimited]).d.b)
WriteSaidTrue ==
    \A i \in DOMAIN ends :
        ends[i] - (IF i = 1 THEN 0 ELSE ends[i - 1]) = Extent(case.vs[i])

\* The same for the writers and types that do not take a short count, or the
\* failure of an entry, for a success.
WriteIsStored == TrustedWriter(via.by, via.ord, case.t) => WriteSaidTrue

\* All that is said to be written and was not lost is read back, by every
\* class that uses the same format, on a machine of any byte order.
NothingLost ==
    (/\ phase = "done" /\ ~cut
     /\ device.room = Unlimited
     /\ ~Unreadable(reader, via.ord, case.t) /\ ~Misordered(reader, case.t)
     /\ \A i \in DOMAIN case.vs : ~\E by \in {via.by, reader} : Refused(by, case.t, case.vs[i])) =>
        got = case.vs

\* The length computed beforehand is the number of bytes that are written,
\* and the count returned for them.
Lengthy == ~Named(case.t, {"SizedLength"}) /\ ~Has(case.t, {"bounded", "pointer", "optional", "class", "gathered", "union"})
LengthExact ==
    (/\ device.room = Unlimited
     /\ via.by \in {"Descriptor", "GZ", "BZ2"}
     /\ Lengthy) =>
        \A i \in DOMAIN told : \E n \in {Extent(case.vs[i])} :
            /\ Length(case.t, case.vs[i]) = n
            /\ (via.by = "BZ2" => ~Has(case.t, {"view"})) => told[i] = n
=============================================================================
