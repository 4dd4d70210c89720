----------------------------- MODULE Ipv4Prefix -----------------------------
(***************************************************************************)
(* IPv4 addresses and prefixes: an address is a number of W bits in host   *)
(* order, a prefix the number of its leading bits that count (len) and an  *)
(* address whose other bits are zero (net).                                *)
(***************************************************************************)
EXTENDS Integers, Sequences, FiniteSets

CONSTANT W              \* bits of an address: 32
ASSUME WAssumption == W \in 1..254     \* what a length of 8 bits can count, -1 being none of them

Top == 2^W - 1          \* 255.255.255.255
Address == 0..Top
Prefix == {p \in [net : Address, len : 0..W] : p.net % 2^(W - p.len) = 0}

-----------------------------------------------------------------------------
(* Ipv4Address: counting saturates.                                        *)

IncAddress(a) == IF a # Top THEN a + 1 ELSE a
DecAddress(a) == IF a # 0 THEN a - 1 ELSE a
SubAddress(a, i) == IF a >= i THEN a - i ELSE 0
AddAddress(a, i) == IF (a + i) % 2^W >= a THEN (a + i) % 2^W ELSE Top

-----------------------------------------------------------------------------
(* Ipv4Prefix.                                                             *)

\* The bits of an address that count in a prefix of length l.
Masked(a, l) == a - (a % 2^(W - l))

\* Set(network, maskLength) of a prefix p: a length above 32 changes nothing.
Set(p, network, maskLength) ==
    IF maskLength > W THEN p ELSE [net |-> Masked(network, maskLength), len |-> maskLength]

\* Ipv4Prefix(network, maskLength), for a length of at most 32.
New(network, maskLength) == [net |-> Masked(network, maskLength), len |-> maskLength]

\* MaskLength(maskLength): bits are only ever cut off.
Cut(p, maskLength) ==
    IF maskLength < p.len THEN New(p.net, maskLength)
    ELSE IF maskLength <= W THEN [p EXCEPT !.len = maskLength]
    ELSE p

\* The length of a netmask: as many leading ones as it has; the others must
\* be zeros.
Netmask(p) == Top - (Top % 2^(W - p.len))
LengthOfNetmask(mask) == CHOOSE l \in 0..W : mask = Netmask([net |-> 0, len |-> l])

Bit(p, b) == (p.net \div 2^(W - 1 - b)) % 2 = 1

FirstAddress(p) == p.net
LastAddress(p) == p.net + 2^(W - p.len) - 1

ContainsAddress(p, a) == Masked(a, p.len) = p.net
Contains(p, q) == q.len >= p.len /\ Masked(q.net, p.len) = p.net

Less(p, q) == p.net < q.net \/ (p.net = q.net /\ p.len < q.len)
Greater(p, q) == p.net > q.net \/ (p.net = q.net /\ p.len > q.len)

LowerAdjacent(p, q) == IncAddress(LastAddress(q)) = FirstAddress(p)
UpperAdjacent(p, q) == DecAddress(FirstAddress(q)) = LastAddress(p)
Adjacent(p, q) == LowerAdjacent(p, q) \/ UpperAdjacent(p, q)

\* Combine(): whether two prefixes are one, and which one; {} for none.  A
\* prefix that is saturated (the last address) is adjacent to itself.
Combine(p, q) ==
    IF Adjacent(p, q) /\ p.len = q.len
    THEN LET wider == Set([net |-> 0, len |-> 0], q.net, p.len - 1)
         IN  IF Contains(wider, p) /\ Contains(wider, q) THEN {wider} ELSE {}
    ELSE IF Contains(p, q) THEN {p}
    ELSE IF Contains(q, p) THEN {q}
    ELSE {}

\* ++ and --: the last prefix of a length is followed by itself.
NextPrefix(p) == Set(p, IncAddress(LastAddress(p)), p.len)
PreviousPrefix(p) == IF FirstAddress(p) # 0 THEN Set(p, DecAddress(FirstAddress(p)), p.len) ELSE p

Wider(p, bits) == IF p.len > bits THEN New(p.net, p.len - bits) ELSE New(0, 0)
=============================================================================
