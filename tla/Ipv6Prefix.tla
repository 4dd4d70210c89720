----------------------------- MODULE Ipv6Prefix -----------------------------
(***************************************************************************)
(* IPv6 prefixes: a number of leading bits that count (len) and an address *)
(* of W bits (net), whose other bits are zero unless Set() left them.      *)
(***************************************************************************)
EXTENDS Integers, Sequences, FiniteSets

CONSTANT W              \* bits of an address: 128

Top == 2^W - 1

\* SetBits() and the table of masks: l ones, then zeros.
Mask(l) == 2^W - 2^(W - l)

\* MaskBits(): the address and the mask.
MaskBits(a, l) == a - (a % 2^(W - l))

New(network, maskLength) == [net |-> MaskBits(network, maskLength), len |-> maskLength]

\* Set(): nothing is masked.
Set(network, maskLength) == [net |-> network, len |-> maskLength]

\* MaskLength(maskLen), which may also be longer than it was.
Cut(p, maskLen) == New(p.net, maskLen)

Netmask(p) == Mask(p.len)
FirstAddress(p) == p.net
LastAddress(p) == MaskBits(p.net, p.len) + 2^(W - p.len) - 1

\* The first bit, from 0, in which two addresses differ; W if none does.
FirstOneBit(a, b) ==
    LET differ == {i \in 0..(W - 1) : (a \div 2^(W - 1 - i)) % 2 # (b \div 2^(W - 1 - i)) % 2}
    IN  IF differ = {} THEN W ELSE CHOOSE i \in differ : \A j \in differ : i <= j

ContainsAddress(p, a) == FirstOneBit(p.net, a) >= p.len
Contains(p, q) == p.len <= q.len /\ FirstOneBit(p.net, q.net) >= p.len

Less(p, q) == p.net < q.net \/ (p.net = q.net /\ p.len < q.len)
Greater(p, q) == p.net > q.net \/ (p.net = q.net /\ p.len > q.len)

\* Bits that do not count are zero.
Bit(p, b) == b < p.len /\ (p.net \div 2^(W - 1 - b)) % 2 = 1

\* ++, for all but the prefixes that end with the last address: adding one to
\* it runs over the start of the address.
NextPrefix(p) == Set(LastAddress(p) + 1, p.len)
=============================================================================
