----------------------------- MODULE Ipv4Ranges -----------------------------
(***************************************************************************)
(* Ipv4RangePrefixes(): the prefixes that make up a range of addresses.    *)
(***************************************************************************)
EXTENDS Ipv4Prefix

VARIABLES
    range,              \* the two addresses that are given
    prefixes            \* the vector that is returned

vars == <<range, prefixes>>

\* The loop: wider by a bit while the prefix starts and ends in the range.
\* The length is a number of eight bits.
WidestFrom(first, last) ==
    LET widest[p \in Prefix] ==
            LET wider == Set(p, first, (p.len - 1) % 256)
            IN  IF FirstAddress(wider) >= first /\ LastAddress(wider) <= last THEN widest[wider] ELSE p
    IN  widest[New(first, W)]

\* The widest prefix that starts with the range, and the rest.
PrefixesOf(first, last) ==
    LET from[a \in first..last] ==
            LET p == WidestFrom(a, last)
            IN  <<p>> \o (IF LastAddress(p) < last THEN from[IncAddress(LastAddress(p))] ELSE <<>>)
    IN  from[first]

\* Of all addresses: below length 0 Set() refuses, and the loop does not end.
NeverEnds == {range[1], range[2]} = {0, Top}

Init == range \in Address \X Address /\ prefixes = <<>>

RangePrefixes ==
    /\ prefixes = <<>>
    /\ ~NeverEnds
    /\ prefixes' = IF range[2] > range[1] THEN PrefixesOf(range[1], range[2])
                   ELSE PrefixesOf(range[2], range[1])
    /\ UNCHANGED range

Next == RangePrefixes

Spec == Init /\ [][Next]_vars

-----------------------------------------------------------------------------
\* "the minimal set of IPv4 prefixes that cover the entire range": they
\* follow each other from one end to the other, and none could be wider.
RangeExact ==
    LET first == IF range[1] < range[2] THEN range[1] ELSE range[2]
        last == IF range[1] < range[2] THEN range[2] ELSE range[1]
        n == Len(prefixes)
    IN  n > 0 =>
          /\ FirstAddress(prefixes[1]) = first /\ LastAddress(prefixes[n]) = last
          /\ \A i \in 1..(n - 1) : FirstAddress(prefixes[i + 1]) = LastAddress(prefixes[i]) + 1
          /\ \A i \in 1..n : ~(/\ FirstAddress(Wider(prefixes[i], 1)) >= first
                               /\ LastAddress(Wider(prefixes[i], 1)) <= last)
=============================================================================
