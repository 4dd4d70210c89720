------------------------------ MODULE AddrMap -------------------------------
(***************************************************************************)
(* Ipv4AddrMap and Ipv6AddrMap: a hash map from addresses to values.  Every*)
(* operation holds the map's lock, its own one or one that the caller      *)
(* holds over several operations.                                          *)
(***************************************************************************)
EXTENDS Integers, FiniteSets

CONSTANTS
    W,                  \* bits of an address
    Keys,               \* the prefixes that the program uses
    Value,
    MaxEntries          \* bound on the entries

VARIABLES
    map,                \* _map: a function from addresses to values
    answer              \* the last operation and what it returned

vars == <<map, answer>>

None == [net |-> 0, len |-> W + 1]
Bind(f, x, v) == [y \in DOMAIN f \cup {x} |-> IF y = x THEN v ELSE f[y]]
Only(f, S) == [y \in S |-> f[y]]
Said(call, b) == answer' = [call |-> call, ok |-> b, at |-> None]
Address == {p.net : p \in Keys}
Whole(a) == [net |-> a, len |-> W]      \* the prefix of all its bits

Init == map = <<>> /\ answer = [call |-> <<>>, ok |-> TRUE, at |-> None]

Add(a, v) ==
    /\ a \in DOMAIN map \/ Cardinality(DOMAIN map) < MaxEntries
    /\ map' = Bind(map, a, v)
    /\ Said(<<"assign", Whole(a), v>>, TRUE)

Remove(a) == map' = Only(map, DOMAIN map \ {a}) /\ Said(<<"remove", Whole(a)>>, a \in DOMAIN map)

Clear == map' = <<>> /\ Said(<<"clear">>, TRUE)

\* Ipv6AddrMap only: what Write() wrote, of which the entries S can be read.
Read(S) == map' = Only(map, S) /\ Said(<<"reload">>, S = DOMAIN map)

\* The same from a peer, which may close before its last entry.
Receive(S) == map' = Only(map, S) /\ Said(<<"reload">>, S = DOMAIN map)

Next ==
    \/ \E a \in Address : Remove(a) \/ \E v \in Value : Add(a, v)
    \/ Clear
    \/ \E S \in SUBSET DOMAIN map : Read(S) \/ Receive(S)

Spec == Init /\ [][Next]_vars

\* As a table of prefixes of all the bits of an address.
Contents == [p \in [net : DOMAIN map, len : {W}] |-> map[p.net]]
Promise == INSTANCE PrefixTable WITH
    Address <- 0..(2^W - 1), Prefix <- [net : 0..(2^W - 1), len : {W}],
    Covers <- LAMBDA p, a : p.net = a, Before <- LAMBDA p, q : p.net < q.net,
    table <- Contents
=============================================================================
