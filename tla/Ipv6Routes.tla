----------------------------- MODULE Ipv6Routes -----------------------------
(***************************************************************************)
(* Ipv6Routes: for each length that was ever used a hash map from prefixes *)
(* to values.                                                              *)
(***************************************************************************)
EXTENDS Ipv6Prefix, FiniteSetsExt

CONSTANTS
    Prefix,             \* the prefixes there are
    Keys,               \* the prefixes that the program uses
    Value,
    MaxEntries          \* bound on the entries

VARIABLES
    hashes,             \* _hashes: from lengths to functions from prefixes to values
    answer              \* the last operation and what it returned

vars == <<hashes, answer>>

None == [net |-> 0, len |-> W + 1]
Bind(f, x, v) == [y \in DOMAIN f \cup {x} |-> IF y = x THEN v ELSE f[y]]
Entry == UNION {DOMAIN hashes[l] : l \in DOMAIN hashes}
size == Cardinality(Entry)

Init == hashes = <<>> /\ answer = [call |-> <<>>, ok |-> TRUE, at |-> None]

\* operator [], which is assigned to: a length has its map from then on.
Index(p, v) ==
    /\ p \in Entry \/ size < MaxEntries
    /\ hashes' = Bind(hashes, p.len, IF p.len \in DOMAIN hashes THEN Bind(hashes[p.len], p, v)
                                     ELSE Bind(<<>>, p, v))
    /\ answer' = [call |-> <<"assign", p, v>>, ok |-> TRUE, at |-> None]

clear == hashes' = <<>> /\ answer' = [call |-> <<"clear">>, ok |-> TRUE, at |-> None]

Next == clear \/ \E p \in Keys, v \in Value : Index(p, v)

Spec == Init /\ [][Next]_vars

\* From the longest map down, the address is cut to the length of the map.
FindLongestMatch(a) ==
    LET hits == {l \in DOMAIN hashes : Cut(New(a, W), l) \in DOMAIN hashes[l]}
    IN  IF hits = {} THEN None ELSE Cut(New(a, W), Max(hits))

-----------------------------------------------------------------------------
(* Properties.                                                             *)

Contents == [p \in Entry |-> hashes[p.len][p]]

Promise == INSTANCE PrefixTable WITH
    Address <- 0..Top, Covers <- ContainsAddress, Before <- Less, table <- Contents

\* A lookup answers what the entries say, for every address.
LookupsExact ==
    \A a \in 0..Top :
        LET matches == {p \in Entry : ContainsAddress(p, a)}
        IN  FindLongestMatch(a) = IF matches = {} THEN None
                                  ELSE CHOOSE p \in matches : \A q \in matches : q.len <= p.len
=============================================================================
