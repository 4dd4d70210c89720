--------------------------- MODULE Ipv4PrefixMap ----------------------------
(***************************************************************************)
(* Ipv4PrefixMap: a hash map from prefixes to values, and how many of them *)
(* there are of each length.  Every operation holds the map's lock.        *)
(***************************************************************************)
EXTENDS Ipv4Prefix, FiniteSetsExt

CONSTANTS
    Keys,               \* the prefixes that the program uses
    Value,
    MaxEntries          \* bound on the entries

VARIABLES
    map,                \* _map: a function from prefixes to values
    lengthCounters,     \* _lengthCounters: a function from lengths
    answer              \* the last operation and what it returned

vars == <<map, lengthCounters, answer>>

None == [net |-> 0, len |-> W + 1]
Bind(f, x, v) == [y \in DOMAIN f \cup {x} |-> IF y = x THEN v ELSE f[y]]
Without(f, x) == [y \in DOMAIN f \ {x} |-> f[y]]
Said(call, b) == answer' = [call |-> call, ok |-> b, at |-> None]

\* Mutant: the counter goes with the first entry of its length.
CountDownAll(c, l) == Without(c, l)
\* One more or one less of a length: there is no counter of zero.
CountUp(c, l) == Bind(c, l, IF l \in DOMAIN c THEN c[l] + 1 ELSE 1)
CountDown(c, l) == IF c[l] = 1 THEN Without(c, l) ELSE [c EXCEPT ![l] = @ - 1]

Init == map = <<>> /\ lengthCounters = <<>> /\ answer = [call |-> <<>>, ok |-> TRUE, at |-> None]

Add(p, v) ==
    /\ p \in DOMAIN map \/ Cardinality(DOMAIN map) < MaxEntries
    /\ map' = Bind(map, p, v)
    /\ lengthCounters' = IF p \in DOMAIN map THEN lengthCounters ELSE CountUp(lengthCounters, p.len)
    /\ Said(<<"assign", p, v>>, TRUE)

Remove(p) ==
    /\ Said(<<"remove", p>>, p \in DOMAIN map)
    /\ IF p \in DOMAIN map
       THEN map' = Without(map, p) /\ lengthCounters' = CountDown(lengthCounters, p.len)
       ELSE UNCHANGED <<map, lengthCounters>>

Next == \E p \in Keys : Remove(p) \/ \E v \in Value : Add(p, v)

Spec == Init /\ [][Next]_vars

-----------------------------------------------------------------------------
(* Lookups: from the longest length with a counter down.                   *)

Find(p) == p \in DOMAIN map
FindLongest(a) ==
    LET hits == {l \in DOMAIN lengthCounters : Cut(New(a, W), l) \in DOMAIN map}
    IN  IF hits = {} THEN None ELSE Cut(New(a, W), Max(hits))
FindMatches(a) == {New(a, l) : l \in DOMAIN lengthCounters} \cap DOMAIN map

-----------------------------------------------------------------------------
(* Properties.                                                             *)

Promise == INSTANCE PrefixTable WITH
    Covers <- ContainsAddress, Before <- Less, table <- map

\* A lookup answers what the entries say, for every address.
LookupsExact ==
    \A a \in Address :
        LET matches == {p \in DOMAIN map : ContainsAddress(p, a)}
        IN  /\ FindMatches(a) = matches
            /\ FindLongest(a) = IF matches = {} THEN None
                                ELSE CHOOSE p \in matches : \A q \in matches : q.len <= p.len

\* The counters are exact.
Intact ==
    lengthCounters = [l \in {p.len : p \in DOMAIN map} |-> Cardinality({p \in DOMAIN map : p.len = l})]
=============================================================================
