--------------------------- MODULE Ipv6PrefixMap ----------------------------
(***************************************************************************)
(* Ipv6PrefixMap: a pair of a hash map from prefixes to values and of how  *)
(* many of them there are of each length.  Every operation holds the       *)
(* map's lock.                                                             *)
(***************************************************************************)
EXTENDS Ipv6Prefix, FiniteSetsExt

CONSTANTS
    Prefix,             \* the prefixes there are
    Keys,               \* the prefixes that the program uses
    Value,
    MaxEntries          \* bound on the entries, and on each counter

VARIABLES
    first,              \* _maps.first: a function from prefixes to values
    second,             \* _maps.second: a function from lengths
    answer              \* the last operation and what it returned

vars == <<first, second, answer>>

None == [net |-> 0, len |-> W + 1]
Bind(f, x, v) == [y \in DOMAIN f \cup {x} |-> IF y = x THEN v ELSE f[y]]
Only(f, S) == [y \in S |-> f[y]]
Said(call, b) == answer' = [call |-> call, ok |-> b, at |-> None]

\* One more or one less of a length: there is no counter of zero.
CountUp(c, l) == Bind(c, l, IF l \in DOMAIN c THEN c[l] + 1 ELSE 1)
CountDown(c, l) == IF c[l] = 1 THEN Only(c, DOMAIN c \ {l}) ELSE [c EXCEPT ![l] = @ - 1]

Init == first = <<>> /\ second = <<>> /\ answer = [call |-> <<>>, ok |-> TRUE, at |-> None]

Add(p, v) ==
    /\ \/ p \in DOMAIN first
       \/ /\ Cardinality(DOMAIN first) < MaxEntries
          /\ p.len \in DOMAIN second => second[p.len] < MaxEntries
    /\ first' = Bind(first, p, v)
    /\ second' = IF p \in DOMAIN first THEN second ELSE CountUp(second, p.len)
    /\ Said(<<"assign", p, v>>, TRUE)

\* The counter of an entry's length must be there: with none, after a failed
\* Read(), what happens is undefined and left out.
Remove(p) ==
    /\ Said(<<"remove", p>>, p \in DOMAIN first)
    /\ IF p \in DOMAIN first
       THEN /\ p.len \in DOMAIN second
            /\ first' = Only(first, DOMAIN first \ {p})
            /\ second' = CountDown(second, p.len)
       ELSE UNCHANGED <<first, second>>

Clear == first' = <<>> /\ second' = <<>> /\ Said(<<"clear">>, TRUE)

\* The map, then the counters, that another one has written.  They may end in
\* the map (the counters are those of before), or in the counters.
Exchanged(S, L) ==
    /\ first' = Only(first, S)
    /\ IF S = DOMAIN first
       THEN second' = Only(second, L)
       ELSE L = {} /\ UNCHANGED second
    /\ Said(<<"reload">>, S = DOMAIN first /\ L = DOMAIN second)

\* From a file, and from a peer.
Read(S, L) == Exchanged(S, L)
Receive(S, L) == Exchanged(S, L)

Next ==
    \/ \E p \in Keys : Remove(p) \/ \E v \in Value : Add(p, v)
    \/ Clear
    \/ \E S \in SUBSET DOMAIN first, L \in SUBSET DOMAIN second : Read(S, L) \/ Receive(S, L)

Spec == Init /\ [][Next]_vars

-----------------------------------------------------------------------------
(* Lookups: from the longest length with a counter down.                   *)

Find(p) == p \in DOMAIN first
FindLongestNoLock(a) ==
    LET hits == {l \in DOMAIN second : Cut(New(a, W), l) \in DOMAIN first}
    IN  IF hits = {} THEN None ELSE Cut(New(a, W), Max(hits))
FindMatchesNoLock(a) == {New(a, l) : l \in DOMAIN second} \cap DOMAIN first

\* With a lock of their own, or under the caller's.
FindLongest(a) == FindLongestNoLock(a)
FindMatches(a) == FindMatchesNoLock(a)

-----------------------------------------------------------------------------
(* Properties.                                                             *)

Promise == INSTANCE PrefixTable WITH
    Address <- 0..Top, Covers <- ContainsAddress, Before <- Less, table <- first

\* Until a Read() fails, the counters are exact; after it there may be
\* entries without a counter, never a Find() that misses.
Exact == second = [l \in {p.len : p \in DOMAIN first} |-> Cardinality({p \in DOMAIN first : p.len = l})]

\* A lookup answers what the entries say, for every address, while every
\* length of an entry has its counter; else it misses, and never invents.
LookupsExact ==
    \A a \in 0..Top :
        LET matches == {p \in DOMAIN first : ContainsAddress(p, a)}
        IN  /\ FindMatches(a) \subseteq matches
            /\ {p.len : p \in DOMAIN first} \subseteq DOMAIN second =>
                   /\ FindMatches(a) = matches
                   /\ FindLongest(a) = IF matches = {} THEN None
                                       ELSE CHOOSE p \in matches : \A q \in matches : q.len <= p.len
=============================================================================
