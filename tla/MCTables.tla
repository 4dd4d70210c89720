------------------------------ MODULE MCTables ------------------------------
(***************************************************************************)
(* The tables of prefixes and addresses on small instances, one of them at *)
(* a time: three bits to an address, ten of the fifteen prefixes.          *)
(***************************************************************************)
EXTENDS Ipv4Prefix

CONSTANTS Keys, Value, MaxEntries, Subjects

ASSUME KeysAssumption == Keys \subseteq Prefix

VARIABLES subject, store, counters, answer

vars == <<subject, store, counters, answer>>

\* No action and no invariant reads the answer, only what a step promises.
View == <<subject, store, counters>>

P(n, l) == [net |-> n, len |-> l]
SomeKeys == {P(0, 0), P(0, 1), P(4, 1), P(0, 2), P(2, 2), P(4, 2), P(0, 3), P(1, 3), P(2, 3), P(7, 3)}

Trie4 == INSTANCE Ipv4PrefixPatricia WITH trie <- store
Trie6 == INSTANCE Ipv6PrefixPatricia WITH Value <- {1}, trie <- store
Routes4 == INSTANCE Ipv4Routes WITH hashMaps <- store
Routes6 == INSTANCE Ipv6Routes WITH hashes <- store
Map4 == INSTANCE Ipv4PrefixMap WITH map <- store, lengthCounters <- counters
Map6 == INSTANCE Ipv6PrefixMap WITH MaxEntries <- 2, first <- store, second <- counters
Addrs == INSTANCE AddrMap WITH map <- store
Ranges == INSTANCE Ipv4Ranges WITH range <- store, prefixes <- counters

NoAnswer == [call |-> <<>>, ok |-> TRUE, at |-> P(0, W + 1)]
Init ==
    /\ subject \in Subjects
    /\ \/ subject = "trie4" /\ Trie4!Init /\ counters = <<>>
       \/ subject = "trie6" /\ Trie6!Init /\ counters = <<>>
       \/ subject = "routes4" /\ Routes4!Init /\ counters = <<>>
       \/ subject = "routes6" /\ Routes6!Init /\ counters = <<>>
       \/ subject = "map4" /\ Map4!Init
       \/ subject = "map6" /\ Map6!Init
       \/ subject = "addrs" /\ Addrs!Init /\ counters = <<>>
       \/ subject = "ranges" /\ Ranges!Init /\ answer = NoAnswer

Next ==
    \/ subject = "trie4" /\ Trie4!Next /\ UNCHANGED <<subject, counters>>
    \/ subject = "trie6" /\ Trie6!Next /\ UNCHANGED <<subject, counters>>
    \/ subject = "routes4" /\ Routes4!Next /\ UNCHANGED <<subject, counters>>
    \/ subject = "routes6" /\ Routes6!Next /\ UNCHANGED <<subject, counters>>
    \/ subject = "map4" /\ Map4!Next /\ UNCHANGED subject
    \/ subject = "map6" /\ Map6!Next /\ UNCHANGED subject
    \/ subject = "addrs" /\ Addrs!Next /\ UNCHANGED <<subject, counters>>
    \/ subject = "ranges" /\ Ranges!Next /\ UNCHANGED <<subject, answer>>

Spec == Init /\ [][Next]_vars

\* Every lookup of every table answers what its entries say, and
\* Ipv4RangePrefixes() returns the minimal prefixes of a range.
LookupsExact ==
    CASE subject = "trie4" -> Trie4!LookupsExact
      [] subject = "trie6" -> Trie6!LookupsExact
      [] subject = "routes4" -> Routes4!LookupsExact
      [] subject = "routes6" -> Routes6!LookupsExact
      [] subject = "map4" -> Map4!LookupsExact
      [] subject = "map6" -> Map6!LookupsExact
      [] subject = "ranges" -> Ranges!RangeExact
      [] OTHER -> TRUE

\* The tries are compressed and can be walked both ways, and counters count.
Intact ==
    CASE subject = "trie4" -> Trie4!Intact
      [] subject = "trie6" -> Trie6!Intact
      [] subject = "map4" -> Map4!Intact
      [] OTHER -> TRUE

\* Aggregate() and Coalesce() change no route.
AggregationKeepsRoutes ==
    [][/\ subject = "trie4" => Trie4!AggregationKeepsRoutes
       /\ subject = "routes4" => Routes4!AggregationKeepsRoutes]_vars

\* Each table does what PrefixTable promises, and answers so.
ImplementsTable ==
    [][/\ subject = "trie4" => Trie4!Promise!Step
       /\ subject = "trie6" => Trie6!Promise!Step
       /\ subject = "routes4" => Routes4!Promise!Step
       /\ subject = "routes6" => Routes6!Promise!Step
       /\ subject = "map4" => Map4!Promise!Step
       /\ subject = "map6" => Map6!Promise!Step
       /\ subject = "addrs" => Addrs!Promise!Step]_vars
=============================================================================
