------------------------- MODULE Ipv4PrefixPatricia -------------------------
(***************************************************************************)
(* Ipv4PrefixPatricia: a trie of IPv4 prefixes with values.                *)
(***************************************************************************)
EXTENDS Ipv4Prefix, TLC

CONSTANTS
    Keys,               \* the prefixes that the program uses
    Value,              \* the values, none of which is ValueType{}
    MaxEntries          \* bound on the entries

VARIABLES
    trie,               \* _root, the nodes and _size
    answer              \* the last operation and what it returned

vars == <<trie, answer>>

\* countl_zero() of the bits that differ, below maxBits.
firstDiffBit(a, b, maxBits) ==
    LET differ == {i \in 0..(maxBits - 1) : Bit(a, i) # Bit(b, i)}
    IN  IF differ = {} THEN -1 ELSE CHOOSE i \in differ : \A j \in differ : i <= j

T == INSTANCE PatriciaTrie
Seqs == INSTANCE SequencesExt

-----------------------------------------------------------------------------
(* Aggregate().                                                            *)

\* At a position of a sorted list: a lower half and the upper half after it
\* are one, unless their whole is an entry.
CombineAt(t, ps, i) ==
    LET wider == Cut(ps[i], (ps[i].len - 1) % 256)
        halves == /\ ps[i].len > 0 => ~Bit(ps[i], ps[i].len - 1)
                  /\ ps[i].len = ps[i + 1].len
                  /\ Contains(wider, ps[i + 1])
    IN  IF i < Len(ps) /\ halves /\ T!find(t, wider) = T!Nil
        THEN [j \in 1..(Len(ps) - 1) |-> CASE j < i -> ps[j] [] j = i -> wider [] j > i -> ps[j + 1]]
        ELSE ps

\* One walk over the list, and walks until nothing changes.
CombineOnce(t, ps) ==
    LET walk[i \in 0..Len(ps)] == IF i = 0 THEN ps ELSE CombineAt(t, walk[i - 1], i)
    IN  walk[Len(ps)]
CombineAdjacents(t, ps) ==
    LET combined[qs \in Seq(Prefix)] ==
            IF CombineOnce(t, qs) = qs THEN qs ELSE combined[CombineOnce(t, qs)]
    IN  combined[ps]

\* Mutant: an entry goes whatever lies between it and the wider one.
StaysOutside(t, p, q, v) == ~Contains(p, q)
\* An entry q in a wider one p of the list goes, unless the trie has a wider
\* one with another value.
Stays(t, p, q, v) ==
    \/ ~Contains(p, q)
    \/ \E i \in DOMAIN T!find_wider(t, q) : t.val[T!find_wider(t, q)[i]] # v
\* Those of a list that no one that stays before them makes go.
DropContained(t, ps, v) ==
    LET kept[j \in DOMAIN ps] == \A i \in 1..(j - 1) : kept[i] => Stays(t, ps[i], ps[j], v)
    IN  {ps[j] : j \in {i \in DOMAIN ps : kept[i]}}

\* sort().
Sorted(S) ==
    [i \in 1..Cardinality(S) |-> CHOOSE p \in S : Cardinality({q \in S : Less(q, p)}) = i - 1]

\* The entries of a value that remain.
CombinePrefixes(t, v) ==
    LET ps == Sorted({p \in Seqs!ToSet(T!Entries(t)) : t.val[p] = v})
    IN  DropContained(t, CombineAdjacents(t, ps), v)

\* All of them in an empty trie.
Aggregated(t) ==
    LET values == {t.val[p] : p \in Seqs!ToSet(T!Entries(t))}
    IN  T!InsertAll(Seqs!SetToSeq(UNION {CombinePrefixes(t, v) \X {v} : v \in values}))

-----------------------------------------------------------------------------
Init == trie = T!Empty /\ answer = [call |-> <<>>, ok |-> TRUE, at |-> T!Nil]

Entry == T!Entry(trie)
Room(p) == p \in Entry \/ Cardinality(Entry) < MaxEntries
Said(call, b) == answer' = [call |-> call, ok |-> b, at |-> T!Nil]

Insert(p, v) ==
    /\ Room(p)
    /\ trie' = T!insert(trie, p, v).t
    /\ Said(<<"insert", p, v>>, T!insert(trie, p, v).inserted)

Assign(p, v) == Room(p) /\ trie' = T!Assign(trie, p, v) /\ Said(<<"assign", p, v>>, TRUE)

Remove(p) == trie' = T!Remove(trie, p).t /\ Said(<<"remove", p>>, T!Remove(trie, p).removed)

Erase(p) ==
    /\ T!Iterable(trie)
    /\ T!find(trie, p) # T!Nil
    /\ trie' = T!erase(trie, p).t
    /\ answer' = [call |-> <<"erase", p>>, ok |-> TRUE, at |-> T!erase(trie, p).next]

Clear == trie' = T!Empty /\ Said(<<"clear">>, TRUE)

Aggregate == T!Iterable(trie) /\ trie' = Aggregated(trie) /\ Said(<<"aggregate">>, TRUE)

\* Written, read into another one of which k entries can be read, and moved.
Reload(k) ==
    /\ T!Iterable(trie)
    /\ trie' = T!Reread(T!Written(trie), k).t
    /\ Said(<<"reload">>, T!Reread(T!Written(trie), k).ok)

\* Copied to another one, which is moved here.
Copy == trie' = T!Copied(trie) /\ Said(<<"reload">>, TRUE)

Next ==
    \/ \E p \in Keys, v \in Value : Insert(p, v) \/ Assign(p, v)
    \/ \E p \in Keys \cup Entry : Remove(p) \/ Erase(p)
    \/ Clear \/ Aggregate \/ Copy
    \/ \E k \in 0..trie.size : Reload(k)

Spec == Init /\ [][Next]_vars

-----------------------------------------------------------------------------
(* Properties.                                                             *)

Contents == trie.val

Promise == INSTANCE PrefixTable WITH
    Covers <- ContainsAddress, Before <- Less, None <- T!Nil, table <- Contents

\* A lookup answers what the entries say, for every address and prefix.
LookupsExact ==
    \A p \in Prefix :
        /\ T!AnswersExact(trie, p, T!find_matches(trie, p), T!find_longest(trie, p), T!find(trie, p))
        /\ Seqs!ToSet(T!find_wider(trie, p)) = {q \in Entry : Contains(q, p)} \ {p}

\* The nodes are those of the entries and of the branches between them, the
\* counter is exact, and iterators visit every entry in order, both ways.
Intact ==
    /\ T!Intact(trie)
    /\ T!Iterable(trie) => T!VisitsExact(trie, T!Entries(trie), T!ReverseEntries(trie))

\* Aggregate() leaves every address the value of its longest match.
RouteOf(t, a) ==
    LET p == T!find_longest(t, New(a, W)) IN IF p = T!Nil THEN T!NoValue ELSE t.val[p]
AggregationKeepsRoutes == Aggregate => \A a \in Address : RouteOf(trie, a) = RouteOf(trie', a)
=============================================================================
