------------------------- MODULE Ipv6PrefixPatricia -------------------------
(***************************************************************************)
(* Ipv6PrefixPatricia: a trie of IPv6 prefixes with values.  It has no     *)
(* Aggregate(), and its clear() keeps a pointer to the root it deletes.    *)
(***************************************************************************)
EXTENDS Ipv6Prefix, TLC

CONSTANTS
    Prefix,             \* the prefixes there are
    Keys,               \* the prefixes that the program uses
    Value,              \* the values, none of which is ValueType{}
    MaxEntries          \* bound on the entries

VARIABLES
    trie,               \* _root, the nodes and _size
    answer              \* the last operation and what it returned

vars == <<trie, answer>>

\* The first bit that differs, below maxBits.
firstDiffBit(a, b, maxBits) ==
    IF FirstOneBit(a.net, b.net) < maxBits THEN FirstOneBit(a.net, b.net) ELSE -1

T == INSTANCE PatriciaTrie

-----------------------------------------------------------------------------
(* Lookups and iterators.                                                  *)

find(p) == T!find(trie, p)
find_longest(p) == T!find_longest(trie, p)
find_matches(p) == T!find_matches(trie, p)
Visited == T!Entries(trie)
VisitedBackwards == T!ReverseEntries(trie)

-----------------------------------------------------------------------------
Init == trie = T!Empty /\ answer = [call |-> <<>>, ok |-> TRUE, at |-> T!Nil]

\* The root is allocated.  If it is not, every operation is undefined, the
\* destructor's too, and the model stops.
Defined == trie.root = T!Nil \/ trie.root \in DOMAIN trie.kids

Entry == T!Entry(trie)
Room(p) == p \in Entry \/ Cardinality(Entry) < MaxEntries
Said(call, b) == answer' = [call |-> call, ok |-> b, at |-> T!Nil]

\* addNode(), removeNode() and copyNode().
Added(p, v) == T!insert(trie, p, v)
Removed(p) == T!Remove(trie, p)
Copied == T!Copied(trie)

Insert(p, v) ==
    /\ Defined /\ Room(p)
    /\ trie' = Added(p, v).t
    /\ Said(<<"insert", p, v>>, Added(p, v).inserted)

Assign(p, v) == Defined /\ Room(p) /\ trie' = T!Assign(trie, p, v) /\ Said(<<"assign", p, v>>, TRUE)

Remove(p) == Defined /\ trie' = Removed(p).t /\ Said(<<"remove", p>>, Removed(p).removed)

Erase(p) ==
    /\ Defined /\ T!Iterable(trie)
    /\ find(p) # T!Nil
    /\ trie' = T!erase(trie, p).t
    /\ answer' = [call |-> <<"erase", p>>, ok |-> TRUE, at |-> T!erase(trie, p).next]

\* clear(Node *) deletes the nodes; the root is what it was.
Clear == Defined /\ trie' = [T!Empty EXCEPT !.root = trie.root] /\ Said(<<"clear">>, TRUE)

\* Written, read into another one of which k entries can be read, and moved.
Reread(k) == T!Reread(T!Written(trie), k)
Reload(k) ==
    /\ Defined /\ T!Iterable(trie)
    /\ trie' = Reread(k).t
    /\ Said(<<"reload">>, Reread(k).ok)

\* The same with a compressed file.
ReloadCompressed(k) == Reload(k)

\* Copied to another one, which is moved here.
Copy == Defined /\ trie' = Copied /\ Said(<<"reload">>, TRUE)

Next ==
    \/ \E p \in Keys, v \in Value : Insert(p, v) \/ Assign(p, v)
    \/ \E p \in Keys : Remove(p) \/ Erase(p)
    \/ Clear \/ Copy
    \/ \E k \in 0..trie.size : Reload(k) \/ ReloadCompressed(k)

Spec == Init /\ [][Next]_vars

-----------------------------------------------------------------------------
(* Properties.                                                             *)

Contents == trie.val

Promise == INSTANCE PrefixTable WITH
    Address <- 0..Top, Covers <- ContainsAddress, Before <- Less, None <- T!Nil,
    table <- Contents

\* A lookup answers what the entries say, for every address and prefix.
LookupsExact ==
    Defined => \A p \in Prefix : T!AnswersExact(trie, p, find_matches(p), find_longest(p), find(p))

\* The nodes are those of the entries and of the branches between them, the
\* counter is exact, and iterators visit every entry in order, both ways.
Intact ==
    Defined => /\ T!Intact(trie)
               /\ T!Iterable(trie) => T!VisitsExact(trie, Visited, VisitedBackwards)
=============================================================================
