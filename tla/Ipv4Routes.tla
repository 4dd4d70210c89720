----------------------------- MODULE Ipv4Routes -----------------------------
(***************************************************************************)
(* Ipv4Routes: for each length a hash map from networks to values.         *)
(***************************************************************************)
EXTENDS Ipv4Prefix, FiniteSetsExt, TLC

LOCAL Seqs == INSTANCE SequencesExt

CONSTANTS
    Keys,               \* the prefixes that the program uses
    Value,
    MaxEntries          \* bound on the entries

VARIABLES
    hashMaps,           \* _hashMaps: for each length a function from networks to values
    answer              \* the last operation and what it returned

vars == <<hashMaps, answer>>

None == [net |-> 0, len |-> W + 1]
NoMaps == [l \in 0..W |-> <<>>]
Entry == {p \in Prefix : p.net \in DOMAIN hashMaps[p.len]}
Size == Cardinality(Entry)

Bind(f, x, v) == [y \in DOMAIN f \cup {x} |-> IF y = x THEN v ELSE f[y]]
Only(f, S) == [y \in S |-> f[y]]
Put(hm, p, v) == [hm EXCEPT ![p.len] = Bind(@, p.net, v)]
Drop(hm, p) == [hm EXCEPT ![p.len] = Only(@, DOMAIN @ \ {p.net})]
Said(call, b) == answer' = [call |-> call, ok |-> b, at |-> None]
Room(p) == p \in Entry \/ Size < MaxEntries

-----------------------------------------------------------------------------
(* Lookups.                                                                *)

Find(p) == p.net \in DOMAIN hashMaps[p.len]

\* The lengths at which an address has an entry.
Hits(a) == {l \in 0..W : Masked(a, l) \in DOMAIN hashMaps[l]}

\* From 32 down to 0, the first one.
FindLongest(a) == IF Hits(a) = {} THEN None ELSE New(a, Max(Hits(a)))

\* One thread for each length; the answers are taken from 32 down to 0, each
\* in place of the one before.
NewFindLongest(a) == IF Hits(a) = {} THEN None ELSE New(a, Min(Hits(a)))

\* All of them, the longest first.
FindAll(a) == {New(a, l) : l \in Hits(a)}

\* Every entry once, the shorter lengths first, in no order within a length.
GetAllKeys ==
    Seqs!FoldLeft(LAMBDA keys, i :
                      keys \o Seqs!SetToSeq({New(n, i - 1) : n \in DOMAIN hashMaps[i - 1]}),
                  <<>>, [i \in 1..(W + 1) |-> i])

\* Each with its value, sorted.
WithValues == [i \in DOMAIN GetAllKeys |-> <<GetAllKeys[i], hashMaps[GetAllKeys[i].len][GetAllKeys[i].net]>>]
SortByKey(ascending) ==
    SortSeq(WithValues, LAMBDA e, f : IF ascending THEN Less(e[1], f[1]) ELSE Less(f[1], e[1]))
SortByValue == SortSeq(WithValues, LAMBDA e, f : e[2] > f[2])

\* The addresses of what has no wider entry of length 1 or more, without
\* those of length 1, in an unsigned number of W bits.
AddressesCovered ==
    LET widest == {p \in Entry : p.len > 1 /\ ~\E l \in 1..(p.len - 1) : l \in Hits(p.net)}
    IN  FoldSet(LAMBDA p, n : (n + 2^(W - p.len)) % 2^W, 0, widest)

-----------------------------------------------------------------------------
(* Coalesce().                                                             *)

\* The entries of length l that begin a pair of one value: ++ finds the
\* second one, and Combine() their whole.
FirstHalves(hm, l) ==
    {n \in DOMAIN hm[l] :
        LET p == New(n, l)
            next == NextPrefix(p)
        IN  Combine(p, next) # {} /\ next.net \in DOMAIN hm[l] /\ hm[l][n] = hm[l][next.net]}

\* Each pair is erased, and its whole takes its value.
CombinedAt(hm, l) ==
    LET first == FirstHalves(hm, l)
        second == {NextPrefix(New(n, l)).net : n \in first}
        Whole(n) == CHOOSE w \in Combine(New(n, l), NextPrefix(New(n, l))) : TRUE
        whole == {Whole(n).net : n \in first}
    IN  [hm EXCEPT ![l] = Only(@, DOMAIN @ \ (first \cup second)),
                   ![l - 1] = [n \in DOMAIN @ \cup whole |->
                                   IF n \in whole THEN hm[l][CHOOSE f \in first : Whole(f).net = n] ELSE @[n]]]

\* A wider entry, down to length 1, with the same value.
HaveWiderMatch(hm, p, v) ==
    \E l \in 1..(p.len - 1) : Masked(p.net, l) \in DOMAIN hm[l] /\ hm[l][Masked(p.net, l)] = v

DroppedAt(hm, l) ==
    [hm EXCEPT ![l] = Only(@, {n \in DOMAIN @ : ~HaveWiderMatch(hm, New(n, l), @[n])})]

\* From length 32 down to 1.
EachLength(F(_, _), hm) ==
    LET down[l \in 0..W] == IF l = W THEN hm ELSE F(down[l + 1], l + 1) IN down[0]
Coalesced(hm) == EachLength(DroppedAt, EachLength(CombinedAt, hm))

-----------------------------------------------------------------------------
Init == hashMaps = NoMaps /\ answer = [call |-> <<>>, ok |-> TRUE, at |-> None]

\* Add(): an entry that is there is kept.
Add(p, v) ==
    /\ Room(p)
    /\ hashMaps' = IF p \in Entry THEN hashMaps ELSE Put(hashMaps, p, v)
    /\ Said(<<"insert", p, v>>, p \notin Entry)

\* operator [], which is assigned to.
Index(p, v) == Room(p) /\ hashMaps' = Put(hashMaps, p, v) /\ Said(<<"assign", p, v>>, TRUE)

\* Add(routes), of the one entry of another table: it replaces.
AddRoutes(p, v) == Room(p) /\ hashMaps' = Put(hashMaps, p, v) /\ Said(<<"assign", p, v>>, TRUE)

Delete(p) ==
    /\ hashMaps' = IF p \in Entry THEN Drop(hashMaps, p) ELSE hashMaps
    /\ Said(<<"remove", p>>, p \in Entry)

Clear == hashMaps' = NoMaps /\ Said(<<"clear">>, TRUE)

\* An entry that ends with the last address is followed by itself: it would
\* be erased twice, which is undefined and left out.
Coalesce ==
    /\ \A p \in Entry : p.len > 0 => LastAddress(p) # Top
    /\ hashMaps' = Coalesced(hashMaps)
    /\ Said(<<"aggregate">>, TRUE)

\* Written, and read into another one, which is assigned here: the maps
\* before that of length l, and the entries S of it.
Reload(l, S) ==
    /\ hashMaps' = [k \in 0..W |-> CASE k < l -> hashMaps[k]
                                     [] k = l -> Only(hashMaps[k], S)
                                     [] OTHER -> <<>>]
    /\ Said(<<"reload">>, hashMaps' = hashMaps)

Next ==
    \/ \E p \in Keys, v \in Value : Add(p, v) \/ Index(p, v) \/ AddRoutes(p, v)
    \/ \E p \in Keys \cup Entry : Delete(p)
    \/ Clear \/ Coalesce
    \/ \E l \in 0..W : \E S \in SUBSET DOMAIN hashMaps[l] : Reload(l, S)

Spec == Init /\ [][Next]_vars

-----------------------------------------------------------------------------
(* Properties.                                                             *)

Contents == [p \in Entry |-> hashMaps[p.len][p.net]]

Promise == INSTANCE PrefixTable WITH
    Covers <- ContainsAddress, Before <- Less, table <- Contents

\* A lookup answers what the entries say, for every address.
MatchesExact ==
    \A a \in Address :
        LET matches == {p \in Entry : ContainsAddress(p, a)}
        IN  /\ FindAll(a) = matches
            /\ FindLongest(a) = IF matches = {} THEN None
                                ELSE CHOOSE p \in matches : \A q \in matches : q.len <= p.len

\* The number of addresses is that of the entries when none is half of all.
CoveredExact ==
    (\A p \in Entry : p.len > 1) =>
        AddressesCovered = Cardinality({a \in Address : \E p \in Entry : ContainsAddress(p, a)}) % 2^W

\* The sorted lists have every entry with its value.
ListsExact ==
    /\ \A up \in BOOLEAN :
          LET list == SortByKey(up)
          IN  /\ Seqs!ToSet(list) = {<<p, Contents[p]>> : p \in Entry}
              /\ \A i \in 1..(Len(list) - 1) :
                    IF up THEN Less(list[i][1], list[i + 1][1]) ELSE Less(list[i + 1][1], list[i][1])
    /\ Seqs!ToSet(SortByValue) = {<<p, Contents[p]>> : p \in Entry}
    /\ \A i \in 1..(Size - 1) : SortByValue[i][2] >= SortByValue[i + 1][2]

LookupsExact == MatchesExact /\ CoveredExact /\ ListsExact

\* Coalesce() leaves every address the value of its longest match, unless
\* three entries are nested: it drops the innermost for the outermost's sake.
RouteOf(a) == LET p == FindLongest(a) IN IF p = None THEN {} ELSE {Contents[p]}
AggregationKeepsRoutes ==
    Coalesce /\ (\A a \in Address : Cardinality(Hits(a)) <= 2) =>
        \A a \in Address : RouteOf(a) = RouteOf(a)'
=============================================================================
