---------------------------- MODULE PatriciaTrie ----------------------------
(***************************************************************************)
(* The path compressed trie of Ipv4PrefixPatricia and Ipv6PrefixPatricia,  *)
(* which differ in their prefixes, in firstDiffBit(), clear() and what     *)
(* only the former has.  A node is known by its prefix, since a trie never *)
(* has two of one prefix.                                                  *)
(*                                                                         *)
(* A trie is a record: "root" a node or Nil, "kids" the children of each   *)
(* node, kids[n][FALSE] and kids[n][TRUE], "up" the parent of each node,   *)
(* "val" the values of the nodes that have one, and "size" their counter.  *)
(***************************************************************************)
EXTENDS Integers, Sequences, FiniteSets, TLC

CONSTANTS W, Less(_, _), Contains(_, _), Bit(_, _), New(_, _), firstDiffBit(_, _, _)

Nil == [net |-> 0, len |-> W + 1]
NoValue == 0            \* ValueType{}
NoKids == [b \in BOOLEAN |-> Nil]
Empty == [root |-> Nil, kids |-> <<>>, up |-> <<>>, val |-> <<>>, size |-> 0]

Bound(f, p, v) == [q \in DOMAIN f \cup {p} |-> IF q = p THEN v ELSE f[q]]
Without(f, p) == [q \in DOMAIN f \ {p} |-> f[q]]

Places(t) == DOMAIN t.kids \cup {Nil}
Entry(t) == DOMAIN t.val
Kids(t, n) == {t.kids[n][b] : b \in BOOLEAN} \ {Nil}

Alloc(t, p, up) == [t EXCEPT !.kids = Bound(@, p, NoKids), !.up = Bound(@, p, up)]
Delete(t, p) == [t EXCEPT !.kids = Without(@, p), !.up = Without(@, p)]
SetValue(t, p, v) == [t EXCEPT !.val = Bound(@, p, v), !.size = @ + 1]
DropValue(t, p) == [t EXCEPT !.val = Without(@, p), !.size = @ - 1]
Link(t, n, b, k) == [t EXCEPT !.kids[n][b] = k]
\* A child in its place, which points back.  Its mutant is Link.
SetKid(t, n, b, k) == IF k = Nil THEN Link(t, n, b, Nil) ELSE [Link(t, n, b, k) EXCEPT !.up[k] = n]

-----------------------------------------------------------------------------
(* addNode(): [t, node: what takes the place of n, inserted].              *)

Inserted(t, n) == [t |-> t, node |-> n, inserted |-> TRUE]

\* The trie has no node at the place.
AddLeaf(t, p, v, up) == Inserted(SetValue(Alloc(t, p, up), p, v), p)

\* Mutant: an entry takes the new value.
AddHereOver(t, n, v) ==
    [t |-> IF n \in Entry(t) THEN [t EXCEPT !.val[n] = v] ELSE SetValue(t, n, v),
     node |-> n, inserted |-> n \notin Entry(t)]
\* The prefix of n: an entry, or a branch that becomes one.
AddHere(t, n, v) ==
    IF n \in Entry(t) THEN [t |-> t, node |-> n, inserted |-> FALSE] ELSE Inserted(SetValue(t, n, v), n)

\* Wider than n: it becomes the parent of n.
AddAbove(t, n, p, v, up) == Inserted(SetKid(SetValue(Alloc(t, p, up), p, v), p, Bit(n, p.len), n), p)

\* Different from n: a branch without a value for both.
AddBeside(t, n, p, v, up, diffBit) ==
    LET branch == New(n.net, diffBit)
        both == SetValue(Alloc(Alloc(t, branch, up), p, branch), p, v)
    IN  Inserted(SetKid(SetKid(both, branch, Bit(n, diffBit), n), branch, Bit(p, diffBit), p), branch)

\* Where the way to p goes on below up, or at the root.
Place(t, up, p) == IF up = Nil THEN t.root ELSE t.kids[up][Bit(p, up.len)]
DiffBit(n, p) == firstDiffBit(n, p, IF n.len < p.len THEN n.len ELSE p.len)
GoesOn(n, p) == n # Nil /\ DiffBit(n, p) < 0 /\ n # p /\ p.len > n.len

AddAt(t, n, p, v, up) ==
    CASE n = Nil -> AddLeaf(t, p, v, up)
      [] n # Nil /\ DiffBit(n, p) < 0 /\ n = p -> AddHere(t, n, v)
      [] n # Nil /\ DiffBit(n, p) < 0 /\ n # p -> AddAbove(t, n, p, v, up)
      [] OTHER -> AddBeside(t, n, p, v, up, DiffBit(n, p))

addNode(t, p, v) ==
    LET add[up \in Places(t)] ==
            LET n == Place(t, up, p)
            IN  IF GoesOn(n, p)
                THEN LET below == add[n]
                     IN  [t |-> Link(below.t, n, Bit(p, n.len), below.node),
                          node |-> n, inserted |-> below.inserted]
                ELSE AddAt(t, n, p, v, up)
    IN  add[Nil]

\* insert(): [t, inserted]; an entry that is there keeps its value.
insert(t, p, v) ==
    LET r == addNode(t, p, v) IN [t |-> [r.t EXCEPT !.root = r.node], inserted |-> r.inserted]

\* operator []: the entry, a new one with ValueType{}, is assigned to.
Assign(t, p, v) == [insert(t, p, NoValue).t EXCEPT !.val[p] = v]

-----------------------------------------------------------------------------
(* removeNode(): [t, node: what takes the place of n, removed].            *)

\* A node without a value goes unless it has two children.
Collapse(t, n) ==
    LET left == t.kids[n][FALSE]
        right == t.kids[n][TRUE]
    IN  IF left # Nil /\ right # Nil THEN [t |-> t, node |-> n]
        ELSE [t |-> Delete(t, n), node |-> IF left # Nil THEN left ELSE right]

removeNode(t, top, p) ==
    LET remove[n \in Places(t)] ==
            CASE n = Nil -> [t |-> t, node |-> Nil, removed |-> FALSE]
              [] n # Nil /\ n = p /\ n \in Entry(t) ->
                     LET c == Collapse(DropValue(t, n), n)
                     IN  [t |-> c.t, node |-> c.node, removed |-> TRUE]
              [] n # Nil /\ ~(n = p /\ n \in Entry(t)) /\ p.len <= n.len ->
                     [t |-> t, node |-> n, removed |-> FALSE]
              [] OTHER ->
                     LET b == Bit(p, n.len)
                         kid == t.kids[n][b]
                         goesOn == kid # Nil /\ Contains(kid, p)
                         below == IF goesOn THEN remove[kid]
                                  ELSE [t |-> t, node |-> kid, removed |-> FALSE]
                         linked == IF goesOn THEN SetKid(below.t, n, b, below.node) ELSE t
                         c == IF below.removed /\ n \notin Entry(linked) THEN Collapse(linked, n)
                              ELSE [t |-> linked, node |-> n]
                     IN  [t |-> c.t, node |-> c.node, removed |-> below.removed]
    IN  remove[top]

\* Remove(): [t, removed]; the root has no parent.
Remove(t, p) ==
    LET r == removeNode(t, t.root, p)
    IN  [t |-> IF r.node = Nil THEN [r.t EXCEPT !.root = Nil]
               ELSE [r.t EXCEPT !.root = r.node, !.up[r.node] = Nil],
         removed |-> r.removed]

\* copyNode(): the nodes of a copy do not know their parents.
Copied(t) == [t EXCEPT !.up = [n \in DOMAIN @ |-> Nil]]

-----------------------------------------------------------------------------
(* Lookups: the nodes of a set that contain a prefix, from the root on.    *)

Path(t, p, S) ==
    LET path[n \in Places(t)] ==
            IF n = Nil \/ ~Contains(n, p) THEN <<>>
            ELSE (IF n \in S THEN <<n>> ELSE <<>>) \o
                 (IF n.len >= p.len THEN <<>> ELSE path[t.kids[n][Bit(p, n.len)]])
    IN  path[t.root]

\* The entries, and those that are shorter.
find_matches(t, p) == Path(t, p, Entry(t))
find_wider(t, p) == Path(t, p, {n \in Entry(t) : n.len < p.len})

LastOf(s) == IF s = <<>> THEN Nil ELSE s[Len(s)]
find_longest(t, p) == LastOf(find_matches(t, p))

\* The node of the prefix itself, if it is an entry.
find(t, p) == IF find_longest(t, p) = p THEN p ELSE Nil

-----------------------------------------------------------------------------
(* Iterators.                                                              *)

\* A node, its first subtree, its second one.
First(t, top) ==
    LET first[n \in Places(t)] ==
            IF n = Nil \/ n \in Entry(t) THEN n
            ELSE LET left == first[t.kids[n][FALSE]]
                 IN  IF left # Nil THEN left ELSE first[t.kids[n][TRUE]]
    IN  first[top]

\* Upwards, the first second subtree that was not visited.
FirstAfter(t, from) ==
    LET after[n \in DOMAIN t.kids] ==
            LET up == t.up[n]
                right == t.kids[up][TRUE]
            IN  IF up = Nil THEN Nil
                ELSE IF t.kids[up][FALSE] = n /\ right # Nil THEN First(t, right)
                ELSE after[up]
    IN  after[from]

Successor(t, n) ==
    LET left == First(t, t.kids[n][FALSE])
        right == First(t, t.kids[n][TRUE])
    IN  CASE left # Nil -> left
          [] left = Nil /\ right # Nil -> right
          [] OTHER -> FirstAfter(t, n)

LastNode(t, top) ==
    LET last[n \in Places(t)] ==
            IF n = Nil THEN Nil
            ELSE LET right == last[t.kids[n][TRUE]]
                     left == last[t.kids[n][FALSE]]
                 IN  CASE right # Nil -> right
                       [] right = Nil /\ left # Nil -> left
                       [] OTHER -> IF n \in Entry(t) THEN n ELSE Nil
    IN  last[top]

Predecessor(t, from) ==
    LET before[n \in DOMAIN t.kids] ==
            LET up == t.up[n]
            IN  CASE up = Nil -> Nil
                  [] up # Nil /\ t.kids[up][TRUE] = n /\ t.kids[up][FALSE] # Nil ->
                         LastNode(t, t.kids[up][FALSE])
                  [] OTHER -> IF up \in Entry(t) THEN up ELSE before[up]
    IN  before[from]

\* Iterators go up to the parents, which the nodes of a copy do not know.
Iterable(t) == \A n \in DOMAIN t.kids : \A k \in Kids(t, n) : t.up[k] = n

\* begin(), ++ until end(), and end(), -- until it is begin().
Entries(t) ==
    LET forward[n \in Places(t)] == IF n = Nil THEN <<>> ELSE <<n>> \o forward[Successor(t, n)]
    IN  forward[First(t, t.root)]
ReverseEntries(t) ==
    LET backward[n \in Places(t)] == IF n = Nil THEN <<>> ELSE <<n>> \o backward[Predecessor(t, n)]
    IN  backward[LastNode(t, t.root)]

\* erase(it) of an entry: [t, next].
erase(t, p) == [t |-> Remove(t, p).t, next |-> Successor(t, p)]

-----------------------------------------------------------------------------
(* Read() into a new trie of what Write() wrote: a count and the entries   *)
(* that an iterator visits.                                                *)

InsertAll(entries) ==
    LET inserted[i \in 0..Len(entries)] ==
            IF i = 0 THEN Empty ELSE insert(inserted[i - 1], entries[i][1], entries[i][2]).t
    IN  inserted[Len(entries)]

Written(t) == [count |-> t.size, entries |-> [i \in DOMAIN Entries(t) |-> <<Entries(t)[i], t.val[Entries(t)[i]]>>]]

\* The first k entries can be read; the others are lost.
Reread(written, k) ==
    [t |-> InsertAll(SubSeq(written.entries, 1, k)), ok |-> k >= written.count]

-----------------------------------------------------------------------------
(* What holds of a trie.                                                   *)

\* What lookups of a prefix found is what the entries say: all that contain
\* it, the shortest first; the longest of them; and itself.
AnswersExact(t, p, matches, longest, itself) ==
    LET expected == {q \in Entry(t) : Contains(q, p)}
    IN  /\ {matches[i] : i \in DOMAIN matches} = expected
        /\ \A i \in DOMAIN matches : Cardinality({q \in expected : q.len < matches[i].len}) = i - 1
        /\ longest = IF expected = {} THEN Nil
                     ELSE CHOOSE q \in expected : \A r \in expected : r.len <= q.len
        /\ itself = IF p \in Entry(t) THEN p ELSE Nil

\* The nodes are those of the entries and of the branches between them, and
\* none points to a parent that it no longer has.
Intact(t) ==
    /\ t.size = Cardinality(Entry(t))
    /\ Entry(t) \subseteq DOMAIN t.kids
    /\ \A n \in DOMAIN t.kids :
           /\ n = t.root <=> ~\E m \in DOMAIN t.kids : n \in Kids(t, m)
           /\ t.up[n] \in {Nil} \cup {m \in DOMAIN t.kids : n \in Kids(t, m)}
           /\ n \in Entry(t) \/ \A b \in BOOLEAN : t.kids[n][b] # Nil
           /\ \A k \in Kids(t, n) : k.len > n.len /\ Contains(n, k) /\ t.kids[n][Bit(k, n.len)] = k

\* Iterators visited every entry, in order, both ways.
VisitsExact(t, forth, back) ==
    /\ {forth[i] : i \in DOMAIN forth} = Entry(t)
    /\ \A i \in 1..(Len(forth) - 1) : Less(forth[i], forth[i + 1])
    /\ back = [i \in DOMAIN forth |-> forth[Len(forth) + 1 - i]]
=============================================================================
