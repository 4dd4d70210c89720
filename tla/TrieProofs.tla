----------------------------- MODULE TrieProofs -----------------------------
(***************************************************************************)
(* Proofs about PatriciaTrie, for every trie of prefixes that follow the   *)
(* laws below, which those of Ipv4Prefix and Ipv6Prefix do.                *)
(***************************************************************************)
EXTENDS PatriciaTrie, FiniteSetTheorems, SequenceTheorems, WellFoundedInduction, TLAPS

CONSTANTS Prefix, Value

-----------------------------------------------------------------------------
(* The laws of prefixes.                                                   *)

Lengths == W \in Nat /\ \A p \in Prefix : p.len \in 0..W

\* Contains is an order, in which what contains a prefix is a chain.
Containment ==
  /\ \A p \in Prefix : Contains(p, p)
  /\ \A p, q \in Prefix : Contains(p, q) => p.len <= q.len /\ (p.len = q.len => p = q)
  /\ \A p, q, r \in Prefix : Contains(p, q) /\ Contains(q, r) => Contains(p, r)
Chains == \A p, q, r \in Prefix : Contains(p, r) /\ Contains(q, r) /\ p.len <= q.len => Contains(p, q)

\* A prefix has the bits of what contains it.
Bits ==
  /\ \A p \in Prefix, i \in 0..W : Bit(p, i) \in BOOLEAN
  /\ \A p, q \in Prefix, i \in 0..W : Contains(p, q) /\ i < p.len => Bit(p, i) = Bit(q, i)

\* Of two prefixes one contains the other, or they part at a bit.
Parts(p, q, d) ==
  /\ d \in 0..W /\ d < p.len /\ d < q.len
  /\ Bit(p, d) # Bit(q, d)
  /\ New(p.net, d) \in Prefix /\ New(p.net, d).len = d
  /\ Contains(New(p.net, d), p) /\ Contains(New(p.net, d), q)
Partings ==
  \A p, q \in Prefix : /\ DiffBit(p, q) \in Int
                       /\ DiffBit(p, q) < 0 => Contains(p, q) \/ Contains(q, p)
                       /\ DiffBit(p, q) >= 0 => Parts(p, q, DiffBit(p, q))

\* Less is a total order: a prefix, what it contains and has a zero next,
\* what it contains and has a one.
Sorting ==
  /\ \A p, q \in Prefix : Less(p, q) => ~Less(q, p)
  /\ \A p, q, r \in Prefix : Less(p, q) /\ Less(q, r) => Less(p, r)
  /\ \A p, q \in Prefix : Less(p, q) \/ Less(q, p) \/ p = q
  /\ \A p, q \in Prefix : Contains(p, q) /\ p # q => Less(p, q)
  /\ \A n, p, q \in Prefix :
        /\ Contains(n, p) /\ n.len < p.len /\ ~Bit(p, n.len)
        /\ Contains(n, q) /\ n.len < q.len /\ Bit(q, n.len)
        => Less(p, q)

Laws == Lengths /\ Containment /\ Chains /\ Bits /\ Partings /\ Sorting

-----------------------------------------------------------------------------
(* The shape of a trie: a child contains all that is on its side.          *)

IsTop(S, k) == IF S = {} THEN k = Nil ELSE k \in S /\ \A m \in S : Contains(k, m)
Under(N, n, b) == {m \in N : n.len < m.len /\ Contains(n, m) /\ Bit(m, n.len) = b}
Shape(root, kids) ==
  /\ DOMAIN kids \subseteq Prefix
  /\ kids \in [DOMAIN kids -> [BOOLEAN -> DOMAIN kids \cup {Nil}]]
  /\ IsTop(DOMAIN kids, root)
  /\ \A n \in DOMAIN kids, b \in BOOLEAN : IsTop(Under(DOMAIN kids, n, b), kids[n][b])

LEMMA NilIsNone == ASSUME Laws PROVE Nil \notin Prefix
<1>1. W \in Nat /\ Nil.len = W + 1
  BY DEF Laws, Lengths, Nil
<1> QED BY <1>1 DEF Laws, Lengths

\* What is below a node is below one of its children.
LEMMA Descend ==
  ASSUME Laws, NEW root, NEW kids, Shape(root, kids), NEW n \in DOMAIN kids, NEW m \in DOMAIN kids,
         Contains(n, m), n # m
  PROVE  /\ Bit(m, n.len) \in BOOLEAN
         /\ n.len < m.len
         /\ kids[n][Bit(m, n.len)] \in Under(DOMAIN kids, n, Bit(m, n.len))
         /\ Contains(kids[n][Bit(m, n.len)], m)
<1>1. n \in Prefix /\ m \in Prefix /\ n.len \in 0..W /\ m.len \in 0..W
  BY DEF Laws, Lengths, Shape
<1>2. n.len < m.len
  BY <1>1 DEF Laws, Containment
<1>3. Bit(m, n.len) \in BOOLEAN
  BY <1>1 DEF Laws, Bits
<1>4. m \in Under(DOMAIN kids, n, Bit(m, n.len))
  BY <1>2 DEF Under
<1>5. IsTop(Under(DOMAIN kids, n, Bit(m, n.len)), kids[n][Bit(m, n.len)])
  BY <1>3 DEF Shape
<1> QED BY <1>2, <1>3, <1>4, <1>5 DEF IsTop

\* A child is below its parent.
LEMMA KidIs ==
  ASSUME Laws, NEW root, NEW kids, Shape(root, kids), NEW n \in DOMAIN kids, NEW b \in BOOLEAN,
         kids[n][b] # Nil
  PROVE  /\ kids[n][b] \in Under(DOMAIN kids, n, b)
         /\ kids[n][b] \in DOMAIN kids /\ kids[n][b] # n
         /\ \A m \in Under(DOMAIN kids, n, b) : Contains(kids[n][b], m)
<1>1. IsTop(Under(DOMAIN kids, n, b), kids[n][b])
  BY DEF Shape
<1>2. kids[n][b] \in Under(DOMAIN kids, n, b)
  BY <1>1 DEF IsTop
<1>3. n \in Prefix /\ n.len \in 0..W
  BY DEF Laws, Lengths, Shape
<1> QED BY <1>1, <1>2, <1>3 DEF IsTop, Under

\* A node is the child of one node, at one side.
LEMMA OneParent ==
  ASSUME Laws, NEW root, NEW kids, Shape(root, kids),
         NEW n \in DOMAIN kids, NEW b \in BOOLEAN, NEW m \in DOMAIN kids, NEW d \in BOOLEAN,
         kids[n][b] # Nil, kids[m][d] = kids[n][b]
  PROVE  n = m /\ b = d
<1> DEFINE x == kids[n][b]
<1>1. x \in Under(DOMAIN kids, n, b) /\ x \in Under(DOMAIN kids, m, d)
  BY KidIs
<1> HIDE DEF x
<1>2. x \in DOMAIN kids /\ Contains(n, x) /\ Contains(m, x) /\ n.len < x.len /\ m.len < x.len
  BY <1>1 DEF Under
<1>3. n \in Prefix /\ m \in Prefix /\ x \in Prefix /\ n.len \in 0..W /\ m.len \in 0..W /\ x.len \in 0..W
  BY <1>2 DEF Laws, Lengths, Shape
<1>4. ASSUME NEW y \in DOMAIN kids, NEW z \in DOMAIN kids, NEW e \in BOOLEAN, Contains(y, z), y # z,
             kids[y][e] = x, x \in Under(DOMAIN kids, y, e), Contains(z, x), z.len < x.len
      PROVE  FALSE
  <2>1. z \in Prefix /\ y \in Prefix /\ y.len \in 0..W /\ z.len \in 0..W /\ y.len < z.len
    BY <1>4, Descend DEF Laws, Lengths, Shape
  <2>2. Bit(z, y.len) = Bit(x, y.len)
    BY <2>1, <1>3, <1>4 DEF Laws, Bits
  <2>3. Bit(x, y.len) = e
    BY <1>4 DEF Under
  <2>4. Contains(x, z)
    BY <1>4, <2>2, <2>3, Descend
  <2> QED BY <1>3, <1>4, <2>1, <2>4 DEF Laws, Containment
<1>5. Contains(n, m) \/ Contains(m, n)
  <2>1. n.len <= m.len \/ m.len <= n.len
    BY <1>3
  <2> QED BY <1>2, <1>3, <2>1 DEF Laws, Chains
<1>6. n = m
  BY <1>1, <1>2, <1>4, <1>5 DEF x
<1>7. b = d
  BY <1>1, <1>6 DEF Under
<1> QED BY <1>6, <1>7

\* The root has no parent, every other node has one.
LEMMA HasParent ==
  ASSUME Laws, NEW root, NEW kids, Shape(root, kids), NEW n \in DOMAIN kids
  PROVE  n = root <=> ~\E m \in DOMAIN kids, b \in BOOLEAN : kids[m][b] = n
<1>0. root \in DOMAIN kids /\ Contains(root, n)
  BY DEF Shape, IsTop
<1>1. \A m \in DOMAIN kids : m \in Prefix /\ m.len \in 0..W
  BY DEF Laws, Lengths, Shape
<1>2. ASSUME NEW m \in DOMAIN kids, NEW b \in BOOLEAN, kids[m][b] = root PROVE FALSE
  <2>1. root # Nil
    BY <1>0, <1>1, NilIsNone
  <2>2. root \in Under(DOMAIN kids, m, b)
    BY <1>2, <2>1, KidIs
  <2>3. Contains(root, m) /\ m.len < root.len
    BY <2>2 DEF Shape, IsTop, Under
  <2> QED BY <1>0, <1>1, <2>3 DEF Laws, Containment
<1>3. ASSUME n # root PROVE \E m \in DOMAIN kids, b \in BOOLEAN : kids[m][b] = n
  <2> DEFINE above == {m \in DOMAIN kids : Contains(m, n) /\ m # n}
             lens == {m.len : m \in above}
  <2>1. lens \subseteq 0..W /\ lens # {}
    BY <1>0, <1>1, <1>3
  <2>2. PICK l \in lens : \A i \in lens : i <= l
    <3> DEFINE back == {W - i : i \in lens}
    <3>1. back \in SUBSET Nat /\ back # {}
      BY <2>1 DEF Laws, Lengths
    <3>2. PICK k \in back : \A i \in back : ~(<<i, k>> \in OpToRel(<, Nat))
      BY <3>1, NatLessThanWellFounded, WFMin
    <3>3. \A i \in back : ~(i < k)
      BY <3>1, <3>2 DEF OpToRel
    <3>4. PICK l \in lens : k = W - l
      OBVIOUS
    <3>5. \A i \in lens : i <= l
      <4> TAKE i \in lens
      <4>1. W - i \in back /\ ~(W - i < W - l)
        BY <3>3, <3>4
      <4> QED BY <4>1, <2>1 DEF Laws, Lengths
    <3> QED BY <3>5
  <2>3. PICK m \in above : l = m.len
    OBVIOUS
  <2>4. \A i \in above : i.len <= m.len
    BY <2>2, <2>3
  <2> DEFINE b == Bit(n, m.len)
             k == kids[m][b]
  <2>5. m \in DOMAIN kids /\ Contains(m, n) /\ m # n
    OBVIOUS
  <2>6. b \in BOOLEAN /\ k \in Under(DOMAIN kids, m, b) /\ Contains(k, n)
    BY <2>5, Descend
  <2>7. k \in DOMAIN kids /\ k.len > m.len
    BY <2>6, <2>5, <1>1 DEF Under
  <2>8. k = n
    <3>1. k \notin above
      BY <2>4, <2>5, <2>7, <1>1
    <3> QED BY <3>1, <2>6, <2>7
  <2> QED BY <2>5, <2>6, <2>8
<1> QED BY <1>2, <1>3

\* A new node x comes between a place, the side b of u or, for u = Nil, the
\* root, and the node c that was there.
Grown(root, kids, root2, kids2, u, b, x, c) ==
  /\ DOMAIN kids2 = DOMAIN kids \cup {x}
  /\ kids2 \in [DOMAIN kids2 -> [BOOLEAN -> DOMAIN kids2 \cup {Nil}]]
  /\ \A n \in DOMAIN kids, d \in BOOLEAN : n # u \/ d # b => kids2[n][d] = kids[n][d]
  /\ u # Nil => kids2[u][b] = x
  /\ \A d \in BOOLEAN : kids2[x][d] = IF c # Nil /\ d = Bit(c, x.len) THEN c ELSE Nil
  /\ root2 = IF u = Nil THEN x ELSE root

LEMMA ShapeGrows ==
  ASSUME Laws, NEW root, NEW kids, Shape(root, kids), NEW u \in DOMAIN kids \cup {Nil}, NEW b \in BOOLEAN,
         NEW x \in Prefix, x \notin DOMAIN kids,
         u # Nil => u.len < x.len /\ Contains(u, x) /\ Bit(x, u.len) = b,
         NEW c, c = IF u = Nil THEN root ELSE kids[u][b],
         c # Nil => Contains(x, c),
         NEW root2, NEW kids2, Grown(root, kids, root2, kids2, u, b, x, c)
  PROVE  Shape(root2, kids2)
<1> DEFINE N == DOMAIN kids
<1>0. /\ \A m \in N : m \in Prefix /\ m.len \in 0..W
      /\ x.len \in 0..W
      /\ Nil \notin N
      /\ W \in Nat
  BY NilIsNone DEF Laws, Lengths, Shape
<1>1. c # Nil => c \in N /\ x.len < c.len
  <2> SUFFICES ASSUME c # Nil PROVE c \in N /\ x.len < c.len
    OBVIOUS
  <2>1. c \in N
    <3>1. CASE u = Nil
      BY <3>1 DEF Shape, IsTop
    <3>2. CASE u # Nil
      BY <3>2 DEF Shape
    <3> QED BY <3>1, <3>2
  <2> QED BY <2>1, <1>0 DEF Laws, Containment
<1>2. \A m \in N : u = Nil \/ m \in Under(N, u, b) => c # Nil /\ Contains(c, m) /\ Contains(x, m) /\ x.len < m.len
  <2> SUFFICES ASSUME NEW m \in N, u = Nil \/ m \in Under(N, u, b)
               PROVE  c # Nil /\ Contains(c, m) /\ Contains(x, m) /\ x.len < m.len
    OBVIOUS
  <2>1. c # Nil /\ Contains(c, m)
    <3>1. CASE u = Nil
      BY <3>1, <1>0 DEF Shape, IsTop
    <3>2. CASE u # Nil
      <4>1. IsTop(Under(N, u, b), c) /\ m \in Under(N, u, b)
        BY <3>2 DEF Shape
      <4> QED BY <4>1, <1>0 DEF IsTop, Under
    <3> QED BY <3>1, <3>2
  <2>2. Contains(x, m)
    BY <1>0, <1>1, <2>1 DEF Laws, Containment
  <2> QED BY <2>1, <2>2, <1>0 DEF Laws, Containment
<1>3. \A m \in N : Contains(x, m) => c # Nil /\ Contains(c, m)
  <2> SUFFICES ASSUME NEW m \in N, Contains(x, m) PROVE u = Nil \/ m \in Under(N, u, b)
    BY <1>2
  <2> SUFFICES ASSUME u # Nil PROVE m \in Under(N, u, b)
    OBVIOUS
  <2>1. u \in Prefix /\ u.len \in 0..W /\ m \in Prefix /\ m.len \in 0..W
    BY <1>0
  <2>2. Contains(u, m) /\ x.len <= m.len
    BY <2>1 DEF Laws, Containment
  <2>3. Bit(m, u.len) = b
    BY <2>1 DEF Laws, Bits
  <2> QED BY <2>1, <2>2, <2>3, <1>0 DEF Under
<1> DEFINE N2 == DOMAIN kids2
<1>4. N2 = N \cup {x}
  BY DEF Grown
<1>5. IsTop(N2, root2)
  <2>1. CASE u = Nil
    <3>1. root2 = x
      BY <2>1 DEF Grown
    <3> QED BY <1>2, <1>4, <2>1, <3>1 DEF IsTop, Laws, Containment
  <2>2. CASE u # Nil
    <3>1. root2 = root /\ root \in N /\ \A m \in N : Contains(root, m)
      BY <2>2 DEF Grown, Shape, IsTop
    <3>2. Contains(root, x)
      BY <2>2, <3>1, <1>0 DEF Laws, Containment
    <3> QED BY <1>4, <3>1, <3>2 DEF IsTop
  <2> QED BY <2>1, <2>2
<1>6. ASSUME NEW n \in N, NEW d \in BOOLEAN PROVE IsTop(Under(N2, n, d), kids2[n][d])
  <2>0. IsTop(Under(N, n, d), kids[n][d])
    BY DEF Shape
  <2>1. CASE x \notin Under(N2, n, d)
    <3>1. Under(N2, n, d) = Under(N, n, d)
      BY <2>1, <1>4 DEF Under
    <3>2. n # u \/ d # b
      <4> SUFFICES ASSUME n = u, d = b PROVE FALSE
        OBVIOUS
      <4> QED BY <2>1, <1>0, <1>4 DEF Under
    <3>3. kids2[n][d] = kids[n][d]
      BY <3>2 DEF Grown
    <3> QED BY <2>0, <3>1, <3>3
  <2>2. CASE x \in Under(N2, n, d) /\ n = u /\ d = b
    <3>1. kids2[n][d] = x
      BY <2>2, <1>0 DEF Grown
    <3>2. Under(N2, n, d) \subseteq Under(N, n, d) \cup {x}
      BY <1>4 DEF Under
    <3>3. \A m \in Under(N, n, d) : m \in N
      BY DEF Under
    <3>4. \A m \in Under(N2, n, d) : Contains(x, m)
      BY <2>2, <3>2, <3>3, <1>2 DEF Laws, Containment
    <3> QED BY <2>2, <3>1, <3>4 DEF IsTop
  <2>3. CASE x \in Under(N2, n, d) /\ ~(n = u /\ d = b)
    <3>1. kids2[n][d] = kids[n][d]
      BY <2>3 DEF Grown
    <3>2. n.len < x.len /\ Contains(n, x) /\ Bit(x, n.len) = d
      BY <2>3 DEF Under
    <3>3. u # Nil
      BY <1>2, <1>0, <3>2
    <3>4. u \in N /\ u \in Prefix /\ u.len \in 0..W /\ n \in Prefix /\ n.len \in 0..W
      BY <1>0, <3>3
    <3>5. u \in Under(N, n, d)
      <4>1. CASE n.len < u.len
        <5>1. Contains(n, u)
          BY <3>2, <3>3, <3>4, <4>1 DEF Laws, Chains
        <5>2. Bit(u, n.len) = Bit(x, n.len)
          BY <3>3, <3>4, <4>1 DEF Laws, Bits
        <5> QED BY <3>2, <3>4, <4>1, <5>1, <5>2 DEF Under
      <4>2. CASE n.len = u.len
        <5>1. Contains(n, u)
          BY <3>2, <3>3, <3>4, <4>2 DEF Laws, Chains
        <5>2. n = u
          BY <3>4, <4>2, <5>1 DEF Laws, Containment
        <5> QED BY <2>3, <3>2, <3>3, <5>2
      <4>3. CASE u.len < n.len
        <5>1. Contains(u, n)
          BY <3>2, <3>3, <3>4, <4>3 DEF Laws, Chains
        <5>2. Bit(n, u.len) = Bit(x, u.len)
          BY <3>2, <3>4, <4>3 DEF Laws, Bits
        <5>3. n \in Under(N, u, b)
          BY <3>3, <4>3, <5>1, <5>2 DEF Under
        <5> QED BY <5>3, <1>2, <1>0, <3>2
      <4> QED BY <3>4, <4>1, <4>2, <4>3
    <3>6. kids[n][d] \in Under(N, n, d) /\ \A m \in Under(N, n, d) : Contains(kids[n][d], m)
      BY <2>0, <3>5 DEF IsTop
    <3>7. Contains(kids[n][d], x)
      <4>1. kids[n][d] \in N /\ Contains(kids[n][d], u)
        BY <3>5, <3>6 DEF Under
      <4> QED BY <4>1, <1>0, <3>3, <3>4 DEF Laws, Containment
    <3>8. Under(N2, n, d) \subseteq Under(N, n, d) \cup {x} /\ Under(N, n, d) \subseteq Under(N2, n, d)
      BY <1>4 DEF Under
    <3> QED BY <3>1, <3>6, <3>7, <3>8 DEF IsTop
  <2> QED BY <2>1, <2>2, <2>3
<1>7. ASSUME NEW d \in BOOLEAN PROVE IsTop(Under(N2, x, d), kids2[x][d])
  <2>1. kids2[x][d] = IF c # Nil /\ d = Bit(c, x.len) THEN c ELSE Nil
    BY DEF Grown
  <2>2. \A m \in Under(N2, x, d) : m \in N /\ Contains(x, m) /\ c # Nil /\ Contains(c, m) /\ Bit(m, x.len) = d
    BY <1>0, <1>3, <1>4 DEF Under
  <2>3. CASE c # Nil /\ d = Bit(c, x.len)
    <3>1. c \in Under(N2, x, d)
      BY <2>3, <1>1, <1>4 DEF Under
    <3> QED BY <2>1, <2>2, <2>3, <3>1 DEF IsTop
  <2>4. CASE ~(c # Nil /\ d = Bit(c, x.len))
    <3>1. Under(N2, x, d) = {}
      <4> SUFFICES ASSUME NEW m \in Under(N2, x, d) PROVE FALSE
        OBVIOUS
      <4>1. c # Nil /\ Contains(c, m) /\ m \in N /\ Bit(m, x.len) = d
        BY <2>2
      <4>2. Bit(c, x.len) = Bit(m, x.len)
        BY <4>1, <1>0, <1>1 DEF Laws, Bits
      <4> QED BY <2>4, <4>1, <4>2
    <3> QED BY <2>1, <2>4, <3>1 DEF IsTop
  <2> QED BY <2>3, <2>4
<1> QED
  <2>1. N2 \subseteq Prefix
    BY <1>4, <1>0
  <2>2. kids2 \in [N2 -> [BOOLEAN -> N2 \cup {Nil}]]
    BY DEF Grown
  <2>3. \A n \in N2, d \in BOOLEAN : IsTop(Under(N2, n, d), kids2[n][d])
    BY <1>4, <1>6, <1>7
  <2> QED BY <2>1, <2>2, <2>3, <1>5 DEF Shape

\* A node x with no child at one side goes, and the child c at the other one
\* takes its place.
Shrunk(root, kids, root2, kids2, u, b, x, c) ==
  /\ DOMAIN kids2 = DOMAIN kids \ {x}
  /\ kids2 \in [DOMAIN kids2 -> [BOOLEAN -> DOMAIN kids2 \cup {Nil}]]
  /\ \A n \in DOMAIN kids2, d \in BOOLEAN : n # u \/ d # b => kids2[n][d] = kids[n][d]
  /\ u # Nil => kids2[u][b] = c
  /\ root2 = IF u = Nil THEN c ELSE root

LEMMA ShapeShrinks ==
  ASSUME Laws, NEW root, NEW kids, Shape(root, kids), NEW u \in DOMAIN kids \cup {Nil}, NEW b \in BOOLEAN,
         NEW x \in DOMAIN kids, x = IF u = Nil THEN root ELSE kids[u][b],
         NEW e \in BOOLEAN, kids[x][~e] = Nil, NEW c, c = kids[x][e],
         NEW root2, NEW kids2, Shrunk(root, kids, root2, kids2, u, b, x, c)
  PROVE  Shape(root2, kids2)
<1> DEFINE N == DOMAIN kids
           N2 == DOMAIN kids2
<1>0. /\ \A m \in N : m \in Prefix /\ m.len \in 0..W
      /\ Nil \notin N
      /\ N2 = N \ {x}
  BY NilIsNone DEF Laws, Lengths, Shape, Shrunk
<1>1. \A m \in N2 : Contains(x, m) => c # Nil /\ Contains(c, m)
  <2> SUFFICES ASSUME NEW m \in N2, Contains(x, m) PROVE c # Nil /\ Contains(c, m)
    OBVIOUS
  <2>1. m \in N /\ m # x
    BY <1>0
  <2>2. Bit(m, x.len) \in BOOLEAN /\ Contains(kids[x][Bit(m, x.len)], m) /\
        kids[x][Bit(m, x.len)] \in Under(N, x, Bit(m, x.len))
    BY <2>1, Descend
  <2>3. kids[x][Bit(m, x.len)] # Nil
    BY <2>2, <1>0 DEF Under
  <2>4. Bit(m, x.len) = e
    BY <2>2, <2>3
  <2> QED BY <2>2, <2>3, <2>4
<1>2. c # Nil => c \in N2 /\ Contains(x, c)
  <2> SUFFICES ASSUME c # Nil PROVE c \in N2 /\ Contains(x, c)
    OBVIOUS
  <2>1. c \in Under(N, x, e) /\ c \in N /\ c # x
    BY KidIs
  <2> QED BY <2>1, <1>0 DEF Under
<1>3. u # Nil => x \in Under(N, u, b) /\ u # x /\ u \in N2
  <2> SUFFICES ASSUME u # Nil PROVE x \in Under(N, u, b) /\ u # x /\ u \in N2
    OBVIOUS
  <2>1. kids[u][b] # Nil /\ kids[u][b] = x
    BY <1>0
  <2>2. x \in Under(N, u, b) /\ u # x
    BY <2>1, KidIs
  <2> QED BY <2>2, <1>0
<1>4. IsTop(N2, root2)
  <2>1. root \in N /\ \A m \in N : Contains(root, m)
    BY DEF Shape, IsTop
  <2>2. CASE u = Nil
    <3>1. root2 = c /\ root = x
      BY <2>2 DEF Shrunk
    <3>2. \A m \in N2 : Contains(x, m)
      BY <2>1, <3>1, <1>0
    <3> QED BY <1>1, <1>2, <3>1, <3>2 DEF IsTop
  <2>3. CASE u # Nil
    <3>1. root2 = root
      BY <2>3 DEF Shrunk
    <3>2. root # x
      <4>1. Contains(root, u) /\ Contains(u, x) /\ u # x
        BY <1>3, <2>1, <2>3 DEF Under
      <4> QED BY <4>1, <1>0, <1>3, <2>3 DEF Laws, Containment, Under
    <3> QED BY <1>0, <2>1, <3>1, <3>2 DEF IsTop
  <2> QED BY <2>2, <2>3
<1>5. ASSUME NEW n \in N2, NEW d \in BOOLEAN PROVE IsTop(Under(N2, n, d), kids2[n][d])
  <2>0. n \in N /\ IsTop(Under(N, n, d), kids[n][d])
    BY <1>0 DEF Shape
  <2>1. Under(N2, n, d) = Under(N, n, d) \ {x}
    BY <1>0 DEF Under
  <2>2. CASE n = u /\ d = b
    <3>1. u # Nil /\ kids[n][d] = x /\ kids2[n][d] = c
      BY <2>2, <2>0, <1>0 DEF Shrunk
    <3>2. x \in Under(N, n, d) /\ \A m \in Under(N, n, d) : Contains(x, m)
      BY <2>0, <3>1, <1>0 DEF IsTop
    <3>3. \A m \in Under(N2, n, d) : c # Nil /\ Contains(c, m)
      <4> TAKE m \in Under(N2, n, d)
      <4>1. m \in N2 /\ Contains(x, m)
        BY <2>1, <3>2 DEF Under
      <4> QED BY <4>1, <1>1
    <3>4. c # Nil => c \in Under(N2, n, d)
      <4> SUFFICES ASSUME c # Nil PROVE c \in Under(N2, n, d)
        OBVIOUS
      <4>1. c \in N2 /\ Contains(x, c) /\ c \in Prefix /\ x \in Prefix /\ n \in Prefix
        BY <1>0, <1>2, <2>0
      <4>2. Contains(n, x) /\ n.len < x.len /\ Bit(x, n.len) = d
        BY <3>2 DEF Under
      <4>3. Contains(n, c) /\ x.len <= c.len /\ n.len \in 0..W /\ x.len \in 0..W /\ c.len \in 0..W
        BY <4>1, <4>2 DEF Laws, Containment, Lengths
      <4>4. Bit(c, n.len) = d
        BY <4>1, <4>2, <4>3 DEF Laws, Bits
      <4> QED BY <4>1, <4>2, <4>3, <4>4 DEF Under
    <3> QED BY <3>1, <3>3, <3>4 DEF IsTop
  <2>3. CASE ~(n = u /\ d = b)
    <3>1. kids2[n][d] = kids[n][d]
      BY <2>3 DEF Shrunk
    <3>2. kids[n][d] # x
      <4> SUFFICES ASSUME kids[n][d] = x PROVE FALSE
        OBVIOUS
      <4>1. CASE u = Nil
        BY <4>1, <2>0, HasParent
      <4>2. CASE u # Nil
        <5>1. kids[n][d] # Nil /\ kids[u][b] = kids[n][d] /\ u \in DOMAIN kids /\ n \in DOMAIN kids
          BY <1>0, <2>0, <4>2
        <5> HIDE DEF N, N2
        <5>2. n = u /\ d = b
          BY ONLY Laws, Shape(root, kids), b \in BOOLEAN, d \in BOOLEAN, <5>1, OneParent
        <5> QED BY <5>2, <2>3
      <4> QED BY <4>1, <4>2
    <3>3. Under(N, n, d) # {} => kids[n][d] \in Under(N, n, d) \ {x}
      BY <2>0, <3>2 DEF IsTop
    <3>4. Under(N, n, d) = {} => Under(N2, n, d) = {} /\ kids2[n][d] = Nil
      BY <2>0, <2>1, <3>1 DEF IsTop
    <3>5. Under(N, n, d) # {} => IsTop(Under(N2, n, d), kids2[n][d])
      BY <2>0, <2>1, <3>1, <3>3 DEF IsTop
    <3> QED BY <3>4, <3>5 DEF IsTop
  <2> QED BY <2>2, <2>3
<1> QED
  <2>1. N2 \subseteq Prefix
    BY <1>0
  <2>2. kids2 \in [N2 -> [BOOLEAN -> N2 \cup {Nil}]]
    BY DEF Shrunk
  <2> QED BY <2>1, <2>2, <1>4, <1>5 DEF Shape

-----------------------------------------------------------------------------
(* Tries and what changes them.                                            *)

Trie(root, kids, up, val, size) == [root |-> root, kids |-> kids, up |-> up, val |-> val, size |-> size]
IsTrie(t) == t = Trie(t.root, t.kids, t.up, t.val, t.size)

LEMMA TrieIs ==
  ASSUME NEW root, NEW kids, NEW up, NEW val, NEW size, NEW t, t = Trie(root, kids, up, val, size)
  PROVE  IsTrie(t) /\ t.root = root /\ t.kids = kids /\ t.up = up /\ t.val = val /\ t.size = size
  BY DEF IsTrie, Trie

LEMMA AllocIs ==
  ASSUME NEW t, IsTrie(t), NEW p, NEW u
  PROVE  Alloc(t, p, u) = Trie(t.root, Bound(t.kids, p, NoKids), Bound(t.up, p, u), t.val, t.size)
<1> DEFINE s == [t EXCEPT !.kids = Bound(t.kids, p, NoKids)]
<1>1. s = [root |-> t.root, kids |-> Bound(t.kids, p, NoKids), up |-> t.up, val |-> t.val, size |-> t.size]
  BY DEF IsTrie, Trie
<1>2. Alloc(t, p, u) = [s EXCEPT !.up = Bound(t.up, p, u)]
  BY DEF Alloc
<1> HIDE DEF s
<1> QED BY <1>1, <1>2 DEF Trie

LEMMA DeleteIs ==
  ASSUME NEW t, IsTrie(t), NEW p
  PROVE  Delete(t, p) = Trie(t.root, Without(t.kids, p), Without(t.up, p), t.val, t.size)
<1> DEFINE s == [t EXCEPT !.kids = Without(t.kids, p)]
<1>1. s = [root |-> t.root, kids |-> Without(t.kids, p), up |-> t.up, val |-> t.val, size |-> t.size]
  BY DEF IsTrie, Trie
<1>2. Delete(t, p) = [s EXCEPT !.up = Without(t.up, p)]
  BY DEF Delete
<1> HIDE DEF s
<1> QED BY <1>1, <1>2 DEF Trie

LEMMA SetValueIs ==
  ASSUME NEW t, IsTrie(t), NEW p, NEW v
  PROVE  SetValue(t, p, v) = Trie(t.root, t.kids, t.up, Bound(t.val, p, v), t.size + 1)
<1> DEFINE s == [t EXCEPT !.val = Bound(t.val, p, v)]
<1>1. s = [root |-> t.root, kids |-> t.kids, up |-> t.up, val |-> Bound(t.val, p, v), size |-> t.size]
  BY DEF IsTrie, Trie
<1>2. SetValue(t, p, v) = [s EXCEPT !.size = t.size + 1]
  BY DEF SetValue
<1> HIDE DEF s
<1> QED BY <1>1, <1>2 DEF Trie

LEMMA DropValueIs ==
  ASSUME NEW t, IsTrie(t), NEW p
  PROVE  DropValue(t, p) = Trie(t.root, t.kids, t.up, Without(t.val, p), t.size - 1)
<1> DEFINE s == [t EXCEPT !.val = Without(t.val, p)]
<1>1. s = [root |-> t.root, kids |-> t.kids, up |-> t.up, val |-> Without(t.val, p), size |-> t.size]
  BY DEF IsTrie, Trie
<1>2. DropValue(t, p) = [s EXCEPT !.size = t.size - 1]
  BY DEF DropValue
<1> HIDE DEF s
<1> QED BY <1>1, <1>2 DEF Trie

LEMMA LinkIs ==
  ASSUME NEW t, IsTrie(t), NEW n, NEW b, NEW k
  PROVE  Link(t, n, b, k) = Trie(t.root, [t.kids EXCEPT ![n][b] = k], t.up, t.val, t.size)
  BY DEF IsTrie, Trie, Link

LEMMA SetKidIs ==
  ASSUME NEW t, IsTrie(t), NEW n, NEW b, NEW k
  PROVE  SetKid(t, n, b, k) = Trie(t.root, [t.kids EXCEPT ![n][b] = k],
                                   IF k = Nil THEN t.up ELSE [t.up EXCEPT ![k] = n], t.val, t.size)
<1>1. Link(t, n, b, k) = Trie(t.root, [t.kids EXCEPT ![n][b] = k], t.up, t.val, t.size)
  BY LinkIs
<1>2. Link(t, n, b, Nil) = Trie(t.root, [t.kids EXCEPT ![n][b] = Nil], t.up, t.val, t.size)
  BY LinkIs
<1> QED BY <1>1, <1>2 DEF SetKid, Trie

LEMMA SetRootIs ==
  ASSUME NEW t, IsTrie(t), NEW n
  PROVE  [t EXCEPT !.root = n] = Trie(n, t.kids, t.up, t.val, t.size)
  BY DEF IsTrie, Trie

LEMMA BoundIs ==
  ASSUME NEW f, NEW p, NEW v
  PROVE  /\ DOMAIN Bound(f, p, v) = DOMAIN f \cup {p}
         /\ Bound(f, p, v)[p] = v
         /\ \A q \in DOMAIN f : q # p => Bound(f, p, v)[q] = f[q]
  BY DEF Bound

LEMMA WithoutIs ==
  ASSUME NEW f, NEW p
  PROVE  /\ DOMAIN Without(f, p) = DOMAIN f \ {p}
         /\ \A q \in DOMAIN f \ {p} : Without(f, p)[q] = f[q]
  BY DEF Without

\* Every parent is one; a node without a value has two children.
UpsRight(kids, up) ==
  /\ up \in [DOMAIN kids -> DOMAIN kids \cup {Nil}]
  /\ \A n \in DOMAIN kids : up[n] # Nil => \E b \in BOOLEAN : kids[up[n]][b] = n
Compressed(kids, val) == \A n \in DOMAIN kids \ DOMAIN val, b \in BOOLEAN : kids[n][b] # Nil
Counted(kids, val, size) ==
  /\ val \in [DOMAIN val -> Value]
  /\ DOMAIN val \subseteq DOMAIN kids
  /\ IsFiniteSet(DOMAIN val)
  /\ size = Cardinality(DOMAIN val)
Good(t) ==
  /\ IsTrie(t)
  /\ Shape(t.root, t.kids)
  /\ UpsRight(t.kids, t.up)
  /\ Compressed(t.kids, t.val)
  /\ Counted(t.kids, t.val, t.size)

LEMMA EmptyIsGood == Good(Empty)
<1>1. IsTrie(Empty) /\ Empty.root = Nil /\ Empty.kids = <<>> /\ Empty.up = <<>> /\ Empty.val = <<>> /\ Empty.size = 0
  BY TrieIs DEF Empty, Trie
<1>2. DOMAIN <<>> = {}
  OBVIOUS
<1>3. Shape(Nil, <<>>) /\ UpsRight(<<>>, <<>>) /\ Compressed(<<>>, <<>>)
  BY <1>2 DEF Shape, IsTop, UpsRight, Compressed
<1>4. Counted(<<>>, <<>>, 0)
  BY <1>2, FS_EmptySet DEF Counted
<1> QED BY <1>1, <1>3, <1>4 DEF Good

-----------------------------------------------------------------------------
(* addNode().                                                              *)

LEMMA PlaceIs ==
  ASSUME Laws, NEW t, Shape(t.root, t.kids), NEW p \in Prefix, NEW u \in Places(t)
  PROVE  Place(t, u, p) \in Places(t)
<1>1. CASE u = Nil
  BY <1>1 DEF Place, Places, Shape, IsTop
<1>2. CASE u # Nil
  <2>1. u \in DOMAIN t.kids /\ u \in Prefix /\ u.len \in 0..W
    BY <1>2 DEF Places, Shape, Laws, Lengths
  <2>2. Bit(p, u.len) \in BOOLEAN
    BY <2>1 DEF Laws, Bits
  <2> QED BY <1>2, <2>1, <2>2 DEF Place, Places, Shape
<1> QED BY <1>1, <1>2

\* What the search goes on to contains the prefix, is longer than where it was.
LEMMA GoingOn ==
  ASSUME Laws, NEW t, Shape(t.root, t.kids), NEW p \in Prefix, NEW u \in Places(t), GoesOn(Place(t, u, p), p)
  PROVE  LET n == Place(t, u, p)
         IN  /\ n \in DOMAIN t.kids
             /\ Contains(n, p) /\ n.len < p.len
             /\ u # Nil => u \in DOMAIN t.kids /\ u.len < n.len /\ Contains(u, p)
<1> DEFINE n == Place(t, u, p)
<1>1. n \in Places(t) /\ GoesOn(n, p)
  BY PlaceIs
<1>2. n \in DOMAIN t.kids /\ n \in Prefix /\ n.len \in 0..W /\ p.len \in 0..W /\ n.len < p.len
  BY <1>1 DEF Places, GoesOn, Shape, Laws, Lengths
<1>3. Contains(n, p)
  <2>1. Contains(n, p) \/ Contains(p, n)
    BY <1>1, <1>2 DEF GoesOn, Laws, Partings
  <2> QED BY <1>2, <2>1 DEF Laws, Containment
<1>4. ASSUME u # Nil PROVE u \in DOMAIN t.kids /\ u.len < n.len /\ Contains(u, p)
  <2>1. u \in DOMAIN t.kids /\ u \in Prefix /\ u.len \in 0..W
    BY <1>4 DEF Places, Shape, Laws, Lengths
  <2>2. Bit(p, u.len) \in BOOLEAN
    BY <2>1 DEF Laws, Bits
  <2>3. n = t.kids[u][Bit(p, u.len)] /\ n # Nil
    BY <1>1, <1>4 DEF Place, GoesOn
  <2>4. n \in Under(DOMAIN t.kids, u, Bit(p, u.len))
    <3> HIDE DEF n
    <3> QED BY <2>1, <2>2, <2>3, KidIs
  <2>5. Contains(u, n) /\ u.len < n.len
    BY <2>4 DEF Under
  <2> QED BY <1>2, <1>3, <2>1, <2>5 DEF Laws, Containment
<1> QED BY <1>2, <1>3, <1>4

AddStep(t, p, v, add, u) ==
  LET n == Place(t, u, p)
  IN  IF GoesOn(n, p)
      THEN LET below == add[n]
           IN  [t |-> Link(below.t, n, Bit(p, n.len), below.node),
                node |-> n, inserted |-> below.inserted]
      ELSE AddAt(t, n, p, v, u)
IsAdd(t, p, v, add) == add = [u \in Places(t) |-> AddStep(t, p, v, add, u)]

LEMMA AddIs ==
  ASSUME NEW t, NEW p, NEW v
  PROVE  addNode(t, p, v) = (CHOOSE add : IsAdd(t, p, v, add))[Nil]
  BY DEF addNode, IsAdd, AddStep

\* A child is put in its place.
LEMMA HangIs ==
  ASSUME NEW N, NEW R, NEW K \in [N -> [BOOLEAN -> R]], NEW w \in N, NEW b \in BOOLEAN, NEW x \in R,
         NEW K2, K2 = [K EXCEPT ![w][b] = x]
  PROVE  /\ K2 \in [N -> [BOOLEAN -> R]] /\ DOMAIN K2 = N
         /\ K2[w][b] = x
         /\ \A n \in N, d \in BOOLEAN : n # w \/ d # b => K2[n][d] = K[n][d]
         /\ \A n \in N : n # w => K2[n] = K[n]
<1>1. K2 = [n \in N |-> IF n = w THEN [K[w] EXCEPT ![b] = x] ELSE K[n]]
  OBVIOUS
<1>2. [K[w] EXCEPT ![b] = x] \in [BOOLEAN -> R]
  OBVIOUS
<1>3. [K[w] EXCEPT ![b] = x][b] = x
  OBVIOUS
<1>4. \A d \in BOOLEAN : d # b => [K[w] EXCEPT ![b] = x][d] = K[w][d]
  OBVIOUS
<1> QED BY <1>1, <1>2, <1>3, <1>4

NewUps(up, S, u, x, c) == [n \in S |-> IF n = x THEN u ELSE IF n = c THEN x ELSE up[n]]

\* The parents stay right when the new node and its child know theirs.
LEMMA UpsGrow ==
  ASSUME Laws, NEW root, NEW kids, Shape(root, kids), NEW up, UpsRight(kids, up),
         NEW u \in DOMAIN kids \cup {Nil}, NEW b \in BOOLEAN,
         NEW x \in Prefix, x \notin DOMAIN kids,
         NEW c, c = IF u = Nil THEN root ELSE kids[u][b],
         NEW root2, NEW kids2, Grown(root, kids, root2, kids2, u, b, x, c),
         NEW up2, up2 = NewUps(up, DOMAIN kids2, u, x, c)
  PROVE  UpsRight(kids2, up2)
<1> DEFINE N == DOMAIN kids
           N2 == DOMAIN kids2
<1>0. Nil \notin N /\ x # Nil /\ N2 = N \cup {x} /\ N \subseteq Prefix
  BY NilIsNone DEF Shape, Grown
<1>1. c # Nil => c \in N
  BY DEF Shape, IsTop
<1> HIDE DEF N2
<1>u. up2 \in [N2 -> {up2[n] : n \in N2}] /\ \A n \in N2 : up2[n] = IF n = x THEN u ELSE IF n = c THEN x ELSE up[n]
  BY DEF NewUps, N2
<1>2. \A n \in N2 : up2[n] \in N2 \cup {Nil}
  BY <1>0, <1>u DEF UpsRight
<1>3. ASSUME NEW n \in N2, up2[n] # Nil PROVE \E d \in BOOLEAN : kids2[up2[n]][d] = n
  <2>1. CASE n = x
    BY <2>1, <1>3, <1>u DEF Grown
  <2>2. CASE n # x /\ n = c
    <3>1. c # Nil /\ up2[n] = x
      BY <2>2, <1>0, <1>u
    <3>2. Bit(c, x.len) \in BOOLEAN
      BY <1>0, <1>1, <3>1 DEF Laws, Bits, Lengths
    <3> QED BY <2>2, <3>1, <3>2 DEF Grown
  <2>3. CASE n # x /\ n # c
    <3>1. n \in N /\ up2[n] = up[n] /\ up[n] \in N
      BY <2>3, <1>0, <1>3, <1>u DEF UpsRight
    <3>2. PICK d \in BOOLEAN : kids[up[n]][d] = n
      BY <3>1, <1>0 DEF UpsRight
    <3>3. up[n] # u \/ d # b
      BY <2>3, <3>1, <3>2, <1>0
    <3>4. kids2[up[n]][d] = n
      BY <3>1, <3>2, <3>3 DEF Grown
    <3> QED BY <3>1, <3>4
  <2> QED BY <2>1, <2>2, <2>3
<1> QED BY <1>2, <1>3, <1>u DEF UpsRight, N2

\* What is put in the place of p below u, or at the root.
Side(p, u) == IF u = Nil THEN FALSE ELSE Bit(p, u.len)
Hang(t, u, b, k) == IF u = Nil THEN [t EXCEPT !.root = k] ELSE Link(t, u, b, k)
Over(p, u) == u # Nil => Contains(u, p) /\ u.len < p.len
At(kids, root, u, b) == IF u = Nil THEN root ELSE kids[u][b]

LEMMA HangRight ==
  ASSUME NEW t, IsTrie(t), NEW u, NEW b, NEW k
  PROVE  Hang(t, u, b, k) = Trie(IF u = Nil THEN k ELSE t.root,
                                 IF u = Nil THEN t.kids ELSE [t.kids EXCEPT ![u][b] = k], t.up, t.val, t.size)
<1>1. [t EXCEPT !.root = k] = Trie(k, t.kids, t.up, t.val, t.size)
  BY SetRootIs
<1>2. Link(t, u, b, k) = Trie(t.root, [t.kids EXCEPT ![u][b] = k], t.up, t.val, t.size)
  BY LinkIs
<1> QED BY <1>1, <1>2 DEF Hang, Trie

LEMMA SideIs ==
  ASSUME Laws, NEW t, Shape(t.root, t.kids), NEW p \in Prefix, NEW u \in Places(t)
  PROVE  /\ Side(p, u) \in BOOLEAN
         /\ u \in DOMAIN t.kids \cup {Nil}
         /\ u # Nil => u \in DOMAIN t.kids /\ u \in Prefix /\ u.len \in 0..W /\ Side(p, u) = Bit(p, u.len)
         /\ Place(t, u, p) = At(t.kids, t.root, u, Side(p, u))
         /\ Nil \notin DOMAIN t.kids
<1>1. u # Nil => u \in DOMAIN t.kids /\ u \in Prefix /\ u.len \in 0..W
  BY DEF Places, Shape, Laws, Lengths
<1>2. u # Nil => Bit(p, u.len) \in BOOLEAN
  BY <1>1 DEF Laws, Bits
<1>3. Nil \notin DOMAIN t.kids
  BY NilIsNone DEF Shape
<1> QED BY <1>1, <1>2, <1>3 DEF Side, Places, Place, At

\* All nodes at a place are below the one in it.
LEMMA PlaceTop ==
  ASSUME Laws, NEW t, Shape(t.root, t.kids), NEW p \in Prefix, NEW u \in Places(t), Over(p, u),
         NEW m \in DOMAIN t.kids, Over(m, u), Side(m, u) = Side(p, u)
  PROVE  Place(t, u, p) # Nil /\ Contains(Place(t, u, p), m)
<1>0. /\ Side(p, u) \in BOOLEAN /\ Nil \notin DOMAIN t.kids
      /\ u # Nil => u \in DOMAIN t.kids /\ Side(p, u) = Bit(p, u.len)
      /\ Place(t, u, p) = At(t.kids, t.root, u, Side(p, u))
  BY SideIs
<1>1. CASE u = Nil
  BY <1>0, <1>1 DEF At, Shape, IsTop
<1>2. CASE u # Nil
  <2>1. m \in Under(DOMAIN t.kids, u, Side(p, u))
    BY <1>0, <1>2 DEF Over, Under, Side
  <2>2. IsTop(Under(DOMAIN t.kids, u, Side(p, u)), t.kids[u][Side(p, u)])
    BY <1>0, <1>2 DEF Shape
  <2>3. Place(t, u, p) \in Under(DOMAIN t.kids, u, Side(p, u)) /\ Contains(Place(t, u, p), m)
    BY <1>0, <1>2, <2>1, <2>2 DEF IsTop, At
  <2>4. Place(t, u, p) \in DOMAIN t.kids
    BY <2>3 DEF Under
  <2> QED BY <2>3, <2>4, <1>0
<1> QED BY <1>1, <1>2

LEMMA CountedGrows ==
  ASSUME NEW kids, NEW val, NEW size, Counted(kids, val, size), NEW kids2,
         NEW p \in DOMAIN kids2, DOMAIN kids \subseteq DOMAIN kids2, p \notin DOMAIN val, NEW v \in Value
  PROVE  Counted(kids2, Bound(val, p, v), size + 1)
<1> DEFINE val2 == Bound(val, p, v)
<1>1. DOMAIN val2 = DOMAIN val \cup {p} /\ val2 \in [DOMAIN val2 -> Value]
  BY DEF Bound, Counted
<1>2. IsFiniteSet(DOMAIN val) /\ size = Cardinality(DOMAIN val)
  BY DEF Counted
<1>3. IsFiniteSet(DOMAIN val \cup {p}) /\ Cardinality(DOMAIN val \cup {p}) = Cardinality(DOMAIN val) + 1
  BY <1>2, FS_AddElement
<1> QED BY <1>1, <1>2, <1>3 DEF Counted

\* What addNode() below u is to return: hung in its place, a trie with the entry.
Kept(kids, kids2, u) == \A m \in DOMAIN kids : m \in DOMAIN kids2 /\ (m # u => kids2[m] = kids[m])
Added(f, p, v) == IF p \in DOMAIN f THEN f ELSE Bound(f, p, v)
AddedAs(t, p, v, u, r, T) ==
  /\ Good(T)
  /\ T.val = Added(t.val, p, v)
  /\ Kept(t.kids, T.kids, u)
  /\ T.root = IF u = Nil THEN r.node ELSE t.root
  /\ r = [t |-> r.t, node |-> r.node, inserted |-> p \notin Entry(t)]
AddedRight(t, p, v, u, r) == AddedAs(t, p, v, u, r, Hang(r.t, u, Side(p, u), r.node))

LEMMA HangSame ==
  ASSUME Laws, NEW t, IsTrie(t), Shape(t.root, t.kids), NEW p \in Prefix, NEW u \in Places(t)
  PROVE  Hang(t, u, Side(p, u), Place(t, u, p)) = t
<1>0. /\ Side(p, u) \in BOOLEAN
      /\ u # Nil => u \in DOMAIN t.kids
      /\ Place(t, u, p) = At(t.kids, t.root, u, Side(p, u))
  BY SideIs
<1> DEFINE b == Side(p, u)
           k == Place(t, u, p)
<1>1. ASSUME u # Nil PROVE [t.kids EXCEPT ![u][b] = k] = t.kids
  <2>1. t.kids \in [DOMAIN t.kids -> [BOOLEAN -> DOMAIN t.kids \cup {Nil}]]
    BY DEF Shape
  <2>2. k = t.kids[u][b] /\ u \in DOMAIN t.kids /\ b \in BOOLEAN
    BY <1>0, <1>1 DEF At
  <2> HIDE DEF k, b
  <2> DEFINE K == t.kids
  <2>3. [K[u] EXCEPT ![b] = k] = K[u]
    BY <2>1, <2>2
  <2> QED BY <2>1, <2>2, <2>3
<1>2. u = Nil => k = t.root
  BY <1>0 DEF At
<1>3. Hang(t, u, b, k) = Trie(IF u = Nil THEN k ELSE t.root,
                              IF u = Nil THEN t.kids ELSE [t.kids EXCEPT ![u][b] = k], t.up, t.val, t.size)
  BY HangRight
<1>4. t = Trie(t.root, t.kids, t.up, t.val, t.size)
  BY DEF IsTrie
<1> QED BY <1>1, <1>2, <1>3, <1>4

LEMMA AddHereRight ==
  ASSUME Laws, NEW t, Good(t), NEW p \in Prefix, NEW v \in Value, NEW u \in Places(t),
         Place(t, u, p) = p, p # Nil
  PROVE  AddedRight(t, p, v, u, AddHere(t, p, v))
<1>0. /\ u # Nil => u \in DOMAIN t.kids
      /\ Place(t, u, p) = At(t.kids, t.root, u, Side(p, u))
      /\ p \in DOMAIN t.kids
  <2>1. Place(t, u, p) \in Places(t)
    BY PlaceIs DEF Good
  <2> QED BY <2>1, SideIs DEF Good, Places
<1>1. CASE p \in Entry(t)
  <2> DEFINE r == AddHere(t, p, v)
  <2>1. r = [t |-> t, node |-> p, inserted |-> FALSE]
    BY <1>1 DEF AddHere
  <2>2. r.t = t /\ r.node = p /\ r.inserted = FALSE
    BY <2>1
  <2>3. Hang(t, u, Side(p, u), p) = t
    BY HangSame DEF Good
  <2>4. t.root = IF u = Nil THEN p ELSE t.root
    BY <1>0 DEF At
  <2>5. r = [t |-> r.t, node |-> r.node, inserted |-> p \notin Entry(t)]
    BY <2>1, <2>2, <1>1
  <2>6. t.val = Added(t.val, p, v) /\ Kept(t.kids, t.kids, u)
    BY <1>1 DEF Added, Entry, Kept
  <2> HIDE DEF r
  <2>7. AddedAs(t, p, v, u, r, t)
    BY <2>2, <2>4, <2>5, <2>6 DEF AddedAs
  <2> QED BY <2>2, <2>3, <2>7 DEF AddedRight, r
<1>2. CASE p \notin Entry(t)
  <2> DEFINE s == SetValue(t, p, v)
             r == AddHere(t, p, v)
  <2>1. s = Trie(t.root, t.kids, t.up, Bound(t.val, p, v), t.size + 1)
    BY SetValueIs DEF Good
  <2>2. /\ IsTrie(s) /\ s.root = t.root /\ s.kids = t.kids /\ s.up = t.up /\ s.val = Bound(t.val, p, v)
        /\ s.size = t.size + 1
    BY <2>1, TrieIs
  <2> HIDE DEF s
  <2>3. Hang(s, u, Side(p, u), p) = s
    <3>1. Shape(s.root, s.kids) /\ u \in Places(s) /\ Place(s, u, p) = p
      BY <2>2 DEF Good, Places, Place
    <3> QED BY <3>1, <2>2, HangSame
  <2>4. r = [t |-> s, node |-> p, inserted |-> TRUE]
    BY <1>2 DEF AddHere, Inserted, s
  <2>5. r.t = s /\ r.node = p /\ r.inserted = TRUE
    BY <2>4
  <2>6. Counted(s.kids, s.val, s.size)
    BY <1>0, <1>2, <2>2, CountedGrows DEF Good, Entry
  <2>7. DOMAIN s.val = DOMAIN t.val \cup {p}
    BY <2>2 DEF Bound
  <2>8. Good(s)
    BY <2>2, <2>6, <2>7 DEF Good, Compressed
  <2>9. s.root = IF u = Nil THEN p ELSE t.root
    BY <1>0, <2>2 DEF At
  <2>10. r = [t |-> r.t, node |-> r.node, inserted |-> p \notin Entry(t)]
    BY <2>4, <2>5, <1>2
  <2>11. s.val = Added(t.val, p, v) /\ Kept(t.kids, s.kids, u)
    BY <1>2, <2>2 DEF Added, Entry, Kept
  <2> HIDE DEF r
  <2>12. AddedAs(t, p, v, u, r, s)
    BY <2>5, <2>8, <2>9, <2>10, <2>11 DEF AddedAs
  <2> QED BY <2>3, <2>5, <2>12 DEF AddedRight, r
<1> QED BY <1>1, <1>2
NewKids(kids, x, c) ==
  IF c = Nil THEN Bound(kids, x, NoKids) ELSE [Bound(kids, x, NoKids) EXCEPT ![x][Bit(c, x.len)] = c]
NewUp(up, u, x, c) == IF c = Nil THEN Bound(up, x, u) ELSE [Bound(up, x, u) EXCEPT ![c] = x]
Hung(kids, u, b, x) == IF u = Nil THEN kids ELSE [kids EXCEPT ![u][b] = x]

\* A new node x at a place, with the node that was there below it.
LEMMA GrowsRight ==
  ASSUME Laws, NEW t, Shape(t.root, t.kids), UpsRight(t.kids, t.up), NEW x \in Prefix, x \notin DOMAIN t.kids,
         NEW u \in Places(t), Over(x, u), NEW c, c = Place(t, u, x), c # Nil => Contains(x, c),
         NEW kids2, kids2 = Hung(NewKids(t.kids, x, c), u, Side(x, u), x),
         NEW up2, up2 = NewUp(t.up, u, x, c),
         NEW root2, root2 = IF u = Nil THEN x ELSE t.root
  PROVE  /\ Grown(t.root, t.kids, root2, kids2, u, Side(x, u), x, c)
         /\ Shape(root2, kids2)
         /\ UpsRight(kids2, up2)
         /\ Kept(t.kids, kids2, u)
<1> DEFINE kids == t.kids
           N == DOMAIN kids
           M == N \cup {x}
           b == Side(x, u)
           Fresh == Bound(kids, x, NoKids)
           K1 == NewKids(kids, x, c)
           e == Bit(c, x.len)
<1>0. /\ b \in BOOLEAN /\ Nil \notin N
      /\ u \in N \cup {Nil}
      /\ u # Nil => u \in N /\ u \in Prefix /\ u.len \in 0..W /\ b = Bit(x, u.len)
      /\ c = At(kids, t.root, u, b)
  BY SideIs
<1>1. x # Nil /\ x.len \in 0..W /\ N \subseteq Prefix /\ kids \in [N -> [BOOLEAN -> N \cup {Nil}]]
  BY NilIsNone DEF Shape, Laws, Lengths
<1>2. c # Nil => c \in N
  <2>1. c \in Places(t)
    BY PlaceIs
  <2> QED BY <2>1 DEF Places
<1>3. c # Nil => e \in BOOLEAN
  BY <1>1, <1>2 DEF Laws, Bits
<1>4. /\ Fresh \in [M -> [BOOLEAN -> M \cup {Nil}]] /\ DOMAIN Fresh = M
      /\ \A d \in BOOLEAN : Fresh[x][d] = Nil
      /\ \A n \in N : Fresh[n] = kids[n]
  <2> HIDE DEF N, M, kids, Fresh
  <2>1. /\ Fresh = Bound(kids, x, NoKids) /\ x \notin N /\ kids \in [N -> [BOOLEAN -> N \cup {Nil}]]
        /\ N \cup {Nil} \subseteq M \cup {Nil} /\ Nil \in M \cup {Nil} /\ M = N \cup {x}
    BY <1>1 DEF Fresh, M, N, kids
  <2> DEFINE R == N \cup {Nil}
             R2 == M \cup {Nil}
  <2>2. /\ Fresh = Bound(kids, x, NoKids) /\ x \notin N /\ kids \in [N -> [BOOLEAN -> R]]
        /\ R \subseteq R2 /\ Nil \in R2 /\ M = N \cup {x}
    BY <2>1
  <2> HIDE DEF R, R2
  <2>3. NoKids \in [BOOLEAN -> R2] /\ \A d \in BOOLEAN : NoKids[d] = Nil
    BY <2>2 DEF NoKids
  <2>4. \A n \in N : kids[n] \in [BOOLEAN -> R2]
    BY <2>2
  <2>5. Fresh = [q \in M |-> IF q = x THEN NoKids ELSE kids[q]]
    BY <2>2 DEF Bound
  <2>6. Fresh \in [M -> [BOOLEAN -> R2]] /\ DOMAIN Fresh = M
    BY <2>2, <2>3, <2>4, <2>5
  <2> QED BY <2>2, <2>3, <2>5, <2>6 DEF R2
<1>5. /\ K1 \in [M -> [BOOLEAN -> M \cup {Nil}]]
      /\ \A d \in BOOLEAN : K1[x][d] = IF c # Nil /\ d = e THEN c ELSE Nil
      /\ \A n \in N : K1[n] = kids[n]
  <2> HIDE DEF N, kids, Fresh, M, e
  <2>1. CASE c = Nil
    <3>1. K1 = Fresh
      BY <2>1 DEF NewKids, Fresh
    <3> QED BY <1>4, <2>1, <3>1 DEF M
  <2>2. CASE c # Nil
    <3>1. K1 = [Fresh EXCEPT ![x][e] = c]
      BY <2>2 DEF NewKids, Fresh, e
    <3>2. x \in M /\ c \in M \cup {Nil} /\ e \in BOOLEAN
      BY <1>2, <1>3, <2>2 DEF M
    <3> HIDE DEF K1
    <3>3. /\ K1 \in [M -> [BOOLEAN -> M \cup {Nil}]] /\ K1[x][e] = c
          /\ \A n \in M, d \in BOOLEAN : n # x \/ d # e => K1[n][d] = Fresh[n][d]
          /\ \A n \in M : n # x => K1[n] = Fresh[n]
      BY <1>4, <3>1, <3>2, HangIs
    <3>4. \A n \in N : K1[n] = kids[n]
      BY <1>4, <3>3 DEF M, N, kids
    <3> QED BY <1>4, <2>2, <3>2, <3>3, <3>4
  <2> QED BY <2>1, <2>2
<1>6. /\ kids2 \in [M -> [BOOLEAN -> M \cup {Nil}]] /\ DOMAIN kids2 = M
      /\ u # Nil => kids2[u][b] = x
      /\ \A n \in M, d \in BOOLEAN : n # u \/ d # b => kids2[n][d] = K1[n][d]
      /\ \A n \in M : n # u => kids2[n] = K1[n]
  <2> HIDE DEF N, kids, Fresh, M, e, K1, b
  <2>1. CASE u = Nil
    <3>1. kids2 = K1
      BY <2>1 DEF Hung, K1, kids
    <3> QED BY <1>5, <2>1, <3>1
  <2>2. CASE u # Nil
    <3>1. kids2 = [K1 EXCEPT ![u][b] = x]
      BY <2>2 DEF Hung, K1, kids, b
    <3>2. x \in M /\ u \in M /\ x \in M \cup {Nil} /\ b \in BOOLEAN
      BY <1>0, <2>2 DEF M, b
    <3> QED BY <1>5, <3>1, <3>2, HangIs
  <2> QED BY <2>1, <2>2
<1>7. Grown(t.root, kids, root2, kids2, u, b, x, c)
  <2> HIDE DEF K1, Fresh, b, e
  <2>1. \A n \in N, d \in BOOLEAN : n # u \/ d # b => kids2[n][d] = kids[n][d]
    BY <1>5, <1>6
  <2>2. \A d \in BOOLEAN : kids2[x][d] = IF c # Nil /\ d = e THEN c ELSE Nil
    BY <1>0, <1>1, <1>5, <1>6
  <2> QED BY <1>6, <2>1, <2>2 DEF Grown, e
<1>8. Shape(root2, kids2)
  <2>1. u # Nil => u.len < x.len /\ Contains(u, x) /\ Bit(x, u.len) = b
    BY <1>0 DEF Over
  <2>2. c = IF u = Nil THEN t.root ELSE kids[u][b]
    BY <1>0 DEF At
  <2> HIDE DEF b, kids, N
  <2>3. Shape(t.root, kids) /\ u \in DOMAIN kids \cup {Nil} /\ x \notin DOMAIN kids /\ b \in BOOLEAN
    BY <1>0 DEF kids, N
  <2> QED BY <1>7, <2>1, <2>2, <2>3, ShapeGrows
<1>9. UpsRight(kids2, up2)
  <2>1. up2 = [n \in M |-> IF n = x THEN u ELSE IF n = c THEN x ELSE t.up[n]]
    <3>1. DOMAIN t.up = N
      BY DEF UpsRight
    <3>2. Bound(t.up, x, u) = [n \in M |-> IF n = x THEN u ELSE t.up[n]]
      BY <3>1 DEF Bound
    <3>3. CASE c = Nil
      BY <3>2, <3>3, <1>0, <1>1 DEF NewUp
    <3>4. CASE c # Nil
      <4>1. c \in M /\ c # x
        BY <3>4, <1>2
      <4>2. up2 = [Bound(t.up, x, u) EXCEPT ![c] = x]
        BY <3>4 DEF NewUp
      <4> QED BY <3>2, <4>1, <4>2
    <3> QED BY <3>3, <3>4
  <2>2. c = IF u = Nil THEN t.root ELSE kids[u][b]
    BY <1>0 DEF At
  <2>3. up2 = NewUps(t.up, DOMAIN kids2, u, x, c)
    BY <1>6, <2>1 DEF NewUps
  <2> DEFINE up == t.up
  <2>4. Shape(t.root, kids) /\ u \in DOMAIN kids \cup {Nil} /\ x \notin DOMAIN kids /\ b \in BOOLEAN
        /\ UpsRight(kids, up) /\ up2 = NewUps(up, DOMAIN kids2, u, x, c)
    BY <1>0, <2>3
  <2> HIDE DEF b, kids, N, M, up
  <2> QED BY ONLY Laws, x \in Prefix, <1>7, <2>2, <2>4, UpsGrow
<1>10. Kept(kids, kids2, u)
  <2> HIDE DEF K1
  <2> QED BY <1>5, <1>6 DEF Kept
<1> QED BY <1>7, <1>8, <1>9, <1>10
\* Children change at the place, where the new node comes.
LEMMA StaysCompressed ==
  ASSUME NEW root, NEW kids, Nil \notin DOMAIN kids, NEW val, Compressed(kids, val), NEW root2, NEW kids2, NEW u, NEW b, NEW x, NEW c,
         Grown(root, kids, root2, kids2, u, b, x, c), x # Nil, NEW val2, DOMAIN val2 = DOMAIN val \cup {x}
  PROVE  Compressed(kids2, val2)
<1> SUFFICES ASSUME NEW n \in DOMAIN kids2 \ DOMAIN val2, NEW d \in BOOLEAN PROVE kids2[n][d] # Nil
  BY DEF Compressed
<1>1. n \in DOMAIN kids \ DOMAIN val
  BY DEF Grown
<1>2. kids[n][d] # Nil
  BY <1>1 DEF Compressed
<1>3. CASE n # u \/ d # b
  BY <1>1, <1>2, <1>3 DEF Grown
<1>4. CASE n = u /\ d = b
  <2>1. n # Nil
    BY <1>1
  <2> QED BY <1>1, <1>4, <2>1 DEF Grown
<1> QED BY <1>3, <1>4

LEMMA FreshRight ==
  ASSUME Laws, NEW t, Good(t), NEW p \in Prefix, p \notin DOMAIN t.kids, NEW v \in Value, NEW u \in Places(t), Over(p, u),
         NEW n, n = Place(t, u, p), n # Nil => Contains(p, n),
         NEW s, s = Trie(t.root, NewKids(t.kids, p, n), NewUp(t.up, u, p, n), Bound(t.val, p, v), t.size + 1)
  PROVE  AddedRight(t, p, v, u, Inserted(s, p))
<1> DEFINE r == Inserted(s, p)
           b == Side(p, u)
           kids2 == Hung(NewKids(t.kids, p, n), u, b, p)
           up2 == NewUp(t.up, u, p, n)
           val2 == Bound(t.val, p, v)
           root2 == IF u = Nil THEN p ELSE t.root
           T == Trie(root2, kids2, up2, val2, t.size + 1)
<1>0. b \in BOOLEAN /\ p # Nil /\ Nil \notin DOMAIN t.kids /\ DOMAIN t.val \subseteq DOMAIN t.kids
  BY SideIs, NilIsNone DEF Good, Counted
<1>1. /\ IsTrie(s) /\ s.root = t.root /\ s.kids = NewKids(t.kids, p, n) /\ s.up = up2 /\ s.val = val2
      /\ s.size = t.size + 1
  BY TrieIs
<1>2. Hang(s, u, b, p) = T
  <2>1. Hang(s, u, b, p) = Trie(IF u = Nil THEN p ELSE s.root,
                                IF u = Nil THEN s.kids ELSE [s.kids EXCEPT ![u][b] = p], s.up, s.val, s.size)
    <3> HIDE DEF b
    <3> QED BY <1>1, HangRight
  <2>2. kids2 = IF u = Nil THEN s.kids ELSE [s.kids EXCEPT ![u][b] = p]
    BY <1>1 DEF Hung
  <2> HIDE DEF kids2, b, val2, up2
  <2> QED BY <1>1, <2>1, <2>2
<1>3. r = [t |-> s, node |-> p, inserted |-> TRUE]
  BY DEF Inserted
<1>4. r.t = s /\ r.node = p
  BY <1>3
<1>5. /\ IsTrie(T) /\ T.root = root2 /\ T.kids = kids2 /\ T.up = up2 /\ T.val = val2 /\ T.size = t.size + 1
  <2> HIDE DEF root2, kids2, up2, val2
  <2> QED BY TrieIs
<1>6. /\ Grown(t.root, t.kids, root2, kids2, u, b, p, n)
      /\ Shape(root2, kids2)
      /\ UpsRight(kids2, up2)
      /\ Kept(t.kids, kids2, u)
  <2>1. Shape(t.root, t.kids) /\ UpsRight(t.kids, t.up)
    BY DEF Good
  <2>2. kids2 = Hung(NewKids(t.kids, p, n), u, Side(p, u), p) /\ up2 = NewUp(t.up, u, p, n)
        /\ root2 = IF u = Nil THEN p ELSE t.root
    OBVIOUS
  <2> HIDE DEF kids2, up2, root2
  <2>3. Grown(t.root, t.kids, root2, kids2, u, Side(p, u), p, n) /\ Shape(root2, kids2) /\ UpsRight(kids2, up2)
        /\ Kept(t.kids, kids2, u)
    BY <2>1, <2>2, GrowsRight
  <2> QED BY <2>3
<1> HIDE DEF root2, kids2, up2, b, T, r
<1>7. DOMAIN val2 = DOMAIN t.val \cup {p}
  BY DEF Bound
<1>8. Compressed(kids2, val2)
  <2>1. Compressed(t.kids, t.val)
    BY DEF Good
  <2> HIDE DEF val2
  <2> QED BY <1>0, <1>6, <1>7, <2>1, StaysCompressed
<1>9. Counted(kids2, val2, t.size + 1)
  <2>1. Counted(t.kids, t.val, t.size)
    BY DEF Good
  <2>2. p \in DOMAIN kids2 /\ DOMAIN t.kids \subseteq DOMAIN kids2 /\ p \notin DOMAIN t.val
    BY <1>0, <1>6 DEF Grown
  <2> QED BY <2>1, <2>2, CountedGrows
<1>10. Good(T)
  <2> HIDE DEF val2
  <2> QED BY <1>5, <1>6, <1>8, <1>9 DEF Good
<1>11. AddedAs(t, p, v, u, r, T)
  <2>1. T.val = Added(t.val, p, v)
    BY <1>0, <1>5 DEF Added
  <2>2. T.root = IF u = Nil THEN r.node ELSE t.root
    BY <1>4, <1>5 DEF root2
  <2>3. r = [t |-> r.t, node |-> r.node, inserted |-> p \notin Entry(t)]
    <3>1. p \notin Entry(t)
      BY <1>0 DEF Entry
    <3> QED BY <1>3, <1>4, <3>1
  <2>4. Kept(t.kids, T.kids, u)
    BY <1>5, <1>6
  <2> QED BY <1>10, <2>1, <2>2, <2>3, <2>4 DEF AddedAs
<1> QED BY <1>2, <1>4, <1>11 DEF AddedRight, r, b

LEMMA AddLeafRight ==
  ASSUME Laws, NEW t, Good(t), NEW p \in Prefix, p \notin DOMAIN t.kids, NEW v \in Value, NEW u \in Places(t), Over(p, u),
         Place(t, u, p) = Nil
  PROVE  AddedRight(t, p, v, u, AddLeaf(t, p, v, u))
<1> DEFINE a == Alloc(t, p, u)
           s == SetValue(a, p, v)
<1>1. a = Trie(t.root, Bound(t.kids, p, NoKids), Bound(t.up, p, u), t.val, t.size)
  BY AllocIs DEF Good
<1> HIDE DEF a
<1>2. /\ IsTrie(a) /\ a.root = t.root /\ a.kids = Bound(t.kids, p, NoKids) /\ a.up = Bound(t.up, p, u)
      /\ a.val = t.val /\ a.size = t.size
  BY <1>1, TrieIs
<1>3. s = Trie(a.root, a.kids, a.up, Bound(a.val, p, v), a.size + 1)
  BY <1>2, SetValueIs
<1> DEFINE n == Place(t, u, p)
<1>4. n = Nil /\ NewKids(t.kids, p, n) = Bound(t.kids, p, NoKids) /\ NewUp(t.up, u, p, n) = Bound(t.up, p, u)
  BY DEF NewKids, NewUp
<1>5. s = Trie(t.root, NewKids(t.kids, p, n), NewUp(t.up, u, p, n), Bound(t.val, p, v), t.size + 1)
  BY <1>2, <1>3, <1>4
<1>6. AddLeaf(t, p, v, u) = Inserted(s, p)
  BY DEF AddLeaf, a
<1>7. n = Place(t, u, p) /\ (n # Nil => Contains(p, n))
  BY <1>4
<1> HIDE DEF s, n
<1> QED BY <1>5, <1>6, <1>7, FreshRight

LEMMA AddAboveRight ==
  ASSUME Laws, NEW t, Good(t), NEW p \in Prefix, p \notin DOMAIN t.kids, NEW v \in Value, NEW u \in Places(t), Over(p, u),
         NEW n, n = Place(t, u, p), n # Nil, Contains(p, n)
  PROVE  AddedRight(t, p, v, u, AddAbove(t, n, p, v, u))
<1> DEFINE a == Alloc(t, p, u)
           c == SetValue(a, p, v)
           s == SetKid(c, p, Bit(n, p.len), n)
<1>1. a = Trie(t.root, Bound(t.kids, p, NoKids), Bound(t.up, p, u), t.val, t.size)
  BY AllocIs DEF Good
<1> HIDE DEF a
<1>2. /\ IsTrie(a) /\ a.root = t.root /\ a.kids = Bound(t.kids, p, NoKids) /\ a.up = Bound(t.up, p, u)
      /\ a.val = t.val /\ a.size = t.size
  BY <1>1, TrieIs
<1>3. c = Trie(a.root, a.kids, a.up, Bound(a.val, p, v), a.size + 1)
  BY <1>2, SetValueIs
<1> HIDE DEF c
<1>4. /\ IsTrie(c) /\ c.root = a.root /\ c.kids = a.kids /\ c.up = a.up
      /\ c.val = Bound(a.val, p, v) /\ c.size = a.size + 1
  BY <1>3, TrieIs
<1>5. s = Trie(c.root, [c.kids EXCEPT ![p][Bit(n, p.len)] = n], IF n = Nil THEN c.up ELSE [c.up EXCEPT ![n] = p], c.val, c.size)
  BY <1>4, SetKidIs
<1>6. NewKids(t.kids, p, n) = [c.kids EXCEPT ![p][Bit(n, p.len)] = n] /\ NewUp(t.up, u, p, n) = [c.up EXCEPT ![n] = p]
  BY <1>2, <1>4 DEF NewKids, NewUp
<1>7. s = Trie(t.root, NewKids(t.kids, p, n), NewUp(t.up, u, p, n), Bound(t.val, p, v), t.size + 1)
  BY <1>2, <1>4, <1>5, <1>6
<1>8. AddAbove(t, n, p, v, u) = Inserted(s, p)
  BY DEF AddAbove, a, c
<1> HIDE DEF s
<1> QED BY <1>7, <1>8, FreshRight
IsMap(F) == F = [q \in DOMAIN F |-> F[q]]
SetAt(F, a, e, y) == [F EXCEPT ![a][e] = y]

LEMMA BoundExcept ==
  ASSUME NEW F, IsMap(F), NEW a \in DOMAIN F, NEW e, NEW y, NEW p, p # a, NEW z
  PROVE  Bound(SetAt(F, a, e, y), p, z) = SetAt(Bound(F, p, z), a, e, y)
<1> DEFINE w == [F[a] EXCEPT ![e] = y]
           D == DOMAIN F
           G == [q \in D |-> IF q = a THEN w ELSE F[q]]
           H == [q \in D \cup {p} |-> IF q = p THEN z ELSE F[q]]
<1>1. [F EXCEPT ![a][e] = y] = G
  BY DEF IsMap
<1>2. Bound(G, p, z) = [q \in D \cup {p} |-> IF q = p THEN z ELSE G[q]]
  BY DEF Bound
<1>3. Bound(F, p, z) = H
  BY DEF Bound
<1>4. [H EXCEPT ![a][e] = y] = [q \in D \cup {p} |-> IF q = a THEN [H[a] EXCEPT ![e] = y] ELSE H[q]]
  OBVIOUS
<1>5. H[a] = F[a]
  OBVIOUS
<1>6. Bound(G, p, z) = [H EXCEPT ![a][e] = y]
  <2>1. [H[a] EXCEPT ![e] = y] = w
    BY <1>5
  <2>2. [q \in D \cup {p} |-> IF q = p THEN z ELSE G[q]] = [q \in D \cup {p} |-> IF q = a THEN w ELSE H[q]]
    <3> HIDE DEF w
    <3> QED OBVIOUS
  <2>3. [H EXCEPT ![a][e] = y] = [q \in D \cup {p} |-> IF q = a THEN w ELSE H[q]]
    BY <1>4, <2>1
  <2> HIDE DEF w, G, H
  <2> QED BY <1>2, <2>2, <2>3
<1> HIDE DEF G, H, w
<1> QED BY <1>1, <1>3, <1>6 DEF SetAt

LEMMA ExceptSwap ==
  ASSUME NEW F, IsMap(F), NEW a \in DOMAIN F, NEW c \in DOMAIN F, a # c,
         NEW e, NEW y, NEW g, NEW z
  PROVE  SetAt(SetAt(F, a, e, y), c, g, z) = SetAt(SetAt(F, c, g, z), a, e, y)
<1> DEFINE wa == [F[a] EXCEPT ![e] = y]
           wc == [F[c] EXCEPT ![g] = z]
           G == [F EXCEPT ![a][e] = y]
           H == [F EXCEPT ![c][g] = z]
<1>1. G = [q \in DOMAIN F |-> IF q = a THEN wa ELSE F[q]]
  BY DEF IsMap
<1>2. H = [q \in DOMAIN F |-> IF q = c THEN wc ELSE F[q]]
  BY DEF IsMap
<1> HIDE DEF G, H
<1>3. [G EXCEPT ![c][g] = z] = [q \in DOMAIN F |-> IF q = c THEN [G[c] EXCEPT ![g] = z] ELSE G[q]]
  BY <1>1
<1>4. [H EXCEPT ![a][e] = y] = [q \in DOMAIN F |-> IF q = a THEN [H[a] EXCEPT ![e] = y] ELSE H[q]]
  BY <1>2
<1>5. G[c] = F[c] /\ H[a] = F[a]
  BY <1>1, <1>2
<1>6. [G[c] EXCEPT ![g] = z] = wc /\ [H[a] EXCEPT ![e] = y] = wa
  BY <1>5
<1> HIDE DEF wa, wc
<1>7. [G EXCEPT ![c][g] = z] = [H EXCEPT ![a][e] = y]
  BY <1>1, <1>2, <1>3, <1>4, <1>6
<1> QED BY <1>7 DEF G, H, SetAt

BesideKids(kids, br, p, e, n, g) ==
  [[Bound(Bound(kids, br, NoKids), p, NoKids) EXCEPT ![br][e] = n] EXCEPT ![br][g] = p]
BesideUp(up, u, br, p, n) == [[Bound(Bound(up, br, u), p, br) EXCEPT ![n] = br] EXCEPT ![p] = br]

\* A branch and a leaf that come one after the other.
LEMMA BesideKidsAre ==
  ASSUME NEW kids, IsMap(kids), NEW br, NEW p, br \notin DOMAIN kids, p \notin DOMAIN kids,
         br # p, NEW e, NEW n, n # Nil, Bit(n, br.len) = e, NEW g, NEW u, u # Nil => u \in DOMAIN kids, NEW b, br # Nil
  PROVE  Hung(BesideKids(kids, br, p, e, n, g), u, b, br) =
         Hung(NewKids(Hung(NewKids(kids, br, n), u, b, br), p, Nil), br, g, p)
<1> DEFINE F == Bound(kids, br, NoKids)
           E1 == SetAt(F, br, e, n)
           E2 == SetAt(Bound(F, p, NoKids), br, e, n)
<1>1. NewKids(kids, br, n) = E1
  BY DEF NewKids, SetAt
<1>2. DOMAIN F = DOMAIN kids \cup {br} /\ IsMap(F)
  BY DEF Bound, IsMap
<1>3. Bound(E1, p, NoKids) = E2
  <2> HIDE DEF F
  <2> QED BY <1>2, BoundExcept
<1>4. DOMAIN Bound(F, p, NoKids) = DOMAIN F \cup {p} /\ IsMap(Bound(F, p, NoKids))
  BY DEF Bound, IsMap
<1>5. DOMAIN E1 = DOMAIN F /\ IsMap(E1) /\ DOMAIN E2 = DOMAIN F \cup {p} /\ IsMap(E2)
  <2> DEFINE B == Bound(F, p, NoKids)
  <2> HIDE DEF F, B
  <2>1. IsMap(F) /\ IsMap(B) /\ DOMAIN B = DOMAIN F \cup {p}
    BY <1>2, <1>4 DEF B
  <2>2. DOMAIN SetAt(F, br, e, n) = DOMAIN F /\ IsMap(SetAt(F, br, e, n))
    BY <2>1 DEF IsMap, SetAt
  <2>3. DOMAIN SetAt(B, br, e, n) = DOMAIN B /\ IsMap(SetAt(B, br, e, n))
    BY <2>1 DEF IsMap, SetAt
  <2> QED BY <2>1, <2>2, <2>3 DEF B
<1>6. BesideKids(kids, br, p, e, n, g) = SetAt(E2, br, g, p)
  BY DEF BesideKids, SetAt
<1> HIDE DEF F, E1, E2
<1>7. CASE u = Nil
  <2>1. Hung(BesideKids(kids, br, p, e, n, g), u, b, br) = SetAt(E2, br, g, p)
    BY <1>6, <1>7 DEF Hung, SetAt
  <2>2. Hung(NewKids(kids, br, n), u, b, br) = E1
    BY <1>1, <1>7 DEF Hung, SetAt
  <2>3. NewKids(E1, p, Nil) = E2
    BY <1>3 DEF NewKids
  <2> QED BY <2>1, <2>2, <2>3 DEF Hung, SetAt
<1>8. CASE u # Nil
  <2>1. u \in DOMAIN kids /\ u # br /\ u # p
    BY <1>8
  <2>2. Hung(NewKids(kids, br, n), u, b, br) = SetAt(E1, u, b, br)
    BY <1>1, <1>8 DEF Hung, SetAt
  <2>3. Bound(SetAt(E1, u, b, br), p, NoKids) = SetAt(Bound(E1, p, NoKids), u, b, br)
    BY <1>2, <1>5, <2>1, BoundExcept
  <2>4. NewKids(Hung(NewKids(kids, br, n), u, b, br), p, Nil) = SetAt(E2, u, b, br)
    BY <1>3, <2>2, <2>3 DEF NewKids
  <2>5. SetAt(SetAt(E2, u, b, br), br, g, p) = SetAt(SetAt(E2, br, g, p), u, b, br)
    BY <1>2, <1>5, <2>1, ExceptSwap
  <2>6. Hung(BesideKids(kids, br, p, e, n, g), u, b, br) = SetAt(SetAt(E2, br, g, p), u, b, br)
    BY <1>6, <1>8 DEF Hung, SetAt
  <2> QED BY <2>4, <2>5, <2>6 DEF Hung, SetAt
<1> QED BY <1>7, <1>8

LEMMA BesideUpIs ==
  ASSUME NEW up, NEW u, NEW br, NEW p, br # p, NEW n \in DOMAIN up, n # p, n # br, n # Nil
  PROVE  BesideUp(up, u, br, p, n) = NewUp(NewUp(up, u, br, n), br, p, Nil)
<1> DEFINE D == DOMAIN up \cup {br, p}
           G == [q \in D |-> IF q = p \/ q = n THEN br ELSE IF q = br THEN u ELSE up[q]]
<1>1. BesideUp(up, u, br, p, n) = G
  <2> DEFINE B == Bound(Bound(up, br, u), p, br)
  <2>1. B = [q \in D |-> IF q = p THEN br ELSE IF q = br THEN u ELSE up[q]]
    BY DEF Bound
  <2>2. BesideUp(up, u, br, p, n) = [[B EXCEPT ![n] = br] EXCEPT ![p] = br]
    BY DEF BesideUp
  <2> HIDE DEF B
  <2> QED BY <2>1, <2>2
<1>2. NewUp(NewUp(up, u, br, n), br, p, Nil) = G
  <2> DEFINE B == Bound(up, br, u)
             C == [B EXCEPT ![n] = br]
  <2>1. B = [q \in DOMAIN up \cup {br} |-> IF q = br THEN u ELSE up[q]]
    BY DEF Bound
  <2>2. NewUp(up, u, br, n) = C
    BY DEF NewUp
  <2> HIDE DEF B
  <2>3. C = [q \in DOMAIN up \cup {br} |-> IF q = n THEN br ELSE IF q = br THEN u ELSE up[q]]
    BY <2>1
  <2>4. NewUp(C, br, p, Nil) = Bound(C, p, br)
    BY DEF NewUp
  <2> HIDE DEF C
  <2> QED BY <2>2, <2>3, <2>4 DEF Bound
<1> QED BY <1>1, <1>2
\* The branch of two prefixes that part below u.
LEMMA BranchIs ==
  ASSUME Laws, NEW t, Shape(t.root, t.kids), NEW p \in Prefix, NEW u \in Places(t), Over(p, u),
         NEW n, n = Place(t, u, p), n # Nil, NEW d, d = DiffBit(n, p), d >= 0,
         NEW x, x = New(n.net, d)
  PROVE  /\ n \in DOMAIN t.kids /\ n \in Prefix
         /\ x \in Prefix /\ x.len = d /\ d \in 0..W /\ d < p.len /\ d < n.len
         /\ Contains(x, n) /\ Contains(x, p)
         /\ Bit(n, d) \in BOOLEAN /\ Bit(p, d) \in BOOLEAN /\ Bit(n, d) # Bit(p, d)
         /\ x \notin DOMAIN t.kids /\ p \notin DOMAIN t.kids
         /\ Over(x, u) /\ Side(x, u) = Side(p, u) /\ Place(t, u, x) = n
<1>0. /\ Side(p, u) \in BOOLEAN /\ Nil \notin DOMAIN t.kids
      /\ u # Nil => u \in DOMAIN t.kids /\ u \in Prefix /\ u.len \in 0..W /\ Side(p, u) = Bit(p, u.len)
      /\ n = At(t.kids, t.root, u, Side(p, u))
  BY SideIs
<1>1. n \in DOMAIN t.kids /\ n \in Prefix /\ n.len \in 0..W /\ p.len \in 0..W
  <2>1. n \in Places(t)
    BY PlaceIs
  <2> QED BY <2>1 DEF Places, Shape, Laws, Lengths
<1>2. Parts(n, p, d)
  BY <1>1 DEF Laws, Partings
<1>3. /\ x \in Prefix /\ x.len = d /\ d \in 0..W /\ d < p.len /\ d < n.len
      /\ Contains(x, n) /\ Contains(x, p) /\ Bit(n, d) # Bit(p, d)
  BY <1>2 DEF Parts
<1>4. Bit(n, d) \in BOOLEAN /\ Bit(p, d) \in BOOLEAN
  BY <1>1, <1>3 DEF Laws, Bits
<1>5. p \notin DOMAIN t.kids
  <2> SUFFICES ASSUME p \in DOMAIN t.kids PROVE FALSE
    OBVIOUS
  <2>1. Contains(n, p)
    BY PlaceTop
  <2> QED BY <1>1, <1>3, <2>1 DEF Laws, Bits
<1>6. ASSUME u # Nil PROVE u.len < d /\ Contains(u, x) /\ Bit(x, u.len) = Bit(p, u.len)
  <2>1. n \in Under(DOMAIN t.kids, u, Side(p, u))
    <3>1. t.kids[u][Side(p, u)] = n
      BY <1>0, <1>6 DEF At
    <3> QED BY <1>0, <1>6, <3>1, KidIs
  <2>2. Contains(u, n) /\ u.len < n.len /\ Bit(n, u.len) = Bit(p, u.len) /\ Contains(u, p) /\ u.len < p.len
    BY <1>0, <1>6, <2>1 DEF Under, Over
  <2>3. u.len # d
    BY <1>3, <2>2
  <2>4. ~(d < u.len)
    BY <1>0, <1>1, <1>3, <1>6, <2>2 DEF Laws, Bits
  <2>5. u.len < d
    BY <1>0, <1>3, <1>6, <2>3, <2>4
  <2>6. Contains(u, x)
    BY <1>0, <1>1, <1>3, <1>6, <2>2, <2>5 DEF Laws, Chains
  <2>7. Bit(x, u.len) = Bit(p, u.len)
    BY <1>0, <1>3, <1>6, <2>5 DEF Laws, Bits
  <2> QED BY <2>5, <2>6, <2>7
<1>7. Over(x, u) /\ Side(x, u) = Side(p, u) /\ Place(t, u, x) = n
  BY <1>0, <1>3, <1>6 DEF Over, Side, Place
<1>8. x \notin DOMAIN t.kids
  <2> SUFFICES ASSUME x \in DOMAIN t.kids PROVE FALSE
    OBVIOUS
  <2>1. Contains(n, x)
    BY <1>7, PlaceTop
  <2> QED BY <1>1, <1>3, <2>1 DEF Laws, Containment
<1> QED BY <1>1, <1>3, <1>4, <1>5, <1>7, <1>8

LEMMA BesideTrie ==
  ASSUME NEW t, IsTrie(t), NEW br, NEW u, NEW p, NEW v, NEW n, n # Nil, p # Nil, NEW e, NEW g
  PROVE  LET both == SetValue(Alloc(Alloc(t, br, u), p, br), p, v)
         IN  SetKid(SetKid(both, br, e, n), br, g, p) =
             Trie(t.root, BesideKids(t.kids, br, p, e, n, g), BesideUp(t.up, u, br, p, n), Bound(t.val, p, v), t.size + 1)
<1> DEFINE a == Alloc(t, br, u)
           c == Alloc(a, p, br)
           both == SetValue(c, p, v)
           s == SetKid(both, br, e, n)
<1>1. a = Trie(t.root, Bound(t.kids, br, NoKids), Bound(t.up, br, u), t.val, t.size)
  BY AllocIs
<1> HIDE DEF a
<1>2. /\ IsTrie(a) /\ a.root = t.root /\ a.kids = Bound(t.kids, br, NoKids) /\ a.up = Bound(t.up, br, u)
      /\ a.val = t.val /\ a.size = t.size
  BY <1>1, TrieIs
<1>3. c = Trie(a.root, Bound(a.kids, p, NoKids), Bound(a.up, p, br), a.val, a.size)
  BY <1>2, AllocIs
<1> HIDE DEF c
<1>4. /\ IsTrie(c) /\ c.root = a.root /\ c.kids = Bound(a.kids, p, NoKids) /\ c.up = Bound(a.up, p, br)
      /\ c.val = a.val /\ c.size = a.size
  BY <1>3, TrieIs
<1>5. both = Trie(c.root, c.kids, c.up, Bound(c.val, p, v), c.size + 1)
  BY <1>4, SetValueIs
<1> HIDE DEF both
<1>6. /\ IsTrie(both) /\ both.root = c.root /\ both.kids = c.kids /\ both.up = c.up
      /\ both.val = Bound(c.val, p, v) /\ both.size = c.size + 1
  BY <1>5, TrieIs
<1>7. s = Trie(both.root, [both.kids EXCEPT ![br][e] = n], IF n = Nil THEN both.up ELSE [both.up EXCEPT ![n] = br],
               both.val, both.size)
  BY <1>6, SetKidIs
<1> HIDE DEF s
<1>8. /\ IsTrie(s) /\ s.root = both.root /\ s.kids = [both.kids EXCEPT ![br][e] = n]
      /\ s.up = [both.up EXCEPT ![n] = br] /\ s.val = both.val /\ s.size = both.size
  BY <1>7, TrieIs
<1>9. SetKid(s, br, g, p) = Trie(s.root, [s.kids EXCEPT ![br][g] = p], IF p = Nil THEN s.up ELSE [s.up EXCEPT ![p] = br],
                                 s.val, s.size)
  BY <1>8, SetKidIs
<1>10. [s.kids EXCEPT ![br][g] = p] = BesideKids(t.kids, br, p, e, n, g)
  BY <1>2, <1>4, <1>6, <1>8 DEF BesideKids
<1>11. [s.up EXCEPT ![p] = br] = BesideUp(t.up, u, br, p, n)
  BY <1>2, <1>4, <1>6, <1>8 DEF BesideUp
<1>12. s.root = t.root /\ s.val = Bound(t.val, p, v) /\ s.size = t.size + 1
  BY <1>2, <1>4, <1>6, <1>8
<1>13. SetKid(s, br, g, p) = Trie(t.root, BesideKids(t.kids, br, p, e, n, g), BesideUp(t.up, u, br, p, n), Bound(t.val, p, v), t.size + 1)
  BY <1>9, <1>10, <1>11, <1>12
<1> QED BY <1>13 DEF s, both, c, a
\* Both nodes, one after the other.
LEMMA GrowsTwice ==
  ASSUME Laws, NEW t, Good(t), NEW p \in Prefix, NEW u \in Places(t), Over(p, u),
         NEW n, n = Place(t, u, p), n # Nil, NEW d, d = DiffBit(n, p), d >= 0, NEW x, x = New(n.net, d),
         NEW b, b = Side(p, u), NEW e, e = Bit(n, d), NEW g, g = Bit(p, d),
         NEW kids2, kids2 = Hung(BesideKids(t.kids, x, p, e, n, g), u, b, x),
         NEW up2, up2 = BesideUp(t.up, u, x, p, n), NEW root2, root2 = IF u = Nil THEN x ELSE t.root,
         NEW val2, DOMAIN val2 = DOMAIN t.val \cup {p}
  PROVE  /\ Shape(root2, kids2) /\ UpsRight(kids2, up2) /\ Kept(t.kids, kids2, u) /\ Compressed(kids2, val2)
         /\ p \in DOMAIN kids2 /\ DOMAIN t.kids \subseteq DOMAIN kids2
<1> DEFINE kids == t.kids
           kids1 == Hung(NewKids(kids, x, n), u, b, x)
           up1 == NewUp(t.up, u, x, n)
           t1 == Trie(root2, kids1, up1, t.val, t.size)
<1>1. Shape(t.root, kids) /\ UpsRight(kids, t.up) /\ Compressed(kids, t.val)
  BY DEF Good
<1>2. /\ n \in DOMAIN kids /\ n \in Prefix
      /\ x \in Prefix /\ x.len = d /\ d \in 0..W /\ d < p.len /\ d < n.len
      /\ Contains(x, n) /\ Contains(x, p)
      /\ e \in BOOLEAN /\ g \in BOOLEAN /\ e # g
      /\ x \notin DOMAIN kids /\ p \notin DOMAIN kids
      /\ Over(x, u) /\ Side(x, u) = b /\ Place(t, u, x) = n
  BY <1>1, BranchIs
<1>3. /\ Nil \notin DOMAIN kids /\ x # Nil /\ p # Nil /\ b \in BOOLEAN /\ p # x /\ p # n
      /\ (u # Nil => u \in DOMAIN kids) /\ IsMap(kids) /\ DOMAIN t.up = DOMAIN kids
  <2>1. IsMap(kids)
    BY <1>1 DEF Shape, IsMap
  <2> QED BY <1>1, <1>2, <2>1, SideIs, NilIsNone DEF UpsRight, Laws, Lengths
<1>4. /\ Grown(t.root, kids, root2, kids1, u, b, x, n)
      /\ Shape(root2, kids1) /\ UpsRight(kids1, up1) /\ Kept(kids, kids1, u)
  <2>1. kids1 = Hung(NewKids(t.kids, x, n), u, Side(x, u), x) /\ up1 = NewUp(t.up, u, x, n)
    BY <1>2
  <2>2. n # Nil => Contains(x, n)
    BY <1>2
  <2> HIDE DEF kids1, up1
  <2>3. /\ Grown(t.root, t.kids, root2, kids1, u, Side(x, u), x, n)
        /\ Shape(root2, kids1) /\ UpsRight(kids1, up1) /\ Kept(t.kids, kids1, u)
    BY <1>1, <1>2, <2>1, <2>2, GrowsRight
  <2> QED BY <1>2, <2>3
<1>5. /\ IsTrie(t1) /\ t1.root = root2 /\ t1.kids = kids1 /\ t1.up = up1
  <2> HIDE DEF kids1, up1
  <2> QED BY TrieIs
<1>6. /\ DOMAIN kids1 = DOMAIN kids \cup {x}
      /\ kids1[x][e] = n /\ kids1[x][g] = Nil
  <2> HIDE DEF kids1
  <2> QED BY <1>2, <1>4 DEF Grown
<1>7. kids2 = Hung(NewKids(kids1, p, Nil), x, g, p)
  BY <1>2, <1>3, BesideKidsAre
<1>8. up2 = NewUp(up1, x, p, Nil)
  BY <1>2, <1>3, BesideUpIs
<1> HIDE DEF kids1, up1, t1
<1>9. /\ x \in Places(t1) /\ Over(p, x) /\ Side(p, x) = g /\ Nil = Place(t1, x, p) /\ p \notin DOMAIN t1.kids
  BY <1>2, <1>3, <1>5, <1>6 DEF Places, Over, Side, Place
<1>10. /\ Grown(root2, kids1, root2, kids2, x, g, p, Nil)
       /\ Shape(root2, kids2) /\ UpsRight(kids2, up2) /\ Kept(kids1, kids2, x)
  <2>1. kids2 = Hung(NewKids(t1.kids, p, Nil), x, Side(p, x), p) /\ up2 = NewUp(t1.up, x, p, Nil)
    BY <1>5, <1>7, <1>8, <1>9
  <2>r. root2 = (IF x = Nil THEN p ELSE t1.root) /\ Shape(t1.root, t1.kids) /\ UpsRight(t1.kids, t1.up)
    BY <1>3, <1>4, <1>5
  <2> DEFINE c == Nil
  <2>2. kids2 = Hung(NewKids(t1.kids, p, c), x, Side(p, x), p) /\ up2 = NewUp(t1.up, x, p, c)
        /\ c = Place(t1, x, p) /\ (c # Nil => Contains(p, c))
    BY <2>1, <1>9
  <2> HIDE DEF c
  <2>3. /\ Grown(t1.root, t1.kids, root2, kids2, x, Side(p, x), p, c)
        /\ Shape(root2, kids2) /\ UpsRight(kids2, up2) /\ Kept(t1.kids, kids2, x)
    BY ONLY Laws, p \in Prefix, <2>r, <2>2, <1>9, GrowsRight
  <2> QED BY <2>3, <1>5, <1>9 DEF c
<1>11. Kept(kids, kids2, u)
  BY <1>2, <1>4, <1>10 DEF Kept
<1>12. Compressed(kids2, val2)
  <2> SUFFICES ASSUME NEW m \in DOMAIN kids2 \ DOMAIN val2, NEW f \in BOOLEAN PROVE kids2[m][f] # Nil
    BY DEF Compressed
  <2>1. DOMAIN kids2 = DOMAIN kids \cup {x, p}
    BY <1>6, <1>10 DEF Grown
  <2>2. CASE m = x
    <3>1. kids2[x][g] = p /\ kids2[x][e] = kids1[x][e]
      BY <1>2, <1>3, <1>6, <1>10 DEF Grown
    <3> QED BY <2>2, <3>1, <1>2, <1>3, <1>6
  <2>3. CASE m # x
    <3>1. m \in DOMAIN kids /\ m \notin DOMAIN t.val
      BY <2>1, <2>3
    <3>2. kids2[m] = kids1[m]
      BY <2>3, <3>1, <1>6, <1>10 DEF Kept
    <3>3. kids[m][f] # Nil
      BY <3>1, <1>1 DEF Compressed
    <3>4. CASE m # u \/ f # b
      <4>1. kids1[m][f] = kids[m][f]
        BY <3>1, <3>4, <1>4 DEF Grown
      <4> QED BY <3>2, <3>3, <4>1
    <3>5. CASE m = u /\ f = b
      <4>1. kids1[m][f] = x
        BY <3>1, <3>5, <1>3, <1>4 DEF Grown
      <4> QED BY <3>2, <4>1, <1>3
    <3> QED BY <3>4, <3>5
  <2> QED BY <2>2, <2>3
<1>13. p \in DOMAIN kids2 /\ DOMAIN kids \subseteq DOMAIN kids2
  BY <1>6, <1>10 DEF Grown
<1> QED BY <1>10, <1>11, <1>12, <1>13

LEMMA AddBesideRight ==
  ASSUME Laws, NEW t, Good(t), NEW p \in Prefix, NEW v \in Value, NEW u \in Places(t), Over(p, u),
         NEW n, n = Place(t, u, p), n # Nil, NEW d, d = DiffBit(n, p), d >= 0
  PROVE  AddedRight(t, p, v, u, AddBeside(t, n, p, v, u, d))
<1> DEFINE x == New(n.net, d)
           b == Side(p, u)
           e == Bit(n, d)
           g == Bit(p, d)
           K == BesideKids(t.kids, x, p, e, n, g)
           kids2 == Hung(K, u, b, x)
           up2 == BesideUp(t.up, u, x, p, n)
           val2 == Bound(t.val, p, v)
           root2 == IF u = Nil THEN x ELSE t.root
           s == Trie(t.root, K, up2, val2, t.size + 1)
           T == Trie(root2, kids2, up2, val2, t.size + 1)
           r == Inserted(s, x)
<1>1. AddBeside(t, n, p, v, u, d) = r
  <2>1. IsTrie(t) /\ p # Nil
    BY NilIsNone DEF Good
  <2> DEFINE both == SetValue(Alloc(Alloc(t, x, u), p, x), p, v)
  <2>2. SetKid(SetKid(both, x, e, n), x, g, p) = s
    <3> HIDE DEF e, g, x
    <3> QED BY <2>1, BesideTrie
  <2>3. AddBeside(t, n, p, v, u, d) = Inserted(SetKid(SetKid(both, x, e, n), x, g, p), x)
    BY DEF AddBeside
  <2> QED BY <2>2, <2>3
<1>2. /\ IsTrie(s) /\ s.root = t.root /\ s.kids = K /\ s.up = up2 /\ s.val = val2 /\ s.size = t.size + 1
  <2> HIDE DEF K, up2, val2
  <2> QED BY TrieIs
<1>3. /\ IsTrie(T) /\ T.root = root2 /\ T.kids = kids2 /\ T.up = up2 /\ T.val = val2 /\ T.size = t.size + 1
  <2> HIDE DEF kids2, up2, val2, root2
  <2> QED BY TrieIs
<1>4. DOMAIN val2 = DOMAIN t.val \cup {p}
  BY DEF Bound
<1>5. /\ Shape(root2, kids2) /\ UpsRight(kids2, up2) /\ Kept(t.kids, kids2, u) /\ Compressed(kids2, val2)
      /\ p \in DOMAIN kids2 /\ DOMAIN t.kids \subseteq DOMAIN kids2
  <2>1. x = New(n.net, d) /\ b = Side(p, u) /\ e = Bit(n, d) /\ g = Bit(p, d)
    OBVIOUS
  <2> HIDE DEF x, b, e, g
  <2>2. kids2 = Hung(BesideKids(t.kids, x, p, e, n, g), u, b, x) /\ up2 = BesideUp(t.up, u, x, p, n)
        /\ root2 = IF u = Nil THEN x ELSE t.root
    OBVIOUS
  <2> HIDE DEF kids2, up2, root2, val2
  <2> QED BY <1>4, <2>1, <2>2, GrowsTwice
<1>6. p \notin DOMAIN t.kids /\ p \notin DOMAIN t.val
  <2>1. Shape(t.root, t.kids) /\ DOMAIN t.val \subseteq DOMAIN t.kids
    BY DEF Good, Counted
  <2>2. x = New(n.net, d)
    OBVIOUS
  <2> HIDE DEF x
  <2>3. p \notin DOMAIN t.kids
    BY <2>1, <2>2, BranchIs
  <2> QED BY <2>1, <2>3
<1>7. Hang(s, u, b, x) = T
  <2>1. Hang(s, u, b, x) = Trie(IF u = Nil THEN x ELSE s.root,
                                IF u = Nil THEN s.kids ELSE [s.kids EXCEPT ![u][b] = x], s.up, s.val, s.size)
    <3> HIDE DEF b, s, x
    <3> QED BY <1>2, HangRight
  <2>2. kids2 = IF u = Nil THEN s.kids ELSE [s.kids EXCEPT ![u][b] = x]
    BY <1>2 DEF Hung
  <2> HIDE DEF kids2, b, val2, up2, K, s, x
  <2> QED BY <1>2, <2>1, <2>2
<1>8. r = [t |-> s, node |-> x, inserted |-> TRUE] /\ r.t = s /\ r.node = x
  BY DEF Inserted
<1> HIDE DEF kids2, up2, root2, K, b, e, g, x, s, T, r
<1>9. Counted(kids2, val2, t.size + 1)
  <2>1. Counted(t.kids, t.val, t.size)
    BY DEF Good
  <2> QED BY <2>1, <1>5, <1>6, CountedGrows
<1>10. Good(T)
  <2> HIDE DEF val2
  <2> QED BY <1>3, <1>5, <1>9 DEF Good
<1>11. AddedAs(t, p, v, u, r, T)
  <2>1. T.val = Added(t.val, p, v)
    BY <1>3, <1>6 DEF Added
  <2>2. T.root = IF u = Nil THEN r.node ELSE t.root
    BY <1>3, <1>8 DEF root2
  <2>3. r = [t |-> r.t, node |-> r.node, inserted |-> p \notin Entry(t)]
    <3>1. p \notin Entry(t)
      BY <1>6 DEF Entry
    <3> QED BY <1>8, <3>1
  <2>4. Kept(t.kids, T.kids, u)
    BY <1>3, <1>5
  <2> QED BY <1>10, <2>1, <2>2, <2>3, <2>4 DEF AddedAs
<1> QED BY <1>1, <1>7, <1>8, <1>11 DEF AddedRight, b
\* Where the search for the place ends.
LEMMA AddAtRight ==
  ASSUME Laws, NEW t, Good(t), NEW p \in Prefix, NEW v \in Value, NEW u \in Places(t), Over(p, u),
         NEW n, n = Place(t, u, p), ~GoesOn(n, p)
  PROVE  AddedRight(t, p, v, u, AddAt(t, n, p, v, u))
<1>0. Shape(t.root, t.kids) /\ p # Nil /\ Nil \notin DOMAIN t.kids
  BY NilIsNone DEF Good, Shape
<1>1. n \in Places(t)
  BY <1>0, PlaceIs
<1>2. n # Nil => n \in DOMAIN t.kids /\ n \in Prefix /\ n.len \in 0..W /\ p.len \in 0..W
  BY <1>0, <1>1 DEF Places, Shape, Laws, Lengths
<1>3. p \in DOMAIN t.kids => n # Nil /\ Contains(n, p)
  BY <1>0, PlaceTop
<1>4. CASE n = Nil
  <2>1. p \notin DOMAIN t.kids /\ Place(t, u, p) = Nil
    BY <1>3, <1>4
  <2>2. AddedRight(t, p, v, u, AddLeaf(t, p, v, u))
    BY <2>1, AddLeafRight
  <2>3. AddAt(t, n, p, v, u) = AddLeaf(t, p, v, u)
    BY <1>4 DEF AddAt
  <2> QED BY <2>2, <2>3
<1>5. CASE n # Nil /\ n = p
  <2>1. ~(DiffBit(n, p) >= 0)
    BY <1>2, <1>5 DEF Laws, Partings, Parts
  <2>2. DiffBit(n, p) < 0
    BY <1>2, <1>5, <2>1 DEF Laws, Partings
  <2>3. AddedRight(t, p, v, u, AddHere(t, p, v))
    BY <1>0, <1>5, AddHereRight
  <2>4. AddAt(t, n, p, v, u) = AddHere(t, n, v)
    BY <1>5, <2>2 DEF AddAt
  <2> QED BY <1>5, <2>3, <2>4
<1>6. CASE n # Nil /\ n # p /\ DiffBit(n, p) < 0
  <2>1. n.len >= p.len
    BY <1>2, <1>6 DEF GoesOn
  <2>2. Contains(p, n)
    <3>1. Contains(n, p) \/ Contains(p, n)
      BY <1>2, <1>6 DEF Laws, Partings
    <3> QED BY <1>2, <1>6, <2>1, <3>1 DEF Laws, Containment
  <2>3. p \notin DOMAIN t.kids
    BY <1>2, <1>3, <1>6, <2>2 DEF Laws, Containment
  <2>4. AddedRight(t, p, v, u, AddAbove(t, n, p, v, u))
    BY <1>6, <2>2, <2>3, AddAboveRight
  <2>5. AddAt(t, n, p, v, u) = AddAbove(t, n, p, v, u)
    BY <1>6 DEF AddAt
  <2> QED BY <2>4, <2>5
<1>7. CASE n # Nil /\ ~(DiffBit(n, p) < 0)
  <2> DEFINE d == DiffBit(n, p)
  <2>1. d >= 0
    BY <1>2, <1>7 DEF Laws, Partings
  <2>2. d = DiffBit(n, p)
    OBVIOUS
  <2>3. AddAt(t, n, p, v, u) = AddBeside(t, n, p, v, u, d)
    BY <1>7 DEF AddAt
  <2> HIDE DEF d
  <2>4. AddedRight(t, p, v, u, AddBeside(t, n, p, v, u, d))
    BY <1>7, <2>1, <2>2, AddBesideRight
  <2> QED BY <2>3, <2>4
<1> QED BY <1>4, <1>5, <1>6, <1>7

\* Of the prefixes in a set one is the longest.
LEMMA LongestOf ==
  ASSUME Laws, NEW S \in SUBSET Prefix, S # {}
  PROVE  \E m \in S : \A n \in S : n.len <= m.len
<1> DEFINE back == {W - n.len : n \in S}
<1>0. \A n \in S : n.len \in 0..W /\ W \in Nat
  BY DEF Laws, Lengths
<1>1. back \in SUBSET Nat /\ back # {}
  BY <1>0
<1>2. PICK k \in back : \A i \in back : ~(<<i, k>> \in OpToRel(<, Nat))
  BY <1>1, NatLessThanWellFounded, WFMin
<1>3. \A i \in back : ~(i < k)
  BY <1>1, <1>2 DEF OpToRel
<1>4. PICK m \in S : k = W - m.len
  OBVIOUS
<1>5. \A n \in S : n.len <= m.len
  <2> TAKE n \in S
  <2>1. W - n.len \in back /\ ~(W - n.len < W - m.len)
    BY <1>3, <1>4
  <2> QED BY <2>1, <1>0
<1> QED BY <1>5

\* The search stops below the longest node above the prefix, and goes on at all others.
Above(t, p) == {m \in DOMAIN t.kids : Contains(m, p) /\ m.len < p.len}
LEMMA SearchStops ==
  ASSUME Laws, NEW t, Shape(t.root, t.kids), NEW p \in Prefix
  PROVE  \E w \in Places(t) :
           /\ Over(p, w)
           /\ ~GoesOn(Place(t, w, p), p)
           /\ \A u \in Places(t) : Over(p, u) /\ u # w => GoesOn(Place(t, u, p), p)
<1> DEFINE S == Above(t, p)
<1>0. /\ Nil \notin DOMAIN t.kids /\ S \subseteq DOMAIN t.kids /\ DOMAIN t.kids \subseteq Prefix
      /\ \A m \in Prefix : m.len \in 0..W
      /\ \A u \in Places(t) : u # Nil /\ Over(p, u) => u \in S
      /\ \A u \in S : Over(p, u)
  BY NilIsNone DEF Shape, Above, Laws, Lengths, Over, Places
\* What is on the way is gone past.
<1>1. ASSUME NEW n \in S PROVE GoesOn(n, p)
  <2>1. n # Nil /\ n \in Prefix /\ Contains(n, p) /\ n.len < p.len /\ n.len \in 0..W /\ p.len \in 0..W
    BY <1>0 DEF Above
  <2>2. ~(DiffBit(n, p) >= 0)
    <3> SUFFICES ASSUME DiffBit(n, p) >= 0 PROVE FALSE
      OBVIOUS
    <3>1. Parts(n, p, DiffBit(n, p))
      BY <2>1 DEF Laws, Partings
    <3> DEFINE d == DiffBit(n, p)
    <3>2. d \in 0..W /\ d < n.len /\ Bit(n, d) # Bit(p, d)
      BY <3>1 DEF Parts
    <3> HIDE DEF d
    <3> QED BY <2>1, <3>2 DEF Laws, Bits
  <2>3. DiffBit(n, p) < 0
    BY <2>1, <2>2 DEF Laws, Partings
  <2> QED BY <2>1, <2>3 DEF GoesOn
<1>2. ASSUME NEW w \in S, \A m \in S : m.len <= w.len, NEW u \in Places(t), Over(p, u), u # w
      PROVE  Place(t, u, p) \in S
  <2>1. w \in DOMAIN t.kids /\ Contains(w, p) /\ w.len < p.len /\ w \in Prefix
    BY <1>0 DEF Above
  <2>2. Over(w, u) /\ Side(w, u) = Side(p, u)
    <3> SUFFICES ASSUME u # Nil PROVE Contains(u, w) /\ u.len < w.len /\ Bit(w, u.len) = Bit(p, u.len)
      BY DEF Over, Side
    <3>1. u \in S /\ u \in Prefix /\ Contains(u, p) /\ u.len <= w.len
      BY <1>0, <1>2 DEF Above
    <3>2. Contains(u, w)
      BY <2>1, <3>1 DEF Laws, Chains
    <3>3. u.len < w.len
      BY <1>0, <1>2, <2>1, <3>1, <3>2 DEF Laws, Containment
    <3>4. Bit(w, u.len) = Bit(p, u.len)
      <4>1. u.len \in 0..W
        BY <1>0, <3>1
      <4> QED BY <2>1, <3>3, <4>1 DEF Laws, Bits
    <3> QED BY <3>2, <3>3, <3>4
  <2> DEFINE n == Place(t, u, p)
  <2>3. n # Nil /\ Contains(n, w)
    BY <1>2, <2>1, <2>2, PlaceTop
  <2>4. n \in DOMAIN t.kids
    <3>1. n \in Places(t)
      BY <1>2, PlaceIs
    <3> HIDE DEF n
    <3> QED BY <2>3, <3>1 DEF Places
  <2> HIDE DEF n
  <2>5. Contains(n, p) /\ n.len < p.len
    <3>1. n \in Prefix /\ n.len \in 0..W /\ w.len \in 0..W /\ p.len \in 0..W
      BY <1>0, <2>1, <2>4
    <3>2. Contains(n, p) /\ n.len <= w.len
      BY <2>1, <2>3, <3>1 DEF Laws, Containment
    <3> QED BY <2>1, <3>1, <3>2
  <2> QED BY <2>4, <2>5 DEF Above, n
<1>3. ASSUME NEW w \in Places(t), Over(p, w), GoesOn(Place(t, w, p), p)
      PROVE  Place(t, w, p) \in S /\ (w # Nil => w \in S /\ w.len < Place(t, w, p).len)
  BY <1>0, <1>3, GoingOn DEF Above
<1>4. CASE S = {}
  <2>1. Nil \in Places(t) /\ Over(p, Nil)
    BY DEF Places, Over
  <2>2. ~GoesOn(Place(t, Nil, p), p)
    BY <1>3, <1>4, <2>1
  <2> QED BY <1>0, <1>4, <2>1, <2>2
<1>5. CASE S # {}
  <2>1. S \in SUBSET Prefix
    BY <1>0
  <2>2. PICK w \in S : \A m \in S : m.len <= w.len
    <3> HIDE DEF S
    <3> QED BY <1>5, <2>1, LongestOf
  <2>3. w \in Places(t) /\ Over(p, w) /\ w # Nil
    BY <1>0 DEF Places
  <2>4. ~GoesOn(Place(t, w, p), p)
    <3> SUFFICES ASSUME GoesOn(Place(t, w, p), p) PROVE FALSE
      OBVIOUS
    <3>1. Place(t, w, p) \in S /\ w.len < Place(t, w, p).len
      BY <1>3, <2>3
    <3>2. Place(t, w, p).len \in 0..W /\ w.len \in 0..W
      BY <1>0, <3>1
    <3> QED BY <2>2, <3>1, <3>2
  <2>5. \A u \in Places(t) : Over(p, u) /\ u # w => GoesOn(Place(t, u, p), p)
    <3> HIDE DEF S
    <3> QED BY <1>1, <1>2, <2>2
  <2> QED BY <2>3, <2>4, <2>5
<1> QED BY <1>4, <1>5
\* What addNode() returns above the place.
Passed(t, p, u, s, T) == [t |-> T, node |-> Place(t, u, p), inserted |-> s.inserted]

\* One step of the search on its way back.
LEMMA StepBack ==
  ASSUME Laws, NEW t, Good(t), NEW p \in Prefix, NEW v \in Value,
         NEW w \in Places(t), Over(p, w), ~GoesOn(Place(t, w, p), p),
         \A u \in Places(t) : Over(p, u) /\ u # w => GoesOn(Place(t, u, p), p),
         NEW s, s = AddAt(t, Place(t, w, p), p, v, w), NEW T, T = Hang(s.t, w, Side(p, w), s.node),
         NEW add, NEW u \in Places(t), GoesOn(Place(t, u, p), p), NEW n, n = Place(t, u, p),
         n = w => add[n] = s, n # w => add[n] = Passed(t, p, n, s, T)
  PROVE  AddStep(t, p, v, add, u) = Passed(t, p, u, s, T)
<1>1. n \in DOMAIN t.kids /\ n # Nil /\ Over(p, n) /\ Side(p, n) = Bit(p, n.len)
  BY GoingOn, NilIsNone DEF Good, Over, Side, Shape
<1>2. AddedAs(t, p, v, w, s, T)
  <2>1. AddedRight(t, p, v, w, AddAt(t, Place(t, w, p), p, v, w))
    BY AddAtRight
  <2> QED BY <2>1 DEF AddedRight
<1>3. AddStep(t, p, v, add, u) = [t |-> Link(add[n].t, n, Bit(p, n.len), add[n].node), node |-> n, inserted |-> add[n].inserted]
  BY DEF AddStep
<1>4. CASE n = w
  <2>1. T = Link(s.t, n, Bit(p, n.len), s.node)
    BY <1>1, <1>4 DEF Hang
  <2> QED BY <1>3, <1>4, <2>1 DEF Passed
<1>5. CASE n # w
  <2>1. add[n].t = T /\ add[n].node = Place(t, n, p) /\ add[n].inserted = s.inserted
    BY <1>5 DEF Passed
  <2>2. Good(T) /\ n \in DOMAIN T.kids /\ T.kids[n] = t.kids[n]
    BY <1>1, <1>2, <1>5 DEF AddedAs, Kept
  <2>3. IsTrie(T) /\ Shape(T.root, T.kids) /\ n \in Places(T)
    BY <2>2 DEF Good, Places
  <2>4. Hang(T, n, Side(p, n), Place(T, n, p)) = T
    BY <2>3, HangSame
  <2>5. Place(T, n, p) = Place(t, n, p)
    BY <1>1, <2>2 DEF Place
  <2>6. Link(T, n, Bit(p, n.len), Place(t, n, p)) = T
    BY <1>1, <2>4, <2>5 DEF Hang
  <2> QED BY <1>3, <2>1, <2>6 DEF Passed
<1> QED BY <1>4, <1>5

LEMMA AddNodeIs ==
  ASSUME Laws, NEW t, Good(t), NEW p \in Prefix, NEW v \in Value
  PROVE  \E w \in Places(t) : \E s, T :
            /\ AddedAs(t, p, v, w, s, T) /\ T = Hang(s.t, w, Side(p, w), s.node)
            /\ addNode(t, p, v) = IF w = Nil THEN s ELSE Passed(t, p, Nil, s, T)
<1>0. Shape(t.root, t.kids)
  BY DEF Good
<1>1. PICK w \in Places(t) :
           /\ Over(p, w)
           /\ ~GoesOn(Place(t, w, p), p)
           /\ \A u \in Places(t) : Over(p, u) /\ u # w => GoesOn(Place(t, u, p), p)
  BY <1>0, SearchStops
<1> DEFINE s == AddAt(t, Place(t, w, p), p, v, w)
           T == Hang(s.t, w, Side(p, w), s.node)
           Right(add, u) == IF u = w THEN add[u] = s ELSE add[u] = Passed(t, p, u, s, T)
<1>2. AddedAs(t, p, v, w, s, T)
  <2>1. AddedRight(t, p, v, w, AddAt(t, Place(t, w, p), p, v, w))
    BY <1>1, AddAtRight
  <2> QED BY <2>1 DEF AddedRight
<1>s. s = AddAt(t, Place(t, w, p), p, v, w) /\ T = Hang(s.t, w, Side(p, w), s.node)
  OBVIOUS
<1> HIDE DEF s, T
<1>3. ASSUME NEW u \in Places(t), GoesOn(Place(t, u, p), p)
      PROVE  /\ Place(t, u, p) \in Places(t) /\ Over(p, Place(t, u, p))
             /\ Place(t, u, p) # Nil /\ Place(t, u, p) \in DOMAIN t.kids
             /\ Over(p, u) /\ (u # Nil => u.len < Place(t, u, p).len)
  <2> DEFINE n == Place(t, u, p)
  <2>1. /\ n \in DOMAIN t.kids /\ Contains(n, p) /\ n.len < p.len
        /\ u # Nil => u \in DOMAIN t.kids /\ u.len < n.len /\ Contains(u, p)
    BY <1>0, <1>3, GoingOn
  <2>2. u # Nil => u.len < p.len
    <3> HIDE DEF n
    <3>1. u # Nil => u.len \in 0..W /\ n.len \in 0..W /\ p.len \in 0..W
      BY <1>0, <2>1 DEF Shape, Laws, Lengths
    <3> QED BY <2>1, <3>1
  <2>3. Nil \notin DOMAIN t.kids
    BY <1>0, NilIsNone DEF Shape
  <2> QED BY <2>1, <2>2, <2>3 DEF Places, Over
\* There is such a function.
<1>4. \E add : IsAdd(t, p, v, add)
  <2> DEFINE F == [u \in Places(t) |-> IF GoesOn(Place(t, u, p), p) THEN Passed(t, p, u, s, T)
                                       ELSE AddAt(t, Place(t, u, p), p, v, u)]
  <2>1. \A u \in Places(t) : F[u] = IF GoesOn(Place(t, u, p), p) THEN Passed(t, p, u, s, T)
                                    ELSE AddAt(t, Place(t, u, p), p, v, u)
    OBVIOUS
  <2>2. ASSUME NEW u \in Places(t) PROVE F[u] = AddStep(t, p, v, F, u)
    <3>1. CASE ~GoesOn(Place(t, u, p), p)
      BY <2>1, <3>1 DEF AddStep
    <3>2. CASE GoesOn(Place(t, u, p), p)
      <4> DEFINE n == Place(t, u, p)
      <4>1. n \in Places(t) /\ Over(p, n)
        BY <1>3, <3>2
      <4> HIDE DEF F
      <4>2. n = w => F[n] = s
        BY <1>1, <1>s, <2>1
      <4>3. n # w => F[n] = Passed(t, p, n, s, T)
        BY <1>1, <2>1, <4>1
      <4>4. n = Place(t, u, p)
        OBVIOUS
      <4> HIDE DEF n
      <4>5. AddStep(t, p, v, F, u) = Passed(t, p, u, s, T)
        BY ONLY Laws, Good(t), p \in Prefix, v \in Value, u \in Places(t), <1>1, <1>s, <3>2, <4>2, <4>3, <4>4, StepBack
      <4> QED BY <2>1, <3>2, <4>5
    <3> QED BY <3>1, <3>2
  <2>3. F = [u \in Places(t) |-> AddStep(t, p, v, F, u)]
    <3> DEFINE G == [u \in Places(t) |-> AddStep(t, p, v, F, u)]
    <3>1. \A u \in Places(t) : G[u] = F[u]
      <4> HIDE DEF F
      <4> QED BY <2>2
    <3>2. DOMAIN F = Places(t) /\ DOMAIN G = Places(t)
      OBVIOUS
    <3>3. F = [u \in Places(t) |-> F[u]]
      OBVIOUS
    <3>4. G = [u \in Places(t) |-> G[u]]
      OBVIOUS
    <3>5. F = G
      <4> HIDE DEF F, G
      <4> QED BY <3>1, <3>3, <3>4
    <3> QED BY <3>5
  <2>4. IsAdd(t, p, v, F)
    <3> HIDE DEF F
    <3> QED BY <2>3 DEF IsAdd
  <2> QED BY <2>4
<1> DEFINE add == CHOOSE f : IsAdd(t, p, v, f)
<1>5. IsAdd(t, p, v, add)
  BY <1>4
<1> HIDE DEF add
<1>6. \A u \in Places(t) : add[u] = AddStep(t, p, v, add, u)
  BY <1>5 DEF IsAdd
<1>7. add[w] = s
  BY <1>1, <1>6, <1>s DEF AddStep
<1>8. ASSUME NEW u \in Places(t), Over(p, u), u # w,
             Right(add, Place(t, u, p))
      PROVE  Right(add, u)
  <2> DEFINE n == Place(t, u, p)
  <2>1. GoesOn(Place(t, u, p), p)
    BY <1>1, <1>8
  <2>2. (n = w => add[n] = s) /\ (n # w => add[n] = Passed(t, p, n, s, T)) /\ n = Place(t, u, p)
    BY <1>8
  <2> HIDE DEF n
  <2>3. AddStep(t, p, v, add, u) = Passed(t, p, u, s, T)
    BY ONLY Laws, Good(t), p \in Prefix, v \in Value, u \in Places(t), <1>1, <1>s, <2>1, <2>2, StepBack
  <2> QED BY <1>6, <1>8, <2>3
<1> DEFINE Bad == {u \in Above(t, p) : ~Right(add, u)}
<1>9. Bad = {}
  <2> SUFFICES ASSUME Bad # {} PROVE FALSE
    OBVIOUS
  <2>1. Bad \in SUBSET Prefix
    BY <1>0 DEF Above, Shape
  <2>2. PICK u \in Bad : \A m \in Bad : m.len <= u.len
    <3> HIDE DEF Bad
    <3> QED BY <2>1, LongestOf
  <2>3. u \in Above(t, p) /\ u \in DOMAIN t.kids /\ u \in Places(t) /\ Over(p, u) /\ u # Nil
    <3>1. u \in Above(t, p)
      OBVIOUS
    <3> QED BY <3>1, <1>0, NilIsNone DEF Above, Over, Places, Shape
  <2>4. u # w
    BY <1>7
  <2> DEFINE n == Place(t, u, p)
  <2>5. n \in Places(t) /\ Over(p, n) /\ n # Nil /\ n \in DOMAIN t.kids /\ u.len < n.len
    BY <1>1, <1>3, <2>3, <2>4
  <2>6. n \in Above(t, p)
    <3> HIDE DEF n
    <3> QED BY <2>5 DEF Above, Over
  <2>7. n \notin Bad
    <3>1. n.len \in 0..W /\ u.len \in 0..W
      <4> HIDE DEF n
      <4> QED BY <1>0, <2>3, <2>5 DEF Shape, Laws, Lengths
    <3> QED BY <2>2, <2>5, <3>1
  <2>8. Right(add, n)
    BY <2>6, <2>7
  <2>9. Right(add, u)
    BY <1>8, <2>3, <2>4, <2>8
  <2> QED BY <2>9
<1>10. w # Nil => add[Nil] = Passed(t, p, Nil, s, T)
  <2> SUFFICES ASSUME w # Nil PROVE add[Nil] = Passed(t, p, Nil, s, T)
    OBVIOUS
  <2> DEFINE n == Place(t, Nil, p)
  <2>1. Nil \in Places(t) /\ Over(p, Nil)
    BY DEF Places, Over
  <2>2. n \in Places(t) /\ Over(p, n) /\ n # Nil /\ n \in DOMAIN t.kids
    BY <1>1, <1>3, <2>1
  <2>3. n \in Above(t, p)
    <3> HIDE DEF n
    <3> QED BY <2>2 DEF Above, Over
  <2>4. Right(add, n)
    <3> HIDE DEF n
    <3> QED BY <1>9, <2>3
  <2>5. Right(add, Nil)
    BY <1>8, <2>1, <2>4
  <2> QED BY <2>5
<1>11. addNode(t, p, v) = add[Nil]
  BY AddIs DEF add
<1>12. addNode(t, p, v) = IF w = Nil THEN s ELSE Passed(t, p, Nil, s, T)
  BY <1>7, <1>10, <1>11
<1> QED BY <1>2, <1>12, <1>s

\* insert() keeps a trie, gives it the entry and says whether it is new.
LEMMA InsertIs ==
  ASSUME Laws, NEW t, Good(t), NEW p \in Prefix, NEW v \in Value
  PROVE  /\ Good(insert(t, p, v).t)
         /\ insert(t, p, v).t.val = Added(t.val, p, v)
         /\ insert(t, p, v).inserted = (p \notin Entry(t))
<1>0. PICK w \in Places(t) : \E s, T :
            /\ AddedAs(t, p, v, w, s, T) /\ T = Hang(s.t, w, Side(p, w), s.node)
            /\ addNode(t, p, v) = IF w = Nil THEN s ELSE Passed(t, p, Nil, s, T)
  BY AddNodeIs
<1>1. PICK s, T :
            /\ AddedAs(t, p, v, w, s, T) /\ T = Hang(s.t, w, Side(p, w), s.node)
            /\ addNode(t, p, v) = IF w = Nil THEN s ELSE Passed(t, p, Nil, s, T)
  BY <1>0
<1> DEFINE r == addNode(t, p, v)
<1>2. Good(T) /\ T.val = Added(t.val, p, v) /\ s.inserted = (p \notin Entry(t)) /\ (w # Nil => T.root = t.root) /\ IsTrie(T)
  <2>1. s = [t |-> s.t, node |-> s.node, inserted |-> p \notin Entry(t)]
    BY <1>1 DEF AddedAs
  <2>2. s.inserted = (p \notin Entry(t))
    BY <2>1
  <2> QED BY <1>1, <2>2 DEF AddedAs, Good
<1>3. [r.t EXCEPT !.root = r.node] = T /\ r.inserted = s.inserted
  <2>1. CASE w = Nil
    BY <1>1, <2>1 DEF Hang
  <2>2. CASE w # Nil
    <3>1. r = Passed(t, p, Nil, s, T)
      BY <1>1, <2>2
    <3>2. r.t = T /\ r.node = t.root /\ r.inserted = s.inserted
      BY <3>1 DEF Passed, Place
    <3>3. [T EXCEPT !.root = t.root] = Trie(t.root, T.kids, T.up, T.val, T.size)
      BY <1>2, SetRootIs
    <3>4. T = Trie(T.root, T.kids, T.up, T.val, T.size)
      BY <1>2 DEF IsTrie
    <3> HIDE DEF r
    <3> QED BY <1>2, <2>2, <3>2, <3>3, <3>4
  <2> QED BY <2>1, <2>2
<1>4. insert(t, p, v) = [t |-> [r.t EXCEPT !.root = r.node], inserted |-> r.inserted]
  BY DEF insert
<1> HIDE DEF r
<1>5. insert(t, p, v).t = T /\ insert(t, p, v).inserted = (p \notin Entry(t))
  BY <1>2, <1>3, <1>4
<1> QED BY <1>2, <1>5

\* operator [] gives the entry its value.
LEMMA AssignIs ==
  ASSUME Laws, NoValue \in Value, NEW t, Good(t), NEW p \in Prefix, NEW v \in Value
  PROVE  Good(Assign(t, p, v)) /\ Assign(t, p, v).val = Bound(t.val, p, v)
<1> DEFINE s == insert(t, p, NoValue).t
           a == [s EXCEPT !.val[p] = v]
           val2 == [s.val EXCEPT ![p] = v]
<1>1. Good(s) /\ s.val = Added(t.val, p, NoValue)
  BY InsertIs
<1>2. Assign(t, p, v) = a
  BY DEF Assign
<1> HIDE DEF s
<1>3. a = Trie(s.root, s.kids, s.up, val2, s.size)
  BY <1>1 DEF Good, IsTrie, Trie
<1> HIDE DEF val2, a
<1>4. /\ IsTrie(a) /\ a.root = s.root /\ a.kids = s.kids /\ a.up = s.up /\ a.val = val2 /\ a.size = s.size
  BY <1>3, TrieIs
<1>5. p \in DOMAIN s.val /\ DOMAIN s.val = DOMAIN t.val \cup {p} /\ \A q \in DOMAIN t.val : q # p => s.val[q] = t.val[q]
  BY <1>1 DEF Added, Bound
<1>6. s.val \in [DOMAIN s.val -> Value]
  BY <1>1 DEF Good, Counted
<1>7. val2 \in [DOMAIN s.val -> Value] /\ DOMAIN val2 = DOMAIN s.val
  BY <1>6 DEF val2
<1>8. Good(a)
  BY <1>1, <1>4, <1>7 DEF Good, Compressed, Counted
<1>9. val2 = Bound(t.val, p, v)
  <2>1. val2 = [q \in DOMAIN s.val |-> IF q = p THEN v ELSE s.val[q]]
    BY <1>6 DEF val2
  <2> QED BY <1>5, <2>1 DEF Bound
<1> QED BY <1>2, <1>4, <1>8, <1>9

\* A copy is a trie whose nodes do not know their parents.
LEMMA CopiedIs ==
  ASSUME NEW t, Good(t)
  PROVE  Good(Copied(t)) /\ Copied(t).val = t.val
<1> DEFINE up2 == [n \in DOMAIN t.up |-> Nil]
           c == [t EXCEPT !.up = up2]
<1>1. Copied(t) = c
  BY DEF Copied
<1>2. c = Trie(t.root, t.kids, up2, t.val, t.size)
  <2> HIDE DEF up2
  <2> QED BY DEF Good, IsTrie, Trie
<1> HIDE DEF c
<1>3. IsTrie(c) /\ c.root = t.root /\ c.kids = t.kids /\ c.up = up2 /\ c.val = t.val /\ c.size = t.size
  <2> HIDE DEF up2
  <2> QED BY <1>2, TrieIs
<1>4. UpsRight(t.kids, up2)
  BY DEF Good, UpsRight
<1> HIDE DEF up2
<1> QED BY <1>1, <1>3, <1>4 DEF Good

\* What holds of every such trie.
LEMMA GoodIsIntact ==
  ASSUME Laws, NEW t, Good(t)
  PROVE  Intact(t)
<1> DEFINE N == DOMAIN t.kids
<1>0. /\ Shape(t.root, t.kids) /\ Nil \notin N /\ N \subseteq Prefix
      /\ \A n \in N : \A m : m \in Kids(t, n) <=> \E b \in BOOLEAN : m = t.kids[n][b] /\ m # Nil
  BY NilIsNone DEF Good, Shape, Kids
<1>1. t.size = Cardinality(Entry(t)) /\ Entry(t) \subseteq N
  BY DEF Good, Counted, Entry
<1>2. ASSUME NEW n \in N PROVE n = t.root <=> ~\E m \in N : n \in Kids(t, m)
  <2>1. n = t.root <=> ~\E m \in N, b \in BOOLEAN : t.kids[m][b] = n
    BY <1>0, HasParent
  <2>2. n # Nil
    BY <1>0
  <2> QED BY <1>0, <2>1, <2>2
<1>3. ASSUME NEW n \in N PROVE t.up[n] \in {Nil} \cup {m \in N : n \in Kids(t, m)}
  <2>1. UpsRight(t.kids, t.up)
    BY DEF Good
  <2>2. t.up[n] \in N \cup {Nil} /\ (t.up[n] # Nil => \E b \in BOOLEAN : t.kids[t.up[n]][b] = n)
    BY <2>1 DEF UpsRight
  <2> QED BY <1>0, <2>2
<1>4. ASSUME NEW n \in N PROVE n \in Entry(t) \/ \A b \in BOOLEAN : t.kids[n][b] # Nil
  BY DEF Good, Compressed, Entry
<1>5. ASSUME NEW n \in N, NEW k \in Kids(t, n) PROVE k.len > n.len /\ Contains(n, k) /\ t.kids[n][Bit(k, n.len)] = k
  <2>1. PICK b \in BOOLEAN : k = t.kids[n][b] /\ k # Nil
    BY <1>0
  <2>2. k \in Under(N, n, b) /\ k \in N
    BY <1>0, <2>1, KidIs
  <2>3. k.len \in 0..W /\ n.len \in 0..W
    BY <1>0, <2>2 DEF Laws, Lengths
  <2> QED BY <2>1, <2>2, <2>3 DEF Under
<1> QED BY <1>1, <1>2, <1>3, <1>4, <1>5 DEF Intact

-----------------------------------------------------------------------------
(* removeNode().                                                           *)

\* The trie without what went, but for the parent that the node x in the
\* place of u knows, and for u, which may have lost a child.
UpsExcept(kids, up, x) ==
  /\ up \in [DOMAIN kids -> {up[n] : n \in DOMAIN kids}]
  /\ \A n \in DOMAIN kids : n # x => /\ up[n] \in DOMAIN kids \cup {Nil}
                                     /\ up[n] # Nil => \E b \in BOOLEAN : kids[up[n]][b] = n
CompressedBut(kids, val, u) == \A n \in DOMAIN kids \ DOMAIN val : \A b \in BOOLEAN : n # u => kids[n][b] # Nil
Untouched(S, kids, kids2, u, b) ==
  \A m \in S : m \in DOMAIN kids2 /\ \A d \in BOOLEAN : m # u \/ d # b => kids2[m][d] = kids[m][d]
CutAs(r, H, u, b, val) ==
  /\ IsTrie(r.t) /\ IsTrie(H)
  /\ Shape(H.root, H.kids)
  /\ UpsExcept(H.kids, H.up, r.node)
  /\ CompressedBut(H.kids, H.val, IF r.node = Nil THEN u ELSE Nil)
  /\ H.val = val
  /\ Counted(H.kids, H.val, H.size)
  /\ At(H.kids, H.root, u, b) = r.node
  /\ r.node \in DOMAIN H.kids \cup {Nil}

LEMMA HangSameAt ==
  ASSUME Laws, NEW t, IsTrie(t), Shape(t.root, t.kids), NEW u \in Places(t), NEW b \in BOOLEAN
  PROVE  Hang(t, u, b, At(t.kids, t.root, u, b)) = t
<1> DEFINE k == At(t.kids, t.root, u, b)
<1>1. ASSUME u # Nil PROVE [t.kids EXCEPT ![u][b] = k] = t.kids
  <2>1. t.kids \in [DOMAIN t.kids -> [BOOLEAN -> DOMAIN t.kids \cup {Nil}]]
    BY DEF Shape
  <2>2. k = t.kids[u][b] /\ u \in DOMAIN t.kids
    BY <1>1 DEF At, Places
  <2> HIDE DEF k
  <2> DEFINE K == t.kids
  <2>3. [K[u] EXCEPT ![b] = k] = K[u]
    BY <2>1, <2>2
  <2> QED BY <2>1, <2>2, <2>3
<1>2. u = Nil => k = t.root
  BY DEF At
<1>3. Hang(t, u, b, k) = Trie(IF u = Nil THEN k ELSE t.root,
                              IF u = Nil THEN t.kids ELSE [t.kids EXCEPT ![u][b] = k], t.up, t.val, t.size)
  <2> HIDE DEF k
  <2> QED BY HangRight
<1>4. t = Trie(t.root, t.kids, t.up, t.val, t.size)
  BY DEF IsTrie
<1> QED BY <1>1, <1>2, <1>3, <1>4

CollapsedRight(t, x, u, b, c) ==
  /\ CutAs(c, Hang(c.t, u, b, c.node), u, b, t.val)
  /\ Untouched(DOMAIN t.kids \ {x}, t.kids, Hang(c.t, u, b, c.node).kids, u, b)
  /\ c.t.root = t.root
  /\ c = [t |-> c.t, node |-> c.node]
  /\ (\E e \in BOOLEAN : t.kids[x][e] # Nil) => c.node # Nil

\* A node without a value leaves the trie unless it has two children.
LEMMA CollapseRight ==
  ASSUME Laws, NEW t, IsTrie(t), Shape(t.root, t.kids), UpsRight(t.kids, t.up), Counted(t.kids, t.val, t.size),
         NEW x \in DOMAIN t.kids, x \notin DOMAIN t.val, CompressedBut(t.kids, t.val, x),
         NEW u \in Places(t), NEW b \in BOOLEAN, At(t.kids, t.root, u, b) = x,
         NEW c, c = Collapse(t, x)
  PROVE  CollapsedRight(t, x, u, b, c)
<1> DEFINE H == Hang(c.t, u, b, c.node)
<1>h. H = Hang(c.t, u, b, c.node)
  OBVIOUS
<1> HIDE DEF H
<1> SUFFICES /\ CutAs(c, H, u, b, t.val)
             /\ Untouched(DOMAIN t.kids \ {x}, t.kids, H.kids, u, b)
             /\ c.t.root = t.root
             /\ c = [t |-> c.t, node |-> c.node]
             /\ (\E e \in BOOLEAN : t.kids[x][e] # Nil) => c.node # Nil
  BY <1>h DEF CollapsedRight
<1> DEFINE kids == t.kids
           N == DOMAIN kids
           left == kids[x][FALSE]
           right == kids[x][TRUE]
<1>0. /\ Nil \notin N /\ x # Nil
      /\ u # Nil => u \in N /\ kids[u][b] = x /\ u # x
      /\ u = Nil => t.root = x
      /\ kids \in [N -> [BOOLEAN -> N \cup {Nil}]]
  <2>1. Nil \notin N /\ x # Nil
    BY NilIsNone DEF Shape
  <2>2. ASSUME u # Nil PROVE u \in N /\ kids[u][b] = x /\ u # x
    <3>1. u \in N /\ kids[u][b] = x
      BY <2>2 DEF Places, At
    <3>2. kids[u][b] # u
      BY <3>1, <2>1, KidIs
    <3> QED BY <3>1, <3>2
  <2> QED BY <2>1, <2>2 DEF At, Shape
<1>1. CASE left # Nil /\ right # Nil
  <2>1. c = [t |-> t, node |-> x]
    BY <1>1 DEF Collapse
  <2>2. c.t = t /\ c.node = x
    BY <2>1
  <2>3. H = t
    BY <1>h, <2>2, HangSameAt
  <2>4. CompressedBut(t.kids, t.val, Nil)
    BY <1>1 DEF CompressedBut
  <2>5. UpsExcept(t.kids, t.up, x)
    BY DEF UpsRight, UpsExcept
  <2>6. CutAs(c, H, u, b, t.val)
    BY <1>0, <2>2, <2>3, <2>4, <2>5 DEF CutAs
  <2>7. Untouched(N \ {x}, kids, H.kids, u, b)
    BY <2>3 DEF Untouched
  <2> QED BY <1>0, <2>1, <2>2, <2>6, <2>7
<1>2. CASE ~(left # Nil /\ right # Nil)
  <2> DEFINE e == IF left # Nil THEN FALSE ELSE TRUE
             o == IF left # Nil THEN left ELSE right
             s == Delete(t, x)
             kids2 == Without(kids, x)
             up2 == Without(t.up, x)
             kids3 == Hung(kids2, u, b, o)
             root3 == IF u = Nil THEN o ELSE t.root
  <2>1. c = [t |-> s, node |-> o]
    BY <1>2 DEF Collapse
  <2>2. c.t = s /\ c.node = o
    BY <2>1
  <2>3. e \in BOOLEAN /\ kids[x][~e] = Nil /\ o = kids[x][e]
    BY <1>2
  <2>4. s = Trie(t.root, kids2, up2, t.val, t.size)
    BY DeleteIs
  <2> HIDE DEF e, o, s, left, right
  <2>5. IsTrie(s) /\ s.root = t.root /\ s.kids = kids2 /\ s.up = up2 /\ s.val = t.val /\ s.size = t.size
    <3> HIDE DEF kids2, up2
    <3> QED BY <2>4, TrieIs
  <2>6. H = Trie(root3, kids3, up2, t.val, t.size)
    <3>1. H = Trie(IF u = Nil THEN o ELSE s.root,
                   IF u = Nil THEN s.kids ELSE [s.kids EXCEPT ![u][b] = o], s.up, s.val, s.size)
      BY <1>h, <2>2, <2>5, HangRight
    <3>2. kids3 = IF u = Nil THEN s.kids ELSE [s.kids EXCEPT ![u][b] = o]
      BY <2>5 DEF Hung
    <3> HIDE DEF kids3, kids2, up2
    <3> QED BY <2>5, <3>1, <3>2
  <2>7. IsTrie(H) /\ H.root = root3 /\ H.kids = kids3 /\ H.up = up2 /\ H.val = t.val /\ H.size = t.size
    <3> HIDE DEF kids3, up2, root3
    <3> QED BY <2>6, TrieIs
  <2> DEFINE M == N \ {x}
  <2>8. o # Nil => o \in M
    <3> SUFFICES ASSUME o # Nil PROVE o \in M
      OBVIOUS
    <3>1. kids[x][e] # Nil
      BY <2>3
    <3>2. kids[x][e] \in N /\ kids[x][e] # x
      <4> HIDE DEF N
      <4> QED BY <2>3, <3>1, KidIs DEF N
    <3> QED BY <2>3, <3>2
  <2>9. ASSUME NEW n \in M, NEW d \in BOOLEAN, n # u \/ d # b PROVE kids[n][d] # x
    <3>1. CASE u = Nil
      BY <1>0, <3>1, HasParent
    <3>2. CASE u # Nil
      <4> SUFFICES ASSUME kids[n][d] = x PROVE FALSE
        OBVIOUS
      <4>1. kids[n][d] # Nil /\ kids[u][b] = kids[n][d] /\ u \in DOMAIN kids /\ n \in DOMAIN kids
        BY <1>0, <3>2
      <4>2. Shape(t.root, kids)
        OBVIOUS
      <4> HIDE DEF kids, N, M
      <4>3. n = u /\ d = b
        BY ONLY Laws, <4>2, b \in BOOLEAN, d \in BOOLEAN, <4>1, OneParent
      <4> QED BY <2>9, <4>3
    <3> QED BY <3>1, <3>2
  <2>10. kids2 = [n \in M |-> kids[n]]
    BY DEF Without
  \* The place of x is the only one that had it.
  <2>11. /\ kids3 \in [M -> [BOOLEAN -> M \cup {Nil}]] /\ DOMAIN kids3 = M
         /\ \A n \in M, d \in BOOLEAN : kids3[n][d] = IF n = u /\ d = b THEN o ELSE kids[n][d]
    <3> HIDE DEF kids2
    <3>1. \A n \in M : kids2[n] = kids[n]
      BY <2>10
    <3>2. DOMAIN kids2 = M /\ kids2 \in [M -> [BOOLEAN -> N \cup {Nil}]]
      BY <1>0, <2>10
    <3>3. \A n \in M, d \in BOOLEAN : n # u \/ d # b => kids[n][d] \in M \cup {Nil}
      BY <1>0, <2>9
    <3>4. CASE u = Nil
      <4>1. kids3 = kids2
        BY <3>4 DEF Hung
      <4>2. \A n \in M, d \in BOOLEAN : kids2[n][d] \in M \cup {Nil}
        BY <1>0, <3>1, <3>3, <3>4
      <4>3. kids2 \in [M -> [BOOLEAN -> M \cup {Nil}]]
        <5> HIDE DEF M, N
        <5> QED BY <3>2, <4>2
      <4> QED BY <1>0, <3>1, <3>2, <3>4, <4>1, <4>3
    <3>5. CASE u # Nil
      <4>1. kids3 = [kids2 EXCEPT ![u][b] = o]
        BY <3>5 DEF Hung
      <4>2. u \in M /\ o \in N \cup {Nil}
        BY <1>0, <2>8, <3>5
      <4> HIDE DEF kids3, N, M, kids
      <4>3. /\ kids3 \in [M -> [BOOLEAN -> N \cup {Nil}]] /\ DOMAIN kids3 = M
            /\ kids3[u][b] = o
            /\ \A n \in M, d \in BOOLEAN : n # u \/ d # b => kids3[n][d] = kids2[n][d]
        BY <3>2, <4>1, <4>2, HangIs
      <4>4. \A n \in M, d \in BOOLEAN : kids3[n][d] = IF n = u /\ d = b THEN o ELSE kids[n][d]
        BY <3>1, <4>3
      <4>5. \A n \in M, d \in BOOLEAN : kids3[n][d] \in M \cup {Nil}
        BY <2>8, <3>3, <4>4
      <4>6. kids3 \in [M -> [BOOLEAN -> M \cup {Nil}]]
        BY <4>3, <4>5
      <4> QED BY <4>3, <4>4, <4>6
    <3> QED BY <3>4, <3>5
  <2> HIDE DEF kids2, kids3
  <2>12. Shrunk(t.root, kids, root3, kids3, u, b, x, o)
    BY <1>0, <2>11 DEF Shrunk
  <2>13. Shape(root3, kids3)
    <3>1. x = (IF u = Nil THEN t.root ELSE kids[u][b]) /\ Shape(t.root, kids) /\ u \in DOMAIN kids \cup {Nil}
          /\ x \in DOMAIN kids
      BY <1>0
    <3> HIDE DEF kids, N, M, root3
    <3> QED BY ONLY Laws, b \in BOOLEAN, <3>1, <2>3, <2>12, ShapeShrinks
  <2>14. UpsExcept(kids3, up2, o)
    <3>1. up2 = [n \in M |-> t.up[n]]
      BY DEF Without, UpsRight
    <3>2. ASSUME NEW n \in M, n # o
          PROVE  t.up[n] \in M \cup {Nil} /\ (t.up[n] # Nil => \E d \in BOOLEAN : kids3[t.up[n]][d] = n)
      <4> DEFINE q == t.up[n]
      <4>1. q \in N \cup {Nil} /\ (q # Nil => \E d \in BOOLEAN : kids[q][d] = n)
        BY DEF UpsRight
      <4> HIDE DEF q
      <4> SUFFICES ASSUME q # Nil PROVE q \in M /\ \E d \in BOOLEAN : kids3[q][d] = n
        BY <4>1 DEF q
      <4>2. PICK d \in BOOLEAN : kids[q][d] = n
        BY <4>1
      <4>3. q # x
        <5> SUFFICES ASSUME q = x PROVE FALSE
          OBVIOUS
        <5>1. d = e \/ d = ~e
          BY <2>3
        <5> QED BY <3>2, <4>2, <5>1, <2>3, <1>0
      <4>4. q # u \/ d # b
        BY <1>0, <4>2, <4>1
      <4>5. q \in M
        BY <4>1, <4>3
      <4>6. kids3[q][d] = n
        BY <2>11, <4>2, <4>4, <4>5
      <4> QED BY <4>5, <4>6
    <3> HIDE DEF up2
    <3>3. \A n \in M : up2[n] = t.up[n]
      BY <3>1
    <3>4. up2 \in [M -> {up2[n] : n \in M}]
      BY <3>1, <3>3
    <3>5. DOMAIN kids3 = M
      BY <2>11
    <3> HIDE DEF M
    <3> QED BY <3>2, <3>3, <3>4, <3>5 DEF UpsExcept
  <2>15. CompressedBut(kids3, t.val, IF o = Nil THEN u ELSE Nil)
    <3> SUFFICES ASSUME NEW n \in DOMAIN kids3 \ DOMAIN t.val, NEW d \in BOOLEAN, n # IF o = Nil THEN u ELSE Nil
                 PROVE  kids3[n][d] # Nil
      BY DEF CompressedBut
    <3>1. n \in M /\ kids[n][d] # Nil
      BY <2>11 DEF CompressedBut
    <3> QED BY <2>11, <3>1
  <2>16. Counted(kids3, t.val, t.size)
    BY <2>11 DEF Counted
  <2>17. At(kids3, root3, u, b) = o
    BY <1>0, <2>11 DEF At
  <2>18. CutAs(c, H, u, b, t.val)
    <3>1. o \in DOMAIN kids3 \cup {Nil}
      BY <2>8, <2>11
    <3> HIDE DEF root3, up2
    <3> QED BY <2>2, <2>5, <2>7, <2>13, <2>14, <2>15, <2>16, <2>17, <3>1 DEF CutAs
  <2>19. Untouched(M, kids, kids3, u, b)
    BY <2>11 DEF Untouched
  <2>20. (\E f \in BOOLEAN : kids[x][f] # Nil) => o # Nil
    BY <1>2 DEF o, left, right
  <2> HIDE DEF kids
  <2> QED BY <2>1, <2>2, <2>5, <2>7, <2>18, <2>19, <2>20 DEF kids
<1> QED BY <1>1, <1>2
RemoveStep(t, p, remove, n) ==
    CASE n = Nil -> [t |-> t, node |-> Nil, removed |-> FALSE]
      [] n # Nil /\ n = p /\ n \in Entry(t) ->
             LET c == Collapse(DropValue(t, n), n)
             IN  [t |-> c.t, node |-> c.node, removed |-> TRUE]
      [] n # Nil /\ ~(n = p /\ n \in Entry(t)) /\ p.len <= n.len ->
             [t |-> t, node |-> n, removed |-> FALSE]
      [] OTHER ->
             LET b == Bit(p, n.len)
                 kid == t.kids[n][b]
                 goesOn == kid # Nil /\ Contains(kid, p)
                 below == IF goesOn THEN remove[kid]
                          ELSE [t |-> t, node |-> kid, removed |-> FALSE]
                 linked == IF goesOn THEN SetKid(below.t, n, b, below.node) ELSE t
                 c == IF below.removed /\ n \notin Entry(linked) THEN Collapse(linked, n)
                      ELSE [t |-> linked, node |-> n]
             IN  [t |-> c.t, node |-> c.node, removed |-> below.removed]
IsRemove(t, p, remove) == remove = [n \in Places(t) |-> RemoveStep(t, p, remove, n)]

LEMMA RemoveNodeIs ==
  ASSUME NEW t, NEW top, NEW p
  PROVE  removeNode(t, top, p) = (CHOOSE remove : IsRemove(t, p, remove))[top]
  BY DEF removeNode, IsRemove, RemoveStep

\* Where the search for what is to be removed goes on.
LEMMA RemoveGoesOn ==
  ASSUME Laws, NEW t, Shape(t.root, t.kids), NEW p \in Prefix, NEW n \in DOMAIN t.kids, n.len < p.len,
         NEW k, k = t.kids[n][Bit(p, n.len)], k # Nil, Contains(k, p)
  PROVE  /\ k \in DOMAIN t.kids /\ Bit(p, n.len) \in BOOLEAN /\ n.len < k.len
         /\ Contains(n, k) /\ Contains(n, p) /\ k # n
<1>1. n \in Prefix /\ n.len \in 0..W
  BY DEF Shape, Laws, Lengths
<1>2. Bit(p, n.len) \in BOOLEAN
  BY <1>1 DEF Laws, Bits
<1>3. k \in Under(DOMAIN t.kids, n, Bit(p, n.len)) /\ k # n
  BY <1>2, KidIs
<1>4. k \in DOMAIN t.kids /\ n.len < k.len /\ Contains(n, k)
  BY <1>3 DEF Under
<1>5. Contains(n, p)
  BY <1>1, <1>4 DEF Laws, Containment, Shape
<1> QED BY <1>2, <1>3, <1>4, <1>5

\* A step needs what the function is only at a longer node.
LEMMA RemoveStepLocal ==
  ASSUME Laws, NEW t, Shape(t.root, t.kids), NEW p \in Prefix, NEW n \in Places(t), NEW f, NEW g,
         \A k \in DOMAIN t.kids : n # Nil /\ n.len < k.len => f[k] = g[k]
  PROVE  RemoveStep(t, p, f, n) = RemoveStep(t, p, g, n)
<1>0. n # Nil => n \in DOMAIN t.kids /\ n.len \in 0..W /\ p.len \in 0..W
  BY DEF Places, Shape, Laws, Lengths
<1>1. CASE n = Nil
  BY <1>1 DEF RemoveStep
<1>2. CASE n # Nil /\ n = p /\ n \in Entry(t)
  BY <1>2 DEF RemoveStep
<1>3. CASE n # Nil /\ ~(n = p /\ n \in Entry(t)) /\ p.len <= n.len
  BY <1>3 DEF RemoveStep
<1>4. CASE n # Nil /\ ~(n = p /\ n \in Entry(t)) /\ ~(p.len <= n.len)
  <2> DEFINE k == t.kids[n][Bit(p, n.len)]
  <2>1. CASE k # Nil /\ Contains(k, p)
    <3>1. k \in DOMAIN t.kids /\ n.len < k.len
      BY <1>0, <1>4, <2>1, RemoveGoesOn
    <3>2. f[k] = g[k]
      BY <1>4, <3>1
    <3> QED BY <1>4, <2>1, <3>2 DEF RemoveStep
  <2>2. CASE ~(k # Nil /\ Contains(k, p))
    BY <1>4, <2>2 DEF RemoveStep
  <2> QED BY <2>1, <2>2
<1> QED BY <1>1, <1>2, <1>3, <1>4

Rank(n) == IF n = Nil THEN 0 ELSE W - n.len
RemovesBelow(t, p, k) ==
  \E f : \A n \in Places(t) : Rank(n) < k => f[n] = RemoveStep(t, p, f, n)

LEMMA RemoveExists ==
  ASSUME Laws, NEW t, Shape(t.root, t.kids), NEW p \in Prefix
  PROVE  \E f : IsRemove(t, p, f)
<1>0. /\ W \in Nat
      /\ \A n \in Places(t) : Rank(n) \in 0..W
      /\ \A n \in DOMAIN t.kids : n # Nil /\ n \in Places(t) /\ n.len \in 0..W
  BY NilIsNone DEF Rank, Places, Shape, Laws, Lengths
<1>1. ASSUME NEW k \in Nat, RemovesBelow(t, p, k)
      PROVE  RemovesBelow(t, p, k + 1)
  <2>1. PICK f : \A n \in Places(t) : Rank(n) < k => f[n] = RemoveStep(t, p, f, n)
    BY <1>1 DEF RemovesBelow
  <2> DEFINE h == [n \in Places(t) |-> RemoveStep(t, p, f, n)]
  <2>2. \A n \in Places(t) : h[n] = RemoveStep(t, p, f, n)
    OBVIOUS
  <2> HIDE DEF h
  <2>3. ASSUME NEW n \in Places(t), Rank(n) < k + 1 PROVE h[n] = RemoveStep(t, p, h, n)
    <3>1. ASSUME NEW m \in DOMAIN t.kids, n # Nil, n.len < m.len PROVE h[m] = f[m]
      <4>1. m \in Places(t) /\ m # Nil /\ m.len \in 0..W /\ Rank(m) = W - m.len
        BY <1>0 DEF Rank
      <4>2. n.len \in 0..W /\ Rank(n) = W - n.len
        BY <1>0, <3>1 DEF Places, Rank
      <4>3. Rank(m) < k
        BY <1>0, <2>3, <3>1, <4>1, <4>2
      <4> QED BY <2>1, <2>2, <4>1, <4>3
    <3>2. RemoveStep(t, p, h, n) = RemoveStep(t, p, f, n)
      BY <3>1, RemoveStepLocal
    <3> QED BY <2>2, <3>2
  <2> QED BY <2>3 DEF RemovesBelow
<1>2. RemovesBelow(t, p, 0)
  BY <1>0 DEF RemovesBelow
<1> DEFINE K == {k \in Nat : ~RemovesBelow(t, p, k)}
<1>3. K = {}
  <2> SUFFICES ASSUME K # {} PROVE FALSE
    OBVIOUS
  <2>1. PICK k \in K : \A i \in K : ~(<<i, k>> \in OpToRel(<, Nat))
    BY NatLessThanWellFounded, WFMin
  <2>2. \A i \in K : ~(i < k)
    BY <2>1 DEF OpToRel
  <2>3. k # 0 /\ k \in Nat
    BY <1>2
  <2>4. k - 1 \in Nat /\ RemovesBelow(t, p, k - 1)
    BY <2>2, <2>3
  <2>5. RemovesBelow(t, p, (k - 1) + 1)
    BY <1>1, <2>4
  <2>6. (k - 1) + 1 = k
    BY <2>3
  <2> QED BY <2>5, <2>6
<1>4. RemovesBelow(t, p, W + 1)
  BY <1>0, <1>3
<1>5. PICK f : \A n \in Places(t) : f[n] = RemoveStep(t, p, f, n)
  BY <1>0, <1>4 DEF RemovesBelow
<1> DEFINE h == [n \in Places(t) |-> f[n]]
           g == [n \in Places(t) |-> RemoveStep(t, p, h, n)]
<1>6. \A n \in Places(t) : h[n] = f[n]
  OBVIOUS
<1>7. ASSUME NEW n \in Places(t) PROVE h[n] = RemoveStep(t, p, h, n)
  <2> HIDE DEF h
  <2>1. RemoveStep(t, p, h, n) = RemoveStep(t, p, f, n)
    BY <1>0, <1>6, RemoveStepLocal
  <2> QED BY <1>5, <1>6, <2>1
<1>8. h = g
  <2>1. \A n \in Places(t) : g[n] = h[n]
    <3> HIDE DEF h
    <3> QED BY <1>7
  <2>2. h = [n \in Places(t) |-> h[n]] /\ g = [n \in Places(t) |-> g[n]]
    OBVIOUS
  <2> HIDE DEF h, g
  <2> QED BY <2>1, <2>2
<1> HIDE DEF h
<1> QED BY <1>8 DEF IsRemove
LEMMA CountedShrinks ==
  ASSUME NEW kids, NEW val, NEW size, Counted(kids, val, size), NEW p \in DOMAIN val
  PROVE  Counted(kids, Without(val, p), size - 1)
<1> DEFINE val2 == Without(val, p)
<1>1. DOMAIN val2 = DOMAIN val \ {p} /\ val2 \in [DOMAIN val2 -> Value]
  BY DEF Without, Counted
<1>2. IsFiniteSet(DOMAIN val) /\ size = Cardinality(DOMAIN val)
  BY DEF Counted
<1>3. IsFiniteSet(DOMAIN val \ {p}) /\ Cardinality(DOMAIN val \ {p}) = Cardinality(DOMAIN val) - 1
  BY <1>2, FS_RemoveElement
<1> QED BY <1>1, <1>2, <1>3 DEF Counted

\* What removeNode() of the node n in the place of u is to return.
Removes(t, p, n) == p \in Entry(t) /\ Contains(n, p)
Left(t, p, n) == IF Removes(t, p, n) THEN Without(t.val, p) ELSE t.val
Over2(t, n) == {m \in DOMAIN t.kids : Contains(m, n) /\ m # n}
RemovedRight(t, p, n, u, b, r) ==
  /\ r = [t |-> r.t, node |-> r.node, removed |-> Removes(t, p, n)]
  /\ r.t.root = t.root
  /\ CutAs(r, Hang(r.t, u, b, r.node), u, b, Left(t, p, n))
  /\ Untouched(Over2(t, n), t.kids, Hang(r.t, u, b, r.node).kids, u, b)
  /\ ~Removes(t, p, n) => r.node # Nil

\* A trie that stays as it is.
LEMMA NothingRemoved ==
  ASSUME Laws, NEW t, Good(t), NEW p \in Prefix, NEW n \in DOMAIN t.kids, ~Removes(t, p, n),
         NEW u \in Places(t), NEW b \in BOOLEAN, At(t.kids, t.root, u, b) = n,
         NEW r, r = [t |-> t, node |-> n, removed |-> FALSE]
  PROVE  RemovedRight(t, p, n, u, b, r)
<1>0. IsTrie(t) /\ Shape(t.root, t.kids) /\ n # Nil
  BY NilIsNone DEF Good, Shape
<1>1. r.t = t /\ r.node = n /\ r.removed = FALSE
  OBVIOUS
<1>2. Hang(r.t, u, b, r.node) = t
  BY <1>0, <1>1, HangSameAt
<1>3. UpsExcept(t.kids, t.up, n)
  BY DEF Good, UpsRight, UpsExcept
<1>4. CompressedBut(t.kids, t.val, Nil)
  BY DEF Good, Compressed, CompressedBut
<1>5. CutAs(r, t, u, b, t.val)
  BY <1>0, <1>1, <1>3, <1>4 DEF CutAs, Good
<1>6. Untouched(Over2(t, n), t.kids, t.kids, u, b)
  BY DEF Untouched, Over2
<1>7. Left(t, p, n) = t.val
  BY DEF Left
<1>8. r = [t |-> r.t, node |-> r.node, removed |-> Removes(t, p, n)]
  BY <1>1 DEF Removes
<1> QED BY <1>0, <1>1, <1>2, <1>5, <1>6, <1>7, <1>8 DEF RemovedRight

\* The entry itself.
LEMMA EntryRemoved ==
  ASSUME Laws, NEW t, Good(t), NEW p \in Prefix, p \in Entry(t),
         NEW u \in Places(t), NEW b \in BOOLEAN, At(t.kids, t.root, u, b) = p,
         NEW c, c = Collapse(DropValue(t, p), p), NEW r, r = [t |-> c.t, node |-> c.node, removed |-> TRUE]
  PROVE  RemovedRight(t, p, p, u, b, r)
<1> DEFINE s == DropValue(t, p)
<1>1. s = Trie(t.root, t.kids, t.up, Without(t.val, p), t.size - 1)
  BY DropValueIs DEF Good
<1> HIDE DEF s
<1>2. /\ IsTrie(s) /\ s.root = t.root /\ s.kids = t.kids /\ s.up = t.up
      /\ s.val = Without(t.val, p) /\ s.size = t.size - 1
  BY <1>1, TrieIs
<1>3. p \in DOMAIN t.kids /\ p \in DOMAIN t.val
  BY DEF Entry, Good, Counted
<1>4. Counted(s.kids, s.val, s.size)
  BY <1>2, <1>3, CountedShrinks DEF Good
<1>5. DOMAIN s.val = DOMAIN t.val \ {p}
  BY <1>2 DEF Without
<1>6. CompressedBut(s.kids, s.val, p)
  BY <1>2, <1>5 DEF Good, Compressed, CompressedBut
<1> DEFINE H == Hang(c.t, u, b, c.node)
<1>7. /\ CutAs(c, H, u, b, s.val)
      /\ Untouched(DOMAIN s.kids \ {p}, s.kids, H.kids, u, b)
      /\ c.t.root = s.root
      /\ c = [t |-> c.t, node |-> c.node]
  <2>1. /\ IsTrie(s) /\ Shape(s.root, s.kids) /\ UpsRight(s.kids, s.up) /\ p \in DOMAIN s.kids /\ p \notin DOMAIN s.val
        /\ u \in Places(s) /\ At(s.kids, s.root, u, b) = p /\ c = Collapse(s, p)
    BY <1>2, <1>3, <1>5 DEF Good, Places, s
  <2>2. CollapsedRight(s, p, u, b, c)
    BY ONLY Laws, b \in BOOLEAN, <1>4, <1>6, <2>1, CollapseRight
  <2> QED BY <2>2 DEF CollapsedRight
<1>8. r.t = c.t /\ r.node = c.node
  OBVIOUS
<1>9. Removes(t, p, p)
  BY DEF Removes, Laws, Containment
<1>10. Left(t, p, p) = s.val
  BY <1>2, <1>9 DEF Left
<1>11. CutAs(r, H, u, b, s.val)
  <2> HIDE DEF H
  <2> QED BY <1>7, <1>8 DEF CutAs
<1>12. Untouched(Over2(t, p), t.kids, H.kids, u, b)
  <2> HIDE DEF H
  <2> QED BY <1>2, <1>7 DEF Untouched, Over2
<1>13. r = [t |-> r.t, node |-> r.node, removed |-> Removes(t, p, p)]
  BY <1>8, <1>9
<1>14. H = Hang(r.t, u, b, r.node)
  BY <1>8
<1> HIDE DEF H
<1> QED BY <1>2, <1>7, <1>8, <1>9, <1>10, <1>11, <1>12, <1>13, <1>14 DEF RemovedRight
\* A node links what is left below it, and goes if that leaves it with no value and one child.
LEMMA RemovedAbove ==
  ASSUME Laws, NEW t, Good(t), NEW p \in Prefix, NEW n \in DOMAIN t.kids, n.len < p.len,
         NEW d, d = Bit(p, n.len), NEW k, k = t.kids[n][d], k # Nil, Contains(k, p),
         NEW below, RemovedRight(t, p, k, n, d, below),
         NEW u \in Places(t), NEW b \in BOOLEAN, At(t.kids, t.root, u, b) = n,
         NEW s, s = SetKid(below.t, n, d, below.node),
         NEW c, c = IF below.removed /\ n \notin Entry(s) THEN Collapse(s, n) ELSE [t |-> s, node |-> n],
         NEW r, r = [t |-> c.t, node |-> c.node, removed |-> below.removed]
  PROVE  RemovedRight(t, p, n, u, b, r)
<1> DEFINE H == Hang(below.t, n, d, below.node)
           val2 == Left(t, p, k)
<1>0. /\ k \in DOMAIN t.kids /\ d \in BOOLEAN /\ n.len < k.len
      /\ Contains(n, k) /\ Contains(n, p) /\ k # n
      /\ n # Nil /\ Nil \notin DOMAIN t.kids /\ n \in Prefix /\ k \in Prefix
  <2>1. Shape(t.root, t.kids)
    BY DEF Good
  <2> QED BY <2>1, RemoveGoesOn, NilIsNone DEF Shape
<1>1. /\ CutAs(below, H, n, d, val2)
      /\ Untouched(Over2(t, k), t.kids, H.kids, n, d)
      /\ below.t.root = t.root
      /\ below.removed = Removes(t, p, k)
      /\ ~Removes(t, p, k) => below.node # Nil
  <2>1. below = [t |-> below.t, node |-> below.node, removed |-> Removes(t, p, k)]
    BY DEF RemovedRight
  <2>2. below.removed = Removes(t, p, k)
    BY <2>1
  <2> QED BY <2>2 DEF RemovedRight
<1>2. Removes(t, p, k) <=> Removes(t, p, n)
  BY <1>0 DEF Removes
<1>3. Left(t, p, n) = val2
  BY <1>2 DEF Left
<1>4. H = Trie(below.t.root, [below.t.kids EXCEPT ![n][d] = below.node], below.t.up, below.t.val, below.t.size)
  <2>1. H = Trie(IF n = Nil THEN below.node ELSE below.t.root,
                 IF n = Nil THEN below.t.kids ELSE [below.t.kids EXCEPT ![n][d] = below.node],
                 below.t.up, below.t.val, below.t.size)
    <3>1. IsTrie(below.t)
      BY <1>1 DEF CutAs
    <3> QED BY <3>1, HangRight
  <2> QED BY <1>0, <2>1
<1> DEFINE up2 == IF below.node = Nil THEN H.up ELSE [H.up EXCEPT ![below.node] = n]
<1>5. s = Trie(t.root, H.kids, up2, H.val, H.size)
  <2>1. s = Trie(below.t.root, [below.t.kids EXCEPT ![n][d] = below.node],
                 IF below.node = Nil THEN below.t.up ELSE [below.t.up EXCEPT ![below.node] = n],
                 below.t.val, below.t.size)
    <3>1. IsTrie(below.t)
      BY <1>1 DEF CutAs
    <3>2. SetKid(below.t, n, d, below.node)
            = Trie(below.t.root, [below.t.kids EXCEPT ![n][d] = below.node],
                   IF below.node = Nil THEN below.t.up ELSE [below.t.up EXCEPT ![below.node] = n],
                   below.t.val, below.t.size)
      BY ONLY <3>1, SetKidIs
    <3> QED BY <1>1, <3>2
  <2>2. /\ H.kids = [below.t.kids EXCEPT ![n][d] = below.node] /\ H.up = below.t.up /\ H.val = below.t.val
        /\ H.size = below.t.size
    <3> DEFINE K == [below.t.kids EXCEPT ![n][d] = below.node]
    <3> HIDE DEF K, H
    <3>1. H = Trie(below.t.root, K, below.t.up, below.t.val, below.t.size)
      BY <1>4 DEF K
    <3>2. H.kids = K /\ H.up = below.t.up /\ H.val = below.t.val /\ H.size = below.t.size
      BY <3>1, TrieIs
    <3> QED BY <3>2 DEF K
  <2> HIDE DEF H
  <2> QED BY <1>1, <2>1, <2>2
<1>6. H.root = t.root
  <2> DEFINE K == [below.t.kids EXCEPT ![n][d] = below.node]
  <2> HIDE DEF K, H
  <2>1. H = Trie(below.t.root, K, below.t.up, below.t.val, below.t.size)
    BY <1>4 DEF K
  <2>2. H.root = below.t.root
    BY <2>1, TrieIs
  <2> QED BY <1>1, <2>2
<1> HIDE DEF H
<1>7. /\ IsTrie(s) /\ s.root = t.root /\ s.kids = H.kids /\ s.up = up2 /\ s.val = val2 /\ s.size = H.size
  <2>1. H.val = val2
    BY <1>1 DEF CutAs
  <2> HIDE DEF up2, val2
  <2> QED BY <1>5, <2>1, TrieIs
<1>8. /\ Shape(s.root, s.kids) /\ Counted(s.kids, s.val, s.size)
      /\ s.kids[n][d] = below.node /\ below.node \in DOMAIN s.kids \cup {Nil}
  BY <1>0, <1>1, <1>6, <1>7 DEF CutAs, At
<1>9. \A m \in Over2(t, k) : m \in DOMAIN s.kids /\ \A e \in BOOLEAN : m # n \/ e # d => s.kids[m][e] = t.kids[m][e]
  BY <1>1, <1>7 DEF Untouched
<1>10. n \in Over2(t, k)
  BY <1>0 DEF Over2
<1>11. \A m \in Over2(t, n) : m \in Over2(t, k) /\ m # n
  <2> SUFFICES ASSUME NEW m \in DOMAIN t.kids, Contains(m, n), m # n PROVE Contains(m, k) /\ m # k
    BY DEF Over2
  <2>1. m \in Prefix /\ m.len \in 0..W /\ n.len \in 0..W /\ k.len \in 0..W
    BY <1>0 DEF Good, Shape, Laws, Lengths
  <2>2. Contains(m, k) /\ m.len <= n.len
    BY <1>0, <2>1 DEF Laws, Containment
  <2> QED BY <1>0, <2>1, <2>2
\* Everyone knows the parent again.
<1>12. UpsRight(s.kids, s.up)
  <2>1. UpsExcept(s.kids, H.up, below.node)
    BY <1>1, <1>7 DEF CutAs
  <2>2. \A m \in DOMAIN s.kids : up2[m] = IF m = below.node THEN n ELSE H.up[m]
    <3>1. Nil \notin DOMAIN s.kids
      BY <1>8, NilIsNone DEF Shape
    <3> QED BY <2>1, <3>1 DEF UpsExcept
  <2>3. DOMAIN up2 = DOMAIN s.kids /\ up2 \in [DOMAIN s.kids -> {up2[m] : m \in DOMAIN s.kids}]
    <3> DEFINE D == DOMAIN s.kids
               up == H.up
               x == below.node
    <3>1. up \in [D -> {up[m] : m \in D}]
      BY <2>1 DEF UpsExcept
    <3> HIDE DEF D, up, x
    <3>2. up2 = IF x = Nil THEN up ELSE [up EXCEPT ![x] = n]
      BY DEF up, x
    <3>3. DOMAIN up2 = D /\ up2 = [m \in D |-> up2[m]]
      BY <3>1, <3>2
    <3> HIDE DEF up2
    <3> QED BY <3>3 DEF D
  <2>4. n \in DOMAIN s.kids
    BY <1>9, <1>10
  <2> HIDE DEF up2
  <2>5. \A m \in DOMAIN s.kids : up2[m] \in DOMAIN s.kids \cup {Nil} /\ (up2[m] # Nil => \E e \in BOOLEAN : s.kids[up2[m]][e] = m)
    BY ONLY <1>0, <1>8, <2>1, <2>2, <2>4 DEF UpsExcept
  <2> QED BY <1>7, <2>3, <2>5 DEF UpsRight
<1>13. n \in DOMAIN s.kids /\ u \in Places(s) /\ At(s.kids, s.root, u, b) = n
  <2>1. CASE u = Nil
    BY <1>7, <1>9, <1>10, <2>1 DEF Places, At
  <2>2. CASE u # Nil
    <3>1. u \in DOMAIN t.kids /\ t.kids[u][b] = n
      BY <2>2 DEF Places, At
    <3>2. n \in Under(DOMAIN t.kids, u, b) /\ u # n
      BY <1>0, <3>1, KidIs DEF Good
    <3>3. u \in Over2(t, n)
      BY <3>1, <3>2 DEF Under, Over2
    <3>4. u \in DOMAIN s.kids /\ s.kids[u][b] = t.kids[u][b]
      BY <1>9, <1>11, <3>3
    <3> QED BY <1>9, <1>10, <2>2, <3>1, <3>4 DEF Places, At
  <2> QED BY <2>1, <2>2
<1>14. CompressedBut(s.kids, s.val, IF below.node = Nil THEN n ELSE Nil)
  BY <1>1, <1>7 DEF CutAs
<1>15. \A m \in Over2(t, n) : m \in DOMAIN s.kids \ {n} /\ \A e \in BOOLEAN : s.kids[m][e] = t.kids[m][e]
  BY <1>9, <1>11
\* The other child of a node that has no value.
<1>16. n \notin DOMAIN val2 /\ Removes(t, p, k) => s.kids[n][~d] # Nil
  <2> SUFFICES ASSUME n \notin DOMAIN val2, Removes(t, p, k) PROVE s.kids[n][~d] # Nil
    OBVIOUS
  <2>1. DOMAIN val2 = DOMAIN t.val \ {p}
    BY DEF Left, Without
  <2>2. n # p
    <3>1. n.len \in 0..W /\ p.len \in 0..W
      BY <1>0 DEF Laws, Lengths
    <3> QED BY <3>1
  <2>3. t.kids[n][~d] # Nil
    BY <1>0, <2>1, <2>2 DEF Good, Compressed
  <2> QED BY <1>0, <1>9, <1>10, <2>3
<1>17. CASE Removes(t, p, k) /\ n \notin DOMAIN val2
  <2>1. c = Collapse(s, n)
    BY <1>1, <1>7, <1>17 DEF Entry
  <2>2. CompressedBut(s.kids, s.val, n)
    <3>1. Nil \notin DOMAIN s.kids
      BY <1>8, NilIsNone DEF Shape
    <3> QED BY <1>14, <3>1 DEF CompressedBut
  <2>3. n \in DOMAIN s.kids /\ n \notin DOMAIN s.val /\ u \in Places(s) /\ At(s.kids, s.root, u, b) = n
    BY <1>7, <1>13, <1>17
  <2>4. CollapsedRight(s, n, u, b, c)
    BY ONLY Laws, <1>7, <1>8, <1>12, <2>1, <2>2, <2>3, b \in BOOLEAN, CollapseRight
  <2> DEFINE G == Hang(c.t, u, b, c.node)
  <2>5. /\ CutAs(c, G, u, b, s.val) /\ Untouched(DOMAIN s.kids \ {n}, s.kids, G.kids, u, b)
        /\ c.t.root = t.root /\ c.node # Nil
    BY <1>0, <1>7, <1>16, <1>17, <2>4 DEF CollapsedRight
  <2>6. r.t = c.t /\ r.node = c.node
    OBVIOUS
  <2>7. r = [t |-> r.t, node |-> r.node, removed |-> Removes(t, p, n)]
    BY <1>1, <1>2, <2>6 DEF Removes
  <2>8. G = Hang(r.t, u, b, r.node)
    BY <2>6
  <2> HIDE DEF G
  <2>9. CutAs(r, G, u, b, val2)
    BY <1>7, <2>5, <2>6 DEF CutAs
  <2>10. Untouched(Over2(t, n), t.kids, G.kids, u, b)
    BY <1>15, <2>5 DEF Untouched
  <2> QED BY <1>3, <2>5, <2>6, <2>7, <2>8, <2>9, <2>10 DEF RemovedRight
<1>18. CASE ~(Removes(t, p, k) /\ n \notin DOMAIN val2)
  <2>1. c = [t |-> s, node |-> n]
    BY <1>1, <1>7, <1>18 DEF Entry
  <2>2. r.t = s /\ r.node = n
    BY <2>1
  <2>3. r = [t |-> r.t, node |-> r.node, removed |-> Removes(t, p, n)]
    BY <1>1, <1>2, <2>2 DEF Removes
  <2>4. Hang(r.t, u, b, r.node) = s
    BY <1>7, <1>8, <1>13, <2>2, HangSameAt
  <2>5. CompressedBut(s.kids, s.val, Nil)
    BY <1>1, <1>7, <1>14, <1>18 DEF CompressedBut
  <2>6. UpsExcept(s.kids, s.up, n)
    BY ONLY <1>12 DEF UpsRight, UpsExcept
  <2>7. CutAs(r, s, u, b, val2)
    BY <1>0, <1>7, <1>8, <1>13, <2>2, <2>5, <2>6 DEF CutAs
  <2>8. Untouched(Over2(t, n), t.kids, s.kids, u, b)
    BY <1>15 DEF Untouched
  <2> QED BY <1>0, <1>3, <1>7, <2>2, <2>3, <2>4, <2>7, <2>8 DEF RemovedRight
<1> QED BY <1>17, <1>18
\* Every node of the way, the longest first.
LEMMA RemoveNodeRight ==
  ASSUME Laws, NEW t, Good(t), NEW p \in Prefix, NEW f, IsRemove(t, p, f),
         NEW n \in DOMAIN t.kids, NEW u \in Places(t), NEW b \in BOOLEAN, At(t.kids, t.root, u, b) = n
  PROVE  RemovedRight(t, p, n, u, b, f[n])
<1> DEFINE N == DOMAIN t.kids
           Done(m) == \A w \in Places(t), e \in BOOLEAN : At(t.kids, t.root, w, e) = m => RemovedRight(t, p, m, w, e, f[m])
           Bad == {m \in N : ~Done(m)}
<1>0. /\ Shape(t.root, t.kids) /\ Nil \notin N /\ N \subseteq Prefix
      /\ \A m \in N : m \in Places(t) /\ m # Nil /\ m.len \in 0..W
      /\ p.len \in 0..W
      /\ \A m \in N : f[m] = RemoveStep(t, p, f, m)
      /\ Entry(t) \subseteq N
  BY NilIsNone DEF Good, Shape, Laws, Lengths, Places, IsRemove, Counted, Entry
<1>1. ASSUME NEW m \in N, \A k \in N : m.len < k.len => Done(k), NEW w \in Places(t), NEW e \in BOOLEAN,
             At(t.kids, t.root, w, e) = m
      PROVE  RemovedRight(t, p, m, w, e, f[m])
  <2>1. CASE m = p /\ m \in Entry(t)
    <3> DEFINE c == Collapse(DropValue(t, p), p)
    <3>1. f[m] = [t |-> c.t, node |-> c.node, removed |-> TRUE]
      BY <1>0, <2>1 DEF RemoveStep
    <3>2. c = Collapse(DropValue(t, p), p)
      OBVIOUS
    <3> HIDE DEF c
    <3> QED BY <1>1, <2>1, <3>1, <3>2, EntryRemoved
  <2>2. CASE ~(m = p /\ m \in Entry(t)) /\ p.len <= m.len
    <3>1. f[m] = [t |-> t, node |-> m, removed |-> FALSE]
      BY <1>0, <2>2 DEF RemoveStep
    <3>2. ~Removes(t, p, m)
      BY <1>0, <2>2 DEF Removes, Laws, Containment
    <3> QED BY <1>1, <3>1, <3>2, NothingRemoved
  <2>3. CASE ~(m = p /\ m \in Entry(t)) /\ ~(p.len <= m.len)
    <3> DEFINE d == Bit(p, m.len)
               k == t.kids[m][d]
    <3>1. CASE k # Nil /\ Contains(k, p)
      <4>1. m.len < p.len /\ k \in N /\ d \in BOOLEAN /\ m.len < k.len
        <5>1. m.len < p.len
          BY <1>0, <2>3
        <5> QED BY <1>0, <3>1, <5>1, RemoveGoesOn
      <4>2. At(t.kids, t.root, m, d) = k /\ m \in Places(t)
        BY <1>0 DEF At
      <4>3. RemovedRight(t, p, k, m, d, f[k])
        <5>1. Done(k)
          <6> HIDE DEF k
          <6> QED BY <1>1, <4>1
        <5> QED BY <4>1, <4>2, <5>1
      <4> DEFINE below == f[k]
                 s == SetKid(below.t, m, d, below.node)
                 c == IF below.removed /\ m \notin Entry(s) THEN Collapse(s, m) ELSE [t |-> s, node |-> m]
                 r == [t |-> c.t, node |-> c.node, removed |-> below.removed]
      <4>4. f[m] = r
        BY <1>0, <2>3, <3>1 DEF RemoveStep
      <4>5. d = Bit(p, m.len) /\ k = t.kids[m][d] /\ s = SetKid(below.t, m, d, below.node)
            /\ RemovedRight(t, p, k, m, d, below)
        BY <4>3
      <4>6. c = IF below.removed /\ m \notin Entry(s) THEN Collapse(s, m) ELSE [t |-> s, node |-> m]
        OBVIOUS
      <4>7. r = [t |-> c.t, node |-> c.node, removed |-> below.removed]
        OBVIOUS
      <4> HIDE DEF d, k, below, s, c, r
      <4> QED BY <1>1, <3>1, <4>1, <4>4, <4>5, <4>6, <4>7, RemovedAbove
    <3>2. CASE ~(k # Nil /\ Contains(k, p))
      <4>1. f[m] = [t |-> t, node |-> m, removed |-> FALSE]
        BY <1>0, <2>3, <3>2 DEF RemoveStep
      <4>2. ~Removes(t, p, m)
        <5> SUFFICES ASSUME p \in Entry(t), Contains(m, p) PROVE FALSE
          BY DEF Removes
        <5>1. p \in N /\ m # p
          BY <1>0, <2>3
        <5>2. k \in Under(N, m, d) /\ Contains(k, p)
          BY <1>0, <5>1, Descend
        <5>3. k \in N
          BY <5>2 DEF Under
        <5> QED BY <1>0, <3>2, <5>2, <5>3
      <4> QED BY <1>1, <4>1, <4>2, NothingRemoved
    <3> QED BY <3>1, <3>2
  <2> QED BY <2>1, <2>2, <2>3
<1>2. Bad = {}
  <2> SUFFICES ASSUME Bad # {} PROVE FALSE
    OBVIOUS
  <2>1. Bad \in SUBSET Prefix
    BY <1>0
  <2>2. PICK m \in Bad : \A k \in Bad : k.len <= m.len
    <3> HIDE DEF Bad
    <3> QED BY <2>1, LongestOf
  <2>3. \A k \in N : m.len < k.len => Done(k)
    <3> SUFFICES ASSUME NEW k \in N, m.len < k.len, ~Done(k) PROVE FALSE
      OBVIOUS
    <3>1. k \in Bad /\ m \in N
      OBVIOUS
    <3>2. k.len <= m.len
      BY <2>2, <3>1
    <3>3. k.len \in 0..W /\ m.len \in 0..W
      BY <1>0, <3>1
    <3> QED BY <3>2, <3>3
  <2>4. m \in N
    OBVIOUS
  <2> HIDE DEF N
  <2>5. Done(m)
    BY <1>1, <2>3, <2>4
  <2> QED BY <2>5
<1>3. Done(n)
  BY <1>2
<1> QED BY <1>3

\* Remove() keeps a trie, without the entry, and says whether it was there.
LEMMA RemoveIs ==
  ASSUME Laws, NEW t, Good(t), NEW p \in Prefix
  PROVE  /\ Good(Remove(t, p).t)
         /\ Remove(t, p).t.val = IF p \in Entry(t) THEN Without(t.val, p) ELSE t.val
         /\ Remove(t, p).removed = (p \in Entry(t))
<1> DEFINE f == CHOOSE g : IsRemove(t, p, g)
           r == removeNode(t, t.root, p)
           H == Hang(r.t, Nil, FALSE, r.node)
           T == IF r.node = Nil THEN [r.t EXCEPT !.root = Nil] ELSE [r.t EXCEPT !.root = r.node, !.up[r.node] = Nil]
<1>0. Shape(t.root, t.kids) /\ Entry(t) \subseteq DOMAIN t.kids /\ Nil \in Places(t) /\ IsTrie(t)
  BY DEF Good, Counted, Entry, Places
<1>1. IsRemove(t, p, f) /\ r = f[t.root]
  <2>1. \E g : IsRemove(t, p, g)
    BY <1>0, RemoveExists
  <2>2. r = f[t.root]
    BY RemoveNodeIs
  <2> HIDE DEF r
  <2> QED BY <2>1, <2>2
<1>2. Remove(t, p) = [t |-> T, removed |-> r.removed]
  BY DEF Remove
<1> HIDE DEF f, r
<1>3. CASE DOMAIN t.kids = {}
  <2>1. t.root = Nil /\ p \notin Entry(t)
    BY <1>0, <1>3 DEF Shape, IsTop
  <2>2. r = [t |-> t, node |-> Nil, removed |-> FALSE]
    BY <1>0, <1>1, <2>1 DEF IsRemove, RemoveStep
  <2>3. T = [t EXCEPT !.root = Nil] /\ r.removed = FALSE
    BY <2>2
  <2>4. [t EXCEPT !.root = Nil] = Trie(Nil, t.kids, t.up, t.val, t.size)
    BY <1>0, SetRootIs
  <2>5. T = t
    BY <1>0, <2>1, <2>3, <2>4 DEF IsTrie
  <2> HIDE DEF T
  <2>6. Remove(t, p).t = t /\ Remove(t, p).removed = FALSE
    BY <1>2, <2>3, <2>5
  <2>7. FALSE = (p \in Entry(t))
    BY <2>1
  <2> QED BY <2>1, <2>6, <2>7
<1>4. CASE DOMAIN t.kids # {}
  <2>1. t.root \in DOMAIN t.kids /\ (p \in Entry(t) => Contains(t.root, p)) /\ At(t.kids, t.root, Nil, FALSE) = t.root
    BY <1>0, <1>4 DEF Shape, IsTop, At
  <2> DEFINE n == t.root
  <2>2. RemovedRight(t, p, n, Nil, FALSE, f[n])
    <3>1. n \in DOMAIN t.kids /\ At(t.kids, t.root, Nil, FALSE) = n
      BY <2>1
    <3> HIDE DEF n
    <3> QED BY <1>0, <1>1, <3>1, RemoveNodeRight
  <2>3. Removes(t, p, n) <=> p \in Entry(t)
    BY <2>1 DEF Removes
  <2>4. r = [t |-> r.t, node |-> r.node, removed |-> Removes(t, p, n)] /\ CutAs(r, H, Nil, FALSE, Left(t, p, n))
    BY <1>1, <2>2 DEF RemovedRight
  <2>5. r.removed = (p \in Entry(t))
    <3>1. r.removed = Removes(t, p, n)
      BY <2>4
    <3> QED BY <2>3, <3>1 DEF Removes
  <2> DEFINE val2 == IF p \in Entry(t) THEN Without(t.val, p) ELSE t.val
  <2>6. Left(t, p, n) = val2
    BY <2>3 DEF Left
  <2>7. H = [r.t EXCEPT !.root = r.node]
    BY DEF Hang
  <2> HIDE DEF n, val2
  <2>8. CutAs(r, H, Nil, FALSE, val2)
    BY <2>4, <2>6
  <2>9. H = Trie(r.node, r.t.kids, r.t.up, r.t.val, r.t.size)
    <3>1. IsTrie(r.t)
      BY <2>8 DEF CutAs
    <3> QED BY <2>7, <3>1, SetRootIs
  <2> DEFINE up2 == IF r.node = Nil THEN H.up ELSE [H.up EXCEPT ![r.node] = Nil]
  <2>10. T = Trie(H.root, H.kids, up2, H.val, H.size)
    <3> HIDE DEF H
    <3>1. H.root = r.node /\ H.kids = r.t.kids /\ H.up = r.t.up /\ H.val = r.t.val /\ H.size = r.t.size /\ IsTrie(H)
      BY <2>9, TrieIs
    <3>2. CASE r.node = Nil
      <4>1. T = H /\ up2 = H.up
        BY <2>7, <3>2
      <4> QED BY <3>1, <4>1 DEF IsTrie
    <3>3. CASE r.node # Nil
      <4>1. T = [r.t EXCEPT !.root = r.node, !.up[r.node] = Nil]
        BY <3>3
      <4>2. T = [H EXCEPT !.up[r.node] = Nil]
        BY <2>7, <4>1
      <4>3. up2 = [H.up EXCEPT ![r.node] = Nil]
        BY <3>3
      <4> HIDE DEF T, up2
      <4>4. H = [root |-> H.root, kids |-> H.kids, up |-> H.up, val |-> H.val, size |-> H.size]
        BY <3>1 DEF IsTrie, Trie
      <4> QED BY <4>2, <4>3, <4>4 DEF Trie
    <3> QED BY <3>2, <3>3
  <2> HIDE DEF H, T
  <2>11. UpsRight(H.kids, up2)
    <3>1. Nil \notin DOMAIN H.kids
      BY <2>8, NilIsNone DEF CutAs, Shape
    <3>2. UpsExcept(H.kids, H.up, r.node)
      BY <2>8 DEF CutAs
    <3>3. \A m \in DOMAIN H.kids : up2[m] = IF m = r.node THEN Nil ELSE H.up[m]
      BY <3>1, <3>2 DEF UpsExcept
    <3>4. DOMAIN up2 = DOMAIN H.kids /\ up2 \in [DOMAIN H.kids -> {up2[m] : m \in DOMAIN H.kids}]
      <4> DEFINE D == DOMAIN H.kids
                 up == H.up
                 x == r.node
      <4>1. up \in [D -> {up[m] : m \in D}]
        BY <3>2 DEF UpsExcept
      <4> HIDE DEF D, up, x
      <4>2. up2 = IF x = Nil THEN up ELSE [up EXCEPT ![x] = Nil]
        BY DEF up, x
      <4>3. DOMAIN up2 = D /\ up2 = [m \in D |-> up2[m]]
        BY <4>1, <4>2
      <4> HIDE DEF up2
      <4> QED BY <4>3 DEF D
    <3> HIDE DEF up2
    <3>5. \A m \in DOMAIN H.kids : up2[m] \in DOMAIN H.kids \cup {Nil} /\ (up2[m] # Nil => \E e \in BOOLEAN : H.kids[up2[m]][e] = m)
      BY <3>2, <3>3 DEF UpsExcept
    <3> QED BY <3>4, <3>5 DEF UpsRight
  <2> HIDE DEF up2
  <2>12. IsTrie(T) /\ T.root = H.root /\ T.kids = H.kids /\ T.up = up2 /\ T.val = H.val /\ T.size = H.size
    BY <2>10, TrieIs
  <2>13. Compressed(H.kids, H.val)
    <3>1. Nil \notin DOMAIN H.kids
      BY <2>8, NilIsNone DEF CutAs, Shape
    <3> QED BY <2>8, <3>1 DEF CutAs, CompressedBut, Compressed
  <2>14. Good(T) /\ T.val = val2
    BY <2>8, <2>11, <2>12, <2>13 DEF CutAs, Good
  <2>15. Remove(t, p).t = T /\ Remove(t, p).removed = (p \in Entry(t))
    BY <1>2, <2>5
  <2> QED BY <2>14, <2>15 DEF val2
<1> QED BY <1>3, <1>4

-----------------------------------------------------------------------------
(* Recursive functions.                                                    *)

\* A step G that needs of a function only what it is where the rank is lower
\* has a function that it leaves as it is.
Recursion(P, V, G, rank) ==
  /\ [P -> V] # {}
  /\ G \in [[P -> V] -> [P -> V]]
  /\ rank \in [P -> Nat]
  /\ \A f, g \in [P -> V], n \in P :
        (\A m \in P : rank[m] < rank[n] => f[m] = g[m]) => G[f][n] = G[g][n]
LEMMA FixedPoint ==
  ASSUME NEW P, NEW V, NEW G, NEW rank, Recursion(P, V, G, rank)
  PROVE  \E f \in [P -> V] : f = G[f]
<1> /\ [P -> V] # {} /\ G \in [[P -> V] -> [P -> V]] /\ rank \in [P -> Nat]
    /\ \A f, g \in [P -> V], n \in P :
          (\A m \in P : rank[m] < rank[n] => f[m] = g[m]) => G[f][n] = G[g][n]
  BY DEF Recursion
<1> DEFINE F == [P -> V]
           Right(f, k) == \A n \in P : rank[n] < k => f[n] = G[f][n]
           Reached(k) == \E f \in F : Right(f, k)
           K == {k \in Nat : ~Reached(k)}
<1>1. Reached(0)
  <2>1. PICK f \in F : TRUE
    OBVIOUS
  <2>2. Right(f, 0)
    OBVIOUS
  <2> QED BY <2>2
<1>2. ASSUME NEW k \in Nat, NEW f \in F, Right(f, k) PROVE G[f] \in F /\ Right(G[f], k + 1)
  <2>1. G[f] \in F
    OBVIOUS
  <2>2. ASSUME NEW n \in P, rank[n] < k + 1 PROVE G[f][n] = G[G[f]][n]
    <3>1. \A m \in P : rank[m] < rank[n] => f[m] = G[f][m]
      BY <1>2, <2>2
    <3> QED BY <2>1, <3>1
  <2> QED BY <2>1, <2>2
<1>3. K = {}
  <2> SUFFICES ASSUME K # {} PROVE FALSE
    OBVIOUS
  <2>1. PICK k \in K : \A i \in K : ~(<<i, k>> \in OpToRel(<, Nat))
    BY NatLessThanWellFounded, WFMin
  <2>2. k \in Nat /\ ~Reached(k) /\ \A i \in Nat : i < k => Reached(i)
    BY <2>1 DEF OpToRel
  <2>3. k # 0
    BY <1>1, <2>2
  <2>4. k - 1 \in Nat /\ k - 1 < k /\ (k - 1) + 1 = k
    BY <2>2, <2>3
  <2>5. Reached(k - 1)
    BY <2>2, <2>4
  <2>6. PICK f \in F : Right(f, k - 1)
    BY <2>5
  <2>7. G[f] \in F /\ Right(G[f], (k - 1) + 1)
    BY <1>2, <2>4, <2>6
  <2> HIDE DEF Right
  <2> QED BY <2>2, <2>4, <2>7
\* What the functions that are right below a rank have in common.
<1>4. ASSUME NEW f \in F, NEW g \in F, NEW k \in Nat, Right(f, k), Right(g, k)
      PROVE  \A n \in P : rank[n] < k => f[n] = g[n]
  <2> DEFINE D == {i \in Nat : \E n \in P : rank[n] = i /\ i < k /\ f[n] # g[n]}
  <2>1. D = {}
    <3> SUFFICES ASSUME D # {} PROVE FALSE
      OBVIOUS
    <3>1. PICK i \in D : \A j \in D : ~(<<j, i>> \in OpToRel(<, Nat))
      BY NatLessThanWellFounded, WFMin
    <3>2. \A j \in D : ~(j < i)
      BY <3>1 DEF OpToRel
    <3>3. PICK n \in P : rank[n] = i /\ i < k /\ f[n] # g[n]
      OBVIOUS
    <3>4. \A m \in P : rank[m] < rank[n] => f[m] = g[m]
      BY <3>2, <3>3
    <3>5. G[f][n] = G[g][n]
      BY <3>4
    <3> QED BY <1>4, <3>3, <3>5
  <2> QED BY <2>1
<1> DEFINE Near(n) == CHOOSE f \in F : Right(f, rank[n] + 1)
           h == [n \in P |-> Near(n)[n]]
<1>5. \A n \in P : Near(n) \in F /\ Right(Near(n), rank[n] + 1)
  <2> TAKE n \in P
  <2>1. rank[n] + 1 \in Nat
    OBVIOUS
  <2>2. \E f \in F : Right(f, rank[n] + 1)
    BY <1>3, <2>1
  <2> HIDE DEF F, Right
  <2> QED BY <2>2
<1> HIDE DEF Near
<1>6. h \in F
  BY <1>5
<1>7. ASSUME NEW n \in P PROVE h[n] = G[h][n]
  <2> DEFINE f == Near(n)
  <2>1. f \in F /\ Right(f, rank[n] + 1) /\ h[n] = f[n]
    BY <1>5
  <2> HIDE DEF f
  <2>2. ASSUME NEW m \in P, rank[m] < rank[n] PROVE h[m] = f[m]
    <3>1. Near(m) \in F /\ Right(Near(m), rank[m] + 1) /\ h[m] = Near(m)[m]
      BY <1>5
    <3>2. Right(f, rank[m] + 1)
      BY <2>1, <2>2
    <3> HIDE DEF Right, h
    <3>3. rank[m] + 1 \in Nat /\ rank[m] < rank[m] + 1
      OBVIOUS
    <3> QED BY <1>4, <2>1, <3>1, <3>2, <3>3
  <2>3. G[h][n] = G[f][n]
    <3> HIDE DEF h
    <3> QED BY <1>6, <2>1, <2>2
  <2>4. f[n] = G[f][n]
    BY <2>1
  <2> QED BY <2>1, <2>3, <2>4
<1>8. h = G[h]
  <2>1. G[h] \in F
    BY <1>6
  <2> HIDE DEF h
  <2> QED BY <1>6, <1>7, <2>1
<1> QED BY <1>6, <1>8

-----------------------------------------------------------------------------
(* Iterators.                                                              *)

\* The entries below a node, and those that come after it and before it.
Sub(t, n) == IF n = Nil THEN {} ELSE {e \in Entry(t) : Contains(n, e)}
After(t, n) == {e \in Entry(t) : Less(n, e)}
Before(t, n) == {e \in Entry(t) : Less(e, n)}
IsLeast(S, x) == IF S = {} THEN x = Nil ELSE x \in S /\ \A y \in S : y = x \/ Less(x, y)
IsGreatest(S, x) == IF S = {} THEN x = Nil ELSE x \in S /\ \A y \in S : y = x \/ Less(y, x)

\* Children are less high than their parent.
Height(t) == [n \in Places(t) |-> IF n = Nil THEN 0 ELSE W + 1 - n.len]
LEMMA HeightIs ==
  ASSUME Laws, NEW t, Shape(t.root, t.kids)
  PROVE  /\ Height(t) \in [Places(t) -> Nat]
         /\ \A n \in DOMAIN t.kids, b \in BOOLEAN :
               n \in Places(t) /\ n # Nil /\ t.kids[n][b] \in Places(t) /\ Height(t)[t.kids[n][b]] < Height(t)[n]
<1>1. W \in Nat /\ Nil \in Places(t) /\ \A n \in DOMAIN t.kids : n \in Prefix /\ n.len \in 0..W /\ n # Nil /\ n \in Places(t)
  BY NilIsNone DEF Places, Shape, Laws, Lengths
<1>2. ASSUME NEW n \in Places(t) PROVE (IF n = Nil THEN 0 ELSE W + 1 - n.len) \in Nat
  BY <1>1 DEF Places
<1>3. Height(t) \in [Places(t) -> Nat]
  BY <1>2 DEF Height
<1>4. ASSUME NEW n \in DOMAIN t.kids, NEW b \in BOOLEAN
      PROVE  t.kids[n][b] \in Places(t) /\ Height(t)[t.kids[n][b]] < Height(t)[n]
  <2>1. Height(t)[n] = W + 1 - n.len /\ Height(t)[n] > 0
    BY <1>1 DEF Height
  <2>2. CASE t.kids[n][b] = Nil
    <3>1. Height(t)[Nil] = 0
      BY <1>1 DEF Height
    <3> QED BY <1>1, <2>1, <2>2, <3>1
  <2>3. CASE t.kids[n][b] # Nil
    <3>1. t.kids[n][b] \in DOMAIN t.kids /\ n.len < t.kids[n][b].len
      BY <2>3, KidIs DEF Under
    <3> DEFINE k == t.kids[n][b]
    <3>2. Height(t)[k] = W + 1 - k.len
      BY <1>1, <3>1 DEF Height
    <3> HIDE DEF k
    <3> QED BY <1>1, <2>1, <3>1, <3>2 DEF k
  <2> QED BY <2>2, <2>3
<1> QED BY <1>1, <1>3, <1>4

\* What is below a node comes before what comes after it and is not below it.
LEMMA Beyond ==
  ASSUME Laws, NEW m \in Prefix, NEW x \in Prefix, NEW e \in Prefix,
         Contains(m, x), Less(m, e), ~Contains(m, e)
  PROVE  Less(x, e)
<1>1. ~Contains(e, m)
  <2>1. m # e
    BY DEF Laws, Containment
  <2> QED BY <2>1 DEF Laws, Sorting
<1> DEFINE d == DiffBit(m, e)
           c == New(m.net, d)
<1>2. Parts(m, e, d)
  <2>1. d \in Int /\ (d < 0 => Contains(m, e) \/ Contains(e, m)) /\ (d >= 0 => Parts(m, e, d))
    BY DEF Laws, Partings
  <2> HIDE DEF d
  <2> QED BY <1>1, <2>1
<1>3. /\ d \in 0..W /\ d < m.len /\ d < e.len /\ Bit(m, d) # Bit(e, d)
      /\ c \in Prefix /\ c.len = d /\ Contains(c, m) /\ Contains(c, e)
  BY <1>2 DEF Parts
<1> HIDE DEF d, c
<1>4. m.len \in 0..W /\ x.len \in 0..W /\ e.len \in 0..W /\ m.len <= x.len
  BY DEF Laws, Lengths, Containment
<1>5. Contains(c, x) /\ Bit(m, d) = Bit(x, d) /\ Bit(m, d) \in BOOLEAN /\ Bit(e, d) \in BOOLEAN /\ Bit(x, d) \in BOOLEAN
  BY <1>3 DEF Laws, Containment, Bits
<1>6. c.len < m.len /\ c.len < x.len /\ c.len < e.len
  BY <1>3, <1>4
<1>7. \A p, q \in Prefix : /\ Contains(c, p) /\ c.len < p.len /\ ~Bit(p, c.len)
                           /\ Contains(c, q) /\ c.len < q.len /\ Bit(q, c.len)
                           => Less(p, q)
  BY <1>3 DEF Laws, Sorting
<1>8. ~Less(e, m)
  BY DEF Laws, Sorting
<1> QED BY <1>3, <1>5, <1>6, <1>7, <1>8

\* The entries below a node: itself, then those below its first child, then
\* those below the second one.
LEMMA SubIs ==
  ASSUME Laws, NEW t, Good(t), NEW n \in DOMAIN t.kids
  PROVE  /\ Sub(t, n) = (Entry(t) \cap {n}) \cup Sub(t, t.kids[n][FALSE]) \cup Sub(t, t.kids[n][TRUE])
         /\ \A b \in BOOLEAN : \A e \in Sub(t, t.kids[n][b]) : Less(n, e) /\ e # n
         /\ \A e \in Sub(t, t.kids[n][FALSE]), d \in Sub(t, t.kids[n][TRUE]) : Less(e, d)
<1>0. /\ Shape(t.root, t.kids) /\ Entry(t) \subseteq DOMAIN t.kids /\ DOMAIN t.kids \subseteq Prefix
      /\ Nil \notin DOMAIN t.kids
      /\ n \in Prefix /\ n # Nil /\ n.len \in 0..W
  BY NilIsNone DEF Good, Shape, Counted, Entry, Laws, Lengths
<1>1. ASSUME NEW b \in BOOLEAN, NEW e \in Sub(t, t.kids[n][b])
      PROVE  e \in Entry(t) /\ e \in Prefix /\ Contains(n, e) /\ n.len < e.len /\ e.len \in 0..W /\ e # n /\ Bit(e, n.len) = b
  <2> DEFINE k == t.kids[n][b]
  <2>1. k # Nil /\ e \in Entry(t) /\ Contains(k, e)
    BY DEF Sub
  <2>2. k \in Under(DOMAIN t.kids, n, b)
    BY <1>0, <2>1, KidIs
  <2> HIDE DEF k
  <2>3. k \in Prefix /\ e \in Prefix /\ n.len < k.len /\ Contains(n, k) /\ Bit(k, n.len) = b
    BY <1>0, <2>1, <2>2 DEF Under
  <2>4. k.len \in 0..W /\ e.len \in 0..W /\ k.len <= e.len /\ Contains(n, e)
    BY <1>0, <2>1, <2>3 DEF Laws, Containment, Lengths
  <2>5. Bit(k, n.len) = Bit(e, n.len)
    BY <1>0, <2>1, <2>3 DEF Laws, Bits
  <2> QED BY <1>0, <2>1, <2>3, <2>4, <2>5
<1>2. Sub(t, n) \subseteq (Entry(t) \cap {n}) \cup Sub(t, t.kids[n][FALSE]) \cup Sub(t, t.kids[n][TRUE])
  <2> SUFFICES ASSUME NEW e \in Entry(t), Contains(n, e), e # n
               PROVE  e \in Sub(t, t.kids[n][FALSE]) \cup Sub(t, t.kids[n][TRUE])
    BY DEF Sub
  <2>1. /\ Bit(e, n.len) \in BOOLEAN /\ t.kids[n][Bit(e, n.len)] \in Under(DOMAIN t.kids, n, Bit(e, n.len))
        /\ Contains(t.kids[n][Bit(e, n.len)], e)
    BY <1>0, Descend
  <2>2. t.kids[n][Bit(e, n.len)] # Nil
    BY <1>0, <2>1 DEF Under
  <2>3. e \in Sub(t, t.kids[n][Bit(e, n.len)])
    BY <2>1, <2>2 DEF Sub
  <2> QED BY <2>1, <2>3
<1>3. (Entry(t) \cap {n}) \cup Sub(t, t.kids[n][FALSE]) \cup Sub(t, t.kids[n][TRUE]) \subseteq Sub(t, n)
  <2>1. Contains(n, n)
    BY <1>0 DEF Laws, Containment
  <2> QED BY <1>0, <1>1, <2>1 DEF Sub
<1>4. ASSUME NEW b \in BOOLEAN, NEW e \in Sub(t, t.kids[n][b]) PROVE Less(n, e) /\ e # n
  BY <1>0, <1>1 DEF Laws, Sorting
<1>5. ASSUME NEW e \in Sub(t, t.kids[n][FALSE]), NEW d \in Sub(t, t.kids[n][TRUE]) PROVE Less(e, d)
  <2>1. Contains(n, e) /\ n.len < e.len /\ ~Bit(e, n.len) /\ e \in Prefix
    BY <1>1
  <2>2. Contains(n, d) /\ n.len < d.len /\ Bit(d, n.len) /\ d \in Prefix
    BY <1>1
  <2> QED BY <1>0, <2>1, <2>2 DEF Laws, Sorting
<1> QED BY <1>2, <1>3, <1>4, <1>5

FirstStep(t, f, n) ==
  IF n = Nil \/ n \in Entry(t) THEN n
  ELSE LET left == f[t.kids[n][FALSE]]
       IN  IF left # Nil THEN left ELSE f[t.kids[n][TRUE]]
IsFirst(t, f) == f = [n \in Places(t) |-> FirstStep(t, f, n)]

LEMMA FirstExists ==
  ASSUME Laws, NEW t, Shape(t.root, t.kids)
  PROVE  /\ \E f \in [Places(t) -> Places(t)] : IsFirst(t, f)
         /\ \A n : First(t, n) = (CHOOSE f : IsFirst(t, f))[n]
<1> DEFINE P == Places(t)
           G == [f \in [P -> P] |-> [n \in P |-> FirstStep(t, f, n)]]
<1>1. \A n : First(t, n) = (CHOOSE f : IsFirst(t, f))[n]
  BY DEF First, IsFirst, FirstStep
<1>2. /\ Height(t) \in [P -> Nat]
      /\ \A n \in P, b \in BOOLEAN : n # Nil => t.kids[n][b] \in P /\ Height(t)[t.kids[n][b]] < Height(t)[n]
  BY HeightIs DEF Places
<1>3. ASSUME NEW f \in [P -> P], NEW n \in P PROVE FirstStep(t, f, n) \in P
  BY <1>2 DEF FirstStep
<1>4. G \in [[P -> P] -> [P -> P]]
  BY <1>3
<1>5. ASSUME NEW f \in [P -> P], NEW g \in [P -> P], NEW n \in P,
             \A m \in P : Height(t)[m] < Height(t)[n] => f[m] = g[m]
      PROVE  G[f][n] = G[g][n]
  <2>1. FirstStep(t, f, n) = FirstStep(t, g, n)
    BY <1>2, <1>5 DEF FirstStep
  <2> QED BY <2>1
<1>6. [P -> P] # {}
  <2>1. [n \in P |-> n] \in [P -> P]
    OBVIOUS
  <2> QED BY <2>1
<1>7. \A f \in [P -> P] : G[f] = [n \in P |-> FirstStep(t, f, n)]
  OBVIOUS
<1> HIDE DEF P, G
<1>8. \E f \in [P -> P] : f = G[f]
  <2>1. Recursion(P, P, G, Height(t))
    BY <1>2, <1>4, <1>5, <1>6 DEF Recursion
  <2> QED BY <2>1, FixedPoint
<1> QED BY <1>1, <1>7, <1>8 DEF IsFirst, P

\* There are entries below every node.
LEMMA SubNotEmpty ==
  ASSUME Laws, NEW t, Good(t), NEW n \in DOMAIN t.kids
  PROVE  Sub(t, n) # {}
<1> DEFINE S == {m \in DOMAIN t.kids : Contains(n, m)}
<1>0. /\ Shape(t.root, t.kids) /\ DOMAIN t.kids \subseteq Prefix /\ Nil \notin DOMAIN t.kids
  BY NilIsNone DEF Good, Shape
<1>1. n \in S /\ S \in SUBSET Prefix
  BY <1>0 DEF Laws, Containment
<1>2. PICK m \in S : \A k \in S : k.len <= m.len
  BY <1>1, LongestOf
<1>3. CASE m \in Entry(t)
  BY <1>0, <1>2, <1>3 DEF Sub
<1>4. CASE m \notin Entry(t)
  <2>1. t.kids[m][TRUE] # Nil
    BY <1>4 DEF Good, Compressed, Entry
  <2>2. t.kids[m][TRUE] \in Under(DOMAIN t.kids, m, TRUE)
    BY <1>0, <2>1, KidIs
  <2> DEFINE k == t.kids[m][TRUE]
  <2> HIDE DEF k
  <2>3. k \in DOMAIN t.kids /\ Contains(m, k) /\ m.len < k.len
    BY <2>2 DEF Under, k
  <2>4. k \in S /\ k.len \in 0..W /\ m.len \in 0..W
    BY <1>0, <2>3 DEF Laws, Containment, Lengths
  <2> QED BY <1>2, <2>3, <2>4
<1> QED BY <1>3, <1>4

\* The first entry below a node is the least one.
LEMMA FirstIs ==
  ASSUME Laws, NEW t, Good(t), NEW n \in Places(t)
  PROVE  IsLeast(Sub(t, n), First(t, n))
<1> DEFINE f == CHOOSE g : IsFirst(t, g)
<1>0. /\ Shape(t.root, t.kids) /\ DOMAIN t.kids \subseteq Prefix /\ Nil \notin DOMAIN t.kids
      /\ Entry(t) \subseteq DOMAIN t.kids /\ Entry(t) \subseteq Prefix
  BY NilIsNone DEF Good, Shape, Counted, Entry
<1>1. IsFirst(t, f) /\ First(t, n) = f[n]
  BY <1>0, FirstExists
<1> HIDE DEF f
<1>2. \A m \in Places(t) : f[m] = FirstStep(t, f, m)
  BY <1>1 DEF IsFirst
<1>3. IsLeast(Sub(t, Nil), f[Nil])
  BY <1>2 DEF FirstStep, Sub, IsLeast, Places
<1> DEFINE S == {m \in DOMAIN t.kids : ~IsLeast(Sub(t, m), f[m])}
<1>4. S = {}
  <2> SUFFICES ASSUME S # {} PROVE FALSE
    OBVIOUS
  <2>1. PICK m \in S : \A k \in S : k.len <= m.len
    BY <1>0, LongestOf
  <2>2. m \in DOMAIN t.kids /\ m \in Places(t) /\ m # Nil /\ Sub(t, m) # {} /\ m.len \in 0..W
    BY <1>0, SubNotEmpty DEF Places, Laws, Lengths
  <2>3. f[m] = FirstStep(t, f, m)
    BY <1>2, <2>2
  <2>4. /\ Sub(t, m) = (Entry(t) \cap {m}) \cup Sub(t, t.kids[m][FALSE]) \cup Sub(t, t.kids[m][TRUE])
        /\ \A b \in BOOLEAN : \A e \in Sub(t, t.kids[m][b]) : Less(m, e) /\ e # m
        /\ \A e \in Sub(t, t.kids[m][FALSE]), d \in Sub(t, t.kids[m][TRUE]) : Less(e, d)
    BY <2>2, SubIs
  <2>5. CASE m \in Entry(t)
    <3>1. f[m] = m
      BY <2>3, <2>5 DEF FirstStep
    <3>2. IsLeast(Sub(t, m), m)
      BY <2>2, <2>4, <2>5 DEF IsLeast
    <3> QED BY <3>1, <3>2
  <2>6. CASE m \notin Entry(t)
    <3> DEFINE k == t.kids[m][FALSE]
    <3>1. k # Nil
      BY <2>2, <2>6 DEF Good, Compressed, Entry
    <3>2. k \in Under(DOMAIN t.kids, m, FALSE)
      BY <1>0, <2>2, <3>1, KidIs
    <3> HIDE DEF k
    <3>3. k \in DOMAIN t.kids /\ m.len < k.len /\ k.len \in 0..W
      BY <1>0, <3>2 DEF Under, Laws, Lengths
    <3>4. k \notin S
      BY <2>1, <2>2, <3>3
    <3>5. IsLeast(Sub(t, k), f[k]) /\ Sub(t, k) # {}
      BY <3>3, <3>4, SubNotEmpty
    <3>6. f[k] \in Sub(t, k) /\ f[k] # Nil
      BY <1>0, <3>5 DEF IsLeast, Sub
    <3>7. f[m] = f[k]
      BY <2>2, <2>3, <2>6, <3>6 DEF FirstStep, k
    <3>8. Sub(t, m) = Sub(t, k) \cup Sub(t, t.kids[m][TRUE])
      BY <2>4, <2>6 DEF k
    <3>9. \A e \in Sub(t, k), d \in Sub(t, t.kids[m][TRUE]) : Less(e, d)
      BY <2>4 DEF k
    <3>10. IsLeast(Sub(t, m), f[k])
      BY <2>2, <3>5, <3>6, <3>8, <3>9 DEF IsLeast
    <3> QED BY <3>7, <3>10
  <2> QED BY <2>1, <2>5, <2>6
<1> QED BY <1>1, <1>3, <1>4 DEF Places

LastStep(t, f, n) ==
  IF n = Nil THEN Nil
  ELSE LET right == f[t.kids[n][TRUE]]
           left == f[t.kids[n][FALSE]]
       IN  CASE right # Nil -> right
             [] right = Nil /\ left # Nil -> left
             [] OTHER -> IF n \in Entry(t) THEN n ELSE Nil
IsLast(t, f) == f = [n \in Places(t) |-> LastStep(t, f, n)]

LEMMA LastExists ==
  ASSUME Laws, NEW t, Shape(t.root, t.kids)
  PROVE  /\ \E f \in [Places(t) -> Places(t)] : IsLast(t, f)
         /\ \A n : LastNode(t, n) = (CHOOSE f : IsLast(t, f))[n]
<1> DEFINE P == Places(t)
           G == [f \in [P -> P] |-> [n \in P |-> LastStep(t, f, n)]]
<1>1. \A n : LastNode(t, n) = (CHOOSE f : IsLast(t, f))[n]
  BY DEF LastNode, IsLast, LastStep
<1>2. /\ Height(t) \in [P -> Nat] /\ Nil \in P
      /\ \A n \in P, b \in BOOLEAN : n # Nil => t.kids[n][b] \in P /\ Height(t)[t.kids[n][b]] < Height(t)[n]
  BY HeightIs DEF Places
<1>3. ASSUME NEW f \in [P -> P], NEW n \in P PROVE LastStep(t, f, n) \in P
  BY <1>2 DEF LastStep
<1>4. G \in [[P -> P] -> [P -> P]]
  BY <1>3
<1>5. ASSUME NEW f \in [P -> P], NEW g \in [P -> P], NEW n \in P,
             \A m \in P : Height(t)[m] < Height(t)[n] => f[m] = g[m]
      PROVE  G[f][n] = G[g][n]
  <2>1. LastStep(t, f, n) = LastStep(t, g, n)
    BY <1>2, <1>5 DEF LastStep
  <2> QED BY <2>1
<1>6. [P -> P] # {}
  <2>1. [n \in P |-> n] \in [P -> P]
    OBVIOUS
  <2> QED BY <2>1
<1>7. \A f \in [P -> P] : G[f] = [n \in P |-> LastStep(t, f, n)]
  OBVIOUS
<1> HIDE DEF P, G
<1>8. \E f \in [P -> P] : f = G[f]
  <2>1. Recursion(P, P, G, Height(t))
    BY <1>2, <1>4, <1>5, <1>6 DEF Recursion
  <2> QED BY <2>1, FixedPoint
<1> QED BY <1>1, <1>7, <1>8 DEF IsLast, P

\* The last entry below a node is the greatest one.
LEMMA LastIs ==
  ASSUME Laws, NEW t, Good(t), NEW n \in Places(t)
  PROVE  IsGreatest(Sub(t, n), LastNode(t, n))
<1> DEFINE f == CHOOSE g : IsLast(t, g)
<1>0. /\ Shape(t.root, t.kids) /\ DOMAIN t.kids \subseteq Prefix /\ Nil \notin DOMAIN t.kids
      /\ Entry(t) \subseteq DOMAIN t.kids /\ Entry(t) \subseteq Prefix
  BY NilIsNone DEF Good, Shape, Counted, Entry
<1>1. IsLast(t, f) /\ LastNode(t, n) = f[n]
  BY <1>0, LastExists
<1> HIDE DEF f
<1>2. \A m \in Places(t) : f[m] = LastStep(t, f, m)
  BY <1>1 DEF IsLast
<1>3. IsGreatest(Sub(t, Nil), f[Nil])
  BY <1>2 DEF LastStep, Sub, IsGreatest, Places
<1> DEFINE S == {m \in DOMAIN t.kids : ~IsGreatest(Sub(t, m), f[m])}
<1>4. S = {}
  <2> SUFFICES ASSUME S # {} PROVE FALSE
    OBVIOUS
  <2>1. PICK m \in S : \A k \in S : k.len <= m.len
    BY <1>0, LongestOf
  <2>2. m \in DOMAIN t.kids /\ m \in Places(t) /\ m # Nil /\ Sub(t, m) # {} /\ m.len \in 0..W
    BY <1>0, SubNotEmpty DEF Places, Laws, Lengths
  <2>3. f[m] = LastStep(t, f, m)
    BY <1>2, <2>2
  <2>4. /\ Sub(t, m) = (Entry(t) \cap {m}) \cup Sub(t, t.kids[m][FALSE]) \cup Sub(t, t.kids[m][TRUE])
        /\ \A b \in BOOLEAN : \A e \in Sub(t, t.kids[m][b]) : Less(m, e) /\ e # m
        /\ \A e \in Sub(t, t.kids[m][FALSE]), d \in Sub(t, t.kids[m][TRUE]) : Less(e, d)
    BY <2>2, SubIs
  <2>5. ASSUME NEW b \in BOOLEAN
        PROVE  /\ IsGreatest(Sub(t, t.kids[m][b]), f[t.kids[m][b]])
               /\ f[t.kids[m][b]] = Nil <=> Sub(t, t.kids[m][b]) = {}
    <3> DEFINE k == t.kids[m][b]
    <3>1. CASE k = Nil
      BY <1>3, <3>1 DEF Sub, IsGreatest
    <3>2. CASE k # Nil
      <4>1. k \in Under(DOMAIN t.kids, m, b)
        BY <1>0, <2>2, <3>2, KidIs
      <4> HIDE DEF k
      <4>2. k \in DOMAIN t.kids /\ m.len < k.len /\ k.len \in 0..W
        BY <1>0, <4>1 DEF Under, Laws, Lengths
      <4>3. k \notin S
        BY <2>1, <2>2, <4>2
      <4>4. IsGreatest(Sub(t, k), f[k]) /\ Sub(t, k) # {}
        BY <4>2, <4>3, SubNotEmpty
      <4>5. f[k] # Nil
        BY <1>0, <4>4 DEF IsGreatest, Sub
      <4> QED BY <4>4, <4>5 DEF k
    <3> QED BY <3>1, <3>2
  <2> DEFINE L == Sub(t, t.kids[m][FALSE])
             R == Sub(t, t.kids[m][TRUE])
             left == f[t.kids[m][FALSE]]
             right == f[t.kids[m][TRUE]]
  <2>6. /\ IsGreatest(L, left) /\ (left = Nil <=> L = {})
        /\ IsGreatest(R, right) /\ (right = Nil <=> R = {})
    BY <2>5
  <2>7. f[m] = CASE right # Nil -> right
                 [] right = Nil /\ left # Nil -> left
                 [] OTHER -> IF m \in Entry(t) THEN m ELSE Nil
    BY <2>2, <2>3 DEF LastStep
  <2>8. /\ Sub(t, m) = (Entry(t) \cap {m}) \cup L \cup R
        /\ \A e \in L : Less(m, e) /\ e # m
        /\ \A e \in R : Less(m, e) /\ e # m
        /\ \A e \in L, d \in R : Less(e, d)
    BY <2>4
  <2> HIDE DEF L, R, left, right
  <2>9. IsGreatest(Sub(t, m), f[m])
    <3>1. CASE right # Nil
      <4>1. f[m] = right /\ right \in R /\ \A y \in R : y = right \/ Less(y, right)
        BY <2>6, <2>7, <3>1 DEF IsGreatest
      <4> QED BY <2>2, <2>8, <4>1 DEF IsGreatest
    <3>2. CASE right = Nil /\ left # Nil
      <4>1. f[m] = left /\ left \in L /\ R = {} /\ \A y \in L : y = left \/ Less(y, left)
        BY <2>6, <2>7, <3>2 DEF IsGreatest
      <4> QED BY <2>2, <2>8, <4>1 DEF IsGreatest
    <3>3. CASE right = Nil /\ left = Nil
      <4>1. R = {} /\ L = {} /\ Sub(t, m) = {m} /\ m \in Entry(t)
        BY <2>2, <2>6, <2>8, <3>3
      <4>2. f[m] = m
        BY <2>7, <3>3, <4>1
      <4> QED BY <4>1, <4>2 DEF IsGreatest
    <3> QED BY <3>1, <3>2, <3>3
  <2> QED BY <2>1, <2>9
<1> QED BY <1>1, <1>3, <1>4 DEF Places

LEMMA ShortestOf ==
  ASSUME Laws, NEW S \in SUBSET Prefix, S # {}
  PROVE  \E m \in S : \A n \in S : m.len <= n.len
<1> DEFINE lens == {n.len : n \in S}
<1>0. \A n \in S : n.len \in 0..W /\ W \in Nat
  BY DEF Laws, Lengths
<1>1. lens \in SUBSET Nat /\ lens # {}
  BY <1>0
<1>2. PICK k \in lens : \A i \in lens : ~(<<i, k>> \in OpToRel(<, Nat))
  BY <1>1, NatLessThanWellFounded, WFMin
<1>3. \A i \in lens : ~(i < k)
  BY <1>1, <1>2 DEF OpToRel
<1>4. PICK m \in S : k = m.len
  OBVIOUS
<1>5. \A n \in S : m.len <= n.len
  <2> TAKE n \in S
  <2>1. n.len \in lens /\ ~(n.len < m.len)
    BY <1>3, <1>4
  <2> QED BY <2>1, <1>0
<1> QED BY <1>5

\* In a trie that iterators walk, only the root has no parent.
LEMMA UpIs ==
  ASSUME Laws, NEW t, Good(t), Iterable(t), NEW n \in DOMAIN t.kids
  PROVE  /\ t.up[n] = Nil <=> n = t.root
         /\ t.up[n] # Nil => /\ t.up[n] \in DOMAIN t.kids
                             /\ t.up[n].len < n.len /\ Contains(t.up[n], n) /\ Less(t.up[n], n)
                             /\ \E b \in BOOLEAN : t.kids[t.up[n]][b] = n
<1>0. /\ Shape(t.root, t.kids) /\ UpsRight(t.kids, t.up) /\ DOMAIN t.kids \subseteq Prefix /\ Nil \notin DOMAIN t.kids
  BY NilIsNone DEF Good, Shape
<1>1. n = t.root <=> ~\E m \in DOMAIN t.kids, b \in BOOLEAN : t.kids[m][b] = n
  BY <1>0, HasParent
<1>2. t.up[n] \in DOMAIN t.kids \cup {Nil} /\ (t.up[n] # Nil => \E b \in BOOLEAN : t.kids[t.up[n]][b] = n)
  BY <1>0 DEF UpsRight
<1>3. \A m \in DOMAIN t.kids, b \in BOOLEAN : t.kids[m][b] = n => t.up[n] = m
  BY <1>0 DEF Iterable, Kids
<1>4. t.up[n] = Nil <=> n = t.root
  BY <1>0, <1>1, <1>2, <1>3
<1>5. ASSUME t.up[n] # Nil PROVE t.up[n].len < n.len /\ Contains(t.up[n], n) /\ Less(t.up[n], n)
  <2> DEFINE u == t.up[n]
  <2>1. PICK b \in BOOLEAN : t.kids[u][b] = n
    BY <1>2, <1>5
  <2>2. u \in DOMAIN t.kids /\ n # Nil
    BY <1>0, <1>2, <1>5
  <2> HIDE DEF u
  <2>3. n \in Under(DOMAIN t.kids, u, b)
    BY <1>0, <2>1, <2>2, KidIs
  <2>4. u.len < n.len /\ Contains(u, n) /\ u \in Prefix /\ n \in Prefix /\ u.len \in 0..W /\ n.len \in 0..W
    BY <1>0, <2>2, <2>3 DEF Under, Laws, Lengths
  <2>5. u # n
    BY <2>4
  <2>6. Less(u, n)
    BY <2>4, <2>5 DEF Laws, Sorting
  <2> QED BY <2>4, <2>6 DEF u
<1> QED BY <1>2, <1>4, <1>5

AfterStep(t, f, n) ==
  LET up == t.up[n]
      right == t.kids[up][TRUE]
  IN  IF up = Nil THEN Nil
      ELSE IF t.kids[up][FALSE] = n /\ right # Nil THEN First(t, right)
      ELSE f[up]
IsAfter(t, f) == f = [n \in DOMAIN t.kids |-> AfterStep(t, f, n)]

Depth(t) == [n \in DOMAIN t.kids |-> n.len]
LEMMA DepthIs ==
  ASSUME Laws, NEW t, Good(t), Iterable(t)
  PROVE  /\ Depth(t) \in [DOMAIN t.kids -> Nat]
         /\ \A n \in DOMAIN t.kids : t.up[n] # Nil => t.up[n] \in DOMAIN t.kids /\ Depth(t)[t.up[n]] < Depth(t)[n]
<1>1. \A n \in DOMAIN t.kids : n.len \in Nat
  BY DEF Good, Shape, Laws, Lengths
<1>2. \A n \in DOMAIN t.kids : t.up[n] # Nil => t.up[n] \in DOMAIN t.kids /\ t.up[n].len < n.len
  BY UpIs
<1> QED BY <1>1, <1>2 DEF Depth

LEMMA AfterExists ==
  ASSUME Laws, NEW t, Good(t), Iterable(t)
  PROVE  /\ \E f : IsAfter(t, f)
         /\ \A n : FirstAfter(t, n) = (CHOOSE f : IsAfter(t, f))[n]
<1> DEFINE P == DOMAIN t.kids
           V == Places(t)
           G == [f \in [P -> V] |-> [n \in P |-> AfterStep(t, f, n)]]
<1>0. Shape(t.root, t.kids) /\ Nil \in V /\ P \subseteq V
  BY DEF Good, Places
<1>1. \A n : FirstAfter(t, n) = (CHOOSE f : IsAfter(t, f))[n]
  BY DEF FirstAfter, IsAfter, AfterStep
<1>2. \A n \in V : First(t, n) \in V
  <2> TAKE n \in V
  <2>1. IsLeast(Sub(t, n), First(t, n))
    BY FirstIs
  <2>2. Sub(t, n) \subseteq V
    BY <1>0 DEF Sub, Good, Counted, Entry
  <2> QED BY <1>0, <2>1, <2>2 DEF IsLeast
<1>3. \A n \in P, b \in BOOLEAN : t.kids[n][b] \in V
  BY <1>0 DEF Shape, Places
<1>4. Depth(t) \in [P -> Nat] /\ \A n \in P : t.up[n] # Nil => t.up[n] \in P /\ Depth(t)[t.up[n]] < Depth(t)[n]
  BY DepthIs
<1>5. ASSUME NEW f \in [P -> V], NEW n \in P PROVE AfterStep(t, f, n) \in V
  BY <1>0, <1>2, <1>3, <1>4 DEF AfterStep
<1>6. ASSUME NEW f \in [P -> V], NEW g \in [P -> V], NEW n \in P,
             \A m \in P : Depth(t)[m] < Depth(t)[n] => f[m] = g[m]
      PROVE  G[f][n] = G[g][n]
  <2>1. AfterStep(t, f, n) = AfterStep(t, g, n)
    BY <1>4, <1>6 DEF AfterStep
  <2> QED BY <2>1
<1>7. G \in [[P -> V] -> [P -> V]] /\ \A f \in [P -> V] : G[f] = [n \in P |-> AfterStep(t, f, n)]
  BY <1>5
<1>8. [P -> V] # {}
  <2>1. [n \in P |-> Nil] \in [P -> V]
    BY <1>0
  <2> QED BY <2>1
<1> HIDE DEF P, V, G
<1>9. Recursion(P, V, G, Depth(t))
  BY <1>4, <1>6, <1>7, <1>8 DEF Recursion
<1>10. \E f \in [P -> V] : f = G[f]
  BY <1>9, FixedPoint
<1>11. PICK f \in [P -> V] : f = G[f]
  BY <1>10
<1>12. IsAfter(t, f)
  BY <1>7, <1>11 DEF IsAfter, P
<1> QED BY <1>1, <1>12

\* The entries that come after a node and are not below it.
Later(t, n) == {e \in Entry(t) : Less(n, e) /\ ~Contains(n, e)}

LEMMA LaterIs ==
  ASSUME Laws, NEW t, Good(t), Iterable(t), NEW n \in DOMAIN t.kids, NEW u, u = t.up[n]
  PROVE  /\ u = Nil => Later(t, n) = {}
         /\ u # Nil => /\ t.kids[u][FALSE] = n => Later(t, n) = Sub(t, t.kids[u][TRUE]) \cup Later(t, u)
                       /\ t.kids[u][FALSE] # n => Later(t, n) = Later(t, u)
                       /\ \A e \in Sub(t, t.kids[u][TRUE]), d \in Later(t, u) : Less(e, d)
<1>0. /\ Shape(t.root, t.kids) /\ DOMAIN t.kids \subseteq Prefix /\ Nil \notin DOMAIN t.kids
      /\ Entry(t) \subseteq DOMAIN t.kids /\ Entry(t) \subseteq Prefix /\ n \in Prefix
  BY NilIsNone DEF Good, Shape, Counted, Entry
<1>1. CASE u = Nil
  <2>1. n = t.root
    BY <1>1, UpIs
  <2>2. \A e \in Entry(t) : Contains(n, e)
    BY <1>0, <2>1 DEF Shape, IsTop
  <2> QED BY <1>1, <2>2 DEF Later
<1>2. CASE u # Nil
  <2>1. /\ u \in DOMAIN t.kids /\ Contains(u, n) /\ Less(u, n) /\ u \in Prefix
        /\ \E b \in BOOLEAN : t.kids[u][b] = n
    BY <1>0, <1>2, UpIs
  <2>2. n # Nil
    BY <1>0
  <2>3. /\ Sub(t, u) = (Entry(t) \cap {u}) \cup Sub(t, t.kids[u][FALSE]) \cup Sub(t, t.kids[u][TRUE])
        /\ \A b \in BOOLEAN : \A e \in Sub(t, t.kids[u][b]) : Less(u, e) /\ e # u
        /\ \A e \in Sub(t, t.kids[u][FALSE]), d \in Sub(t, t.kids[u][TRUE]) : Less(e, d)
    BY <2>1, SubIs, Zenon
  \* What is later than the parent is later than all below it.
  <2>4. ASSUME NEW e \in Later(t, u) PROVE e \in Later(t, n) /\ \A x \in Prefix : Contains(u, x) => Less(x, e)
    <3>1. e \in Entry(t) /\ e \in Prefix /\ Less(u, e) /\ ~Contains(u, e)
      BY <1>0 DEF Later
    <3>2. \A x \in Prefix : Contains(u, x) => Less(x, e)
      BY <2>1, <3>1, Beyond
    <3>3. ~Contains(n, e)
      BY <1>0, <2>1, <3>1 DEF Laws, Containment
    <3> QED BY <1>0, <2>1, <3>1, <3>2, <3>3 DEF Later
  <2>5. ASSUME NEW e \in Later(t, n), e \notin Later(t, u)
        PROVE  e \in Sub(t, t.kids[u][TRUE]) /\ n = t.kids[u][FALSE]
    <3>1. e \in Entry(t) /\ e \in Prefix /\ Less(n, e) /\ ~Contains(n, e)
      BY <1>0 DEF Later
    <3>2. Less(u, e)
      BY <1>0, <2>1, <3>1 DEF Laws, Sorting
    <3>3. Contains(u, e) /\ e # u
      <4>1. ~Less(u, u)
        BY <2>1 DEF Laws, Sorting
      <4> QED BY <2>5, <3>1, <3>2, <4>1 DEF Later
    <3>4. e \in Sub(t, u)
      BY <1>2, <3>1, <3>3 DEF Sub
    <3>5. e \in Sub(t, t.kids[u][FALSE]) \cup Sub(t, t.kids[u][TRUE])
      BY <2>3, <3>3, <3>4
    <3>6. e \notin Sub(t, n)
      BY <3>1 DEF Sub
    <3>7. Sub(t, n) # {} /\ \A x \in Sub(t, n) : Contains(n, x) /\ x \in Prefix
      BY <1>0, SubNotEmpty DEF Sub
    <3>8. PICK b \in BOOLEAN : t.kids[u][b] = n
      BY <2>1
    <3>9. CASE b = TRUE
      \* What is below the other child comes before.
      <4>1. e \in Sub(t, t.kids[u][FALSE])
        BY <3>5, <3>6, <3>8, <3>9
      <4>2. PICK x \in Sub(t, n) : TRUE
        BY <3>7
      <4>3. Less(e, x)
        BY <2>3, <3>8, <3>9, <4>1, <4>2
      <4>4. Less(x, e)
        BY <1>0, <3>1, <3>7, <4>2, Beyond
      <4> QED BY <3>1, <3>7, <4>2, <4>3, <4>4 DEF Laws, Sorting
    <3>10. CASE b = FALSE
      BY <3>5, <3>6, <3>8, <3>10
    <3> QED BY <3>9, <3>10
  <2>6. ASSUME n = t.kids[u][FALSE], NEW e \in Sub(t, t.kids[u][TRUE])
        PROVE  e \in Later(t, n)
    <3>1. e \in Entry(t) /\ e \in Prefix
      BY <1>0 DEF Sub
    <3>2. Sub(t, n) # {} /\ \A x \in Sub(t, n) : Contains(n, x) /\ x \in Prefix
      BY <1>0, SubNotEmpty DEF Sub
    <3>3. PICK x \in Sub(t, n) : TRUE
      BY <3>2
    <3>4. \A y \in Sub(t, n) : Less(y, e)
      BY <2>3, <2>6
    <3>5. n = x \/ Less(n, x)
      BY <1>0, <3>2, <3>3 DEF Laws, Sorting
    <3>6. Less(n, e)
      BY <1>0, <3>1, <3>2, <3>3, <3>4, <3>5 DEF Laws, Sorting
    <3>7. ~Contains(n, e)
      <4> SUFFICES ASSUME Contains(n, e) PROVE FALSE
        OBVIOUS
      <4>1. e \in Sub(t, n)
        BY <2>2, <3>1 DEF Sub
      <4>2. Less(e, e)
        BY <3>4, <4>1
      <4> QED BY <3>1, <4>2 DEF Laws, Sorting
    <3> QED BY <3>1, <3>6, <3>7 DEF Later
  <2>7. ASSUME NEW e \in Sub(t, t.kids[u][TRUE]), NEW d \in Later(t, u) PROVE Less(e, d)
    <3>1. e \in Sub(t, u)
      BY <2>3
    <3>2. e \in Prefix /\ Contains(u, e)
      BY <1>0, <1>2, <3>1 DEF Sub
    <3> QED BY <2>4, <3>2
  <2>8. t.kids[u][FALSE] = n => Later(t, n) = Sub(t, t.kids[u][TRUE]) \cup Later(t, u)
    BY <2>4, <2>5, <2>6
  <2>9. t.kids[u][FALSE] # n => Later(t, n) = Later(t, u)
    BY <2>4, <2>5
  <2> QED BY <1>2, <2>7, <2>8, <2>9
<1> QED BY <1>1, <1>2

\* FirstAfter() is the least entry that comes later.
LEMMA FirstAfterIs ==
  ASSUME Laws, NEW t, Good(t), Iterable(t), NEW n \in DOMAIN t.kids
  PROVE  IsLeast(Later(t, n), FirstAfter(t, n))
<1> DEFINE f == CHOOSE g : IsAfter(t, g)
<1>0. /\ Shape(t.root, t.kids) /\ DOMAIN t.kids \subseteq Prefix /\ Nil \notin DOMAIN t.kids
      /\ Entry(t) \subseteq DOMAIN t.kids /\ Entry(t) \subseteq Prefix
  BY NilIsNone DEF Good, Shape, Counted, Entry
<1>1. IsAfter(t, f) /\ FirstAfter(t, n) = f[n]
  BY AfterExists
<1> HIDE DEF f
<1>2. \A m \in DOMAIN t.kids : f[m] = AfterStep(t, f, m)
  BY <1>1 DEF IsAfter
<1> DEFINE S == {m \in DOMAIN t.kids : ~IsLeast(Later(t, m), f[m])}
<1>3. S = {}
  <2> SUFFICES ASSUME S # {} PROVE FALSE
    OBVIOUS
  <2>1. PICK m \in S : \A k \in S : m.len <= k.len
    BY <1>0, ShortestOf
  <2> DEFINE u == t.up[m]
             right == t.kids[u][TRUE]
  <2>2. m \in DOMAIN t.kids /\ f[m] = AfterStep(t, f, m) /\ ~IsLeast(Later(t, m), f[m])
    BY <1>2
  <2>3. /\ u = Nil => Later(t, m) = {}
        /\ u # Nil => /\ t.kids[u][FALSE] = m => Later(t, m) = Sub(t, right) \cup Later(t, u)
                      /\ t.kids[u][FALSE] # m => Later(t, m) = Later(t, u)
                      /\ \A e \in Sub(t, right), d \in Later(t, u) : Less(e, d)
    BY <2>2, LaterIs
  <2>4. u # Nil => u \in DOMAIN t.kids /\ u.len < m.len
    BY <2>2, UpIs
  <2>5. f[m] = IF u = Nil THEN Nil
               ELSE IF t.kids[u][FALSE] = m /\ right # Nil THEN First(t, right) ELSE f[u]
    BY <2>2 DEF AfterStep
  <2>6. u # Nil => IsLeast(Later(t, u), f[u]) /\ right \in Places(t)
    <3> SUFFICES ASSUME u # Nil PROVE IsLeast(Later(t, u), f[u]) /\ right \in Places(t)
      OBVIOUS
    <3>1. u \in DOMAIN t.kids /\ u.len < m.len /\ u.len \in 0..W /\ m.len \in 0..W
      BY <1>0, <2>2, <2>4 DEF Laws, Lengths
    <3>2. u \notin S
      <4> HIDE DEF u
      <4> QED BY <2>1, <3>1
    <3>3. right \in Places(t)
      BY <1>0, <3>1 DEF Shape, Places
    <3> QED BY <3>1, <3>2, <3>3
  <2> HIDE DEF u, right
  <2>7. CASE u = Nil
    BY <2>2, <2>3, <2>5, <2>7 DEF IsLeast
  <2>8. CASE u # Nil /\ t.kids[u][FALSE] = m /\ right # Nil
    <3>1. IsLeast(Sub(t, right), First(t, right)) /\ Sub(t, right) # {}
      BY <2>6, <2>8, FirstIs, SubNotEmpty DEF Places
    <3>2. First(t, right) \in Sub(t, right) /\ \A y \in Sub(t, right) : y = First(t, right) \/ Less(First(t, right), y)
      BY <3>1 DEF IsLeast
    <3>3. IsLeast(Later(t, m), First(t, right))
      BY <2>3, <2>8, <3>2 DEF IsLeast
    <3> QED BY <2>2, <2>5, <2>8, <3>3
  <2>9. CASE u # Nil /\ ~(t.kids[u][FALSE] = m /\ right # Nil)
    <3>1. Later(t, m) = Later(t, u)
      BY <2>3, <2>9 DEF Sub
    <3> QED BY <2>2, <2>5, <2>6, <2>9, <3>1
  <2> QED BY <2>7, <2>8, <2>9
<1> QED BY <1>1, <1>3

\* ++ goes to the next entry.
LEMMA SuccessorIs ==
  ASSUME Laws, NEW t, Good(t), Iterable(t), NEW n \in DOMAIN t.kids
  PROVE  IsLeast(After(t, n), Successor(t, n))
<1> DEFINE l == t.kids[n][FALSE]
           r == t.kids[n][TRUE]
<1>0. /\ Shape(t.root, t.kids) /\ DOMAIN t.kids \subseteq Prefix /\ Nil \notin DOMAIN t.kids
      /\ Entry(t) \subseteq DOMAIN t.kids /\ Entry(t) \subseteq Prefix /\ n \in Prefix
      /\ l \in Places(t) /\ r \in Places(t)
  BY NilIsNone DEF Good, Shape, Counted, Entry, Places
<1>1. /\ Sub(t, n) = (Entry(t) \cap {n}) \cup Sub(t, l) \cup Sub(t, r)
      /\ \A e \in Sub(t, l) : Less(n, e) /\ e # n
      /\ \A e \in Sub(t, r) : Less(n, e) /\ e # n
      /\ \A e \in Sub(t, l), d \in Sub(t, r) : Less(e, d)
  BY SubIs
<1>2. /\ IsLeast(Sub(t, l), First(t, l)) /\ (l = Nil <=> Sub(t, l) = {})
      /\ IsLeast(Sub(t, r), First(t, r)) /\ (r = Nil <=> Sub(t, r) = {})
  <2>1. \A k \in Places(t) : k = Nil <=> Sub(t, k) = {}
    BY SubNotEmpty DEF Sub, Places
  <2> QED BY <1>0, <2>1, FirstIs
<1>3. IsLeast(Later(t, n), FirstAfter(t, n))
  BY FirstAfterIs
<1>4. Successor(t, n) = CASE First(t, l) # Nil -> First(t, l)
                          [] First(t, l) = Nil /\ First(t, r) # Nil -> First(t, r)
                          [] OTHER -> FirstAfter(t, n)
  BY DEF Successor
<1>5. After(t, n) = Sub(t, l) \cup Sub(t, r) \cup Later(t, n)
  <2>1. \A e \in After(t, n) : e \in Later(t, n) \/ (e \in Sub(t, n) /\ e # n)
    <3>1. ~Less(n, n)
      BY <1>0 DEF Laws, Sorting
    <3> QED BY <1>0, <3>1 DEF After, Later, Sub
  <2>2. \A e \in Later(t, n) : e \in After(t, n)
    BY DEF Later, After
  <2>3. \A e \in Sub(t, l) \cup Sub(t, r) : e \in After(t, n)
    BY <1>1 DEF After, Sub
  <2> QED BY <1>1, <2>1, <2>2, <2>3
<1>6. \A e \in Sub(t, l) \cup Sub(t, r), d \in Later(t, n) : Less(e, d)
  <2> TAKE e \in Sub(t, l) \cup Sub(t, r), d \in Later(t, n)
  <2>1. e \in Sub(t, n) /\ n # Nil
    BY <1>0, <1>1
  <2>2. e \in Prefix /\ d \in Prefix /\ Contains(n, e) /\ Less(n, d) /\ ~Contains(n, d)
    BY <1>0, <2>1 DEF Sub, Later
  <2> QED BY <1>0, <2>2, Beyond
<1>7. \A e \in Sub(t, l) \cup Sub(t, r) : e # Nil
  BY <1>0 DEF Sub
<1> HIDE DEF l, r
<1>8. CASE Sub(t, l) # {}
  <2>1. First(t, l) \in Sub(t, l) /\ First(t, l) # Nil /\ \A y \in Sub(t, l) : y = First(t, l) \/ Less(First(t, l), y)
    BY <1>2, <1>7, <1>8 DEF IsLeast
  <2>2. Successor(t, n) = First(t, l)
    BY <1>4, <2>1
  <2>3. IsLeast(After(t, n), First(t, l))
    BY <1>1, <1>5, <1>6, <2>1 DEF IsLeast
  <2> QED BY <2>2, <2>3
<1>9. CASE Sub(t, l) = {} /\ Sub(t, r) # {}
  <2>1. First(t, r) \in Sub(t, r) /\ First(t, r) # Nil /\ \A y \in Sub(t, r) : y = First(t, r) \/ Less(First(t, r), y)
    BY <1>2, <1>7, <1>9 DEF IsLeast
  <2>2. First(t, l) = Nil
    BY <1>2, <1>9 DEF IsLeast
  <2>3. Successor(t, n) = First(t, r)
    BY <1>4, <2>1, <2>2
  <2>4. IsLeast(After(t, n), First(t, r))
    BY <1>1, <1>5, <1>6, <1>9, <2>1 DEF IsLeast
  <2> QED BY <2>3, <2>4
<1>10. CASE Sub(t, l) = {} /\ Sub(t, r) = {}
  <2>1. First(t, l) = Nil /\ First(t, r) = Nil
    BY <1>2, <1>10 DEF IsLeast
  <2>2. Successor(t, n) = FirstAfter(t, n) /\ After(t, n) = Later(t, n)
    BY <1>4, <1>5, <1>10, <2>1
  <2> QED BY <1>3, <2>2
<1> QED BY <1>8, <1>9, <1>10

BeforeStep(t, f, n) ==
  LET up == t.up[n]
  IN  CASE up = Nil -> Nil
        [] up # Nil /\ t.kids[up][TRUE] = n /\ t.kids[up][FALSE] # Nil -> LastNode(t, t.kids[up][FALSE])
        [] OTHER -> IF up \in Entry(t) THEN up ELSE f[up]
IsBefore(t, f) == f = [n \in DOMAIN t.kids |-> BeforeStep(t, f, n)]

LEMMA BeforeExists ==
  ASSUME Laws, NEW t, Good(t), Iterable(t)
  PROVE  /\ \E f : IsBefore(t, f)
         /\ \A n : Predecessor(t, n) = (CHOOSE f : IsBefore(t, f))[n]
<1> DEFINE P == DOMAIN t.kids
           V == Places(t)
           G == [f \in [P -> V] |-> [n \in P |-> BeforeStep(t, f, n)]]
<1>0. Shape(t.root, t.kids) /\ Nil \in V /\ P \subseteq V
  BY DEF Good, Places
<1>1. \A n : Predecessor(t, n) = (CHOOSE f : IsBefore(t, f))[n]
  BY DEF Predecessor, IsBefore, BeforeStep
<1>2. \A n \in V : LastNode(t, n) \in V
  <2> TAKE n \in V
  <2>1. IsGreatest(Sub(t, n), LastNode(t, n))
    BY LastIs
  <2>2. Sub(t, n) \subseteq V
    BY <1>0 DEF Sub, Good, Counted, Entry
  <2> QED BY <1>0, <2>1, <2>2 DEF IsGreatest
<1>3. \A n \in P, b \in BOOLEAN : t.kids[n][b] \in V
  BY <1>0 DEF Shape, Places
<1>4. Depth(t) \in [P -> Nat] /\ \A n \in P : t.up[n] # Nil => t.up[n] \in P /\ Depth(t)[t.up[n]] < Depth(t)[n]
  BY DepthIs
<1>5. ASSUME NEW f \in [P -> V], NEW n \in P PROVE BeforeStep(t, f, n) \in V
  BY <1>0, <1>2, <1>3, <1>4 DEF BeforeStep
<1>6. ASSUME NEW f \in [P -> V], NEW g \in [P -> V], NEW n \in P,
             \A m \in P : Depth(t)[m] < Depth(t)[n] => f[m] = g[m]
      PROVE  G[f][n] = G[g][n]
  <2>1. BeforeStep(t, f, n) = BeforeStep(t, g, n)
    BY <1>4, <1>6 DEF BeforeStep
  <2> QED BY <2>1
<1>7. G \in [[P -> V] -> [P -> V]] /\ \A f \in [P -> V] : G[f] = [n \in P |-> BeforeStep(t, f, n)]
  BY <1>5
<1>8. [P -> V] # {}
  <2>1. [n \in P |-> Nil] \in [P -> V]
    BY <1>0
  <2> QED BY <2>1
<1> HIDE DEF P, V, G
<1>9. Recursion(P, V, G, Depth(t))
  BY <1>4, <1>6, <1>7, <1>8 DEF Recursion
<1>10. \E f \in [P -> V] : f = G[f]
  BY <1>9, FixedPoint
<1>11. PICK f \in [P -> V] : f = G[f]
  BY <1>10
<1>12. IsBefore(t, f)
  BY <1>7, <1>11 DEF IsBefore, P
<1> QED BY <1>1, <1>12

LEMMA BeforeIs ==
  ASSUME Laws, NEW t, Good(t), Iterable(t), NEW n \in DOMAIN t.kids, NEW u, u = t.up[n]
  PROVE  /\ u = Nil => Before(t, n) = {}
         /\ u # Nil => /\ t.kids[u][TRUE] = n => Before(t, n) = Sub(t, t.kids[u][FALSE]) \cup (Entry(t) \cap {u}) \cup Before(t, u)
                       /\ t.kids[u][TRUE] # n => Before(t, n) = (Entry(t) \cap {u}) \cup Before(t, u)
                       /\ \A e \in Sub(t, t.kids[u][FALSE]) : Less(u, e) /\ \A d \in Before(t, u) : Less(d, e)
<1>0. /\ Shape(t.root, t.kids) /\ DOMAIN t.kids \subseteq Prefix /\ Nil \notin DOMAIN t.kids
      /\ Entry(t) \subseteq DOMAIN t.kids /\ Entry(t) \subseteq Prefix /\ n \in Prefix
  BY NilIsNone DEF Good, Shape, Counted, Entry
<1>1. CASE u = Nil
  <2>1. n = t.root
    BY <1>1, UpIs
  <2>2. \A e \in Entry(t) : Contains(n, e)
    BY <1>0, <2>1 DEF Shape, IsTop
  <2>3. \A e \in Entry(t) : ~Less(e, n)
    BY <1>0, <2>2 DEF Laws, Sorting
  <2> QED BY <1>1, <2>3 DEF Before
<1>2. CASE u # Nil
  <2>1. /\ u \in DOMAIN t.kids /\ Contains(u, n) /\ Less(u, n) /\ u \in Prefix
        /\ \E b \in BOOLEAN : t.kids[u][b] = n
    BY <1>0, <1>2, UpIs
  <2>2. n # Nil
    BY <1>0
  <2>3. /\ Sub(t, u) = (Entry(t) \cap {u}) \cup Sub(t, t.kids[u][FALSE]) \cup Sub(t, t.kids[u][TRUE])
        /\ \A b \in BOOLEAN : \A e \in Sub(t, t.kids[u][b]) : Less(u, e) /\ e # u
        /\ \A e \in Sub(t, t.kids[u][FALSE]), d \in Sub(t, t.kids[u][TRUE]) : Less(e, d)
    BY <2>1, SubIs
  <2>4. Sub(t, n) # {} /\ \A x \in Sub(t, n) : x \in Entry(t) /\ Contains(n, x) /\ x \in Prefix /\ ~Less(x, n)
    BY <1>0, SubNotEmpty DEF Sub, Laws, Sorting
  <2>5. (Entry(t) \cap {u}) \cup Before(t, u) \subseteq Before(t, n)
    BY <1>0, <2>1 DEF Before, Laws, Sorting
  <2>6. ASSUME NEW e \in Before(t, n), e \notin Before(t, u), e # u
        PROVE  e \in Sub(t, t.kids[u][FALSE]) /\ n = t.kids[u][TRUE]
    <3>1. e \in Entry(t) /\ e \in Prefix /\ Less(e, n) /\ ~Less(e, u)
      BY <1>0, <2>6 DEF Before
    <3>2. Less(u, e)
      BY <2>1, <2>6, <3>1 DEF Laws, Sorting
    <3>3. Contains(u, e)
      <4> SUFFICES ASSUME ~Contains(u, e) PROVE FALSE
        OBVIOUS
      <4>1. Less(n, e)
        BY <1>0, <2>1, <3>1, <3>2, Beyond
      <4> QED BY <1>0, <3>1, <4>1 DEF Laws, Sorting
    <3>4. e \in Sub(t, t.kids[u][FALSE]) \cup Sub(t, t.kids[u][TRUE])
      BY <1>2, <2>3, <2>6, <3>1, <3>3 DEF Sub
    <3>5. e \notin Sub(t, n)
      BY <2>4, <3>1
    <3>6. PICK b \in BOOLEAN : t.kids[u][b] = n
      BY <2>1
    <3>7. CASE b = FALSE
      \* What is below the other child comes later.
      <4>1. e \in Sub(t, t.kids[u][TRUE])
        BY <3>4, <3>5, <3>6, <3>7
      <4>2. PICK x \in Sub(t, n) : TRUE
        BY <2>4
      <4>3. Less(x, e)
        BY <2>3, <3>6, <3>7, <4>1, <4>2
      <4>4. Less(x, n)
        BY <1>0, <2>4, <3>1, <4>2, <4>3 DEF Laws, Sorting
      <4> QED BY <2>4, <4>2, <4>4
    <3>8. CASE b = TRUE
      BY <3>4, <3>5, <3>6, <3>8
    <3> QED BY <3>7, <3>8
  <2>7. ASSUME n = t.kids[u][TRUE], NEW e \in Sub(t, t.kids[u][FALSE])
        PROVE  e \in Before(t, n)
    <3>1. e \in Entry(t) /\ e \in Prefix
      BY <1>0 DEF Sub
    <3>2. \A y \in Sub(t, n) : Less(e, y)
      BY <2>3, <2>7
    <3>3. ~Contains(n, e)
      <4> SUFFICES ASSUME Contains(n, e) PROVE FALSE
        OBVIOUS
      <4>1. e \in Sub(t, n)
        BY <2>2, <3>1 DEF Sub
      <4>2. Less(e, e)
        BY <3>2, <4>1
      <4> QED BY <3>1, <4>2 DEF Laws, Sorting
    <3>4. ~Less(n, e)
      <4> SUFFICES ASSUME Less(n, e) PROVE FALSE
        OBVIOUS
      <4>1. PICK y \in Sub(t, n) : TRUE
        BY <2>4
      <4>2. Less(y, e)
        BY <1>0, <2>4, <3>1, <3>3, <4>1, Beyond
      <4>3. Less(e, y)
        BY <3>2, <4>1
      <4> QED BY <2>4, <3>1, <4>1, <4>2, <4>3 DEF Laws, Sorting
    <3>5. n # e
      BY <1>0, <3>3 DEF Laws, Containment
    <3>6. Less(e, n)
      BY <1>0, <3>1, <3>4, <3>5 DEF Laws, Sorting
    <3> QED BY <3>1, <3>6 DEF Before
  <2>8. ASSUME NEW e \in Sub(t, t.kids[u][FALSE]) PROVE Less(u, e) /\ \A d \in Before(t, u) : Less(d, e)
    <3>1. Less(u, e) /\ e \in Prefix
      BY <1>0, <2>3 DEF Sub
    <3>2. \A d \in Before(t, u) : d \in Prefix /\ Less(d, u)
      BY <1>0 DEF Before
    <3> QED BY <2>1, <3>1, <3>2 DEF Laws, Sorting
  <2>9. t.kids[u][TRUE] = n => Before(t, n) = Sub(t, t.kids[u][FALSE]) \cup (Entry(t) \cap {u}) \cup Before(t, u)
    <3>1. Before(t, n) \subseteq Entry(t)
      BY DEF Before
    <3> QED BY <2>5, <2>6, <2>7, <3>1
  <2>10. t.kids[u][TRUE] # n => Before(t, n) = (Entry(t) \cap {u}) \cup Before(t, u)
    <3>1. Before(t, n) \subseteq Entry(t)
      BY DEF Before
    <3> QED BY <2>5, <2>6, <3>1
  <2> QED BY <1>2, <2>8, <2>9, <2>10
<1> QED BY <1>1, <1>2

\* -- goes to the previous entry.
LEMMA PredecessorIs ==
  ASSUME Laws, NEW t, Good(t), Iterable(t), NEW n \in DOMAIN t.kids
  PROVE  IsGreatest(Before(t, n), Predecessor(t, n))
<1> DEFINE f == CHOOSE g : IsBefore(t, g)
<1>0. /\ Shape(t.root, t.kids) /\ DOMAIN t.kids \subseteq Prefix /\ Nil \notin DOMAIN t.kids
      /\ Entry(t) \subseteq DOMAIN t.kids /\ Entry(t) \subseteq Prefix
  BY NilIsNone DEF Good, Shape, Counted, Entry
<1>1. IsBefore(t, f) /\ Predecessor(t, n) = f[n]
  BY BeforeExists
<1> HIDE DEF f
<1>2. \A m \in DOMAIN t.kids : f[m] = BeforeStep(t, f, m)
  BY <1>1 DEF IsBefore
<1> DEFINE S == {m \in DOMAIN t.kids : ~IsGreatest(Before(t, m), f[m])}
<1>3. S = {}
  <2> SUFFICES ASSUME S # {} PROVE FALSE
    OBVIOUS
  <2>1. PICK m \in S : \A k \in S : m.len <= k.len
    BY <1>0, ShortestOf
  <2> DEFINE u == t.up[m]
             left == t.kids[u][FALSE]
  <2>2. m \in DOMAIN t.kids /\ f[m] = BeforeStep(t, f, m) /\ ~IsGreatest(Before(t, m), f[m])
    BY <1>2
  <2>3. /\ u = Nil => Before(t, m) = {}
        /\ u # Nil => /\ t.kids[u][TRUE] = m => Before(t, m) = Sub(t, left) \cup (Entry(t) \cap {u}) \cup Before(t, u)
                      /\ t.kids[u][TRUE] # m => Before(t, m) = (Entry(t) \cap {u}) \cup Before(t, u)
                      /\ \A e \in Sub(t, left) : Less(u, e) /\ \A d \in Before(t, u) : Less(d, e)
    BY <2>2, BeforeIs
  <2>4. u # Nil => u \in DOMAIN t.kids /\ u.len < m.len
    BY <2>2, UpIs
  <2>5. f[m] = CASE u = Nil -> Nil
                 [] u # Nil /\ t.kids[u][TRUE] = m /\ left # Nil -> LastNode(t, left)
                 [] OTHER -> IF u \in Entry(t) THEN u ELSE f[u]
    BY <2>2 DEF BeforeStep
  <2>6. u # Nil => IsGreatest(Before(t, u), f[u]) /\ left \in Places(t)
    <3> SUFFICES ASSUME u # Nil PROVE IsGreatest(Before(t, u), f[u]) /\ left \in Places(t)
      OBVIOUS
    <3>1. u \in DOMAIN t.kids /\ u.len < m.len /\ u.len \in 0..W /\ m.len \in 0..W
      BY <1>0, <2>2, <2>4 DEF Laws, Lengths
    <3>2. u \notin S
      <4> HIDE DEF u
      <4> QED BY <2>1, <3>1
    <3>3. left \in Places(t)
      BY <1>0, <3>1 DEF Shape, Places
    <3> QED BY <3>1, <3>2, <3>3
  <2>7. \A d \in Before(t, u) : Less(d, u)
    BY DEF Before
  <2> HIDE DEF u, left
  <2>8. CASE u = Nil
    <3>1. f[m] = Nil
      BY <2>5, <2>8
    <3> QED BY <2>2, <2>3, <2>8, <3>1 DEF IsGreatest
  <2>9. CASE u # Nil /\ t.kids[u][TRUE] = m /\ left # Nil
    <3>1. IsGreatest(Sub(t, left), LastNode(t, left)) /\ Sub(t, left) # {}
      BY <2>6, <2>9, LastIs, SubNotEmpty DEF Places
    <3>2. LastNode(t, left) \in Sub(t, left) /\ \A y \in Sub(t, left) : y = LastNode(t, left) \/ Less(y, LastNode(t, left))
      BY <3>1 DEF IsGreatest
    <3>3. IsGreatest(Before(t, m), LastNode(t, left))
      BY <2>3, <2>9, <3>2 DEF IsGreatest
    <3>4. f[m] = LastNode(t, left)
      BY <2>5, <2>9
    <3> QED BY <2>2, <3>3, <3>4
  <2>10. CASE u # Nil /\ ~(t.kids[u][TRUE] = m /\ left # Nil)
    <3>1. Before(t, m) = (Entry(t) \cap {u}) \cup Before(t, u)
      BY <2>3, <2>10 DEF Sub
    <3>2. f[m] = IF u \in Entry(t) THEN u ELSE f[u]
      BY <2>5, <2>10
    <3>3. IsGreatest(Before(t, m), f[m])
      BY <2>6, <2>7, <2>10, <3>1, <3>2 DEF IsGreatest
    <3> QED BY <2>2, <3>3
  <2> QED BY <2>8, <2>9, <2>10
<1> QED BY <1>1, <1>3

\* The order of a walk: forwards or backwards.
Prec(fwd, x, y) == IF fwd THEN Less(x, y) ELSE Less(y, x)

\* A sequence of all of a set, in the order of a walk.
Listed(s, S, fwd) ==
  /\ s \in Seq(S)
  /\ \A e \in S : \E i \in DOMAIN s : s[i] = e
  /\ \A i, j \in DOMAIN s : i < j => Prec(fwd, s[i], s[j])

LEMMA NoneListed == ASSUME NEW fwd PROVE Listed(<<>>, {}, fwd)
<1>1. <<>> \in Seq({}) /\ DOMAIN <<>> = {}
  OBVIOUS
<1> QED BY <1>1 DEF Listed

LEMMA ListedIs ==
  ASSUME NEW s, NEW S, NEW fwd, Listed(s, S, fwd)
  PROVE  s \in Seq(S) /\ Len(s) \in Nat /\ DOMAIN s = 1..Len(s) /\ \A i \in DOMAIN s : i \in Nat /\ s[i] \in S
<1>1. s \in Seq(S)
  BY DEF Listed
<1>2. Len(s) \in Nat /\ DOMAIN s = 1..Len(s)
  BY <1>1
<1> QED BY <1>1, <1>2

LEMMA OneMoreListed ==
  ASSUME NEW fwd, NEW S, NEW s, Listed(s, S, fwd), NEW x, \A y \in S : Prec(fwd, x, y), NEW s2, s2 = <<x>> \o s
  PROVE  Listed(s2, S \cup {x}, fwd)
<1>1. s \in Seq(S) /\ s \in Seq(S \cup {x}) /\ <<x>> \in Seq(S \cup {x}) /\ Len(<<x>>) = 1
      /\ DOMAIN s = 1..Len(s) /\ Len(s) \in Nat
  BY DEF Listed
<1>2. /\ s2 \in Seq(S \cup {x}) /\ Len(s2) = 1 + Len(s) /\ DOMAIN s2 = 1..(Len(s) + 1)
      /\ \A i \in 1..(Len(s) + 1) : s2[i] = IF i <= 1 THEN x ELSE s[i - 1]
  <2>1. s2 \in Seq(S \cup {x}) /\ Len(s2) = Len(<<x>>) + Len(s)
    BY <1>1, ConcatProperties
  <2>2. \A i \in 1..(Len(<<x>>) + Len(s)) : s2[i] = IF i <= Len(<<x>>) THEN <<x>>[i] ELSE s[i - Len(<<x>>)]
    BY <1>1, ConcatProperties
  <2>3. <<x>>[1] = x
    OBVIOUS
  <2>4. \A i \in 1..(1 + Len(s)) : s2[i] = IF i <= 1 THEN <<x>>[i] ELSE s[i - 1]
    BY <1>1, <2>2
  <2>5. ASSUME NEW i \in 1..(Len(s) + 1) PROVE s2[i] = IF i <= 1 THEN x ELSE s[i - 1]
    <3>1. CASE i <= 1
      BY <1>1, <2>3, <2>4, <3>1
    <3>2. CASE ~(i <= 1)
      BY <1>1, <2>4, <3>2
    <3> QED BY <3>1, <3>2
  <2>6. DOMAIN s2 = 1..Len(s2)
    BY <2>1
  <2> QED BY <1>1, <2>1, <2>5, <2>6
<1>3. ASSUME NEW e \in S \cup {x} PROVE \E i \in DOMAIN s2 : s2[i] = e
  <2>1. CASE e = x
    <3>1. 1 \in DOMAIN s2 /\ s2[1] = x
      BY <1>1, <1>2
    <3> QED BY <2>1, <3>1
  <2>2. CASE e \in S
    <3>1. PICK i \in DOMAIN s : s[i] = e
      BY <2>2 DEF Listed
    <3>2. i + 1 \in DOMAIN s2 /\ s2[i + 1] = s[(i + 1) - 1] /\ (i + 1) - 1 = i
      BY <1>1, <1>2
    <3> QED BY <3>1, <3>2
  <2> QED BY <2>1, <2>2
<1>4. ASSUME NEW i \in DOMAIN s2, NEW j \in DOMAIN s2, i < j PROVE Prec(fwd, s2[i], s2[j])
  <2>1. j - 1 \in DOMAIN s /\ s2[j] = s[j - 1] /\ s[j - 1] \in S
    BY <1>1, <1>2, <1>4
  <2>2. CASE i = 1
    BY <1>1, <1>2, <2>1, <2>2
  <2>3. CASE i # 1
    <3>1. i - 1 \in DOMAIN s /\ s2[i] = s[i - 1] /\ i - 1 < j - 1
      BY <1>1, <1>2, <1>4, <2>3
    <3> QED BY <2>1, <3>1 DEF Listed
  <2> QED BY <2>2, <2>3
<1> QED BY <1>2, <1>3, <1>4 DEF Listed

\* There is one list.
LEMMA ListIsOne ==
  ASSUME Laws, NEW S \in SUBSET Prefix, NEW fwd \in BOOLEAN, NEW s, NEW r, Listed(s, S, fwd), Listed(r, S, fwd)
  PROVE  s = r
<1>0. /\ \A x, y \in S : Prec(fwd, x, y) => ~Prec(fwd, y, x)
      /\ \A x, y, z \in S : Prec(fwd, x, y) /\ Prec(fwd, y, z) => Prec(fwd, x, z)
  BY DEF Laws, Sorting, Prec
<1> DEFINE Equal(a, b, k) == \A i \in DOMAIN a : i < k => i \in DOMAIN b /\ a[i] = b[i]
<1>1. ASSUME NEW a, NEW b, Listed(a, S, fwd), Listed(b, S, fwd), NEW k \in DOMAIN a, Equal(a, b, k), k \notin DOMAIN b
      PROVE  FALSE
  <2>1. a[k] \in S /\ k \in Nat /\ DOMAIN a = 1..Len(a) /\ DOMAIN b = 1..Len(b) /\ Len(a) \in Nat /\ Len(b) \in Nat
    BY <1>1, ListedIs
  <2>2. PICK j \in DOMAIN b : b[j] = a[k]
    BY <1>1, <2>1 DEF Listed
  <2>3. j < k /\ j \in DOMAIN a
    BY <1>1, <2>1
  <2>4. a[j] = a[k] /\ Prec(fwd, a[j], a[k])
    BY <1>1, <2>2, <2>3 DEF Listed
  <2> QED BY <1>0, <2>1, <2>4
<1>2. ASSUME NEW a, NEW b, Listed(a, S, fwd), Listed(b, S, fwd), NEW k \in DOMAIN a, Equal(a, b, k), k \in DOMAIN b
      PROVE  ~Prec(fwd, b[k], a[k])
  <2>1. a[k] \in S /\ b[k] \in S /\ k \in Nat /\ DOMAIN a = 1..Len(a) /\ DOMAIN b = 1..Len(b) /\ Len(a) \in Nat /\ Len(b) \in Nat
    BY <1>2, ListedIs
  <2>2. PICK j \in DOMAIN a : a[j] = b[k]
    BY <1>2, <2>1 DEF Listed
  <2>3. CASE j < k
    <3>1. b[j] = b[k] /\ j \in DOMAIN b
      BY <1>2, <2>2, <2>3
    <3>2. Prec(fwd, b[j], b[k])
      BY <1>2, <2>3, <3>1 DEF Listed
    <3> QED BY <1>0, <2>1, <3>1, <3>2
  <2>4. CASE j = k
    BY <1>0, <2>1, <2>2, <2>4
  <2>5. CASE j > k
    <3>1. Prec(fwd, a[k], a[j])
      BY <1>2, <2>1, <2>5 DEF Listed
    <3> QED BY <1>0, <2>1, <2>2, <3>1
  <2> QED BY <2>1, <2>3, <2>4, <2>5
<1>3. ASSUME NEW k \in Nat, Equal(s, r, k), Equal(r, s, k) PROVE Equal(s, r, k + 1) /\ Equal(r, s, k + 1)
  <2>0. DOMAIN s \subseteq Nat /\ DOMAIN r \subseteq Nat
    BY DEF Listed
  <2>1. k \in DOMAIN s <=> k \in DOMAIN r
    BY <1>1, <1>3
  <2>2. ASSUME k \in DOMAIN s PROVE s[k] = r[k]
    <3>1. ~Prec(fwd, r[k], s[k]) /\ ~Prec(fwd, s[k], r[k])
      BY <1>2, <1>3, <2>1, <2>2
    <3>2. s[k] \in S /\ r[k] \in S
      BY <2>1, <2>2 DEF Listed
    <3> QED BY <3>1, <3>2 DEF Laws, Sorting, Prec
  <2> QED BY <1>3, <2>0, <2>1, <2>2
<1> DEFINE K == {k \in Nat : ~(Equal(s, r, k) /\ Equal(r, s, k))}
<1>4. K = {}
  <2> SUFFICES ASSUME K # {} PROVE FALSE
    OBVIOUS
  <2>1. PICK k \in K : \A i \in K : ~(<<i, k>> \in OpToRel(<, Nat))
    BY NatLessThanWellFounded, WFMin
  <2>2. k \in Nat /\ ~(Equal(s, r, k) /\ Equal(r, s, k)) /\ \A i \in Nat : i < k => Equal(s, r, i) /\ Equal(r, s, i)
    BY <2>1 DEF OpToRel
  <2>3. k # 0
    <3>1. \A i \in DOMAIN s \cup DOMAIN r : ~(i < 0)
      BY DEF Listed
    <3> QED BY <2>2, <3>1
  <2>4. k - 1 \in Nat /\ k - 1 < k /\ (k - 1) + 1 = k
    BY <2>2, <2>3
  <2> HIDE DEF Equal, K
  <2>5. Equal(s, r, (k - 1) + 1) /\ Equal(r, s, (k - 1) + 1)
    BY <1>3, <2>2, <2>4
  <2> QED BY <2>2, <2>4, <2>5
<1>5. /\ s \in Seq(S) /\ r \in Seq(S) /\ DOMAIN s = 1..Len(s) /\ DOMAIN r = 1..Len(r) /\ Len(s) \in Nat /\ Len(r) \in Nat
  BY DEF Listed
<1>6. \A i \in DOMAIN s : i \in DOMAIN r /\ s[i] = r[i]
  <2> TAKE i \in DOMAIN s
  <2>1. i \in Nat /\ i + 1 \in Nat /\ i < i + 1
    BY <1>5
  <2>2. Equal(s, r, i + 1)
    <3> HIDE DEF Equal
    <3> QED BY <1>4, <2>1
  <2> QED BY <2>1, <2>2
<1>7. \A i \in DOMAIN r : i \in DOMAIN s
  <2> TAKE i \in DOMAIN r
  <2>1. i \in Nat /\ i + 1 \in Nat /\ i < i + 1
    BY <1>5
  <2>2. Equal(r, s, i + 1)
    <3> HIDE DEF Equal
    <3> QED BY <1>4, <2>1
  <2> QED BY <2>1, <2>2
<1>8. Len(s) = Len(r)
  <2>1. 1..Len(s) \subseteq 1..Len(r) /\ 1..Len(r) \subseteq 1..Len(s)
    BY <1>5, <1>6, <1>7
  <2> DEFINE m == Len(s)
             n == Len(r)
  <2>2. m \in Nat /\ n \in Nat /\ 1..m \subseteq 1..n /\ 1..n \subseteq 1..m
    BY <1>5, <2>1
  <2> HIDE DEF m, n
  <2>3. m <= n
    <3>1. CASE m = 0
      BY <2>2, <3>1
    <3>2. CASE m # 0
      <4>1. m \in 1..m
        BY <2>2, <3>2
      <4> QED BY <2>2, <4>1
    <3> QED BY <3>1, <3>2
  <2>4. n <= m
    <3>1. CASE n = 0
      BY <2>2, <3>1
    <3>2. CASE n # 0
      <4>1. n \in 1..n
        BY <2>2, <3>2
      <4> QED BY <2>2, <4>1
    <3> QED BY <3>1, <3>2
  <2>5. m = n
    BY <2>2, <2>3, <2>4
  <2> QED BY <2>5 DEF m, n
<1> QED BY <1>5, <1>6, <1>8, SeqEqual

Reversed(s) == [i \in DOMAIN s |-> s[Len(s) + 1 - i]]
LEMMA ReversedListed ==
  ASSUME NEW S, NEW s, Listed(s, S, FALSE)
  PROVE  Listed(Reversed(s), S, TRUE) /\ Reversed(Reversed(s)) = s
<1> DEFINE r == Reversed(s)
<1>1. s \in Seq(S) /\ DOMAIN s = 1..Len(s) /\ Len(s) \in Nat /\ \A i \in 1..Len(s) : s[i] \in S
  BY DEF Listed
<1>2. r = [i \in 1..Len(s) |-> s[Len(s) + 1 - i]]
  BY <1>1 DEF Reversed
<1>3. \A i \in 1..Len(s) : Len(s) + 1 - i \in 1..Len(s) /\ r[i] = s[Len(s) + 1 - i] /\ r[i] \in S
  BY <1>1, <1>2
<1>4. r \in Seq(S) /\ Len(r) = Len(s) /\ DOMAIN r = 1..Len(s)
  <2>1. r \in [1..Len(s) -> S]
    BY <1>2, <1>3
  <2> HIDE DEF r
  <2> QED BY <1>1, <2>1, LenProperties, SeqDef
<1> HIDE DEF r
<1>5. ASSUME NEW e \in S PROVE \E i \in DOMAIN r : r[i] = e
  <2>1. PICK j \in DOMAIN s : s[j] = e
    BY DEF Listed
  <2>2. Len(s) + 1 - j \in 1..Len(s) /\ Len(s) + 1 - (Len(s) + 1 - j) = j
    BY <1>1
  <2>3. r[Len(s) + 1 - j] = s[Len(s) + 1 - (Len(s) + 1 - j)]
    BY <1>3, <2>2
  <2> QED BY <1>4, <2>1, <2>2, <2>3
<1>6. ASSUME NEW i \in DOMAIN r, NEW j \in DOMAIN r, i < j PROVE Prec(TRUE, r[i], r[j])
  <2>1. /\ Len(s) + 1 - j < Len(s) + 1 - i /\ Len(s) + 1 - i \in DOMAIN s /\ Len(s) + 1 - j \in DOMAIN s
        /\ r[i] = s[Len(s) + 1 - i] /\ r[j] = s[Len(s) + 1 - j]
    BY <1>1, <1>3, <1>4, <1>6
  <2>2. Prec(FALSE, s[Len(s) + 1 - j], s[Len(s) + 1 - i])
    BY <2>1 DEF Listed
  <2> QED BY <2>1, <2>2 DEF Prec
<1>7. Reversed(r) = s
  <2>1. Reversed(r) = [i \in 1..Len(s) |-> r[Len(s) + 1 - i]]
    BY <1>4 DEF Reversed
  <2>2. \A i \in 1..Len(s) : r[Len(s) + 1 - i] = s[i]
    <3> TAKE i \in 1..Len(s)
    <3>1. Len(s) + 1 - i \in 1..Len(s) /\ Len(s) + 1 - (Len(s) + 1 - i) = i
      BY <1>1
    <3>2. r[Len(s) + 1 - i] = s[Len(s) + 1 - (Len(s) + 1 - i)]
      BY <1>3, <3>1
    <3> QED BY <3>1, <3>2
  <2>3. s = [i \in 1..Len(s) |-> s[i]]
    BY <1>1
  <2> QED BY <2>1, <2>2, <2>3
<1> QED BY <1>4, <1>5, <1>6, <1>7 DEF Listed, r

\* The walks: ++ from the first entry on, -- from the last one.
Follow(t, fwd, n) == IF fwd THEN Successor(t, n) ELSE Predecessor(t, n)
Rest(t, fwd, n) == IF n = Nil THEN {} ELSE {e \in Entry(t) : Prec(fwd, n, e)}
WalkStep(t, fwd, f, n) == IF n = Nil THEN <<>> ELSE <<n>> \o f[Follow(t, fwd, n)]
IsWalk(t, fwd, f) == f = [n \in Places(t) |-> WalkStep(t, fwd, f, n)]
Walk(t, fwd, top) == (CHOOSE f : IsWalk(t, fwd, f))[top]

LEMMA WalksAre ==
  ASSUME NEW t
  PROVE  /\ Entries(t) = Walk(t, TRUE, First(t, t.root))
         /\ ReverseEntries(t) = Walk(t, FALSE, LastNode(t, t.root))
<1>1. Entries(t) = Walk(t, TRUE, First(t, t.root))
  BY DEF Entries, Walk, IsWalk, WalkStep, Follow
<1>2. ReverseEntries(t) = Walk(t, FALSE, LastNode(t, t.root))
  BY DEF ReverseEntries, Walk, IsWalk, WalkStep, Follow
<1> QED BY <1>1, <1>2

\* A walk goes on to the nearest of the rest.
IsNearest(S, fwd, x) == IF S = {} THEN x = Nil ELSE x \in S /\ \A y \in S : y = x \/ Prec(fwd, x, y)
LEMMA FollowIs ==
  ASSUME Laws, NEW t, Good(t), Iterable(t), NEW n \in DOMAIN t.kids, NEW fwd \in BOOLEAN
  PROVE  IsNearest(Rest(t, fwd, n), fwd, Follow(t, fwd, n))
<1>0. n # Nil
  BY NilIsNone DEF Good, Shape
<1>1. CASE fwd = TRUE
  <2>1. IsLeast(After(t, n), Successor(t, n))
    BY SuccessorIs
  <2>2. Rest(t, fwd, n) = After(t, n) /\ Follow(t, fwd, n) = Successor(t, n)
    BY <1>0, <1>1 DEF Rest, After, Prec, Follow
  <2> QED BY <1>1, <2>1, <2>2 DEF IsLeast, IsNearest, Prec
<1>2. CASE fwd = FALSE
  <2>1. IsGreatest(Before(t, n), Predecessor(t, n))
    BY PredecessorIs
  <2>2. Rest(t, fwd, n) = Before(t, n) /\ Follow(t, fwd, n) = Predecessor(t, n)
    BY <1>0, <1>2 DEF Rest, Before, Prec, Follow
  <2> QED BY <1>2, <2>1, <2>2 DEF IsGreatest, IsNearest, Prec
<1> QED BY <1>1, <1>2

\* Less is left at each step.
Remaining(t, fwd) == [n \in Places(t) |-> IF n = Nil THEN 0 ELSE 1 + Cardinality(Rest(t, fwd, n))]
LEMMA RestShrinks ==
  ASSUME Laws, NEW t, Good(t), Iterable(t), NEW fwd \in BOOLEAN
  PROVE  /\ Remaining(t, fwd) \in [Places(t) -> Nat]
         /\ \A n \in DOMAIN t.kids :
               /\ Follow(t, fwd, n) \in Places(t)
               /\ Follow(t, fwd, n) # Nil => Follow(t, fwd, n) \in Rest(t, fwd, n)
               /\ Rest(t, fwd, n) = (IF Follow(t, fwd, n) = Nil THEN {} ELSE {Follow(t, fwd, n)}) \cup Rest(t, fwd, Follow(t, fwd, n))
               /\ Remaining(t, fwd)[Follow(t, fwd, n)] < Remaining(t, fwd)[n]
<1>0. /\ DOMAIN t.kids \subseteq Prefix /\ Nil \notin DOMAIN t.kids /\ Nil \in Places(t)
      /\ Entry(t) \subseteq DOMAIN t.kids /\ Entry(t) \subseteq Prefix /\ IsFiniteSet(Entry(t))
      /\ DOMAIN t.kids \subseteq Places(t)
  BY NilIsNone DEF Good, Shape, Counted, Entry, Places
<1>1. /\ \A x, y \in Prefix : Prec(fwd, x, y) => ~Prec(fwd, y, x)
      /\ \A x, y, z \in Prefix : Prec(fwd, x, y) /\ Prec(fwd, y, z) => Prec(fwd, x, z)
  BY DEF Laws, Sorting, Prec
<1>2. \A n : Rest(t, fwd, n) \subseteq Entry(t)
  BY DEF Rest
<1>3. \A n : IsFiniteSet(Rest(t, fwd, n)) /\ Cardinality(Rest(t, fwd, n)) \in Nat
  BY <1>0, <1>2, FS_Subset, FS_CardinalityType
<1>4. Remaining(t, fwd) \in [Places(t) -> Nat]
  BY <1>3 DEF Remaining
<1>5. ASSUME NEW n \in DOMAIN t.kids, NEW k, k = Follow(t, fwd, n)
      PROVE  /\ k \in Places(t)
             /\ k # Nil => k \in Rest(t, fwd, n)
             /\ Rest(t, fwd, n) = (IF k = Nil THEN {} ELSE {k}) \cup Rest(t, fwd, k)
             /\ Remaining(t, fwd)[k] < Remaining(t, fwd)[n]
  <2>1. IsNearest(Rest(t, fwd, n), fwd, k)
    BY <1>5, FollowIs
  <2>2. Remaining(t, fwd)[n] = 1 + Cardinality(Rest(t, fwd, n)) /\ n # Nil /\ n \in Prefix
    BY <1>0 DEF Remaining
  <2>3. CASE Rest(t, fwd, n) = {}
    <3>1. k = Nil
      BY <2>1, <2>3 DEF IsNearest
    <3>2. Remaining(t, fwd)[k] = 0 /\ Rest(t, fwd, k) = {}
      BY <1>0, <3>1 DEF Remaining, Rest
    <3> QED BY <1>0, <1>3, <2>2, <2>3, <3>1, <3>2
  <2>4. CASE Rest(t, fwd, n) # {}
    <3>1. k \in Rest(t, fwd, n) /\ \A y \in Rest(t, fwd, n) : y = k \/ Prec(fwd, k, y)
      BY <2>1, <2>4 DEF IsNearest
    <3>2. k \in Entry(t) /\ k \in Prefix /\ k # Nil /\ Prec(fwd, n, k)
      BY <1>0, <2>2, <3>1 DEF Rest
    <3>3. Rest(t, fwd, n) = {k} \cup Rest(t, fwd, k)
      <4>1. \A y \in Rest(t, fwd, k) : y \in Rest(t, fwd, n)
        BY <1>0, <1>1, <2>2, <3>2 DEF Rest
      <4>2. \A y \in Rest(t, fwd, n) : y = k \/ y \in Rest(t, fwd, k)
        BY <3>1, <3>2, <2>2 DEF Rest
      <4> QED BY <3>1, <4>1, <4>2
    <3>4. k \notin Rest(t, fwd, k)
      BY <1>1, <3>2 DEF Rest
    <3>5. Cardinality(Rest(t, fwd, n)) = Cardinality(Rest(t, fwd, k)) + 1
      <4>1. Cardinality(Rest(t, fwd, k) \cup {k}) = Cardinality(Rest(t, fwd, k)) + 1
        BY <1>3, <3>4, FS_AddElement
      <4>2. Rest(t, fwd, n) = Rest(t, fwd, k) \cup {k}
        BY <3>3
      <4> QED BY <4>1, <4>2
    <3>6. Remaining(t, fwd)[k] = 1 + Cardinality(Rest(t, fwd, k))
      BY <1>0, <3>2 DEF Remaining
    <3>7. Remaining(t, fwd)[k] < Remaining(t, fwd)[n]
      BY <1>3, <2>2, <3>5, <3>6
    <3> QED BY <1>0, <3>1, <3>2, <3>3, <3>7
  <2> QED BY <2>3, <2>4
<1> QED BY <1>4, <1>5

LEMMA WalkExists ==
  ASSUME Laws, NEW t, Good(t), Iterable(t), NEW fwd \in BOOLEAN
  PROVE  \E f : IsWalk(t, fwd, f)
<1> DEFINE P == Places(t)
           V == Seq(P)
           G == [f \in [P -> V] |-> [n \in P |-> WalkStep(t, fwd, f, n)]]
<1>1. /\ Remaining(t, fwd) \in [P -> Nat]
      /\ \A n \in P : n # Nil => Follow(t, fwd, n) \in P /\ Remaining(t, fwd)[Follow(t, fwd, n)] < Remaining(t, fwd)[n]
  BY RestShrinks DEF Places
<1>2. ASSUME NEW f \in [P -> V], NEW n \in P PROVE WalkStep(t, fwd, f, n) \in V
  <2>1. CASE n = Nil
    BY <2>1 DEF WalkStep
  <2>2. CASE n # Nil
    <3> DEFINE r == f[Follow(t, fwd, n)]
    <3>1. r \in Seq(P) /\ <<n>> \in Seq(P)
      BY <1>1, <2>2
    <3>2. WalkStep(t, fwd, f, n) = <<n>> \o r
      BY <2>2 DEF WalkStep
    <3> HIDE DEF r, P
    <3> QED BY <3>1, <3>2, ConcatProperties
  <2> QED BY <2>1, <2>2
<1>3. ASSUME NEW f \in [P -> V], NEW g \in [P -> V], NEW n \in P,
             \A m \in P : Remaining(t, fwd)[m] < Remaining(t, fwd)[n] => f[m] = g[m]
      PROVE  G[f][n] = G[g][n]
  <2>1. WalkStep(t, fwd, f, n) = WalkStep(t, fwd, g, n)
    BY <1>1, <1>3 DEF WalkStep
  <2> QED BY <2>1
<1>4. G \in [[P -> V] -> [P -> V]] /\ \A f \in [P -> V] : G[f] = [n \in P |-> WalkStep(t, fwd, f, n)]
  BY <1>2
<1>5. [P -> V] # {}
  <2>1. [n \in P |-> <<>>] \in [P -> V]
    OBVIOUS
  <2> QED BY <2>1
<1> HIDE DEF P, V, G
<1>6. Recursion(P, V, G, Remaining(t, fwd))
  BY <1>1, <1>3, <1>4, <1>5 DEF Recursion
<1>7. \E f \in [P -> V] : f = G[f]
  BY <1>6, FixedPoint
<1>8. PICK f \in [P -> V] : f = G[f]
  BY <1>7
<1>9. IsWalk(t, fwd, f)
  BY <1>4, <1>8 DEF IsWalk, P
<1> QED BY <1>9

\* A walk from an entry lists it and all that comes after it.
LEMMA WalkIs ==
  ASSUME Laws, NEW t, Good(t), Iterable(t), NEW fwd \in BOOLEAN, NEW n \in Entry(t) \cup {Nil}
  PROVE  Listed(Walk(t, fwd, n), Rest(t, fwd, n) \cup (IF n = Nil THEN {} ELSE {n}), fwd)
<1> DEFINE f == CHOOSE g : IsWalk(t, fwd, g)
           All(k) == Rest(t, fwd, k) \cup (IF k = Nil THEN {} ELSE {k})
           R == Remaining(t, fwd)
           D == {i \in Nat : \E k \in Entry(t) \cup {Nil} : R[k] = i /\ ~Listed(f[k], All(k), fwd)}
<1>0. /\ DOMAIN t.kids \subseteq Prefix /\ Nil \notin DOMAIN t.kids /\ Nil \in Places(t)
      /\ Entry(t) \subseteq DOMAIN t.kids /\ Entry(t) \subseteq Places(t)
  BY NilIsNone DEF Good, Shape, Counted, Entry, Places
<1>1. IsWalk(t, fwd, f) /\ Walk(t, fwd, n) = f[n]
  BY WalkExists DEF Walk
<1> HIDE DEF f
<1>2. \A k \in Places(t) : f[k] = WalkStep(t, fwd, f, k)
  BY <1>1 DEF IsWalk
<1>3. D = {}
  <2> SUFFICES ASSUME D # {} PROVE FALSE
    OBVIOUS
  <2>1. PICK i \in D : \A j \in D : ~(<<j, i>> \in OpToRel(<, Nat))
    BY NatLessThanWellFounded, WFMin
  <2>2. \A j \in D : ~(j < i)
    BY <2>1 DEF OpToRel
  <2>3. PICK k \in Entry(t) \cup {Nil} : R[k] = i /\ ~Listed(f[k], All(k), fwd)
    OBVIOUS
  <2>4. CASE k = Nil
    <3>1. f[k] = <<>> /\ All(k) = {}
      BY <1>0, <1>2, <2>4 DEF WalkStep, Rest
    <3> QED BY <2>3, <3>1, NoneListed
  <2>5. CASE k # Nil
    <3> DEFINE m == Follow(t, fwd, k)
    <3>0. k \in Entry(t) /\ k \in DOMAIN t.kids
      BY <1>0, <2>5
    <3>1. /\ R \in [Places(t) -> Nat] /\ m \in Places(t) /\ (m # Nil => m \in Rest(t, fwd, k))
          /\ Rest(t, fwd, k) = (IF m = Nil THEN {} ELSE {m}) \cup Rest(t, fwd, m)
          /\ R[m] < R[k]
      BY <3>0, RestShrinks
    <3>2. f[k] = <<k>> \o f[m]
      BY <1>2, <1>0, <2>5 DEF WalkStep
    <3> HIDE DEF m, R
    <3>3. m \in Entry(t) \cup {Nil}
      BY <3>1 DEF Rest
    <3>4. R[m] \in Nat /\ R[m] \notin D
      BY <2>2, <2>3, <3>1
    <3>5. Listed(f[m], All(m), fwd)
      BY <3>3, <3>4
    <3>6. All(m) = Rest(t, fwd, k) /\ All(k) = Rest(t, fwd, k) \cup {k}
      BY <2>5, <3>1
    <3>7. \A y \in Rest(t, fwd, k) : Prec(fwd, k, y)
      BY DEF Rest
    <3> HIDE DEF All, D
    <3>8. Listed(f[k], Rest(t, fwd, k) \cup {k}, fwd)
      <4> DEFINE S == Rest(t, fwd, k)
                 r == f[m]
                 r2 == f[k]
      <4>1. Listed(r, S, fwd) /\ r2 = <<k>> \o r /\ \A y \in S : Prec(fwd, k, y)
        BY <3>2, <3>5, <3>6, <3>7
      <4> HIDE DEF S, r, r2
      <4>2. Listed(r2, S \cup {k}, fwd)
        BY ONLY <4>1, OneMoreListed
      <4> QED BY <4>2 DEF S, r2
    <3> QED BY <2>3, <3>6, <3>8
  <2> QED BY <2>4, <2>5
<1>4. Listed(f[n], All(n), fwd)
  <2>1. R[n] \in Nat
    BY <1>0, RestShrinks
  <2> HIDE DEF R
  <2> QED BY <1>3, <2>1
<1> QED BY <1>1, <1>4

\* The walks list the entries, forwards and backwards.
LEMMA EntriesAre ==
  ASSUME Laws, NEW t, Good(t), Iterable(t)
  PROVE  /\ Listed(Entries(t), Entry(t), TRUE)
         /\ Listed(ReverseEntries(t), Entry(t), FALSE)
<1> DEFINE a == First(t, t.root)
           b == LastNode(t, t.root)
<1>0. /\ DOMAIN t.kids \subseteq Prefix /\ Nil \notin DOMAIN t.kids /\ t.root \in Places(t)
      /\ Entry(t) \subseteq DOMAIN t.kids /\ IsTop(DOMAIN t.kids, t.root)
  <2>1. IsTop(DOMAIN t.kids, t.root)
    BY DEF Good, Shape
  <2>2. t.root \in Places(t)
    BY <2>1 DEF IsTop, Places
  <2> QED BY <2>1, <2>2, NilIsNone DEF Good, Shape, Counted, Entry
<1>1. Sub(t, t.root) = Entry(t)
  BY <1>0 DEF Sub, IsTop
<1>2. IsLeast(Entry(t), a) /\ IsGreatest(Entry(t), b)
  BY <1>0, <1>1, FirstIs, LastIs
<1> HIDE DEF a, b
<1>3. a \in Entry(t) \cup {Nil} /\ b \in Entry(t) \cup {Nil}
  BY <1>2 DEF IsLeast, IsGreatest
<1>4. Rest(t, TRUE, a) \cup (IF a = Nil THEN {} ELSE {a}) = Entry(t)
  BY <1>0, <1>2 DEF IsLeast, Rest, Prec
<1>5. Rest(t, FALSE, b) \cup (IF b = Nil THEN {} ELSE {b}) = Entry(t)
  BY <1>0, <1>2 DEF IsGreatest, Rest, Prec
<1>6. Entries(t) = Walk(t, TRUE, a) /\ ReverseEntries(t) = Walk(t, FALSE, b)
  BY WalksAre DEF a, b
<1>7. Listed(Walk(t, TRUE, a), Entry(t), TRUE)
  <2>1. Listed(Walk(t, TRUE, a), Rest(t, TRUE, a) \cup (IF a = Nil THEN {} ELSE {a}), TRUE)
    BY <1>3, WalkIs
  <2> QED BY <1>4, <2>1
<1>8. Listed(Walk(t, FALSE, b), Entry(t), FALSE)
  <2>1. Listed(Walk(t, FALSE, b), Rest(t, FALSE, b) \cup (IF b = Nil THEN {} ELSE {b}), FALSE)
    BY <1>3, WalkIs
  <2> QED BY <1>5, <2>1
<1> QED BY <1>6, <1>7, <1>8

\* Iterators visit every entry in order, both ways.
LEMMA VisitsAreExact ==
  ASSUME Laws, NEW t, Good(t), Iterable(t)
  PROVE  VisitsExact(t, Entries(t), ReverseEntries(t))
<1> DEFINE s == Entries(t)
           r == ReverseEntries(t)
<1>1. Listed(s, Entry(t), TRUE) /\ Listed(r, Entry(t), FALSE)
  BY EntriesAre
<1>2. Entry(t) \subseteq Prefix
  BY DEF Good, Shape, Counted, Entry
<1> HIDE DEF s, r
<1>3. Listed(Reversed(r), Entry(t), TRUE) /\ Reversed(Reversed(r)) = r
  BY <1>1, ReversedListed
<1>4. Reversed(r) = s
  BY <1>1, <1>2, <1>3, ListIsOne
<1>5. s \in Seq(Entry(t)) /\ Len(s) \in Nat /\ DOMAIN s = 1..Len(s) /\ \A i \in DOMAIN s : s[i] \in Entry(t)
  BY <1>1, ListedIs
<1>6. {s[i] : i \in DOMAIN s} = Entry(t)
  BY <1>1, <1>5 DEF Listed
<1>7. \A i \in 1..(Len(s) - 1) : Less(s[i], s[i + 1])
  <2> TAKE i \in 1..(Len(s) - 1)
  <2>1. i \in DOMAIN s /\ i + 1 \in DOMAIN s /\ i < i + 1
    BY <1>5
  <2>2. Prec(TRUE, s[i], s[i + 1])
    BY <1>1, <2>1 DEF Listed
  <2> QED BY <2>2 DEF Prec
<1>8. r = [i \in DOMAIN s |-> s[Len(s) + 1 - i]]
  BY <1>3, <1>4 DEF Reversed
<1> QED BY <1>6, <1>7, <1>8 DEF VisitsExact, s, r

-----------------------------------------------------------------------------
(* Lookups.                                                                *)

PathStep(t, p, S, f, n) ==
  IF n = Nil \/ ~Contains(n, p) THEN <<>>
  ELSE (IF n \in S THEN <<n>> ELSE <<>>) \o
       (IF n.len >= p.len THEN <<>> ELSE f[t.kids[n][Bit(p, n.len)]])
IsPath(t, p, S, f) == f = [n \in Places(t) |-> PathStep(t, p, S, f, n)]

LEMMA PathExists ==
  ASSUME Laws, NEW t, Shape(t.root, t.kids), NEW p \in Prefix, NEW S
  PROVE  /\ \E f \in [Places(t) -> Seq(Places(t))] : IsPath(t, p, S, f)
         /\ Path(t, p, S) = (CHOOSE f : IsPath(t, p, S, f))[t.root]
<1> DEFINE P == Places(t)
           V == Seq(P)
           G == [f \in [P -> V] |-> [n \in P |-> PathStep(t, p, S, f, n)]]
<1>1. Path(t, p, S) = (CHOOSE f : IsPath(t, p, S, f))[t.root]
  BY DEF Path, IsPath, PathStep
<1>2. /\ Height(t) \in [P -> Nat]
      /\ \A n \in P, b \in BOOLEAN : n # Nil => t.kids[n][b] \in P /\ Height(t)[t.kids[n][b]] < Height(t)[n]
      /\ \A n \in P : n # Nil => n \in Prefix /\ n.len \in 0..W /\ Bit(p, n.len) \in BOOLEAN
  BY HeightIs DEF Places, Shape, Laws, Lengths, Bits
<1>3. ASSUME NEW f \in [P -> V], NEW n \in P PROVE PathStep(t, p, S, f, n) \in V
  <2> DEFINE a == IF n \in S THEN <<n>> ELSE <<>>
             b == IF n.len >= p.len THEN <<>> ELSE f[t.kids[n][Bit(p, n.len)]]
  <2>1. CASE n = Nil \/ ~Contains(n, p)
    BY <2>1 DEF PathStep
  <2>2. CASE ~(n = Nil \/ ~Contains(n, p))
    <3>1. PathStep(t, p, S, f, n) = a \o b
      BY <2>2 DEF PathStep
    <3>2. a \in Seq(P) /\ b \in Seq(P)
      BY <1>2, <2>2
    <3> HIDE DEF P, a, b
    <3> QED BY <3>1, <3>2, ConcatProperties
  <2> QED BY <2>1, <2>2
<1>4. ASSUME NEW f \in [P -> V], NEW g \in [P -> V], NEW n \in P,
             \A m \in P : Height(t)[m] < Height(t)[n] => f[m] = g[m]
      PROVE  G[f][n] = G[g][n]
  <2>1. PathStep(t, p, S, f, n) = PathStep(t, p, S, g, n)
    BY <1>2, <1>4 DEF PathStep
  <2> QED BY <2>1
<1>5. G \in [[P -> V] -> [P -> V]] /\ \A f \in [P -> V] : G[f] = [n \in P |-> PathStep(t, p, S, f, n)]
  BY <1>3
<1>6. [P -> V] # {}
  <2>1. [n \in P |-> <<>>] \in [P -> V]
    OBVIOUS
  <2> QED BY <2>1
<1> HIDE DEF P, V, G
<1>7. Recursion(P, V, G, Height(t))
  BY <1>2, <1>4, <1>5, <1>6 DEF Recursion
<1>8. \E f \in [P -> V] : f = G[f]
  BY <1>7, FixedPoint
<1> QED BY <1>1, <1>5, <1>8 DEF IsPath, P, V

\* The nodes of a set between two prefixes.
Between(S, n, p) == IF n = Nil THEN {} ELSE {m \in S : Contains(n, m) /\ Contains(m, p)}

LEMMA BetweenIs ==
  ASSUME Laws, NEW t, Shape(t.root, t.kids), NEW p \in Prefix, NEW S \in SUBSET DOMAIN t.kids,
         NEW n \in DOMAIN t.kids, Contains(n, p), ~(n.len >= p.len)
  PROVE  /\ Bit(p, n.len) \in BOOLEAN
         /\ Between(S, n, p) = (S \cap {n}) \cup Between(S, t.kids[n][Bit(p, n.len)], p)
         /\ \A m \in Between(S, t.kids[n][Bit(p, n.len)], p) : Less(n, m)
<1>0. /\ DOMAIN t.kids \subseteq Prefix /\ Nil \notin DOMAIN t.kids /\ n \in Prefix /\ n # Nil
      /\ n.len \in 0..W /\ p.len \in 0..W /\ Contains(n, n)
  BY NilIsNone DEF Shape, Laws, Lengths, Containment
<1>1. n \in Between(S, n, p) <=> n \in S
  BY <1>0 DEF Between
<1> DEFINE b == Bit(p, n.len)
           k == t.kids[n][b]
<1>2. b \in BOOLEAN
  BY <1>0 DEF Laws, Bits
<1>3. ASSUME NEW m \in Between(S, n, p), m # n PROVE m \in Between(S, k, p)
  <2>1. m \in S /\ m \in DOMAIN t.kids /\ m \in Prefix /\ Contains(n, m) /\ Contains(m, p)
    BY <1>0 DEF Between
  <2>2. n.len < m.len /\ t.kids[n][Bit(m, n.len)] \in DOMAIN t.kids /\ Contains(t.kids[n][Bit(m, n.len)], m)
    BY <1>3, <2>1, Descend DEF Under
  <2>3. Bit(m, n.len) = b
    BY <1>0, <2>1, <2>2 DEF Laws, Bits
  <2> HIDE DEF b
  <2> QED BY <1>0, <2>1, <2>2, <2>3 DEF Between
<1>4. ASSUME NEW m \in Between(S, k, p) PROVE m \in Between(S, n, p) /\ m # n /\ Less(n, m)
  <2>1. k # Nil /\ m \in S /\ m \in Prefix /\ Contains(k, m) /\ Contains(m, p)
    BY <1>0 DEF Between
  <2>2. k \in Under(DOMAIN t.kids, n, b)
    BY <1>2, <2>1, KidIs
  <2> HIDE DEF k, b
  <2>3. k \in Prefix /\ Contains(n, k) /\ n.len < k.len /\ k.len \in 0..W /\ m.len \in 0..W
    BY <1>0, <2>1, <2>2 DEF Under, Laws, Lengths
  <2>4. Contains(n, m) /\ k.len <= m.len
    BY <1>0, <2>1, <2>3 DEF Laws, Containment
  <2>5. m # n
    BY <1>0, <2>3, <2>4
  <2>6. Less(n, m)
    BY <1>0, <2>1, <2>4, <2>5 DEF Laws, Sorting
  <2> QED BY <1>0, <2>1, <2>4, <2>5, <2>6 DEF Between
<1>5. Between(S, n, p) \subseteq S
  BY DEF Between
<1> HIDE DEF b, k
<1>6. Between(S, n, p) = (S \cap {n}) \cup Between(S, k, p)
  BY <1>1, <1>3, <1>4, <1>5
<1> QED BY <1>2, <1>4, <1>6 DEF b, k

LEMMA BetweenEnd ==
  ASSUME Laws, NEW t, Shape(t.root, t.kids), NEW p \in Prefix, NEW S \in SUBSET DOMAIN t.kids,
         NEW n \in DOMAIN t.kids, Contains(n, p), n.len >= p.len
  PROVE  Between(S, n, p) = S \cap {n}
<1>0. /\ DOMAIN t.kids \subseteq Prefix /\ Nil \notin DOMAIN t.kids /\ n \in Prefix /\ n # Nil
      /\ n.len \in 0..W /\ p.len \in 0..W /\ Contains(n, n)
  BY NilIsNone DEF Shape, Laws, Lengths, Containment
<1>1. n \in Between(S, n, p) <=> n \in S
  BY <1>0 DEF Between
<1>2. n = p
  <2>1. n.len <= p.len
    BY <1>0 DEF Laws, Containment
  <2>2. n.len = p.len
    BY <1>0, <2>1
  <2> QED BY <1>0, <2>2 DEF Laws, Containment
<1>3. \A m \in Between(S, n, p) : m = n
  <2> TAKE m \in Between(S, n, p)
  <2>1. m \in Prefix /\ Contains(p, m) /\ Contains(m, p) /\ m.len \in 0..W
    BY <1>0, <1>2 DEF Between, Laws, Lengths
  <2>2. m.len <= p.len /\ p.len <= m.len
    BY <2>1 DEF Laws, Containment
  <2>3. m.len = p.len
    BY <1>0, <2>1, <2>2
  <2> QED BY <1>2, <2>1, <2>3 DEF Laws, Containment
<1>4. Between(S, n, p) \subseteq S
  BY DEF Between
<1> QED BY <1>1, <1>3, <1>4

\* A path lists the nodes of the set that contain the prefix.
LEMMA PathIs ==
  ASSUME Laws, NEW t, Shape(t.root, t.kids), NEW p \in Prefix, NEW S \in SUBSET DOMAIN t.kids
  PROVE  Listed(Path(t, p, S), {m \in S : Contains(m, p)}, TRUE)
<1> DEFINE f == CHOOSE g : IsPath(t, p, S, g)
           N == {n \in DOMAIN t.kids : ~Listed(f[n], Between(S, n, p), TRUE)}
<1>0. /\ DOMAIN t.kids \subseteq Prefix /\ Nil \notin DOMAIN t.kids /\ Nil \in Places(t) /\ DOMAIN t.kids \subseteq Places(t)
  BY NilIsNone DEF Shape, Places
<1>1. IsPath(t, p, S, f) /\ Path(t, p, S) = f[t.root]
  BY PathExists
<1> HIDE DEF f
<1>2. \A n \in Places(t) : f[n] = PathStep(t, p, S, f, n)
  BY <1>1 DEF IsPath
<1>3. ASSUME NEW n \in Places(t), n = Nil \/ ~Contains(n, p)
      PROVE  Listed(f[n], Between(S, n, p), TRUE)
  <2>1. f[n] = <<>>
    BY <1>2, <1>3 DEF PathStep
  <2>2. Between(S, n, p) = {}
    BY <1>0, <1>3 DEF Between, Places, Laws, Containment
  <2> QED BY <2>1, <2>2, NoneListed
<1>4. N = {}
  <2> SUFFICES ASSUME N # {} PROVE FALSE
    OBVIOUS
  <2>1. PICK n \in N : \A k \in N : k.len <= n.len
    BY <1>0, LongestOf
  <2>2. n \in DOMAIN t.kids /\ n \in Places(t) /\ n # Nil /\ n.len \in 0..W /\ p.len \in 0..W /\ Contains(n, p)
    BY <1>0, <1>3 DEF Laws, Lengths
  <2> DEFINE k == t.kids[n][Bit(p, n.len)]
             a == IF n \in S THEN <<n>> ELSE <<>>
             b == IF n.len >= p.len THEN <<>> ELSE f[k]
             B == IF n.len >= p.len THEN {} ELSE Between(S, k, p)
  <2>3. f[n] = a \o b
    BY <1>2, <2>2 DEF PathStep
  <2>4. Between(S, n, p) = (S \cap {n}) \cup B /\ \A m \in B : Less(n, m)
    <3>1. CASE n.len >= p.len
      <4>1. B = {}
        BY <3>1
      <4> HIDE DEF B, k, a, b, N
      <4>2. Between(S, n, p) = S \cap {n}
        BY <2>2, <3>1, BetweenEnd
      <4> QED BY <4>1, <4>2
    <3>2. CASE ~(n.len >= p.len)
      BY <2>2, <3>2, BetweenIs
    <3> QED BY <3>1, <3>2
  <2>5. Listed(b, B, TRUE)
    <3>1. CASE n.len >= p.len
      BY <3>1, NoneListed
    <3>2. CASE ~(n.len >= p.len)
      <4>1. Bit(p, n.len) \in BOOLEAN
        BY <2>2, <3>2, BetweenIs
      <4>2. Listed(f[k], Between(S, k, p), TRUE)
        <5>1. CASE k = Nil
          BY <1>0, <1>3, <5>1
        <5>2. CASE k # Nil
          <6>1. k \in Under(DOMAIN t.kids, n, Bit(p, n.len))
            BY <2>2, <4>1, <5>2, KidIs
          <6> HIDE DEF k
          <6>2. k \in DOMAIN t.kids /\ n.len < k.len /\ k.len \in 0..W
            BY <1>0, <6>1 DEF Under, Laws, Lengths
          <6>3. k \notin N
            <7> HIDE DEF N
            <7> QED BY <2>1, <2>2, <6>2
          <6> QED BY <6>2, <6>3
        <5> QED BY <5>1, <5>2
      <4> QED BY <3>2, <4>2
    <3> QED BY <3>1, <3>2
  <2>6. a = IF n \in S THEN <<n>> ELSE <<>>
    OBVIOUS
  <2> HIDE DEF k, a, b, B
  <2>7. CASE n \in S
    <3> DEFINE s2 == f[n]
    <3>1. s2 = <<n>> \o b /\ \A y \in B : Prec(TRUE, n, y)
      BY <2>3, <2>4, <2>6, <2>7 DEF Prec
    <3> HIDE DEF s2
    <3>2. Listed(s2, B \cup {n}, TRUE)
      BY ONLY <2>5, <3>1, OneMoreListed
    <3>3. Between(S, n, p) = B \cup {n}
      BY <2>4, <2>7
    <3> QED BY <2>1, <3>2, <3>3 DEF s2
  <2>8. CASE n \notin S
    <3>1. Between(S, n, p) = B
      BY <2>4, <2>8
    <3>2. b \in Seq(B)
      BY <2>5 DEF Listed
    <3>3. <<>> \o b = b
      BY <3>2, ConcatEmptySeq
    <3>4. f[n] = b
      BY <2>3, <2>6, <2>8, <3>3
    <3> QED BY <2>1, <2>5, <3>1, <3>4
  <2> QED BY <2>7, <2>8
<1>5. t.root \in Places(t) /\ Between(S, t.root, p) = {m \in S : Contains(m, p)}
  <2>1. IsTop(DOMAIN t.kids, t.root)
    BY DEF Shape
  <2> QED BY <1>0, <2>1 DEF IsTop, Places, Between
<1>6. Listed(f[t.root], Between(S, t.root, p), TRUE)
  BY <1>3, <1>4, <1>5 DEF Places
<1> QED BY <1>1, <1>5, <1>6

\* What contains a prefix is ordered by length.
LEMMA ChainIs ==
  ASSUME Laws, NEW p \in Prefix, NEW q \in Prefix, NEW r \in Prefix, Contains(q, p), Contains(r, p)
  PROVE  /\ q.len \in Nat /\ r.len \in Nat /\ p.len \in Nat
         /\ Less(q, r) <=> q.len < r.len
         /\ q.len = r.len => q = r
<1>1. q.len \in 0..W /\ r.len \in 0..W /\ p.len \in 0..W /\ W \in Nat
  BY DEF Laws, Lengths
<1>2. ASSUME NEW x \in Prefix, NEW y \in Prefix, Contains(x, p), Contains(y, p), x.len <= y.len
      PROVE  Contains(x, y) /\ (x.len = y.len => x = y) /\ (x = y \/ Less(x, y))
  <2>1. Contains(x, y)
    BY <1>2 DEF Laws, Chains
  <2> QED BY <2>1 DEF Laws, Containment, Sorting
<1>3. CASE q.len < r.len
  <2>1. q # r /\ (q = r \/ Less(q, r))
    BY <1>1, <1>2, <1>3
  <2> QED BY <1>1, <1>3, <2>1
<1>4. CASE q.len = r.len
  <2>1. q = r
    BY <1>1, <1>2, <1>4
  <2>2. ~Less(q, r)
    BY <2>1 DEF Laws, Sorting
  <2> QED BY <1>1, <1>4, <2>1, <2>2
<1>5. CASE r.len < q.len
  <2>1. r # q /\ (r = q \/ Less(r, q))
    BY <1>1, <1>2, <1>5
  <2>2. ~Less(q, r)
    BY <2>1 DEF Laws, Sorting
  <2> QED BY <1>1, <1>5, <2>2
<1> QED BY <1>1, <1>3, <1>4, <1>5

\* An entry of a list comes after as many as its place says.
LEMMA PlaceInList ==
  ASSUME Laws, NEW S \in SUBSET Prefix, NEW s, Listed(s, S, TRUE), NEW i \in DOMAIN s
  PROVE  Cardinality({q \in S : Less(q, s[i])}) = i - 1
<1>1. s \in Seq(S) /\ Len(s) \in Nat /\ DOMAIN s = 1..Len(s) /\ \A j \in DOMAIN s : j \in Nat /\ s[j] \in S
  BY ListedIs
<1> DEFINE D == {q \in S : Less(q, s[i])}
           f == [j \in 1..(i - 1) |-> s[j]]
<1>2. \A j, k \in DOMAIN s : j < k <=> Less(s[j], s[k])
  <2> TAKE j, k \in DOMAIN s
  <2>1. s[j] \in Prefix /\ s[k] \in Prefix
    BY <1>1
  <2>2. j < k => Less(s[j], s[k])
    BY DEF Listed, Prec
  <2>3. k < j => Less(s[k], s[j])
    BY DEF Listed, Prec
  <2>4. k = j => ~Less(s[j], s[k])
    BY <2>1 DEF Laws, Sorting
  <2>5. k < j => ~Less(s[j], s[k])
    BY <2>1, <2>3 DEF Laws, Sorting
  <2>6. j < k \/ k < j \/ j = k
    BY <1>1
  <2> QED BY <2>2, <2>4, <2>5, <2>6
<1>3. i - 1 \in Nat /\ \A j \in 1..(i - 1) : j \in DOMAIN s /\ j < i /\ f[j] = s[j]
  BY <1>1
<1>4. f \in Bijection(1..(i - 1), D)
  <2>1. f \in [1..(i - 1) -> D]
    BY <1>1, <1>2, <1>3
  <2>2. \A q \in D : \E j \in 1..(i - 1) : f[j] = q
    <3> TAKE q \in D
    <3>1. PICK j \in DOMAIN s : s[j] = q
      BY DEF Listed
    <3>2. j < i /\ j \in 1..(i - 1)
      BY <1>1, <1>2, <3>1
    <3> QED BY <1>3, <3>1, <3>2
  <2>3. \A j, k \in 1..(i - 1) : f[j] = f[k] => j = k
    <3> TAKE j, k \in 1..(i - 1)
    <3>1. s[j] \in Prefix /\ ~Less(s[j], s[j])
      BY <1>1, <1>3 DEF Laws, Sorting
    <3>2. f[j] = f[k] => ~(j < k) /\ ~(k < j)
      BY <1>2, <1>3, <3>1
    <3>3. j \in Nat /\ k \in Nat
      OBVIOUS
    <3> QED BY <3>2, <3>3
  <2> HIDE DEF f, D
  <2> QED BY <2>1, <2>2, <2>3 DEF Bijection, Injection, Surjection, IsInjective
<1>5. Cardinality(D) = i - 1
  <2> HIDE DEF D, f
  <2>1. ExistsBijection(1..(i - 1), D)
    BY <1>4 DEF ExistsBijection
  <2> QED BY <1>3, <2>1, FS_CountingElements
<1> QED BY <1>5

\* Every lookup answers what the entries say.
LEMMA AnswersAreExact ==
  ASSUME Laws, NEW t, Good(t), NEW p \in Prefix
  PROVE  AnswersExact(t, p, find_matches(t, p), find_longest(t, p), find(t, p))
<1> DEFINE E == {q \in Entry(t) : Contains(q, p)}
           s == find_matches(t, p)
           l == find_longest(t, p)
<1>0. /\ Shape(t.root, t.kids) /\ Entry(t) \subseteq DOMAIN t.kids /\ Entry(t) \subseteq Prefix
      /\ Nil \notin Prefix
  BY NilIsNone DEF Good, Shape, Counted, Entry
<1>1. Listed(s, E, TRUE)
  BY <1>0, PathIs DEF find_matches
<1>2. E \in SUBSET Prefix /\ \A q \in E : q \in Entry(t) /\ Contains(q, p)
  BY <1>0
<1>3. l = IF s = <<>> THEN Nil ELSE s[Len(s)]
  BY DEF find_longest, LastOf
<1>4. find(t, p) = IF l = p THEN p ELSE Nil
  BY DEF find
<1>5. p \in E <=> p \in Entry(t)
  BY DEF Laws, Containment
<1> HIDE DEF s, l, E
<1>6. s \in Seq(E) /\ Len(s) \in Nat /\ DOMAIN s = 1..Len(s) /\ \A j \in DOMAIN s : j \in Nat /\ s[j] \in E
  BY <1>1, ListedIs
<1>7. {s[i] : i \in DOMAIN s} = E
  BY <1>1, <1>6 DEF Listed
<1>8. \A i \in DOMAIN s : Cardinality({q \in E : q.len < s[i].len}) = i - 1
  <2> TAKE i \in DOMAIN s
  <2>1. {q \in E : q.len < s[i].len} = {q \in E : Less(q, s[i])}
    BY <1>2, <1>6, ChainIs
  <2>2. Cardinality({q \in E : Less(q, s[i])}) = i - 1
    BY <1>1, <1>2, PlaceInList
  <2> QED BY <2>1, <2>2
<1>9. CASE E = {}
  <2>1. s = <<>>
    BY <1>6, <1>9
  <2>2. l = Nil /\ p \notin Entry(t) /\ find(t, p) = Nil
    BY <1>0, <1>3, <1>4, <1>5, <1>9, <2>1
  <2> QED BY <1>7, <1>8, <1>9, <2>2 DEF AnswersExact, s, l, E
<1>10. CASE E # {}
  <2>1. s # <<>> /\ Len(s) \in DOMAIN s
    BY <1>6, <1>7, <1>10
  <2>2. l = s[Len(s)] /\ l \in E
    BY <1>3, <1>6, <2>1
  <2>3. \A r \in E : r.len <= l.len
    <3> TAKE r \in E
    <3>1. PICK i \in DOMAIN s : s[i] = r
      BY <1>1 DEF Listed
    <3>2. i < Len(s) \/ i = Len(s)
      BY <1>6
    <3>3. r = l \/ Less(r, l)
      BY <1>1, <2>1, <2>2, <3>1, <3>2 DEF Listed, Prec
    <3> QED BY <1>2, <2>2, <3>3, ChainIs
  <2>4. l = CHOOSE q \in E : \A r \in E : r.len <= q.len
    <3> DEFINE c == CHOOSE q \in E : \A r \in E : r.len <= q.len
    <3>1. c \in E /\ \A r \in E : r.len <= c.len
      BY <2>2, <2>3
    <3> HIDE DEF c
    <3>2. l.len <= c.len /\ c.len <= l.len /\ l.len \in Nat /\ c.len \in Nat
      BY <1>2, <2>2, <2>3, <3>1, ChainIs
    <3>3. l.len = c.len
      BY <3>2
    <3>4. l = c
      BY <1>2, <2>2, <3>1, <3>3, ChainIs
    <3> QED BY <3>4 DEF c
  <2>5. l = p <=> p \in Entry(t)
    <3>1. ASSUME p \in E PROVE l = p
      <4>1. p.len <= l.len /\ l \in Prefix /\ Contains(l, p)
        BY <1>2, <2>2, <2>3, <3>1
      <4>2. l.len <= p.len /\ l.len \in 0..W /\ p.len \in 0..W
        BY <4>1 DEF Laws, Containment, Lengths
      <4>3. l.len = p.len
        BY <4>1, <4>2
      <4> QED BY <4>1, <4>3 DEF Laws, Containment
    <3> QED BY <1>5, <2>2, <3>1
  <2>6. find(t, p) = IF p \in Entry(t) THEN p ELSE Nil
    BY <1>4, <2>5
  <2> QED BY <1>7, <1>8, <1>10, <2>4, <2>6 DEF AnswersExact, s, l, E
<1> QED BY <1>9, <1>10

\* And the wider entries are those that contain a prefix, without itself.
LEMMA WiderAre ==
  ASSUME Laws, NEW t, Good(t), NEW p \in Prefix
  PROVE  /\ find_wider(t, p) \in Seq(Prefix)
         /\ {find_wider(t, p)[i] : i \in DOMAIN find_wider(t, p)} = {q \in Entry(t) : Contains(q, p)} \ {p}
<1> DEFINE S == {n \in Entry(t) : n.len < p.len}
           E == {m \in S : Contains(m, p)}
           s == find_wider(t, p)
<1>0. Shape(t.root, t.kids) /\ Entry(t) \subseteq DOMAIN t.kids /\ Entry(t) \subseteq Prefix
  BY DEF Good, Shape, Counted, Entry
<1>1. S \in SUBSET DOMAIN t.kids /\ s = Path(t, p, S)
  BY <1>0 DEF find_wider
<1>2. E = {q \in Entry(t) : Contains(q, p)} \ {p}
  <2>1. \A q \in Entry(t) : Contains(q, p) => (q.len < p.len <=> q # p)
    <3> TAKE q \in Entry(t)
    <3>1. q \in Prefix /\ q.len \in 0..W /\ p.len \in 0..W
      BY <1>0 DEF Laws, Lengths
    <3>2. Contains(q, p) => q.len <= p.len /\ (q.len = p.len => q = p)
      BY <3>1 DEF Laws, Containment
    <3> QED BY <3>1, <3>2
  <2> QED BY <2>1
<1>3. E \subseteq Prefix
  BY <1>0
<1>4. Listed(s, E, TRUE)
  <2> DEFINE X == S
  <2>1. X \in SUBSET DOMAIN t.kids /\ s = Path(t, p, X) /\ E = {m \in X : Contains(m, p)}
    BY <1>1
  <2> HIDE DEF X, E, s
  <2> QED BY <1>0, <2>1, PathIs
<1> HIDE DEF s, E
<1>5. s \in Seq(E) /\ DOMAIN s = 1..Len(s) /\ \A j \in DOMAIN s : s[j] \in E
  BY <1>4, ListedIs
<1>6. {s[i] : i \in DOMAIN s} = E
  BY <1>4, <1>5 DEF Listed
<1>7. s \in Seq(Prefix)
  BY <1>3, <1>5
<1> QED BY <1>2, <1>6, <1>7 DEF s

-----------------------------------------------------------------------------
(* Reading a trie.                                                         *)

InsStep(es, f, i) == IF i = 0 THEN Empty ELSE insert(f[i - 1], es[i][1], es[i][2]).t
IsIns(es, f) == f = [i \in 0..Len(es) |-> InsStep(es, f, i)]

LEMMA InsertAllExists ==
  ASSUME NEW es, Len(es) \in Nat
  PROVE  \E f : IsIns(es, f) /\ InsertAll(es) = f[Len(es)]
<1> DEFINE Part(k, f) == \A i \in 0..k : f[i] = InsStep(es, f, i)
           K == {k \in Nat : ~\E f : Part(k, f)}
<1>1. Part(0, [i \in {0} |-> Empty])
  BY DEF InsStep
<1>2. ASSUME NEW k \in Nat, NEW f, Part(k, f) PROVE \E h : Part(k + 1, h)
  <2> DEFINE h == [i \in 0..(k + 1) |-> InsStep(es, f, i)]
  <2>1. \A i \in 0..(k + 1) : h[i] = InsStep(es, f, i)
    OBVIOUS
  <2>2. \A i \in 0..k : h[i] = f[i]
    BY <1>2
  <2> HIDE DEF h
  <2>3. \A i \in 0..(k + 1) : InsStep(es, f, i) = InsStep(es, h, i)
    <3> TAKE i \in 0..(k + 1)
    <3>1. CASE i = 0
      BY <3>1 DEF InsStep
    <3>2. CASE i # 0
      <4>1. i - 1 \in 0..k
        BY <3>2
      <4> QED BY <2>2, <4>1 DEF InsStep
    <3> QED BY <3>1, <3>2
  <2> QED BY <2>1, <2>3
<1>3. K = {}
  <2> SUFFICES ASSUME K # {} PROVE FALSE
    OBVIOUS
  <2>1. PICK k \in K : \A i \in K : ~(<<i, k>> \in OpToRel(<, Nat))
    BY NatLessThanWellFounded, WFMin
  <2>2. k \in Nat /\ ~(\E f : Part(k, f)) /\ \A i \in Nat : i < k => \E f : Part(i, f)
    BY <2>1 DEF OpToRel
  <2> HIDE DEF Part, K
  <2>3. k # 0
    BY <1>1, <2>2
  <2>4. k - 1 \in Nat /\ k - 1 < k /\ (k - 1) + 1 = k
    BY <2>2, <2>3
  <2>5. \E f : Part((k - 1) + 1, f)
    BY <1>2, <2>2, <2>4
  <2> QED BY <2>2, <2>4, <2>5
<1>4. PICK f : Part(Len(es), f)
  BY <1>3
<1> DEFINE h == [i \in 0..Len(es) |-> f[i]]
           g == [i \in 0..Len(es) |-> InsStep(es, h, i)]
<1>5. \A i \in 0..Len(es) : h[i] = f[i]
  OBVIOUS
<1>6. ASSUME NEW i \in 0..Len(es) PROVE h[i] = InsStep(es, h, i)
  <2> HIDE DEF h
  <2>1. InsStep(es, f, i) = InsStep(es, h, i)
    <3>1. CASE i = 0
      BY <3>1 DEF InsStep
    <3>2. CASE i # 0
      <4>1. i - 1 \in 0..Len(es)
        BY <3>2
      <4> QED BY <1>5, <4>1 DEF InsStep
    <3> QED BY <3>1, <3>2
  <2> QED BY <1>4, <1>5, <2>1
<1>7. h = g
  <2>1. \A i \in 0..Len(es) : g[i] = h[i]
    <3> HIDE DEF h
    <3> QED BY <1>6
  <2>2. h = [i \in 0..Len(es) |-> h[i]] /\ g = [i \in 0..Len(es) |-> g[i]]
    OBVIOUS
  <2> HIDE DEF h, g
  <2> QED BY <2>1, <2>2
<1>8. IsIns(es, h)
  <2> HIDE DEF h
  <2> QED BY <1>7 DEF IsIns
<1>9. InsertAll(es) = (CHOOSE ins : IsIns(es, ins))[Len(es)]
  BY DEF InsertAll, IsIns, InsStep
<1>10. IsIns(es, CHOOSE ins : IsIns(es, ins))
  <2> HIDE DEF h
  <2> QED BY <1>8
<1> QED BY <1>9, <1>10

\* The trie of the prefixes of a list, where each prefix has the value that every
\* function which agrees with the list gives it.
HasAll(t, es) ==
  /\ Good(t)
  /\ DOMAIN t.val = {es[i][1] : i \in 1..Len(es)}
  /\ \A g : (\A i \in 1..Len(es) : es[i][2] = g[es[i][1]]) => \A q \in DOMAIN t.val : t.val[q] = g[q]

\* InsertAll() makes a trie of the prefixes, with the values that a function
\* gives them, if they have one each.
LEMMA InsertAllIs ==
  ASSUME Laws, NEW es, Len(es) \in Nat, \A i \in 1..Len(es) : es[i][1] \in Prefix /\ es[i][2] \in Value
  PROVE  HasAll(InsertAll(es), es)
<1>1. PICK f : IsIns(es, f) /\ InsertAll(es) = f[Len(es)]
  BY InsertAllExists
<1>2. \A k \in 0..Len(es) : f[k] = InsStep(es, f, k)
  BY <1>1 DEF IsIns
<1> DEFINE Keys(k) == {es[i][1] : i \in 1..k}
           Fits(g) == \A i \in 1..Len(es) : es[i][2] = g[es[i][1]]
           Right(k) == /\ Good(f[k])
                       /\ DOMAIN f[k].val = Keys(k)
                       /\ \A g : Fits(g) => \A q \in DOMAIN f[k].val : f[k].val[q] = g[q]
           K == {k \in 0..Len(es) : ~Right(k)}
<1>3. Right(0)
  <2>1. f[0] = Empty
    BY <1>2 DEF InsStep
  <2>2. DOMAIN f[0].val = {} /\ Keys(0) = {}
    BY <2>1 DEF Empty
  <2> QED BY <2>1, <2>2, EmptyIsGood
<1>4. ASSUME NEW k \in Nat, k + 1 \in 0..Len(es), Right(k) PROVE Right(k + 1)
  <2> DEFINE p == es[k + 1][1]
             v == es[k + 1][2]
             t == f[k]
             t2 == insert(t, p, v).t
  <2>0. k + 1 \in 1..Len(es) /\ (k + 1) - 1 = k /\ k + 1 # 0
    BY <1>4
  <2>1. p \in Prefix /\ v \in Value
    BY <2>0
  <2>2. f[k + 1] = t2
    BY <1>2, <1>4, <2>0 DEF InsStep
  <2>3. Good(t) /\ DOMAIN t.val = Keys(k) /\ \A g : Fits(g) => \A q \in DOMAIN t.val : t.val[q] = g[q]
    BY <1>4
  <2>4. Keys(k + 1) = Keys(k) \cup {p}
    BY <1>4
  <2>5. \A g : Fits(g) => v = g[p]
    BY <2>0
  <2> HIDE DEF p, v, t
  <2>6. Good(t2) /\ t2.val = Added(t.val, p, v)
    BY <2>1, <2>3, InsertIs
  <2> HIDE DEF Fits, Keys, t2
  <2>7. DOMAIN t2.val = Keys(k + 1)
    BY <2>3, <2>4, <2>6 DEF Added, Bound
  <2>8. \A g : Fits(g) => \A q \in DOMAIN t2.val : t2.val[q] = g[q]
    <3> SUFFICES ASSUME NEW g, Fits(g), NEW q \in DOMAIN t2.val PROVE t2.val[q] = g[q]
      OBVIOUS
    <3>1. v = g[p] /\ \A r \in DOMAIN t.val : t.val[r] = g[r]
      BY <2>3, <2>5
    <3>2. CASE p \in DOMAIN t.val
      <4>1. t2.val = t.val
        BY <2>6, <3>2 DEF Added
      <4> QED BY <3>1, <4>1
    <3>3. CASE p \notin DOMAIN t.val
      <4>1. t2.val = [r \in DOMAIN t.val \cup {p} |-> IF r = p THEN v ELSE t.val[r]]
        BY <2>6, <3>3 DEF Added, Bound
      <4> QED BY <3>1, <4>1
    <3> QED BY <3>2, <3>3
  <2> QED BY <2>2, <2>6, <2>7, <2>8
<1>5. K = {}
  <2> HIDE DEF Right
  <2> SUFFICES ASSUME K # {} PROVE FALSE
    OBVIOUS
  <2>1. PICK k \in K : \A i \in K : ~(<<i, k>> \in OpToRel(<, Nat))
    <3>1. K \in SUBSET Nat
      OBVIOUS
    <3> HIDE DEF K
    <3> QED BY <3>1, NatLessThanWellFounded, WFMin
  <2>2. k \in 0..Len(es) /\ ~Right(k) /\ \A i \in 0..Len(es) : i < k => Right(i)
    <3>1. \A i \in K : ~(i < k)
      <4>1. K \in SUBSET Nat
        OBVIOUS
      <4> HIDE DEF K
      <4> QED BY <2>1, <4>1 DEF OpToRel
    <3> QED BY <3>1
  <2> HIDE DEF K
  <2>3. k # 0
    BY <1>3, <2>2
  <2>4. k - 1 \in Nat /\ k - 1 \in 0..Len(es) /\ k - 1 < k /\ (k - 1) + 1 = k
    BY <2>2, <2>3
  <2>5. Right((k - 1) + 1)
    BY <1>4, <2>2, <2>4
  <2> QED BY <2>2, <2>4, <2>5
<1>6. Right(Len(es))
  <2> HIDE DEF Right
  <2> QED BY <1>5
<1> QED BY <1>1, <1>6 DEF HasAll

LEMMA ListLength ==
  ASSUME Laws, NEW S \in SUBSET Prefix, NEW s, Listed(s, S, TRUE)
  PROVE  Cardinality(S) = Len(s)
<1>1. s \in Seq(S) /\ Len(s) \in Nat /\ DOMAIN s = 1..Len(s) /\ \A j \in DOMAIN s : j \in Nat /\ s[j] \in S
  BY ListedIs
<1>2. \A j, k \in DOMAIN s : s[j] = s[k] => j = k
  <2> TAKE j, k \in DOMAIN s
  <2>1. s[j] \in Prefix /\ ~Less(s[j], s[j])
    BY <1>1 DEF Laws, Sorting
  <2>2. j < k => Less(s[j], s[k])
    BY DEF Listed, Prec
  <2>3. k < j => Less(s[k], s[j])
    BY DEF Listed, Prec
  <2> QED BY <1>1, <2>1, <2>2, <2>3
<1>3. s \in [1..Len(s) -> S] /\ \A e \in S : \E i \in 1..Len(s) : s[i] = e
  BY <1>1 DEF Listed
<1>4. s \in Bijection(1..Len(s), S)
  BY <1>1, <1>2, <1>3 DEF Bijection, Injection, Surjection, IsInjective
<1>5. ExistsBijection(1..Len(s), S)
  BY <1>4 DEF ExistsBijection
<1> QED BY <1>1, <1>5, FS_CountingElements

\* What is read are the first entries, with their values.
LEMMA RereadIs ==
  ASSUME Laws, NEW t, Good(t), Iterable(t), NEW k \in 0..t.size
  PROVE  /\ Good(Reread(Written(t), k).t)
         /\ DOMAIN Reread(Written(t), k).t.val \subseteq DOMAIN t.val
         /\ \A q \in DOMAIN Reread(Written(t), k).t.val : Reread(Written(t), k).t.val[q] = t.val[q]
         /\ Reread(Written(t), k).ok => DOMAIN Reread(Written(t), k).t.val = DOMAIN t.val
         /\ Reread(Written(t), k).ok \in BOOLEAN
<1> DEFINE s == Entries(t)
           es == [i \in DOMAIN s |-> <<s[i], t.val[s[i]]>>]
           part == SubSeq(es, 1, k)
<1>0. /\ Entry(t) = DOMAIN t.val /\ Entry(t) \subseteq Prefix /\ t.size = Cardinality(Entry(t)) /\ t.size \in Nat
      /\ \A q \in Entry(t) : t.val[q] \in Value
  BY FS_CardinalityType DEF Good, Shape, Counted, Entry
<1>1. Listed(s, Entry(t), TRUE)
  BY EntriesAre
<1>2. Reread(Written(t), k) = [t |-> InsertAll(part), ok |-> k >= t.size]
  BY DEF Reread, Written
<1> HIDE DEF s
<1>3. s \in Seq(Entry(t)) /\ Len(s) \in Nat /\ DOMAIN s = 1..Len(s) /\ \A j \in DOMAIN s : j \in Nat /\ s[j] \in Entry(t)
  BY <1>1, ListedIs
<1>4. Len(s) = t.size
  BY <1>0, <1>1, ListLength
<1>5. es \in Seq(Prefix \X Value) /\ Len(es) = t.size /\ \A i \in 1..t.size : es[i] = <<s[i], t.val[s[i]]>>
  <2>1. es \in [1..Len(s) -> Prefix \X Value]
    BY <1>0, <1>3
  <2>2. \A i \in 1..Len(s) : es[i] = <<s[i], t.val[s[i]]>>
    BY <1>3
  <2> HIDE DEF es
  <2>3. es \in Seq(Prefix \X Value)
    BY <1>3, <2>1
  <2>4. Len(es) = Len(s)
    BY <1>3, <2>1, <2>3
  <2> QED BY <1>4, <2>2, <2>3, <2>4
<1> HIDE DEF es
<1>6. Len(part) = k /\ \A i \in 1..k : part[i] = <<s[i], t.val[s[i]]>>
  <2>1. 1 \in 1..(Len(es) + 1) /\ k \in 0..Len(es) /\ k \in Nat
    BY <1>0, <1>5
  <2>2. Len(part) = k /\ \A i \in 1..k : part[i] = es[i]
    BY <1>5, <2>1
  <2> QED BY <1>0, <1>5, <2>2
<1> DEFINE T == InsertAll(part)
<1> HIDE DEF part
<1>7. k \in Nat /\ \A i \in 1..k : i \in DOMAIN s /\ s[i] \in Entry(t) /\ part[i][1] = s[i] /\ part[i][2] = t.val[s[i]]
  <2>1. \A i \in 1..k : i \in 1..t.size
    BY <1>0
  <2> QED BY <1>0, <1>3, <1>4, <1>6, <2>1
<1>8. /\ Good(T)
      /\ DOMAIN T.val = {part[i][1] : i \in 1..k}
      /\ \A g : (\A i \in 1..k : part[i][2] = g[part[i][1]]) => \A q \in DOMAIN T.val : T.val[q] = g[q]
  <2>1. Len(part) \in Nat /\ Len(part) = k /\ \A i \in 1..Len(part) : part[i][1] \in Prefix /\ part[i][2] \in Value
    BY <1>0, <1>6, <1>7
  <2>2. HasAll(T, part)
    BY ONLY Laws, <2>1, InsertAllIs
  <2> QED BY <2>1, <2>2 DEF HasAll
<1> HIDE DEF T
<1>9. DOMAIN T.val = {s[i] : i \in 1..k}
  BY <1>7, <1>8
<1>10. \A q \in DOMAIN T.val : T.val[q] = t.val[q]
  BY <1>7, <1>8
<1>11. DOMAIN T.val \subseteq DOMAIN t.val
  BY <1>0, <1>7, <1>9
<1>12. ASSUME k >= t.size PROVE DOMAIN T.val = DOMAIN t.val
  <2>1. k = t.size
    BY <1>0, <1>12
  <2>2. \A q \in Entry(t) : \E i \in 1..k : s[i] = q
    BY <1>1, <1>3, <1>4, <2>1 DEF Listed
  <2> QED BY <1>0, <1>9, <1>11, <2>2
<1> DEFINE r == Reread(Written(t), k)
<1>13. r.t = T /\ r.ok \in BOOLEAN /\ (r.ok => k >= t.size)
  <2> DEFINE b == k >= t.size
  <2>1. b \in BOOLEAN /\ (b => k >= t.size)
    OBVIOUS
  <2> HIDE DEF b
  <2>2. r = [t |-> T, ok |-> b]
    BY <1>2 DEF T, b
  <2> HIDE DEF r
  <2> QED BY <2>1, <2>2
<1> HIDE DEF r
<1>14. Good(r.t) /\ DOMAIN r.t.val \subseteq DOMAIN t.val /\ (\A q \in DOMAIN r.t.val : r.t.val[q] = t.val[q])
  BY <1>8, <1>10, <1>11, <1>13
<1>15. r.ok => DOMAIN r.t.val = DOMAIN t.val
  BY <1>12, <1>13
<1> QED BY <1>13, <1>14, <1>15 DEF r
=============================================================================
