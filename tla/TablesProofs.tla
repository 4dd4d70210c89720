---------------------------- MODULE TablesProofs ----------------------------
(***************************************************************************)
(* Proofs about the tables of prefixes, and about the ranges of addresses. *)
(***************************************************************************)
EXTENDS MCTables, FiniteSetTheorems, WellFoundedInduction, TLAPS

-----------------------------------------------------------------------------
(* Numbers and sets.                                                       *)

LEMMA LeastOf ==
  ASSUME NEW S \in SUBSET Nat, S # {}
  PROVE  \E m \in S : \A n \in S : m <= n
<1>1. PICK m \in S : \A n \in S : ~(<<n, m>> \in OpToRel(<, Nat))
  BY NatLessThanWellFounded, WFMin, Zenon
<1>2. \A n \in S : ~(n < m)
  BY <1>1, Zenon DEF OpToRel
<1> QED BY <1>2

LEMMA GreatestOf ==
  ASSUME NEW n \in Nat, NEW S \in SUBSET (0..n), S # {}
  PROVE  \E m \in S : \A i \in S : m >= i
<1> DEFINE T == {n - i : i \in S}
<1>0. \A i \in S : n - i \in Nat
  OBVIOUS
<1>1. T \in SUBSET Nat /\ T # {}
  BY <1>0, Zenon
<1>2. PICK m \in T : \A t \in T : m <= t
  BY <1>1, LeastOf, Zenon
<1>3. PICK k \in S : m = n - k
  BY <1>2
<1>4. \A i \in S : k >= i
  BY <1>2, <1>3
<1> QED BY <1>4

\* The prover has no rules for powers, but counts the subsets of a set by one.
LEMMA PowerIs ==
  ASSUME NEW n \in Nat
  PROVE  /\ IsFiniteSet(SUBSET (1..n))
         /\ 2^n = Cardinality(SUBSET (1..n))
<1>1. IsFiniteSet(1..n) /\ Cardinality(1..n) = n
  BY FS_Interval
<1> DEFINE S == 1..n
<1>2. IsFiniteSet(S) /\ Cardinality(S) = n
  BY <1>1
<1> HIDE DEF S
<1>3. IsFiniteSet(SUBSET S) /\ Cardinality(SUBSET S) = 2^Cardinality(S)
  BY <1>2, FS_SUBSET
<1> QED BY <1>2, <1>3 DEF S

LEMMA PowerPositive ==
  ASSUME NEW n \in Nat
  PROVE  2^n \in Nat \ {0}
<1> DEFINE S == SUBSET (1..n)
<1>1. IsFiniteSet(S) /\ 2^n = Cardinality(S) /\ S # {}
  BY PowerIs, Zenon
<1> HIDE DEF S
<1>2. Cardinality(S) \in Nat /\ Cardinality(S) # 0
  BY <1>1, FS_CardinalityType, FS_EmptySet
<1> QED BY <1>1, <1>2

LEMMA PowerDoubles ==
  ASSUME NEW n \in Nat
  PROVE  2^(n + 1) = 2 * 2^n
<1> DEFINE S == SUBSET (1..n)
           U == SUBSET (1..(n + 1))
           T == U \ S
<1>1. IsFiniteSet(S) /\ 2^n = Cardinality(S)
  BY PowerIs
<1>2. IsFiniteSet(U) /\ 2^(n + 1) = Cardinality(U)
  BY PowerIs
<1>3. S \subseteq U
  OBVIOUS
<1>4. ExistsBijection(S, T)
  <2> DEFINE f == [s \in S |-> s \cup {n + 1}]
  <2>1. \A s \in S : f[s] \in T
    OBVIOUS
  <2>2. \A s, t \in S : f[s] = f[t] => s = t
    <3> SUFFICES ASSUME NEW s \in S, NEW t \in S, s \cup {n + 1} = t \cup {n + 1} PROVE s = t
      OBVIOUS
    <3>1. n + 1 \notin s /\ n + 1 \notin t
      OBVIOUS
    <3> QED BY <3>1
  <2>3. ASSUME NEW u \in T PROVE \E s \in S : f[s] = u
    <3>1. u \subseteq 1..(n + 1) /\ ~(u \subseteq 1..n)
      OBVIOUS
    <3>2. n + 1 \in u
      BY <3>1
    <3>3. u \ {n + 1} \in S
      BY <3>1
    <3>4. (u \ {n + 1}) \cup {n + 1} = u
      BY <3>2
    <3> QED BY <3>3, <3>4, Zenon
  <2>4. f \in Bijection(S, T)
    <3>1. f \in [S -> T]
      BY <2>1
    <3> HIDE DEF f, S, T
    <3>2. f \in Injection(S, T)
      BY <3>1, <2>2 DEF Injection, IsInjective
    <3>3. f \in Surjection(S, T)
      BY <3>1, <2>3 DEF Surjection
    <3> QED BY <3>2, <3>3 DEF Bijection
  <2> QED BY <2>4, Zenon DEF ExistsBijection
<1> HIDE DEF S, U, T
<1>5. IsFiniteSet(T) /\ Cardinality(T) = Cardinality(U) - Cardinality(U \cap S)
  BY <1>2, FS_Difference DEF T
<1>6. U \cap S = S
  BY <1>3
<1>7. Cardinality(T) = Cardinality(S)
  BY <1>1, <1>4, FS_Bijection
<1>8. Cardinality(S) \in Nat /\ Cardinality(U) \in Nat
  BY <1>1, <1>2, FS_CardinalityType
<1> QED BY <1>1, <1>2, <1>5, <1>6, <1>7, <1>8

LEMMA DivIs ==
  ASSUME NEW m \in Nat \ {0}, NEW q \in Int, NEW r \in 0..(m - 1), NEW x \in Int, x = m * q + r
  PROVE  x \div m = q /\ x % m = r
<1> DEFINE p == x \div m
           t == x % m
<1>1. p \in Int /\ t \in 0..(m - 1) /\ x = m * p + t
  OBVIOUS
<1> HIDE DEF p, t
<1>2. m * (p - q) = r - t
  BY <1>1
<1>3. p - q = 0
  <2>1. ASSUME p - q >= 1 PROVE FALSE
    <3>1. m * (p - q) >= m
      BY <1>1, <2>1
    <3> QED BY <1>1, <1>2, <3>1
  <2>2. ASSUME p - q <= -1 PROVE FALSE
    <3>1. m * (p - q) <= -m
      BY <1>1, <2>2
    <3> QED BY <1>1, <1>2, <3>1
  <2> QED BY <1>1, <2>1, <2>2
<1>4. p = q
  BY <1>1, <1>3
<1>5. t = r
  BY <1>1, <1>2, <1>3
<1> QED BY <1>4, <1>5 DEF p, t

LEMMA DivZero ==
  ASSUME NEW m \in Nat \ {0}, NEW x \in 0..(m - 1)
  PROVE  x \div m = 0
<1>1. x = m * 0 + x /\ x \in Int /\ 0 \in Int
  OBVIOUS
<1> QED BY <1>1, DivIs

LEMMA DivFacts ==
  ASSUME NEW x \in Nat, NEW m \in Nat \ {0}
  PROVE  x \div m \in Nat /\ x % m \in 0..(m - 1) /\ x = m * (x \div m) + (x % m)
<1> DEFINE p == x \div m
           t == x % m
<1>1. p \in Int /\ t \in 0..(m - 1) /\ x = m * p + t
  OBVIOUS
<1> HIDE DEF p, t
<1>2. p >= 0
  <2>1. ASSUME p <= -1 PROVE FALSE
    <3>1. m * p <= -m
      BY <1>1, <2>1
    <3> QED BY <1>1, <3>1
  <2> QED BY <1>1, <2>1
<1> QED BY <1>1, <1>2 DEF p, t

\* Twice the divisor, and one bit less.
LEMMA DivHalves ==
  ASSUME NEW x \in Nat, NEW m \in Nat \ {0}
  PROVE  x \div (2 * m) = (x \div m) \div 2
<1> DEFINE q == x \div m
           r == x % m
           h == q \div 2
           s == q % 2
<1>1. q \in Nat /\ r \in 0..(m - 1) /\ x = m * q + r
  BY DivFacts, Zenon
<1>2. h \in Nat /\ s \in 0..1 /\ q = 2 * h + s
  BY <1>1, DivFacts
<1> HIDE DEF q, r, h, s
<1>3. x = (2 * m) * h + (m * s + r)
  BY <1>1, <1>2
<1>4. m * s + r \in 0..(2 * m - 1)
  <2>1. CASE s = 0
    BY <1>1, <2>1
  <2>2. CASE s = 1
    BY <1>1, <2>2
  <2> QED BY <1>2, <2>1, <2>2
<1> DEFINE d == 2 * m
           t == m * s + r
<1>5. d \in Nat \ {0} /\ t \in 0..(d - 1) /\ x = d * h + t
  BY <1>3, <1>4
<1> HIDE DEF d, t
<1>6. x \div d = h
  BY <1>2, <1>5, DivIs
<1> QED BY <1>6 DEF d, h, q

-----------------------------------------------------------------------------
(* Addresses and prefixes.                                                 *)

Unit(l) == 2^(W - l)
Leading(a, l) == a \div Unit(l)
BitOf(a, i) == (a \div 2^(W - 1 - i)) % 2

LEMMA UnitIs ==
  ASSUME NEW l \in 0..W
  PROVE  /\ Unit(l) \in Nat \ {0}
         /\ l < W => Unit(l) = 2 * Unit(l + 1)
         /\ Unit(W) = 1
<1>1. W \in Nat \ {0} /\ W - l \in Nat
  BY WAssumption
<1>2. Unit(l) \in Nat \ {0}
  BY <1>1, PowerPositive DEF Unit
<1>3. l < W => Unit(l) = 2 * Unit(l + 1)
  <2> SUFFICES ASSUME l < W PROVE Unit(l) = 2 * Unit(l + 1)
    OBVIOUS
  <2> DEFINE n == W - (l + 1)
  <2>1. n \in Nat /\ W - l = n + 1
    BY <1>1
  <2>2. 2^(n + 1) = 2 * 2^n
    BY <2>1, PowerDoubles
  <2> QED BY <2>1, <2>2 DEF Unit
<1>4. Unit(W) = 1
  <2>1. W - W = 0
    BY <1>1
  <2>2. 2^0 = 1
    OBVIOUS
  <2> QED BY <2>1, <2>2, Zenon DEF Unit
<1> QED BY <1>2, <1>3, <1>4

LEMMA AddressIs == Address = 0..(Unit(0) - 1) /\ Address \subseteq Nat /\ Top \in Nat
<1>1. W - 0 = W /\ 0 \in 0..W
  BY WAssumption
<1>2. Unit(0) = 2^W /\ Unit(0) \in Nat \ {0}
  BY <1>1, UnitIs DEF Unit
<1> QED BY <1>2 DEF Address, Top

\* The leading bits of an address, one by one.
LEMMA LeadingStep ==
  ASSUME NEW a \in Address, NEW l \in 0..(W - 1)
  PROVE  /\ Leading(a, l) = Leading(a, l + 1) \div 2
         /\ BitOf(a, l) = Leading(a, l + 1) % 2
         /\ Leading(a, l + 1) = 2 * Leading(a, l) + BitOf(a, l)
<1>1. W \in Nat \ {0} /\ l \in 0..W /\ l + 1 \in 0..W /\ l < W /\ a \in Nat
  BY WAssumption, AddressIs
<1> DEFINE m == Unit(l + 1)
<1>2. m \in Nat \ {0} /\ Unit(l) = 2 * m
  BY <1>1, UnitIs
<1>3. W - 1 - l = W - (l + 1)
  BY <1>1
<1> DEFINE x == a \div m
<1>4. x \in Nat
  BY <1>1, <1>2, DivFacts, Zenon
<1>5. BitOf(a, l) = x % 2 /\ Leading(a, l + 1) = x
  BY <1>3 DEF BitOf, Leading, Unit
<1>6. Leading(a, l) = x \div 2
  BY <1>1, <1>2, DivHalves DEF Leading
<1> HIDE DEF x
<1>7. x = 2 * (x \div 2) + (x % 2)
  BY <1>4, DivFacts
<1> QED BY <1>5, <1>6, <1>7

\* Two addresses have the same leading bits if and only if the numbers that
\* these bits make are the same.
LEMMA SameLeading ==
  ASSUME NEW a \in Address, NEW b \in Address, NEW l \in 0..W
  PROVE  (\A i \in 0..(W - 1) : i < l => BitOf(a, i) = BitOf(b, i)) <=> Leading(a, l) = Leading(b, l)
<1>0. W \in Nat \ {0}
  BY WAssumption
<1>1. ASSUME \A i \in 0..(W - 1) : i < l => BitOf(a, i) = BitOf(b, i)
      PROVE  Leading(a, l) = Leading(b, l)
  <2> SUFFICES ASSUME Leading(a, l) # Leading(b, l) PROVE FALSE
    OBVIOUS
  <2> DEFINE S == {k \in 0..l : Leading(a, k) # Leading(b, k)}
  <2>1. S \in SUBSET Nat /\ S # {}
    BY <1>0
  <2>2. PICK k \in S : \A j \in S : k <= j
    BY <2>1, LeastOf, Zenon
  <2>3. k # 0
    <3>1. Leading(a, 0) = 0 /\ Leading(b, 0) = 0
      <4>1. Unit(0) \in Nat \ {0} /\ a \in 0..(Unit(0) - 1) /\ b \in 0..(Unit(0) - 1)
        BY <1>0, UnitIs, AddressIs
      <4> QED BY <4>1, DivZero DEF Leading
    <3> QED BY <2>2, <3>1
  <2>4. k - 1 \in 0..(W - 1) /\ k - 1 < l /\ k - 1 \in 0..l /\ k - 1 + 1 = k
    BY <1>0, <2>2, <2>3
  <2>5. Leading(a, k - 1) = Leading(b, k - 1)
    BY <2>2, <2>4
  <2>6. BitOf(a, k - 1) = BitOf(b, k - 1)
    BY <1>1, <2>4
  <2>7. Leading(a, k) = Leading(b, k)
    BY <2>4, <2>5, <2>6, LeadingStep
  <2> QED BY <2>2, <2>7
<1>2. ASSUME Leading(a, l) = Leading(b, l), NEW i \in 0..(W - 1), i < l
      PROVE  BitOf(a, i) = BitOf(b, i)
  <2> DEFINE S == {k \in 0..l : Leading(a, k) # Leading(b, k)}
  <2>1. S = {}
    <3> SUFFICES ASSUME S # {} PROVE FALSE
      OBVIOUS
    <3>1. l \in Nat /\ S \in SUBSET (0..l)
      BY <1>0
    <3>2. PICK k \in S : \A j \in S : k >= j
      BY <3>1, GreatestOf, Zenon
    <3>3. k # l /\ k \in 0..(W - 1) /\ k + 1 \in 0..l
      BY <1>0, <1>2, <3>2
    <3>4. Leading(a, k + 1) = Leading(b, k + 1)
      BY <3>2, <3>3
    <3>5. Leading(a, k) = Leading(b, k)
      BY <3>3, <3>4, LeadingStep
    <3> QED BY <3>2, <3>5
  <2>2. i + 1 \in 0..l
    BY <1>0, <1>2
  <2>3. Leading(a, i + 1) = Leading(b, i + 1)
    BY <2>1, <2>2
  <2> QED BY <2>3, LeadingStep
<1> QED BY <1>1, <1>2

\* The address without the bits that do not count.
LEMMA MaskedIs ==
  ASSUME NEW a \in Address, NEW l \in 0..W
  PROVE  /\ a - (a % Unit(l)) = Unit(l) * Leading(a, l)
         /\ a - (a % Unit(l)) \in Address
         /\ (a - (a % Unit(l))) % Unit(l) = 0
         /\ Leading(a - (a % Unit(l)), l) = Leading(a, l)
<1> DEFINE m == Unit(l)
           q == Leading(a, l)
           r == a % m
<1>1. m \in Nat \ {0} /\ a \in Nat
  BY UnitIs, AddressIs
<1>2. q \in Nat /\ r \in 0..(m - 1) /\ a = m * q + r
  BY <1>1, DivFacts, Zenon DEF Leading
<1>3. a - r = m * q /\ a - r \in 0..a
  <2> HIDE DEF m, q, r
  <2>1. m * q \in Nat
    BY <1>1, <1>2
  <2> QED BY <1>1, <1>2, <2>1
<1>4. a - r \in Address
  <2> DEFINE u == Unit(0)
  <2>1. Address = 0..(u - 1) /\ u \in Int
    <3>1. 0 \in 0..W
      BY WAssumption
    <3> QED BY <3>1, AddressIs, UnitIs
  <2> HIDE DEF u, r, m
  <2> QED BY <1>1, <1>3, <2>1
<1> DEFINE c == a - r
<1>5. c \in Int /\ c = m * q + 0 /\ 0 \in 0..(m - 1)
  <2> HIDE DEF m, q, r
  <2> QED BY <1>1, <1>2, <1>3
<1>6. c \div m = q /\ c % m = 0
  <2>1. q \in Int
    BY <1>2
  <2> HIDE DEF m, q, c
  <2>2. c \div m = q
    BY <1>1, <1>5, <2>1, DivIs
  <2>3. c % m = 0
    BY <1>1, <1>5, <2>1, DivIs
  <2> QED BY <2>2, <2>3
<1> QED BY <1>3, <1>4, <1>6 DEF Leading

\* A prefix is what its leading bits say.
LEMMA PrefixIs ==
  ASSUME NEW p \in Prefix
  PROVE  /\ p.net \in Address /\ p.len \in 0..W
         /\ p = [net |-> p.net, len |-> p.len]
         /\ p.net = Unit(p.len) * Leading(p.net, p.len)
<1>1. p \in [net : Address, len : 0..W] /\ p.net % 2^(W - p.len) = 0
  BY DEF Prefix
<1>2. p.net \in Address /\ p.len \in 0..W /\ p = [net |-> p.net, len |-> p.len]
  BY <1>1
<1>3. p.net - (p.net % Unit(p.len)) = Unit(p.len) * Leading(p.net, p.len)
  BY <1>2, MaskedIs
<1>4. p.net % Unit(p.len) = 0 /\ p.net \in Nat
  BY <1>1, <1>2, AddressIs DEF Unit
<1>5. p.net - 0 = p.net
  BY <1>4
<1> QED BY <1>2, <1>3, <1>4, <1>5

\* An address cut to a length is the one prefix of this length that contains it.
LEMMA NewIs ==
  ASSUME NEW a \in Address, NEW l \in 0..W
  PROVE  /\ New(a, l) \in Prefix /\ New(a, l).len = l
         /\ \A p \in Prefix : p = New(a, l) <=> p.len = l /\ Leading(p.net, l) = Leading(a, l)
<1>1. New(a, l) = [net |-> a - (a % Unit(l)), len |-> l]
  BY DEF New, Masked, Unit
<1>2. New(a, l) \in Prefix
  BY <1>1, MaskedIs DEF Prefix, Unit
<1>3. ASSUME NEW p \in Prefix, p.len = l, Leading(p.net, l) = Leading(a, l)
      PROVE  p = New(a, l)
  BY <1>1, <1>3, PrefixIs, MaskedIs
<1>4. ASSUME NEW p \in Prefix, p = New(a, l)
      PROVE  p.len = l /\ Leading(p.net, l) = Leading(a, l)
  BY <1>1, <1>4, MaskedIs
<1> QED BY <1>1, <1>2, <1>3, <1>4

\* The IPv4 test: the address is masked.
LEMMA Contains4 ==
  ASSUME NEW p \in Prefix, NEW a \in Address
  PROVE  ContainsAddress(p, a) <=> p = New(a, p.len)
<1>1. p.len \in 0..W /\ p = [net |-> p.net, len |-> p.len]
  BY PrefixIs
<1>2. New(a, p.len) = [net |-> Masked(a, p.len), len |-> p.len]
  BY DEF New
<1> QED BY <1>1, <1>2 DEF ContainsAddress

\* The IPv6 test: the first bit that differs does not count.
LEMMA Contains6 ==
  ASSUME NEW p \in Prefix, NEW a \in Address
  PROVE  Map6!ContainsAddress(p, a) <=> p = New(a, p.len)
<1>0. W \in Nat \ {0} /\ p.len \in 0..W /\ p.net \in Address
  BY WAssumption, PrefixIs
<1> DEFINE differ == {i \in 0..(W - 1) : BitOf(p.net, i) # BitOf(a, i)}
           f == Map6!FirstOneBit(p.net, a)
<1>1. f = IF differ = {} THEN W ELSE CHOOSE i \in differ : \A j \in differ : i <= j
  BY DEF Map6!FirstOneBit, BitOf
<1>2. differ # {} => f \in differ /\ \A j \in differ : f <= j
  <2> SUFFICES ASSUME differ # {} PROVE f \in differ /\ \A j \in differ : f <= j
    OBVIOUS
  <2>1. differ \in SUBSET Nat
    BY <1>0
  <2>2. \E i \in differ : \A j \in differ : i <= j
    <3> HIDE DEF differ
    <3> QED BY <2>1, LeastOf
  <2> HIDE DEF differ, f
  <2> QED BY <1>1, <2>2
<1>3. f >= p.len <=> \A i \in 0..(W - 1) : i < p.len => BitOf(p.net, i) = BitOf(a, i)
  <2>1. CASE differ = {}
    <3>1. f = W
      BY <1>1, <2>1
    <3> HIDE DEF f
    <3> QED BY <1>0, <2>1, <3>1
  <2>2. CASE differ # {}
    <3>1. f \in differ /\ \A j \in differ : f <= j
      BY <1>2, <2>2
    <3> HIDE DEF f
    <3> QED BY <1>0, <3>1
  <2> QED BY <2>1, <2>2
<1>4. f >= p.len <=> Leading(p.net, p.len) = Leading(a, p.len)
  BY <1>0, <1>3, SameLeading
<1>5. p = New(a, p.len) <=> Leading(p.net, p.len) = Leading(a, p.len)
  BY <1>0, NewIs
<1> QED BY <1>4, <1>5 DEF Map6!ContainsAddress

Greatest(S) == CHOOSE i \in S : \A j \in S : i >= j
LongestIn(M) == CHOOSE p \in M : \A q \in M : q.len <= p.len

\* Of several prefixes that contain an address, each is known by its length.
LEMMA LongestIs ==
  ASSUME NEW a \in Address, NEW M \in SUBSET Prefix, \A p \in M : p = New(a, p.len),
         NEW m \in 0..W, New(a, m) \in M, \A p \in M : p.len <= m
  PROVE  New(a, m) = LongestIn(M)
<1> DEFINE c == LongestIn(M)
<1>1. New(a, m).len = m
  BY NewIs
<1>2. c \in M /\ \A q \in M : q.len <= c.len
  BY <1>1 DEF LongestIn
<1> HIDE DEF c
<1>3. c.len \in 0..W /\ c = New(a, c.len)
  BY <1>2, PrefixIs
<1>4. c.len = m
  BY <1>1, <1>2, <1>3
<1> QED BY <1>3, <1>4 DEF c

\* The greatest of some lengths.
LEMMA GreatestLength ==
  ASSUME NEW hits \in SUBSET (0..W), hits # {}
  PROVE  Greatest(hits) \in hits /\ \A j \in hits : Greatest(hits) >= j
<1>1. W \in Nat
  BY WAssumption
<1>2. \E i \in hits : \A j \in hits : i >= j
  BY <1>1, GreatestOf, Zenon
<1> QED BY <1>2, Zenon DEF Greatest

\* From the longest length down, the first hit is the longest match.
LEMMA FirstHit ==
  ASSUME NEW a \in Address, NEW M \in SUBSET Prefix, \A p \in M : p = New(a, p.len),
         NEW hits, hits = {l \in 0..W : New(a, l) \in M}
  PROVE  IF hits = {} THEN M = {} ELSE M # {} /\ New(a, Greatest(hits)) = LongestIn(M)
<1>1. \A p \in M : p.len \in hits
  BY PrefixIs
<1> DEFINE m == Greatest(hits)
<1>2. ASSUME hits # {} PROVE M # {} /\ New(a, m) = LongestIn(M)
  <2>1. hits \in SUBSET (0..W)
    OBVIOUS
  <2>2. m \in hits /\ \A j \in hits : m >= j
    BY <1>2, <2>1, GreatestLength
  <2> HIDE DEF m
  <2>3. m \in 0..W /\ New(a, m) \in M
    BY <2>2
  <2>4. \A p \in M : p.len <= m
    BY <1>1, <2>2, <2>3
  <2> QED BY <2>3, <2>4, LongestIs
<1> QED BY <1>1, <1>2

-----------------------------------------------------------------------------
(* How many prefixes there are of each length.                             *)

Lengths(S) == {p.len : p \in S}
OfLength(S, l) == {p \in S : p.len = l}
Counts(S) == [l \in Lengths(S) |-> Cardinality(OfLength(S, l))]

LEMMA OneMore ==
  ASSUME NEW S, IsFiniteSet(S), NEW p, p \notin S
  PROVE  Counts(S \cup {p}) = Map4!CountUp(Counts(S), p.len)
<1> DEFINE T == S \cup {p}
           k == p.len
           c == Counts(S)
           d == Map4!CountUp(c, k)
<1>1. Lengths(T) = Lengths(S) \cup {k}
  BY DEF Lengths
<1>2. c = [l \in Lengths(S) |-> Cardinality(OfLength(S, l))]
  BY DEF Counts
<1>3. d = [l \in Lengths(S) \cup {k} |-> IF l = k THEN IF k \in Lengths(S) THEN c[k] + 1 ELSE 1 ELSE c[l]]
  BY <1>2 DEF Map4!CountUp, Map4!Bind
<1>4. ASSUME NEW l \in Lengths(T), l # k PROVE Cardinality(OfLength(T, l)) = c[l]
  <2>1. OfLength(T, l) = OfLength(S, l) /\ l \in Lengths(S)
    BY <1>1, <1>4 DEF OfLength
  <2> QED BY <1>2, <2>1
<1>5. Cardinality(OfLength(T, k)) = IF k \in Lengths(S) THEN c[k] + 1 ELSE 1
  <2> DEFINE R == OfLength(S, k)
  <2>1. IsFiniteSet(R) /\ p \notin R
    BY FS_Subset DEF OfLength
  <2>2. OfLength(T, k) = R \cup {p}
    BY DEF OfLength
  <2>3. Cardinality(R \cup {p}) = Cardinality(R) + 1
    BY <2>1, FS_AddElement, Zenon
  <2>4. k \in Lengths(S) => c[k] = Cardinality(R)
    BY <1>2
  <2>5. k \notin Lengths(S) => R = {}
    BY DEF OfLength, Lengths
  <2>6. Cardinality({}) = 0
    BY FS_EmptySet
  <2> QED BY <2>2, <2>3, <2>4, <2>5, <2>6
<1>6. Counts(T) = [l \in Lengths(S) \cup {k} |-> Cardinality(OfLength(T, l))]
  BY <1>1 DEF Counts
<1> HIDE DEF T, k, c, d
<1>7. Counts(T) = d
  BY <1>1, <1>3, <1>4, <1>5, <1>6
<1> QED BY <1>7 DEF T, k, c, d

LEMMA OneLess ==
  ASSUME NEW S, IsFiniteSet(S), NEW p \in S
  PROVE  Counts(S \ {p}) = Map4!CountDown(Counts(S), p.len)
<1> DEFINE T == S \ {p}
           k == p.len
           c == Counts(S)
           R == OfLength(S, k)
<1>1. c = [l \in Lengths(S) |-> Cardinality(OfLength(S, l))] /\ k \in Lengths(S)
  BY DEF Counts, Lengths
<1>2. IsFiniteSet(R) /\ p \in R
  BY FS_Subset DEF OfLength
<1>3. OfLength(T, k) = R \ {p} /\ IsFiniteSet(R \ {p}) /\ Cardinality(R \ {p}) = c[k] - 1
  <2>1. OfLength(T, k) = R \ {p}
    BY DEF OfLength
  <2> HIDE DEF R
  <2>2. IsFiniteSet(R \ {p}) /\ Cardinality(R \ {p}) = Cardinality(R) - 1
    BY <1>2, FS_RemoveElement
  <2>3. c[k] = Cardinality(R)
    BY <1>1 DEF R
  <2> QED BY <2>1, <2>2, <2>3
<1>4. \A l : l # k => OfLength(T, l) = OfLength(S, l)
  BY DEF OfLength
<1>5. \A l : l # k => (l \in Lengths(T) <=> l \in Lengths(S))
  BY DEF Lengths
<1>6. k \in Lengths(T) <=> R \ {p} # {}
  BY <1>3 DEF Lengths, OfLength
<1>7. c[k] \in Nat /\ (c[k] = 1 <=> R \ {p} = {})
  <2>1. Cardinality(R) \in Nat /\ c[k] = Cardinality(R)
    BY <1>1, <1>2, FS_CardinalityType
  <2>2. Cardinality(R \ {p}) = 0 <=> R \ {p} = {}
    BY <1>3, FS_EmptySet
  <2> QED BY <1>3, <2>1, <2>2
<1>8. CASE c[k] = 1
  <2>1. Lengths(T) = Lengths(S) \ {k}
    BY <1>5, <1>6, <1>7, <1>8
  <2>2. Map4!CountDown(c, k) = [l \in Lengths(S) \ {k} |-> c[l]]
    BY <1>1, <1>8 DEF Map4!CountDown, Map4!Without
  <2>3. Counts(T) = [l \in Lengths(S) \ {k} |-> Cardinality(OfLength(S, l))]
    BY <1>4, <2>1 DEF Counts
  <2> QED BY <1>1, <2>2, <2>3
<1>9. CASE c[k] # 1
  <2>1. Lengths(T) = Lengths(S)
    BY <1>1, <1>5, <1>6, <1>7, <1>9
  <2>2. Map4!CountDown(c, k) = [l \in Lengths(S) |-> IF l = k THEN c[k] - 1 ELSE c[l]]
    BY <1>1, <1>9 DEF Map4!CountDown
  <2>3. Counts(T) = [l \in Lengths(S) |-> Cardinality(OfLength(T, l))]
    BY <2>1 DEF Counts
  <2>4. \A l \in Lengths(S) : Cardinality(OfLength(T, l)) = IF l = k THEN c[k] - 1 ELSE c[l]
    BY <1>1, <1>3, <1>4
  <2> QED BY <2>2, <2>3, <2>4
<1> QED BY <1>8, <1>9

-----------------------------------------------------------------------------
(* Functions from prefixes.                                                *)

IsTable(f) ==
  /\ DOMAIN f \subseteq Prefix
  /\ f \in [DOMAIN f -> Value]
  /\ IsFiniteSet(DOMAIN f)

LEMMA EmptyTable == IsTable(<<>>) /\ DOMAIN <<>> = {} /\ Counts({}) = <<>>
<1>1. IsFiniteSet({})
  BY FS_EmptySet
<1>2. Lengths({}) = {}
  BY DEF Lengths
<1>3. Counts({}) = <<>>
  BY <1>2 DEF Counts
<1> QED BY <1>1, <1>3 DEF IsTable

LEMMA BoundTable ==
  ASSUME NEW f, IsTable(f), NEW p \in Prefix, NEW v \in Value
  PROVE  /\ IsTable(Map4!Bind(f, p, v))
         /\ DOMAIN Map4!Bind(f, p, v) = DOMAIN f \cup {p}
<1> DEFINE g == Map4!Bind(f, p, v)
<1>1. g = [q \in DOMAIN f \cup {p} |-> IF q = p THEN v ELSE f[q]]
  BY DEF Map4!Bind
<1>2. IsFiniteSet(DOMAIN f \cup {p})
  BY FS_AddElement DEF IsTable
<1>3. DOMAIN g = DOMAIN f \cup {p}
  BY <1>1
<1>4. g \in [DOMAIN f \cup {p} -> Value]
  BY <1>1 DEF IsTable
<1> HIDE DEF g
<1> QED BY <1>2, <1>3, <1>4 DEF IsTable, g

LEMMA PartTable ==
  ASSUME NEW f, IsTable(f), NEW S \in SUBSET DOMAIN f
  PROVE  /\ IsTable(Map6!Only(f, S))
         /\ DOMAIN Map6!Only(f, S) = S
<1>1. Map6!Only(f, S) = [q \in S |-> f[q]]
  BY DEF Map6!Only
<1>2. IsFiniteSet(S)
  BY FS_Subset DEF IsTable
<1> QED BY <1>1, <1>2 DEF IsTable

-----------------------------------------------------------------------------
(* Ipv4PrefixMap.                                                          *)

Map4Inv == IsTable(store) /\ counters = Counts(DOMAIN store)

LEMMA Map4Init == Map4!Init => Map4Inv
  BY EmptyTable DEF Map4!Init, Map4Inv

LEMMA Map4Add ==
  ASSUME Map4Inv, NEW p \in Keys, NEW v \in Value, Map4!Add(p, v)
  PROVE  Map4Inv'
<1>1. p \in Prefix
  BY KeysAssumption
<1>2. store' = Map4!Bind(store, p, v)
  BY DEF Map4!Add
<1>3. IsTable(store)' /\ DOMAIN store' = DOMAIN store \cup {p}
  BY <1>1, <1>2, BoundTable, Zenon DEF Map4Inv, IsTable
<1>4. counters' = Counts(DOMAIN store \cup {p})
  <2>1. CASE p \in DOMAIN store
    <3>1. DOMAIN store \cup {p} = DOMAIN store
      BY <2>1
    <3> QED BY <2>1, <3>1 DEF Map4!Add, Map4Inv
  <2>2. CASE p \notin DOMAIN store
    BY <2>2, OneMore DEF Map4!Add, Map4Inv, IsTable
  <2> QED BY <2>1, <2>2
<1> QED BY <1>3, <1>4 DEF Map4Inv, Counts, OfLength, Lengths

LEMMA Map4Remove ==
  ASSUME Map4Inv, NEW p, Map4!Remove(p)
  PROVE  Map4Inv'
<1>1. CASE p \notin DOMAIN store
  <2>1. UNCHANGED <<store, counters>>
    BY <1>1 DEF Map4!Remove
  <2> QED BY <2>1 DEF Map4Inv, IsTable, Counts, OfLength, Lengths
<1>2. CASE p \in DOMAIN store
  <2>1. store' = Map6!Only(store, DOMAIN store \ {p})
    BY <1>2 DEF Map4!Remove, Map4!Without, Map6!Only
  <2>2. IsTable(store)' /\ DOMAIN store' = DOMAIN store \ {p}
    BY <2>1, PartTable DEF Map4Inv, IsTable
  <2>3. counters' = Counts(DOMAIN store \ {p})
    BY <1>2, OneLess DEF Map4!Remove, Map4Inv, IsTable
  <2> QED BY <2>2, <2>3 DEF Map4Inv, Counts, OfLength, Lengths
<1> QED BY <1>1, <1>2

LEMMA Map4Intact == Map4Inv => Map4!Intact
<1> SUFFICES ASSUME Map4Inv PROVE Map4!Intact
  OBVIOUS
<1>1. \A S : Map4!Cardinality(S) = Cardinality(S)
  BY DEF Map4!Cardinality, Cardinality
<1> QED BY <1>1 DEF Map4Inv, Map4!Intact, Counts, OfLength, Lengths

\* The names of an instance are those of the module.
LEMMA Names4 ==
  /\ Map4!Address = Address /\ Map4!None.len = W + 1
  /\ \A a, l : Map4!New(a, l) = New(a, l)
  /\ \A p, a : Map4!ContainsAddress(p, a) <=> ContainsAddress(p, a)
  BY DEF Map4!Address, Map4!Top, Address, Top, Map4!New, Map4!Masked, New, Masked,
         Map4!ContainsAddress, ContainsAddress, Map4!None

\* An address cut to no less than all its bits, and then to some.
LEMMA CutIs ==
  ASSUME NEW a \in Address, NEW l \in 0..W
  PROVE  /\ Map4!Cut(Map4!New(a, W), l) = New(a, l)
         /\ Map6!Cut(Map6!New(a, W), l) = New(a, l)
         /\ Routes6!Cut(Routes6!New(a, W), l) = New(a, l)
<1>1. a \in Nat /\ W \in Nat \ {0} /\ W - W = 0 /\ W - l \in Nat
  BY WAssumption, AddressIs
<1>2. 2^(W - W) = 1
  <2>1. 2^0 = 1
    OBVIOUS
  <2> QED BY <1>1, <2>1
<1>3. a % 1 = 0
  BY <1>1
<1>4. a - (a % 2^(W - W)) = a
  <2>1. a % 2^(W - W) = 0
    BY <1>2, <1>3
  <2> QED BY <1>1, <2>1
<1> DEFINE b == a - (a % 2^(W - W))
           c == a - (a % 2^(W - l))
<1>5. New(a, W) = [net |-> a, len |-> W] /\ New(a, l) = [net |-> c, len |-> l]
  BY <1>4 DEF New, Masked
<1>6. l = W => c = a
  BY <1>4
<1>7. Map4!Cut(Map4!New(a, W), l) = New(a, l)
  <2>1. Map4!New(a, W) = [net |-> a, len |-> W] /\ Map4!New(a, l) = [net |-> c, len |-> l]
    BY <1>5, Names4
  <2>2. CASE l = W
    <3>1. Map4!Cut([net |-> a, len |-> W], W) = [net |-> a, len |-> W]
      BY <1>1 DEF Map4!Cut
    <3> QED BY <1>5, <2>1, <2>2, <3>1
  <2>3. CASE l < W
    <3>1. Map4!Cut([net |-> a, len |-> W], l) = Map4!New(a, l)
      BY <1>1, <2>3 DEF Map4!Cut
    <3> QED BY <1>5, <2>1, <3>1
  <2> QED BY <1>1, <2>2, <2>3
<1>8. /\ Map6!New(a, W) = [net |-> a, len |-> W] /\ Map6!New(a, l) = [net |-> c, len |-> l]
      /\ Routes6!New(a, W) = [net |-> a, len |-> W] /\ Routes6!New(a, l) = [net |-> c, len |-> l]
  BY <1>4 DEF Map6!New, Map6!MaskBits, Routes6!New, Routes6!MaskBits
<1>9. Map6!Cut(Map6!New(a, W), l) = Map6!New(a, l) /\ Routes6!Cut(Routes6!New(a, W), l) = Routes6!New(a, l)
  <2> HIDE DEF c
  <2> QED BY <1>8 DEF Map6!Cut, Routes6!Cut
<1> QED BY <1>5, <1>7, <1>8, <1>9

LEMMA Map4Lookups == Map4Inv => Map4!LookupsExact
<1> SUFFICES ASSUME Map4Inv, NEW a \in Address
             PROVE  LET matches == {p \in DOMAIN store : ContainsAddress(p, a)}
                    IN  /\ Map4!FindMatches(a) = matches
                        /\ Map4!FindLongest(a) = IF matches = {} THEN Map4!None
                                  ELSE CHOOSE p \in matches : \A q \in matches : q.len <= p.len
  BY Names4 DEF Map4!LookupsExact
<1> DEFINE M == {p \in DOMAIN store : ContainsAddress(p, a)}
<1>1. DOMAIN store \subseteq Prefix /\ DOMAIN counters = {p.len : p \in DOMAIN store}
  BY DEF Map4Inv, IsTable, Counts, Lengths
<1>2. M \in SUBSET Prefix /\ \A p \in DOMAIN store : p \in M <=> p = New(a, p.len)
  BY <1>1, Contains4
<1>3. ASSUME NEW l PROVE l \in DOMAIN counters /\ New(a, l) \in DOMAIN store <=> l \in 0..W /\ New(a, l) \in M
  <2>1. ASSUME New(a, l) \in DOMAIN store PROVE New(a, l).len = l /\ l \in 0..W /\ l \in DOMAIN counters
    <3>1. New(a, l).len = l
      BY DEF New
    <3> QED BY <1>1, <2>1, <3>1, PrefixIs
  <2>2. New(a, l) \in DOMAIN store => New(a, l) \in M
    BY <1>2, <2>1
  <2> QED BY <2>1, <2>2
<1>4. Map4!FindMatches(a) = M
  <2>1. Map4!FindMatches(a) = {New(a, l) : l \in DOMAIN counters} \cap DOMAIN store
    BY Names4 DEF Map4!FindMatches
  <2>2. ASSUME NEW p \in M PROVE p \in {New(a, l) : l \in DOMAIN counters}
    BY <1>1, <1>2
  <2>3. ASSUME NEW l \in DOMAIN counters, New(a, l) \in DOMAIN store PROVE New(a, l) \in M
    BY <1>3, <2>3
  <2> HIDE DEF M
  <2>4. M \subseteq DOMAIN store
    BY DEF M
  <2> QED BY <2>1, <2>2, <2>3, <2>4
<1> DEFINE hits == {l \in DOMAIN counters : Map4!Cut(Map4!New(a, W), l) \in DOMAIN store}
<1>5. hits = {l \in 0..W : New(a, l) \in M}
  <2>1. \A l \in DOMAIN counters : l \in 0..W
    BY <1>1, PrefixIs
  <2>2. \A l \in DOMAIN counters : Map4!Cut(Map4!New(a, W), l) = New(a, l)
    BY <2>1, CutIs
  <2> QED BY <1>3, <2>1, <2>2
<1>6. IF hits = {} THEN M = {} ELSE M # {} /\ New(a, Greatest(hits)) = LongestIn(M)
  <2>1. \A p \in M : p = New(a, p.len)
    BY <1>2
  <2> HIDE DEF M, hits
  <2> QED BY <1>2, <1>5, <2>1, FirstHit
<1>7. CASE hits = {}
  BY <1>4, <1>6, <1>7 DEF Map4!FindLongest
<1>8. CASE hits # {}
  <2>1. Greatest(hits) \in 0..W
    BY <1>5, <1>8, GreatestLength
  <2>2. Map4!FindLongest(a) = New(a, Greatest(hits))
    BY <1>8, <2>1, CutIs DEF Map4!FindLongest, Map4!Max, Greatest
  <2> QED BY <1>4, <1>6, <1>8, <2>2, Zenon DEF LongestIn
<1> QED BY <1>7, <1>8

-----------------------------------------------------------------------------
(* Ipv6PrefixMap.                                                          *)

Map6Inv == IsTable(store)

LEMMA Map6Init == Map6!Init => Map6Inv
  BY EmptyTable DEF Map6!Init, Map6Inv

LEMMA Map6Keeps ==
  ASSUME Map6Inv, Map6!Next
  PROVE  Map6Inv'
<1>1. ASSUME NEW p \in Keys, NEW v \in Value, Map6!Add(p, v) PROVE Map6Inv'
  <2>1. p \in Prefix /\ store' = Map4!Bind(store, p, v)
    BY <1>1, KeysAssumption DEF Map6!Add, Map6!Bind, Map4!Bind
  <2> QED BY <2>1, BoundTable, Zenon DEF Map6Inv, IsTable
<1>2. ASSUME NEW S \in SUBSET DOMAIN store, store' = Map6!Only(store, S) PROVE Map6Inv'
  BY <1>2, PartTable DEF Map6Inv, IsTable
<1>3. ASSUME NEW p \in Keys, Map6!Remove(p) PROVE Map6Inv'
  <2>1. CASE p \in DOMAIN store
    BY <1>2, <1>3, <2>1 DEF Map6!Remove
  <2>2. CASE p \notin DOMAIN store
    BY <1>3, <2>2 DEF Map6!Remove, Map6Inv, IsTable
  <2> QED BY <2>1, <2>2
<1>4. CASE Map6!Clear
  BY <1>4, EmptyTable DEF Map6!Clear, Map6Inv, IsTable
<1>5. ASSUME NEW S \in SUBSET DOMAIN store, NEW L, Map6!Read(S, L) \/ Map6!Receive(S, L) PROVE Map6Inv'
  BY <1>2, <1>5 DEF Map6!Read, Map6!Receive, Map6!Exchanged
<1> QED BY <1>1, <1>3, <1>4, <1>5 DEF Map6!Next

LEMMA Names6 ==
  /\ 0..Map6!Top = Address
  /\ \A a, l : Map6!New(a, l) = New(a, l)
  BY DEF Map6!Top, Address, Top, Map6!New, Map6!MaskBits, New, Masked

LEMMA Map6Lookups == Map6Inv => Map6!LookupsExact
<1> SUFFICES ASSUME Map6Inv, NEW a \in Address
             PROVE  LET matches == {p \in DOMAIN store : Map6!ContainsAddress(p, a)}
                    IN  /\ Map6!FindMatches(a) \subseteq matches
                        /\ {p.len : p \in DOMAIN store} \subseteq DOMAIN counters =>
                              /\ Map6!FindMatches(a) = matches
                              /\ Map6!FindLongest(a) = IF matches = {} THEN Map6!None
                                    ELSE CHOOSE p \in matches : \A q \in matches : q.len <= p.len
  BY Names6, Zenon DEF Map6!LookupsExact
<1> DEFINE M == {p \in DOMAIN store : Map6!ContainsAddress(p, a)}
<1>1. DOMAIN store \subseteq Prefix
  BY DEF Map6Inv, IsTable
<1>2. M \in SUBSET Prefix /\ \A p \in DOMAIN store : p \in M <=> p = New(a, p.len)
  BY <1>1, Contains6
<1>3. ASSUME NEW l, New(a, l) \in DOMAIN store
      PROVE  New(a, l) \in M /\ l \in 0..W /\ New(a, l).len = l
  <2>1. New(a, l).len = l
    BY DEF New
  <2> QED BY <1>1, <1>2, <1>3, <2>1, PrefixIs
<1>4. Map6!FindMatches(a) = {New(a, l) : l \in DOMAIN counters} \cap DOMAIN store
  BY Names6 DEF Map6!FindMatches, Map6!FindMatchesNoLock
<1>5. Map6!FindMatches(a) \subseteq M
  BY <1>3, <1>4
<1>6. ASSUME {p.len : p \in DOMAIN store} \subseteq DOMAIN counters
      PROVE  /\ Map6!FindMatches(a) = M
             /\ Map6!FindLongest(a) = IF M = {} THEN Map6!None
                                      ELSE CHOOSE p \in M : \A q \in M : q.len <= p.len
  <2>1. ASSUME NEW p \in M PROVE p \in Map6!FindMatches(a)
    <3>1. p \in DOMAIN store /\ p = New(a, p.len) /\ p.len \in DOMAIN counters
      BY <1>2, <1>6
    <3> HIDE DEF M
    <3> QED BY <1>4, <3>1
  <2>2. Map6!FindMatches(a) = M
    BY <1>5, <2>1
  <2> DEFINE hits == {l \in DOMAIN counters : Map6!Cut(Map6!New(a, W), l) \in DOMAIN store}
  <2>3. \A l : Map6!Cut(Map6!New(a, W), l) = New(a, l)
    <3>1. W \in 0..W
      BY WAssumption
    <3>2. New(a, W).net = a
      BY <3>1, MaskedIs, UnitIs, AddressIs DEF New, Masked, Unit
    <3> QED BY <3>2, Names6 DEF Map6!Cut
  <2>4. hits = {l \in 0..W : New(a, l) \in M}
    <3>1. \A l : New(a, l) \in DOMAIN store => l \in DOMAIN counters
      BY <1>3, <1>6
    <3>2. hits = {l \in DOMAIN counters : New(a, l) \in DOMAIN store}
      BY <2>3
    <3> HIDE DEF hits
    <3> QED BY <1>3, <3>1, <3>2
  <2>5. \A p \in M : p = New(a, p.len)
    BY <1>2
  <2>6. IF hits = {} THEN M = {} ELSE M # {} /\ New(a, Greatest(hits)) = LongestIn(M)
    <3> HIDE DEF M, hits
    <3> QED BY <1>2, <2>4, <2>5, FirstHit
  <2>7. CASE hits = {}
    BY <2>2, <2>6, <2>7 DEF Map6!FindLongest, Map6!FindLongestNoLock
  <2>8. CASE hits # {}
    <3>1. Map6!FindLongest(a) = New(a, Greatest(hits))
      BY <2>3, <2>8 DEF Map6!FindLongest, Map6!FindLongestNoLock, Map6!Max, Greatest
    <3> QED BY <2>2, <2>6, <2>8, <3>1, Zenon DEF LongestIn
  <2> QED BY <2>7, <2>8
<1> QED BY <1>5, <1>6

\* An entry, and its counter, come and go together.
LEMMA Map6Counters ==
  ASSUME Map6Inv, counters = Counts(DOMAIN store), Map6!Next
  PROVE  counters' = Counts(DOMAIN store') \/ ~answer'.ok
<1>1. ASSUME NEW p \in Keys, NEW v \in Value, Map6!Add(p, v)
      PROVE  counters' = Counts(DOMAIN store')
  <2>1. p \in Prefix /\ store' = Map4!Bind(store, p, v)
    BY <1>1, KeysAssumption DEF Map6!Add, Map6!Bind, Map4!Bind
  <2>2. DOMAIN store' = DOMAIN store \cup {p}
    BY <2>1, BoundTable DEF Map6Inv
  <2>3. CASE p \in DOMAIN store
    <3>1. DOMAIN store' = DOMAIN store
      BY <2>2, <2>3
    <3> QED BY <1>1, <2>3, <3>1 DEF Map6!Add
  <2>4. CASE p \notin DOMAIN store
    <3>1. counters' = Map4!CountUp(Counts(DOMAIN store), p.len)
      BY <1>1, <2>4 DEF Map6!Add, Map6!CountUp, Map6!Bind, Map4!CountUp, Map4!Bind
    <3>2. Counts(DOMAIN store \cup {p}) = Map4!CountUp(Counts(DOMAIN store), p.len)
      BY <2>4, OneMore DEF Map6Inv, IsTable
    <3> QED BY <2>2, <3>1, <3>2
  <2> QED BY <2>3, <2>4
<1>2. ASSUME NEW p \in Keys, Map6!Remove(p)
      PROVE  counters' = Counts(DOMAIN store') \/ ~answer'.ok
  <2>1. CASE p \in DOMAIN store
    <3>1. DOMAIN store' = DOMAIN store \ {p}
      BY <1>2, <2>1 DEF Map6!Remove, Map6!Only
    <3>2. counters' = Map4!CountDown(Counts(DOMAIN store), p.len)
      BY <1>2, <2>1 DEF Map6!Remove, Map6!CountDown, Map6!Only, Map4!CountDown, Map4!Without
    <3>3. Counts(DOMAIN store \ {p}) = Map4!CountDown(Counts(DOMAIN store), p.len)
      BY <2>1, OneLess DEF Map6Inv, IsTable
    <3> QED BY <3>1, <3>2, <3>3
  <2>2. CASE p \notin DOMAIN store
    BY <1>2, <2>2 DEF Map6!Remove
  <2> QED BY <2>1, <2>2
<1>3. CASE Map6!Clear
  BY <1>3, EmptyTable DEF Map6!Clear
<1>4. ASSUME NEW S \in SUBSET DOMAIN store, NEW L \in SUBSET DOMAIN counters, Map6!Exchanged(S, L), answer'.ok
      PROVE  counters' = Counts(DOMAIN store')
  <2>1. S = DOMAIN store /\ L = DOMAIN counters
    BY <1>4, Zenon DEF Map6!Exchanged, Map6!Said
  <2>2. DOMAIN store' = DOMAIN store
    BY <1>4, <2>1 DEF Map6!Exchanged, Map6!Only
  <2>3. counters' = [l \in DOMAIN counters |-> counters[l]]
    BY <1>4, <2>1 DEF Map6!Exchanged, Map6!Only
  <2>4. counters = [l \in DOMAIN counters |-> counters[l]]
    BY DEF Counts
  <2> QED BY <2>2, <2>3, <2>4
<1> QED BY <1>1, <1>2, <1>3, <1>4 DEF Map6!Next, Map6!Read, Map6!Receive

LEMMA Map6Exact == Map6!Exact <=> counters = Counts(DOMAIN store)
<1>1. \A S : Map6!Cardinality(S) = Cardinality(S)
  BY DEF Map6!Cardinality, Cardinality
<1> QED BY <1>1 DEF Map6!Exact, Counts, OfLength, Lengths

-----------------------------------------------------------------------------
(* Ipv6Routes.                                                             *)

\* A length has a map of prefixes of this length.
Routes6Inv ==
  \A l \in DOMAIN store :
      /\ DOMAIN store[l] \subseteq {p \in Prefix : p.len = l}
      /\ store[l] \in [DOMAIN store[l] -> Value]

LEMMA Routes6Init == Routes6!Init => Routes6Inv
  BY DEF Routes6!Init, Routes6Inv

LEMMA Routes6IndexIs ==
  ASSUME NEW p \in Keys, NEW v \in Value, Routes6!Index(p, v)
  PROVE  /\ p \in Prefix
         /\ DOMAIN store' = DOMAIN store \cup {p.len}
         /\ \A l \in DOMAIN store' : l # p.len => store'[l] = store[l]
         /\ p.len \in DOMAIN store => store'[p.len] = Routes6!Bind(store[p.len], p, v)
         /\ p.len \notin DOMAIN store => store'[p.len] = Routes6!Bind(<<>>, p, v)
<1>1. p \in Prefix
  BY KeysAssumption
<1>2. store' = [l \in DOMAIN store \cup {p.len} |->
                  IF l = p.len THEN IF p.len \in DOMAIN store THEN Routes6!Bind(store[p.len], p, v)
                                    ELSE Routes6!Bind(<<>>, p, v)
                  ELSE store[l]]
  BY DEF Routes6!Index, Routes6!Bind
<1> QED BY <1>1, <1>2

LEMMA Routes6Keeps ==
  ASSUME Routes6Inv, Routes6!Next
  PROVE  Routes6Inv'
<1>1. ASSUME NEW p \in Keys, NEW v \in Value, Routes6!Index(p, v) PROVE Routes6Inv'
  <2> SUFFICES ASSUME NEW l \in DOMAIN store'
               PROVE  /\ DOMAIN store'[l] \subseteq {q \in Prefix : q.len = l}
                      /\ store'[l] \in [DOMAIN store'[l] -> Value]
    BY DEF Routes6Inv
  <2>1. CASE l # p.len
    <3>1. l \in DOMAIN store /\ store'[l] = store[l]
      BY <1>1, <2>1, Routes6IndexIs, Zenon
    <3> QED BY <3>1 DEF Routes6Inv
  <2>2. CASE l = p.len
    <3> DEFINE f == IF l \in DOMAIN store THEN store[l] ELSE <<>>
    <3>1. store'[l] = Routes6!Bind(f, p, v) /\ p \in Prefix
      BY <1>1, <2>2, Routes6IndexIs, Zenon
    <3>2. DOMAIN f \subseteq {q \in Prefix : q.len = l} /\ f \in [DOMAIN f -> Value]
      BY DEF Routes6Inv
    <3> HIDE DEF f
    <3>3. store'[l] = [q \in DOMAIN f \cup {p} |-> IF q = p THEN v ELSE f[q]]
      BY <3>1 DEF Routes6!Bind
    <3> QED BY <2>2, <3>1, <3>2, <3>3
  <2> QED BY <2>1, <2>2
<1>2. CASE Routes6!clear
  BY <1>2 DEF Routes6!clear, Routes6Inv
<1> QED BY <1>1, <1>2 DEF Routes6!Next

LEMMA Routes6EntryIs ==
  ASSUME Routes6Inv
  PROVE  /\ Routes6!Entry \subseteq Prefix
         /\ \A p \in Prefix : p \in Routes6!Entry <=> p.len \in DOMAIN store /\ p \in DOMAIN store[p.len]
  BY DEF Routes6Inv, Routes6!Entry

LEMMA Routes6Lookups == Routes6Inv => Routes6!LookupsExact
<1>0. 0..Routes6!Top = Address
  BY DEF Routes6!Top, Address, Top
<1> SUFFICES ASSUME Routes6Inv, NEW a \in Address
             PROVE  LET matches == {p \in Routes6!Entry : Routes6!ContainsAddress(p, a)}
                    IN  Routes6!FindLongestMatch(a) = IF matches = {} THEN Routes6!None
                            ELSE CHOOSE p \in matches : \A q \in matches : q.len <= p.len
  BY <1>0, Zenon DEF Routes6!LookupsExact
<1> DEFINE M == {p \in Routes6!Entry : Routes6!ContainsAddress(p, a)}
<1>1. \A p \in Prefix : Routes6!ContainsAddress(p, a) <=> p = New(a, p.len)
  <2>1. \A p : Routes6!ContainsAddress(p, a) <=> Map6!ContainsAddress(p, a)
    BY DEF Routes6!ContainsAddress, Map6!ContainsAddress, Routes6!FirstOneBit, Map6!FirstOneBit
  <2> QED BY <2>1, Contains6
<1>2. M \in SUBSET Prefix /\ \A p \in Routes6!Entry : p \in M <=> p = New(a, p.len)
  BY <1>1, Routes6EntryIs
<1>3. \A l : Routes6!Cut(Routes6!New(a, W), l) = New(a, l)
  <2>1. W \in 0..W
    BY WAssumption
  <2>2. New(a, W).net = a
    BY <2>1, MaskedIs, UnitIs, AddressIs DEF New, Masked, Unit
  <2>3. \A b, l : Routes6!New(b, l) = New(b, l)
    BY DEF Routes6!New, Routes6!MaskBits, New, Masked
  <2> QED BY <2>2, <2>3 DEF Routes6!Cut
<1> DEFINE hits == {l \in DOMAIN store : Routes6!Cut(Routes6!New(a, W), l) \in DOMAIN store[l]}
<1>4. hits = {l \in 0..W : New(a, l) \in M}
  <2>1. ASSUME NEW l \in DOMAIN store, New(a, l) \in DOMAIN store[l]
        PROVE  l \in 0..W /\ New(a, l) \in M
    <3>1. New(a, l) \in Prefix /\ New(a, l).len = l /\ New(a, l) \in Routes6!Entry
      BY <2>1 DEF Routes6Inv, Routes6!Entry
    <3> QED BY <1>2, <3>1, PrefixIs
  <2>2. ASSUME NEW l \in 0..W, New(a, l) \in M
        PROVE  l \in DOMAIN store /\ New(a, l) \in DOMAIN store[l]
    <3>1. New(a, l) \in Routes6!Entry /\ New(a, l) \in Prefix /\ New(a, l).len = l
      BY <2>2, NewIs
    <3> QED BY <3>1, Routes6EntryIs
  <2>3. hits = {l \in DOMAIN store : New(a, l) \in DOMAIN store[l]}
    BY <1>3
  <2> HIDE DEF hits
  <2> QED BY <2>1, <2>2, <2>3
<1>5. IF hits = {} THEN M = {} ELSE M # {} /\ New(a, Greatest(hits)) = LongestIn(M)
  <2>1. \A p \in M : p = New(a, p.len)
    BY <1>2
  <2> HIDE DEF M, hits
  <2> QED BY <1>2, <1>4, <2>1, FirstHit, Zenon
<1>6. CASE hits = {}
  BY <1>5, <1>6 DEF Routes6!FindLongestMatch
<1>7. CASE hits # {}
  <2>1. Routes6!FindLongestMatch(a) = New(a, Greatest(hits))
    BY <1>3, <1>7 DEF Routes6!FindLongestMatch, Routes6!Max, Greatest
  <2> QED BY <1>5, <1>7, <2>1, Zenon DEF LongestIn
<1> QED BY <1>6, <1>7

-----------------------------------------------------------------------------
(* Each table is a PrefixTable.                                            *)

LEMMA Map4Step ==
  ASSUME Map4Inv, Map4!Next
  PROVE  Map4!Promise!Step
<1>1. \A p \in Keys : p \in Map4!Prefix
  BY KeysAssumption DEF Map4!Prefix, Map4!Address, Map4!Top, Prefix, Address, Top
<1>2. ASSUME NEW p \in Keys, NEW v \in Value, Map4!Add(p, v)
      PROVE  Map4!Promise!Assign(p, v)
  BY <1>2 DEF Map4!Add, Map4!Bind, Map4!Said, Map4!Promise!Assign, Map4!Promise!Bind, Map4!Promise!Done
<1>3. ASSUME NEW p \in Keys, Map4!Remove(p)
      PROVE  Map4!Promise!Remove(p)
  <2>1. answer' = Map4!Promise!Done(<<"remove", p>>, p \in DOMAIN store)
    BY <1>3 DEF Map4!Remove, Map4!Said, Map4!Promise!Done
  <2>2. CASE p \in DOMAIN store
    BY <1>3, <2>1, <2>2 DEF Map4!Remove, Map4!Without, Map4!Promise!Remove, Map4!Promise!Only
  <2>3. CASE p \notin DOMAIN store
    <3>1. store' = store /\ store = [q \in DOMAIN store |-> store[q]] /\ DOMAIN store \ {p} = DOMAIN store
      BY <1>3, <2>3 DEF Map4!Remove, Map4Inv, IsTable
    <3> QED BY <2>1, <3>1 DEF Map4!Promise!Remove, Map4!Promise!Only
  <2> QED BY <2>2, <2>3
<1>4. CASE \E p \in Keys : Map4!Remove(p)
  BY <1>1, <1>3, <1>4 DEF Map4!Promise!Step, Map4!Promise!Next
<1>5. CASE \E p \in Keys, v \in Value : Map4!Add(p, v)
  BY <1>1, <1>2, <1>5 DEF Map4!Promise!Step, Map4!Promise!Next
<1> QED BY <1>4, <1>5 DEF Map4!Next

LEMMA Map6Step ==
  ASSUME Map6Inv, Map6!Next
  PROVE  Map6!Promise!Step
<1>1. store = [q \in DOMAIN store |-> store[q]]
  BY DEF Map6Inv, IsTable
<1>2. ASSUME NEW p \in Keys, NEW v \in Value, Map6!Add(p, v)
      PROVE  Map6!Promise!Step
  <2>1. Map6!Promise!Assign(p, v)
    BY <1>2 DEF Map6!Add, Map6!Bind, Map6!Said, Map6!Promise!Assign, Map6!Promise!Bind, Map6!Promise!Done
  <2> QED BY <2>1, KeysAssumption DEF Map6!Promise!Step, Map6!Promise!Next
<1>3. ASSUME NEW p \in Keys, Map6!Remove(p)
      PROVE  Map6!Promise!Step
  <2>1. answer' = Map6!Promise!Done(<<"remove", p>>, p \in DOMAIN store)
    BY <1>3 DEF Map6!Remove, Map6!Said, Map6!Promise!Done
  <2>2. store' = Map6!Promise!Only(store, DOMAIN store \ {p})
    <3>1. CASE p \in DOMAIN store
      BY <1>3, <3>1 DEF Map6!Remove, Map6!Only, Map6!Promise!Only
    <3>2. CASE p \notin DOMAIN store
      <4>1. store' = store /\ DOMAIN store \ {p} = DOMAIN store
        BY <1>3, <3>2 DEF Map6!Remove
      <4> QED BY <1>1, <4>1 DEF Map6!Promise!Only
    <3> QED BY <3>1, <3>2
  <2> QED BY <2>1, <2>2, KeysAssumption DEF Map6!Promise!Remove, Map6!Promise!Step, Map6!Promise!Next
<1>4. CASE Map6!Clear
  BY <1>4 DEF Map6!Clear, Map6!Said, Map6!Promise!Clear, Map6!Promise!Done, Map6!Promise!Step, Map6!Promise!Next
<1>5. ASSUME NEW S \in SUBSET DOMAIN store, NEW L, Map6!Exchanged(S, L)
      PROVE  Map6!Promise!Step
  <2> DEFINE b == S = DOMAIN store /\ L = DOMAIN counters
  <2>1. b \in BOOLEAN /\ answer' = Map6!Promise!Done(<<"reload">>, b)
    BY <1>5 DEF Map6!Exchanged, Map6!Said, Map6!Promise!Done
  <2>2. store' = [q \in S |-> store[q]] /\ DOMAIN store' = S
    BY <1>5 DEF Map6!Exchanged, Map6!Only
  <2>3. b => DOMAIN store' = DOMAIN store
    BY <2>2
  <2> HIDE DEF b
  <2>4. Map6!Promise!Reload
    BY <2>1, <2>2, <2>3 DEF Map6!Promise!Reload, Map6!Promise!Only
  <2> QED BY <2>4 DEF Map6!Promise!Step, Map6!Promise!Next
<1> QED BY <1>2, <1>3, <1>4, <1>5 DEF Map6!Next, Map6!Read, Map6!Receive

LEMMA Routes6Step ==
  ASSUME Routes6Inv, Routes6!Next
  PROVE  Routes6!Promise!Step
<1>1. ASSUME NEW p \in Keys, NEW v \in Value, Routes6!Index(p, v)
      PROVE  Routes6!Promise!Step
  <2> DEFINE f == IF p.len \in DOMAIN store THEN store[p.len] ELSE <<>>
  <2>1. p \in Prefix /\ DOMAIN store' = DOMAIN store \cup {p.len}
    BY <1>1, Routes6IndexIs, Zenon
  <2>2. store'[p.len] = [q \in DOMAIN f \cup {p} |-> IF q = p THEN v ELSE f[q]]
    <3>1. store'[p.len] = Routes6!Bind(f, p, v)
      BY <1>1, Routes6IndexIs, Zenon
    <3> HIDE DEF f
    <3> QED BY <3>1 DEF Routes6!Bind
  <2>3. \A l \in DOMAIN store : l # p.len => store'[l] = store[l]
    BY <1>1, Routes6IndexIs, Zenon
  <2>4. Routes6Inv'
    BY <1>1, Routes6Keeps DEF Routes6!Next
  <2> HIDE DEF f
  <2>5. \A q \in Prefix : q \in Routes6!Entry' <=> q.len \in DOMAIN store' /\ q \in DOMAIN store'[q.len]
    BY <2>4 DEF Routes6Inv, Routes6!Entry
  <2>6. Routes6!Entry' \subseteq Prefix
    BY <2>4 DEF Routes6Inv, Routes6!Entry
  <2>7. ASSUME NEW q \in Prefix
        PROVE  /\ q \in Routes6!Entry' <=> q \in Routes6!Entry \cup {p}
               /\ q \in Routes6!Entry' => store'[q.len][q] = IF q = p THEN v ELSE store[q.len][q]
    <3>1. CASE q.len = p.len
      <4>1. q \in DOMAIN f <=> q \in Routes6!Entry
        BY <3>1, Routes6EntryIs DEF f
      <4>2. q \in DOMAIN f => f[q] = store[q.len][q]
        BY <3>1 DEF f
      <4> QED BY <2>1, <2>2, <2>5, <3>1, <4>1, <4>2
    <3>2. CASE q.len # p.len
      BY <2>1, <2>3, <2>5, <3>2, Routes6EntryIs
    <3> QED BY <3>1, <3>2
  <2>8. Routes6!Entry' = Routes6!Entry \cup {p}
    BY <2>1, <2>6, <2>7, Routes6EntryIs
  <2>9. Routes6!Contents' = [q \in Routes6!Entry \cup {p} |-> IF q = p THEN v ELSE Routes6!Contents[q]]
    <3>1. Routes6!Contents' = [q \in Routes6!Entry' |-> store'[q.len][q]]
      BY DEF Routes6!Contents
    <3>2. \A q \in Routes6!Entry : Routes6!Contents[q] = store[q.len][q]
      BY DEF Routes6!Contents
    <3> QED BY <2>6, <2>7, <2>8, <3>1, <3>2
  <2>10. DOMAIN Routes6!Contents = Routes6!Entry
    BY DEF Routes6!Contents
  <2>11. Routes6!Contents' = Routes6!Promise!Bind(Routes6!Contents, p, v)
    BY <2>9, <2>10 DEF Routes6!Promise!Bind
  <2>12. answer' = Routes6!Promise!Done(<<"assign", p, v>>, TRUE)
    BY <1>1 DEF Routes6!Index, Routes6!Promise!Done
  <2>13. Routes6!Promise!Assign(p, v)
    BY <2>11, <2>12 DEF Routes6!Promise!Assign
  <2> QED BY <2>1, <2>13 DEF Routes6!Promise!Step, Routes6!Promise!Next
<1>2. CASE Routes6!clear
  <2>1. store' = <<>>
    BY <1>2 DEF Routes6!clear
  <2>2. Routes6!Entry' = {}
    BY <2>1 DEF Routes6!Entry
  <2>3. Routes6!Contents' = <<>>
    BY <2>2 DEF Routes6!Contents
  <2>4. answer' = Routes6!Promise!Done(<<"clear">>, TRUE)
    BY <1>2 DEF Routes6!clear, Routes6!Promise!Done
  <2> QED BY <2>3, <2>4 DEF Routes6!Promise!Clear, Routes6!Promise!Step, Routes6!Promise!Next
<1> QED BY <1>1, <1>2 DEF Routes6!Next

LEMMA Wholes ==
  ASSUME NEW S, NEW a
  PROVE  /\ [net : S \cup {a}, len : {W}] = [net : S, len : {W}] \cup {[net |-> a, len |-> W]}
         /\ [net : S \ {a}, len : {W}] = [net : S, len : {W}] \ {[net |-> a, len |-> W]}
<1>1. \A T, r : r \in [net : T, len : {W}] <=> r = [net |-> r.net, len |-> W] /\ r.net \in T
  OBVIOUS
<1>2. [net |-> a, len |-> W].net = a
  OBVIOUS
<1>3. ASSUME NEW r
      PROVE  r \in [net : S \cup {a}, len : {W}] <=>
             r \in [net : S, len : {W}] \cup {[net |-> a, len |-> W]}
  BY <1>1, <1>2
<1>4. ASSUME NEW r
      PROVE  r \in [net : S \ {a}, len : {W}] <=>
             r \in [net : S, len : {W}] \ {[net |-> a, len |-> W]}
  BY <1>1, <1>2
<1> QED BY <1>3, <1>4, Zenon

LEMMA AddrsStep ==
  ASSUME Addrs!Next
  PROVE  Addrs!Promise!Step
<1> DEFINE P6(a) == [net |-> a, len |-> W]
           f == Addrs!Contents
<1>1. /\ f = [p \in [net : DOMAIN store, len : {W}] |-> store[p.net]]
      /\ f' = [p \in [net : DOMAIN store', len : {W}] |-> store'[p.net]]
  BY DEF Addrs!Contents
<1>2. ASSUME NEW a \in Addrs!Address PROVE P6(a) \in [net : 0..(2^W - 1), len : {W}]
  BY KeysAssumption, PrefixIs DEF Addrs!Address, Address, Top
<1> HIDE DEF f
<1>3. ASSUME NEW S \in SUBSET DOMAIN store, store' = [a \in S |-> store[a]]
      PROVE  f' = [p \in [net : S, len : {W}] |-> f[p]]
  BY <1>1, <1>3
<1>4. ASSUME NEW a \in Addrs!Address, NEW v \in Value, Addrs!Add(a, v)
      PROVE  Addrs!Promise!Step
  <2>1. store' = [b \in DOMAIN store \cup {a} |-> IF b = a THEN v ELSE store[b]]
    BY <1>4 DEF Addrs!Add, Addrs!Bind
  <2>2. [net : DOMAIN store', len : {W}] = [net : DOMAIN store, len : {W}] \cup {P6(a)}
    BY <2>1, Wholes, Zenon
  <2>3. f' = [p \in DOMAIN f \cup {P6(a)} |-> IF p = P6(a) THEN v ELSE f[p]]
    <3>1. f' = [p \in [net : DOMAIN store', len : {W}] |-> IF p.net = a THEN v ELSE store[p.net]]
      BY <1>1, <2>1
    <3>2. \A p \in [net : DOMAIN store', len : {W}] : p.net = a <=> p = P6(a)
      OBVIOUS
    <3>3. ASSUME NEW p \in [net : DOMAIN store', len : {W}]
          PROVE  f'[p] = IF p = P6(a) THEN v ELSE f[p]
      <4>1. p # P6(a) => p \in [net : DOMAIN store, len : {W}]
        BY <2>2, Zenon
      <4> QED BY <1>1, <3>1, <3>2, <4>1
    <3>4. DOMAIN f \cup {P6(a)} = [net : DOMAIN store', len : {W}]
      BY <1>1, <2>2, Zenon
    <3> QED BY <3>1, <3>3, <3>4, Zenon
  <2>4. answer' = Addrs!Promise!Done(<<"assign", P6(a), v>>, TRUE)
    BY <1>4 DEF Addrs!Add, Addrs!Said, Addrs!Whole, Addrs!Promise!Done
  <2>5. Addrs!Promise!Assign(P6(a), v)
    BY <2>3, <2>4 DEF Addrs!Promise!Assign, Addrs!Promise!Bind, f
  <2> QED BY <1>2, <2>5 DEF Addrs!Promise!Step, Addrs!Promise!Next
<1>5. ASSUME NEW a \in Addrs!Address, Addrs!Remove(a)
      PROVE  Addrs!Promise!Step
  <2> DEFINE S == DOMAIN store \ {a}
  <2>1. store' = [b \in S |-> store[b]] /\ answer' = Addrs!Promise!Done(<<"remove", P6(a)>>, a \in DOMAIN store)
    BY <1>5 DEF Addrs!Remove, Addrs!Only, Addrs!Said, Addrs!Whole, Addrs!Promise!Done
  <2>2. [net : S, len : {W}] = DOMAIN f \ {P6(a)}
    BY <1>1, Wholes, Zenon
  <2>3. a \in DOMAIN store <=> P6(a) \in DOMAIN f
    BY <1>1
  <2>4. f' = [p \in DOMAIN f \ {P6(a)} |-> f[p]]
    BY <1>3, <2>1, <2>2, Zenon
  <2>5. answer' = Addrs!Promise!Done(<<"remove", P6(a)>>, P6(a) \in DOMAIN f)
    BY <2>1, <2>3 DEF Addrs!Promise!Done
  <2>6. Addrs!Promise!Remove(P6(a))
    BY <2>4, <2>5 DEF Addrs!Promise!Remove, Addrs!Promise!Only, f
  <2> QED BY <1>2, <2>6 DEF Addrs!Promise!Step, Addrs!Promise!Next
<1>6. CASE Addrs!Clear
  <2>1. store' = <<>> /\ answer' = Addrs!Promise!Done(<<"clear">>, TRUE)
    BY <1>6 DEF Addrs!Clear, Addrs!Said, Addrs!Promise!Done
  <2>2. f' = <<>>
    BY <1>1, <2>1
  <2> QED BY <2>1, <2>2 DEF Addrs!Promise!Clear, Addrs!Promise!Step, Addrs!Promise!Next, f
<1>7. ASSUME NEW S \in SUBSET DOMAIN store, Addrs!Read(S) \/ Addrs!Receive(S)
      PROVE  Addrs!Promise!Step
  <2> DEFINE b == S = DOMAIN store
  <2>1. store' = [a \in S |-> store[a]] /\ answer' = Addrs!Promise!Done(<<"reload">>, b)
    BY <1>7 DEF Addrs!Read, Addrs!Receive, Addrs!Only, Addrs!Said, Addrs!Promise!Done
  <2>2. f' = [p \in [net : S, len : {W}] |-> f[p]]
    BY <1>3, <2>1
  <2>3. DOMAIN f' = [net : S, len : {W}] /\ DOMAIN f' \subseteq DOMAIN f
    BY <1>1, <2>2, Zenon
  <2>4. b => DOMAIN f' = DOMAIN f
    BY <1>1, <2>3, Zenon
  <2>5. b \in BOOLEAN
    OBVIOUS
  <2> HIDE DEF b
  <2>6. Addrs!Promise!Reload
    BY <2>1, <2>2, <2>3, <2>4, <2>5, Zenon DEF Addrs!Promise!Reload, Addrs!Promise!Only, f
  <2> QED BY <2>6 DEF Addrs!Promise!Step, Addrs!Promise!Next
<1> QED BY <1>4, <1>5, <1>6, <1>7 DEF Addrs!Next

-----------------------------------------------------------------------------
(* Ipv4Routes.                                                             *)

LEMMA Routes4Lookups == Routes4!MatchesExact
<1>1. Routes4!Address = Address /\ Routes4!Prefix = Prefix
  BY DEF Routes4!Prefix, Routes4!Address, Routes4!Top, Prefix, Address, Top
<1>2. /\ \A a, l : Routes4!New(a, l) = New(a, l)
      /\ \A a, l : Routes4!Masked(a, l) = New(a, l).net
      /\ \A p, a : Routes4!ContainsAddress(p, a) <=> ContainsAddress(p, a)
  BY DEF Routes4!New, Routes4!Masked, New, Masked, Routes4!ContainsAddress, ContainsAddress
<1> SUFFICES ASSUME NEW a \in Address
             PROVE  LET matches == {p \in Routes4!Entry : ContainsAddress(p, a)}
                    IN  /\ Routes4!FindAll(a) = matches
                        /\ Routes4!FindLongest(a) = IF matches = {} THEN Routes4!None
                               ELSE CHOOSE p \in matches : \A q \in matches : q.len <= p.len
  BY <1>1, <1>2 DEF Routes4!MatchesExact
<1> DEFINE M == {p \in Routes4!Entry : ContainsAddress(p, a)}
           hits == Routes4!Hits(a)
<1>3. Routes4!Entry = {p \in Prefix : p.net \in DOMAIN store[p.len]}
  BY <1>1 DEF Routes4!Entry
<1>4. M \in SUBSET Prefix /\ \A p \in Routes4!Entry : p \in M <=> p = New(a, p.len)
  BY <1>3, Contains4
<1>5. ASSUME NEW l \in 0..W PROVE New(a, l).net \in DOMAIN store[l] <=> New(a, l) \in M
  <2>1. New(a, l) \in Prefix /\ New(a, l).len = l
    BY NewIs
  <2> QED BY <1>3, <1>4, <2>1
<1>6. hits = {l \in 0..W : New(a, l) \in M}
  <2>1. hits = {l \in 0..W : New(a, l).net \in DOMAIN store[l]}
    BY <1>2 DEF Routes4!Hits
  <2> HIDE DEF M, hits
  <2> QED BY <1>5, <2>1
<1>7. \A p \in M : p = New(a, p.len) /\ p.len \in 0..W
  BY <1>4, PrefixIs
<1>8. IF hits = {} THEN M = {} ELSE M # {} /\ New(a, Greatest(hits)) = LongestIn(M)
  <2> HIDE DEF M, hits
  <2> QED BY <1>4, <1>6, <1>7, FirstHit
<1>9. Routes4!FindAll(a) = M
  <2>1. Routes4!FindAll(a) = {New(a, l) : l \in hits}
    BY <1>2 DEF Routes4!FindAll
  <2> HIDE DEF M, hits
  <2> QED BY <1>6, <1>7, <2>1
<1>10. Routes4!FindLongest(a) = IF hits = {} THEN Routes4!None ELSE New(a, Greatest(hits))
  BY <1>2 DEF Routes4!FindLongest, Routes4!Max, Greatest
<1> QED BY <1>8, <1>9, <1>10, Zenon DEF LongestIn

\* What an Ipv4Routes is, apart from the variable: for each length a function
\* from the networks of this length.
Nets(l) == {n \in Address : n % Unit(l) = 0}
IsRoutes(hm) ==
  /\ hm = [l \in 0..W |-> hm[l]]
  /\ \A l \in 0..W : DOMAIN hm[l] \subseteq Nets(l) /\ hm[l] \in [DOMAIN hm[l] -> Value]
EntryIn(hm) == {p \in Prefix : p.net \in DOMAIN hm[p.len]}
HitsIn(hm, a) == {l \in 0..W : Masked(a, l) \in DOMAIN hm[l]}
ValuesIn(hm, a) == {hm[l][Masked(a, l)] : l \in HitsIn(hm, a)}
RouteIn(hm, a) == hm[Greatest(HitsIn(hm, a))][Masked(a, Greatest(HitsIn(hm, a)))]

\* What Coalesce() and each of its steps do: the same addresses are covered,
\* each by no more entries, with no value that it had not, and by one of the
\* same value where at most two were nested.
Aggregates(hm, new) ==
  /\ IsRoutes(new)
  /\ Cardinality(EntryIn(new)) <= Cardinality(EntryIn(hm))
  /\ \A a \in Address :
       /\ HitsIn(new, a) = {} <=> HitsIn(hm, a) = {}
       /\ Cardinality(HitsIn(new, a)) <= Cardinality(HitsIn(hm, a))
       /\ ValuesIn(new, a) \subseteq ValuesIn(hm, a)
       /\ HitsIn(hm, a) # {} /\ Cardinality(HitsIn(hm, a)) <= 2 => RouteIn(new, a) = RouteIn(hm, a)

\* No entry ends with the last address.
NoneIsLast(hm) == \A l \in 1..W : \A n \in DOMAIN hm[l] : n + Unit(l) - 1 # Top

LEMMA Finite4 ==
  /\ IsFiniteSet(Prefix)
  /\ \A hm : IsFiniteSet(EntryIn(hm)) /\ Cardinality(EntryIn(hm)) \in Nat
  /\ \A hm, a : IsFiniteSet(HitsIn(hm, a)) /\ Cardinality(HitsIn(hm, a)) \in Nat
<1>1. IsFiniteSet(0..W) /\ IsFiniteSet(Address)
  <2>1. W \in Int /\ 0 \in Int /\ Top \in Int
    BY WAssumption, AddressIs
  <2> QED BY <2>1, FS_Interval DEF Address
<1>2. IsFiniteSet(Address \X (0..W))
  BY <1>1, FS_Product, Zenon
<1>3. IsFiniteSet(Prefix)
  <2> DEFINE T == Address \X (0..W)
             f == [p \in Prefix |-> <<p.net, p.len>>]
  <2>1. \A p \in Prefix : f[p] \in T
    BY PrefixIs
  <2>2. \A p, q \in Prefix : f[p] = f[q] => p = q
    <3> SUFFICES ASSUME NEW p \in Prefix, NEW q \in Prefix, <<p.net, p.len>> = <<q.net, q.len>> PROVE p = q
      OBVIOUS
    <3> QED BY PrefixIs
  <2>3. f \in [Prefix -> T]
    BY <2>1
  <2>4. IsFiniteSet(T)
    BY <1>2
  <2> HIDE DEF f, T
  <2>5. f \in Injection(Prefix, T)
    BY <2>2, <2>3 DEF Injection, IsInjective
  <2> QED BY <2>4, <2>5, FS_Injection
<1>4. ASSUME NEW hm PROVE IsFiniteSet(EntryIn(hm)) /\ Cardinality(EntryIn(hm)) \in Nat
  <2>1. EntryIn(hm) \in SUBSET Prefix
    BY DEF EntryIn
  <2>2. IsFiniteSet(EntryIn(hm))
    BY <1>3, <2>1, FS_Subset
  <2> QED BY <2>2, FS_CardinalityType
<1>5. ASSUME NEW hm, NEW a PROVE IsFiniteSet(HitsIn(hm, a)) /\ Cardinality(HitsIn(hm, a)) \in Nat
  <2>1. HitsIn(hm, a) \in SUBSET (0..W)
    BY DEF HitsIn
  <2>2. IsFiniteSet(HitsIn(hm, a))
    BY <1>1, <2>1, FS_Subset, Zenon
  <2> QED BY <2>2, FS_CardinalityType
<1> QED BY <1>3, <1>4, <1>5

LEMMA AggregatesTransitive ==
  ASSUME NEW f, NEW g, NEW h, Aggregates(f, g), Aggregates(g, h)
  PROVE  Aggregates(f, h)
<1>1. Cardinality(EntryIn(h)) <= Cardinality(EntryIn(f))
  BY Finite4 DEF Aggregates
<1>2. ASSUME NEW a \in Address
      PROVE  /\ HitsIn(h, a) = {} <=> HitsIn(f, a) = {}
             /\ Cardinality(HitsIn(h, a)) <= Cardinality(HitsIn(f, a))
             /\ ValuesIn(h, a) \subseteq ValuesIn(f, a)
  BY Finite4 DEF Aggregates
<1>3. ASSUME NEW a \in Address, HitsIn(f, a) # {}, Cardinality(HitsIn(f, a)) <= 2
      PROVE  RouteIn(h, a) = RouteIn(f, a)
  <2>1. HitsIn(g, a) # {} /\ Cardinality(HitsIn(g, a)) <= 2
    BY <1>3, Finite4 DEF Aggregates
  <2> QED BY <1>3, <2>1 DEF Aggregates
<1> QED BY <1>1, <1>2, <1>3 DEF Aggregates

LEMMA AggregatesReflexive ==
  ASSUME NEW hm, IsRoutes(hm)
  PROVE  Aggregates(hm, hm)
  BY Finite4 DEF Aggregates

\* Networks, halves and wholes.
LEMMA NetIs ==
  ASSUME NEW l \in 0..W, NEW n \in Nets(l)
  PROVE  /\ n \in Address /\ n \in Nat
         /\ Masked(n, l) = n /\ n = Unit(l) * Leading(n, l)
         /\ [net |-> n, len |-> l] \in Prefix
         /\ New(n, l) = [net |-> n, len |-> l]
<1>1. n \in Address /\ n \in Nat /\ n % Unit(l) = 0
  BY AddressIs DEF Nets
<1>2. n - (n % Unit(l)) = n
  BY <1>1
<1>3. Masked(n, l) = n /\ n = Unit(l) * Leading(n, l)
  BY <1>1, <1>2, MaskedIs DEF Masked, Unit
<1>4. [net |-> n, len |-> l] \in Prefix
  BY <1>1 DEF Prefix, Unit
<1> QED BY <1>1, <1>3, <1>4 DEF New

LEMMA MaskedNet ==
  ASSUME NEW a \in Address, NEW l \in 0..W
  PROVE  Masked(a, l) \in Nets(l) /\ Masked(a, l) = Unit(l) * Leading(a, l)
  BY MaskedIs DEF Masked, Unit, Nets

LEMMA MaskedTwice ==
  ASSUME NEW a \in Address, NEW l \in 0..W, NEW k \in 0..l
  PROVE  Masked(Masked(a, l), k) = Masked(a, k)
<1> DEFINE b == Masked(a, l)
<1>1. b \in Address /\ Leading(b, l) = Leading(a, l)
  BY MaskedIs DEF Masked, Unit
<1>2. k \in 0..W /\ W \in Nat /\ \A i \in 0..(W - 1) : i < k => i < l
  BY WAssumption
<1> HIDE DEF b
<1>3. \A i \in 0..(W - 1) : i < l => BitOf(b, i) = BitOf(a, i)
  BY <1>1, SameLeading
<1>4. Leading(b, k) = Leading(a, k)
  BY <1>1, <1>2, <1>3, SameLeading
<1>5. Masked(b, k) = Masked(a, k)
  BY <1>1, <1>2, <1>4, MaskedNet
<1> QED BY <1>5 DEF b

LEMMA MultipleIs ==
  ASSUME NEW l \in 0..W, NEW q \in Int, Unit(l) * q \in Address
  PROVE  /\ Unit(l) * q \in Nets(l)
         /\ Leading(Unit(l) * q, l) = q
<1> DEFINE m == Unit(l)
           n == m * q
<1>1. m \in Nat \ {0} /\ 0 \in 0..(m - 1)
  BY UnitIs
<1>2. n \in Int /\ n \in Address
  BY AddressIs
<1>3. n = m * q + 0
  <2> HIDE DEF m
  <2> QED BY <1>1
<1> HIDE DEF m, n
<1>4. n \div m = q
  BY <1>1, <1>2, <1>3, DivIs
<1>5. n % m = 0
  BY <1>1, <1>2, <1>3, DivIs
<1> QED BY <1>2, <1>4, <1>5 DEF m, n, Nets, Leading

LEMMA UnitDivides ==
  ASSUME NEW l \in 0..W
  PROVE  \E k \in Nat : Unit(0) = Unit(l) * k
<1> DEFINE S == {j \in 0..W : ~\E k \in Nat : Unit(0) = Unit(j) * k}
<1>0. W \in Nat \ {0}
  BY WAssumption
<1> SUFFICES ASSUME S # {} PROVE FALSE
  OBVIOUS
<1>1. S \in SUBSET Nat
  BY <1>0
<1>2. PICK j \in S : \A i \in S : j <= i
  BY <1>1, LeastOf, Zenon
<1>3. j # 0
  <2>1. Unit(0) = Unit(0) * 1
    BY <1>0, UnitIs
  <2> QED BY <1>2, <2>1
<1>4. j - 1 \in 0..W /\ j - 1 < W /\ j - 1 < j /\ j - 1 + 1 = j
  BY <1>0, <1>2, <1>3
<1>5. PICK k \in Nat : Unit(0) = Unit(j - 1) * k
  BY <1>2, <1>4
<1>6. Unit(j - 1) = 2 * Unit(j) /\ Unit(j) \in Nat
  BY <1>4, UnitIs
<1>7. Unit(0) = Unit(j) * (2 * k) /\ 2 * k \in Nat
  BY <1>5, <1>6
<1> QED BY <1>2, <1>7

\* The network that follows, unless it is the last one.
LEMMA NextNet ==
  ASSUME NEW l \in 0..W, NEW n \in Nets(l), n + Unit(l) - 1 # Top
  PROVE  n + Unit(l) \in Nets(l) /\ Leading(n + Unit(l), l) = Leading(n, l) + 1
<1> DEFINE m == Unit(l)
           q == Leading(n, l)
           u == Unit(0)
<1>1. m \in Nat \ {0} /\ n \in Nat /\ q \in Nat /\ n = m * q
  <2>1. m \in Nat \ {0} /\ n \in Nat /\ n = m * q
    BY NetIs, UnitIs, Zenon
  <2>2. q \in Nat
    BY <2>1, DivFacts DEF Leading
  <2> QED BY <2>1, <2>2
<1>2. PICK k \in Nat : u = m * k
  BY UnitDivides
<1>3. Address = 0..(u - 1) /\ Top = u - 1 /\ n \in Address
  <2>1. W - 0 = W
    BY WAssumption
  <2> QED BY <2>1, AddressIs, NetIs, Zenon DEF Top, Unit
<1> HIDE DEF m, q, u
<1>4. q < k
  <2> SUFFICES ASSUME q >= k PROVE FALSE
    BY <1>1, <1>2
  <2>1. m * (q - k) >= 0
    BY <1>1, <1>2
  <2>2. n - u >= 0
    BY <1>1, <1>2, <2>1
  <2> QED BY <1>1, <1>2, <1>3, <2>2
<1>5. q + 1 # k
  <2> SUFFICES ASSUME q + 1 = k PROVE FALSE
    OBVIOUS
  <2>1. n + m = u
    BY <1>1, <1>2
  <2>2. n + m - 1 # Top
    BY DEF m
  <2> QED BY <1>1, <1>3, <2>1, <2>2
<1>6. m * (q + 1) \in Address /\ m * (q + 1) = n + m
  <2>1. k - q - 2 \in Nat
    BY <1>1, <1>2, <1>4, <1>5
  <2>2. m * (k - q - 2) \in Nat
    BY <1>1, <2>1
  <2>3. m * (q + 1) = u - m - m * (k - q - 2)
    BY <1>1, <1>2
  <2>4. m * (q + 1) = n + m
    BY <1>1
  <2> HIDE DEF m
  <2> QED BY <1>1, <1>2, <1>3, <2>2, <2>3, <2>4
<1>7. q + 1 \in Int
  BY <1>1
<1> QED BY <1>6, <1>7, MultipleIs DEF m, q

\* An address is in the first half of a network or in the second one.
LEMMA HalfIs ==
  ASSUME NEW a \in Address, NEW l \in 1..W
  PROVE  Masked(a, l) = Masked(a, l - 1) \/ Masked(a, l) = Masked(a, l - 1) + Unit(l)
<1>1. l - 1 \in 0..(W - 1) /\ l - 1 \in 0..W /\ l \in 0..W /\ l - 1 + 1 = l /\ l - 1 < W
  BY WAssumption
<1> DEFINE h == Leading(a, l - 1)
           q == Leading(a, l)
           m == Unit(l)
           b == BitOf(a, l - 1)
<1>2. m \in Nat \ {0} /\ Unit(l - 1) = 2 * m
  BY <1>1, UnitIs
<1>3. q = 2 * h + b /\ b = q % 2
  BY <1>1, LeadingStep
<1>4. q \in Nat /\ h \in Nat
  BY <1>1, UnitIs, AddressIs, DivFacts, Zenon DEF Leading
<1>5. Masked(a, l) = m * q /\ Masked(a, l - 1) = (2 * m) * h
  BY <1>1, <1>2, MaskedNet
<1> HIDE DEF m, q, h, b
<1>6. b \in {0, 1}
  BY <1>3, <1>4
<1>7. CASE b = 0
  BY <1>2, <1>3, <1>4, <1>5, <1>7
<1>8. CASE b = 1
  BY <1>2, <1>3, <1>4, <1>5, <1>8 DEF m
<1> QED BY <1>6, <1>7, <1>8

LEMMA SecondHalf ==
  ASSUME NEW l \in 1..W, NEW n \in Nets(l - 1)
  PROVE  /\ n \in Nets(l)
         /\ n + Unit(l) \notin Nets(l - 1)
         /\ n + Unit(l) \in Nets(l) => Masked(n + Unit(l), l - 1) = n
<1>1. l - 1 \in 0..(W - 1) /\ l - 1 \in 0..W /\ l \in 0..W /\ l - 1 + 1 = l /\ l - 1 < W
  BY WAssumption
<1> DEFINE h == Leading(n, l - 1)
           m == Unit(l)
           s == n + m
<1>2. m \in Nat \ {0} /\ Unit(l - 1) = 2 * m
  BY <1>1, UnitIs
<1>3. n \in Address /\ n \in Nat /\ n = (2 * m) * h
  BY <1>1, <1>2, NetIs, Zenon
<1>4. h \in Nat
  BY <1>1, <1>3, UnitIs, DivFacts, Zenon DEF Leading
<1>5. n \in Nets(l)
  <2>1. n = m * (2 * h) /\ 2 * h \in Int
    BY <1>2, <1>3, <1>4
  <2> QED BY <1>1, <1>3, <2>1, MultipleIs
<1>6. s % Unit(l - 1) = m
  <2> DEFINE d == 2 * m
  <2>1. d \in Nat \ {0} /\ m \in 0..(d - 1) /\ s = d * h + m /\ s \in Int
    BY <1>2, <1>3, <1>4
  <2> HIDE DEF d, m, s, h
  <2>2. s % d = m
    BY <1>4, <2>1, DivIs
  <2> QED BY <1>2, <2>2 DEF d
<1>7. s \notin Nets(l - 1)
  BY <1>2, <1>6 DEF Nets
<1>8. Masked(s, l - 1) = n
  <2>1. Masked(s, l - 1) = s - m
    BY <1>6 DEF Masked, Unit
  <2> HIDE DEF m
  <2> QED BY <1>2, <1>3, <2>1
<1> QED BY <1>5, <1>7, <1>8

\* A network that is not the first half of a wider one is its second half.
LEMMA NotFirstHalf ==
  ASSUME NEW l \in 1..W, NEW n \in Nets(l), n + Unit(l) \in Nets(l),
         Masked(n, l - 1) = Masked(n + Unit(l), l - 1)
  PROVE  n \in Nets(l - 1)
<1>1. l - 1 \in 0..W /\ l \in 0..W
  BY WAssumption
<1> DEFINE b == Masked(n, l - 1)
           m == Unit(l)
<1>2. n \in Address /\ n + m \in Address
  BY <1>1, NetIs, Zenon
<1>3. Masked(n, l) = n /\ Masked(n + m, l) = n + m
  BY <1>1, NetIs, Zenon
<1>4. b \in Nets(l - 1) /\ b \in Nat /\ n \in Nat /\ m \in Nat \ {0}
  <2>1. b \in Nets(l - 1)
    BY <1>1, <1>2, MaskedNet
  <2>2. b \in Nat /\ n \in Nat
    BY <1>1, <2>1, NetIs, Zenon
  <2>3. m \in Nat \ {0}
    BY <1>1, UnitIs
  <2> QED BY <2>1, <2>2, <2>3
<1>5. n = b \/ n = b + m
  BY <1>2, <1>3, HalfIs
<1>6. n + m = b \/ n + m = b + m
  BY <1>2, <1>3, HalfIs
<1> HIDE DEF b, m
<1>7. n = b
  BY <1>4, <1>5, <1>6
<1> QED BY <1>4, <1>7

LEMMA Names4Routes ==
  /\ Routes4!Address = Address /\ Routes4!Prefix = Prefix /\ Routes4!Top = Top
  /\ \A a, l : Routes4!Masked(a, l) = Masked(a, l)
  /\ \A a, l : Routes4!New(a, l) = New(a, l)
  /\ \A p, a : Routes4!ContainsAddress(p, a) <=> ContainsAddress(p, a)
  /\ \A p, q : Routes4!Less(p, q) <=> Less(p, q)
  BY DEF Routes4!Prefix, Routes4!Address, Routes4!Top, Prefix, Address, Top, Routes4!New, Routes4!Masked,
         New, Masked, Routes4!ContainsAddress, ContainsAddress, Routes4!Less, Less

\* ++ of an entry, and what Combine() says of the two.
LEMMA PairIs ==
  ASSUME NEW l \in 1..W, NEW n \in Nets(l), n + Unit(l) - 1 # Top
  PROVE  LET p == Routes4!New(n, l)
             next == Routes4!NextPrefix(p)
         IN  /\ next = [net |-> n + Unit(l), len |-> l]
             /\ Routes4!Combine(p, next) = IF n \in Nets(l - 1) THEN {[net |-> n, len |-> l - 1]} ELSE {}
<1> DEFINE u == Unit(l)
           s == n + u
           p == Routes4!New(n, l)
           next == Routes4!NextPrefix(p)
           q == [net |-> s, len |-> l]
           wider == Routes4!Set([net |-> 0, len |-> 0], q.net, p.len - 1)
<1>0. W \in Nat \ {0} /\ l \in 0..W /\ l - 1 \in 0..W /\ l <= W /\ l - 1 <= W /\ l \in Int
  BY WAssumption
<1>1. p = [net |-> n, len |-> l]
  BY <1>0, NetIs, Names4Routes, Zenon
<1>2. n \in Nat /\ u \in Nat \ {0} /\ Top \in Nat
  BY <1>0, NetIs, UnitIs, AddressIs, Zenon
<1>3. s \in Nets(l) /\ Masked(s, l) = s /\ Masked(n, l) = n /\ s \in Nat
  BY <1>0, NextNet, NetIs, Zenon
<1>4. Routes4!LastAddress(p) = s - 1
  <2>1. Routes4!LastAddress(p) = n + u - 1
    BY <1>1 DEF Routes4!LastAddress, Unit
  <2> HIDE DEF p, u
  <2> QED BY <1>2, <2>1
<1>5. s - 1 # Top /\ s # 0 /\ s - 1 + 1 = s
  BY <1>2
<1>6. next = q
  <2>1. Routes4!IncAddress(s - 1) = s
    BY <1>5, Names4Routes DEF Routes4!IncAddress
  <2>2. next = Routes4!Set(p, s, l)
    BY <1>1, <1>4, <2>1 DEF Routes4!NextPrefix
  <2>3. next = [net |-> Masked(s, l), len |-> l]
    BY <1>0, <2>2, Names4Routes DEF Routes4!Set
  <2> QED BY <1>3, <2>3
<1>7. Routes4!Adjacent(p, q)
  <2>1. Routes4!DecAddress(Routes4!FirstAddress(q)) = s - 1
    BY <1>5 DEF Routes4!DecAddress, Routes4!FirstAddress
  <2> QED BY <1>4, <2>1 DEF Routes4!Adjacent, Routes4!UpperAdjacent
<1>8. wider = [net |-> Masked(s, l - 1), len |-> l - 1]
  BY <1>0, <1>1, Names4Routes DEF Routes4!Set
<1>9. Routes4!Contains(wider, q)
  BY <1>0, <1>8, Names4Routes DEF Routes4!Contains
<1>10. Routes4!Contains(wider, p) <=> Masked(n, l - 1) = Masked(s, l - 1)
  BY <1>0, <1>1, <1>8, Names4Routes DEF Routes4!Contains
<1>11. Routes4!Combine(p, q) = IF Masked(n, l - 1) = Masked(s, l - 1) THEN {wider} ELSE {}
  <2>1. p.len = q.len
    BY <1>1
  <2> HIDE DEF p, q
  <2>2. Routes4!Combine(p, q) = IF Routes4!Contains(wider, p) /\ Routes4!Contains(wider, q) THEN {wider} ELSE {}
    BY <1>7, <2>1 DEF Routes4!Combine
  <2> HIDE DEF wider
  <2> QED BY <1>9, <1>10, <2>2
<1>12. CASE n \in Nets(l - 1)
  <2>1. Masked(s, l - 1) = n /\ Masked(n, l - 1) = n
    BY <1>0, <1>3, <1>12, SecondHalf, NetIs, Zenon
  <2> QED BY <1>6, <1>8, <1>11, <1>12, <2>1
<1>13. CASE n \notin Nets(l - 1)
  <2>1. Masked(n, l - 1) # Masked(s, l - 1)
    BY <1>3, <1>13, NotFirstHalf
  <2> QED BY <1>6, <1>11, <1>13, <2>1
<1> QED BY <1>12, <1>13

\* The first halves of the pairs of one value.
Firsts(hm, l) ==
  {n \in DOMAIN hm[l] : n \in Nets(l - 1) /\ n + Unit(l) \in DOMAIN hm[l] /\ hm[l][n] = hm[l][n + Unit(l)]}

LEMMA RoutesAt ==
  ASSUME NEW hm, IsRoutes(hm), NoneIsLast(hm), NEW l \in 1..W, NEW n \in DOMAIN hm[l]
  PROVE  n \in Nets(l) /\ n + Unit(l) - 1 # Top
<1>1. l \in 0..W
  BY WAssumption
<1> QED BY <1>1 DEF IsRoutes, NoneIsLast

LEMMA FirstHalvesIs ==
  ASSUME NEW hm, IsRoutes(hm), NoneIsLast(hm), NEW l \in 1..W
  PROVE  Routes4!FirstHalves(hm, l) = Firsts(hm, l)
<1> DEFINE p(n) == Routes4!New(n, l)
           next(n) == Routes4!NextPrefix(p(n))
<1>1. \A n \in DOMAIN hm[l] : n \in Nets(l) /\ n + Unit(l) - 1 # Top
  BY RoutesAt
<1>2. \A n \in DOMAIN hm[l] :
        /\ next(n).net = n + Unit(l)
        /\ Routes4!Combine(p(n), next(n)) # {} <=> n \in Nets(l - 1)
  <2> TAKE n \in DOMAIN hm[l]
  <2>1. /\ next(n) = [net |-> n + Unit(l), len |-> l]
        /\ Routes4!Combine(p(n), next(n)) = IF n \in Nets(l - 1) THEN {[net |-> n, len |-> l - 1]} ELSE {}
    BY <1>1, PairIs
  <2> DEFINE c == Routes4!Combine(p(n), next(n))
             whole == [net |-> n, len |-> l - 1]
  <2>2. c = IF n \in Nets(l - 1) THEN {whole} ELSE {}
    BY <2>1
  <2> HIDE DEF c, whole
  <2>3. c # {} <=> n \in Nets(l - 1)
    BY <2>2
  <2> QED BY <2>1, <2>3 DEF c
<1>3. Routes4!FirstHalves(hm, l) =
        {n \in DOMAIN hm[l] : Routes4!Combine(p(n), next(n)) # {} /\ next(n).net \in DOMAIN hm[l]
                              /\ hm[l][n] = hm[l][next(n).net]}
  BY DEF Routes4!FirstHalves
<1> HIDE DEF p, next
<1> QED BY <1>2, <1>3 DEF Firsts

\* What is left of length l, and what length l - 1 has then.
Halved(hm, l) ==
  [n \in DOMAIN hm[l] \ (Firsts(hm, l) \cup {n + Unit(l) : n \in Firsts(hm, l)}) |-> hm[l][n]]
Widened(hm, l) ==
  [n \in DOMAIN hm[l - 1] \cup Firsts(hm, l) |-> IF n \in Firsts(hm, l) THEN hm[l][n] ELSE hm[l - 1][n]]

LEMMA CombinedAtIs ==
  ASSUME NEW hm, IsRoutes(hm), NoneIsLast(hm), NEW l \in 1..W
  PROVE  Routes4!CombinedAt(hm, l) =
           [k \in 0..W |-> IF k = l THEN Halved(hm, l) ELSE IF k = l - 1 THEN Widened(hm, l) ELSE hm[k]]
<1> DEFINE F == Routes4!FirstHalves(hm, l)
           Whole(n) == CHOOSE w \in Routes4!Combine(Routes4!New(n, l), Routes4!NextPrefix(Routes4!New(n, l))) : TRUE
           second == {Routes4!NextPrefix(Routes4!New(n, l)).net : n \in F}
           whole == {Whole(n).net : n \in F}
           Value4(n) == hm[l][CHOOSE f \in F : Whole(f).net = n]
<1>0. l \in 0..W /\ l - 1 \in 0..W /\ l # l - 1
  BY WAssumption
<1>9. F = Firsts(hm, l)
  BY FirstHalvesIs
<1>1. \A n \in F : Whole(n).net = n /\ Routes4!NextPrefix(Routes4!New(n, l)).net = n + Unit(l)
  <2> TAKE n \in F
  <2> DEFINE c == Routes4!Combine(Routes4!New(n, l), Routes4!NextPrefix(Routes4!New(n, l)))
             w == [net |-> n, len |-> l - 1]
  <2>1. n \in DOMAIN hm[l] /\ n \in Nets(l - 1)
    BY <1>9 DEF Firsts
  <2>2. n \in Nets(l) /\ n + Unit(l) - 1 # Top
    BY <2>1, RoutesAt
  <2>3. /\ Routes4!NextPrefix(Routes4!New(n, l)) = [net |-> n + Unit(l), len |-> l]
        /\ c = IF n \in Nets(l - 1) THEN {w} ELSE {}
    BY <2>2, PairIs
  <2>4. c = {w} /\ Routes4!NextPrefix(Routes4!New(n, l)).net = n + Unit(l)
    BY <2>1, <2>3
  <2>5. (CHOOSE x \in {w} : TRUE) = w
    OBVIOUS
  <2> HIDE DEF c
  <2>6. (CHOOSE x \in c : TRUE) = w
    BY <2>4, <2>5
  <2>7. Whole(n) = w
    BY <2>6 DEF c
  <2>8. w.net = n
    OBVIOUS
  <2> HIDE DEF Whole, w
  <2> QED BY <2>4, <2>7, <2>8
<1>2. Routes4!CombinedAt(hm, l) =
        [hm EXCEPT ![l] = Routes4!Only(@, DOMAIN @ \ (F \cup second)),
                   ![l - 1] = [n \in DOMAIN @ \cup whole |-> IF n \in whole THEN Value4(n) ELSE @[n]]]
  BY DEF Routes4!CombinedAt
<1>3. second = {n + Unit(l) : n \in F} /\ whole = F
  <2> HIDE DEF F, Whole
  <2> QED BY <1>1
<1>4. \A n \in F : Value4(n) = hm[l][n]
  <2> HIDE DEF F, Whole
  <2> TAKE n \in F
  <2>1. (CHOOSE f \in F : Whole(f).net = n) = n
    BY <1>1
  <2> QED BY <2>1, Zenon
<1> DEFINE lower == Routes4!Only(hm[l], DOMAIN hm[l] \ (F \cup second))
           upper == [n \in DOMAIN hm[l - 1] \cup whole |-> IF n \in whole THEN Value4(n) ELSE hm[l - 1][n]]
<1>5. lower = Halved(hm, l)
  <2> HIDE DEF second, F
  <2> QED BY <1>3, <1>9 DEF Routes4!Only, Halved
<1>6. upper = Widened(hm, l)
  <2> HIDE DEF whole, Value4, F
  <2>1. upper = [n \in DOMAIN hm[l - 1] \cup F |-> IF n \in F THEN Value4(n) ELSE hm[l - 1][n]]
    BY <1>3
  <2>2. upper = [n \in DOMAIN hm[l - 1] \cup F |-> IF n \in F THEN hm[l][n] ELSE hm[l - 1][n]]
    BY <1>4, <2>1
  <2> QED BY <1>9, <2>2 DEF Widened
<1>7. hm = [k \in 0..W |-> hm[k]]
  BY DEF IsRoutes
<1>8. Routes4!CombinedAt(hm, l) = [hm EXCEPT ![l] = lower, ![l - 1] = upper]
  <2> HIDE DEF F, second, whole, Value4
  <2>1. [hm EXCEPT ![l] = lower][l - 1] = hm[l - 1]
    BY <1>0, <1>7
  <2> QED BY <1>0, <1>2, <1>7, <2>1
<1> HIDE DEF lower, upper
<1> QED BY <1>0, <1>5, <1>6, <1>7, <1>8, Zenon

LEMMA FirstsAre ==
  ASSUME NEW hm, IsRoutes(hm), NEW l \in 1..W, NEW a \in Address
  PROVE  /\ Masked(a, l - 1) \in Firsts(hm, l) =>
              /\ Masked(a, l) \in DOMAIN hm[l]
              /\ Masked(a, l) \in Firsts(hm, l) \cup {n + Unit(l) : n \in Firsts(hm, l)}
              /\ hm[l][Masked(a, l)] = hm[l][Masked(a, l - 1)]
         /\ Masked(a, l - 1) \notin Firsts(hm, l) =>
              Masked(a, l) \notin Firsts(hm, l) \cup {n + Unit(l) : n \in Firsts(hm, l)}
<1> DEFINE F == Firsts(hm, l)
           u == Unit(l)
           b == Masked(a, l - 1)
           c == Masked(a, l)
<1>0. l - 1 \in 0..W /\ l \in 0..W
  BY WAssumption
<1>1. c = b \/ c = b + u
  BY HalfIs
<1>2. b \in Nets(l - 1) /\ b \in Nat /\ u \in Nat \ {0}
  BY <1>0, MaskedNet, NetIs, UnitIs, Zenon
<1>3. \A n \in F : n \in DOMAIN hm[l] /\ n \in Nets(l - 1) /\ n + u \in DOMAIN hm[l] /\ hm[l][n] = hm[l][n + u]
  BY DEF Firsts
<1>4. \A n \in F : n \in Nat /\ n + u \notin Nets(l - 1)
  BY <1>0, <1>3, NetIs, SecondHalf, Zenon
<1>5. b + u \notin Nets(l - 1)
  BY <1>2, SecondHalf
<1> HIDE DEF F, u, b, c
<1>6. ASSUME b \in F
      PROVE  c \in DOMAIN hm[l] /\ c \in F \cup {n + u : n \in F} /\ hm[l][c] = hm[l][b]
  BY <1>1, <1>3, <1>6
<1>7. ASSUME b \notin F, c \in F PROVE FALSE
  BY <1>1, <1>3, <1>5, <1>7
<1>8. ASSUME b \notin F, NEW n \in F, c = n + u PROVE FALSE
  <2>1. c # b
    BY <1>2, <1>4, <1>8
  <2>2. b + u = n + u /\ n \in Nat
    BY <1>1, <1>4, <1>8, <2>1
  <2>3. b = n
    BY <1>2, <2>2
  <2> QED BY <1>8, <2>3
<1> QED BY <1>6, <1>7, <1>8 DEF F, u, b, c

\* One length of the first half of Coalesce().
LEMMA CombinedAggregates ==
  ASSUME NEW hm, IsRoutes(hm), NoneIsLast(hm), NEW l \in 1..W
  PROVE  /\ Aggregates(hm, Routes4!CombinedAt(hm, l))
         /\ NoneIsLast(Routes4!CombinedAt(hm, l))
<1> DEFINE new == Routes4!CombinedAt(hm, l)
           F == Firsts(hm, l)
           u == Unit(l)
           gone == F \cup {n + u : n \in F}
<1>0. /\ W \in Nat \ {0} /\ l - 1 \in 0..W /\ l \in 0..W /\ l - 1 # l /\ l - 1 < l /\ l - 1 + 1 = l
      /\ l - 1 < W
  BY WAssumption
<1>1. new = [k \in 0..W |-> IF k = l THEN Halved(hm, l) ELSE IF k = l - 1 THEN Widened(hm, l) ELSE hm[k]]
  BY CombinedAtIs
<1>2. /\ new[l] = [n \in DOMAIN hm[l] \ gone |-> hm[l][n]]
      /\ new[l - 1] = [n \in DOMAIN hm[l - 1] \cup F |-> IF n \in F THEN hm[l][n] ELSE hm[l - 1][n]]
      /\ \A k \in 0..W : k # l /\ k # l - 1 => new[k] = hm[k]
      /\ new = [k \in 0..W |-> new[k]]
  BY <1>0, <1>1 DEF Halved, Widened
<1>3. \A n \in F : n \in DOMAIN hm[l] /\ n \in Nets(l - 1) /\ n + u \in DOMAIN hm[l] /\ hm[l][n] = hm[l][n + u]
  BY DEF Firsts
<1>4. \A k \in 0..W : DOMAIN hm[k] \subseteq Nets(k) /\ \A n \in DOMAIN hm[k] : hm[k][n] \in Value
  BY DEF IsRoutes
<1>5. u \in Nat \ {0} /\ Unit(l - 1) = 2 * u /\ Top \in Nat
  BY <1>0, UnitIs, AddressIs
<1>6. \A a \in Address :
        LET b == Masked(a, l - 1)
            c == Masked(a, l)
        IN  /\ b \in F => c \in DOMAIN hm[l] /\ c \in gone /\ hm[l][c] = hm[l][b]
            /\ b \notin F => c \notin gone
  BY FirstsAre
<1> HIDE DEF new, F, gone, u
<1>7. IsRoutes(new)
  <2>1. ASSUME NEW k \in 0..W
        PROVE  DOMAIN new[k] \subseteq Nets(k) /\ new[k] \in [DOMAIN new[k] -> Value]
    <3>1. CASE k = l
      BY <1>2, <1>4, <3>1
    <3>2. CASE k = l - 1
      BY <1>0, <1>2, <1>3, <1>4, <3>2
    <3>3. CASE k # l /\ k # l - 1
      BY <1>2, <3>3 DEF IsRoutes
    <3> QED BY <3>1, <3>2, <3>3
  <2> QED BY <1>2, <2>1 DEF IsRoutes
<1>8. NoneIsLast(new)
  <2> SUFFICES ASSUME NEW k \in 1..W, NEW n \in DOMAIN new[k] PROVE n + Unit(k) - 1 # Top
    BY DEF NoneIsLast
  <2>0. k \in 0..W /\ Unit(k) \in Nat
    BY <1>0, UnitIs
  <2>1. CASE n \in DOMAIN hm[k]
    BY <2>1 DEF NoneIsLast
  <2>2. CASE n \notin DOMAIN hm[k]
    <3>1. k = l - 1 /\ n \in F
      BY <1>2, <2>0, <2>2
    <3>2. n + u \in DOMAIN hm[l]
      BY <1>3, <3>1
    <3>3. n + u + u - 1 # Top
      BY <3>2 DEF NoneIsLast, u
    <3>4. n \in Nat
      BY <1>0, <1>3, <3>1, NetIs, Zenon
    <3> QED BY <1>5, <3>1, <3>3, <3>4
  <2> QED BY <2>1, <2>2
<1>9. Cardinality(EntryIn(new)) <= Cardinality(EntryIn(hm))
  <2> DEFINE A == EntryIn(new)
             B == EntryIn(hm)
             half(r) == [net |-> r.net, len |-> l]
             taken(r) == r.len = l - 1 /\ r.net \in F
             f == [p \in A |-> IF taken(p) THEN half(p) ELSE p]
  <2>1. /\ A \subseteq Prefix /\ B \subseteq Prefix
        /\ \A p \in Prefix : p \in A <=> p.net \in DOMAIN new[p.len]
        /\ \A p \in Prefix : p \in B <=> p.net \in DOMAIN hm[p.len]
    BY DEF EntryIn
  <2>2. ASSUME NEW p \in A, taken(p) PROVE half(p) \in B /\ half(p) \notin A
    <3>1. p.net \in F /\ p.net \in DOMAIN hm[l]
      BY <1>3, <2>2
    <3>2. half(p) \in Prefix /\ half(p).net = p.net /\ half(p).len = l
      BY <1>0, <1>4, <3>1, NetIs
    <3>3. p.net \notin DOMAIN new[l]
      BY <1>2, <3>1 DEF gone
    <3> HIDE DEF half, A, B
    <3> QED BY <2>1, <3>1, <3>2, <3>3
  <2>3. ASSUME NEW p \in A, ~taken(p) PROVE p \in B
    <3>1. p \in Prefix /\ p.len \in 0..W /\ p.net \in DOMAIN new[p.len]
      BY <2>1, PrefixIs
    <3>2. CASE p.len = l
      BY <1>2, <2>1, <3>1, <3>2
    <3>3. CASE p.len = l - 1
      BY <1>2, <2>1, <2>3, <3>1, <3>3
    <3>4. CASE p.len # l /\ p.len # l - 1
      BY <1>2, <2>1, <3>1, <3>4
    <3> QED BY <3>2, <3>3, <3>4
  <2>4. \A p \in A : p = [net |-> p.net, len |-> p.len]
    BY <2>1, PrefixIs
  <2>5. \A p, q \in A : taken(p) /\ taken(q) /\ half(p) = half(q) => p = q
    <3> TAKE p, q \in A
    <3> HAVE taken(p) /\ taken(q) /\ half(p) = half(q)
    <3>1. p.net = q.net /\ p.len = q.len
      OBVIOUS
    <3> HIDE DEF A
    <3> QED BY <2>4, <3>1
  <2>6. f \in [A -> B]
    <3> HIDE DEF A, B, taken, half
    <3> QED BY <2>2, <2>3
  <2>7. \A p, q \in A : f[p] = f[q] => p = q
    <3> HIDE DEF A, B, taken, half
    <3> QED BY <2>2, <2>3, <2>5
  <2>8. IsFiniteSet(B)
    BY Finite4
  <2> HIDE DEF A, B, f
  <2>9. f \in Injection(A, B)
    BY <2>6, <2>7 DEF Injection, IsInjective
  <2>10. Cardinality(A) <= Cardinality(B)
    BY <2>8, <2>9, FS_Injection
  <2> QED BY <2>10 DEF A, B
<1>10. ASSUME NEW a \in Address
       PROVE  /\ HitsIn(new, a) = {} <=> HitsIn(hm, a) = {}
              /\ Cardinality(HitsIn(new, a)) <= Cardinality(HitsIn(hm, a))
              /\ ValuesIn(new, a) \subseteq ValuesIn(hm, a)
              /\ HitsIn(hm, a) # {} => RouteIn(new, a) = RouteIn(hm, a)
  <2> DEFINE b == Masked(a, l - 1)
             c == Masked(a, l)
             H == HitsIn(hm, a)
             N == HitsIn(new, a)
  <2>1. /\ b \in F => c \in DOMAIN hm[l] /\ c \in gone /\ hm[l][c] = hm[l][b]
        /\ b \notin F => c \notin gone
    BY <1>6
  <2>2. /\ H \in SUBSET (0..W) /\ N \in SUBSET (0..W)
        /\ \A k \in 0..W : k \in H <=> Masked(a, k) \in DOMAIN hm[k]
        /\ \A k \in 0..W : k \in N <=> Masked(a, k) \in DOMAIN new[k]
    BY DEF HitsIn
  <2>3. /\ ValuesIn(hm, a) = {hm[k][Masked(a, k)] : k \in H}
        /\ ValuesIn(new, a) = {new[k][Masked(a, k)] : k \in N}
    BY DEF ValuesIn
  <2>4. /\ RouteIn(hm, a) = hm[Greatest(H)][Masked(a, Greatest(H))]
        /\ RouteIn(new, a) = new[Greatest(N)][Masked(a, Greatest(N))]
    BY DEF RouteIn
  <2>5. IsFiniteSet(H) /\ Cardinality(H) \in Nat
    BY Finite4
  <2> HIDE DEF H, N
  <2>6. CASE b \notin F
    <3>1. ASSUME NEW k \in 0..W
          PROVE  /\ k \in N <=> k \in H
                 /\ k \in N => new[k][Masked(a, k)] = hm[k][Masked(a, k)]
      <4>1. CASE k = l
        BY <1>2, <2>1, <2>2, <2>6, <4>1
      <4>2. CASE k = l - 1
        BY <1>2, <2>2, <2>6, <4>2
      <4>3. CASE k # l /\ k # l - 1
        BY <1>2, <2>2, <4>3
      <4> QED BY <4>1, <4>2, <4>3
    <3>2. N = H
      BY <2>2, <3>1, Zenon
    <3>3. H # {} => Greatest(H) \in H
      BY <2>2, GreatestLength
    <3>4. H # {} => RouteIn(new, a) = RouteIn(hm, a)
      BY <2>2, <2>4, <3>1, <3>2, <3>3, Zenon
    <3>5. ValuesIn(new, a) \subseteq ValuesIn(hm, a)
      BY <2>2, <2>3, <3>1, <3>2
    <3> QED BY <2>5, <3>2, <3>4, <3>5 DEF H, N
  <2>7. CASE b \in F
    <3>1. l \in H /\ l \notin N
      BY <1>0, <1>2, <2>1, <2>2, <2>7
    <3>2. l - 1 \in N /\ new[l - 1][b] = hm[l][c]
      BY <1>0, <1>2, <2>1, <2>2, <2>7
    <3>3. ASSUME NEW k \in 0..W, k # l, k # l - 1
          PROVE  /\ k \in N <=> k \in H
                 /\ k \in N => new[k][Masked(a, k)] = hm[k][Masked(a, k)]
      BY <1>2, <2>2, <3>3
    <3>4. ValuesIn(new, a) \subseteq ValuesIn(hm, a)
      <4>1. ASSUME NEW k \in N PROVE new[k][Masked(a, k)] \in ValuesIn(hm, a)
        <5>1. CASE k = l - 1
          BY <2>3, <3>1, <3>2, <5>1
        <5>2. CASE k # l - 1
          BY <2>2, <2>3, <3>1, <3>3, <5>2
        <5> QED BY <5>1, <5>2
      <4> QED BY <2>3, <4>1
    <3>5. Cardinality(N) <= Cardinality(H)
      <4> DEFINE g == [k \in N |-> IF k = l - 1 THEN l ELSE k]
      <4>1. g \in [N -> H]
        BY <2>2, <3>1, <3>3
      <4>2. \A j, k \in N : g[j] = g[k] => j = k
        BY <3>1
      <4> HIDE DEF g
      <4>3. g \in Injection(N, H)
        BY <4>1, <4>2 DEF Injection, IsInjective
      <4> QED BY <2>5, <4>3, FS_Injection
    <3> DEFINE m == Greatest(H)
               n == Greatest(N)
    <3>6. m \in H /\ (\A j \in H : m >= j) /\ n \in N /\ \A j \in N : n >= j
      BY <2>2, <3>1, <3>2, GreatestLength
    <3>7. m \in 0..W /\ n \in 0..W
      BY <2>2, <3>6, Zenon
    <3> HIDE DEF m, n
    <3>8. RouteIn(new, a) = RouteIn(hm, a)
      <4>1. CASE m = l
        <5>1. n = l - 1
          <6>1. n >= l - 1
            BY <3>2, <3>6
          <6>2. n # l
            BY <3>1, <3>6
          <6>3. n > l => n \in H
            BY <1>0, <3>3, <3>6, <3>7
          <6>4. ~(n > l)
            BY <1>0, <3>6, <3>7, <4>1, <6>3
          <6> QED BY <1>0, <3>7, <6>1, <6>2, <6>4
        <5> QED BY <2>4, <3>2, <4>1, <5>1 DEF m, n
      <4>2. CASE m # l
        <5>1. m > l
          BY <1>0, <3>1, <3>6, <3>7, <4>2
        <5>2. m \in N
          BY <1>0, <3>3, <3>6, <3>7, <5>1
        <5>3. n >= m
          BY <3>6, <5>2
        <5>4. n \in H
          BY <1>0, <3>3, <3>6, <3>7, <5>1, <5>3
        <5>5. n = m
          BY <3>6, <3>7, <5>3, <5>4
        <5>6. new[m][Masked(a, m)] = hm[m][Masked(a, m)]
          BY <1>0, <3>3, <3>7, <5>1, <5>2
        <5> QED BY <2>4, <5>5, <5>6 DEF m, n
      <4> QED BY <4>1, <4>2
    <3> QED BY <3>1, <3>2, <3>4, <3>5, <3>8 DEF H, N
  <2> QED BY <2>6, <2>7
<1>11. Aggregates(hm, new)
  BY <1>7, <1>9, <1>10 DEF Aggregates
<1> QED BY <1>8, <1>11 DEF new

\* One length of the second half of Coalesce().
LEMMA DroppedAggregates ==
  ASSUME NEW hm, IsRoutes(hm), NEW l \in 1..W
  PROVE  Aggregates(hm, Routes4!DroppedAt(hm, l))
<1> DEFINE new == Routes4!DroppedAt(hm, l)
           wider(n) == \E k \in 1..(l - 1) : Masked(n, k) \in DOMAIN hm[k] /\ hm[k][Masked(n, k)] = hm[l][n]
           D == {n \in DOMAIN hm[l] : ~wider(n)}
<1>0. W \in Nat \ {0} /\ l \in 0..W /\ (\A k \in 1..(l - 1) : k \in 0..W /\ k \in 0..l /\ k < l)
  BY WAssumption
<1>1. /\ hm = [k \in 0..W |-> hm[k]]
      /\ \A k \in 0..W : DOMAIN hm[k] \subseteq Nets(k) /\ \A n \in DOMAIN hm[k] : hm[k][n] \in Value
  BY DEF IsRoutes
<1>2. \A n \in DOMAIN hm[l] : Routes4!HaveWiderMatch(hm, Routes4!New(n, l), hm[l][n]) <=> wider(n)
  <2> TAKE n \in DOMAIN hm[l]
  <2>1. n \in Nets(l)
    BY <1>0, <1>1
  <2>2. Routes4!New(n, l) = [net |-> n, len |-> l]
    BY <1>0, <2>1, NetIs, Names4Routes, Zenon
  <2> QED BY <2>2, Names4Routes DEF Routes4!HaveWiderMatch
<1>3. new = [hm EXCEPT ![l] = [n \in D |-> hm[l][n]]]
  <2>1. new = [hm EXCEPT ![l] = Routes4!Only(hm[l],
                  {n \in DOMAIN hm[l] : ~Routes4!HaveWiderMatch(hm, Routes4!New(n, l), hm[l][n])})]
    BY DEF Routes4!DroppedAt
  <2>2. D = {n \in DOMAIN hm[l] : ~Routes4!HaveWiderMatch(hm, Routes4!New(n, l), hm[l][n])}
    BY <1>2
  <2> HIDE DEF new, D, wider
  <2> QED BY <2>1, <2>2 DEF Routes4!Only
<1>4. /\ new = [k \in 0..W |-> new[k]]
      /\ new[l] = [n \in D |-> hm[l][n]]
      /\ \A k \in 0..W : k # l => new[k] = hm[k]
      /\ D \subseteq DOMAIN hm[l]
  <2> HIDE DEF wider
  <2>1. D \subseteq DOMAIN hm[l]
    OBVIOUS
  <2> HIDE DEF new, D
  <2> QED BY <1>0, <1>1, <1>3, <2>1, Zenon
<1> HIDE DEF new, D
<1>5. IsRoutes(new)
  <2>1. ASSUME NEW k \in 0..W
        PROVE  DOMAIN new[k] \subseteq Nets(k) /\ new[k] \in [DOMAIN new[k] -> Value]
    <3>1. CASE k = l
      BY <1>1, <1>4, <3>1
    <3>2. CASE k # l
      BY <1>4, <3>2 DEF IsRoutes
    <3> QED BY <3>1, <3>2
  <2> QED BY <1>4, <2>1 DEF IsRoutes
<1>6. \A k \in 0..W : DOMAIN new[k] \subseteq DOMAIN hm[k] /\ \A n \in DOMAIN new[k] : new[k][n] = hm[k][n]
  <2> TAKE k \in 0..W
  <2>1. CASE k = l
    BY <1>4, <2>1
  <2>2. CASE k # l
    BY <1>4, <2>2
  <2> QED BY <2>1, <2>2
<1>7. Cardinality(EntryIn(new)) <= Cardinality(EntryIn(hm))
  <2>1. EntryIn(new) \subseteq EntryIn(hm)
    BY <1>6, PrefixIs DEF EntryIn
  <2> QED BY <2>1, Finite4, FS_Subset
<1>8. NoneIsLast(hm) => NoneIsLast(new)
  BY <1>0, <1>6 DEF NoneIsLast
<1>9. ASSUME NEW a \in Address
      PROVE  /\ HitsIn(new, a) = {} <=> HitsIn(hm, a) = {}
             /\ Cardinality(HitsIn(new, a)) <= Cardinality(HitsIn(hm, a))
             /\ ValuesIn(new, a) \subseteq ValuesIn(hm, a)
             /\ HitsIn(hm, a) # {} /\ Cardinality(HitsIn(hm, a)) <= 2 => RouteIn(new, a) = RouteIn(hm, a)
  <2> DEFINE c == Masked(a, l)
             H == HitsIn(hm, a)
             N == HitsIn(new, a)
  <2>1. /\ H \in SUBSET (0..W) /\ N \in SUBSET (0..W)
        /\ \A k \in 0..W : k \in H <=> Masked(a, k) \in DOMAIN hm[k]
        /\ \A k \in 0..W : k \in N <=> Masked(a, k) \in DOMAIN new[k]
    BY DEF HitsIn
  <2>2. /\ ValuesIn(hm, a) = {hm[k][Masked(a, k)] : k \in H}
        /\ ValuesIn(new, a) = {new[k][Masked(a, k)] : k \in N}
    BY DEF ValuesIn
  <2>3. /\ RouteIn(hm, a) = hm[Greatest(H)][Masked(a, Greatest(H))]
        /\ RouteIn(new, a) = new[Greatest(N)][Masked(a, Greatest(N))]
    BY DEF RouteIn
  <2>4. IsFiniteSet(H) /\ Cardinality(H) \in Nat /\ IsFiniteSet(N) /\ Cardinality(N) \in Nat
    BY Finite4
  <2> HIDE DEF H, N
  <2>5. N \subseteq H
    BY <1>6, <2>1
  <2>6. Cardinality(N) <= Cardinality(H)
    BY <2>4, <2>5, FS_Subset
  <2>7. ValuesIn(new, a) \subseteq ValuesIn(hm, a)
    BY <1>6, <2>1, <2>2, <2>5
  <2>8. \A k \in H : k # l => k \in N
    BY <1>4, <2>1
  <2>9. CASE l \notin H \/ l \in N
    <3>1. N = H
      BY <2>5, <2>8, <2>9
    <3>2. H # {} => Greatest(H) \in N /\ Greatest(H) \in 0..W
      BY <2>1, <3>1, GreatestLength
    <3>3. H # {} => RouteIn(new, a) = RouteIn(hm, a)
      BY <1>6, <2>1, <2>3, <3>1, <3>2
    <3> QED BY <2>6, <2>7, <3>1, <3>3 DEF H, N
  <2>10. CASE l \in H /\ l \notin N
    <3>1. c \in DOMAIN hm[l] /\ c \notin D
      BY <1>0, <1>4, <2>1, <2>10
    <3>2. wider(c)
      BY <3>1 DEF D
    <3>3. PICK k \in 1..(l - 1) : Masked(c, k) \in DOMAIN hm[k] /\ hm[k][Masked(c, k)] = hm[l][c]
      BY <3>2
    <3> HIDE DEF wider
    <3>4. k \in 0..W /\ k \in 0..l /\ k < l
      BY <1>0
    <3>5. Masked(c, k) = Masked(a, k)
      BY <1>0, <3>4, MaskedTwice
    <3>6. k \in H /\ k \in N /\ hm[k][Masked(a, k)] = hm[l][c]
      BY <2>1, <2>8, <3>3, <3>4, <3>5
    <3>7. ASSUME Cardinality(H) <= 2 PROVE RouteIn(new, a) = RouteIn(hm, a)
      <4>1. H = {k, l}
        <5>1. {k, l} \subseteq H /\ IsFiniteSet({k, l}) /\ Cardinality({k, l}) = 2
          <6>1. IsFiniteSet({l}) /\ Cardinality({l}) = 1
            BY FS_Singleton, Zenon
          <6>2. k \notin {l}
            BY <3>4
          <6>3. IsFiniteSet({l} \cup {k}) /\ Cardinality({l} \cup {k}) = 2
            BY <6>1, <6>2, FS_AddElement
          <6>4. {l} \cup {k} = {k, l}
            OBVIOUS
          <6> QED BY <2>10, <3>6, <6>3, <6>4
        <5>2. Cardinality({k, l}) <= Cardinality(H)
          BY <2>4, <5>1, FS_Subset
        <5>3. Cardinality({k, l}) = Cardinality(H)
          BY <2>4, <3>7, <5>1, <5>2
        <5> QED BY <2>4, <5>1, <5>3, FS_Subset
      <4>2. N = {k}
        BY <2>5, <2>10, <3>6, <4>1, Zenon
      <4>3. Greatest(H) = l
        <5>1. Greatest(H) \in H /\ \A j \in H : Greatest(H) >= j
          BY <2>1, <2>10, GreatestLength
        <5> DEFINE m == Greatest(H)
        <5> HIDE DEF m
        <5>2. m \in {k, l} /\ m >= l
          BY <2>10, <4>1, <5>1 DEF m
        <5>3. m = l
          BY <1>0, <3>4, <5>2
        <5> QED BY <5>3 DEF m
      <4>4. Greatest(N) = k
        BY <2>1, <3>6, <4>2, GreatestLength
      <4>5. new[k][Masked(a, k)] = hm[k][Masked(a, k)]
        BY <1>4, <3>4
      <4> QED BY <2>3, <3>6, <4>3, <4>4, <4>5
    <3> QED BY <2>6, <2>7, <2>10, <3>6, <3>7 DEF H, N
  <2> QED BY <2>9, <2>10
<1> QED BY <1>5, <1>7, <1>9 DEF Aggregates, new

\* The recursive functions of the two halves of Coalesce() are defined: there is
\* one for the lengths from any b to W.
StepAt(first, hm, l) == IF first THEN Routes4!CombinedAt(hm, l) ELSE Routes4!DroppedAt(hm, l)

LEMMA DownExists ==
  ASSUME NEW hm, NEW first \in BOOLEAN
  PROVE  \E f : f = [l \in 0..W |-> IF l = W THEN hm ELSE StepAt(first, f[l + 1], l + 1)]
<1> DEFINE Down(f, b) == f = [l \in b..W |-> IF l = W THEN hm ELSE StepAt(first, f[l + 1], l + 1)]
           S == {b \in 0..W : ~\E f : Down(f, b)}
<1>0. W \in Nat \ {0}
  BY WAssumption
<1> SUFFICES S = {}
  <2>1. 0 \in 0..W
    BY <1>0
  <2>2. S = {} => \E f : Down(f, 0)
    <3> HIDE DEF Down
    <3> QED BY <2>1
  <2> QED BY <2>2
<1> SUFFICES ASSUME S # {} PROVE FALSE
  OBVIOUS
<1>1. S \in SUBSET (0..W)
  OBVIOUS
<1>2. PICK b \in S : \A i \in S : b >= i
  <2> HIDE DEF S
  <2> QED BY <1>0, <1>1, GreatestOf, Zenon
<1>3. b # W
  <2> DEFINE f == [l \in W..W |-> hm]
  <2>1. \A l \in W..W : l = W
    BY <1>0
  <2>2. Down(f, W)
    BY <2>1
  <2> QED BY <1>2, <2>2, Zenon
<1>4. b \in 0..W /\ b + 1 \in 0..W /\ b + 1 > b /\ b \in Nat
  BY <1>0, <1>2, <1>3
<1>5. PICK f : Down(f, b + 1)
  BY <1>2, <1>4
<1> DEFINE g == [l \in b..W |-> IF l = b THEN StepAt(first, f[b + 1], b + 1) ELSE f[l]]
<1>6. Down(g, b)
  <2>1. ASSUME NEW l \in b..W
        PROVE  g[l] = IF l = W THEN hm ELSE StepAt(first, g[l + 1], l + 1)
    <3>1. l # W => l + 1 \in b..W /\ l + 1 # b
      BY <1>0, <1>4
    <3>2. l # W => g[l + 1] = f[l + 1]
      BY <3>1
    <3>3. CASE l = b
      <4>1. g[l] = StepAt(first, f[l + 1], l + 1)
        BY <3>3
      <4> QED BY <1>3, <3>2, <3>3, <4>1
    <3>4. CASE l # b
      <4>1. l \in (b + 1)..W
        BY <1>0, <1>4, <3>4
      <4>2. f[l] = IF l = W THEN hm ELSE StepAt(first, f[l + 1], l + 1)
        BY <1>5, <4>1, Zenon
      <4>3. g[l] = f[l]
        BY <3>4
      <4> HIDE DEF g
      <4> QED BY <3>2, <4>2, <4>3
    <3> QED BY <3>3, <3>4
  <2>2. g = [l \in b..W |-> g[l]]
    OBVIOUS
  <2> HIDE DEF g
  <2> QED BY <2>1, <2>2, Zenon
<1>7. b \notin S
  <2> HIDE DEF Down, g
  <2> QED BY <1>6
<1> QED BY <1>2, <1>7

\* Each half aggregates, if each length does.
LEMMA DownAggregates ==
  ASSUME NEW hm, IsRoutes(hm), NEW first \in BOOLEAN, first => NoneIsLast(hm),
         NEW f, f = [l \in 0..W |-> IF l = W THEN hm ELSE StepAt(first, f[l + 1], l + 1)]
  PROVE  Aggregates(hm, f[0])
<1> DEFINE Good(l) == Aggregates(hm, f[l]) /\ (first => NoneIsLast(f[l]))
           S == {l \in 0..W : ~Good(l)}
<1>0. W \in Nat \ {0}
  BY WAssumption
<1> SUFFICES S = {}
  <2>1. 0 \in 0..W
    BY <1>0
  <2>2. S = {} => Good(0)
    <3> HIDE DEF Good
    <3> QED BY <2>1
  <2> QED BY <2>2
<1> SUFFICES ASSUME S # {} PROVE FALSE
  OBVIOUS
<1>1. S \in SUBSET (0..W)
  OBVIOUS
<1>2. PICK b \in S : \A i \in S : b >= i
  <2> HIDE DEF S
  <2> QED BY <1>0, <1>1, GreatestOf, Zenon
<1>3. b # W
  <2>1. f[W] = hm
    BY <1>0
  <2>2. Good(W)
    BY <2>1, AggregatesReflexive
  <2> HIDE DEF Good
  <2> QED BY <1>2, <2>2
<1>4. b \in 0..W /\ b + 1 \in 0..W /\ b + 1 > b /\ b + 1 \in 1..W
  BY <1>0, <1>2, <1>3
<1>5. Good(b + 1)
  <2> HIDE DEF Good
  <2> QED BY <1>2, <1>4
<1>6. f[b] = StepAt(first, f[b + 1], b + 1)
  BY <1>3, <1>4
<1>7. IsRoutes(f[b + 1])
  BY <1>5 DEF Aggregates
<1>8. Aggregates(f[b + 1], f[b]) /\ (first => NoneIsLast(f[b]))
  <2>1. CASE first
    BY <1>4, <1>5, <1>6, <1>7, <2>1, CombinedAggregates DEF StepAt
  <2>2. CASE ~first
    BY <1>4, <1>6, <1>7, <2>2, DroppedAggregates DEF StepAt
  <2> QED BY <2>1, <2>2
<1>9. Good(b)
  BY <1>5, <1>8, AggregatesTransitive
<1> HIDE DEF Good
<1> QED BY <1>2, <1>9

LEMMA CoalescedAggregates ==
  ASSUME NEW hm, IsRoutes(hm), NoneIsLast(hm)
  PROVE  Aggregates(hm, Routes4!Coalesced(hm))
<1> DEFINE Combining(g, f) == f = [l \in 0..W |-> IF l = W THEN g ELSE Routes4!CombinedAt(f[l + 1], l + 1)]
           Dropping(g, f) == f = [l \in 0..W |-> IF l = W THEN g ELSE Routes4!DroppedAt(f[l + 1], l + 1)]
           c == CHOOSE f : Combining(hm, f)
           d == CHOOSE f : Dropping(c[0], f)
<1>1. Routes4!EachLength(Routes4!CombinedAt, hm) = c[0]
  BY DEF Routes4!EachLength
<1>2. Routes4!EachLength(Routes4!DroppedAt, c[0]) = d[0]
  BY DEF Routes4!EachLength
<1>3. Routes4!Coalesced(hm) = d[0]
  <2> HIDE DEF c, d
  <2> QED BY <1>1, <1>2 DEF Routes4!Coalesced
<1>4. ASSUME NEW g, NEW f
      PROVE  Combining(g, f) <=> f = [l \in 0..W |-> IF l = W THEN g ELSE StepAt(TRUE, f[l + 1], l + 1)]
  BY DEF StepAt
<1>5. ASSUME NEW g, NEW f
      PROVE  Dropping(g, f) <=> f = [l \in 0..W |-> IF l = W THEN g ELSE StepAt(FALSE, f[l + 1], l + 1)]
  BY DEF StepAt
<1>6. Combining(hm, c)
  <2>1. \E f : Combining(hm, f)
    <3>1. PICK f : f = [l \in 0..W |-> IF l = W THEN hm ELSE StepAt(TRUE, f[l + 1], l + 1)]
      BY DownExists, Zenon
    <3> HIDE DEF Combining
    <3> QED BY <1>4, <3>1, Zenon
  <2> HIDE DEF Combining
  <2> QED BY <2>1
<1>7. Aggregates(hm, c[0])
  <2> HIDE DEF Combining, c
  <2>1. c = [l \in 0..W |-> IF l = W THEN hm ELSE StepAt(TRUE, c[l + 1], l + 1)]
    BY <1>4, <1>6, Zenon
  <2> QED BY <2>1, DownAggregates, Zenon
<1>8. IsRoutes(c[0])
  BY <1>7 DEF Aggregates
<1>9. Dropping(c[0], d)
  <2> HIDE DEF c
  <2>1. \E f : Dropping(c[0], f)
    <3>1. PICK f : f = [l \in 0..W |-> IF l = W THEN c[0] ELSE StepAt(FALSE, f[l + 1], l + 1)]
      BY DownExists, Zenon
    <3> HIDE DEF Dropping
    <3> QED BY <1>5, <3>1, Zenon
  <2> HIDE DEF Dropping
  <2> QED BY <2>1
<1>10. Aggregates(c[0], d[0])
  <2> HIDE DEF Dropping, c, d
  <2>1. d = [l \in 0..W |-> IF l = W THEN c[0] ELSE StepAt(FALSE, d[l + 1], l + 1)]
    BY <1>5, <1>9, Zenon
  <2> QED BY <1>8, <2>1, DownAggregates, Zenon
<1> QED BY <1>3, <1>7, <1>10, AggregatesTransitive

\* The table that the hash maps stand for.
TableOf(hm) == [p \in EntryIn(hm) |-> hm[p.len][p.net]]

LEMMA Routes4Is ==
  /\ Routes4!Entry = EntryIn(store) /\ Routes4!Entry' = EntryIn(store')
  /\ Routes4!Contents = TableOf(store) /\ Routes4!Contents' = TableOf(store')
  /\ \A a : Routes4!Hits(a) = HitsIn(store, a)
  /\ \A a : Routes4!Hits(a)' = HitsIn(store', a)
<1>1. Routes4!Entry = EntryIn(store) /\ Routes4!Entry' = EntryIn(store')
  BY Names4Routes DEF Routes4!Entry, EntryIn
<1>2. Routes4!Contents = TableOf(store)
  BY <1>1 DEF Routes4!Contents, TableOf
<1>3. Routes4!Contents' = TableOf(store')
  BY <1>1 DEF Routes4!Contents, TableOf
<1>4. \A a : Routes4!Hits(a) = HitsIn(store, a)
  BY Names4Routes DEF Routes4!Hits, HitsIn
<1>5. \A a : Routes4!Hits(a)' = HitsIn(store', a)
  BY Names4Routes DEF Routes4!Hits, HitsIn
<1> QED BY <1>1, <1>2, <1>3, <1>4, <1>5

LEMMA NoMapsAre ==
  /\ IsRoutes(Routes4!NoMaps)
  /\ TableOf(Routes4!NoMaps) = <<>>
<1>1. Routes4!NoMaps = [l \in 0..W |-> <<>>]
  BY DEF Routes4!NoMaps
<1>2. DOMAIN <<>> = {} /\ <<>> \in [{} -> Value]
  OBVIOUS
<1>3. IsRoutes(Routes4!NoMaps)
  BY <1>1, <1>2 DEF IsRoutes
<1>4. EntryIn(Routes4!NoMaps) = {}
  BY <1>1, <1>2, PrefixIs DEF EntryIn
<1> QED BY <1>3, <1>4 DEF TableOf

LEMMA PutIs ==
  ASSUME NEW hm, IsRoutes(hm), NEW p \in Prefix, NEW v \in Value
  PROVE  /\ IsRoutes(Routes4!Put(hm, p, v))
         /\ TableOf(Routes4!Put(hm, p, v)) =
              [q \in EntryIn(hm) \cup {p} |-> IF q = p THEN v ELSE TableOf(hm)[q]]
<1> DEFINE new == Routes4!Put(hm, p, v)
           f == [n \in DOMAIN hm[p.len] \cup {p.net} |-> IF n = p.net THEN v ELSE hm[p.len][n]]
<1>1. p.len \in 0..W /\ p.net \in Nets(p.len) /\ p = [net |-> p.net, len |-> p.len]
  BY PrefixIs DEF Prefix, Nets, Unit
<1>2. hm = [l \in 0..W |-> hm[l]]
  BY DEF IsRoutes
<1>3. new = [hm EXCEPT ![p.len] = f]
  BY DEF Routes4!Put, Routes4!Bind
<1> HIDE DEF new
<1>4. /\ new = [l \in 0..W |-> new[l]]
      /\ new[p.len] = f
      /\ \A l \in 0..W : l # p.len => new[l] = hm[l]
  <2> HIDE DEF f
  <2> QED BY <1>1, <1>2, <1>3, Zenon
<1>5. IsRoutes(new)
  <2>1. ASSUME NEW l \in 0..W
        PROVE  DOMAIN new[l] \subseteq Nets(l) /\ new[l] \in [DOMAIN new[l] -> Value]
    <3>1. DOMAIN hm[l] \subseteq Nets(l) /\ hm[l] \in [DOMAIN hm[l] -> Value]
      BY DEF IsRoutes
    <3>2. CASE l = p.len
      BY <1>1, <1>4, <3>1, <3>2
    <3>3. CASE l # p.len
      BY <1>4, <3>1, <3>3
    <3> QED BY <3>2, <3>3
  <2> QED BY <1>4, <2>1 DEF IsRoutes
<1>6. ASSUME NEW q \in Prefix
      PROVE  /\ q \in EntryIn(new) <=> q \in EntryIn(hm) \cup {p}
             /\ q \in EntryIn(new) => new[q.len][q.net] = IF q = p THEN v ELSE hm[q.len][q.net]
  <2>1. q = [net |-> q.net, len |-> q.len] /\ q.len \in 0..W
    BY PrefixIs
  <2>2. /\ q \in EntryIn(new) <=> q.net \in DOMAIN new[q.len]
        /\ q \in EntryIn(hm) <=> q.net \in DOMAIN hm[q.len]
    BY DEF EntryIn
  <2>3. CASE q.len = p.len
    <3>1. q = p <=> q.net = p.net
      BY <1>1, <2>1, <2>3
    <3> QED BY <1>4, <2>2, <2>3, <3>1
  <2>4. CASE q.len # p.len
    BY <1>4, <2>1, <2>2, <2>4
  <2> QED BY <2>3, <2>4
<1>7. EntryIn(new) = EntryIn(hm) \cup {p}
  <2>1. EntryIn(new) \subseteq Prefix /\ EntryIn(hm) \subseteq Prefix
    BY DEF EntryIn
  <2> QED BY <1>6, <2>1
<1>8. ASSUME NEW q \in EntryIn(new)
      PROVE  new[q.len][q.net] = IF q = p THEN v ELSE TableOf(hm)[q]
  <2>1. q \in Prefix
    BY DEF EntryIn
  <2> QED BY <1>6, <1>7, <2>1 DEF TableOf
<1>9. TableOf(new) = [q \in EntryIn(hm) \cup {p} |-> IF q = p THEN v ELSE TableOf(hm)[q]]
  <2>1. TableOf(new) = [q \in EntryIn(new) |-> new[q.len][q.net]]
    BY DEF TableOf
  <2> QED BY <1>7, <1>8, <2>1
<1> QED BY <1>5, <1>9 DEF new

\* What is left of the maps: some networks of each length.
LEMMA LessIs ==
  ASSUME NEW hm, IsRoutes(hm), NEW new, NEW D, D \in [0..W -> SUBSET Address],
         \A l \in 0..W : D[l] \subseteq DOMAIN hm[l],
         new = [l \in 0..W |-> [n \in D[l] |-> hm[l][n]]]
  PROVE  /\ IsRoutes(new)
         /\ EntryIn(new) = {p \in EntryIn(hm) : p.net \in D[p.len]}
         /\ TableOf(new) = [p \in EntryIn(new) |-> TableOf(hm)[p]]
<1>1. \A l \in 0..W : DOMAIN new[l] = D[l] /\ \A n \in D[l] : new[l][n] = hm[l][n]
  OBVIOUS
<1>2. IsRoutes(new)
  <2>1. ASSUME NEW l \in 0..W
        PROVE  DOMAIN new[l] \subseteq Nets(l) /\ new[l] \in [DOMAIN new[l] -> Value]
    <3>1. DOMAIN hm[l] \subseteq Nets(l) /\ hm[l] \in [DOMAIN hm[l] -> Value]
      BY DEF IsRoutes
    <3>2. new[l] = [n \in D[l] |-> hm[l][n]]
      OBVIOUS
    <3> QED BY <3>1, <3>2
  <2> QED BY <2>1 DEF IsRoutes
<1>3. EntryIn(new) = {p \in EntryIn(hm) : p.net \in D[p.len]}
  BY <1>1, PrefixIs DEF EntryIn
<1>4. ASSUME NEW p \in EntryIn(new) PROVE new[p.len][p.net] = TableOf(hm)[p]
  <2>1. p \in EntryIn(hm) /\ p.net \in D[p.len] /\ p.len \in 0..W
    BY <1>3, PrefixIs DEF EntryIn
  <2> QED BY <1>1, <2>1 DEF TableOf
<1>5. TableOf(new) = [p \in EntryIn(new) |-> new[p.len][p.net]]
  BY DEF TableOf
<1> QED BY <1>2, <1>3, <1>4, <1>5

\* The entries that contain an address are its hits.
LEMMA MatchesAre ==
  ASSUME NEW hm, NEW a \in Address
  PROVE  LET M == {p \in EntryIn(hm) : ContainsAddress(p, a)}
         IN  /\ M = {} <=> HitsIn(hm, a) = {}
             /\ {TableOf(hm)[p] : p \in M} = ValuesIn(hm, a)
<1> DEFINE M == {p \in EntryIn(hm) : ContainsAddress(p, a)}
<1>1. ASSUME NEW p \in M PROVE p.len \in HitsIn(hm, a) /\ TableOf(hm)[p] = hm[p.len][Masked(a, p.len)]
  <2>1. p \in Prefix /\ p.len \in 0..W /\ p.net \in DOMAIN hm[p.len] /\ p.net = Masked(a, p.len)
    BY <1>1, PrefixIs DEF EntryIn, ContainsAddress
  <2>2. TableOf(hm)[p] = hm[p.len][p.net]
    BY <1>1 DEF TableOf
  <2> QED BY <2>1, <2>2 DEF HitsIn
<1>2. ASSUME NEW l \in HitsIn(hm, a)
      PROVE  New(a, l) \in M /\ TableOf(hm)[New(a, l)] = hm[l][Masked(a, l)]
  <2>1. l \in 0..W /\ Masked(a, l) \in DOMAIN hm[l]
    BY DEF HitsIn
  <2>2. New(a, l) \in Prefix /\ New(a, l).len = l /\ New(a, l).net = Masked(a, l)
    BY <2>1, NewIs DEF New
  <2>3. New(a, l) \in EntryIn(hm) /\ ContainsAddress(New(a, l), a)
    BY <2>1, <2>2 DEF EntryIn, ContainsAddress
  <2>4. TableOf(hm)[New(a, l)] = hm[l][Masked(a, l)]
    BY <2>2, <2>3 DEF TableOf
  <2> QED BY <2>3, <2>4
<1>3. ValuesIn(hm, a) = {hm[l][Masked(a, l)] : l \in HitsIn(hm, a)}
  BY DEF ValuesIn
<1> HIDE DEF M
<1>4. M = {} <=> HitsIn(hm, a) = {}
  BY <1>1, <1>2
<1>5. {TableOf(hm)[p] : p \in M} = ValuesIn(hm, a)
  BY <1>1, <1>2, <1>3
<1> QED BY <1>4, <1>5 DEF M

LEMMA RouteIs ==
  ASSUME NEW hm, NEW a \in Address
  PROVE  LET p == IF HitsIn(hm, a) = {} THEN Routes4!None ELSE New(a, Greatest(HitsIn(hm, a)))
         IN  (IF p = Routes4!None THEN {} ELSE {TableOf(hm)[p]}) =
             (IF HitsIn(hm, a) = {} THEN {} ELSE {RouteIn(hm, a)})
<1> DEFINE m == Greatest(HitsIn(hm, a))
<1>1. CASE HitsIn(hm, a) # {}
  <2>1. HitsIn(hm, a) \in SUBSET (0..W)
    BY DEF HitsIn
  <2>2. m \in 0..W /\ Masked(a, m) \in DOMAIN hm[m]
    BY <1>1, <2>1, GreatestLength DEF HitsIn
  <2>3. RouteIn(hm, a) = hm[m][Masked(a, m)]
    BY DEF RouteIn
  <2> HIDE DEF m
  <2>4. New(a, m) \in Prefix /\ New(a, m).len = m /\ New(a, m).net = Masked(a, m)
    BY <2>2, NewIs DEF New
  <2>5. New(a, m) \in EntryIn(hm)
    BY <2>2, <2>4 DEF EntryIn
  <2>6. TableOf(hm)[New(a, m)] = RouteIn(hm, a)
    BY <2>3, <2>4, <2>5 DEF TableOf
  <2>7. New(a, m) # Routes4!None
    <3>1. Routes4!None.len = W + 1 /\ W \in Nat
      BY WAssumption DEF Routes4!None
    <3> QED BY <2>2, <2>4, <3>1
  <2> QED BY <1>1, <2>6, <2>7 DEF m
<1>2. CASE HitsIn(hm, a) = {}
  BY <1>2
<1> QED BY <1>1, <1>2

\* What the hash maps are.
Routes4Inv == IsRoutes(store)

LEMMA Routes4Init == Routes4!Init => Routes4Inv
  BY NoMapsAre DEF Routes4!Init, Routes4Inv

LEMMA Routes4Coalesces ==
  ASSUME Routes4Inv, Routes4!Coalesce
  PROVE  Aggregates(store, store')
<1>1. NoneIsLast(store)
  <2> SUFFICES ASSUME NEW l \in 1..W, NEW n \in DOMAIN store[l] PROVE n + Unit(l) - 1 # Top
    BY DEF NoneIsLast
  <2> DEFINE p == [net |-> n, len |-> l]
  <2>1. l \in 0..W /\ l > 0
    BY WAssumption
  <2>2. p \in Prefix
    BY <2>1, NetIs DEF Routes4Inv, IsRoutes
  <2>3. p \in Routes4!Entry
    BY <2>2, Routes4Is DEF EntryIn
  <2>4. p.len = l /\ Routes4!LastAddress(p) = n + Unit(l) - 1
    BY DEF Routes4!LastAddress, Unit
  <2> HIDE DEF p
  <2> QED BY <2>1, <2>3, <2>4, Names4Routes DEF Routes4!Coalesce
<1>2. store' = Routes4!Coalesced(store)
  BY DEF Routes4!Coalesce
<1> QED BY <1>1, <1>2, CoalescedAggregates DEF Routes4Inv

LEMMA Routes4Step ==
  ASSUME Routes4Inv, Routes4!Next
  PROVE  Routes4Inv' /\ Routes4!Promise!Step
<1>0. Routes4!Contents = TableOf(store) /\ Routes4!Contents' = TableOf(store')
      /\ DOMAIN TableOf(store) = EntryIn(store) /\ DOMAIN TableOf(store') = EntryIn(store')
  BY Routes4Is DEF TableOf
<1>1. Keys \subseteq Prefix /\ Routes4!Entry \subseteq Prefix /\ Routes4!Prefix = Prefix
  BY KeysAssumption, Names4Routes, Routes4Is DEF EntryIn
<1>2. ASSUME NEW p \in Prefix, NEW v \in Value, store' = Routes4!Put(store, p, v)
      PROVE  Routes4Inv' /\ Routes4!Contents' = Routes4!Promise!Bind(Routes4!Contents, p, v)
  <2>1. IsRoutes(store')
    BY <1>2, PutIs, Zenon DEF Routes4Inv
  <2>2. TableOf(store') = [q \in EntryIn(store) \cup {p} |-> IF q = p THEN v ELSE TableOf(store)[q]]
    BY <1>2, PutIs DEF Routes4Inv
  <2> QED BY <1>0, <2>1, <2>2 DEF Routes4Inv, Routes4!Promise!Bind
<1>3. ASSUME NEW p \in Prefix, NEW v \in Value, Routes4!Add(p, v)
      PROVE  Routes4Inv' /\ Routes4!Promise!Step
  <2>1. answer' = Routes4!Promise!Done(<<"insert", p, v>>, p \notin DOMAIN Routes4!Contents)
    BY <1>0, <1>3, Routes4Is DEF Routes4!Add, Routes4!Said, Routes4!Promise!Done
  <2>2. CASE p \in Routes4!Entry
    <3>1. store' = store /\ p \in DOMAIN Routes4!Contents
      BY <1>0, <1>3, <2>2, Routes4Is DEF Routes4!Add
    <3>2. Routes4!Promise!Insert(p, v)
      BY <1>0, <2>1, <3>1 DEF Routes4!Promise!Insert
    <3> QED BY <1>1, <3>1, <3>2 DEF Routes4Inv, Routes4!Promise!Step, Routes4!Promise!Next
  <2>3. CASE p \notin Routes4!Entry
    <3>1. store' = Routes4!Put(store, p, v) /\ p \notin DOMAIN Routes4!Contents
      BY <1>0, <1>3, <2>3, Routes4Is DEF Routes4!Add
    <3>2. Routes4!Promise!Insert(p, v)
      BY <1>2, <2>1, <3>1 DEF Routes4!Promise!Insert
    <3> QED BY <1>1, <1>2, <3>1, <3>2 DEF Routes4!Promise!Step, Routes4!Promise!Next
  <2> QED BY <2>2, <2>3
<1>4. ASSUME NEW p \in Prefix, NEW v \in Value, Routes4!Index(p, v) \/ Routes4!AddRoutes(p, v)
      PROVE  Routes4Inv' /\ Routes4!Promise!Step
  <2>1. store' = Routes4!Put(store, p, v) /\ answer' = Routes4!Promise!Done(<<"assign", p, v>>, TRUE)
    BY <1>4 DEF Routes4!Index, Routes4!AddRoutes, Routes4!Said, Routes4!Promise!Done
  <2>2. Routes4!Promise!Assign(p, v)
    BY <1>2, <2>1 DEF Routes4!Promise!Assign
  <2> QED BY <1>1, <1>2, <2>1, <2>2, Zenon DEF Routes4!Promise!Step, Routes4!Promise!Next
<1>5. ASSUME NEW p \in Prefix, Routes4!Delete(p)
      PROVE  Routes4Inv' /\ Routes4!Promise!Step
  <2>1. answer' = Routes4!Promise!Done(<<"remove", p>>, p \in DOMAIN Routes4!Contents)
    BY <1>0, <1>5, Routes4Is DEF Routes4!Delete, Routes4!Said, Routes4!Promise!Done
  <2>2. /\ IsRoutes(store')
        /\ TableOf(store') = [q \in EntryIn(store) \ {p} |-> TableOf(store)[q]]
    <3>1. CASE p \in Routes4!Entry
      <4> DEFINE D == [l \in 0..W |-> IF l = p.len THEN DOMAIN store[l] \ {p.net} ELSE DOMAIN store[l]]
                 new == [l \in 0..W |-> [n \in D[l] |-> store[l][n]]]
      <4>1. p.len \in 0..W /\ p = [net |-> p.net, len |-> p.len]
        BY PrefixIs
      <4>2. /\ store = [l \in 0..W |-> store[l]]
            /\ \A l \in 0..W : DOMAIN store[l] \subseteq Address /\ store[l] = [n \in DOMAIN store[l] |-> store[l][n]]
        BY DEF Routes4Inv, IsRoutes, Nets
      <4>3. D \in [0..W -> SUBSET Address] /\ \A l \in 0..W : D[l] \subseteq DOMAIN store[l]
        BY <4>2
      <4>4. store' = new
        <5> DEFINE f == [n \in DOMAIN store[p.len] \ {p.net} |-> store[p.len][n]]
        <5>1. store' = [store EXCEPT ![p.len] = f]
          BY <1>5, <3>1 DEF Routes4!Delete, Routes4!Drop, Routes4!Only
        <5>2. new[p.len] = f
          BY <4>1
        <5>3. ASSUME NEW l \in 0..W, l # p.len PROVE new[l] = store[l]
          BY <4>2, <5>3
        <5>4. new = [l \in 0..W |-> new[l]]
          OBVIOUS
        <5> HIDE DEF new, f
        <5> QED BY <4>1, <4>2, <5>1, <5>2, <5>3, <5>4, Zenon
      <4>5. \A q \in EntryIn(store) : q.net \in D[q.len] <=> q # p
        <5> TAKE q \in EntryIn(store)
        <5>1. q.len \in 0..W /\ q = [net |-> q.net, len |-> q.len] /\ q.net \in DOMAIN store[q.len]
          BY PrefixIs DEF EntryIn
        <5> QED BY <4>1, <5>1
      <4> HIDE DEF D
      <4>6. /\ IsRoutes(new)
            /\ EntryIn(new) = {q \in EntryIn(store) : q.net \in D[q.len]}
            /\ TableOf(new) = [q \in EntryIn(new) |-> TableOf(store)[q]]
        BY <4>3, LessIs, Zenon DEF Routes4Inv
      <4> HIDE DEF new
      <4>7. EntryIn(new) = EntryIn(store) \ {p}
        BY <4>5, <4>6
      <4> QED BY <4>4, <4>6, <4>7
    <3>2. CASE p \notin Routes4!Entry
      <4>1. store' = store /\ EntryIn(store) \ {p} = EntryIn(store)
        BY <1>5, <3>2, Routes4Is DEF Routes4!Delete
      <4> QED BY <4>1 DEF Routes4Inv, TableOf
    <3> QED BY <3>1, <3>2
  <2>3. Routes4!Promise!Remove(p)
    BY <1>0, <2>1, <2>2 DEF Routes4!Promise!Remove, Routes4!Promise!Only
  <2> QED BY <1>1, <2>2, <2>3 DEF Routes4Inv, Routes4!Promise!Step, Routes4!Promise!Next
<1>6. CASE Routes4!Clear
  <2>1. store' = Routes4!NoMaps /\ answer' = Routes4!Promise!Done(<<"clear">>, TRUE)
    BY <1>6 DEF Routes4!Clear, Routes4!Said, Routes4!Promise!Done
  <2>2. Routes4Inv' /\ Routes4!Contents' = <<>>
    BY <1>0, <2>1, NoMapsAre DEF Routes4Inv
  <2>3. Routes4!Promise!Clear
    BY <2>1, <2>2 DEF Routes4!Promise!Clear
  <2> QED BY <2>2, <2>3 DEF Routes4!Promise!Step, Routes4!Promise!Next
<1>7. CASE Routes4!Coalesce
  <2>1. Aggregates(store, store') /\ answer' = Routes4!Promise!Done(<<"aggregate">>, TRUE)
    BY <1>7, Routes4Coalesces DEF Routes4!Coalesce, Routes4!Said, Routes4!Promise!Done
  <2>2. ASSUME NEW hm, NEW a \in Address
        PROVE  /\ Routes4!Promise!Matches(TableOf(hm), a) = {} <=> HitsIn(hm, a) = {}
               /\ {TableOf(hm)[p] : p \in Routes4!Promise!Matches(TableOf(hm), a)} = ValuesIn(hm, a)
    <3>1. Routes4!Promise!Matches(TableOf(hm), a) = {p \in EntryIn(hm) : ContainsAddress(p, a)}
      BY Names4Routes DEF Routes4!Promise!Matches, TableOf
    <3> QED BY <3>1, MatchesAre
  <2>3. \A S : Routes4!Promise!Cardinality(S) = Cardinality(S)
    BY DEF Routes4!Promise!Cardinality, Cardinality
  <2>4. Cardinality(DOMAIN TableOf(store')) <= Cardinality(DOMAIN TableOf(store))
    BY <1>0, <2>1 DEF Aggregates
  <2>5. ASSUME NEW a \in Address
        PROVE  /\ (Routes4!Promise!Matches(TableOf(store'), a) = {}) <=> (Routes4!Promise!Matches(TableOf(store), a) = {})
               /\ {TableOf(store')[p] : p \in Routes4!Promise!Matches(TableOf(store'), a)} \subseteq
                  {TableOf(store)[p] : p \in Routes4!Promise!Matches(TableOf(store), a)}
    <3>1. /\ HitsIn(store', a) = {} <=> HitsIn(store, a) = {}
          /\ ValuesIn(store', a) \subseteq ValuesIn(store, a)
      BY <2>1 DEF Aggregates
    <3> QED BY <2>2, <3>1, Zenon
  <2>6. Routes4!Promise!Aggregate
    BY <1>0, <2>1, <2>3, <2>4, <2>5, Names4Routes DEF Routes4!Promise!Aggregate
  <2> QED BY <2>1, <2>6 DEF Aggregates, Routes4Inv, Routes4!Promise!Step, Routes4!Promise!Next
<1>8. ASSUME NEW k \in 0..W, NEW S \in SUBSET DOMAIN store[k], Routes4!Reload(k, S)
      PROVE  Routes4Inv' /\ Routes4!Promise!Step
  <2> DEFINE D == [l \in 0..W |-> IF l < k THEN DOMAIN store[l] ELSE IF l = k THEN S ELSE {}]
             new == [l \in 0..W |-> [n \in D[l] |-> store[l][n]]]
  <2>1. \A l \in 0..W : DOMAIN store[l] \subseteq Address /\ store[l] = [n \in DOMAIN store[l] |-> store[l][n]]
    BY DEF Routes4Inv, IsRoutes, Nets
  <2>2. D \in [0..W -> SUBSET Address] /\ \A l \in 0..W : D[l] \subseteq DOMAIN store[l]
    BY <2>1, Zenon
  <2>3. store' = new
    <3> DEFINE read == [l \in 0..W |-> CASE l < k -> store[l]
                                         [] l = k -> Routes4!Only(store[l], S)
                                         [] OTHER -> <<>>]
    <3>1. store' = read
      BY <1>8 DEF Routes4!Reload
    <3>2. ASSUME NEW l \in 0..W PROVE read[l] = new[l]
      <4>0. k \in Int /\ l \in Int
        OBVIOUS
      <4>1. CASE l < k
        BY <2>1, <4>0, <4>1
      <4>2. CASE l = k
        BY <4>0, <4>2 DEF Routes4!Only
      <4>3. CASE ~(l < k) /\ l # k
        <5>1. read[l] = <<>>
          BY <4>3
        <5>2. new[l] = [n \in {} |-> store[l][n]]
          BY <4>3
        <5> QED BY <5>1, <5>2
      <4> QED BY <4>1, <4>2, <4>3
    <3>3. new = [l \in 0..W |-> new[l]] /\ read = [l \in 0..W |-> read[l]]
      OBVIOUS
    <3> HIDE DEF new, read
    <3> QED BY <3>1, <3>2, <3>3
  <2> HIDE DEF D
  <2>4. /\ IsRoutes(new)
        /\ EntryIn(new) = {q \in EntryIn(store) : q.net \in D[q.len]}
        /\ TableOf(new) = [q \in EntryIn(new) |-> TableOf(store)[q]]
    BY <2>2, LessIs, Zenon DEF Routes4Inv
  <2> HIDE DEF new
  <2>5. EntryIn(store') \subseteq EntryIn(store) /\ TableOf(store') = [q \in EntryIn(store') |-> TableOf(store)[q]]
    BY <2>3, <2>4
  <2> DEFINE b == store' = store
  <2>6. b \in BOOLEAN /\ (b => EntryIn(store') = EntryIn(store)) /\ answer' = Routes4!Promise!Done(<<"reload">>, b)
    BY <1>8, Zenon DEF Routes4!Reload, Routes4!Said, Routes4!Promise!Done
  <2> HIDE DEF b
  <2>7. Routes4!Promise!Reload
    BY <1>0, <2>5, <2>6 DEF Routes4!Promise!Reload, Routes4!Promise!Only
  <2> QED BY <2>3, <2>4, <2>7 DEF Routes4Inv, Routes4!Promise!Step, Routes4!Promise!Next
<1>9. ASSUME NEW p \in Keys \cup Routes4!Entry, Routes4!Delete(p)
      PROVE  Routes4Inv' /\ Routes4!Promise!Step
  BY <1>1, <1>5, <1>9
<1> QED BY <1>1, <1>3, <1>4, <1>6, <1>7, <1>8, <1>9 DEF Routes4!Next

\* Coalesce() keeps the routes where at most two entries are nested.
LEMMA Routes4Kept ==
  ASSUME Routes4Inv
  PROVE  Routes4!AggregationKeepsRoutes
<1> SUFFICES ASSUME Routes4!Coalesce,
                    \A a \in Address : Cardinality(HitsIn(store, a)) <= 2,
                    NEW a \in Address
             PROVE  Routes4!RouteOf(a) = Routes4!RouteOf(a)'
  <2>1. \A S : Routes4!Cardinality(S) = Cardinality(S)
    BY DEF Routes4!Cardinality, Cardinality
  <2> QED BY <2>1, Names4Routes, Routes4Is DEF Routes4!AggregationKeepsRoutes
<1>0. \A S : Routes4!Max(S) = Greatest(S)
  BY DEF Routes4!Max, Greatest
<1>1. Aggregates(store, store')
  BY Routes4Coalesces
<1>2. Routes4!RouteOf(a) = IF HitsIn(store, a) = {} THEN {} ELSE {RouteIn(store, a)}
  <2>1. Routes4!FindLongest(a) = IF HitsIn(store, a) = {} THEN Routes4!None ELSE New(a, Greatest(HitsIn(store, a)))
    <3>1. Routes4!FindLongest(a) = IF Routes4!Hits(a) = {} THEN Routes4!None
                                    ELSE Routes4!New(a, Routes4!Max(Routes4!Hits(a)))
      BY DEF Routes4!FindLongest
    <3>2. Routes4!Hits(a) = HitsIn(store, a)
      BY Routes4Is
    <3> QED BY <1>0, <3>1, <3>2, Names4Routes
  <2> QED BY <2>1, Routes4Is, RouteIs, Zenon DEF Routes4!RouteOf
<1>3. Routes4!RouteOf(a)' = IF HitsIn(store', a) = {} THEN {} ELSE {RouteIn(store', a)}
  <2>1. Routes4!FindLongest(a)' = IF HitsIn(store', a) = {} THEN Routes4!None ELSE New(a, Greatest(HitsIn(store', a)))
    <3>1. Routes4!FindLongest(a)' = IF Routes4!Hits(a)' = {} THEN Routes4!None
                                    ELSE Routes4!New(a, Routes4!Max(Routes4!Hits(a)'))
      BY DEF Routes4!FindLongest
    <3>2. Routes4!Hits(a)' = HitsIn(store', a)
      BY Routes4Is
    <3> QED BY <1>0, <3>1, <3>2, Names4Routes
  <2> QED BY <2>1, Routes4Is, RouteIs, Zenon DEF Routes4!RouteOf
<1>4. /\ HitsIn(store', a) = {} <=> HitsIn(store, a) = {}
      /\ HitsIn(store, a) # {} => RouteIn(store', a) = RouteIn(store, a)
  BY <1>1 DEF Aggregates
<1> QED BY <1>2, <1>3, <1>4

-----------------------------------------------------------------------------
(* The tries: their prefixes follow the laws of TrieProofs.                *)

\* Which prefixes contain others, and how those that do not part.
Has(p, q) == p.len <= q.len /\ p = New(q.net, p.len)
Shorter(p, q) == IF p.len < q.len THEN p.len ELSE q.len
PartAt(p, q, d) ==
  \/ d = -1 /\ Leading(p.net, Shorter(p, q)) = Leading(q.net, Shorter(p, q))
  \/ /\ d \in 0..(Shorter(p, q) - 1)
     /\ Leading(p.net, d) = Leading(q.net, d)
     /\ BitOf(p.net, d) # BitOf(q.net, d)

LEMMA HasIs ==
  ASSUME NEW p \in Prefix, NEW q \in Prefix
  PROVE  Has(p, q) <=> p.len <= q.len /\ Leading(p.net, p.len) = Leading(q.net, p.len)
  BY NewIs, PrefixIs DEF Has

\* The leading bits of a number of leading bits.
LEMMA LeadingFewer ==
  ASSUME NEW a \in Address, NEW b \in Address, NEW l \in 0..W, NEW k \in 0..l, Leading(a, l) = Leading(b, l)
  PROVE  Leading(a, k) = Leading(b, k)
<1>1. W \in Nat /\ k \in 0..W
  BY WAssumption
<1>2. \A i \in 0..(W - 1) : i < l => BitOf(a, i) = BitOf(b, i)
  BY SameLeading
<1>3. \A i \in 0..(W - 1) : i < k => BitOf(a, i) = BitOf(b, i)
  BY <1>1, <1>2
<1> QED BY <1>1, <1>3, SameLeading

LEMMA HasOrder ==
  /\ \A p \in Prefix : Has(p, p)
  /\ \A p, q \in Prefix : Has(p, q) => p.len <= q.len /\ (p.len = q.len => p = q)
  /\ \A p, q, r \in Prefix : Has(p, q) /\ Has(q, r) => Has(p, r)
  /\ \A p, q, r \in Prefix : Has(p, r) /\ Has(q, r) /\ p.len <= q.len => Has(p, q)
<1>0. W \in Nat
  BY WAssumption
<1>1. ASSUME NEW p \in Prefix PROVE Has(p, p)
  <2>1. p.len \in 0..W
    BY PrefixIs
  <2> QED BY <1>0, <2>1, HasIs
<1>2. ASSUME NEW p \in Prefix, NEW q \in Prefix, Has(p, q) PROVE p.len <= q.len /\ (p.len = q.len => p = q)
  <2>1. p = New(q.net, p.len) /\ q.net \in Address /\ q.len \in 0..W
    BY <1>2, PrefixIs DEF Has
  <2>2. q = New(q.net, q.len)
    BY <2>1, NewIs
  <2> QED BY <1>2, <2>1, <2>2 DEF Has
<1>3. ASSUME NEW p \in Prefix, NEW q \in Prefix, NEW r \in Prefix, Has(p, q), Has(q, r) PROVE Has(p, r)
  <2>1. p.len \in 0..W /\ q.len \in 0..W /\ r.len \in 0..W /\ p.len <= q.len /\ q.len <= r.len
    BY <1>3, PrefixIs DEF Has
  <2>2. q.net \in Address /\ r.net \in Address /\ p.len \in 0..(q.len)
    BY <1>0, <2>1, PrefixIs
  <2>3. Leading(q.net, q.len) = Leading(r.net, q.len) /\ Leading(p.net, p.len) = Leading(q.net, p.len)
    BY <1>3, HasIs
  <2>4. Leading(q.net, p.len) = Leading(r.net, p.len)
    BY <2>1, <2>2, <2>3, LeadingFewer
  <2> QED BY <1>0, <2>1, <2>3, <2>4, HasIs
<1>4. ASSUME NEW p \in Prefix, NEW q \in Prefix, NEW r \in Prefix, Has(p, r), Has(q, r), p.len <= q.len PROVE Has(p, q)
  <2>1. p.len \in 0..W /\ q.len \in 0..W /\ r.len \in 0..W
    BY PrefixIs
  <2>2. q.net \in Address /\ r.net \in Address /\ p.len \in 0..(q.len)
    BY <1>0, <1>4, <2>1, PrefixIs
  <2>3. Leading(q.net, q.len) = Leading(r.net, q.len) /\ Leading(p.net, p.len) = Leading(r.net, p.len)
    BY <1>4, HasIs
  <2>4. Leading(q.net, p.len) = Leading(r.net, p.len)
    BY <2>1, <2>2, <2>3, LeadingFewer
  <2> QED BY <1>4, <2>3, <2>4, HasIs
<1> QED BY <1>1, <1>2, <1>3, <1>4

LEMMA HasBits ==
  ASSUME NEW p \in Prefix, NEW q \in Prefix, Has(p, q), NEW i \in 0..W, i < p.len
  PROVE  BitOf(p.net, i) = BitOf(q.net, i)
<1>1. W \in Nat /\ p.len \in 0..W /\ p.net \in Address /\ q.net \in Address
  BY WAssumption, PrefixIs
<1>2. i \in 0..(W - 1)
  BY <1>1
<1>3. Leading(p.net, p.len) = Leading(q.net, p.len)
  BY HasIs
<1> QED BY <1>1, <1>2, <1>3, SameLeading

LEMMA PartAtIs ==
  ASSUME NEW p \in Prefix, NEW q \in Prefix, NEW d, PartAt(p, q, d)
  PROVE  /\ d \in Int
         /\ d < 0 => Has(p, q) \/ Has(q, p)
         /\ d >= 0 => /\ d \in 0..W /\ d < p.len /\ d < q.len
                      /\ BitOf(p.net, d) # BitOf(q.net, d)
                      /\ New(p.net, d) \in Prefix /\ New(p.net, d).len = d
                      /\ Has(New(p.net, d), p) /\ Has(New(p.net, d), q)
<1>1. W \in Nat /\ p.len \in 0..W /\ q.len \in 0..W /\ p.net \in Address /\ q.net \in Address
  BY WAssumption, PrefixIs
<1>2. CASE d = -1 /\ Leading(p.net, Shorter(p, q)) = Leading(q.net, Shorter(p, q))
  <2>1. CASE p.len < q.len
    BY <1>1, <1>2, <2>1, HasIs DEF Shorter
  <2>2. CASE ~(p.len < q.len)
    BY <1>1, <1>2, <2>2, HasIs DEF Shorter
  <2> QED BY <1>1, <1>2, <2>1, <2>2
<1>3. CASE /\ d \in 0..(Shorter(p, q) - 1)
           /\ Leading(p.net, d) = Leading(q.net, d)
           /\ BitOf(p.net, d) # BitOf(q.net, d)
  <2>1. d \in 0..W /\ d < p.len /\ d < q.len
    BY <1>1, <1>3 DEF Shorter
  <2>2. New(p.net, d) \in Prefix /\ New(p.net, d).len = d /\ Leading(New(p.net, d).net, d) = Leading(p.net, d)
    BY <1>1, <2>1, NewIs
  <2>3. New(p.net, d) = New(q.net, d)
    BY <1>1, <1>3, <2>1, <2>2, NewIs
  <2>4. Has(New(p.net, d), p) /\ Has(New(p.net, d), q)
    BY <1>1, <2>1, <2>2, <2>3 DEF Has
  <2> QED BY <1>3, <2>1, <2>2, <2>4
<1> QED BY <1>2, <1>3 DEF PartAt

\* More leading bits are a greater address.
LEMMA LessLeading ==
  ASSUME NEW a \in Address, NEW b \in Address, NEW l \in 0..W, Leading(a, l) < Leading(b, l)
  PROVE  a < b
<1> DEFINE u == Unit(l)
           x == Leading(a, l)
           y == Leading(b, l)
           r == a % u
           s == b % u
<1>1. u \in Nat \ {0} /\ a \in Nat /\ b \in Nat
  BY UnitIs, AddressIs
<1>2. x \in Nat /\ r \in 0..(u - 1) /\ a = u * x + r /\ y \in Nat /\ s \in 0..(u - 1) /\ b = u * y + s /\ x < y
  BY <1>1, DivFacts, Zenon DEF Leading
<1> HIDE DEF u, x, y, r, s
<1>3. PICK d \in Nat : y = x + 1 + d
  <2>1. y - x - 1 \in Nat /\ y = x + 1 + (y - x - 1)
    BY <1>2
  <2> QED BY <2>1
<1>4. u * x \in Nat /\ u * d \in Nat /\ u * y = u * x + u + u * d
  BY <1>1, <1>2, <1>3
<1> HIDE <1>3
<1> DEFINE v == u * x
           w == u * d
           z == u * y
<1>5. v \in Nat /\ w \in Nat /\ z = v + u + w /\ a = v + r /\ b = z + s
  BY <1>2, <1>4
<1> HIDE DEF v, w, z
<1> QED BY <1>1, <1>2, <1>5

LEMMA HasSorting ==
  /\ \A p, q \in Prefix : Less(p, q) => ~Less(q, p)
  /\ \A p, q, r \in Prefix : Less(p, q) /\ Less(q, r) => Less(p, r)
  /\ \A p, q \in Prefix : Less(p, q) \/ Less(q, p) \/ p = q
  /\ \A p, q \in Prefix : Has(p, q) /\ p # q => Less(p, q)
  /\ \A n, p, q \in Prefix :
        /\ Has(n, p) /\ n.len < p.len /\ BitOf(p.net, n.len) # 1
        /\ Has(n, q) /\ n.len < q.len /\ BitOf(q.net, n.len) = 1
        => Less(p, q)
<1>0. W \in Nat /\ \A p \in Prefix : p.net \in Int /\ p.len \in 0..W /\ p.net \in Address /\ p = [net |-> p.net, len |-> p.len]
  <2>1. Address \subseteq Int /\ W \in Nat
    BY WAssumption, AddressIs
  <2> QED BY <2>1, PrefixIs
<1>1. \A p, q \in Prefix : Less(p, q) => ~Less(q, p)
  BY <1>0 DEF Less
<1>2. \A p, q, r \in Prefix : Less(p, q) /\ Less(q, r) => Less(p, r)
  BY <1>0 DEF Less
<1>3. ASSUME NEW p \in Prefix, NEW q \in Prefix PROVE Less(p, q) \/ Less(q, p) \/ p = q
  <2>1. p.net < q.net \/ q.net < p.net \/ p.net = q.net
    BY <1>0
  <2>2. p.len < q.len \/ q.len < p.len \/ p.len = q.len
    BY <1>0
  <2>3. p.net = q.net /\ p.len = q.len => p = q
    BY <1>0
  <2> QED BY <2>1, <2>2, <2>3 DEF Less
<1>4. ASSUME NEW p \in Prefix, NEW q \in Prefix, Has(p, q), p # q PROVE Less(p, q)
  <2>1. p.net = q.net - (q.net % Unit(p.len))
    BY <1>4 DEF Has, New, Masked, Unit
  <2>2. q.net % Unit(p.len) \in Nat
    <3>1. Unit(p.len) \in Nat \ {0} /\ q.net \in Nat
      BY <1>0, UnitIs, AddressIs
    <3> QED BY <3>1, DivFacts
  <2>3. p.net <= q.net
    BY <1>0, <2>1, <2>2
  <2>4. p.len < q.len
    BY <1>0, <1>4, HasOrder
  <2> QED BY <1>0, <2>3, <2>4 DEF Less
<1>5. ASSUME NEW n \in Prefix, NEW p \in Prefix, NEW q \in Prefix,
             Has(n, p), n.len < p.len, BitOf(p.net, n.len) # 1,
             Has(n, q), n.len < q.len, BitOf(q.net, n.len) = 1
      PROVE  Less(p, q)
  <2>1. n.len \in 0..(W - 1) /\ n.len + 1 \in 0..W
    BY <1>0, <1>5
  <2>2. Leading(p.net, n.len) = Leading(q.net, n.len)
    BY <1>5, HasIs
  <2>3. Leading(p.net, n.len + 1) = 2 * Leading(p.net, n.len) + BitOf(p.net, n.len)
    BY <1>0, <2>1, LeadingStep
  <2>4. Leading(q.net, n.len + 1) = 2 * Leading(q.net, n.len) + BitOf(q.net, n.len)
    BY <1>0, <2>1, LeadingStep
  <2>5. Leading(q.net, n.len) \in Nat /\ BitOf(p.net, n.len) = 0
    <3>1. Leading(q.net, n.len) \in Nat
      BY <1>0, <2>1, UnitIs, AddressIs, DivFacts DEF Leading
    <3>2. Leading(p.net, n.len + 1) \in Nat /\ BitOf(p.net, n.len) = Leading(p.net, n.len + 1) % 2
      BY <1>0, <2>1, UnitIs, AddressIs, DivFacts, LeadingStep, Zenon DEF Leading
    <3> QED BY <1>5, <3>1, <3>2
  <2>6. Leading(p.net, n.len + 1) < Leading(q.net, n.len + 1)
    BY <1>5, <2>2, <2>3, <2>4, <2>5
  <2> QED BY <1>0, <2>1, <2>6, LessLeading DEF Less
<1> QED BY <1>1, <1>2, <1>3, <1>4, <1>5

Least(S) == CHOOSE i \in S : \A j \in S : i <= j

LEMMA LeastIs ==
  ASSUME NEW S \in SUBSET Nat, S # {}
  PROVE  Least(S) \in S /\ \A j \in S : Least(S) <= j
  BY LeastOf, Zenon DEF Least

\* The first bit that differs, of which there is none below a length if the
\* leading bits are the same.
LEMMA FirstBitIs ==
  ASSUME NEW a \in Address, NEW b \in Address
  PROVE  LET D == {i \in 0..(W - 1) : BitOf(a, i) # BitOf(b, i)}
             f == IF D = {} THEN W ELSE Least(D)
         IN  /\ f \in 0..W
             /\ f < W => BitOf(a, f) # BitOf(b, f)
             /\ \A l \in 0..W : Leading(a, l) = Leading(b, l) <=> l <= f
<1> DEFINE D == {i \in 0..(W - 1) : BitOf(a, i) # BitOf(b, i)}
           f == IF D = {} THEN W ELSE Least(D)
<1>0. W \in Nat
  BY WAssumption
<1>1. D # {} => Least(D) \in D /\ \A j \in D : Least(D) <= j
  <2>1. D \in SUBSET Nat
    BY <1>0
  <2> HIDE DEF D
  <2> QED BY <2>1, LeastIs
<1>2. f \in 0..W /\ (f < W => BitOf(a, f) # BitOf(b, f)) /\ \A i \in 0..(W - 1) : i < f => BitOf(a, i) = BitOf(b, i)
  <2>1. CASE D = {}
    BY <1>0, <2>1
  <2>2. CASE D # {}
    <3>1. f = Least(D)
      BY <2>2
    <3>2. f \in D /\ \A j \in D : f <= j
      BY <1>1, <2>2, <3>1
    <3> HIDE DEF f
    <3> QED BY <1>0, <3>2
  <2> QED BY <2>1, <2>2
<1> HIDE DEF f, D
<1>3. ASSUME NEW l \in 0..W PROVE Leading(a, l) = Leading(b, l) <=> l <= f
  <2>1. CASE l <= f
    <3>1. \A i \in 0..(W - 1) : i < l => BitOf(a, i) = BitOf(b, i)
      BY <1>0, <1>2, <2>1
    <3> QED BY <2>1, <3>1, SameLeading
  <2>2. CASE ~(l <= f)
    <3>1. f \in 0..(W - 1) /\ f < l /\ BitOf(a, f) # BitOf(b, f)
      BY <1>0, <1>2, <2>2
    <3>2. Leading(a, l) # Leading(b, l)
      BY <3>1, SameLeading
    <3> QED BY <2>2, <3>2
  <2> QED BY <2>1, <2>2
<1>4. f \in 0..W /\ (f < W => BitOf(a, f) # BitOf(b, f)) /\ \A l \in 0..W : Leading(a, l) = Leading(b, l) <=> l <= f
  BY <1>2, <1>3
<1> QED BY <1>4 DEF D, f

LEMMA First6 ==
  ASSUME NEW a \in Address, NEW b \in Address
  PROVE  LET f == Trie6!FirstOneBit(a, b)
         IN  /\ f \in 0..W
             /\ f < W => BitOf(a, f) # BitOf(b, f)
             /\ \A l \in 0..W : Leading(a, l) = Leading(b, l) <=> l <= f
<1> DEFINE D == {i \in 0..(W - 1) : BitOf(a, i) # BitOf(b, i)}
<1>1. Trie6!FirstOneBit(a, b) = IF D = {} THEN W ELSE Least(D)
  BY DEF Trie6!FirstOneBit, BitOf, Least
<1> QED BY <1>1, FirstBitIs

LEMMA Contains6Is ==
  ASSUME NEW p \in Prefix, NEW q \in Prefix
  PROVE  Trie6!Contains(p, q) <=> Has(p, q)
<1>1. p.net \in Address /\ q.net \in Address /\ p.len \in 0..W /\ W \in Nat
  BY PrefixIs, WAssumption
<1> DEFINE f == Trie6!FirstOneBit(p.net, q.net)
<1>2. f \in 0..W /\ (Leading(p.net, p.len) = Leading(q.net, p.len) <=> p.len <= f)
  BY <1>1, First6
<1>3. Trie6!Contains(p, q) <=> p.len <= q.len /\ f >= p.len
  BY DEF Trie6!Contains
<1> HIDE DEF f
<1>4. f >= p.len <=> p.len <= f
  BY <1>1, <1>2
<1> QED BY <1>2, <1>3, <1>4, HasIs

LEMMA Contains4Is ==
  ASSUME NEW p \in Prefix, NEW q \in Prefix
  PROVE  Trie4!Contains(p, q) <=> Has(p, q)
<1>1. p.len \in 0..W /\ q.len \in 0..W /\ p = [net |-> p.net, len |-> p.len]
  BY PrefixIs
<1>2. New(q.net, p.len) = [net |-> Masked(q.net, p.len), len |-> p.len]
  BY DEF New
<1>3. Trie4!Masked(q.net, p.len) = Masked(q.net, p.len)
  BY DEF Trie4!Masked, Masked
<1>4. q.len >= p.len <=> p.len <= q.len
  BY <1>1
<1> QED BY <1>1, <1>2, <1>3, <1>4 DEF Trie4!Contains, Has

-----------------------------------------------------------------------------
(* Entries that are grouped anew.                                          *)

\* An entry that is the widest one in a prefix at its place.
Tops(E, q, e) == e \in E /\ Has(q, e) /\ \A z \in E : Has(q, z) /\ Has(z, e) => z = e

\* A prefix that has, wherever one looks, a widest entry of one value.
Solid(f, q, v) ==
  \A h \in Prefix : h.len = W /\ Has(q, h) => \E e \in DOMAIN f : f[e] = v /\ Tops(DOMAIN f, q, e) /\ Has(e, h)

\* A list of such prefixes, in exactly one of which each entry of the value is
\* a widest one.
Combined(f, v, qs) ==
  /\ qs \in Seq(Prefix)
  /\ \A i \in DOMAIN qs : Solid(f, qs[i], v)
  /\ \A e \in DOMAIN f : f[e] = v => \E i \in DOMAIN qs : Tops(DOMAIN f, qs[i], e)
  /\ \A e \in DOMAIN f, i, j \in DOMAIN qs : Tops(DOMAIN f, qs[i], e) /\ Tops(DOMAIN f, qs[j], e) => i = j

LEMMA HostIn ==
  ASSUME NEW q \in Prefix
  PROVE  New(q.net, W) \in Prefix /\ New(q.net, W).len = W /\ Has(q, New(q.net, W))
<1>1. W \in Nat /\ q.net \in Address /\ q.len \in 0..W /\ W \in 0..W
  BY WAssumption, PrefixIs
<1> DEFINE h == New(q.net, W)
<1>2. h \in Prefix /\ h.len = W /\ Leading(h.net, W) = Leading(q.net, W) /\ h.net \in Address
  BY <1>1, NewIs, PrefixIs
<1>3. Leading(h.net, q.len) = Leading(q.net, q.len)
  BY <1>1, <1>2, LeadingFewer
<1>4. Has(q, h)
  BY <1>1, <1>2, <1>3, HasIs
<1> QED BY <1>2, <1>4

LEMMA TopsOnce ==
  ASSUME NEW E, E \subseteq Prefix, NEW q \in Prefix, NEW h \in Prefix, NEW e, NEW d,
         Tops(E, q, e), Tops(E, q, d), Has(e, h), Has(d, h)
  PROVE  e = d
<1>1. e \in Prefix /\ d \in Prefix /\ e.len \in 0..W /\ d.len \in 0..W /\ W \in Nat
  BY WAssumption, PrefixIs DEF Tops
<1>2. e.len <= d.len \/ d.len <= e.len
  BY <1>1
<1>3. Has(e, d) \/ Has(d, e)
  BY <1>1, <1>2, HasOrder
<1> QED BY <1>3 DEF Tops

LEMMA SolidOnce ==
  ASSUME NEW f, DOMAIN f \subseteq Prefix, NEW q \in Prefix, NEW v, NEW w, Solid(f, q, v), Solid(f, q, w)
  PROVE  v = w
<1> DEFINE h == New(q.net, W)
<1>1. h \in Prefix /\ h.len = W /\ Has(q, h)
  BY HostIn
<1> HIDE DEF h
<1>2. PICK e \in DOMAIN f : f[e] = v /\ Tops(DOMAIN f, q, e) /\ Has(e, h)
  BY <1>1 DEF Solid
<1>3. PICK d \in DOMAIN f : f[d] = w /\ Tops(DOMAIN f, q, d) /\ Has(d, h)
  BY <1>1 DEF Solid
<1>4. e = d
  BY <1>1, <1>2, <1>3, TopsOnce
<1> QED BY <1>2, <1>3, <1>4

\* What is in the whole of two halves is in one of them.
LEMMA HalvesAre ==
  ASSUME NEW p \in Prefix, NEW q \in Prefix, p # q, p.len = q.len, p.len > 0,
         BitOf(p.net, p.len - 1) # 1, NEW w, w = New(p.net, p.len - 1), Has(w, q)
  PROVE  /\ w \in Prefix /\ w.len = p.len - 1
         /\ Has(w, p) /\ Has(w, q)
         /\ \A x \in Prefix : Has(w, x) /\ x # w => Has(p, x) \/ Has(q, x)
<1>1. /\ W \in Nat /\ p.len \in 0..W /\ p.net \in Address /\ q.net \in Address
      /\ p.len - 1 \in 0..W /\ p.len - 1 \in 0..(W - 1) /\ p.len - 1 + 1 = p.len
  BY WAssumption, PrefixIs
<1> DEFINE l == p.len - 1
<1>2. w \in Prefix /\ w.len = l /\ Leading(w.net, l) = Leading(p.net, l)
  BY <1>1, NewIs
<1>3. Has(w, p)
  BY <1>1, <1>2, HasIs
<1>4. Leading(q.net, l) = Leading(p.net, l)
  BY <1>2, HasIs
<1>5. \A a \in Address : Leading(a, p.len) = 2 * Leading(a, l) + BitOf(a, l) /\ BitOf(a, l) \in 0..1
  <2> TAKE a \in Address
  <2>1. Leading(a, l + 1) = 2 * Leading(a, l) + BitOf(a, l) /\ BitOf(a, l) = Leading(a, l + 1) % 2
    BY <1>1, LeadingStep
  <2>2. Leading(a, l + 1) \in Nat
    BY <1>1, UnitIs, AddressIs, DivFacts, Zenon DEF Leading
  <2> QED BY <1>1, <2>1, <2>2
<1> HIDE DEF l
<1>6. Leading(p.net, p.len) # Leading(q.net, p.len)
  <2> SUFFICES ASSUME Leading(p.net, p.len) = Leading(q.net, p.len) PROVE FALSE
    OBVIOUS
  <2>1. Has(p, q)
    BY <1>1, HasIs
  <2> QED BY <2>1, HasOrder
<1>7. BitOf(p.net, l) = 0
  BY <1>1, <1>5 DEF l
<1>8. BitOf(q.net, l) = 1
  BY <1>1, <1>4, <1>5, <1>6, <1>7
<1>9. ASSUME NEW x \in Prefix, Has(w, x), x # w
      PROVE  Has(p, x) \/ Has(q, x)
  <2>1. x.net \in Address /\ x.len \in 0..W /\ w.len <= x.len /\ w.len # x.len
    BY <1>2, <1>9, PrefixIs, HasOrder
  <2>2. p.len <= x.len
    BY <1>1, <1>2, <2>1 DEF l
  <2>3. Leading(x.net, l) = Leading(p.net, l)
    BY <1>2, <1>9, HasIs
  <2>4. BitOf(x.net, l) = 0 \/ BitOf(x.net, l) = 1
    BY <1>5, <2>1
  <2>5. Leading(p.net, p.len) = Leading(x.net, p.len) \/ Leading(q.net, p.len) = Leading(x.net, p.len)
    BY <1>1, <1>4, <1>5, <1>7, <1>8, <2>1, <2>3, <2>4
  <2> QED BY <2>2, <2>5, HasIs
<1> QED BY <1>2, <1>3, <1>9 DEF l

LEMMA TopsWhole ==
  ASSUME NEW E, E \subseteq Prefix, NEW p \in Prefix, NEW q \in Prefix, p # q, p.len = q.len, p.len > 0,
         BitOf(p.net, p.len - 1) # 1, NEW w, w = New(p.net, p.len - 1), Has(w, q), w \notin E, NEW e
  PROVE  Tops(E, w, e) <=> Tops(E, p, e) \/ Tops(E, q, e)
<1>1. /\ w \in Prefix /\ Has(w, p) /\ Has(w, q)
      /\ \A x \in Prefix : Has(w, x) /\ x # w => Has(p, x) \/ Has(q, x)
  BY HalvesAre
<1>2. \A x, y, z \in Prefix : Has(x, y) /\ Has(y, z) => Has(x, z)
  BY HasOrder
<1>3. ASSUME Tops(E, w, e) PROVE Tops(E, p, e) \/ Tops(E, q, e)
  <2>1. Has(p, e) \/ Has(q, e)
    BY <1>1, <1>3 DEF Tops
  <2> QED BY <1>1, <1>2, <1>3, <2>1 DEF Tops
<1>4. ASSUME NEW x \in {p, q}, Tops(E, x, e) PROVE Tops(E, w, e)
  <2>1. e \in E /\ Has(w, e) /\ Has(x, e)
    BY <1>1, <1>2, <1>4 DEF Tops
  <2>2. ASSUME NEW z \in E, Has(w, z), Has(z, e) PROVE z = e
    <3>1. Has(p, z) \/ Has(q, z)
      BY <1>1, <2>2
    <3>2. Has(x, z)
      <4>1. CASE Has(x, z)
        BY <4>1
      <4>2. CASE ~Has(x, z)
        <5>1. PICK y \in {p, q} : y # x /\ Has(y, z)
          BY <3>1, <4>2
        <5>2. Has(y, e) /\ Has(x, e) /\ y \in Prefix /\ x \in Prefix /\ e \in Prefix /\ y.len = x.len
          BY <1>2, <2>1, <2>2, <5>1
        <5>3. y.len <= x.len
          BY <5>2, PrefixIs, WAssumption
        <5>4. Has(y, x)
          BY <5>2, <5>3, HasOrder
        <5> QED BY <5>1, <5>2, <5>4, HasOrder
      <4> QED BY <4>1, <4>2
    <3> QED BY <1>4, <2>2, <3>2 DEF Tops
  <2> QED BY <2>1, <2>2 DEF Tops
<1> QED BY <1>3, <1>4

\* A list of which two neighbours are one.
Joined(qs, i, w) ==
  [j \in 1..(Len(qs) - 1) |-> CASE j < i -> qs[j] [] j = i -> w [] j > i -> qs[j + 1]]

IsJoined(rs, qs, i, w) ==
  /\ rs \in Seq(Prefix) /\ Len(rs) = Len(qs) - 1 /\ DOMAIN rs = 1..(Len(qs) - 1)
  /\ \A j \in 1..(Len(qs) - 1) : rs[j] = IF j < i THEN qs[j] ELSE IF j = i THEN w ELSE qs[j + 1]

LEMMA JoinedIs ==
  ASSUME NEW qs \in Seq(Prefix), NEW i \in 1..(Len(qs) - 1), NEW w \in Prefix
  PROVE  IsJoined(Joined(qs, i, w), qs, i, w)
<1>1. Len(qs) \in Nat /\ \A j \in 1..Len(qs) : qs[j] \in Prefix
  OBVIOUS
<1> DEFINE n == Len(qs) - 1
           J == Joined(qs, i, w)
<1>2. n \in Nat /\ J = [j \in 1..n |-> IF j < i THEN qs[j] ELSE IF j = i THEN w ELSE qs[j + 1]]
  BY <1>1 DEF Joined
<1>3. \A j \in 1..n : (IF j < i THEN qs[j] ELSE IF j = i THEN w ELSE qs[j + 1]) \in Prefix
  BY <1>1
<1> HIDE DEF n, J
<1>4. J \in [1..n -> Prefix]
  BY <1>2, <1>3, Zenon
<1>5. J \in Seq(Prefix) /\ Len(J) = n
  BY <1>2, <1>4
<1> QED BY <1>2, <1>5 DEF n, J, IsJoined

LEMMA ByteIs ==
  /\ \A x \in 0..255 : x % 256 = x
  /\ \A x \in Int : x = -1 => x % 256 = 255
<1>1. ASSUME NEW x \in 0..255 PROVE x % 256 = x
  <2>1. 256 \in Nat \ {0} /\ 0 \in Int /\ x \in 0..(256 - 1) /\ x \in Int /\ x = 256 * 0 + x
    OBVIOUS
  <2> QED BY <2>1, DivIs
<1>2. ASSUME NEW x \in Int, x = -1 PROVE x % 256 = 255
  <2> DEFINE q == 0 - 1
  <2>1. 256 \in Nat \ {0} /\ q \in Int /\ 255 \in 0..(256 - 1) /\ x = 256 * q + 255
    BY <1>2
  <2> HIDE DEF q
  <2> QED BY <2>1, DivIs
<1> QED BY <1>1, <1>2

\* What a walk over a list makes of it.
Walk(t, ps, f) == [i \in 0..Len(ps) |-> IF i = 0 THEN ps ELSE Trie4!CombineAt(t, f[i - 1], i)]

\* Walks over a list until nothing changes.
Again(t, f) ==
  [qs \in Seq(Prefix) |-> IF Trie4!CombineOnce(t, qs) = qs THEN qs ELSE f[Trie4!CombineOnce(t, qs)]]

\* Which of a list stay.
Keeps(t, ps, v, f) == [j \in DOMAIN ps |-> \A i \in 1..(j - 1) : f[i] => Trie4!Stays(t, ps[i], ps[j], v)]

LEMMA OneToOne ==
  ASSUME NEW S, NEW n \in Nat, NEW f \in [S -> 1..n], IsFiniteSet(S), Cardinality(S) = n,
         \A x, y \in S : f[x] = f[y] => x = y
  PROVE  \A i \in 1..n : \E x \in S : f[x] = i
<1>1. f \in Injection(S, 1..n)
  BY DEF Injection, IsInjective
<1>2. IsFiniteSet(1..n) /\ Cardinality(1..n) = n
  <2>1. 1 \in Int /\ n \in Int /\ (IF 1 > n THEN 0 ELSE n - 1 + 1) = n
    OBVIOUS
  <2> QED BY <2>1, FS_Interval
<1>3. f \in Surjection(S, 1..n)
  BY <1>1, <1>2, FS_Injection
<1> QED BY <1>3 DEF Surjection

\* A sorted list of a set has all of it, and each once.
LEMMA SortedIs ==
  ASSUME NEW S, S \subseteq Prefix, IsFiniteSet(S), NEW s, s = Trie4!Sorted(S)
  PROVE  /\ s \in Seq(Prefix)
         /\ \A i \in DOMAIN s : s[i] \in S
         /\ \A p \in S : \E i \in DOMAIN s : s[i] = p
         /\ \A i, j \in DOMAIN s : s[i] = s[j] => i = j
<1> DEFINE n == Cardinality(S)
           below(p) == {q \in S : Less(q, p)}
           rank == [p \in S |-> Cardinality(below(p)) + 1]
<1>0. n \in Nat /\ \A p \in S : IsFiniteSet(below(p)) /\ Cardinality(below(p)) \in Nat
  <2>1. n \in Nat
    BY FS_CardinalityType
  <2>2. ASSUME NEW p \in S PROVE IsFiniteSet(below(p)) /\ Cardinality(below(p)) \in Nat
    <3>1. below(p) \in SUBSET S
      OBVIOUS
    <3> HIDE DEF below
    <3> QED BY <3>1, FS_Subset, FS_CardinalityType
  <2> QED BY <2>1, <2>2
<1>1. s = [i \in 1..n |-> CHOOSE p \in S : Cardinality(below(p)) = i - 1]
  BY DEF Trie4!Sorted, Trie4!Less, Less, Trie4!Cardinality, Cardinality
<1>2. ASSUME NEW p \in S, NEW T \in SUBSET S, below(p) \subseteq T, p \in T
      PROVE  Cardinality(below(p)) < Cardinality(T)
  <2>1. IsFiniteSet(T) /\ below(p) \in SUBSET T /\ Cardinality(T) \in Nat
    BY <1>2, FS_Subset, FS_CardinalityType
  <2>2. below(p) # T
    BY <1>2, HasSorting
  <2> HIDE DEF below
  <2>3. Cardinality(below(p)) <= Cardinality(T) /\ Cardinality(below(p)) # Cardinality(T)
    BY <2>1, <2>2, FS_Subset
  <2> QED BY <1>0, <2>1, <2>3
<1>3. ASSUME NEW p \in S, NEW q \in S, Less(p, q) PROVE Cardinality(below(p)) < Cardinality(below(q))
  <2>1. below(q) \in SUBSET S /\ below(p) \subseteq below(q) /\ p \in below(q)
    BY <1>3, HasSorting
  <2> HIDE DEF below
  <2> QED BY <1>2, <2>1
<1>4. \A p \in S : Cardinality(below(p)) < n
  <2> TAKE p \in S
  <2>1. below(p) \subseteq S
    OBVIOUS
  <2> HIDE DEF below
  <2> QED BY <1>2, <2>1
<1>5. \A p, q \in S : Cardinality(below(p)) = Cardinality(below(q)) => p = q
  <2> TAKE p, q \in S
  <2> HIDE DEF below
  <2>1. Less(p, q) \/ Less(q, p) \/ p = q
    BY HasSorting
  <2> QED BY <1>0, <1>3, <2>1
<1> HIDE DEF below, n
<1>6. rank \in [S -> 1..n] /\ \A p \in S : rank[p] = Cardinality(below(p)) + 1
  BY <1>0, <1>4
<1> HIDE DEF rank
<1>7. \A i \in 1..n : \E p \in S : rank[p] = i
  BY <1>0, <1>5, <1>6, OneToOne DEF n
<1>8. ASSUME NEW i \in 1..n PROVE s[i] \in S /\ rank[s[i]] = i
  <2>1. PICK p \in S : rank[p] = i
    BY <1>7
  <2>2. Cardinality(below(p)) = i - 1
    BY <1>0, <1>6, <2>1
  <2>3. s[i] \in S /\ Cardinality(below(s[i])) = i - 1
    <3>1. s[i] = CHOOSE q \in S : Cardinality(below(q)) = i - 1
      BY <1>1
    <3> QED BY <2>2, <3>1
  <2>4. Cardinality(below(s[i])) + 1 = i
    BY <1>0, <2>3
  <2> QED BY <1>6, <2>3, <2>4
<1>9. DOMAIN s = 1..n
  BY <1>1
<1>10. s \in Seq(Prefix)
  <2>1. s \in [1..n -> Prefix]
    BY <1>1, <1>8, Zenon
  <2> QED BY <1>0, <2>1
<1>11. ASSUME NEW p \in S PROVE \E i \in 1..n : s[i] = p
  <2>1. rank[p] \in 1..n
    BY <1>6
  <2>2. s[rank[p]] \in S /\ rank[s[rank[p]]] = rank[p]
    BY <1>8, <2>1
  <2>3. s[rank[p]] = p
    BY <1>0, <1>5, <1>6, <2>2
  <2> QED BY <2>1, <2>3
<1>12. \A i, j \in 1..n : s[i] = s[j] => i = j
  BY <1>8
<1> QED BY <1>8, <1>9, <1>10, <1>11, <1>12

LEMMA SetToSeqIs ==
  ASSUME NEW S, IsFiniteSet(S), NEW s, s = Trie4!Seqs!SetToSeq(S)
  PROVE  /\ Len(s) \in Nat /\ DOMAIN s = 1..Len(s)
         /\ \A i \in 1..Len(s) : s[i] \in S
         /\ \A e \in S : \E i \in 1..Len(s) : s[i] = e
<1> DEFINE n == Cardinality(S)
           good(f) == f \in [1..n -> S] /\ \A i, j \in 1..n : f[i] = f[j] => i = j
<1>1. n \in Nat
  BY FS_CardinalityType
<1>2. s = CHOOSE f \in [1..n -> S] : good(f)
  <2>1. \A f \in [1..n -> S] : good(f) <=> Trie4!Seqs!IsInjective(f)
    BY DEF Trie4!Seqs!IsInjective
  <2>2. s = CHOOSE f \in [1..n -> S] : Trie4!Seqs!IsInjective(f)
    BY DEF Trie4!Seqs!SetToSeq, Trie4!Seqs!Cardinality, Cardinality
  <2> HIDE DEF good, n
  <2> QED BY <2>1, <2>2
<1>3. \E f \in [1..n -> S] : good(f)
  <2>1. PICK f \in Bijection(1..n, S) : TRUE
    BY FS_CardinalityType DEF ExistsBijection
  <2> QED BY <2>1, Zenon DEF Bijection, Injection, IsInjective
<1> HIDE DEF good
<1>4. good(s)
  BY <1>2, <1>3
<1> USE DEF good
<1>5. s \in [1..n -> S] /\ s \in Injection(1..n, S)
  BY <1>4 DEF Injection, IsInjective
<1>6. IsFiniteSet(1..n) /\ Cardinality(1..n) = n
  <2> HIDE DEF n
  <2>1. 1 \in Int /\ n \in Int /\ (IF 1 > n THEN 0 ELSE n - 1 + 1) = n
    BY <1>1
  <2> QED BY <2>1, FS_Interval
<1>7. s \in Surjection(1..n, S)
  BY <1>5, <1>6, FS_Injection
<1>8. Len(s) = n
  <2> HIDE DEF n
  <2>1. s \in Seq(S)
    BY <1>1, <1>5
  <2> QED BY <1>1, <1>5, <2>1
<1> QED BY <1>1, <1>5, <1>7, <1>8 DEF Surjection

\* Of the prefixes made of the entries of a value, those that are left: one
\* that is not lies in one that is, and between them are only entries of the
\* value.
Remaining(f, v, D) ==
  /\ D \subseteq Prefix
  /\ \A q \in D : Solid(f, q, v)
  /\ \A p, q \in D, e \in DOMAIN f : Tops(DOMAIN f, p, e) /\ Tops(DOMAIN f, q, e) => p = q
  /\ \A e \in DOMAIN f : f[e] = v =>
        \E q \in Prefix :
           /\ Solid(f, q, v) /\ Tops(DOMAIN f, q, e)
           /\ \/ q \in D
              \/ \E d \in D : Has(d, q) /\ \A z \in DOMAIN f : Has(z, q) /\ z # q => f[z] = v

LEMMA SortedCombined ==
  ASSUME NEW f, DOMAIN f \subseteq Prefix, IsFiniteSet(DOMAIN f), NEW v
  PROVE  Combined(f, v, Trie4!Sorted({p \in DOMAIN f : f[p] = v}))
<1> DEFINE E == DOMAIN f
           S == {p \in E : f[p] = v}
           ps == Trie4!Sorted(S)
<1>1. S \in SUBSET E /\ S \subseteq Prefix /\ \A e : e \in S <=> e \in E /\ f[e] = v
  OBVIOUS
<1> HIDE DEF S
<1>2. IsFiniteSet(S)
  BY <1>1, FS_Subset
<1>3. /\ ps \in Seq(Prefix)
      /\ \A i \in DOMAIN ps : ps[i] \in S
      /\ \A p \in S : \E i \in DOMAIN ps : ps[i] = p
      /\ \A i, j \in DOMAIN ps : ps[i] = ps[j] => i = j
  BY <1>1, <1>2, SortedIs
<1> HIDE DEF ps
<1>4. ASSUME NEW p \in S, NEW e PROVE Tops(E, p, e) <=> e = p
  <2>1. p \in E /\ p \in Prefix /\ Has(p, p)
    BY <1>1, HasOrder
  <2>2. ASSUME NEW z \in E, Has(p, z), Has(z, p) PROVE z = p
    <3>1. z \in Prefix /\ p.len <= z.len /\ z.len <= p.len /\ p.len \in Nat /\ z.len \in Nat
      BY <1>1, <2>1, <2>2, HasOrder, PrefixIs, WAssumption
    <3> QED BY <2>1, <2>2, <3>1, HasOrder
  <2> QED BY <2>1, <2>2 DEF Tops
<1>5. \A i \in DOMAIN ps : Solid(f, ps[i], v)
  <2> TAKE i \in DOMAIN ps
  <2>1. ps[i] \in S /\ ps[i] \in E /\ f[ps[i]] = v
    BY <1>1, <1>3
  <2>2. Tops(E, ps[i], ps[i])
    BY <1>4, <2>1
  <2> QED BY <2>1, <2>2 DEF Solid
<1>6. \A e \in E : f[e] = v => \E i \in DOMAIN ps : Tops(E, ps[i], e)
  <2> TAKE e \in E
  <2> HAVE f[e] = v
  <2>1. e \in S
    BY <1>1
  <2>2. PICK i \in DOMAIN ps : ps[i] = e
    BY <1>3, <2>1
  <2> QED BY <1>4, <2>1, <2>2
<1>7. ASSUME NEW e \in E, NEW i \in DOMAIN ps, NEW j \in DOMAIN ps, Tops(E, ps[i], e), Tops(E, ps[j], e)
      PROVE  i = j
  BY <1>3, <1>4, <1>7
<1> QED BY <1>3, <1>5, <1>6, <1>7, Zenon DEF Combined, ps, S

\* Where one looks in a solid prefix there is a widest entry.
LEMMA SolidHas ==
  ASSUME NEW f, NEW q \in Prefix, NEW v, Solid(f, q, v)
  PROVE  \E e \in DOMAIN f : f[e] = v /\ Tops(DOMAIN f, q, e)
<1>1. PICK h \in Prefix : h.len = W /\ Has(q, h)
  BY HostIn
<1> QED BY <1>1 DEF Solid

\* The prefixes that are left of each value, no more than there are entries.
Left(t) == UNION {Trie4!CombinePrefixes(t, v) \X {v} : v \in {t.val[p] : p \in DOMAIN t.val}}

\* What aggregation makes of the entries.
Regrouped(f, g) ==
  /\ DOMAIN g \subseteq Prefix
  /\ \A q \in DOMAIN g : Solid(f, q, g[q])
  /\ \A e \in DOMAIN f :
        \E q \in Prefix :
           /\ Tops(DOMAIN f, q, e)
           /\ \/ q \in DOMAIN g
              \/ /\ \E d \in DOMAIN g : Has(d, q)
                 /\ \A z \in DOMAIN f : Has(z, q) /\ z # q => f[z] = f[e]

\* The addresses of a prefix are the longest prefixes in it.
LEMMA HostOf ==
  ASSUME NEW a \in Address, NEW h, h = New(a, W)
  PROVE  /\ h \in Prefix /\ h.len = W
         /\ \A p \in Prefix : Trie4!ContainsAddress(p, a) <=> Has(p, h)
<1>1. W \in Nat /\ W \in 0..W
  BY WAssumption
<1>2. h \in Prefix /\ h.len = W /\ Leading(h.net, W) = Leading(a, W) /\ h.net \in Address
  BY <1>1, NewIs, PrefixIs
<1>3. ASSUME NEW p \in Prefix PROVE Trie4!ContainsAddress(p, a) <=> Has(p, h)
  <2>1. p.len \in 0..W /\ p.len <= h.len
    BY <1>1, <1>2, PrefixIs
  <2>2. Trie4!ContainsAddress(p, a) <=> ContainsAddress(p, a)
    BY DEF Trie4!ContainsAddress, ContainsAddress, Trie4!Masked, Masked
  <2>3. Leading(h.net, p.len) = Leading(a, p.len)
    BY <1>1, <1>2, <2>1, LeadingFewer
  <2>4. p = New(a, p.len) <=> Leading(p.net, p.len) = Leading(a, p.len)
    BY <2>1, NewIs
  <2>5. Has(p, h) <=> Leading(p.net, p.len) = Leading(h.net, p.len)
    BY <1>2, <2>1, HasIs
  <2> QED BY <2>2, <2>3, <2>4, <2>5, Contains4
<1> QED BY <1>2, <1>3

\* The longest that has an address.
LongestMatch(f, h, p) == p \in DOMAIN f /\ Has(p, h) /\ \A q \in DOMAIN f : Has(q, h) => q.len <= p.len

LEMMA RegroupedCovers ==
  ASSUME NEW f, DOMAIN f \subseteq Prefix, NEW g, Regrouped(f, g), NEW h \in Prefix, h.len = W
  PROVE  /\ (\E q \in DOMAIN g : Has(q, h)) <=> (\E e \in DOMAIN f : Has(e, h))
         /\ \A q \in DOMAIN g : Has(q, h) => \E e \in DOMAIN f : Has(e, h) /\ f[e] = g[q]
<1>1. ASSUME NEW q \in DOMAIN g, Has(q, h)
      PROVE  \E e \in DOMAIN f : Has(e, h) /\ f[e] = g[q]
  BY <1>1 DEF Regrouped, Solid
<1>2. ASSUME NEW e \in DOMAIN f, Has(e, h)
      PROVE  \E q \in DOMAIN g : Has(q, h)
  <2>1. PICK q \in Prefix :
           /\ Tops(DOMAIN f, q, e)
           /\ q \in DOMAIN g \/ \E d \in DOMAIN g : Has(d, q)
    BY <1>2 DEF Regrouped
  <2>2. Has(q, e) /\ e \in Prefix
    BY <2>1 DEF Tops
  <2>3. Has(q, h)
    BY <1>2, <2>2, HasOrder
  <2>4. CASE q \in DOMAIN g
    BY <2>3, <2>4
  <2>5. CASE \E d \in DOMAIN g : Has(d, q)
    <3>1. PICK d \in DOMAIN g : Has(d, q)
      BY <2>5
    <3>2. d \in Prefix
      BY DEF Regrouped
    <3>3. Has(d, h)
      BY <2>3, <3>1, <3>2, HasOrder
    <3> QED BY <3>3
  <2> QED BY <2>1, <2>4, <2>5
<1> QED BY <1>1, <1>2

LEMMA RegroupedKeeps ==
  ASSUME NEW f, DOMAIN f \subseteq Prefix, NEW g, Regrouped(f, g), NEW h \in Prefix, h.len = W,
         NEW e, LongestMatch(f, h, e), NEW m, LongestMatch(g, h, m)
  PROVE  g[m] = f[e]
<1> DEFINE E == DOMAIN f
<1>1. e \in E /\ e \in Prefix /\ Has(e, h) /\ m \in DOMAIN g /\ m \in Prefix /\ Has(m, h)
  BY DEF LongestMatch, Regrouped
<1>2. PICK x \in E : f[x] = g[m] /\ Tops(E, m, x) /\ Has(x, h)
  BY <1>1 DEF Regrouped, Solid
<1>3. x \in Prefix /\ x.len <= e.len /\ Has(m, x)
  BY <1>2 DEF LongestMatch, Tops
<1>4. Has(x, e)
  BY <1>1, <1>2, <1>3, HasOrder
<1>5. PICK q \in Prefix :
         /\ Tops(E, q, e)
         /\ \/ q \in DOMAIN g
            \/ \A z \in E : Has(z, q) /\ z # q => f[z] = f[e]
  BY <1>1 DEF Regrouped
<1>6. Has(q, e) /\ Has(q, h)
  BY <1>1, <1>5, HasOrder DEF Tops
<1>7. W \in Nat /\ x.len \in 0..W /\ q.len \in 0..W /\ m.len \in 0..W
  BY <1>1, <1>3, <1>5, PrefixIs, WAssumption
<1>8. CASE q.len <= x.len
  <2>1. Has(q, x)
    BY <1>2, <1>3, <1>5, <1>6, <1>8, HasOrder
  <2>2. x = e
    BY <1>2, <1>4, <1>5, <2>1 DEF Tops
  <2> QED BY <1>2, <2>2
<1>9. CASE ~(q.len <= x.len)
  <2>1. Has(x, q) /\ x # q
    <3>1. x.len <= q.len
      BY <1>7, <1>9
    <3>2. x # q
      BY <1>7, <1>9
    <3> QED BY <1>2, <1>3, <1>5, <1>6, <3>1, <3>2, HasOrder
  <2>2. q \notin DOMAIN g
    <3> SUFFICES ASSUME q \in DOMAIN g PROVE FALSE
      OBVIOUS
    <3>1. q.len <= m.len
      BY <1>6 DEF LongestMatch
    <3>2. m.len <= x.len
      BY <1>1, <1>3, HasOrder
    <3> QED BY <1>7, <1>9, <3>1, <3>2
  <2> QED BY <1>2, <1>5, <2>1, <2>2
<1> QED BY <1>8, <1>9

-----------------------------------------------------------------------------
(* The prefixes of a range of addresses.                                   *)

LEMMA NamesRanges ==
  /\ Ranges!Address = Address /\ Ranges!Prefix = Prefix /\ Ranges!Top = Top
  /\ \A p, a, l : Ranges!Set(p, a, l) = IF l > W THEN p ELSE New(a, l)
  /\ \A a, l : Ranges!New(a, l) = New(a, l)
  /\ \A p, b : Ranges!Wider(p, b) = IF p.len > b THEN New(p.net, p.len - b) ELSE New(0, 0)
  /\ \A p : Ranges!FirstAddress(p) = p.net /\ Ranges!LastAddress(p) = p.net + Unit(p.len) - 1
  /\ \A a : Ranges!IncAddress(a) = IF a # Top THEN a + 1 ELSE a
  BY DEF Ranges!Prefix, Ranges!Address, Ranges!Top, Prefix, Address, Top, Ranges!New, Ranges!Masked, New, Masked,
         Ranges!Set, Ranges!Wider, Ranges!FirstAddress, Ranges!LastAddress, Ranges!IncAddress, Unit

\* The addresses of a prefix, from its network to its end.
End(n, l) == n + Unit(l) - 1

LEMMA BlockIs ==
  ASSUME NEW a \in Address, NEW l \in 0..W
  PROVE  /\ Masked(a, l) \in Nat /\ Masked(a, l) <= a /\ a <= End(Masked(a, l), l)
         /\ End(Masked(a, l), l) \in Address
         /\ \A n \in Nets(l) : n <= a /\ a <= End(n, l) => Masked(a, l) = n
<1> DEFINE m == Unit(l)
           q == Leading(a, l)
           r == a % m
           u == Unit(0)
<1>1. m \in Nat \ {0} /\ a \in Nat /\ u \in Nat \ {0}
  <2>1. 0 \in 0..W
    BY WAssumption
  <2> QED BY <2>1, UnitIs, AddressIs
<1>2. q \in Nat /\ r \in 0..(m - 1) /\ a = m * q + r
  BY <1>1, DivFacts DEF Leading
<1>3. Masked(a, l) = a - r
  BY DEF Masked, Unit
<1>4. PICK k \in Nat : u = m * k
  BY UnitDivides
<1>5. Address = 0..(u - 1)
  BY AddressIs
<1>6. ASSUME NEW n \in Nets(l), n <= a, a <= End(n, l) PROVE Masked(a, l) = n
  <2> DEFINE h == Leading(n, l)
             s == a - n
  <2>1. n \in Nat /\ n = m * h
    BY NetIs
  <2>2. h \in Nat
    BY <1>1, <2>1, DivFacts DEF Leading
  <2>3. s \in 0..(m - 1) /\ a = m * h + s /\ a \in Int /\ m \in Nat \ {0} /\ h \in Int
    BY <1>1, <1>6, <2>1, <2>2 DEF End
  <2> HIDE DEF m, h, s
  <2>4. a % m = s
    BY <2>3, DivIs
  <2> QED BY <1>1, <1>3, <2>1, <2>4 DEF s, m
<1>7. m * q <= a /\ a <= m * q + m - 1 /\ a - r = m * q
  <2> HIDE DEF m, q, r
  <2> QED BY <1>1, <1>2
<1>8. m * q + m - 1 < u
  <2> HIDE DEF m, q, r, u
  <2>1. q < k
    <3> SUFFICES ASSUME q >= k PROVE FALSE
      BY <1>2, <1>4
    <3>1. m * (q - k) >= 0
      BY <1>1, <1>2, <1>4
    <3>2. m * (q - k) = m * q - u
      BY <1>1, <1>2, <1>4
    <3> QED BY <1>1, <1>2, <1>5, <1>7, <3>1, <3>2
  <2>2. m * (k - q - 1) >= 0
    BY <1>1, <1>2, <1>4, <2>1
  <2>3. m * (k - q - 1) = u - m * q - m
    BY <1>1, <1>2, <1>4
  <2>4. m * q \in Nat
    BY <1>1, <1>2
  <2> QED BY <1>1, <2>2, <2>3, <2>4
<1>9. m * q \in Nat
  <2> HIDE DEF m, q
  <2> QED BY <1>1, <1>2
<1>10. End(Masked(a, l), l) = m * q + m - 1
  BY <1>3, <1>7 DEF End
<1> HIDE DEF m, q, r, u
<1>11. Masked(a, l) = m * q /\ m * q + m - 1 \in Address
  BY <1>1, <1>3, <1>5, <1>7, <1>8, <1>9
<1> QED BY <1>6, <1>7, <1>9, <1>10, <1>11

\* A wider prefix starts no later and ends no earlier.
LEMMA WiderBlock ==
  ASSUME NEW a \in Address, NEW l \in 0..W, NEW k \in 0..l
  PROVE  Masked(a, k) <= Masked(a, l) /\ End(Masked(a, l), l) <= End(Masked(a, k), k)
<1> DEFINE n == Masked(a, l)
           e == End(n, l)
<1>1. k \in 0..W
  BY WAssumption
<1>2. n \in Nets(l)
  BY MaskedNet
<1>3. n \in Address /\ Masked(n, l) = n
  BY <1>2, NetIs
<1>4. e \in Address /\ n <= e
  BY <1>3, BlockIs
<1>5. Masked(e, l) = n
  <2>1. e <= End(n, l) /\ e \in Int
    BY <1>4, AddressIs
  <2> QED BY <1>2, <1>4, <2>1, BlockIs
<1>6. Masked(n, k) = Masked(a, k) /\ Masked(e, k) = Masked(a, k)
  BY <1>3, <1>4, <1>5, MaskedTwice
<1> HIDE DEF n, e
<1>7. Masked(n, k) <= n /\ e <= End(Masked(e, k), k)
  BY <1>1, <1>3, <1>4, BlockIs
<1> QED BY <1>6, <1>7 DEF n, e

\* A prefix of length l at a, that does not start before a or end after z.
Fits(a, z, l) == Masked(a, l) >= a /\ End(Masked(a, l), l) <= z

IsWidest(a, z, f) ==
  f = [p \in Prefix |->
         LET wider == Ranges!Set(p, a, (p.len - 1) % 256)
         IN  IF Ranges!FirstAddress(wider) >= a /\ Ranges!LastAddress(wider) <= z THEN f[wider] ELSE p]

LEMMA WiderOnce ==
  ASSUME NEW a \in Address, NEW p \in Prefix
  PROVE  Ranges!Set(p, a, (p.len - 1) % 256) = IF p.len = 0 THEN p ELSE New(a, p.len - 1)
<1>1. W \in 1..254 /\ p.len \in 0..W
  BY WAssumption, PrefixIs
<1> DEFINE l == p.len - 1
<1>2. CASE p.len = 0
  <2>1. l \in Int /\ l = -1
    BY <1>2
  <2> HIDE DEF l
  <2>2. l % 256 = 255
    BY <2>1, ByteIs
  <2> QED BY <1>1, <1>2, <2>2, NamesRanges DEF l
<1>3. CASE p.len # 0
  <2>1. l \in 0..255 /\ ~(l > W)
    BY <1>1, <1>3
  <2> HIDE DEF l
  <2>2. l % 256 = l
    BY <2>1, ByteIs
  <2> QED BY <1>3, <2>1, <2>2, NamesRanges DEF l
<1> QED BY <1>2, <1>3

IsFrom(x, z, f) ==
  f = [a \in x..z |->
         LET p == Ranges!WidestFrom(a, z)
         IN  <<p>> \o (IF Ranges!LastAddress(p) < z THEN f[Ranges!IncAddress(Ranges!LastAddress(p))] ELSE <<>>)]

\* The prefix that the range goes on with, and where it ends.
Widest(a, z) == Ranges!WidestFrom(a, z)

EndFrom(a, z) == End(a, Widest(a, z).len)

\* No prefix that starts in the range before a and reaches a ends in it.
Closed(x, a, z) ==
  \A l \in 0..W : \A n \in Nets(l) : x <= n /\ n < a /\ a <= End(n, l) => End(n, l) > z

\* The prefixes from a on: without gaps, none of which could be wider.
Covering(x, a, z, s) ==
  /\ s \in Seq(Prefix) /\ s # <<>>
  /\ s[1].net = a
  /\ End(s[Len(s)].net, s[Len(s)].len) = z
  /\ \A i \in 1..(Len(s) - 1) : s[i + 1].net = End(s[i].net, s[i].len) + 1
  /\ \A i \in 1..Len(s) :
        /\ s[i].len # 0
        /\ ~(/\ Masked(s[i].net, s[i].len - 1) >= x
             /\ End(Masked(s[i].net, s[i].len - 1), s[i].len - 1) <= z)

RangesInv == store \in Address \X Address /\ Ranges!RangeExact

\* What Covering says is what RangeExact asks for.
LEMMA RangeIsExact ==
  ASSUME NEW x \in Address, NEW z \in Address, x <= z, ~(x = 0 /\ z = Top),
         NEW s, Covering(x, x, z, s)
  PROVE  /\ Ranges!FirstAddress(s[1]) = x /\ Ranges!LastAddress(s[Len(s)]) = z
         /\ \A i \in 1..(Len(s) - 1) : Ranges!FirstAddress(s[i + 1]) = Ranges!LastAddress(s[i]) + 1
         /\ \A i \in 1..Len(s) : ~(/\ Ranges!FirstAddress(Ranges!Wider(s[i], 1)) >= x
                                  /\ Ranges!LastAddress(Ranges!Wider(s[i], 1)) <= z)
<1>1. \A p : Ranges!FirstAddress(p) = p.net /\ Ranges!LastAddress(p) = End(p.net, p.len)
  BY NamesRanges DEF End
<1>2. s \in Seq(Prefix) /\ s # <<>> /\ Len(s) \in Nat \ {0}
  BY DEF Covering
<1>3. ASSUME NEW p \in Prefix, p.len # 0
      PROVE  Ranges!Wider(p, 1) = New(p.net, p.len - 1)
  <2>1. p.net \in Address /\ p.len \in 0..W /\ 0 \in 0..W
    BY WAssumption, PrefixIs
  <2>2. CASE p.len > 1
    BY <2>2, NamesRanges
  <2>3. CASE ~(p.len > 1)
    <3>1. p.len - 1 = 0
      BY <1>3, <2>1, <2>3
    <3>2. 0 \in Nets(0) /\ 0 \in Address
      <4>1. Unit(0) \in Nat \ {0} /\ 0 % Unit(0) = 0 /\ Address = 0..(Unit(0) - 1)
        <5>1. Unit(0) \in Nat \ {0}
          BY <2>1, UnitIs
        <5>2. Unit(0) * 0 = 0 /\ 0 \in Address
          BY <5>1, AddressIs
        <5>3. 0 \in Nets(0)
          BY <2>1, <5>2, MultipleIs
        <5> QED BY <5>1, <5>3, AddressIs DEF Nets
      <4> QED BY <4>1 DEF Nets
    <3>3. \A a \in Address : Masked(a, 0) = 0
      <4> SUFFICES ASSUME NEW a \in Address PROVE Masked(a, 0) = 0
        OBVIOUS
      <4>1. Unit(0) \in Nat /\ a \in 0..(Unit(0) - 1)
        BY <2>1, UnitIs, AddressIs
      <4>2. 0 <= a /\ a <= End(0, 0)
        BY <4>1 DEF End
      <4> QED BY <2>1, <3>2, <4>2, BlockIs
    <3>4. New(p.net, 0) = New(0, 0)
      BY <2>1, <3>2, <3>3 DEF New
    <3> QED BY <2>3, <3>1, <3>4, NamesRanges
  <2> QED BY <2>2, <2>3
<1>4. ASSUME NEW i \in 1..Len(s)
      PROVE  ~(/\ Ranges!FirstAddress(Ranges!Wider(s[i], 1)) >= x
               /\ Ranges!LastAddress(Ranges!Wider(s[i], 1)) <= z)
  <2> DEFINE p == s[i]
             n == Masked(p.net, p.len - 1)
  <2>1. p \in Prefix
    BY <1>2
  <2>2. p.len # 0 /\ ~(n >= x /\ End(n, p.len - 1) <= z)
    BY DEF Covering
  <2> HIDE DEF p
  <2>3. Ranges!Wider(p, 1) = [net |-> n, len |-> p.len - 1]
    BY <1>3, <2>1, <2>2 DEF New
  <2>4. /\ Ranges!FirstAddress(Ranges!Wider(p, 1)) = n
        /\ Ranges!LastAddress(Ranges!Wider(p, 1)) = End(n, p.len - 1)
    BY <1>1, <2>3
  <2> QED BY <2>2, <2>4 DEF p
<1> QED BY <1>1, <1>4 DEF Covering

LEMMA RangesInit == Ranges!Init => RangesInv
<1> SUFFICES ASSUME Ranges!Init PROVE RangesInv
  OBVIOUS
<1>1. store \in Address \X Address /\ Len(counters) = 0
  BY NamesRanges DEF Ranges!Init
<1> QED BY <1>1 DEF RangesInv, Ranges!RangeExact

-----------------------------------------------------------------------------
(* The number of addresses of several prefixes.                            *)

\* The addresses of a prefix and of several ones.
Block(p) == {a \in Address : ContainsAddress(p, a)}

Blocks(S) == {a \in Address : \E p \in S : ContainsAddress(p, a)}

LEMMA BlockSize ==
  ASSUME NEW p \in Prefix
  PROVE  IsFiniteSet(Block(p)) /\ Cardinality(Block(p)) = Unit(p.len)
<1> DEFINE n == p.net
           l == p.len
<1>1. n \in Address /\ l \in 0..W /\ p = [net |-> n, len |-> l] /\ Address \subseteq Nat /\ Unit(l) \in Nat \ {0}
  BY PrefixIs, UnitIs, AddressIs
<1>2. n \in Nets(l)
  BY <1>1 DEF Nets, Prefix, Unit
<1>3. Masked(n, l) = n /\ End(n, l) \in Address
  BY <1>1, <1>2, NetIs, BlockIs
<1>4. ASSUME NEW a \in Address PROVE a \in Block(p) <=> n <= a /\ a <= End(n, l)
  <2>1. a \in Block(p) <=> Masked(a, l) = n
    BY DEF Block, ContainsAddress
  <2>2. Masked(a, l) <= a /\ a <= End(Masked(a, l), l) /\ (n <= a /\ a <= End(n, l) => Masked(a, l) = n)
    BY <1>1, <1>2, BlockIs
  <2> QED BY <2>1, <2>2
<1> DEFINE e == End(n, l)
<1>5. n \in Int /\ e \in Int /\ n \in Nat /\ e = n + Unit(l) - 1
  BY <1>1, <1>3 DEF End
<1>6. n..e \subseteq Address
  BY <1>1, <1>3, <1>5, AddressIs DEF Address
<1> HIDE DEF n, l, e
<1>7. Block(p) = n..e
  <2>1. \A a \in Block(p) : a \in Address
    BY DEF Block
  <2>2. \A a \in Block(p) : a \in n..e
    BY <1>1, <1>4, <1>5, <2>1 DEF e
  <2>3. \A a \in n..e : a \in Block(p)
    BY <1>4, <1>5, <1>6 DEF e
  <2> QED BY <2>2, <2>3
<1> DEFINE u == Unit(l)
<1>8. n \in Int /\ e \in Int /\ u \in Nat \ {0} /\ e = n + u - 1
  BY <1>1, <1>5 DEF l, n
<1> HIDE DEF u
<1>9. IsFiniteSet(n..e) /\ Cardinality(n..e) = u
  <2>1. IsFiniteSet(n..e) /\ Cardinality(n..e) = IF n > e THEN 0 ELSE e - n + 1
    BY <1>8, FS_Interval
  <2>2. ~(n > e) /\ e - n + 1 = u
    BY <1>8
  <2> QED BY <2>1, <2>2
<1> QED BY <1>7, <1>9 DEF l, u

LEMMA ModAdds ==
  ASSUME NEW m \in Nat \ {0}, NEW x \in Nat, NEW u \in Nat
  PROVE  ((x % m) + u) % m = (x + u) % m
<1> DEFINE q == x \div m
           r == x % m
           h == (r + u) \div m
           s == (r + u) % m
<1>1. q \in Nat /\ r \in 0..(m - 1) /\ x = m * q + r
  BY DivFacts
<1>2. r + u \in Nat
  BY <1>1
<1>3. h \in Nat /\ s \in 0..(m - 1) /\ r + u = m * h + s
  BY <1>2, DivFacts
<1> HIDE DEF q, r, h, s
<1>4. x + u = m * (q + h) + s /\ q + h \in Int /\ x + u \in Int
  BY <1>1, <1>3
<1> DEFINE y == x + u
           g == q + h
<1>5. y = m * g + s /\ g \in Int /\ y \in Int
  BY <1>4
<1> HIDE DEF y, g
<1>6. y % m = s
  BY <1>3, <1>5, DivIs
<1> QED BY <1>6 DEF y, s, r

\* The sum over the prefixes, one by one, as FoldSet makes it.
Chosen(s) == CHOOSE p \in s : TRUE

IsSum(S, f) ==
  f = [s \in SUBSET S |-> IF s = {} THEN 0 ELSE (f[s \ {Chosen(s)}] + 2^(W - Chosen(s).len)) % 2^W]

Apart(S) == \A p, q \in S, a \in Address : ContainsAddress(p, a) /\ ContainsAddress(q, a) => p = q

LEMMA SumIs ==
  ASSUME NEW S, IsFiniteSet(S), S \subseteq Prefix, Apart(S), NEW f, IsSum(S, f)
  PROVE  f[S] = Cardinality(Blocks(S)) % 2^W
<1> DEFINE bad == {n \in Nat : \E s \in SUBSET S : Cardinality(s) = n /\ f[s] # Cardinality(Blocks(s)) % 2^W}
<1>1. \A s \in SUBSET S : IsFiniteSet(s) /\ Cardinality(s) \in Nat
  BY FS_Subset, FS_CardinalityType
<1>2. \A s : IsFiniteSet(Blocks(s)) /\ Cardinality(Blocks(s)) \in Nat
  <2> SUFFICES ASSUME NEW s PROVE IsFiniteSet(Blocks(s)) /\ Cardinality(Blocks(s)) \in Nat
    OBVIOUS
  <2>1. IsFiniteSet(Address)
    BY AddressIs, FS_Interval DEF Address
  <2>2. Blocks(s) \in SUBSET Address
    BY DEF Blocks
  <2>3. IsFiniteSet(Blocks(s))
    BY <2>1, <2>2, FS_Subset
  <2> QED BY <2>3, FS_CardinalityType
<1>3. 2^W \in Nat \ {0}
  BY WAssumption, PowerPositive
<1>4. ASSUME bad # {} PROVE FALSE
  <2>1. bad \in SUBSET Nat
    OBVIOUS
  <2> HIDE DEF bad
  <2>2. PICK n \in bad : \A k \in bad : n <= k
    BY <1>4, <2>1, LeastOf
  <2>3. PICK s \in SUBSET S : Cardinality(s) = n /\ f[s] # Cardinality(Blocks(s)) % 2^W
    BY <2>2 DEF bad
  <2>4. CASE s = {}
    <3>1. Blocks(s) = {} /\ f[s] = 0
      BY <2>4 DEF Blocks, IsSum
    <3>2. Cardinality(Blocks(s)) = 0
      BY <3>1, FS_EmptySet
    <3> DEFINE m == 2^W
    <3>3. m \in Nat \ {0} /\ Cardinality(Blocks(s)) % m = 0 % m
      BY <1>3, <3>2
    <3> HIDE DEF m
    <3>4. 0 % m = 0
      BY <3>3
    <3> QED BY <2>3, <3>1, <3>3, <3>4 DEF m
  <2>5. CASE s # {}
    <3> DEFINE p == Chosen(s)
               t == s \ {p}
               x == Cardinality(Blocks(t))
               u == Unit(p.len)
               m == 2^W
    <3>1. p \in s /\ p \in Prefix
      BY <2>5 DEF Chosen
    <3>2. t \in SUBSET S /\ Cardinality(t) = n - 1 /\ Cardinality(t) \in Nat
      BY <1>1, <2>3, <3>1, FS_RemoveElement
    <3>3. f[t] = x % m
      <4>1. n - 1 \notin bad /\ n - 1 \in Nat
        BY <2>1, <2>2, <3>2
      <4> HIDE DEF t
      <4> QED BY <3>2, <4>1 DEF bad
    <3>4. f[s] = (f[t] + u) % m
      BY <2>5 DEF IsSum, Unit
    <3>5. Blocks(s) = Blocks(t) \cup Block(p) /\ Blocks(t) \cap Block(p) = {}
      <4>1. Blocks(s) = Blocks(t) \cup Block(p)
        BY <3>1 DEF Blocks, Block
      <4>2. \A a \in Address : ~(a \in Blocks(t) /\ a \in Block(p))
        <5> HIDE DEF p
        <5>1. \A q \in t : q \in S /\ q # p
          OBVIOUS
        <5>2. p \in S
          BY <3>1
        <5> HIDE DEF t
        <5> QED BY <5>1, <5>2 DEF Apart, Blocks, Block
      <4> QED BY <4>1, <4>2 DEF Blocks, Block
    <3>6. Cardinality(Blocks(s)) = x + u
      <4>1. IsFiniteSet(Block(p)) /\ Cardinality(Block(p)) = u
        BY <3>1, BlockSize
      <4>2. u \in Nat
        BY <3>1, PrefixIs, UnitIs
      <4> HIDE DEF p, t, u
      <4>3. Cardinality(Blocks(s)) = x + u - Cardinality({})
        BY <1>2, <3>5, <4>1, FS_Union
      <4> QED BY <1>2, <4>2, <4>3, FS_EmptySet
    <3>7. x \in Nat /\ u \in Nat /\ m \in Nat \ {0}
      BY <1>2, <1>3, <3>1, PrefixIs, UnitIs
    <3> HIDE DEF p, t, x, u, m
    <3>8. f[s] = (x + u) % m
      BY <3>3, <3>4, <3>7, ModAdds
    <3> QED BY <2>3, <3>6, <3>8 DEF m
  <2> QED BY <2>4, <2>5
<1> HIDE DEF bad
<1>5. f[S] = Cardinality(Blocks(S)) % 2^W
  BY <1>1, <1>4 DEF bad
<1> QED BY <1>5

-----------------------------------------------------------------------------
(* The trie of Ipv4PrefixPatricia.                                         *)

TP4 == INSTANCE TrieProofs WITH
  Less <- Trie4!Less, Contains <- Trie4!Contains, Bit <- Trie4!Bit, New <- Trie4!New,
  firstDiffBit <- Trie4!firstDiffBit, Value <- Value \cup {0}

LEMMA DiffBit4Is ==
  ASSUME NEW p \in Prefix, NEW q \in Prefix
  PROVE  PartAt(p, q, TP4!DiffBit(p, q))
<1>1. p.net \in Address /\ q.net \in Address /\ p.len \in 0..W /\ q.len \in 0..W /\ W \in Nat
  BY PrefixIs, WAssumption
<1> DEFINE m == Shorter(p, q)
           D == {i \in 0..(m - 1) : Trie4!Bit(p, i) # Trie4!Bit(q, i)}
           d == TP4!DiffBit(p, q)
<1>2. d = IF D = {} THEN -1 ELSE Least(D)
  BY DEF TP4!DiffBit, Trie4!firstDiffBit, Shorter, Least
<1>3. m \in 0..W
  BY <1>1 DEF Shorter
<1>4. ASSUME NEW i \in 0..(W - 1) PROVE Trie4!Bit(p, i) # Trie4!Bit(q, i) <=> BitOf(p.net, i) # BitOf(q.net, i)
  <2>1. i + 1 \in 0..W
    BY <1>1
  <2>2. Leading(p.net, i + 1) \in Nat /\ Leading(q.net, i + 1) \in Nat
    BY <1>1, <2>1, UnitIs, AddressIs, DivFacts, Zenon DEF Leading
  <2>3. BitOf(p.net, i) \in 0..1 /\ BitOf(q.net, i) \in 0..1
    BY <1>1, <2>2, LeadingStep
  <2>4. (Trie4!Bit(p, i) <=> BitOf(p.net, i) = 1) /\ (Trie4!Bit(q, i) <=> BitOf(q.net, i) = 1)
    BY DEF Trie4!Bit, BitOf
  <2>5. Trie4!Bit(p, i) \in BOOLEAN /\ Trie4!Bit(q, i) \in BOOLEAN
    BY DEF Trie4!Bit
  <2> QED BY <2>3, <2>4, <2>5
<1> HIDE DEF m, d
<1>5. CASE D = {}
  <2>1. d = -1 /\ \A i \in 0..(W - 1) : i < m => BitOf(p.net, i) = BitOf(q.net, i)
    BY <1>1, <1>2, <1>3, <1>4, <1>5
  <2>2. Leading(p.net, m) = Leading(q.net, m)
    BY <1>1, <1>3, <2>1, SameLeading
  <2> QED BY <2>1, <2>2 DEF PartAt, m, d
<1>6. CASE D # {}
  <2>1. D \in SUBSET Nat
    BY <1>1, <1>3
  <2>2. d = Least(D)
    BY <1>2, <1>6
  <2>3. d \in D /\ \A j \in D : d <= j
    <3> HIDE DEF D
    <3> QED BY <1>6, <2>1, <2>2, LeastIs
  <2>4. d \in 0..(m - 1) /\ d \in 0..(W - 1) /\ d \in 0..W /\ BitOf(p.net, d) # BitOf(q.net, d)
    BY <1>1, <1>3, <1>4, <2>3
  <2>5. \A i \in 0..(W - 1) : i < d => BitOf(p.net, i) = BitOf(q.net, i)
    BY <1>1, <1>3, <1>4, <2>3, <2>4
  <2>6. Leading(p.net, d) = Leading(q.net, d)
    BY <1>1, <2>4, <2>5, SameLeading
  <2> QED BY <2>4, <2>6 DEF PartAt, m, d
<1> QED BY <1>5, <1>6

LEMMA Laws4 == TP4!Laws
<1>0. W \in Nat /\ \A p \in Prefix : p.len \in 0..W /\ p.net \in Address
  BY WAssumption, PrefixIs
<1>1. \A p, q \in Prefix : Trie4!Contains(p, q) <=> Has(p, q)
  BY Contains4Is
<1>2. \A a, l : Trie4!New(a, l) = New(a, l)
  BY DEF Trie4!New, Trie4!Masked, New, Masked
<1>3. \A p, q : Trie4!Less(p, q) <=> Less(p, q)
  BY DEF Trie4!Less, Less
<1>4. \A p, i : Trie4!Bit(p, i) <=> BitOf(p.net, i) = 1
  BY DEF Trie4!Bit, BitOf
<1>4a. \A p, i : Trie4!Bit(p, i) \in BOOLEAN
  BY DEF Trie4!Bit
<1>5. TP4!Lengths
  BY <1>0 DEF TP4!Lengths
<1>6. TP4!Containment
  BY <1>1, HasOrder DEF TP4!Containment
<1>7. TP4!Chains
  BY <1>1, HasOrder DEF TP4!Chains
<1>8. TP4!Bits
  <2>1. ASSUME NEW p \in Prefix, NEW q \in Prefix, NEW i \in 0..W, Trie4!Contains(p, q), i < p.len
        PROVE  Trie4!Bit(p, i) = Trie4!Bit(q, i)
    <3>1. BitOf(p.net, i) = BitOf(q.net, i)
      BY <1>1, <2>1, HasBits
    <3>2. Trie4!Bit(p, i) <=> Trie4!Bit(q, i)
      BY <1>4, <3>1
    <3> QED BY <1>4a, <3>2
  <2> QED BY <1>4a, <2>1 DEF TP4!Bits
<1>9. TP4!Partings
  <2>1. ASSUME NEW p \in Prefix, NEW q \in Prefix
        PROVE  /\ TP4!DiffBit(p, q) \in Int
               /\ TP4!DiffBit(p, q) < 0 => Trie4!Contains(p, q) \/ Trie4!Contains(q, p)
               /\ TP4!DiffBit(p, q) >= 0 => TP4!Parts(p, q, TP4!DiffBit(p, q))
    <3> DEFINE d == TP4!DiffBit(p, q)
    <3>1. PartAt(p, q, d)
      BY DiffBit4Is
    <3> HIDE DEF d
    <3>2. /\ d \in Int
          /\ d < 0 => Has(p, q) \/ Has(q, p)
          /\ d >= 0 => /\ d \in 0..W /\ d < p.len /\ d < q.len
                       /\ BitOf(p.net, d) # BitOf(q.net, d)
                       /\ New(p.net, d) \in Prefix /\ New(p.net, d).len = d
                       /\ Has(New(p.net, d), p) /\ Has(New(p.net, d), q)
      BY <3>1, PartAtIs
    <3>3. d >= 0 => TP4!Parts(p, q, d)
      <4> SUFFICES ASSUME d >= 0 PROVE TP4!Parts(p, q, d)
        OBVIOUS
      <4>1. BitOf(p.net, d) \in 0..1 /\ BitOf(q.net, d) \in 0..1
        <5>1. d \in 0..(W - 1) /\ d + 1 \in 0..W
          BY <1>0, <3>2
        <5>2. Leading(p.net, d + 1) \in Nat /\ Leading(q.net, d + 1) \in Nat
          BY <1>0, <5>1, UnitIs, AddressIs, DivFacts, Zenon DEF Leading
        <5> QED BY <1>0, <5>1, <5>2, LeadingStep
      <4>2. Trie4!Bit(p, d) # Trie4!Bit(q, d)
        BY <1>4, <3>2, <4>1
      <4>3. Trie4!Contains(New(p.net, d), p) /\ Trie4!Contains(New(p.net, d), q)
        BY <1>1, <3>2
      <4> QED BY <1>2, <3>2, <4>2, <4>3 DEF TP4!Parts
    <3>4. d < 0 => Trie4!Contains(p, q) \/ Trie4!Contains(q, p)
      BY <1>1, <3>2
    <3> QED BY <3>2, <3>3, <3>4 DEF d
  <2> QED BY <2>1 DEF TP4!Partings
<1>10. TP4!Sorting
  <2>1. ASSUME NEW n \in Prefix, NEW p \in Prefix, NEW q \in Prefix,
               Trie4!Contains(n, p), n.len < p.len, ~Trie4!Bit(p, n.len),
               Trie4!Contains(n, q), n.len < q.len, Trie4!Bit(q, n.len)
        PROVE  Less(p, q)
    <3>1. Has(n, p) /\ Has(n, q) /\ BitOf(p.net, n.len) # 1 /\ BitOf(q.net, n.len) = 1
      BY <1>1, <1>4, <2>1
    <3> QED BY <2>1, <3>1, HasSorting
  <2> QED BY <1>1, <1>3, <2>1, HasSorting DEF TP4!Sorting
<1> QED BY <1>5, <1>6, <1>7, <1>8, <1>9, <1>10 DEF TP4!Laws

\* The trie that TrieProofs speaks of is that of Ipv4PrefixPatricia.
LEMMA SameParts4 ==
  /\ TP4!Nil = Trie4!T!Nil /\ TP4!Empty = Trie4!T!Empty /\ TP4!NoValue = 0
  /\ \A t : TP4!Entry(t) = Trie4!T!Entry(t) /\ TP4!Places(t) = Trie4!T!Places(t) /\ TP4!Copied(t) = Trie4!T!Copied(t)
  /\ \A t, n : TP4!Kids(t, n) = Trie4!T!Kids(t, n)
  /\ \A t, p, u : TP4!Alloc(t, p, u) = Trie4!T!Alloc(t, p, u)
  /\ \A t, p : TP4!Delete(t, p) = Trie4!T!Delete(t, p)
  /\ \A t, p, v : TP4!SetValue(t, p, v) = Trie4!T!SetValue(t, p, v)
  /\ \A t, p : TP4!DropValue(t, p) = Trie4!T!DropValue(t, p)
  /\ \A t, n, b, k : TP4!Link(t, n, b, k) = Trie4!T!Link(t, n, b, k)
  /\ \A t, n, b, k : TP4!SetKid(t, n, b, k) = Trie4!T!SetKid(t, n, b, k)
  /\ \A t, n : TP4!Inserted(t, n) = Trie4!T!Inserted(t, n)
  /\ \A t, u, p : TP4!Place(t, u, p) = Trie4!T!Place(t, u, p)
  /\ \A n, p : TP4!DiffBit(n, p) = Trie4!T!DiffBit(n, p)
<1>1. TP4!Nil = Trie4!T!Nil /\ TP4!Empty = Trie4!T!Empty /\ TP4!NoValue = 0
  BY DEF TP4!Nil, Trie4!T!Nil, TP4!Empty, Trie4!T!Empty, TP4!NoValue
<1>2. \A t : TP4!Entry(t) = Trie4!T!Entry(t) /\ TP4!Places(t) = Trie4!T!Places(t) /\ TP4!Copied(t) = Trie4!T!Copied(t)
  BY DEF TP4!Entry, Trie4!T!Entry, TP4!Places, Trie4!T!Places, TP4!Nil, Trie4!T!Nil, TP4!Copied, Trie4!T!Copied
<1>3. \A t, n : TP4!Kids(t, n) = Trie4!T!Kids(t, n)
  BY DEF TP4!Kids, Trie4!T!Kids, TP4!Nil, Trie4!T!Nil
<1>4. \A t, p, u : TP4!Alloc(t, p, u) = Trie4!T!Alloc(t, p, u)
  BY DEF TP4!Alloc, Trie4!T!Alloc, TP4!Bound, Trie4!T!Bound, TP4!NoKids, Trie4!T!NoKids, TP4!Nil, Trie4!T!Nil
<1>5. \A t, p : TP4!Delete(t, p) = Trie4!T!Delete(t, p)
  BY DEF TP4!Delete, Trie4!T!Delete, TP4!Without, Trie4!T!Without
<1>6. \A t, p, v : TP4!SetValue(t, p, v) = Trie4!T!SetValue(t, p, v)
  BY DEF TP4!SetValue, Trie4!T!SetValue, TP4!Bound, Trie4!T!Bound
<1>7. \A t, p : TP4!DropValue(t, p) = Trie4!T!DropValue(t, p)
  BY DEF TP4!DropValue, Trie4!T!DropValue, TP4!Without, Trie4!T!Without
<1>8. \A t, n, b, k : TP4!Link(t, n, b, k) = Trie4!T!Link(t, n, b, k)
  BY DEF TP4!Link, Trie4!T!Link
<1>9. \A t, n, b, k : TP4!SetKid(t, n, b, k) = Trie4!T!SetKid(t, n, b, k)
  BY DEF TP4!SetKid, Trie4!T!SetKid, TP4!Link, Trie4!T!Link, TP4!Nil, Trie4!T!Nil
<1>10. \A t, n : TP4!Inserted(t, n) = Trie4!T!Inserted(t, n)
  BY DEF TP4!Inserted, Trie4!T!Inserted
<1>11. \A t, u, p : TP4!Place(t, u, p) = Trie4!T!Place(t, u, p)
  BY DEF TP4!Place, Trie4!T!Place, TP4!Nil, Trie4!T!Nil
<1>12. \A n, p : TP4!DiffBit(n, p) = Trie4!T!DiffBit(n, p)
  BY DEF TP4!DiffBit, Trie4!T!DiffBit
<1> QED BY <1>1, <1>2, <1>3, <1>4, <1>5, <1>6, <1>7, <1>8, <1>9, <1>10, <1>11, <1>12

LEMMA SameInsert4 ==
  ASSUME NEW t, NEW p, NEW v
  PROVE  TP4!insert(t, p, v) = Trie4!T!insert(t, p, v)
<1>1. \A s, u : TP4!AddLeaf(s, p, v, u) = Trie4!T!AddLeaf(s, p, v, u)
  BY SameParts4 DEF TP4!AddLeaf, Trie4!T!AddLeaf
<1>2. \A s, n : TP4!AddHere(s, n, v) = Trie4!T!AddHere(s, n, v)
  BY SameParts4 DEF TP4!AddHere, Trie4!T!AddHere
<1>3. \A s, n, u : TP4!AddAbove(s, n, p, v, u) = Trie4!T!AddAbove(s, n, p, v, u)
  BY SameParts4 DEF TP4!AddAbove, Trie4!T!AddAbove
<1>4. \A s, n, u, d : TP4!AddBeside(s, n, p, v, u, d) = Trie4!T!AddBeside(s, n, p, v, u, d)
  BY SameParts4 DEF TP4!AddBeside, Trie4!T!AddBeside
<1>5. \A n, u : TP4!AddAt(t, n, p, v, u) = Trie4!T!AddAt(t, n, p, v, u)
  BY <1>1, <1>2, <1>3, <1>4, SameParts4 DEF TP4!AddAt, Trie4!T!AddAt
<1>6. \A n : TP4!GoesOn(n, p) <=> Trie4!T!GoesOn(n, p)
  BY SameParts4 DEF TP4!GoesOn, Trie4!T!GoesOn
<1>7. TP4!addNode(t, p, v) = Trie4!T!addNode(t, p, v)
  <2> DEFINE step(add, u) ==
               LET n == Trie4!T!Place(t, u, p)
               IN  IF Trie4!T!GoesOn(n, p)
                   THEN LET below == add[n]
                        IN  [t |-> Trie4!T!Link(below.t, n, Trie4!Bit(p, n.len), below.node),
                             node |-> n, inserted |-> below.inserted]
                   ELSE Trie4!T!AddAt(t, n, p, v, u)
             is(add) == add = [u \in Trie4!T!Places(t) |-> step(add, u)]
  <2>1. \A add, u : TP4!AddStep(t, p, v, add, u) = step(add, u)
    BY <1>5, <1>6, SameParts4 DEF TP4!AddStep
  <2>2. TP4!addNode(t, p, v) = (CHOOSE add : TP4!IsAdd(t, p, v, add))[TP4!Nil]
    BY DEF TP4!addNode, TP4!IsAdd, TP4!AddStep
  <2>3. Trie4!T!addNode(t, p, v) = (CHOOSE add : is(add))[Trie4!T!Nil]
    BY DEF Trie4!T!addNode
  <2> HIDE DEF step
  <2>4. \A add : TP4!IsAdd(t, p, v, add) <=> is(add)
    BY <2>1, SameParts4 DEF TP4!IsAdd
  <2> HIDE DEF is
  <2> QED BY <2>2, <2>3, <2>4, SameParts4, Zenon
<1> QED BY <1>7 DEF TP4!insert, Trie4!T!insert

LEMMA SameRemove4 ==
  ASSUME NEW t, NEW p
  PROVE  TP4!Remove(t, p) = Trie4!T!Remove(t, p)
<1>1. \A s, n : TP4!Collapse(s, n) = Trie4!T!Collapse(s, n)
  BY SameParts4, Zenon DEF TP4!Collapse, Trie4!T!Collapse
<1> DEFINE step(remove, n) ==
             CASE n = Trie4!T!Nil -> [t |-> t, node |-> Trie4!T!Nil, removed |-> FALSE]
               [] n # Trie4!T!Nil /\ n = p /\ n \in Trie4!T!Entry(t) ->
                      LET c == Trie4!T!Collapse(Trie4!T!DropValue(t, n), n)
                      IN  [t |-> c.t, node |-> c.node, removed |-> TRUE]
               [] n # Trie4!T!Nil /\ ~(n = p /\ n \in Trie4!T!Entry(t)) /\ p.len <= n.len ->
                      [t |-> t, node |-> n, removed |-> FALSE]
               [] OTHER ->
                      LET b == Trie4!Bit(p, n.len)
                          kid == t.kids[n][b]
                          goesOn == kid # Trie4!T!Nil /\ Trie4!Contains(kid, p)
                          below == IF goesOn THEN remove[kid]
                                   ELSE [t |-> t, node |-> kid, removed |-> FALSE]
                          linked == IF goesOn THEN Trie4!T!SetKid(below.t, n, b, below.node) ELSE t
                          c == IF below.removed /\ n \notin Trie4!T!Entry(linked) THEN Trie4!T!Collapse(linked, n)
                               ELSE [t |-> linked, node |-> n]
                      IN  [t |-> c.t, node |-> c.node, removed |-> below.removed]
           is(remove) == remove = [n \in Trie4!T!Places(t) |-> step(remove, n)]
<1>2. ASSUME NEW remove, NEW n PROVE TP4!RemoveStep(t, p, remove, n) = step(remove, n)
  <2>1. CASE n = Trie4!T!Nil
    BY <2>1, SameParts4 DEF TP4!RemoveStep
  <2>2. CASE n # Trie4!T!Nil /\ n = p /\ n \in Trie4!T!Entry(t)
    BY <1>1, <2>2, SameParts4, Zenon DEF TP4!RemoveStep
  <2>3. CASE n # Trie4!T!Nil /\ ~(n = p /\ n \in Trie4!T!Entry(t)) /\ p.len <= n.len
    BY <2>3, SameParts4 DEF TP4!RemoveStep
  <2>4. CASE n # Trie4!T!Nil /\ ~(n = p /\ n \in Trie4!T!Entry(t)) /\ ~(p.len <= n.len)
    <3> DEFINE b == Trie4!Bit(p, n.len)
               kid == t.kids[n][b]
    <3>1. CASE kid # Trie4!T!Nil /\ Trie4!Contains(kid, p)
      BY <1>1, <2>4, <3>1, SameParts4, Zenon DEF TP4!RemoveStep
    <3>2. CASE ~(kid # Trie4!T!Nil /\ Trie4!Contains(kid, p))
      BY <1>1, <2>4, <3>2, SameParts4, Zenon DEF TP4!RemoveStep
    <3> QED BY <3>1, <3>2, Zenon
  <2> QED BY <2>1, <2>2, <2>3, <2>4, Zenon
<1>3. TP4!removeNode(t, t.root, p) = (CHOOSE remove : TP4!IsRemove(t, p, remove))[t.root]
  BY DEF TP4!removeNode, TP4!IsRemove, TP4!RemoveStep
<1>4. Trie4!T!removeNode(t, t.root, p) = (CHOOSE remove : is(remove))[t.root]
  BY DEF Trie4!T!removeNode
<1> HIDE DEF step
<1>5. \A remove : TP4!IsRemove(t, p, remove) <=> is(remove)
  BY <1>2, SameParts4 DEF TP4!IsRemove
<1> HIDE DEF is
<1>6. TP4!removeNode(t, t.root, p) = Trie4!T!removeNode(t, t.root, p)
  BY <1>3, <1>4, <1>5, Zenon
<1> QED BY <1>6, SameParts4 DEF TP4!Remove, Trie4!T!Remove

LEMMA SameFind4 ==
  ASSUME NEW t, NEW p
  PROVE  /\ TP4!find_matches(t, p) = Trie4!T!find_matches(t, p)
         /\ TP4!find_longest(t, p) = Trie4!T!find_longest(t, p)
         /\ TP4!find_wider(t, p) = Trie4!T!find_wider(t, p)
         /\ TP4!find(t, p) = Trie4!T!find(t, p)
<1>1. \A S : TP4!Path(t, p, S) = Trie4!T!Path(t, p, S)
  BY DEF TP4!Path, Trie4!T!Path, TP4!Places, Trie4!T!Places, TP4!Nil, Trie4!T!Nil
<1>2. TP4!find_matches(t, p) = Trie4!T!find_matches(t, p) /\ TP4!find_wider(t, p) = Trie4!T!find_wider(t, p)
  BY <1>1, SameParts4 DEF TP4!find_matches, Trie4!T!find_matches, TP4!find_wider, Trie4!T!find_wider
<1>3. TP4!find_longest(t, p) = Trie4!T!find_longest(t, p)
  BY <1>2, SameParts4 DEF TP4!find_longest, Trie4!T!find_longest, TP4!LastOf, Trie4!T!LastOf
<1> QED BY <1>2, <1>3, SameParts4 DEF TP4!find, Trie4!T!find

LEMMA SameWalks4 ==
  ASSUME NEW t
  PROVE  /\ \A n : TP4!Successor(t, n) = Trie4!T!Successor(t, n)
         /\ TP4!Entries(t) = Trie4!T!Entries(t)
         /\ TP4!ReverseEntries(t) = Trie4!T!ReverseEntries(t)
         /\ TP4!Iterable(t) <=> Trie4!T!Iterable(t)
<1>1. \A n : TP4!First(t, n) = Trie4!T!First(t, n)
  BY DEF TP4!First, Trie4!T!First, TP4!Places, Trie4!T!Places, TP4!Nil, Trie4!T!Nil, TP4!Entry, Trie4!T!Entry
<1>2. \A n : TP4!LastNode(t, n) = Trie4!T!LastNode(t, n)
  BY DEF TP4!LastNode, Trie4!T!LastNode, TP4!Places, Trie4!T!Places, TP4!Nil, Trie4!T!Nil, TP4!Entry, Trie4!T!Entry
<1>3. \A n : TP4!FirstAfter(t, n) = Trie4!T!FirstAfter(t, n)
  BY DEF TP4!FirstAfter, Trie4!T!FirstAfter, TP4!First, Trie4!T!First, TP4!Places, Trie4!T!Places, TP4!Nil, Trie4!T!Nil, TP4!Entry, Trie4!T!Entry
<1>4. \A n : TP4!Successor(t, n) = Trie4!T!Successor(t, n)
  <2> TAKE n
  <2> DEFINE left == TP4!First(t, t.kids[n][FALSE])
             right == TP4!First(t, t.kids[n][TRUE])
             after == TP4!FirstAfter(t, n)
             nil == TP4!Nil
  <2>1. TP4!Successor(t, n) = CASE left # nil -> left [] left = nil /\ right # nil -> right [] OTHER -> after
    BY DEF TP4!Successor
  <2>2. /\ left = Trie4!T!First(t, t.kids[n][FALSE]) /\ right = Trie4!T!First(t, t.kids[n][TRUE])
        /\ after = Trie4!T!FirstAfter(t, n) /\ nil = Trie4!T!Nil
    BY <1>1, <1>3, SameParts4, Zenon
  <2> HIDE DEF left, right, after, nil
  <2>3. Trie4!T!Successor(t, n) = CASE left # nil -> left [] left = nil /\ right # nil -> right [] OTHER -> after
    BY <2>2 DEF Trie4!T!Successor
  <2> QED BY <2>1, <2>3
<1>5. \A n : TP4!Predecessor(t, n) = Trie4!T!Predecessor(t, n)
  BY DEF TP4!Predecessor, Trie4!T!Predecessor, TP4!LastNode, Trie4!T!LastNode, TP4!Places, Trie4!T!Places, TP4!Nil, Trie4!T!Nil, TP4!Entry, Trie4!T!Entry
<1>6. TP4!Iterable(t) <=> Trie4!T!Iterable(t)
  BY SameParts4 DEF TP4!Iterable, Trie4!T!Iterable
<1>7. TP4!Entries(t) = Trie4!T!Entries(t)
  <2> DEFINE is(f) == f = [n \in Trie4!T!Places(t) |-> IF n = Trie4!T!Nil THEN <<>> ELSE <<n>> \o f[Trie4!T!Successor(t, n)]]
             was(f) == f = [n \in TP4!Places(t) |-> IF n = TP4!Nil THEN <<>> ELSE <<n>> \o f[TP4!Successor(t, n)]]
  <2>1. TP4!Entries(t) = (CHOOSE f : was(f))[TP4!First(t, t.root)]
    BY DEF TP4!Entries
  <2>2. Trie4!T!Entries(t) = (CHOOSE f : is(f))[Trie4!T!First(t, t.root)]
    BY DEF Trie4!T!Entries
  <2>3. \A f : was(f) <=> is(f)
    BY <1>4, SameParts4
  <2> HIDE DEF is, was
  <2> QED BY <1>1, <2>1, <2>2, <2>3, Zenon
<1>8. TP4!ReverseEntries(t) = Trie4!T!ReverseEntries(t)
  <2> DEFINE is(f) == f = [n \in Trie4!T!Places(t) |-> IF n = Trie4!T!Nil THEN <<>> ELSE <<n>> \o f[Trie4!T!Predecessor(t, n)]]
             was(f) == f = [n \in TP4!Places(t) |-> IF n = TP4!Nil THEN <<>> ELSE <<n>> \o f[TP4!Predecessor(t, n)]]
  <2>1. TP4!ReverseEntries(t) = (CHOOSE f : was(f))[TP4!LastNode(t, t.root)]
    BY DEF TP4!ReverseEntries
  <2>2. Trie4!T!ReverseEntries(t) = (CHOOSE f : is(f))[Trie4!T!LastNode(t, t.root)]
    BY DEF Trie4!T!ReverseEntries
  <2>3. \A f : was(f) <=> is(f)
    BY <1>5, SameParts4
  <2> HIDE DEF is, was
  <2> QED BY <1>2, <2>1, <2>2, <2>3, Zenon
<1> QED BY <1>4, <1>6, <1>7, <1>8

LEMMA SameReread4 ==
  ASSUME NEW t, NEW k
  PROVE  TP4!Reread(TP4!Written(t), k) = Trie4!T!Reread(Trie4!T!Written(t), k)
<1>1. \A s, p, v : TP4!insert(s, p, v) = Trie4!T!insert(s, p, v)
  BY SameInsert4
<1>2. ASSUME NEW es PROVE TP4!InsertAll(es) = Trie4!T!InsertAll(es)
  <2> DEFINE is(f) == f = [i \in 0..Len(es) |-> IF i = 0 THEN Trie4!T!Empty ELSE Trie4!T!insert(f[i - 1], es[i][1], es[i][2]).t]
             was(f) == f = [i \in 0..Len(es) |-> IF i = 0 THEN TP4!Empty ELSE TP4!insert(f[i - 1], es[i][1], es[i][2]).t]
  <2>1. TP4!InsertAll(es) = (CHOOSE f : was(f))[Len(es)]
    BY DEF TP4!InsertAll
  <2>2. Trie4!T!InsertAll(es) = (CHOOSE f : is(f))[Len(es)]
    BY DEF Trie4!T!InsertAll
  <2>3. \A f : was(f) <=> is(f)
    BY <1>1, SameParts4
  <2> HIDE DEF is, was
  <2> QED BY <2>1, <2>2, <2>3, Zenon
<1>3. TP4!Written(t) = Trie4!T!Written(t)
  BY SameWalks4 DEF TP4!Written, Trie4!T!Written
<1> DEFINE w == TP4!Written(t)
<1>4. w = Trie4!T!Written(t)
  BY <1>3
<1> HIDE DEF w
<1>5. TP4!Reread(w, k) = Trie4!T!Reread(w, k)
  BY <1>2 DEF TP4!Reread, Trie4!T!Reread
<1> QED BY <1>4, <1>5 DEF w

LEMMA SameExact4 ==
  ASSUME NEW t
  PROVE  /\ TP4!Intact(t) <=> Trie4!T!Intact(t)
         /\ \A s, r : TP4!VisitsExact(t, s, r) <=> Trie4!T!VisitsExact(t, s, r)
         /\ \A p, m, l, i : TP4!AnswersExact(t, p, m, l, i) <=> Trie4!T!AnswersExact(t, p, m, l, i)
<1>1. TP4!Intact(t) <=> Trie4!T!Intact(t)
  BY DEF TP4!Intact, Trie4!T!Intact, TP4!Entry, Trie4!T!Entry, TP4!Kids, Trie4!T!Kids, TP4!Nil, Trie4!T!Nil,
         TP4!Cardinality, Trie4!T!Cardinality
<1>2. \A s, r : TP4!VisitsExact(t, s, r) <=> Trie4!T!VisitsExact(t, s, r)
  BY DEF TP4!VisitsExact, Trie4!T!VisitsExact, TP4!Entry, Trie4!T!Entry
<1>3. \A p, m, l, i : TP4!AnswersExact(t, p, m, l, i) <=> Trie4!T!AnswersExact(t, p, m, l, i)
  BY DEF TP4!AnswersExact, Trie4!T!AnswersExact, TP4!Entry, Trie4!T!Entry, TP4!Nil, Trie4!T!Nil,
         TP4!Cardinality, Trie4!T!Cardinality
<1> QED BY <1>1, <1>2, <1>3

-----------------------------------------------------------------------------
(* Aggregate() of Ipv4PrefixPatricia.                                      *)

LEMMA Found4 ==
  ASSUME NEW t, TP4!Good(t), NEW p \in Prefix
  PROVE  TP4!find(t, p) = IF p \in DOMAIN t.val THEN p ELSE TP4!Nil
<1>1. TP4!AnswersExact(t, p, TP4!find_matches(t, p), TP4!find_longest(t, p), TP4!find(t, p))
  BY Laws4, TP4!AnswersAreExact
<1> QED BY <1>1 DEF TP4!AnswersExact, TP4!Entry

LEMMA CombineAtIs ==
  ASSUME NEW t, TP4!Good(t), NEW qs \in Seq(Prefix), NEW i \in Nat \ {0}, Trie4!CombineAt(t, qs, i) # qs
  PROVE  /\ i \in 1..(Len(qs) - 1) /\ qs[i] \in Prefix /\ qs[i + 1] \in Prefix
         /\ qs[i].len = qs[i + 1].len
         /\ \E w \in Prefix :
               /\ Trie4!CombineAt(t, qs, i) = Joined(qs, i, w)
               /\ qs[i].len > 0 => /\ BitOf(qs[i].net, qs[i].len - 1) # 1
                                   /\ w = New(qs[i].net, qs[i].len - 1)
                                   /\ Has(w, qs[i + 1]) /\ w \notin DOMAIN t.val
<1> DEFINE p == qs[i]
           q == qs[i + 1]
           w == Trie4!Cut(p, (p.len - 1) % 256)
           halves == /\ p.len > 0 => ~Trie4!Bit(p, p.len - 1)
                     /\ p.len = q.len
                     /\ Trie4!Contains(w, q)
<1>1. Trie4!CombineAt(t, qs, i) =
        IF i < Len(qs) /\ halves /\ Trie4!T!find(t, w) = Trie4!T!Nil THEN Joined(qs, i, w) ELSE qs
  BY DEF Trie4!CombineAt, Joined
<1>2. i < Len(qs) /\ halves /\ Trie4!T!find(t, w) = Trie4!T!Nil
  <2> HIDE DEF p, q, w, halves
  <2> QED BY <1>1
<1>3. i \in 1..(Len(qs) - 1) /\ p \in Prefix /\ q \in Prefix
  <2>1. Len(qs) \in Nat
    OBVIOUS
  <2>2. i \in 1..(Len(qs) - 1) /\ i \in 1..Len(qs) /\ i + 1 \in 1..Len(qs)
    BY <1>2, <2>1
  <2> QED BY <2>2
<1>4. Trie4!CombineAt(t, qs, i) = Joined(qs, i, w)
  <2> HIDE DEF p, q, w, halves
  <2> QED BY <1>1, <1>2
<1> HIDE DEF p, q
<1>5. p.len = q.len /\ Trie4!Contains(w, q) /\ (p.len > 0 => ~Trie4!Bit(p, p.len - 1))
  BY <1>2
<1>6. p.len \in 0..W /\ q.len \in 0..W /\ W \in 1..254 /\ p.net \in Address
  BY <1>3, PrefixIs, WAssumption
<1>7. CASE p.len > 0
  <2> DEFINE l == p.len - 1
  <2>0. l \in 0..255 /\ l < p.len /\ l \in 0..W
    <3> DEFINE n == p.len
    <3>1. n \in 0..W /\ W \in 1..254 /\ n > 0
      BY <1>6, <1>7
    <3> HIDE DEF n
    <3>2. n - 1 \in 0..255 /\ n - 1 < n /\ n - 1 \in 0..W
      BY <3>1
    <3> QED BY <3>2 DEF n
  <2>1. l % 256 = l /\ l < p.len /\ l \in 0..W
    <3> HIDE DEF l
    <3> QED BY <2>0, ByteIs
  <2>2. w = Trie4!New(p.net, l)
    <3>1. w = Trie4!Cut(p, l)
      BY <2>1
    <3> HIDE DEF w, l
    <3> QED BY <2>1, <3>1 DEF Trie4!Cut
  <2>3. w = New(p.net, l)
    BY <2>2 DEF Trie4!New, Trie4!Masked, New, Masked
  <2>4. w \in Prefix
    BY <1>6, <2>1, <2>3, NewIs
  <2> HIDE DEF w
  <2>5. Has(w, q)
    BY <1>3, <1>5, <2>4, Contains4Is
  <2>6. w \notin DOMAIN t.val
    <3>1. Trie4!T!find(t, w) = TP4!find(t, w) /\ Trie4!T!Nil = TP4!Nil /\ TP4!Nil \notin Prefix
      BY Laws4, SameFind4, SameParts4, TP4!NilIsNone
    <3> QED BY <1>2, <2>4, <3>1, Found4, Zenon
  <2>7. BitOf(p.net, l) # 1
    BY <1>5, <1>7 DEF Trie4!Bit, BitOf
  <2> QED BY <1>3, <1>4, <1>5, <2>3, <2>4, <2>5, <2>6, <2>7 DEF p, q
<1>8. CASE ~(p.len > 0)
  <2>1. p.len = 0 /\ q.len = 0 /\ (p.len - 1) % 256 = 255
    <3> DEFINE n == p.len
               l == n - 1
    <3>1. n = 0 /\ q.len = 0
      BY <1>5, <1>6, <1>8
    <3> HIDE DEF n
    <3>2. l \in Int /\ l = -1
      BY <3>1
    <3> HIDE DEF l
    <3>3. l % 256 = 255
      BY <3>2, ByteIs, Zenon
    <3> QED BY <3>1, <3>3 DEF l, n
  <2>2. w = p
    BY <1>6, <2>1 DEF Trie4!Cut
  <2> QED BY <1>3, <1>4, <1>5, <1>8, <2>2 DEF p, q
<1> QED BY <1>7, <1>8

\* Two halves next to each other give way to their whole.
LEMMA CombineAtKeeps ==
  ASSUME NEW t, TP4!Good(t), NEW v, NEW qs, Combined(t.val, v, qs), NEW i \in Nat \ {0},
         NEW rs, rs = Trie4!CombineAt(t, qs, i)
  PROVE  Combined(t.val, v, rs) /\ (rs # qs => Len(rs) < Len(qs))
<1> DEFINE f == t.val
           E == DOMAIN f
<1>0. W \in Nat /\ E \subseteq Prefix /\ qs \in Seq(Prefix) /\ Len(qs) \in Nat /\ DOMAIN qs = 1..Len(qs)
  <2>1. E \subseteq Prefix
    BY DEF TP4!Good, TP4!Shape, TP4!Counted
  <2> QED BY <2>1, WAssumption DEF Combined
<1> HIDE DEF f, E
<1>1. SUFFICES ASSUME rs # qs PROVE Combined(f, v, rs) /\ Len(rs) < Len(qs)
  BY DEF f
<1> DEFINE p == qs[i]
           q == qs[i + 1]
<1>2. PICK w \in Prefix :
         /\ i \in 1..(Len(qs) - 1) /\ p \in Prefix /\ q \in Prefix /\ p.len = q.len
         /\ rs = Joined(qs, i, w)
         /\ p.len > 0 => /\ BitOf(p.net, p.len - 1) # 1
                         /\ w = New(p.net, p.len - 1)
                         /\ Has(w, q) /\ w \notin E
  BY <1>0, <1>1, CombineAtIs DEF f, E
<1>3. i \in DOMAIN qs /\ i + 1 \in DOMAIN qs /\ i # i + 1
  BY <1>0, <1>2
<1>4. Solid(f, p, v) /\ Solid(f, q, v)
  BY <1>3 DEF Combined, f
<1> HIDE DEF p, q
<1>5. p # q
  <2> SUFFICES ASSUME p = q PROVE FALSE
    OBVIOUS
  <2>1. PICK h \in Prefix : h.len = W /\ Has(p, h)
    BY <1>2, HostIn
  <2>2. PICK e \in E : Tops(E, p, e)
    BY <1>4, <2>1 DEF Solid, E
  <2>3. Tops(E, qs[i], e) /\ Tops(E, qs[i + 1], e)
    BY <2>2 DEF p, q
  <2> QED BY <1>3, <2>3 DEF Combined, f, E
<1>6. p.len > 0
  <2> SUFFICES ASSUME ~(p.len > 0) PROVE FALSE
    OBVIOUS
  <2>1. p.len = 0 /\ q.len = 0 /\ p.net \in Address /\ q.net \in Address /\ 0 \in 0..W
    BY <1>0, <1>2, PrefixIs
  <2>2. \A a \in Address : Leading(a, 0) = 0
    BY <2>1, AddressIs, UnitIs, DivZero, Zenon DEF Leading
  <2>3. Has(p, q)
    BY <1>2, <2>1, <2>2, HasIs
  <2> QED BY <1>2, <1>5, <2>3, HasOrder
<1>7. BitOf(p.net, p.len - 1) # 1 /\ w = New(p.net, p.len - 1) /\ Has(w, q) /\ w \notin E
  BY <1>2, <1>6
<1>8. \A e : Tops(E, w, e) <=> Tops(E, p, e) \/ Tops(E, q, e)
  BY <1>0, <1>2, <1>5, <1>6, <1>7, TopsWhole
<1>9. Solid(f, w, v)
  <2> SUFFICES ASSUME NEW h \in Prefix, h.len = W, Has(w, h)
               PROVE  \E e \in E : f[e] = v /\ Tops(E, w, e) /\ Has(e, h)
    BY DEF Solid, E
  <2>1. w.len = p.len - 1 /\ \A x \in Prefix : Has(w, x) /\ x # w => Has(p, x) \/ Has(q, x)
    BY <1>2, <1>5, <1>6, <1>7, HalvesAre
  <2>2. w # h
    <3>1. p.len \in 0..W
      BY <1>2, PrefixIs
    <3> QED BY <1>0, <2>1, <3>1
  <2>3. PICK x \in {p, q} : Has(x, h)
    BY <2>1, <2>2
  <2>4. Solid(f, x, v)
    BY <1>4
  <2>5. PICK e \in E : f[e] = v /\ Tops(E, x, e) /\ Has(e, h)
    BY <2>3, <2>4 DEF Solid, E
  <2> QED BY <1>8, <2>5
<1> DEFINE n == Len(qs) - 1
           at(j) == IF j < i THEN qs[j] ELSE IF j = i THEN w ELSE qs[j + 1]
<1>10. /\ rs \in Seq(Prefix) /\ Len(rs) = n /\ DOMAIN rs = 1..n
       /\ \A j \in 1..n : rs[j] = at(j)
  <2>1. qs \in Seq(Prefix) /\ i \in 1..(Len(qs) - 1) /\ w \in Prefix
    BY <1>0, <1>2
  <2>2. rs = Joined(qs, i, w)
    BY <1>2
  <2> HIDE DEF n, at
  <2>3. IsJoined(rs, qs, i, w)
    BY ONLY <2>1, <2>2, JoinedIs
  <2> QED BY <2>3 DEF IsJoined, n, at
<1>11. i \in 1..n /\ n \in Nat /\ Len(qs) = n + 1 /\ n < Len(qs)
  BY <1>0, <1>2
<1>12. \A j \in 1..n : (j < i => rs[j] = qs[j]) /\ (j = i => rs[j] = w) /\ (j > i => rs[j] = qs[j + 1])
  BY <1>10, <1>11
<1> HIDE DEF n, at
<1>13. \A j \in 1..n : Solid(f, rs[j], v)
  <2> TAKE j \in 1..n
  <2>1. j \in DOMAIN qs /\ j + 1 \in DOMAIN qs
    BY <1>0, <1>11
  <2>2. \A k \in DOMAIN qs : Solid(f, qs[k], v)
    BY DEF Combined, f
  <2>3. j < i \/ j = i \/ j > i
    BY <1>11
  <2> QED BY <1>9, <1>12, <2>1, <2>2, <2>3
<1>14. ASSUME NEW e \in E, f[e] = v
       PROVE  \E j \in 1..n : Tops(E, rs[j], e)
  <2>1. PICK k \in 1..(n + 1) : Tops(E, qs[k], e)
    BY <1>0, <1>11, <1>14 DEF Combined, f, E
  <2>2. CASE k < i
    BY <1>11, <1>12, <2>1, <2>2
  <2>3. CASE k = i \/ k = i + 1
    <3>1. Tops(E, w, e)
      BY <1>8, <2>1, <2>3 DEF p, q
    <3> QED BY <1>11, <1>12, <3>1
  <2>4. CASE k > i + 1
    <3>1. k - 1 \in 1..n /\ k - 1 > i /\ k - 1 + 1 = k
      BY <1>11, <2>4
    <3>2. rs[k - 1] = qs[k]
      BY <1>12, <3>1
    <3> QED BY <2>1, <3>1, <3>2
  <2> QED BY <1>11, <2>2, <2>3, <2>4
<1>15. ASSUME NEW e \in E, NEW j \in 1..n, Tops(E, rs[j], e)
       PROVE  \E k \in 1..(n + 1) : /\ Tops(E, qs[k], e)
                                    /\ j < i => k = j
                                    /\ j = i => k = i \/ k = i + 1
                                    /\ j > i => k = j + 1
  <2>0. j \in 1..(n + 1) /\ j + 1 \in 1..(n + 1) /\ i \in 1..(n + 1) /\ i + 1 \in 1..(n + 1)
    BY <1>11
  <2>1. CASE j < i
    BY <1>11, <1>12, <1>15, <2>0, <2>1
  <2>2. CASE j = i
    <3>1. Tops(E, w, e)
      BY <1>12, <1>15, <2>2
    <3>2. Tops(E, qs[i], e) \/ Tops(E, qs[i + 1], e)
      BY <1>8, <3>1 DEF p, q
    <3> QED BY <1>11, <2>0, <2>2, <3>2
  <2>3. CASE j > i
    BY <1>11, <1>12, <1>15, <2>0, <2>3
  <2> QED BY <1>11, <2>1, <2>2, <2>3
<1>16. ASSUME NEW e \in E, NEW j \in 1..n, NEW l \in 1..n, Tops(E, rs[j], e), Tops(E, rs[l], e)
       PROVE  j = l
  <2>1. PICK k \in 1..(n + 1) : /\ Tops(E, qs[k], e)
                                /\ j < i => k = j
                                /\ j = i => k = i \/ k = i + 1
                                /\ j > i => k = j + 1
    BY <1>15, <1>16
  <2>2. PICK m \in 1..(n + 1) : /\ Tops(E, qs[m], e)
                                /\ l < i => m = l
                                /\ l = i => m = i \/ m = i + 1
                                /\ l > i => m = l + 1
    BY <1>15, <1>16
  <2>3. k = m
    BY <1>0, <1>11, <2>1, <2>2 DEF Combined, f, E
  <2> QED BY <1>11, <2>1, <2>2, <2>3
<1> QED BY <1>10, <1>11, <1>13, <1>14, <1>16 DEF Combined, E

LEMMA CombineAtType ==
  ASSUME NEW t, TP4!Good(t), NEW qs \in Seq(Prefix), NEW i \in Nat \ {0},
         NEW rs, rs = Trie4!CombineAt(t, qs, i)
  PROVE  rs \in Seq(Prefix) /\ (rs # qs => Len(rs) < Len(qs))
<1>1. SUFFICES ASSUME rs # qs PROVE rs \in Seq(Prefix) /\ Len(rs) < Len(qs)
  OBVIOUS
<1>2. PICK w \in Prefix : i \in 1..(Len(qs) - 1) /\ rs = Joined(qs, i, w)
  BY <1>1, CombineAtIs
<1>3. Joined(qs, i, w) \in Seq(Prefix) /\ Len(Joined(qs, i, w)) = Len(qs) - 1
  BY <1>2, JoinedIs, Zenon DEF IsJoined
<1>4. Len(qs) \in Nat
  OBVIOUS
<1> QED BY <1>2, <1>3, <1>4

LEMMA WalkExists ==
  ASSUME NEW t, TP4!Good(t), NEW ps \in Seq(Prefix)
  PROVE  \E f \in [0..Len(ps) -> Seq(Prefix)] : f = Walk(t, ps, f)
<1> DEFINE I == 0..Len(ps)
           V == Seq(Prefix)
           G == [f \in [I -> V] |-> Walk(t, ps, f)]
           rank == [i \in I |-> i]
<1>1. Len(ps) \in Nat
  OBVIOUS
<1>2. I \subseteq Nat /\ \A i \in I : i # 0 => i - 1 \in I /\ i - 1 < i /\ i \in Nat \ {0}
  BY <1>1
<1>3. ASSUME NEW f \in [I -> V] PROVE Walk(t, ps, f) \in [I -> V]
  <2>1. \A i \in I : (IF i = 0 THEN ps ELSE Trie4!CombineAt(t, f[i - 1], i)) \in V
    <3> TAKE i \in I
    <3>1. CASE i = 0
      BY <3>1
    <3>2. CASE i # 0
      <4>1. f[i - 1] \in V /\ i \in Nat \ {0}
        BY <1>2, <3>2
      <4>2. Trie4!CombineAt(t, f[i - 1], i) \in Seq(Prefix)
        BY <4>1, CombineAtType
      <4> QED BY <3>2, <4>2
    <3> QED BY <3>1, <3>2
  <2> QED BY <2>1 DEF Walk
<1>4. [I -> V] # {}
  <2>1. [i \in I |-> ps] \in [I -> V]
    OBVIOUS
  <2> QED BY <2>1, Zenon
<1>5. rank \in [I -> Nat] /\ \A i \in I : rank[i] = i
  BY <1>2
<1>6. ASSUME NEW f \in [I -> V], NEW g \in [I -> V], NEW i \in I, \A j \in I : rank[j] < rank[i] => f[j] = g[j]
      PROVE  Walk(t, ps, f)[i] = Walk(t, ps, g)[i]
  <2>1. CASE i = 0
    BY <2>1 DEF Walk
  <2>2. CASE i # 0
    <3>1. f[i - 1] = g[i - 1]
      <4> HIDE DEF rank
      <4> QED BY <1>2, <1>5, <1>6, <2>2
    <3> QED BY <3>1 DEF Walk
  <2> QED BY <2>1, <2>2
<1>7. G \in [[I -> V] -> [I -> V]] /\ \A f \in [I -> V] : G[f] = Walk(t, ps, f)
  BY <1>3
<1> HIDE DEF I, V, G, rank
<1>8. TP4!Recursion(I, V, G, rank)
  <2>1. ASSUME NEW f \in [I -> V], NEW g \in [I -> V], NEW i \in I, \A j \in I : rank[j] < rank[i] => f[j] = g[j]
        PROVE  G[f][i] = G[g][i]
    <3>1. Walk(t, ps, f)[i] = Walk(t, ps, g)[i]
      BY <1>6, <2>1
    <3> QED BY <1>7, <3>1
  <2> QED BY <1>4, <1>5, <1>7, <2>1, Zenon DEF TP4!Recursion
<1>9. PICK f \in [I -> V] : f = G[f]
  BY <1>8, TP4!FixedPoint
<1> QED BY <1>7, <1>9 DEF I, V

LEMMA CombineOnceIs ==
  ASSUME NEW t, TP4!Good(t), NEW ps \in Seq(Prefix), NEW rs, rs = Trie4!CombineOnce(t, ps)
  PROVE  /\ rs \in Seq(Prefix) /\ (rs # ps => Len(rs) < Len(ps))
         /\ \A v : Combined(t.val, v, ps) => Combined(t.val, v, rs)
<1> DEFINE n == Len(ps)
           f == CHOOSE g : g = Walk(t, ps, g)
           Fine(qs) == /\ qs \in Seq(Prefix) /\ (qs # ps => Len(qs) < Len(ps))
                       /\ \A v : Combined(t.val, v, ps) => Combined(t.val, v, qs)
           K == {k \in 0..n : ~Fine(f[k])}
<1>1. rs = f[n]
  BY DEF Trie4!CombineOnce, Walk
<1>2. f = Walk(t, ps, f)
  <2>1. \E g : g = Walk(t, ps, g)
    BY WalkExists
  <2> QED BY <2>1
<1> HIDE DEF f
<1>3. n \in Nat
  OBVIOUS
<1>4. \A k \in 0..n : f[k] = IF k = 0 THEN ps ELSE Trie4!CombineAt(t, f[k - 1], k)
  <2> DEFINE step == Walk(t, ps, f)
  <2>1. \A k \in 0..n : step[k] = IF k = 0 THEN ps ELSE Trie4!CombineAt(t, f[k - 1], k)
    BY DEF Walk
  <2> HIDE DEF step
  <2>2. f = step
    BY <1>2 DEF step
  <2> QED BY <2>1, <2>2
<1>5. Fine(ps)
  OBVIOUS
<1>6. ASSUME NEW k \in 1..n, Fine(f[k - 1]) PROVE Fine(f[k])
  <2> DEFINE qs == f[k - 1]
             ss == f[k]
  <2>1. ss = Trie4!CombineAt(t, qs, k) /\ k \in Nat \ {0}
    BY <1>3, <1>4
  <2> HIDE DEF qs, ss
  <2>2. qs \in Seq(Prefix) /\ (qs # ps => Len(qs) < Len(ps)) /\ \A v : Combined(t.val, v, ps) => Combined(t.val, v, qs)
    BY <1>6 DEF qs
  <2>3. ss \in Seq(Prefix) /\ (ss # qs => Len(ss) < Len(qs))
    BY <2>1, <2>2, CombineAtType
  <2>4. ss # ps => Len(ss) < Len(ps)
    <3>1. Len(qs) \in Nat /\ Len(ss) \in Nat /\ Len(ps) \in Nat
      BY <2>2, <2>3
    <3> QED BY <2>2, <2>3, <3>1
  <2>5. ASSUME NEW v, Combined(t.val, v, ps) PROVE Combined(t.val, v, ss)
    <3>1. Combined(t.val, v, qs)
      BY <2>2, <2>5
    <3> QED BY <2>1, <3>1, CombineAtKeeps
  <2> QED BY <2>3, <2>4, <2>5 DEF ss
<1> HIDE DEF Fine
<1>7. K = {}
  <2> SUFFICES ASSUME K # {} PROVE FALSE
    OBVIOUS
  <2>1. K \in SUBSET Nat
    BY <1>3
  <2>2. PICK k \in K : \A j \in K : k <= j
    <3> HIDE DEF K
    <3> QED BY <2>1, LeastOf
  <2>3. k \in 0..n /\ ~Fine(f[k])
    BY <2>2
  <2>4. k # 0
    BY <1>4, <1>5, <2>3
  <2>5. k \in 1..n /\ k - 1 \in 0..n /\ ~(k <= k - 1)
    BY <1>3, <2>3, <2>4
  <2>6. Fine(f[k - 1])
    BY <2>2, <2>5
  <2> QED BY <1>6, <2>3, <2>5, <2>6
<1>8. Fine(f[n])
  BY <1>3, <1>7
<1> QED BY <1>1, <1>8 DEF Fine

LEMMA AgainExists ==
  ASSUME NEW t, TP4!Good(t)
  PROVE  \E f \in [Seq(Prefix) -> Seq(Prefix)] : f = Again(t, f)
<1> DEFINE V == Seq(Prefix)
           G == [f \in [V -> V] |-> Again(t, f)]
           rank == [qs \in V |-> Len(qs)]
           once(qs) == Trie4!CombineOnce(t, qs)
<1>1. \A qs \in V : once(qs) \in V /\ (once(qs) # qs => Len(once(qs)) < Len(qs))
  BY CombineOnceIs
<1>2. \A qs \in V : Len(qs) \in Nat
  OBVIOUS
<1>3. \A f : Again(t, f) = [qs \in V |-> IF once(qs) = qs THEN qs ELSE f[once(qs)]]
  BY DEF Again
<1>4. [qs \in V |-> qs] \in [V -> V]
  OBVIOUS
<1> HIDE DEF V, once
<1>5. ASSUME NEW f \in [V -> V] PROVE Again(t, f) \in [V -> V]
  BY <1>1, <1>3
<1>6. rank \in [V -> Nat] /\ \A qs \in V : rank[qs] = Len(qs)
  BY <1>2
<1>7. G \in [[V -> V] -> [V -> V]] /\ \A f \in [V -> V] : G[f] = Again(t, f)
  BY <1>5
<1> HIDE DEF G, rank
<1>8. ASSUME NEW f \in [V -> V], NEW g \in [V -> V], NEW qs \in V,
             \A m \in V : rank[m] < rank[qs] => f[m] = g[m]
      PROVE  G[f][qs] = G[g][qs]
  <2>1. once(qs) # qs => f[once(qs)] = g[once(qs)]
    <3> SUFFICES ASSUME once(qs) # qs PROVE f[once(qs)] = g[once(qs)]
      OBVIOUS
    <3>1. once(qs) \in V /\ rank[once(qs)] < rank[qs]
      BY <1>1, <1>6
    <3> QED BY <1>8, <3>1
  <2>2. /\ G[f][qs] = IF once(qs) = qs THEN qs ELSE f[once(qs)]
        /\ G[g][qs] = IF once(qs) = qs THEN qs ELSE g[once(qs)]
    BY <1>3, <1>7
  <2> QED BY <2>1, <2>2
<1>9. TP4!Recursion(V, V, G, rank)
  <2>1. [V -> V] # {}
    BY <1>4, Zenon
  <2> QED BY <1>6, <1>7, <1>8, <2>1, Zenon DEF TP4!Recursion
<1>10. PICK f \in [V -> V] : f = G[f]
  BY <1>9, TP4!FixedPoint
<1> QED BY <1>7, <1>10 DEF V

LEMMA CombineAdjacentsIs ==
  ASSUME NEW t, TP4!Good(t), NEW v, NEW ps, Combined(t.val, v, ps)
  PROVE  Combined(t.val, v, Trie4!CombineAdjacents(t, ps))
<1> DEFINE f == CHOOSE g : g = Again(t, g)
           once(qs) == Trie4!CombineOnce(t, qs)
           Bad == {qs \in Seq(Prefix) : Combined(t.val, v, qs) /\ ~Combined(t.val, v, f[qs])}
           K == {Len(qs) : qs \in Bad}
<1>1. Trie4!CombineAdjacents(t, ps) = f[ps]
  <2> DEFINE is(g) == g = Again(t, g)
             was(g) == g = [qs \in Seq(Trie4!Prefix) |->
                              IF Trie4!CombineOnce(t, qs) = qs THEN qs ELSE g[Trie4!CombineOnce(t, qs)]]
  <2>1. Trie4!Prefix = Prefix
    BY DEF Trie4!Prefix, Trie4!Address, Trie4!Top, Prefix, Address, Top
  <2>2. \A g : was(g) <=> is(g)
    BY <2>1 DEF Again
  <2>3. Trie4!CombineAdjacents(t, ps) = (CHOOSE g : was(g))[ps]
    BY DEF Trie4!CombineAdjacents
  <2> HIDE DEF was, is
  <2>4. (CHOOSE g : was(g)) = (CHOOSE g : is(g))
    BY <2>2
  <2> QED BY <2>3, <2>4, Zenon DEF is
<1>2. f = Again(t, f)
  <2>1. \E g : g = Again(t, g)
    BY AgainExists
  <2> QED BY <2>1
<1> HIDE DEF f
<1>3. \A qs \in Seq(Prefix) : f[qs] = IF once(qs) = qs THEN qs ELSE f[once(qs)]
  <2> DEFINE g == Again(t, f)
  <2>1. \A qs \in Seq(Prefix) : g[qs] = IF once(qs) = qs THEN qs ELSE f[once(qs)]
    BY DEF Again
  <2> HIDE DEF g
  <2>2. f = g
    BY <1>2 DEF g
  <2> QED BY <2>1, <2>2
<1>4. ASSUME NEW qs \in Seq(Prefix), Combined(t.val, v, qs)
      PROVE  once(qs) \in Seq(Prefix) /\ (once(qs) # qs => Len(once(qs)) < Len(qs)) /\ Combined(t.val, v, once(qs))
  BY <1>4, CombineOnceIs
<1> HIDE DEF once
<1>5. Bad = {}
  <2> SUFFICES ASSUME Bad # {} PROVE FALSE
    OBVIOUS
  <2>1. K \in SUBSET Nat /\ K # {}
    <3>1. \A qs \in Bad : Len(qs) \in Nat
      OBVIOUS
    <3> HIDE DEF Bad
    <3> QED BY <3>1
  <2>2. PICK k \in K : \A j \in K : k <= j
    <3> HIDE DEF K
    <3> QED BY <2>1, LeastOf
  <2>3. PICK qs \in Bad : k = Len(qs)
    BY <2>2
  <2>4. qs \in Seq(Prefix) /\ Combined(t.val, v, qs) /\ ~Combined(t.val, v, f[qs])
    BY <2>3
  <2>5. once(qs) # qs
    BY <1>3, <2>4
  <2>6. once(qs) \in Bad
    BY <1>3, <1>4, <2>4, <2>5
  <2>7. Len(once(qs)) \in K /\ Len(once(qs)) < Len(qs) /\ Len(once(qs)) \in Nat /\ Len(qs) \in Nat
    <3>1. Len(once(qs)) \in K
      BY <2>6
    <3> QED BY <1>4, <2>4, <2>5, <3>1
  <2>8. k <= Len(once(qs))
    BY <2>2, <2>7
  <2> QED BY <2>3, <2>7, <2>8
<1>6. ps \in Seq(Prefix)
  BY DEF Combined
<1> QED BY <1>1, <1>5, <1>6

LEMMA KeepsExists ==
  ASSUME NEW t, NEW v, NEW ps \in Seq(Prefix)
  PROVE  \E f : f = Keeps(t, ps, v, f)
<1> DEFINE I == DOMAIN ps
           V == BOOLEAN
           G == [f \in [I -> V] |-> Keeps(t, ps, v, f)]
           rank == [i \in I |-> i]
<1>1. I \subseteq Nat /\ \A j \in I : \A i \in 1..(j - 1) : i \in I /\ i < j
  <2>1. Len(ps) \in Nat /\ I = 1..Len(ps)
    OBVIOUS
  <2> QED BY <2>1
<1>2. \A f : Keeps(t, ps, v, f) \in [I -> V]
  BY DEF Keeps
<1>3. [I -> V] # {}
  <2>1. [i \in I |-> TRUE] \in [I -> V]
    OBVIOUS
  <2> QED BY <2>1, Zenon
<1>4. rank \in [I -> Nat] /\ \A i \in I : rank[i] = i
  BY <1>1
<1>5. G \in [[I -> V] -> [I -> V]] /\ \A f \in [I -> V] : G[f] = Keeps(t, ps, v, f)
  BY <1>2
<1>6. ASSUME NEW f \in [I -> V], NEW g \in [I -> V], NEW j \in I,
             \A m \in I : rank[m] < rank[j] => f[m] = g[m]
      PROVE  Keeps(t, ps, v, f)[j] = Keeps(t, ps, v, g)[j]
  <2> HIDE DEF rank, I, V
  <2>1. \A i \in 1..(j - 1) : f[i] = g[i]
    BY <1>1, <1>4, <1>6
  <2>2. /\ Keeps(t, ps, v, f)[j] = \A i \in 1..(j - 1) : f[i] => Trie4!Stays(t, ps[i], ps[j], v)
        /\ Keeps(t, ps, v, g)[j] = \A i \in 1..(j - 1) : g[i] => Trie4!Stays(t, ps[i], ps[j], v)
    BY DEF Keeps, I
  <2> QED BY <2>1, <2>2
<1> HIDE DEF I, V, G, rank
<1>7. TP4!Recursion(I, V, G, rank)
  <2>1. ASSUME NEW f \in [I -> V], NEW g \in [I -> V], NEW i \in I, \A j \in I : rank[j] < rank[i] => f[j] = g[j]
        PROVE  G[f][i] = G[g][i]
    <3>1. Keeps(t, ps, v, f)[i] = Keeps(t, ps, v, g)[i]
      BY <1>6, <2>1
    <3> QED BY <1>5, <3>1
  <2> QED BY <1>3, <1>4, <1>5, <2>1, Zenon DEF TP4!Recursion
<1>8. PICK f \in [I -> V] : f = G[f]
  BY <1>7, TP4!FixedPoint
<1> QED BY <1>5, <1>8

LEMMA DropContainedIs ==
  ASSUME NEW t, NEW v, NEW ps \in Seq(Prefix), NEW D, D = Trie4!DropContained(t, ps, v)
  PROVE  /\ \A q \in D : \E j \in DOMAIN ps : q = ps[j]
         /\ \A j \in DOMAIN ps : ps[j] \in D \/ \E i \in DOMAIN ps : ps[i] \in D /\ ~Trie4!Stays(t, ps[i], ps[j], v)
<1> DEFINE f == CHOOSE g : g = Keeps(t, ps, v, g)
<1>1. D = {ps[j] : j \in {i \in DOMAIN ps : f[i]}}
  BY DEF Trie4!DropContained, Keeps
<1>2. f = Keeps(t, ps, v, f)
  <2>1. \E g : g = Keeps(t, ps, v, g)
    BY KeepsExists
  <2> QED BY <2>1
<1> HIDE DEF f
<1>3. ASSUME NEW j \in DOMAIN ps
      PROVE  f[j] = \A i \in 1..(j - 1) : f[i] => Trie4!Stays(t, ps[i], ps[j], v)
  <2> DEFINE g == Keeps(t, ps, v, f)
  <2>1. g[j] = \A i \in 1..(j - 1) : f[i] => Trie4!Stays(t, ps[i], ps[j], v)
    BY DEF Keeps
  <2> HIDE DEF g
  <2>2. f[j] = g[j]
    BY <1>2 DEF g
  <2> QED BY <2>1, <2>2
<1>4. ASSUME NEW j \in DOMAIN ps, ps[j] \notin D
      PROVE  \E i \in DOMAIN ps : ps[i] \in D /\ ~Trie4!Stays(t, ps[i], ps[j], v)
  <2>1. ~f[j]
    BY <1>1, <1>4
  <2>2. PICK i \in 1..(j - 1) : f[i] /\ ~Trie4!Stays(t, ps[i], ps[j], v)
    BY <1>3, <2>1, Zenon
  <2>3. i \in DOMAIN ps
    <3>1. Len(ps) \in Nat /\ DOMAIN ps = 1..Len(ps)
      OBVIOUS
    <3> QED BY <3>1
  <2> QED BY <1>1, <2>2, <2>3
<1> QED BY <1>1, <1>4

LEMMA StaysIs ==
  ASSUME NEW t, TP4!Good(t), NEW v, NEW p \in Prefix, NEW q \in Prefix, ~Trie4!Stays(t, p, q, v)
  PROVE  Has(p, q) /\ \A z \in DOMAIN t.val : Has(z, q) /\ z # q => t.val[z] = v
<1>1. Trie4!T!find_wider(t, q) = TP4!find_wider(t, q)
  BY SameFind4
<1> DEFINE s == TP4!find_wider(t, q)
<1>2. {s[i] : i \in DOMAIN s} = {z \in TP4!Entry(t) : Trie4!Contains(z, q)} \ {q}
  BY Laws4, TP4!WiderAre
<1>3. Trie4!Contains(p, q) /\ \A i \in DOMAIN s : ~(t.val[s[i]] # v)
  BY <1>1 DEF Trie4!Stays
<1> HIDE DEF s
<1>4. ASSUME NEW z \in DOMAIN t.val, Has(z, q), z # q PROVE t.val[z] = v
  <2>1. z \in Prefix
    BY DEF TP4!Good, TP4!Shape, TP4!Counted
  <2>2. Trie4!Contains(z, q)
    BY <1>4, <2>1, Contains4Is
  <2>3. z \in {s[i] : i \in DOMAIN s}
    BY <1>2, <1>4, <2>2 DEF TP4!Entry
  <2>4. PICK i \in DOMAIN s : z = s[i]
    BY <2>3
  <2> QED BY <1>3, <2>4
<1> QED BY <1>3, <1>4, Contains4Is

LEMMA GoodIs4 ==
  ASSUME NEW t, TP4!Good(t)
  PROVE  /\ t.val \in [DOMAIN t.val -> Value \cup {0}]
         /\ DOMAIN t.val \subseteq Prefix /\ IsFiniteSet(DOMAIN t.val)
  BY DEF TP4!Good, TP4!Shape, TP4!Counted, TP4!IsFiniteSet, IsFiniteSet

LEMMA EntriesAll4 ==
  ASSUME NEW t, TP4!Good(t), TP4!Iterable(t)
  PROVE  Trie4!Seqs!ToSet(Trie4!T!Entries(t)) = DOMAIN t.val
<1> DEFINE s == TP4!Entries(t)
           E == DOMAIN t.val
<1>1. TP4!Listed(s, TP4!Entry(t), TRUE)
  BY Laws4, TP4!EntriesAre, Zenon
<1>2. TP4!Entry(t) = E
  BY DEF TP4!Entry
<1> HIDE DEF s, E
<1>3. s \in Seq(E) /\ \A e \in E : \E i \in DOMAIN s : s[i] = e
  BY <1>1, <1>2 DEF TP4!Listed
<1>4. \A i \in DOMAIN s : s[i] \in E
  BY <1>3
<1>5. Trie4!T!Entries(t) = s
  BY SameWalks4 DEF s
<1>6. {s[i] : i \in DOMAIN s} = E
  BY <1>3, <1>4
<1>7. Trie4!Seqs!ToSet(s) = {s[i] : i \in DOMAIN s}
  BY DEF Trie4!Seqs!ToSet
<1> QED BY <1>5, <1>6, <1>7 DEF E

LEMMA CombinePrefixesAre ==
  ASSUME NEW t, TP4!Good(t), TP4!Iterable(t), NEW v
  PROVE  Remaining(t.val, v, Trie4!CombinePrefixes(t, v))
<1> DEFINE f == t.val
           E == DOMAIN f
           ps == Trie4!Sorted({p \in E : f[p] = v})
           qs == Trie4!CombineAdjacents(t, ps)
           D == Trie4!DropContained(t, qs, v)
<1>1. Trie4!CombinePrefixes(t, v) = D
  BY EntriesAll4 DEF Trie4!CombinePrefixes
<1>2. Combined(f, v, ps)
  <2> HIDE DEF f
  <2>1. E \subseteq Prefix /\ IsFiniteSet(E)
    BY GoodIs4 DEF f
  <2> QED BY <2>1, SortedCombined
<1> HIDE DEF ps
<1>3. Combined(f, v, qs)
  BY <1>2, CombineAdjacentsIs
<1> HIDE DEF qs, f
<1>4. qs \in Seq(Prefix)
  BY <1>3 DEF Combined
<1>5. /\ \A q \in D : \E j \in DOMAIN qs : q = qs[j]
      /\ \A j \in DOMAIN qs : qs[j] \in D \/ \E i \in DOMAIN qs : qs[i] \in D /\ ~Trie4!Stays(t, qs[i], qs[j], v)
  BY <1>4, DropContainedIs
<1> HIDE DEF D
<1>6. \A j \in DOMAIN qs : qs[j] \in Prefix
  BY <1>4
<1>7. D \subseteq Prefix /\ \A q \in D : Solid(f, q, v)
  BY <1>3, <1>5, <1>6 DEF Combined
<1>8. \A p, q \in D, e \in E : Tops(E, p, e) /\ Tops(E, q, e) => p = q
  BY <1>3, <1>5 DEF Combined
<1>9. ASSUME NEW e \in E, f[e] = v
      PROVE  \E q \in Prefix :
                /\ Solid(f, q, v) /\ Tops(E, q, e)
                /\ \/ q \in D
                   \/ \E d \in D : Has(d, q) /\ \A z \in E : Has(z, q) /\ z # q => f[z] = v
  <2>1. PICK j \in DOMAIN qs : Tops(E, qs[j], e)
    BY <1>3, <1>9 DEF Combined
  <2>2. Solid(f, qs[j], v) /\ qs[j] \in Prefix
    BY <1>3, <1>6 DEF Combined
  <2>3. CASE qs[j] \in D
    BY <2>1, <2>2, <2>3
  <2>4. CASE qs[j] \notin D
    <3>1. PICK i \in DOMAIN qs : qs[i] \in D /\ ~Trie4!Stays(t, qs[i], qs[j], v)
      BY <1>5, <2>4
    <3>2. Has(qs[i], qs[j]) /\ \A z \in E : Has(z, qs[j]) /\ z # qs[j] => f[z] = v
      BY <1>6, <3>1, StaysIs DEF f
    <3> QED BY <2>1, <2>2, <3>1, <3>2
  <2> QED BY <2>3, <2>4
<1>10. Remaining(f, v, D)
  BY <1>7, <1>8, <1>9 DEF Remaining
<1> QED BY <1>1, <1>10 DEF f

LEMMA SameInsertAll4 ==
  ASSUME NEW es
  PROVE  TP4!InsertAll(es) = Trie4!T!InsertAll(es)
<1> DEFINE is(f) == f = [i \in 0..Len(es) |-> IF i = 0 THEN Trie4!T!Empty ELSE Trie4!T!insert(f[i - 1], es[i][1], es[i][2]).t]
           was(f) == f = [i \in 0..Len(es) |-> IF i = 0 THEN TP4!Empty ELSE TP4!insert(f[i - 1], es[i][1], es[i][2]).t]
<1>1. TP4!InsertAll(es) = (CHOOSE f : was(f))[Len(es)]
  BY DEF TP4!InsertAll
<1>2. Trie4!T!InsertAll(es) = (CHOOSE f : is(f))[Len(es)]
  BY DEF Trie4!T!InsertAll
<1>3. \A f : was(f) <=> is(f)
  BY SameInsert4, SameParts4
<1> HIDE DEF is, was
<1>4. (CHOOSE f : was(f)) = (CHOOSE f : is(f))
  BY <1>3
<1> QED BY <1>1, <1>2, <1>4, Zenon

LEMMA LeftIs ==
  ASSUME NEW t, TP4!Good(t), TP4!Iterable(t)
  PROVE  /\ \A e \in DOMAIN t.val : Remaining(t.val, t.val[e], Trie4!CombinePrefixes(t, t.val[e]))
         /\ \A u \in Left(t) : \E p \in DOMAIN t.val :
               u = <<u[1], u[2]>> /\ u[1] \in Trie4!CombinePrefixes(t, t.val[p]) /\ u[2] = t.val[p]
         /\ \A p \in DOMAIN t.val : \A q \in Trie4!CombinePrefixes(t, t.val[p]) : <<q, t.val[p]>> \in Left(t)
<1> DEFINE f == t.val
           R(v) == Trie4!CombinePrefixes(t, v)
<1>1. \A e \in DOMAIN f : Remaining(f, f[e], R(f[e]))
  BY CombinePrefixesAre
<1>2. Left(t) = UNION {R(v) \X {v} : v \in {f[p] : p \in DOMAIN f}}
  BY DEF Left
<1> HIDE DEF f, R
<1>3. \A u \in Left(t) : \E p \in DOMAIN f : u = <<u[1], u[2]>> /\ u[1] \in R(f[p]) /\ u[2] = f[p]
  BY <1>2
<1>4. \A p \in DOMAIN f : \A q \in R(f[p]) : <<q, f[p]>> \in Left(t)
  BY <1>2
<1> QED BY <1>1, <1>3, <1>4 DEF f, R

LEMMA FewerRemain ==
  ASSUME NEW t, TP4!Good(t), TP4!Iterable(t), NEW f, f = t.val, NEW U, U = Left(t)
  PROVE  IsFiniteSet(U) /\ Cardinality(U) <= Cardinality(DOMAIN f)
<1> DEFINE E == DOMAIN f
           R(v) == Trie4!CombinePrefixes(t, v)
           top(u, e) == f[e] = u[2] /\ Tops(E, u[1], e)
           g == [u \in U |-> CHOOSE e \in E : top(u, e)]
<1>0. IsFiniteSet(E) /\ \A e \in E : Remaining(f, f[e], R(f[e]))
  BY GoodIs4, LeftIs
<1>1. \A u \in U : \E p \in E : u = <<u[1], u[2]>> /\ u[1] \in R(f[p]) /\ u[2] = f[p]
  BY LeftIs
<1> HIDE DEF R
<1>2. ASSUME NEW u \in U PROVE \E e \in E : top(u, e)
  <2>1. PICK p \in E : u[1] \in R(f[p]) /\ u[2] = f[p]
    BY <1>1
  <2>2. u[1] \in Prefix /\ Solid(f, u[1], f[p])
    BY <1>0, <2>1, Zenon DEF Remaining
  <2>3. \E e \in E : f[e] = f[p] /\ Tops(E, u[1], e)
    BY <2>2, SolidHas
  <2> QED BY <2>1, <2>3
<1> HIDE DEF top
<1>3. g \in [U -> E] /\ \A u \in U : top(u, g[u])
  BY <1>2
<1> HIDE DEF g
<1> USE DEF top
<1>4. ASSUME NEW u \in U, NEW w \in U, g[u] = g[w] PROVE u = w
  <2>1. PICK p \in E : u = <<u[1], u[2]>> /\ u[1] \in R(f[p]) /\ u[2] = f[p]
    BY <1>1
  <2>2. PICK x \in E : w = <<w[1], w[2]>> /\ w[1] \in R(f[x]) /\ w[2] = f[x]
    BY <1>1
  <2>3. f[p] = f[x]
    BY <1>3, <1>4, <2>1, <2>2
  <2>4. u[1] = w[1]
    <3>1. Tops(E, u[1], g[u]) /\ Tops(E, w[1], g[u]) /\ g[u] \in E /\ u[1] \in R(f[p]) /\ w[1] \in R(f[p])
      BY <1>3, <1>4, <2>1, <2>2, <2>3
    <3>2. Remaining(f, f[p], R(f[p]))
      BY <1>0
    <3> QED BY <3>1, <3>2 DEF Remaining
  <2> QED BY <2>1, <2>2, <2>3, <2>4
<1>5. g \in Injection(U, E)
  BY <1>3, <1>4 DEF Injection, IsInjective
<1> QED BY <1>0, <1>5, FS_Injection

LEMMA AggregatedIs ==
  ASSUME NEW t, TP4!Good(t), TP4!Iterable(t), NEW r, r = Trie4!Aggregated(t)
  PROVE  /\ TP4!Good(r) /\ Regrouped(t.val, r.val)
         /\ Cardinality(DOMAIN r.val) <= Cardinality(DOMAIN t.val)
<1> DEFINE f == t.val
           E == DOMAIN f
           R(v) == Trie4!CombinePrefixes(t, v)
           U == Left(t)
           es == Trie4!Seqs!SetToSeq(U)
<1>1. r = TP4!InsertAll(es)
  <2>1. Trie4!Aggregated(t) = Trie4!T!InsertAll(es)
    BY EntriesAll4 DEF Trie4!Aggregated, Left
  <2> HIDE DEF es
  <2> QED BY <2>1, SameInsertAll4
<1>2. IsFiniteSet(U) /\ Cardinality(U) <= Cardinality(E)
  BY FewerRemain
<1>3. /\ \A e \in E : Remaining(f, f[e], R(f[e]))
      /\ \A u \in U : \E p \in E : u = <<u[1], u[2]>> /\ u[1] \in R(f[p]) /\ u[2] = f[p]
      /\ \A p \in E : \A q \in R(f[p]) : <<q, f[p]>> \in U
  BY LeftIs
<1>4. f \in [E -> Value \cup {0}] /\ E \subseteq Prefix /\ IsFiniteSet(E)
  BY GoodIs4
<1> HIDE DEF U, R, f
<1>5. /\ Len(es) \in Nat /\ DOMAIN es = 1..Len(es)
      /\ \A i \in 1..Len(es) : es[i] \in U
      /\ \A u \in U : \E i \in 1..Len(es) : es[i] = u
  BY <1>2, SetToSeqIs
<1> HIDE DEF es
<1>6. \A u \in U : u[1] \in Prefix /\ u[2] \in Value \cup {0} /\ Solid(f, u[1], u[2])
  <2> TAKE u \in U
  <2>1. PICK p \in E : u[1] \in R(f[p]) /\ u[2] = f[p]
    BY <1>3
  <2>2. Remaining(f, f[p], R(f[p]))
    BY <1>3
  <2> QED BY <1>4, <2>1, <2>2 DEF Remaining
<1> DEFINE g == [q \in Prefix |-> CHOOSE v : <<q, v>> \in U]
<1>7. \A u \in U : u[2] = g[u[1]]
  <2> TAKE u \in U
  <2>1. u = <<u[1], u[2]>> /\ u[1] \in Prefix /\ Solid(f, u[1], u[2])
    BY <1>3, <1>6
  <2> DEFINE v == CHOOSE w : <<u[1], w>> \in U
  <2>2. <<u[1], v>> \in U
    BY <2>1, Zenon
  <2>3. g[u[1]] = v
    BY <2>1
  <2> HIDE DEF v
  <2>4. Solid(f, u[1], v)
    BY <1>6, <2>2
  <2> QED BY <1>4, <2>1, <2>3, <2>4, SolidOnce
<1> HIDE DEF g
<1>8. /\ TP4!Good(r)
      /\ DOMAIN r.val = {es[i][1] : i \in 1..Len(es)}
      /\ \A q \in DOMAIN r.val : r.val[q] = g[q]
  <2>1. \A i \in 1..Len(es) : es[i][1] \in Prefix /\ es[i][2] \in Value \cup {0}
    BY <1>5, <1>6
  <2>2. \A i \in 1..Len(es) : es[i][2] = g[es[i][1]]
    BY <1>5, <1>7
  <2>3. TP4!HasAll(TP4!InsertAll(es), es)
    BY ONLY Laws4, <1>5, <2>1, TP4!InsertAllIs
  <2> QED BY <1>1, <2>2, <2>3 DEF TP4!HasAll
<1>9. \A q : q \in DOMAIN r.val <=> \E u \in U : q = u[1]
  BY <1>5, <1>8
<1>10. \A u \in U : u[1] \in DOMAIN r.val /\ r.val[u[1]] = u[2]
  BY <1>7, <1>8, <1>9
<1>11. Regrouped(f, r.val)
  <2>1. \A q \in DOMAIN r.val : q \in Prefix /\ Solid(f, q, r.val[q])
    BY <1>6, <1>9, <1>10
  <2>2. ASSUME NEW p \in E, NEW q \in R(f[p]) PROVE q \in DOMAIN r.val
    <3>1. <<q, f[p]>> \in U /\ <<q, f[p]>>[1] = q
      BY <1>3, <2>2
    <3> QED BY <1>10, <3>1
  <2>3. ASSUME NEW e \in E
        PROVE  \E q \in Prefix :
                  /\ Tops(E, q, e)
                  /\ \/ q \in DOMAIN r.val
                     \/ /\ \E d \in DOMAIN r.val : Has(d, q)
                        /\ \A z \in E : Has(z, q) /\ z # q => f[z] = f[e]
    <3>1. Remaining(f, f[e], R(f[e]))
      BY <1>3
    <3>2. PICK q \in Prefix :
             /\ Tops(E, q, e)
             /\ \/ q \in R(f[e])
                \/ \E d \in R(f[e]) : Has(d, q) /\ \A z \in E : Has(z, q) /\ z # q => f[z] = f[e]
      BY <3>1 DEF Remaining
    <3>3. CASE q \in R(f[e])
      BY <2>2, <3>2, <3>3
    <3>4. CASE q \notin R(f[e])
      <4>1. PICK d \in R(f[e]) : Has(d, q) /\ \A z \in E : Has(z, q) /\ z # q => f[z] = f[e]
        BY <3>2, <3>4
      <4> QED BY <2>2, <3>2, <4>1
    <3> QED BY <3>3, <3>4
  <2> QED BY <2>1, <2>3 DEF Regrouped
<1>12. Cardinality(DOMAIN r.val) <= Cardinality(E)
  <2> DEFINE D == DOMAIN r.val
             h == [u \in U |-> u[1]]
  <2>1. h \in Surjection(U, D)
    BY <1>9 DEF Surjection
  <2> HIDE DEF D, h
  <2>2. IsFiniteSet(D) /\ Cardinality(D) <= Cardinality(U)
    BY <1>2, <2>1, FS_Surjection
  <2>3. Cardinality(D) \in Nat /\ Cardinality(U) \in Nat /\ Cardinality(E) \in Nat
    BY <1>2, <1>4, <2>2, FS_CardinalityType
  <2>4. Cardinality(D) <= Cardinality(E)
    BY <1>2, <2>2, <2>3
  <2> QED BY <2>4 DEF D
<1> QED BY <1>8, <1>11, <1>12 DEF f

\* The longest match.
LEMMA FoundLongest4 ==
  ASSUME NEW t, TP4!Good(t), NEW a \in Address, NEW h, h = New(a, W), NEW p, p = Trie4!T!find_longest(t, Trie4!New(a, W))
  PROVE  \/ p = TP4!Nil /\ ~\E q \in DOMAIN t.val : Has(q, h)
         \/ p # TP4!Nil /\ LongestMatch(t.val, h, p)
<1> DEFINE E == DOMAIN t.val
           M == {q \in TP4!Entry(t) : Trie4!Contains(q, h)}
<1>1. h \in Prefix
  BY HostOf
<1>2. p = TP4!find_longest(t, h)
  BY SameFind4 DEF Trie4!New, Trie4!Masked, New, Masked
<1>3. TP4!AnswersExact(t, h, TP4!find_matches(t, h), TP4!find_longest(t, h), TP4!find(t, h))
  BY <1>1, Laws4, TP4!AnswersAreExact
<1>4. /\ {TP4!find_matches(t, h)[i] : i \in DOMAIN TP4!find_matches(t, h)} = M
      /\ p = IF M = {} THEN TP4!Nil ELSE CHOOSE q \in M : \A s \in M : s.len <= q.len
  BY <1>2, <1>3 DEF TP4!AnswersExact
<1>5. E \subseteq Prefix /\ TP4!Nil \notin Prefix
  BY GoodIs4, Laws4, TP4!NilIsNone
<1>6. M = {q \in E : Has(q, h)}
  BY <1>1, <1>5, Contains4Is DEF TP4!Entry
<1> HIDE DEF M
<1>7. CASE M = {}
  BY <1>4, <1>6, <1>7
<1>8. CASE M # {}
  <2>1. \E q \in M : \A s \in M : s.len <= q.len
    <3> DEFINE L == {q.len : q \in M}
    <3>1. L \in SUBSET (0..W) /\ L # {} /\ W \in Nat
      BY <1>5, <1>6, <1>8, PrefixIs, WAssumption
    <3> HIDE DEF L
    <3>2. PICK l \in L : \A k \in L : l >= k
      BY <3>1, GreatestOf, Zenon
    <3>3. PICK q \in M : l = q.len
      BY <3>2 DEF L
    <3>4. \A s \in M : s.len \in L /\ s.len \in 0..W /\ l \in 0..W
      BY <3>1, <3>2 DEF L
    <3>5. \A s \in M : s.len <= q.len
      BY <3>1, <3>2, <3>3, <3>4
    <3> QED BY <3>5
  <2>2. p \in M /\ \A s \in M : s.len <= p.len
    BY <1>4, <1>8, <2>1
  <2> QED BY <1>5, <1>6, <2>2 DEF LongestMatch
<1> QED BY <1>7, <1>8

Trie4Inv == TP4!Good(store)

LEMMA Trie4Init == Trie4!Init => Trie4Inv
  BY TP4!EmptyIsGood, SameParts4 DEF Trie4!Init, Trie4Inv

LEMMA Trie4Step ==
  ASSUME Trie4Inv, Trie4!Next
  PROVE  Trie4Inv' /\ Trie4!Promise!Step
<1> DEFINE val == store.val
<1>0. TP4!Laws /\ TP4!NoValue \in Value \cup {0} /\ Keys \subseteq Prefix /\ Trie4!Prefix = Prefix
  BY Laws4, KeysAssumption, SameParts4 DEF Trie4!Prefix, Trie4!Address, Trie4!Top, Prefix, Address, Top
<1>1. Trie4!Contents = store.val /\ Trie4!Contents' = store'.val /\ Trie4!T!Nil = TP4!Nil
  BY SameParts4 DEF Trie4!Contents
<1>2. \A call, b : Trie4!Said(call, b) <=> answer' = Trie4!Promise!Done(call, b)
  BY DEF Trie4!Said, Trie4!Promise!Done
<1>3. /\ TP4!Good(store) /\ val = [q \in DOMAIN val |-> val[q]] /\ DOMAIN val \subseteq Prefix
      /\ Trie4!Entry = DOMAIN val
  BY GoodIs4, SameParts4 DEF Trie4Inv, Trie4!Entry, TP4!Entry
<1> HIDE DEF val
<1>4. ASSUME NEW p \in Keys, NEW v \in Value, Trie4!Insert(p, v)
      PROVE  Trie4Inv' /\ Trie4!Promise!Step
  <2> DEFINE r == TP4!insert(store, p, v)
  <2>1. r = Trie4!T!insert(store, p, v)
    BY SameInsert4
  <2>2. store' = r.t /\ answer' = Trie4!Promise!Done(<<"insert", p, v>>, r.inserted)
    BY <1>2, <1>4, <2>1 DEF Trie4!Insert
  <2>3. TP4!Good(r.t) /\ r.t.val = TP4!Added(store.val, p, v) /\ r.inserted = (p \notin TP4!Entry(store))
    BY <1>0, <1>3, <2>2, TP4!InsertIs
  <2> HIDE DEF r
  <2>4. Trie4!Promise!Insert(p, v)
    BY <1>1, <2>2, <2>3 DEF TP4!Added, TP4!Bound, TP4!Entry, Trie4!Promise!Insert, Trie4!Promise!Bind
  <2> QED BY <1>0, <2>2, <2>3, <2>4 DEF Trie4Inv, Trie4!Promise!Step, Trie4!Promise!Next
<1>5. ASSUME NEW p \in Keys, NEW v \in Value, Trie4!Assign(p, v)
      PROVE  Trie4Inv' /\ Trie4!Promise!Step
  <2>1. TP4!Assign(store, p, v) = Trie4!T!Assign(store, p, v)
    BY SameInsert4 DEF TP4!Assign, Trie4!T!Assign, TP4!NoValue, Trie4!T!NoValue
  <2>2. store' = TP4!Assign(store, p, v) /\ answer' = Trie4!Promise!Done(<<"assign", p, v>>, TRUE)
    BY <1>2, <1>5, <2>1, Zenon DEF Trie4!Assign
  <2>3. TP4!Good(store') /\ store'.val = TP4!Bound(store.val, p, v)
    BY <1>0, <1>3, <2>2, TP4!AssignIs
  <2>4. Trie4!Promise!Assign(p, v)
    BY <1>1, <2>2, <2>3 DEF TP4!Bound, Trie4!Promise!Assign, Trie4!Promise!Bind
  <2> QED BY <1>0, <2>3, <2>4 DEF Trie4Inv, Trie4!Promise!Step, Trie4!Promise!Next
<1>6. ASSUME NEW p \in Prefix, Trie4!Remove(p)
      PROVE  Trie4Inv' /\ Trie4!Promise!Step
  <2> DEFINE r == TP4!Remove(store, p)
  <2>1. r = Trie4!T!Remove(store, p)
    BY SameRemove4
  <2>2. store' = r.t /\ answer' = Trie4!Promise!Done(<<"remove", p>>, r.removed)
    BY <1>2, <1>6, <2>1 DEF Trie4!Remove
  <2>3. /\ TP4!Good(r.t)
        /\ r.t.val = IF p \in TP4!Entry(store) THEN TP4!Without(store.val, p) ELSE store.val
        /\ r.removed = (p \in TP4!Entry(store))
    BY <1>0, <1>3, <2>2, TP4!RemoveIs
  <2> HIDE DEF r
  <2>4. store'.val = Trie4!Promise!Only(store.val, DOMAIN store.val \ {p})
    <3>1. CASE p \in DOMAIN store.val
      BY <2>2, <2>3, <3>1 DEF TP4!Entry, TP4!Without, Trie4!Promise!Only
    <3>2. CASE p \notin DOMAIN store.val
      <4>1. store'.val = val /\ DOMAIN val \ {p} = DOMAIN val
        BY <2>2, <2>3, <3>2 DEF TP4!Entry, val
      <4> QED BY <1>3, <2>2, <4>1 DEF Trie4!Promise!Only, val
    <3> QED BY <3>1, <3>2
  <2>5. Trie4!Promise!Remove(p)
    BY <1>1, <2>2, <2>3, <2>4 DEF TP4!Entry, Trie4!Promise!Remove
  <2> QED BY <1>0, <2>2, <2>3, <2>5 DEF Trie4Inv, Trie4!Promise!Step, Trie4!Promise!Next
<1>7. ASSUME NEW p \in Prefix, Trie4!Erase(p)
      PROVE  Trie4Inv' /\ Trie4!Promise!Step
  <2> DEFINE r == TP4!Remove(store, p)
             n == TP4!Successor(store, p)
             A == {q \in DOMAIN store.val : Trie4!Less(p, q)}
  <2>1. r = Trie4!T!Remove(store, p) /\ n = Trie4!T!Successor(store, p)
    BY SameRemove4, SameWalks4
  <2>2. TP4!Iterable(store) /\ store' = r.t /\ answer' = [call |-> <<"erase", p>>, ok |-> TRUE, at |-> n]
    BY <1>7, <2>1, SameWalks4 DEF Trie4!Erase, Trie4!T!erase
  <2>3. p \in DOMAIN store.val
    BY <1>0, <1>1, <1>3, <1>7, <2>2, Found4, SameFind4 DEF Trie4!Erase
  <2>4. TP4!Good(r.t) /\ r.t.val = TP4!Without(store.val, p)
    BY <1>0, <1>3, <2>2, <2>3, TP4!RemoveIs DEF TP4!Entry
  <2>5. TP4!IsLeast(TP4!After(store, p), n)
    <3>1. p \in DOMAIN store.kids
      BY <1>3, <2>3 DEF TP4!Good, TP4!Counted
    <3> QED BY <1>0, <1>3, <2>2, <3>1, TP4!SuccessorIs
  <2>6. A = TP4!After(store, p)
    BY DEF TP4!After, TP4!Entry
  <2>7. A \subseteq Prefix
    BY <1>3, <2>2 DEF val
  <2> HIDE DEF r, n, A
  <2>8. n = IF A = {} THEN TP4!Nil ELSE CHOOSE q \in A : ~\E s \in A : Trie4!Less(s, q)
    <3>1. CASE A = {}
      BY <2>5, <2>6, <3>1 DEF TP4!IsLeast
    <3>2. CASE A # {}
      <4>1. n \in A /\ \A y \in A : y = n \/ Trie4!Less(n, y)
        BY <2>5, <2>6, <3>2 DEF TP4!IsLeast
      <4>2. \A q, s \in Prefix : Trie4!Less(q, s) => ~Trie4!Less(s, q)
        BY <1>0 DEF TP4!Laws, TP4!Sorting
      <4>3. ~\E s \in A : Trie4!Less(s, n)
        BY <2>7, <4>1, <4>2
      <4>4. \A q \in A : (~\E s \in A : Trie4!Less(s, q)) => q = n
        BY <4>1
      <4> QED BY <3>2, <4>1, <4>3, <4>4
    <3> QED BY <3>1, <3>2
  <2>9. Trie4!Promise!Erase(p)
    <3>1. store'.val = Trie4!Promise!Only(store.val, DOMAIN store.val \ {p})
      BY <2>2, <2>4 DEF TP4!Without, Trie4!Promise!Only
    <3> QED BY <1>1, <2>2, <2>3, <2>8, <3>1 DEF Trie4!Promise!Erase, A
  <2> QED BY <1>0, <2>2, <2>4, <2>9 DEF Trie4Inv, Trie4!Promise!Step, Trie4!Promise!Next
<1>8. CASE Trie4!Clear
  <2>1. store' = TP4!Empty /\ answer' = Trie4!Promise!Done(<<"clear">>, TRUE)
    BY <1>2, <1>8, SameParts4, Zenon DEF Trie4!Clear
  <2>2. TP4!Good(store') /\ store'.val = <<>>
    BY <2>1, TP4!EmptyIsGood DEF TP4!Empty
  <2> QED BY <1>1, <2>1, <2>2 DEF Trie4Inv, Trie4!Promise!Clear, Trie4!Promise!Step, Trie4!Promise!Next
<1>9. CASE Trie4!Copy
  <2>1. store' = TP4!Copied(store) /\ answer' = Trie4!Promise!Done(<<"reload">>, TRUE)
    BY <1>2, <1>9, SameParts4, Zenon DEF Trie4!Copy
  <2>2. TP4!Good(store') /\ store'.val = store.val
    BY <1>3, <2>1, TP4!CopiedIs
  <2>3. Trie4!Promise!Reload
    <3>1. store.val = [q \in DOMAIN store.val |-> store.val[q]]
      BY <1>3, <2>1 DEF val
    <3> QED BY <1>1, <2>1, <2>2, <3>1, Zenon DEF Trie4!Promise!Reload, Trie4!Promise!Only
  <2> QED BY <2>2, <2>3 DEF Trie4Inv, Trie4!Promise!Step, Trie4!Promise!Next
<1>10. ASSUME NEW k \in 0..store.size, Trie4!Reload(k)
       PROVE  Trie4Inv' /\ Trie4!Promise!Step
  <2> DEFINE r == TP4!Reread(TP4!Written(store), k)
  <2>1. r = Trie4!T!Reread(Trie4!T!Written(store), k)
    BY SameReread4
  <2>2. TP4!Iterable(store) /\ store' = r.t /\ answer' = Trie4!Promise!Done(<<"reload">>, r.ok)
    BY <1>2, <1>10, <2>1, SameWalks4 DEF Trie4!Reload
  <2>3. /\ TP4!Good(r.t)
        /\ DOMAIN r.t.val \subseteq DOMAIN store.val
        /\ \A q \in DOMAIN r.t.val : r.t.val[q] = store.val[q]
        /\ r.ok => DOMAIN r.t.val = DOMAIN store.val
        /\ r.ok \in BOOLEAN
    BY <1>0, <1>3, <2>2, TP4!RereadIs
  <2> HIDE DEF r
  <2>4. r.t.val = [q \in DOMAIN r.t.val |-> r.t.val[q]]
    BY <2>3, GoodIs4
  <2>5. Trie4!Promise!Reload
    <3>1. store'.val = Trie4!Promise!Only(store.val, DOMAIN store'.val)
      BY <2>2, <2>3, <2>4 DEF Trie4!Promise!Only
    <3> QED BY <1>1, <2>2, <2>3, <3>1 DEF Trie4!Promise!Reload
  <2> QED BY <2>2, <2>3, <2>5 DEF Trie4Inv, Trie4!Promise!Step, Trie4!Promise!Next
<1>11. CASE Trie4!Aggregate
  <2> DEFINE r == Trie4!Aggregated(store)
             f == store.val
             g == r.val
  <2>1. TP4!Iterable(store) /\ store' = r /\ answer' = Trie4!Promise!Done(<<"aggregate">>, TRUE)
    BY <1>2, <1>11, SameWalks4, Zenon DEF Trie4!Aggregate
  <2>2. TP4!Good(r) /\ Regrouped(f, g) /\ Cardinality(DOMAIN g) <= Cardinality(DOMAIN f)
    BY <1>3, <2>1, AggregatedIs
  <2>3. DOMAIN f \subseteq Prefix /\ DOMAIN g \subseteq Prefix
    BY <1>3, <2>2, GoodIs4
  <2> HIDE DEF r, f, g
  <2>4. ASSUME NEW a \in Address
        PROVE  /\ (Trie4!Promise!Matches(g, a) = {}) <=> (Trie4!Promise!Matches(f, a) = {})
               /\ {g[p] : p \in Trie4!Promise!Matches(g, a)} \subseteq {f[p] : p \in Trie4!Promise!Matches(f, a)}
    <3> DEFINE h == New(a, W)
               M == {p \in DOMAIN f : Has(p, h)}
               N == {p \in DOMAIN g : Has(p, h)}
    <3>1. h \in Prefix /\ h.len = W /\ \A p \in Prefix : Trie4!ContainsAddress(p, a) <=> Has(p, h)
      BY HostOf
    <3> HIDE DEF h
    <3>2. Trie4!Promise!Matches(f, a) = M /\ Trie4!Promise!Matches(g, a) = N
      BY <2>3, <3>1 DEF Trie4!Promise!Matches
    <3>3. /\ (\E q \in DOMAIN g : Has(q, h)) <=> (\E e \in DOMAIN f : Has(e, h))
          /\ \A q \in DOMAIN g : Has(q, h) => \E e \in DOMAIN f : Has(e, h) /\ f[e] = g[q]
      BY <2>2, <2>3, <3>1, RegroupedCovers
    <3>4. (N = {}) <=> (M = {})
      BY <3>3
    <3>5. {g[p] : p \in N} \subseteq {f[p] : p \in M}
      <4>1. \A q \in N : \E e \in M : f[e] = g[q]
        BY <3>3
      <4> HIDE DEF M, N
      <4> QED BY <4>1
    <3> QED BY <3>2, <3>4, <3>5
  <2>5. Trie4!Address = Address
    BY DEF Trie4!Address, Trie4!Top, Address, Top
  <2>6. Trie4!Promise!Aggregate
    <3>1. \A S : Trie4!Promise!Cardinality(S) = Cardinality(S)
      BY DEF Trie4!Promise!Cardinality, Cardinality
    <3>2. Trie4!Contents = f /\ Trie4!Contents' = g
      BY <1>1, <2>1 DEF f, g
    <3> QED BY <2>1, <2>2, <2>4, <2>5, <3>1, <3>2 DEF Trie4!Promise!Aggregate
  <2> QED BY <2>1, <2>2, <2>6 DEF Trie4Inv, Trie4!Promise!Step, Trie4!Promise!Next, r
<1>12. Trie4!Entry \subseteq Prefix
  BY <1>3
<1> QED BY <1>0, <1>4, <1>5, <1>6, <1>7, <1>8, <1>9, <1>10, <1>11, <1>12 DEF Trie4!Next

LEMMA Trie4Lookups == Trie4Inv => Trie4!LookupsExact
<1> SUFFICES ASSUME Trie4Inv, NEW p \in Prefix
             PROVE  /\ Trie4!T!AnswersExact(store, p, Trie4!T!find_matches(store, p), Trie4!T!find_longest(store, p),
                                            Trie4!T!find(store, p))
                    /\ Trie4!Seqs!ToSet(Trie4!T!find_wider(store, p)) = {q \in Trie4!Entry : Trie4!Contains(q, p)} \ {p}
  <2>1. Trie4!Prefix = Prefix
    BY DEF Trie4!Prefix, Trie4!Address, Trie4!Top, Prefix, Address, Top
  <2> QED BY <2>1 DEF Trie4!LookupsExact
<1>1. TP4!Good(store)
  BY DEF Trie4Inv
<1>2. TP4!AnswersExact(store, p, TP4!find_matches(store, p), TP4!find_longest(store, p), TP4!find(store, p))
  BY <1>1, Laws4, TP4!AnswersAreExact
<1> DEFINE s == TP4!find_wider(store, p)
<1>3. {s[i] : i \in DOMAIN s} = {q \in TP4!Entry(store) : Trie4!Contains(q, p)} \ {p}
  BY <1>1, Laws4, TP4!WiderAre
<1>4. Trie4!Entry = TP4!Entry(store) /\ Trie4!T!find_wider(store, p) = s
  BY SameParts4, SameFind4 DEF Trie4!Entry
<1> HIDE DEF s
<1>5. Trie4!Seqs!ToSet(s) = {s[i] : i \in DOMAIN s}
  BY DEF Trie4!Seqs!ToSet
<1> QED BY <1>2, <1>3, <1>4, <1>5, SameExact4, SameFind4

LEMMA Trie4Intact == Trie4Inv => Trie4!Intact
<1> SUFFICES ASSUME Trie4Inv PROVE Trie4!Intact
  OBVIOUS
<1>1. TP4!Good(store)
  BY DEF Trie4Inv
<1>2. TP4!Intact(store) /\ (TP4!Iterable(store) => TP4!VisitsExact(store, TP4!Entries(store), TP4!ReverseEntries(store)))
  BY <1>1, Laws4, TP4!GoodIsIntact, TP4!VisitsAreExact
<1> QED BY <1>2, SameExact4, SameWalks4 DEF Trie4!Intact

LEMMA Trie4Kept == Trie4Inv => Trie4!AggregationKeepsRoutes
<1> SUFFICES ASSUME Trie4Inv, Trie4!Aggregate, NEW a \in Address
             PROVE  Trie4!RouteOf(store, a) = Trie4!RouteOf(store', a)
  <2>1. Trie4!Address = Address
    BY DEF Trie4!Address, Trie4!Top, Address, Top
  <2> QED BY <2>1 DEF Trie4!AggregationKeepsRoutes
<1> DEFINE s == store
           r == store'
           f == s.val
           g == r.val
           h == New(a, W)
           e == Trie4!T!find_longest(s, Trie4!New(a, W))
           m == Trie4!T!find_longest(r, Trie4!New(a, W))
<1>1. TP4!Good(s) /\ TP4!Iterable(s) /\ r = Trie4!Aggregated(s)
  BY SameWalks4 DEF Trie4Inv, Trie4!Aggregate
<1> HIDE DEF s, r
<1>2. TP4!Good(r) /\ Regrouped(f, g)
  BY <1>1, AggregatedIs
<1>3. DOMAIN f \subseteq Prefix
  BY <1>1, GoodIs4
<1>4. h \in Prefix /\ h.len = W
  BY HostOf
<1>5. Trie4!T!Nil = TP4!Nil
  BY SameParts4
<1>6. /\ Trie4!RouteOf(s, a) = IF e = TP4!Nil THEN Trie4!T!NoValue ELSE f[e]
      /\ Trie4!RouteOf(r, a) = IF m = TP4!Nil THEN Trie4!T!NoValue ELSE g[m]
  BY <1>5 DEF Trie4!RouteOf
<1> HIDE DEF h, e, m, f, g
<1>7. \/ e = TP4!Nil /\ ~\E q \in DOMAIN f : Has(q, h)
      \/ e # TP4!Nil /\ LongestMatch(f, h, e)
  BY <1>1, FoundLongest4 DEF e, h, f
<1>8. \/ m = TP4!Nil /\ ~\E q \in DOMAIN g : Has(q, h)
      \/ m # TP4!Nil /\ LongestMatch(g, h, m)
  BY <1>2, FoundLongest4 DEF m, h, g
<1>9. (\E q \in DOMAIN g : Has(q, h)) <=> (\E q \in DOMAIN f : Has(q, h))
  BY <1>2, <1>3, <1>4, RegroupedCovers
<1>10. Trie4!RouteOf(s, a) = Trie4!RouteOf(r, a)
  <2>1. CASE e = TP4!Nil
    <3>1. m = TP4!Nil
      BY <1>7, <1>8, <1>9, <2>1 DEF LongestMatch
    <3> QED BY <1>6, <2>1, <3>1
  <2>2. CASE e # TP4!Nil
    <3>1. m # TP4!Nil /\ LongestMatch(f, h, e) /\ LongestMatch(g, h, m)
      BY <1>7, <1>8, <1>9, <2>2 DEF LongestMatch
    <3>2. g[m] = f[e]
      BY <1>2, <1>3, <1>4, <3>1, RegroupedKeeps
    <3> QED BY <1>6, <2>2, <3>1, <3>2
  <2> QED BY <2>1, <2>2
<1> QED BY <1>10 DEF s, r

-----------------------------------------------------------------------------
(* The loops of Ipv4RangePrefixes().                                       *)

\* The loop ends, for the lengths get less: at length 0 Set() refuses.
LEMMA WidestExists ==
  ASSUME NEW a \in Address, NEW z \in Address
  PROVE  \E f : IsWidest(a, z, f)
<1> DEFINE V == Prefix
           Step(f) == [p \in V |-> IF p.len # 0 /\ Fits(a, z, p.len - 1) THEN f[New(a, p.len - 1)] ELSE p]
           G == [f \in [V -> V] |-> Step(f)]
           rank == [p \in V |-> p.len]
<1>1. W \in Nat /\ \A p \in V : p.len \in 0..W
  BY WAssumption, PrefixIs
<1>2. \A p \in V : p.len # 0 => New(a, p.len - 1) \in V /\ New(a, p.len - 1).len = p.len - 1
  <2> SUFFICES ASSUME NEW p \in V, p.len # 0
               PROVE  New(a, p.len - 1) \in V /\ New(a, p.len - 1).len = p.len - 1
    OBVIOUS
  <2>1. p.len - 1 \in 0..W
    BY <1>1
  <2> QED BY <2>1, NewIs
<1>3. [p \in V |-> p] \in [V -> V]
  OBVIOUS
<1> HIDE DEF V
<1>4. ASSUME NEW f \in [V -> V] PROVE Step(f) \in [V -> V]
  BY <1>2
<1>5. G \in [[V -> V] -> [V -> V]] /\ \A f \in [V -> V] : G[f] = Step(f)
  BY <1>4
<1>6. rank \in [V -> Nat] /\ \A p \in V : rank[p] = p.len
  BY <1>1
<1>7. ASSUME NEW f \in [V -> V], NEW g \in [V -> V], NEW p \in V,
             \A q \in V : rank[q] < rank[p] => f[q] = g[q]
      PROVE  G[f][p] = G[g][p]
  <2>1. p.len # 0 => f[New(a, p.len - 1)] = g[New(a, p.len - 1)]
    <3> SUFFICES ASSUME p.len # 0 PROVE f[New(a, p.len - 1)] = g[New(a, p.len - 1)]
      OBVIOUS
    <3>1. New(a, p.len - 1) \in V /\ New(a, p.len - 1).len < p.len
      BY <1>1, <1>2
    <3> HIDE DEF rank
    <3>2. rank[New(a, p.len - 1)] < rank[p]
      BY <1>6, <3>1
    <3> QED BY <1>7, <3>1, <3>2
  <2>2. Step(f)[p] = Step(g)[p]
    BY <2>1
  <2> HIDE DEF G, Step
  <2> QED BY <1>5, <2>2
<1> HIDE DEF G, rank, Step
<1>8. TP4!Recursion(V, V, G, rank)
  <2>1. [V -> V] # {}
    BY <1>3
  <2> QED BY <1>5, <1>6, <1>7, <2>1 DEF TP4!Recursion
<1>9. PICK f \in [V -> V] : f = G[f]
  BY <1>8, TP4!FixedPoint
<1>10. f = [p \in V |-> IF p.len # 0 /\ Fits(a, z, p.len - 1) THEN f[New(a, p.len - 1)] ELSE p]
  BY <1>5, <1>9 DEF Step
<1>11. ASSUME NEW p \in V
       PROVE  f[p] = LET wider == Ranges!Set(p, a, (p.len - 1) % 256)
                     IN  IF Ranges!FirstAddress(wider) >= a /\ Ranges!LastAddress(wider) <= z THEN f[wider] ELSE p
  <2>1. p \in Prefix
    BY DEF V
  <2>4. Ranges!Set(p, a, (p.len - 1) % 256) = IF p.len = 0 THEN p ELSE New(a, p.len - 1)
    BY ONLY a \in Address, <2>1, WiderOnce
  <2>2. CASE p.len = 0
    <3>1. Ranges!Set(p, a, (p.len - 1) % 256) = p
      BY ONLY <2>2, <2>4
    <3>2. f[p] = p
      BY <1>10, <2>2
    <3> QED BY <3>1, <3>2
  <2>3. CASE p.len # 0
    <3> DEFINE w == New(a, p.len - 1)
    <3>1. Ranges!Set(p, a, (p.len - 1) % 256) = w
      BY ONLY <2>3, <2>4
    <3>2. Ranges!FirstAddress(w) = Masked(a, p.len - 1) /\ Ranges!LastAddress(w) = End(Masked(a, p.len - 1), p.len - 1)
      BY NamesRanges DEF New, End
    <3>3. f[p] = IF Fits(a, z, p.len - 1) THEN f[w] ELSE p
      BY <1>10, <2>3
    <3> QED BY <3>1, <3>2, <3>3 DEF Fits
  <2> QED BY <2>2, <2>3
<1>12. f = [p \in V |-> LET wider == Ranges!Set(p, a, (p.len - 1) % 256)
                        IN  IF Ranges!FirstAddress(wider) >= a /\ Ranges!LastAddress(wider) <= z THEN f[wider] ELSE p]
  BY <1>11
<1> QED BY <1>12 DEF IsWidest, V

\* What the loop finds fits, and nothing that is wider by a bit.
LEMMA WidestIs ==
  ASSUME NEW a \in Address, NEW z \in Address, a <= z, ~(a = 0 /\ z = Top)
  PROVE  \E m \in 1..W : /\ Ranges!WidestFrom(a, z) = New(a, m)
                         /\ Fits(a, z, m) /\ ~Fits(a, z, m - 1)
<1>0. W \in Nat \ {0} /\ W \in 0..W /\ 0 \in 0..W /\ a \in Nat /\ z \in Nat
  BY WAssumption, AddressIs
<1> DEFINE f == CHOOSE g : IsWidest(a, z, g)
           fits(l) == Fits(a, z, l)
<1>1. IsWidest(a, z, f)
  <2>1. \E g : IsWidest(a, z, g)
    BY WidestExists
  <2> QED BY <2>1
<1>2. Ranges!WidestFrom(a, z) = f[New(a, W)]
  BY NamesRanges DEF Ranges!WidestFrom, IsWidest
<1> HIDE DEF f
<1>3. ASSUME NEW l \in 1..W
      PROVE  f[New(a, l)] = IF fits(l - 1) THEN f[New(a, l - 1)] ELSE New(a, l)
  <2> DEFINE p == New(a, l)
             w == New(a, l - 1)
  <2>1. p \in Prefix /\ p.len = l /\ l # 0 /\ l - 1 \in 0..W
    BY <1>0, NewIs
  <2>2. Ranges!Set(p, a, (p.len - 1) % 256) = w
    BY <2>1, WiderOnce
  <2>3. Ranges!FirstAddress(w) = Masked(a, l - 1) /\ Ranges!LastAddress(w) = End(Masked(a, l - 1), l - 1)
    BY NamesRanges DEF New, End
  <2>4. f[p] = IF Ranges!FirstAddress(w) >= a /\ Ranges!LastAddress(w) <= z THEN f[w] ELSE p
    <3> HIDE DEF p, w
    <3> QED BY <1>1, <2>1, <2>2 DEF IsWidest
  <2> QED BY <2>3, <2>4 DEF Fits
<1>4. fits(W)
  <2>1. Masked(a, W) <= a /\ a <= End(Masked(a, W), W) /\ Masked(a, W) \in Nat /\ Unit(W) = 1
    BY <1>0, BlockIs, UnitIs
  <2> QED BY <1>0, <2>1 DEF Fits, End
<1>5. ~fits(0)
  <2> SUFFICES ASSUME fits(0) PROVE FALSE
    OBVIOUS
  <2>1. Masked(a, 0) \in Nets(0) /\ End(Masked(a, 0), 0) \in Address /\ Masked(a, 0) \in Nat /\ Masked(a, 0) <= a
    BY <1>0, MaskedNet, BlockIs
  <2>2. Unit(0) \in Nat \ {0} /\ Address = 0..(Unit(0) - 1) /\ Top = Unit(0) - 1
    <3>1. W - 0 = W
      BY <1>0
    <3> QED BY <1>0, <3>1, UnitIs, AddressIs DEF Top, Unit
  <2> QED BY <1>0, <2>1, <2>2 DEF Fits, End
<1> DEFINE S == {l \in 0..W : \A j \in l..W : fits(j)}
<1> HIDE DEF fits
<1>6. W \in S /\ S \in SUBSET Nat
  BY <1>0, <1>4
<1>7. PICK m \in S : \A l \in S : m <= l
  BY <1>6, LeastOf
<1>8. m \in 1..W /\ \A j \in m..W : fits(j)
  <2>1. m # 0
    BY <1>0, <1>5, <1>7
  <2> QED BY <1>0, <1>7, <2>1
<1>9. ~fits(m - 1)
  <2> SUFFICES ASSUME fits(m - 1) PROVE FALSE
    OBVIOUS
  <2>1. \A j \in (m - 1)..W : j = m - 1 \/ j \in m..W
    BY <1>0, <1>8
  <2>2. m - 1 \in S
    BY <1>0, <1>8, <2>1
  <2> QED BY <1>7, <1>8, <2>2
<1> HIDE DEF S
<1>10. f[New(a, W)] = f[New(a, m)]
  <2> DEFINE T == {j \in m..W : f[New(a, j)] # f[New(a, m)]}
  <2> SUFFICES ASSUME T # {} PROVE FALSE
    BY <1>0, <1>8
  <2>1. T \in SUBSET Nat
    BY <1>0, <1>8
  <2>2. PICK j \in T : \A i \in T : j <= i
    BY <2>1, LeastOf
  <2>3. j # m /\ j \in 1..W /\ j - 1 \in m..W
    BY <1>0, <1>8, <2>2
  <2>4. f[New(a, j - 1)] = f[New(a, m)]
    BY <1>0, <1>8, <2>2, <2>3
  <2>5. fits(j - 1)
    BY <1>8, <2>3
  <2>6. f[New(a, j)] = f[New(a, j - 1)]
    BY <1>3, <2>3, <2>5
  <2> QED BY <2>2, <2>4, <2>6
<1>11. f[New(a, m)] = New(a, m)
  BY <1>3, <1>8, <1>9
<1>12. fits(m)
  BY <1>0, <1>8
<1> QED BY <1>2, <1>8, <1>9, <1>10, <1>11, <1>12 DEF fits

LEMMA WidestFrom ==
  ASSUME NEW a \in Address, NEW z \in Address, a <= z, ~(a = 0 /\ z = Top)
  PROVE  /\ Widest(a, z) \in Prefix /\ Widest(a, z).net = a
         /\ Widest(a, z).len \in 1..W
         /\ EndFrom(a, z) \in a..z
         /\ ~Fits(a, z, Widest(a, z).len - 1)
         /\ Ranges!LastAddress(Widest(a, z)) = EndFrom(a, z)
         /\ EndFrom(a, z) < z => Ranges!IncAddress(EndFrom(a, z)) = EndFrom(a, z) + 1
<1>0. W \in Nat \ {0} /\ a \in Nat /\ z \in Nat /\ Top \in Nat
  BY WAssumption, AddressIs
<1>1. PICK m \in 1..W : Widest(a, z) = New(a, m) /\ Fits(a, z, m) /\ ~Fits(a, z, m - 1)
  BY WidestIs DEF Widest
<1>2. m \in 0..W
  BY <1>0
<1>3. New(a, m) \in Prefix /\ New(a, m).len = m /\ New(a, m).net = Masked(a, m)
  BY <1>2, NewIs DEF New
<1>4. Masked(a, m) = a /\ End(a, m) <= z /\ a <= End(a, m) /\ End(a, m) \in Address
  <2>1. Masked(a, m) \in Nat /\ Masked(a, m) <= a /\ a <= End(Masked(a, m), m) /\ End(Masked(a, m), m) \in Address
    BY <1>2, BlockIs
  <2>2. Masked(a, m) >= a /\ End(Masked(a, m), m) <= z
    BY <1>1 DEF Fits
  <2>3. Masked(a, m) = a
    BY <1>0, <2>1, <2>2
  <2> QED BY <2>1, <2>2, <2>3
<1>5. EndFrom(a, z) = End(a, m) /\ End(a, m) \in a..z
  BY <1>0, <1>1, <1>3, <1>4, AddressIs DEF EndFrom
<1>6. Ranges!LastAddress(Widest(a, z)) = End(a, m)
  BY <1>1, <1>3, <1>4, NamesRanges DEF End
<1>7. z <= Top
  BY <1>0 DEF Address
<1>8. EndFrom(a, z) < z => Ranges!IncAddress(EndFrom(a, z)) = EndFrom(a, z) + 1
  BY <1>0, <1>5, <1>7, NamesRanges
<1> QED BY <1>1, <1>3, <1>4, <1>5, <1>6, <1>8

\* The recursion along the range ends.
LEMMA FromExists ==
  ASSUME NEW x \in Address, NEW z \in Address, x <= z, ~(x = 0 /\ z = Top)
  PROVE  \E f \in [x..z -> Seq(Prefix)] : IsFrom(x, z, f)
<1> DEFINE D == x..z
           V == Seq(Prefix)
           Step(f) == [a \in D |-> <<Widest(a, z)>> \o (IF EndFrom(a, z) < z THEN f[EndFrom(a, z) + 1] ELSE <<>>)]
           G == [f \in [D -> V] |-> Step(f)]
           rank == [a \in D |-> z - a]
<1>0. x \in Nat /\ z \in Nat /\ z <= Top /\ Top \in Nat /\ Address = 0..Top
  BY AddressIs DEF Address
<1>1. \A a \in D : a \in Address /\ a <= z /\ ~(a = 0 /\ z = Top) /\ z - a \in Nat
  BY <1>0
<1>2. \A a \in D : <<Widest(a, z)>> \in V /\ EndFrom(a, z) \in a..z
  <2> SUFFICES ASSUME NEW a \in D PROVE <<Widest(a, z)>> \in V /\ EndFrom(a, z) \in a..z
    OBVIOUS
  <2>1. Widest(a, z) \in Prefix /\ EndFrom(a, z) \in a..z
    BY <1>1, WidestFrom
  <2> QED BY <2>1
<1>3. \A a \in D : EndFrom(a, z) < z => EndFrom(a, z) + 1 \in D /\ z - (EndFrom(a, z) + 1) < z - a
  <2> SUFFICES ASSUME NEW a \in D, EndFrom(a, z) < z
               PROVE EndFrom(a, z) + 1 \in D /\ z - (EndFrom(a, z) + 1) < z - a
    OBVIOUS
  <2>1. EndFrom(a, z) \in a..z
    BY <1>2
  <2> QED BY <1>0, <2>1
<1>4. \A s, t \in V : s \o t \in V
  OBVIOUS
<1>5. <<>> \in V /\ [a \in D |-> <<>>] \in [D -> V]
  OBVIOUS
<1>6. rank \in [D -> Nat] /\ \A a \in D : rank[a] = z - a
  BY <1>1
<1> HIDE DEF D, V, rank
<1>7. ASSUME NEW f \in [D -> V] PROVE Step(f) \in [D -> V]
  <2> SUFFICES ASSUME NEW a \in D
               PROVE  <<Widest(a, z)>> \o (IF EndFrom(a, z) < z THEN f[EndFrom(a, z) + 1] ELSE <<>>) \in V
    OBVIOUS
  <2>1. (IF EndFrom(a, z) < z THEN f[EndFrom(a, z) + 1] ELSE <<>>) \in V
    BY <1>3, <1>5
  <2> QED BY <1>2, <1>4, <2>1
<1>8. G \in [[D -> V] -> [D -> V]] /\ \A f \in [D -> V] : G[f] = Step(f)
  BY <1>7
<1>9. ASSUME NEW f \in [D -> V], NEW g \in [D -> V], NEW a \in D,
             \A b \in D : rank[b] < rank[a] => f[b] = g[b]
      PROVE  G[f][a] = G[g][a]
  <2>1. EndFrom(a, z) < z => f[EndFrom(a, z) + 1] = g[EndFrom(a, z) + 1]
    BY <1>3, <1>6, <1>9
  <2>2. Step(f)[a] = Step(g)[a]
    BY <2>1
  <2> HIDE DEF G, Step
  <2> QED BY <1>8, <2>2
<1> HIDE DEF G, Step
<1>10. TP4!Recursion(D, V, G, rank)
  <2>1. [D -> V] # {}
    BY <1>5
  <2> QED BY <1>6, <1>8, <1>9, <2>1 DEF TP4!Recursion
<1>11. PICK f \in [D -> V] : f = G[f]
  BY <1>10, TP4!FixedPoint
<1>12. f = [a \in D |-> <<Widest(a, z)>> \o (IF EndFrom(a, z) < z THEN f[EndFrom(a, z) + 1] ELSE <<>>)]
  BY <1>8, <1>11 DEF Step
<1>13. ASSUME NEW a \in D
       PROVE  f[a] = LET p == Ranges!WidestFrom(a, z)
                     IN  <<p>> \o (IF Ranges!LastAddress(p) < z THEN f[Ranges!IncAddress(Ranges!LastAddress(p))] ELSE <<>>)
  <2>1. /\ Ranges!LastAddress(Widest(a, z)) = EndFrom(a, z)
        /\ EndFrom(a, z) < z => Ranges!IncAddress(EndFrom(a, z)) = EndFrom(a, z) + 1
    BY <1>1, WidestFrom
  <2>2. f[a] = <<Widest(a, z)>> \o (IF EndFrom(a, z) < z THEN f[EndFrom(a, z) + 1] ELSE <<>>)
    BY <1>12
  <2>3. Widest(a, z) = Ranges!WidestFrom(a, z)
    BY DEF Widest
  <2>4. (IF EndFrom(a, z) < z THEN f[EndFrom(a, z) + 1] ELSE <<>>)
          = (IF Ranges!LastAddress(Widest(a, z)) < z THEN f[Ranges!IncAddress(Ranges!LastAddress(Widest(a, z)))] ELSE <<>>)
    BY <2>1
  <2> QED BY <2>2, <2>3, <2>4
<1>14. IsFrom(x, z, f)
  BY <1>12, <1>13 DEF IsFrom, D
<1> QED BY <1>11, <1>14 DEF D, V

\* After the widest prefix at a, none that started before goes on in the range.
LEMMA StaysClosed ==
  ASSUME NEW x \in Address, NEW z \in Address, NEW a \in x..z, a \in Address, ~(x = 0 /\ z = Top), Closed(x, a, z)
  PROVE  /\ EndFrom(a, z) < z => Closed(x, EndFrom(a, z) + 1, z)
         /\ LET k == Widest(a, z).len - 1 IN ~(Masked(a, k) >= x /\ End(Masked(a, k), k) <= z)
<1> DEFINE m == Widest(a, z).len
           e == EndFrom(a, z)
<1>0. x \in Nat /\ z \in Nat /\ a \in Nat /\ W \in Nat \ {0} /\ Address \subseteq Nat
  BY AddressIs, WAssumption
<1>1. /\ a <= z /\ ~(a = 0 /\ z = Top)
      /\ m \in 1..W /\ e \in a..z /\ ~Fits(a, z, m - 1) /\ e = End(a, m)
      /\ Widest(a, z) \in Prefix /\ Widest(a, z).net = a
  <2>1. a <= z /\ ~(a = 0 /\ z = Top)
    BY <1>0
  <2> QED BY <2>1, WidestFrom DEF EndFrom
<1>2. a \in Nets(m)
  BY <1>1 DEF Nets, Prefix, Unit
<1> HIDE DEF m, e
<1>3. m \in 0..W /\ m - 1 \in 0..W /\ m - 1 \in 0..m
  BY <1>0, <1>1
<1>4. e \in Address /\ Masked(e, m) = a /\ Masked(a, m) = a
  <2>1. Masked(a, m) = a
    BY <1>2, <1>3, NetIs
  <2>2. e \in Address
    BY <1>1, <1>3, <2>1, BlockIs
  <2>3. a <= e /\ e <= End(a, m)
    BY <1>0, <1>1, <2>2
  <2> QED BY <1>2, <1>3, <2>1, <2>2, <2>3, BlockIs
<1>5. ASSUME NEW l \in 0..W, NEW n \in Nets(l), e < z, x <= n, n < e + 1, e + 1 <= End(n, l)
      PROVE  End(n, l) > z
  <2>0. n \in Address /\ n \in Nat /\ Masked(n, l) = n /\ End(n, l) \in Nat /\ e \in Nat
    <3>1. n \in Address /\ n \in Nat /\ Masked(n, l) = n
      BY NetIs
    <3>2. End(n, l) \in Address
      BY <3>1, BlockIs
    <3> QED BY <1>0, <1>4, <3>1, <3>2
  <2>1. CASE n < a
    <3>1. a <= End(n, l)
      BY <1>0, <1>1, <1>5, <2>0
    <3> QED BY <1>5, <2>1, <3>1 DEF Closed
  <2>2. CASE n >= a
    <3>1. Masked(e, l) = n
      <4>1. n <= e /\ e <= End(n, l)
        BY <1>5, <2>0
      <4> QED BY <1>4, <4>1, BlockIs
    <3>2. l < m
      <4> SUFFICES ASSUME l >= m PROVE FALSE
        BY <1>3
      <4>1. m \in 0..l
        BY <1>3
      <4>2. End(Masked(e, l), l) <= End(Masked(e, m), m)
        BY <1>4, <4>1, WiderBlock
      <4> QED BY <1>1, <1>4, <1>5, <2>0, <3>1, <4>2
    <3>3. l \in 0..m /\ l \in 0..(m - 1)
      BY <1>3, <3>2
    <3>4. n = a
      <4>1. Masked(e, l) <= Masked(e, m)
        BY <1>3, <1>4, <3>3, WiderBlock
      <4> QED BY <1>0, <1>4, <2>0, <2>2, <3>1, <4>1
    <3>5. Masked(a, l) <= Masked(a, m - 1) /\ End(Masked(a, m - 1), m - 1) <= End(Masked(a, l), l)
      BY <1>3, <3>3, WiderBlock
    <3>6. Masked(a, m - 1) >= a
      BY <2>0, <3>4, <3>5
    <3>7. ~(End(Masked(a, m - 1), m - 1) <= z)
      BY <1>1, <3>6 DEF Fits
    <3>8. End(Masked(a, m - 1), m - 1) \in Nat
      BY <1>0, <1>3, BlockIs
    <3> QED BY <1>0, <2>0, <3>4, <3>5, <3>7, <3>8
  <2> QED BY <1>0, <2>0, <2>1, <2>2
<1>6. ASSUME Masked(a, m - 1) >= x, End(Masked(a, m - 1), m - 1) <= z PROVE FALSE
  <2> DEFINE n == Masked(a, m - 1)
  <2>1. n \in Nets(m - 1) /\ n \in Nat /\ n <= a /\ a <= End(n, m - 1) /\ End(n, m - 1) \in Nat
    BY <1>0, <1>3, MaskedNet, BlockIs
  <2>2. n # a
    BY <1>0, <1>1, <1>6 DEF Fits
  <2> HIDE DEF n
  <2>3. n < a /\ x <= n
    BY <1>0, <1>6, <2>1, <2>2 DEF n
  <2>4. End(n, m - 1) > z
    BY <1>3, <2>1, <2>3 DEF Closed
  <2> QED BY <1>0, <1>6, <2>1, <2>4 DEF n
<1> QED BY <1>5, <1>6 DEF Closed, m, e

\* The prefixes of a range, from each address at which one of them begins.
LEMMA CoveringFrom ==
  ASSUME NEW x \in Address, NEW z \in Address, x <= z, ~(x = 0 /\ z = Top),
         NEW f, IsFrom(x, z, f)
  PROVE  Covering(x, x, z, f[x])
<1> DEFINE bad == {i \in 0..(z - x) : Closed(x, z - i, z) /\ ~Covering(x, z - i, z, f[z - i])}
<1>0. x \in Nat /\ z \in Nat /\ z <= Top /\ Top \in Nat /\ Address = 0..Top
  BY AddressIs DEF Address
<1>1. Closed(x, x, z)
  <2> SUFFICES ASSUME NEW l \in 0..W, NEW n \in Nets(l), x <= n, n < x PROVE FALSE
    BY DEF Closed
  <2>1. n \in Nat
    BY NetIs
  <2> QED BY <1>0, <2>1
<1>2. ASSUME bad # {} PROVE FALSE
  <2>1. bad \in SUBSET Nat
    BY <1>0
  <2> HIDE DEF bad
  <2>2. PICK i \in bad : \A j \in bad : i <= j
    BY <1>2, <2>1, LeastOf
  <2> DEFINE a == z - i
             p == Widest(a, z)
             e == EndFrom(a, z)
             t == f[e + 1]
  <2>3. i \in 0..(z - x) /\ Closed(x, a, z) /\ ~Covering(x, a, z, f[a])
    BY <2>2 DEF bad
  <2>4. a \in x..z /\ a \in Address /\ a <= z /\ ~(a = 0 /\ z = Top) /\ a \in Nat
    BY <1>0, <2>3
  <2> HIDE DEF a
  <2>5. /\ p \in Prefix /\ p.net = a /\ p.len \in 1..W /\ e \in a..z /\ e = End(a, p.len)
        /\ Ranges!LastAddress(p) = e /\ (e < z => Ranges!IncAddress(e) = e + 1)
    BY <2>4, WidestFrom DEF EndFrom
  <2>6. /\ e < z => Closed(x, e + 1, z)
        /\ ~(Masked(a, p.len - 1) >= x /\ End(Masked(a, p.len - 1), p.len - 1) <= z)
    BY <2>3, <2>4, StaysClosed
  <2>7. f[a] = <<p>> \o (IF e < z THEN t ELSE <<>>)
    <3>1. f[a] = LET w == Ranges!WidestFrom(a, z)
                 IN  <<w>> \o (IF Ranges!LastAddress(w) < z THEN f[Ranges!IncAddress(Ranges!LastAddress(w))] ELSE <<>>)
      BY <2>4 DEF IsFrom
    <3>2. p = Ranges!WidestFrom(a, z)
      BY DEF Widest
    <3> HIDE DEF p, e
    <3>3. f[a] = <<p>> \o (IF e < z THEN f[Ranges!IncAddress(e)] ELSE <<>>)
      BY <2>5, <3>1, <3>2
    <3>4. (IF e < z THEN f[Ranges!IncAddress(e)] ELSE <<>>) = IF e < z THEN t ELSE <<>>
      BY <2>5
    <3> QED BY <3>3, <3>4
  <2>8. CASE e < z
    <3>1. e + 1 \in x..z /\ z - (e + 1) \in 0..(z - x) /\ z - (e + 1) < i /\ z - (z - (e + 1)) = e + 1
      BY <1>0, <2>3, <2>4, <2>5, <2>8 DEF a
    <3>2. Covering(x, e + 1, z, t)
      <4>1. z - (e + 1) \notin bad
        <5> HIDE DEF e
        <5> QED BY <1>0, <2>2, <2>3, <3>1
      <4> HIDE DEF e
      <4> QED BY <2>6, <2>8, <3>1, <4>1 DEF bad
    <3>3. f[a] = <<p>> \o t
      BY <2>7, <2>8
    <3> HIDE DEF p, e, t
    <3>4. t \in Seq(Prefix) /\ t # <<>> /\ Len(t) \in Nat \ {0}
      BY <3>2 DEF Covering
    <3> DEFINE s == <<p>> \o t
    <3>5. /\ s \in Seq(Prefix) /\ Len(s) = Len(t) + 1 /\ s # <<>>
          /\ s[1] = p
          /\ \A j \in 1..Len(t) : s[j + 1] = t[j]
      BY <2>5, <3>4
    <3>6. s[Len(s)] = t[Len(t)]
      BY <3>4, <3>5
    <3> HIDE DEF s
    <3>7. ASSUME NEW j \in 1..(Len(s) - 1) PROVE s[j + 1].net = End(s[j].net, s[j].len) + 1
      <4>1. CASE j = 1
        <5>1. s[2] = t[1] /\ s[1] = p
          BY <3>4, <3>5
        <5> QED BY <2>5, <3>2, <4>1, <5>1 DEF Covering
      <4>2. CASE j # 1
        <5>1. j - 1 \in 1..(Len(t) - 1) /\ j - 1 \in 1..Len(t) /\ j \in 1..Len(t) /\ j - 1 + 1 = j
          BY <3>4, <3>5, <4>2
        <5>2. s[j + 1] = t[j] /\ s[j] = t[j - 1]
          BY <3>5, <5>1
        <5>3. t[(j - 1) + 1].net = End(t[j - 1].net, t[j - 1].len) + 1
          BY <3>2, <5>1 DEF Covering
        <5> QED BY <5>1, <5>2, <5>3
      <4> QED BY <4>1, <4>2
    <3>8. ASSUME NEW j \in 1..Len(s)
          PROVE  /\ s[j].len # 0
                 /\ ~(/\ Masked(s[j].net, s[j].len - 1) >= x
                      /\ End(Masked(s[j].net, s[j].len - 1), s[j].len - 1) <= z)
      <4>1. CASE j = 1
        BY <2>5, <2>6, <3>5, <4>1
      <4>2. CASE j # 1
        <5>1. j - 1 \in 1..Len(t) /\ j - 1 + 1 = j
          BY <3>4, <3>5, <4>2
        <5>2. s[j] = t[j - 1]
          BY <3>5, <5>1
        <5> QED BY <3>2, <5>1, <5>2 DEF Covering
      <4> QED BY <4>1, <4>2
    <3>9. End(s[Len(s)].net, s[Len(s)].len) = z
      BY <3>2, <3>6 DEF Covering
    <3>10. Covering(x, a, z, s)
      BY <2>5, <3>5, <3>7, <3>8, <3>9 DEF Covering
    <3> QED BY <2>3, <3>3, <3>10 DEF s
  <2>9. CASE ~(e < z)
    <3>1. e = z
      BY <1>0, <2>4, <2>5, <2>9
    <3>2. f[a] = <<p>>
      BY <2>7, <2>9
    <3> HIDE DEF p, e
    <3> DEFINE s == <<p>>
    <3>3. s \in Seq(Prefix) /\ s # <<>> /\ Len(s) = 1 /\ s[1] = p
      BY <2>5
    <3>4. \A j \in 1..Len(s) : j = 1
      BY <3>3
    <3>5. 1..(Len(s) - 1) = {}
      BY <3>3
    <3> HIDE DEF s
    <3>6. s[1].net = a /\ End(s[1].net, s[1].len) = z /\ s[1].len # 0
      <4>1. p.net = a /\ p.len # 0 /\ End(a, p.len) = z
        BY <2>5, <3>1
      <4>2. s[1] = p
        BY <3>3
      <4> QED BY <4>1, <4>2
    <3>7. \A j \in 1..Len(s) :
             /\ s[j].len # 0
             /\ ~(/\ Masked(s[j].net, s[j].len - 1) >= x
                  /\ End(Masked(s[j].net, s[j].len - 1), s[j].len - 1) <= z)
      <4>1. s[1].net = a /\ s[1].len = p.len
        BY <2>5, <3>3
      <4> QED BY <2>6, <3>4, <3>6, <4>1
    <3>8. Covering(x, a, z, s)
      BY <3>3, <3>5, <3>6, <3>7 DEF Covering
    <3> QED BY <2>3, <3>2, <3>8 DEF s
  <2> QED BY <2>8, <2>9
<1> HIDE DEF bad
<1>3. z - x \in 0..(z - x) /\ z - (z - x) = x
  BY <1>0
<1> QED BY <1>1, <1>2, <1>3 DEF bad

LEMMA PrefixesCover ==
  ASSUME NEW x \in Address, NEW z \in Address, x <= z, ~(x = 0 /\ z = Top)
  PROVE  Covering(x, x, z, Ranges!PrefixesOf(x, z))
<1> DEFINE f == CHOOSE g : IsFrom(x, z, g)
<1>1. x \in x..z /\ x \in Nat /\ z \in Nat
  BY AddressIs
<1>2. Ranges!PrefixesOf(x, z) = f[x]
  BY DEF Ranges!PrefixesOf, IsFrom
<1>3. IsFrom(x, z, f)
  <2>1. \E g : IsFrom(x, z, g)
    BY FromExists
  <2> QED BY <2>1
<1> HIDE DEF f
<1> QED BY <1>2, <1>3, CoveringFrom

\* Ipv4RangePrefixes() makes of two addresses, whichever is the first one, the
\* widest prefixes that the range has.
LEMMA RangesStep == RangesInv /\ Ranges!Next => RangesInv'
<1> SUFFICES ASSUME RangesInv, Ranges!Next PROVE RangesInv'
  OBVIOUS
<1> DEFINE x == IF store[1] < store[2] THEN store[1] ELSE store[2]
           z == IF store[1] < store[2] THEN store[2] ELSE store[1]
<1>0. Address \subseteq Nat /\ Top \in Nat /\ Address = 0..Top
  BY AddressIs DEF Address
<1>1. store \in Address \X Address /\ store' = store /\ ~Ranges!NeverEnds
  BY DEF RangesInv, Ranges!Next, Ranges!RangePrefixes
<1>2. store[1] \in Address /\ store[2] \in Address
  BY <1>1
<1>3. x \in Address /\ z \in Address /\ x <= z
  BY <1>0, <1>2
<1>4. ~(x = 0 /\ z = Top)
  <2>1. ~({store[1], store[2]} = {0, Top})
    BY <1>1, NamesRanges DEF Ranges!NeverEnds
  <2>2. {store[1], store[2]} = {x, z}
    OBVIOUS
  <2> HIDE DEF x, z
  <2> QED BY <2>1, <2>2
<1>5. counters' = Ranges!PrefixesOf(x, z)
  <2>1. counters' = IF store[2] > store[1] THEN Ranges!PrefixesOf(store[1], store[2])
                    ELSE Ranges!PrefixesOf(store[2], store[1])
    BY DEF Ranges!Next, Ranges!RangePrefixes
  <2>2. CASE store[1] < store[2]
    BY <1>0, <1>2, <2>1, <2>2
  <2>3. CASE ~(store[1] < store[2])
    BY <1>0, <1>2, <2>1, <2>3
  <2> QED BY <2>2, <2>3
<1> HIDE DEF x, z
<1>6. Covering(x, x, z, counters')
  BY <1>3, <1>4, <1>5, PrefixesCover
<1> DEFINE s == counters'
<1>7. /\ Ranges!FirstAddress(s[1]) = x /\ Ranges!LastAddress(s[Len(s)]) = z
      /\ \A i \in 1..(Len(s) - 1) : Ranges!FirstAddress(s[i + 1]) = Ranges!LastAddress(s[i]) + 1
      /\ \A i \in 1..Len(s) : ~(/\ Ranges!FirstAddress(Ranges!Wider(s[i], 1)) >= x
                               /\ Ranges!LastAddress(Ranges!Wider(s[i], 1)) <= z)
  <2> HIDE DEF s
  <2> QED BY <1>3, <1>4, <1>6, RangeIsExact DEF s
<1>8. Ranges!RangeExact'
  BY <1>1, <1>7 DEF Ranges!RangeExact, x, z
<1> QED BY <1>1, <1>8 DEF RangesInv

-----------------------------------------------------------------------------
(* AddressesCovered() of Ipv4Routes.                                       *)

LEMMA SumExists ==
  ASSUME NEW S, IsFiniteSet(S), S \subseteq Prefix
  PROVE  \E f : IsSum(S, f)
<1> DEFINE D == SUBSET S
           V == Int
           Step(f) == [s \in D |-> IF s = {} THEN 0 ELSE (f[s \ {Chosen(s)}] + 2^(W - Chosen(s).len)) % 2^W]
           G == [f \in [D -> V] |-> Step(f)]
           rank == [s \in D |-> Cardinality(s)]
<1>1. \A s \in D : IsFiniteSet(s) /\ Cardinality(s) \in Nat
  BY FS_Subset, FS_CardinalityType
<1>2. ASSUME NEW s \in D, s # {}
      PROVE  /\ s \ {Chosen(s)} \in D /\ Cardinality(s \ {Chosen(s)}) < Cardinality(s)
             /\ 2^(W - Chosen(s).len) \in Nat
  <2>1. Chosen(s) \in s
    BY <1>2 DEF Chosen
  <2>2. Cardinality(s \ {Chosen(s)}) = Cardinality(s) - 1
    BY <1>1, <2>1, FS_RemoveElement
  <2>3. Chosen(s).len \in 0..W
    BY <2>1, PrefixIs
  <2>4. 2^(W - Chosen(s).len) \in Nat
    BY <2>3, UnitIs DEF Unit
  <2> QED BY <1>1, <2>2, <2>4
<1>3. 2^W \in Nat \ {0}
  BY WAssumption, PowerPositive
<1>4. rank \in [D -> Nat] /\ \A s \in D : rank[s] = Cardinality(s)
  BY <1>1
<1>5. [s \in D |-> 0] \in [D -> V]
  OBVIOUS
<1> HIDE DEF D, rank
<1>6. ASSUME NEW f \in [D -> V] PROVE Step(f) \in [D -> V]
  <2> SUFFICES ASSUME NEW s \in D, s # {}
               PROVE  (f[s \ {Chosen(s)}] + 2^(W - Chosen(s).len)) % 2^W \in V
    OBVIOUS
  <2> DEFINE u == 2^(W - Chosen(s).len)
             m == 2^W
  <2> DEFINE x == f[s \ {Chosen(s)}]
  <2>1. x \in Int /\ u \in Nat /\ m \in Nat \ {0}
    BY <1>2, <1>3
  <2> HIDE DEF u, m, x
  <2>2. (x + u) % m \in Int
    BY <2>1
  <2> QED BY <2>2 DEF u, m, x
<1>7. G \in [[D -> V] -> [D -> V]] /\ \A f \in [D -> V] : G[f] = Step(f)
  BY <1>6
<1>8. ASSUME NEW f \in [D -> V], NEW g \in [D -> V], NEW s \in D,
             \A t \in D : rank[t] < rank[s] => f[t] = g[t]
      PROVE  G[f][s] = G[g][s]
  <2>1. s # {} => f[s \ {Chosen(s)}] = g[s \ {Chosen(s)}]
    BY <1>2, <1>4, <1>8
  <2>2. Step(f)[s] = Step(g)[s]
    BY <2>1
  <2> HIDE DEF G, Step
  <2> QED BY <1>7, <2>2
<1> HIDE DEF G, Step
<1>9. TP4!Recursion(D, V, G, rank)
  <2>1. [D -> V] # {}
    BY <1>5
  <2> QED BY <1>4, <1>7, <1>8, <2>1 DEF TP4!Recursion
<1>10. PICK f \in [D -> V] : f = G[f]
  BY <1>9, TP4!FixedPoint
<1>11. f = Step(f)
  BY <1>7, <1>10
<1>12. IsSum(S, f)
  BY <1>11 DEF Step, IsSum, D
<1> QED BY <1>12

\* The number of addresses, of the entries that no wider one contains.
LEMMA Routes4Covered == Routes4!CoveredExact
<1> DEFINE E == EntryIn(store)
           S == {p \in E : p.len > 1 /\ ~\E l \in 1..(p.len - 1) : l \in HitsIn(store, p.net)}
<1> DEFINE C == {a \in Address : \E p \in E : ContainsAddress(p, a)}
<1> SUFFICES ASSUME \A p \in E : p.len > 1
             PROVE  Routes4!AddressesCovered = Cardinality(C) % 2^W
  <2>1. Routes4!Entry = E /\ Routes4!Address = Address
    BY Routes4Is, Names4Routes
  <2>2. {a \in Routes4!Address : \E p \in Routes4!Entry : Routes4!ContainsAddress(p, a)} = C
    BY <2>1, Names4Routes
  <2>3. \A X : Routes4!Cardinality(X) = Cardinality(X)
    BY DEF Routes4!Cardinality, Cardinality
  <2> HIDE DEF E, C
  <2> QED BY <2>1, <2>2, <2>3 DEF Routes4!CoveredExact
<1>0. W \in Nat \ {0} /\ \A p \in E : p \in Prefix /\ p.len \in 0..W /\ p.net \in Address /\ p.net \in DOMAIN store[p.len]
  BY WAssumption, PrefixIs DEF EntryIn
<1>1. S \subseteq Prefix /\ IsFiniteSet(S) /\ S \subseteq E
  <2>1. S \in SUBSET E /\ E \subseteq Prefix
    BY <1>0
  <2>2. IsFiniteSet(E)
    BY Finite4
  <2> QED BY <2>1, <2>2, FS_Subset
<1> DEFINE f == CHOOSE g : IsSum(S, g)
<1>2. Routes4!AddressesCovered = f[S]
  <2>1. Routes4!AddressesCovered = Routes4!FoldSet(LAMBDA p, n : (n + 2^(W - p.len)) % 2^W, 0, S)
    BY Routes4Is DEF Routes4!AddressesCovered
  <2>2. Routes4!FoldSet(LAMBDA p, n : (n + 2^(W - p.len)) % 2^W, 0, S) = f[S]
    <3> HIDE DEF S
    <3> QED BY DEF Routes4!FoldSet, Routes4!MapThenFoldSet, IsSum, Chosen
  <2> QED BY <2>1, <2>2
<1>3. IsSum(S, f)
  <2>1. \E g : IsSum(S, g)
    BY <1>1, SumExists
  <2> HIDE DEF S
  <2> QED BY <2>1
<1> HIDE DEF f
<1>4. Apart(S)
  <2> SUFFICES ASSUME NEW p \in S, NEW q \in S, NEW a \in Address, ContainsAddress(p, a), ContainsAddress(q, a), p.len < q.len
               PROVE  FALSE
    <3>1. \A p, q \in S, a \in Address : ContainsAddress(p, a) /\ ContainsAddress(q, a) =>
             p.len < q.len \/ q.len < p.len \/ p = q
      <4> SUFFICES ASSUME NEW p \in S, NEW q \in S, NEW a \in Address, ContainsAddress(p, a), ContainsAddress(q, a),
                          p.len = q.len
                   PROVE  p = q
        BY <1>0
      <4>1. p = New(a, p.len) /\ q = New(a, q.len)
        BY <1>1, Contains4
      <4> QED BY <4>1
    <3> HIDE DEF S
    <3> QED BY <3>1 DEF Apart
  <2>1. p.net = Masked(a, p.len) /\ q.net = Masked(a, q.len)
    BY DEF ContainsAddress
  <2>2. p.len \in 0..W /\ q.len \in 0..W /\ p.len > 1 /\ p.len \in 0..q.len /\ p.len \in 1..(q.len - 1)
    BY <1>0
  <2>3. Masked(q.net, p.len) = p.net
    BY <2>1, <2>2, MaskedTwice
  <2>4. p.len \in HitsIn(store, q.net)
    BY <1>0, <2>2, <2>3 DEF HitsIn
  <2> QED BY <2>2, <2>4
<1>5. Blocks(S) = {a \in Address : \E p \in E : ContainsAddress(p, a)}
  <2> SUFFICES ASSUME NEW a \in Address, NEW e \in E, ContainsAddress(e, a)
               PROVE  \E p \in S : ContainsAddress(p, a)
    BY <1>1 DEF Blocks
  <2> DEFINE H == {l \in 0..W : New(a, l) \in E}
  <2>1. e = New(a, e.len) /\ e.len \in H
    BY <1>0, Contains4
  <2>2. H \in SUBSET Nat /\ H # {}
    BY <1>0, <2>1
  <2> HIDE DEF H
  <2>3. PICK k \in H : \A l \in H : k <= l
    BY <2>2, LeastOf
  <2>4. k \in 0..W /\ New(a, k) \in E /\ New(a, k).len = k /\ New(a, k).net = Masked(a, k) /\ k > 1
    <3>1. k \in 0..W /\ New(a, k) \in E
      BY <2>3 DEF H
    <3>2. New(a, k).len = k /\ New(a, k).net = Masked(a, k)
      BY DEF New
    <3> QED BY <3>1, <3>2
  <2>5. ASSUME NEW l \in 1..(k - 1), l \in HitsIn(store, Masked(a, k)) PROVE FALSE
    <3>1. l \in 0..W /\ l \in 0..k /\ l < k
      BY <1>0, <2>4
    <3>2. Masked(Masked(a, k), l) = Masked(a, l)
      BY <2>4, <3>1, MaskedTwice
    <3>3. Masked(a, l) \in DOMAIN store[l]
      BY <2>5, <3>2 DEF HitsIn
    <3>4. New(a, l) \in Prefix /\ New(a, l).len = l /\ New(a, l).net = Masked(a, l)
      BY <3>1, NewIs DEF New
    <3>5. New(a, l) \in E
      BY <3>3, <3>4 DEF EntryIn
    <3> QED BY <2>3, <2>4, <3>1, <3>5 DEF H
  <2>6. New(a, k) \in S
    BY <2>4, <2>5
  <2>7. ContainsAddress(New(a, k), a)
    BY <2>4 DEF ContainsAddress
  <2> QED BY <2>6, <2>7
<1> HIDE DEF S
<1>6. f[S] = Cardinality(Blocks(S)) % 2^W
  BY <1>1, <1>3, <1>4, SumIs
<1> QED BY <1>2, <1>5, <1>6

-----------------------------------------------------------------------------
(* The trie of Ipv6PrefixPatricia.                                         *)

TP6 == INSTANCE TrieProofs WITH
  Less <- Trie6!Less, Contains <- Trie6!Contains, Bit <- Trie6!Bit, New <- Trie6!New,
  firstDiffBit <- Trie6!firstDiffBit, Value <- {0, 1}

LEMMA DiffBit6Is ==
  ASSUME NEW p \in Prefix, NEW q \in Prefix
  PROVE  PartAt(p, q, TP6!DiffBit(p, q))
<1>1. p.net \in Address /\ q.net \in Address /\ p.len \in 0..W /\ q.len \in 0..W /\ W \in Nat
  BY PrefixIs, WAssumption
<1> DEFINE f == Trie6!FirstOneBit(p.net, q.net)
           m == Shorter(p, q)
           d == TP6!DiffBit(p, q)
<1>2. /\ f \in 0..W
      /\ f < W => BitOf(p.net, f) # BitOf(q.net, f)
      /\ \A l \in 0..W : Leading(p.net, l) = Leading(q.net, l) <=> l <= f
  BY <1>1, First6
<1>3. d = IF f < m THEN f ELSE -1
  BY DEF TP6!DiffBit, Trie6!firstDiffBit, Shorter
<1>4. m \in 0..W
  BY <1>1 DEF Shorter
<1> HIDE DEF f, m, d
<1>5. CASE f < m
  <2>1. d = f /\ f \in 0..(m - 1) /\ f <= f /\ f < W
    BY <1>1, <1>2, <1>3, <1>4, <1>5
  <2>2. Leading(p.net, f) = Leading(q.net, f) /\ BitOf(p.net, f) # BitOf(q.net, f)
    BY <1>2, <2>1
  <2> QED BY <2>1, <2>2 DEF PartAt, m, d
<1>6. CASE ~(f < m)
  <2>1. d = -1 /\ m <= f
    BY <1>2, <1>3, <1>4, <1>6
  <2>2. Leading(p.net, m) = Leading(q.net, m)
    BY <1>2, <1>4, <2>1
  <2> QED BY <2>1, <2>2 DEF PartAt, m, d
<1> QED BY <1>5, <1>6

LEMMA Laws6 == TP6!Laws
<1>0. W \in Nat /\ \A p \in Prefix : p.len \in 0..W /\ p.net \in Address
  BY WAssumption, PrefixIs
<1>1. \A p, q \in Prefix : Trie6!Contains(p, q) <=> Has(p, q)
  BY Contains6Is
<1>2. \A a, l : Trie6!New(a, l) = New(a, l)
  BY DEF Trie6!New, Trie6!MaskBits, New, Masked
<1>3. \A p, q : Trie6!Less(p, q) <=> Less(p, q)
  BY DEF Trie6!Less, Less
<1>4. \A p, i : Trie6!Bit(p, i) <=> i < p.len /\ BitOf(p.net, i) = 1
  BY DEF Trie6!Bit, BitOf
<1>4a. \A p, i : Trie6!Bit(p, i) \in BOOLEAN
  BY DEF Trie6!Bit
<1>5. TP6!Lengths
  BY <1>0 DEF TP6!Lengths
<1>6. TP6!Containment
  BY <1>1, HasOrder DEF TP6!Containment
<1>7. TP6!Chains
  BY <1>1, HasOrder DEF TP6!Chains
<1>8. TP6!Bits
  <2>1. ASSUME NEW p \in Prefix, NEW q \in Prefix, NEW i \in 0..W, Trie6!Contains(p, q), i < p.len
        PROVE  Trie6!Bit(p, i) = Trie6!Bit(q, i)
    <3>1. Has(p, q) /\ p.len <= q.len
      BY <1>1, <2>1 DEF Has
    <3>2. BitOf(p.net, i) = BitOf(q.net, i)
      BY <2>1, <3>1, HasBits
    <3>3. i < q.len
      BY <1>0, <2>1, <3>1
    <3>4. Trie6!Bit(p, i) <=> Trie6!Bit(q, i)
      BY <1>4, <2>1, <3>2, <3>3
    <3> QED BY <1>4a, <3>4
  <2> QED BY <1>4a, <2>1 DEF TP6!Bits
<1>9. TP6!Partings
  <2>1. ASSUME NEW p \in Prefix, NEW q \in Prefix
        PROVE  /\ TP6!DiffBit(p, q) \in Int
               /\ TP6!DiffBit(p, q) < 0 => Trie6!Contains(p, q) \/ Trie6!Contains(q, p)
               /\ TP6!DiffBit(p, q) >= 0 => TP6!Parts(p, q, TP6!DiffBit(p, q))
    <3> DEFINE d == TP6!DiffBit(p, q)
    <3>1. PartAt(p, q, d)
      BY DiffBit6Is
    <3> HIDE DEF d
    <3>2. /\ d \in Int
          /\ d < 0 => Has(p, q) \/ Has(q, p)
          /\ d >= 0 => /\ d \in 0..W /\ d < p.len /\ d < q.len
                       /\ BitOf(p.net, d) # BitOf(q.net, d)
                       /\ New(p.net, d) \in Prefix /\ New(p.net, d).len = d
                       /\ Has(New(p.net, d), p) /\ Has(New(p.net, d), q)
      BY <3>1, PartAtIs
    <3>3. d >= 0 => TP6!Parts(p, q, d)
      <4> SUFFICES ASSUME d >= 0 PROVE TP6!Parts(p, q, d)
        OBVIOUS
      <4>1. BitOf(p.net, d) \in 0..1 /\ BitOf(q.net, d) \in 0..1
        <5>1. d \in 0..(W - 1) /\ d + 1 \in 0..W
          BY <1>0, <3>2
        <5>2. Leading(p.net, d + 1) \in Nat /\ Leading(q.net, d + 1) \in Nat
          BY <1>0, <5>1, UnitIs, AddressIs, DivFacts, Zenon DEF Leading
        <5> QED BY <1>0, <5>1, <5>2, LeadingStep
      <4>2. Trie6!Bit(p, d) # Trie6!Bit(q, d)
        BY <1>4, <3>2, <4>1
      <4>3. Trie6!Contains(New(p.net, d), p) /\ Trie6!Contains(New(p.net, d), q)
        BY <1>1, <3>2
      <4> QED BY <1>2, <3>2, <4>2, <4>3 DEF TP6!Parts
    <3>4. d < 0 => Trie6!Contains(p, q) \/ Trie6!Contains(q, p)
      BY <1>1, <3>2
    <3> QED BY <3>2, <3>3, <3>4 DEF d
  <2> QED BY <2>1 DEF TP6!Partings
<1>10. TP6!Sorting
  <2>1. ASSUME NEW n \in Prefix, NEW p \in Prefix, NEW q \in Prefix,
               Trie6!Contains(n, p), n.len < p.len, ~Trie6!Bit(p, n.len),
               Trie6!Contains(n, q), n.len < q.len, Trie6!Bit(q, n.len)
        PROVE  Less(p, q)
    <3>1. Has(n, p) /\ Has(n, q) /\ BitOf(p.net, n.len) # 1 /\ BitOf(q.net, n.len) = 1
      BY <1>1, <1>4, <2>1
    <3> QED BY <2>1, <3>1, HasSorting
  <2> QED BY <1>1, <1>3, <2>1, HasSorting DEF TP6!Sorting
<1> QED BY <1>5, <1>6, <1>7, <1>8, <1>9, <1>10 DEF TP6!Laws

\* The trie that TrieProofs speaks of is that of Ipv6PrefixPatricia.
LEMMA SameParts6 ==
  /\ TP6!Nil = Trie6!T!Nil /\ TP6!Empty = Trie6!T!Empty /\ TP6!NoValue = 0
  /\ \A t : TP6!Entry(t) = Trie6!T!Entry(t) /\ TP6!Places(t) = Trie6!T!Places(t) /\ TP6!Copied(t) = Trie6!T!Copied(t)
  /\ \A t, n : TP6!Kids(t, n) = Trie6!T!Kids(t, n)
  /\ \A t, p, u : TP6!Alloc(t, p, u) = Trie6!T!Alloc(t, p, u)
  /\ \A t, p : TP6!Delete(t, p) = Trie6!T!Delete(t, p)
  /\ \A t, p, v : TP6!SetValue(t, p, v) = Trie6!T!SetValue(t, p, v)
  /\ \A t, p : TP6!DropValue(t, p) = Trie6!T!DropValue(t, p)
  /\ \A t, n, b, k : TP6!Link(t, n, b, k) = Trie6!T!Link(t, n, b, k)
  /\ \A t, n, b, k : TP6!SetKid(t, n, b, k) = Trie6!T!SetKid(t, n, b, k)
  /\ \A t, n : TP6!Inserted(t, n) = Trie6!T!Inserted(t, n)
  /\ \A t, u, p : TP6!Place(t, u, p) = Trie6!T!Place(t, u, p)
  /\ \A n, p : TP6!DiffBit(n, p) = Trie6!T!DiffBit(n, p)
<1>1. TP6!Nil = Trie6!T!Nil /\ TP6!Empty = Trie6!T!Empty /\ TP6!NoValue = 0
  BY DEF TP6!Nil, Trie6!T!Nil, TP6!Empty, Trie6!T!Empty, TP6!NoValue
<1>2. \A t : TP6!Entry(t) = Trie6!T!Entry(t) /\ TP6!Places(t) = Trie6!T!Places(t) /\ TP6!Copied(t) = Trie6!T!Copied(t)
  BY DEF TP6!Entry, Trie6!T!Entry, TP6!Places, Trie6!T!Places, TP6!Nil, Trie6!T!Nil, TP6!Copied, Trie6!T!Copied
<1>3. \A t, n : TP6!Kids(t, n) = Trie6!T!Kids(t, n)
  BY DEF TP6!Kids, Trie6!T!Kids, TP6!Nil, Trie6!T!Nil
<1>4. \A t, p, u : TP6!Alloc(t, p, u) = Trie6!T!Alloc(t, p, u)
  BY DEF TP6!Alloc, Trie6!T!Alloc, TP6!Bound, Trie6!T!Bound, TP6!NoKids, Trie6!T!NoKids, TP6!Nil, Trie6!T!Nil
<1>5. \A t, p : TP6!Delete(t, p) = Trie6!T!Delete(t, p)
  BY DEF TP6!Delete, Trie6!T!Delete, TP6!Without, Trie6!T!Without
<1>6. \A t, p, v : TP6!SetValue(t, p, v) = Trie6!T!SetValue(t, p, v)
  BY DEF TP6!SetValue, Trie6!T!SetValue, TP6!Bound, Trie6!T!Bound
<1>7. \A t, p : TP6!DropValue(t, p) = Trie6!T!DropValue(t, p)
  BY DEF TP6!DropValue, Trie6!T!DropValue, TP6!Without, Trie6!T!Without
<1>8. \A t, n, b, k : TP6!Link(t, n, b, k) = Trie6!T!Link(t, n, b, k)
  BY DEF TP6!Link, Trie6!T!Link
<1>9. \A t, n, b, k : TP6!SetKid(t, n, b, k) = Trie6!T!SetKid(t, n, b, k)
  BY DEF TP6!SetKid, Trie6!T!SetKid, TP6!Link, Trie6!T!Link, TP6!Nil, Trie6!T!Nil
<1>10. \A t, n : TP6!Inserted(t, n) = Trie6!T!Inserted(t, n)
  BY DEF TP6!Inserted, Trie6!T!Inserted
<1>11. \A t, u, p : TP6!Place(t, u, p) = Trie6!T!Place(t, u, p)
  BY DEF TP6!Place, Trie6!T!Place, TP6!Nil, Trie6!T!Nil
<1>12. \A n, p : TP6!DiffBit(n, p) = Trie6!T!DiffBit(n, p)
  BY DEF TP6!DiffBit, Trie6!T!DiffBit
<1> QED BY <1>1, <1>2, <1>3, <1>4, <1>5, <1>6, <1>7, <1>8, <1>9, <1>10, <1>11, <1>12

LEMMA SameInsert6 ==
  ASSUME NEW t, NEW p, NEW v
  PROVE  TP6!insert(t, p, v) = Trie6!T!insert(t, p, v)
<1>1. \A s, u : TP6!AddLeaf(s, p, v, u) = Trie6!T!AddLeaf(s, p, v, u)
  BY SameParts6 DEF TP6!AddLeaf, Trie6!T!AddLeaf
<1>2. \A s, n : TP6!AddHere(s, n, v) = Trie6!T!AddHere(s, n, v)
  BY SameParts6 DEF TP6!AddHere, Trie6!T!AddHere
<1>3. \A s, n, u : TP6!AddAbove(s, n, p, v, u) = Trie6!T!AddAbove(s, n, p, v, u)
  BY SameParts6 DEF TP6!AddAbove, Trie6!T!AddAbove
<1>4. \A s, n, u, d : TP6!AddBeside(s, n, p, v, u, d) = Trie6!T!AddBeside(s, n, p, v, u, d)
  BY SameParts6 DEF TP6!AddBeside, Trie6!T!AddBeside
<1>5. \A n, u : TP6!AddAt(t, n, p, v, u) = Trie6!T!AddAt(t, n, p, v, u)
  BY <1>1, <1>2, <1>3, <1>4, SameParts6 DEF TP6!AddAt, Trie6!T!AddAt
<1>6. \A n : TP6!GoesOn(n, p) <=> Trie6!T!GoesOn(n, p)
  BY SameParts6 DEF TP6!GoesOn, Trie6!T!GoesOn
<1>7. TP6!addNode(t, p, v) = Trie6!T!addNode(t, p, v)
  <2> DEFINE step(add, u) ==
               LET n == Trie6!T!Place(t, u, p)
               IN  IF Trie6!T!GoesOn(n, p)
                   THEN LET below == add[n]
                        IN  [t |-> Trie6!T!Link(below.t, n, Trie6!Bit(p, n.len), below.node),
                             node |-> n, inserted |-> below.inserted]
                   ELSE Trie6!T!AddAt(t, n, p, v, u)
             is(add) == add = [u \in Trie6!T!Places(t) |-> step(add, u)]
  <2>1. \A add, u : TP6!AddStep(t, p, v, add, u) = step(add, u)
    BY <1>5, <1>6, SameParts6 DEF TP6!AddStep
  <2>2. TP6!addNode(t, p, v) = (CHOOSE add : TP6!IsAdd(t, p, v, add))[TP6!Nil]
    BY DEF TP6!addNode, TP6!IsAdd, TP6!AddStep
  <2>3. Trie6!T!addNode(t, p, v) = (CHOOSE add : is(add))[Trie6!T!Nil]
    BY DEF Trie6!T!addNode
  <2> HIDE DEF step
  <2>4. \A add : TP6!IsAdd(t, p, v, add) <=> is(add)
    BY <2>1, SameParts6 DEF TP6!IsAdd
  <2> HIDE DEF is
  <2> QED BY <2>2, <2>3, <2>4, SameParts6, Zenon
<1> QED BY <1>7 DEF TP6!insert, Trie6!T!insert

LEMMA SameRemove6 ==
  ASSUME NEW t, NEW p
  PROVE  TP6!Remove(t, p) = Trie6!T!Remove(t, p)
<1>1. \A s, n : TP6!Collapse(s, n) = Trie6!T!Collapse(s, n)
  BY SameParts6, Zenon DEF TP6!Collapse, Trie6!T!Collapse
<1> DEFINE step(remove, n) ==
             CASE n = Trie6!T!Nil -> [t |-> t, node |-> Trie6!T!Nil, removed |-> FALSE]
               [] n # Trie6!T!Nil /\ n = p /\ n \in Trie6!T!Entry(t) ->
                      LET c == Trie6!T!Collapse(Trie6!T!DropValue(t, n), n)
                      IN  [t |-> c.t, node |-> c.node, removed |-> TRUE]
               [] n # Trie6!T!Nil /\ ~(n = p /\ n \in Trie6!T!Entry(t)) /\ p.len <= n.len ->
                      [t |-> t, node |-> n, removed |-> FALSE]
               [] OTHER ->
                      LET b == Trie6!Bit(p, n.len)
                          kid == t.kids[n][b]
                          goesOn == kid # Trie6!T!Nil /\ Trie6!Contains(kid, p)
                          below == IF goesOn THEN remove[kid]
                                   ELSE [t |-> t, node |-> kid, removed |-> FALSE]
                          linked == IF goesOn THEN Trie6!T!SetKid(below.t, n, b, below.node) ELSE t
                          c == IF below.removed /\ n \notin Trie6!T!Entry(linked) THEN Trie6!T!Collapse(linked, n)
                               ELSE [t |-> linked, node |-> n]
                      IN  [t |-> c.t, node |-> c.node, removed |-> below.removed]
           is(remove) == remove = [n \in Trie6!T!Places(t) |-> step(remove, n)]
<1>2. ASSUME NEW remove, NEW n PROVE TP6!RemoveStep(t, p, remove, n) = step(remove, n)
  <2>1. CASE n = Trie6!T!Nil
    BY <2>1, SameParts6 DEF TP6!RemoveStep
  <2>2. CASE n # Trie6!T!Nil /\ n = p /\ n \in Trie6!T!Entry(t)
    BY <1>1, <2>2, SameParts6, Zenon DEF TP6!RemoveStep
  <2>3. CASE n # Trie6!T!Nil /\ ~(n = p /\ n \in Trie6!T!Entry(t)) /\ p.len <= n.len
    BY <2>3, SameParts6 DEF TP6!RemoveStep
  <2>4. CASE n # Trie6!T!Nil /\ ~(n = p /\ n \in Trie6!T!Entry(t)) /\ ~(p.len <= n.len)
    <3> DEFINE b == Trie6!Bit(p, n.len)
               kid == t.kids[n][b]
    <3>1. CASE kid # Trie6!T!Nil /\ Trie6!Contains(kid, p)
      BY <1>1, <2>4, <3>1, SameParts6 DEF TP6!RemoveStep
    <3>2. CASE ~(kid # Trie6!T!Nil /\ Trie6!Contains(kid, p))
      BY <1>1, <2>4, <3>2, SameParts6, Zenon DEF TP6!RemoveStep
    <3> QED BY <3>1, <3>2, Zenon
  <2> QED BY <2>1, <2>2, <2>3, <2>4, Zenon
<1>3. TP6!removeNode(t, t.root, p) = (CHOOSE remove : TP6!IsRemove(t, p, remove))[t.root]
  BY DEF TP6!removeNode, TP6!IsRemove, TP6!RemoveStep
<1>4. Trie6!T!removeNode(t, t.root, p) = (CHOOSE remove : is(remove))[t.root]
  BY DEF Trie6!T!removeNode
<1> HIDE DEF step
<1>5. \A remove : TP6!IsRemove(t, p, remove) <=> is(remove)
  BY <1>2, SameParts6 DEF TP6!IsRemove
<1> HIDE DEF is
<1>6. TP6!removeNode(t, t.root, p) = Trie6!T!removeNode(t, t.root, p)
  BY <1>3, <1>4, <1>5, Zenon
<1> QED BY <1>6, SameParts6 DEF TP6!Remove, Trie6!T!Remove

LEMMA SameFind6 ==
  ASSUME NEW t, NEW p
  PROVE  /\ TP6!find_matches(t, p) = Trie6!T!find_matches(t, p)
         /\ TP6!find_longest(t, p) = Trie6!T!find_longest(t, p)
         /\ TP6!find_wider(t, p) = Trie6!T!find_wider(t, p)
         /\ TP6!find(t, p) = Trie6!T!find(t, p)
<1>1. \A S : TP6!Path(t, p, S) = Trie6!T!Path(t, p, S)
  BY DEF TP6!Path, Trie6!T!Path, TP6!Places, Trie6!T!Places, TP6!Nil, Trie6!T!Nil
<1>2. TP6!find_matches(t, p) = Trie6!T!find_matches(t, p) /\ TP6!find_wider(t, p) = Trie6!T!find_wider(t, p)
  BY <1>1, SameParts6 DEF TP6!find_matches, Trie6!T!find_matches, TP6!find_wider, Trie6!T!find_wider
<1>3. TP6!find_longest(t, p) = Trie6!T!find_longest(t, p)
  BY <1>2, SameParts6 DEF TP6!find_longest, Trie6!T!find_longest, TP6!LastOf, Trie6!T!LastOf
<1> QED BY <1>2, <1>3, SameParts6 DEF TP6!find, Trie6!T!find

LEMMA SameWalks6 ==
  ASSUME NEW t
  PROVE  /\ \A n : TP6!Successor(t, n) = Trie6!T!Successor(t, n)
         /\ TP6!Entries(t) = Trie6!T!Entries(t)
         /\ TP6!ReverseEntries(t) = Trie6!T!ReverseEntries(t)
         /\ TP6!Iterable(t) <=> Trie6!T!Iterable(t)
<1>1. \A n : TP6!First(t, n) = Trie6!T!First(t, n)
  BY DEF TP6!First, Trie6!T!First, TP6!Places, Trie6!T!Places, TP6!Nil, Trie6!T!Nil, TP6!Entry, Trie6!T!Entry
<1>2. \A n : TP6!LastNode(t, n) = Trie6!T!LastNode(t, n)
  BY DEF TP6!LastNode, Trie6!T!LastNode, TP6!Places, Trie6!T!Places, TP6!Nil, Trie6!T!Nil, TP6!Entry, Trie6!T!Entry
<1>3. \A n : TP6!FirstAfter(t, n) = Trie6!T!FirstAfter(t, n)
  BY DEF TP6!FirstAfter, Trie6!T!FirstAfter, TP6!First, Trie6!T!First, TP6!Places, Trie6!T!Places, TP6!Nil, Trie6!T!Nil, TP6!Entry, Trie6!T!Entry
<1>4. \A n : TP6!Successor(t, n) = Trie6!T!Successor(t, n)
  <2> TAKE n
  <2> DEFINE left == TP6!First(t, t.kids[n][FALSE])
             right == TP6!First(t, t.kids[n][TRUE])
             after == TP6!FirstAfter(t, n)
             nil == TP6!Nil
  <2>1. TP6!Successor(t, n) = CASE left # nil -> left [] left = nil /\ right # nil -> right [] OTHER -> after
    BY DEF TP6!Successor
  <2>2. /\ left = Trie6!T!First(t, t.kids[n][FALSE]) /\ right = Trie6!T!First(t, t.kids[n][TRUE])
        /\ after = Trie6!T!FirstAfter(t, n) /\ nil = Trie6!T!Nil
    BY <1>1, <1>3, SameParts6, Zenon
  <2> HIDE DEF left, right, after, nil
  <2>3. Trie6!T!Successor(t, n) = CASE left # nil -> left [] left = nil /\ right # nil -> right [] OTHER -> after
    BY <2>2 DEF Trie6!T!Successor
  <2> QED BY <2>1, <2>3
<1>5. \A n : TP6!Predecessor(t, n) = Trie6!T!Predecessor(t, n)
  BY DEF TP6!Predecessor, Trie6!T!Predecessor, TP6!LastNode, Trie6!T!LastNode, TP6!Places, Trie6!T!Places, TP6!Nil, Trie6!T!Nil, TP6!Entry, Trie6!T!Entry
<1>6. TP6!Iterable(t) <=> Trie6!T!Iterable(t)
  BY SameParts6 DEF TP6!Iterable, Trie6!T!Iterable
<1>7. TP6!Entries(t) = Trie6!T!Entries(t)
  <2> DEFINE is(f) == f = [n \in Trie6!T!Places(t) |-> IF n = Trie6!T!Nil THEN <<>> ELSE <<n>> \o f[Trie6!T!Successor(t, n)]]
             was(f) == f = [n \in TP6!Places(t) |-> IF n = TP6!Nil THEN <<>> ELSE <<n>> \o f[TP6!Successor(t, n)]]
  <2>1. TP6!Entries(t) = (CHOOSE f : was(f))[TP6!First(t, t.root)]
    BY DEF TP6!Entries
  <2>2. Trie6!T!Entries(t) = (CHOOSE f : is(f))[Trie6!T!First(t, t.root)]
    BY DEF Trie6!T!Entries
  <2>3. \A f : was(f) <=> is(f)
    BY <1>4, SameParts6
  <2> HIDE DEF is, was
  <2> QED BY <1>1, <2>1, <2>2, <2>3, Zenon
<1>8. TP6!ReverseEntries(t) = Trie6!T!ReverseEntries(t)
  <2> DEFINE is(f) == f = [n \in Trie6!T!Places(t) |-> IF n = Trie6!T!Nil THEN <<>> ELSE <<n>> \o f[Trie6!T!Predecessor(t, n)]]
             was(f) == f = [n \in TP6!Places(t) |-> IF n = TP6!Nil THEN <<>> ELSE <<n>> \o f[TP6!Predecessor(t, n)]]
  <2>1. TP6!ReverseEntries(t) = (CHOOSE f : was(f))[TP6!LastNode(t, t.root)]
    BY DEF TP6!ReverseEntries
  <2>2. Trie6!T!ReverseEntries(t) = (CHOOSE f : is(f))[Trie6!T!LastNode(t, t.root)]
    BY DEF Trie6!T!ReverseEntries
  <2>3. \A f : was(f) <=> is(f)
    BY <1>5, SameParts6
  <2> HIDE DEF is, was
  <2> QED BY <1>2, <2>1, <2>2, <2>3, Zenon
<1> QED BY <1>4, <1>6, <1>7, <1>8

LEMMA SameReread6 ==
  ASSUME NEW t, NEW k
  PROVE  TP6!Reread(TP6!Written(t), k) = Trie6!T!Reread(Trie6!T!Written(t), k)
<1>1. \A s, p, v : TP6!insert(s, p, v) = Trie6!T!insert(s, p, v)
  BY SameInsert6
<1>2. ASSUME NEW es PROVE TP6!InsertAll(es) = Trie6!T!InsertAll(es)
  <2> DEFINE is(f) == f = [i \in 0..Len(es) |-> IF i = 0 THEN Trie6!T!Empty ELSE Trie6!T!insert(f[i - 1], es[i][1], es[i][2]).t]
             was(f) == f = [i \in 0..Len(es) |-> IF i = 0 THEN TP6!Empty ELSE TP6!insert(f[i - 1], es[i][1], es[i][2]).t]
  <2>1. TP6!InsertAll(es) = (CHOOSE f : was(f))[Len(es)]
    BY DEF TP6!InsertAll
  <2>2. Trie6!T!InsertAll(es) = (CHOOSE f : is(f))[Len(es)]
    BY DEF Trie6!T!InsertAll
  <2>3. \A f : was(f) <=> is(f)
    BY <1>1, SameParts6
  <2> HIDE DEF is, was
  <2> QED BY <2>1, <2>2, <2>3, Zenon
<1>3. TP6!Written(t) = Trie6!T!Written(t)
  BY SameWalks6 DEF TP6!Written, Trie6!T!Written
<1> DEFINE w == TP6!Written(t)
<1>4. w = Trie6!T!Written(t)
  BY <1>3
<1> HIDE DEF w
<1>5. TP6!Reread(w, k) = Trie6!T!Reread(w, k)
  BY <1>2 DEF TP6!Reread, Trie6!T!Reread
<1> QED BY <1>4, <1>5 DEF w

LEMMA SameExact6 ==
  ASSUME NEW t
  PROVE  /\ TP6!Intact(t) <=> Trie6!T!Intact(t)
         /\ \A s, r : TP6!VisitsExact(t, s, r) <=> Trie6!T!VisitsExact(t, s, r)
         /\ \A p, m, l, i : TP6!AnswersExact(t, p, m, l, i) <=> Trie6!T!AnswersExact(t, p, m, l, i)
<1>1. TP6!Intact(t) <=> Trie6!T!Intact(t)
  BY DEF TP6!Intact, Trie6!T!Intact, TP6!Entry, Trie6!T!Entry, TP6!Kids, Trie6!T!Kids, TP6!Nil, Trie6!T!Nil,
         TP6!Cardinality, Trie6!T!Cardinality
<1>2. \A s, r : TP6!VisitsExact(t, s, r) <=> Trie6!T!VisitsExact(t, s, r)
  BY DEF TP6!VisitsExact, Trie6!T!VisitsExact, TP6!Entry, Trie6!T!Entry
<1>3. \A p, m, l, i : TP6!AnswersExact(t, p, m, l, i) <=> Trie6!T!AnswersExact(t, p, m, l, i)
  BY DEF TP6!AnswersExact, Trie6!T!AnswersExact, TP6!Entry, Trie6!T!Entry, TP6!Nil, Trie6!T!Nil,
         TP6!Cardinality, Trie6!T!Cardinality
<1> QED BY <1>1, <1>2, <1>3

\* The trie is good until clear() has deleted its root.
Trie6Inv == ~Trie6!Defined \/ TP6!Good(store)

LEMMA GoodIs6 ==
  ASSUME NEW t, TP6!Good(t)
  PROVE  /\ t.val = [q \in DOMAIN t.val |-> t.val[q]]
         /\ DOMAIN t.val \subseteq DOMAIN t.kids /\ DOMAIN t.kids \subseteq Prefix
         /\ t.root = TP6!Nil \/ t.root \in DOMAIN t.kids
         /\ \A p \in Prefix : p # TP6!Nil
<1>1. TP6!IsTop(DOMAIN t.kids, t.root) /\ DOMAIN t.kids \subseteq Prefix
  BY DEF TP6!Good, TP6!Shape
<1>2. TP6!Nil \notin Prefix
  BY Laws6, TP6!NilIsNone
<1> QED BY <1>1, <1>2 DEF TP6!IsTop, TP6!Good, TP6!Counted

\* A lookup of the prefix itself answers it if it is an entry.
LEMMA Found6 ==
  ASSUME NEW t, TP6!Good(t), NEW p \in Prefix
  PROVE  TP6!find(t, p) = IF p \in DOMAIN t.val THEN p ELSE TP6!Nil
<1>1. TP6!AnswersExact(t, p, TP6!find_matches(t, p), TP6!find_longest(t, p), TP6!find(t, p))
  BY Laws6, TP6!AnswersAreExact
<1> QED BY <1>1 DEF TP6!AnswersExact, TP6!Entry

LEMMA Trie6Init == Trie6!Init => Trie6Inv
  BY TP6!EmptyIsGood, SameParts6 DEF Trie6!Init, Trie6Inv

LEMMA Trie6Step ==
  ASSUME Trie6Inv, Trie6!Next
  PROVE  Trie6Inv' /\ Trie6!Promise!Step
<1> DEFINE val == store.val
<1>0. TP6!Laws /\ {0, 1} \subseteq {0, 1} /\ TP6!NoValue \in {0, 1} /\ Keys \subseteq Prefix
  BY Laws6, KeysAssumption, SameParts6
<1>1. Trie6!Contents = store.val /\ Trie6!Contents' = store'.val /\ Trie6!T!Nil = TP6!Nil
  BY SameParts6 DEF Trie6!Contents
<1>2. \A call, b : Trie6!Said(call, b) <=> answer' = Trie6!Promise!Done(call, b)
  BY DEF Trie6!Said, Trie6!Promise!Done
<1>3. ASSUME Trie6!Defined
      PROVE  TP6!Good(store) /\ val = [q \in DOMAIN val |-> val[q]] /\ DOMAIN val \subseteq Prefix
  BY <1>3, GoodIs6 DEF Trie6Inv
<1> HIDE DEF val
<1>4. ASSUME NEW p \in Keys, Trie6!Insert(p, 1)
      PROVE  Trie6Inv' /\ Trie6!Promise!Step
  <2> DEFINE r == TP6!insert(store, p, 1)
  <2>1. r = Trie6!T!insert(store, p, 1)
    BY SameInsert6
  <2>2. Trie6!Defined /\ store' = r.t /\ answer' = Trie6!Promise!Done(<<"insert", p, 1>>, r.inserted)
    BY <1>2, <1>4, <2>1 DEF Trie6!Insert, Trie6!Added
  <2>3. TP6!Good(r.t) /\ r.t.val = TP6!Added(store.val, p, 1) /\ r.inserted = (p \notin TP6!Entry(store))
    BY <1>0, <1>3, <2>2, TP6!InsertIs
  <2> HIDE DEF r
  <2>4. Trie6!Promise!Insert(p, 1)
    BY <1>1, <2>2, <2>3 DEF TP6!Added, TP6!Bound, TP6!Entry, Trie6!Promise!Insert, Trie6!Promise!Bind
  <2> QED BY <1>0, <2>2, <2>3, <2>4 DEF Trie6Inv, Trie6!Promise!Step, Trie6!Promise!Next
<1>5. ASSUME NEW p \in Keys, Trie6!Assign(p, 1)
      PROVE  Trie6Inv' /\ Trie6!Promise!Step
  <2>1. TP6!Assign(store, p, 1) = Trie6!T!Assign(store, p, 1)
    BY SameInsert6 DEF TP6!Assign, Trie6!T!Assign, TP6!NoValue, Trie6!T!NoValue
  <2>2. Trie6!Defined /\ store' = TP6!Assign(store, p, 1) /\ answer' = Trie6!Promise!Done(<<"assign", p, 1>>, TRUE)
    BY <1>2, <1>5, <2>1, Zenon DEF Trie6!Assign
  <2>3. TP6!Good(store') /\ store'.val = TP6!Bound(store.val, p, 1)
    BY <1>0, <1>3, <2>2, TP6!AssignIs
  <2>4. Trie6!Promise!Assign(p, 1)
    BY <1>1, <2>2, <2>3 DEF TP6!Bound, Trie6!Promise!Assign, Trie6!Promise!Bind
  <2> QED BY <1>0, <2>3, <2>4 DEF Trie6Inv, Trie6!Promise!Step, Trie6!Promise!Next
<1>6. ASSUME NEW p \in Keys, Trie6!Remove(p)
      PROVE  Trie6Inv' /\ Trie6!Promise!Step
  <2> DEFINE r == TP6!Remove(store, p)
  <2>1. r = Trie6!T!Remove(store, p)
    BY SameRemove6
  <2>2. Trie6!Defined /\ store' = r.t /\ answer' = Trie6!Promise!Done(<<"remove", p>>, r.removed)
    BY <1>2, <1>6, <2>1 DEF Trie6!Remove, Trie6!Removed
  <2>3. /\ TP6!Good(r.t)
        /\ r.t.val = IF p \in TP6!Entry(store) THEN TP6!Without(store.val, p) ELSE store.val
        /\ r.removed = (p \in TP6!Entry(store))
    BY <1>0, <1>3, <2>2, TP6!RemoveIs
  <2> HIDE DEF r
  <2>4. store'.val = Trie6!Promise!Only(store.val, DOMAIN store.val \ {p})
    <3>1. CASE p \in DOMAIN store.val
      BY <2>2, <2>3, <3>1 DEF TP6!Entry, TP6!Without, Trie6!Promise!Only
    <3>2. CASE p \notin DOMAIN store.val
      <4>1. store'.val = val /\ DOMAIN val \ {p} = DOMAIN val
        BY <2>2, <2>3, <3>2 DEF TP6!Entry, val
      <4> QED BY <1>3, <2>2, <4>1 DEF Trie6!Promise!Only, val
    <3> QED BY <3>1, <3>2
  <2>5. Trie6!Promise!Remove(p)
    BY <1>1, <2>2, <2>3, <2>4 DEF TP6!Entry, Trie6!Promise!Remove
  <2> QED BY <1>0, <2>2, <2>3, <2>5 DEF Trie6Inv, Trie6!Promise!Step, Trie6!Promise!Next
<1>7. ASSUME NEW p \in Keys, Trie6!Erase(p)
      PROVE  Trie6Inv' /\ Trie6!Promise!Step
  <2> DEFINE r == TP6!Remove(store, p)
             n == TP6!Successor(store, p)
             A == {q \in DOMAIN store.val : Trie6!Less(p, q)}
  <2>1. r = Trie6!T!Remove(store, p) /\ n = Trie6!T!Successor(store, p)
    BY SameRemove6, SameWalks6
  <2>2. Trie6!Defined /\ TP6!Iterable(store) /\ store' = r.t /\ answer' = [call |-> <<"erase", p>>, ok |-> TRUE, at |-> n]
    BY <1>7, <2>1, SameWalks6 DEF Trie6!Erase, Trie6!T!erase
  <2>3. p \in DOMAIN store.val
    BY <1>0, <1>1, <1>3, <1>7, <2>2, Found6, SameFind6 DEF Trie6!Erase, Trie6!find
  <2>4. TP6!Good(r.t) /\ r.t.val = TP6!Without(store.val, p)
    BY <1>0, <1>3, <2>2, <2>3, TP6!RemoveIs DEF TP6!Entry
  <2>5. TP6!IsLeast(TP6!After(store, p), n)
    <3>1. p \in DOMAIN store.kids
      BY <1>3, <2>2, <2>3, GoodIs6, Zenon
    <3> QED BY <1>0, <1>3, <2>2, <3>1, TP6!SuccessorIs
  <2>6. A = TP6!After(store, p)
    BY DEF TP6!After, TP6!Entry
  <2>7. A \subseteq Prefix
    BY <1>3, <2>2 DEF val
  <2> HIDE DEF r, n, A
  <2>8. n = IF A = {} THEN TP6!Nil ELSE CHOOSE q \in A : ~\E s \in A : Trie6!Less(s, q)
    <3>1. CASE A = {}
      BY <2>5, <2>6, <3>1 DEF TP6!IsLeast
    <3>2. CASE A # {}
      <4>1. n \in A /\ \A y \in A : y = n \/ Trie6!Less(n, y)
        BY <2>5, <2>6, <3>2 DEF TP6!IsLeast
      <4>2. \A q, s \in Prefix : Trie6!Less(q, s) => ~Trie6!Less(s, q)
        BY <1>0 DEF TP6!Laws, TP6!Sorting
      <4>3. ~\E s \in A : Trie6!Less(s, n)
        BY <2>7, <4>1, <4>2
      <4>4. \A q \in A : (~\E s \in A : Trie6!Less(s, q)) => q = n
        BY <4>1
      <4> QED BY <3>2, <4>1, <4>3, <4>4
    <3> QED BY <3>1, <3>2
  <2>9. Trie6!Promise!Erase(p)
    <3>1. store'.val = Trie6!Promise!Only(store.val, DOMAIN store.val \ {p})
      BY <2>2, <2>4 DEF TP6!Without, Trie6!Promise!Only
    <3> QED BY <1>1, <2>2, <2>3, <2>8, <3>1 DEF Trie6!Promise!Erase, A
  <2> QED BY <1>0, <2>2, <2>4, <2>9 DEF Trie6Inv, Trie6!Promise!Step, Trie6!Promise!Next
<1>8. CASE Trie6!Clear
  <2>1. Trie6!Defined /\ store' = [TP6!Empty EXCEPT !.root = store.root] /\ answer' = Trie6!Promise!Done(<<"clear">>, TRUE)
    BY <1>2, <1>8, SameParts6, Zenon DEF Trie6!Clear
  <2>2. /\ TP6!Empty = [root |-> TP6!Nil, kids |-> <<>>, up |-> <<>>, val |-> <<>>, size |-> 0]
        /\ store' = [root |-> store.root, kids |-> <<>>, up |-> <<>>, val |-> <<>>, size |-> 0]
    BY <2>1 DEF TP6!Empty
  <2>3. CASE store.root = TP6!Nil
    <3>1. TP6!Good(store')
      BY <2>2, <2>3, TP6!EmptyIsGood
    <3> QED BY <1>1, <2>1, <2>2, <3>1 DEF Trie6Inv, Trie6!Promise!Clear, Trie6!Promise!Step, Trie6!Promise!Next
  <2>4. CASE store.root # TP6!Nil
    <3>1. DOMAIN <<>> = {}
      OBVIOUS
    <3>2. ~Trie6!Defined'
      BY <1>1, <2>2, <2>4, <3>1 DEF Trie6!Defined
    <3> QED BY <1>1, <2>1, <2>2, <3>2 DEF Trie6Inv, Trie6!Promise!Clear, Trie6!Promise!Step, Trie6!Promise!Next
  <2> QED BY <2>3, <2>4
<1>9. CASE Trie6!Copy
  <2>1. Trie6!Defined /\ store' = TP6!Copied(store) /\ answer' = Trie6!Promise!Done(<<"reload">>, TRUE)
    BY <1>2, <1>9, SameParts6, Zenon DEF Trie6!Copy, Trie6!Copied
  <2>2. TP6!Good(store') /\ store'.val = store.val
    BY <1>3, <2>1, TP6!CopiedIs
  <2>3. Trie6!Promise!Reload
    <3>1. store.val = [q \in DOMAIN store.val |-> store.val[q]]
      BY <1>3, <2>1 DEF val
    <3> QED BY <1>1, <2>1, <2>2, <3>1, Zenon DEF Trie6!Promise!Reload, Trie6!Promise!Only
  <2> QED BY <2>2, <2>3 DEF Trie6Inv, Trie6!Promise!Step, Trie6!Promise!Next
<1>10. ASSUME NEW k \in 0..store.size, Trie6!Reload(k)
       PROVE  Trie6Inv' /\ Trie6!Promise!Step
  <2> DEFINE r == TP6!Reread(TP6!Written(store), k)
  <2>1. r = Trie6!T!Reread(Trie6!T!Written(store), k)
    BY SameReread6
  <2>2. Trie6!Defined /\ TP6!Iterable(store) /\ store' = r.t /\ answer' = Trie6!Promise!Done(<<"reload">>, r.ok)
    BY <1>2, <1>10, <2>1, SameWalks6 DEF Trie6!Reload, Trie6!Reread
  <2>3. /\ TP6!Good(r.t)
        /\ DOMAIN r.t.val \subseteq DOMAIN store.val
        /\ \A q \in DOMAIN r.t.val : r.t.val[q] = store.val[q]
        /\ r.ok => DOMAIN r.t.val = DOMAIN store.val
        /\ r.ok \in BOOLEAN
    BY <1>0, <1>3, <2>2, TP6!RereadIs
  <2> HIDE DEF r
  <2>4. r.t.val = [q \in DOMAIN r.t.val |-> r.t.val[q]]
    BY <2>3, GoodIs6
  <2>5. Trie6!Promise!Reload
    <3>1. store'.val = Trie6!Promise!Only(store.val, DOMAIN store'.val)
      BY <2>2, <2>3, <2>4 DEF Trie6!Promise!Only
    <3> QED BY <1>1, <2>2, <2>3, <3>1 DEF Trie6!Promise!Reload
  <2> QED BY <2>2, <2>3, <2>5 DEF Trie6Inv, Trie6!Promise!Step, Trie6!Promise!Next
<1> QED BY <1>4, <1>5, <1>6, <1>7, <1>8, <1>9, <1>10 DEF Trie6!Next, Trie6!ReloadCompressed

LEMMA Trie6Lookups == Trie6Inv => Trie6!LookupsExact
<1> SUFFICES ASSUME Trie6Inv, Trie6!Defined, NEW p \in Prefix
             PROVE  Trie6!T!AnswersExact(store, p, Trie6!find_matches(p), Trie6!find_longest(p), Trie6!find(p))
  BY DEF Trie6!LookupsExact
<1>1. TP6!Good(store)
  BY DEF Trie6Inv
<1>2. TP6!AnswersExact(store, p, TP6!find_matches(store, p), TP6!find_longest(store, p), TP6!find(store, p))
  BY <1>1, Laws6, TP6!AnswersAreExact
<1> QED BY <1>2, SameExact6, SameFind6 DEF Trie6!find_matches, Trie6!find_longest, Trie6!find

LEMMA Trie6Intact == Trie6Inv => Trie6!Intact
<1> SUFFICES ASSUME Trie6Inv, Trie6!Defined PROVE Trie6!Intact
  BY DEF Trie6!Intact
<1>1. TP6!Good(store)
  BY DEF Trie6Inv
<1>2. TP6!Intact(store) /\ (TP6!Iterable(store) => TP6!VisitsExact(store, TP6!Entries(store), TP6!ReverseEntries(store)))
  BY <1>1, Laws6, TP6!GoodIsIntact, TP6!VisitsAreExact
<1> QED BY <1>2, SameExact6, SameWalks6 DEF Trie6!Intact, Trie6!Visited, Trie6!VisitedBackwards

-----------------------------------------------------------------------------
(* The composition.                                                        *)

TablesInv ==
  /\ subject \in Subjects
  /\ subject = "trie4" => Trie4Inv
  /\ subject = "trie6" => Trie6Inv
  /\ subject = "map4" => Map4Inv
  /\ subject = "map6" => Map6Inv
  /\ subject = "routes4" => Routes4Inv
  /\ subject = "routes6" => Routes6Inv
  /\ subject = "ranges" => RangesInv

\* TablesInv is an inductive invariant of the tables, of which each step
\* takes the one that is looked at.
LEMMA TablesInvariance == Spec => []TablesInv
<1>1. Init => TablesInv
  BY Trie4Init, Trie6Init, Map4Init, Map6Init, Routes4Init, Routes6Init, RangesInit DEF Init, TablesInv
<1>2. TablesInv /\ [Next]_vars => TablesInv'
  <2> SUFFICES ASSUME TablesInv, [Next]_vars PROVE TablesInv'
    OBVIOUS
  <2>1. CASE subject = "map4" /\ Map4!Next /\ UNCHANGED subject
    <3>1. Map4Inv'
      BY <2>1, Map4Add, Map4Remove DEF Map4!Next, TablesInv
    <3> QED BY <2>1, <3>1 DEF TablesInv
  <2>2. CASE subject = "map6" /\ Map6!Next /\ UNCHANGED subject
    <3>1. Map6Inv'
      BY <2>2, Map6Keeps DEF TablesInv
    <3> QED BY <2>2, <3>1 DEF TablesInv
  <2>3. CASE subject = "routes6" /\ Routes6!Next /\ UNCHANGED <<subject, counters>>
    <3>1. Routes6Inv'
      BY <2>3, Routes6Keeps DEF TablesInv
    <3> QED BY <2>3, <3>1 DEF TablesInv
  <2>4. CASE subject = "routes4" /\ Routes4!Next /\ UNCHANGED <<subject, counters>>
    <3>1. Routes4Inv'
      BY <2>4, Routes4Step DEF TablesInv
    <3> QED BY <2>4, <3>1 DEF TablesInv
  <2>5. CASE subject = "trie4" /\ Trie4!Next /\ UNCHANGED <<subject, counters>>
    <3>1. Trie4Inv'
      BY <2>5, Trie4Step DEF TablesInv
    <3> QED BY <2>5, <3>1 DEF TablesInv
  <2>6. CASE subject = "trie6" /\ Trie6!Next /\ UNCHANGED <<subject, counters>>
    <3>1. Trie6Inv'
      BY <2>6, Trie6Step DEF TablesInv
    <3> QED BY <2>6, <3>1 DEF TablesInv
  <2>7. CASE subject = "ranges" /\ Ranges!Next /\ UNCHANGED <<subject, answer>>
    <3>1. RangesInv'
      BY <2>7, RangesStep DEF TablesInv
    <3> QED BY <2>7, <3>1 DEF TablesInv
  <2>8. CASE subject = "addrs" /\ UNCHANGED subject
    BY <2>8 DEF TablesInv
  <2>9. CASE UNCHANGED vars
    <3>1. /\ (Trie4Inv => Trie4Inv') /\ (Trie6Inv => Trie6Inv')
      BY <2>9 DEF vars, Trie4Inv, Trie6Inv, Trie6!Defined
    <3>2. RangesInv => RangesInv'
      BY <2>9 DEF vars, RangesInv, Ranges!RangeExact
    <3> QED BY <2>9, <3>1, <3>2 DEF vars, TablesInv, Map4Inv, Map6Inv, Routes4Inv, Routes6Inv, IsTable, Counts, OfLength, Lengths
  <2> QED BY <2>1, <2>2, <2>3, <2>4, <2>5, <2>6, <2>7, <2>8, <2>9 DEF Next
<1> QED BY <1>1, <1>2, PTL DEF Spec

\* Every lookup answers what the entries say: a trie follows its nodes to all
\* that contain a prefix and to the longest one, whatever was inserted, removed,
\* copied, read or aggregated before; a prefix map of IPv4, whose counters tell
\* it which lengths to try, misses no entry and finds the longest one; so does
\* one of IPv6 as long as every entry has a counter; and so does a route table
\* of IPv6, which tries the lengths that were ever used. The prefixes of a range
\* follow each other from its first address to its last one, and none of them
\* could be wider.
THEOREM LookupsAreExact ==
  Spec => [](subject # "routes4" => LookupsExact)
<1>1. TablesInv => (subject # "routes4" => LookupsExact)
  BY Trie4Lookups, Trie6Lookups, Map4Lookups, Map6Lookups, Routes6Lookups DEF TablesInv, LookupsExact, RangesInv
<1> QED BY <1>1, TablesInvariance, PTL

\* After any operations the nodes of a trie are its entries and the branches
\* between them, it counts its entries, and iterators visit each of them in
\* order, forwards and backwards; and the counters of an Ipv4PrefixMap are
\* those of its entries.
THEOREM TablesAreIntact == Spec => []Intact
<1>1. TablesInv => Intact
  BY Trie4Intact, Trie6Intact, Map4Intact DEF TablesInv, Intact
<1> QED BY <1>1, TablesInvariance, PTL

\* The counters of an Ipv6PrefixMap are exact until a Read() fails.
THEOREM CountersAreKept ==
  Spec => [][subject = "map6" /\ Map6!Exact => Map6!Exact' \/ ~answer'.ok]_vars
<1>1. TablesInv /\ [Next]_vars => [subject = "map6" /\ Map6!Exact => Map6!Exact' \/ ~answer'.ok]_vars
  <2> SUFFICES ASSUME TablesInv, Next, subject = "map6", Map6!Exact
               PROVE  Map6!Exact' \/ ~answer'.ok
    OBVIOUS
  <2>1. Map6!Next /\ Map6Inv
    BY DEF Next, TablesInv
  <2>2. counters = Counts(DOMAIN store)
    BY Map6Exact
  <2>3. counters' = Counts(DOMAIN store') \/ ~answer'.ok
    BY <2>1, <2>2, Map6Counters
  <2>4. \A S : Map6!Cardinality(S) = Cardinality(S)
    BY DEF Map6!Cardinality, Cardinality
  <2>5. counters' = Counts(DOMAIN store') => Map6!Exact'
    BY <2>4 DEF Map6!Exact, Counts, OfLength, Lengths
  <2> QED BY <2>3, <2>5
<1> QED BY <1>1, TablesInvariance, PTL DEF Spec

\* The tries, the maps of prefixes and of addresses and both route tables
\* implement PrefixTable: each operation changes the entries as it promises, and
\* its result says so, also when a table is read that was cut off; Aggregate()
\* and Coalesce() leave the same addresses covered, with no value that they had
\* not, by no more entries.
THEOREM TablesImplement == Spec => ImplementsTable
<1>1. TablesInv /\ [Next]_vars =>
        [/\ subject = "trie4" => Trie4!Promise!Step
         /\ subject = "trie6" => Trie6!Promise!Step
         /\ subject = "routes4" => Routes4!Promise!Step
         /\ subject = "routes6" => Routes6!Promise!Step
         /\ subject = "map4" => Map4!Promise!Step
         /\ subject = "map6" => Map6!Promise!Step
         /\ subject = "addrs" => Addrs!Promise!Step]_vars
  <2> SUFFICES ASSUME TablesInv, Next
               PROVE  /\ subject = "trie4" => Trie4!Promise!Step
                      /\ subject = "trie6" => Trie6!Promise!Step
                      /\ subject = "routes4" => Routes4!Promise!Step
                      /\ subject = "routes6" => Routes6!Promise!Step
                      /\ subject = "map4" => Map4!Promise!Step
                      /\ subject = "map6" => Map6!Promise!Step
                      /\ subject = "addrs" => Addrs!Promise!Step
    OBVIOUS
  <2>1. (subject = "trie4" => Trie4!Promise!Step) /\ (subject = "trie6" => Trie6!Promise!Step)
    BY Trie4Step, Trie6Step DEF Next, TablesInv
  <2>2. subject = "routes6" => Routes6!Promise!Step
    BY Routes6Step DEF Next, TablesInv
  <2>3. subject = "map4" => Map4!Promise!Step
    BY Map4Step DEF Next, TablesInv
  <2>4. subject = "map6" => Map6!Promise!Step
    BY Map6Step DEF Next, TablesInv
  <2>5. subject = "addrs" => Addrs!Promise!Step
    BY AddrsStep DEF Next
  <2>6. subject = "routes4" => Routes4!Promise!Step
    BY Routes4Step DEF Next, TablesInv
  <2> QED BY <2>1, <2>2, <2>3, <2>4, <2>5, <2>6
<1> QED BY <1>1, TablesInvariance, PTL DEF Spec, ImplementsTable

\* Aggregate() changes the route of no address, and Coalesce() that of none for
\* which at most two entries are nested.
THEOREM RoutesAreKept == Spec => AggregationKeepsRoutes
<1>1. TablesInv /\ [Next]_vars =>
        [/\ subject = "trie4" => Trie4!AggregationKeepsRoutes
         /\ subject = "routes4" => Routes4!AggregationKeepsRoutes]_vars
  BY Trie4Kept, Routes4Kept DEF TablesInv
<1> QED BY <1>1, TablesInvariance, PTL DEF Spec, AggregationKeepsRoutes

\* FindLongest and FindAll of an Ipv4Routes answer what the entries say, and
\* AddressesCovered() counts the addresses that one of them contains, modulo
\* what a number of so many bits can be, when none is half of all or more.
THEOREM RoutesAreFound ==
  Spec => [](subject = "routes4" => Routes4!MatchesExact /\ Routes4!CoveredExact)
<1>1. TablesInv => (subject = "routes4" => Routes4!MatchesExact /\ Routes4!CoveredExact)
  BY Routes4Lookups, Routes4Covered
<1> QED BY <1>1, TablesInvariance, PTL
=============================================================================
