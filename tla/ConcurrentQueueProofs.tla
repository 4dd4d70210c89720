------------------------ MODULE ConcurrentQueueProofs -----------------------
(***************************************************************************)
(* Proofs about ConcurrentQueue, for every finite set of items, every set  *)
(* of producers and consumers, and every width of _length.                 *)
(***************************************************************************)
EXTENDS ConcurrentQueue, SequenceTheorems, FiniteSetTheorems, TLAPS

-----------------------------------------------------------------------------
(* The inductive invariant.  The list is described by the history variable *)
(* order, and by the places of entries in it.                              *)

Place(s, e) == CHOOSE k \in DOMAIN s : s[k] = e
FrontAt     == IF gone THEN Len(order) + 1 ELSE Place(order, front)
OldAt(c)    == Place(order, loc[c].old)

(* Who has a spin lock is at one of the statements it protects;            *)
Locks ==
  /\ \A p \in Producers : ppc[p] \in {"link", "back", "release"} <=> pushing = p
  /\ \A c \in Consumers :
       cpc[c] \in {"take", "unlock", "first", "walk", "subtractAll", "unlockAll"} <=> popping = c
  /\ gone => Quiet

(* the entries that were linked are distinct and each leads to the one     *)
(* linked after it, deleted or not, and the front is one of them;          *)
Ordered ==
  /\ Len(order) > 0 /\ order[1] = Dummy
  /\ \A j, k \in DOMAIN order : order[j] = order[k] => j = k
  /\ \A k \in 1 .. Len(order) - 1 : next[order[k]] = order[k + 1]
  /\ next[order[Len(order)]] = Null
  /\ IF gone THEN front = Null ELSE front \in Elements(order)

(* what a producer has made and not linked, or linked and not counted;     *)
Unlinked(p) ==
  IF ppc[p] \in {"check", "asleep", "acquire", "link"} THEN Elements(chain[p]) ELSE {}
Pending(p) ==
  IF ppc[p] \in {"back", "release", "add"} THEN Elements(chain[p]) ELSE {}

Chains ==
  /\ \A p \in Producers : IF ppc[p] = "idle" THEN chain[p] = <<>> ELSE chain[p] \in Vectors
  /\ \A p, q \in Producers : p # q => Elements(chain[p]) \cap Elements(chain[q]) = {}
  /\ \A p \in Producers : Pending(p) \subseteq Elements(order) /\ Unlinked(p) \cap Elements(order) = {}
  /\ made \cup {Dummy} = Elements(order) \cup UNION {Unlinked(p) : p \in Producers}

(* the links of the entries that are not linked yet;                       *)
Fresh ==
  /\ \A e \in Items \ made : next[e] = Null
  /\ \A p \in Producers :
       /\ ppc[p] \in {"check", "asleep"} => \A e \in Elements(chain[p]) : next[e] = Null
       /\ ppc[p] \in {"acquire", "link"} =>
            /\ \A k \in 1 .. Len(chain[p]) - 1 : next[chain[p][k]] = chain[p][k + 1]
            /\ next[chain[p][Len(chain[p])]] = Null

(* the back is the last entry, but between the two assignments of a push;  *)
Backs ==
  /\ (\A p \in Producers : ppc[p] # "back") => back = order[Len(order)]
  /\ \A p \in Producers : ppc[p] = "back" => order[Len(order)] = chain[p][Len(chain[p])]

(* a consumer's locals, and what it took: the entries after its old front; *)
Run(c) == [k \in 1 .. loc[c].num |-> order[OldAt(c) + k]]

Locals(c) ==
  /\ cpc[c] \in {"idle", "take", "first", "subtract"} => loc[c].num = 0
  /\ cpc[c] \in {"unlock", "delete", "walk", "subtractAll", "unlockAll", "copy"} =>
       loc[c].old \in Elements(order)
  /\ cpc[c] \in {"unlock", "delete"} => OldAt(c) < FrontAt
  /\ cpc[c] \in {"unlock", "delete", "subtract"} =>
       /\ Len(taken[c]) = 1 /\ taken[c][1] \in Elements(order)
       /\ Place(order, taken[c][1]) \in 2 .. FrontAt
  /\ cpc[c] = "walk" /\ loc[c].num = 0 => FrontAt < Len(order)
  /\ cpc[c] \in {"walk", "subtractAll", "unlockAll"} => FrontAt = OldAt(c) + loc[c].num
  /\ cpc[c] \in {"subtractAll", "unlockAll", "copy"} => loc[c].num > 0 /\ taken[c] = Run(c)
  /\ cpc[c] = "unlockAll" => loc[c].new = front
  /\ cpc[c] = "copy" =>
       /\ OldAt(c) + loc[c].num <= FrontAt
       /\ loc[c].i \in 1 .. loc[c].num
       /\ loc[c].new = order[OldAt(c) + loc[c].num]
       /\ loc[c].entry = order[OldAt(c) + loc[c].i]

Walks == \A c \in Consumers : Locals(c)

(* of the entries before the front each is deleted, or is to be deleted by *)
(* one consumer;                                                           *)
Held(c) ==
  IF cpc[c] \in {"unlock", "delete"} THEN {OldAt(c)}
  ELSE IF cpc[c] = "walk" THEN OldAt(c) .. FrontAt - 1
  ELSE IF cpc[c] \in {"subtractAll", "unlockAll"} THEN OldAt(c) .. OldAt(c) + loc[c].num - 1
  ELSE IF cpc[c] = "copy" THEN {OldAt(c)} \cup (OldAt(c) + loc[c].i .. OldAt(c) + loc[c].num - 1)
  ELSE {}

Deleted == {k \in DOMAIN order : order[k] \in freed}

Deletions ==
  /\ freed \subseteq Elements(order)
  /\ \A c \in Consumers : Held(c) \cap Deleted = {}
  /\ \A c, d \in Consumers : c # d => Held(c) \cap Held(d) = {}
  /\ Deleted \cup UNION {Held(c) : c \in Consumers} = 1 .. FrontAt - 1

(* _length is what was linked and counted, without what was taken and      *)
(* counted.                                                                *)
Uncounted(c) ==
  IF cpc[c] \in {"unlock", "delete", "subtract"} THEN {Place(order, taken[c][1])}
  ELSE IF cpc[c] = "walk" THEN OldAt(c) + 1 .. FrontAt
  ELSE IF cpc[c] = "subtractAll" THEN OldAt(c) + 1 .. OldAt(c) + loc[c].num
  ELSE {}
Counted    == Elements(order) \ ({Dummy} \cup UNION {Pending(p) : p \in Producers})
Discounted == (2 .. FrontAt) \ UNION {Uncounted(c) : c \in Consumers}

Apart  == \A c, d \in Consumers : c # d => Uncounted(c) \cap Uncounted(d) = {}
Counts == ~gone => length = Wrap(Cardinality(Counted) - Cardinality(Discounted))

IInv == /\ TypeOK /\ Locks /\ Ordered /\ Chains /\ Fresh /\ Backs
        /\ Walks /\ Deletions /\ Apart /\ Counts

-----------------------------------------------------------------------------
(* Facts about the operators.                                              *)

LEMMA LeastOf ==
  ASSUME NEW S \in SUBSET Nat, S # {}
  PROVE  \E m \in S : \A n \in S : m <= n
<1>1. PICK m \in S : \A n \in S : ~(<<n, m>> \in OpToRel(<, Nat))
  BY NatLessThanWellFounded, WFMin
<1>2. \A n \in S : ~(n < m)
  BY <1>1 DEF OpToRel
<1> QED BY <1>2

(* Arithmetic in the width of _length. *)
LEMMA WrapIs ==
  ASSUME NEW x \in Int, NEW q \in Int, NEW r \in 0 .. Modulus - 1, x = q * Modulus + r
  PROVE  Wrap(x) = r
<1>1. Modulus \in Nat \ {0}
  BY NumbersAssumption
<1> DEFINE p == x \div Modulus
           t == x % Modulus
<1>2. p \in Int /\ t \in 0 .. Modulus - 1 /\ x = Modulus * p + t
  BY <1>1
<1> HIDE DEF p, t
<1>3. Modulus * (p - q) = r - t
  BY <1>1, <1>2
<1>4. p - q = 0
  <2>1. ASSUME p - q >= 1 PROVE FALSE
    <3>1. Modulus * (p - q) >= Modulus
      BY <1>1, <1>2, <2>1
    <3> QED BY <1>1, <1>2, <1>3, <3>1
  <2>2. ASSUME p - q <= -1 PROVE FALSE
    <3>1. Modulus * (p - q) <= -Modulus
      BY <1>1, <1>2, <2>2
    <3> QED BY <1>1, <1>2, <1>3, <3>1
  <2> QED BY <1>2, <2>1, <2>2
<1>5. r = t
  BY <1>1, <1>2, <1>3, <1>4
<1> QED BY <1>5 DEF Wrap, t

LEMMA WrapFacts ==
  ASSUME NEW x \in Int
  PROVE  /\ Wrap(x) \in 0 .. Modulus - 1
         /\ x \in 0 .. Modulus - 1 => Wrap(x) = x
         /\ \A y \in Int : Wrap(Wrap(x) + y) = Wrap(x + y)
         /\ \A y \in Int : Wrap(Wrap(x) - y) = Wrap(x - y)
<1>1. Modulus \in Nat \ {0}
  BY NumbersAssumption
<1>2. \A y \in Int : Wrap(y) \in 0 .. Modulus - 1
                    /\ y \div Modulus \in Int /\ y = (y \div Modulus) * Modulus + Wrap(y)
  BY <1>1 DEF Wrap
<1>3. ASSUME NEW y \in Int PROVE Wrap(Wrap(x) + y) = Wrap(x + y)
  <2>1. PICK q \in Int : x = q * Modulus + Wrap(x)
    BY <1>2
  <2>2. PICK p \in Int, r \in 0 .. Modulus - 1 : Wrap(x) + y = p * Modulus + r
    BY <1>2
  <2>3. Wrap(Wrap(x) + y) = r
    BY <1>2, <2>2, WrapIs
  <2>4. x + y = (q + p) * Modulus + r
    <3>1. (q + p) * Modulus = q * Modulus + p * Modulus
      BY <1>1
    <3>2. q * Modulus \in Int /\ p * Modulus \in Int /\ Wrap(x) \in Int /\ r \in Int
      BY <1>1, <1>2
    <3>3. x + y = q * Modulus + (p * Modulus + r)
      BY <2>1, <2>2, <3>2
    <3> QED BY <3>1, <3>2, <3>3
  <2>5. Wrap(x + y) = r
    BY <2>4, WrapIs
  <2> QED BY <2>3, <2>5
<1>4. ASSUME NEW y \in Int PROVE Wrap(Wrap(x) - y) = Wrap(x - y)
  <2>1. Wrap(Wrap(x) + (-y)) = Wrap(x + (-y))
    BY <1>3
  <2> QED BY <1>2, <2>1
<1>5. ASSUME x \in 0 .. Modulus - 1 PROVE Wrap(x) = x
  <2>1. x = 0 * Modulus + x
    BY <1>1
  <2> QED BY <1>5, <2>1, WrapIs
<1> QED BY <1>2, <1>3, <1>4, <1>5

(* The places of the entries of a sequence without repetitions. *)
LEMMA PlaceFacts ==
  ASSUME NEW S, NEW s \in Seq(S), \A j, k \in DOMAIN s : s[j] = s[k] => j = k
  PROVE  /\ \A k \in DOMAIN s : Place(s, s[k]) = k
         /\ \A e \in Elements(s) : Place(s, e) \in DOMAIN s /\ s[Place(s, e)] = e
<1>1. ASSUME NEW e \in Elements(s) PROVE Place(s, e) \in DOMAIN s /\ s[Place(s, e)] = e
  BY DEF Place, Elements
<1>2. ASSUME NEW k \in DOMAIN s PROVE Place(s, s[k]) = k
  BY <1>1 DEF Elements
<1> QED BY <1>1, <1>2

LEMMA ElementsCardinality ==
  ASSUME NEW S, NEW s \in Seq(S), \A j, k \in DOMAIN s : s[j] = s[k] => j = k
  PROVE  IsFiniteSet(Elements(s)) /\ Cardinality(Elements(s)) = Len(s)
<1>1. Len(s) \in Nat /\ DOMAIN s = 1 .. Len(s) /\ s \in [1 .. Len(s) -> S]
  BY LenProperties
<1>2. s \in Bijection(1 .. Len(s), Elements(s))
  <2>1. s \in [1 .. Len(s) -> Elements(s)]
    BY <1>1 DEF Elements
  <2> QED BY <1>1, <2>1 DEF Elements, Bijection, Injection, Surjection, IsInjective
<1>3. ExistsBijection(1 .. Len(s), Elements(s))
  BY <1>2 DEF ExistsBijection
<1> QED BY <1>1, <1>3, FS_NatBijection, FS_CountingElements

LEMMA ConcatElements ==
  ASSUME NEW S, NEW s \in Seq(S), NEW t \in Seq(S)
  PROVE  Elements(s \o t) = Elements(s) \cup Elements(t)
<1>1. s \o t \in Seq(S) /\ DOMAIN s = 1 .. Len(s) /\ DOMAIN t = 1 .. Len(t)
      /\ DOMAIN (s \o t) = 1 .. Len(s) + Len(t) /\ Len(s) \in Nat /\ Len(t) \in Nat
  BY ConcatProperties, LenProperties
<1>2. \A i \in 1 .. Len(s) + Len(t) : (s \o t)[i] = IF i <= Len(s) THEN s[i] ELSE t[i - Len(s)]
  BY ConcatProperties
<1>3. \A i \in 1 .. Len(t) : t[i] = (s \o t)[i + Len(s)] /\ i + Len(s) \in 1 .. Len(s) + Len(t)
  BY <1>1, <1>2
<1>4. \A i \in 1 .. Len(s) : s[i] = (s \o t)[i] /\ i \in 1 .. Len(s) + Len(t)
  BY <1>1, <1>2
<1>5. \A i \in 1 .. Len(s) + Len(t) : i \in 1 .. Len(s) \/ i - Len(s) \in 1 .. Len(t)
  BY <1>1
<1>6. Elements(s \o t) \subseteq Elements(s) \cup Elements(t)
  BY <1>1, <1>2, <1>5 DEF Elements
<1>7. Elements(s) \cup Elements(t) \subseteq Elements(s \o t)
  BY <1>1, <1>3, <1>4 DEF Elements
<1> QED BY <1>6, <1>7

(* The list behind an entry is what was linked after it. *)
LEMMA AfterIs ==
  ASSUME TypeOK, Ordered, NEW k \in DOMAIN order
  PROVE  After(order[k]) = [i \in 1 .. Len(order) - k |-> order[k + i]]
<1> DEFINE N == Cardinality(Entries)
           n == Len(order) - k
           e == order[k]
           hop[i \in 0 .. N] ==
             IF i = 0 THEN e ELSE IF hop[i - 1] = Null THEN Null ELSE next[hop[i - 1]]
           g == [i \in 0 .. N |-> IF i <= n THEN order[k + i] ELSE Null]
<1>1. DOMAIN order = 1 .. Len(order) /\ Len(order) \in Nat /\ \A i \in DOMAIN order : order[i] \in Entries
  BY LenProperties, ElementOfSeq DEF TypeOK
<1>2. N \in Nat /\ Len(order) <= N
  <2>1. IsFiniteSet(Entries)
    BY NamesAssumption, FS_AddElement DEF Entries
  <2>2. Elements(order) \in SUBSET Entries
    BY <1>1 DEF Elements
  <2>3. Cardinality(Elements(order)) = Len(order)
    BY ElementsCardinality DEF TypeOK, Ordered
  <2> QED BY <2>1, <2>2, <2>3, FS_Subset, FS_CardinalityType
<1>3. Null \notin Entries
  BY NamesAssumption
<1>4. n \in Nat /\ n < N /\ k \in Nat /\ e \in Entries
  BY <1>1, <1>2
<1>5. \A i \in 1 .. n : k + i \in DOMAIN order /\ order[k + i] \in Entries
  BY <1>1, <1>4
<1>6. /\ \A i \in 0 .. N : g[i] = IF i <= n THEN order[k + i] ELSE Null
      /\ g = [i \in 0 .. N |-> g[i]]
  OBVIOUS
<1> HIDE DEF g, N
<1>7. g[0] = e
  <2>1. 0 \in 0 .. N /\ 0 <= n /\ k + 0 = k
    BY <1>2, <1>4
  <2> HIDE DEF n
  <2> QED BY <1>6, <2>1
<1>8. ASSUME NEW i \in 1 .. N
      PROVE  g[i] = IF g[i - 1] = Null THEN Null ELSE next[g[i - 1]]
  <2> USE <1>2, <1>4
  <2>1. CASE i <= n
    <3>1. g[i - 1] = order[k + (i - 1)] /\ g[i] = order[k + i]
      BY <2>1, <1>6
    <3>2. k + (i - 1) \in 1 .. Len(order) - 1 /\ (k + (i - 1)) + 1 = k + i
      BY <2>1, <1>1
    <3>3. next[order[k + (i - 1)]] = order[k + i]
      BY <3>2 DEF Ordered
    <3> QED BY <3>1, <3>2, <3>3, <1>1, <1>3
  <2>2. CASE i = n + 1
    <3>1. g[i - 1] = order[k + n] /\ g[i] = Null
      <4> HIDE DEF n
      <4>1. i - 1 = n /\ n \in 0 .. N /\ ~(i <= n)
        BY <2>2
      <4> QED BY <4>1, <1>6
    <3>2. k + n = Len(order)
      BY <1>1
    <3> QED BY <3>1, <3>2 DEF Ordered
  <2>3. CASE i > n + 1
    <3>1. g[i - 1] = Null /\ g[i] = Null
      BY <2>3, <1>6
    <3> QED BY <3>1
  <2> QED BY <2>1, <2>2, <2>3
<1>9. g = [i \in 0 .. N |-> IF i = 0 THEN e ELSE IF g[i - 1] = Null THEN Null ELSE next[g[i - 1]]]
  <2> HIDE DEF g, N, n
  <2>1. \A i \in 0 .. N : i = 0 \/ i \in 1 .. N
    BY <1>2
  <2> QED BY <1>6, <1>7, <1>8, <2>1
<1>10. hop = [i \in 0 .. N |-> IF i = 0 THEN e ELSE IF hop[i - 1] = Null THEN Null ELSE next[hop[i - 1]]]
  <2> HIDE DEF g, e, N
  <2> QED BY <1>9
<1> HIDE DEF hop, g, N
<1>11. \A i \in 0 .. N : hop[i] = g[i]
  <2> DEFINE Bad == {i \in 0 .. N : hop[i] # g[i]}
  <2> SUFFICES ASSUME Bad # {} PROVE FALSE
    OBVIOUS
  <2>0. Bad \in SUBSET Nat
    BY <1>2
  <2>1. PICK m \in Bad : \A i \in Bad : m <= i
    BY <2>0, LeastOf
  <2>2. m # 0
    BY <1>2, <1>7, <1>10
  <2>3. m \in 1 .. N /\ m - 1 \in 0 .. N /\ hop[m - 1] = g[m - 1]
    BY <2>1, <2>2, <1>2
  <2>4. hop[m] = IF hop[m - 1] = Null THEN Null ELSE next[hop[m - 1]]
    BY <1>10, <2>2, <2>3
  <2> QED BY <2>1, <2>3, <2>4, <1>8
<1>12. DOMAIN hop = 0 .. N
  BY <1>10
<1>13. {i \in DOMAIN hop \ {0} : hop[i] # Null} = 1 .. n
  <2> HIDE DEF n
  <2>1. \A i \in 0 .. N : hop[i] # Null <=> i <= n
    BY <1>2, <1>3, <1>4, <1>5, <1>6, <1>7, <1>11
  <2> QED BY <1>2, <1>4, <1>12, <2>1
<1>14. Cardinality(1 .. n) = n
  BY <1>4, FS_Interval
<1>15. After(e) = [i \in 1 .. Cardinality({j \in DOMAIN hop \ {0} : hop[j] # Null}) |-> hop[i]]
  BY DEF After, hop, N
<1>16. After(e) = [i \in 1 .. n |-> hop[i]]
  BY <1>13, <1>14, <1>15
<1>17. \A i \in 1 .. n : hop[i] = order[k + i]
  <2> HIDE DEF n
  <2> QED BY <1>2, <1>4, <1>6, <1>11
<1> QED BY <1>16, <1>17

-----------------------------------------------------------------------------
(* What the invariant says of the list, in terms of places.                *)

LEMMA OrderFacts ==
  ASSUME TypeOK, Ordered
  PROVE  /\ Len(order) \in Nat \ {0} /\ DOMAIN order = 1 .. Len(order)
         /\ \A k \in 1 .. Len(order) : order[k] \in Entries /\ Place(order, order[k]) = k
         /\ \A e \in Elements(order) :
              /\ e \in Entries /\ e # Null
              /\ Place(order, e) \in 1 .. Len(order) /\ order[Place(order, e)] = e
         /\ \A k \in 1 .. Len(order) : order[k] \in Elements(order)
         /\ \A k \in 1 .. Len(order) - 1 : next[order[k]] = order[k + 1] /\ next[order[k]] # Null
         /\ next[order[Len(order)]] = Null
         /\ IF gone THEN front = Null /\ FrontAt = Len(order) + 1
            ELSE FrontAt \in 1 .. Len(order) /\ front = order[FrontAt] /\ front \in Entries
<1>1. Len(order) \in Nat \ {0} /\ DOMAIN order = 1 .. Len(order)
      /\ \A k \in 1 .. Len(order) : order[k] \in Entries
  BY LenProperties, ElementOfSeq DEF TypeOK, Ordered
<1>2. /\ \A k \in 1 .. Len(order) : Place(order, order[k]) = k
      /\ \A e \in Elements(order) : Place(order, e) \in 1 .. Len(order) /\ order[Place(order, e)] = e
  BY <1>1, PlaceFacts DEF TypeOK, Ordered
<1>3. \A k \in 1 .. Len(order) : order[k] \in Elements(order)
  BY <1>1 DEF Elements
<1>4. \A e \in Elements(order) : e \in Entries /\ e # Null
  BY <1>1, NamesAssumption DEF Elements
<1>5. \A k \in 1 .. Len(order) - 1 : next[order[k]] = order[k + 1] /\ next[order[k]] # Null
  <2>1. \A k \in 1 .. Len(order) - 1 : k + 1 \in 1 .. Len(order)
    BY <1>1
  <2> QED BY <1>3, <1>4, <2>1 DEF Ordered
<1>6. next[order[Len(order)]] = Null
  BY DEF Ordered
<1>7. IF gone THEN front = Null /\ FrontAt = Len(order) + 1
      ELSE FrontAt \in 1 .. Len(order) /\ front = order[FrontAt] /\ front \in Entries
  <2>1. CASE gone
    BY <2>1 DEF Ordered, FrontAt
  <2>2. CASE ~gone
    <3>1. front \in Elements(order)
      BY <2>2 DEF Ordered
    <3> QED BY <2>2, <3>1, <1>2, <1>4 DEF FrontAt
  <2> QED BY <2>1, <2>2
<1> QED BY <1>1, <1>2, <1>3, <1>4, <1>5, <1>6, <1>7

(* The lists behind the front. *)
LEMMA AfterFront ==
  ASSUME TypeOK, Ordered, ~gone
  PROVE  /\ After(front) = [i \in 1 .. Len(order) - FrontAt |-> order[FrontAt + i]]
         /\ Len(After(front)) = Len(order) - FrontAt
<1>1. FrontAt \in 1 .. Len(order) /\ front = order[FrontAt] /\ DOMAIN order = 1 .. Len(order)
      /\ Len(order) \in Nat
  BY OrderFacts
<1>2. After(front) = [i \in 1 .. Len(order) - FrontAt |-> order[FrontAt + i]]
  BY <1>1, AfterIs
<1> QED BY <1>1, <1>2

LEMMA VectorFacts ==
  ASSUME NEW s \in Vectors
  PROVE  /\ s \in Seq(Items) /\ Len(s) \in Nat \ {0} /\ DOMAIN s = 1 .. Len(s)
         /\ \A k \in 1 .. Len(s) : s[k] \in Items /\ s[k] \in Entries /\ s[k] \in Elements(s)
         /\ \A j, k \in 1 .. Len(s) : s[j] = s[k] => j = k
         /\ Elements(s) \subseteq Items /\ s # <<>>
<1>1. PICK n \in PushSizes : s \in [1 .. n -> Items]
  BY DEF Vectors
<1>2. n \in Nat \ {0}
  BY NumbersAssumption
<1>3. s \in Seq(Items) /\ Len(s) = n
  <2>1. s \in UNION {[1 .. m -> Items] : m \in Nat}
    BY <1>1, <1>2
  <2>2. s \in Seq(Items)
    BY <2>1, SeqDef
  <2> QED BY <1>1, <1>2, <2>2, LenProperties
<1>4. \A j, k \in DOMAIN s : s[j] = s[k] => j = k
  BY DEF Vectors
<1>5. s # <<>>
  BY <1>2, <1>3, EmptySeq
<1> QED BY <1>1, <1>2, <1>3, <1>4, <1>5 DEF Entries, Elements

(* What new links each PushBack makes: its entries follow one another. *)
LEMMA AllocateLinks ==
  ASSUME TypeOK, NEW p \in Producers, chain[p] \in Vectors, Allocate(p)
  PROVE  /\ next' \in [Entries -> Entries \cup {Null}]
         /\ \A k \in 1 .. Len(chain[p]) - 1 : next'[chain[p][k]] = chain[p][k + 1]
         /\ next'[chain[p][Len(chain[p])]] = next[chain[p][Len(chain[p])]]
         /\ \A e \in Entries \ Elements(chain[p]) : next'[e] = next[e]
<1> DEFINE s == chain[p]
           m == Len(s) - 1
           at(e) == CHOOSE k \in {k \in 1 .. m : TRUE} : s[k] = e
<1>1. next' = [e \in Entries |-> IF \E k \in {k \in 1 .. m : TRUE} : s[k] = e THEN s[1 + at(e)] ELSE next[e]]
  BY DEF Allocate
<1>2. /\ s \in Seq(Items) /\ Len(s) \in Nat \ {0} /\ DOMAIN s = 1 .. Len(s)
      /\ \A k \in 1 .. Len(s) : s[k] \in Entries /\ s[k] \in Elements(s)
      /\ \A j, k \in 1 .. Len(s) : s[j] = s[k] => j = k
  BY VectorFacts
<1> HIDE DEF s
<1>3. ASSUME NEW e \in Entries, \E k \in {k \in 1 .. m : TRUE} : s[k] = e
      PROVE  at(e) \in 1 .. m /\ s[at(e)] = e
  <2>1. \E k \in {k \in 1 .. m : TRUE} : s[k] = e
    BY <1>3
  <2> QED BY <2>1
<1> HIDE DEF at
<1>4. \A k \in 1 .. m : k \in 1 .. Len(s) /\ k + 1 \in 1 .. Len(s)
  BY <1>2
<1>5. ASSUME NEW e \in Entries PROVE next'[e] \in Entries \cup {Null}
  <2>1. CASE \E k \in {k \in 1 .. m : TRUE} : s[k] = e
    <3>1. at(e) \in 1 .. m
      BY <1>3, <2>1
    <3>2. 1 + at(e) \in 1 .. Len(s)
      BY <1>2, <3>1
    <3> QED BY <1>1, <1>2, <2>1, <3>2
  <2>2. CASE ~ \E k \in {k \in 1 .. m : TRUE} : s[k] = e
    BY <1>1, <2>2 DEF TypeOK
  <2> QED BY <2>1, <2>2
<1>6. ASSUME NEW k \in 1 .. m PROVE next'[s[k]] = s[k + 1]
  <2>1. s[k] \in Entries /\ k \in {j \in 1 .. m : TRUE}
    BY <1>2, <1>4
  <2>2. at(s[k]) \in 1 .. m /\ s[at(s[k])] = s[k]
    BY <1>3, <2>1
  <2>3. at(s[k]) = k
    BY <1>2, <1>4, <2>2
  <2>4. 1 + k = k + 1
    BY <1>2
  <2> QED BY <1>1, <2>1, <2>3, <2>4
<1>7. next'[s[Len(s)]] = next[s[Len(s)]]
  <2>1. \A k \in 1 .. m : s[k] # s[Len(s)]
    BY <1>2
  <2>2. s[Len(s)] \in Entries
    BY <1>2
  <2> QED BY <1>1, <2>1, <2>2
<1>8. ASSUME NEW e \in Entries \ Elements(s) PROVE next'[e] = next[e]
  <2>1. \A k \in 1 .. m : s[k] # e
    BY <1>2, <1>4
  <2> QED BY <1>1, <2>1
<1>9. next' = [e \in Entries |-> next'[e]]
  <2> DEFINE g == [e \in Entries |-> IF \E k \in {k \in 1 .. m : TRUE} : s[k] = e THEN s[1 + at(e)] ELSE next[e]]
  <2>1. g = [e \in Entries |-> g[e]]
    OBVIOUS
  <2> QED BY <1>1, <2>1
<1> QED BY <1>5, <1>6, <1>7, <1>8, <1>9 DEF s

-----------------------------------------------------------------------------
(* What the steps of the one side leave alone on the other.                *)

LEMMA ProducerFrame ==
  ASSUME NEW p \in Producers, Produce(p)
  PROVE  /\ UNCHANGED <<freed, front, popping, cpc, loc, result, taken, gone>>
         /\ Link(p) \/ order' = order
<1> USE DEF list, consumer
<1>1. ASSUME NEW s \in Vectors, Call(p, s) PROVE UNCHANGED <<freed, front, popping, consumer, gone, order>>
  BY <1>1 DEF Call
<1>2. CASE Throttle(p) \/ WakeUp(p)
  BY <1>2 DEF Throttle, WakeUp
<1>3. CASE Allocate(p)
  BY <1>3 DEF Allocate
<1>4. CASE AcquirePush(p) \/ ReleasePush(p)
  BY <1>4 DEF AcquirePush, ReleasePush
<1>5. CASE Link(p)
  BY <1>5 DEF Link
<1>6. CASE SetBack(p) \/ AddLength(p)
  BY <1>6 DEF SetBack, AddLength
<1> QED BY <1>1, <1>2, <1>3, <1>4, <1>5, <1>6 DEF Produce

LEMMA ConsumerFrame ==
  ASSUME NEW c \in Consumers, AcquirePop(c) \/ GoOn(c)
  PROVE  /\ UNCHANGED <<next, back, pushing, ppc, chain, made, order, gone>>
         /\ front' = front \/ TakeFront(c) \/ Walk(c)
<1> USE DEF list, producer
<1>1. CASE AcquirePop(c) \/ FindEmpty(c) \/ ReleasePop(c)
  BY <1>1 DEF AcquirePop, FindEmpty, ReleasePop
<1>2. CASE TakeFront(c) \/ Walk(c)
  BY <1>2 DEF TakeFront, Walk
<1>3. CASE DeleteFirst(c) \/ CopyEntry(c) \/ DeleteOldFront(c)
  BY <1>3 DEF DeleteFirst, CopyEntry, DeleteOldFront
<1>4. CASE SubtractOne(c) \/ SubtractAll(c) \/ SaveFront(c)
  BY <1>4 DEF SubtractOne, SubtractAll, SaveFront
<1>5. CASE WalkEnds(c) \/ ReleaseAll(c)
  BY <1>5 DEF WalkEnds, ReleaseAll
<1> QED BY <1>1, <1>2, <1>3, <1>4, <1>5 DEF GoOn

-----------------------------------------------------------------------------
(* The types and the locks.                                                *)

LEMMA ProducerTypes ==
  ASSUME IInv, NEW p \in Producers, Produce(p)
  PROVE  TypeOK'
<1>1. TypeOK /\ Chains
  BY DEF IInv
<1> USE <1>1, ProducerFrame DEF TypeOK, Producing, list, consumer
<1>2. ASSUME NEW s \in Vectors, Call(p, s) PROVE TypeOK'
  <2>1. s \in Seq(Items) /\ Elements(s) \subseteq Items
    BY VectorFacts
  <2> QED BY <1>2, <2>1 DEF Call
<1>3. CASE Throttle(p) \/ WakeUp(p)
  BY <1>3 DEF Throttle, WakeUp
<1>4. CASE Allocate(p)
  <2>1. chain[p] \in Vectors
    BY <1>4 DEF Chains, Allocate
  <2>2. next' \in [Entries -> Entries \cup {Null}]
    BY <1>4, <2>1, AllocateLinks
  <2> QED BY <1>4, <2>2 DEF Allocate
<1>5. CASE AcquirePush(p) \/ ReleasePush(p)
  BY <1>5 DEF AcquirePush, ReleasePush
<1>6. CASE Link(p)
  <2>1. chain[p] \in Vectors
    BY <1>6 DEF Chains, Link
  <2>2. chain[p] \in Seq(Entries) /\ chain[p][1] \in Entries
    BY <2>1, VectorFacts, SeqMonotonic DEF Entries
  <2>3. order \o chain[p] \in Seq(Entries)
    BY <2>2, ConcatProperties
  <2> QED BY <1>6, <2>2, <2>3 DEF Link
<1>7. CASE SetBack(p)
  <2>1. chain[p] \in Vectors
    BY <1>7 DEF Chains, SetBack
  <2>2. chain[p][Len(chain[p])] \in Entries
    BY <2>1, VectorFacts
  <2> QED BY <1>7, <2>2 DEF SetBack
<1>8. CASE AddLength(p)
  <2>1. length + Len(chain[p]) \in Int
    BY NumbersAssumption, LenProperties
  <2>2. length' \in 0 .. Modulus - 1
    BY <1>8, <2>1, WrapFacts DEF AddLength
  <2>3. <<>> \in Seq(Items)
    BY EmptySeq
  <2> QED BY <1>8, <2>2, <2>3 DEF AddLength
<1> QED BY <1>2, <1>3, <1>4, <1>5, <1>6, <1>7, <1>8 DEF Produce

(* What a finished walk has taken: values, and as many as it has counted. *)
LEMMA WalkTakes ==
  ASSUME IInv, NEW c \in Consumers, WalkEnds(c)
  PROVE  /\ After(loc[c].old) = Run(c)
         /\ Run(c) \in Seq(Items) /\ loc[c].num > 0
         /\ FrontAt = Len(order) /\ OldAt(c) + loc[c].num = Len(order) /\ OldAt(c) \in 1 .. Len(order)
<1>1. TypeOK /\ Locks /\ Ordered /\ Locals(c) /\ cpc[c] = "walk" /\ next[front] = Null
  BY DEF IInv, Walks, WalkEnds, Consuming
<1>2. ~gone
  BY <1>1 DEF Locks, Quiet
<1>3. loc[c].old \in Elements(order) /\ FrontAt = OldAt(c) + loc[c].num
      /\ (loc[c].num = 0 => FrontAt < Len(order)) /\ loc[c].num \in Nat
  BY <1>1 DEF Locals, TypeOK
<1>4. Len(order) \in Nat \ {0} /\ OldAt(c) \in 1 .. Len(order) /\ order[OldAt(c)] = loc[c].old
      /\ DOMAIN order = 1 .. Len(order)
  BY <1>1, <1>3, OrderFacts DEF OldAt
<1>5. FrontAt \in 1 .. Len(order) /\ front = order[FrontAt]
  BY <1>1, <1>2, OrderFacts
<1>6. FrontAt = Len(order)
  <2>1. FrontAt \notin 1 .. Len(order) - 1
    BY <1>1, <1>5, OrderFacts
  <2>2. Len(order) \in Nat /\ FrontAt \in 1 .. Len(order)
    BY <1>4, <1>5
  <2> QED BY <2>1, <2>2
<1>7. loc[c].num = Len(order) - OldAt(c) /\ loc[c].num > 0
  BY <1>3, <1>4, <1>6
<1>8. After(loc[c].old) = Run(c)
  <2>1. After(order[OldAt(c)]) = [i \in 1 .. Len(order) - OldAt(c) |-> order[OldAt(c) + i]]
    BY <1>1, <1>4, AfterIs
  <2> QED BY <1>4, <1>7, <2>1 DEF Run
<1>9. ASSUME NEW i \in 1 .. loc[c].num PROVE order[OldAt(c) + i] \in Items
  <2>1. OldAt(c) + i \in 1 .. Len(order) /\ OldAt(c) + i # 1
    BY <1>4, <1>7
  <2>2. order[OldAt(c) + i] \in Entries
    BY <1>1, <2>1, OrderFacts
  <2>3. order[OldAt(c) + i] # Dummy
    BY <1>1, <1>4, <2>1 DEF Ordered
  <2> QED BY <2>2, <2>3 DEF Entries
<1>10. Run(c) \in [1 .. loc[c].num -> Items]
  BY <1>9 DEF Run
<1>11. Run(c) \in Seq(Items)
  <2>1. Run(c) \in UNION {[1 .. n -> Items] : n \in Nat}
    BY <1>3, <1>10
  <2> QED BY <2>1, SeqDef
<1> QED BY <1>3, <1>4, <1>6, <1>7, <1>8, <1>11

(* The entry that the front moves on to. *)
LEMMA FrontMoves ==
  ASSUME IInv, ~gone, next[front] # Null
  PROVE  /\ FrontAt \in 1 .. Len(order) - 1 /\ next[front] = order[FrontAt + 1]
         /\ next[front] \in Items /\ next[front] \in Elements(order)
         /\ Place(order, next[front]) = FrontAt + 1
<1>1. TypeOK /\ Ordered
  BY DEF IInv
<1>2. FrontAt \in 1 .. Len(order) /\ front = order[FrontAt] /\ Len(order) \in Nat /\ DOMAIN order = 1 .. Len(order)
  BY <1>1, OrderFacts
<1>3. FrontAt \in 1 .. Len(order) - 1
  <2>1. FrontAt # Len(order)
    BY <1>1, <1>2, OrderFacts
  <2>2. Len(order) \in Nat /\ FrontAt \in 1 .. Len(order)
    BY <1>2
  <2> QED BY <2>1, <2>2
<1>4. next[front] = order[FrontAt + 1] /\ FrontAt + 1 \in 1 .. Len(order) /\ FrontAt + 1 # 1
  BY <1>1, <1>2, <1>3, OrderFacts
<1>5. next[front] # Dummy
  BY <1>1, <1>2, <1>4 DEF Ordered
<1> QED BY <1>1, <1>3, <1>4, <1>5, OrderFacts DEF Entries

(* The locals of a consumer, when one or two of them change. *)
Frames == [old : Entries \cup {Null}, new : Entries \cup {Null},
           entry : Entries \cup {Null}, num : Nat, i : Nat]

LEMMA LocalsTyped ==
  ASSUME TypeOK, NEW c \in Consumers, NEW n \in Nat, NEW e \in Entries \cup {Null}
  PROVE  /\ [loc EXCEPT ![c].num = n] \in [Consumers -> Frames]
         /\ [loc EXCEPT ![c].old = e] \in [Consumers -> Frames]
         /\ [loc EXCEPT ![c].new = e] \in [Consumers -> Frames]
         /\ [loc EXCEPT ![c].i = n, ![c].entry = e] \in [Consumers -> Frames]
<1>1. loc \in [Consumers -> Frames]
  BY DEF TypeOK, Frames
<1>2. [loc[c] EXCEPT !.num = n] \in Frames /\ [loc[c] EXCEPT !.i = n] \in Frames
  BY <1>1 DEF Frames
<1>3. [loc EXCEPT ![c].num = n] \in [Consumers -> Frames]
  BY <1>1, <1>2
<1> DEFINE g == [loc EXCEPT ![c].i = n]
<1>4. g \in [Consumers -> Frames]
  BY <1>1, <1>2
<1>5. [loc EXCEPT ![c].i = n, ![c].entry = e] = [g EXCEPT ![c].entry = e]
  OBVIOUS
<1> HIDE DEF g
<1>6. [g[c] EXCEPT !.entry = e] \in Frames
  BY <1>4 DEF Frames
<1>7. [g EXCEPT ![c].entry = e] \in [Consumers -> Frames]
  BY <1>4, <1>6
<1>8. [loc[c] EXCEPT !.old = e] \in Frames /\ [loc[c] EXCEPT !.new = e] \in Frames
  BY <1>1 DEF Frames
<1>9. [loc EXCEPT ![c].old = e] \in [Consumers -> Frames]
  BY <1>1, <1>8
<1>10. [loc EXCEPT ![c].new = e] \in [Consumers -> Frames]
  BY <1>1, <1>8
<1> QED BY <1>3, <1>5, <1>7, <1>9, <1>10

LEMMA ConsumerTypes ==
  ASSUME IInv, NEW c \in Consumers, AcquirePop(c) \/ GoOn(c)
  PROVE  TypeOK'
<1>1. TypeOK /\ Locks /\ Locals(c) /\ Ordered
  BY DEF IInv, Walks
<1>2. cpc[c] # "idle" => ~gone
  BY <1>1 DEF Locks, Quiet
<1>3. \A n \in Int : Wrap(n) \in 0 .. Modulus - 1
  BY WrapFacts
<1>4. cpc[c] = "unlock" \/ cpc[c] = "delete" \/ cpc[c] = "copy" => loc[c].old \in Entries
  BY <1>1, OrderFacts DEF Locals
<1> USE <1>1 DEF TypeOK, Consuming, list, producer
<1>5. CASE AcquirePop(c)
  BY <1>5 DEF AcquirePop
<1>6. CASE FindEmpty(c)
  BY <1>6 DEF FindEmpty
<1>7. CASE TakeFront(c)
  <2>1. ~gone /\ next[front] # Null /\ front \in Entries
    BY <1>2, <1>7, OrderFacts DEF TakeFront
  <2>2. next[front] \in Items
    BY <2>1, FrontMoves
  <2>3. <<next[front]>> \in Seq(Items) /\ <<next[front]>> \in Seq(Entries \cup {Blank})
    BY <2>2 DEF Entries
  <2> HIDE <1>1
  <2>4. loc' \in [Consumers -> Frames]
    <3>1. loc' = [loc EXCEPT ![c].old = front] /\ front \in Entries \cup {Null}
      BY <1>7, <2>1 DEF TakeFront
    <3> QED BY <1>1, <3>1, LocalsTyped
  <2>5. next[front] \in Entries
    BY <2>2 DEF Entries
  <2> QED BY <1>1, <1>7, <2>3, <2>4, <2>5 DEF TakeFront, Frames
<1>8. CASE ReleasePop(c)
  BY <1>8 DEF ReleasePop
<1>9. CASE DeleteFirst(c)
  BY <1>4, <1>9 DEF DeleteFirst, NoLocals
<1>10. CASE SubtractOne(c)
  <2>1. length - 1 \in Int
    BY NumbersAssumption
  <2>2. length' \in 0 .. Modulus - 1
    BY <1>3, <1>10, <2>1 DEF SubtractOne
  <2> QED BY <1>10, <2>2 DEF SubtractOne
<1>11. CASE SaveFront(c)
  <2>1. loc' \in [Consumers -> Frames]
    BY <1>11, LocalsTyped DEF SaveFront
  <2> QED BY <1>11, <2>1 DEF SaveFront, Frames
<1>12. CASE Walk(c)
  <2>1. next[front] \in Entries
    BY <1>2, <1>12, FrontMoves DEF Walk, Entries
  <2>2. loc[c].num + 1 \in Nat
    OBVIOUS
  <2>3. loc' \in [Consumers -> Frames]
    BY <1>12, <2>2, LocalsTyped DEF Walk
  <2> QED BY <1>12, <2>1, <2>3 DEF Walk, Frames
<1>13. CASE WalkEnds(c)
  BY <1>13, WalkTakes DEF WalkEnds
<1>14. CASE SubtractAll(c)
  <2>1. length - loc[c].num \in Int
    BY NumbersAssumption
  <2>2. loc' \in [Consumers -> Frames]
    BY <1>14, LocalsTyped DEF SubtractAll
  <2> QED BY <1>3, <1>14, <2>1, <2>2 DEF SubtractAll, Frames
<1>15. CASE ReleaseAll(c)
  <2> DEFINE r == [k \in 1 .. loc[c].num |-> IF k <= Len(result[c]) THEN result[c][k] ELSE Blank]
  <2>1. \A k \in 1 .. Len(result[c]) : result[c][k] \in Entries \cup {Blank}
    BY ElementOfSeq
  <2>2. Len(result[c]) \in Nat /\ loc[c].num \in Nat
    BY LenProperties
  <2>3. r \in [1 .. loc[c].num -> Entries \cup {Blank}]
    BY <2>1, <2>2
  <2>4. r \in Seq(Entries \cup {Blank})
    <3>1. r \in UNION {[1 .. n -> Entries \cup {Blank}] : n \in Nat}
      BY <2>2, <2>3
    <3> QED BY <3>1, SeqDef
  <2>5. loc[c].old \in Entries
    BY <1>15, OrderFacts DEF Locals, ReleaseAll
  <2>6. loc' \in [Consumers -> Frames]
    <3>1. 1 \in Nat /\ next[loc[c].old] \in Entries \cup {Null}
      BY <2>5
    <3> HIDE <1>1 DEF TypeOK
    <3> QED BY <1>1, <1>15, <3>1, LocalsTyped DEF ReleaseAll
  <2> HIDE DEF r
  <2>7. result' = [result EXCEPT ![c] = r]
    BY <1>15 DEF ReleaseAll, r
  <2>8. result' \in [Consumers -> Seq(Entries \cup {Blank})]
    BY <2>4, <2>7
  <2>9. popping' = Null /\ cpc' = [cpc EXCEPT ![c] = "copy"]
        /\ UNCHANGED <<list, pushing, length, producer, taken, gone>>
    BY <1>15 DEF ReleaseAll
  <2> QED BY <2>6, <2>8, <2>9 DEF Frames
<1>16. CASE CopyEntry(c)
  <2>1. cpc[c] = "copy" /\ loc[c].entry = order[OldAt(c) + loc[c].i]
        /\ loc[c].i \in 1 .. loc[c].num /\ OldAt(c) + loc[c].num <= FrontAt /\ loc[c].old \in Elements(order)
    BY <1>16 DEF CopyEntry, Locals
  <2>2. ~gone /\ OldAt(c) \in 1 .. Len(order) /\ FrontAt \in 1 .. Len(order) /\ loc[c].num \in Nat
        /\ Len(order) \in Nat
    BY <1>2, <2>1, OrderFacts DEF OldAt
  <2>3. OldAt(c) + loc[c].i \in 1 .. Len(order)
    BY <2>1, <2>2
  <2>4. loc[c].entry \in Entries
    BY <2>1, <2>3, OrderFacts
  <2>5. [result[c] EXCEPT ![loc[c].i] = loc[c].entry] \in Seq(Entries \cup {Blank})
    <3>1. result[c] \in UNION {[1 .. n -> Entries \cup {Blank}] : n \in Nat}
      BY SeqDef
    <3>2. PICK n \in Nat : result[c] \in [1 .. n -> Entries \cup {Blank}]
      BY <3>1
    <3>3. [result[c] EXCEPT ![loc[c].i] = loc[c].entry] \in [1 .. n -> Entries \cup {Blank}]
      BY <2>4, <3>2
    <3>4. [result[c] EXCEPT ![loc[c].i] = loc[c].entry] \in UNION {[1 .. m -> Entries \cup {Blank}] : m \in Nat}
      BY <3>3
    <3> QED BY <3>4, SeqDef
  <2>6. loc' \in [Consumers -> Frames]
    <3>1. loc[c].i + 1 \in Nat /\ next[loc[c].entry] \in Entries \cup {Null}
      BY <2>4
    <3> HIDE <1>1 DEF TypeOK
    <3> QED BY <1>1, <1>16, <3>1, LocalsTyped DEF CopyEntry
  <2> QED BY <1>16, <2>4, <2>5, <2>6 DEF CopyEntry, Frames
<1>17. CASE DeleteOldFront(c)
  BY <1>4, <1>17 DEF DeleteOldFront, NoLocals
<1> QED BY <1>5, <1>6, <1>7, <1>8, <1>9, <1>10, <1>11, <1>12, <1>13, <1>14, <1>15, <1>16, <1>17 DEF GoOn

(* At most one thread is between the acquisition and the release of each   *)
(* lock.                                                                   *)
LEMMA ProducerLocks ==
  ASSUME IInv, NEW p \in Producers, Produce(p)
  PROVE  Locks'
<1>1. TypeOK /\ Locks /\ ~gone /\ Null \notin Producers
  <2>1. gone => Quiet
    BY DEF IInv, Locks
  <2>2. ASSUME gone PROVE FALSE
    <3>1. ppc[p] = "idle"
      BY <2>1, <2>2 DEF Quiet
    <3> QED BY <2>2, <3>1 DEF Produce, Call, Throttle, WakeUp, Allocate, AcquirePush, Link, SetBack,
                              ReleasePush, AddLength, Producing
  <2> QED BY <2>2, NamesAssumption DEF IInv
<1>2. UNCHANGED <<popping, cpc, gone>>
  BY ProducerFrame
<1>3. /\ \A q \in Producers \ {p} : ppc'[q] = ppc[q]
      /\ \/ ppc'[p] \in {"link", "back", "release"} /\ ppc[p] \in {"link", "back", "release"} /\ pushing' = pushing
         \/ ppc'[p] \notin {"link", "back", "release"} /\ ppc[p] \notin {"link", "back", "release"} /\ pushing' = pushing
         \/ ppc'[p] = "link" /\ pushing = Null /\ pushing' = p
         \/ ppc[p] = "release" /\ ppc'[p] = "add" /\ pushing' = Null
  <2> USE <1>1 DEF TypeOK, Producing
  <2>1. ASSUME NEW s \in Vectors, Call(p, s) PROVE <1>3
    BY <2>1 DEF Call
  <2>2. CASE Throttle(p) \/ WakeUp(p) \/ Allocate(p)
    BY <2>2 DEF Throttle, WakeUp, Allocate
  <2>3. CASE AcquirePush(p)
    BY <2>3 DEF AcquirePush
  <2>4. CASE Link(p) \/ SetBack(p)
    BY <2>4 DEF Link, SetBack
  <2>5. CASE ReleasePush(p) \/ AddLength(p)
    BY <2>5 DEF ReleasePush, AddLength
  <2> QED BY <2>1, <2>2, <2>3, <2>4, <2>5 DEF Produce
<1>4. \A q \in Producers : ppc'[q] \in {"link", "back", "release"} <=> pushing' = q
  BY <1>1, <1>3 DEF Locks
<1> QED BY <1>1, <1>2, <1>4 DEF Locks

LEMMA ConsumerLocks ==
  ASSUME IInv, NEW c \in Consumers, AcquirePop(c) \/ GoOn(c)
  PROVE  Locks'
<1> DEFINE In == {"take", "unlock", "first", "walk", "subtractAll", "unlockAll"}
<1>1. TypeOK /\ Locks /\ ~gone /\ Null \notin Consumers
  <2>1. gone => Quiet
    BY DEF IInv, Locks
  <2>2. ASSUME gone PROVE FALSE
    <3>1. cpc[c] = "idle"
      BY <2>1, <2>2 DEF Quiet
    <3> QED BY <2>2, <3>1 DEF AcquirePop, GoOn, FindEmpty, TakeFront, ReleasePop, DeleteFirst, SubtractOne, SaveFront,
                 Walk, WalkEnds, SubtractAll, ReleaseAll, CopyEntry, DeleteOldFront, Consuming
  <2> QED BY <2>2, NamesAssumption DEF IInv
<1>2. UNCHANGED <<pushing, ppc, gone>>
  BY ConsumerFrame
<1>3. /\ \A d \in Consumers \ {c} : cpc'[d] = cpc[d]
      /\ \/ cpc'[c] \in In /\ cpc[c] \in In /\ popping' = popping
         \/ cpc'[c] \notin In /\ cpc[c] \notin In /\ popping' = popping
         \/ cpc'[c] \in In /\ popping = Null /\ popping' = c
         \/ cpc[c] \in In /\ cpc'[c] \notin In /\ popping' = Null
  <2> USE <1>1 DEF TypeOK, Consuming
  <2>1. CASE AcquirePop(c)
    BY <2>1 DEF AcquirePop
  <2>2. CASE FindEmpty(c)
    BY <2>2 DEF FindEmpty
  <2>3. CASE TakeFront(c) \/ SaveFront(c) \/ Walk(c)
    BY <2>3 DEF TakeFront, SaveFront, Walk
  <2>4. CASE WalkEnds(c) \/ SubtractAll(c)
    BY <2>4 DEF WalkEnds, SubtractAll
  <2>5. CASE ReleasePop(c) \/ ReleaseAll(c)
    BY <2>5 DEF ReleasePop, ReleaseAll
  <2>6. CASE DeleteFirst(c) \/ SubtractOne(c)
    BY <2>6 DEF DeleteFirst, SubtractOne
  <2>7. CASE CopyEntry(c) \/ DeleteOldFront(c)
    BY <2>7 DEF CopyEntry, DeleteOldFront
  <2> QED BY <2>1, <2>2, <2>3, <2>4, <2>5, <2>6, <2>7 DEF GoOn
<1>4. \A d \in Consumers : cpc'[d] \in In <=> popping' = d
  <2>1. \A d \in Consumers : cpc[d] \in In <=> popping = d
    BY <1>1 DEF Locks
  <2> HIDE DEF In
  <2> QED BY <1>1, <1>3, <2>1
<1> QED BY <1>1, <1>2, <1>4 DEF Locks

-----------------------------------------------------------------------------
(* A push.                                                                 *)

LEMMA ChainFacts ==
  ASSUME IInv, NEW p \in Producers, ppc[p] # "idle"
  PROVE  /\ chain[p] \in Vectors
         /\ ppc[p] \in {"check", "asleep", "acquire", "link"} =>
              /\ Unlinked(p) = Elements(chain[p])
              /\ Elements(chain[p]) \cap Elements(order) = {} /\ Elements(chain[p]) \subseteq made
         /\ ppc[p] \in {"back", "release", "add"} =>
              Pending(p) = Elements(chain[p]) /\ Elements(chain[p]) \subseteq Elements(order)
<1>1. Chains /\ TypeOK
  BY DEF IInv
<1>2. chain[p] \in Vectors
  BY <1>1 DEF Chains
<1>3. Elements(chain[p]) \subseteq Items
  BY <1>2, VectorFacts
<1>4. ppc[p] \in {"check", "asleep", "acquire", "link"} => Unlinked(p) = Elements(chain[p])
  BY DEF Unlinked
<1>5. ppc[p] \in {"back", "release", "add"} => Pending(p) = Elements(chain[p])
  BY DEF Pending
<1>6. Unlinked(p) \subseteq made \cup {Dummy}
  BY <1>1 DEF Chains
<1> QED BY <1>1, <1>2, <1>3, <1>4, <1>5, <1>6, NamesAssumption DEF Chains

(* What one assignment to _back->next puts on the list. *)
LEMMA LinkFacts ==
  ASSUME IInv, NEW p \in Producers, Link(p)
  PROVE  /\ chain[p] \in Vectors /\ ~gone
         /\ back = order[Len(order)] /\ \A q \in Producers : ppc[q] # "back"
         /\ order' \in Seq(Entries) /\ Len(order') = Len(order) + Len(chain[p])
         /\ \A k \in 1 .. Len(order) : order'[k] = order[k]
         /\ \A k \in 1 .. Len(chain[p]) : order'[Len(order) + k] = chain[p][k]
         /\ Elements(order') = Elements(order) \cup Elements(chain[p])
         /\ Elements(order) \cap Elements(chain[p]) = {}
         /\ \A j, k \in DOMAIN order' : order'[j] = order'[k] => j = k
<1>1. TypeOK /\ Ordered /\ Locks /\ Backs /\ ppc[p] = "link" /\ order' = order \o chain[p]
  BY DEF IInv, Link, Producing
<1>2. chain[p] \in Vectors /\ Elements(order) \cap Elements(chain[p]) = {}
  BY <1>1, ChainFacts
<1>3. ~gone
  BY <1>1 DEF Locks, Quiet
<1>4. \A q \in Producers : ppc[q] # "back"
  BY <1>1 DEF Locks
<1>5. back = order[Len(order)]
  BY <1>1, <1>4 DEF Backs
<1>6. chain[p] \in Seq(Entries) /\ order \in Seq(Entries)
  BY <1>1, <1>2, VectorFacts, SeqMonotonic DEF Entries, TypeOK
<1>7. order' \in Seq(Entries) /\ Len(order') = Len(order) + Len(chain[p])
      /\ \A k \in 1 .. Len(order) + Len(chain[p]) :
           order'[k] = IF k <= Len(order) THEN order[k] ELSE chain[p][k - Len(order)]
  BY <1>1, <1>6, ConcatProperties
<1>8. Elements(order') = Elements(order) \cup Elements(chain[p])
  BY <1>1, <1>6, ConcatElements
<1>9. Len(order) \in Nat /\ Len(chain[p]) \in Nat
  BY <1>6, LenProperties
<1>10. \A k \in 1 .. Len(order) : order'[k] = order[k]
  BY <1>7, <1>9
<1>11. \A k \in 1 .. Len(chain[p]) : order'[Len(order) + k] = chain[p][k]
  <2>1. \A k \in 1 .. Len(chain[p]) : /\ Len(order) + k \in 1 .. Len(order) + Len(chain[p])
                                      /\ ~(Len(order) + k <= Len(order)) /\ (Len(order) + k) - Len(order) = k
    BY <1>9
  <2> QED BY <1>7, <2>1
<1>12. ASSUME NEW j \in DOMAIN order', NEW k \in DOMAIN order', order'[j] = order'[k]
       PROVE  j = k
  <2>1. j \in 1 .. Len(order) + Len(chain[p]) /\ k \in 1 .. Len(order) + Len(chain[p])
    BY <1>7, LenProperties
  <2>2. CASE j <= Len(order) /\ k <= Len(order)
    <3>1. j \in DOMAIN order /\ k \in DOMAIN order /\ order[j] = order[k]
      BY <1>1, <1>10, <1>12, <2>1, <2>2, OrderFacts
    <3> QED BY <1>1, <3>1 DEF Ordered
  <2>3. CASE j > Len(order) /\ k > Len(order)
    <3>1. /\ j - Len(order) \in 1 .. Len(chain[p]) /\ k - Len(order) \in 1 .. Len(chain[p])
          /\ chain[p][j - Len(order)] = chain[p][k - Len(order)]
      <4>1. ASSUME NEW x \in 1 .. Len(order) + Len(chain[p]), x > Len(order)
            PROVE  x - Len(order) \in 1 .. Len(chain[p]) /\ order'[x] = chain[p][x - Len(order)]
        <5>1. x - Len(order) \in 1 .. Len(chain[p]) /\ ~(x <= Len(order))
          BY <1>9, <4>1
        <5> QED BY <1>7, <5>1
      <4> QED BY <1>12, <2>1, <2>3, <4>1
    <3>2. j - Len(order) = k - Len(order)
      BY <1>2, <3>1, VectorFacts
    <3> QED BY <1>9, <2>1, <3>2
  <2>4. \A x, y \in 1 .. Len(order) + Len(chain[p]) :
          x <= Len(order) /\ y > Len(order) => order'[x] # order'[y]
    <3>1. ASSUME NEW x \in 1 .. Len(order) + Len(chain[p]), NEW y \in 1 .. Len(order) + Len(chain[p]),
                 x <= Len(order), y > Len(order)
          PROVE  order'[x] # order'[y]
      <4>1. x \in 1 .. Len(order) /\ y - Len(order) \in 1 .. Len(chain[p])
        BY <1>9, <3>1
      <4>2. order'[x] \in Elements(order)
        BY <1>1, <1>10, <4>1, OrderFacts
      <4>3. order'[y] \in Elements(chain[p])
        <5>1. ~(y <= Len(order))
          BY <1>9, <3>1
        <5>2. order'[y] = chain[p][y - Len(order)]
          BY <1>7, <5>1
        <5> QED BY <1>2, <4>1, <5>2, VectorFacts
      <4> QED BY <1>2, <4>2, <4>3
    <3> QED BY <3>1
  <2> QED BY <1>9, <1>12, <2>1, <2>2, <2>3, <2>4
<1> QED BY <1>2, <1>3, <1>4, <1>5, <1>7, <1>8, <1>10, <1>11, <1>12

(* The places of what was linked before do not change. *)
LEMMA LinkPlaces ==
  ASSUME IInv, NEW p \in Producers, Link(p)
  PROVE  /\ \A e \in Elements(order) : Place(order', e) = Place(order, e)
         /\ FrontAt' = FrontAt
<1>1. TypeOK /\ Ordered
  BY DEF IInv
<1>2. Len(order) \in Nat /\ Len(chain[p]) \in Nat /\ DOMAIN order' = 1 .. Len(order) + Len(chain[p])
  BY <1>1, LinkFacts, OrderFacts, VectorFacts, LenProperties
<1>3. ASSUME NEW e \in Elements(order) PROVE Place(order', e) = Place(order, e)
  <2>1. Place(order, e) \in 1 .. Len(order) /\ order[Place(order, e)] = e
    BY <1>1, OrderFacts
  <2>2. Place(order, e) \in DOMAIN order' /\ order'[Place(order, e)] = e
    BY <1>2, <2>1, LinkFacts
  <2>3. Place(order', order'[Place(order, e)]) = Place(order, e)
    BY <2>2, LinkFacts, PlaceFacts
  <2> QED BY <2>2, <2>3
<1>4. gone' = gone /\ front' = front /\ ~gone
  BY LinkFacts DEF Link, list
<1>5. front \in Elements(order)
  BY <1>1, <1>4 DEF Ordered
<1> QED BY <1>3, <1>4, <1>5 DEF FrontAt

LEMMA ProducerOrdered ==
  ASSUME IInv, NEW p \in Producers, Produce(p)
  PROVE  Ordered'
<1>1. TypeOK /\ Ordered /\ UNCHANGED <<front, gone>>
  BY ProducerFrame DEF IInv
<1>2. CASE next' = next /\ order' = order
  BY <1>1, <1>2 DEF Ordered
<1>3. CASE Allocate(p)
  <2>1. order' = order
    BY <1>3 DEF Allocate
  <2>2. chain[p] \in Vectors /\ Elements(chain[p]) \cap Elements(order) = {}
    BY <1>3, ChainFacts DEF Allocate, Producing
  <2>3. \A k \in 1 .. Len(order) : next'[order[k]] = next[order[k]]
    <3>1. \A k \in 1 .. Len(order) : order[k] \in Entries \ Elements(chain[p])
      BY <1>1, <2>2, OrderFacts
    <3> QED BY <1>1, <1>3, <2>2, <3>1, AllocateLinks
  <2>4. Len(order) \in Nat \ {0}
    BY <1>1, OrderFacts
  <2>5. \A k \in 1 .. Len(order) - 1 : next'[order[k]] = order[k + 1]
    <3>1. \A k \in 1 .. Len(order) - 1 : k \in 1 .. Len(order)
      BY <2>4
    <3> QED BY <1>1, <2>3, <3>1 DEF Ordered
  <2>6. next'[order[Len(order)]] = Null
    BY <1>1, <2>3, <2>4 DEF Ordered
  <2> QED BY <1>1, <2>1, <2>5, <2>6 DEF Ordered
<1>4. CASE Link(p)
  <2>1. Len(order) \in Nat \ {0} /\ Len(chain[p]) \in Nat \ {0}
    BY <1>1, <1>4, LinkFacts, OrderFacts, VectorFacts
  <2>2. next' = [next EXCEPT ![order[Len(order)]] = chain[p][1]]
    BY <1>4, LinkFacts DEF Link
  <2>3. ASSUME NEW e \in Entries PROVE next'[e] = IF e = order[Len(order)] THEN chain[p][1] ELSE next[e]
    BY <1>1, <2>2 DEF TypeOK
  <2>4. ASSUME NEW k \in 1 .. Len(order') - 1 PROVE next'[order'[k]] = order'[k + 1]
    <3>1. Len(order') = Len(order) + Len(chain[p])
      BY <1>4, LinkFacts
    <3>2. CASE k < Len(order)
      <4>1. k \in 1 .. Len(order) - 1 /\ k \in 1 .. Len(order) /\ k + 1 \in 1 .. Len(order)
            /\ Len(order) \in 1 .. Len(order)
        BY <2>1, <3>2
      <4>2. order[k] \in Entries /\ order[k] # order[Len(order)] /\ next[order[k]] = order[k + 1]
        BY <1>1, <3>2, <4>1, OrderFacts
      <4>3. order'[k] = order[k] /\ order'[k + 1] = order[k + 1]
        BY <1>4, <4>1, LinkFacts
      <4> QED BY <2>3, <4>2, <4>3
    <3>3. CASE k = Len(order)
      <4>1. k \in 1 .. Len(order) /\ 1 \in 1 .. Len(chain[p])
        BY <2>1, <3>3
      <4>2. order'[k] = order[Len(order)] /\ order'[k + 1] = chain[p][1]
        BY <1>4, <3>3, <4>1, LinkFacts
      <4>3. order[Len(order)] \in Entries
        BY <1>1, <3>3, <4>1, OrderFacts
      <4> QED BY <2>3, <4>2, <4>3
    <3>4. CASE k > Len(order)
      <4> DEFINE j == k - Len(order)
      <4>1. j \in 1 .. Len(chain[p]) - 1 /\ j \in 1 .. Len(chain[p]) /\ j + 1 \in 1 .. Len(chain[p])
            /\ Len(order) + j = k /\ Len(order) + (j + 1) = k + 1
        BY <2>1, <3>1, <3>4
      <4> HIDE DEF j
      <4>2. order'[Len(order) + j] = chain[p][j] /\ order'[Len(order) + (j + 1)] = chain[p][j + 1]
        BY <1>4, <4>1, LinkFacts
      <4>3. next[chain[p][j]] = chain[p][j + 1]
        BY <1>4, <4>1 DEF IInv, Fresh, Link, Producing
      <4>4. chain[p][j] \in Entries /\ chain[p][j] # order[Len(order)]
        <5>0. chain[p] \in Vectors
          BY <1>4, LinkFacts
        <5>1. chain[p][j] \in Entries /\ chain[p][j] \in Elements(chain[p])
          BY <4>1, <5>0, VectorFacts
        <5>2. order[Len(order)] \in Elements(order)
          BY <1>1, <2>1, OrderFacts
        <5> QED BY <1>4, <5>1, <5>2, LinkFacts
      <4> QED BY <2>3, <4>1, <4>2, <4>3, <4>4
    <3> QED BY <2>1, <3>2, <3>3, <3>4
  <2>5. next'[order'[Len(order')]] = Null
    <3>1. order'[Len(order')] = chain[p][Len(chain[p])] /\ Len(chain[p]) \in 1 .. Len(chain[p])
      <4>1. Len(chain[p]) \in 1 .. Len(chain[p])
        BY <2>1
      <4>2. order'[Len(order) + Len(chain[p])] = chain[p][Len(chain[p])]
        BY <1>4, <4>1, LinkFacts
      <4>3. Len(order') = Len(order) + Len(chain[p])
        BY <1>4, LinkFacts
      <4> QED BY <4>1, <4>2, <4>3
    <3>2. next[chain[p][Len(chain[p])]] = Null
      BY <1>4 DEF IInv, Fresh, Link, Producing
    <3>3. chain[p][Len(chain[p])] \in Entries /\ chain[p][Len(chain[p])] \in Elements(chain[p])
      BY <1>4, <3>1, LinkFacts, VectorFacts
    <3>4. order[Len(order)] \in Elements(order)
      BY <1>1, <2>1, OrderFacts
    <3>5. chain[p][Len(chain[p])] # order[Len(order)]
      BY <1>4, <3>3, <3>4, LinkFacts
    <3> QED BY <2>3, <3>1, <3>2, <3>3, <3>5
  <2>6. Len(order') > 0 /\ order'[1] = Dummy
    BY <1>1, <1>4, <2>1, LinkFacts DEF Ordered
  <2>7. ~gone /\ front \in Elements(order)
    BY <1>1, <1>4, LinkFacts DEF Ordered
  <2>8. front' \in Elements(order') /\ Elements(order)' = Elements(order') /\ ~gone'
    BY <1>1, <1>4, <2>7, LinkFacts DEF Elements
  <2>9. \A j, k \in DOMAIN order' : order'[j] = order'[k] => j = k
    BY <1>4, LinkFacts
  <2> QED BY <2>4, <2>5, <2>6, <2>8, <2>9 DEF Ordered
<1>5. \/ next' = next /\ order' = order
      \/ Allocate(p) \/ Link(p)
  BY DEF Produce, Call, Throttle, WakeUp, AcquirePush, SetBack, ReleasePush, AddLength, list
<1> QED BY <1>2, <1>3, <1>4, <1>5

(* All that producers have made: their chains, and the list. *)
LEMMA MadeFacts ==
  ASSUME IInv
  PROVE  /\ \A q \in Producers : Elements(chain[q]) \subseteq made
         /\ Elements(order) \subseteq made \cup {Dummy} /\ made \subseteq Items /\ Dummy \notin Items
         /\ \A q \in Producers : ppc[q] = "idle" => Elements(chain[q]) = {}
<1>1. TypeOK /\ Chains
  BY DEF IInv
<1>2. Elements(order) \subseteq made \cup {Dummy} /\ made \subseteq Items /\ Dummy \notin Items
  BY <1>1, NamesAssumption DEF Chains, TypeOK
<1>3. Elements(<<>>) = {}
  BY DEF Elements
<1>4. ASSUME NEW q \in Producers, ppc[q] = "idle" PROVE Elements(chain[q]) = {}
  BY <1>1, <1>3, <1>4 DEF Chains
<1>5. ASSUME NEW q \in Producers PROVE Elements(chain[q]) \subseteq made
  <2>1. CASE ppc[q] = "idle"
    BY <1>4, <2>1
  <2>2. CASE ppc[q] \in {"check", "asleep", "acquire", "link"}
    BY <2>2, ChainFacts
  <2>3. CASE ppc[q] \in {"back", "release", "add"}
    <3>1. Elements(chain[q]) \subseteq Elements(order) /\ Elements(chain[q]) \subseteq Items
      BY <2>3, ChainFacts, VectorFacts
    <3> QED BY <1>2, <3>1
  <2> QED BY <1>1, <2>1, <2>2, <2>3 DEF TypeOK
<1> QED BY <1>2, <1>4, <1>5

LEMMA ProducerChains ==
  ASSUME IInv, NEW p \in Producers, Produce(p)
  PROVE  Chains'
<1>1. TypeOK /\ Chains
  BY DEF IInv
<1>2. (p \in Producers)' /\ Elements(<<>>) = {}
  BY DEF Elements
<1>3. ASSUME NEW s \in Vectors, Call(p, s) PROVE Chains'
  <2>1. Elements(s) \cap made = {} /\ Elements(s) \subseteq Items /\ order' = order
        /\ made' = made \cup Elements(s) /\ ppc[p] = "idle"
        /\ chain' = [chain EXCEPT ![p] = s] /\ ppc' = [ppc EXCEPT ![p] = "check"]
    BY <1>3, VectorFacts DEF Call, Producing
  <2>2. /\ chain'[p] = s /\ ppc'[p] = "check"
        /\ \A q \in Producers \ {p} : chain'[q] = chain[q] /\ ppc'[q] = ppc[q]
    BY <1>1, <2>1 DEF TypeOK
  <2>3. Elements(order)' = Elements(order)
    BY <2>1 DEF Elements
  <2>4. /\ Unlinked(p)' = Elements(s) /\ Pending(p)' = {} /\ Unlinked(p) = {}
        /\ \A q \in Producers \ {p} : Unlinked(q)' = Unlinked(q) /\ Pending(q)' = Pending(q)
    BY <2>1, <2>2 DEF Unlinked, Pending, Elements
  <2>5. \A q, r \in Producers : q # r => Elements(chain'[q]) \cap Elements(chain'[r]) = {}
    BY <1>1, <2>1, <2>2, MadeFacts DEF Chains
  <2>6. \A q \in Producers : IF ppc'[q] = "idle" THEN chain'[q] = <<>> ELSE chain'[q] \in Vectors
    BY <1>1, <1>3, <2>2 DEF Chains
  <2>7. \A q \in Producers : Pending(q)' \subseteq Elements(order) /\ Unlinked(q)' \cap Elements(order) = {}
    BY <1>1, <2>1, <2>4, MadeFacts DEF Chains
  <2>8. made' \cup {Dummy} = Elements(order) \cup UNION {Unlinked(q)' : q \in Producers}
    BY <1>1, <2>1, <2>4 DEF Chains
  <2> QED BY <2>3, <2>5, <2>6, <2>7, <2>8 DEF Chains, Elements
<1>4. ASSUME UNCHANGED <<order, made, chain>>,
             \A q \in Producers : /\ Unlinked(q)' = Unlinked(q) /\ Pending(q)' = Pending(q)
                                  /\ ppc'[q] = "idle" <=> ppc[q] = "idle"
      PROVE  Chains'
  <2>1. made' \cup {Dummy} = Elements(order') \cup UNION {Unlinked(q)' : q \in Producers}
    BY <1>1, <1>4 DEF Chains
  <2>2. \A q \in Producers : Pending(q)' \subseteq Elements(order') /\ Unlinked(q)' \cap Elements(order') = {}
    BY <1>1, <1>4 DEF Chains
  <2>3. \A q, r \in Producers : q # r => Elements(chain'[q]) \cap Elements(chain'[r]) = {}
    BY <1>1, <1>4 DEF Chains
  <2>4. \A q \in Producers : IF ppc'[q] = "idle" THEN chain'[q] = <<>> ELSE chain'[q] \in Vectors
    BY <1>1, <1>4 DEF Chains
  <2> QED BY <2>1, <2>2, <2>3, <2>4 DEF Chains, Elements
<1>5. CASE Throttle(p) \/ WakeUp(p) \/ Allocate(p) \/ AcquirePush(p)
  <2>1. UNCHANGED <<order, made, chain>>
    BY <1>5 DEF Throttle, WakeUp, Allocate, AcquirePush
  <2>2. ppc[p] \in {"check", "asleep", "acquire"} /\ ppc'[p] \in {"check", "asleep", "acquire", "link"}
        /\ \A q \in Producers \ {p} : ppc'[q] = ppc[q]
    BY <1>1, <1>5 DEF Throttle, WakeUp, Allocate, AcquirePush, Producing, TypeOK
  <2> QED BY <1>4, <2>1, <2>2 DEF Unlinked, Pending, Elements
<1>6. CASE SetBack(p) \/ ReleasePush(p)
  <2>1. UNCHANGED <<order, made, chain>>
    BY <1>6 DEF SetBack, ReleasePush
  <2>2. ppc[p] \in {"back", "release"} /\ ppc'[p] \in {"release", "add"}
        /\ \A q \in Producers \ {p} : ppc'[q] = ppc[q]
    BY <1>1, <1>6 DEF SetBack, ReleasePush, Producing, TypeOK
  <2> QED BY <1>4, <2>1, <2>2 DEF Unlinked, Pending, Elements
<1>7. CASE Link(p)
  <2>1. UNCHANGED <<made, chain>> /\ ppc[p] = "link" /\ ppc'[p] = "back"
        /\ \A q \in Producers \ {p} : ppc'[q] = ppc[q]
    BY <1>1, <1>7 DEF Link, Producing, TypeOK
  <2>2. /\ Elements(order') = Elements(order) \cup Elements(chain[p])
        /\ Elements(order)' = Elements(order')
    BY <1>7, LinkFacts DEF Elements
  <2>3. /\ Unlinked(p)' = {} /\ Unlinked(p) = Elements(chain[p])
        /\ Pending(p)' = Elements(chain[p]) /\ Pending(p) = {}
        /\ \A q \in Producers \ {p} : Unlinked(q)' = Unlinked(q) /\ Pending(q)' = Pending(q)
    BY <2>1 DEF Unlinked, Pending, Elements
  <2>4. \A q \in Producers \ {p} : Unlinked(q) \cap Elements(chain[p]) = {}
    BY <1>1 DEF Chains, Unlinked
  <2>5. \A q \in Producers : Pending(q)' \subseteq Elements(order') /\ Unlinked(q)' \cap Elements(order') = {}
    BY <1>1, <2>2, <2>3, <2>4 DEF Chains
  <2>6. made' \cup {Dummy} = Elements(order') \cup UNION {Unlinked(q)' : q \in Producers}
    BY <1>1, <2>1, <2>2, <2>3 DEF Chains
  <2>7. \A q \in Producers : ppc'[q] = "idle" <=> ppc[q] = "idle"
    BY <2>1
  <2>8. \A q, r \in Producers : q # r => Elements(chain'[q]) \cap Elements(chain'[r]) = {}
    BY <1>1, <2>1 DEF Chains
  <2>9. \A q \in Producers : IF ppc'[q] = "idle" THEN chain'[q] = <<>> ELSE chain'[q] \in Vectors
    BY <1>1, <2>1, <2>7 DEF Chains
  <2> QED BY <2>5, <2>6, <2>8, <2>9 DEF Chains, Elements
<1>8. CASE AddLength(p)
  <2>1. UNCHANGED <<made, order>> /\ ppc[p] = "add" /\ ppc'[p] = "idle" /\ chain'[p] = <<>>
        /\ \A q \in Producers \ {p} : ppc'[q] = ppc[q] /\ chain'[q] = chain[q]
    BY <1>1, <1>8 DEF AddLength, Producing, TypeOK
  <2>2. /\ Unlinked(p)' = {} /\ Pending(p)' = {} /\ Unlinked(p) = {}
        /\ \A q \in Producers \ {p} : Unlinked(q)' = Unlinked(q) /\ Pending(q)' = Pending(q)
    BY <2>1 DEF Unlinked, Pending, Elements
  <2>3. \A q, r \in Producers : q # r => Elements(chain'[q]) \cap Elements(chain'[r]) = {}
    BY <1>1, <1>2, <2>1 DEF Chains
  <2>4. \A q \in Producers : IF ppc'[q] = "idle" THEN chain'[q] = <<>> ELSE chain'[q] \in Vectors
    BY <1>1, <2>1 DEF Chains
  <2>5. made' \cup {Dummy} = Elements(order') \cup UNION {Unlinked(q)' : q \in Producers}
    BY <1>1, <2>1, <2>2 DEF Chains
  <2>6. \A q \in Producers : Pending(q)' \subseteq Elements(order') /\ Unlinked(q)' \cap Elements(order') = {}
    BY <1>1, <2>1, <2>2 DEF Chains
  <2> QED BY <2>3, <2>4, <2>5, <2>6 DEF Chains, Elements
<1> QED BY <1>3, <1>5, <1>6, <1>7, <1>8 DEF Produce

LEMMA ProducerFresh ==
  ASSUME IInv, NEW p \in Producers, Produce(p)
  PROVE  Fresh'
<1>1. TypeOK /\ Fresh /\ Chains
  BY DEF IInv
<1>2. ASSUME NEW s \in Vectors, Call(p, s) PROVE Fresh'
  <2>1. /\ Elements(s) \cap made = {} /\ Elements(s) \subseteq Items /\ made' = made \cup Elements(s)
        /\ next' = next /\ chain'[p] = s /\ ppc'[p] = "check"
        /\ \A q \in Producers \ {p} : chain'[q] = chain[q] /\ ppc'[q] = ppc[q]
    BY <1>1, <1>2, VectorFacts DEF Call, Producing, TypeOK, list
  <2>2. \A e \in Elements(chain'[p]) : next'[e] = Null
    BY <1>1, <2>1 DEF Fresh
  <2> QED BY <1>1, <2>1, <2>2 DEF Fresh
<1>3. CASE Allocate(p)
  <2>1. /\ made' = made /\ chain' = chain /\ ppc[p] = "check" /\ ppc'[p] = "acquire"
        /\ \A q \in Producers \ {p} : ppc'[q] = ppc[q]
    BY <1>1, <1>3 DEF Allocate, Producing, TypeOK
  <2>2. chain[p] \in Vectors /\ Elements(chain[p]) \subseteq made
    BY <2>1, ChainFacts
  <2>3. \A e \in Items \ made : next'[e] = Null
    <3>1. \A e \in Items \ made : e \in Entries \ Elements(chain[p])
      BY <2>2 DEF Entries
    <3> QED BY <1>1, <1>3, <2>2, <3>1, AllocateLinks DEF Fresh
  <2>4. ASSUME NEW q \in Producers \ {p}, ppc[q] # "idle"
        PROVE  \A e \in Elements(chain[q]) : next'[e] = next[e]
    <3>1. chain[q] \in Vectors /\ Elements(chain[q]) \cap Elements(chain[p]) = {}
      BY <1>1, <2>4 DEF Chains
    <3>2. Elements(chain[q]) \subseteq Entries
      BY <3>1, VectorFacts DEF Entries
    <3> QED BY <1>1, <1>3, <2>2, <3>1, <3>2, AllocateLinks
  <2>5. ASSUME NEW q \in Producers \ {p}, ppc[q] \in {"check", "asleep"}
        PROVE  \A e \in Elements(chain[q]) : next'[e] = Null
    BY <1>1, <2>4, <2>5 DEF Fresh
  <2>6. ASSUME NEW q \in Producers \ {p}, ppc[q] \in {"acquire", "link"}
        PROVE  /\ \A k \in 1 .. Len(chain[q]) - 1 : next'[chain[q][k]] = chain[q][k + 1]
               /\ next'[chain[q][Len(chain[q])]] = Null
    <3>1. chain[q] \in Vectors
      BY <1>1, <2>6 DEF Chains
    <3>2. \A k \in 1 .. Len(chain[q]) : next'[chain[q][k]] = next[chain[q][k]]
      BY <2>4, <2>6, <3>1, VectorFacts
    <3>3. Len(chain[q]) \in Nat \ {0}
      BY <3>1, VectorFacts
    <3>4. \A k \in 1 .. Len(chain[q]) - 1 : k \in 1 .. Len(chain[q])
      BY <3>3
    <3>5. Len(chain[q]) \in 1 .. Len(chain[q])
      BY <3>3
    <3> QED BY <1>1, <2>6, <3>2, <3>4, <3>5 DEF Fresh
  <2>7. /\ \A k \in 1 .. Len(chain[p]) - 1 : next'[chain[p][k]] = chain[p][k + 1]
        /\ next'[chain[p][Len(chain[p])]] = Null
    <3>1. chain[p][Len(chain[p])] \in Elements(chain[p])
      BY <2>2, VectorFacts
    <3>2. next[chain[p][Len(chain[p])]] = Null
      BY <1>1, <2>1, <3>1 DEF Fresh
    <3> QED BY <1>1, <1>3, <2>2, <3>2, AllocateLinks
  <2> QED BY <2>1, <2>3, <2>5, <2>6, <2>7 DEF Fresh
<1>4. CASE Link(p)
  <2>1. /\ made' = made /\ chain' = chain /\ ppc'[p] = "back"
        /\ \A q \in Producers \ {p} : ppc'[q] = ppc[q]
    BY <1>1, <1>4 DEF Link, Producing, TypeOK
  <2>2. back \in Elements(order)
    BY <1>1, <1>4, LinkFacts, OrderFacts DEF IInv
  <2>3. \A e \in Entries \ Elements(order) : next'[e] = next[e]
    BY <1>1, <1>4, <2>2 DEF Link, TypeOK
  <2>4. \A e \in Items \ made : next'[e] = Null
    <3>1. \A e \in Items \ made : e \in Entries \ Elements(order)
      BY MadeFacts DEF Entries
    <3> QED BY <1>1, <2>3, <3>1 DEF Fresh
  <2>5. ASSUME NEW q \in Producers \ {p}, ppc[q] \in {"check", "asleep", "acquire", "link"}
        PROVE  chain[q] \in Vectors /\ \A e \in Elements(chain[q]) : next'[e] = next[e]
    <3>1. chain[q] \in Vectors /\ Elements(chain[q]) \cap Elements(order) = {}
      BY <2>5, ChainFacts
    <3>2. Elements(chain[q]) \subseteq Entries
      BY <3>1, VectorFacts DEF Entries
    <3> QED BY <2>3, <3>1, <3>2
  <2>6. ASSUME NEW q \in Producers \ {p}, ppc[q] \in {"check", "asleep"}
        PROVE  \A e \in Elements(chain[q]) : next'[e] = Null
    BY <1>1, <2>5, <2>6 DEF Fresh
  <2>7. ASSUME NEW q \in Producers \ {p}, ppc[q] \in {"acquire", "link"}
        PROVE  /\ \A k \in 1 .. Len(chain[q]) - 1 : next'[chain[q][k]] = chain[q][k + 1]
               /\ next'[chain[q][Len(chain[q])]] = Null
    <3>1. chain[q] \in Vectors
      BY <2>5, <2>7
    <3>2. \A k \in 1 .. Len(chain[q]) : next'[chain[q][k]] = next[chain[q][k]]
      BY <2>5, <2>7, <3>1, VectorFacts
    <3>3. Len(chain[q]) \in Nat \ {0}
      BY <3>1, VectorFacts
    <3>4. \A k \in 1 .. Len(chain[q]) - 1 : k \in 1 .. Len(chain[q])
      BY <3>3
    <3>5. Len(chain[q]) \in 1 .. Len(chain[q])
      BY <3>3
    <3> QED BY <1>1, <2>7, <3>2, <3>4, <3>5 DEF Fresh
  <2> QED BY <2>1, <2>4, <2>6, <2>7 DEF Fresh
<1>5. ASSUME UNCHANGED <<next, made>>,
             \A q \in Producers :
               \/ ppc'[q] \in {"idle", "back", "release", "add"}
               \/ chain'[q] = chain[q] /\ ppc[q] \in {"check", "asleep"} /\ ppc'[q] \in {"check", "asleep"}
               \/ chain'[q] = chain[q] /\ ppc[q] \in {"acquire", "link"} /\ ppc'[q] \in {"acquire", "link"}
      PROVE  Fresh'
  BY <1>1, <1>5 DEF Fresh
<1>6. CASE Throttle(p) \/ WakeUp(p) \/ AcquirePush(p) \/ SetBack(p) \/ ReleasePush(p)
  <2>1. UNCHANGED <<next, made, chain>>
    BY <1>6 DEF Throttle, WakeUp, AcquirePush, SetBack, ReleasePush, list
  <2>2. /\ \A q \in Producers \ {p} : ppc'[q] = ppc[q]
        /\ \/ ppc'[p] \in {"release", "add"}
           \/ ppc[p] \in {"check", "asleep"} /\ ppc'[p] \in {"check", "asleep"}
           \/ ppc[p] = "acquire" /\ ppc'[p] = "link"
    BY <1>1, <1>6 DEF Throttle, WakeUp, AcquirePush, SetBack, ReleasePush, Producing, TypeOK
  <2>3. \A q \in Producers : ppc[q] \in {"idle", "check", "asleep", "acquire", "link", "back", "release", "add"}
    BY <1>1 DEF TypeOK
  <2> QED BY <1>5, <2>1, <2>2, <2>3
<1>7. CASE AddLength(p)
  BY <1>1, <1>5, <1>7 DEF AddLength, Producing, TypeOK, list
<1> QED BY <1>2, <1>3, <1>4, <1>6, <1>7 DEF Produce

LEMMA ProducerBacks ==
  ASSUME IInv, NEW p \in Producers, Produce(p)
  PROVE  Backs'
<1>1. TypeOK /\ Backs /\ Ordered /\ Locks
  BY DEF IInv
<1>2. CASE Link(p)
  <2>1. chain' = chain /\ ppc'[p] = "back" /\ \A q \in Producers \ {p} : ppc'[q] = ppc[q] /\ ppc'[q] # "back"
    BY <1>1, <1>2, LinkFacts DEF Link, Producing, TypeOK
  <2>2. Len(order') = Len(order) + Len(chain[p]) /\ Len(chain[p]) \in 1 .. Len(chain[p])
    BY <1>2, LinkFacts, VectorFacts
  <2>3. order'[Len(order')] = chain[p][Len(chain[p])]
    BY <1>2, <2>2, LinkFacts
  <2> QED BY <2>1, <2>3 DEF Backs
<1>3. CASE SetBack(p)
  <2>1. order' = order /\ chain' = chain /\ back' = chain[p][Len(chain[p])] /\ ppc[p] = "back" /\ ppc'[p] = "release"
        /\ \A q \in Producers \ {p} : ppc'[q] = ppc[q]
    BY <1>1, <1>3 DEF SetBack, Producing, TypeOK
  <2>2. \A q \in Producers : ppc'[q] # "back"
    BY <1>1, <2>1 DEF Locks
  <2> QED BY <1>1, <2>1, <2>2 DEF Backs
<1>4. ASSUME UNCHANGED <<order, back>>,
             \A q \in Producers : /\ ppc'[q] = "back" <=> ppc[q] = "back"
                                  /\ ppc[q] = "back" => chain'[q] = chain[q]
      PROVE  Backs'
  BY <1>1, <1>4 DEF Backs
<1>5. ASSUME NEW s \in Vectors, Call(p, s) PROVE Backs'
  BY <1>1, <1>4, <1>5 DEF Call, Producing, TypeOK, list
<1>6. CASE Throttle(p) \/ WakeUp(p) \/ Allocate(p) \/ AcquirePush(p) \/ ReleasePush(p)
  BY <1>1, <1>4, <1>6 DEF Throttle, WakeUp, Allocate, AcquirePush, ReleasePush, Producing, TypeOK, list
<1>7. CASE AddLength(p)
  BY <1>1, <1>4, <1>7 DEF AddLength, Producing, TypeOK, list
<1> QED BY <1>2, <1>3, <1>5, <1>6, <1>7 DEF Produce

-----------------------------------------------------------------------------
(* What a push leaves of what the consumers know.                          *)

LEMMA LocalsFacts ==
  ASSUME IInv, NEW c \in Consumers
  PROVE  /\ loc[c].num \in Nat /\ loc[c].i \in Nat /\ Len(order) \in Nat \ {0}
         /\ FrontAt \in 1 .. Len(order) + 1
         /\ cpc[c] # "idle" => ~gone /\ FrontAt \in 1 .. Len(order)
         /\ cpc[c] \in {"unlock", "delete", "walk", "subtractAll", "unlockAll", "copy"} =>
              loc[c].old \in Elements(order) /\ OldAt(c) \in 1 .. Len(order) /\ order[OldAt(c)] = loc[c].old
         /\ cpc[c] \in {"walk", "subtractAll", "unlockAll", "copy"} => OldAt(c) + loc[c].num <= FrontAt
         /\ Held(c) \subseteq 1 .. FrontAt - 1
         /\ Uncounted(c) \subseteq 2 .. FrontAt
<1>1. TypeOK /\ Ordered /\ Locks /\ Locals(c)
  BY DEF IInv, Walks
<1>2. loc[c].num \in Nat /\ loc[c].i \in Nat
  BY <1>1 DEF TypeOK
<1>3. Len(order) \in Nat \ {0} /\ FrontAt \in 1 .. Len(order) + 1
  BY <1>1, OrderFacts
<1>4. cpc[c] # "idle" => ~gone /\ FrontAt \in 1 .. Len(order)
  BY <1>1, OrderFacts DEF Locks, Quiet
<1>5. cpc[c] \in {"unlock", "delete", "walk", "subtractAll", "unlockAll", "copy"} =>
        loc[c].old \in Elements(order) /\ OldAt(c) \in 1 .. Len(order) /\ order[OldAt(c)] = loc[c].old
  BY <1>1, OrderFacts DEF Locals, OldAt
<1>6. cpc[c] \in {"walk", "subtractAll", "unlockAll", "copy"} => OldAt(c) + loc[c].num <= FrontAt
  BY <1>1, <1>2, <1>3, <1>5 DEF Locals
<1>7. Held(c) \subseteq 1 .. FrontAt - 1
  <2>1. CASE cpc[c] \in {"unlock", "delete"}
    <3>1. OldAt(c) < FrontAt /\ OldAt(c) \in 1 .. Len(order) /\ Held(c) = {OldAt(c)}
      BY <1>1, <1>5, <2>1 DEF Locals, Held
    <3> QED BY <1>3, <3>1
  <2>2. CASE cpc[c] = "walk"
    <3>1. OldAt(c) \in 1 .. Len(order) /\ Held(c) = OldAt(c) .. FrontAt - 1
      BY <1>5, <2>2 DEF Held
    <3> QED BY <1>3, <3>1
  <2>3. CASE cpc[c] \in {"subtractAll", "unlockAll"}
    <3>1. OldAt(c) \in 1 .. Len(order) /\ Held(c) = OldAt(c) .. OldAt(c) + loc[c].num - 1
      BY <1>5, <2>3 DEF Held
    <3>2. OldAt(c) + loc[c].num <= FrontAt
      BY <1>6, <2>3
    <3> QED BY <1>2, <1>3, <3>1, <3>2
  <2>4. CASE cpc[c] = "copy"
    <3>1. /\ OldAt(c) \in 1 .. Len(order)
          /\ Held(c) = {OldAt(c)} \cup (OldAt(c) + loc[c].i .. OldAt(c) + loc[c].num - 1)
      BY <1>5, <2>4 DEF Held
    <3>2. OldAt(c) + loc[c].num <= FrontAt /\ loc[c].i \in 1 .. loc[c].num
      BY <1>1, <1>6, <2>4 DEF Locals
    <3> QED BY <1>2, <1>3, <3>1, <3>2
  <2>5. CASE cpc[c] \notin {"unlock", "delete", "walk", "subtractAll", "unlockAll", "copy"}
    BY <2>5 DEF Held
  <2> QED BY <2>1, <2>2, <2>3, <2>4, <2>5
<1>8. Uncounted(c) \subseteq 2 .. FrontAt
  <2>1. CASE cpc[c] \in {"unlock", "delete", "subtract"}
    BY <1>1, <2>1 DEF Locals, Uncounted
  <2>2. CASE cpc[c] = "walk"
    <3>1. OldAt(c) \in 1 .. Len(order) /\ Uncounted(c) = OldAt(c) + 1 .. FrontAt
      BY <1>5, <2>2 DEF Uncounted
    <3> QED BY <1>3, <3>1
  <2>3. CASE cpc[c] = "subtractAll"
    <3>1. OldAt(c) \in 1 .. Len(order) /\ Uncounted(c) = OldAt(c) + 1 .. OldAt(c) + loc[c].num
      BY <1>5, <2>3 DEF Uncounted
    <3>2. OldAt(c) + loc[c].num <= FrontAt
      BY <1>6, <2>3
    <3> QED BY <1>2, <1>3, <3>1, <3>2
  <2>4. CASE cpc[c] \notin {"unlock", "delete", "subtract", "walk", "subtractAll"}
    BY <2>4 DEF Uncounted
  <2> QED BY <2>1, <2>2, <2>3, <2>4
<1> QED BY <1>2, <1>3, <1>4, <1>5, <1>6, <1>7, <1>8

(* A push moves nothing that was on the list. *)
LEMMA PushPlaces ==
  ASSUME IInv, NEW p \in Producers, Produce(p)
  PROVE  /\ FrontAt' = FrontAt /\ Len(order') \in Nat /\ Len(order) <= Len(order')
         /\ \A e \in Elements(order) : Place(order', e) = Place(order, e) /\ e \in Elements(order')
         /\ \A k \in 1 .. Len(order) : order'[k] = order[k]
         /\ DOMAIN order' = 1 .. Len(order') /\ DOMAIN order = 1 .. Len(order)
         /\ \A k \in DOMAIN order' : k \in DOMAIN order \/ order'[k] \notin Elements(order)
<1>1. TypeOK /\ Ordered
  BY DEF IInv
<1>2. Len(order) \in Nat /\ DOMAIN order = 1 .. Len(order)
  BY <1>1, OrderFacts
<1>3. CASE order' = order
  <2>1. FrontAt' = FrontAt
    BY <1>3, ProducerFrame DEF FrontAt
  <2> QED BY <1>2, <1>3, <2>1
<1>4. CASE Link(p)
  <2>1. /\ Len(order') = Len(order) + Len(chain[p]) /\ Len(chain[p]) \in Nat
        /\ DOMAIN order' = 1 .. Len(order')
    BY <1>4, LinkFacts, VectorFacts, LenProperties
  <2>2. ASSUME NEW k \in DOMAIN order', k \notin DOMAIN order PROVE order'[k] \notin Elements(order)
    <3>1. k - Len(order) \in 1 .. Len(chain[p]) /\ Len(order) + (k - Len(order)) = k
      BY <1>2, <2>1, <2>2
    <3>2. order'[k] = chain[p][k - Len(order)]
      BY <1>4, <3>1, LinkFacts
    <3>3. order'[k] \in Elements(chain[p])
      BY <1>4, <3>1, <3>2, LinkFacts, VectorFacts
    <3> QED BY <1>4, <3>3, LinkFacts
  <2>3. FrontAt' = FrontAt /\ \A e \in Elements(order) : Place(order', e) = Place(order, e) /\ e \in Elements(order')
    BY <1>4, LinkFacts, LinkPlaces
  <2>4. \A k \in 1 .. Len(order) : order'[k] = order[k]
    BY <1>4, LinkFacts
  <2>5. Len(order) <= Len(order') /\ Len(order') \in Nat
    BY <1>2, <2>1
  <2> QED BY <1>2, <2>1, <2>2, <2>3, <2>4, <2>5
<1> QED BY <1>3, <1>4, ProducerFrame

LEMMA ProducerLeaves ==
  ASSUME IInv, NEW p \in Producers, Produce(p)
  PROVE  Walks' /\ Deletions' /\ Apart' /\ Discounted' = Discounted
<1>1. TypeOK /\ Ordered /\ Walks /\ Deletions /\ Apart
  BY DEF IInv
<1>2. UNCHANGED <<freed, front, popping, cpc, loc, result, taken, gone>>
  BY ProducerFrame
<1>3. FrontAt' = FrontAt
  BY PushPlaces
<1>4. ASSUME NEW c \in Consumers,
             cpc[c] \in {"unlock", "delete", "walk", "subtractAll", "unlockAll", "copy"}
      PROVE  OldAt(c)' = OldAt(c) /\ loc'[c].old \in Elements(order')
  BY <1>2, <1>4, LocalsFacts, PushPlaces DEF OldAt
<1>5. ASSUME NEW c \in Consumers, cpc[c] \in {"subtractAll", "unlockAll", "copy"}
      PROVE  Run(c)' = Run(c)
  <2>1. OldAt(c)' = OldAt(c) /\ loc'[c].num = loc[c].num
    BY <1>2, <1>4, <1>5
  <2>2. \A k \in 1 .. loc[c].num : OldAt(c) + k \in 1 .. Len(order)
    BY <1>5, LocalsFacts
  <2>3. \A k \in 1 .. loc[c].num : order'[OldAt(c) + k] = order[OldAt(c) + k]
    BY <2>2, PushPlaces
  <2> QED BY <2>1, <2>3 DEF Run
<1>6. ASSUME NEW c \in Consumers, cpc[c] = "copy"
      PROVE  /\ loc'[c].new = order'[OldAt(c) + loc[c].num]
             /\ loc'[c].entry = order'[OldAt(c) + loc[c].i]
  <2>1. loc[c].i \in 1 .. loc[c].num /\ loc[c].num \in 1 .. loc[c].num
        /\ loc[c].new = order[OldAt(c) + loc[c].num] /\ loc[c].entry = order[OldAt(c) + loc[c].i]
    BY <1>1, <1>6, LocalsFacts DEF Walks, Locals
  <2>2. \A k \in 1 .. loc[c].num : OldAt(c) + k \in 1 .. Len(order)
    BY <1>6, LocalsFacts
  <2>3. \A k \in 1 .. loc[c].num : order'[OldAt(c) + k] = order[OldAt(c) + k]
    BY <2>2, PushPlaces
  <2> QED BY <1>2, <2>1, <2>3
<1>7. ASSUME NEW c \in Consumers, cpc[c] \in {"unlock", "delete", "subtract"}
      PROVE  taken[c][1] \in Elements(order') /\ Place(order', taken[c][1]) = Place(order, taken[c][1])
  BY <1>1, <1>7, PushPlaces DEF Walks, Locals
<1>8. ASSUME NEW c \in Consumers PROVE Locals(c)'
  <2>0. Locals(c) /\ Len(order) \in Nat /\ Len(order') \in Nat /\ Len(order) <= Len(order')
        /\ FrontAt \in Int /\ Elements(order)' = Elements(order')
    BY <1>1, LocalsFacts, PushPlaces DEF Walks, Elements
  <2>1. CASE cpc[c] \in {"unlock", "delete"}
    BY <1>2, <1>3, <1>4, <1>7, <2>0, <2>1 DEF Locals
  <2>2. CASE cpc[c] = "subtract"
    BY <1>2, <1>3, <1>7, <2>0, <2>2 DEF Locals
  <2>3. CASE cpc[c] = "walk"
    BY <1>2, <1>3, <1>4, <2>0, <2>3 DEF Locals
  <2>4. CASE cpc[c] \in {"subtractAll", "unlockAll"}
    BY <1>2, <1>3, <1>4, <1>5, <2>0, <2>4 DEF Locals
  <2>5. CASE cpc[c] = "copy"
    BY <1>2, <1>3, <1>4, <1>5, <1>6, <2>0, <2>5 DEF Locals
  <2>6. CASE cpc[c] \notin {"unlock", "delete", "subtract", "walk", "subtractAll", "unlockAll", "copy"}
    BY <1>2, <2>0, <2>6 DEF Locals
  <2> QED BY <2>1, <2>2, <2>3, <2>4, <2>5, <2>6
<1>9. ASSUME NEW c \in Consumers PROVE Held(c)' = Held(c) /\ Uncounted(c)' = Uncounted(c)
  BY <1>2, <1>3, <1>4, <1>7 DEF Held, Uncounted
<1>10. Deleted' = Deleted
  <2>1. Deleted' = {k \in DOMAIN order' : order'[k] \in freed}
    BY <1>2 DEF Deleted
  <2>2. freed \subseteq Elements(order)
    BY <1>1 DEF Deletions
  <2>3. \A k \in DOMAIN order' : order'[k] \in freed => k \in DOMAIN order /\ order[k] \in freed
    BY <2>2, PushPlaces
  <2>4. \A k \in DOMAIN order : order[k] \in freed => k \in DOMAIN order' /\ order'[k] \in freed
    <3>1. \A k \in 1 .. Len(order) : k \in 1 .. Len(order')
      BY PushPlaces, <1>1, OrderFacts
    <3> QED BY <3>1, PushPlaces
  <2> QED BY <2>1, <2>3, <2>4 DEF Deleted
<1>11. Walks'
  BY <1>8 DEF Walks
<1>12. Deletions'
  <2>1. freed' \subseteq Elements(order')
    BY <1>1, <1>2, PushPlaces DEF Deletions
  <2>2. Deleted' \cup UNION {Held(c)' : c \in Consumers} = 1 .. FrontAt' - 1
    BY <1>1, <1>3, <1>9, <1>10 DEF Deletions
  <2> QED BY <1>1, <1>9, <1>10, <2>1, <2>2 DEF Deletions, Elements
<1>13. Apart'
  BY <1>1, <1>9 DEF Apart
<1>14. Discounted' = Discounted
  BY <1>3, <1>9 DEF Discounted
<1> QED BY <1>11, <1>12, <1>13, <1>14

-----------------------------------------------------------------------------
(* What a pop leaves of what the producers and the other consumers know.   *)

LEMMA FrontPlaces ==
  ASSUME IInv, NEW c \in Consumers, AcquirePop(c) \/ GoOn(c)
  PROVE  /\ ~gone /\ gone' = gone /\ order' = order
         /\ FrontAt \in 1 .. Len(order) /\ FrontAt' \in 1 .. Len(order) /\ Len(order) \in Nat
         /\ front \in Elements(order) /\ front' \in Elements(order)
         /\ \/ FrontAt' = FrontAt /\ front' = front
            \/ FrontAt' = FrontAt + 1 /\ popping = c /\ (TakeFront(c) \/ Walk(c))
<1>1. TypeOK /\ Ordered /\ Locks
  BY DEF IInv
<1>2. ~gone /\ gone' = gone /\ order' = order
  <2>1. AcquirePop(c) \/ cpc[c] # "idle"
    BY DEF GoOn, FindEmpty, TakeFront, ReleasePop, DeleteFirst, SubtractOne, SaveFront,
           Walk, WalkEnds, SubtractAll, ReleaseAll, CopyEntry, DeleteOldFront, Consuming
  <2> QED BY <1>1, <2>1, ConsumerFrame DEF AcquirePop, Locks, Quiet
<1>3. FrontAt \in 1 .. Len(order) /\ Len(order) \in Nat /\ front \in Elements(order)
  BY <1>1, <1>2, OrderFacts DEF Ordered
<1>4. CASE front' = front
  BY <1>2, <1>3, <1>4 DEF FrontAt
<1>5. CASE TakeFront(c) \/ Walk(c)
  <2>1. next[front] # Null /\ front' = next[front] /\ popping = c
    BY <1>1, <1>5 DEF TakeFront, Walk, Consuming, Locks
  <2>2. /\ FrontAt \in 1 .. Len(order) - 1 /\ next[front] \in Elements(order)
        /\ Place(order, next[front]) = FrontAt + 1
    BY <1>2, <2>1, FrontMoves
  <2>3. FrontAt' = FrontAt + 1
    BY <1>2, <2>1, <2>2 DEF FrontAt
  <2>4. FrontAt + 1 \in 1 .. Len(order)
    <3>1. Len(order) \in Nat /\ FrontAt \in 1 .. Len(order) - 1
      BY <1>3, <2>2
    <3> QED BY <3>1
  <2> QED BY <1>2, <1>3, <1>5, <2>1, <2>2, <2>3, <2>4
<1> QED BY <1>4, <1>5, ConsumerFrame

LEMMA ConsumerKeeps ==
  ASSUME IInv, NEW c \in Consumers, AcquirePop(c) \/ GoOn(c)
  PROVE  Ordered' /\ Chains' /\ Fresh' /\ Backs' /\ Counted' = Counted
<1>1. TypeOK /\ Ordered /\ Chains /\ Fresh /\ Backs
  BY DEF IInv
<1>2. UNCHANGED <<next, back, pushing, ppc, chain, made, order, gone>>
  BY ConsumerFrame
<1>3. \A q \in Producers : Unlinked(q)' = Unlinked(q) /\ Pending(q)' = Pending(q)
  BY <1>2 DEF Unlinked, Pending, Elements
<1>4. Ordered'
  BY <1>1, <1>2, FrontPlaces DEF Ordered, Elements
<1>5. Chains'
  <2>1. \A p \in Producers : Pending(p)' \subseteq Elements(order') /\ Unlinked(p)' \cap Elements(order') = {}
    BY <1>1, <1>2, <1>3 DEF Chains
  <2>2. made' \cup {Dummy} = Elements(order') \cup UNION {Unlinked(p)' : p \in Producers}
    BY <1>1, <1>2, <1>3 DEF Chains
  <2>3. \A p, q \in Producers : p # q => Elements(chain'[p]) \cap Elements(chain'[q]) = {}
    BY <1>1, <1>2 DEF Chains
  <2>4. \A p \in Producers : IF ppc'[p] = "idle" THEN chain'[p] = <<>> ELSE chain'[p] \in Vectors
    BY <1>1, <1>2 DEF Chains
  <2> QED BY <2>1, <2>2, <2>3, <2>4 DEF Chains, Elements
<1>6. Fresh' /\ Backs'
  BY <1>1, <1>2 DEF Fresh, Backs, Elements
<1>7. Counted' = Counted
  BY <1>2, <1>3 DEF Counted, Elements
<1> QED BY <1>4, <1>5, <1>6, <1>7

LEMMA ConsumerOthers ==
  ASSUME IInv, NEW c \in Consumers, AcquirePop(c) \/ GoOn(c), NEW d \in Consumers, d # c
  PROVE  Locals(d)' /\ Held(d)' = Held(d) /\ Uncounted(d)' = Uncounted(d)
<1>1. TypeOK /\ Locks /\ Locals(d)
  BY DEF IInv, Walks
<1>2. order' = order /\ gone' = gone /\ cpc'[d] = cpc[d] /\ loc'[d] = loc[d] /\ taken'[d] = taken[d]
  <2> USE <1>1 DEF TypeOK, Consuming, producer
  <2>1. CASE AcquirePop(c) \/ FindEmpty(c) \/ ReleasePop(c)
    BY <2>1 DEF AcquirePop, FindEmpty, ReleasePop
  <2>2. CASE TakeFront(c) \/ Walk(c) \/ SaveFront(c)
    BY <2>2 DEF TakeFront, Walk, SaveFront
  <2>3. CASE DeleteFirst(c) \/ DeleteOldFront(c) \/ SubtractOne(c)
    BY <2>3 DEF DeleteFirst, DeleteOldFront, SubtractOne
  <2>4. CASE WalkEnds(c) \/ SubtractAll(c)
    BY <2>4 DEF WalkEnds, SubtractAll
  <2>5. CASE ReleaseAll(c) \/ CopyEntry(c)
    BY <2>5 DEF ReleaseAll, CopyEntry
  <2> QED BY <2>1, <2>2, <2>3, <2>4, <2>5 DEF GoOn
<1>3. OldAt(d)' = OldAt(d) /\ Run(d)' = Run(d)
  BY <1>2 DEF OldAt, Run
<1>4. Elements(order)' = Elements(order)
  BY <1>2 DEF Elements
<1>5. CASE FrontAt' = FrontAt /\ front' = front
  BY <1>1, <1>2, <1>3, <1>4, <1>5 DEF Locals, Held, Uncounted
<1>6. CASE FrontAt' = FrontAt + 1 /\ popping = c
  <2>1. cpc[d] \notin {"walk", "subtractAll", "unlockAll"}
    BY <1>1, <1>6 DEF Locks
  <2>2. FrontAt \in Nat /\ loc[d].num \in Nat /\ Len(order) \in Nat
    BY FrontPlaces, LocalsFacts
  <2>3. Held(d)' = Held(d) /\ Uncounted(d)' = Uncounted(d)
    BY <1>2, <1>3, <2>1 DEF Held, Uncounted
  <2>4. /\ cpc[d] \in {"unlock", "delete"} => OldAt(d)' < FrontAt'
        /\ cpc[d] = "copy" => OldAt(d)' + loc'[d].num <= FrontAt'
    <3>1. cpc[d] \in {"unlock", "delete", "copy"} => OldAt(d) \in 1 .. Len(order)
      BY LocalsFacts
    <3>2. /\ cpc[d] \in {"unlock", "delete"} => OldAt(d) < FrontAt
          /\ cpc[d] = "copy" => OldAt(d) + loc[d].num <= FrontAt
      BY <1>1 DEF Locals
    <3> QED BY <1>2, <1>3, <1>6, <2>2, <3>1, <3>2
  <2>5. cpc[d] \in {"unlock", "delete", "subtract"} => Place(order', taken'[d][1]) \in 2 .. FrontAt'
    <3>1. cpc[d] \in {"unlock", "delete", "subtract"} => Place(order, taken[d][1]) \in 2 .. FrontAt
      BY <1>1 DEF Locals
    <3> QED BY <1>2, <1>6, <2>2, <3>1
  <2>6. Locals(d)'
    <3> HIDE <1>6
    <3> QED BY <1>1, <1>2, <1>3, <1>4, <2>1, <2>4, <2>5 DEF Locals
  <2> QED BY <2>3, <2>6
<1> QED BY <1>5, <1>6, FrontPlaces

(* What is left to show of a step of a consumer. *)
LEMMA ConsumerStep ==
  ASSUME IInv, NEW c \in Consumers, AcquirePop(c) \/ GoOn(c),
         Locals(c)', freed' \subseteq Elements(order),
         Deleted' \cup Held(c)' = Deleted \cup Held(c) \cup (FrontAt .. FrontAt' - 1),
         Held(c)' \cap Deleted' = {},
         Uncounted(c)' \subseteq Uncounted(c) \cup (FrontAt + 1 .. FrontAt')
  PROVE  Walks' /\ Deletions' /\ Apart'
<1>1. Deletions /\ Apart
  BY DEF IInv
<1>2. \A d \in Consumers \ {c} : Locals(d)' /\ Held(d)' = Held(d) /\ Uncounted(d)' = Uncounted(d)
  BY ConsumerOthers
<1>3. Walks'
  BY <1>2 DEF Walks
<1>4. FrontAt \in Nat /\ FrontAt' \in Nat /\ (FrontAt' = FrontAt \/ FrontAt' = FrontAt + 1) /\ FrontAt > 0
      /\ order' = order
  BY FrontPlaces
<1>5. \A d \in Consumers : Held(d) \subseteq 1 .. FrontAt - 1 /\ Uncounted(d) \subseteq 2 .. FrontAt
  BY LocalsFacts
<1> DEFINE New == FrontAt .. FrontAt' - 1
<1>6. \A d \in Consumers : Held(d) \cap New = {} /\ Uncounted(d) \cap (FrontAt + 1 .. FrontAt') = {}
  BY <1>4, <1>5
<1>7. (1 .. FrontAt - 1) \cup New = 1 .. FrontAt' - 1
  BY <1>4
<1> HIDE DEF New
<1>8. Deleted' \cup Held(c)' = Deleted \cup Held(c) \cup New
  BY DEF New
<1>9. \A d \in Consumers \ {c} : /\ Held(d) \cap (Deleted \cup Held(c) \cup New) = {}
  BY <1>1, <1>6 DEF Deletions
<1>10. \A d \in Consumers : Held(d)' \cap Deleted' = {}
  BY <1>2, <1>8, <1>9
<1>11. \A d, e \in Consumers : d # e => Held(d)' \cap Held(e)' = {}
  <2>1. \A d \in Consumers \ {c} : Held(d)' \cap Held(c)' = {}
    BY <1>2, <1>8, <1>9
  <2>2. \A d, e \in Consumers \ {c} : d # e => Held(d)' \cap Held(e)' = {}
    BY <1>1, <1>2 DEF Deletions
  <2> QED BY <2>1, <2>2
<1>12. Deleted' \cup UNION {Held(d)' : d \in Consumers} = 1 .. FrontAt' - 1
  <2> DEFINE Rest == UNION {Held(d) : d \in Consumers \ {c}}
  <2>1. UNION {Held(d)' : d \in Consumers} = Rest \cup Held(c)'
    BY <1>2
  <2>2. UNION {Held(d) : d \in Consumers} = Rest \cup Held(c)
    OBVIOUS
  <2> HIDE DEF Rest
  <2>3. Deleted \cup Rest \cup Held(c) = 1 .. FrontAt - 1
    BY <1>1, <2>2 DEF Deletions
  <2> QED BY <1>7, <1>8, <2>1, <2>3
<1>13. Deletions'
  BY <1>4, <1>10, <1>11, <1>12 DEF Deletions, Elements
<1>14. Apart'
  <2>1. \A d \in Consumers \ {c} : Uncounted(d)' \cap Uncounted(c)' = {}
    BY <1>1, <1>2, <1>6 DEF Apart
  <2>2. \A d, e \in Consumers \ {c} : d # e => Uncounted(d)' \cap Uncounted(e)' = {}
    BY <1>1, <1>2 DEF Apart
  <2> QED BY <2>1, <2>2 DEF Apart
<1> QED BY <1>3, <1>13, <1>14

-----------------------------------------------------------------------------
(* A pop, step by step.                                                    *)

Owned(c) ==
  /\ Locals(c)'
  /\ freed' \subseteq Elements(order)
  /\ Deleted' \cup Held(c)' = Deleted \cup Held(c) \cup (FrontAt .. FrontAt' - 1)
  /\ Held(c)' \cap Deleted' = {}

LEMMA NothingDeleted ==
  ASSUME IInv, NEW c \in Consumers, AcquirePop(c) \/ GoOn(c),
         freed' = freed, FrontAt' = FrontAt, Locals(c)', Held(c)' = Held(c)
  PROVE  Owned(c)
<1>1. Deleted' = Deleted /\ FrontAt \in Nat
  BY FrontPlaces DEF Deleted
<1>2. FrontAt .. FrontAt' - 1 = {}
  BY <1>1
<1> QED BY <1>1, <1>2 DEF IInv, Deletions, Owned

LEMMA OneDeleted ==
  ASSUME IInv, NEW c \in Consumers, AcquirePop(c) \/ GoOn(c), NEW k \in 1 .. Len(order),
         freed' = freed \cup {order[k]}, FrontAt' = FrontAt, Locals(c)',
         k \in Held(c), Held(c)' = Held(c) \ {k}
  PROVE  Owned(c)
<1>1. TypeOK /\ Ordered /\ Deletions
  BY DEF IInv
<1>2. order' = order /\ FrontAt \in Nat /\ DOMAIN order = 1 .. Len(order) /\ order[k] \in Elements(order)
  BY <1>1, FrontPlaces, OrderFacts
<1>3. Deleted' = Deleted \cup {k}
  BY <1>1, <1>2 DEF Deleted, Ordered
<1>4. FrontAt .. FrontAt' - 1 = {}
  BY <1>2
<1> QED BY <1>1, <1>2, <1>3, <1>4 DEF Deletions, Owned

LEMMA OwnTakeFront ==
  ASSUME IInv, NEW c \in Consumers, TakeFront(c)
  PROVE  Owned(c) /\ Uncounted(c)' = Uncounted(c) \cup (FrontAt + 1 .. FrontAt')
<1>1. TypeOK /\ Ordered /\ Locks /\ Deletions
  BY DEF IInv
<1>2. /\ cpc[c] = "take" /\ cpc'[c] = "unlock" /\ next[front] # Null /\ front' = next[front]
      /\ loc'[c].old = front /\ taken'[c] = <<next[front]>> /\ freed' = freed
  BY <1>1 DEF TakeFront, Consuming, TypeOK
<1>3. /\ ~gone /\ gone' = gone /\ order' = order /\ FrontAt \in 1 .. Len(order) /\ Len(order) \in Nat
      /\ front \in Elements(order)
  BY FrontPlaces DEF GoOn
<1>4. next[front] \in Elements(order) /\ Place(order, next[front]) = FrontAt + 1
  BY <1>2, <1>3, FrontMoves
<1>5. FrontAt' = FrontAt + 1 /\ OldAt(c)' = FrontAt
  BY <1>2, <1>3, <1>4 DEF FrontAt, OldAt
<1>6. Len(taken'[c]) = 1 /\ taken'[c][1] = next[front]
  BY <1>2
<1>7. Locals(c)'
  BY <1>2, <1>3, <1>4, <1>5, <1>6 DEF Locals, Elements
<1>8. Held(c) = {} /\ Held(c)' = {FrontAt} /\ Uncounted(c) = {} /\ Uncounted(c)' = {FrontAt + 1}
  BY <1>2, <1>3, <1>4, <1>5, <1>6 DEF Held, Uncounted
<1>9. Deleted' = Deleted /\ Deleted \subseteq 1 .. FrontAt - 1
  BY <1>1, <1>2, <1>3 DEF Deleted, Deletions
<1>10. FrontAt .. FrontAt' - 1 = {FrontAt} /\ FrontAt + 1 .. FrontAt' = {FrontAt + 1}
  BY <1>3, <1>5
<1>11. FrontAt \notin Deleted
  BY <1>3, <1>9
<1> QED BY <1>1, <1>2, <1>7, <1>8, <1>9, <1>10, <1>11 DEF Owned, Deletions

LEMMA OwnWalk ==
  ASSUME IInv, NEW c \in Consumers, Walk(c)
  PROVE  Owned(c) /\ Uncounted(c)' = Uncounted(c) \cup (FrontAt + 1 .. FrontAt')
<1>1. TypeOK /\ Ordered /\ Locals(c) /\ Deletions
  BY DEF IInv, Walks
<1>2. /\ cpc[c] = "walk" /\ cpc'[c] = "walk" /\ next[front] # Null /\ front' = next[front]
      /\ loc'[c].old = loc[c].old /\ loc'[c].num = loc[c].num + 1 /\ freed' = freed
  BY <1>1 DEF Walk, Consuming, TypeOK
<1>3. /\ ~gone /\ gone' = gone /\ order' = order /\ FrontAt \in 1 .. Len(order) /\ Len(order) \in Nat
  BY FrontPlaces DEF GoOn
<1>4. Place(order, next[front]) = FrontAt + 1
  BY <1>2, <1>3, FrontMoves
<1>5. FrontAt' = FrontAt + 1 /\ OldAt(c)' = OldAt(c)
  BY <1>2, <1>3, <1>4 DEF FrontAt, OldAt
<1>6. loc[c].num \in Nat /\ OldAt(c) \in 1 .. Len(order) /\ loc[c].old \in Elements(order)
      /\ FrontAt = OldAt(c) + loc[c].num
  BY <1>1, <1>2, LocalsFacts DEF Locals
<1>7. Locals(c)'
  <2>1. loc'[c].num # 0 /\ FrontAt' = OldAt(c)' + loc'[c].num /\ loc'[c].old \in Elements(order)
    BY <1>2, <1>3, <1>5, <1>6
  <2> QED BY <1>2, <1>3, <2>1 DEF Locals, Elements
<1>8. /\ Held(c) = OldAt(c) .. FrontAt - 1 /\ Held(c)' = OldAt(c) .. FrontAt
      /\ Uncounted(c) = OldAt(c) + 1 .. FrontAt /\ Uncounted(c)' = OldAt(c) + 1 .. FrontAt + 1
  <2>1. FrontAt' - 1 = FrontAt
    BY <1>3, <1>5
  <2> QED BY <1>2, <1>5, <2>1 DEF Held, Uncounted
<1>9. Deleted' = Deleted /\ Deleted \subseteq 1 .. FrontAt - 1 /\ Held(c) \cap Deleted = {}
  BY <1>1, <1>2, <1>3 DEF Deleted, Deletions
<1>10. /\ OldAt(c) .. FrontAt = (OldAt(c) .. FrontAt - 1) \cup {FrontAt}
       /\ OldAt(c) + 1 .. FrontAt + 1 = (OldAt(c) + 1 .. FrontAt) \cup {FrontAt + 1}
       /\ FrontAt .. FrontAt' - 1 = {FrontAt} /\ FrontAt + 1 .. FrontAt' = {FrontAt + 1}
  <2> DEFINE o == OldAt(c)
             f == FrontAt
  <2>1. o \in Nat /\ f \in Nat /\ o <= f /\ f' = f + 1
    BY <1>3, <1>5, <1>6
  <2> HIDE DEF o, f
  <2>2. /\ o .. f = (o .. f - 1) \cup {f} /\ o + 1 .. f + 1 = (o + 1 .. f) \cup {f + 1}
        /\ f .. f' - 1 = {f} /\ f + 1 .. f' = {f + 1}
    <3>1. o .. f = (o .. f - 1) \cup {f}
      BY ONLY <2>1
    <3>2. o + 1 .. f + 1 = (o + 1 .. f) \cup {f + 1}
      BY ONLY <2>1
    <3>3. f .. f' - 1 = {f} /\ f + 1 .. f' = {f + 1}
      BY ONLY <2>1
    <3> QED BY ONLY <3>1, <3>2, <3>3
  <2> QED BY ONLY <2>2 DEF o, f
<1>11. FrontAt \notin Deleted
  BY <1>3, <1>9
<1>12. Held(c)' = Held(c) \cup {FrontAt}
  BY <1>8, <1>10
<1> QED BY <1>1, <1>2, <1>7, <1>8, <1>9, <1>10, <1>11, <1>12 DEF Owned, Deletions

LEMMA OwnUnlocks ==
  ASSUME IInv, NEW c \in Consumers, AcquirePop(c) \/ FindEmpty(c) \/ ReleasePop(c) \/ SubtractOne(c)
  PROVE  Owned(c) /\ Uncounted(c)' = IF SubtractOne(c) THEN {} ELSE Uncounted(c)
<1>1. TypeOK /\ Locals(c)
  BY DEF IInv, Walks
<1>2. /\ UNCHANGED <<order, gone, front, freed, loc, taken>>
      /\ \/ cpc[c] = "idle" /\ cpc'[c] \in {"take", "first"}
         \/ cpc[c] \in {"take", "first"} /\ cpc'[c] = "idle"
         \/ cpc[c] = "unlock" /\ cpc'[c] = "delete"
         \/ cpc[c] = "subtract" /\ cpc'[c] = "idle"
      /\ SubtractOne(c) <=> cpc[c] = "subtract"
  BY <1>1 DEF AcquirePop, FindEmpty, ReleasePop, SubtractOne, Consuming, TypeOK, list, producer
<1>3. FrontAt' = FrontAt /\ OldAt(c)' = OldAt(c)
  BY <1>2 DEF FrontAt, OldAt
<1>4. Locals(c)'
  BY <1>1, <1>2, <1>3 DEF Locals, Elements
<1>5. Held(c)' = Held(c)
  BY <1>2, <1>3 DEF Held
<1>6. Uncounted(c)' = IF SubtractOne(c) THEN {} ELSE Uncounted(c)
  BY <1>2, <1>3 DEF Uncounted
<1>7. Owned(c)
  BY <1>2, <1>3, <1>4, <1>5, NothingDeleted DEF GoOn
<1> QED BY <1>6, <1>7

LEMMA OwnSaveFront ==
  ASSUME IInv, NEW c \in Consumers, SaveFront(c)
  PROVE  Owned(c) /\ Uncounted(c)' = Uncounted(c)
<1>1. TypeOK /\ Locals(c) /\ Ordered
  BY DEF IInv, Walks
<1>2. /\ UNCHANGED <<order, gone, front, freed, taken>> /\ cpc[c] = "first" /\ cpc'[c] = "walk"
      /\ loc'[c].old = front /\ loc'[c].num = loc[c].num /\ next[front] # Null
  BY <1>1 DEF SaveFront, Consuming, TypeOK, list, producer
<1>3. ~gone /\ FrontAt \in 1 .. Len(order) /\ Len(order) \in Nat /\ front \in Elements(order)
  BY FrontPlaces DEF GoOn
<1>4. FrontAt' = FrontAt /\ OldAt(c)' = FrontAt /\ loc'[c].num = 0
  BY <1>1, <1>2, <1>3 DEF FrontAt, OldAt, Locals
<1>5. FrontAt \in 1 .. Len(order) - 1
  BY <1>2, <1>3, FrontMoves
<1>6. Locals(c)'
  BY <1>2, <1>3, <1>4, <1>5 DEF Locals, Elements
<1>7. Held(c)' = Held(c) /\ Uncounted(c)' = Uncounted(c)
  <2>1. FrontAt .. FrontAt - 1 = {} /\ FrontAt + 1 .. FrontAt = {}
    BY <1>3
  <2> QED BY <1>2, <1>4, <2>1 DEF Held, Uncounted
<1> QED BY <1>2, <1>4, <1>6, <1>7, NothingDeleted DEF GoOn

LEMMA OwnWalkEnds ==
  ASSUME IInv, NEW c \in Consumers, WalkEnds(c)
  PROVE  Owned(c) /\ Uncounted(c)' = Uncounted(c)
<1>1. TypeOK /\ Locals(c) /\ Ordered
  BY DEF IInv, Walks
<1>2. /\ UNCHANGED <<order, gone, front, freed, loc>> /\ cpc[c] = "walk" /\ cpc'[c] = "subtractAll"
      /\ taken'[c] = Run(c)
  BY <1>1, WalkTakes DEF WalkEnds, Consuming, TypeOK, list, producer
<1>3. FrontAt' = FrontAt /\ OldAt(c)' = OldAt(c) /\ Run(c)' = Run(c)
  BY <1>2 DEF FrontAt, OldAt, Run
<1>4. loc[c].num > 0 /\ FrontAt = OldAt(c) + loc[c].num
  BY <1>1, <1>2, WalkTakes DEF Locals
<1>5. Locals(c)'
  BY <1>1, <1>2, <1>3, <1>4 DEF Locals, Elements
<1>6. Held(c)' = Held(c) /\ Uncounted(c)' = Uncounted(c)
  <2>1. Held(c) = OldAt(c) .. FrontAt - 1 /\ Uncounted(c) = OldAt(c) + 1 .. FrontAt
    BY <1>2 DEF Held, Uncounted
  <2>2. /\ Held(c)' = OldAt(c) .. OldAt(c) + loc[c].num - 1
        /\ Uncounted(c)' = OldAt(c) + 1 .. OldAt(c) + loc[c].num
    BY <1>2, <1>3 DEF Held, Uncounted
  <2>3. OldAt(c) + loc[c].num - 1 = FrontAt - 1 /\ OldAt(c) + loc[c].num = FrontAt
    <3>1. OldAt(c) \in 1 .. Len(order) /\ loc[c].num \in Nat
      BY <1>2, LocalsFacts
    <3> QED BY <1>4, <3>1
  <2> QED BY <2>1, <2>2, <2>3
<1> QED BY <1>2, <1>3, <1>5, <1>6, NothingDeleted DEF GoOn

LEMMA OwnSubtractAll ==
  ASSUME IInv, NEW c \in Consumers, SubtractAll(c)
  PROVE  Owned(c) /\ Uncounted(c)' = {}
<1>1. TypeOK /\ Locals(c) /\ Ordered
  BY DEF IInv, Walks
<1>2. /\ UNCHANGED <<order, gone, front, freed, taken>> /\ cpc[c] = "subtractAll" /\ cpc'[c] = "unlockAll"
      /\ loc'[c].old = loc[c].old /\ loc'[c].num = loc[c].num /\ loc'[c].new = front
  BY <1>1 DEF SubtractAll, Consuming, TypeOK, list, producer
<1>3. FrontAt' = FrontAt /\ OldAt(c)' = OldAt(c) /\ Run(c)' = Run(c)
  BY <1>2 DEF FrontAt, OldAt, Run
<1>4. Locals(c)'
  BY <1>1, <1>2, <1>3 DEF Locals, Elements
<1>5. Held(c)' = Held(c) /\ Uncounted(c)' = {}
  BY <1>2, <1>3 DEF Held, Uncounted
<1> QED BY <1>2, <1>3, <1>4, <1>5, NothingDeleted DEF GoOn

LEMMA OwnReleaseAll ==
  ASSUME IInv, NEW c \in Consumers, ReleaseAll(c)
  PROVE  Owned(c) /\ Uncounted(c)' = Uncounted(c)
<1>1. TypeOK /\ Locals(c) /\ Ordered
  BY DEF IInv, Walks
<1>2. /\ UNCHANGED <<order, gone, front, freed, taken>> /\ cpc[c] = "unlockAll" /\ cpc'[c] = "copy"
      /\ loc'[c].old = loc[c].old /\ loc'[c].num = loc[c].num /\ loc'[c].new = loc[c].new
      /\ loc'[c].i = 1 /\ loc'[c].entry = next[loc[c].old]
  BY <1>1 DEF ReleaseAll, Consuming, TypeOK, list, producer
<1>3. FrontAt' = FrontAt /\ OldAt(c)' = OldAt(c) /\ Run(c)' = Run(c)
  BY <1>2 DEF FrontAt, OldAt, Run
<1>4. /\ loc[c].num \in Nat /\ loc[c].num > 0 /\ OldAt(c) \in 1 .. Len(order) /\ Len(order) \in Nat
      /\ FrontAt = OldAt(c) + loc[c].num /\ FrontAt \in 1 .. Len(order) /\ order[OldAt(c)] = loc[c].old
      /\ loc[c].new = front
  BY <1>1, <1>2, LocalsFacts DEF Locals
<1>5. front = order[FrontAt]
  BY <1>1, <1>2, LocalsFacts, OrderFacts
<1>6. loc'[c].entry = order[OldAt(c) + 1]
  <2>1. OldAt(c) \in 1 .. Len(order) - 1
    BY <1>4
  <2>2. next[order[OldAt(c)]] = order[OldAt(c) + 1]
    BY <1>1, <2>1, OrderFacts
  <2> QED BY <1>2, <1>4, <2>2
<1>7. Locals(c)'
  <2>1. OldAt(c)' + loc'[c].num <= FrontAt' /\ loc'[c].i \in 1 .. loc'[c].num
    BY <1>2, <1>3, <1>4
  <2>2. loc'[c].new = order'[OldAt(c)' + loc'[c].num] /\ loc'[c].entry = order'[OldAt(c)' + loc'[c].i]
    BY <1>2, <1>3, <1>4, <1>5, <1>6
  <2> QED BY <1>1, <1>2, <1>3, <1>4, <2>1, <2>2 DEF Locals, Elements
<1>8. Held(c)' = Held(c) /\ Uncounted(c)' = Uncounted(c)
  <2>1. {OldAt(c)} \cup (OldAt(c) + 1 .. OldAt(c) + loc[c].num - 1) = OldAt(c) .. OldAt(c) + loc[c].num - 1
    BY <1>4
  <2> QED BY <1>2, <1>3, <2>1 DEF Held, Uncounted
<1> QED BY <1>2, <1>3, <1>7, <1>8, NothingDeleted DEF GoOn

LEMMA OwnDeleteFirst ==
  ASSUME IInv, NEW c \in Consumers, DeleteFirst(c)
  PROVE  Owned(c) /\ Uncounted(c)' = Uncounted(c)
<1>1. TypeOK /\ Locals(c)
  BY DEF IInv, Walks
<1>2. /\ UNCHANGED <<order, gone, front, taken>> /\ cpc[c] = "delete" /\ cpc'[c] = "subtract"
      /\ freed' = freed \cup {loc[c].old} /\ loc'[c].num = 0
  BY <1>1 DEF DeleteFirst, Consuming, TypeOK, list, producer, NoLocals
<1>3. FrontAt' = FrontAt
  BY <1>2 DEF FrontAt
<1>4. OldAt(c) \in 1 .. Len(order) /\ order[OldAt(c)] = loc[c].old
  BY <1>2, LocalsFacts
<1>5. Locals(c)'
  BY <1>1, <1>2, <1>3 DEF Locals, Elements
<1>6. Held(c) = {OldAt(c)} /\ Held(c)' = {} /\ Uncounted(c)' = Uncounted(c)
  BY <1>2 DEF Held, Uncounted
<1>7. Owned(c)
  BY <1>2, <1>3, <1>4, <1>5, <1>6, OneDeleted DEF GoOn
<1> QED BY <1>6, <1>7

LEMMA OwnCopyEntry ==
  ASSUME IInv, NEW c \in Consumers, CopyEntry(c)
  PROVE  Owned(c) /\ Uncounted(c)' = Uncounted(c)
<1>1. TypeOK /\ Locals(c) /\ Ordered
  BY DEF IInv, Walks
<1>2. /\ UNCHANGED <<order, gone, front, taken>> /\ cpc[c] = "copy" /\ cpc'[c] = "copy"
      /\ freed' = freed \cup {loc[c].entry} /\ loc[c].entry # loc[c].new
  BY <1>1 DEF CopyEntry, Consuming, TypeOK, list, producer
<1>3. /\ loc'[c].old = loc[c].old /\ loc'[c].num = loc[c].num /\ loc'[c].new = loc[c].new
      /\ loc'[c].i = loc[c].i + 1 /\ loc'[c].entry = next[loc[c].entry]
  BY <1>1 DEF CopyEntry, TypeOK
<1>4. FrontAt' = FrontAt /\ OldAt(c)' = OldAt(c) /\ Run(c)' = Run(c)
  BY <1>2, <1>3 DEF FrontAt, OldAt, Run
<1>5. /\ loc[c].num \in Nat /\ OldAt(c) \in 1 .. Len(order) /\ Len(order) \in Nat
      /\ OldAt(c) + loc[c].num <= FrontAt /\ FrontAt \in 1 .. Len(order)
      /\ loc[c].i \in 1 .. loc[c].num
      /\ loc[c].entry = order[OldAt(c) + loc[c].i] /\ loc[c].new = order[OldAt(c) + loc[c].num]
  BY <1>1, <1>2, LocalsFacts DEF Locals
<1>6. loc[c].i \in 1 .. loc[c].num - 1
  <2>1. loc[c].i # loc[c].num
    BY <1>2, <1>5
  <2>2. loc[c].num \in Nat /\ loc[c].i \in 1 .. loc[c].num
    BY <1>5
  <2> QED BY <2>1, <2>2
<1> DEFINE k == OldAt(c) + loc[c].i
<1>7. k \in 1 .. Len(order) - 1 /\ k \in 1 .. Len(order) /\ OldAt(c) + (loc[c].i + 1) = k + 1
  <2>1. /\ loc[c].num \in Nat /\ OldAt(c) \in 1 .. Len(order) /\ Len(order) \in Nat
        /\ OldAt(c) + loc[c].num <= FrontAt /\ FrontAt \in 1 .. Len(order)
    BY <1>5
  <2> DEFINE o == OldAt(c)
             f == FrontAt
             n == Len(order)
             m == loc[c].num
             i == loc[c].i
  <2>2. o \in 1 .. n /\ n \in Nat /\ f \in 1 .. n /\ m \in Nat /\ o + m <= f /\ i \in 1 .. m - 1
    BY ONLY <1>6, <2>1
  <2> HIDE DEF o, f, n, m, i
  <2>3. o + i \in 1 .. n - 1 /\ o + i \in 1 .. n /\ o + (i + 1) = (o + i) + 1
    BY ONLY <2>2
  <2> QED BY ONLY <2>3 DEF o, n, i
<1>8. next[order[k]] = order[k + 1] /\ loc[c].entry = order[k]
  BY <1>1, <1>5, <1>7, OrderFacts
<1>9. Locals(c)'
  <2>1. loc'[c].entry = order'[OldAt(c)' + loc'[c].i]
    BY <1>2, <1>3, <1>4, <1>7, <1>8
  <2>2. loc'[c].i \in 1 .. loc'[c].num
    BY <1>3, <1>5, <1>6
  <2> QED BY <1>1, <1>2, <1>3, <1>4, <2>1, <2>2 DEF Locals, Elements
<1>10. /\ Held(c) = {OldAt(c)} \cup (k .. OldAt(c) + loc[c].num - 1)
       /\ Held(c)' = {OldAt(c)} \cup (k + 1 .. OldAt(c) + loc[c].num - 1)
  BY <1>2, <1>3, <1>4, <1>7 DEF Held
<1>11. k \in Held(c) /\ Held(c)' = Held(c) \ {k}
  <2> DEFINE z == OldAt(c) + loc[c].num - 1
  <2>1. OldAt(c) \in Int /\ k \in Int /\ z \in Int /\ OldAt(c) < k /\ k <= z
    BY <1>5, <1>6
  <2> HIDE DEF k, z
  <2>2. k \in k .. z /\ k + 1 .. z = (k .. z) \ {k} /\ k # OldAt(c)
    BY <2>1
  <2>3. Held(c) = {OldAt(c)} \cup (k .. z) /\ Held(c)' = {OldAt(c)} \cup (k + 1 .. z)
    BY <1>10 DEF z
  <2> QED BY <2>2, <2>3
<1>12. Uncounted(c)' = Uncounted(c)
  BY <1>2 DEF Uncounted
<1> HIDE DEF k
<1>13. Owned(c)
  BY <1>2, <1>4, <1>7, <1>8, <1>9, <1>11, OneDeleted DEF GoOn
<1> QED BY <1>12, <1>13

LEMMA OwnDeleteOldFront ==
  ASSUME IInv, NEW c \in Consumers, DeleteOldFront(c)
  PROVE  Owned(c) /\ Uncounted(c)' = Uncounted(c)
<1>1. TypeOK /\ Locals(c) /\ Ordered
  BY DEF IInv, Walks
<1>2. /\ UNCHANGED <<order, gone, front, taken>> /\ cpc[c] = "copy" /\ cpc'[c] = "idle"
      /\ freed' = freed \cup {loc[c].old} /\ loc[c].entry = loc[c].new /\ loc'[c].num = 0
  BY <1>1 DEF DeleteOldFront, Consuming, TypeOK, list, producer, NoLocals
<1>3. FrontAt' = FrontAt
  BY <1>2 DEF FrontAt
<1>4. /\ loc[c].num \in Nat /\ OldAt(c) \in 1 .. Len(order) /\ Len(order) \in Nat
      /\ OldAt(c) + loc[c].num <= FrontAt /\ FrontAt \in 1 .. Len(order)
      /\ loc[c].i \in 1 .. loc[c].num /\ order[OldAt(c)] = loc[c].old
      /\ loc[c].entry = order[OldAt(c) + loc[c].i] /\ loc[c].new = order[OldAt(c) + loc[c].num]
  BY <1>1, <1>2, LocalsFacts DEF Locals
<1>5. loc[c].i = loc[c].num
  <2>1. OldAt(c) + loc[c].i \in 1 .. Len(order) /\ OldAt(c) + loc[c].num \in 1 .. Len(order)
    <3>1. /\ loc[c].num \in Nat /\ OldAt(c) \in 1 .. Len(order) /\ Len(order) \in Nat
          /\ OldAt(c) + loc[c].num <= FrontAt /\ FrontAt \in 1 .. Len(order)
          /\ loc[c].i \in 1 .. loc[c].num
      BY <1>4
    <3> QED BY <3>1
  <2>2. \A j, k \in 1 .. Len(order) : order[j] = order[k] => j = k
    BY <1>1, OrderFacts
  <2>3. order[OldAt(c) + loc[c].i] = order[OldAt(c) + loc[c].num]
    BY <1>2, <1>4
  <2>4. OldAt(c) + loc[c].i = OldAt(c) + loc[c].num
    BY <2>1, <2>2, <2>3
  <2> QED BY <1>4, <2>4
<1>6. Locals(c)'
  BY <1>2 DEF Locals
<1>7. Held(c) = {OldAt(c)}
  <2>1. OldAt(c) + loc[c].i .. OldAt(c) + loc[c].num - 1 = {}
    BY <1>4, <1>5
  <2> QED BY <1>2, <2>1 DEF Held
<1>8. Held(c)' = {} /\ Uncounted(c)' = Uncounted(c)
  BY <1>2 DEF Held, Uncounted
<1>9. Owned(c)
  BY <1>2, <1>3, <1>4, <1>6, <1>7, <1>8, OneDeleted DEF GoOn
<1> QED BY <1>8, <1>9

(* Every step of a consumer keeps its locals true of the list, and passes  *)
(* what it deletes from what it holds to what is deleted.                  *)
LEMMA ConsumerSteps ==
  ASSUME IInv, NEW c \in Consumers, AcquirePop(c) \/ GoOn(c)
  PROVE  /\ Walks' /\ Deletions' /\ Apart'
         /\ Uncounted(c)' = IF SubtractOne(c) \/ SubtractAll(c) THEN {}
                            ELSE Uncounted(c) \cup (FrontAt + 1 .. FrontAt')
<1> DEFINE Rest == FrontAt + 1 .. FrontAt'
<1>1. FrontAt \in Nat /\ (FrontAt' = FrontAt => Rest = {})
  BY FrontPlaces
<1>2. ~(TakeFront(c) \/ Walk(c)) => FrontAt' = FrontAt
  BY FrontPlaces
<1>3. CASE TakeFront(c) \/ Walk(c)
  <2>1. Owned(c) /\ Uncounted(c)' = Uncounted(c) \cup Rest
    BY <1>3, OwnTakeFront, OwnWalk
  <2>2. ~SubtractOne(c) /\ ~SubtractAll(c)
    BY <1>3 DEF TakeFront, Walk, SubtractOne, SubtractAll, Consuming
  <2> QED BY <2>1, <2>2, ConsumerStep DEF Owned
<1>4. ASSUME ~(TakeFront(c) \/ Walk(c)), Owned(c), Uncounted(c)' = IF SubtractOne(c) \/ SubtractAll(c) THEN {} ELSE Uncounted(c)
      PROVE  /\ Walks' /\ Deletions' /\ Apart'
             /\ Uncounted(c)' = IF SubtractOne(c) \/ SubtractAll(c) THEN {} ELSE Uncounted(c) \cup Rest
  <2>1. Rest = {}
    BY <1>1, <1>2, <1>4
  <2>2. Uncounted(c)' \subseteq Uncounted(c) \cup Rest
    BY <1>4
  <2> QED BY <1>4, <2>1, <2>2, ConsumerStep DEF Owned
<1>5. CASE AcquirePop(c) \/ FindEmpty(c) \/ ReleasePop(c) \/ SubtractOne(c)
  <2>1. ~SubtractAll(c) /\ ~(TakeFront(c) \/ Walk(c))
    BY <1>5 DEF AcquirePop, FindEmpty, ReleasePop, SubtractOne, SubtractAll, TakeFront, Walk, Consuming
  <2> QED BY <1>4, <1>5, <2>1, OwnUnlocks
<1>6. CASE SubtractAll(c)
  <2>1. ~(TakeFront(c) \/ Walk(c))
    BY <1>6 DEF SubtractAll, TakeFront, Walk, Consuming
  <2> QED BY <1>4, <1>6, <2>1, OwnSubtractAll
<1>7. CASE SaveFront(c) \/ WalkEnds(c) \/ ReleaseAll(c) \/ DeleteFirst(c) \/ CopyEntry(c) \/ DeleteOldFront(c)
  <2>1. ~SubtractAll(c) /\ ~SubtractOne(c) /\ ~TakeFront(c)
    BY <1>7 DEF SaveFront, WalkEnds, ReleaseAll, DeleteFirst, CopyEntry, DeleteOldFront, SubtractOne,
                SubtractAll, TakeFront, Consuming
  <2>2. ~Walk(c)
    <3>1. ~(WalkEnds(c) /\ Walk(c))
      BY DEF WalkEnds, Walk
    <3> QED BY <1>7, <3>1 DEF SaveFront, ReleaseAll, DeleteFirst, CopyEntry, DeleteOldFront, Walk, Consuming
  <2>3. Owned(c) /\ Uncounted(c)' = Uncounted(c)
    BY <1>7, OwnSaveFront, OwnWalkEnds, OwnReleaseAll, OwnDeleteFirst, OwnCopyEntry, OwnDeleteOldFront
  <2> QED BY <1>4, <2>1, <2>2, <2>3
<1> QED BY <1>3, <1>5, <1>6, <1>7 DEF GoOn

-----------------------------------------------------------------------------
(* The length.                                                             *)

LEMMA DisjointCardinality ==
  ASSUME NEW S, NEW T, IsFiniteSet(S), IsFiniteSet(T), S \cap T = {}
  PROVE  /\ IsFiniteSet(S \cup T) /\ Cardinality(S) \in Nat /\ Cardinality(T) \in Nat
         /\ Cardinality(S \cup T) = Cardinality(S) + Cardinality(T)
<1>1. Cardinality(S \cap T) = 0
  BY FS_EmptySet
<1>2. Cardinality(S) \in Nat /\ Cardinality(T) \in Nat
  BY FS_CardinalityType
<1>3. IsFiniteSet(S \cup T) /\ Cardinality(S \cup T) = Cardinality(S) + Cardinality(T) - Cardinality(S \cap T)
  BY FS_Union
<1> QED BY <1>1, <1>2, <1>3

LEMMA CountsFinite ==
  ASSUME IInv
  PROVE  /\ IsFiniteSet(Counted) /\ Cardinality(Counted) \in Nat
         /\ IsFiniteSet(Discounted) /\ Cardinality(Discounted) \in Nat
<1>1. TypeOK /\ Ordered
  BY DEF IInv
<1>2. FrontAt \in Int
  BY <1>1, OrderFacts
<1>3. IsFiniteSet(Elements(order)) /\ IsFiniteSet(2 .. FrontAt)
  <2>1. IsFiniteSet(Elements(order))
    BY <1>1, ElementsCardinality DEF TypeOK, Ordered
  <2>2. 2 \in Int /\ IsFiniteSet(2 .. FrontAt)
    BY <1>2, FS_Interval
  <2> QED BY <2>1, <2>2
<1>4. Counted \in SUBSET Elements(order) /\ Discounted \in SUBSET (2 .. FrontAt)
  BY DEF Counted, Discounted
<1>5. IsFiniteSet(Counted) /\ IsFiniteSet(Discounted)
  BY <1>3, <1>4, FS_Subset
<1> QED BY <1>5, FS_CardinalityType

(* A push counts when _length is increased, and all of it at once. *)
LEMMA ProducerCounted ==
  ASSUME IInv, NEW p \in Producers, Produce(p)
  PROVE  /\ ~AddLength(p) => Counted' = Counted /\ length' = length
         /\ AddLength(p) => /\ Counted' = Counted \cup Elements(chain[p])
                            /\ Counted \cap Elements(chain[p]) = {}
                            /\ length' = Wrap(length + Len(chain[p])) /\ chain[p] \in Vectors
<1>1. TypeOK /\ Chains
  BY DEF IInv
<1> DEFINE Waiting == UNION {Pending(q) : q \in Producers}
<1>2. ASSUME order' = order, \A q \in Producers : Pending(q)' = Pending(q)
      PROVE  Counted' = Counted
  BY <1>2 DEF Counted, Elements
<1>3. \A q \in Producers \ {p} : Pending(q)' = Pending(q)
  <2>1. ASSUME NEW q \in Producers \ {p} PROVE ppc'[q] = ppc[q] /\ chain'[q] = chain[q]
    <3> USE <1>1 DEF TypeOK, Producing
    <3>1. ASSUME NEW s \in Vectors, Call(p, s) PROVE ppc'[q] = ppc[q] /\ chain'[q] = chain[q]
      BY <3>1 DEF Call
    <3>2. CASE Throttle(p) \/ WakeUp(p)
      BY <3>2 DEF Throttle, WakeUp
    <3>3. CASE Allocate(p) \/ Link(p) \/ SetBack(p)
      BY <3>3 DEF Allocate, Link, SetBack
    <3>4. CASE AcquirePush(p) \/ ReleasePush(p)
      BY <3>4 DEF AcquirePush, ReleasePush
    <3>5. CASE AddLength(p)
      BY <3>5 DEF AddLength
    <3> QED BY <3>1, <3>2, <3>3, <3>4, <3>5 DEF Produce
  <2> QED BY <2>1 DEF Pending, Elements
<1>4. ASSUME NEW s \in Vectors, Call(p, s)
      PROVE  ~AddLength(p) /\ Counted' = Counted /\ length' = length
  <2>1. order' = order /\ length' = length /\ ppc[p] = "idle" /\ ppc'[p] = "check"
    BY <1>1, <1>4 DEF Call, Producing, TypeOK
  <2>2. Pending(p)' = Pending(p) /\ ~AddLength(p)
    BY <2>1 DEF Pending, AddLength, Producing
  <2> QED BY <1>2, <1>3, <2>1, <2>2
<1>5. CASE Throttle(p) \/ WakeUp(p) \/ Allocate(p) \/ AcquirePush(p)
  <2>1. order' = order /\ length' = length
    BY <1>5 DEF Throttle, WakeUp, Allocate, AcquirePush, list
  <2>2. ppc[p] \in {"check", "asleep", "acquire"} /\ ppc'[p] \in {"check", "asleep", "acquire", "link"}
    BY <1>1, <1>5 DEF Throttle, WakeUp, Allocate, AcquirePush, Producing, TypeOK
  <2>3. Pending(p)' = Pending(p) /\ ~AddLength(p)
    BY <2>2 DEF Pending, AddLength, Producing
  <2> QED BY <1>2, <1>3, <2>1, <2>3
<1>6. CASE SetBack(p) \/ ReleasePush(p)
  <2>1. order' = order /\ length' = length /\ chain' = chain
    BY <1>6 DEF SetBack, ReleasePush, list
  <2>2. ppc[p] \in {"back", "release"} /\ ppc'[p] \in {"release", "add"}
    BY <1>1, <1>6 DEF SetBack, ReleasePush, Producing, TypeOK
  <2>3. Pending(p)' = Pending(p) /\ ~AddLength(p)
    BY <2>1, <2>2 DEF Pending, AddLength, Producing, Elements
  <2> QED BY <1>2, <1>3, <2>1, <2>3
<1>7. CASE Link(p)
  <2>1. chain' = chain /\ length' = length /\ ppc[p] = "link" /\ ppc'[p] = "back"
    BY <1>1, <1>7 DEF Link, Producing, TypeOK
  <2>2. Pending(p) = {} /\ Pending(p)' = Elements(chain[p]) /\ ~AddLength(p)
    BY <2>1 DEF Pending, AddLength, Producing, Elements
  <2>3. Elements(order') = Elements(order) \cup Elements(chain[p])
        /\ Elements(order) \cap Elements(chain[p]) = {}
    BY <1>7, LinkFacts
  <2>4. UNION {Pending(q)' : q \in Producers} = Waiting \cup Elements(chain[p])
    BY <1>3, <2>2
  <2>5. Counted' = Elements(order') \ ({Dummy} \cup UNION {Pending(q)' : q \in Producers})
    BY DEF Counted, Elements
  <2>6. Counted = Elements(order) \ ({Dummy} \cup Waiting)
    BY DEF Counted
  <2> QED BY <2>1, <2>2, <2>3, <2>4, <2>5, <2>6
<1>8. CASE AddLength(p)
  <2>1. /\ order' = order /\ ppc[p] = "add" /\ ppc'[p] = "idle"
        /\ length' = Wrap(length + Len(chain[p]))
    BY <1>1, <1>8 DEF AddLength, Producing, TypeOK, list
  <2>2. Pending(p) = Elements(chain[p]) /\ Pending(p)' = {}
    BY <2>1 DEF Pending
  <2>3. chain[p] \in Vectors /\ Elements(chain[p]) \subseteq Elements(order) /\ Dummy \notin Elements(chain[p])
    BY <2>1, ChainFacts, VectorFacts, NamesAssumption
  <2>4. \A q \in Producers \ {p} : Pending(q) \cap Elements(chain[p]) = {}
    BY <1>1 DEF Chains, Pending
  <2>5. UNION {Pending(q)' : q \in Producers} = Waiting \ Elements(chain[p])
    BY <1>3, <2>2, <2>4
  <2>6. Counted' = Elements(order) \ ({Dummy} \cup UNION {Pending(q)' : q \in Producers})
    BY <2>1 DEF Counted, Elements
  <2>7. Counted = Elements(order) \ ({Dummy} \cup Waiting)
    BY DEF Counted
  <2>8. Elements(chain[p]) \subseteq Waiting
    BY <2>2
  <2> HIDE DEF Waiting
  <2>9. Counted \cap Elements(chain[p]) = {}
    BY <2>7, <2>8
  <2>10. Counted' = Counted \cup Elements(chain[p])
    BY <2>3, <2>5, <2>6, <2>7, <2>8
  <2> QED BY <1>8, <2>1, <2>3, <2>9, <2>10
<1> QED BY <1>4, <1>5, <1>6, <1>7, <1>8 DEF Produce

LEMMA ProducerCounts ==
  ASSUME IInv, NEW p \in Producers, Produce(p)
  PROVE  Counts'
<1>1. Counts /\ gone' = gone /\ Discounted' = Discounted
  BY ProducerLeaves, ProducerFrame DEF IInv
<1> SUFFICES ASSUME ~gone PROVE length' = Wrap(Cardinality(Counted') - Cardinality(Discounted))
  BY <1>1 DEF Counts
<1>2. length = Wrap(Cardinality(Counted) - Cardinality(Discounted))
  BY <1>1 DEF Counts
<1>3. IsFiniteSet(Counted) /\ Cardinality(Counted) \in Nat /\ Cardinality(Discounted) \in Nat
  BY CountsFinite
<1>4. CASE ~AddLength(p)
  BY <1>2, <1>4, ProducerCounted
<1>5. CASE AddLength(p)
  <2> DEFINE n == Len(chain[p])
             x == Cardinality(Counted) - Cardinality(Discounted)
  <2>1. /\ Counted' = Counted \cup Elements(chain[p]) /\ Counted \cap Elements(chain[p]) = {}
        /\ length' = Wrap(length + n) /\ chain[p] \in Vectors
    BY <1>5, ProducerCounted
  <2>2. IsFiniteSet(Elements(chain[p])) /\ Cardinality(Elements(chain[p])) = n /\ n \in Nat
    BY <2>1, VectorFacts, ElementsCardinality
  <2>3. Cardinality(Counted') = Cardinality(Counted) + n
    BY <1>3, <2>1, <2>2, DisjointCardinality
  <2> HIDE DEF n
  <2>4. x \in Int /\ x + n = Cardinality(Counted') - Cardinality(Discounted)
    BY <1>3, <2>2, <2>3
  <2> HIDE DEF x
  <2>5. length = Wrap(x)
    BY <1>2 DEF x
  <2>6. Wrap(Wrap(x) + n) = Wrap(x + n)
    BY <2>2, <2>4, WrapFacts
  <2> QED BY <2>1, <2>4, <2>5, <2>6
<1> QED BY <1>4, <1>5

LEMMA ConsumerCounts ==
  ASSUME IInv, NEW c \in Consumers, AcquirePop(c) \/ GoOn(c)
  PROVE  Counts'
<1> DEFINE U     == Uncounted(c)
           Other == UNION {Uncounted(d) : d \in Consumers \ {c}}
           Sub   == SubtractOne(c) \/ SubtractAll(c)
<1>1. Counts /\ Apart /\ Counted' = Counted /\ gone' = gone /\ ~gone
  BY ConsumerKeeps, FrontPlaces DEF IInv
<1>2. length = Wrap(Cardinality(Counted) - Cardinality(Discounted))
  BY <1>1 DEF Counts
<1>3. /\ IsFiniteSet(Discounted) /\ Cardinality(Counted) \in Nat /\ Cardinality(Discounted) \in Nat
  BY CountsFinite
<1>4. U \subseteq 2 .. FrontAt /\ Other \subseteq 2 .. FrontAt
  BY LocalsFacts
<1>5. U \cap Other = {}
  BY <1>1 DEF Apart
<1>6. Discounted = (2 .. FrontAt) \ (U \cup Other)
  BY DEF Discounted
<1>7. Discounted' = (2 .. FrontAt') \ (Uncounted(c)' \cup Other)
  <2>1. \A d \in Consumers \ {c} : Uncounted(d)' = Uncounted(d)
    BY ConsumerOthers
  <2>2. Discounted' = (2 .. FrontAt') \ UNION {Uncounted(d)' : d \in Consumers}
    BY DEF Discounted
  <2>3. UNION {Uncounted(d)' : d \in Consumers} = Uncounted(c)' \cup Other
    BY <2>1
  <2> QED BY <2>2, <2>3
<1>8. Uncounted(c)' = IF Sub THEN {} ELSE U \cup (FrontAt + 1 .. FrontAt')
  BY ConsumerSteps
<1>9. \/ FrontAt' = FrontAt /\ front' = front
      \/ FrontAt' = FrontAt + 1 /\ popping = c /\ (TakeFront(c) \/ Walk(c))
  BY FrontPlaces
<1>10. ASSUME ~Sub PROVE Counts'
  <2>1. length' = length
    BY <1>10 DEF AcquirePop, GoOn, FindEmpty, TakeFront, ReleasePop, DeleteFirst, SaveFront, Walk,
                 WalkEnds, ReleaseAll, CopyEntry, DeleteOldFront
  <2>2. Uncounted(c)' = U \cup (FrontAt + 1 .. FrontAt')
    BY <1>8, <1>10
  <2> HIDE DEF U, Other
  <2>3. /\ 2 .. FrontAt' = (2 .. FrontAt) \cup (FrontAt + 1 .. FrontAt')
        /\ (2 .. FrontAt) \cap (FrontAt + 1 .. FrontAt') = {}
    <3>1. FrontAt \in 1 .. Len(order) /\ Len(order) \in Nat
      BY FrontPlaces
    <3>2. FrontAt' = FrontAt \/ FrontAt' = FrontAt + 1
      BY <1>9
    <3> QED BY <3>1, <3>2
  <2>4. Discounted' = Discounted
    BY <1>4, <1>6, <1>7, <2>2, <2>3
  <2> QED BY <1>1, <1>2, <2>1, <2>4 DEF Counts
<1>11. ASSUME Sub, NEW n \in Nat, IsFiniteSet(U), Cardinality(U) = n, length' = Wrap(length - n)
       PROVE  Counts'
  <2>1. FrontAt' = FrontAt
    BY <1>9, <1>11 DEF SubtractOne, SubtractAll, TakeFront, Walk, Consuming
  <2>2. Uncounted(c)' = {}
    BY <1>8, <1>11
  <2> HIDE DEF U, Other, Sub
  <2>3. Discounted' = Discounted \cup U /\ Discounted \cap U = {}
    BY <1>4, <1>5, <1>6, <1>7, <2>1, <2>2
  <2>4. Cardinality(Discounted') = Cardinality(Discounted) + n
    BY <1>3, <1>11, <2>3, DisjointCardinality
  <2> DEFINE x == Cardinality(Counted) - Cardinality(Discounted)
  <2>5. x \in Int /\ x - n = Cardinality(Counted) - Cardinality(Discounted')
    BY <1>3, <1>11, <2>4
  <2> HIDE DEF x
  <2>6. length = Wrap(x)
    BY <1>2 DEF x
  <2>7. Wrap(Wrap(x) - n) = Wrap(x - n)
    BY <1>11, <2>5, WrapFacts
  <2>8. length' = Wrap(Cardinality(Counted') - Cardinality(Discounted'))
    BY <1>1, <1>11, <2>5, <2>6, <2>7
  <2> QED BY <2>8 DEF Counts
<1>12. CASE SubtractOne(c)
  <2>1. cpc[c] = "subtract" /\ length' = Wrap(length - 1)
    BY <1>12 DEF SubtractOne, Consuming
  <2>2. U = {Place(order, taken[c][1])}
    BY <2>1 DEF Uncounted
  <2>3. IsFiniteSet(U) /\ Cardinality(U) = 1
    BY <2>2, FS_Singleton
  <2> QED BY <1>11, <1>12, <2>1, <2>3
<1>13. CASE SubtractAll(c)
  <2>1. cpc[c] = "subtractAll" /\ length' = Wrap(length - loc[c].num)
    BY <1>13 DEF SubtractAll, Consuming
  <2>2. U = OldAt(c) + 1 .. OldAt(c) + loc[c].num
    BY <2>1 DEF Uncounted
  <2>3. OldAt(c) \in Nat /\ loc[c].num \in Nat
    BY <2>1, LocalsFacts
  <2>4. IsFiniteSet(U) /\ Cardinality(U) = loc[c].num
    <3>1. OldAt(c) + 1 \in Int /\ OldAt(c) + loc[c].num \in Int
      BY <2>3
    <3>2. IsFiniteSet(U) /\ Cardinality(U) = IF OldAt(c) + 1 > OldAt(c) + loc[c].num THEN 0
                                             ELSE (OldAt(c) + loc[c].num) - (OldAt(c) + 1) + 1
      BY <2>2, <3>1, FS_Interval
    <3> HIDE DEF U
    <3> QED BY <2>3, <3>2
  <2> QED BY <1>11, <1>13, <2>1, <2>3, <2>4
<1> QED BY <1>10, <1>12, <1>13

-----------------------------------------------------------------------------
(* The destructor, and the theorem.                                        *)

(* It deletes the front and all that is behind it. *)
LEMMA DestroyDeletes ==
  ASSUME IInv, Destroy
  PROVE  freed' = Elements(order) /\ ~gone /\ gone' /\ front' = Null
<1>1. TypeOK /\ Ordered /\ Locks /\ Deletions /\ ~gone /\ Quiet
  BY DEF IInv, Destroy
<1>2. gone' /\ front' = Null /\ freed' = freed \cup {front} \cup Elements(After(front))
  BY DEF Destroy
<1>3. /\ FrontAt \in 1 .. Len(order) /\ Len(order) \in Nat /\ front = order[FrontAt]
      /\ DOMAIN order = 1 .. Len(order)
  BY <1>1, OrderFacts
<1>4. \A c \in Consumers : Held(c) = {}
  BY <1>1 DEF Quiet, Held
<1>5. Deleted = 1 .. FrontAt - 1 /\ freed \subseteq Elements(order)
  <2>1. UNION {Held(c) : c \in Consumers} = {}
    BY <1>4
  <2>2. Deleted \cup UNION {Held(c) : c \in Consumers} = 1 .. FrontAt - 1 /\ freed \subseteq Elements(order)
    BY <1>1 DEF Deletions
  <2> QED BY <2>1, <2>2
<1>6. After(front) = [i \in 1 .. Len(order) - FrontAt |-> order[FrontAt + i]]
  BY <1>1, AfterFront
<1>7. Elements(After(front)) = {order[FrontAt + i] : i \in 1 .. Len(order) - FrontAt}
  BY <1>6 DEF Elements
<1>8. freed' \subseteq Elements(order)
  <2>1. \A i \in 1 .. Len(order) - FrontAt : FrontAt + i \in 1 .. Len(order)
    BY <1>3
  <2> QED BY <1>2, <1>3, <1>5, <1>7, <2>1 DEF Elements
<1>9. ASSUME NEW k \in 1 .. Len(order) PROVE order[k] \in freed'
  <2>1. CASE k < FrontAt
    <3>1. k \in 1 .. FrontAt - 1
      BY <1>3, <2>1
    <3>2. order[k] \in freed
      BY <1>5, <3>1 DEF Deleted
    <3> QED BY <1>2, <3>2
  <2>2. CASE k = FrontAt
    BY <1>2, <1>3, <2>2
  <2>3. CASE k > FrontAt
    <3>1. k - FrontAt \in 1 .. Len(order) - FrontAt /\ FrontAt + (k - FrontAt) = k
      BY <1>3, <2>3
    <3>2. order[k] \in Elements(After(front))
      BY <1>7, <3>1
    <3> QED BY <1>2, <3>2
  <2> QED BY <1>3, <2>1, <2>2, <2>3
<1>10. Elements(order) \subseteq freed'
  BY <1>3, <1>9 DEF Elements
<1> QED BY <1>1, <1>2, <1>8, <1>10

LEMMA DestroyKeeps ==
  ASSUME IInv, Destroy
  PROVE  IInv'
<1>1. /\ TypeOK /\ Locks /\ Ordered /\ Chains /\ Fresh /\ Backs /\ Walks /\ Deletions /\ Apart
      /\ Quiet
  BY DEF IInv, Destroy
<1>2. UNCHANGED <<next, back, popping, pushing, length, ppc, chain, made, order, cpc, loc, result, taken>>
  BY DEF Destroy, producer, consumer
<1>3. freed' = Elements(order) /\ gone' /\ gone' \in BOOLEAN /\ front' = Null
  BY DestroyDeletes DEF Destroy
<1>4. \A e \in Elements(order) : e \in Entries
  BY <1>1, OrderFacts
<1>5. TypeOK'
  <2>1. freed' \in SUBSET Entries /\ front' \in Entries \cup {Null}
    BY <1>3, <1>4
  <2>2. /\ ppc' \in [Producers -> {"idle", "check", "asleep", "acquire", "link", "back", "release", "add"}]
        /\ cpc' \in [Consumers -> {"idle", "take", "unlock", "delete", "subtract", "first", "walk",
                                   "subtractAll", "unlockAll", "copy"}]
        /\ loc' \in [Consumers -> [old : Entries \cup {Null}, new : Entries \cup {Null},
                                   entry : Entries \cup {Null}, num : Nat, i : Nat]]
    BY <1>1, <1>2 DEF TypeOK
  <2> QED BY <1>1, <1>2, <1>3, <2>1, <2>2 DEF TypeOK
<1>6. Locks'
  BY <1>1, <1>2 DEF Locks, Quiet
<1>7. Ordered'
  BY <1>1, <1>2, <1>3 DEF Ordered
<1>8. Chains'
  <2>1. \A q \in Producers : Unlinked(q)' = Unlinked(q) /\ Pending(q)' = Pending(q)
    BY <1>2 DEF Unlinked, Pending, Elements
  <2>2. \A p \in Producers : Pending(p)' \subseteq Elements(order') /\ Unlinked(p)' \cap Elements(order') = {}
    BY <1>1, <1>2, <2>1 DEF Chains
  <2>3. made' \cup {Dummy} = Elements(order') \cup UNION {Unlinked(p)' : p \in Producers}
    BY <1>1, <1>2, <2>1 DEF Chains
  <2>4. \A p, q \in Producers : p # q => Elements(chain'[p]) \cap Elements(chain'[q]) = {}
    BY <1>1, <1>2 DEF Chains
  <2>5. \A p \in Producers : IF ppc'[p] = "idle" THEN chain'[p] = <<>> ELSE chain'[p] \in Vectors
    BY <1>1, <1>2 DEF Chains
  <2> QED BY <2>2, <2>3, <2>4, <2>5 DEF Chains, Elements
<1>9. Fresh' /\ Backs'
  <2>1. Fresh'
    BY <1>1, <1>2 DEF Fresh, Elements
  <2>2. Backs'
    BY <1>1, <1>2 DEF Backs
  <2> QED BY <2>1, <2>2
<1>10. \A c \in Consumers : cpc'[c] = "idle" /\ loc'[c].num = 0
  BY <1>1, <1>2 DEF Quiet, Walks, Locals
<1>11. Walks'
  BY <1>10 DEF Walks, Locals
<1>12. \A c \in Consumers : Held(c)' = {} /\ Uncounted(c)' = {}
  BY <1>10 DEF Held, Uncounted
<1>13. Deletions'
  <2>1. DOMAIN order = 1 .. Len(order) /\ Len(order) \in Nat /\ \A k \in 1 .. Len(order) : order[k] \in Elements(order)
    BY <1>1, OrderFacts
  <2>2. FrontAt' = Len(order) + 1
    BY <1>2, <1>3 DEF FrontAt
  <2>3. Deleted' = 1 .. Len(order)
    BY <1>2, <1>3, <2>1 DEF Deleted
  <2>4. FrontAt' - 1 = Len(order)
    BY <2>1, <2>2
  <2>5. freed' \subseteq Elements(order')
    BY <1>2, <1>3
  <2>6. Deleted' \cup UNION {Held(c)' : c \in Consumers} = 1 .. FrontAt' - 1
    BY <1>12, <2>3, <2>4
  <2> QED BY <1>12, <2>5, <2>6 DEF Deletions, Elements
<1>14. Apart' /\ Counts'
  BY <1>3, <1>12 DEF Apart, Counts
<1> QED BY <1>5, <1>6, <1>7, <1>8, <1>9, <1>11, <1>13, <1>14 DEF IInv

LEMMA Initially == Init => IInv
<1> SUFFICES ASSUME Init PROVE IInv
  OBVIOUS
<1>1. /\ Len(order) = 1 /\ order[1] = Dummy /\ order \in Seq(Entries) /\ DOMAIN order = 1 .. 1
      /\ Elements(order) = {Dummy} /\ order = <<Dummy>>
  BY DEF Init, Elements, Entries
<1>2. /\ \A p \in Producers : ppc[p] = "idle" /\ chain[p] = <<>>
      /\ \A c \in Consumers : cpc[c] = "idle" /\ loc[c].num = 0 /\ taken[c] = <<>>
      /\ pushing = Null /\ popping = Null /\ gone = FALSE /\ freed = {} /\ front = Dummy /\ back = Dummy
      /\ length = 0 /\ made = {} /\ \A e \in Entries : next[e] = Null
  BY DEF Init, NoLocals
<1>3. Modulus \in Nat \ {0}
  BY NumbersAssumption
<1>4. TypeOK
  <2>1. Dummy \in Entries /\ \A S : <<>> \in Seq(S)
    BY DEF Entries
  <2>2. length \in 0 .. Modulus - 1 /\ order \in Seq(Entries)
    BY <1>1, <1>2, <1>3
  <2>3. NoLocals \in [old : Entries \cup {Null}, new : Entries \cup {Null},
                      entry : Entries \cup {Null}, num : Nat, i : Nat]
    BY DEF NoLocals
  <2>4. loc \in [Consumers -> [old : Entries \cup {Null}, new : Entries \cup {Null},
                               entry : Entries \cup {Null}, num : Nat, i : Nat]]
    BY <2>3 DEF Init
  <2>5. chain \in [Producers -> Seq(Items)] /\ taken \in [Consumers -> Seq(Items)]
        /\ result \in [Consumers -> Seq(Entries \cup {Blank})]
    BY <2>1 DEF Init
  <2>6. next \in [Entries -> Entries \cup {Null}]
    BY DEF Init
  <2>7. /\ ppc \in [Producers -> {"idle", "check", "asleep", "acquire", "link", "back", "release", "add"}]
        /\ cpc \in [Consumers -> {"idle", "take", "unlock", "delete", "subtract", "first", "walk",
                                  "subtractAll", "unlockAll", "copy"}]
    BY DEF Init
  <2> QED BY <1>2, <2>1, <2>2, <2>4, <2>5, <2>6, <2>7 DEF TypeOK
<1>5. Locks
  <2>1. Null \notin Producers /\ Null \notin Consumers
    BY NamesAssumption
  <2> QED BY <1>2, <2>1 DEF Locks, Quiet
<1>6. Ordered
  <2>1. 1 .. Len(order) - 1 = {} /\ DOMAIN order = {1}
    BY <1>1
  <2>2. Dummy \in Entries
    BY DEF Entries
  <2> QED BY <1>1, <1>2, <2>1, <2>2 DEF Ordered
<1>7. Chains /\ Backs /\ Fresh
  <2>1. \A p \in Producers : Unlinked(p) = {} /\ Pending(p) = {} /\ Elements(chain[p]) = {}
    BY <1>2 DEF Unlinked, Pending, Elements
  <2> QED BY <1>1, <1>2, <2>1 DEF Chains, Backs, Fresh, Entries
<1>8. Walks
  BY <1>2 DEF Walks, Locals
<1>9. \A c \in Consumers : Held(c) = {} /\ Uncounted(c) = {}
  BY <1>2 DEF Held, Uncounted
<1>10. FrontAt = 1
  <2>1. Place(order, order[1]) = 1
    BY <1>1, <1>4, <1>6, OrderFacts
  <2> QED BY <1>1, <1>2, <2>1 DEF FrontAt
<1>11. Deletions
  <2>1. Deleted = {} /\ 1 .. FrontAt - 1 = {}
    BY <1>2, <1>10 DEF Deleted
  <2> QED BY <1>2, <1>9, <2>1 DEF Deletions
<1>12. Apart
  BY <1>9 DEF Apart
<1>13. Counts
  <2>1. Counted = {} /\ Discounted = {}
    <3>1. 2 .. FrontAt = {}
      BY <1>10
    <3> QED BY <1>1, <3>1 DEF Counted, Discounted
  <2>2. Cardinality(Counted) - Cardinality(Discounted) = 0
    BY <2>1, FS_EmptySet
  <2>3. Wrap(0) = 0
    BY <1>3, WrapFacts
  <2> QED BY <1>2, <2>2, <2>3 DEF Counts
<1> QED BY <1>4, <1>5, <1>6, <1>7, <1>8, <1>11, <1>12, <1>13 DEF IInv

LEMMA StutterKeeps ==
  ASSUME IInv, UNCHANGED vars
  PROVE  IInv'
<1>1. UNCHANGED <<next, freed, front, back, popping, pushing, length, ppc, chain, made, order,
                  cpc, loc, result, taken, gone>>
  BY DEF vars, list, producer, consumer
<1>2. FrontAt' = FrontAt /\ Elements(order') = Elements(order)
  BY <1>1 DEF FrontAt
<1>3. TypeOK' /\ Locks' /\ Ordered' /\ Fresh' /\ Backs'
  BY <1>1 DEF IInv, TypeOK, Locks, Quiet, Ordered, Fresh, Backs, Elements
<1>4. \A p \in Producers : Unlinked(p)' = Unlinked(p) /\ Pending(p)' = Pending(p)
  BY <1>1 DEF Unlinked, Pending, Elements
<1>5. Chains'
  <2>1. Chains
    BY DEF IInv
  <2>2. \A p \in Producers : Pending(p)' \subseteq Elements(order') /\ Unlinked(p)' \cap Elements(order') = {}
    BY <1>2, <1>4, <2>1 DEF Chains
  <2>3. made' \cup {Dummy} = Elements(order') \cup UNION {Unlinked(p)' : p \in Producers}
    BY <1>1, <1>2, <1>4, <2>1 DEF Chains
  <2>4. \A p, q \in Producers : p # q => Elements(chain'[p]) \cap Elements(chain'[q]) = {}
    BY <1>1, <2>1 DEF Chains
  <2>5. \A p \in Producers : IF ppc'[p] = "idle" THEN chain'[p] = <<>> ELSE chain'[p] \in Vectors
    BY <1>1, <2>1 DEF Chains
  <2> QED BY <2>2, <2>3, <2>4, <2>5 DEF Chains, Elements
<1>6. \A c \in Consumers : Held(c)' = Held(c) /\ Uncounted(c)' = Uncounted(c) /\ Locals(c)' = Locals(c)
  BY <1>1 DEF Held, Uncounted, Locals, Elements, OldAt, Run, FrontAt
<1>7. Walks' /\ Apart' /\ Deleted' = Deleted
  BY <1>1, <1>6 DEF IInv, Walks, Apart, Deleted
<1>8. Deletions'
  BY <1>1, <1>2, <1>6, <1>7 DEF IInv, Deletions, Elements
<1>9. Counts'
  <2>1. Counted' = Counted /\ Discounted' = Discounted
    BY <1>1, <1>2, <1>4, <1>6 DEF Counted, Discounted, Elements
  <2> QED BY <1>1, <2>1 DEF IInv, Counts
<1> QED BY <1>3, <1>5, <1>7, <1>8, <1>9 DEF IInv

(* What the list, the threads' locals and the counter are in every state:  *)
(* the inductive invariant that the other theorems rest on.                *)
THEOREM Invariance == Spec => []IInv
<1>1. Init => IInv
  BY Initially
<1>2. IInv /\ [Next]_vars => IInv'
  <2> SUFFICES ASSUME IInv, [Next]_vars PROVE IInv'
    OBVIOUS
  <2>1. ASSUME NEW p \in Producers, Produce(p) PROVE IInv'
    BY <2>1, ProducerTypes, ProducerLocks, ProducerOrdered, ProducerChains, ProducerFresh,
       ProducerBacks, ProducerLeaves, ProducerCounts DEF IInv
  <2>2. ASSUME NEW c \in Consumers, AcquirePop(c) \/ GoOn(c) PROVE IInv'
    BY <2>2, ConsumerTypes, ConsumerLocks, ConsumerKeeps, ConsumerSteps, ConsumerCounts DEF IInv
  <2> QED BY <2>1, <2>2, DestroyKeeps, StutterKeeps DEF Next
<1> QED BY <1>1, <1>2, PTL DEF Spec

-----------------------------------------------------------------------------
(* No use after free, no double delete, no leak.                           *)

(* What a consumer will delete is at the places it holds. *)
LEMMA DoomedHeld ==
  ASSUME IInv, NEW c \in Consumers, NEW e \in Doomed(c)
  PROVE  \E k \in Held(c) : k \in 1 .. FrontAt - 1 /\ k \in 1 .. Len(order) /\ order[k] = e
<1>1. Locals(c) /\ Len(order) \in Nat /\ FrontAt \in 1 .. Len(order) + 1
  BY LocalsFacts DEF IInv, Walks
<1>2. Held(c) \subseteq 1 .. FrontAt - 1
  BY LocalsFacts
<1>3. \A k \in Held(c) : k \in 1 .. FrontAt - 1 /\ k \in 1 .. Len(order)
  BY <1>1, <1>2
<1>4. \E k \in Held(c) : order[k] = e
  <2>1. CASE cpc[c] \in {"unlock", "delete"}
    <3>1. e = loc[c].old /\ OldAt(c) \in Held(c)
      BY <2>1 DEF Doomed, Held
    <3> QED BY <2>1, <3>1, LocalsFacts
  <2>2. ASSUME cpc[c] \in {"subtractAll", "unlockAll", "copy"}
        PROVE  /\ order[OldAt(c)] = loc[c].old /\ OldAt(c) \in 1 .. Len(order)
               /\ loc[c].num \in Nat /\ loc[c].num > 0
               /\ \A k \in 1 .. loc[c].num : taken[c][k] = order[OldAt(c) + k]
    BY <1>1, <2>2, LocalsFacts DEF Locals, Run
  <2>3. CASE cpc[c] \in {"subtractAll", "unlockAll"}
    <3>1. Held(c) = OldAt(c) .. OldAt(c) + loc[c].num - 1
      BY <2>3 DEF Held
    <3>2. e = loc[c].old \/ \E k \in 1 .. loc[c].num - 1 : e = taken[c][k]
      BY <2>3 DEF Doomed
    <3>3. CASE e = loc[c].old
      <4>1. OldAt(c) \in Held(c)
        BY <2>2, <2>3, <3>1
      <4> QED BY <2>2, <2>3, <3>3, <4>1
    <3>4. CASE \E k \in 1 .. loc[c].num - 1 : e = taken[c][k]
      <4>1. PICK k \in 1 .. loc[c].num - 1 : e = taken[c][k]
        BY <3>4
      <4>2. loc[c].num \in Nat /\ OldAt(c) \in 1 .. Len(order)
        BY <2>2, <2>3
      <4>3. k \in 1 .. loc[c].num /\ OldAt(c) + k \in OldAt(c) .. OldAt(c) + loc[c].num - 1
        BY <4>2
      <4> QED BY <2>2, <2>3, <3>1, <4>1, <4>3
    <3> QED BY <3>2, <3>3, <3>4
  <2>4. CASE cpc[c] = "copy"
    <3>1. /\ Held(c) = {OldAt(c)} \cup (OldAt(c) + loc[c].i .. OldAt(c) + loc[c].num - 1)
          /\ loc[c].i \in 1 .. loc[c].num
      BY <1>1, <2>4 DEF Held, Locals
    <3>2. e = loc[c].old \/ \E k \in loc[c].i .. loc[c].num - 1 : e = taken[c][k]
      BY <2>4 DEF Doomed
    <3>3. CASE e = loc[c].old
      BY <2>2, <2>4, <3>1, <3>3
    <3>4. CASE \E k \in loc[c].i .. loc[c].num - 1 : e = taken[c][k]
      <4>1. PICK k \in loc[c].i .. loc[c].num - 1 : e = taken[c][k]
        BY <3>4
      <4>2. loc[c].num \in Nat /\ OldAt(c) \in 1 .. Len(order) /\ loc[c].i \in 1 .. loc[c].num
        BY <2>2, <2>4, <3>1
      <4>3. k \in 1 .. loc[c].num /\ OldAt(c) + k \in OldAt(c) + loc[c].i .. OldAt(c) + loc[c].num - 1
        BY <4>2
      <4> QED BY <2>2, <2>4, <3>1, <4>1, <4>3
    <3> QED BY <3>2, <3>3, <3>4
  <2>5. CASE cpc[c] \notin {"unlock", "delete", "subtractAll", "unlockAll", "copy"}
    BY <2>5 DEF Doomed
  <2> QED BY <2>1, <2>3, <2>4, <2>5
<1> QED BY <1>3, <1>4

LEMMA NotFreed ==
  ASSUME IInv
  PROVE  /\ \A c \in Consumers : \A k \in Held(c) : k \in 1 .. Len(order) /\ order[k] \notin freed
         /\ \A k \in 1 .. Len(order) : k >= FrontAt => order[k] \notin freed
<1>1. Deletions /\ Len(order) \in Nat /\ DOMAIN order = 1 .. Len(order) /\ FrontAt \in 1 .. Len(order) + 1
  BY OrderFacts DEF IInv
<1>2. Deleted \subseteq 1 .. FrontAt - 1
  BY <1>1 DEF Deletions
<1>3. ASSUME NEW k \in 1 .. Len(order), k >= FrontAt PROVE order[k] \notin freed
  <2>1. k \notin Deleted
    BY <1>1, <1>2, <1>3
  <2> QED BY <1>1, <2>1 DEF Deleted
<1>4. ASSUME NEW c \in Consumers, NEW k \in Held(c) PROVE k \in 1 .. Len(order) /\ order[k] \notin freed
  <2>1. k \notin Deleted /\ Held(c) \subseteq 1 .. FrontAt - 1
    BY <1>1, LocalsFacts DEF Deletions
  <2>2. k \in 1 .. FrontAt - 1
    BY <2>1
  <2>3. k \in 1 .. Len(order)
    BY <1>1, <2>2
  <2> QED BY <1>1, <2>1, <2>3 DEF Deleted
<1> QED BY <1>3, <1>4

LEMMA Untouched ==
  ASSUME IInv
  PROVE  NoUseAfterFree
<1>1. TypeOK /\ Ordered /\ Locks /\ Backs /\ Walks
  BY DEF IInv
<1>2. Len(order) \in Nat \ {0} /\ FrontAt \in 1 .. Len(order) + 1
      /\ (~gone => FrontAt \in 1 .. Len(order) /\ front = order[FrontAt])
  BY <1>1, OrderFacts
<1>3. ASSUME NEW p \in Producers, ppc[p] = "link" PROVE back \notin freed
  <2>1. ~gone /\ back = order[Len(order)]
    BY <1>1, <1>3 DEF Locks, Quiet, Backs
  <2>2. Len(order) \in 1 .. Len(order) /\ Len(order) >= FrontAt
    BY <1>2, <2>1
  <2> QED BY <2>1, <2>2, NotFreed
<1>4. ASSUME NEW c \in Consumers, cpc[c] \in {"take", "first", "walk"} PROVE front \notin freed
  <2>1. ~gone
    BY <1>4, LocalsFacts
  <2>2. FrontAt >= FrontAt /\ FrontAt \in 1 .. Len(order) /\ front = order[FrontAt]
    BY <1>2, <2>1
  <2> QED BY <2>2, NotFreed
<1>5. ASSUME NEW c \in Consumers, cpc[c] \in {"delete", "unlockAll", "copy"} PROVE loc[c].old \notin freed
  <2>1. OldAt(c) \in 1 .. Len(order) /\ order[OldAt(c)] = loc[c].old /\ loc[c].num \in Nat
    BY <1>5, LocalsFacts
  <2>2. cpc[c] = "unlockAll" => loc[c].num > 0
    BY <1>1 DEF Walks, Locals
  <2>3. cpc[c] = "unlockAll" => OldAt(c) \in OldAt(c) .. OldAt(c) + loc[c].num - 1
    BY <2>1, <2>2
  <2>4. OldAt(c) \in Held(c)
    BY <1>5, <2>3 DEF Held
  <2> QED BY <2>1, <2>4, NotFreed
<1>6. ASSUME NEW c \in Consumers, cpc[c] = "copy", loc[c].entry # loc[c].new PROVE loc[c].entry \notin freed
  <2>1. /\ loc[c].i \in 1 .. loc[c].num /\ loc[c].entry = order[OldAt(c) + loc[c].i]
        /\ loc[c].new = order[OldAt(c) + loc[c].num]
    BY <1>1, <1>6 DEF Walks, Locals
  <2>2. OldAt(c) \in 1 .. Len(order) /\ loc[c].num \in Nat /\ loc[c].i # loc[c].num
    BY <1>6, <2>1, LocalsFacts
  <2>3. OldAt(c) + loc[c].i \in OldAt(c) + loc[c].i .. OldAt(c) + loc[c].num - 1
    <3>1. loc[c].i \in 1 .. loc[c].num
      BY <2>1
    <3> QED BY <2>2, <3>1
  <2>4. OldAt(c) + loc[c].i \in Held(c)
    BY <1>6, <2>3 DEF Held
  <2> QED BY <2>1, <2>4, NotFreed
<1> QED BY <1>3, <1>4, <1>5, <1>6 DEF NoUseAfterFree, Touched

LEMMA DeletedOnce ==
  ASSUME IInv
  PROVE  NoDoubleDelete
<1>1. TypeOK /\ Ordered /\ Deletions
  BY DEF IInv
<1>2. /\ Len(order) \in Nat /\ DOMAIN order = 1 .. Len(order) /\ FrontAt \in 1 .. Len(order) + 1
      /\ \A j, k \in 1 .. Len(order) : order[j] = order[k] => j = k
  BY <1>1, OrderFacts DEF Ordered
<1>3. ASSUME NEW e \in Listed PROVE \E k \in 1 .. Len(order) : k >= FrontAt /\ order[k] = e
  <2>1. ~gone /\ (e = front \/ e \in Elements(After(front)))
    BY <1>3 DEF Listed
  <2>2. FrontAt \in 1 .. Len(order) /\ front = order[FrontAt] /\ FrontAt >= FrontAt
    BY <1>1, <2>1, OrderFacts
  <2>3. CASE e \in Elements(After(front))
    <3>1. After(front) = [i \in 1 .. Len(order) - FrontAt |-> order[FrontAt + i]]
      BY <1>1, <2>1, AfterFront
    <3>2. PICK i \in 1 .. Len(order) - FrontAt : e = order[FrontAt + i]
      BY <2>3, <3>1 DEF Elements
    <3>3. FrontAt + i \in 1 .. Len(order) /\ FrontAt + i >= FrontAt
      BY <1>2
    <3> QED BY <3>2, <3>3
  <2> QED BY <2>1, <2>2, <2>3
<1>4. ASSUME NEW c \in Consumers, NEW e \in Doomed(c) PROVE e \notin freed /\ e \notin Listed
  <2>1. PICK k \in Held(c) : k \in 1 .. FrontAt - 1 /\ k \in 1 .. Len(order) /\ order[k] = e
    BY DoomedHeld
  <2>2. e \notin freed
    BY <2>1, NotFreed
  <2>3. ASSUME e \in Listed PROVE FALSE
    <3>1. PICK j \in 1 .. Len(order) : j >= FrontAt /\ order[j] = e
      BY <1>3, <2>3
    <3>2. j = k
      BY <1>2, <2>1, <3>1
    <3>3. k \in 1 .. FrontAt - 1 /\ k >= FrontAt
      BY <2>1, <3>1, <3>2
    <3> QED BY <1>2, <3>3
  <2> QED BY <2>2, <2>3
<1>5. ASSUME NEW c \in Consumers, NEW d \in Consumers \ {c}, NEW e \in Doomed(c), e \in Doomed(d)
      PROVE  FALSE
  <2>1. PICK k \in Held(c) : k \in 1 .. Len(order) /\ order[k] = e
    BY DoomedHeld
  <2>2. PICK j \in Held(d) : j \in 1 .. Len(order) /\ order[j] = e
    BY <1>5, DoomedHeld
  <2>3. j = k
    BY <1>2, <2>1, <2>2
  <2> QED BY <1>1, <2>1, <2>2, <2>3 DEF Deletions
<1> QED BY <1>4, <1>5 DEF NoDoubleDelete

LEMMA NothingLeaks ==
  ASSUME IInv
  PROVE  NoLeak
<1> SUFFICES ASSUME gone PROVE freed = made \cup {Dummy}
  BY DEF NoLeak
<1>1. TypeOK /\ Ordered /\ Deletions /\ Chains /\ Quiet
  BY DEF IInv, Locks
<1>2. /\ Len(order) \in Nat /\ DOMAIN order = 1 .. Len(order) /\ FrontAt = Len(order) + 1
  BY <1>1, OrderFacts
<1>3. UNION {Held(c) : c \in Consumers} = {} /\ UNION {Unlinked(p) : p \in Producers} = {}
  <2>1. \A c \in Consumers : Held(c) = {}
    BY <1>1 DEF Quiet, Held
  <2>2. \A p \in Producers : Unlinked(p) = {}
    BY <1>1 DEF Quiet, Unlinked
  <2> QED BY <2>1, <2>2
<1>4. FrontAt - 1 = Len(order)
  BY <1>2
<1>5. Deleted = 1 .. Len(order) /\ freed \subseteq Elements(order)
  BY <1>1, <1>3, <1>4 DEF Deletions
<1>6. Elements(order) \subseteq freed
  BY <1>2, <1>5 DEF Deleted, Elements
<1>7. made \cup {Dummy} = Elements(order)
  BY <1>1, <1>3 DEF Chains
<1> QED BY <1>5, <1>6, <1>7

(* The pointers of all threads are to entries that exist; no thread uses   *)
(* an Entry that another one deleted, each Entry is deleted once, and the  *)
(* destructor leaves none: PushBack, both PopFront and ~ConcurrentQueue.   *)
THEOREM Memory == Spec => []MemorySafe
<1>1. IInv => MemorySafe
  BY Untouched, DeletedOnce, NothingLeaks DEF IInv, MemorySafe
<1> QED BY <1>1, Invariance, PTL

-----------------------------------------------------------------------------
(* What _length says of the list.                                          *)

Late == UNION {Uncounted(c) : c \in Consumers}

(* When no push is still to be counted, _length is what is on the list and *)
(* what was taken off it without being subtracted yet.                     *)
LEMMA LengthIs ==
  ASSUME IInv, ~gone, \A p \in Producers : Pending(p) = {}
  PROVE  /\ IsFiniteSet(Late) /\ Cardinality(Late) \in Nat /\ Len(After(front)) \in Nat
         /\ length = Len(After(front)) + Cardinality(Late)
<1>1. TypeOK /\ Ordered /\ Counts /\ Chains
  BY DEF IInv
<1>2. /\ Len(order) \in Nat \ {0} /\ FrontAt \in 1 .. Len(order) /\ Len(After(front)) = Len(order) - FrontAt
      /\ 1 \in 1 .. Len(order) /\ DOMAIN order = 1 .. Len(order)
  <2>1. /\ Len(order) \in Nat \ {0} /\ FrontAt \in 1 .. Len(order) /\ DOMAIN order = 1 .. Len(order)
    BY <1>1, OrderFacts
  <2>2. Len(After(front)) = Len(order) - FrontAt
    BY <1>1, AfterFront
  <2>3. 1 \in 1 .. Len(order)
    BY <2>1
  <2> QED BY <2>1, <2>2, <2>3
<1>3. IsFiniteSet(Counted) /\ Cardinality(Counted) = Len(order) - 1
  <2>1. UNION {Pending(p) : p \in Producers} = {}
    OBVIOUS
  <2>2. Counted = Elements(order) \ {Dummy}
    BY <2>1 DEF Counted
  <2>3. Dummy \in Elements(order)
    BY <1>1, <1>2 DEF Ordered, Elements
  <2>4. IsFiniteSet(Elements(order)) /\ Cardinality(Elements(order)) = Len(order)
    <3>1. order \in Seq(Entries) /\ \A j, k \in DOMAIN order : order[j] = order[k] => j = k
      BY <1>1 DEF TypeOK, Ordered
    <3> QED BY <3>1, ElementsCardinality
  <2> QED BY <2>2, <2>3, <2>4, FS_RemoveElement
<1>4. Len(order) - 1 < Modulus
  <2>1. Counted \in SUBSET Items
    <3>1. Elements(order) \subseteq Entries
      BY <1>1, <1>2, OrderFacts DEF Elements
    <3> QED BY <3>1 DEF Counted, Entries
  <2>2. Cardinality(Counted) <= Cardinality(Items)
    BY <2>1, FS_Subset, NamesAssumption
  <2>3. Cardinality(Items) \in Nat /\ Cardinality(Items) < Modulus /\ Modulus \in Nat
    BY FS_CardinalityType, NamesAssumption, NumbersAssumption
  <2> QED BY <1>2, <1>3, <2>2, <2>3
<1>5. /\ IsFiniteSet(Late) /\ Cardinality(Late) \in Nat /\ Cardinality(Discounted) \in Nat
      /\ Cardinality(Discounted) + Cardinality(Late) = FrontAt - 1
  <2>1. Late \in SUBSET (2 .. FrontAt)
    BY LocalsFacts DEF Late
  <2>2. Discounted = (2 .. FrontAt) \ Late
    BY DEF Discounted, Late
  <2>3. FrontAt \in Int /\ 2 \in Int
    BY <1>2
  <2>4. IsFiniteSet(2 .. FrontAt) /\ Cardinality(2 .. FrontAt) = IF 2 > FrontAt THEN 0 ELSE FrontAt - 2 + 1
    BY <2>3, FS_Interval
  <2>5. Cardinality(2 .. FrontAt) = FrontAt - 1
    <3>1. FrontAt \in Nat /\ FrontAt >= 1
      BY <1>2
    <3> QED BY <2>4, <3>1
  <2>6. IsFiniteSet(Late) /\ IsFiniteSet(Discounted)
    BY <2>1, <2>4, CountsFinite, FS_Subset
  <2>7. Discounted \cup Late = 2 .. FrontAt /\ Discounted \cap Late = {}
    BY <2>1, <2>2
  <2> QED BY <2>5, <2>6, <2>7, DisjointCardinality
<1>6. length = Wrap(Cardinality(Counted) - Cardinality(Discounted))
  BY <1>1 DEF Counts
<1> DEFINE x == Cardinality(Counted) - Cardinality(Discounted)
<1>7. x = (Len(order) - FrontAt) + Cardinality(Late) /\ x \in 0 .. Modulus - 1
  <2>1. FrontAt \in Nat /\ FrontAt <= Len(order) /\ Len(order) \in Nat /\ Modulus \in Nat
    BY <1>2, NumbersAssumption
  <2> QED BY <1>3, <1>4, <1>5, <2>1
<1>8. Wrap(x) = x
  <2> HIDE DEF x
  <2>1. x \in Int
    BY <1>7, NumbersAssumption
  <2> QED BY <1>7, <2>1, WrapFacts
<1>9. Len(After(front)) \in Nat
  BY <1>2
<1> QED BY <1>2, <1>5, <1>6, <1>7, <1>8, <1>9

(* When no thread is inside of the queue, _length is the number of entries *)
(* that a consumer can pop: PushBack's additions and PopFront's            *)
(* subtractions, made outside of the locks, have evened out.               *)
THEOREM LengthRight == Spec => []LengthExact
<1>1. IInv => LengthExact
  <2> SUFFICES ASSUME IInv, Quiet, ~gone PROVE length = Len(After(front))
    BY DEF LengthExact
  <2>1. \A p \in Producers : Pending(p) = {}
    BY DEF Quiet, Pending
  <2>2. Late = {}
    <3>1. \A c \in Consumers : Uncounted(c) = {}
      BY DEF Quiet, Uncounted
    <3> QED BY <3>1 DEF Late
  <2>3. Cardinality(Late) = 0
    BY <2>2, FS_EmptySet
  <2>4. length = Len(After(front)) + Cardinality(Late) /\ Len(After(front)) \in Nat
    BY <2>1, LengthIs
  <2> QED BY <2>3, <2>4
<1> QED BY <1>1, Invariance, PTL

(* A queue that one thread fills and one thread empties with PopFront(T&), *)
(* and never with PopFront(vector), makes PushBack sleep only when it      *)
(* holds MaxLength entries.                                                *)
THEOREM SleepsOnlyFull ==
  ASSUME \A p, q \in Producers : p = q,
         \A c, d \in Consumers : c = d,
         BulkPoppers = {}
  PROVE  Spec => SleepsOnlyWhenFull
<1> DEFINE Singly == \A c \in Consumers : cpc[c] \in {"idle", "take", "unlock", "delete", "subtract"}
           Throttles == \A p \in Producers : Throttle(p) => Len(After(front)) >= MaxLength
<1>1. Init => Singly
  BY DEF Init
<1>2. TypeOK /\ Singly /\ [Next]_vars => Singly'
  <2> SUFFICES ASSUME TypeOK, Singly, [Next]_vars PROVE Singly'
    OBVIOUS
  <2>1. CASE UNCHANGED cpc
    BY <2>1
  <2>2. ASSUME NEW c \in Consumers, AcquirePop(c) \/ GoOn(c) PROVE Singly'
    <3> USE DEF TypeOK, Consuming
    <3>1. CASE AcquirePop(c)
      <4>1. cpc' = [cpc EXCEPT ![c] = "take"]
        BY <3>1 DEF AcquirePop
      <4> QED BY <4>1
    <3>2. CASE FindEmpty(c)
      BY <3>2 DEF FindEmpty
    <3>3. CASE TakeFront(c)
      BY <3>3 DEF TakeFront
    <3>4. CASE ReleasePop(c)
      BY <3>4 DEF ReleasePop
    <3>5. CASE DeleteFirst(c)
      BY <3>5 DEF DeleteFirst
    <3>6. CASE SubtractOne(c)
      BY <3>6 DEF SubtractOne
    <3>7. CASE SaveFront(c) \/ Walk(c) \/ WalkEnds(c) \/ SubtractAll(c) \/ ReleaseAll(c)
               \/ CopyEntry(c) \/ DeleteOldFront(c)
      BY <3>7 DEF SaveFront, Walk, WalkEnds, SubtractAll, ReleaseAll, CopyEntry, DeleteOldFront
    <3> QED BY <2>2, <3>1, <3>2, <3>3, <3>4, <3>5, <3>6, <3>7 DEF GoOn
  <2>3. ASSUME NEW p \in Producers, Produce(p) PROVE UNCHANGED cpc
    BY <2>3, ProducerFrame
  <2>4. Destroy => UNCHANGED cpc
    BY DEF Destroy, consumer
  <2>5. UNCHANGED vars => UNCHANGED cpc
    BY DEF vars, consumer
  <2> QED BY <2>1, <2>2, <2>3, <2>4, <2>5 DEF Next
<1>3. IInv /\ Singly => Throttles
  <2> SUFFICES ASSUME IInv, Singly, NEW p \in Producers, Throttle(p)
               PROVE  Len(After(front)) >= MaxLength
    OBVIOUS
  <2>1. ppc[p] = "check" /\ length > MaxLength
    BY DEF Throttle, Producing, Full
  <2>2. ~gone
    BY <2>1 DEF IInv, Locks, Quiet
  <2>3. \A q \in Producers : Pending(q) = {}
    <3>1. \A q \in Producers : ppc[q] = "check"
      BY <2>1
    <3> QED BY <3>1 DEF Pending
  <2>4. IsFiniteSet(Late) /\ Cardinality(Late) <= 1
    <3>1. ASSUME NEW c \in Consumers PROVE Uncounted(c) = {} \/ Uncounted(c) = {Place(order, taken[c][1])}
      BY <3>1 DEF Uncounted
    <3>2. Late = {} \/ \E x : Late = {x}
      <4>1. CASE Consumers = {}
        BY <4>1 DEF Late
      <4>2. CASE Consumers # {}
        <5>1. PICK c \in Consumers : Consumers = {c}
          BY <4>2
        <5>2. Late = Uncounted(c)
          BY <5>1 DEF Late
        <5> QED BY <3>1, <5>2
      <4> QED BY <4>1, <4>2
    <3>3. \A x : Cardinality({x}) = 1 /\ IsFiniteSet({x})
      BY FS_Singleton
    <3>4. Cardinality({}) = 0 /\ IsFiniteSet({})
      BY FS_EmptySet
    <3>5. CASE Late = {}
      BY <3>4, <3>5
    <3>6. CASE \E x : Late = {x}
      <4>1. PICK x : Late = {x}
        BY <3>6
      <4>2. Cardinality(Late) = 1 /\ IsFiniteSet(Late)
        BY <3>3, <4>1
      <4> QED BY <4>2
    <3> QED BY <3>2, <3>5, <3>6
  <2>5. /\ Cardinality(Late) \in Nat /\ Len(After(front)) \in Nat
        /\ length = Len(After(front)) + Cardinality(Late)
    BY <2>2, <2>3, LengthIs
  <2> QED BY <2>1, <2>4, <2>5, NumbersAssumption
<1>4. Spec => []Singly
  <2>1. Spec => []TypeOK
    <3>1. IInv => TypeOK
      BY DEF IInv
    <3> QED BY <3>1, Invariance, PTL
  <2> QED BY <1>1, <1>2, <2>1, PTL DEF Spec
<1>5. Spec => [][Throttles]_vars
  BY <1>3, <1>4, Invariance, PTL DEF Spec
<1> QED BY <1>5 DEF SleepsOnlyWhenFull

-----------------------------------------------------------------------------
(* The list implements FifoQueue: its contents are what was linked behind  *)
(* the front, or behind the entry from which a consumer walks.             *)

Behind(s, k) == [i \in 1 .. Len(s) - k |-> s[k + i]]

LEMMA BehindFacts ==
  ASSUME NEW S, NEW s \in Seq(S), NEW k \in 0 .. Len(s)
  PROVE  /\ Behind(s, k) \in Seq(S) /\ Len(Behind(s, k)) = Len(s) - k
         /\ \A i \in 1 .. Len(s) - k : Behind(s, k)[i] = s[k + i]
         /\ k = Len(s) => Behind(s, k) = <<>>
         /\ k < Len(s) => /\ Behind(s, k) # <<>> /\ Head(Behind(s, k)) = s[k + 1]
                          /\ Tail(Behind(s, k)) = Behind(s, k + 1)
<1> DEFINE b == Behind(s, k)
           n == Len(s) - k
<1>1. Len(s) \in Nat /\ DOMAIN s = 1 .. Len(s) /\ \A j \in 1 .. Len(s) : s[j] \in S
  BY LenProperties, ElementOfSeq
<1>2. ASSUME NEW j \in 0 .. Len(s)
      PROVE  /\ Behind(s, j) \in Seq(S) /\ Len(Behind(s, j)) = Len(s) - j
             /\ \A i \in 1 .. Len(s) - j : Behind(s, j)[i] = s[j + i]
  <2>1. \A i \in 1 .. Len(s) - j : j + i \in 1 .. Len(s)
    BY <1>1
  <2>2. Behind(s, j) \in [1 .. Len(s) - j -> S]
    BY <1>1, <2>1 DEF Behind
  <2>3. Len(s) - j \in Nat
    BY <1>1
  <2>4. Behind(s, j) \in Seq(S)
    <3>1. Behind(s, j) \in UNION {[1 .. m -> S] : m \in Nat}
      BY <2>2, <2>3
    <3> QED BY <3>1, SeqDef
  <2>5. Len(Behind(s, j)) = Len(s) - j
    BY <2>2, <2>3, <2>4, LenProperties
  <2> QED BY <2>4, <2>5 DEF Behind
<1>3. b \in Seq(S) /\ Len(b) = n /\ \A i \in 1 .. n : b[i] = s[k + i]
  BY <1>2
<1>4. ASSUME k = Len(s) PROVE b = <<>>
  <2>1. Len(b) = 0
    BY <1>1, <1>3, <1>4
  <2> HIDE DEF b
  <2> QED BY <1>3, <2>1, EmptySeq
<1>5. ASSUME k < Len(s)
      PROVE  b # <<>> /\ Head(b) = s[k + 1] /\ Tail(b) = Behind(s, k + 1)
  <2>1. n \in Nat /\ n > 0 /\ k + 1 \in 0 .. Len(s) /\ 1 \in 1 .. n
    BY <1>1, <1>5
  <2>2. /\ Behind(s, k + 1) \in Seq(S) /\ Len(Behind(s, k + 1)) = Len(s) - (k + 1)
        /\ \A i \in 1 .. Len(s) - (k + 1) : Behind(s, k + 1)[i] = s[(k + 1) + i]
    BY <1>2, <2>1
  <2>3. b # <<>>
    <3> HIDE DEF b, n
    <3> QED BY <1>3, <2>1, EmptySeq
  <2>4. Head(b) = s[k + 1]
    <3>1. b[1] = s[k + 1]
      BY <1>3, <2>1
    <3> HIDE DEF b, n
    <3> QED BY <1>3, <2>3, <3>1
  <2>5. /\ Tail(b) \in Seq(S) /\ Len(Tail(b)) = n - 1
        /\ \A i \in 1 .. n - 1 : Tail(b)[i] = b[i + 1]
    <3> HIDE DEF b, n
    <3> QED BY <1>3, <2>3, HeadTailProperties
  <2>6. n - 1 = Len(s) - (k + 1)
    BY <1>1
  <2>7. \A i \in 1 .. n - 1 : i + 1 \in 1 .. n /\ k + (i + 1) = (k + 1) + i
    BY <2>1
  <2>8. \A i \in 1 .. n - 1 : Tail(b)[i] = Behind(s, k + 1)[i]
    <3>1. ASSUME NEW i \in 1 .. n - 1 PROVE Tail(b)[i] = Behind(s, k + 1)[i]
      <4> HIDE DEF b, n
      <4>1. Tail(b)[i] = s[k + (i + 1)]
        BY <1>3, <2>5, <2>7
      <4>2. Behind(s, k + 1)[i] = s[(k + 1) + i]
        BY <2>2, <2>6
      <4>3. k + (i + 1) = (k + 1) + i
        BY <2>7
      <4> QED BY <4>1, <4>2, <4>3
    <3> QED BY <3>1
  <2>9. Tail(b) = Behind(s, k + 1)
    <3> HIDE DEF b, n
    <3> QED BY <2>2, <2>5, <2>6, <2>8, SeqEqual
  <2> QED BY <2>3, <2>4, <2>9
<1> QED BY <1>3, <1>4, <1>5

LEMMA BehindConcat ==
  ASSUME NEW S, NEW s \in Seq(S), NEW t \in Seq(S), NEW k \in 0 .. Len(s)
  PROVE  Behind(s \o t, k) = Behind(s, k) \o t
<1> DEFINE u == s \o t
           n == Len(s) - k
           x == Behind(u, k)
           y == Behind(s, k) \o t
<1>1. Len(s) \in Nat /\ Len(t) \in Nat /\ n \in Nat
  <2>1. Len(s) \in Nat /\ Len(t) \in Nat
    BY LenProperties
  <2> QED BY <2>1
<1>2. u \in Seq(S) /\ Len(u) = Len(s) + Len(t)
      /\ \A i \in 1 .. Len(s) + Len(t) : u[i] = IF i <= Len(s) THEN s[i] ELSE t[i - Len(s)]
  BY ConcatProperties
<1>3. Behind(s, k) \in Seq(S) /\ Len(Behind(s, k)) = n /\ \A i \in 1 .. n : Behind(s, k)[i] = s[k + i]
  BY BehindFacts
<1>4. y \in Seq(S) /\ Len(y) = n + Len(t)
      /\ \A i \in 1 .. n + Len(t) : y[i] = IF i <= n THEN Behind(s, k)[i] ELSE t[i - n]
  <2> HIDE DEF n
  <2> QED BY <1>3, ConcatProperties
<1> HIDE DEF u, y
<1>5. x \in Seq(S) /\ Len(x) = Len(u) - k /\ \A i \in 1 .. Len(u) - k : x[i] = u[k + i]
  <2>1. k \in 0 .. Len(u)
    BY <1>1, <1>2
  <2> QED BY <1>2, <2>1, BehindFacts
<1>6. Len(u) - k = n + Len(t)
  BY <1>1, <1>2
<1> HIDE DEF x
<1>7. ASSUME NEW i \in 1 .. n + Len(t) PROVE x[i] = y[i]
  <2>1. x[i] = u[k + i] /\ k + i \in 1 .. Len(s) + Len(t)
    <3>1. k + i \in 1 .. Len(s) + Len(t)
      BY <1>1
    <3> QED BY <1>5, <1>6, <3>1
  <2>2. CASE i <= n
    <3>1. k + i <= Len(s) /\ i \in 1 .. n
      BY <1>1, <2>2
    <3>2. x[i] = s[k + i]
      BY <1>2, <2>1, <3>1
    <3>3. y[i] = s[k + i]
      BY <1>3, <1>4, <2>2, <3>1
    <3> QED BY <3>2, <3>3
  <2>3. CASE ~(i <= n)
    <3>1. ~(k + i <= Len(s)) /\ (k + i) - Len(s) = i - n
      BY <1>1, <2>3
    <3>2. x[i] = t[(k + i) - Len(s)]
      BY <1>2, <2>1, <3>1
    <3>3. y[i] = t[i - n]
      <4> HIDE DEF n
      <4> QED BY <1>4, <2>3
    <3> QED BY <3>1, <3>2, <3>3
  <2> QED BY <2>2, <2>3
<1>8. x = y
  <2> HIDE DEF n
  <2> QED BY <1>4, <1>5, <1>6, <1>7, SeqEqual
<1> QED BY <1>8 DEF x, y, u

Walkers == {c \in Consumers : cpc[c] = "walk"}
StartAt == IF Walkers # {} THEN OldAt(CHOOSE c \in Walkers : TRUE) ELSE FrontAt

ContentsRight ==
  /\ Len(order) \in Nat /\ order \in Seq(Entries)
  /\ ~gone => StartAt \in 1 .. Len(order)
  /\ Contents = IF gone THEN <<>> ELSE Behind(order, StartAt)
  /\ \A c \in Consumers : cpc[c] = "walk" => StartAt = OldAt(c)
  /\ (\A c \in Consumers : cpc[c] # "walk") => StartAt = FrontAt

LEMMA ContentsBehind == IInv => ContentsRight
<1> SUFFICES ASSUME IInv PROVE ContentsRight
  OBVIOUS
<1>1. TypeOK /\ Ordered /\ Locks
  BY DEF IInv
<1>2. Len(order) \in Nat /\ order \in Seq(Entries) /\ DOMAIN order = 1 .. Len(order)
  BY <1>1, OrderFacts DEF TypeOK
<1>3. ASSUME NEW c \in Consumers, cpc[c] = "walk"
      PROVE  /\ Walkers = {c} /\ StartAt = OldAt(c) /\ OldAt(c) \in 1 .. Len(order)
             /\ order[OldAt(c)] = loc[c].old
  <2>1. Walkers = {c}
    BY <1>1, <1>3 DEF Walkers, Locks
  <2>2. (CHOOSE d \in Walkers : TRUE) = c
    BY <2>1
  <2> QED BY <1>3, <2>1, <2>2, LocalsFacts DEF StartAt
<1>4. (\A c \in Consumers : cpc[c] # "walk") => StartAt = FrontAt /\ Walkers = {}
  BY DEF Walkers, StartAt
<1>5. ~gone => FrontAt \in 1 .. Len(order) /\ front = order[FrontAt]
  BY <1>1, OrderFacts
<1>6. ~gone => StartAt \in 1 .. Len(order)
  BY <1>3, <1>4, <1>5
<1>7. Contents = IF gone THEN <<>> ELSE Behind(order, StartAt)
  <2>1. CASE gone
    BY <2>1 DEF Contents
  <2>2. CASE ~gone
    <3>1. Contents = After(IF Walkers # {} THEN loc[CHOOSE c \in Walkers : TRUE].old ELSE front)
      BY <2>2 DEF Contents, Walkers
    <3>2. Contents = After(order[StartAt])
      <4>1. CASE Walkers = {}
        BY <2>2, <3>1, <4>1, <1>5 DEF StartAt
      <4>2. CASE Walkers # {}
        <5>1. (CHOOSE c \in Walkers : TRUE) \in Walkers
          BY <4>2
        <5>2. PICK c \in Consumers : cpc[c] = "walk" /\ c = CHOOSE d \in Walkers : TRUE
          BY <5>1 DEF Walkers
        <5>3. Contents = After(loc[c].old)
          BY <3>1, <4>2, <5>2
        <5> QED BY <1>3, <5>2, <5>3
      <4> QED BY <4>1, <4>2
    <3>3. After(order[StartAt]) = Behind(order, StartAt)
      BY <1>1, <1>2, <1>6, <2>2, AfterIs DEF Behind
    <3> QED BY <2>2, <3>2, <3>3
  <2> QED BY <2>1, <2>2
<1> QED BY <1>2, <1>3, <1>4, <1>6, <1>7 DEF ContentsRight

LEMMA NextContentsBehind == IInv' => ContentsRight'
BY ContentsBehind, PTL

LEMMA ProducerImplements ==
  ASSUME IInv, ContentsRight, ContentsRight', NEW p \in Producers, Produce(p)
  PROVE  /\ UNCHANGED <<taken, gone>>
         /\ \/ Contents' = Contents
            \/ ~gone /\ \E s \in Vectors : Contents' = Contents \o s
<1>1. UNCHANGED <<taken, gone, cpc, loc>>
  BY ProducerFrame
<1>2. CASE gone
  <2>1. Contents = <<>>
    BY <1>2 DEF ContentsRight
  <2>2. gone'
    BY <1>1, <1>2
  <2>3. Contents' = <<>>
    BY <2>2 DEF ContentsRight
  <2> QED BY <1>1, <2>1, <2>3
<1>3. CASE ~gone
  <2>1. StartAt' = StartAt
    <3>1. CASE \E c \in Consumers : cpc[c] = "walk"
      <4>1. PICK c \in Consumers : cpc[c] = "walk"
        BY <3>1
      <4>2. StartAt = OldAt(c) /\ StartAt' = OldAt(c)'
        BY <1>1, <4>1 DEF ContentsRight
      <4>3. loc[c].old \in Elements(order)
        BY <4>1, LocalsFacts
      <4>4. Place(order', loc[c].old) = Place(order, loc[c].old)
        BY <4>3, PushPlaces
      <4> QED BY <1>1, <4>2, <4>4 DEF OldAt
    <3>2. CASE ~ \E c \in Consumers : cpc[c] = "walk"
      <4>1. StartAt = FrontAt /\ StartAt' = FrontAt'
        BY <1>1, <3>2 DEF ContentsRight
      <4> QED BY <4>1, PushPlaces
    <3> QED BY <3>1, <3>2
  <2>2. Contents = Behind(order, StartAt) /\ Contents' = Behind(order', StartAt)
    <3>1. Behind(order', StartAt') = Behind(order', StartAt)
      BY <2>1
    <3>2. Contents' = Behind(order, StartAt)'
      BY <1>1, <1>3 DEF ContentsRight
    <3>3. Behind(order, StartAt)' = Behind(order', StartAt')
      BY DEF Behind
    <3>4. Contents = Behind(order, StartAt)
      BY <1>3 DEF ContentsRight
    <3> QED BY <3>1, <3>2, <3>3, <3>4
  <2>3. CASE order' = order
    <3>1. Contents' = Contents
      BY <2>2, <2>3
    <3> QED BY <1>1, <3>1
  <2>4. CASE Link(p)
    <3>1. order' = order \o chain[p] /\ chain[p] \in Vectors
      BY <2>4, LinkFacts DEF Link
    <3>2. chain[p] \in Seq(Entries) /\ order \in Seq(Entries)
      BY <3>1, VectorFacts, SeqMonotonic DEF Entries, ContentsRight
    <3>3. StartAt \in 0 .. Len(order)
      BY <1>3 DEF ContentsRight
    <3>4. Contents' = Contents \o chain[p]
      BY <2>2, <3>1, <3>2, <3>3, BehindConcat
    <3> QED BY <1>1, <1>3, <3>1, <3>4
  <2> QED BY <2>3, <2>4, ProducerFrame
<1> QED BY <1>2, <1>3

LEMMA ConsumerImplements ==
  ASSUME IInv, ContentsRight, ContentsRight', NEW c \in Consumers, AcquirePop(c) \/ GoOn(c)
  PROVE  /\ ~gone /\ gone' = gone
         /\ \/ Contents' = Contents /\ taken' = taken
            \/ /\ Contents # <<>> /\ Contents' = Tail(Contents)
               /\ taken' = [taken EXCEPT ![c] = <<Head(Contents)>>]
            \/ /\ Contents # <<>> /\ Contents' = <<>>
               /\ taken' = [taken EXCEPT ![c] = Contents]
<1>1. ~gone /\ gone' = gone /\ order' = order /\ FrontAt \in 1 .. Len(order) /\ Len(order) \in Nat
  BY FrontPlaces
<1>2. TypeOK /\ Locks /\ Ordered
  BY DEF IInv
<1>3. /\ Contents = Behind(order, StartAt) /\ Contents' = Behind(order, StartAt')
      /\ StartAt \in 1 .. Len(order) /\ order \in Seq(Entries)
  <2>1. Behind(order, StartAt)' = Behind(order, StartAt')
    BY <1>1 DEF Behind
  <2>2. Contents' = Behind(order, StartAt)'
    BY <1>1 DEF ContentsRight
  <2> QED BY <1>1, <2>1, <2>2 DEF ContentsRight
<1>4. \A d \in Consumers \ {c} : cpc'[d] = cpc[d] /\ loc'[d].old = loc[d].old
  <2> USE <1>2 DEF TypeOK, Consuming
  <2>1. CASE AcquirePop(c) \/ FindEmpty(c) \/ ReleasePop(c)
    BY <2>1 DEF AcquirePop, FindEmpty, ReleasePop
  <2>2. CASE TakeFront(c) \/ DeleteFirst(c) \/ SubtractOne(c)
    BY <2>2 DEF TakeFront, DeleteFirst, SubtractOne
  <2>3. CASE SaveFront(c) \/ Walk(c) \/ WalkEnds(c)
    BY <2>3 DEF SaveFront, Walk, WalkEnds
  <2>4. CASE SubtractAll(c) \/ ReleaseAll(c)
    BY <2>4 DEF SubtractAll, ReleaseAll
  <2>5. CASE CopyEntry(c) \/ DeleteOldFront(c)
    BY <2>5 DEF CopyEntry, DeleteOldFront
  <2> QED BY <2>1, <2>2, <2>3, <2>4, <2>5 DEF GoOn
<1>5. ASSUME cpc[c] # "walk", cpc'[c] # "walk", FrontAt' = FrontAt PROVE StartAt' = StartAt
  <2>1. CASE \E d \in Consumers : cpc[d] = "walk"
    <3>1. PICK d \in Consumers : cpc[d] = "walk"
      BY <2>1
    <3>2. cpc'[d] = "walk" /\ loc'[d].old = loc[d].old
      BY <1>4, <1>5, <3>1
    <3>3. StartAt = OldAt(d) /\ StartAt' = OldAt(d)'
      BY <3>1, <3>2 DEF ContentsRight
    <3> QED BY <1>1, <3>2, <3>3 DEF OldAt
  <2>2. CASE ~ \E d \in Consumers : cpc[d] = "walk"
    <3>1. \A d \in Consumers : cpc[d] # "walk" /\ cpc'[d] # "walk"
      BY <1>4, <1>5, <2>2
    <3>2. StartAt = FrontAt /\ StartAt' = FrontAt'
      BY <3>1 DEF ContentsRight
    <3> QED BY <1>5, <3>2
  <2> QED BY <2>1, <2>2
<1>6. CASE AcquirePop(c) \/ FindEmpty(c) \/ ReleasePop(c) \/ DeleteFirst(c) \/ SubtractOne(c)
           \/ SubtractAll(c) \/ ReleaseAll(c) \/ CopyEntry(c) \/ DeleteOldFront(c)
  <2>1. taken' = taken
    BY <1>6 DEF AcquirePop, FindEmpty, ReleasePop, DeleteFirst, SubtractOne, SubtractAll, ReleaseAll,
                CopyEntry, DeleteOldFront
  <2>2. cpc[c] # "walk" /\ cpc'[c] # "walk"
    <3> USE <1>2 DEF TypeOK, Consuming
    <3>1. CASE AcquirePop(c) \/ FindEmpty(c) \/ ReleasePop(c)
      BY <3>1 DEF AcquirePop, FindEmpty, ReleasePop
    <3>2. CASE DeleteFirst(c) \/ SubtractOne(c) \/ SubtractAll(c)
      BY <3>2 DEF DeleteFirst, SubtractOne, SubtractAll
    <3>3. CASE ReleaseAll(c) \/ CopyEntry(c) \/ DeleteOldFront(c)
      BY <3>3 DEF ReleaseAll, CopyEntry, DeleteOldFront
    <3> QED BY <1>6, <3>1, <3>2, <3>3
  <2>3. FrontAt' = FrontAt
    <3>1. ~TakeFront(c) /\ ~Walk(c)
      BY <1>6, <2>2 DEF AcquirePop, FindEmpty, ReleasePop, DeleteFirst, SubtractOne, SubtractAll, ReleaseAll,
                CopyEntry, DeleteOldFront, TakeFront, Walk, Consuming
    <3> QED BY <3>1, FrontPlaces
  <2> QED BY <1>1, <1>3, <1>5, <2>1, <2>2, <2>3
<1>7. CASE SaveFront(c)
  <2>1. /\ cpc[c] = "first" /\ cpc'[c] = "walk" /\ loc'[c].old = front /\ front' = front /\ taken' = taken
    BY <1>2, <1>7 DEF SaveFront, Consuming, TypeOK, list
  <2>2. \A d \in Consumers : cpc[d] # "walk"
    BY <1>2, <2>1 DEF Locks
  <2>3. StartAt = FrontAt /\ StartAt' = OldAt(c)'
    BY <2>1, <2>2 DEF ContentsRight
  <2>4. OldAt(c)' = FrontAt
    BY <1>1, <2>1 DEF OldAt, FrontAt
  <2> QED BY <1>1, <1>3, <2>1, <2>3, <2>4
<1>8. CASE Walk(c)
  <2>1. /\ cpc[c] = "walk" /\ cpc'[c] = "walk" /\ loc'[c].old = loc[c].old /\ taken' = taken
    BY <1>2, <1>8 DEF Walk, Consuming, TypeOK
  <2>2. StartAt = OldAt(c) /\ StartAt' = OldAt(c)'
    BY <2>1 DEF ContentsRight
  <2>3. OldAt(c)' = OldAt(c)
    BY <1>1, <2>1 DEF OldAt
  <2> QED BY <1>1, <1>3, <2>1, <2>2, <2>3
<1>9. CASE TakeFront(c)
  <2>1. /\ cpc[c] = "take" /\ cpc'[c] = "unlock" /\ next[front] # Null
        /\ taken' = [taken EXCEPT ![c] = <<next[front]>>] /\ front' = next[front]
    BY <1>2, <1>9 DEF TakeFront, Consuming, TypeOK
  <2>2. \A d \in Consumers : cpc[d] # "walk"
    BY <1>2, <2>1 DEF Locks
  <2>3. \A d \in Consumers : cpc'[d] # "walk"
    BY <1>4, <2>1, <2>2
  <2>4. StartAt = FrontAt /\ StartAt' = FrontAt'
    BY <2>2, <2>3 DEF ContentsRight
  <2>5. FrontAt \in 1 .. Len(order) - 1 /\ next[front] = order[FrontAt + 1] /\ FrontAt' = FrontAt + 1
    <3>1. /\ FrontAt \in 1 .. Len(order) - 1 /\ next[front] = order[FrontAt + 1]
          /\ Place(order, next[front]) = FrontAt + 1
      BY <1>1, <2>1, FrontMoves
    <3> QED BY <1>1, <2>1, <3>1 DEF FrontAt
  <2>6. FrontAt \in 0 .. Len(order) /\ FrontAt < Len(order)
    <3>1. FrontAt \in 1 .. Len(order) - 1
      BY <2>5
    <3> QED BY <1>1, <3>1
  <2>7. /\ Contents # <<>> /\ Head(Contents) = next[front] /\ Contents' = Tail(Contents)
    BY <1>3, <2>4, <2>5, <2>6, BehindFacts
  <2> QED BY <1>1, <2>1, <2>7
<1>10. CASE WalkEnds(c)
  <2>1. /\ cpc[c] = "walk" /\ cpc'[c] = "subtractAll" /\ front' = front
        /\ taken' = [taken EXCEPT ![c] = After(loc[c].old)]
    BY <1>2, <1>10 DEF WalkEnds, Consuming, TypeOK, list
  <2>2. \A d \in Consumers \ {c} : cpc[d] # "walk"
    BY <1>2, <2>1 DEF Locks
  <2>3. \A d \in Consumers : cpc'[d] # "walk"
    BY <1>4, <2>1, <2>2
  <2>4. StartAt = OldAt(c) /\ StartAt' = FrontAt'
    BY <2>1, <2>3 DEF ContentsRight
  <2>5. FrontAt' = FrontAt
    BY <1>1, <2>1 DEF FrontAt
  <2>6. /\ FrontAt = Len(order) /\ OldAt(c) + loc[c].num = Len(order) /\ loc[c].num > 0 /\ loc[c].num \in Nat
        /\ OldAt(c) \in 1 .. Len(order) /\ order[OldAt(c)] = loc[c].old
    BY <1>10, <2>1, WalkTakes, LocalsFacts
  <2>7. OldAt(c) \in 0 .. Len(order) /\ OldAt(c) < Len(order) /\ Len(order) \in 0 .. Len(order)
    BY <1>1, <2>6
  <2>8. Contents # <<>> /\ Contents' = <<>>
    <3>1. Behind(order, OldAt(c)) # <<>>
      BY <1>3, <2>7, BehindFacts
    <3>2. Behind(order, Len(order)) = <<>>
      BY <1>3, <2>7, BehindFacts
    <3> QED BY <1>3, <2>4, <2>5, <2>6, <3>1, <3>2
  <2>9. Contents = After(loc[c].old)
    <3>1. OldAt(c) \in DOMAIN order
      BY <1>2, <2>6, OrderFacts
    <3>2. After(order[OldAt(c)]) = Behind(order, OldAt(c))
      BY <1>2, <3>1, AfterIs DEF Behind
    <3> QED BY <1>3, <2>4, <2>6, <3>2
  <2> QED BY <1>1, <2>1, <2>8, <2>9
<1> QED BY <1>6, <1>7, <1>8, <1>9, <1>10 DEF GoOn

(* The linked list with its two locks is a first-in-first-out queue: each  *)
(* assignment to _back->next adds the values of one push at its back, each *)
(* TakeFront takes one from its front and each finished walk all of them;  *)
(* what producers and consumers do besides changes nothing of it.          *)
THEOREM Implementation == Spec => ImplementsFifo
<1>1. Init => Fifo!Init
  <2> SUFFICES ASSUME Init PROVE Fifo!Init
    OBVIOUS
  <2>1. ContentsRight
    BY Initially, ContentsBehind
  <2>2. gone = FALSE /\ Len(order) = 1 /\ taken = [c \in Consumers |-> <<>>]
        /\ \A c \in Consumers : cpc[c] # "walk"
    BY DEF Init
  <2>3. StartAt \in 0 .. Len(order) /\ StartAt = Len(order)
    BY <2>1, <2>2 DEF ContentsRight
  <2>4. Contents = <<>>
    BY <2>1, <2>2, <2>3, BehindFacts DEF ContentsRight
  <2> QED BY <2>2, <2>4 DEF Fifo!Init
<1>2. IInv /\ IInv' /\ [Next]_vars => [Fifo!Next]_(Fifo!vars)
  <2> SUFFICES ASSUME IInv, IInv', [Next]_vars PROVE [Fifo!Next]_(Fifo!vars)
    OBVIOUS
  <2>1. ContentsRight /\ ContentsRight'
    BY ContentsBehind, NextContentsBehind
  <2>2. ASSUME NEW p \in Producers, Produce(p) PROVE [Fifo!Next]_(Fifo!vars)
    BY <2>1, <2>2, ProducerImplements DEF Fifo!Next, Fifo!Push, Fifo!vars
  <2>3. ASSUME NEW c \in Consumers, AcquirePop(c) \/ GoOn(c) PROVE [Fifo!Next]_(Fifo!vars)
    BY <2>1, <2>3, ConsumerImplements DEF Fifo!Next, Fifo!Pop, Fifo!PopAll, Fifo!vars
  <2>4. CASE Destroy
    <3>1. gone' = TRUE /\ taken' = taken
      BY <2>4 DEF Destroy, consumer
    <3>2. Contents' = <<>>
      BY <2>1, <3>1 DEF ContentsRight
    <3> QED BY <3>1, <3>2 DEF Fifo!Next, Fifo!Destroy
  <2>5. CASE UNCHANGED vars
    <3>1. UNCHANGED <<next, front, cpc, loc, taken, gone>>
      BY <2>5 DEF vars, list, consumer
    <3>2. Contents' = Contents
      BY <3>1 DEF Contents, After
    <3> QED BY <3>1, <3>2 DEF Fifo!vars
  <2> QED BY <2>2, <2>3, <2>4, <2>5 DEF Next
<1> QED BY <1>1, <1>2, Invariance, PTL DEF Spec, ImplementsFifo, Fifo!Spec

=============================================================================
