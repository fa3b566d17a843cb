------------------------- MODULE ContentHashProofs --------------------------
(***************************************************************************)
(* The text that HashData digests is determined by the data and determines *)
(* it, for any finite map whose keys hold neither NUL nor line feed and    *)
(* whose values hold no NUL. There is no induction principle to cite for   *)
(* what is recursive here: the proofs take a least counterexample.         *)
(***************************************************************************)
EXTENDS ContentHash, FiniteSetTheorems, WellFoundedInduction, TLAPS

\* Every set of naturals that is not empty has a least element.
LEMMA LeastElement ==
    ASSUME NEW T, T \subseteq Nat, T # {}
    PROVE  \E m \in T : \A k \in T : m <= k
<1>1. PICK m \in T : \A k \in T : ~(<<k, m>> \in OpToRel(<, Nat))
    BY NatLessThanWellFounded, WFMin
<1>2. ASSUME NEW k \in T PROVE ~(k < m)
    BY <1>1, <1>2 DEF OpToRel
<1> QED BY <1>2

\* Strings are equal if they have the same length and the same bytes.
LEMMA SameStrings ==
    ASSUME NEW s \in Seq(Nat), NEW t \in Seq(Nat), Len(s) = Len(t),
           \A j \in 1 .. Len(s) : s[j] = t[j]
    PROVE  s = t
<1>1. DOMAIN s = 1 .. Len(s) /\ DOMAIN t = 1 .. Len(s)
    OBVIOUS
<1>2. s = [j \in DOMAIN s |-> s[j]] /\ t = [j \in DOMAIN t |-> t[j]]
    OBVIOUS
<1> QED BY <1>1, <1>2

\* Two strings in a row.
LEMMA Concatenation ==
    ASSUME NEW s \in Seq(Nat), NEW t \in Seq(Nat)
    PROVE  /\ s \o t \in Seq(Nat)
           /\ Len(s) \in Nat /\ Len(t) \in Nat /\ Len(s \o t) = Len(s) + Len(t)
           /\ \A j \in 1 .. Len(s) : (s \o t)[j] = s[j]
           /\ \A j \in 1 .. Len(t) : (s \o t)[Len(s) + j] = t[j]
<1>1. s \o t \in Seq(Nat) /\ Len(s) \in Nat /\ Len(t) \in Nat /\ Len(s \o t) = Len(s) + Len(t)
    OBVIOUS
<1>2. ASSUME NEW j \in 1 .. Len(s) PROVE (s \o t)[j] = s[j]
    BY <1>1
<1>3. ASSUME NEW j \in 1 .. Len(t) PROVE (s \o t)[Len(s) + j] = t[j]
    BY <1>1
<1> QED BY <1>1, <1>2, <1>3

-----------------------------------------------------------------------------
(* The order of the keys                                                   *)

\* A string is not before itself, nor before one that is before it.
LEMMA BeforeAsymmetric ==
    ASSUME NEW s \in Seq(Nat), NEW t \in Seq(Nat), Before(s, t)
    PROVE  ~Before(t, s)
<1> SUFFICES ASSUME Before(t, s) PROVE FALSE
    OBVIOUS
<1>1. PICK i \in DOMAIN t : /\ i <= Len(s) + 1
                            /\ \A j \in 1 .. i - 1 : s[j] = t[j]
                            /\ i <= Len(s) => s[i] < t[i]
    BY DEF Before
<1>2. PICK k \in DOMAIN s : /\ k <= Len(t) + 1
                            /\ \A j \in 1 .. k - 1 : t[j] = s[j]
                            /\ k <= Len(t) => t[k] < s[k]
    BY DEF Before
<1>3. i \in 1 .. Len(t) /\ k \in 1 .. Len(s)
    OBVIOUS
<1>4. /\ \A j \in 1 .. Len(s) : s[j] \in Nat
      /\ \A j \in 1 .. Len(t) : t[j] \in Nat
      /\ Len(s) \in Nat /\ Len(t) \in Nat
    OBVIOUS
<1>5. CASE i < k
    <2>1. i \in 1 .. k - 1 /\ i \in 1 .. Len(s)
        BY <1>3, <1>4, <1>5
    <2>2. t[i] = s[i] /\ s[i] < t[i]
        BY <1>1, <1>2, <1>4, <2>1
    <2> QED BY <1>4, <2>1, <2>2
<1>6. CASE k < i
    <2>1. k \in 1 .. i - 1 /\ k \in 1 .. Len(t)
        BY <1>3, <1>4, <1>6
    <2>2. t[k] = s[k] /\ t[k] < s[k]
        BY <1>1, <1>2, <1>4, <2>1
    <2> QED BY <1>4, <2>1, <2>2
<1>7. CASE i = k
    BY <1>1, <1>2, <1>3, <1>4, <1>7
<1> QED BY <1>3, <1>5, <1>6, <1>7

\* The order is transitive.
LEMMA BeforeTransitive ==
    ASSUME NEW s \in Seq(Nat), NEW t \in Seq(Nat), NEW u \in Seq(Nat),
           Before(s, t), Before(t, u)
    PROVE  Before(s, u)
<1>1. PICK i \in DOMAIN t : /\ i <= Len(s) + 1
                            /\ \A j \in 1 .. i - 1 : s[j] = t[j]
                            /\ i <= Len(s) => s[i] < t[i]
    BY DEF Before
<1>2. PICK k \in DOMAIN u : /\ k <= Len(t) + 1
                            /\ \A j \in 1 .. k - 1 : t[j] = u[j]
                            /\ k <= Len(t) => t[k] < u[k]
    BY DEF Before
<1>3. i \in 1 .. Len(t) /\ k \in 1 .. Len(u) /\ DOMAIN u = 1 .. Len(u)
    OBVIOUS
<1>4. /\ \A j \in 1 .. Len(s) : s[j] \in Nat
      /\ \A j \in 1 .. Len(t) : t[j] \in Nat
      /\ \A j \in 1 .. Len(u) : u[j] \in Nat
      /\ Len(s) \in Nat /\ Len(t) \in Nat /\ Len(u) \in Nat
    OBVIOUS
<1>5. CASE i < k
    <2>1. i \in 1 .. k - 1 /\ i \in DOMAIN u
        BY <1>3, <1>4, <1>5
    <2>2. ASSUME NEW j \in 1 .. i - 1 PROVE s[j] = u[j]
        <3>1. j \in 1 .. k - 1
            BY <1>3, <1>4, <1>5
        <3> QED BY <1>1, <1>2, <3>1
    <2>3. i <= Len(s) => s[i] < u[i]
        BY <1>1, <1>2, <2>1
    <2> QED BY <1>1, <2>1, <2>2, <2>3 DEF Before
<1>6. CASE k < i
    <2>1. k \in 1 .. i - 1 /\ k <= Len(s) + 1 /\ k <= Len(t)
        BY <1>1, <1>3, <1>4, <1>6
    <2>2. ASSUME NEW j \in 1 .. k - 1 PROVE s[j] = u[j]
        <3>1. j \in 1 .. i - 1
            BY <1>3, <1>4, <1>6
        <3> QED BY <1>1, <1>2, <3>1
    <2>3. s[k] < u[k]
        BY <1>1, <1>2, <2>1
    <2> QED BY <2>1, <2>2, <2>3 DEF Before
<1>7. CASE i = k
    <2>1. /\ \A j \in 1 .. i - 1 : s[j] = u[j]
          /\ i <= Len(s) => s[i] < u[i]
        BY <1>1, <1>2, <1>3, <1>4, <1>7
    <2> QED BY <1>1, <1>3, <1>7, <2>1 DEF Before
<1> QED BY <1>3, <1>5, <1>6, <1>7

\* Of two different strings one is before the other.
LEMMA BeforeTotal ==
    ASSUME NEW s \in Seq(Nat), NEW t \in Seq(Nat), s # t
    PROVE  Before(s, t) \/ Before(t, s)
<1> DEFINE Parted == {i \in 1 .. Len(s) + Len(t) + 1 :
                        i > Len(s) \/ i > Len(t) \/ s[i] # t[i]}
<1>1. /\ DOMAIN s = 1 .. Len(s) /\ DOMAIN t = 1 .. Len(t)
      /\ \A j \in 1 .. Len(s) : s[j] \in Nat
      /\ \A j \in 1 .. Len(t) : t[j] \in Nat
      /\ Len(s) \in Nat /\ Len(t) \in Nat
    OBVIOUS
<1>2. Len(s) + Len(t) + 1 \in Parted
    BY <1>1
<1>3. Parted \subseteq Nat
    BY <1>1
<1>4. PICK m \in Parted : \A k \in Parted : m <= k
    BY <1>2, <1>3, LeastElement
<1>5. /\ m \in 1 .. Len(s) + Len(t) + 1
      /\ m > Len(s) \/ m > Len(t) \/ s[m] # t[m]
    OBVIOUS
<1>6. ASSUME NEW j \in 1 .. m - 1 PROVE j <= Len(s) /\ j <= Len(t) /\ s[j] = t[j]
    <2>1. j \in 1 .. Len(s) + Len(t) + 1 /\ ~(m <= j)
        BY <1>1, <1>5
    <2>2. j \notin Parted
        BY <1>4, <2>1
    <2> QED BY <1>1, <2>1, <2>2
<1> HIDE DEF Parted
<1>7. m <= Len(s) + 1 /\ m <= Len(t) + 1
    <2>1. CASE m = 1
        BY <1>1, <2>1
    <2>2. CASE m > 1
        <3>1. m \in Nat /\ m - 1 \in 1 .. m - 1
            BY <1>1, <1>5, <2>2
        <3>2. m - 1 <= Len(s) /\ m - 1 <= Len(t)
            BY <1>6, <3>1
        <3> QED BY <1>1, <3>1, <3>2
    <2> QED BY <1>1, <1>5, <2>1, <2>2
<1>8. \A j \in 1 .. m - 1 : s[j] = t[j]
    BY <1>6
<1>9. CASE m <= Len(s) /\ m <= Len(t)
    <2>1. s[m] < t[m] \/ t[m] < s[m]
        BY <1>1, <1>5, <1>9
    <2>2. m \in DOMAIN s /\ m \in DOMAIN t /\ \A j \in 1 .. m - 1 : t[j] = s[j]
        BY <1>1, <1>5, <1>8, <1>9
    <2>3. CASE s[m] < t[m]
        BY <1>7, <1>8, <2>2, <2>3 DEF Before
    <2>4. CASE t[m] < s[m]
        BY <1>7, <2>2, <2>4 DEF Before
    <2> QED BY <2>1, <2>3, <2>4
<1>10. CASE m > Len(s) /\ m <= Len(t)
    BY <1>1, <1>5, <1>7, <1>8, <1>10 DEF Before
<1>11. CASE m <= Len(s) /\ m > Len(t)
    BY <1>1, <1>5, <1>7, <1>8, <1>11 DEF Before
<1>12. CASE m > Len(s) /\ m > Len(t)
    <2>1. Len(s) = m - 1 /\ Len(t) = m - 1
        BY <1>1, <1>5, <1>7, <1>12
    <2>2. s = t
        BY <1>1, <1>8, <2>1
    <2> QED BY <2>2
<1> QED BY <1>1, <1>5, <1>9, <1>10, <1>11, <1>12

\* The data of a ConfigMap: finitely many keys, all of them strings.
LEMMA MapFacts ==
    ASSUME NEW map \in Maps
    PROVE  /\ IsFiniteSet(DOMAIN map) /\ Cardinality(DOMAIN map) \in Nat
           /\ DOMAIN map \subseteq Names /\ DOMAIN map \subseteq Seq(Nat)
           /\ \A key \in DOMAIN map : map[key] \in Contents /\ map[key] \in Seq(Nat)
           /\ map = [key \in DOMAIN map |-> map[key]]
<1>1. PICK S \in SUBSET Names : IsFiniteSet(S) /\ map \in [S -> Contents]
    BY DEF Maps
<1> QED BY <1>1, FS_CardinalityType, NamesAssumption, ContentsAssumption

\* A key has fewer keys before it than there are.
LEMMA RankRange ==
    ASSUME NEW map \in Maps, NEW key \in DOMAIN map
    PROVE  Rank(map, key) \in 0 .. Cardinality(DOMAIN map) - 1
<1> DEFINE Lower == {k \in DOMAIN map : Before(k, key)}
<1>1. key \notin Lower
    BY MapFacts, BeforeAsymmetric
<1>2. /\ IsFiniteSet(Lower)
      /\ Cardinality(Lower) <= Cardinality(DOMAIN map)
      /\ Cardinality(DOMAIN map) = Cardinality(Lower) => DOMAIN map = Lower
    <2>1. Lower \in SUBSET DOMAIN map
        OBVIOUS
    <2> HIDE DEF Lower
    <2> QED BY <2>1, MapFacts, FS_Subset
<1>3. Cardinality(Lower) \in Nat
    BY <1>2, FS_CardinalityType
<1>4. Cardinality(Lower) # Cardinality(DOMAIN map)
    BY <1>1, <1>2
<1>5. Cardinality(Lower) \in 0 .. Cardinality(DOMAIN map) - 1
    <2> HIDE DEF Lower
    <2> QED BY <1>2, <1>3, <1>4, MapFacts
<1> QED BY <1>5 DEF Rank

\* A key has more keys before it than those before it have.
LEMMA RankGrows ==
    ASSUME NEW map \in Maps, NEW low \in DOMAIN map, NEW high \in DOMAIN map, Before(low, high)
    PROVE  Rank(map, low) < Rank(map, high)
<1> DEFINE Lower(key) == {k \in DOMAIN map : Before(k, key)}
<1>1. Lower(low) \in SUBSET Lower(high)
    BY MapFacts, BeforeTransitive
<1>2. low \in Lower(high) /\ low \notin Lower(low)
    BY MapFacts, BeforeAsymmetric
<1>3. IsFiniteSet(Lower(high))
    <2>1. Lower(high) \in SUBSET DOMAIN map
        OBVIOUS
    <2> HIDE DEF Lower
    <2> QED BY <2>1, MapFacts, FS_Subset
<1>4. Rank(map, low) = Cardinality(Lower(low)) /\ Rank(map, high) = Cardinality(Lower(high))
    BY DEF Rank
<1> HIDE DEF Lower
<1>5. /\ Cardinality(Lower(low)) <= Cardinality(Lower(high))
      /\ Cardinality(Lower(high)) # Cardinality(Lower(low))
    BY <1>1, <1>2, <1>3, FS_Subset
<1> QED BY <1>4, <1>5, RankRange

\* Every key has its own place, and every place its key.
LEMMA KeyAtFacts ==
    ASSUME NEW map \in Maps
    PROVE  /\ \A i \in 1 .. Cardinality(DOMAIN map) :
                KeyAt(map, i) \in DOMAIN map /\ Rank(map, KeyAt(map, i)) = i - 1
           /\ \A key \in DOMAIN map : key = KeyAt(map, Rank(map, key) + 1)
<1> DEFINE n == Cardinality(DOMAIN map)
           rank == [key \in DOMAIN map |-> Rank(map, key)]
<1>1. \A k1, k2 \in DOMAIN map : Rank(map, k1) = Rank(map, k2) => k1 = k2
    <2> SUFFICES ASSUME NEW k1 \in DOMAIN map, NEW k2 \in DOMAIN map, k1 # k2
                 PROVE  Rank(map, k1) # Rank(map, k2)
        OBVIOUS
    <2>1. Before(k1, k2) \/ Before(k2, k1)
        BY MapFacts, BeforeTotal
    <2>2. Rank(map, k1) < Rank(map, k2) \/ Rank(map, k2) < Rank(map, k1)
        BY <2>1, RankGrows
    <2>3. Rank(map, k1) \in Nat /\ Rank(map, k2) \in Nat
        BY RankRange, MapFacts
    <2> QED BY <2>2, <2>3
<1>2. rank \in Injection(DOMAIN map, 0 .. n - 1)
    BY <1>1, RankRange DEF Injection, IsInjective
<1>3. n \in Nat /\ IsFiniteSet(0 .. n - 1) /\ Cardinality(0 .. n - 1) = n
    <2>1. n \in Nat
        BY MapFacts
    <2> HIDE DEF n
    <2>2. 0 \in Int /\ n - 1 \in Int
        BY <2>1
    <2> QED BY <2>1, <2>2, FS_Interval
<1>4. rank \in Surjection(DOMAIN map, 0 .. n - 1)
    <2> HIDE DEF rank
    <2> QED BY <1>2, <1>3, FS_Injection
<1>5. ASSUME NEW i \in 1 .. n
      PROVE  KeyAt(map, i) \in DOMAIN map /\ Rank(map, KeyAt(map, i)) = i - 1
    <2>1. i - 1 \in 0 .. n - 1
        BY <1>3
    <2>2. \E key \in DOMAIN map : Rank(map, key) = i - 1
        BY <1>4, <2>1 DEF Surjection
    <2> QED BY <2>2 DEF KeyAt
<1>6. ASSUME NEW key \in DOMAIN map PROVE key = KeyAt(map, Rank(map, key) + 1)
    <2> DEFINE i == Rank(map, key) + 1
    <2>1. i \in 1 .. n /\ i - 1 = Rank(map, key)
        BY <1>3, RankRange
    <2> SUFFICES key = KeyAt(map, i)
        OBVIOUS
    <2> HIDE DEF i
    <2>2. KeyAt(map, i) \in DOMAIN map /\ Rank(map, KeyAt(map, i)) = i - 1
        BY <1>5, <2>1
    <2> QED BY <1>1, <2>1, <2>2
<1> QED BY <1>5, <1>6

\* Sorting the keys puts each of them at its place.
LEMMA SortedKeys ==
    ASSUME NEW map \in Maps, NEW n \in Nat, NEW s \in Bijection(1 .. n, DOMAIN map),
           \A i, j \in 1 .. n : i < j => ~Before(s[j], s[i])
    PROVE  n = Cardinality(DOMAIN map) /\ \A i \in 1 .. n : s[i] = KeyAt(map, i)
<1>1. /\ s \in [1 .. n -> DOMAIN map]
      /\ \A i, j \in 1 .. n : s[i] = s[j] => i = j
      /\ \A key \in DOMAIN map : \E i \in 1 .. n : s[i] = key
    BY DEF Bijection, Injection, Surjection, IsInjective
<1>2. n = Cardinality(DOMAIN map)
    BY FS_CountingElements DEF ExistsBijection
<1>3. ASSUME NEW i \in 1 .. n PROVE s[i] = KeyAt(map, i)
    <2> DEFINE lower == [j \in 1 .. i - 1 |-> s[j]]
               Lower == {k \in DOMAIN map : Before(k, s[i])}
    <2>1. ASSUME NEW j \in 1 .. n PROVE Before(s[j], s[i]) <=> j < i
        <3>1. s[i] \in Seq(Nat) /\ s[j] \in Seq(Nat)
            BY <1>1, MapFacts
        <3>2. CASE j < i
            <4>1. s[i] # s[j] /\ ~Before(s[i], s[j])
                BY <1>1, <3>2
            <4> QED BY <3>1, <3>2, <4>1, BeforeTotal
        <3>3. CASE j = i
            BY <3>1, <3>3, BeforeAsymmetric
        <3>4. CASE j > i
            BY <3>4
        <3> QED BY <3>2, <3>3, <3>4
    <2>2. lower \in [1 .. i - 1 -> Lower]
        BY <1>1, <2>1
    <2>3. IsInjective(lower)
        BY <1>1 DEF IsInjective
    <2>4. \A key \in Lower : \E j \in 1 .. i - 1 : lower[j] = key
        BY <1>1, <2>1
    <2>5. ExistsBijection(1 .. i - 1, Lower)
        <3> HIDE DEF lower, Lower
        <3> QED BY <2>2, <2>3, <2>4 DEF ExistsBijection, Bijection, Injection, Surjection
    <2>6. Cardinality(Lower) = i - 1
        <3> HIDE DEF Lower
        <3>1. IsFiniteSet(1 .. i - 1) /\ Cardinality(1 .. i - 1) = i - 1
            BY FS_Interval
        <3> QED BY <2>5, <3>1, FS_Bijection
    <2>7. Rank(map, s[i]) = i - 1 /\ i - 1 + 1 = i /\ s[i] \in DOMAIN map
        BY <1>1, <2>6 DEF Rank
    <2> QED BY <2>7, KeyAtFacts
<1> QED BY <1>2, <1>3

-----------------------------------------------------------------------------
(* The text                                                                *)

\* The recursive definition of the prefixes has a solution.
LEMMA PrefixesExist ==
    ASSUME NEW map, NEW n \in Nat
    PROVE  \E f : f = [i \in 0 .. n |-> IF i = 0 THEN <<>>
                                        ELSE f[i - 1] \o Entry(map, KeyAt(map, i))]
<1> DEFINE Solves(f, m) == f = [i \in 0 .. m |-> IF i = 0 THEN <<>>
                                                 ELSE f[i - 1] \o Entry(map, KeyAt(map, i))]
           Bad == {m \in Nat : ~\E f : Solves(f, m)}
<1> SUFFICES ASSUME Bad # {} PROVE FALSE
    OBVIOUS
<1>1. PICK m \in Bad : \A k \in Bad : m <= k
    <2>1. Bad \subseteq Nat
        OBVIOUS
    <2> HIDE DEF Bad
    <2> QED BY <2>1, LeastElement
<1>2. m \in Nat /\ ~\E f : Solves(f, m)
    OBVIOUS
<1>3. m # 0
    <2>1. Solves([i \in 0 .. 0 |-> <<>>], 0)
        OBVIOUS
    <2> QED BY <1>2, <2>1
<1>4. m - 1 \in Nat /\ m - 1 \notin Bad
    <2> HIDE DEF Bad
    <2> QED BY <1>1, <1>2, <1>3
<1>5. PICK g : Solves(g, m - 1)
    BY <1>4
<1> DEFINE h == [i \in 0 .. m |-> IF i = m THEN g[m - 1] \o Entry(map, KeyAt(map, m)) ELSE g[i]]
<1>6. ASSUME NEW i \in 0 .. m
      PROVE  h[i] = IF i = 0 THEN <<>> ELSE h[i - 1] \o Entry(map, KeyAt(map, i))
    <2>1. CASE i = m
        <3>1. h[m - 1] = g[m - 1] /\ h[m] = g[m - 1] \o Entry(map, KeyAt(map, m))
            BY <1>2, <1>3
        <3> QED BY <1>3, <2>1, <3>1
    <2>2. CASE i # m
        <3>1. i \in 0 .. m - 1 /\ h[i] = g[i]
            BY <1>2, <2>2
        <3>2. i # 0 => h[i - 1] = g[i - 1]
            BY <1>2, <2>2
        <3>3. g[i] = IF i = 0 THEN <<>> ELSE g[i - 1] \o Entry(map, KeyAt(map, i))
            BY <1>5, <3>1
        <3> QED BY <3>1, <3>2, <3>3
    <2> QED BY <2>1, <2>2
<1>7. h = [i \in 0 .. m |-> h[i]]
    OBVIOUS
<1> HIDE DEF h
<1>8. Solves(h, m)
    BY <1>6, <1>7
<1> QED BY <1>2, <1>8

\* The prefixes one by one.
LEMMA PrefixSteps ==
    ASSUME NEW map \in Maps
    PROVE  /\ Prefixes(map)[0] = <<>>
           /\ \A i \in 1 .. Cardinality(DOMAIN map) :
                Prefixes(map)[i] = Prefixes(map)[i - 1] \o Entry(map, KeyAt(map, i))
<1> DEFINE n == Cardinality(DOMAIN map)
<1>1. n \in Nat
    BY MapFacts
<1>2. Prefixes(map) = [i \in 0 .. n |-> IF i = 0 THEN <<>>
                                        ELSE Prefixes(map)[i - 1] \o Entry(map, KeyAt(map, i))]
    BY <1>1, PrefixesExist DEF Prefixes
<1> HIDE DEF n
<1>3. Prefixes(map)[0] = <<>>
    BY <1>1, <1>2
<1>4. ASSUME NEW i \in 1 .. n
      PROVE  Prefixes(map)[i] = Prefixes(map)[i - 1] \o Entry(map, KeyAt(map, i))
    <2>1. i \in 0 .. n /\ i # 0
        BY <1>1
    <2> QED BY <1>2, <2>1
<1> QED BY <1>3, <1>4 DEF n

-----------------------------------------------------------------------------
(* The algorithm                                                           *)

\* Until they are sorted, the keys are those visited, each of them once.
\* Afterwards they are the last ones of the order, and the text has the others.
Progress ==
    /\ pc = "collect" =>
            /\ keys \in Bijection(1 .. Len(keys), DOMAIN data \ rest)
            /\ text = <<>>
    /\ pc # "collect" =>
            \E i \in 0 .. Cardinality(DOMAIN data) :
                /\ Len(keys) = Cardinality(DOMAIN data) - i
                /\ \A j \in 1 .. Len(keys) : keys[j] = KeyAt(data, i + j)
                /\ text = Prefixes(data)[i]
    /\ pc = "done" => keys = <<>>

\* The types of the local variables of HashData.
TypeOK ==
    /\ data \in Maps
    /\ rest \subseteq DOMAIN data
    /\ keys \in Seq(DOMAIN data)
    /\ text \in Seq(Nat)
    /\ pc \in {"collect", "write", "done"}

HashInv == TypeOK /\ Progress

\* The first state has collected nothing, or has nothing to collect.
LEMMA HashInit == Init => HashInv
<1> SUFFICES ASSUME Init PROVE HashInv
    OBVIOUS
<1>1. TypeOK
    BY DEF Init, TypeOK
<1>2. CASE DOMAIN data = {}
    <2>1. Cardinality(DOMAIN data) = 0
        BY <1>2, FS_EmptySet
    <2>2. pc = "done" /\ keys = <<>> /\ text = Prefixes(data)[0]
        BY <1>2, PrefixSteps DEF Init
    <2> QED BY <1>1, <2>1, <2>2 DEF HashInv, Progress
<1>3. CASE DOMAIN data # {}
    <2>1. <<>> \in Bijection(1 .. Len(<<>>), {})
        BY DEF Bijection, Injection, Surjection, IsInjective
    <2> QED BY <1>1, <1>3, <2>1 DEF Init, HashInv, Progress
<1> QED BY <1>2, <1>3

\* A visited key goes behind the others.
LEMMA CollectStep ==
    ASSUME HashInv, NEW key \in Names, Collect(key) PROVE HashInv'
<1> DEFINE n == Len(keys)
<1>1. /\ key \in DOMAIN data /\ key \in rest /\ rest \subseteq DOMAIN data
      /\ keys \in Seq(DOMAIN data) /\ keys' = Append(keys, key) /\ rest' = rest \ {key}
      /\ pc = "collect" /\ pc' = "collect" /\ data' = data /\ text' = text /\ text = <<>>
      /\ keys \in Bijection(1 .. n, DOMAIN data \ rest)
    BY DEF HashInv, TypeOK, Progress, Collect
<1>2. TypeOK'
    BY <1>1 DEF HashInv, TypeOK
<1>3. /\ n \in Nat /\ Len(keys') = n + 1 /\ keys' \in Seq(DOMAIN data)
      /\ \A i \in 1 .. n : keys'[i] = keys[i]
      /\ keys'[n + 1] = key
    BY <1>1
<1>4. /\ \A i \in 1 .. n : keys[i] \in DOMAIN data \ rest
      /\ \A i, j \in 1 .. n : keys[i] = keys[j] => i = j
      /\ \A k \in DOMAIN data \ rest : \E i \in 1 .. n : keys[i] = k
    BY <1>1 DEF Bijection, Injection, Surjection, IsInjective
<1> HIDE DEF n
<1>5. \A i \in 1 .. n + 1 : i \in 1 .. n \/ i = n + 1
    BY <1>3
<1>6. \A i \in 1 .. n + 1 : keys'[i] \in DOMAIN data \ rest'
    BY <1>1, <1>3, <1>4, <1>5
<1>7. \A i, j \in 1 .. n + 1 : keys'[i] = keys'[j] => i = j
    BY <1>1, <1>3, <1>4, <1>5
<1>8. \A k \in DOMAIN data \ rest' : \E i \in 1 .. n + 1 : keys'[i] = k
    BY <1>1, <1>3, <1>4
<1>9. keys' \in [1 .. n + 1 -> DOMAIN data \ rest']
    BY <1>3, <1>6
<1>10. keys' \in Bijection(1 .. n + 1, DOMAIN data \ rest')
    BY <1>7, <1>8, <1>9 DEF Bijection, Injection, Surjection, IsInjective
<1> QED BY <1>1, <1>2, <1>3, <1>10 DEF HashInv, Progress

\* Sorting puts every key at its place.
LEMMA SortStep ==
    ASSUME HashInv, Sort PROVE HashInv'
<1> DEFINE n == Len(keys)
<1>1. /\ data \in Maps /\ rest = {} /\ keys \in Seq(DOMAIN data) /\ n \in Nat
      /\ DOMAIN keys = 1 .. n
      /\ pc' = "write" /\ data' = data /\ rest' = rest /\ text' = text /\ text = <<>>
      /\ keys \in Bijection(1 .. n, DOMAIN data)
    BY DEF HashInv, TypeOK, Progress, Sort
<1>2. PICK place \in Bijection(1 .. n, 1 .. n) : keys' = [i \in 1 .. n |-> keys[place[i]]]
    BY <1>1 DEF Sort
<1>3. \A i, j \in 1 .. n : i < j => ~Before(keys'[j], keys'[i])
    BY <1>1 DEF Sort
<1> HIDE DEF n
<1>4. keys' \in Bijection(1 .. n, DOMAIN data)
    <2>1. /\ place \in [1 .. n -> 1 .. n]
          /\ \A i, j \in 1 .. n : place[i] = place[j] => i = j
          /\ \A k \in 1 .. n : \E i \in 1 .. n : place[i] = k
        BY <1>2 DEF Bijection, Injection, Surjection, IsInjective
    <2>2. /\ keys \in [1 .. n -> DOMAIN data]
          /\ \A i, j \in 1 .. n : keys[i] = keys[j] => i = j
          /\ \A k \in DOMAIN data : \E i \in 1 .. n : keys[i] = k
        BY <1>1 DEF Bijection, Injection, Surjection, IsInjective
    <2>3. keys' \in [1 .. n -> DOMAIN data]
        BY <1>2, <2>1, <2>2
    <2>4. \A i, j \in 1 .. n : keys'[i] = keys'[j] => i = j
        BY <1>2, <2>1, <2>2
    <2>5. \A k \in DOMAIN data : \E i \in 1 .. n : keys'[i] = k
        BY <1>2, <2>1, <2>2
    <2> QED BY <2>3, <2>4, <2>5 DEF Bijection, Injection, Surjection, IsInjective
<1>5. n = Cardinality(DOMAIN data) /\ \A i \in 1 .. n : keys'[i] = KeyAt(data, i)
    BY <1>1, <1>3, <1>4, SortedKeys
<1>6. keys' \in Seq(DOMAIN data) /\ Len(keys') = n
    <2>1. keys' \in [1 .. n -> DOMAIN data]
        BY <1>4 DEF Bijection, Injection
    <2> QED BY <1>1, <2>1
<1>7. TypeOK'
    BY <1>1, <1>6 DEF HashInv, TypeOK
<1>8. /\ 0 \in 0 .. Cardinality(DOMAIN data)
      /\ Len(keys') = Cardinality(DOMAIN data) - 0
      /\ \A j \in 1 .. Len(keys') : keys'[j] = KeyAt(data, 0 + j)
      /\ text' = Prefixes(data)[0]
    BY <1>1, <1>5, <1>6, PrefixSteps
<1>9. Progress'
    BY <1>1, <1>8 DEF Progress
<1> QED BY <1>7, <1>9 DEF HashInv

\* Writing moves the first of the remaining keys into the text.
LEMMA WriteStep ==
    ASSUME HashInv, Write PROVE HashInv'
<1> DEFINE n == Cardinality(DOMAIN data)
<1>1. /\ data \in Maps /\ keys \in Seq(DOMAIN data) /\ text \in Seq(Nat) /\ keys # <<>>
      /\ pc = "write" /\ pc' = "write" /\ data' = data /\ rest' = rest
      /\ keys' = Tail(keys) /\ text' = text \o Entry(data, Head(keys))
    BY DEF HashInv, TypeOK, Write, Line, Entry
<1>2. /\ Head(keys) \in DOMAIN data /\ Head(keys) = keys[1] /\ Len(keys) \in Nat /\ Len(keys) > 0
      /\ keys' \in Seq(DOMAIN data) /\ Len(keys') = Len(keys) - 1
      /\ \A j \in 1 .. Len(keys') : keys'[j] = keys[j + 1]
    BY <1>1
<1>3. PICK i \in 0 .. n : /\ Len(keys) = n - i
                          /\ \A j \in 1 .. Len(keys) : keys[j] = KeyAt(data, i + j)
                          /\ text = Prefixes(data)[i]
    BY <1>1 DEF HashInv, Progress
<1>4. n \in Nat
    BY <1>1, MapFacts
<1>5. text' \in Seq(Nat)
    <2>1. Head(keys) \in Seq(Nat) /\ data[Head(keys)] \in Seq(Nat)
        BY <1>1, <1>2, MapFacts
    <2>2. Entry(data, Head(keys)) \in Seq(Nat)
        BY <2>1 DEF Entry, NUL, LF
    <2> QED BY <1>1, <2>2
<1>6. TypeOK'
    BY <1>1, <1>2, <1>5 DEF HashInv, TypeOK
<1>7. i + 1 \in 0 .. n /\ i + 1 \in 1 .. n /\ Len(keys') = n - (i + 1)
    <2> HIDE DEF n
    <2> QED BY <1>2, <1>3, <1>4
<1>8. \A j \in 1 .. Len(keys') : keys'[j] = KeyAt(data, i + 1 + j)
    <2> SUFFICES ASSUME NEW j \in 1 .. Len(keys') PROVE keys'[j] = KeyAt(data, i + 1 + j)
        OBVIOUS
    <2>1. j + 1 \in 1 .. Len(keys) /\ i + (j + 1) = i + 1 + j
        BY <1>2
    <2> QED BY <1>2, <1>3, <2>1
<1>9. text' = Prefixes(data)[i + 1]
    <2>1. 1 \in 1 .. Len(keys) /\ i + 1 - 1 = i
        BY <1>2
    <2>2. Head(keys) = KeyAt(data, i + 1)
        BY <1>2, <1>3, <2>1
    <2>3. \A k \in 1 .. n : Prefixes(data)[k] = Prefixes(data)[k - 1] \o Entry(data, KeyAt(data, k))
        BY <1>1, PrefixSteps
    <2> QED BY <1>1, <1>3, <1>7, <2>1, <2>2, <2>3
<1>10. Progress'
    BY <1>1, <1>7, <1>8, <1>9 DEF Progress
<1> QED BY <1>6, <1>10 DEF HashInv

\* The invariant holds throughout.
LEMMA HashStep == HashInv /\ [Next]_vars => HashInv'
<1> SUFFICES ASSUME HashInv, [Next]_vars PROVE HashInv'
    OBVIOUS
<1>1. ASSUME NEW key \in Names, Collect(key) PROVE HashInv'
    BY <1>1, CollectStep
<1>2. CASE Sort
    BY <1>2, SortStep
<1>3. CASE Write
    BY <1>3, WriteStep
<1>4. CASE Return
    BY <1>4 DEF Return, HashInv, TypeOK, Progress
<1>5. CASE UNCHANGED vars
    BY <1>5 DEF vars, HashInv, TypeOK, Progress
<1> QED BY <1>1, <1>2, <1>3, <1>4, <1>5 DEF Next

\* What the invariant says at the end.
LEMMA StableAtEnd == HashInv => Stable
<1> SUFFICES ASSUME HashInv, pc = "done" PROVE text = Serialised(data)
    BY DEF Stable
<1>1. PICK i \in 0 .. Cardinality(DOMAIN data) :
            Len(keys) = Cardinality(DOMAIN data) - i /\ text = Prefixes(data)[i]
    BY DEF HashInv, Progress
<1>2. Len(keys) = 0 /\ Cardinality(DOMAIN data) \in Nat
    BY MapFacts DEF HashInv, TypeOK, Progress
<1>3. i = Cardinality(DOMAIN data)
    BY <1>1, <1>2
<1> QED BY <1>1, <1>3 DEF Serialised

\* In whatever order Go ranges over the map, HashData digests the same text:
\* all entries in the order of their keys.
THEOREM HashStable == Spec => []Stable
BY HashInit, HashStep, StableAtEnd, PTL DEF Spec

-----------------------------------------------------------------------------
(* Reading the text back                                                   *)

\* A text has an entry between two places, with this key and this value.
EntryAt(t, start, end, key, value) ==
    /\ start \in Nat /\ end \in Nat /\ end <= Len(t)
    /\ key \in Seq(Nat) /\ \A j \in 1 .. Len(key) : key[j] > LF
    /\ value \in Seq(Nat) /\ \A j \in 1 .. Len(value) : value[j] # NUL
    /\ end = start + Len(key) + 1 + Len(value) + 1
    /\ \A j \in 1 .. Len(key) : t[start + j] = key[j]
    /\ t[start + Len(key) + 1] = NUL
    /\ \A j \in 1 .. Len(value) : t[start + Len(key) + 1 + j] = value[j]
    /\ t[end] = LF

\* It reads as n entries that end at the given places, with these keys and values.
Reads(t, n, end, K, V) ==
    /\ end[0] = 0 /\ end[n] = Len(t)
    /\ \A i \in 1 .. n : EntryAt(t, end[i - 1], end[i], K[i], V[i])

LEMMA EntryTypes ==
    ASSUME NEW t \in Seq(Nat), NEW start, NEW end, NEW key, NEW value,
           EntryAt(t, start, end, key, value)
    PROVE  /\ start \in Nat /\ end \in Nat /\ end <= Len(t) /\ Len(t) \in Nat
           /\ Len(key) \in Nat /\ Len(value) \in Nat
           /\ end = start + Len(key) + 1 + Len(value) + 1
           /\ t[end] = LF
<1>1. key \in Seq(Nat) /\ value \in Seq(Nat)
    BY DEF EntryAt
<1>2. Len(t) \in Nat /\ Len(key) \in Nat /\ Len(value) \in Nat
    BY <1>1
<1> QED BY <1>2 DEF EntryAt

\* Of two readings of an entry neither has the shorter key: NUL ends it.
LEMMA KeyNotShorter ==
    ASSUME NEW t \in Seq(Nat), NEW start, NEW e1, NEW k1, NEW v1, NEW e2, NEW k2, NEW v2,
           EntryAt(t, start, e1, k1, v1), EntryAt(t, start, e2, k2, v2)
    PROVE  ~(Len(k1) < Len(k2))
<1> SUFFICES ASSUME Len(k1) < Len(k2) PROVE FALSE
    OBVIOUS
<1> DEFINE j == Len(k1) + 1
<1>1. start \in Nat /\ Len(k1) \in Nat /\ Len(k2) \in Nat
    BY EntryTypes
<1>2. j \in 1 .. Len(k2) /\ start + j = start + Len(k1) + 1
    BY <1>1
<1>3. t[start + Len(k1) + 1] = NUL
    BY DEF EntryAt
<1> HIDE DEF j
<1>4. t[start + j] > LF
    BY <1>2 DEF EntryAt
<1> QED BY <1>2, <1>3, <1>4 DEF NUL, LF

\* Nor the shorter value: the next NUL comes after the line feed that ends the
\* value, and no line feed stands between them.
LEMMA ValueNotShorter ==
    ASSUME NEW t \in Seq(Nat), NEW start, NEW e1, NEW k1, NEW v1, NEW e2, NEW k2, NEW v2,
           EntryAt(t, start, e1, k1, v1), EntryAt(t, start, e2, k2, v2), Len(k1) = Len(k2),
           e1 # Len(t) => \E e3, k3, v3 : EntryAt(t, e1, e3, k3, v3)
    PROVE  ~(Len(v1) < Len(v2))
<1> SUFFICES ASSUME Len(v1) < Len(v2) PROVE FALSE
    OBVIOUS
<1>1. /\ start \in Nat /\ Len(k2) \in Nat /\ Len(v1) \in Nat /\ Len(v2) \in Nat /\ Len(t) \in Nat
      /\ e1 \in Nat /\ e2 \in Nat /\ e2 <= Len(t)
      /\ e1 = start + Len(k2) + 1 + Len(v1) + 1
      /\ e2 = start + Len(k2) + 1 + Len(v2) + 1
      /\ t[e2] = LF
    BY EntryTypes
<1>2. PICK e3, k3, v3 : EntryAt(t, e1, e3, k3, v3)
    <2>1. e1 # Len(t)
        BY <1>1
    <2> QED BY <2>1
<1> DEFINE nul == e1 + Len(k3) + 1
<1>3. Len(k3) \in Nat /\ t[nul] = NUL
    BY <1>2 DEF EntryAt
<1>4. CASE nul < e2
    <2> DEFINE j == nul - (start + Len(k2) + 1)
    <2>1. j \in 1 .. Len(v2) /\ start + Len(k2) + 1 + j = nul
        BY <1>1, <1>3, <1>4
    <2> HIDE DEF j, nul
    <2>2. t[start + Len(k2) + 1 + j] # NUL
        BY <2>1 DEF EntryAt
    <2> QED BY <1>3, <2>1, <2>2
<1>5. CASE nul = e2
    BY <1>1, <1>3, <1>5 DEF NUL, LF
<1>6. CASE nul > e2
    <2> DEFINE j == e2 - e1
    <2>1. j \in 1 .. Len(k3) /\ e1 + j = e2
        BY <1>1, <1>3, <1>6
    <2> HIDE DEF j, nul
    <2>2. t[e1 + j] > LF
        BY <1>2, <2>1 DEF EntryAt
    <2> QED BY <1>1, <2>1, <2>2 DEF LF
<1> QED BY <1>1, <1>3, <1>4, <1>5, <1>6

\* So an entry can be read in one way only.
LEMMA SameEntry ==
    ASSUME NEW t \in Seq(Nat), NEW start, NEW e1, NEW k1, NEW v1, NEW e2, NEW k2, NEW v2,
           EntryAt(t, start, e1, k1, v1), EntryAt(t, start, e2, k2, v2),
           e1 # Len(t) => \E e3, k3, v3 : EntryAt(t, e1, e3, k3, v3),
           e2 # Len(t) => \E e3, k3, v3 : EntryAt(t, e2, e3, k3, v3)
    PROVE  e1 = e2 /\ k1 = k2 /\ v1 = v2
<1>1. ~(Len(k1) < Len(k2)) /\ ~(Len(k2) < Len(k1))
    BY KeyNotShorter
<1>2. /\ start \in Nat /\ Len(k1) \in Nat /\ Len(v1) \in Nat /\ Len(k2) \in Nat /\ Len(v2) \in Nat
      /\ e1 = start + Len(k1) + 1 + Len(v1) + 1
      /\ e2 = start + Len(k2) + 1 + Len(v2) + 1
    BY EntryTypes
<1>3. Len(k1) = Len(k2)
    BY <1>1, <1>2
<1>4. ~(Len(v1) < Len(v2)) /\ ~(Len(v2) < Len(v1))
    BY <1>3, ValueNotShorter
<1>5. Len(v1) = Len(v2)
    BY <1>2, <1>4
<1>6. k1 \in Seq(Nat) /\ k2 \in Seq(Nat) /\ v1 \in Seq(Nat) /\ v2 \in Seq(Nat)
    BY DEF EntryAt
<1>7. ASSUME NEW j \in 1 .. Len(k1) PROVE k1[j] = k2[j]
    BY <1>3 DEF EntryAt
<1>8. ASSUME NEW j \in 1 .. Len(v1) PROVE v1[j] = v2[j]
    BY <1>3, <1>5 DEF EntryAt
<1>9. k1 = k2
    BY <1>3, <1>6, <1>7, SameStrings
<1>10. v1 = v2
    BY <1>5, <1>6, <1>8, SameStrings
<1> QED BY <1>2, <1>9, <1>10

\* An entry that does not end the text is followed by another.
LEMMA NextEntry ==
    ASSUME NEW t \in Seq(Nat), NEW n \in Nat, NEW end, NEW K, NEW V, Reads(t, n, end, K, V),
           NEW i \in 1 .. n, end[i] # Len(t)
    PROVE  \E e, k, v : EntryAt(t, end[i], e, k, v)
<1>1. i # n
    BY DEF Reads
<1> DEFINE next == i + 1
<1>2. next \in 1 .. n /\ next - 1 = i
    BY <1>1
<1> HIDE DEF next
<1>3. EntryAt(t, end[next - 1], end[next], K[next], V[next])
    BY <1>2 DEF Reads
<1> QED BY <1>2, <1>3

\* Two readings of a text go through the same places.
LEMMA SamePlaces ==
    ASSUME NEW t \in Seq(Nat), NEW n \in Nat, NEW m \in Nat,
           NEW a, NEW K, NEW V, NEW b, NEW L, NEW W, Reads(t, n, a, K, V), Reads(t, m, b, L, W)
    PROVE  \A i \in 0 .. n : i <= m /\ a[i] = b[i]
<1> DEFINE Bad == {i \in 0 .. n : ~(i <= m /\ a[i] = b[i])}
<1> SUFFICES ASSUME Bad # {} PROVE FALSE
    OBVIOUS
<1>1. PICK i \in Bad : \A k \in Bad : i <= k
    <2>1. Bad \subseteq Nat
        OBVIOUS
    <2> HIDE DEF Bad
    <2> QED BY <2>1, LeastElement
<1>2. i \in 0 .. n /\ ~(i <= m /\ a[i] = b[i])
    OBVIOUS
<1>3. i # 0
    BY <1>2 DEF Reads
<1> DEFINE last == i - 1
<1>4. i \in 1 .. n /\ last \in 0 .. n /\ last < i
    BY <1>2, <1>3
<1>5. last \notin Bad
    <2> HIDE DEF Bad, last
    <2> QED BY <1>1, <1>2, <1>4
<1>6. last <= m /\ a[last] = b[last]
    BY <1>4, <1>5
<1>7. EntryAt(t, a[last], a[i], K[i], V[i])
    BY <1>4 DEF Reads
<1>8. i <= m
    <2> SUFFICES ASSUME last = m PROVE FALSE
        BY <1>4, <1>6
    <2>1. a[last] = Len(t)
        BY <1>6 DEF Reads
    <2> HIDE DEF last
    <2> QED BY <1>7, <2>1, EntryTypes
<1>9. i \in 1 .. m
    BY <1>4, <1>8
<1>10. EntryAt(t, a[last], b[i], L[i], W[i])
    <2>1. EntryAt(t, b[last], b[i], L[i], W[i])
        BY <1>9 DEF Reads
    <2> QED BY <1>6, <2>1
<1> HIDE DEF last, Bad
<1>11. a[i] # Len(t) => \E e, k, v : EntryAt(t, a[i], e, k, v)
    BY <1>4, NextEntry
<1>12. b[i] # Len(t) => \E e, k, v : EntryAt(t, b[i], e, k, v)
    BY <1>9, NextEntry
<1>13. a[i] = b[i]
    BY <1>7, <1>10, <1>11, <1>12, SameEntry
<1> QED BY <1>2, <1>8, <1>13

\* A text can be read in one way only.
LEMMA ReadOnce ==
    ASSUME NEW t \in Seq(Nat), NEW n \in Nat, NEW m \in Nat,
           NEW a, NEW K, NEW V, NEW b, NEW L, NEW W, Reads(t, n, a, K, V), Reads(t, m, b, L, W)
    PROVE  n = m /\ \A i \in 1 .. n : K[i] = L[i] /\ V[i] = W[i]
<1>1. \A i \in 0 .. n : i <= m /\ a[i] = b[i]
    BY SamePlaces
<1>2. \A i \in 0 .. m : i <= n
    BY SamePlaces
<1>3. n = m
    <2>1. n \in 0 .. n /\ m \in 0 .. m
        OBVIOUS
    <2> QED BY <1>1, <1>2, <2>1
<1>4. ASSUME NEW i \in 1 .. n PROVE K[i] = L[i] /\ V[i] = W[i]
    <2>1. i \in 0 .. n /\ i - 1 \in 0 .. n /\ i \in 1 .. m
        BY <1>3
    <2>2. a[i] = b[i] /\ a[i - 1] = b[i - 1]
        BY <1>1, <2>1
    <2>3. EntryAt(t, a[i - 1], a[i], K[i], V[i]) /\ EntryAt(t, a[i - 1], a[i], L[i], W[i])
        BY <2>1, <2>2 DEF Reads
    <2>4. a[i] # Len(t) => \E e, k, v : EntryAt(t, a[i], e, k, v)
        BY NextEntry
    <2> QED BY <2>3, <2>4, SameEntry
<1> QED BY <1>3, <1>4

\* What an entry is made of.
LEMMA EntryParts ==
    ASSUME NEW key \in Seq(Nat), NEW map, map[key] \in Seq(Nat)
    PROVE  LET e == Entry(map, key)
               k == Len(key)
               v == Len(map[key])
           IN  /\ e \in Seq(Nat) /\ Len(e) = k + 1 + v + 1
               /\ \A j \in 1 .. k : e[j] = key[j]
               /\ e[k + 1] = NUL
               /\ \A j \in 1 .. v : e[k + 1 + j] = map[key][j]
               /\ e[k + 1 + v + 1] = LF
<1> DEFINE value == map[key]
           e1 == key \o <<NUL>>
           e2 == e1 \o value
           e3 == e2 \o <<LF>>
<1>1. Len(key) \in Nat /\ Len(value) \in Nat
    OBVIOUS
<1>2. /\ e1 \in Seq(Nat) /\ Len(e1) = Len(key) + 1
      /\ \A j \in 1 .. Len(key) : e1[j] = key[j]
      /\ e1[Len(key) + 1] = NUL
    BY <1>1 DEF NUL
<1> HIDE DEF e1
<1>3. /\ e2 \in Seq(Nat) /\ Len(e2) = Len(key) + 1 + Len(value)
      /\ \A j \in 1 .. Len(key) + 1 : e2[j] = e1[j]
      /\ \A j \in 1 .. Len(value) : e2[Len(key) + 1 + j] = value[j]
    <2>1. value \in Seq(Nat)
        OBVIOUS
    <2> HIDE DEF value
    <2>2. e2 \in Seq(Nat) /\ Len(e2) = Len(e1) + Len(value)
        BY <1>2, <2>1, Concatenation
    <2>3. \A j \in 1 .. Len(e1) : e2[j] = e1[j]
        BY <1>2, <2>1, Concatenation
    <2>4. \A j \in 1 .. Len(value) : e2[Len(e1) + j] = value[j]
        BY <1>2, <2>1, Concatenation
    <2> HIDE DEF e2
    <2> QED BY <1>2, <2>2, <2>3, <2>4
<1> HIDE DEF e2
<1>4. /\ e3 \in Seq(Nat) /\ Len(e3) = Len(key) + 1 + Len(value) + 1
      /\ \A j \in 1 .. Len(key) + 1 + Len(value) : e3[j] = e2[j]
      /\ e3[Len(key) + 1 + Len(value) + 1] = LF
    <2>1. <<LF>> \in Seq(Nat) /\ Len(<<LF>>) = 1 /\ <<LF>>[1] = LF /\ 1 \in 1 .. 1
        BY DEF LF
    <2>2. \A j \in 1 .. Len(e2) : e3[j] = e2[j]
        BY <1>3, <2>1, Concatenation
    <2>3. e3[Len(e2) + 1] = LF
        BY <1>3, <2>1, Concatenation
    <2>4. e3 \in Seq(Nat) /\ Len(e3) = Len(e2) + 1
        BY <1>3, <2>1, Concatenation
    <2> HIDE DEF e3, value
    <2> QED BY <1>3, <2>2, <2>3, <2>4
<1>5. Entry(map, key) = e3
    BY DEF Entry, e1, e2
<1> HIDE DEF e3, value
<1>6. ASSUME NEW j \in 1 .. Len(key) PROVE e3[j] = key[j]
    <2>1. j \in 1 .. Len(key) + 1 + Len(value) /\ j \in 1 .. Len(key) + 1
        BY <1>1
    <2> QED BY <1>2, <1>3, <1>4, <2>1
<1>7. e3[Len(key) + 1] = NUL
    <2>1. Len(key) + 1 \in 1 .. Len(key) + 1 + Len(value) /\ Len(key) + 1 \in 1 .. Len(key) + 1
        BY <1>1
    <2> QED BY <1>2, <1>3, <1>4, <2>1
<1>8. ASSUME NEW j \in 1 .. Len(value) PROVE e3[Len(key) + 1 + j] = value[j]
    <2>1. Len(key) + 1 + j \in 1 .. Len(key) + 1 + Len(value)
        BY <1>1
    <2> QED BY <1>3, <1>4, <2>1
<1> QED BY <1>4, <1>5, <1>6, <1>7, <1>8 DEF value

\* The prefixes are strings.
LEMMA PrefixTypes ==
    ASSUME NEW map \in Maps
    PROVE  \A i \in 0 .. Cardinality(DOMAIN map) : Prefixes(map)[i] \in Seq(Nat)
<1> DEFINE n == Cardinality(DOMAIN map)
           P == Prefixes(map)
           Bad == {i \in 0 .. n : P[i] \notin Seq(Nat)}
<1> SUFFICES ASSUME Bad # {} PROVE FALSE
    OBVIOUS
<1>1. n \in Nat
    BY MapFacts
<1>2. /\ P[0] = <<>>
      /\ \A i \in 1 .. n : P[i] = P[i - 1] \o Entry(map, KeyAt(map, i))
    BY PrefixSteps
<1> HIDE DEF n, P
<1>3. PICK i \in Bad : \A k \in Bad : i <= k
    <2>1. Bad \subseteq Nat
        BY <1>1
    <2> HIDE DEF Bad
    <2> QED BY <2>1, LeastElement
<1>4. i \in 0 .. n /\ P[i] \notin Seq(Nat)
    OBVIOUS
<1>5. i # 0
    <2>1. <<>> \in Seq(Nat)
        OBVIOUS
    <2> QED BY <1>2, <1>4, <2>1
<1>6. i \in 1 .. n /\ i - 1 \in 0 .. n /\ i - 1 < i
    BY <1>1, <1>4, <1>5
<1>7. i - 1 \notin Bad
    <2> HIDE DEF Bad
    <2> QED BY <1>1, <1>3, <1>4, <1>6
<1>8. P[i - 1] \in Seq(Nat)
    BY <1>6, <1>7
<1>9. Entry(map, KeyAt(map, i)) \in Seq(Nat)
    <2>1. KeyAt(map, i) \in DOMAIN map
        BY <1>6, KeyAtFacts DEF n
    <2> QED BY <2>1, MapFacts, EntryParts
<1>10. P[i] \in Seq(Nat)
    <2>1. P[i] = P[i - 1] \o Entry(map, KeyAt(map, i))
        BY <1>2, <1>6
    <2> QED BY <1>8, <1>9, <2>1, Concatenation
<1> QED BY <1>4, <1>10

\* What is written stays.
LEMMA PrefixKept ==
    ASSUME NEW map \in Maps, NEW i \in 0 .. Cardinality(DOMAIN map)
    PROVE  LET P == Prefixes(map)
           IN  \A m \in i .. Cardinality(DOMAIN map) :
                    Len(P[i]) <= Len(P[m]) /\ \A j \in 1 .. Len(P[i]) : P[m][j] = P[i][j]
<1> DEFINE n == Cardinality(DOMAIN map)
           P == Prefixes(map)
           Kept(m) == Len(P[i]) <= Len(P[m]) /\ \A j \in 1 .. Len(P[i]) : P[m][j] = P[i][j]
           Bad == {m \in i .. n : ~Kept(m)}
<1> SUFFICES ASSUME Bad # {} PROVE FALSE
    OBVIOUS
<1>1. n \in Nat /\ i \in 0 .. n
    BY MapFacts
<1>2. \A k \in 1 .. n : P[k] = P[k - 1] \o Entry(map, KeyAt(map, k))
    BY PrefixSteps
<1>3. \A k \in 0 .. n : P[k] \in Seq(Nat)
    BY PrefixTypes
<1> HIDE DEF n, P
<1>4. PICK m \in Bad : \A k \in Bad : m <= k
    <2>1. Bad \subseteq Nat
        BY <1>1
    <2> HIDE DEF Bad
    <2> QED BY <2>1, LeastElement
<1>5. m \in i .. n /\ ~Kept(m)
    OBVIOUS
<1>6. m # i
    BY <1>1, <1>3, <1>5
<1>7. m \in 1 .. n /\ m - 1 \in i .. n /\ m - 1 \in 0 .. n /\ m - 1 < m
    BY <1>1, <1>5, <1>6
<1>8. m - 1 \notin Bad
    <2> HIDE DEF Bad
    <2> QED BY <1>1, <1>4, <1>5, <1>7
<1>9. Kept(m - 1)
    <2> HIDE DEF Kept
    <2> QED BY <1>7, <1>8
<1>10. Entry(map, KeyAt(map, m)) \in Seq(Nat)
    <2>1. KeyAt(map, m) \in DOMAIN map
        BY <1>7, KeyAtFacts DEF n
    <2> QED BY <2>1, MapFacts, EntryParts
<1>11. P[m] = P[m - 1] \o Entry(map, KeyAt(map, m)) /\ P[m - 1] \in Seq(Nat) /\ P[i] \in Seq(Nat)
    BY <1>1, <1>2, <1>3, <1>7
<1>12. /\ Len(P[m - 1]) \in Nat /\ Len(P[m - 1]) <= Len(P[m]) /\ Len(P[m]) \in Nat
       /\ \A j \in 1 .. Len(P[m - 1]) : P[m][j] = P[m - 1][j]
    <2> DEFINE e == Entry(map, KeyAt(map, m))
               p == P[m - 1]
    <2>1. P[m] = p \o e /\ p \in Seq(Nat) /\ e \in Seq(Nat)
        BY <1>10, <1>11
    <2>2. Len(e) \in Nat /\ Len(p) \in Nat /\ Len(p \o e) = Len(p) + Len(e)
        BY <2>1, Concatenation
    <2>3. \A j \in 1 .. Len(p) : (p \o e)[j] = p[j]
        BY <2>1, Concatenation
    <2> HIDE DEF e, p
    <2>4. Len(p) \in Nat /\ Len(p) <= Len(P[m]) /\ Len(P[m]) \in Nat
        BY <2>1, <2>2
    <2> QED BY <2>1, <2>3, <2>4 DEF p
<1>13. Kept(m)
    BY <1>9, <1>11, <1>12
<1> QED BY <1>5, <1>13

\* A map can be read from its text.
LEMMA MapReads ==
    ASSUME NEW map \in Maps
    PROVE  LET n == Cardinality(DOMAIN map)
           IN  /\ Serialised(map) \in Seq(Nat)
               /\ Reads(Serialised(map), n, [i \in 0 .. n |-> Len(Prefixes(map)[i])],
                        [i \in 1 .. n |-> KeyAt(map, i)], [i \in 1 .. n |-> map[KeyAt(map, i)]])
<1> DEFINE n == Cardinality(DOMAIN map)
           P == Prefixes(map)
           t == P[n]
           end == [i \in 0 .. n |-> Len(P[i])]
           K == [i \in 1 .. n |-> KeyAt(map, i)]
           V == [i \in 1 .. n |-> map[KeyAt(map, i)]]
<1>1. n \in Nat /\ Serialised(map) = t
    BY MapFacts DEF Serialised
<1>2. \A i \in 0 .. n : P[i] \in Seq(Nat) /\ Len(P[i]) \in Nat
    BY PrefixTypes
<1>3. P[0] = <<>> /\ \A i \in 1 .. n : P[i] = P[i - 1] \o Entry(map, KeyAt(map, i))
    BY PrefixSteps
<1>4. ASSUME NEW i \in 0 .. n
      PROVE  Len(P[i]) <= Len(t) /\ \A j \in 1 .. Len(P[i]) : t[j] = P[i][j]
    <2>1. n \in i .. n
        BY <1>1
    <2> QED BY <2>1, PrefixKept
<1>5. \A i \in 1 .. n : KeyAt(map, i) \in DOMAIN map
    BY KeyAtFacts
<1> HIDE DEF n, P
<1>6. t \in Seq(Nat)
    BY <1>1, <1>2
<1>7. end[0] = 0 /\ end[n] = Len(t)
    <2>1. 0 \in 0 .. n /\ n \in 0 .. n /\ Len(<<>>) = 0
        BY <1>1
    <2> QED BY <1>3, <2>1
<1>8. ASSUME NEW i \in 1 .. n PROVE EntryAt(t, end[i - 1], end[i], K[i], V[i])
    <2> DEFINE key == KeyAt(map, i)
               value == map[key]
               start == Len(P[i - 1])
               e == Entry(map, key)
    <2>1. i \in 0 .. n /\ i - 1 \in 0 .. n
        BY <1>1
    <2>2. end[i - 1] = start /\ end[i] = Len(P[i]) /\ K[i] = key /\ V[i] = value
        BY <2>1
    <2>3. key \in DOMAIN map /\ key \in Seq(Nat) /\ value \in Seq(Nat) /\ key \in Names /\ value \in Contents
        BY <1>5, MapFacts
    <2>4. Len(key) \in Nat /\ Len(value) \in Nat /\ start \in Nat /\ P[i - 1] \in Seq(Nat)
        BY <1>2, <2>1, <2>3
    <2>5. /\ \A j \in 1 .. Len(key) : key[j] > LF
          /\ \A j \in 1 .. Len(value) : value[j] # NUL
        BY <2>3, NamesAssumption, ContentsAssumption
    <2>6. /\ e \in Seq(Nat) /\ Len(e) = Len(key) + 1 + Len(value) + 1
          /\ \A j \in 1 .. Len(key) : e[j] = key[j]
          /\ e[Len(key) + 1] = NUL
          /\ \A j \in 1 .. Len(value) : e[Len(key) + 1 + j] = value[j]
          /\ e[Len(key) + 1 + Len(value) + 1] = LF
        BY <2>3, EntryParts
    <2>7. P[i] = P[i - 1] \o e
        BY <1>3
    <2> HIDE DEF e, key, value
    <2>8. /\ Len(P[i]) = start + Len(e)
          /\ \A j \in 1 .. Len(e) : P[i][start + j] = e[j]
        <3> DEFINE p == P[i - 1]
        <3>1. p \in Seq(Nat) /\ P[i] = p \o e /\ start = Len(p)
            BY <2>4, <2>7
        <3> HIDE DEF p, start
        <3>2. Len(p \o e) = Len(p) + Len(e) /\ \A j \in 1 .. Len(e) : (p \o e)[Len(p) + j] = e[j]
            BY <2>6, <3>1, Concatenation
        <3> QED BY <3>1, <3>2
    <2> HIDE DEF start, t
    <2>9. ASSUME NEW j \in 1 .. Len(e) PROVE t[start + j] = e[j]
        <3>1. start + j \in 1 .. Len(P[i])
            BY <2>4, <2>6, <2>8
        <3> QED BY <1>4, <2>1, <2>8, <3>1
    <2>10. ASSUME NEW j \in 1 .. Len(key) PROVE t[start + j] = key[j]
        <3>1. j \in 1 .. Len(e)
            BY <2>4, <2>6
        <3> QED BY <2>6, <2>9, <3>1
    <2>11. t[start + Len(key) + 1] = NUL
        <3>1. Len(key) + 1 \in 1 .. Len(e) /\ start + (Len(key) + 1) = start + Len(key) + 1
            BY <2>4, <2>6
        <3>2. t[start + (Len(key) + 1)] = e[Len(key) + 1]
            BY <2>9, <3>1
        <3> QED BY <2>6, <3>1, <3>2
    <2>12. ASSUME NEW j \in 1 .. Len(value) PROVE t[start + Len(key) + 1 + j] = value[j]
        <3>1. Len(key) + 1 + j \in 1 .. Len(e) /\ start + (Len(key) + 1 + j) = start + Len(key) + 1 + j
            BY <2>4, <2>6
        <3>2. t[start + (Len(key) + 1 + j)] = e[Len(key) + 1 + j]
            BY <2>9, <3>1
        <3> QED BY <2>6, <3>1, <3>2
    <2>13. /\ Len(P[i]) = start + Len(key) + 1 + Len(value) + 1 /\ Len(P[i]) \in Nat
           /\ Len(P[i]) <= Len(t)
        BY <1>2, <1>4, <2>1, <2>4, <2>6, <2>8
    <2>14. t[Len(P[i])] = LF
        <3>1. /\ Len(key) + 1 + Len(value) + 1 \in 1 .. Len(e)
              /\ start + (Len(key) + 1 + Len(value) + 1) = Len(P[i])
            BY <2>4, <2>6, <2>13
        <3>2. t[start + (Len(key) + 1 + Len(value) + 1)] = e[Len(key) + 1 + Len(value) + 1]
            BY <2>9, <3>1
        <3> QED BY <2>6, <3>1, <3>2
    <2>15. EntryAt(t, start, Len(P[i]), key, value)
        BY <2>3, <2>4, <2>5, <2>10, <2>11, <2>12, <2>13, <2>14 DEF EntryAt
    <2> QED BY <2>2, <2>15
<1>9. Reads(t, n, end, K, V)
    <2> HIDE DEF t, end, K, V
    <2> QED BY <1>7, <1>8 DEF Reads
<1> QED BY <1>1, <1>6, <1>9 DEF n, P

\* Different maps have different texts.
LEMMA SerialisedInjective ==
    ASSUME NEW one \in Maps, NEW two \in Maps, Serialised(one) = Serialised(two)
    PROVE  one = two
<1> DEFINE n == Cardinality(DOMAIN one)
           a == [i \in 0 .. n |-> Len(Prefixes(one)[i])]
           K == [i \in 1 .. n |-> KeyAt(one, i)]
           V == [i \in 1 .. n |-> one[KeyAt(one, i)]]
           m == Cardinality(DOMAIN two)
           b == [i \in 0 .. m |-> Len(Prefixes(two)[i])]
           L == [i \in 1 .. m |-> KeyAt(two, i)]
           W == [i \in 1 .. m |-> two[KeyAt(two, i)]]
<1>1. n \in Nat /\ m \in Nat
    BY MapFacts
<1>2. n = m /\ \A i \in 1 .. n : K[i] = L[i] /\ V[i] = W[i]
    <2>1. Serialised(one) \in Seq(Nat) /\ Reads(Serialised(one), n, a, K, V)
        BY MapReads
    <2>2. Reads(Serialised(one), m, b, L, W)
        BY MapReads
    <2> HIDE DEF n, a, K, V, m, b, L, W
    <2> QED BY <1>1, <2>1, <2>2, ReadOnce
<1>3. \A i \in 1 .. n : KeyAt(one, i) = KeyAt(two, i) /\ one[KeyAt(one, i)] = two[KeyAt(one, i)]
    BY <1>2
<1>4. ASSUME NEW key \in DOMAIN one PROVE key \in DOMAIN two /\ one[key] = two[key]
    <2>1. PICK i \in 1 .. n : key = KeyAt(one, i)
        BY <1>1, RankRange, KeyAtFacts
    <2>2. KeyAt(two, i) \in DOMAIN two
        BY <1>2, KeyAtFacts
    <2> QED BY <1>3, <2>1, <2>2
<1>5. ASSUME NEW key \in DOMAIN two PROVE key \in DOMAIN one
    <2>1. PICK i \in 1 .. m : key = KeyAt(two, i)
        BY <1>1, RankRange, KeyAtFacts
    <2>2. KeyAt(one, i) \in DOMAIN one
        BY <1>2, KeyAtFacts
    <2> QED BY <1>2, <1>3, <2>1, <2>2
<1>6. one = [key \in DOMAIN one |-> one[key]] /\ two = [key \in DOMAIN two |-> two[key]]
    BY MapFacts
<1> QED BY <1>4, <1>5, <1>6

\* The text determines the data, although values may hold line feeds: targets
\* whose hash is the desired one have the desired content.
THEOREM HashFaithful == Spec => []Faithful
<1>1. HashInv => Faithful
    <2> SUFFICES ASSUME HashInv, pc = "done", NEW other \in Maps, text = Serialised(other)
                 PROVE  other = data
        BY DEF Faithful
    <2>1. data \in Maps /\ text = Serialised(data)
        BY StableAtEnd DEF HashInv, TypeOK, Stable
    <2> QED BY <2>1, SerialisedInjective
<1> QED BY <1>1, HashInit, HashStep, PTL DEF Spec
=============================================================================
