------------------------ MODULE RoaringBitmap_proofs ------------------------
(***************************************************************************)
(* Proofs about RoaringBitmap for chunks and containers of any size, any   *)
(* bitmaps and any values: a bitmap is the set that its calls make, read   *)
(* by membership and number, by its two ends, by comparison with another   *)
(* and by the array of its values; no container is empty, and one that is  *)
(* no list of runs is an array or a bitmap as its number of values asks.   *)
(***************************************************************************)
EXTENDS RoaringBitmap, Structures_proofs, SequenceTheorems

----------------------------------------------------------------------------
(* Sets of numbers in ascending order.                                      *)

\* How many numbers of a set are below x.
Rank(S, x) == Cardinality({y \in S : y < x})

LEMMA RankRises ==
    ASSUME NEW S \in SUBSET Int, IsFiniteSet(S), NEW x \in S, NEW z \in Int, x < z
    PROVE  Rank(S, x) \in Nat /\ Rank(S, z) \in Nat /\ Rank(S, x) < Rank(S, z)
  <1> DEFINE A == {y \in S : y < x}
             B == {y \in S : y < z}
  <1>1. A \subseteq B
    <2> SUFFICES ASSUME NEW y \in S, y < x PROVE y < z
      OBVIOUS
    <2>1. y \in Int /\ x \in Int
      OBVIOUS
    <2> QED
      BY <2>1
  <1>2. x \in B /\ x \notin A /\ B \subseteq S
    OBVIOUS
  <1> HIDE DEF A, B
  <1>3. IsFiniteSet(B)
    BY <1>2, FS_Subset
  <1>4. IsFiniteSet(A) /\ Cardinality(A) <= Cardinality(B) /\ (Cardinality(B) = Cardinality(A) => B = A)
    BY <1>1, <1>3, FS_Subset
  <1>5. Cardinality(A) \in Nat /\ Cardinality(B) \in Nat
    BY <1>3, <1>4, FS_CardinalityType
  <1>6. Cardinality(A) < Cardinality(B)
    BY <1>2, <1>4, <1>5
  <1> QED
    BY <1>5, <1>6 DEF Rank, A, B

\* Each number of a finite set has a rank of its own, and every rank is taken.
LEMMA RanksTaken ==
    ASSUME NEW S \in SUBSET Int, IsFiniteSet(S)
    PROVE  /\ Cardinality(S) \in Nat
           /\ \A x \in S : Rank(S, x) \in 0 .. Cardinality(S) - 1
           /\ \A x, z \in S : Rank(S, x) = Rank(S, z) => x = z
           /\ \A r \in 0 .. Cardinality(S) - 1 : \E x \in S : Rank(S, x) = r
  <1> DEFINE n == Cardinality(S)
             f == [x \in S |-> Rank(S, x)]
  <1>1. n \in Nat
    BY FS_CardinalityType
  <1>2. ASSUME NEW x \in S PROVE Rank(S, x) \in 0 .. n - 1
    <2> DEFINE A == {y \in S : y < x}
    <2>1. A \subseteq S /\ x \notin A
      <3>1. x \in Int
        OBVIOUS
      <3> QED
        BY <3>1
    <2> HIDE DEF A
    <2>2. IsFiniteSet(A) /\ Cardinality(A) <= n /\ (n = Cardinality(A) => S = A)
      BY <2>1, FS_Subset
    <2>3. Cardinality(A) \in Nat
      BY <2>2, FS_CardinalityType
    <2>4. Cardinality(A) \in 0 .. n - 1
      BY <1>1, <2>1, <2>2, <2>3
    <2> QED
      BY <2>4 DEF Rank, A
  <1>3. ASSUME NEW x \in S, NEW z \in S, Rank(S, x) = Rank(S, z) PROVE x = z
    <2>1. x \in Int /\ z \in Int
      OBVIOUS
    <2>2. ~(x < z)
      BY <1>3, <2>1, RankRises
    <2>3. ~(z < x)
      BY <1>3, <2>1, RankRises
    <2> QED
      BY <2>1, <2>2, <2>3
  <1>4. f \in Injection(S, 0 .. n - 1)
    BY <1>2, <1>3 DEF Injection, IsInjective
  <1>5. IsFiniteSet(0 .. n - 1) /\ Cardinality(0 .. n - 1) = n
    <2>1. n - 1 \in Int
      BY <1>1
    <2>2. IsFiniteSet(0 .. n - 1) /\ Cardinality(0 .. n - 1) = IF 0 > n - 1 THEN 0 ELSE (n - 1) - 0 + 1
      BY <2>1, FS_Interval
    <2> QED
      BY <1>1, <2>2
  <1>6. f \in Surjection(S, 0 .. n - 1)
    <2>1. Cardinality(S) = Cardinality(0 .. n - 1)
      BY <1>5
    <2> HIDE DEF n, f
    <2> QED
      BY <1>4, <1>5, <2>1, FS_Injection
  <1>7. \A r \in 0 .. n - 1 : \E x \in S : Rank(S, x) = r
    BY <1>6 DEF Surjection
  <1> QED
    BY <1>1, <1>2, <1>3, <1>7

\* The numbers of a finite set, from the least to the greatest, and each once.
LEMMA AscendingOrder ==
    ASSUME NEW S \in SUBSET Int, IsFiniteSet(S)
    PROVE  /\ Cardinality(S) \in Nat
           /\ Ascending(S) \in [1 .. Cardinality(S) -> S]
           /\ \A i \in 1 .. Cardinality(S) : Rank(S, Ascending(S)[i]) = i - 1
           /\ \A x \in S : Rank(S, x) + 1 \in 1 .. Cardinality(S) /\ Ascending(S)[Rank(S, x) + 1] = x
           /\ Range(Ascending(S)) = S
  <1> DEFINE n == Cardinality(S)
             a == Ascending(S)
  <1>1. /\ n \in Nat
        /\ \A x \in S : Rank(S, x) \in 0 .. n - 1
        /\ \A x, z \in S : Rank(S, x) = Rank(S, z) => x = z
        /\ \A r \in 0 .. n - 1 : \E x \in S : Rank(S, x) = r
    BY RanksTaken
  <1>2. a = [i \in 1 .. n |-> CHOOSE x \in S : Rank(S, x) = i - 1]
    BY DEF Ascending, Rank
  <1>3. ASSUME NEW i \in 1 .. n PROVE a[i] \in S /\ Rank(S, a[i]) = i - 1
    <2>1. i - 1 \in 0 .. n - 1
      BY <1>1
    <2>2. \E x \in S : Rank(S, x) = i - 1
      BY <1>1, <2>1
    <2> HIDE DEF a, n
    <2> QED
      BY <1>2, <2>2
  <1>4. a \in [1 .. n -> S]
    <2> HIDE DEF a, n
    <2> QED
      BY <1>2, <1>3
  <1>5. ASSUME NEW x \in S PROVE Rank(S, x) + 1 \in 1 .. n /\ a[Rank(S, x) + 1] = x
    <2>1. PICK i \in 1 .. n : i = Rank(S, x) + 1
      BY <1>1
    <2>2. a[i] \in S /\ Rank(S, a[i]) = Rank(S, x)
      BY <1>1, <1>3, <2>1
    <2> HIDE DEF a, n
    <2> QED
      BY <1>1, <2>1, <2>2
  <1>6. Range(a) = S
    <2>1. DOMAIN a = 1 .. n
      BY <1>4
    <2> HIDE DEF a, n
    <2> QED
      BY <1>3, <1>5, <2>1 DEF Range
  <1> QED
    BY <1>1, <1>3, <1>4, <1>5, <1>6

\* A set of numbers is put in order in one way.
LEMMA OneOrder ==
    ASSUME NEW S \in SUBSET Int, NEW n \in Nat, NEW f \in [1 .. n -> S],
           \A i, j \in 1 .. n : i < j => f[i] < f[j],
           \A x \in S : \E i \in 1 .. n : f[i] = x
    PROVE  IsFiniteSet(S) /\ Cardinality(S) = n /\ f = Ascending(S)
  <1>1. ASSUME NEW i \in 1 .. n, NEW j \in 1 .. n PROVE f[i] < f[j] <=> i < j
    <2>1. f[i] \in S /\ f[j] \in S
      OBVIOUS
    <2>2. i < j => f[i] < f[j]
      OBVIOUS
    <2>3. j < i => f[j] < f[i]
      OBVIOUS
    <2>4. f[i] \in Int /\ f[j] \in Int
      BY <2>1
    <2> QED
      BY <2>2, <2>3, <2>4
  <1>2. f \in Bijection(1 .. n, S)
    <2>1. \A i, j \in 1 .. n : f[i] = f[j] => i = j
      <3> SUFFICES ASSUME NEW i \in 1 .. n, NEW j \in 1 .. n, f[i] = f[j] PROVE i = j
        OBVIOUS
      <3>1. f[i] \in Int /\ f[j] \in Int
        OBVIOUS
      <3>2. ~(i < j) /\ ~(j < i)
        BY <1>1, <3>1
      <3> QED
        BY <3>2
    <2> QED
      BY <2>1 DEF Bijection, Injection, Surjection, IsInjective
  <1>3. IsFiniteSet(1 .. n) /\ Cardinality(1 .. n) = n
    <2>1. IsFiniteSet(1 .. n) /\ Cardinality(1 .. n) = IF 1 > n THEN 0 ELSE n - 1 + 1
      BY FS_Interval
    <2> QED
      BY <2>1
  <1>4. IsFiniteSet(S) /\ Cardinality(S) = n
    <2>1. ExistsBijection(1 .. n, S)
      BY <1>2 DEF ExistsBijection
    <2>2. IsFiniteSet(S) /\ Cardinality(S) = Cardinality(1 .. n)
      BY <1>3, <2>1, FS_Bijection
    <2> QED
      BY <1>3, <2>2
  <1>5. ASSUME NEW i \in 1 .. n PROVE Rank(S, f[i]) = i - 1
    <2> DEFINE A == {y \in S : y < f[i]}
               g == [j \in 1 .. i - 1 |-> f[j]]
    <2>1. \A j \in 1 .. i - 1 : j \in 1 .. n /\ j < i
      OBVIOUS
    <2>2. \A j \in 1 .. i - 1 : g[j] \in A
      BY <1>1, <2>1
    <2>3. \A y \in A : \E j \in 1 .. i - 1 : g[j] = y
      <3> SUFFICES ASSUME NEW y \in S, y < f[i] PROVE \E j \in 1 .. i - 1 : g[j] = y
        OBVIOUS
      <3>1. PICK j \in 1 .. n : f[j] = y
        OBVIOUS
      <3>2. j < i
        BY <1>1, <3>1
      <3>3. j \in 1 .. i - 1
        BY <3>2
      <3> QED
        BY <3>1, <3>3
    <2>4. \A j, k \in 1 .. i - 1 : g[j] = g[k] => j = k
      <3> SUFFICES ASSUME NEW j \in 1 .. i - 1, NEW k \in 1 .. i - 1, g[j] = g[k] PROVE j = k
        OBVIOUS
      <3>1. f[j] = f[k] /\ j \in 1 .. n /\ k \in 1 .. n
        BY <2>1
      <3> QED
        BY <1>2, <3>1 DEF Bijection, Injection, IsInjective
    <2>5. g \in Bijection(1 .. i - 1, A)
      <3>1. g \in [1 .. i - 1 -> A]
        BY <2>2
      <3> HIDE DEF g, A
      <3> QED
        BY <2>3, <2>4, <3>1 DEF Bijection, Injection, Surjection, IsInjective
    <2>6. i - 1 \in Nat /\ ExistsBijection(1 .. i - 1, A)
      <3>1. i - 1 \in Nat
        OBVIOUS
      <3> QED
        BY <2>5, <3>1 DEF ExistsBijection
    <2> HIDE DEF A
    <2>7. Cardinality(A) = i - 1
      BY <2>6, FS_CountingElements
    <2> QED
      BY <2>7 DEF Rank, A
  <1>6. ASSUME NEW i \in 1 .. n PROVE f[i] = Ascending(S)[i]
    <2>1. f[i] \in S /\ Rank(S, f[i]) = i - 1
      BY <1>5
    <2>2. Ascending(S)[Rank(S, f[i]) + 1] = f[i]
      BY <1>4, <2>1, AscendingOrder
    <2> QED
      BY <2>1, <2>2
  <1>7. Ascending(S) \in [1 .. n -> S]
    BY <1>4, AscendingOrder
  <1> QED
    BY <1>4, <1>6, <1>7

----------------------------------------------------------------------------
(* Containers.                                                              *)

\* What a container may hold.
Remainders == 0 .. Chunk - 1

LEMMA RoaringConstants ==
    /\ Chunk \in Nat \ {0} /\ ChunkCount \in Nat \ {0} /\ ArrayLimit \in Nat
    /\ Points \subseteq Values
  BY RoaringAssumption DEF Values

LEMMA FiniteRemainders ==
    ASSUME NEW lows \in SUBSET Remainders
    PROVE  IsFiniteSet(lows) /\ Cardinality(lows) \in Nat /\ lows \in SUBSET Int
           /\ (Cardinality(lows) = 0 <=> lows = {})
  <1>1. IsFiniteSet(Remainders)
    BY RoaringConstants, FS_Interval DEF Remainders
  <1>2. IsFiniteSet(lows)
    BY <1>1, FS_Subset
  <1>3. Cardinality(lows) \in Nat /\ (Cardinality(lows) = 0 <=> lows = {})
    BY <1>2, FS_CardinalityType, FS_EmptySet
  <1>4. lows \in SUBSET Int
    BY RoaringConstants DEF Remainders
  <1> QED
    BY <1>2, <1>3, <1>4

\* A container that is one of the three forms of a set, arrays sparse and bitmaps dense.
Holds(container, lows) ==
    \/ container = ArrayOf(lows) /\ Cardinality(lows) < ArrayLimit
    \/ container = BitsOf(lows) /\ Cardinality(lows) >= ArrayLimit
    \/ container = RunsOf(lows)

LEMMA ContainerHolds ==
    ASSUME NEW kind, NEW lows \in SUBSET Remainders
    PROVE  Holds(Container(kind, lows), lows)
  <1>1. Cardinality(lows) \in Nat /\ ArrayLimit \in Nat
    BY FiniteRemainders, RoaringConstants
  <1>2. Cardinality(lows) < ArrayLimit \/ Cardinality(lows) >= ArrayLimit
    BY <1>1
  <1> QED
    BY <1>2 DEF Container, Holds

\* Every remainder is in a run that ends where the next ones are missing.
LEMMA RunAround ==
    ASSUME NEW lows \in SUBSET Remainders, NEW l \in lows
    PROVE  \E r \in RunsOf(lows).runs : l \in r[1] .. r[2]
  <1> DEFINE Before == {k \in Nat : k <= l /\ k .. l \subseteq lows}
             After  == {k \in Nat : l + k + 1 \notin lows}
  <1>1. l \in 0 .. Chunk - 1 /\ lows \subseteq 0 .. Chunk - 1 /\ Chunk \in Nat \ {0}
    BY RoaringConstants DEF Remainders
  <1>2. Before \in SUBSET Nat /\ Before # {}
    <2>1. l .. l \subseteq lows
      BY <1>1
    <2>2. l \in Before
      BY <1>1, <2>1
    <2> QED
      BY <2>2
  <1>3. PICK a \in Before : \A k \in Before : a <= k
    <2> HIDE DEF Before
    <2> QED
      BY <1>2, LeastNumber
  <1>4. a \in Nat /\ a <= l /\ a .. l \subseteq lows /\ a \in lows
    BY <1>1, <1>3
  <1>5. a - 1 \notin lows
    <2> SUFFICES ASSUME a - 1 \in lows PROVE FALSE
      OBVIOUS
    <2>1. a - 1 \in Nat /\ a - 1 <= l
      BY <1>1, <1>4
    <2>2. a - 1 .. l \subseteq lows
      <3> SUFFICES ASSUME NEW y \in a - 1 .. l PROVE y \in lows
        OBVIOUS
      <3>1. y = a - 1 \/ y \in a .. l
        BY <1>4
      <3> QED
        BY <1>4, <3>1
    <2>3. a - 1 \in Before
      BY <2>1, <2>2
    <2> QED
      BY <1>3, <1>4, <2>1, <2>3
  <1>6. After \in SUBSET Nat /\ After # {}
    <2>1. l + Chunk + 1 \notin lows
      BY <1>1
    <2>2. Chunk \in After
      BY <1>1, <2>1
    <2> QED
      BY <2>2
  <1>7. PICK d \in After : \A k \in After : d <= k
    <2> HIDE DEF After
    <2> QED
      BY <1>6, LeastNumber
  <1>8. d \in Nat /\ l + d + 1 \notin lows
    BY <1>7
  <1>9. ASSUME NEW y \in l .. l + d PROVE y \in lows
    <2>1. CASE y = l
      BY <2>1
    <2>2. CASE y # l
      <3>1. y - l - 1 \in Nat /\ y - l - 1 < d /\ l + (y - l - 1) + 1 = y
        BY <1>1, <1>8, <2>2
      <3>2. ~(d <= y - l - 1)
        BY <1>8, <3>1
      <3>3. y - l - 1 \notin After
        BY <1>7, <3>2
      <3> QED
        BY <3>1, <3>3
    <2> QED
      BY <2>1, <2>2
  <1>10. l + d \in lows /\ l + d \in Int
    <2>1. l + d \in l .. l + d
      BY <1>1, <1>8
    <2> QED
      BY <1>1, <1>8, <1>9, <2>1
  <1>11. a .. l + d \subseteq lows
    <2> SUFFICES ASSUME NEW y \in a .. l + d PROVE y \in lows
      OBVIOUS
    <2>1. y \in a .. l \/ y \in l .. l + d
      BY <1>1, <1>4, <1>8
    <2> QED
      BY <1>4, <1>9, <2>1
  <1>12. <<a, l + d>> \in RunsOf(lows).runs
    <2>1. <<a, l + d>> \in (0 .. Chunk - 1) \X (0 .. Chunk - 1)
      BY <1>1, <1>4, <1>10
    <2>2. a <= l + d
      BY <1>1, <1>4, <1>8
    <2> QED
      BY <1>5, <1>8, <1>11, <2>1, <2>2 DEF RunsOf
  <1> QED
    BY <1>1, <1>4, <1>8, <1>12

\* Each form of a set is read back as the set.
LEMMA HoldsLows ==
    ASSUME NEW container, NEW lows \in SUBSET Remainders, Holds(container, lows)
    PROVE  /\ Lows(container) = lows
           /\ container.kind = "array" => Cardinality(lows) < ArrayLimit
           /\ container.kind = "bitmap" => Cardinality(lows) >= ArrayLimit
  <1>1. CASE container = ArrayOf(lows) /\ Cardinality(lows) < ArrayLimit
    <2>1. Lows(container) = Range(Ascending(lows)) /\ container.kind = "array"
      BY <1>1 DEF Lows, ArrayOf
    <2>2. Range(Ascending(lows)) = lows
      BY FiniteRemainders, AscendingOrder
    <2> QED
      BY <1>1, <2>1, <2>2
  <1>2. CASE container = BitsOf(lows) /\ Cardinality(lows) >= ArrayLimit
    <2>1. container.kind = "bitmap" /\ container.bits = [l \in 0 .. Chunk - 1 |-> l \in lows]
      BY <1>2 DEF BitsOf
    <2>2. Lows(container) = {l \in 0 .. Chunk - 1 : container.bits[l]}
      BY <2>1 DEF Lows
    <2>3. \A l \in 0 .. Chunk - 1 : container.bits[l] <=> l \in lows
      BY <2>1
    <2> QED
      BY <1>2, <2>1, <2>2, <2>3 DEF Remainders
  <1>3. CASE container = RunsOf(lows)
    <2>1. container.kind = "run" /\ Lows(container) = UNION {r[1] .. r[2] : r \in container.runs}
      BY <1>3 DEF Lows, RunsOf
    <2>2. \A r \in container.runs : r[1] .. r[2] \subseteq lows
      BY <1>3 DEF RunsOf
    <2>3. \A l \in lows : \E r \in container.runs : l \in r[1] .. r[2]
      BY <1>3, RunAround
    <2>4. Lows(container) = lows
      <3> HIDE <1>3
      <3> QED
        BY <2>1, <2>2, <2>3
    <2> QED
      BY <2>1, <2>4
  <1> QED
    BY <1>1, <1>2, <1>3 DEF Holds

----------------------------------------------------------------------------
(* Values and their parts.                                                  *)

\* A value is its quotient and its remainder put together.
LEMMA PartsOf ==
    ASSUME NEW v \in Int
    PROVE  High(v) \in Int /\ Low(v) \in Remainders /\ v = High(v) * Chunk + Low(v)
  <1>1. PICK m \in Nat \ {0} : m = Chunk
    BY RoaringConstants
  <1>2. v % m \in 0 .. m - 1 /\ v \div m \in Int /\ v = m * (v \div m) + (v % m)
    BY Remainder
  <1>3. PICK q \in Int, r \in Int : q = v \div m /\ r = v % m
    BY <1>2
  <1>4. m * q = q * m
    BY <1>1
  <1> QED
    BY <1>1, <1>2, <1>3, <1>4 DEF High, Low, Remainders

LEMMA PartsPut ==
    ASSUME NEW h \in Int, NEW l \in Remainders
    PROVE  h * Chunk + l \in Int /\ High(h * Chunk + l) = h /\ Low(h * Chunk + l) = l
  <1>1. PICK m \in Nat \ {0} : m = Chunk
    BY RoaringConstants
  <1>2. l \in 0 .. m - 1
    BY <1>1 DEF Remainders
  <1>3. PICK n \in Int : n = h * m + l
    BY <1>2
  <1>4. n % m \in 0 .. m - 1 /\ n \div m \in Int /\ n = m * (n \div m) + (n % m)
    BY Remainder
  <1>5. PICK q \in Int, r \in 0 .. m - 1 : q = n \div m /\ r = n % m
    BY <1>4
  <1>6. m * q + r = m * h + l
    BY <1>2, <1>3, <1>4, <1>5
  <1>7. q = h /\ r = l
    BY <1>2, <1>6, OneRemainder
  <1> QED
    BY <1>1, <1>3, <1>5, <1>7 DEF High, Low

\* Values of different chunks are ordered as the chunks are.
LEMMA PartsOrder ==
    ASSUME NEW h \in Int, NEW k \in Int, NEW l \in Remainders, NEW r \in Remainders
    PROVE  /\ h < k => h * Chunk + l < k * Chunk + r
           /\ h = k => (h * Chunk + l < k * Chunk + r <=> l < r)
  <1>1. PICK m \in Nat \ {0} : m = Chunk
    BY RoaringConstants
  <1>2. l \in 0 .. m - 1 /\ r \in 0 .. m - 1
    BY <1>1 DEF Remainders
  <1>3. ASSUME h < k PROVE h * m + l < k * m + r
    <2>1. PICK d \in Nat \ {0} : k = h + d
      BY <1>3
    <2>2. PICK e \in Int : e = h * m
      OBVIOUS
    <2>3. k * m = e + d * m /\ d * m >= m /\ d * m \in Int
      BY <2>1, <2>2
    <2> QED
      BY <1>2, <2>2, <2>3
  <1>4. ASSUME h = k PROVE h * m + l < k * m + r <=> l < r
    <2>1. PICK e \in Int : e = h * m
      OBVIOUS
    <2> QED
      BY <1>2, <1>4, <2>1
  <1> QED
    BY <1>1, <1>3, <1>4

\* The values are those whose quotient finds a container.
LEMMA ValueParts ==
    ASSUME NEW v \in Int
    PROVE  v \in Values <=> High(v) \in 0 .. ChunkCount - 1
  <1>1. /\ High(v) \in Int /\ Low(v) \in Remainders /\ v = High(v) * Chunk + Low(v)
        /\ 0 \in Remainders /\ Chunk \in Nat \ {0} /\ ChunkCount \in Nat \ {0}
    BY PartsOf, RoaringConstants DEF Remainders
  <1>2. PICK h \in Int, l \in Remainders : h = High(v) /\ l = Low(v) /\ v = h * Chunk + l
    BY <1>1
  <1>3. 0 \in Int /\ ChunkCount \in Int /\ 0 \in Remainders
    BY <1>1
  <1>4. h < 0 => h * Chunk + l < 0 * Chunk + 0
    BY ONLY <1>3, h \in Int, l \in Remainders, PartsOrder
  <1>5. h < ChunkCount => h * Chunk + l < ChunkCount * Chunk + 0
    BY ONLY <1>3, h \in Int, l \in Remainders, PartsOrder
  <1>6. ChunkCount < h => ChunkCount * Chunk + 0 < h * Chunk + l
    BY ONLY <1>3, h \in Int, l \in Remainders, PartsOrder
  <1>7. h = ChunkCount => ChunkCount * Chunk <= v
    BY <1>1, <1>2 DEF Remainders
  <1>8. 0 <= h => 0 <= v
    <2>1. 0 < h => 0 * Chunk + 0 < h * Chunk + l
      BY ONLY <1>3, h \in Int, l \in Remainders, PartsOrder
    <2>2. 0 = h => 0 <= v
      BY <1>1, <1>2 DEF Remainders
    <2>3. 0 * Chunk + 0 = 0
      BY <1>1
    <2> QED
      BY <1>1, <1>2, <2>1, <2>2, <2>3
  <1>9. PICK c \in Nat : c = Chunk * ChunkCount /\ c = ChunkCount * Chunk
    BY <1>1
  <1>10. v \in Values <=> 0 <= v /\ v < c
    BY <1>9 DEF Values
  <1>11. 0 * Chunk + 0 = 0
    BY <1>1
  <1> QED
    BY <1>1, <1>2, <1>4, <1>5, <1>6, <1>7, <1>8, <1>9, <1>10, <1>11

LEMMA FiniteValues ==
    ASSUME NEW S \in SUBSET Values
    PROVE  IsFiniteSet(S) /\ Cardinality(S) \in Nat /\ S \in SUBSET Int
           /\ (Cardinality(S) = 0 <=> S = {})
  <1>1. PICK c \in Int : c = Chunk * ChunkCount - 1
    BY RoaringConstants
  <1>2. IsFiniteSet(Values) /\ Values \in SUBSET Int
    BY <1>1, FS_Interval DEF Values
  <1>3. IsFiniteSet(S)
    BY <1>2, FS_Subset
  <1>4. Cardinality(S) \in Nat /\ (Cardinality(S) = 0 <=> S = {})
    BY <1>3, FS_CardinalityType, FS_EmptySet
  <1> QED
    BY <1>2, <1>3, <1>4

----------------------------------------------------------------------------
(* Bitmaps.                                                                 *)

ChunkIndex == 0 .. ChunkCount - 1

\* What of a set is in one chunk, and the chunks it has something in.
InChunk(S, h) == {l \in Remainders : h * Chunk + l \in S}
ChunkKeys(S)  == {h \in ChunkIndex : InChunk(S, h) # {}}

\* The values of a chunk with these remainders.
ValuesOf(h, lows) == {h * Chunk + l : l \in lows}

ContainerRecord ==
    {ArrayOf(lows) : lows \in SUBSET Remainders} \cup {BitsOf(lows) : lows \in SUBSET Remainders}
        \cup {RunsOf(lows) : lows \in SUBSET Remainders}

BitmapRecord ==
    [containers : UNION {[D -> ContainerRecord] : D \in SUBSET ChunkIndex}, cardinality : Nat]

\* A bitmap stands for a set: a container for each chunk that is not empty and no other,
\* each of a form that its contents allow, and the number of the elements.
WellStored(b, S) ==
    /\ b \in BitmapRecord
    /\ DOMAIN b.containers = ChunkKeys(S)
    /\ \A h \in ChunkKeys(S) : Holds(b.containers[h], InChunk(S, h))
    /\ b.cardinality = Cardinality(S)

LEMMA HoldsType ==
    ASSUME NEW container, NEW lows \in SUBSET Remainders, Holds(container, lows)
    PROVE  container \in ContainerRecord
  BY DEF Holds, ContainerRecord

LEMMA InChunkType ==
    ASSUME NEW S, NEW h
    PROVE  InChunk(S, h) \in SUBSET Remainders
  BY DEF InChunk

LEMMA ChunkOfValue ==
    ASSUME NEW S \in SUBSET Values, NEW v \in Int
    PROVE  v \in S <=> High(v) \in ChunkKeys(S) /\ Low(v) \in InChunk(S, High(v))
  <1>1. High(v) \in Int /\ Low(v) \in Remainders /\ v = High(v) * Chunk + Low(v)
    BY PartsOf
  <1>2. v \in S <=> Low(v) \in InChunk(S, High(v))
    BY <1>1 DEF InChunk
  <1>3. v \in S => High(v) \in ChunkIndex
    BY ValueParts DEF ChunkIndex
  <1> QED
    BY <1>2, <1>3 DEF ChunkKeys

\* A container read from a bitmap holds what of its set is in the chunk.
LEMMA LowsRead ==
    ASSUME NEW b, NEW S \in SUBSET Values, WellStored(b, S), NEW h \in Int
    PROVE  LowsAt(b, h) = InChunk(S, h)
  <1>1. CASE h \in ChunkKeys(S)
    <2>1. Holds(b.containers[h], InChunk(S, h)) /\ h \in DOMAIN b.containers
      BY <1>1 DEF WellStored
    <2>2. Lows(b.containers[h]) = InChunk(S, h)
      BY <2>1, InChunkType, HoldsLows
    <2> QED
      BY <2>1, <2>2 DEF LowsAt
  <1>2. CASE h \notin ChunkKeys(S)
    <2>1. LowsAt(b, h) = {}
      BY <1>2 DEF LowsAt, WellStored
    <2>2. InChunk(S, h) = {}
      <3> SUFFICES ASSUME NEW l \in InChunk(S, h) PROVE FALSE
        OBVIOUS
      <3>1. l \in Remainders /\ h * Chunk + l \in S
        BY DEF InChunk
      <3>2. h * Chunk + l \in Int /\ High(h * Chunk + l) = h
        BY <3>1, PartsPut
      <3> QED
        BY <1>2, <3>1, <3>2, ChunkOfValue
    <2> QED
      BY <2>1, <2>2
  <1> QED
    BY <1>1, <1>2

----------------------------------------------------------------------------
(* One chunk is given other contents.                                       *)

\* The values of the other chunks.
Beside(S, h) == {v \in S : High(v) # h}

\* The set with other remainders in one chunk.
WithChunk(S, h, lows) == Beside(S, h) \cup ValuesOf(h, lows)

LEMMA ValuesCount ==
    ASSUME NEW h \in Int, NEW lows \in SUBSET Remainders
    PROVE  /\ IsFiniteSet(ValuesOf(h, lows)) /\ Cardinality(ValuesOf(h, lows)) = Cardinality(lows)
           /\ \A v \in Int : v \in ValuesOf(h, lows) <=> High(v) = h /\ Low(v) \in lows
           /\ ValuesOf(h, lows) \in SUBSET Int
  <1> DEFINE f == [l \in lows |-> h * Chunk + l]
  <1>1. \A l \in lows : h * Chunk + l \in Int /\ High(h * Chunk + l) = h /\ Low(h * Chunk + l) = l
    BY PartsPut
  <1>2. f \in Bijection(lows, ValuesOf(h, lows))
    <2>1. f \in [lows -> ValuesOf(h, lows)]
      BY DEF ValuesOf
    <2>2. \A l, r \in lows : f[l] = f[r] => l = r
      BY <1>1
    <2>3. \A v \in ValuesOf(h, lows) : \E l \in lows : f[l] = v
      BY DEF ValuesOf
    <2> HIDE DEF f
    <2> QED
      BY <2>1, <2>2, <2>3 DEF Bijection, Injection, Surjection, IsInjective
  <1>3. IsFiniteSet(ValuesOf(h, lows)) /\ Cardinality(ValuesOf(h, lows)) = Cardinality(lows)
    <2>1. ExistsBijection(lows, ValuesOf(h, lows)) /\ IsFiniteSet(lows)
      BY <1>2, FiniteRemainders DEF ExistsBijection
    <2> QED
      BY <2>1, FS_Bijection
  <1>4. ASSUME NEW v \in Int PROVE v \in ValuesOf(h, lows) <=> High(v) = h /\ Low(v) \in lows
    <2>1. v \in ValuesOf(h, lows) => High(v) = h /\ Low(v) \in lows
      BY <1>1 DEF ValuesOf
    <2>2. High(v) = h /\ Low(v) \in lows => v \in ValuesOf(h, lows)
      BY PartsOf DEF ValuesOf
    <2> QED
      BY <2>1, <2>2
  <1> QED
    BY <1>1, <1>3, <1>4 DEF ValuesOf

LEMMA WithChunkParts ==
    ASSUME NEW S \in SUBSET Values, NEW h \in ChunkIndex, NEW lows \in SUBSET Remainders
    PROVE  /\ WithChunk(S, h, lows) \in SUBSET Values
           /\ \A v \in Int : v \in WithChunk(S, h, lows) <=>
                               IF High(v) = h THEN Low(v) \in lows ELSE v \in S
           /\ \A k \in ChunkIndex :
                 InChunk(WithChunk(S, h, lows), k) = IF k = h THEN lows ELSE InChunk(S, k)
  <1> DEFINE T == WithChunk(S, h, lows)
  <1>1. h \in Int /\ S \in SUBSET Int /\ ValuesOf(h, lows) \in SUBSET Int
    BY FiniteValues, ValuesCount DEF ChunkIndex
  <1>2. ASSUME NEW v \in Int
        PROVE  v \in T <=> IF High(v) = h THEN Low(v) \in lows ELSE v \in S
    <2>1. v \in ValuesOf(h, lows) <=> High(v) = h /\ Low(v) \in lows
      BY <1>1, ValuesCount
    <2> QED
      BY <2>1 DEF WithChunk, Beside
  <1>3. T \in SUBSET Int
    BY <1>1 DEF WithChunk, Beside
  <1> HIDE DEF T
  <1>4. T \in SUBSET Values
    <2> SUFFICES ASSUME NEW v \in T PROVE v \in Values
      OBVIOUS
    <2>1. v \in Int
      BY <1>3
    <2>2. High(v) = h \/ v \in S
      BY <1>2, <2>1
    <2> QED
      BY <2>1, <2>2, ValueParts DEF ChunkIndex
  <1>5. ASSUME NEW k \in ChunkIndex
        PROVE  InChunk(T, k) = IF k = h THEN lows ELSE InChunk(S, k)
    <2>1. ASSUME NEW l \in Remainders
          PROVE  k * Chunk + l \in T <=> IF k = h THEN l \in lows ELSE k * Chunk + l \in S
      <3>1. k * Chunk + l \in Int /\ High(k * Chunk + l) = k /\ Low(k * Chunk + l) = l
        BY PartsPut DEF ChunkIndex
      <3> QED
        BY <1>2, <3>1
    <2> QED
      BY <2>1 DEF InChunk
  <1> QED
    BY <1>2, <1>4, <1>5 DEF T

LEMMA WithChunkCount ==
    ASSUME NEW S \in SUBSET Values, NEW h \in ChunkIndex, NEW lows \in SUBSET Remainders
    PROVE  Cardinality(WithChunk(S, h, lows)) =
              Cardinality(S) + Cardinality(lows) - Cardinality(InChunk(S, h))
  <1> DEFINE here == InChunk(S, h)
             rest == Beside(S, h)
  <1>1. h \in Int /\ S \in SUBSET Int /\ here \in SUBSET Remainders
    BY FiniteValues, InChunkType DEF ChunkIndex
  <1>2. ASSUME NEW part \in SUBSET Remainders
        PROVE  /\ Cardinality(rest \cup ValuesOf(h, part)) = Cardinality(rest) + Cardinality(part)
               /\ Cardinality(rest) \in Nat /\ Cardinality(part) \in Nat
    <2>1. rest \in SUBSET Values /\ rest \in SUBSET Int
      BY <1>1 DEF Beside
    <2>2. IsFiniteSet(rest) /\ Cardinality(rest) \in Nat
      BY <2>1, FiniteValues
    <2>3. /\ IsFiniteSet(ValuesOf(h, part)) /\ Cardinality(ValuesOf(h, part)) = Cardinality(part)
          /\ \A v \in Int : v \in ValuesOf(h, part) <=> High(v) = h /\ Low(v) \in part
      BY <1>1, ValuesCount
    <2>4. rest \cap ValuesOf(h, part) = {}
      BY <2>1, <2>3 DEF Beside
    <2>5. Cardinality(part) \in Nat
      BY FiniteRemainders
    <2> HIDE DEF rest
    <2>6. Cardinality(rest \cup ValuesOf(h, part)) =
             Cardinality(rest) + Cardinality(ValuesOf(h, part)) - Cardinality(rest \cap ValuesOf(h, part))
      BY <2>2, <2>3, FS_Union
    <2>7. Cardinality(rest \cap ValuesOf(h, part)) = 0
      BY <2>4, FS_EmptySet
    <2> QED
      BY <2>2, <2>3, <2>5, <2>6, <2>7
  <1>3. S = rest \cup ValuesOf(h, here)
    <2>1. ASSUME NEW v \in Int PROVE v \in S <=> v \in rest \/ v \in ValuesOf(h, here)
      <3>1. v \in ValuesOf(h, here) <=> High(v) = h /\ Low(v) \in here
        BY <1>1, ValuesCount
      <3>2. v \in S <=> High(v) \in ChunkKeys(S) /\ Low(v) \in InChunk(S, High(v))
        BY ChunkOfValue
      <3>3. High(v) = h /\ Low(v) \in here => h \in ChunkKeys(S)
        BY DEF ChunkKeys
      <3> QED
        BY <3>1, <3>2, <3>3 DEF Beside
    <2>2. ValuesOf(h, here) \in SUBSET Int /\ rest \in SUBSET Int
      BY <1>1, ValuesCount DEF Beside
    <2> HIDE DEF here, rest
    <2> QED
      BY <1>1, <2>1, <2>2
  <1>4. Cardinality(S) = Cardinality(rest) + Cardinality(here)
    BY <1>1, <1>2, <1>3
  <1>5. Cardinality(WithChunk(S, h, lows)) = Cardinality(rest) + Cardinality(lows)
    BY <1>2 DEF WithChunk
  <1>6. Cardinality(rest) \in Nat /\ Cardinality(here) \in Nat /\ Cardinality(lows) \in Nat
    BY <1>1, <1>2
  <1> HIDE DEF here, rest
  <1>7. Cardinality(WithChunk(S, h, lows)) = Cardinality(S) + Cardinality(lows) - Cardinality(here)
    BY <1>4, <1>5, <1>6
  <1> QED
    BY <1>7 DEF here

\* Replacing a container replaces what the bitmap's set has in the chunk, and keeps count.
LEMMA ReplacedStored ==
    ASSUME NEW b, NEW S \in SUBSET Values, WellStored(b, S),
           NEW h \in ChunkIndex, NEW kind, NEW lows \in SUBSET Remainders
    PROVE  WellStored(Replaced(b, h, kind, lows), WithChunk(S, h, lows))
  <1> DEFINE T == WithChunk(S, h, lows)
             c == Replaced(b, h, kind, lows)
             old == b.containers
             new == IF lows = {} THEN Restrict(old, DOMAIN old \ {h})
                    ELSE [k \in DOMAIN old \cup {h} |-> IF k = h THEN Container(kind, lows) ELSE old[k]]
             n == b.cardinality + Cardinality(lows) - Cardinality(LowsAt(b, h))
  <1>1. /\ T \in SUBSET Values
        /\ \A k \in ChunkIndex : InChunk(T, k) = IF k = h THEN lows ELSE InChunk(S, k)
    BY WithChunkParts
  <1>2. c = [containers |-> new, cardinality |-> n]
    BY DEF Replaced
  <1>3. n = Cardinality(T) /\ n \in Nat
    <2>1. LowsAt(b, h) = InChunk(S, h) /\ b.cardinality = Cardinality(S)
      BY LowsRead DEF WellStored, ChunkIndex
    <2>2. n = Cardinality(T)
      BY <2>1, WithChunkCount
    <2> QED
      BY <1>1, <2>2, FiniteValues
  <1>4. ChunkKeys(T) = IF lows = {} THEN ChunkKeys(S) \ {h} ELSE ChunkKeys(S) \cup {h}
    BY <1>1 DEF ChunkKeys
  <1>5. DOMAIN old = ChunkKeys(S) /\ \A k \in ChunkKeys(S) : Holds(old[k], InChunk(S, k))
    BY DEF WellStored
  <1>6. DOMAIN new = ChunkKeys(T) /\ new = [k \in ChunkKeys(T) |-> new[k]]
    BY <1>4, <1>5 DEF Restrict
  <1>7. ASSUME NEW k \in ChunkKeys(T) PROVE Holds(new[k], InChunk(T, k))
    <2>1. CASE k = h
      <3>1. lows # {} /\ InChunk(T, k) = lows
        BY <1>1, <1>4, <2>1
      <3>2. new[k] = Container(kind, lows)
        BY <2>1, <3>1
      <3> QED
        BY <3>1, <3>2, ContainerHolds
    <2>2. CASE k # h
      <3>1. k \in ChunkKeys(S) /\ k \in ChunkIndex /\ InChunk(T, k) = InChunk(S, k)
        BY <1>1, <1>4, <2>2 DEF ChunkKeys
      <3>2. new[k] = old[k]
        BY <1>5, <2>2, <3>1 DEF Restrict
      <3> QED
        BY <1>5, <3>1, <3>2
    <2> QED
      BY <2>1, <2>2
  <1> HIDE DEF new, n, T, old
  <1>8. c \in BitmapRecord
    <2>1. \A k \in ChunkKeys(T) : new[k] \in ContainerRecord
      BY <1>7, InChunkType, HoldsType
    <2>2. ChunkKeys(T) \in SUBSET ChunkIndex
      BY DEF ChunkKeys
    <2>3. new \in [ChunkKeys(T) -> ContainerRecord]
      BY <1>6, <2>1
    <2> QED
      BY <1>2, <1>3, <2>2, <2>3 DEF BitmapRecord
  <1>9. c.containers = new /\ c.cardinality = n
    BY <1>2
  <1> HIDE DEF c
  <1>10. WellStored(c, T)
    BY <1>3, <1>6, <1>7, <1>8, <1>9 DEF WellStored
  <1> QED
    BY <1>10 DEF c, T

----------------------------------------------------------------------------
(* Values and ranges are added and removed.                                 *)

LEMMA CreateStored == WellStored(fc_roaring_create, {})
  <1>1. ChunkKeys({}) = {}
    BY DEF ChunkKeys, InChunk
  <1>2. Cardinality({}) = 0
    BY FS_EmptySet
  <1>3. <<>> \in [{} -> ContainerRecord] /\ DOMAIN <<>> = {}
    OBVIOUS
  <1>4. <<>> \in UNION {[D -> ContainerRecord] : D \in SUBSET ChunkIndex}
    BY <1>3
  <1>5. fc_roaring_create \in BitmapRecord
    BY <1>4 DEF fc_roaring_create, BitmapRecord
  <1> QED
    BY <1>1, <1>2, <1>3, <1>5 DEF WellStored, fc_roaring_create

\* A value is in a set when its remainder is in what the set has in its chunk.
LEMMA Membership ==
    ASSUME NEW S \in SUBSET Values, NEW v \in Values
    PROVE  /\ v \in Int /\ High(v) \in ChunkIndex /\ High(v) \in Int /\ Low(v) \in Remainders
           /\ v = High(v) * Chunk + Low(v)
           /\ v \in S <=> Low(v) \in InChunk(S, High(v))
  <1>1. v \in Int
    BY FiniteValues
  <1>2. /\ High(v) \in ChunkIndex /\ High(v) \in Int /\ Low(v) \in Remainders
        /\ v = High(v) * Chunk + Low(v)
    BY <1>1, PartsOf, ValueParts DEF ChunkIndex
  <1>3. v \in S <=> High(v) \in ChunkKeys(S) /\ Low(v) \in InChunk(S, High(v))
    BY <1>1, ChunkOfValue
  <1> QED
    BY <1>1, <1>2, <1>3 DEF ChunkKeys

\* What a replaced container makes of a bitmap's set, told value by value.
LEMMA ReplacedSet ==
    ASSUME NEW b, NEW S \in SUBSET Values, WellStored(b, S), NEW T \in SUBSET Values,
           NEW h \in ChunkIndex, NEW kind, NEW lows \in SUBSET Remainders,
           \A v \in Values : v \in T <=> IF High(v) = h THEN Low(v) \in lows ELSE v \in S
    PROVE  WellStored(Replaced(b, h, kind, lows), T)
  <1>1. /\ WithChunk(S, h, lows) \in SUBSET Values
        /\ \A v \in Int : v \in WithChunk(S, h, lows) <=>
                            IF High(v) = h THEN Low(v) \in lows ELSE v \in S
    BY WithChunkParts
  <1>2. Values \in SUBSET Int
    BY FiniteValues
  <1>3. \A v \in Values : v \in WithChunk(S, h, lows) <=> v \in T
    BY <1>1, <1>2
  <1>4. WithChunk(S, h, lows) = T
    BY <1>1, <1>3
  <1> QED
    BY <1>4, ReplacedStored

LEMMA AddStored ==
    ASSUME NEW b, NEW S \in SUBSET Values, WellStored(b, S), NEW v \in Values
    PROVE  WellStored(fc_roaring_add(b, v), S \cup {v})
  <1> DEFINE h == High(v)
             lows == LowsAt(b, h) \cup {Low(v)}
  <1>1. h \in ChunkIndex /\ h \in Int /\ Low(v) \in Remainders /\ v = h * Chunk + Low(v)
    BY Membership
  <1>2. LowsAt(b, h) = InChunk(S, h) /\ lows \in SUBSET Remainders
    BY <1>1, LowsRead, InChunkType
  <1>3. ASSUME NEW w \in Values
        PROVE  w \in S \cup {v} <=> IF High(w) = h THEN Low(w) \in lows ELSE w \in S
    <2>1. w = High(w) * Chunk + Low(w) /\ (w \in S <=> Low(w) \in InChunk(S, High(w)))
      BY Membership
    <2> QED
      BY <1>1, <1>2, <2>1
  <1> HIDE DEF h, lows
  <1>4. WellStored(Replaced(b, h, KindAt(b, h), lows), S \cup {v})
    BY <1>1, <1>2, <1>3, ReplacedSet
  <1> QED
    BY <1>4 DEF fc_roaring_add, h, lows

LEMMA RemoveStored ==
    ASSUME NEW b, NEW S \in SUBSET Values, WellStored(b, S), NEW v \in Values
    PROVE  WellStored(fc_roaring_remove(b, v), S \ {v})
  <1> DEFINE h == High(v)
             lows == LowsAt(b, h) \ {Low(v)}
  <1>1. h \in ChunkIndex /\ h \in Int /\ Low(v) \in Remainders /\ v = h * Chunk + Low(v)
    BY Membership
  <1>2. LowsAt(b, h) = InChunk(S, h) /\ lows \in SUBSET Remainders
    BY <1>1, LowsRead, InChunkType
  <1>3. ASSUME NEW w \in Values
        PROVE  w \in S \ {v} <=> IF High(w) = h THEN Low(w) \in lows ELSE w \in S
    <2>1. w = High(w) * Chunk + Low(w) /\ (w \in S <=> Low(w) \in InChunk(S, High(w)))
      BY Membership
    <2> QED
      BY <1>1, <1>2, <2>1
  <1> HIDE DEF h, lows
  <1>4. WellStored(Replaced(b, h, KindAt(b, h), lows), S \ {v})
    BY <1>1, <1>2, <1>3, ReplacedSet
  <1> QED
    BY <1>4 DEF fc_roaring_remove, h, lows

StoredBitmap == {b \in BitmapRecord : \E S \in SUBSET Values : WellStored(b, S)}

\* A fold keeps a bitmap well stored when each of its steps does.
LEMMA StepsStored ==
    ASSUME NEW n \in Nat, NEW h, NEW sets,
           WellStored(h[1 .. 0], sets[0]),
           \A i \in 0 .. n - 1 : WellStored(h[1 .. i], sets[i]) => WellStored(h[1 .. i + 1], sets[i + 1])
    PROVE  WellStored(h[1 .. n], sets[n])
  <1> DEFINE T == {i \in Nat : i <= n => WellStored(h[1 .. i], sets[i])}
  <1>1. 0 \in T
    OBVIOUS
  <1>2. ASSUME NEW i \in T PROVE i + 1 \in T
    <2>1. i + 1 <= n => i \in 0 .. n - 1 /\ i <= n
      OBVIOUS
    <2> QED
      BY <2>1
  <1>3. T = Nat
    <2> HIDE DEF T
    <2>1. T \in SUBSET Nat
      BY DEF T
    <2> QED
      BY <1>1, <1>2, <2>1, BySteps
  <1> QED
    BY <1>3

LEMMA AddBatchStored ==
    ASSUME NEW b, NEW S \in SUBSET Values, WellStored(b, S),
           NEW n \in Nat, NEW values \in [1 .. n -> Values]
    PROVE  WellStored(fc_roaring_add_batch(b, values), S \cup {values[j] : j \in 1 .. n})
  <1> DEFINE V == StoredBitmap
             g == [p \in V \X (1 .. n) |-> fc_roaring_add(p[1], values[p[2]])]
             sets == [i \in 0 .. n |-> S \cup {values[j] : j \in 1 .. i}]
             Adds(h) == h = [s \in SUBSET (1 .. n) |->
                               IF s = {} THEN b ELSE fc_roaring_add(h[s \ {Max(s)}], values[Max(s)])]
             h == CHOOSE h : Adds(h)
  <1>1. b \in V
    BY DEF StoredBitmap, WellStored
  <1>2. g \in [V \X (1 .. n) -> V]
    <2>1. ASSUME NEW x \in V, NEW i \in 1 .. n PROVE fc_roaring_add(x, values[i]) \in V
      <3>1. PICK R \in SUBSET Values : WellStored(x, R)
        BY DEF StoredBitmap
      <3>2. values[i] \in Values /\ R \cup {values[i]} \in SUBSET Values
        OBVIOUS
      <3>3. WellStored(fc_roaring_add(x, values[i]), R \cup {values[i]})
        BY <3>1, <3>2, AddStored
      <3> QED
        BY <3>2, <3>3 DEF StoredBitmap, WellStored
    <2> QED
      BY <2>1
  <1> HIDE DEF V, g
  <1>3. \E t : Adds(t)
    <2>1. PICK t \in [SUBSET (1 .. n) -> V] : Tabulates(t, n, b, g)
      BY <1>1, <1>2, TableExists
    <2>2. \A s \in SUBSET (1 .. n) : s # {} => Max(s) \in s
      BY <1>1, <1>2, TableExists
    <2>3. ASSUME NEW s \in SUBSET (1 .. n), s # {}
          PROVE  g[<<t[s \ {Max(s)}], Max(s)>>] = fc_roaring_add(t[s \ {Max(s)}], values[Max(s)])
      <3>1. <<t[s \ {Max(s)}], Max(s)>> \in V \X (1 .. n)
        BY <2>2, <2>3
      <3> QED
        BY <3>1 DEF g
    <2>4. t = [s \in SUBSET (1 .. n) |-> t[s]]
      OBVIOUS
    <2>5. \A s \in SUBSET (1 .. n) :
             t[s] = IF s = {} THEN b ELSE fc_roaring_add(t[s \ {Max(s)}], values[Max(s)])
      BY <2>1, <2>3 DEF Tabulates
    <2> QED
      BY <2>4, <2>5
  <1>4. Adds(h)
    BY <1>3
  <1>5. fc_roaring_add_batch(b, values) = h[1 .. n]
    BY DEF fc_roaring_add_batch, FoldLeft, MapThenFoldSet
  <1> HIDE DEF h
  <1>6. WellStored(h[1 .. 0], sets[0])
    <2>1. 1 .. 0 = {} /\ sets[0] = S
      OBVIOUS
    <2>2. h[{}] = b
      BY <1>4
    <2> QED
      BY <2>1, <2>2
  <1>7. ASSUME NEW i \in 0 .. n - 1, WellStored(h[1 .. i], sets[i])
        PROVE  WellStored(h[1 .. i + 1], sets[i + 1])
    <2>1. /\ 1 .. i + 1 \in SUBSET (1 .. n) /\ 1 .. i + 1 # {}
          /\ Max(1 .. i + 1) = i + 1 /\ (1 .. i + 1) \ {i + 1} = 1 .. i
      BY TableBySteps
    <2>2. \A s \in SUBSET (1 .. n) :
             s # {} => h[s] = fc_roaring_add(h[s \ {Max(s)}], values[Max(s)])
      BY <1>4
    <2>3. h[1 .. i + 1] = fc_roaring_add(h[1 .. i], values[i + 1])
      BY <2>1, <2>2
    <2>4. sets[i] \in SUBSET Values /\ sets[i + 1] = sets[i] \cup {values[i + 1]}
      <3>1. i \in 0 .. n /\ i + 1 \in 0 .. n /\ \A j \in 1 .. i + 1 : j \in 1 .. i \/ j = i + 1
        OBVIOUS
      <3>2. \A j \in 1 .. i : j \in 1 .. i + 1 /\ j \in 1 .. n
        OBVIOUS
      <3>3. i + 1 \in 1 .. i + 1 /\ i + 1 \in 1 .. n
        OBVIOUS
      <3> QED
        BY <3>1, <3>2, <3>3
    <2> HIDE DEF sets
    <2>5. values[i + 1] \in Values
      OBVIOUS
    <2> QED
      BY <1>7, <2>3, <2>4, <2>5, AddStored
  <1>8. WellStored(h[1 .. n], sets[n])
    <2> HIDE DEF sets
    <2> QED
      BY <1>6, <1>7, StepsStored
  <1> QED
    BY <1>5, <1>8

\* The quotients of values are ordered as the values are.
LEMMA HighRises ==
    ASSUME NEW v \in Values, NEW w \in Values
    PROVE  /\ v <= w => High(v) <= High(w)
           /\ High(v) < High(w) => v < w
           /\ High(v) = High(w) => (v < w <=> Low(v) < Low(w))
  <1>1. /\ v \in Int /\ High(v) \in Int /\ Low(v) \in Remainders /\ v = High(v) * Chunk + Low(v)
        /\ w \in Int /\ High(w) \in Int /\ Low(w) \in Remainders /\ w = High(w) * Chunk + Low(w)
    BY Membership
  <1>2. PICK h \in Int, k \in Int, l \in Remainders, r \in Remainders :
           h = High(v) /\ k = High(w) /\ l = Low(v) /\ r = Low(w)
    BY <1>1
  <1>3. /\ h < k => h * Chunk + l < k * Chunk + r
        /\ h = k => (h * Chunk + l < k * Chunk + r <=> l < r)
    BY PartsOrder
  <1>4. k < h => k * Chunk + r < h * Chunk + l
    BY PartsOrder
  <1>5. v = h * Chunk + l /\ w = k * Chunk + r
    BY <1>1, <1>2
  <1>6. High(v) < High(w) => v < w
    BY <1>2, <1>3, <1>5
  <1>7. High(v) = High(w) => (v < w <=> Low(v) < Low(w))
    BY <1>2, <1>3, <1>5
  <1>8. High(w) < High(v) => w < v
    BY <1>2, <1>4, <1>5
  <1> QED
    BY <1>1, <1>6, <1>7, <1>8

\* What a range takes of a chunk it goes through.
LEMMA RangeParts ==
    ASSUME NEW min \in Values, NEW max \in Values, min < max
    PROVE  /\ max - 1 \in Values /\ High(min) \in ChunkIndex /\ High(max - 1) \in ChunkIndex
           /\ High(min) <= High(max - 1)
           /\ \A h \in High(min) .. High(max - 1) :
                 /\ h \in ChunkIndex /\ RangeIn(h, min, max) \in SUBSET Remainders
                 /\ \A v \in Values : High(v) = h => (Low(v) \in RangeIn(h, min, max) <=> v \in min .. max - 1)
           /\ \A v \in Values : v \in min .. max - 1 => High(v) \in High(min) .. High(max - 1)
  <1>1. max - 1 \in Values
    <2>1. min \in Int /\ max \in Int /\ Chunk * ChunkCount - 1 \in Int
      BY Membership, RoaringConstants
    <2> QED
      BY <2>1 DEF Values
  <1>2. PICK last \in Values : last = max - 1
    BY <1>1
  <1>3. /\ min \in Int /\ last \in Int
        /\ High(min) \in ChunkIndex /\ High(min) \in Int /\ Low(min) \in Remainders
        /\ High(last) \in ChunkIndex /\ High(last) \in Int /\ Low(last) \in Remainders
        /\ min <= last
    <2>1. /\ min \in Int /\ High(min) \in ChunkIndex /\ High(min) \in Int /\ Low(min) \in Remainders
      BY Membership
    <2>2. /\ last \in Int /\ High(last) \in ChunkIndex /\ High(last) \in Int /\ Low(last) \in Remainders
      BY Membership
    <2>3. max \in Int
      BY Membership
    <2> QED
      BY <1>2, <2>1, <2>2, <2>3
  <1>4. High(min) <= High(last)
    BY <1>3, HighRises
  <1>5. ASSUME NEW h \in High(min) .. High(last)
        PROVE  /\ h \in ChunkIndex /\ RangeIn(h, min, max) \in SUBSET Remainders
               /\ \A v \in Values : High(v) = h => (Low(v) \in RangeIn(h, min, max) <=> v \in min .. last)
    <2>1. h \in ChunkIndex
      BY <1>3, RoaringConstants DEF ChunkIndex
    <2>2. RangeIn(h, min, max) = (IF h = High(min) THEN Low(min) ELSE 0)
                                    .. (IF h = High(last) THEN Low(last) ELSE Chunk - 1)
      BY <1>2 DEF RangeIn
    <2>3. RangeIn(h, min, max) \in SUBSET Remainders
      BY <1>3, <2>2, RoaringConstants DEF Remainders
    <2>4. ASSUME NEW v \in Values, High(v) = h
          PROVE  Low(v) \in RangeIn(h, min, max) <=> v \in min .. last
      <3>1. v \in Int /\ Low(v) \in Remainders
        BY Membership
      <3>2. v < min <=> h = High(min) /\ Low(v) < Low(min)
        <4>1. High(min) < High(v) => min < v
          BY HighRises
        <4>2. High(v) = High(min) => (v < min <=> Low(v) < Low(min))
          BY HighRises
        <4> QED
          BY <1>3, <2>4, <3>1, <4>1, <4>2
      <3>3. last < v <=> h = High(last) /\ Low(last) < Low(v)
        <4>1. High(v) < High(last) => v < last
          BY HighRises
        <4>2. High(last) = High(v) => (last < v <=> Low(last) < Low(v))
          BY HighRises
        <4> QED
          BY <1>3, <2>4, <3>1, <4>1, <4>2
      <3> QED
        BY <1>3, <2>2, <3>1, <3>2, <3>3, RoaringConstants DEF Remainders
    <2> QED
      BY <2>1, <2>3, <2>4
  <1>6. ASSUME NEW v \in Values, v \in min .. last PROVE High(v) \in High(min) .. High(last)
    <2>1. High(v) \in Int /\ v \in Int
      BY Membership
    <2>2. High(min) <= High(v)
      BY <1>3, <1>6, HighRises
    <2>3. High(v) <= High(last)
      BY <1>3, <1>6, HighRises
    <2> QED
      BY <1>3, <2>1, <2>2, <2>3
  <1> QED
    BY <1>1, <1>2, <1>3, <1>4, <1>5, <1>6

\* A range is added to a chunk, or removed from it.
RangeStep(adding, b, h, min, max) ==
    Replaced(b, h, KindAt(b, h), IF adding THEN LowsAt(b, h) \cup RangeIn(h, min, max)
                                 ELSE LowsAt(b, h) \ RangeIn(h, min, max))

\* A set when a range has been added to, or removed from, the chunks below h.
RangeBelow(adding, S, h, min, max) ==
    LET passed == {v \in min .. max - 1 : High(v) < h}
    IN  IF adding THEN S \cup passed ELSE S \ passed

LEMMA RangeStepStored ==
    ASSUME NEW b, NEW S \in SUBSET Values, NEW adding \in BOOLEAN,
           NEW min \in Values, NEW max \in Values, min < max,
           NEW h \in High(min) .. High(max - 1),
           WellStored(b, RangeBelow(adding, S, h, min, max))
    PROVE  WellStored(RangeStep(adding, b, h, min, max), RangeBelow(adding, S, h + 1, min, max))
  <1> DEFINE R == RangeBelow(adding, S, h, min, max)
             T == RangeBelow(adding, S, h + 1, min, max)
             range == RangeIn(h, min, max)
             lows == IF adding THEN LowsAt(b, h) \cup range ELSE LowsAt(b, h) \ range
  <1>1. /\ h \in ChunkIndex /\ h \in Int /\ range \in SUBSET Remainders
        /\ \A v \in Values : High(v) = h => (Low(v) \in range <=> v \in min .. max - 1)
    BY RangeParts DEF ChunkIndex
  <1>2. min .. max - 1 \subseteq Values
    <2>1. min \in Int /\ max \in Int /\ Chunk * ChunkCount - 1 \in Int
      BY Membership, RoaringConstants
    <2> QED
      BY <2>1 DEF Values
  <1>3. R \in SUBSET Values /\ T \in SUBSET Values
    BY <1>2 DEF RangeBelow
  <1>4. LowsAt(b, h) = InChunk(R, h) /\ lows \in SUBSET Remainders
    <2>1. LowsAt(b, h) = InChunk(R, h)
      BY <1>1, <1>3, LowsRead
    <2> QED
      BY <1>1, <2>1, InChunkType
  <1>5. ASSUME NEW v \in Values
        PROVE  v \in T <=> IF High(v) = h THEN Low(v) \in lows ELSE v \in R
    <2>1. High(v) \in Int /\ (v \in R <=> Low(v) \in InChunk(R, High(v)))
      BY <1>3, Membership
    <2>2. High(v) < h + 1 <=> High(v) < h \/ High(v) = h
      BY <1>1, <2>1
    <2>3. High(v) = h => ~(High(v) < h)
      BY <1>1
    <2>4. CASE High(v) = h
      <3>1. Low(v) \in range <=> v \in min .. max - 1
        BY <1>1, <2>4
      <3>2. v \in R <=> Low(v) \in LowsAt(b, h)
        BY <1>4, <2>1, <2>4
      <3>3. v \in T <=> IF adding THEN v \in S \/ v \in min .. max - 1 ELSE v \in S /\ v \notin min .. max - 1
        BY <2>2, <2>4 DEF RangeBelow
      <3>4. v \in R <=> v \in S
        BY <2>3, <2>4 DEF RangeBelow
      <3>5. Low(v) \in lows <=> IF adding THEN Low(v) \in LowsAt(b, h) \/ Low(v) \in range
                                ELSE Low(v) \in LowsAt(b, h) /\ Low(v) \notin range
        OBVIOUS
      <3> HIDE DEF T, R, range, lows
      <3> QED
        BY <2>4, <3>1, <3>2, <3>3, <3>4, <3>5
    <2>5. CASE High(v) # h
      BY <2>2, <2>5 DEF RangeBelow
    <2> QED
      BY <2>4, <2>5
  <1>6. RangeStep(adding, b, h, min, max) = Replaced(b, h, KindAt(b, h), lows)
    BY DEF RangeStep
  <1>7. WellStored(b, R)
    OBVIOUS
  <1> HIDE DEF R, T, range, lows
  <1>8. WellStored(Replaced(b, h, KindAt(b, h), lows), T)
    BY <1>1, <1>3, <1>4, <1>5, <1>7, ReplacedSet
  <1> QED
    BY <1>6, <1>8 DEF T

\* A table of a range's steps through chunks.
RangeTable(h, adding, b, n, chunks, min, max) ==
    h = [s \in SUBSET (1 .. n) |->
            IF s = {} THEN b ELSE RangeStep(adding, h[s \ {Max(s)}], chunks[Max(s)], min, max)]

LEMMA ChunksType ==
    ASSUME NEW min \in Values, NEW max \in Values
    PROVE  \E n \in Nat :
              /\ Chunks(min, max) \in [1 .. n -> ChunkIndex]
              /\ DOMAIN Chunks(min, max) = 1 .. n
              /\ min < max =>
                    /\ n = High(max - 1) - High(min) + 1
                    /\ \A i \in 1 .. n : /\ Chunks(min, max)[i] = High(min) + i - 1
                                         /\ High(min) + i - 1 \in High(min) .. High(max - 1)
              /\ ~(min < max) => n = 0
  <1>1. CASE min < max
    <2>1. /\ High(min) \in ChunkIndex /\ High(max - 1) \in ChunkIndex /\ High(min) <= High(max - 1)
          /\ \A h \in High(min) .. High(max - 1) : h \in ChunkIndex
      BY <1>1, RangeParts
    <2>2. PICK a \in Nat, z \in Nat : a = High(min) /\ z = High(max - 1)
      BY <2>1 DEF ChunkIndex
    <2>3. z - a + 1 \in Nat /\ \A i \in 1 .. z - a + 1 : a + i - 1 \in a .. z
      BY <2>1, <2>2
    <2>4. Chunks(min, max) = [i \in 1 .. z - a + 1 |-> a + i - 1]
      BY <1>1, <2>2 DEF Chunks
    <2> QED
      BY <1>1, <2>1, <2>2, <2>3, <2>4
  <1>2. CASE ~(min < max)
    <2>1. Chunks(min, max) = <<>>
      BY <1>2 DEF Chunks
    <2>2. DOMAIN <<>> = 1 .. 0 /\ <<>> \in [1 .. 0 -> ChunkIndex] /\ 0 \in Nat
      OBVIOUS
    <2> QED
      BY <1>2, <2>1, <2>2
  <1> QED
    BY <1>1, <1>2

LEMMA RangeTableExists ==
    ASSUME NEW b, NEW S \in SUBSET Values, WellStored(b, S), NEW adding \in BOOLEAN,
           NEW min \in Values, NEW max \in Values,
           NEW n \in Nat, NEW chunks \in [1 .. n -> ChunkIndex]
    PROVE  \E h : RangeTable(h, adding, b, n, chunks, min, max)
  <1> DEFINE V == StoredBitmap
             g == [p \in V \X (1 .. n) |-> RangeStep(adding, p[1], chunks[p[2]], min, max)]
  <1>1. b \in V
    BY DEF StoredBitmap, WellStored
  <1>2. g \in [V \X (1 .. n) -> V]
    <2>1. ASSUME NEW x \in V, NEW k \in ChunkIndex PROVE RangeStep(adding, x, k, min, max) \in V
      <3> DEFINE range == RangeIn(k, min, max)
                 lows == IF adding THEN LowsAt(x, k) \cup range ELSE LowsAt(x, k) \ range
      <3>1. PICK R \in SUBSET Values : WellStored(x, R)
        BY DEF StoredBitmap
      <3>2. LowsAt(x, k) \in SUBSET Remainders
        BY <3>1, LowsRead, InChunkType DEF ChunkIndex
      <3>3. range \in SUBSET Remainders
        <4>1. min \in Int /\ max \in Int
          BY FiniteValues
        <4>2. Low(min) \in Remainders /\ Low(max - 1) \in Remainders
          <5>1. max - 1 \in Int
            BY <4>1
          <5> QED
            BY <4>1, <5>1, PartsOf
        <4> QED
          BY <4>2, RoaringConstants DEF RangeIn, Remainders
      <3>4. lows \in SUBSET Remainders
        BY <3>2, <3>3
      <3>5. RangeStep(adding, x, k, min, max) = Replaced(x, k, KindAt(x, k), lows)
        BY DEF RangeStep
      <3> HIDE DEF lows, range
      <3>6. WellStored(Replaced(x, k, KindAt(x, k), lows), WithChunk(R, k, lows))
        BY <3>1, <3>4, ReplacedStored
      <3>7. WithChunk(R, k, lows) \in SUBSET Values
        BY <3>4, WithChunkParts
      <3> QED
        BY <3>5, <3>6, <3>7 DEF StoredBitmap, WellStored
    <2>2. \A i \in 1 .. n : chunks[i] \in ChunkIndex
      OBVIOUS
    <2> QED
      BY <2>1, <2>2
  <1> HIDE DEF V, g
  <1>3. PICK t \in [SUBSET (1 .. n) -> V] : Tabulates(t, n, b, g)
    BY <1>1, <1>2, TableExists
  <1>4. \A s \in SUBSET (1 .. n) : s # {} => Max(s) \in s
    BY <1>1, <1>2, TableExists
  <1>5. ASSUME NEW s \in SUBSET (1 .. n), s # {}
        PROVE  g[<<t[s \ {Max(s)}], Max(s)>>] = RangeStep(adding, t[s \ {Max(s)}], chunks[Max(s)], min, max)
    <2>1. <<t[s \ {Max(s)}], Max(s)>> \in V \X (1 .. n)
      BY <1>4, <1>5
    <2> QED
      BY <2>1 DEF g
  <1>6. t = [s \in SUBSET (1 .. n) |-> t[s]]
    OBVIOUS
  <1>7. \A s \in SUBSET (1 .. n) :
           t[s] = IF s = {} THEN b ELSE RangeStep(adding, t[s \ {Max(s)}], chunks[Max(s)], min, max)
    BY <1>3, <1>5 DEF Tabulates
  <1>8. RangeTable(t, adding, b, n, chunks, min, max)
    BY <1>6, <1>7 DEF RangeTable
  <1> QED
    BY <1>8

\* Going through all the chunks of a range deals with all of the range.
LEMMA RangeTableStored ==
    ASSUME NEW b, NEW S \in SUBSET Values, WellStored(b, S), NEW adding \in BOOLEAN,
           NEW min \in Values, NEW max \in Values, NEW n \in Nat, NEW h,
           DOMAIN Chunks(min, max) = 1 .. n,
           RangeTable(h, adding, b, n, Chunks(min, max), min, max)
    PROVE  WellStored(h[1 .. n], IF adding THEN S \cup min .. max - 1 ELSE S \ (min .. max - 1))
  <1> DEFINE chunks == Chunks(min, max)
             first == High(min)
             sets == [i \in 0 .. n |-> RangeBelow(adding, S, first + i, min, max)]
  <1>1. PICK m \in Nat :
           /\ DOMAIN chunks = 1 .. m
           /\ min < max =>
                /\ m = High(max - 1) - first + 1
                /\ \A i \in 1 .. m : chunks[i] = first + i - 1 /\ first + i - 1 \in first .. High(max - 1)
           /\ ~(min < max) => m = 0
    BY ChunksType
  <1>2. m = n
    <2>1. 1 .. m = 1 .. n
      BY <1>1
    <2> HIDE DEF chunks
    <2>2. m \in 1 .. m \/ m = 0
      OBVIOUS
    <2>3. n \in 1 .. n \/ n = 0
      OBVIOUS
    <2> QED
      BY <2>1, <2>2, <2>3
  <1>3. h[{}] = b /\ \A s \in SUBSET (1 .. n) :
                        s # {} => h[s] = RangeStep(adding, h[s \ {Max(s)}], chunks[Max(s)], min, max)
    BY DEF RangeTable
  <1>4. min \in Int /\ max \in Int /\ first \in Int /\ min .. max - 1 \subseteq Values
    <2>1. min \in Int /\ max \in Int /\ first \in Int
      BY Membership
    <2>2. Chunk * ChunkCount - 1 \in Int
      BY RoaringConstants
    <2> QED
      BY <2>1, <2>2 DEF Values
  <1>5. CASE ~(min < max)
    <2>1. n = 0 /\ 1 .. n = {}
      BY <1>1, <1>2, <1>5
    <2>2. min .. max - 1 = {}
      BY <1>4, <1>5
    <2> QED
      BY <1>3, <2>1, <2>2
  <1>6. CASE min < max
    <2>1. /\ n = High(max - 1) - first + 1
          /\ \A i \in 1 .. n : chunks[i] = first + i - 1 /\ first + i - 1 \in first .. High(max - 1)
      BY <1>1, <1>2, <1>6
    <2>2. \A v \in min .. max - 1 : High(v) \in first .. High(max - 1)
      BY <1>4, <1>6, RangeParts
    <2>3. WellStored(h[1 .. 0], sets[0])
      <3>1. 1 .. 0 = {} /\ 0 \in 0 .. n
        OBVIOUS
      <3>2. \A v \in min .. max - 1 : ~(High(v) < first + 0)
        BY <1>4, <2>2
      <3>3. RangeBelow(adding, S, first + 0, min, max) = S
        BY <3>2 DEF RangeBelow
      <3> QED
        BY <1>3, <3>1, <3>3
    <2>4. ASSUME NEW i \in 0 .. n - 1, WellStored(h[1 .. i], sets[i])
          PROVE  WellStored(h[1 .. i + 1], sets[i + 1])
      <3>1. /\ 1 .. i + 1 \in SUBSET (1 .. n) /\ 1 .. i + 1 # {}
            /\ Max(1 .. i + 1) = i + 1 /\ (1 .. i + 1) \ {i + 1} = 1 .. i
        BY TableBySteps
      <3>2. h[1 .. i + 1] = RangeStep(adding, h[1 .. i], chunks[i + 1], min, max)
        BY <1>3, <3>1
      <3>3. i \in 0 .. n /\ i + 1 \in 0 .. n /\ i + 1 \in 1 .. n /\ first + (i + 1) - 1 = first + i
            /\ (first + i) + 1 = first + (i + 1)
        BY <1>4
      <3>4. chunks[i + 1] = first + i /\ first + i \in first .. High(max - 1)
        BY <2>1, <3>3
      <3>5. /\ sets[i] = RangeBelow(adding, S, first + i, min, max)
            /\ sets[i + 1] = RangeBelow(adding, S, (first + i) + 1, min, max)
        BY <3>3
      <3>6. WellStored(h[1 .. i], RangeBelow(adding, S, first + i, min, max))
        BY <2>4, <3>5
      <3> HIDE DEF sets, chunks
      <3>7. PICK k \in first .. High(max - 1) : k = first + i
        BY <3>4
      <3>8. WellStored(h[1 .. i], RangeBelow(adding, S, k, min, max))
        BY <3>6, <3>7
      <3> HIDE DEF first
      <3>9. WellStored(RangeStep(adding, h[1 .. i], k, min, max), RangeBelow(adding, S, k + 1, min, max))
        BY <1>6, <3>7, <3>8, RangeStepStored DEF first
      <3> QED
        BY <3>2, <3>4, <3>5, <3>7, <3>9
    <2>5. WellStored(h[1 .. n], sets[n])
      <3> HIDE DEF sets
      <3> QED
        BY <2>3, <2>4, StepsStored
    <2>6. sets[n] = IF adding THEN S \cup min .. max - 1 ELSE S \ (min .. max - 1)
      <3>1. n \in 0 .. n /\ first + n = High(max - 1) + 1 /\ High(max - 1) \in Int
        <4>1. High(max - 1) \in ChunkIndex
          BY <1>6, RangeParts
        <4> QED
          BY <1>4, <2>1, <4>1 DEF ChunkIndex
      <3>2. \A v \in min .. max - 1 : High(v) < first + n
        BY <1>4, <2>2, <3>1
      <3>3. {v \in min .. max - 1 : High(v) < first + n} = min .. max - 1
        BY <3>2
      <3> QED
        BY <3>1, <3>3 DEF RangeBelow
    <2> QED
      BY <2>5, <2>6
  <1> QED
    BY <1>5, <1>6

LEMMA AddRangeStored ==
    ASSUME NEW b, NEW S \in SUBSET Values, WellStored(b, S), NEW min \in Values, NEW max \in Values
    PROVE  WellStored(fc_roaring_add_range(b, min, max), S \cup min .. max - 1)
  <1> DEFINE c == Chunks(min, max)
             Adds(h) == h = [s \in SUBSET (DOMAIN c) |->
                               IF s = {} THEN b
                               ELSE Replaced(h[s \ {Max(s)}], c[Max(s)], KindAt(h[s \ {Max(s)}], c[Max(s)]),
                                             LowsAt(h[s \ {Max(s)}], c[Max(s)])
                                                \cup RangeIn(c[Max(s)], min, max))]
             h == CHOOSE h : Adds(h)
  <1>1. fc_roaring_add_range(b, min, max) = h[DOMAIN c]
    BY DEF fc_roaring_add_range, FoldLeft, MapThenFoldSet
  <1>2. PICK n \in Nat : c \in [1 .. n -> ChunkIndex] /\ DOMAIN c = 1 .. n
    BY ChunksType
  <1>3. ASSUME NEW t PROVE Adds(t) <=> RangeTable(t, TRUE, b, n, c, min, max)
    BY <1>2 DEF RangeTable, RangeStep
  <1> HIDE DEF c
  <1>4. \E t : RangeTable(t, TRUE, b, n, c, min, max)
    BY <1>2, RangeTableExists
  <1>5. RangeTable(h, TRUE, b, n, c, min, max)
    <2>1. \E t : Adds(t)
      BY <1>3, <1>4
    <2>2. Adds(h)
      BY <2>1
    <2> HIDE DEF h
    <2> QED
      BY <1>3, <2>2
  <1> HIDE DEF h
  <1>6. WellStored(h[1 .. n], IF TRUE THEN S \cup min .. max - 1 ELSE S \ (min .. max - 1))
    BY <1>2, <1>5, RangeTableStored DEF c
  <1> QED
    BY <1>1, <1>2, <1>6

LEMMA RemoveRangeStored ==
    ASSUME NEW b, NEW S \in SUBSET Values, WellStored(b, S), NEW min \in Values, NEW max \in Values
    PROVE  WellStored(fc_roaring_remove_range(b, min, max), S \ (min .. max - 1))
  <1> DEFINE c == Chunks(min, max)
             Removes(h) == h = [s \in SUBSET (DOMAIN c) |->
                                  IF s = {} THEN b
                                  ELSE Replaced(h[s \ {Max(s)}], c[Max(s)], KindAt(h[s \ {Max(s)}], c[Max(s)]),
                                                LowsAt(h[s \ {Max(s)}], c[Max(s)])
                                                   \ RangeIn(c[Max(s)], min, max))]
             h == CHOOSE h : Removes(h)
  <1>1. fc_roaring_remove_range(b, min, max) = h[DOMAIN c]
    BY DEF fc_roaring_remove_range, FoldLeft, MapThenFoldSet
  <1>2. PICK n \in Nat : c \in [1 .. n -> ChunkIndex] /\ DOMAIN c = 1 .. n
    BY ChunksType
  <1>3. ASSUME NEW t PROVE Removes(t) <=> RangeTable(t, FALSE, b, n, c, min, max)
    BY <1>2 DEF RangeTable, RangeStep
  <1> HIDE DEF c
  <1>4. \E t : RangeTable(t, FALSE, b, n, c, min, max)
    BY <1>2, RangeTableExists
  <1>5. RangeTable(h, FALSE, b, n, c, min, max)
    <2>1. \E t : Removes(t)
      BY <1>3, <1>4
    <2>2. Removes(h)
      BY <2>1
    <2> HIDE DEF h
    <2> QED
      BY <1>3, <2>2
  <1> HIDE DEF h
  <1>6. WellStored(h[1 .. n], IF FALSE THEN S \cup min .. max - 1 ELSE S \ (min .. max - 1))
    BY <1>2, <1>5, RangeTableStored DEF c
  <1> QED
    BY <1>1, <1>2, <1>6

----------------------------------------------------------------------------
(* Set operations.                                                          *)

\* The elements of a set in some chunks.
InChunks(T, s) == {v \in T : High(v) \in s}

LEMMA OneChunkMore ==
    ASSUME NEW T \in SUBSET Values, NEW s \in SUBSET ChunkIndex, NEW x \in s
    PROVE  /\ Cardinality(InChunks(T, s)) = Cardinality(InChunk(T, x)) + Cardinality(InChunks(T, s \ {x}))
           /\ InChunks(T, s) \in SUBSET Values
  <1> DEFINE R == InChunks(T, s)
  <1>1. R \in SUBSET Values /\ InChunks(T, s \ {x}) \in SUBSET Values
    BY DEF InChunks
  <1>2. InChunk(R, x) = InChunk(T, x)
    <2>1. ASSUME NEW l \in Remainders PROVE x * Chunk + l \in R <=> x * Chunk + l \in T
      <3>1. High(x * Chunk + l) = x
        BY PartsPut DEF ChunkIndex
      <3> QED
        BY <3>1 DEF InChunks
    <2> HIDE DEF R
    <2> QED
      BY <2>1 DEF InChunk
  <1>3. WithChunk(R, x, {}) = InChunks(T, s \ {x})
    <2>1. ValuesOf(x, {}) = {}
      BY DEF ValuesOf
    <2>2. Beside(R, x) = InChunks(T, s \ {x})
      BY DEF Beside, InChunks
    <2> QED
      BY <2>1, <2>2 DEF WithChunk
  <1>4. Cardinality(WithChunk(R, x, {})) = Cardinality(R) + Cardinality({}) - Cardinality(InChunk(R, x))
    <2>1. {} \in SUBSET Remainders /\ x \in ChunkIndex
      OBVIOUS
    <2> HIDE DEF R
    <2> QED
      BY <1>1, <2>1, WithChunkCount
  <1>5. Cardinality(R) \in Nat /\ Cardinality(InChunk(T, x)) \in Nat /\ Cardinality(InChunks(T, s \ {x})) \in Nat
        /\ Cardinality({}) = 0
    <2>1. Cardinality(R) \in Nat /\ Cardinality(InChunks(T, s \ {x})) \in Nat
      BY <1>1, FiniteValues
    <2>2. Cardinality(InChunk(T, x)) \in Nat
      BY InChunkType, FiniteRemainders
    <2> QED
      BY <2>1, <2>2, FS_EmptySet
  <1> HIDE DEF R
  <1>6. Cardinality(R) = Cardinality(InChunk(T, x)) + Cardinality(InChunks(T, s \ {x}))
    BY <1>2, <1>3, <1>4, <1>5
  <1> QED
    BY <1>1, <1>6 DEF R

\* A table of the numbers of elements in sets of chunks.
SumTable(t, hs, T) ==
    t = [s \in SUBSET hs |->
            IF s = {} THEN 0
            ELSE Cardinality(InChunk(T, CHOOSE x \in s : TRUE)) + t[s \ {CHOOSE x \in s : TRUE}]]

LEMMA SumTableExists ==
    ASSUME NEW T \in SUBSET Values, NEW hs \in SUBSET ChunkIndex
    PROVE  \E t : SumTable(t, hs, T)
  <1> DEFINE t == [s \in SUBSET hs |-> Cardinality(InChunks(T, s))]
  <1>1. ASSUME NEW s \in SUBSET hs
        PROVE  t[s] = IF s = {} THEN 0
                      ELSE Cardinality(InChunk(T, CHOOSE x \in s : TRUE)) + t[s \ {CHOOSE x \in s : TRUE}]
    <2>1. CASE s = {}
      <3>1. InChunks(T, s) = {}
        BY <2>1 DEF InChunks
      <3> QED
        BY <2>1, <3>1, FS_EmptySet
    <2>2. CASE s # {}
      <3>1. PICK x \in s : x = CHOOSE y \in s : TRUE
        BY <2>2
      <3>2. s \in SUBSET ChunkIndex /\ s \ {x} \in SUBSET hs
        OBVIOUS
      <3>3. Cardinality(InChunks(T, s)) = Cardinality(InChunk(T, x)) + Cardinality(InChunks(T, s \ {x}))
        BY <3>2, OneChunkMore
      <3> QED
        BY <2>2, <3>1, <3>2, <3>3
    <2> QED
      BY <2>1, <2>2
  <1>2. t = [s \in SUBSET hs |-> t[s]]
    OBVIOUS
  <1> HIDE DEF t
  <1>3. SumTable(t, hs, T)
    BY <1>1, <1>2 DEF SumTable
  <1> QED
    BY <1>3

LEMMA SumTableCounts ==
    ASSUME NEW T \in SUBSET Values, NEW hs \in SUBSET ChunkIndex, NEW t, SumTable(t, hs, T)
    PROVE  t[hs] = Cardinality(InChunks(T, hs))
  <1> DEFINE N == {n \in Nat : \A s \in SUBSET hs :
                      Cardinality(s) = n => t[s] = Cardinality(InChunks(T, s))}
  <1>1. \A s \in SUBSET hs : IsFiniteSet(s) /\ Cardinality(s) \in Nat
    <2>1. IsFiniteSet(ChunkIndex)
      BY RoaringConstants, FS_Interval DEF ChunkIndex
    <2>2. \A s \in SUBSET hs : s \in SUBSET ChunkIndex
      OBVIOUS
    <2> QED
      BY <2>1, <2>2, FS_Subset, FS_CardinalityType
  <1>2. \A s \in SUBSET hs : t[s] = IF s = {} THEN 0
           ELSE Cardinality(InChunk(T, CHOOSE x \in s : TRUE)) + t[s \ {CHOOSE x \in s : TRUE}]
    BY DEF SumTable
  <1>3. 0 \in N
    <2>1. ASSUME NEW s \in SUBSET hs, Cardinality(s) = 0 PROVE t[s] = Cardinality(InChunks(T, s))
      <3>1. s = {}
        BY <1>1, <2>1, FS_EmptySet
      <3>2. InChunks(T, s) = {}
        BY <3>1 DEF InChunks
      <3> QED
        BY <1>2, <3>1, <3>2, FS_EmptySet
    <2> QED
      BY <2>1
  <1>4. ASSUME NEW n \in N PROVE n + 1 \in N
    <2>1. ASSUME NEW s \in SUBSET hs, Cardinality(s) = n + 1
          PROVE  t[s] = Cardinality(InChunks(T, s))
      <3>1. s # {} /\ n \in Nat
        BY <2>1, FS_EmptySet
      <3>2. PICK x \in s : x = CHOOSE y \in s : TRUE
        BY <3>1
      <3>3. t[s] = Cardinality(InChunk(T, x)) + t[s \ {x}]
        BY <1>2, <3>1, <3>2
      <3>4. Cardinality(s \ {x}) = n /\ s \ {x} \in SUBSET hs
        <4>1. Cardinality(s \ {x}) = Cardinality(s) - 1
          BY <1>1, FS_RemoveElement
        <4> QED
          BY <2>1, <3>1, <4>1
      <3>5. t[s \ {x}] = Cardinality(InChunks(T, s \ {x}))
        BY <3>4
      <3>6. s \in SUBSET ChunkIndex
        OBVIOUS
      <3>7. Cardinality(InChunks(T, s)) = Cardinality(InChunk(T, x)) + Cardinality(InChunks(T, s \ {x}))
        BY <3>6, OneChunkMore
      <3> QED
        BY <3>3, <3>5, <3>7
    <2> QED
      BY <2>1
  <1>5. N = Nat
    <2>1. N \in SUBSET Nat
      OBVIOUS
    <2> HIDE DEF N
    <2> QED
      BY <1>3, <1>4, <2>1, BySteps
  <1> QED
    BY <1>1, <1>5

\* A bitmap made container by container, with the number of all their elements.
LEMMA CombinedStored ==
    ASSUME NEW T \in SUBSET Values, NEW hs \in SUBSET ChunkIndex, ChunkKeys(T) \subseteq hs,
           NEW lows, \A h \in hs : lows[h] = InChunk(T, h),
           NEW n, n = Cardinality(InChunks(T, hs))
    PROVE  WellStored([containers  |-> [h \in {k \in hs : lows[k] # {}} |-> Container("array", lows[h])],
                       cardinality |-> n], T)
  <1> DEFINE c == [h \in {k \in hs : lows[k] # {}} |-> Container("array", lows[h])]
             b == [containers |-> c, cardinality |-> n]
  <1>1. {k \in hs : lows[k] # {}} = ChunkKeys(T)
    BY DEF ChunkKeys
  <1>2. DOMAIN c = ChunkKeys(T) /\ c = [h \in ChunkKeys(T) |-> c[h]]
    BY <1>1
  <1>3. ASSUME NEW h \in ChunkKeys(T) PROVE Holds(c[h], InChunk(T, h))
    <2>1. c[h] = Container("array", InChunk(T, h))
      BY <1>1
    <2> QED
      BY <2>1, InChunkType, ContainerHolds
  <1> HIDE DEF c
  <1>4. InChunks(T, hs) = T
    <2>1. ASSUME NEW v \in T PROVE High(v) \in hs
      <3>1. v \in Int
        BY FiniteValues
      <3>2. High(v) \in ChunkKeys(T)
        BY <3>1, ChunkOfValue
      <3> QED
        BY <3>2
    <2> QED
      BY <2>1 DEF InChunks
  <1>5. n = Cardinality(T) /\ n \in Nat
    BY <1>4, FiniteValues
  <1>6. \A h \in ChunkKeys(T) : c[h] \in ContainerRecord
    BY <1>3, InChunkType, HoldsType
  <1>7. c \in [ChunkKeys(T) -> ContainerRecord] /\ ChunkKeys(T) \in SUBSET ChunkIndex
    BY <1>2, <1>6 DEF ChunkKeys
  <1>8. b \in BitmapRecord /\ b.containers = c /\ b.cardinality = n
    BY <1>5, <1>7 DEF BitmapRecord
  <1> HIDE DEF b
  <1>9. WellStored(b, T)
    BY <1>2, <1>3, <1>5, <1>8 DEF WellStored
  <1> QED
    BY <1>9 DEF b, c

LEMMA UnionStored ==
    ASSUME NEW a, NEW b, NEW S \in SUBSET Values, NEW R \in SUBSET Values,
           WellStored(a, S), WellStored(b, R)
    PROVE  WellStored(fc_roaring_union(a, b), S \cup R)
  <1> DEFINE T == S \cup R
             hs == Keys(a) \cup Keys(b)
             both(h) == LowsAt(a, h) \cup LowsAt(b, h)
             lows == [h \in hs |-> both(h)]
             Sums(t) == t = [s \in SUBSET hs |->
                               IF s = {} THEN 0
                               ELSE Cardinality(both(CHOOSE y \in s : TRUE)) + t[s \ {CHOOSE y \in s : TRUE}]]
             t == CHOOSE t : Sums(t)
  <1>1. fc_roaring_union(a, b) =
           [containers  |-> [h \in {k \in hs : both(k) # {}} |-> Container("array", both(h))],
            cardinality |-> t[hs]]
    BY DEF fc_roaring_union, Combined, MapThenSumSet, MapThenFoldSet
  <1>2. T \in SUBSET Values /\ hs \in SUBSET ChunkIndex /\ ChunkKeys(T) \subseteq hs
    <2>1. Keys(a) = ChunkKeys(S) /\ Keys(b) = ChunkKeys(R)
      BY DEF WellStored, Keys
    <2>2. ChunkKeys(T) \subseteq hs
      BY <2>1 DEF ChunkKeys, InChunk
    <2> QED
      BY <2>1, <2>2 DEF ChunkKeys
  <1>3. ASSUME NEW h \in hs PROVE both(h) = InChunk(T, h)
    <2>1. h \in Int
      BY <1>2 DEF ChunkIndex
    <2>2. LowsAt(a, h) = InChunk(S, h) /\ LowsAt(b, h) = InChunk(R, h)
      BY <2>1, LowsRead
    <2> QED
      BY <2>2 DEF InChunk
  <1> HIDE DEF both, hs, T
  <1>4. ASSUME NEW u PROVE Sums(u) <=> SumTable(u, hs, T)
    <2>1. ASSUME NEW s \in SUBSET hs, s # {}
          PROVE  both(CHOOSE y \in s : TRUE) = InChunk(T, CHOOSE y \in s : TRUE)
      <3>1. (CHOOSE y \in s : TRUE) \in hs
        BY <2>1
      <3> QED
        BY <1>3, <3>1
    <2> QED
      BY <2>1 DEF SumTable
  <1>5. SumTable(t, hs, T)
    <2>1. PICK u : SumTable(u, hs, T)
      BY <1>2, SumTableExists
    <2>2. Sums(u)
      <3> HIDE DEF Sums
      <3> QED
        BY <1>4, <2>1
    <2>3. Sums(t)
      BY <2>2
    <2> HIDE DEF t, Sums
    <2> QED
      BY <1>4, <2>3
  <1> HIDE DEF t
  <1>6. t[hs] = Cardinality(InChunks(T, hs))
    BY <1>2, <1>5, SumTableCounts
  <1>7. \A h \in hs : lows[h] = InChunk(T, h)
    BY <1>3
  <1>8. fc_roaring_union(a, b) =
           [containers  |-> [h \in {k \in hs : lows[k] # {}} |-> Container("array", lows[h])],
            cardinality |-> t[hs]]
    BY <1>1
  <1> HIDE DEF lows
  <1>9. WellStored(fc_roaring_union(a, b), T)
    BY <1>2, <1>6, <1>7, <1>8, CombinedStored
  <1> QED
    BY <1>9 DEF T

LEMMA IntersectionStored ==
    ASSUME NEW a, NEW b, NEW S \in SUBSET Values, NEW R \in SUBSET Values,
           WellStored(a, S), WellStored(b, R)
    PROVE  WellStored(fc_roaring_intersection(a, b), S \cap R)
  <1> DEFINE T == S \cap R
             hs == Keys(a) \cap Keys(b)
             both(h) == LowsAt(a, h) \cap LowsAt(b, h)
             lows == [h \in hs |-> both(h)]
             Sums(t) == t = [s \in SUBSET hs |->
                               IF s = {} THEN 0
                               ELSE Cardinality(both(CHOOSE y \in s : TRUE)) + t[s \ {CHOOSE y \in s : TRUE}]]
             t == CHOOSE t : Sums(t)
  <1>1. fc_roaring_intersection(a, b) =
           [containers  |-> [h \in {k \in hs : both(k) # {}} |-> Container("array", both(h))],
            cardinality |-> t[hs]]
    BY DEF fc_roaring_intersection, Combined, MapThenSumSet, MapThenFoldSet
  <1>2. T \in SUBSET Values /\ hs \in SUBSET ChunkIndex /\ ChunkKeys(T) \subseteq hs
    <2>1. Keys(a) = ChunkKeys(S) /\ Keys(b) = ChunkKeys(R)
      BY DEF WellStored, Keys
    <2>2. ChunkKeys(T) \subseteq hs
      BY <2>1 DEF ChunkKeys, InChunk
    <2> QED
      BY <2>1, <2>2 DEF ChunkKeys
  <1>3. ASSUME NEW h \in hs PROVE both(h) = InChunk(T, h)
    <2>1. h \in Int
      BY <1>2 DEF ChunkIndex
    <2>2. LowsAt(a, h) = InChunk(S, h) /\ LowsAt(b, h) = InChunk(R, h)
      BY <2>1, LowsRead
    <2> QED
      BY <2>2 DEF InChunk
  <1> HIDE DEF both, hs, T
  <1>4. ASSUME NEW u PROVE Sums(u) <=> SumTable(u, hs, T)
    <2>1. ASSUME NEW s \in SUBSET hs, s # {}
          PROVE  both(CHOOSE y \in s : TRUE) = InChunk(T, CHOOSE y \in s : TRUE)
      <3>1. (CHOOSE y \in s : TRUE) \in hs
        BY <2>1
      <3> QED
        BY <1>3, <3>1
    <2> QED
      BY <2>1 DEF SumTable
  <1>5. SumTable(t, hs, T)
    <2>1. PICK u : SumTable(u, hs, T)
      BY <1>2, SumTableExists
    <2>2. Sums(u)
      <3> HIDE DEF Sums
      <3> QED
        BY <1>4, <2>1
    <2>3. Sums(t)
      BY <2>2
    <2> HIDE DEF t, Sums
    <2> QED
      BY <1>4, <2>3
  <1> HIDE DEF t
  <1>6. t[hs] = Cardinality(InChunks(T, hs))
    BY <1>2, <1>5, SumTableCounts
  <1>7. \A h \in hs : lows[h] = InChunk(T, h)
    BY <1>3
  <1>8. fc_roaring_intersection(a, b) =
           [containers  |-> [h \in {k \in hs : lows[k] # {}} |-> Container("array", lows[h])],
            cardinality |-> t[hs]]
    BY <1>1
  <1> HIDE DEF lows
  <1>9. WellStored(fc_roaring_intersection(a, b), T)
    BY <1>2, <1>6, <1>7, <1>8, CombinedStored
  <1> QED
    BY <1>9 DEF T

LEMMA DifferenceStored ==
    ASSUME NEW a, NEW b, NEW S \in SUBSET Values, NEW R \in SUBSET Values,
           WellStored(a, S), WellStored(b, R)
    PROVE  WellStored(fc_roaring_difference(a, b), S \ R)
  <1> DEFINE T == S \ R
             hs == Keys(a)
             both(h) == LowsAt(a, h) \ LowsAt(b, h)
             lows == [h \in hs |-> both(h)]
             Sums(t) == t = [s \in SUBSET hs |->
                               IF s = {} THEN 0
                               ELSE Cardinality(both(CHOOSE y \in s : TRUE)) + t[s \ {CHOOSE y \in s : TRUE}]]
             t == CHOOSE t : Sums(t)
  <1>1. fc_roaring_difference(a, b) =
           [containers  |-> [h \in {k \in hs : both(k) # {}} |-> Container("array", both(h))],
            cardinality |-> t[hs]]
    BY DEF fc_roaring_difference, Combined, MapThenSumSet, MapThenFoldSet
  <1>2. T \in SUBSET Values /\ hs \in SUBSET ChunkIndex /\ ChunkKeys(T) \subseteq hs
    <2>1. Keys(a) = ChunkKeys(S) /\ Keys(b) = ChunkKeys(R)
      BY DEF WellStored, Keys
    <2>2. ChunkKeys(T) \subseteq hs
      BY <2>1 DEF ChunkKeys, InChunk
    <2> QED
      BY <2>1, <2>2 DEF ChunkKeys
  <1>3. ASSUME NEW h \in hs PROVE both(h) = InChunk(T, h)
    <2>1. h \in Int
      BY <1>2 DEF ChunkIndex
    <2>2. LowsAt(a, h) = InChunk(S, h) /\ LowsAt(b, h) = InChunk(R, h)
      BY <2>1, LowsRead
    <2> QED
      BY <2>2 DEF InChunk
  <1> HIDE DEF both, hs, T
  <1>4. ASSUME NEW u PROVE Sums(u) <=> SumTable(u, hs, T)
    <2>1. ASSUME NEW s \in SUBSET hs, s # {}
          PROVE  both(CHOOSE y \in s : TRUE) = InChunk(T, CHOOSE y \in s : TRUE)
      <3>1. (CHOOSE y \in s : TRUE) \in hs
        BY <2>1
      <3> QED
        BY <1>3, <3>1
    <2> QED
      BY <2>1 DEF SumTable
  <1>5. SumTable(t, hs, T)
    <2>1. PICK u : SumTable(u, hs, T)
      BY <1>2, SumTableExists
    <2>2. Sums(u)
      <3> HIDE DEF Sums
      <3> QED
        BY <1>4, <2>1
    <2>3. Sums(t)
      BY <2>2
    <2> HIDE DEF t, Sums
    <2> QED
      BY <1>4, <2>3
  <1> HIDE DEF t
  <1>6. t[hs] = Cardinality(InChunks(T, hs))
    BY <1>2, <1>5, SumTableCounts
  <1>7. \A h \in hs : lows[h] = InChunk(T, h)
    BY <1>3
  <1>8. fc_roaring_difference(a, b) =
           [containers  |-> [h \in {k \in hs : lows[k] # {}} |-> Container("array", lows[h])],
            cardinality |-> t[hs]]
    BY <1>1
  <1> HIDE DEF lows
  <1>9. WellStored(fc_roaring_difference(a, b), T)
    BY <1>2, <1>6, <1>7, <1>8, CombinedStored
  <1> QED
    BY <1>9 DEF T

LEMMA XorStored ==
    ASSUME NEW a, NEW b, NEW S \in SUBSET Values, NEW R \in SUBSET Values,
           WellStored(a, S), WellStored(b, R)
    PROVE  WellStored(fc_roaring_xor(a, b), (S \ R) \cup (R \ S))
  <1> DEFINE T == (S \ R) \cup (R \ S)
             hs == Keys(a) \cup Keys(b)
             both(h) == (LowsAt(a, h) \ LowsAt(b, h)) \cup (LowsAt(b, h) \ LowsAt(a, h))
             lows == [h \in hs |-> both(h)]
             Sums(t) == t = [s \in SUBSET hs |->
                               IF s = {} THEN 0
                               ELSE Cardinality(both(CHOOSE y \in s : TRUE)) + t[s \ {CHOOSE y \in s : TRUE}]]
             t == CHOOSE t : Sums(t)
  <1>1. fc_roaring_xor(a, b) =
           [containers  |-> [h \in {k \in hs : both(k) # {}} |-> Container("array", both(h))],
            cardinality |-> t[hs]]
    BY DEF fc_roaring_xor, Combined, MapThenSumSet, MapThenFoldSet
  <1>2. T \in SUBSET Values /\ hs \in SUBSET ChunkIndex /\ ChunkKeys(T) \subseteq hs
    <2>1. Keys(a) = ChunkKeys(S) /\ Keys(b) = ChunkKeys(R)
      BY DEF WellStored, Keys
    <2>2. ChunkKeys(T) \subseteq hs
      BY <2>1 DEF ChunkKeys, InChunk
    <2> QED
      BY <2>1, <2>2 DEF ChunkKeys
  <1>3. ASSUME NEW h \in hs PROVE both(h) = InChunk(T, h)
    <2>1. h \in Int
      BY <1>2 DEF ChunkIndex
    <2>2. LowsAt(a, h) = InChunk(S, h) /\ LowsAt(b, h) = InChunk(R, h)
      BY <2>1, LowsRead
    <2> QED
      BY <2>2 DEF InChunk
  <1> HIDE DEF both, hs, T
  <1>4. ASSUME NEW u PROVE Sums(u) <=> SumTable(u, hs, T)
    <2>1. ASSUME NEW s \in SUBSET hs, s # {}
          PROVE  both(CHOOSE y \in s : TRUE) = InChunk(T, CHOOSE y \in s : TRUE)
      <3>1. (CHOOSE y \in s : TRUE) \in hs
        BY <2>1
      <3> QED
        BY <1>3, <3>1
    <2> QED
      BY <2>1 DEF SumTable
  <1>5. SumTable(t, hs, T)
    <2>1. PICK u : SumTable(u, hs, T)
      BY <1>2, SumTableExists
    <2>2. Sums(u)
      <3> HIDE DEF Sums
      <3> QED
        BY <1>4, <2>1
    <2>3. Sums(t)
      BY <2>2
    <2> HIDE DEF t, Sums
    <2> QED
      BY <1>4, <2>3
  <1> HIDE DEF t
  <1>6. t[hs] = Cardinality(InChunks(T, hs))
    BY <1>2, <1>5, SumTableCounts
  <1>7. \A h \in hs : lows[h] = InChunk(T, h)
    BY <1>3
  <1>8. fc_roaring_xor(a, b) =
           [containers  |-> [h \in {k \in hs : lows[k] # {}} |-> Container("array", lows[h])],
            cardinality |-> t[hs]]
    BY <1>1
  <1> HIDE DEF lows
  <1>9. WellStored(fc_roaring_xor(a, b), T)
    BY <1>2, <1>6, <1>7, <1>8, CombinedStored
  <1> QED
    BY <1>9 DEF T

\* Optimising changes the form of containers, not what they hold.
LEMMA OptimizeStored ==
    ASSUME NEW b, NEW S \in SUBSET Values, WellStored(b, S)
    PROVE  WellStored(fc_roaring_optimize(b), S)
  <1> DEFINE old == b.containers
             new == [h \in DOMAIN old |->
                        IF 2 * Cardinality(RunsOf(Lows(old[h])).runs) < Cardinality(Lows(old[h]))
                        THEN RunsOf(Lows(old[h])) ELSE Container("array", Lows(old[h]))]
             c == fc_roaring_optimize(b)
  <1>1. b \in BitmapRecord /\ DOMAIN old = ChunkKeys(S) /\ b.cardinality = Cardinality(S)
        /\ \A h \in ChunkKeys(S) : Holds(old[h], InChunk(S, h))
    BY DEF WellStored
  <1>2. c = [b EXCEPT !.containers = new]
    BY DEF fc_roaring_optimize
  <1>3. ASSUME NEW h \in ChunkKeys(S) PROVE Holds(new[h], InChunk(S, h)) /\ new[h] \in ContainerRecord
    <2>1. Lows(old[h]) = InChunk(S, h)
      BY <1>1, InChunkType, HoldsLows
    <2>2. new[h] = RunsOf(InChunk(S, h)) \/ new[h] = Container("array", InChunk(S, h))
      BY <1>1, <2>1
    <2> HIDE DEF new
    <2>3. Holds(RunsOf(InChunk(S, h)), InChunk(S, h))
      BY DEF Holds
    <2>4. Holds(Container("array", InChunk(S, h)), InChunk(S, h))
      BY InChunkType, ContainerHolds
    <2>5. Holds(new[h], InChunk(S, h))
      BY <2>2, <2>3, <2>4
    <2> QED
      BY <2>5, InChunkType, HoldsType
  <1>4. DOMAIN new = ChunkKeys(S) /\ new = [h \in ChunkKeys(S) |-> new[h]]
    BY <1>1
  <1> HIDE DEF new
  <1>5. new \in UNION {[D -> ContainerRecord] : D \in SUBSET ChunkIndex}
    <2>1. new \in [ChunkKeys(S) -> ContainerRecord] /\ ChunkKeys(S) \in SUBSET ChunkIndex
      BY <1>3, <1>4 DEF ChunkKeys
    <2> QED
      BY <2>1
  <1>6. c \in BitmapRecord /\ c.containers = new /\ c.cardinality = b.cardinality
    BY <1>1, <1>2, <1>5 DEF BitmapRecord
  <1> HIDE DEF c
  <1>7. WellStored(c, S)
    BY <1>1, <1>3, <1>4, <1>6 DEF WellStored
  <1> QED
    BY <1>7 DEF c

----------------------------------------------------------------------------
(* The bitmaps of the program.                                              *)

\* Every bitmap stands for its set.
RoaringInv ==
    /\ roaring \in [Bitmap -> BitmapRecord] /\ members \in [Bitmap -> SUBSET Values]
    /\ \A b \in Bitmap : WellStored(roaring[b], members[b])

LEMMA BecomesInv ==
    ASSUME RoaringInv, NEW b \in Bitmap, NEW bitmap, NEW set \in SUBSET Values,
           WellStored(bitmap, set), Becomes(b, bitmap, set)
    PROVE  RoaringInv'
  <1>1. /\ roaring' = [roaring EXCEPT ![b] = bitmap] /\ members' = [members EXCEPT ![b] = set]
    BY DEF Becomes
  <1>2. bitmap \in BitmapRecord
    BY DEF WellStored
  <1>3. /\ roaring' \in [Bitmap -> BitmapRecord] /\ members' \in [Bitmap -> SUBSET Values]
        /\ \A c \in Bitmap : /\ roaring'[c] = IF c = b THEN bitmap ELSE roaring[c]
                             /\ members'[c] = IF c = b THEN set ELSE members[c]
    BY <1>1, <1>2 DEF RoaringInv
  <1>4. \A c \in Bitmap : WellStored(roaring'[c], members'[c])
    BY <1>3 DEF RoaringInv
  <1> QED
    BY <1>3, <1>4 DEF RoaringInv

\* After any history of updates and set operations every bitmap stands for its set.
THEOREM RoaringInvariance == RoaringSpec => []RoaringInv
  <1>1. RoaringInit => RoaringInv
    <2> SUFFICES ASSUME RoaringInit PROVE RoaringInv
      OBVIOUS
    <2>1. WellStored(fc_roaring_create, {}) /\ fc_roaring_create \in BitmapRecord
      BY CreateStored DEF WellStored
    <2>2. /\ roaring \in [Bitmap -> BitmapRecord] /\ members \in [Bitmap -> SUBSET Values]
          /\ \A b \in Bitmap : roaring[b] = fc_roaring_create /\ members[b] = {}
      BY <2>1 DEF RoaringInit
    <2> QED
      BY <2>1, <2>2 DEF RoaringInv
  <1>2. RoaringInv /\ [RoaringNext]_roaringVars => RoaringInv'
    <2> SUFFICES ASSUME RoaringInv, [RoaringNext]_roaringVars PROVE RoaringInv'
      OBVIOUS
    <2>1. \A b \in Bitmap : members[b] \in SUBSET Values /\ WellStored(roaring[b], members[b])
      BY DEF RoaringInv
    <2>2. \A v \in Points : v \in Values
      BY RoaringConstants
    <2>3. {} \in SUBSET Values /\ WellStored(fc_roaring_create, {})
      BY CreateStored
    <2>4. ASSUME NEW v \in Points, NEW w \in Points PROVE (v .. w - 1) \in SUBSET Values
      <3>1. v \in Int /\ w \in Int /\ v \in Values /\ w \in Values
        BY <2>2, FiniteValues
      <3>2. Chunk * ChunkCount - 1 \in Int
        BY RoaringConstants
      <3> QED
        BY <3>1, <3>2 DEF Values
    <2>5. ASSUME NEW b \in Bitmap, AddValues(b) PROVE RoaringInv'
      <3>1. PICK v \in Points, w \in Points :
               \/ Becomes(b, fc_roaring_add(roaring[b], v), members[b] \cup {v})
               \/ Becomes(b, fc_roaring_add_batch(roaring[b], <<w, v, w>>), members[b] \cup {v, w})
               \/ Becomes(b, fc_roaring_create_from_array(<<w, v>>), {v, w})
        BY <2>5 DEF AddValues
      <3>2. v \in Values /\ w \in Values /\ members[b] \cup {v} \in SUBSET Values
            /\ members[b] \cup {v, w} \in SUBSET Values /\ {v, w} \in SUBSET Values
        BY <2>1, <2>2
      <3>3. CASE Becomes(b, fc_roaring_add(roaring[b], v), members[b] \cup {v})
        <4>1. WellStored(fc_roaring_add(roaring[b], v), members[b] \cup {v})
          BY <2>1, <3>2, AddStored
        <4> QED
          BY <3>2, <3>3, <4>1, BecomesInv
      <3>4. CASE Becomes(b, fc_roaring_add_batch(roaring[b], <<w, v, w>>), members[b] \cup {v, w})
        <4>0. <<w, v, w>> \in [1 .. 3 -> Values]
          BY <3>2
        <4>1. PICK n \in Nat : n = 3
          OBVIOUS
        <4>2. PICK values \in [1 .. n -> Values] : values = <<w, v, w>>
          BY <4>0, <4>1
        <4>3. WellStored(fc_roaring_add_batch(roaring[b], values),
                         members[b] \cup {values[j] : j \in 1 .. n})
          BY <2>1, AddBatchStored
        <4>4. {values[j] : j \in 1 .. n} = {v, w}
          BY <4>1, <4>2
        <4> QED
          BY <3>2, <3>4, <4>2, <4>3, <4>4, BecomesInv
      <3>5. CASE Becomes(b, fc_roaring_create_from_array(<<w, v>>), {v, w})
        <4>0. <<w, v>> \in [1 .. 2 -> Values]
          BY <3>2
        <4>1. PICK n \in Nat : n = 2
          OBVIOUS
        <4>2. PICK values \in [1 .. n -> Values] : values = <<w, v>>
          BY <4>0, <4>1
        <4>3. WellStored(fc_roaring_add_batch(fc_roaring_create, values),
                         {} \cup {values[j] : j \in 1 .. n})
          BY <2>3, AddBatchStored
        <4>4. {} \cup {values[j] : j \in 1 .. n} = {v, w}
          BY <4>1, <4>2
        <4>5. WellStored(fc_roaring_create_from_array(<<w, v>>), {v, w})
          BY <4>2, <4>3, <4>4 DEF fc_roaring_create_from_array
        <4> QED
          BY <3>2, <3>5, <4>5, BecomesInv
      <3> QED
        BY <3>1, <3>3, <3>4, <3>5
    <2>6. ASSUME NEW b \in Bitmap, RemoveValue(b) PROVE RoaringInv'
      <3>1. PICK v \in Points : Becomes(b, fc_roaring_remove(roaring[b], v), members[b] \ {v})
        BY <2>6 DEF RemoveValue
      <3>2. WellStored(fc_roaring_remove(roaring[b], v), members[b] \ {v})
            /\ members[b] \ {v} \in SUBSET Values
        BY <2>1, <2>2, RemoveStored
      <3> QED
        BY <3>1, <3>2, BecomesInv
    <2>7. ASSUME NEW b \in Bitmap, Ranges(b) PROVE RoaringInv'
      <3>1. PICK v \in Points, w \in Points :
               \/ Becomes(b, fc_roaring_add_range(roaring[b], v, w), members[b] \cup v .. w - 1)
               \/ Becomes(b, fc_roaring_remove_range(roaring[b], v, w), members[b] \ (v .. w - 1))
               \/ Becomes(b, fc_roaring_create_from_range(v, w), v .. w - 1)
        BY <2>7 DEF Ranges
      <3>2. /\ v \in Values /\ w \in Values /\ (v .. w - 1) \in SUBSET Values
            /\ members[b] \cup v .. w - 1 \in SUBSET Values /\ members[b] \ (v .. w - 1) \in SUBSET Values
        BY <2>1, <2>2, <2>4
      <3>3. WellStored(fc_roaring_add_range(roaring[b], v, w), members[b] \cup v .. w - 1)
        BY <2>1, <3>2, AddRangeStored
      <3>4. WellStored(fc_roaring_remove_range(roaring[b], v, w), members[b] \ (v .. w - 1))
        BY <2>1, <3>2, RemoveRangeStored
      <3>5. WellStored(fc_roaring_create_from_range(v, w), v .. w - 1)
        <4>1. WellStored(fc_roaring_add_range(fc_roaring_create, v, w), {} \cup v .. w - 1)
          BY <2>3, <3>2, AddRangeStored
        <4>2. {} \cup v .. w - 1 = v .. w - 1
          OBVIOUS
        <4> QED
          BY <4>1, <4>2 DEF fc_roaring_create_from_range
      <3>6. CASE Becomes(b, fc_roaring_add_range(roaring[b], v, w), members[b] \cup v .. w - 1)
        BY <3>2, <3>3, <3>6, BecomesInv
      <3>7. CASE Becomes(b, fc_roaring_remove_range(roaring[b], v, w), members[b] \ (v .. w - 1))
        BY <3>2, <3>4, <3>7, BecomesInv
      <3>8. CASE Becomes(b, fc_roaring_create_from_range(v, w), v .. w - 1)
        BY <3>2, <3>5, <3>8, BecomesInv
      <3> QED
        BY <3>1, <3>6, <3>7, <3>8
    <2>8. ASSUME NEW b \in Bitmap, Combine(b) PROVE RoaringInv'
      <3>1. PICK a \in Bitmap, c \in Bitmap :
               \/ Becomes(b, fc_roaring_union(roaring[a], roaring[c]), members[a] \cup members[c])
               \/ Becomes(b, fc_roaring_intersection(roaring[a], roaring[c]), members[a] \cap members[c])
               \/ Becomes(b, fc_roaring_difference(roaring[a], roaring[c]), members[a] \ members[c])
               \/ Becomes(b, fc_roaring_xor(roaring[a], roaring[c]),
                          (members[a] \ members[c]) \cup (members[c] \ members[a]))
        BY <2>8 DEF Combine
      <3>2. /\ members[a] \in SUBSET Values /\ members[c] \in SUBSET Values
            /\ WellStored(roaring[a], members[a]) /\ WellStored(roaring[c], members[c])
        BY <2>1
      <3>3. /\ members[a] \cup members[c] \in SUBSET Values /\ members[a] \cap members[c] \in SUBSET Values
            /\ members[a] \ members[c] \in SUBSET Values
            /\ (members[a] \ members[c]) \cup (members[c] \ members[a]) \in SUBSET Values
        BY <3>2
      <3>4. CASE Becomes(b, fc_roaring_union(roaring[a], roaring[c]), members[a] \cup members[c])
        <4>1. WellStored(fc_roaring_union(roaring[a], roaring[c]), members[a] \cup members[c])
          BY <3>2, UnionStored
        <4> QED
          BY <3>3, <3>4, <4>1, BecomesInv
      <3>5. CASE Becomes(b, fc_roaring_intersection(roaring[a], roaring[c]), members[a] \cap members[c])
        <4>1. WellStored(fc_roaring_intersection(roaring[a], roaring[c]), members[a] \cap members[c])
          BY <3>2, IntersectionStored
        <4> QED
          BY <3>3, <3>5, <4>1, BecomesInv
      <3>6. CASE Becomes(b, fc_roaring_difference(roaring[a], roaring[c]), members[a] \ members[c])
        <4>1. WellStored(fc_roaring_difference(roaring[a], roaring[c]), members[a] \ members[c])
          BY <3>2, DifferenceStored
        <4> QED
          BY <3>3, <3>6, <4>1, BecomesInv
      <3>7. CASE Becomes(b, fc_roaring_xor(roaring[a], roaring[c]),
                         (members[a] \ members[c]) \cup (members[c] \ members[a]))
        <4>1. WellStored(fc_roaring_xor(roaring[a], roaring[c]),
                         (members[a] \ members[c]) \cup (members[c] \ members[a]))
          BY <3>2, XorStored
        <4> QED
          BY <3>3, <3>7, <4>1, BecomesInv
      <3> QED
        BY <3>1, <3>4, <3>5, <3>6, <3>7
    <2>9. ASSUME NEW b \in Bitmap, Whole(b) PROVE RoaringInv'
      <3>1. CASE \E a \in Bitmap \ {b} : Becomes(b, roaring[a], members[a])
        BY <2>1, <3>1, BecomesInv
      <3>2. CASE Becomes(b, fc_roaring_create, {})
        BY <2>3, <3>2, BecomesInv
      <3>3. CASE Becomes(b, fc_roaring_optimize(roaring[b]), members[b])
        <4>1. members[b] \in SUBSET Values /\ WellStored(fc_roaring_optimize(roaring[b]), members[b])
          BY <2>1, OptimizeStored
        <4> QED
          BY <3>3, <4>1, BecomesInv
      <3> QED
        BY <2>9, <3>1, <3>2, <3>3 DEF Whole
    <2>10. CASE UNCHANGED roaringVars
      BY <2>10 DEF roaringVars, RoaringInv, WellStored
    <2> QED
      BY <2>5, <2>6, <2>7, <2>8, <2>9, <2>10 DEF RoaringNext
  <1> QED
    BY <1>1, <1>2, PTL DEF RoaringSpec

----------------------------------------------------------------------------
(* Queries.                                                                 *)

LEMMA LeastIs ==
    ASSUME NEW S \in SUBSET Int, NEW m \in S, \A y \in S : m <= y
    PROVE  Min(S) = m
  <1>1. \A x \in S : (\A y \in S : x =< y) => x = m
    <2> SUFFICES ASSUME NEW x \in S, \A y \in S : x =< y PROVE x = m
      OBVIOUS
    <2>1. x <= m /\ m <= x /\ x \in Int /\ m \in Int
      OBVIOUS
    <2> QED
      BY <2>1
  <1> QED
    BY <1>1 DEF Min

LEMMA GreatestIs ==
    ASSUME NEW S \in SUBSET Int, NEW m \in S, \A y \in S : y <= m
    PROVE  Max(S) = m
  <1>1. \A x \in S : (\A y \in S : x >= y) => x = m
    <2> SUFFICES ASSUME NEW x \in S, \A y \in S : x >= y PROVE x = m
      OBVIOUS
    <2>1. x >= m /\ x <= m /\ x \in Int /\ m \in Int
      OBVIOUS
    <2> QED
      BY <2>1
  <1>2. \A y \in S : m >= y
    OBVIOUS
  <1> QED
    BY <1>1, <1>2 DEF Max

\* A set of numbers up to a bound has a least and a greatest.
LEMMA Ends ==
    ASSUME NEW n \in Int, NEW S \in SUBSET (0 .. n), S # {}
    PROVE  \E least \in S : \E greatest \in S :
              /\ Min(S) = least /\ Max(S) = greatest
              /\ \A y \in S : least <= y /\ y <= greatest
  <1>1. S \in SUBSET Nat /\ S \in SUBSET Int
    OBVIOUS
  <1>2. PICK least \in S : \A y \in S : least <= y
    BY <1>1, LeastNumber
  <1> DEFINE D == {d \in Nat : n - d \in S}
  <1>3. D \in SUBSET Nat /\ D # {}
    <2>1. PICK x \in S : TRUE
      OBVIOUS
    <2>2. n - x \in Nat /\ n - (n - x) = x
      OBVIOUS
    <2>3. n - x \in D
      BY <2>2
    <2> QED
      BY <2>3
  <1>4. PICK d \in D : \A e \in D : d <= e
    <2> HIDE DEF D
    <2> QED
      BY <1>3, LeastNumber
  <1>5. PICK greatest \in S : greatest = n - d
    BY <1>4
  <1>6. ASSUME NEW y \in S PROVE y <= greatest
    <2>1. y \in 0 .. n /\ n - y \in Nat /\ n - (n - y) = y
      OBVIOUS
    <2>2. n - y \in D
      BY <2>1
    <2>3. d <= n - y /\ d \in Nat
      BY <1>4, <2>2
    <2> QED
      BY <1>5, <2>1, <2>3
  <1>7. Min(S) = least /\ Max(S) = greatest
    BY <1>1, <1>2, <1>6, LeastIs, GreatestIs
  <1> QED
    BY <1>2, <1>6, <1>7

\* The first and the last element are in the first and the last container.
LEMMA EndsRead ==
    ASSUME NEW b, NEW S \in SUBSET Values, WellStored(b, S), S # {}
    PROVE  fc_roaring_min(b) = Min(S) /\ fc_roaring_max(b) = Max(S)
  <1>1. Keys(b) = ChunkKeys(S) /\ ChunkKeys(S) \in SUBSET (0 .. ChunkCount - 1)
        /\ ChunkCount - 1 \in Int /\ Chunk - 1 \in Int
    BY RoaringConstants DEF WellStored, Keys, ChunkKeys, ChunkIndex
  <1>2. ChunkKeys(S) # {}
    <2>1. PICK v \in S : TRUE
      OBVIOUS
    <2>2. v \in Int
      BY FiniteValues
    <2> QED
      BY <2>2, ChunkOfValue
  <1>3. PICK first \in ChunkKeys(S), last \in ChunkKeys(S) :
           /\ Min(ChunkKeys(S)) = first /\ Max(ChunkKeys(S)) = last
           /\ \A k \in ChunkKeys(S) : first <= k /\ k <= last
    BY <1>1, <1>2, Ends
  <1>4. first \in Int /\ last \in Int /\ first \in ChunkIndex /\ last \in ChunkIndex
    BY DEF ChunkKeys, ChunkIndex
  <1>5. /\ LowsAt(b, first) = InChunk(S, first) /\ LowsAt(b, last) = InChunk(S, last)
        /\ InChunk(S, first) # {} /\ InChunk(S, last) # {}
        /\ InChunk(S, first) \in SUBSET (0 .. Chunk - 1) /\ InChunk(S, last) \in SUBSET (0 .. Chunk - 1)
    <2>1. LowsAt(b, first) = InChunk(S, first) /\ LowsAt(b, last) = InChunk(S, last)
      BY <1>4, LowsRead
    <2>2. InChunk(S, first) # {} /\ InChunk(S, last) # {}
      BY DEF ChunkKeys
    <2> QED
      BY <2>1, <2>2 DEF InChunk, Remainders
  <1>6. PICK low \in InChunk(S, first), z \in InChunk(S, first) :
           Min(InChunk(S, first)) = low /\ \A l \in InChunk(S, first) : low <= l
    BY <1>1, <1>5, Ends
  <1>7. PICK top \in InChunk(S, last), a \in InChunk(S, last) :
           Max(InChunk(S, last)) = top /\ \A l \in InChunk(S, last) : l <= top
    BY <1>1, <1>5, Ends
  <1>8. /\ low \in Remainders /\ first * Chunk + low \in S
        /\ top \in Remainders /\ last * Chunk + top \in S
    BY DEF InChunk
  <1>9. ASSUME NEW v \in S
        PROVE  first * Chunk + low <= v /\ v <= last * Chunk + top
    <2>1. /\ v \in Int /\ High(v) \in Int /\ Low(v) \in Remainders /\ v = High(v) * Chunk + Low(v)
          /\ Low(v) \in InChunk(S, High(v)) /\ High(v) \in ChunkKeys(S)
      <3>1. v \in Values /\ v \in Int
        BY FiniteValues
      <3> QED
        BY <3>1, Membership, ChunkOfValue
    <2>2. PICK h \in Int, l \in Remainders : h = High(v) /\ l = Low(v) /\ v = h * Chunk + l
      BY <2>1
    <2>3. /\ first < h => first * Chunk + low < h * Chunk + l
          /\ h = first => (h * Chunk + l < first * Chunk + low <=> l < low)
      BY <1>4, <1>8, PartsOrder
    <2>4. /\ h < last => h * Chunk + l < last * Chunk + top
          /\ last = h => (last * Chunk + top < h * Chunk + l <=> top < l)
      BY <1>4, <1>8, PartsOrder
    <2>5. first * Chunk + low \in Int /\ last * Chunk + top \in Int /\ h * Chunk + l \in Int
      BY <1>4, <1>8, PartsPut
    <2>6. first <= h /\ h <= last
      BY <1>3, <2>1, <2>2
    <2>7. first * Chunk + low <= h * Chunk + l
      <3>1. CASE first < h
        BY <2>3, <2>5, <3>1
      <3>2. CASE h = first
        <4>1. low <= l /\ low \in Int /\ l \in Int
          BY <1>6, <1>8, <2>1, <2>2, <3>2, FiniteRemainders DEF Remainders
        <4> QED
          BY <2>3, <2>5, <3>2, <4>1
      <3> QED
        BY <1>4, <2>6, <3>1, <3>2
    <2>8. h * Chunk + l <= last * Chunk + top
      <3>1. CASE h < last
        BY <2>4, <2>5, <3>1
      <3>2. CASE h = last
        <4>1. l <= top /\ top \in Int /\ l \in Int
          BY <1>7, <1>8, <2>1, <2>2, <3>2 DEF Remainders
        <4> QED
          BY <2>4, <2>5, <3>2, <4>1
      <3> QED
        BY <1>4, <2>6, <3>1, <3>2
    <2> QED
      BY <2>2, <2>7, <2>8
  <1>10. S \in SUBSET Int
    BY FiniteValues
  <1>11. Min(S) = first * Chunk + low
    BY <1>8, <1>9, <1>10, LeastIs
  <1>12. Max(S) = last * Chunk + top
    BY <1>8, <1>9, <1>10, GreatestIs
  <1> QED
    BY <1>1, <1>3, <1>5, <1>6, <1>7, <1>11, <1>12 DEF fc_roaring_min, fc_roaring_max

\* Bitmaps compare as their sets.
LEMMA Compared ==
    ASSUME NEW a, NEW b, NEW S \in SUBSET Values, NEW R \in SUBSET Values,
           WellStored(a, S), WellStored(b, R)
    PROVE  /\ fc_roaring_equals(a, b) <=> S = R
           /\ fc_roaring_is_subset(a, b) <=> S \subseteq R
           /\ fc_roaring_intersects(a, b) <=> S \cap R # {}
  <1>1. Keys(a) = ChunkKeys(S) /\ Keys(b) = ChunkKeys(R)
    BY DEF WellStored, Keys
  <1>2. \A h \in ChunkIndex : LowsAt(a, h) = InChunk(S, h) /\ LowsAt(b, h) = InChunk(R, h)
    BY LowsRead DEF ChunkIndex
  <1>3. ChunkKeys(S) \subseteq ChunkIndex /\ ChunkKeys(R) \subseteq ChunkIndex
    BY DEF ChunkKeys
  <1>4. \A v \in Values : /\ v \in S <=> High(v) \in ChunkKeys(S) /\ Low(v) \in InChunk(S, High(v))
                          /\ v \in R <=> High(v) \in ChunkKeys(R) /\ Low(v) \in InChunk(R, High(v))
    BY FiniteValues, ChunkOfValue
  <1>5. fc_roaring_is_subset(a, b) <=> S \subseteq R
    <2>1. ASSUME S \subseteq R PROVE fc_roaring_is_subset(a, b)
      BY <1>1, <1>2, <1>3, <2>1 DEF fc_roaring_is_subset, InChunk
    <2>2. ASSUME fc_roaring_is_subset(a, b), NEW v \in S PROVE v \in R
      <3>1. v \in Values /\ High(v) \in ChunkKeys(S) /\ Low(v) \in InChunk(S, High(v))
        BY <1>4
      <3>2. Low(v) \in InChunk(R, High(v))
        BY <1>1, <1>2, <1>3, <2>2, <3>1 DEF fc_roaring_is_subset
      <3> QED
        BY <3>1, <3>2, Membership
    <2> QED
      BY <2>1, <2>2
  <1>6. fc_roaring_equals(a, b) <=> S = R
    <2>1. ASSUME S = R PROVE fc_roaring_equals(a, b)
      BY <1>1, <1>2, <1>3, <2>1 DEF fc_roaring_equals
    <2>2. ASSUME fc_roaring_equals(a, b), NEW v \in Values PROVE v \in S <=> v \in R
      <3>1. \A h \in ChunkKeys(S) : InChunk(S, h) = InChunk(R, h)
        BY <1>1, <1>2, <1>3, <2>2 DEF fc_roaring_equals
      <3>2. ChunkKeys(S) = ChunkKeys(R)
        BY <1>1, <2>2 DEF fc_roaring_equals
      <3> QED
        BY <1>4, <3>1, <3>2
    <2>3. fc_roaring_equals(a, b) => S = R
      BY <2>2
    <2> QED
      BY <2>1, <2>3
  <1>7. fc_roaring_intersects(a, b) <=> S \cap R # {}
    <2>1. ASSUME NEW v \in S \cap R PROVE fc_roaring_intersects(a, b)
      <3>1. /\ High(v) \in ChunkKeys(S) \cap ChunkKeys(R)
            /\ Low(v) \in InChunk(S, High(v)) \cap InChunk(R, High(v))
        BY <1>4
      <3> QED
        BY <1>1, <1>2, <1>3, <3>1 DEF fc_roaring_intersects
    <2>2. ASSUME fc_roaring_intersects(a, b) PROVE S \cap R # {}
      <3>1. PICK h \in ChunkKeys(S) \cap ChunkKeys(R) : LowsAt(a, h) \cap LowsAt(b, h) # {}
        BY <1>1, <2>2 DEF fc_roaring_intersects
      <3>2. PICK l \in Remainders : h * Chunk + l \in S /\ h * Chunk + l \in R
        BY <1>2, <1>3, <3>1 DEF InChunk
      <3> QED
        BY <3>2
    <2> QED
      BY <2>1, <2>2
  <1> QED
    BY <1>5, <1>6, <1>7

----------------------------------------------------------------------------
(* A bitmap as an array.                                                    *)

LEMMA AscendingRises ==
    ASSUME NEW S \in SUBSET Int, IsFiniteSet(S),
           NEW i \in 1 .. Cardinality(S), NEW j \in 1 .. Cardinality(S), i < j
    PROVE  Ascending(S)[i] < Ascending(S)[j]
  <1> DEFINE x == Ascending(S)[i]
             z == Ascending(S)[j]
  <1>1. /\ x \in S /\ z \in S /\ Rank(S, x) = i - 1 /\ Rank(S, z) = j - 1 /\ Cardinality(S) \in Nat
    BY AscendingOrder
  <1>2. x \in Int /\ z \in Int
    BY <1>1
  <1> HIDE DEF x, z
  <1>3. ~(z < x)
    BY <1>1, <1>2, RankRises
  <1>4. x # z
    BY <1>1
  <1>5. x < z
    BY <1>2, <1>3, <1>4
  <1> QED
    BY <1>5 DEF x, z

\* What two sequences joined are, entry by entry.
LEMMA BehindEachOther ==
    ASSUME NEW X, NEW Y, NEW s \in Seq(X), NEW t \in Seq(Y)
    PROVE  s \o t = [i \in 1 .. Len(s) + Len(t) |-> IF i <= Len(s) THEN s[i] ELSE t[i - Len(s)]]
  <1>1. Len(s) \in Nat /\ Len(t) \in Nat
    OBVIOUS
  <1>2. s \o t \in Seq(X \cup Y) /\ Len(s \o t) = Len(s) + Len(t)
    OBVIOUS
  <1>3. \A i \in 1 .. Len(s) + Len(t) : (s \o t)[i] = IF i <= Len(s) THEN s[i] ELSE t[i - Len(s)]
    OBVIOUS
  <1>4. s \o t \in [1 .. Len(s \o t) -> X \cup Y]
    BY <1>2, LenProperties
  <1> QED
    BY <1>2, <1>3, <1>4

\* Two sets in order, one behind the other, if all of the first is below the second.
LEMMA AscendingJoined ==
    ASSUME NEW A \in SUBSET Int, IsFiniteSet(A), NEW B \in SUBSET Int, IsFiniteSet(B),
           \A x \in A, y \in B : x < y
    PROVE  Ascending(A) \o Ascending(B) = Ascending(A \cup B)
  <1> DEFINE m == Cardinality(A)
             n == Cardinality(B)
             f == Ascending(A) \o Ascending(B)
  <1>1. /\ m \in Nat /\ n \in Nat /\ m + n \in Nat
        /\ Ascending(A) \in [1 .. m -> A] /\ Ascending(B) \in [1 .. n -> B]
        /\ Range(Ascending(A)) = A /\ Range(Ascending(B)) = B
    BY AscendingOrder
  <1>2. Ascending(A) \in Seq(A) /\ Ascending(B) \in Seq(B) /\ Len(Ascending(A)) = m /\ Len(Ascending(B)) = n
    <2>1. Ascending(A) \in Seq(A) /\ Len(Ascending(A)) = m
      <3> HIDE DEF m
      <3> QED
        BY <1>1
    <2>2. Ascending(B) \in Seq(B) /\ Len(Ascending(B)) = n
      <3> HIDE DEF n
      <3> QED
        BY <1>1
    <2> QED
      BY <2>1, <2>2
  <1>3. f = [i \in 1 .. m + n |-> IF i <= m THEN Ascending(A)[i] ELSE Ascending(B)[i - m]]
    <2> HIDE DEF m, n
    <2>1. f = [i \in 1 .. Len(Ascending(A)) + Len(Ascending(B)) |->
                  IF i <= Len(Ascending(A)) THEN Ascending(A)[i] ELSE Ascending(B)[i - Len(Ascending(A))]]
      <3> HIDE DEF f
      <3>1. Ascending(A) \o Ascending(B)
             = [i \in 1 .. Len(Ascending(A)) + Len(Ascending(B)) |->
                  IF i <= Len(Ascending(A)) THEN Ascending(A)[i] ELSE Ascending(B)[i - Len(Ascending(A))]]
        <4>1. PICK s \in Seq(A) : s = Ascending(A)
          BY ONLY <1>2
        <4>2. PICK t \in Seq(B) : t = Ascending(B)
          BY ONLY <1>2
        <4>3. s \o t = [i \in 1 .. Len(s) + Len(t) |-> IF i <= Len(s) THEN s[i] ELSE t[i - Len(s)]]
          BY ONLY BehindEachOther
        <4> QED
          BY ONLY <4>1, <4>2, <4>3
      <3> QED
        BY ONLY <3>1 DEF f
    <2> QED
      BY <1>2, <2>1
  <1>4. \A i \in 1 .. m + n : (i <= m => i \in 1 .. m) /\ (~(i <= m) => i - m \in 1 .. n)
    BY <1>1
  <1> HIDE DEF m, n, f
  <1>5. f \in [1 .. m + n -> A \cup B]
    BY <1>1, <1>3, <1>4
  <1>6. ASSUME NEW i \in 1 .. m + n, NEW j \in 1 .. m + n, i < j PROVE f[i] < f[j]
    <2>1. CASE j <= m
      <3>1. i <= m /\ i \in 1 .. m /\ j \in 1 .. m
        BY <1>1, <1>4, <1>6, <2>1
      <3>2. f[i] = Ascending(A)[i] /\ f[j] = Ascending(A)[j]
        BY <1>3, <2>1, <3>1
      <3> QED
        BY <1>6, <3>1, <3>2, AscendingRises DEF m
    <2>2. CASE ~(j <= m) /\ i <= m
      <3>1. f[i] = Ascending(A)[i] /\ f[j] = Ascending(B)[j - m]
        BY <1>3, <2>2
      <3>2. f[i] \in A /\ f[j] \in B
        BY <1>1, <1>4, <2>2, <3>1
      <3> QED
        BY <3>2
    <2>3. CASE ~(i <= m)
      <3>1. ~(j <= m)
        BY <1>1, <1>6, <2>3
      <3>2. PICK k \in 1 .. n, l \in 1 .. n : k = i - m /\ l = j - m /\ k < l
        BY <1>1, <1>4, <1>6, <2>3, <3>1
      <3>3. f[i] = Ascending(B)[k] /\ f[j] = Ascending(B)[l]
        BY <1>3, <2>3, <3>1, <3>2
      <3> QED
        BY <3>2, <3>3, AscendingRises DEF n
    <2> QED
      BY <2>1, <2>2, <2>3
  <1>7. ASSUME NEW x \in A \cup B PROVE \E i \in 1 .. m + n : f[i] = x
    <2>1. CASE x \in A
      <3>1. PICK k \in 1 .. m : Ascending(A)[k] = x
        BY <1>1, <2>1 DEF Range
      <3>2. k \in 1 .. m + n /\ k <= m
        BY <1>1
      <3> QED
        BY <1>3, <3>1, <3>2
    <2>2. CASE x \in B
      <3>1. PICK k \in 1 .. n : Ascending(B)[k] = x
        BY <1>1, <2>2 DEF Range
      <3>2. k + m \in 1 .. m + n /\ ~(k + m <= m) /\ (k + m) - m = k
        BY <1>1
      <3> QED
        BY <1>3, <3>1, <3>2
    <2> QED
      BY <2>1, <2>2
  <1>8. A \cup B \in SUBSET Int
    OBVIOUS
  <1>9. f = Ascending(A \cup B)
    BY <1>1, <1>5, <1>6, <1>7, <1>8, OneOrder
  <1> QED
    BY <1>9 DEF f

\* The values of a chunk are in the order of their remainders.
LEMMA AscendingShifted ==
    ASSUME NEW h \in Int, NEW lows \in SUBSET Remainders
    PROVE  [j \in DOMAIN Ascending(lows) |-> h * Chunk + Ascending(lows)[j]] = Ascending(ValuesOf(h, lows))
  <1> DEFINE n == Cardinality(lows)
             f == [j \in DOMAIN Ascending(lows) |-> h * Chunk + Ascending(lows)[j]]
  <1>1. lows \in SUBSET Int /\ IsFiniteSet(lows)
    BY FiniteRemainders
  <1>2. n \in Nat /\ Ascending(lows) \in [1 .. n -> lows] /\ Range(Ascending(lows)) = lows
    BY <1>1, AscendingOrder
  <1>3. f = [j \in 1 .. n |-> h * Chunk + Ascending(lows)[j]]
    BY <1>2
  <1>4. ValuesOf(h, lows) \in SUBSET Int
    BY ValuesCount
  <1>5. f \in [1 .. n -> ValuesOf(h, lows)]
    BY <1>2, <1>3 DEF ValuesOf
  <1>6. ASSUME NEW i \in 1 .. n, NEW j \in 1 .. n, i < j PROVE f[i] < f[j]
    <2>1. Ascending(lows)[i] < Ascending(lows)[j]
      BY <1>1, <1>6, AscendingRises
    <2>2. PICK k \in Remainders, l \in Remainders : k = Ascending(lows)[i] /\ l = Ascending(lows)[j]
      BY <1>2
    <2>3. h * Chunk + k < h * Chunk + l
      BY <2>1, <2>2, PartsOrder
    <2> QED
      BY <1>3, <2>2, <2>3
  <1>7. ASSUME NEW v \in ValuesOf(h, lows) PROVE \E i \in 1 .. n : f[i] = v
    <2>1. PICK l \in lows : v = h * Chunk + l
      BY DEF ValuesOf
    <2>2. PICK i \in 1 .. n : Ascending(lows)[i] = l
      BY <1>2 DEF Range
    <2> QED
      BY <1>3, <2>1, <2>2
  <1> HIDE DEF n, f
  <1>8. f = Ascending(ValuesOf(h, lows))
    BY <1>2, <1>4, <1>5, <1>6, <1>7, OneOrder
  <1> QED
    BY <1>8 DEF f

\* Sequences are joined one after the other.
LEMMA Joined ==
    ASSUME NEW n \in Nat \ {0}, NEW seqs, Len(seqs) = n, NEW joined,
           joined = [i \in 1 .. n |-> IF i = 1 THEN seqs[i] ELSE joined[i - 1] \o seqs[i]]
    PROVE  FlattenSeq(seqs) = joined[n]
  <1> DEFINE Flattens(f) == f = [i \in 1 .. Len(seqs) |-> IF i = 1 THEN seqs[i] ELSE f[i - 1] \o seqs[i]]
             f == CHOOSE f : Flattens(f)
  <1>1. FlattenSeq(seqs) = f[Len(seqs)]
    BY DEF FlattenSeq
  <1>2. Flattens(joined)
    OBVIOUS
  <1>3. Flattens(f)
    BY <1>2
  <1> HIDE DEF f
  <1>4. \A i \in 1 .. n : f[i] = IF i = 1 THEN seqs[i] ELSE f[i - 1] \o seqs[i]
    BY <1>3
  <1>5. \A i \in 1 .. n : joined[i] = IF i = 1 THEN seqs[i] ELSE joined[i - 1] \o seqs[i]
    OBVIOUS
  <1> DEFINE S == {i \in Nat : i + 1 <= n => f[i + 1] = joined[i + 1]}
  <1>6. 0 \in S
    <2>1. 0 + 1 = 1 /\ 1 \in 1 .. n
      OBVIOUS
    <2> QED
      BY <1>4, <1>5, <2>1
  <1>7. ASSUME NEW i \in S PROVE i + 1 \in S
    <2> SUFFICES ASSUME (i + 1) + 1 <= n PROVE f[(i + 1) + 1] = joined[(i + 1) + 1]
      OBVIOUS
    <2>1. f[i + 1] = joined[i + 1]
      OBVIOUS
    <2>2. PICK k \in 1 .. n : k = (i + 1) + 1 /\ k # 1 /\ k - 1 = i + 1
      OBVIOUS
    <2>3. f[k] = f[k - 1] \o seqs[k] /\ joined[k] = joined[k - 1] \o seqs[k]
      BY <1>4, <1>5, <2>2
    <2> QED
      BY <2>1, <2>2, <2>3
  <1>8. S = Nat
    <2>1. S \in SUBSET Nat
      OBVIOUS
    <2> HIDE DEF S
    <2> QED
      BY <1>6, <1>7, <2>1, BySteps
  <1>9. n - 1 \in S /\ (n - 1) + 1 = n
    <2>1. n - 1 \in Nat /\ (n - 1) + 1 = n
      OBVIOUS
    <2> HIDE DEF S
    <2> QED
      BY <1>8, <2>1
  <1>10. f[n] = joined[n]
    BY <1>9
  <1> QED
    BY <1>1, <1>10

LEMMA ArrayRead ==
    ASSUME NEW b, NEW S \in SUBSET Values, WellStored(b, S)
    PROVE  fc_roaring_to_array(b) = Ascending(S)
  <1> DEFINE keys == Ascending(Keys(b))
             n == Cardinality(Keys(b))
             part(i) == [j \in DOMAIN Ascending(LowsAt(b, keys[i])) |->
                            keys[i] * Chunk + Ascending(LowsAt(b, keys[i]))[j]]
             seqs == [i \in 1 .. n |-> part(i)]
             before(i) == {v \in S : \E j \in 1 .. i : High(v) = keys[j]}
             joined == [i \in 1 .. n |-> Ascending(before(i))]
  <1>1. Keys(b) = ChunkKeys(S) /\ Keys(b) \in SUBSET Int /\ IsFiniteSet(Keys(b))
    <2>1. Keys(b) = ChunkKeys(S) /\ ChunkKeys(S) \in SUBSET ChunkIndex
      BY DEF WellStored, Keys, ChunkKeys
    <2>2. IsFiniteSet(ChunkIndex) /\ ChunkIndex \in SUBSET Int
      BY RoaringConstants, FS_Interval DEF ChunkIndex
    <2> QED
      BY <2>1, <2>2, FS_Subset
  <1>2. n \in Nat /\ keys \in [1 .. n -> Keys(b)] /\ Range(keys) = Keys(b)
        /\ \A i, j \in 1 .. n : i < j => keys[i] < keys[j]
    BY <1>1, AscendingOrder, AscendingRises
  <1>3. fc_roaring_to_array(b) = FlattenSeq(seqs)
    BY DEF fc_roaring_to_array
  <1> HIDE DEF keys, n
  <1>4. ASSUME NEW i \in 1 .. n
        PROVE  /\ keys[i] \in Int
               /\ ValuesOf(keys[i], InChunk(S, keys[i])) = {v \in S : High(v) = keys[i]}
               /\ part(i) = Ascending({v \in S : High(v) = keys[i]})
    <2>1. PICK h \in Int : h = keys[i]
      BY <1>1, <1>2
    <2>2. LowsAt(b, h) = InChunk(S, h) /\ InChunk(S, h) \in SUBSET Remainders
      BY LowsRead, InChunkType
    <2>3. [j \in DOMAIN Ascending(LowsAt(b, h)) |-> h * Chunk + Ascending(LowsAt(b, h))[j]]
             = Ascending(ValuesOf(h, InChunk(S, h)))
      BY <2>2, AscendingShifted
    <2>4. ValuesOf(h, InChunk(S, h)) = {v \in S : High(v) = h}
      <3>1. ASSUME NEW v \in ValuesOf(h, InChunk(S, h)) PROVE v \in S /\ High(v) = h
        BY <2>2, PartsPut DEF ValuesOf, InChunk
      <3>2. ASSUME NEW v \in S, High(v) = h PROVE v \in ValuesOf(h, InChunk(S, h))
        <4>1. v \in Values /\ Low(v) \in InChunk(S, High(v)) /\ v = High(v) * Chunk + Low(v)
          BY Membership
        <4> QED
          BY <3>2, <4>1 DEF ValuesOf
      <3> QED
        BY <3>1, <3>2
    <2> QED
      BY <2>1, <2>3, <2>4
  <1>5. S \in SUBSET Int /\ IsFiniteSet(S) /\ \A T \in SUBSET S : T \in SUBSET Int /\ IsFiniteSet(T)
    BY FiniteValues, FS_Subset
  <1>6. ASSUME NEW i \in 1 .. n, i # 1
        PROVE  Ascending(before(i)) = Ascending(before(i - 1)) \o part(i)
    <2> DEFINE A == before(i - 1)
               B == {v \in S : High(v) = keys[i]}
    <2>1. i - 1 \in Nat /\ i - 1 \in 1 .. n /\ \A j \in 1 .. i : j \in 1 .. i - 1 \/ j = i
      BY <1>2, <1>6
    <2>2. A \cup B = before(i)
      <3>1. \A j \in 1 .. i - 1 : j \in 1 .. i
        BY <2>1
      <3>2. i \in 1 .. i
        BY <1>2
      <3> QED
        BY <2>1, <3>1, <3>2
    <2>3. ASSUME NEW x \in A, NEW y \in B PROVE x < y
      <3>1. PICK j \in 1 .. i - 1 : High(x) = keys[j]
        OBVIOUS
      <3>2. j \in 1 .. n /\ j < i
        BY <1>2, <2>1
      <3>3. High(x) < High(y) /\ x \in Values /\ y \in Values
        BY <1>2, <3>1, <3>2
      <3> QED
        BY <3>3, HighRises
    <2>4. A \in SUBSET Int /\ IsFiniteSet(A) /\ B \in SUBSET Int /\ IsFiniteSet(B)
      <3>1. A \in SUBSET S /\ B \in SUBSET S
        OBVIOUS
      <3> HIDE DEF A, B
      <3> QED
        BY <1>5, <3>1
    <2>5. part(i) = Ascending(B)
      BY <1>4
    <2> HIDE DEF A, B, before, part
    <2>6. Ascending(A) \o Ascending(B) = Ascending(A \cup B)
      BY <2>3, <2>4, AscendingJoined
    <2> QED
      BY <2>2, <2>5, <2>6 DEF A
  <1>7. CASE n = 0
    <2>1. seqs = <<>>
      BY <1>7
    <2>2. FlattenSeq(<<>>) = <<>>
      BY DEF FlattenSeq
    <2>3. S = {}
      <3>1. ChunkKeys(S) = {}
        BY <1>1, <1>7, FS_EmptySet DEF n
      <3> QED
        BY <1>5, <3>1, ChunkOfValue
    <2>4. Ascending({}) = <<>>
      BY FS_EmptySet DEF Ascending
    <2> QED
      BY <1>3, <2>1, <2>2, <2>3, <2>4
  <1>8. CASE n # 0
    <2>1. n \in Nat \ {0} /\ Len(seqs) = n
      BY <1>2, <1>8
    <2>2. ASSUME NEW i \in 1 .. n
          PROVE  joined[i] = IF i = 1 THEN seqs[i] ELSE joined[i - 1] \o seqs[i]
      <3>1. CASE i = 1
        <4>1. before(i) = {v \in S : High(v) = keys[i]}
          BY <3>1
        <4> QED
          BY <1>4, <3>1, <4>1
      <3>2. CASE i # 1
        <4>1. i - 1 \in 1 .. n
          BY <1>2, <3>2
        <4>2. joined[i] = Ascending(before(i)) /\ joined[i - 1] = Ascending(before(i - 1)) /\ seqs[i] = part(i)
          BY <4>1
        <4> HIDE DEF joined, seqs, before, part
        <4> QED
          BY <1>6, <3>2, <4>2
      <3> QED
        BY <3>1, <3>2
    <2>3. joined = [i \in 1 .. n |-> joined[i]]
      OBVIOUS
    <2>4. joined[n] = Ascending(S)
      <3>1. before(n) = S
        <4>1. ASSUME NEW v \in S PROVE \E j \in 1 .. n : High(v) = keys[j]
          <5>1. High(v) \in Keys(b)
            BY <1>1, <1>5, ChunkOfValue
          <5> QED
            BY <1>2, <5>1 DEF Range
        <4> QED
          BY <4>1
      <3>2. n \in 1 .. n
        BY <2>1
      <3> QED
        BY <3>1, <3>2
    <2> HIDE DEF joined, seqs, part, before
    <2>5. joined = [i \in 1 .. n |-> IF i = 1 THEN seqs[i] ELSE joined[i - 1] \o seqs[i]]
      BY <2>2, <2>3
    <2>6. FlattenSeq(seqs) = joined[n]
      BY <2>1, <2>5, Joined
    <2> QED
      BY <1>3, <2>4, <2>6
  <1> QED
    BY <1>7, <1>8

\* A bitmap answers as the set it stands for, whatever containers its history has left:
\* membership, order, number and comparison.
THEOREM RoaringIsFaithful == RoaringSpec => []RoaringFaithful
  <1>1. RoaringInv => RoaringFaithful
    <2> SUFFICES ASSUME RoaringInv PROVE RoaringFaithful
      OBVIOUS
    <2>1. \A b \in Bitmap : members[b] \in SUBSET Values /\ WellStored(roaring[b], members[b])
      BY DEF RoaringInv
    <2>2. ASSUME NEW b \in Bitmap
          PROVE  /\ {v \in Values : fc_roaring_contains(roaring[b], v)} = members[b]
                 /\ fc_roaring_to_array(roaring[b]) = Ascending(members[b])
                 /\ fc_roaring_cardinality(roaring[b]) = Cardinality(members[b])
                 /\ members[b] # {} => /\ fc_roaring_min(roaring[b]) = Min(members[b])
                                       /\ fc_roaring_max(roaring[b]) = Max(members[b])
      <3>1. \A v \in Values : fc_roaring_contains(roaring[b], v) <=> v \in members[b]
        <4> SUFFICES ASSUME NEW v \in Values
                     PROVE  fc_roaring_contains(roaring[b], v) <=> v \in members[b]
          OBVIOUS
        <4>1. High(v) \in Int /\ (v \in members[b] <=> Low(v) \in InChunk(members[b], High(v)))
          BY <2>1, Membership
        <4>2. LowsAt(roaring[b], High(v)) = InChunk(members[b], High(v))
          BY <2>1, <4>1, LowsRead
        <4> QED
          BY <4>1, <4>2 DEF fc_roaring_contains
      <3>2. {v \in Values : fc_roaring_contains(roaring[b], v)} = members[b]
        BY <2>1, <3>1
      <3>3. fc_roaring_to_array(roaring[b]) = Ascending(members[b])
        BY <2>1, ArrayRead
      <3>4. fc_roaring_cardinality(roaring[b]) = Cardinality(members[b])
        BY <2>1 DEF fc_roaring_cardinality, WellStored
      <3>5. members[b] # {} => /\ fc_roaring_min(roaring[b]) = Min(members[b])
                               /\ fc_roaring_max(roaring[b]) = Max(members[b])
        BY <2>1, EndsRead
      <3> QED
        BY <3>2, <3>3, <3>4, <3>5
    <2>3. RoaringCompares
      BY <2>1, Compared DEF RoaringCompares
    <2>4. ASSUME NEW b \in Bitmap, NEW h \in Keys(roaring[b])
          PROVE  LET n == Cardinality(Lows(roaring[b].containers[h]))
                 IN  /\ n > 0
                     /\ roaring[b].containers[h].kind = "array" => n < ArrayLimit
                     /\ roaring[b].containers[h].kind = "bitmap" => n >= ArrayLimit
      <3> DEFINE container == roaring[b].containers[h]
                 lows == InChunk(members[b], h)
      <3>1. Holds(container, lows) /\ lows # {}
        BY <2>1 DEF WellStored, Keys, ChunkKeys
      <3>2. lows \in SUBSET Remainders
        BY InChunkType
      <3> HIDE DEF container, lows
      <3>3. /\ Lows(container) = lows
            /\ container.kind = "array" => Cardinality(lows) < ArrayLimit
            /\ container.kind = "bitmap" => Cardinality(lows) >= ArrayLimit
        BY <3>1, <3>2, HoldsLows
      <3>4. Cardinality(lows) > 0
        BY <3>1, <3>2, FiniteRemainders
      <3> QED
        BY <3>3, <3>4 DEF container
    <2> QED
      BY <2>2, <2>3, <2>4 DEF RoaringFaithful, RoaringIsSet, RoaringContainers
  <1> QED
    BY <1>1, RoaringInvariance, PTL
=============================================================================
