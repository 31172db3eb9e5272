--------------------------- MODULE BenchRun_proofs ---------------------------
(***************************************************************************)
(* What BenchRun promises, for every set of configurations: the running    *)
(* statistics and the samples are those of the passes whatever realloc     *)
(* fails, and the percentiles as long as none does, the figures reported   *)
(* are those of the passes, a calibrated pass takes the time asked for,    *)
(* and a comparison restores the SIMD level.                               *)
(*                                                                         *)
(* A run has at most five passes, so a fold over them is a sum of five     *)
(* terms, and Welford's update divides without a remainder.                *)
(***************************************************************************)
EXTENDS BenchRun, SequenceTheorems, FiniteSetTheorems, TLAPS

----------------------------------------------------------------------------
(* Sums over subsets of 1 .. 5, in whatever order a fold takes them.        *)

Term(w, t, i) == IF i \in t THEN w[i] ELSE 0

SumOver(w, t) == Term(w, t, 1) + Term(w, t, 2) + Term(w, t, 3) + Term(w, t, 4) + Term(w, t, 5)

LEMMA SumIsInt ==
    ASSUME NEW n \in 0 .. 5, NEW w \in [1 .. n -> Int], NEW t \in SUBSET (1 .. n)
    PROVE  /\ SumOver(w, t) \in Int
           /\ \A i \in 1 .. 5 : Term(w, t, i) \in Int
  <1>1. \A i \in 1 .. 5 : Term(w, t, i) \in Int
    BY DEF Term
  <1> QED
    BY <1>1 DEF SumOver

LEMMA TakeOne ==
    ASSUME NEW n \in 0 .. 5, NEW w \in [1 .. n -> Int], NEW t \in SUBSET (1 .. n), NEW x \in t
    PROVE  w[x] + SumOver(w, t \ {x}) = SumOver(w, t)
  <1>1. \A i \in 1 .. 5 : i # x => Term(w, t \ {x}, i) = Term(w, t, i)
    BY DEF Term
  <1>2. Term(w, t \ {x}, x) = 0 /\ Term(w, t, x) = w[x] /\ w[x] \in Int
    BY DEF Term
  <1>3. \A i \in 1 .. 5 : Term(w, t, i) \in Int
    BY SumIsInt
  <1>4. /\ SumOver(w, t) = Term(w, t, 1) + Term(w, t, 2) + Term(w, t, 3) + Term(w, t, 4) + Term(w, t, 5)
        /\ SumOver(w, t \ {x}) = Term(w, t \ {x}, 1) + Term(w, t \ {x}, 2) + Term(w, t \ {x}, 3)
                                   + Term(w, t \ {x}, 4) + Term(w, t \ {x}, 5)
    BY DEF SumOver
  <1>5. CASE x = 1
    BY <1>1, <1>2, <1>3, <1>4, <1>5
  <1>6. CASE x = 2
    BY <1>1, <1>2, <1>3, <1>4, <1>6
  <1>7. CASE x = 3
    BY <1>1, <1>2, <1>3, <1>4, <1>7
  <1>8. CASE x = 4
    BY <1>1, <1>2, <1>3, <1>4, <1>8
  <1>9. CASE x = 5
    BY <1>1, <1>2, <1>3, <1>4, <1>9
  <1> QED
    BY <1>5, <1>6, <1>7, <1>8, <1>9

\* The equation that a fold with + solves.
FoldsTo(h, w, n) ==
    h = [t \in SUBSET (1 .. n) |->
            IF t = {} THEN 0 ELSE w[CHOOSE x \in t : TRUE] + h[t \ {CHOOSE x \in t : TRUE}]]

LEMMA FoldExists ==
    ASSUME NEW n \in 0 .. 5, NEW w \in [1 .. n -> Int]
    PROVE  \E h : FoldsTo(h, w, n)
  <1> DEFINE h == [t \in SUBSET (1 .. n) |-> SumOver(w, t)]
  <1>1. ASSUME NEW t \in SUBSET (1 .. n)
        PROVE  SumOver(w, t) = IF t = {} THEN 0
                               ELSE w[CHOOSE x \in t : TRUE] + h[t \ {CHOOSE x \in t : TRUE}]
    <2>1. CASE t = {}
      BY <2>1 DEF SumOver, Term
    <2>2. CASE t # {}
      <3>1. (CHOOSE x \in t : TRUE) \in t
        BY <2>2
      <3>2. t \ {CHOOSE x \in t : TRUE} \in SUBSET (1 .. n)
        OBVIOUS
      <3> QED
        BY <2>2, <3>1, <3>2, TakeOne
    <2> QED
      BY <2>1, <2>2
  <1>2. FoldsTo(h, w, n)
    BY <1>1 DEF FoldsTo
  <1> QED
    BY <1>2

LEMMA FoldIsSum ==
    ASSUME NEW n \in 0 .. 5, NEW w \in [1 .. n -> Int], NEW h, FoldsTo(h, w, n)
    PROVE  h[1 .. n] = SumOver(w, 1 .. n)
  <1> DEFINE P(k) == \A t \in SUBSET (1 .. n) : Cardinality(t) <= k => h[t] = SumOver(w, t)
  <1>1. \A t \in SUBSET (1 .. n) : IsFiniteSet(t) /\ Cardinality(t) \in Nat
    <2>1. IsFiniteSet(1 .. n)
      BY FS_Interval
    <2> QED
      BY <2>1, FS_Subset, FS_CardinalityType
  <1>2. P(0)
    <2>1. \A t \in SUBSET (1 .. n) : Cardinality(t) <= 0 => t = {}
      BY <1>1, FS_EmptySet
    <2>2. h[{}] = 0 /\ SumOver(w, {}) = 0
      BY DEF FoldsTo, SumOver, Term
    <2> QED
      BY <2>1, <2>2
  <1>3. ASSUME NEW k \in Nat, P(k) PROVE P(k + 1)
    <2> SUFFICES ASSUME NEW t \in SUBSET (1 .. n), Cardinality(t) <= k + 1, t # {}
                 PROVE  h[t] = SumOver(w, t)
      BY <1>2, <1>1, FS_EmptySet
    <2>1. PICK x : x = (CHOOSE y \in t : TRUE) /\ x \in t
      OBVIOUS
    <2>2. Cardinality(t \ {x}) = Cardinality(t) - 1
      BY <1>1, <2>1, FS_RemoveElement
    <2>3. h[t \ {x}] = SumOver(w, t \ {x})
      BY <1>1, <1>3, <2>2
    <2>4. h[t] = w[x] + h[t \ {x}]
      BY <2>1 DEF FoldsTo
    <2> QED
      BY <2>1, <2>3, <2>4, TakeOne
  <1>4. Cardinality(1 .. n) <= 5
    <2>1. 1 \in Int /\ n \in Int /\ (1 > n <=> n = 0)
      OBVIOUS
    <2>2. Cardinality(1 .. n) = IF 1 > n THEN 0 ELSE n - 1 + 1
      BY <2>1, FS_Interval
    <2> QED
      BY <2>2
  <1> HIDE DEF P
  <1>5. P(1) /\ P(2) /\ P(3) /\ P(4) /\ P(5)
    <2>1. P(1)
      BY <1>2, <1>3
    <2>2. P(2)
      BY <1>3, <2>1
    <2>3. P(3)
      BY <1>3, <2>2
    <2>4. P(4)
      BY <1>3, <2>3
    <2> QED
      BY <1>3, <2>1, <2>2, <2>3, <2>4
  <1> QED
    BY <1>4, <1>5 DEF P

\* The sum of the passes.
LEMMA FoldOfPasses ==
    ASSUME NEW s \in Seq(Nat), Len(s) \in 0 .. 5
    PROVE  FoldSeq(+, 0, s) = SumOver(s, 1 .. Len(s))
  <1>1. PICK n \in 0 .. 5 : n = Len(s)
    OBVIOUS
  <1>2. DOMAIN s = 1 .. n /\ s \in [1 .. n -> Int]
    BY <1>1
  <1> DEFINE h == CHOOSE h : FoldsTo(h, s, n)
  <1>3. FoldsTo(h, s, n)
    BY <1>2, FoldExists
  <1>4. FoldSeq(+, 0, s) = h[1 .. n]
    BY <1>2 DEF FoldSeq, FoldFunction, FoldFunctionOnSet, MapThenFoldSet, FoldsTo
  <1> HIDE DEF h
  <1> QED
    BY <1>1, <1>2, <1>3, <1>4, FoldIsSum

\* The sum of the squared deviations of the passes from m.
Squares(s, m) == [i \in DOMAIN s |-> (Scale * s[i] - m) * (Scale * s[i] - m)]

LEMMA FoldOfSquares ==
    ASSUME NEW s \in Seq(Nat), Len(s) \in 0 .. 5, NEW m \in Int
    PROVE  FoldSeq(LAMBDA v, sum : (Scale * v - m) * (Scale * v - m) + sum, 0, s)
              = SumOver(Squares(s, m), 1 .. Len(s))
  <1>1. PICK n \in 0 .. 5 : n = Len(s)
    OBVIOUS
  <1>2. DOMAIN s = 1 .. n /\ s \in [1 .. n -> Int]
    BY <1>1
  <1>3. Squares(s, m) \in [1 .. n -> Int]
    BY <1>2, StatsAssumption DEF Squares
  <1> DEFINE h == CHOOSE h : FoldsTo(h, Squares(s, m), n)
  <1>4. FoldsTo(h, Squares(s, m), n)
    BY <1>3, FoldExists
  <1>5. FoldSeq(LAMBDA v, sum : (Scale * v - m) * (Scale * v - m) + sum, 0, s) = h[1 .. n]
    BY <1>2 DEF FoldSeq, FoldFunction, FoldFunctionOnSet, MapThenFoldSet, FoldsTo, Squares
  <1> HIDE DEF h
  <1> QED
    BY <1>1, <1>3, <1>4, <1>5, FoldIsSum

\* A sum over one more, and over a longer sequence that starts alike.
LEMMA SumOfMore ==
    ASSUME NEW n \in 0 .. 5, NEW w \in [1 .. n -> Int], NEW k \in 0 .. 4, k < n
    PROVE  /\ SumOver(w, 1 .. k + 1) = SumOver(w, 1 .. k) + w[k + 1]
           /\ SumOver(w, 1 .. k) \in Int
  <1>1. \A i \in 1 .. k : Term(w, 1 .. k + 1, i) = w[i] /\ Term(w, 1 .. k, i) = w[i] /\ w[i] \in Int
    BY DEF Term
  <1>2. Term(w, 1 .. k + 1, k + 1) = w[k + 1] /\ Term(w, 1 .. k, k + 1) = 0 /\ w[k + 1] \in Int
    BY DEF Term
  <1>3. \A i \in k + 2 .. 5 : Term(w, 1 .. k + 1, i) = 0 /\ Term(w, 1 .. k, i) = 0
    BY DEF Term
  <1>4. CASE k = 0
    BY <1>1, <1>2, <1>3, <1>4 DEF SumOver
  <1>5. CASE k = 1
    BY <1>1, <1>2, <1>3, <1>5 DEF SumOver
  <1>6. CASE k = 2
    BY <1>1, <1>2, <1>3, <1>6 DEF SumOver
  <1>7. CASE k = 3
    BY <1>1, <1>2, <1>3, <1>7 DEF SumOver
  <1>8. CASE k = 4
    BY <1>1, <1>2, <1>3, <1>8 DEF SumOver
  <1> QED
    BY <1>4, <1>5, <1>6, <1>7, <1>8

LEMMA SumOfNone == \A w : SumOver(w, 1 .. 0) = 0
  BY DEF SumOver, Term

LEMMA SumAlike ==
    ASSUME NEW k \in 0 .. 5, NEW v, NEW w, \A i \in 1 .. k : v[i] = w[i]
    PROVE  SumOver(v, 1 .. k) = SumOver(w, 1 .. k)
  BY DEF SumOver, Term

\* One more pass.
LEMMA SumAppended ==
    ASSUME NEW s \in Seq(Nat), Len(s) \in 0 .. 4, NEW e \in Nat
    PROVE  SumOver(Append(s, e), 1 .. Len(s) + 1) = SumOver(s, 1 .. Len(s)) + e
  <1>1. PICK k \in 0 .. 4 : k = Len(s)
    OBVIOUS
  <1> DEFINE v == Append(s, e)
  <1>2. v \in [1 .. k + 1 -> Int]
    <2>1. v \in Seq(Nat) /\ Len(v) = k + 1
      BY <1>1
    <2>2. v \in [1 .. Len(v) -> Nat]
      <3> HIDE DEF v
      <3> QED
        BY <2>1
    <2> QED
      BY <2>1, <2>2
  <1>3. v[k + 1] = e /\ \A i \in 1 .. k : v[i] = s[i]
    BY <1>1
  <1> HIDE DEF v
  <1>4. SumOver(v, 1 .. k + 1) = SumOver(v, 1 .. k) + v[k + 1]
    <2>1. k + 1 \in 0 .. 5 /\ k < k + 1
      OBVIOUS
    <2> QED
      BY <1>2, <2>1, SumOfMore
  <1>5. SumOver(v, 1 .. k) = SumOver(s, 1 .. k)
    <2>1. k \in 0 .. 5 /\ \A i \in 1 .. k : v[i] = s[i]
      BY <1>3
    <2> QED
      BY <2>1, SumAlike
  <1> QED
    BY <1>1, <1>3, <1>4, <1>5 DEF v

\* Five steps of an induction.
LEMMA Upto ==
    ASSUME NEW n \in 0 .. 5, NEW P, 0 \in P, \A k \in 0 .. 4 : k < n /\ k \in P => k + 1 \in P
    PROVE  n \in P
  <1>1. n >= 1 => 1 \in P
    OBVIOUS
  <1>2. n >= 2 => 2 \in P
    BY <1>1
  <1>3. n >= 3 => 3 \in P
    BY <1>2
  <1>4. n >= 4 => 4 \in P
    BY <1>3
  <1>5. n >= 5 => 5 \in P
    BY <1>4
  <1> QED
    BY <1>1, <1>2, <1>3, <1>4, <1>5

\* A sum lies between the least and the largest times the number.
LEMMA SumBounded ==
    ASSUME NEW n \in 0 .. 5, NEW s \in [1 .. n -> Nat], NEW a \in Nat, NEW b \in Nat,
           \A i \in 1 .. n : a <= s[i] /\ s[i] <= b
    PROVE  n * a <= SumOver(s, 1 .. n) /\ SumOver(s, 1 .. n) <= n * b /\ SumOver(s, 1 .. n) \in Nat
  <1> DEFINE P == {k \in 0 .. 5 : k <= n => /\ k * a <= SumOver(s, 1 .. k)
                                            /\ SumOver(s, 1 .. k) <= k * b
                                            /\ SumOver(s, 1 .. k) \in Nat}
  <1>1. 0 \in P
    BY SumOfNone
  <1>2. ASSUME NEW k \in 0 .. 4, k < n, k \in P PROVE k + 1 \in P
    <2>1. s \in [1 .. n -> Int]
      OBVIOUS
    <2>2. SumOver(s, 1 .. k + 1) = SumOver(s, 1 .. k) + s[k + 1]
      BY <1>2, <2>1, SumOfMore
    <2>3. PICK v \in Nat, S \in Nat : v = s[k + 1] /\ S = SumOver(s, 1 .. k)
      BY <1>2
    <2>4. k * a <= S /\ S <= k * b /\ a <= v /\ v <= b
      BY <1>2, <2>3
    <2>5. (k + 1) * a = k * a + a /\ (k + 1) * b = k * b + b
      OBVIOUS
    <2>6. k * a \in Nat /\ k * b \in Nat
      OBVIOUS
    <2> QED
      BY <2>2, <2>3, <2>4, <2>5, <2>6
  <1> HIDE DEF P
  <1>3. n \in P
    BY <1>1, <1>2, Upto
  <1> QED
    BY <1>3 DEF P

\* The sum of the squares about a centre moved by d.
LEMMA MovedCentre ==
    ASSUME NEW x \in Int, NEW m \in Int, NEW d \in Int
    PROVE  (x - (m + d)) * (x - (m + d)) = (x - m) * (x - m) - 2 * (d * x) + 2 * (d * m) + d * d
  OBVIOUS

LEMMA SquaresMoved ==
    ASSUME NEW n \in 0 .. 5, NEW s \in [1 .. n -> Nat], NEW m \in Int, NEW d \in Int,
           m * n = Scale * SumOver(s, 1 .. n)
    PROVE  SumOver(Squares(s, m + d), 1 .. n) = SumOver(Squares(s, m), 1 .. n) + n * (d * d)
  <1> DEFINE p == Squares(s, m)
             q == Squares(s, m + d)
             P == {k \in 0 .. 5 : k <= n =>
                      SumOver(q, 1 .. k) = SumOver(p, 1 .. k) - 2 * (d * (Scale * SumOver(s, 1 .. k)))
                                              + k * (2 * (d * m) + d * d)}
  <1>1. Scale \in Nat /\ d * m \in Int /\ d * d \in Int /\ s \in [1 .. n -> Int]
    BY StatsAssumption
  <1>2. p \in [1 .. n -> Int] /\ q \in [1 .. n -> Int]
    BY <1>1 DEF Squares
  <1>3. 0 \in P
    BY <1>1, SumOfNone
  <1>4. ASSUME NEW k \in 0 .. 4, k < n, k \in P PROVE k + 1 \in P
    <2>1. /\ SumOver(s, 1 .. k + 1) = SumOver(s, 1 .. k) + s[k + 1] /\ SumOver(s, 1 .. k) \in Int
          /\ SumOver(p, 1 .. k + 1) = SumOver(p, 1 .. k) + p[k + 1] /\ SumOver(p, 1 .. k) \in Int
          /\ SumOver(q, 1 .. k + 1) = SumOver(q, 1 .. k) + q[k + 1] /\ SumOver(q, 1 .. k) \in Int
      BY <1>1, <1>2, <1>4, SumOfMore
    <2>2. PICK x \in Int : x = Scale * s[k + 1]
      BY <1>1, <1>4
    <2>3. p[k + 1] = (x - m) * (x - m) /\ q[k + 1] = (x - (m + d)) * (x - (m + d))
      BY <1>4, <2>2 DEF Squares
    <2>4. q[k + 1] = p[k + 1] - 2 * (d * x) + 2 * (d * m) + d * d
      BY <2>3, MovedCentre
    <2>5. PICK S \in Int, v \in Int : S = SumOver(s, 1 .. k) /\ v = s[k + 1]
      BY <1>1, <1>4, <2>1
    <2>6. d * (Scale * (S + v)) = d * (Scale * S) + d * (Scale * v)
      BY <1>1
    <2>7. PICK c \in Int : c = 2 * (d * m) + d * d
      BY <1>1
    <2>8. (k + 1) * c = k * c + c
      OBVIOUS
    <2>9. d * (Scale * S) \in Int /\ d * x \in Int /\ k * c \in Int
      BY <1>1
    <2>10. SumOver(q, 1 .. k) = SumOver(p, 1 .. k) - 2 * (d * (Scale * S)) + k * c
      BY <1>4, <2>5, <2>7
    <2>11. p[k + 1] \in Int /\ q[k + 1] \in Int
      <3> HIDE DEF p, q
      <3>1. k + 1 \in 1 .. n
        BY <1>4
      <3> QED
        BY <1>2, <3>1
    <2>12. SumOver(q, 1 .. k + 1) = SumOver(p, 1 .. k + 1) - 2 * (d * (Scale * (S + v))) + (k + 1) * c
      <3> HIDE DEF p, q, P
      <3>1. PICK A \in Int, B \in Int, K \in Int :
               A = d * (Scale * S) /\ B = d * (Scale * v) /\ K = k * c
        BY <2>2, <2>5, <2>9
      <3>2. q[k + 1] = p[k + 1] - 2 * B + c
        <4>1. d * m \in Int /\ d * d \in Int /\ d * x = B
          BY <1>1, <2>2, <2>5, <3>1
        <4>2. PICK e \in Int, f \in Int : e = d * m /\ f = d * d
          BY <4>1
        <4>3. q[k + 1] = p[k + 1] - 2 * B + 2 * e + f /\ c = 2 * e + f
          BY <2>4, <2>7, <4>1, <4>2
        <4> QED
          BY <2>11, <3>1, <4>2, <4>3
      <3>3. SumOver(q, 1 .. k) = SumOver(p, 1 .. k) - 2 * A + K
        BY <2>10, <3>1
      <3>4. SumOver(q, 1 .. k + 1) = SumOver(p, 1 .. k + 1) - 2 * (A + B) + (K + c)
        <4>1. PICK f \in Int, g \in Int, p1 \in Int, q1 \in Int :
                 /\ f = SumOver(p, 1 .. k) /\ g = SumOver(q, 1 .. k)
                 /\ p1 = p[k + 1] /\ q1 = q[k + 1]
          BY <2>1, <2>11
        <4>2. q1 = p1 - 2 * B + c /\ g = f - 2 * A + K
          BY <3>2, <3>3, <4>1
        <4>3. g + q1 = f + p1 - 2 * (A + B) + (K + c)
          BY <4>2
        <4> QED
          BY <2>1, <4>1, <4>3
      <3> QED
        BY <2>6, <2>8, <3>1, <3>4
    <2> QED
      BY <2>1, <2>5, <2>7, <2>12
  <1> HIDE DEF P
  <1>5. n \in P
    BY <1>3, <1>4, Upto
  <1>6. SumOver(q, 1 .. n) = SumOver(p, 1 .. n) - 2 * (d * (m * n)) + n * (2 * (d * m) + d * d)
    BY <1>5 DEF P
  <1>7. SumOver(p, 1 .. n) \in Int /\ SumOver(q, 1 .. n) \in Int
    BY <1>2, SumIsInt
  <1>8. n * (2 * (d * m) + d * d) = 2 * (d * (m * n)) + n * (d * d)
    BY <1>1
  <1>9. d * (m * n) \in Int /\ n * (d * d) \in Int
    BY <1>1
  <1> HIDE DEF p, q
  <1>10. SumOver(q, 1 .. n) = SumOver(p, 1 .. n) + n * (d * d)
    BY <1>6, <1>7, <1>8, <1>9
  <1> QED
    BY <1>10 DEF p, q

----------------------------------------------------------------------------
(* Welford's update.                                                        *)

\* The mean of at most four passes, and what it becomes, are whole in units of 1/Scale.
LEMMA Divides ==
    ASSUME NEW n \in 1 .. 5, NEW mean \in Int, NEW S \in Nat, NEW v \in Nat,
           mean * (n - 1) = Scale * S, n = 1 => mean = 0
    PROVE  /\ (Scale * v - mean) \div n \in Int
           /\ Scale * v - mean = n * ((Scale * v - mean) \div n)
  <1>1. Scale \in Nat \ {0} /\ \A k \in 1 .. 5 : Scale % k = 0
    BY StatsAssumption, ScaleAssumption DEF Passes
  <1>2. ASSUME NEW k \in 1 .. 5 PROVE \E a \in Int : Scale = k * a
    <2>1. Scale = k * (Scale \div k) + (Scale % k) /\ Scale \div k \in Int
      BY <1>1
    <2> QED
      BY <1>1, <2>1
  <1>3. \E d \in Int : Scale * v - mean = n * d
    <2>1. CASE n = 1
      <3>1. Scale * v - mean = n * (Scale * v) /\ Scale * v \in Int
        BY <1>1, <2>1
      <3> QED
        BY <3>1
    <2>2. CASE n # 1
      <3>1. PICK a \in Int, b \in Int : Scale = (n - 1) * a /\ Scale = n * b
        <4>1. n - 1 \in 1 .. 5
          BY <2>2
        <4>2. \E a \in Int : Scale = (n - 1) * a
          BY <1>2, <4>1
        <4>3. \E b \in Int : Scale = n * b
          BY <1>2
        <4> QED
          BY <4>2, <4>3
      <3>2. a = n * (a - b)
        <4>1. (n - 1) * a = n * a - a /\ n * (a - b) = n * a - n * b
          OBVIOUS
        <4> QED
          BY <3>1, <4>1
      <3>3. mean = a * S
        <4>1. (n - 1) * mean = (n - 1) * (a * S)
          BY <3>1
        <4>2. \A x \in Int : (n - 1) * x = 0 => x = 0
          BY <2>2
        <4>3. (n - 1) * (mean - a * S) = (n - 1) * mean - (n - 1) * (a * S) /\ a * S \in Int
          OBVIOUS
        <4> QED
          BY <4>1, <4>2, <4>3
      <3>4. Scale * v - mean = n * (b * v - (a - b) * S)
        <4>1. mean = n * ((a - b) * S) /\ Scale * v = n * (b * v)
          BY <3>1, <3>2, <3>3
        <4>2. (a - b) * S \in Int /\ b * v \in Int
          OBVIOUS
        <4>3. n * (b * v - (a - b) * S) = n * (b * v) - n * ((a - b) * S)
          BY <4>2
        <4> QED
          BY <4>1, <4>3
      <3>5. b * v - (a - b) * S \in Int
        BY <3>1
      <3> QED
        BY <3>4, <3>5
    <2> QED
      BY <2>1, <2>2
  <1>4. PICK d \in Int : Scale * v - mean = n * d
    BY <1>3
  <1>5. (n * d) \div n = d
    OBVIOUS
  <1> QED
    BY <1>4, <1>5

\* The new mean, and the new sum of squares.
LEMMA NewMean ==
    ASSUME NEW k \in Nat, NEW m \in Int, NEW d \in Int, NEW S \in Int, NEW v \in Int, NEW z \in Int,
           m * k = z * S, z * v - m = (k + 1) * d
    PROVE  (m + d) * (k + 1) = z * (S + v)
  <1>1. (m + d) * (k + 1) = m * k + m + (k + 1) * d
    OBVIOUS
  <1>2. z * (S + v) = z * S + z * v
    OBVIOUS
  <1>3. m * k \in Int /\ z * v \in Int /\ z * S \in Int /\ (k + 1) * d \in Int
    OBVIOUS
  <1> QED
    BY <1>1, <1>2, <1>3

LEMMA NewSquares ==
    ASSUME NEW k \in Nat, NEW m \in Int, NEW d \in Int, NEW x \in Int, x - m = (k + 1) * d
    PROVE  /\ (x - m) * (x - (m + d)) \in Nat
           /\ (x - m) * (x - (m + d)) = k * (d * d) + (x - (m + d)) * (x - (m + d))
  <1>1. x - m = k * d + d /\ x - (m + d) = k * d /\ k * d \in Int
    <2>1. (k + 1) * d = k * d + d /\ k * d \in Int
      OBVIOUS
    <2> QED
      BY <2>1
  <1>2. PICK y \in Int : y = k * d
    BY <1>1
  <1>3. (x - m) * (x - (m + d)) = (y + d) * y /\ (x - (m + d)) * (x - (m + d)) = y * y
    BY <1>1, <1>2
  <1>4. (y + d) * y = y * y + d * y /\ d * y = k * (d * d)
    BY <1>2
  <1>5. d * d \in Nat /\ y * y \in Nat
    OBVIOUS
  <1>6. k * (d * d) \in Nat
    BY <1>5
  <1> QED
    BY <1>3, <1>4, <1>5, <1>6

\* The array of samples.
Written == Nat \cup {None}

Stats == [count : 0 .. Passes, mean : Int, m2 : Nat, min : Nat, max : Nat, samples : Seq(Written)]

LEMMA GrownArray ==
    ASSUME NEW a \in Seq(Written)
    PROVE  /\ Grown(a) \in Seq(Written) /\ Len(Grown(a)) > Len(a)
           /\ \A i \in 1 .. Len(a) : Grown(a)[i] = a[i]
           /\ \A i \in Len(a) + 1 .. Len(Grown(a)) : Grown(a)[i] = None
  <1> DEFINE k == IF a = <<>> THEN InitialCapacity ELSE Len(a)
             u == Undefined(k)
  <1>1. k \in Nat \ {0}
    BY StatsAssumption, EmptySeq
  <1>2. u \in Seq(Written) /\ Len(u) = k /\ \A i \in 1 .. k : u[i] = None
    <2> HIDE DEF k
    <2>1. u = [i \in 1 .. k |-> None] /\ None \in Written
      BY DEF Undefined, Written
    <2>2. u \in [1 .. k -> Written]
      BY <2>1
    <2>3. u \in Seq(Written)
      BY <1>1, <2>2, SeqDef
    <2>4. DOMAIN u = 1 .. k
      BY <2>1
    <2>5. Len(u) = k
      BY <1>1, <2>3, <2>4, LenProperties
    <2> QED
      BY <2>1, <2>3, <2>5
  <1>3. Grown(a) = a \o u
    BY DEF Grown
  <1> HIDE DEF k, u
  <1>4. /\ Grown(a) \in Seq(Written) /\ Len(Grown(a)) = Len(a) + k
        /\ \A i \in 1 .. Len(a) + k : Grown(a)[i] = IF i <= Len(a) THEN a[i] ELSE u[i - Len(a)]
    BY <1>2, <1>3, ConcatProperties
  <1>5. PICK m \in Nat : m = Len(a)
    OBVIOUS
  <1>6. \A i \in m + 1 .. m + k : ~(i <= m) /\ i - m \in 1 .. k /\ i \in 1 .. m + k
    BY <1>1
  <1>7. \A i \in 1 .. m : i <= m /\ i \in 1 .. m + k
    BY <1>1
  <1> QED
    BY <1>1, <1>2, <1>4, <1>5, <1>6, <1>7

\* The array after a sample, with or without the realloc.
AfterSample(s, v, ok) ==
    Stored(IF MustGrow(s) /\ ok THEN Grown(s.samples) ELSE s.samples, s.count + 1, v)

Follows(a, b, n, v) ==
    /\ b \in Seq(Written) /\ Len(b) >= Len(a)
    /\ \A i \in 1 .. Len(b) :
          b[i] = IF i = n THEN v ELSE IF i <= Len(a) THEN a[i] ELSE None

LEMMA SampleStored ==
    ASSUME NEW s \in Stats, NEW v \in Nat, NEW ok
    PROVE  /\ Follows(s.samples, AfterSample(s, v, ok), s.count + 1, v)
           /\ Len(AfterSample(s, v, ok)) > Len(s.samples) <=> MustGrow(s) /\ ok
  <1> DEFINE a == s.samples
             g == IF MustGrow(s) /\ ok THEN Grown(a) ELSE a
             n == s.count + 1
             b == AfterSample(s, v, ok)
  <1>1. a \in Seq(Written) /\ n \in Nat \ {0} /\ v \in Written
    BY DEF Stats, Passes, Written
  <1>2. /\ g \in Seq(Written) /\ Len(g) >= Len(a)
        /\ Len(g) > Len(a) <=> MustGrow(s) /\ ok
        /\ \A i \in 1 .. Len(g) : g[i] = IF i <= Len(a) THEN a[i] ELSE None
    <2> HIDE DEF a
    <2>1. CASE MustGrow(s) /\ ok
      <3>1. g = Grown(a)
        BY <2>1
      <3>2. PICK k \in Nat, m \in Nat : k = Len(a) /\ m = Len(Grown(a))
        BY <1>1, GrownArray
      <3>3. /\ m > k /\ \A i \in 1 .. k : Grown(a)[i] = a[i]
            /\ \A i \in k + 1 .. m : Grown(a)[i] = None
        BY <1>1, <3>2, GrownArray
      <3>4. \A i \in 1 .. m : IF i <= k THEN i \in 1 .. k ELSE i \in k + 1 .. m
        OBVIOUS
      <3>5. \A i \in 1 .. m : Grown(a)[i] = IF i <= k THEN a[i] ELSE None
        BY <3>3, <3>4
      <3> QED
        BY <1>1, <2>1, <3>1, <3>2, <3>3, <3>5, GrownArray
    <2>2. CASE ~(MustGrow(s) /\ ok)
      BY <1>1, <2>2
    <2> QED
      BY <2>1, <2>2
  <1>3. b = IF n <= Len(g) THEN [g EXCEPT ![n] = v] ELSE g
    BY DEF AfterSample, Stored
  <1> HIDE DEF a, g, n, b
  <1>4. b \in Seq(Written) /\ Len(b) = Len(g) /\ \A i \in 1 .. Len(g) : b[i] = IF i = n THEN v ELSE g[i]
    BY <1>1, <1>2, <1>3
  <1> QED
    BY <1>2, <1>4 DEF a, b, n, Follows

\* The percentiles can be read as long as every realloc that was needed succeeded.
LEMMA ReadableAfter ==
    ASSUME NEW s \in Stats, NEW v \in Nat, NEW ok \in BOOLEAN, NEW t \in Stats,
           t.count = s.count + 1, t.samples = AfterSample(s, v, ok)
    PROVE  Readable(t) <=> Readable(s) /\ (MustGrow(s) => ok)
  <1>1. PICK a \in Seq(Written), b \in Seq(Written), n \in Nat :
           a = s.samples /\ b = t.samples /\ n = s.count
    BY DEF Stats, Passes
  <1>2. /\ Len(b) >= Len(a)
        /\ Len(b) > Len(a) <=> MustGrow(s) /\ ok
        /\ \A i \in 1 .. Len(b) : b[i] = IF i = n + 1 THEN v ELSE IF i <= Len(a) THEN a[i] ELSE None
    <2>1. Follows(a, b, n + 1, v)
      BY <1>1, SampleStored
    <2>2. Len(b) > Len(a) <=> MustGrow(s) /\ ok
      BY <1>1, SampleStored
    <2> QED
      BY <2>1, <2>2 DEF Follows
  <1>3. PICK k \in Nat, m \in Nat : k = Len(a) /\ m = Len(b)
    BY <1>1
  <1>4. /\ MustGrow(s) <=> n + 1 > k
        /\ Readable(s) <=> n <= k /\ \A i \in 1 .. n : a[i] # None
        /\ Readable(t) <=> n + 1 <= m /\ \A i \in 1 .. n + 1 : b[i] # None
    BY <1>1, <1>3 DEF MustGrow, Readable
  <1>5. v # None
    BY StatsAssumption
  <1>6. ASSUME Readable(s), MustGrow(s) => ok PROVE Readable(t)
    <2>1. n <= k /\ \A i \in 1 .. n : a[i] # None
      BY <1>4, <1>6
    <2>2. n + 1 <= m
      BY <1>2, <1>3, <1>4, <1>6, <2>1
    <2>3. \A i \in 1 .. n + 1 : i \in 1 .. m /\ (i # n + 1 => i \in 1 .. n /\ i <= k)
      BY <2>1, <2>2
    <2>4. \A i \in 1 .. n + 1 : b[i] = IF i = n + 1 THEN v ELSE a[i]
      BY <1>2, <1>3, <2>3
    <2>5. \A i \in 1 .. n + 1 : b[i] # None
      BY <1>5, <2>1, <2>3, <2>4
    <2> QED
      BY <1>4, <2>2, <2>5
  <1>7. ASSUME Readable(t) PROVE Readable(s) /\ (MustGrow(s) => ok)
    <2>1. n + 1 <= m /\ \A i \in 1 .. n + 1 : b[i] # None
      BY <1>4, <1>7
    <2>2. \A i \in 1 .. n : i \in 1 .. n + 1 /\ i \in 1 .. m /\ i # n + 1
      BY <2>1
    <2>3. \A i \in 1 .. n : i <= k /\ a[i] # None
      BY <1>2, <1>3, <2>1, <2>2
    <2>4. n <= k
      <3>1. n = 0 \/ n \in 1 .. n
        OBVIOUS
      <3> QED
        BY <2>3, <3>1
    <2>5. MustGrow(s) => ok
      BY <1>2, <1>3, <1>4, <2>1
    <2> QED
      BY <1>4, <2>3, <2>4, <2>5
  <1> QED
    BY <1>6, <1>7

\* Statistics that are those of the passes p, and samples that are in place.
StatsOf(s, p) ==
    /\ s \in Stats /\ s.count = Len(p) /\ (s.count = 0 => s = NoStats)
    /\ s.mean * Len(p) = Scale * SumOver(p, 1 .. Len(p))
    /\ s.m2 = SumOver(Squares(p, s.mean), 1 .. Len(p))
    /\ \A i \in 1 .. Len(p) : s.min <= p[i] /\ p[i] <= s.max
    /\ s.count > 0 => /\ \E i \in 1 .. Len(p) : s.min = p[i]
                      /\ \E i \in 1 .. Len(p) : s.max = p[i]
    /\ \A i \in 1 .. Len(s.samples) :
          s.samples[i] # None => i <= Len(p) /\ s.samples[i] = p[i]

LEMMA NoneYet == StatsOf(NoStats, <<>>) /\ Readable(NoStats)
  <1>1. Len(<<>>) = 0 /\ <<>> \in Seq(Written)
    OBVIOUS
  <1>2. NoStats \in Stats
    BY <1>1 DEF NoStats, Stats, Passes
  <1>3. SumOver(<<>>, 1 .. 0) = 0 /\ SumOver(Squares(<<>>, 0), 1 .. 0) = 0
    BY SumOfNone
  <1>4. Scale * 0 = 0
    BY StatsAssumption
  <1>5. Readable(NoStats)
    BY <1>1 DEF NoStats, Readable
  <1> QED
    BY <1>1, <1>2, <1>3, <1>4, <1>5 DEF StatsOf, NoStats

LEMMA OneMoreSample ==
    ASSUME NEW p \in Seq(Nat), Len(p) \in 0 .. 4, NEW s, StatsOf(s, p),
           NEW v \in Nat, NEW ok \in BOOLEAN
    PROVE  /\ StatsOf(fc_bench_stats_add(s, v, ok), Append(p, v))
           /\ Readable(fc_bench_stats_add(s, v, ok)) <=> Readable(s) /\ (MustGrow(s) => ok)
  <1> DEFINE t == fc_bench_stats_add(s, v, ok)
             q == Append(p, v)
  <1>1. PICK k \in 0 .. 4 : k = Len(p)
    OBVIOUS
  <1>2. /\ q \in Seq(Nat) /\ Len(q) = k + 1 /\ q[k + 1] = v
        /\ \A i \in 1 .. k : q[i] = p[i]
    BY <1>1
  <1>3. PICK m \in Int, d \in Int, S \in Int :
           m = s.mean /\ d = (Scale * v - m) \div (k + 1) /\ S = SumOver(p, 1 .. k)
    <2>1. Scale * v \in Int /\ s.mean \in Int
      BY StatsAssumption DEF StatsOf, Stats
    <2>2. (Scale * v - s.mean) \div (k + 1) \in Int
      BY <2>1
    <2>3. p \in [1 .. k -> Int] /\ k \in 0 .. 5
      BY <1>1
    <2>4. SumOver(p, 1 .. k) \in Int
      BY <2>3, SumIsInt
    <2> QED
      BY <2>1, <2>2, <2>4
  <1>4. /\ s \in Stats /\ s.count = k /\ (k = 0 => s = NoStats) /\ s.m2 \in Nat
        /\ m * k = Scale * S /\ s.m2 = SumOver(Squares(p, m), 1 .. k)
        /\ \A i \in 1 .. k : s.min <= p[i] /\ p[i] <= s.max
        /\ k > 0 => /\ \E i \in 1 .. k : s.min = p[i]
                    /\ \E i \in 1 .. k : s.max = p[i]
        /\ \A i \in 1 .. Len(s.samples) :
              s.samples[i] # None => i <= k /\ s.samples[i] = p[i]
    BY <1>1, <1>3 DEF StatsOf, Stats
  <1>5. /\ t.count = k + 1 /\ t.mean = m + d /\ t.samples = AfterSample(s, v, ok)
        /\ t.m2 = s.m2 + (Scale * v - m) * (Scale * v - (m + d))
        /\ t.min = IF k = 0 \/ v < s.min THEN v ELSE s.min
        /\ t.max = IF k = 0 \/ v > s.max THEN v ELSE s.max
        /\ t = [count |-> t.count, mean |-> t.mean, m2 |-> t.m2, min |-> t.min, max |-> t.max,
                samples |-> t.samples]
    BY <1>3, <1>4 DEF fc_bench_stats_add, AfterSample
  <1> HIDE DEF t, q
  <1>6. Scale * v - m = (k + 1) * d
    <2>1. S \in Nat
      <3>1. s.min \in Nat /\ s.max \in Nat
        BY <1>4 DEF Stats
      <3>2. p \in [1 .. k -> Nat] /\ k \in 0 .. 5
        BY <1>1
      <3> QED
        BY <1>3, <1>4, <3>1, <3>2, SumBounded
    <2>2. k = 0 => m = 0
      BY <1>3, <1>4 DEF NoStats
    <2>3. PICK n \in 1 .. 5 : n = k + 1 /\ n - 1 = k
      OBVIOUS
    <2>4. m * (n - 1) = Scale * S /\ (n = 1 => m = 0)
      BY <1>4, <2>2, <2>3
    <2>5. Scale * v - m = n * ((Scale * v - m) \div n)
      BY <2>1, <2>4, Divides
    <2> QED
      BY <1>3, <2>3, <2>5
  <1>7. (m + d) * (k + 1) = Scale * SumOver(q, 1 .. k + 1)
    <2>1. SumOver(q, 1 .. k + 1) = S + v
      BY <1>1, <1>3, SumAppended DEF q
    <2>2. Scale \in Int /\ k \in Nat /\ v \in Int
      BY StatsAssumption
    <2>3. (m + d) * (k + 1) = Scale * (S + v)
      BY <1>4, <1>6, <2>2, NewMean
    <2> QED
      BY <2>1, <2>3
  <1>8. t.m2 = SumOver(Squares(q, m + d), 1 .. k + 1) /\ t.m2 \in Nat
    <2> DEFINE w == Squares(q, m + d)
    <2>1. PICK x \in Int : x = Scale * v
      BY StatsAssumption
    <2>2. DOMAIN q = 1 .. k + 1 /\ \A i \in 1 .. k + 1 : Scale * q[i] \in Int
      BY <1>2, StatsAssumption
    <2>3. w \in [1 .. k + 1 -> Int] /\ w[k + 1] = (x - (m + d)) * (x - (m + d))
      <3>1. \A i \in 1 .. k + 1 : (Scale * q[i] - (m + d)) * (Scale * q[i] - (m + d)) \in Int
        <4> SUFFICES ASSUME NEW i \in 1 .. k + 1
                     PROVE  (Scale * q[i] - (m + d)) * (Scale * q[i] - (m + d)) \in Int
          OBVIOUS
        <4>1. PICK y \in Int : y = Scale * q[i]
          BY <2>2
        <4> QED
          BY <4>1
      <3>2. w = [i \in 1 .. k + 1 |-> (Scale * q[i] - (m + d)) * (Scale * q[i] - (m + d))]
        BY <2>2 DEF Squares
      <3>3. k + 1 \in 1 .. k + 1
        OBVIOUS
      <3> HIDE DEF w
      <3> QED
        BY <1>2, <2>1, <3>1, <3>2, <3>3
    <2>4. SumOver(w, 1 .. k + 1) = SumOver(w, 1 .. k) + w[k + 1]
      <3> HIDE DEF w
      <3>1. k + 1 \in 0 .. 5 /\ k < k + 1
        OBVIOUS
      <3> QED
        BY <2>3, <3>1, SumOfMore
    <2>5. SumOver(w, 1 .. k) = SumOver(Squares(p, m + d), 1 .. k)
      <3>1. DOMAIN p = 1 .. k
        BY <1>1
      <3>2. \A i \in 1 .. k : w[i] = Squares(p, m + d)[i]
        BY <1>2, <2>2, <3>1 DEF Squares
      <3>3. k \in 0 .. 5
        OBVIOUS
      <3> HIDE DEF w
      <3> QED
        BY <3>2, <3>3, SumAlike
    <2>6. SumOver(Squares(p, m + d), 1 .. k) = s.m2 + k * (d * d)
      <3>1. p \in [1 .. k -> Nat] /\ k \in 0 .. 5
        BY <1>1
      <3>2. m * k = Scale * SumOver(p, 1 .. k)
        BY <1>3, <1>4
      <3>3. SumOver(Squares(p, m + d), 1 .. k) = SumOver(Squares(p, m), 1 .. k) + k * (d * d)
        BY <3>1, <3>2, SquaresMoved
      <3> QED
        BY <1>4, <3>3
    <2>7. PICK y \in Nat, z \in Int, e \in Int :
             y = (x - m) * (x - (m + d)) /\ z = (x - (m + d)) * (x - (m + d)) /\ e = k * (d * d)
      <3>1. x - m = (k + 1) * d /\ k \in Nat
        BY <1>6, <2>1
      <3>2. (x - m) * (x - (m + d)) \in Nat
        BY <3>1, NewSquares
      <3> QED
        BY <3>2
    <2>8. y = e + z
      <3>1. x - m = (k + 1) * d /\ k \in Nat
        BY <1>6, <2>1
      <3> QED
        BY <2>7, <3>1, NewSquares
    <2>9. t.m2 = s.m2 + y
      BY <1>5, <2>1, <2>7
    <2>10. SumOver(w, 1 .. k + 1) = s.m2 + e + z
      <3> HIDE DEF w
      <3> QED
        BY <2>3, <2>4, <2>5, <2>6, <2>7
    <2> QED
      BY <1>4, <2>7, <2>8, <2>9, <2>10
  <1>9. /\ t.min \in Nat /\ t.max \in Nat
        /\ \A i \in 1 .. k + 1 : t.min <= q[i] /\ q[i] <= t.max
        /\ \E i \in 1 .. k + 1 : t.min = q[i]
        /\ \E i \in 1 .. k + 1 : t.max = q[i]
    <2>1. s.min \in Nat /\ s.max \in Nat /\ \A i \in 1 .. k : p[i] \in Nat
      BY <1>1, <1>4 DEF Stats
    <2>2. \A i \in 1 .. k + 1 : i \in 1 .. k \/ i = k + 1
      OBVIOUS
    <2>3. \A i \in 1 .. k : i \in 1 .. k + 1
      OBVIOUS
    <2>4. k + 1 \in 1 .. k + 1 /\ (k = 0 => \A i \in 1 .. k : FALSE) /\ (k # 0 => k > 0)
      OBVIOUS
    <2>5. t.min \in Nat /\ t.max \in Nat
      BY <1>5, <2>1
    <2>6. \A i \in 1 .. k + 1 : t.min <= q[i] /\ q[i] <= t.max
      <3> SUFFICES ASSUME NEW i \in 1 .. k + 1 PROVE t.min <= q[i] /\ q[i] <= t.max
        OBVIOUS
      <3>1. CASE i = k + 1
        BY <1>2, <1>5, <2>1, <3>1
      <3>2. CASE i \in 1 .. k
        <4>1. s.min <= p[i] /\ p[i] <= s.max
          BY <1>4, <3>2
        <4>2. q[i] = p[i] /\ k # 0 /\ p[i] \in Nat
          BY <1>2, <2>1, <3>2
        <4>3. t.min <= s.min /\ s.max <= t.max
          BY <1>5, <2>1, <4>2
        <4> QED
          BY <2>1, <2>5, <4>1, <4>2, <4>3
      <3> QED
        BY <2>2, <3>1, <3>2
    <2>7. \E i \in 1 .. k + 1 : t.min = q[i]
      <3>1. CASE t.min = v
        BY <1>2, <2>4, <3>1
      <3>2. CASE t.min # v
        <4>1. PICK i \in 1 .. k : t.min = p[i]
          BY <1>4, <1>5, <2>4, <3>2
        <4> QED
          BY <1>2, <2>3, <4>1
      <3> QED
        BY <3>1, <3>2
    <2>8. \E i \in 1 .. k + 1 : t.max = q[i]
      <3>1. CASE t.max = v
        BY <1>2, <2>4, <3>1
      <3>2. CASE t.max # v
        <4>1. PICK i \in 1 .. k : t.max = p[i]
          BY <1>4, <1>5, <2>4, <3>2
        <4> QED
          BY <1>2, <2>3, <4>1
      <3> QED
        BY <3>1, <3>2
    <2> QED
      BY <2>5, <2>6, <2>7, <2>8
  <1>10. /\ t.samples \in Seq(Written)
         /\ \A i \in 1 .. Len(t.samples) : t.samples[i] # None => i <= k + 1 /\ t.samples[i] = q[i]
    <2>1. PICK a, b : a = s.samples /\ b = t.samples
      OBVIOUS
    <2>2. /\ b \in Seq(Written)
          /\ \A i \in 1 .. Len(b) : b[i] = IF i = k + 1 THEN v ELSE IF i <= Len(a) THEN a[i] ELSE None
      <3>1. Follows(a, b, k + 1, v)
        BY <1>4, <1>5, <2>1, SampleStored
      <3> QED
        BY <3>1 DEF Follows
    <2>3. a \in Seq(Written) /\ \A i \in 1 .. Len(a) : a[i] # None => i <= k /\ a[i] = p[i]
      BY <1>4, <2>1 DEF Stats
    <2>4. PICK l \in Nat, r \in Nat : l = Len(a) /\ r = Len(b)
      BY <2>2, <2>3
    <2>5. ASSUME NEW i \in 1 .. r, b[i] # None PROVE i <= k + 1 /\ b[i] = q[i]
      <3>1. CASE i = k + 1
        BY <1>2, <2>2, <2>4, <3>1
      <3>2. CASE i # k + 1
        <4>1. i <= l /\ b[i] = a[i]
          BY <2>2, <2>4, <2>5, <3>2
        <4>2. i \in 1 .. l
          BY <4>1
        <4>3. i <= k /\ a[i] = p[i]
          BY <2>3, <2>4, <2>5, <4>1, <4>2
        <4>4. i \in 1 .. k
          BY <4>3
        <4> QED
          BY <1>2, <4>1, <4>3, <4>4
      <3> QED
        BY <3>1, <3>2
    <2> QED
      BY <2>1, <2>2, <2>4, <2>5
  <1>11. t \in Stats
    <2>1. k + 1 \in 0 .. Passes /\ m + d \in Int
      BY <1>3 DEF Passes
    <2> QED
      BY <1>5, <1>8, <1>9, <1>10, <2>1 DEF Stats
  <1>12. StatsOf(t, q)
    <2>1. PICK n \in Nat : n = k + 1 /\ n # 0
      OBVIOUS
    <2>2. /\ t.count = n /\ Len(q) = n /\ t.mean = m + d
          /\ (m + d) * n = Scale * SumOver(q, 1 .. n)
          /\ t.m2 = SumOver(Squares(q, m + d), 1 .. n)
          /\ \A i \in 1 .. n : t.min <= q[i] /\ q[i] <= t.max
          /\ \E i \in 1 .. n : t.min = q[i]
          /\ \E i \in 1 .. n : t.max = q[i]
          /\ \A i \in 1 .. Len(t.samples) : t.samples[i] # None => i <= n /\ t.samples[i] = q[i]
      BY <1>2, <1>5, <1>7, <1>8, <1>9, <1>10, <2>1
    <2> QED
      BY <1>11, <2>1, <2>2 DEF StatsOf
  <1>13. Readable(t) <=> Readable(s) /\ (MustGrow(s) => ok)
    BY <1>4, <1>5, <1>11, ReadableAfter
  <1> QED
    BY <1>12, <1>13 DEF t, q

----------------------------------------------------------------------------
(* The inductive invariant.                                                 *)

Runs    == [config : Config \cup {NoConfig}, iterations : Nat, pass : 0 .. Passes,
            stats : Stats, failed : 0 .. MaxFailures]
Simds   == [name : Name \cup {None}, config : Config \cup {NoConfig}, i : 0 .. 4,
            prev : Levels \cup {-1}, before : Levels \cup {-1}]
Results == [iterations : Nat, elapsed : Nat, m2 : Nat, min : Nat, max : Nat, allocs_per_op : Nat]

Typed ==
    /\ TypeOK
    /\ run \in Runs /\ simd \in Simds /\ result \in Results /\ spent \in Seq(Nat)

Loops == {"warmup", "calibrate", "pass", "finish"}

\* Between two measurements of a comparison the level is what it was before.
Compared ==
    /\ simd # NoSimd => simd.name \in Name /\ simd.config \in Config
    /\ pc = "program" => simd = NoSimd
    /\ pc \in {"next level", "restore"} => simd # NoSimd
    /\ pc = "next level" => level = simd.before
    /\ pc \in Loops \cup {"restore"} /\ simd # NoSimd => simd.prev = simd.before /\ simd.i \in Levels

\* What a run holds outside its passes.
Unmeasured ==
    /\ pc \in Loops => run.config \in Config
    /\ pc \notin Loops => run = NoRun /\ spent = <<>>
    /\ pc \in {"warmup", "calibrate"} =>
          /\ run = [NoRun EXCEPT !.config = run.config, !.iterations = run.config.min_iterations]
          /\ spent = <<>> /\ result = NoResult

\* A pass of a function of one speed takes min_time to within one call, if it may.
LongEnough(c, n) ==
    c.jitter = 0 /\ c.cost > 0 /\ c.min_time <= c.cost * c.max_iterations =>
        n * c.cost > c.min_time - c.cost

WithinLimits(c, n) ==
    /\ n >= c.min_iterations
    /\ n # c.min_iterations => n <= c.max_iterations

\* What a run holds from its first pass on.
Measured ==
    pc \in {"pass", "finish"} =>
        /\ WithinLimits(run.config, run.iterations) /\ LongEnough(run.config, run.iterations)
        /\ Len(spent) = run.pass /\ run.pass <= NumPasses(run.config)
        /\ pc = "finish" <=> run.pass = NumPasses(run.config)
        /\ result.elapsed = SumOver(spent, 1 .. Len(spent))
        /\ IF run.config.enable_stats
           THEN StatsOf(run.stats, spent) /\ (Readable(run.stats) <=> run.failed = 0)
           ELSE run.stats = NoStats /\ run.failed = 0
        /\ run.config.jitter = 0 =>
              \A i \in 1 .. Len(spent) : spent[i] = run.iterations * run.config.cost
        /\ tracking => allocs >= run.pass * (run.iterations * run.config.allocs)

BenchInv == Typed /\ Compared /\ Unmeasured /\ Measured

----------------------------------------------------------------------------
(* Every step keeps it.                                                     *)

LEMMA ConfigShape ==
    ASSUME NEW c \in Config
    PROVE  /\ c.name \in Name \cup {None} /\ c.min_iterations \in Nat \ {0} /\ c.max_iterations \in Nat
           /\ c.min_time \in Nat /\ c.warmup \in Nat /\ c.enable_stats \in BOOLEAN
           /\ c.cost \in Nat /\ c.jitter \in Nat /\ c.allocs \in Nat /\ c.levels \subseteq Levels
           /\ NumPasses(c) \in {1, Passes}
  BY ConfigAssumption DEF NumPasses

LEMMA EmptyRecords == NoRun \in Runs /\ NoSimd \in Simds /\ NoResult \in Results /\ <<>> \in Seq(Nat)
  <1>1. NoStats \in Stats
    BY NoneYet DEF StatsOf
  <1>2. NoRun \in Runs
    BY <1>1, BoundsAssumption DEF NoRun, Runs, Passes
  <1>3. NoSimd \in Simds
    BY DEF NoSimd, Simds
  <1> QED
    BY <1>2, <1>3 DEF NoResult, Results

\* A program's call changes nothing of a run, for there is none.
LEMMA NoRunGoesOn ==
    ASSUME BenchInv, pc = "program", pc' = "program", UNCHANGED <<run, result, simd, spent>>,
           filter' \in Filter \cup {None}, tracking' \in BOOLEAN, allocs' \in Nat,
           level' \in Levels \cup {-1}, calls' \in 0 .. MaxCalls
    PROVE  BenchInv'
  <1>1. Typed'
    BY DEF BenchInv, Typed, TypeOK
  <1>2. Compared'
    BY DEF BenchInv, Compared, Loops
  <1>3. Unmeasured' /\ Measured'
    BY DEF BenchInv, Unmeasured, Measured, Loops
  <1> QED
    BY <1>1, <1>2, <1>3 DEF BenchInv

LEMMA CallCounts ==
    ASSUME BenchInv, Call
    PROVE  pc = "program" /\ calls' \in 0 .. MaxCalls
  BY BoundsAssumption DEF Call, BenchInv, Typed, TypeOK

LEMMA ProgramStep ==
    ASSUME BenchInv,
           \/ fc_bench_set_filter
           \/ \E enable \in BOOLEAN : fc_bench_track_allocations(enable)
           \/ \E l \in Levels \cup {-1} : fc_bench_set_simd_level(l)
    PROVE  BenchInv'
  <1>1. /\ filter \in Filter \cup {None} /\ tracking \in BOOLEAN /\ allocs \in Nat
        /\ level \in Levels \cup {-1}
    BY DEF BenchInv, Typed, TypeOK
  <1>2. CASE fc_bench_set_filter
    BY <1>1, <1>2, CallCounts, NoRunGoesOn DEF fc_bench_set_filter
  <1>3. CASE \E enable \in BOOLEAN : fc_bench_track_allocations(enable)
    BY <1>1, <1>3, CallCounts, NoRunGoesOn DEF fc_bench_track_allocations
  <1>4. CASE \E l \in Levels \cup {-1} : fc_bench_set_simd_level(l)
    BY <1>1, <1>4, CallCounts, NoRunGoesOn DEF fc_bench_set_simd_level
  <1> QED
    BY <1>2, <1>3, <1>4

\* A run starts, or is skipped.
LEMMA Starts ==
    ASSUME Typed, run = NoRun, spent = <<>>,
           NEW name, NEW c \in Config, NEW after, Start(name, c, after)
    PROVE  /\ run' \in Runs /\ result' \in Results /\ spent' = <<>>
           /\ \/ pc' = after /\ run' = NoRun
              \/ /\ pc' = "warmup" /\ run'.config = c /\ result' = NoResult
                 /\ run' = [NoRun EXCEPT !.config = c, !.iterations = c.min_iterations]
  <1>1. CASE Skipped(name)
    BY <1>1 DEF Start, Typed
  <1>2. CASE ~Skipped(name)
    <2>1. run' = [NoRun EXCEPT !.config = c, !.iterations = c.min_iterations]
      BY <1>2 DEF Start
    <2>2. run' \in Runs /\ run'.config = c
      BY <2>1, ConfigShape, EmptyRecords DEF Runs
    <2> QED
      BY <1>2, <2>1, <2>2, EmptyRecords DEF Start
  <1> QED
    BY <1>1, <1>2

LEMMA RunStep ==
    ASSUME BenchInv, NEW c \in Config, fc_bench_run(c)
    PROVE  BenchInv'
  <1>1. /\ pc = "program" /\ calls' \in 0 .. MaxCalls /\ run = NoRun /\ spent = <<>> /\ simd = NoSimd
        /\ Start(c.name, c, "program") /\ UNCHANGED <<filter, tracking, allocs, level, simd>>
    BY CallCounts DEF fc_bench_run, BenchInv, Compared, Unmeasured, Loops
  <1>2. /\ run' \in Runs /\ result' \in Results /\ spent' = <<>>
        /\ \/ pc' = "program" /\ run' = NoRun
           \/ /\ pc' = "warmup" /\ run'.config = c /\ result' = NoResult
              /\ run' = [NoRun EXCEPT !.config = c, !.iterations = c.min_iterations]
    BY <1>1, Starts DEF BenchInv
  <1>3. Typed'
    <2>1. run'.iterations \in Nat /\ run'.pass \in 0 .. Passes /\ run'.failed \in 0 .. MaxFailures
          /\ run'.stats.count \in 0 .. Passes /\ run'.stats.m2 \in Nat
          /\ result'.iterations \in Nat /\ result'.m2 \in Nat
      BY <1>2 DEF Runs, Stats, Results
    <2> QED
      BY <1>1, <1>2, <2>1, EmptyRecords DEF BenchInv, Typed, TypeOK
  <1>4. Compared'
    BY <1>1, <1>2 DEF BenchInv, Compared, Loops
  <1>5. Unmeasured' /\ Measured'
    BY <1>1, <1>2 DEF Unmeasured, Measured, Loops
  <1> QED
    BY <1>3, <1>4, <1>5 DEF BenchInv

\* A loop of calls of the function.
LEMMA EffectsTyped ==
    ASSUME Typed, run.config \in Config, NEW k \in Nat, Effects(k)
    PROVE  /\ allocs' \in Nat /\ level' \in Levels \cup {-1}
           /\ tracking => allocs' = allocs + k * run.config.allocs
  <1>1. PICK a \in Nat, b \in Nat, x \in Nat : a = run.config.allocs /\ b = allocs /\ x = k * a
    <2>1. PICK a \in Nat, b \in Nat : a = run.config.allocs /\ b = allocs
      BY ConfigShape DEF Typed, TypeOK
    <2>2. k * a \in Nat
      OBVIOUS
    <2> QED
      BY <2>1, <2>2
  <1>2. allocs' = IF tracking THEN b + x ELSE b
    BY <1>1 DEF Effects
  <1>3. level' \in Levels \cup {-1}
    BY ConfigShape DEF Effects, Typed, TypeOK
  <1> QED
    BY <1>1, <1>2, <1>3

LEMMA WarmupStep ==
    ASSUME BenchInv, fc_bench_warmup
    PROVE  BenchInv'
  <1>1. /\ pc = "warmup" /\ pc' = "calibrate"
        /\ UNCHANGED <<filter, tracking, run, result, simd, calls, spent>>
    BY DEF fc_bench_warmup
  <1>2. run.config \in Config
    BY <1>1 DEF BenchInv, Unmeasured, Loops
  <1>3. allocs' \in Nat /\ level' \in Levels \cup {-1}
    <2>1. CASE UNCHANGED <<allocs, level>>
      BY <2>1 DEF BenchInv, Typed, TypeOK
    <2>2. CASE \E k \in 1 .. run.config.warmup : Effects(k)
      <3>1. PICK k \in Nat : Effects(k)
        BY <1>2, <2>2, ConfigShape
      <3> QED
        BY <1>2, <3>1, EffectsTyped DEF BenchInv
    <2> QED
      BY <2>1, <2>2 DEF fc_bench_warmup
  <1>4. Typed'
    BY <1>1, <1>3 DEF BenchInv, Typed, TypeOK
  <1>5. Compared'
    BY <1>1 DEF BenchInv, Compared, Loops
  <1>6. Unmeasured' /\ Measured'
    BY <1>1 DEF BenchInv, Unmeasured, Measured, Loops
  <1> QED
    BY <1>4, <1>5, <1>6 DEF BenchInv

\* Calibration keeps to the limits, and a pass is long enough if it may be.
LEMMA Calibrated ==
    ASSUME NEW c \in Config, NEW e \in c.min_iterations * c.cost .. c.min_iterations * c.cost + c.jitter,
           NEW n \in Adjusted(c, e)
    PROVE  n \in Nat /\ WithinLimits(c, n) /\ LongEnough(c, n)
  <1>1. PICK m \in Nat \ {0}, x \in Nat, T \in Nat, k \in Nat, j \in Nat, f \in Nat :
           /\ m = c.min_iterations /\ x = c.max_iterations /\ T = c.min_time
           /\ k = c.cost /\ j = c.jitter /\ f = m * k
    <2>1. PICK m \in Nat \ {0}, x \in Nat, T \in Nat :
             m = c.min_iterations /\ x = c.max_iterations /\ T = c.min_time
      BY ConfigShape
    <2>2. PICK k \in Nat, j \in Nat : k = c.cost /\ j = c.jitter
      BY ConfigShape
    <2>3. PICK f \in Nat : f = m * k
      OBVIOUS
    <2> QED
      BY ONLY <2>1, <2>2, <2>3, m \in Nat \ {0}, x \in Nat, T \in Nat, k \in Nat, j \in Nat, f \in Nat
  <1>2. e \in Nat /\ f <= e /\ e <= f + j
    <2>1. e \in f .. f + j
      BY <1>1
    <2>2. f \in Nat /\ j \in Nat
      OBVIOUS
    <2> QED
      BY <2>1, <2>2
  <1>3. CASE ~(e < T /\ m < x)
    <2>1. n = m
      BY <1>1, <1>3 DEF Adjusted
    <2>2. ASSUME j = 0, k > 0, T <= k * x PROVE m * k > T - k
      <3>1. e = f
        BY <1>2, <2>2
      <3>2. CASE e >= T
        BY <1>1, <2>2, <3>1, <3>2
      <3>3. CASE m >= x
        <4>1. k * x <= k * m /\ k * m = m * k
          BY <3>3
        <4> QED
          BY <1>1, <2>2, <4>1
      <3> QED
        BY <1>2, <1>3, <3>2, <3>3
    <2> QED
      BY <1>1, <2>1, <2>2 DEF WithinLimits, LongEnough
  <1>4. CASE e < T /\ m < x
    <2>1. PICK t \in TargetIterations(c, e) : n = IF t > m /\ t <= x THEN t ELSE m
      BY <1>1, <1>4 DEF Adjusted
    <2>2. e > 0 => t = (T * m) \div e
      BY <1>1, <2>1 DEF TargetIterations
    <2>3. t \in Nat
      <3>1. CASE e > 0
        <4>1. T * m \in Nat
          OBVIOUS
        <4> QED
          BY <1>2, <2>2, <3>1, <4>1
      <3>2. CASE ~(e > 0)
        BY <1>1, <2>1, <3>2 DEF TargetIterations
      <3> QED
        BY <3>1, <3>2
    <2>4. n \in Nat /\ WithinLimits(c, n)
      BY <1>1, <1>4, <2>1, <2>3 DEF WithinLimits
    <2>5. ASSUME j = 0, k > 0, T <= k * x PROVE n * k > T - k
      <3>1. e = m * k /\ e > 0
        BY <1>1, <1>2, <2>5
      <3>2. t * k <= T /\ T < (t + 1) * k
        <4>1. t * e <= T * m /\ T * m < (t + 1) * e
          <5>1. PICK u \in Nat : u = T * m
            OBVIOUS
          <5>2. u = e * (u \div e) + (u % e) /\ u % e \in 0 .. e - 1
            BY <1>2, <3>1
          <5>3. u = e * t + (u % e) /\ e * t = t * e /\ (t + 1) * e = t * e + e /\ t * e \in Nat
            BY <1>2, <2>2, <2>3, <3>1, <5>1, <5>2
          <5> QED
            BY <1>2, <5>1, <5>2, <5>3
        <4>2. t * e = m * (t * k) /\ T * m = m * T /\ (t + 1) * e = m * ((t + 1) * k)
          BY <2>3, <3>1
        <4>3. \A a, b \in Nat : (m * a <= m * b => a <= b) /\ (m * a < m * b => a < b)
          OBVIOUS
        <4>4. t * k \in Nat /\ (t + 1) * k \in Nat
          BY <2>3
        <4> QED
          BY <4>1, <4>2, <4>3, <4>4
      <3>3. (t + 1) * k = t * k + k /\ t * k \in Nat
        BY <2>3
      <3>4. CASE n = t
        BY <3>2, <3>3, <3>4
      <3>5. CASE n = m /\ t <= m
        <4>1. t * k <= m * k /\ m * k \in Nat
          BY <2>3, <3>5
        <4> QED
          BY <3>2, <3>3, <3>5, <4>1
      <3>6. CASE t > x
        <4>1. t * k = k * t /\ k * t >= k * (x + 1) /\ k * (x + 1) = k * x + k /\ k * x \in Nat
          BY <2>3, <3>6
        <4> QED
          BY <2>5, <3>2, <3>3, <4>1
      <3> QED
        BY <2>1, <2>3, <3>4, <3>5, <3>6
    <2> QED
      BY <1>1, <2>4, <2>5 DEF LongEnough
  <1> QED
    BY <1>3, <1>4

LEMMA CalibrateStep ==
    ASSUME BenchInv, Calibrate
    PROVE  BenchInv'
  <1>1. PICK c \in Config : c = run.config
    BY DEF Calibrate, BenchInv, Unmeasured, Loops
  <1>2. /\ pc = "calibrate" /\ pc' = "pass"
        /\ UNCHANGED <<filter, tracking, result, simd, calls, spent>>
        /\ Effects(run.iterations)
    BY DEF Calibrate
  <1>3. /\ run = [NoRun EXCEPT !.config = c, !.iterations = c.min_iterations]
        /\ spent = <<>> /\ result = NoResult
    BY <1>1, <1>2 DEF BenchInv, Unmeasured
  <1>4. /\ run.iterations = c.min_iterations /\ run.pass = 0 /\ run.stats = NoStats /\ run.failed = 0
    BY <1>3 DEF NoRun
  <1>5. PICK e \in Elapsed(run.iterations) : \E n \in Adjusted(c, e) : run' = [run EXCEPT !.iterations = n]
    BY <1>1 DEF Calibrate
  <1>6. PICK n \in Adjusted(c, e) : run' = [run EXCEPT !.iterations = n]
    BY <1>5
  <1>7. n \in Nat /\ WithinLimits(c, n) /\ LongEnough(c, n)
    BY <1>1, <1>4, <1>5, Calibrated DEF Elapsed
  <1>8. /\ run' \in Runs /\ run'.config = c /\ run'.iterations = n /\ run'.pass = 0
        /\ run'.stats = NoStats /\ run'.failed = 0
    BY <1>1, <1>4, <1>6, <1>7 DEF BenchInv, Typed, Runs
  <1>9. allocs' \in Nat /\ level' \in Levels \cup {-1}
    BY <1>1, <1>2, <1>4, ConfigShape, EffectsTyped DEF BenchInv
  <1>10. Typed'
    <2>1. run'.stats.count \in 0 .. Passes /\ run'.stats.m2 \in Nat /\ 0 \in 0 .. Passes
          /\ 0 \in 0 .. MaxFailures
      BY <1>8, BoundsAssumption DEF NoStats, Passes
    <2> QED
      BY <1>2, <1>7, <1>8, <1>9, <2>1 DEF BenchInv, Typed, TypeOK
  <1>11. Compared'
    BY <1>2 DEF BenchInv, Compared, Loops
  <1>12. Unmeasured'
    BY <1>2, <1>8 DEF Unmeasured, Loops
  <1>13. Measured'
    <2>1. spent' = <<>> /\ Len(<<>>) = 0 /\ result'.elapsed = 0 /\ SumOver(<<>>, 1 .. 0) = 0
      BY <1>2, <1>3, SumOfNone DEF NoResult
    <2>2. NumPasses(c) # 0 /\ 0 <= NumPasses(c) /\ c.enable_stats \in BOOLEAN
      BY ConfigShape DEF Passes
    <2>3. allocs' >= run'.pass * (run'.iterations * c.allocs)
      <3>1. PICK a \in Nat : a = c.allocs
        BY ConfigShape
      <3>2. 0 * (n * a) = 0
        BY <1>7
      <3> QED
        BY <1>8, <1>9, <3>1, <3>2
    <2> QED
      BY <1>2, <1>7, <1>8, <2>1, <2>2, <2>3, NoneYet DEF Measured
  <1> QED
    BY <1>10, <1>11, <1>12, <1>13 DEF BenchInv

\* A pass is timed, its time sampled.
LEMMA PassStep ==
    ASSUME BenchInv, Pass
    PROVE  BenchInv'
  <1>1. PICK c \in Config : c = run.config
    BY DEF Pass, BenchInv, Unmeasured, Loops
  <1>2. PICK e \in Elapsed(run.iterations), ok \in BOOLEAN :
           /\ ~ok => c.enable_stats /\ MustGrow(run.stats) /\ run.failed < MaxFailures
           /\ run' = [run EXCEPT !.pass = @ + 1, !.failed = IF ok THEN @ ELSE @ + 1,
                          !.stats = IF c.enable_stats THEN fc_bench_stats_add(@, e, ok) ELSE @]
           /\ result' = [result EXCEPT !.elapsed = @ + e]
           /\ spent' = Append(spent, e)
    BY <1>1 DEF Pass
  <1>3. /\ pc = "pass"
        /\ pc' = IF run.pass + 1 = NumPasses(c) THEN "finish" ELSE "pass"
        /\ Effects(run.iterations) /\ UNCHANGED <<filter, tracking, simd, calls>>
    BY <1>1 DEF Pass
  <1>4. /\ run \in Runs /\ result \in Results /\ spent \in Seq(Nat) /\ run.iterations \in Nat
        /\ result.elapsed \in Nat /\ run.stats \in Stats /\ run.failed \in 0 .. MaxFailures
    BY DEF BenchInv, Typed, Runs, Results
  <1>5. /\ WithinLimits(c, run.iterations) /\ LongEnough(c, run.iterations)
        /\ Len(spent) = run.pass /\ run.pass <= NumPasses(c) /\ run.pass # NumPasses(c)
        /\ result.elapsed = SumOver(spent, 1 .. Len(spent))
        /\ IF c.enable_stats
           THEN StatsOf(run.stats, spent) /\ (Readable(run.stats) <=> run.failed = 0)
           ELSE run.stats = NoStats /\ run.failed = 0
        /\ c.jitter = 0 => \A i \in 1 .. Len(spent) : spent[i] = run.iterations * c.cost
    BY <1>1, <1>3 DEF BenchInv, Measured
  <1>6. PICK p \in 0 .. 4 : p = run.pass /\ p = Len(spent) /\ p + 1 <= NumPasses(c)
    <2>1. NumPasses(c) \in {1, 5} /\ run.pass \in Nat
      BY <1>4, ConfigShape DEF Runs, Passes
    <2> QED
      BY <1>5, <2>1
  <1>7. e \in Nat /\ (c.jitter = 0 => e = run.iterations * c.cost)
    <2>1. PICK x \in Nat, j \in Nat : x = run.iterations * c.cost /\ j = c.jitter
      <3>1. PICK n \in Nat, k \in Nat : n = run.iterations /\ k = c.cost
        BY <1>4, ConfigShape
      <3>2. n * k \in Nat
        OBVIOUS
      <3> QED
        BY <3>1, <3>2, ConfigShape
    <2>2. e \in x .. x + j
      BY <1>1, <2>1 DEF Elapsed
    <2> QED
      BY <2>1, <2>2
  <1>8. /\ spent' \in Seq(Nat) /\ Len(spent') = p + 1 /\ spent'[p + 1] = e
        /\ \A i \in 1 .. p : spent'[i] = spent[i]
    BY <1>2, <1>4, <1>6, <1>7
  <1>9. IF c.enable_stats
        THEN StatsOf(run'.stats, spent') /\ (Readable(run'.stats) <=> run'.failed = 0)
        ELSE run'.stats = NoStats /\ run'.failed = 0
    <2>1. CASE c.enable_stats
      <3>1. StatsOf(run.stats, spent) /\ (Readable(run.stats) <=> run.failed = 0)
        BY <1>5, <2>1
      <3>2. run'.stats = fc_bench_stats_add(run.stats, e, ok)
        BY <1>2, <1>4, <2>1 DEF Runs
      <3>3. run'.failed = IF ok THEN run.failed ELSE run.failed + 1
        BY <1>2, <1>4 DEF Runs
      <3>4. /\ StatsOf(run'.stats, spent')
            /\ Readable(run'.stats) <=> Readable(run.stats) /\ (MustGrow(run.stats) => ok)
        <4>1. Len(spent) \in 0 .. 4 /\ spent' = Append(spent, e)
          BY <1>2, <1>6
        <4>2. StatsOf(run'.stats, spent')
          BY <1>4, <1>7, <3>1, <3>2, <4>1, OneMoreSample
        <4>3. Readable(run'.stats) <=> Readable(run.stats) /\ (MustGrow(run.stats) => ok)
          BY <1>4, <1>7, <3>1, <3>2, <4>1, OneMoreSample
        <4> QED
          BY <4>2, <4>3
      <3>5. run'.failed = 0 <=> run.failed = 0 /\ ok
        BY <1>4, <3>3
      <3>6. (MustGrow(run.stats) => ok) <=> ok
        BY <1>2
      <3> QED
        BY <2>1, <3>1, <3>4, <3>5, <3>6
    <2>2. CASE ~c.enable_stats
      <3>1. ok /\ run'.stats = run.stats /\ run'.failed = run.failed
        BY <1>2, <1>4, <2>2 DEF Runs
      <3> QED
        BY <1>5, <2>2, <3>1
    <2> QED
      BY <2>1, <2>2
  <1>10. run'.config = c /\ run'.iterations = run.iterations /\ run'.pass = p + 1
    BY <1>1, <1>2, <1>4, <1>6 DEF Runs
  <1>11. run'.stats \in Stats /\ run'.failed \in 0 .. MaxFailures
    <2>1. run'.failed \in 0 .. MaxFailures
      BY <1>2, <1>4, BoundsAssumption DEF Runs
    <2> QED
      BY <1>9, <2>1, NoneYet DEF StatsOf
  <1>12. run' \in Runs
    <2>1. run' = [config |-> run'.config, iterations |-> run'.iterations, pass |-> run'.pass,
                  stats |-> run'.stats, failed |-> run'.failed]
      BY <1>2, <1>4 DEF Runs
    <2>2. p + 1 \in 0 .. Passes
      BY DEF Passes
    <2> QED
      BY <1>4, <1>10, <1>11, <2>1, <2>2 DEF Runs
  <1>13. result' \in Results /\ result'.elapsed = result.elapsed + e
    <2>1. PICK x \in Nat : x = result.elapsed + e
      BY <1>4, <1>7
    <2>2. result' = [result EXCEPT !.elapsed = x]
      BY <1>2, <2>1
    <2> QED
      BY <1>4, <2>1, <2>2 DEF Results
  <1>14. /\ allocs' \in Nat /\ level' \in Levels \cup {-1}
         /\ tracking => allocs' = allocs + run.iterations * c.allocs
    BY <1>1, <1>3, <1>4, EffectsTyped DEF BenchInv
  <1>15. Typed'
    <2>1. /\ run'.iterations \in Nat /\ run'.pass \in 0 .. Passes /\ run'.failed \in 0 .. MaxFailures
          /\ run'.stats.count \in 0 .. Passes /\ run'.stats.m2 \in Nat
          /\ result'.iterations \in Nat /\ result'.m2 \in Nat
      BY <1>12, <1>13 DEF Runs, Stats, Results
    <2>2. pc' \in {"pass", "finish"}
      BY <1>3
    <2> QED
      BY <1>3, <1>8, <1>12, <1>13, <1>14, <2>1, <2>2 DEF BenchInv, Typed, TypeOK
  <1>16. Compared'
    <2>1. pc' \in {"pass", "finish"}
      BY <1>3
    <2> QED
      BY <1>3, <2>1 DEF BenchInv, Compared, Loops
  <1>17. Unmeasured'
    BY <1>3, <1>10 DEF Unmeasured, Loops
  <1>18. Measured'
    <2>1. result'.elapsed = SumOver(spent', 1 .. Len(spent'))
      <3>1. SumOver(Append(spent, e), 1 .. Len(spent) + 1) = SumOver(spent, 1 .. Len(spent)) + e
        BY <1>4, <1>6, <1>7, SumAppended
      <3> QED
        BY <1>2, <1>5, <1>6, <1>8, <1>13, <3>1
    <2>2. c.jitter = 0 => \A i \in 1 .. Len(spent') : spent'[i] = run'.iterations * c.cost
      <3>1. \A i \in 1 .. p + 1 : i \in 1 .. p \/ i = p + 1
        OBVIOUS
      <3> QED
        BY <1>5, <1>6, <1>7, <1>8, <1>10, <3>1
    <2>3. pc' = "finish" <=> run'.pass = NumPasses(c)
      BY <1>3, <1>6, <1>10
    <2>4. tracking' => allocs' >= run'.pass * (run'.iterations * c.allocs)
      <3>1. PICK n \in Nat, a \in Nat, b \in Nat : n = run.iterations /\ a = c.allocs /\ b = allocs
        BY <1>1, <1>4, ConfigShape DEF BenchInv, Typed, TypeOK
      <3>2. PICK x \in Nat : x = n * a
        OBVIOUS
      <3>3. tracking => b >= p * x
        BY <1>1, <1>3, <1>6, <3>1, <3>2 DEF BenchInv, Measured
      <3>4. (p + 1) * x = p * x + x /\ p * x \in Nat
        OBVIOUS
      <3> QED
        BY <1>3, <1>10, <1>14, <3>1, <3>2, <3>3, <3>4
    <2> QED
      BY <1>3, <1>5, <1>6, <1>8, <1>9, <1>10, <2>1, <2>2, <2>3, <2>4 DEF Measured
  <1> QED
    BY <1>15, <1>16, <1>17, <1>18 DEF BenchInv

LEMMA FinishStep ==
    ASSUME BenchInv, Finish
    PROVE  BenchInv'
  <1>1. PICK c \in Config : c = run.config
    BY DEF Finish, BenchInv, Unmeasured, Loops
  <1>2. /\ pc = "finish" /\ result' = Derived(result) /\ run' = NoRun /\ spent' = <<>>
        /\ pc' = IF simd = NoSimd THEN "program" ELSE "restore"
        /\ UNCHANGED <<filter, tracking, allocs, level, simd, calls>>
    BY DEF Finish
  <1>3. PICK n \in Nat \ {0} : n = run.iterations
    <2>1. run.iterations >= c.min_iterations /\ run.iterations \in Nat
      BY <1>1, <1>2 DEF BenchInv, Measured, WithinLimits, Typed, Runs
    <2> QED
      BY <2>1, ConfigShape
  <1>4. AllocsPerOp(n) \in Nat
    <2>1. \A a \in Nat : a \div n \in Nat
      OBVIOUS
    <2> QED
      BY <2>1 DEF AllocsPerOp, BenchInv, Typed, TypeOK
  <1>5. (Scale * result.elapsed) \div NumPasses(c) \in Nat
    <2>1. PICK x \in Nat : x = Scale * result.elapsed
      <3>1. result.elapsed \in Nat /\ Scale \in Nat
        BY StatsAssumption DEF BenchInv, Typed, Results
      <3> QED
        BY <3>1
    <2>2. x \div 1 \in Nat /\ x \div 5 \in Nat
      OBVIOUS
    <2> QED
      BY <2>1, <2>2, ConfigShape DEF Passes
  <1>6. result' \in Results
    <2>1. run.stats.m2 \in Nat /\ run.stats.min \in Nat /\ run.stats.max \in Nat /\ result \in Results
      BY DEF BenchInv, Typed, Runs, Stats
    <2> QED
      BY <1>1, <1>2, <1>3, <1>4, <1>5, <2>1 DEF Derived, Results
  <1>7. Typed'
    <2>1. /\ NoRun.iterations \in Nat /\ NoRun.pass \in 0 .. Passes /\ NoRun.failed \in 0 .. MaxFailures
          /\ NoRun.stats.count \in 0 .. Passes /\ NoRun.stats.m2 \in Nat
          /\ result'.iterations \in Nat /\ result'.m2 \in Nat
      BY <1>6, EmptyRecords DEF Runs, Stats, Results
    <2> QED
      BY <1>2, <1>6, <2>1, EmptyRecords DEF BenchInv, Typed, TypeOK
  <1>8. Compared'
    BY <1>2 DEF BenchInv, Compared, Loops
  <1>9. Unmeasured' /\ Measured'
    BY <1>2 DEF Unmeasured, Measured, Loops
  <1> QED
    BY <1>7, <1>8, <1>9 DEF BenchInv

\* The steps of a comparison.
LEMMA CompareStep ==
    ASSUME BenchInv, NEW n \in Name, NEW c \in Config, fc_bench_compare_simd(n, c)
    PROVE  BenchInv'
  <1>1. /\ pc = "program" /\ calls' \in 0 .. MaxCalls /\ pc' = "next level"
        /\ simd' = [NoSimd EXCEPT !.name = n, !.config = c, !.before = level]
        /\ UNCHANGED <<filter, tracking, allocs, level, run, result, spent>>
    BY CallCounts DEF fc_bench_compare_simd
  <1>2. /\ simd'.name = n /\ simd'.config = c /\ simd'.before = level /\ simd'.i = 0
        /\ simd'.prev = -1
    BY <1>1 DEF NoSimd
  <1>3. level \in Levels \cup {-1} /\ run = NoRun /\ spent = <<>>
    BY <1>1 DEF BenchInv, Typed, TypeOK, Unmeasured, Loops
  <1>4. simd' \in Simds
    <2>1. simd' = [name |-> n, config |-> c, i |-> 0, prev |-> -1, before |-> level]
      BY <1>1 DEF NoSimd
    <2>2. 0 \in 0 .. 4 /\ -1 \in Levels \cup {-1}
      OBVIOUS
    <2> QED
      BY <1>3, <2>1, <2>2 DEF Simds
  <1>5. simd' # NoSimd
    BY <1>2, FilterAssumption DEF NoSimd
  <1>6. Typed'
    <2>1. simd'.i \in 0 .. 4 /\ simd'.prev \in Levels \cup {-1}
      BY <1>4 DEF Simds
    <2> QED
      BY <1>1, <1>4, <2>1 DEF BenchInv, Typed, TypeOK
  <1>7. Compared'
    BY <1>1, <1>2, <1>5 DEF Compared, Loops
  <1>8. Unmeasured' /\ Measured'
    BY <1>1, <1>3 DEF Unmeasured, Measured, Loops
  <1> QED
    BY <1>6, <1>7, <1>8 DEF BenchInv

LEMMA BeginStep ==
    ASSUME BenchInv, BeginLevel
    PROVE  BenchInv'
  <1>1. /\ pc = "next level" /\ simd.i \in Levels /\ simd' = [simd EXCEPT !.prev = level]
        /\ level' = simd.i /\ Start(<<simd.name, simd.i>>, simd.config, "restore")
        /\ UNCHANGED <<filter, tracking, allocs, calls>>
    BY DEF BeginLevel
  <1>2. /\ simd \in Simds /\ simd.name \in Name /\ simd.config \in Config
        /\ level \in Levels \cup {-1} /\ level = simd.before /\ run = NoRun /\ spent = <<>>
    BY <1>1 DEF BenchInv, Typed, TypeOK, Compared, Unmeasured, Loops
  <1>3. /\ simd' \in Simds /\ simd'.name = simd.name /\ simd'.config = simd.config
        /\ simd'.before = simd.before /\ simd'.prev = level /\ simd'.i = simd.i
    BY <1>1, <1>2 DEF Simds
  <1>4. simd' # NoSimd
    BY <1>2, <1>3, FilterAssumption DEF NoSimd
  <1>5. /\ run' \in Runs /\ result' \in Results /\ spent' = <<>>
        /\ \/ pc' = "restore" /\ run' = NoRun
           \/ /\ pc' = "warmup" /\ run'.config = simd.config /\ result' = NoResult
              /\ run' = [NoRun EXCEPT !.config = simd.config,
                                      !.iterations = simd.config.min_iterations]
    BY <1>1, <1>2, Starts DEF BenchInv
  <1>6. Typed'
    <2>1. /\ run'.iterations \in Nat /\ run'.pass \in 0 .. Passes /\ run'.failed \in 0 .. MaxFailures
          /\ run'.stats.count \in 0 .. Passes /\ run'.stats.m2 \in Nat
          /\ result'.iterations \in Nat /\ result'.m2 \in Nat
      BY <1>5 DEF Runs, Stats, Results
    <2>2. simd'.i \in 0 .. 4 /\ simd'.prev \in Levels \cup {-1}
      BY <1>3 DEF Simds
    <2> QED
      BY <1>1, <1>3, <1>5, <2>1, <2>2, EmptyRecords DEF BenchInv, Typed, TypeOK
  <1>7. Compared'
    BY <1>1, <1>2, <1>3, <1>4, <1>5 DEF Compared, Loops
  <1>8. Unmeasured' /\ Measured'
    BY <1>2, <1>5 DEF Unmeasured, Measured, Loops
  <1> QED
    BY <1>6, <1>7, <1>8 DEF BenchInv

LEMMA EndStep ==
    ASSUME BenchInv, EndLevel
    PROVE  BenchInv'
  <1>1. /\ pc = "restore" /\ level' = simd.prev /\ simd' = [simd EXCEPT !.i = @ + 1]
        /\ pc' = "next level" /\ UNCHANGED <<filter, tracking, allocs, run, result, calls, spent>>
    BY DEF EndLevel, Restored
  <1>2. /\ simd \in Simds /\ simd.name \in Name /\ simd.config \in Config
        /\ simd.prev = simd.before /\ simd.i \in Levels /\ run = NoRun /\ spent = <<>>
    BY <1>1 DEF BenchInv, Typed, TypeOK, Compared, Unmeasured, Loops
  <1>3. simd.i + 1 \in 0 .. 4 /\ simd.prev \in Levels \cup {-1}
    BY <1>2 DEF Levels, Simds
  <1>4. /\ simd' \in Simds /\ simd'.name = simd.name /\ simd'.config = simd.config
        /\ simd'.before = simd.before /\ simd'.prev = simd.prev /\ simd'.i = simd.i + 1
    BY <1>1, <1>2, <1>3 DEF Simds
  <1>5. simd' # NoSimd
    BY <1>2, <1>4, FilterAssumption DEF NoSimd
  <1>6. Typed'
    BY <1>1, <1>3, <1>4 DEF BenchInv, Typed, TypeOK
  <1>7. Compared'
    BY <1>1, <1>2, <1>4, <1>5 DEF Compared, Loops
  <1>8. Unmeasured' /\ Measured'
    BY <1>1, <1>2 DEF Unmeasured, Measured, Loops
  <1> QED
    BY <1>6, <1>7, <1>8 DEF BenchInv

LEMMA ReturnsStep ==
    ASSUME BenchInv, CompareReturns
    PROVE  BenchInv'
  <1>1. /\ pc = "next level" /\ simd' = NoSimd /\ pc' = "program"
        /\ UNCHANGED <<filter, tracking, allocs, level, run, result, calls, spent>>
    BY DEF CompareReturns
  <1>2. run = NoRun /\ spent = <<>>
    BY <1>1 DEF BenchInv, Unmeasured, Loops
  <1>3. Typed'
    <2>1. NoSimd.i \in 0 .. 4 /\ NoSimd.prev \in Levels \cup {-1}
      BY EmptyRecords DEF Simds
    <2> QED
      BY <1>1, <1>2, <2>1, EmptyRecords DEF BenchInv, Typed, TypeOK
  <1>4. Compared'
    BY <1>1 DEF Compared, Loops
  <1>5. Unmeasured' /\ Measured'
    BY <1>1, <1>2 DEF Unmeasured, Measured, Loops
  <1> QED
    BY <1>3, <1>4, <1>5 DEF BenchInv

LEMMA InitInv == Init => BenchInv
  <1> SUFFICES ASSUME Init PROVE BenchInv
    OBVIOUS
  <1>1. Typed
    <2>1. /\ NoRun.iterations \in Nat /\ NoRun.pass \in 0 .. Passes /\ NoRun.failed \in 0 .. MaxFailures
          /\ NoRun.stats.count \in 0 .. Passes /\ NoRun.stats.m2 \in Nat
          /\ NoResult.iterations \in Nat /\ NoResult.m2 \in Nat
          /\ NoSimd.i \in 0 .. 4 /\ NoSimd.prev \in Levels \cup {-1}
      BY EmptyRecords DEF Runs, Stats, Results, Simds
    <2>2. 0 \in 0 .. MaxCalls
      BY BoundsAssumption
    <2> QED
      BY <2>1, <2>2, EmptyRecords DEF Init, Typed, TypeOK
  <1>2. Compared /\ Unmeasured /\ Measured
    BY DEF Init, Compared, Unmeasured, Measured, Loops
  <1> QED
    BY <1>1, <1>2 DEF BenchInv

LEMMA StepInv == BenchInv /\ [Next]_vars => BenchInv'
  <1> SUFFICES ASSUME BenchInv, [Next]_vars PROVE BenchInv'
    OBVIOUS
  <1>1. CASE Next
    BY <1>1, ProgramStep, RunStep, WarmupStep, CalibrateStep, PassStep, FinishStep,
       CompareStep, BeginStep, EndStep, ReturnsStep DEF Next
  <1>2. CASE UNCHANGED vars
    <2>1. Typed'
      BY <1>2 DEF vars, BenchInv, Typed, TypeOK
    <2>2. Compared' /\ Unmeasured'
      BY <1>2 DEF vars, BenchInv, Compared, Unmeasured
    <2>3. Measured'
      <3>1. PICK s, p : s = run.stats /\ p = spent /\ s = run'.stats /\ p = spent'
        BY <1>2 DEF vars
      <3> QED
        BY <1>2, <3>1 DEF vars, BenchInv, Measured
    <2> QED
      BY <2>1, <2>2, <2>3 DEF BenchInv
  <1> QED
    BY <1>1, <1>2

----------------------------------------------------------------------------
(* The theorems.                                                            *)

\* Every run keeps the statistics, the samples, the limits and the SIMD level.
THEOREM BenchInvariance == Spec => []BenchInv
  <1> QED
    BY InitInv, StepInv, PTL DEF Spec

\* No pass runs more than max_iterations unless min_iterations asks for it, nor fewer
\* than min_iterations.
THEOREM LimitsKept == Spec => []IterationsWithin
  <1>1. BenchInv => IterationsWithin
    BY DEF BenchInv, Measured, WithinLimits, IterationsWithin
  <1> QED
    BY <1>1, BenchInvariance, PTL

----------------------------------------------------------------------------
(* Percentiles.  Sorting gives every element the place of its own, and what *)
(* is at a place is what counting says is there.                            *)

\* What does not come after xs[i].
UpTo(xs, i) == {j \in DOMAIN xs : xs[j] < xs[i] \/ (xs[j] = xs[i] /\ j <= i)}

LEMMA PlacesDiffer ==
    ASSUME NEW n \in Nat, NEW xs \in [1 .. n -> Nat]
    PROVE  /\ \A i \in 1 .. n : Place(xs, i) \in 1 .. n
           /\ \A i, j \in 1 .. n : xs[i] < xs[j] => Place(xs, i) < Place(xs, j)
           /\ \A i, j \in 1 .. n : Place(xs, i) = Place(xs, j) => i = j
           /\ \A k \in 1 .. n : \E i \in 1 .. n : Place(xs, i) = k
  <1>1. IsFiniteSet(1 .. n) /\ Cardinality(1 .. n) = n
    BY FS_Interval
  <1>2. ASSUME NEW i \in 1 .. n
        PROVE  /\ UpTo(xs, i) \in SUBSET (1 .. n) /\ i \in UpTo(xs, i) /\ Place(xs, i) = Cardinality(UpTo(xs, i))
               /\ IsFiniteSet(UpTo(xs, i)) /\ Place(xs, i) \in 1 .. n
    <2>1. UpTo(xs, i) \in SUBSET (1 .. n) /\ i \in UpTo(xs, i) /\ Place(xs, i) = Cardinality(UpTo(xs, i))
      BY DEF UpTo, Place
    <2>2. IsFiniteSet(UpTo(xs, i)) /\ Cardinality(UpTo(xs, i)) <= n
      BY <1>1, <2>1, FS_Subset
    <2>3. Cardinality(UpTo(xs, i)) \in Nat /\ Cardinality(UpTo(xs, i)) # 0
      BY <2>1, <2>2, FS_CardinalityType, FS_EmptySet
    <2> QED
      BY <2>1, <2>2, <2>3
  <1>3. ASSUME NEW i \in 1 .. n, NEW j \in 1 .. n, xs[i] < xs[j] \/ (xs[i] = xs[j] /\ i < j)
        PROVE  Place(xs, i) < Place(xs, j)
    <2>1. UpTo(xs, i) \in SUBSET UpTo(xs, j) /\ j \notin UpTo(xs, i)
      BY <1>3 DEF UpTo
    <2>2. UpTo(xs, i) # UpTo(xs, j)
      BY <1>2, <2>1
    <2>3. /\ Cardinality(UpTo(xs, i)) <= Cardinality(UpTo(xs, j))
          /\ Cardinality(UpTo(xs, j)) = Cardinality(UpTo(xs, i)) => UpTo(xs, j) = UpTo(xs, i)
      BY <1>2, <2>1, FS_Subset
    <2>4. Place(xs, i) \in Nat /\ Place(xs, j) \in Nat
      BY <1>2
    <2> QED
      BY <1>2, <2>2, <2>3, <2>4
  <1>4. ASSUME NEW i \in 1 .. n, NEW j \in 1 .. n, Place(xs, i) = Place(xs, j)
        PROVE  i = j
    <2>1. Place(xs, i) \in Nat /\ Place(xs, j) \in Nat /\ xs[i] \in Nat /\ xs[j] \in Nat
      BY <1>2
    <2>2. ~(xs[i] < xs[j] \/ (xs[i] = xs[j] /\ i < j)) /\ ~(xs[j] < xs[i] \/ (xs[j] = xs[i] /\ j < i))
      BY <1>3, <1>4, <2>1
    <2> QED
      BY <2>1, <2>2
  <1>5. ASSUME NEW k \in 1 .. n PROVE \E i \in 1 .. n : Place(xs, i) = k
    <2>1. PICK f : f = [i \in 1 .. n |-> Place(xs, i)]
      OBVIOUS
    <2>2. f \in [1 .. n -> 1 .. n] /\ \A i \in 1 .. n : f[i] = Place(xs, i)
      BY <1>2, <2>1
    <2>3. f \in Injection(1 .. n, 1 .. n)
      BY <1>4, <2>2 DEF Injection, IsInjective
    <2>4. f \in Surjection(1 .. n, 1 .. n)
      BY <1>1, <2>3, FS_Injection
    <2> QED
      BY <2>2, <2>4 DEF Surjection
  <1> QED
    BY <1>2, <1>3, <1>4, <1>5

\* What is sorted are the elements, each once and in order.
LEMMA SortedIs ==
    ASSUME NEW n \in Nat, NEW xs \in [1 .. n -> Nat]
    PROVE  \E p \in [1 .. n -> 1 .. n] :
              /\ \A k \in 1 .. n : Place(xs, p[k]) = k /\ qsort(xs)[k] = xs[p[k]]
              /\ qsort(xs) \in [1 .. n -> Nat]
  <1>1. PICK p : p = [k \in 1 .. n |-> CHOOSE i \in 1 .. n : Place(xs, i) = k]
    OBVIOUS
  <1>2. \A k \in 1 .. n : p[k] \in 1 .. n /\ Place(xs, p[k]) = k
    BY <1>1, PlacesDiffer
  <1>3. qsort(xs) = [k \in 1 .. n |-> xs[p[k]]]
    BY <1>1 DEF qsort
  <1>4. p \in [1 .. n -> 1 .. n]
    BY <1>1, <1>2
  <1> QED
    BY <1>2, <1>3, <1>4

LEMMA RankedIsSorted ==
    ASSUME NEW n \in Nat \ {0}, spent \in [1 .. n -> Nat], NEW k \in 0 .. n - 1
    PROVE  Ranked(k) = qsort(spent)[k + 1]
  <1>1. PICK p \in [1 .. n -> 1 .. n] :
           /\ \A i \in 1 .. n : Place(spent, p[i]) = i /\ qsort(spent)[i] = spent[p[i]]
           /\ qsort(spent) \in [1 .. n -> Nat]
    BY SortedIs
  <1> DEFINE Less(w)   == {i \in DOMAIN spent : spent[i] < w}
             NoMore(w) == {i \in DOMAIN spent : spent[i] <= w}
             At(w)     == Cardinality(Less(w)) <= k /\ k < Cardinality(NoMore(w))
  <1>2. PICK v \in Nat : v = qsort(spent)[k + 1] /\ v = spent[p[k + 1]]
    <2>1. k + 1 \in 1 .. n
      OBVIOUS
    <2> QED
      BY <1>1, <2>1
  <1>3. IsFiniteSet(1 .. n) /\ DOMAIN spent = 1 .. n /\ k + 1 \in 1 .. n /\ p[k + 1] \in 1 .. n
    <2>1. IsFiniteSet(1 .. n)
      BY FS_Interval
    <2>2. DOMAIN spent = 1 .. n /\ k + 1 \in 1 .. n
      OBVIOUS
    <2> QED
      BY <1>1, <2>1, <2>2
  <1>4. ASSUME NEW w
        PROVE  /\ IsFiniteSet(Less(w)) /\ IsFiniteSet(NoMore(w))
               /\ Cardinality(Less(w)) \in Nat /\ Cardinality(NoMore(w)) \in Nat
    <2>1. Less(w) \in SUBSET (1 .. n) /\ NoMore(w) \in SUBSET (1 .. n)
      BY <1>3
    <2> QED
      BY <1>3, <2>1, FS_Subset, FS_CardinalityType
  <1>5. Cardinality(Less(v)) <= k
    <2>1. ASSUME NEW i \in Less(v) PROVE Place(spent, i) \in 1 .. k
      <3>1. i \in 1 .. n /\ spent[i] < spent[p[k + 1]]
        BY <1>2, <1>3
      <3>2. Place(spent, i) < Place(spent, p[k + 1]) /\ Place(spent, i) \in 1 .. n
        BY <1>3, <3>1, PlacesDiffer
      <3> QED
        BY <1>1, <1>3, <3>2
    <2>2. PICK f : f = [i \in Less(v) |-> Place(spent, i)]
      OBVIOUS
    <2>3. f \in [Less(v) -> 1 .. k] /\ \A i \in Less(v) : f[i] = Place(spent, i) /\ i \in 1 .. n
      BY <1>3, <2>1, <2>2
    <2>4. f \in Injection(Less(v), 1 .. k)
      <3>1. \A i, j \in 1 .. n : Place(spent, i) = Place(spent, j) => i = j
        BY PlacesDiffer
      <3>2. \A i, j \in Less(v) : f[i] = f[j] => i = j
        <4> HIDE DEF Less
        <4> QED
          BY <2>3, <3>1
      <3> HIDE DEF Less
      <3> QED
        BY <2>3, <3>2 DEF Injection, IsInjective
    <2>5. IsFiniteSet(1 .. k) /\ Cardinality(1 .. k) = k
      <3>1. k \in Int /\ 1 \in Int /\ k >= 0
        OBVIOUS
      <3>2. IsFiniteSet(1 .. k) /\ Cardinality(1 .. k) = IF 1 > k THEN 0 ELSE k - 1 + 1
        BY <3>1, FS_Interval
      <3> QED
        BY <3>1, <3>2
    <2> QED
      BY <2>4, <2>5, FS_Injection
  <1>6. k < Cardinality(NoMore(v))
    <2>1. ASSUME NEW i \in 1 .. k + 1 PROVE p[i] \in NoMore(v)
      <3>1. i \in 1 .. n /\ p[i] \in 1 .. n
        BY <1>1
      <3>2. Place(spent, p[i]) = i /\ Place(spent, p[k + 1]) = k + 1
        BY <1>1, <1>3, <3>1
      <3>3. ~(spent[p[k + 1]] < spent[p[i]])
        <4>1. spent[p[k + 1]] < spent[p[i]] => Place(spent, p[k + 1]) < Place(spent, p[i])
          <5>1. \A a, b \in 1 .. n : spent[a] < spent[b] => Place(spent, a) < Place(spent, b)
            BY PlacesDiffer
          <5> QED
            BY <1>3, <3>1, <5>1
        <4> QED
          BY <3>1, <3>2, <4>1
      <3>4. spent[p[i]] \in Nat
        BY <3>1
      <3> QED
        BY <1>2, <1>3, <3>1, <3>3, <3>4
    <2>2. PICK f : f = [i \in 1 .. k + 1 |-> p[i]]
      OBVIOUS
    <2>3. f \in [1 .. k + 1 -> NoMore(v)] /\ \A i \in 1 .. k + 1 : f[i] = p[i] /\ i \in 1 .. n
      <3>1. \A i \in 1 .. k + 1 : i \in 1 .. n
        OBVIOUS
      <3> HIDE DEF NoMore
      <3> QED
        BY <2>1, <2>2, <3>1
    <2> HIDE DEF NoMore
    <2>4. f \in Injection(1 .. k + 1, NoMore(v))
      <3>1. \A i, j \in 1 .. k + 1 : f[i] = f[j] => i = j
        BY <1>1, <2>3
      <3> QED
        BY <2>3, <3>1 DEF Injection, IsInjective
    <2>5. Cardinality(1 .. k + 1) = k + 1
      <3>1. k + 1 \in Int /\ 1 \in Int
        OBVIOUS
      <3>2. Cardinality(1 .. k + 1) = IF 1 > k + 1 THEN 0 ELSE (k + 1) - 1 + 1
        BY <3>1, FS_Interval
      <3> QED
        BY <3>2
    <2>6. Cardinality(1 .. k + 1) <= Cardinality(NoMore(v))
      BY <1>4, <2>4, FS_Injection
    <2>7. PICK a \in Nat : a = Cardinality(NoMore(v))
      BY <1>4
    <2> QED
      BY <2>5, <2>6, <2>7
  <1>7. v \in ToSet(spent) /\ \A w \in ToSet(spent) : w \in Nat
    BY <1>2, <1>3 DEF ToSet
  <1>8. ASSUME NEW w \in Nat, NEW x \in Nat, w < x, At(w), At(x) PROVE FALSE
    <2>1. NoMore(w) \in SUBSET Less(x)
      <3>1. \A i \in 1 .. n : spent[i] \in Nat
        OBVIOUS
      <3> QED
        BY <1>3, <1>8, <3>1
    <2>2. k < Cardinality(NoMore(w)) /\ Cardinality(Less(x)) <= k
      BY <1>8
    <2> HIDE DEF NoMore, Less
    <2>3. Cardinality(NoMore(w)) <= Cardinality(Less(x))
      BY <1>4, <2>1, FS_Subset
    <2>4. PICK a \in Nat, b \in Nat : a = Cardinality(NoMore(w)) /\ b = Cardinality(Less(x))
      BY <1>4
    <2> QED
      BY <2>2, <2>3, <2>4
  <1>9. At(v) /\ \A w \in ToSet(spent) : At(w) => w = v
    <2>1. At(v)
      BY <1>5, <1>6
    <2> HIDE DEF At
    <2>2. ASSUME NEW w \in ToSet(spent), At(w) PROVE w = v
      <3>1. w \in Nat /\ ~(w < v) /\ ~(v < w)
        BY <1>7, <1>8, <2>1, <2>2
      <3> QED
        BY <3>1
    <2> QED
      BY <2>1, <2>2
  <1>10. Ranked(k) = CHOOSE w \in ToSet(spent) : At(w)
    BY DEF Ranked
  <1> HIDE DEF At
  <1> QED
    BY <1>2, <1>7, <1>9, <1>10

LEMMA PercentileIs ==
    ASSUME spent \in Seq(Nat), NEW n \in Nat \ {0}, n = Len(spent), NEW s \in Stats, s.count = n, Readable(s),
           \A i \in 1 .. n : s.samples[i] = spent[i], NEW p \in Int
    PROVE  fc_bench_stats_percentile(s, p, TRUE) = Reference(Clamped(p))
  <1>1. spent \in [1 .. n -> Nat]
    OBVIOUS
  <1>2. [i \in 1 .. s.count |-> s.samples[i]] = spent
    BY <1>1
  <1>3. s.samples # <<>> /\ s.count # 0
    <2>1. s.count <= Len(s.samples)
      BY DEF Readable
    <2> QED
      BY <2>1
  <1>4. PICK c \in 0 .. 100 : c = Clamped(p)
    BY DEF Clamped
  <1>5. PICK r \in Nat : r = c * (n - 1) /\ r <= 100 * (n - 1)
    <2>1. PICK m \in Nat : m = n - 1
      OBVIOUS
    <2>2. \A a \in 0 .. 100 : a * m \in Nat /\ a * m <= 100 * m
      OBVIOUS
    <2> QED
      BY <2>1, <2>2
  <1>6. PICK l \in Nat, w \in 0 .. 99 : l = r \div 100 /\ w = r % 100 /\ r = 100 * l + w
    OBVIOUS
  <1>7. PICK t : t = qsort(spent)
    OBVIOUS
  <1>8. fc_bench_stats_percentile(s, p, TRUE)
            = IF l + 1 >= n THEN 100 * t[l + 1] ELSE t[l + 1] * (100 - w) + t[l + 2] * w
    BY <1>2, <1>3, <1>4, <1>5, <1>6, <1>7 DEF fc_bench_stats_percentile, Rank
  <1>9. Reference(c) = IF w = 0 THEN 100 * Ranked(l) ELSE (100 - w) * Ranked(l) + w * Ranked(l + 1)
    BY <1>5, <1>6 DEF Reference
  <1>10. \A k \in 0 .. n - 1 : Ranked(k) = t[k + 1]
    BY <1>1, <1>7, RankedIsSorted
  <1>11. \A k \in 1 .. n : t[k] \in Nat
    BY <1>1, <1>7, SortedIs
  <1>12. l <= n - 1 /\ (l + 1 >= n => w = 0)
    BY <1>5, <1>6
  <1>13. CASE w = 0
    <2>1. Ranked(l) = t[l + 1] /\ t[l + 1] \in Nat
      BY <1>10, <1>11, <1>12
    <2>2. l + 1 < n => t[l + 2] \in Nat
      BY <1>11
    <2>3. PICK a \in Nat : a = t[l + 1]
      BY <2>1
    <2>4. fc_bench_stats_percentile(s, p, TRUE) = 100 * a
      <3>1. CASE l + 1 >= n
        BY <1>8, <2>3, <3>1
      <3>2. CASE ~(l + 1 >= n)
        <4>1. PICK b \in Nat : b = t[l + 2]
          BY <2>2, <3>2
        <4>2. fc_bench_stats_percentile(s, p, TRUE) = a * (100 - w) + b * w
          BY <1>8, <2>3, <3>2, <4>1
        <4>3. a * (100 - 0) + b * 0 = 100 * a
          OBVIOUS
        <4> QED
          BY <1>13, <4>2, <4>3
      <3> QED
        BY <3>1, <3>2
    <2>5. Reference(c) = 100 * a
      BY <1>9, <1>13, <2>1, <2>3
    <2> QED
      BY <1>4, <2>4, <2>5, Zenon
  <1>14. CASE w # 0
    <2>1. l + 1 < n
      BY <1>12, <1>14
    <2>2. Ranked(l) = t[l + 1] /\ Ranked(l + 1) = t[l + 2] /\ t[l + 1] \in Nat /\ t[l + 2] \in Nat
      <3>1. l \in 0 .. n - 1 /\ l + 1 \in 0 .. n - 1 /\ l + 1 \in 1 .. n /\ l + 2 \in 1 .. n /\ (l + 1) + 1 = l + 2
        BY <2>1
      <3> QED
        BY <1>10, <1>11, <3>1
    <2>3. PICK a \in Nat, b \in Nat : a = t[l + 1] /\ b = t[l + 2]
      BY <2>2
    <2>4. a * (100 - w) + b * w = (100 - w) * a + w * b
      OBVIOUS
    <2>5. fc_bench_stats_percentile(s, p, TRUE) = a * (100 - w) + b * w
      <3>1. ~(l + 1 >= n)
        BY <2>1
      <3>2. fc_bench_stats_percentile(s, p, TRUE) = t[l + 1] * (100 - w) + t[l + 2] * w
        BY <1>8, <3>1, Zenon
      <3> QED
        BY <2>3, <3>2, Zenon
    <2>6. Reference(c) = (100 - w) * a + w * b
      BY <1>9, <1>14, <2>2, <2>3
    <2> QED
      BY <1>4, <2>4, <2>5, <2>6, Zenon
  <1> QED
    BY <1>13, <1>14

\* From the smallest to the largest.
LEMMA ExtremeRanks ==
    ASSUME NEW n \in Nat \ {0}, spent \in [1 .. n -> Nat],
           NEW low \in Nat, NEW high \in Nat, \E i \in 1 .. n : low = spent[i], \E i \in 1 .. n : high = spent[i],
           \A i \in 1 .. n : low <= spent[i] /\ spent[i] <= high
    PROVE  Ranked(0) = low /\ Ranked(n - 1) = high
  <1>1. PICK p \in [1 .. n -> 1 .. n] :
           \A k \in 1 .. n : Place(spent, p[k]) = k /\ qsort(spent)[k] = spent[p[k]]
    BY SortedIs
  <1>2. 1 \in 1 .. n /\ n \in 1 .. n /\ 0 \in 0 .. n - 1 /\ n - 1 \in 0 .. n - 1 /\ (n - 1) + 1 = n /\ 0 + 1 = 1
    OBVIOUS
  <1>3. Ranked(0) = spent[p[1]] /\ Ranked(n - 1) = spent[p[n]]
    BY <1>1, <1>2, RankedIsSorted
  <1>4. p[1] \in 1 .. n /\ p[n] \in 1 .. n /\ Place(spent, p[1]) = 1 /\ Place(spent, p[n]) = n
    BY <1>1, <1>2
  <1>5. \A i, j \in 1 .. n : spent[i] < spent[j] => Place(spent, i) < Place(spent, j)
    BY PlacesDiffer
  <1>6. \A i \in 1 .. n : Place(spent, i) \in 1 .. n
    BY PlacesDiffer
  <1>7. \A i \in 1 .. n : ~(spent[i] < spent[p[1]]) /\ ~(spent[p[n]] < spent[i])
    <2> SUFFICES ASSUME NEW i \in 1 .. n PROVE ~(spent[i] < spent[p[1]]) /\ ~(spent[p[n]] < spent[i])
      OBVIOUS
    <2>1. PICK q \in 1 .. n : q = Place(spent, i)
      BY <1>6
    <2>2. ~(q < 1) /\ ~(n < q)
      OBVIOUS
    <2> QED
      BY <1>4, <1>5, <2>1, <2>2
  <1>8. PICK a \in Nat, b \in Nat : a = spent[p[1]] /\ b = spent[p[n]]
    BY <1>4
  <1>9. low <= a /\ b <= high
    BY <1>4, <1>8
  <1>10. ~(low < a) /\ ~(b < high)
    BY <1>7, <1>8
  <1> QED
    BY <1>3, <1>8, <1>9, <1>10

\* The percentiles, of any rank, are those of the passes whose samples are in place.
LEMMA PercentilesFollow ==
    ASSUME spent \in Seq(Nat), NEW s, StatsOf(s, spent), s.count > 0
    PROVE  PercentilesExact(s)
  <1> SUFFICES ASSUME Readable(s) PROVE PercentilesExact(s)
    BY DEF PercentilesExact
  <1>1. PICK n \in Nat \ {0} : n = Len(spent) /\ s \in Stats /\ s.count = n
    BY DEF StatsOf, Stats
  <1>2. \A i \in 1 .. n : s.samples[i] = spent[i]
    <2>1. n <= Len(s.samples) /\ \A i \in 1 .. n : s.samples[i] # None
      BY <1>1 DEF Readable
    <2>2. Len(s.samples) \in Nat
      BY <1>1 DEF Stats
    <2>3. \A i \in 1 .. Len(s.samples) : s.samples[i] # None => s.samples[i] = spent[i]
      BY DEF StatsOf
    <2>4. \A i \in 1 .. n : i \in 1 .. Len(s.samples)
      BY <2>1, <2>2
    <2> QED
      BY <2>1, <2>3, <2>4
  <1>3. \A p \in Int : fc_bench_stats_percentile(s, p, TRUE) = Reference(Clamped(p))
    BY <1>1, <1>2, PercentileIs
  <1>4. \A p \in {0, 25, 50, 95, 99, 100} : p \in Int /\ Clamped(p) = p
    BY DEF Clamped
  <1>5. Clamped(-1) = 0 /\ Clamped(101) = 100 /\ -1 \in Int /\ 101 \in Int
    BY DEF Clamped
  <1>6. spent \in [1 .. n -> Nat]
    BY <1>1
  <1>7. /\ s.min \in Nat /\ s.max \in Nat /\ \A i \in 1 .. n : s.min <= spent[i] /\ spent[i] <= s.max
        /\ \E i \in 1 .. n : s.min = spent[i]
        /\ \E i \in 1 .. n : s.max = spent[i]
    BY <1>1, <1>6 DEF StatsOf
  <1>8. Ranked(0) = s.min /\ Ranked(n - 1) = s.max
    BY <1>6, <1>7, ExtremeRanks
  <1>9. Reference(0) = 100 * s.min
    <2>1. 0 * (n - 1) = 0 /\ 0 % 100 = 0 /\ 0 \div 100 = 0
      OBVIOUS
    <2> QED
      BY <1>1, <1>8, <2>1 DEF Reference
  <1>10. Reference(100) = 100 * s.max
    <2>1. (100 * (n - 1)) % 100 = 0 /\ (100 * (n - 1)) \div 100 = n - 1
      OBVIOUS
    <2> QED
      BY <1>1, <1>8, <2>1 DEF Reference
  <1>11. \A p \in {0, 25, 50, 95, 99, 100} : fc_bench_stats_percentile(s, p, TRUE) = Reference(p)
    <2> SUFFICES ASSUME NEW p \in {0, 25, 50, 95, 99, 100}
                 PROVE  fc_bench_stats_percentile(s, p, TRUE) = Reference(p)
      OBVIOUS
    <2>1. p \in Int /\ Clamped(p) = p
      BY <1>4
    <2>2. fc_bench_stats_percentile(s, p, TRUE) = Reference(Clamped(p))
      BY <1>3, <2>1, Zenon
    <2> QED
      BY <2>1, <2>2, Zenon
  <1>12. /\ fc_bench_stats_percentile(s, -1, TRUE) = 100 * s.min
         /\ fc_bench_stats_percentile(s, 101, TRUE) = 100 * s.max
    <2>1. fc_bench_stats_percentile(s, -1, TRUE) = Reference(Clamped(-1))
      BY <1>3, <1>5, Zenon
    <2>2. fc_bench_stats_percentile(s, 101, TRUE) = Reference(Clamped(101))
      BY <1>3, <1>5, Zenon
    <2> QED
      BY <1>5, <1>9, <1>10, <2>1, <2>2, Zenon
  <1> QED
    BY <1>11, <1>12 DEF PercentilesExact, fc_bench_stats_median

\* The running statistics are those of the passes, whatever realloc fails, the samples are in
\* place, and the percentiles are those of the passes as long as none failed.
THEOREM StatisticsFollow == Spec => []StatsExact
  <1>1. ASSUME BenchInv, run.stats.count > 0
        PROVE  RunningExact(run.stats) /\ SamplesInPlace(run.stats) /\ PercentilesExact(run.stats)
    <2>1. pc \in {"pass", "finish"}
      <3>1. pc \in Loops
        BY <1>1 DEF BenchInv, Unmeasured, NoRun, NoStats
      <3>2. pc \notin {"warmup", "calibrate"}
        <4>1. ASSUME pc \in {"warmup", "calibrate"} PROVE run.stats = NoStats
          <5>1. run = [NoRun EXCEPT !.config = run.config, !.iterations = run.config.min_iterations]
            BY <1>1, <4>1 DEF BenchInv, Unmeasured
          <5> QED
            BY <5>1 DEF NoRun
        <4> QED
          BY <1>1, <4>1 DEF NoStats
      <3> QED
        BY <3>1, <3>2 DEF Loops
    <2>2. StatsOf(run.stats, spent) /\ (Readable(run.stats) <=> run.failed = 0)
      BY <1>1, <2>1 DEF BenchInv, Measured, NoStats
    <2>3. PICK s \in Stats : s = run.stats
      BY <2>2 DEF StatsOf
    <2>4. spent \in Seq(Nat) /\ Len(spent) \in 0 .. 5
      BY <1>1, <2>2, <2>3 DEF BenchInv, Typed, StatsOf, Stats, Passes
    <2>5. s.mean \in Int /\ s.count > 0
      BY <1>1, <2>3 DEF Stats
    <2>6. DOMAIN spent = 1 .. Len(spent) /\ ToSet(spent) = {spent[i] : i \in 1 .. Len(spent)}
      BY <2>4 DEF ToSet
    <2>7. RunningExact(s)
      BY <2>2, <2>3, <2>4, <2>5, <2>6, FoldOfPasses, FoldOfSquares DEF RunningExact, Total, StatsOf
    <2>8. SamplesInPlace(s)
      <3>1. DOMAIN s.samples = 1 .. Len(s.samples)
        BY DEF Stats
      <3> QED
        BY <2>2, <2>3, <3>1 DEF SamplesInPlace, StatsOf
    <2>9. PercentilesExact(s)
      BY <2>2, <2>3, <2>4, <2>5, PercentilesFollow
    <2> QED
      BY <2>3, <2>7, <2>8, <2>9
  <1>2. BenchInv => StatsExact
    BY <1>1 DEF StatsExact, BenchInv, Typed
  <1> QED
    BY <1>2, BenchInvariance, PTL

\* elapsed_ms is the mean of the passes and lies between the extremes; allocs_per_op is
\* at least what a call allocates, times the passes.
THEOREM FiguresReported == Spec => FiguresOfPasses
  <1>1. ASSUME BenchInv, [Next]_vars, Finishes
        PROVE  /\ tracking => result'.allocs_per_op >= NumPasses(run.config) * run.config.allocs
               /\ result'.elapsed * Len(spent) = Scale * Total
               /\ run.config.enable_stats =>
                     /\ result'.elapsed = run.stats.mean
                     /\ Scale * result'.min <= result'.elapsed
                     /\ result'.elapsed <= Scale * result'.max
    <2>1. Finish
      BY <1>1 DEF Finishes, Next, vars, fc_bench_set_filter, fc_bench_track_allocations,
                  fc_bench_set_simd_level, fc_bench_run, fc_bench_compare_simd, Call, fc_bench_warmup,
                  Calibrate, Pass, BeginLevel, EndLevel, CompareReturns
    <2>2. PICK c \in Config : c = run.config
      BY <1>1 DEF Finishes, BenchInv, Unmeasured, Loops
    <2>3. /\ WithinLimits(c, run.iterations) /\ Len(spent) = NumPasses(c)
          /\ result.elapsed = SumOver(spent, 1 .. Len(spent))
          /\ c.enable_stats => StatsOf(run.stats, spent)
          /\ tracking => allocs >= NumPasses(c) * (run.iterations * c.allocs)
          /\ NumPasses(c) \in {1, 5}
      BY <1>1, <2>2, ConfigShape DEF Finishes, BenchInv, Measured, Passes
    <2>4. PICK n \in Nat \ {0}, S \in Nat, z \in Nat :
             n = run.iterations /\ S = result.elapsed /\ z = Scale
      <3>1. run.iterations \in Nat /\ result.elapsed \in Nat /\ Scale \in Nat
        BY <1>1, StatsAssumption DEF BenchInv, Typed, Runs, Results
      <3>2. run.iterations # 0
        BY <2>3, <3>1, ConfigShape DEF WithinLimits
      <3> QED
        BY <3>1, <3>2
    <2>5. /\ result'.elapsed = (z * S) \div NumPasses(c) /\ result'.allocs_per_op = AllocsPerOp(n)
          /\ result'.min = run.stats.min /\ result'.max = run.stats.max
      BY <1>1, <2>1, <2>2, <2>4 DEF Finish, Derived, BenchInv, Typed, Results
    <2>6. tracking => result'.allocs_per_op >= NumPasses(c) * c.allocs
      <3>1. PICK d \in Nat, b \in Nat, k \in {1, 5} :
               d = c.allocs /\ b = allocs /\ k = NumPasses(c)
        BY <1>1, <2>3, ConfigShape DEF BenchInv, Typed, TypeOK
      <3> DEFINE a == k * d
      <3>0. a \in Nat /\ k * (n * d) = n * a
        OBVIOUS
      <3> HIDE DEF a
      <3>2. b >= n * a => b \div n >= a
        <4>1. b = n * (b \div n) + (b % n) /\ b % n \in 0 .. n - 1 /\ b \div n \in Nat
          OBVIOUS
        <4>2. PICK q \in Nat, r \in 0 .. n - 1 : q = b \div n /\ b = n * q + r
          BY <4>1
        <4>3. q < a => n * q + n <= n * a
          <5>1. q < a => n * (q + 1) <= n * a
            BY <3>0
          <5>2. n * (q + 1) = n * q + n
            OBVIOUS
          <5> QED
            BY <5>1, <5>2
        <4>4. n * q \in Nat /\ n * a \in Nat
          BY <3>0
        <4> QED
          BY <3>0, <4>2, <4>3, <4>4
      <3>3. tracking => b >= n * a /\ result'.allocs_per_op = b \div n
        BY <2>3, <2>4, <2>5, <3>0, <3>1 DEF AllocsPerOp
      <3> QED
        BY <3>1, <3>2, <3>3 DEF a
    <2>7. PICK k \in {1, 5} : k = NumPasses(c) /\ k = Len(spent)
      BY <2>3
    <2>8. result'.elapsed * k = z * S /\ result'.elapsed \in Int
      <3>1. z % 1 = 0 /\ z % 5 = 0
        BY <2>4, ScaleAssumption DEF Passes
      <3>2. z = k * (z \div k) /\ z \div k \in Nat
        BY <3>1
      <3>3. PICK y \in Nat : y = z \div k /\ z = k * y
        BY <3>2
      <3>4. z * S = k * (y * S) /\ y * S \in Nat
        BY <3>3
      <3>5. PICK x \in Nat : x = y * S
        BY <3>4
      <3>6. (k * x) \div k = x
        OBVIOUS
      <3>7. result'.elapsed = x
        BY <2>5, <2>7, <3>4, <3>5, <3>6
      <3> QED
        BY <3>4, <3>5, <3>7
    <2>9. Total = S
      <3>1. spent \in Seq(Nat) /\ Len(spent) \in 0 .. 5
        BY <1>1, <2>7 DEF BenchInv, Typed
      <3> QED
        BY <2>3, <2>4, <3>1, FoldOfPasses DEF Total
    <2>10. ASSUME c.enable_stats
           PROVE  /\ result'.elapsed = run.stats.mean
                  /\ Scale * result'.min <= result'.elapsed
                  /\ result'.elapsed <= Scale * result'.max
      <3>1. PICK m \in Int, a \in Nat, b \in Nat, E \in Int :
               m = run.stats.mean /\ a = run.stats.min /\ b = run.stats.max /\ E = result'.elapsed
        BY <2>3, <2>8, <2>10 DEF StatsOf, Stats
      <3>2. m * k = z * S /\ \A i \in 1 .. k : a <= spent[i] /\ spent[i] <= b
        BY <2>3, <2>4, <2>7, <2>10, <3>1 DEF StatsOf
      <3>3. k * a <= S /\ S <= k * b
        <4>1. spent \in [1 .. k -> Nat] /\ k \in 0 .. 5
          BY <1>1, <2>7 DEF BenchInv, Typed
        <4> QED
          BY <2>3, <2>4, <2>7, <3>2, <4>1, SumBounded
      <3>4. E = m
        BY <2>8, <3>1, <3>2
      <3>5. z * (k * a) <= z * S /\ z * S <= z * (k * b)
        <4>1. \A x, y \in Nat : x <= y => z * x <= z * y
          OBVIOUS
        <4>2. k * a \in Nat /\ k * b \in Nat
          OBVIOUS
        <4> QED
          BY <3>3, <4>1, <4>2
      <3>6. z * (k * a) = k * (z * a) /\ z * (k * b) = k * (z * b) /\ z * a \in Nat /\ z * b \in Nat
        OBVIOUS
      <3>7. z * a <= m /\ m <= z * b
        BY <3>2, <3>5, <3>6
      <3> QED
        BY <2>4, <2>5, <3>1, <3>4, <3>7
    <2> QED
      BY <2>2, <2>4, <2>6, <2>7, <2>8, <2>9, <2>10
  <1>2. ASSUME BenchInv, [Next]_vars
        PROVE  [ Finishes =>
                   /\ tracking => result'.allocs_per_op >= NumPasses(run.config) * run.config.allocs
                   /\ result'.elapsed * Len(spent) = Scale * Total
                   /\ run.config.enable_stats =>
                         /\ result'.elapsed = run.stats.mean
                         /\ Scale * result'.min <= result'.elapsed
                         /\ result'.elapsed <= Scale * result'.max ]_vars
    BY <1>1, <1>2
  <1> QED
    BY <1>2, BenchInvariance, PTL DEF Spec, FiguresOfPasses

\* A function of one speed: a pass takes min_time to within one call, if it may.
THEOREM MinTimeReached == Spec => MinTimeWithinCap
  <1>1. ASSUME BenchInv, Finishes,
               run.config.jitter = 0, run.config.cost > 0,
               run.config.min_time <= run.config.cost * run.config.max_iterations
        PROVE  \A v \in ToSet(spent) : v > run.config.min_time - run.config.cost
    <2>1. /\ LongEnough(run.config, run.iterations) /\ spent \in Seq(Nat)
          /\ \A i \in 1 .. Len(spent) : spent[i] = run.iterations * run.config.cost
      BY <1>1 DEF Finishes, BenchInv, Typed, Measured
    <2>2. DOMAIN spent = 1 .. Len(spent)
      BY <2>1
    <2>3. ToSet(spent) = {spent[i] : i \in DOMAIN spent}
      BY DEF ToSet
    <2> QED
      BY <1>1, <2>1, <2>2, <2>3 DEF LongEnough
  <1> QED
    BY <1>1, BenchInvariance, PTL DEF Spec, MinTimeWithinCap

\* After a comparison the SIMD level is what it was before.
THEOREM LevelPutBack == Spec => LevelRestored
  <1>1. ASSUME BenchInv, Next, simd # NoSimd, simd' = NoSimd
        PROVE  level' = simd.before
    <2>1. CompareReturns
      <3>1. pc # "program"
        BY <1>1 DEF BenchInv, Compared
      <3>2. ~(\E c \in Config : fc_bench_run(c) \/ \E n \in Name : fc_bench_compare_simd(n, c))
        BY <3>1 DEF fc_bench_run, fc_bench_compare_simd, Call
      <3>3. ~BeginLevel
        <4>1. ASSUME BeginLevel PROVE FALSE
          <5>1. simd.name \in Name /\ simd \in Simds /\ simd' = [simd EXCEPT !.prev = level]
            BY <1>1, <4>1 DEF BeginLevel, BenchInv, Typed, Compared
          <5>2. simd'.name = simd.name
            BY <5>1 DEF Simds
          <5> QED
            BY <1>1, <5>1, <5>2, FilterAssumption DEF NoSimd
        <4> QED
          BY <4>1
      <3>4. ~EndLevel
        <4>1. ASSUME EndLevel PROVE FALSE
          <5>1. simd.name \in Name /\ simd \in Simds /\ simd' = [simd EXCEPT !.i = @ + 1]
            BY <1>1, <4>1 DEF EndLevel, BenchInv, Typed, Compared
          <5>2. simd'.name = simd.name
            BY <5>1 DEF Simds
          <5> QED
            BY <1>1, <5>1, <5>2, FilterAssumption DEF NoSimd
        <4> QED
          BY <4>1
      <3> QED
        BY <1>1, <3>1, <3>2, <3>3, <3>4
           DEF Next, fc_bench_set_filter, fc_bench_track_allocations, fc_bench_set_simd_level, Call,
               fc_bench_warmup, Calibrate, Pass, Finish
    <2>2. level' = level /\ pc = "next level"
      BY <2>1 DEF CompareReturns
    <2> QED
      BY <1>1, <2>2 DEF BenchInv, Compared
  <1>2. ASSUME BenchInv, [Next]_vars
        PROVE  [simd # NoSimd /\ simd' = NoSimd => level' = simd.before]_vars
    BY <1>1, <1>2
  <1> QED
    BY <1>2, BenchInvariance, PTL DEF Spec, LevelRestored
=============================================================================
