-------------------------- MODULE Statistics_proofs --------------------------
(***************************************************************************)
(* Proofs about Welford, Moments and RollingWindow, for any streams,       *)
(* samples, windows and numbers of elements.  A sum over the values of a   *)
(* function is linear and grows by what one value grows; so a state of     *)
(* Welford goes with the number, the sum and the sum of squares of its     *)
(* values, and every update, batch, merge and reverse update keeps it so;  *)
(* and the powers of the distances from a mean that moves are polynomials  *)
(* of those from the mean before.  The deques of the rolling extremes hold *)
(* what can still become an extreme.                                       *)
(***************************************************************************)
EXTENDS RollingWindow, Structures_proofs, SequenceTheorems

----------------------------------------------------------------------------
(* Sums over the values of a function.                                      *)

\* The table of the sums of f over the subsets of its domain, as a sum is defined: an
\* element chosen first, then the rest.
SumsChosen(t, f) ==
    t = [s \in SUBSET DOMAIN f |->
            IF s = {} THEN 0 ELSE f[CHOOSE x \in s : TRUE] + t[s \ {CHOOSE x \in s : TRUE}]]

\* The table in which any element may be taken first.
Sums(t, f) ==
    /\ t \in [SUBSET DOMAIN f -> Int] /\ t[{}] = 0
    /\ \A s \in SUBSET DOMAIN f : \A x \in s : t[s] = f[x] + t[s \ {x}]

\* What holds for the empty set, and for a set if it does without one of its elements,
\* holds for every finite set.
LEMMA BySets ==
    ASSUME NEW D, IsFiniteSet(D), NEW P \in SUBSET SUBSET D, {} \in P,
           \A s \in SUBSET D : s # {} /\ (\A x \in s : s \ {x} \in P) => s \in P
    PROVE  P = SUBSET D
  <1> DEFINE N == {n \in Nat : \A s \in SUBSET D : Cardinality(s) = n => s \in P}
  <1>1. \A s \in SUBSET D : IsFiniteSet(s) /\ Cardinality(s) \in Nat
    BY FS_Subset, FS_CardinalityType
  <1>2. 0 \in N
    BY <1>1, FS_EmptySet
  <1>3. ASSUME NEW n \in N PROVE n + 1 \in N
    <2>1. ASSUME NEW s \in SUBSET D, Cardinality(s) = n + 1 PROVE s \in P
      <3>1. s # {} /\ n \in Nat
        <4>1. n \in Nat /\ Cardinality({}) = 0
          BY FS_EmptySet
        <4> QED
          BY ONLY <2>1, <4>1
      <3>2. ASSUME NEW x \in s PROVE s \ {x} \in P
        <4>1. Cardinality(s \ {x}) = Cardinality(s) - 1
          BY <1>1, FS_RemoveElement
        <4>2. Cardinality(s \ {x}) = n /\ s \ {x} \in SUBSET D
          BY <2>1, <3>1, <4>1
        <4> QED
          BY <4>2
      <3> QED
        BY <3>1, <3>2
    <2> QED
      BY <2>1
  <1>4. N = Nat
    <2>1. N \in SUBSET Nat
      OBVIOUS
    <2> HIDE DEF N
    <2> QED
      BY <1>2, <1>3, <2>1, BySteps
  <1>5. \A s \in SUBSET D : s \in P
    BY <1>1, <1>4
  <1> QED
    BY <1>5

LEMMA SumsExist ==
    ASSUME NEW D, IsFiniteSet(D), NEW f \in [D -> Int]
    PROVE  \E t : SumsChosen(t, f)
  <1> DEFINE upTo(n) == {s \in SUBSET D : Cardinality(s) <= n}
             first(s) == CHOOSE x \in s : TRUE
             table(t, n) == t = [s \in upTo(n) |-> IF s = {} THEN 0 ELSE f[first(s)] + t[s \ {first(s)}]]
             N == {n \in Nat : \E t : table(t, n)}
  <1>1. \A s \in SUBSET D : IsFiniteSet(s) /\ Cardinality(s) \in Nat
    BY FS_Subset, FS_CardinalityType
  <1>2. \A s \in SUBSET D : s # {} =>
            first(s) \in s /\ s \ {first(s)} \in SUBSET D /\ Cardinality(s \ {first(s)}) = Cardinality(s) - 1
    <2> SUFFICES ASSUME NEW s \in SUBSET D, s # {}
                 PROVE  /\ first(s) \in s /\ s \ {first(s)} \in SUBSET D
                        /\ Cardinality(s \ {first(s)}) = Cardinality(s) - 1
      OBVIOUS
    <2>1. PICK x \in s : x = first(s)
      OBVIOUS
    <2>2. Cardinality(s \ {x}) = Cardinality(s) - 1
      BY <1>1, FS_RemoveElement
    <2> QED
      BY <2>1, <2>2
  <1>3. 0 \in N
    <2>1. \A s \in upTo(0) : s = {}
      BY <1>1, FS_EmptySet
    <2>2. table([s \in upTo(0) |-> 0], 0)
      BY <2>1
    <2> QED
      BY <2>2
  <1>4. ASSUME NEW n \in N PROVE n + 1 \in N
    <2>1. n \in Nat /\ n + 1 \in Nat
      OBVIOUS
    <2>2. PICK t : table(t, n)
      OBVIOUS
    <2> DEFINE u == [s \in upTo(n + 1) |->
                        IF s \in upTo(n) THEN t[s] ELSE f[first(s)] + t[s \ {first(s)}]]
    <2>3. \A s \in upTo(n + 1) : s # {} => s \ {first(s)} \in upTo(n)
      BY <1>1, <1>2, <2>1
    <2>4. \A s \in upTo(n) : s \in upTo(n + 1)
      BY <1>1, <2>1
    <2>5. \A s \in upTo(n) : t[s] = IF s = {} THEN 0 ELSE f[first(s)] + t[s \ {first(s)}]
      BY <2>2
    <2>6. {} \in upTo(n)
      BY <1>1, <2>1, FS_EmptySet
    <2> HIDE DEF first, upTo
    <2>7. ASSUME NEW s \in upTo(n + 1)
          PROVE  u[s] = IF s = {} THEN 0 ELSE f[first(s)] + u[s \ {first(s)}]
      <3>1. CASE s = {}
        BY <2>4, <2>5, <2>6, <3>1
      <3>2. CASE s # {}
        <4>1. u[s \ {first(s)}] = t[s \ {first(s)}]
          BY <2>3, <2>4, <3>2
        <4>2. u[s] = f[first(s)] + t[s \ {first(s)}]
          BY <2>5, <3>2
        <4> QED
          BY <3>2, <4>1, <4>2
      <3> QED
        BY <3>1, <3>2
    <2>8. table(u, n + 1)
      <3>1. u = [s \in upTo(n + 1) |-> u[s]]
        OBVIOUS
      <3> HIDE DEF u
      <3> QED
        BY <2>7, <3>1
    <2> QED
      BY <2>1, <2>8
  <1>5. N = Nat
    <2>1. N \in SUBSET Nat
      OBVIOUS
    <2> HIDE DEF N
    <2> QED
      BY <1>3, <1>4, <2>1, BySteps
  <1>6. PICK c \in Nat : c = Cardinality(D)
    BY <1>1
  <1>7. \A s \in SUBSET D : Cardinality(s) <= c
    BY <1>6, FS_Subset
  <1>8. upTo(c) = SUBSET D
    BY <1>7
  <1>9. PICK t : table(t, c)
    BY <1>5, <1>6
  <1> HIDE DEF upTo
  <1>10. SumsChosen(t, f)
    BY <1>8, <1>9 DEF SumsChosen
  <1> QED
    BY <1>10

LEMMA ChosenSums ==
    ASSUME NEW D, IsFiniteSet(D), NEW f \in [D -> Int], NEW t, SumsChosen(t, f)
    PROVE  Sums(t, f)
  <1> DEFINE first(s) == CHOOSE x \in s : TRUE
             I == {s \in SUBSET D : t[s] \in Int}
             P == {s \in SUBSET D : \A x \in s : t[s] = f[x] + t[s \ {x}]}
  <1>1. \A s \in SUBSET D : t[s] = IF s = {} THEN 0 ELSE f[first(s)] + t[s \ {first(s)}]
    BY DEF SumsChosen
  <1>2. t[{}] = 0
    <2>1. {} \in SUBSET D
      OBVIOUS
    <2> HIDE DEF first
    <2> QED
      BY <1>1, <2>1
  <1>3. ASSUME NEW s \in SUBSET D, s # {}
        PROVE  \E c \in s : t[s] = f[c] + t[s \ {c}]
    <2>1. first(s) \in s
      BY <1>3
    <2> HIDE DEF first
    <2> QED
      BY <1>1, <1>3, <2>1
  <1> HIDE DEF first
  <1>4. \A s \in SUBSET D : t[s] \in Int
    <2>1. {} \in I
      BY <1>2
    <2>2. ASSUME NEW s \in SUBSET D, s # {}, \A x \in s : s \ {x} \in I PROVE s \in I
      <3>1. PICK c \in s : t[s] = f[c] + t[s \ {c}]
        BY <1>3, <2>2
      <3>2. f[c] \in Int /\ t[s \ {c}] \in Int
        BY <2>2
      <3> QED
        BY <3>1, <3>2
    <2>3. I = SUBSET D
      <3>1. I \in SUBSET SUBSET D
        OBVIOUS
      <3> HIDE DEF I
      <3> QED
        BY <2>1, <2>2, <3>1, BySets
    <2> QED
      BY <2>3
  <1>5. {} \in P
    OBVIOUS
  <1>6. ASSUME NEW s \in SUBSET D, s # {}, \A x \in s : s \ {x} \in P PROVE s \in P
    <2>1. PICK c \in s : t[s] = f[c] + t[s \ {c}]
      BY <1>3, <1>6
    <2>2. ASSUME NEW x \in s, x # c PROVE t[s] = f[x] + t[s \ {x}]
      <3>1. PICK rest \in SUBSET D : rest = (s \ {c}) \ {x} /\ rest = (s \ {x}) \ {c}
        OBVIOUS
      <3>2. t[s \ {c}] = f[x] + t[rest]
        <4>1. s \ {c} \in P /\ x \in s \ {c}
          BY <1>6, <2>2
        <4> QED
          BY <3>1, <4>1
      <3>3. t[s \ {x}] = f[c] + t[rest]
        <4>1. s \ {x} \in P /\ c \in s \ {x}
          BY <1>6, <2>2
        <4> QED
          BY <3>1, <4>1
      <3>4. f[x] \in Int /\ f[c] \in Int /\ t[rest] \in Int
        BY <1>4
      <3> QED
        BY <2>1, <3>2, <3>3, <3>4
    <2> QED
      BY <2>1, <2>2
  <1>7. P = SUBSET D
    <2>1. P \in SUBSET SUBSET D
      OBVIOUS
    <2> HIDE DEF P
    <2> QED
      BY <1>5, <1>6, <2>1, BySets
  <1>8. t \in [SUBSET D -> Int]
    BY <1>4 DEF SumsChosen
  <1> QED
    BY <1>2, <1>7, <1>8 DEF Sums

\* A sum is an entry of such a table.
LEMMA SumOf ==
    ASSUME NEW D, IsFiniteSet(D), NEW f \in [D -> Int]
    PROVE  \E t : Sums(t, f) /\ SumFunction(f) = t[D]
  <1> DEFINE t == CHOOSE u : SumsChosen(u, f)
  <1>1. SumFunction(f) = t[D]
    BY DEF SumFunction, SumFunctionOnSet, FoldFunctionOnSet, MapThenFoldSet, SumsChosen
  <1>2. SumsChosen(t, f)
    BY SumsExist
  <1> HIDE DEF t
  <1>3. Sums(t, f)
    BY <1>2, ChosenSums
  <1> QED
    BY <1>1, <1>3

LEMMA SumType ==
    ASSUME NEW D, IsFiniteSet(D), NEW f \in [D -> Int]
    PROVE  SumFunction(f) \in Int
  <1>1. PICK t : Sums(t, f) /\ SumFunction(f) = t[D]
    BY SumOf
  <1>2. DOMAIN f = D /\ D \in SUBSET D
    OBVIOUS
  <1> QED
    BY <1>1, <1>2 DEF Sums

Combined(a, x, b, y) == a * x + b * y

LEMMA Distributes ==
    ASSUME NEW a \in Int, NEW b \in Int, NEW p \in Int, NEW q \in Int, NEW r \in Int, NEW s \in Int
    PROVE  Combined(a, p, b, q) + Combined(a, r, b, s) = Combined(a, p + r, b, q + s)
  BY DEF Combined

\* h is a times f and b times g.
Combines(h, a, f, b, g) == \A x \in DOMAIN h : h[x] = Combined(a, f[x], b, g[x])

\* A sum is linear.
LEMMA SumLinear ==
    ASSUME NEW D, IsFiniteSet(D), NEW f \in [D -> Int], NEW g \in [D -> Int], NEW h \in [D -> Int],
           NEW a \in Int, NEW b \in Int, Combines(h, a, f, b, g)
    PROVE  SumFunction(h) = Combined(a, SumFunction(f), b, SumFunction(g))
  <1>1. PICK t : Sums(t, f) /\ SumFunction(f) = t[D]
    BY SumOf
  <1>2. PICK u : Sums(u, g) /\ SumFunction(g) = u[D]
    BY SumOf
  <1>3. PICK v : Sums(v, h) /\ SumFunction(h) = v[D]
    BY SumOf
  <1>4. DOMAIN f = D /\ DOMAIN g = D /\ DOMAIN h = D
    OBVIOUS
  <1>5. \A s \in SUBSET D : t[s] \in Int /\ u[s] \in Int /\ v[s] \in Int
    BY <1>1, <1>2, <1>3, <1>4 DEF Sums
  <1>6. \A s \in SUBSET D : \A x \in s : /\ t[s] = f[x] + t[s \ {x}]
                                         /\ u[s] = g[x] + u[s \ {x}]
                                         /\ v[s] = h[x] + v[s \ {x}]
    BY <1>1, <1>2, <1>3, <1>4 DEF Sums
  <1> DEFINE P == {s \in SUBSET D : v[s] = Combined(a, t[s], b, u[s])}
  <1>7. {} \in P
    <2>1. t[{}] = 0 /\ u[{}] = 0 /\ v[{}] = 0
      BY <1>1, <1>2, <1>3 DEF Sums
    <2> QED
      BY <2>1 DEF Combined
  <1>8. ASSUME NEW s \in SUBSET D, s # {}, \A x \in s : s \ {x} \in P PROVE s \in P
    <2>1. PICK x \in s : TRUE
      BY <1>8
    <2>2. PICK r \in SUBSET D : r = s \ {x} /\ r \in P
      BY <1>8
    <2>3. /\ t[s] = f[x] + t[r] /\ u[s] = g[x] + u[r] /\ v[s] = h[x] + v[r]
      BY <1>6, <2>2
    <2>4. h[x] = Combined(a, f[x], b, g[x]) /\ v[r] = Combined(a, t[r], b, u[r])
      BY <1>4, <2>2 DEF Combines
    <2>5. PICK fx \in Int, gx \in Int, tr \in Int, ur \in Int :
             fx = f[x] /\ gx = g[x] /\ tr = t[r] /\ ur = u[r]
      BY <1>5
    <2>6. v[s] = Combined(a, fx + tr, b, gx + ur)
      <3>1. v[s] = Combined(a, fx, b, gx) + Combined(a, tr, b, ur)
        BY <2>3, <2>4, <2>5
      <3> QED
        BY <3>1, Distributes
    <2> QED
      BY <2>3, <2>5, <2>6
  <1>9. P = SUBSET D
    <2>1. P \in SUBSET SUBSET D
      OBVIOUS
    <2> HIDE DEF P
    <2> QED
      BY <1>7, <1>8, <2>1, BySets
  <1>10. D \in P
    BY <1>9
  <1> QED
    BY <1>1, <1>2, <1>3, <1>10

AddThree(a, p, b, q, c, r) == Combined(1, Combined(a, p, b, q), c, r)

CombinesThree(h, a, e, b, f, c, g) == \A x \in DOMAIN h : h[x] = AddThree(a, e[x], b, f[x], c, g[x])

\* The same of three functions.
LEMMA SumThree ==
    ASSUME NEW D, IsFiniteSet(D), NEW e \in [D -> Int], NEW f \in [D -> Int], NEW g \in [D -> Int],
           NEW h \in [D -> Int], NEW a \in Int, NEW b \in Int, NEW c \in Int,
           CombinesThree(h, a, e, b, f, c, g)
    PROVE  SumFunction(h) = AddThree(a, SumFunction(e), b, SumFunction(f), c, SumFunction(g))
  <1> DEFINE k == [x \in D |-> Combined(a, e[x], b, f[x])]
  <1>1. k \in [D -> Int] /\ \A x \in D : k[x] = Combined(a, e[x], b, f[x])
    <2>1. \A x \in D : Combined(a, e[x], b, f[x]) \in Int
      BY DEF Combined
    <2> QED
      BY <2>1
  <1> HIDE DEF k
  <1>2. SumFunction(k) = Combined(a, SumFunction(e), b, SumFunction(f))
    <2>1. Combines(k, a, e, b, f)
      BY <1>1 DEF Combines
    <2> QED
      BY <1>1, <2>1, SumLinear
  <1>3. PICK one \in Int : one = 1
    OBVIOUS
  <1>4. SumFunction(h) = Combined(one, SumFunction(k), c, SumFunction(g))
    <2>1. Combines(h, one, k, c, g)
      BY <1>1, <1>3 DEF Combines, CombinesThree, AddThree
    <2> QED
      BY <1>1, <2>1, SumLinear
  <1> QED
    BY <1>2, <1>3, <1>4 DEF AddThree

\* Of functions that agree on a set the sums over it are the same.
LEMMA SumsAgree ==
    ASSUME NEW D, IsFiniteSet(D), NEW f \in [D -> Int], NEW g \in [D -> Int], NEW t, Sums(t, f), NEW u, Sums(u, g),
           NEW s \in SUBSET D, \A x \in s : f[x] = g[x]
    PROVE  t[s] = u[s]
  <1> DEFINE P == {r \in SUBSET D : (\A x \in r : f[x] = g[x]) => t[r] = u[r]}
  <1>1. DOMAIN f = D /\ DOMAIN g = D
    OBVIOUS
  <1>2. \A r \in SUBSET D : \A x \in r : t[r] = f[x] + t[r \ {x}] /\ u[r] = g[x] + u[r \ {x}]
    BY <1>1 DEF Sums
  <1>3. {} \in P
    BY DEF Sums
  <1>4. ASSUME NEW r \in SUBSET D, r # {}, \A x \in r : r \ {x} \in P PROVE r \in P
    <2>1. PICK x \in r : r \ {x} \in P
      BY <1>4
    <2> QED
      BY <1>2, <2>1
  <1>5. P = SUBSET D
    <2>1. P \in SUBSET SUBSET D
      OBVIOUS
    <2> HIDE DEF P
    <2> QED
      BY <1>3, <1>4, <2>1, BySets
  <1>6. s \in P
    BY <1>5
  <1> QED
    BY <1>6

\* g is f with v more at y.
Raised(g, f, y, v) == g[y] = f[y] + v /\ \A x \in DOMAIN g \ {y} : g[x] = f[x]

LEMMA SumPut ==
    ASSUME NEW D, IsFiniteSet(D), NEW f \in [D -> Int], NEW g \in [D -> Int], NEW y \in D, NEW v \in Int,
           Raised(g, f, y, v)
    PROVE  SumFunction(g) = SumFunction(f) + v
  <1>1. PICK t : Sums(t, f) /\ SumFunction(f) = t[D]
    BY SumOf
  <1>2. PICK u : Sums(u, g) /\ SumFunction(g) = u[D]
    BY SumOf
  <1>3. D \ {y} \in SUBSET D /\ D \in SUBSET D /\ DOMAIN f = D /\ DOMAIN g = D
    OBVIOUS
  <1>4. t[D] = f[y] + t[D \ {y}] /\ u[D] = g[y] + u[D \ {y}] /\ t[D \ {y}] \in Int
    BY <1>1, <1>2, <1>3 DEF Sums
  <1>5. t[D \ {y}] = u[D \ {y}]
    <2>1. PICK s \in SUBSET D : s = D \ {y}
      BY <1>3
    <2>2. t[s] = u[s]
      BY <1>1, <1>2, <1>3, <2>1, SumsAgree DEF Raised
    <2> QED
      BY <2>1, <2>2
  <1> QED
    BY <1>1, <1>2, <1>4, <1>5 DEF Raised

\* Of summands that are not negative none is above the sum.
LEMMA SumBounds ==
    ASSUME NEW D, IsFiniteSet(D), NEW f \in [D -> Nat]
    PROVE  SumFunction(f) \in Nat /\ \A x \in D : f[x] <= SumFunction(f)
  <1>1. f \in [D -> Int] /\ DOMAIN f = D
    OBVIOUS
  <1>2. PICK t : Sums(t, f) /\ SumFunction(f) = t[D]
    BY <1>1, SumOf
  <1> DEFINE P == {s \in SUBSET D : t[s] \in Nat}
  <1>3. \A s \in SUBSET D : \A x \in s : t[s] = f[x] + t[s \ {x}]
    BY <1>1, <1>2 DEF Sums
  <1>4. {} \in P
    BY <1>2 DEF Sums
  <1>5. ASSUME NEW s \in SUBSET D, s # {}, \A x \in s : s \ {x} \in P PROVE s \in P
    <2>1. PICK x \in s : s \ {x} \in P
      BY <1>5
    <2>2. f[x] \in Nat /\ t[s \ {x}] \in Nat
      BY <2>1
    <2> QED
      BY <1>3, <2>1, <2>2
  <1>6. P = SUBSET D
    <2>1. P \in SUBSET SUBSET D
      OBVIOUS
    <2> HIDE DEF P
    <2> QED
      BY <1>4, <1>5, <2>1, BySets
  <1>7. t[D] \in Nat
    BY <1>6
  <1>8. ASSUME NEW x \in D PROVE f[x] <= t[D]
    <2>1. t[D] = f[x] + t[D \ {x}]
      BY <1>3
    <2>2. D \ {x} \in P
      BY <1>6
    <2> QED
      BY <2>1, <2>2
  <1> QED
    BY <1>2, <1>7, <1>8

----------------------------------------------------------------------------
(* Fractions of WScale.                                                     *)

LEMMA ExactQuotient ==
    ASSUME NEW n \in Nat \ {0}, NEW q \in Int
    PROVE  (n * q) \div n = q
  <1>1. PICK p \in Int : p = n * q
    OBVIOUS
  <1>2. PICK d \in Int : d = p \div n
    BY <1>1
  <1>3. PICK r \in 0 .. n - 1 : p = n * d + r
    BY <1>1, <1>2
  <1>4. PICK e \in Int : e = q - d /\ n * e = r
    BY <1>1, <1>3
  <1>5. ~(e >= 1)
    <2>1. e >= 1 => n * e >= n
      OBVIOUS
    <2> QED
      BY <1>3, <1>4, <2>1
  <1>6. ~(e <= -1)
    <2>1. e <= -1 => n * e <= -n
      OBVIOUS
    <2> QED
      BY <1>3, <1>4, <2>1
  <1> QED
    BY <1>1, <1>2, <1>4, <1>5, <1>6

LEMMA Cancel ==
    ASSUME NEW n \in Nat \ {0}, NEW a \in Int, NEW b \in Int, n * a = n * b
    PROVE  a = b
  <1>1. a = (n * a) \div n /\ b = (n * b) \div n
    BY ExactQuotient
  <1> QED
    BY <1>1

\* WScale is a multiple of what the numbers of samples in two states call for.
LEMMA ScaleDivisible ==
    ASSUME NEW a \in Nat \ {0}, NEW b \in Nat \ {0}, a + b <= MaxCount
    PROVE  \E k \in Nat \ {0} : WScale = a * (b * ((a + b) * k))
  <1>1. MaxCount \in Nat /\ WScale \in Nat \ {0}
    BY WelfordAssumption
  <1>2. a \in 1 .. MaxCount /\ b \in 1 .. MaxCount
    BY <1>1
  <1>3. WScale % (a * b * (a + b)) = 0
    BY <1>2, WelfordAssumption
  <1>4. PICK m \in Nat \ {0} : m = a * b * (a + b)
    <2>1. a * b \in Nat \ {0}
      OBVIOUS
    <2>2. PICK p \in Nat \ {0} : p = a * b
      BY <2>1
    <2>3. p * (a + b) \in Nat \ {0}
      OBVIOUS
    <2> QED
      BY <2>2, <2>3
  <1>5. PICK k \in Int : WScale = m * k
    <2>1. PICK w \in Nat \ {0} : w = WScale
      BY <1>1
    <2>2. PICK k \in Int : k = w \div m
      OBVIOUS
    <2>3. w = m * (w \div m) + (w % m)
      OBVIOUS
    <2>4. w % m = 0
      BY <1>3, <1>4, <2>1
    <2> QED
      BY <2>1, <2>2, <2>3, <2>4
  <1>6. k > 0
    <2>1. k <= 0 => m * k <= 0
      OBVIOUS
    <2> QED
      BY <1>1, <1>5, <2>1
  <1>7. m * k = a * (b * ((a + b) * k))
    BY <1>4
  <1> QED
    BY <1>5, <1>6, <1>7

----------------------------------------------------------------------------
(* Updates.  A state of n samples has the sum T and the sum Q of their      *)
(* squares if its mean is T / n and its m2 is Q - T * T / n.                *)

Figures(state, n, T, Q) ==
    /\ state \in [count : Nat, mean : Int, m2 : Int] /\ state.count = n
    /\ n * state.mean = WScale * T
    /\ n * state.m2 = WScale * (n * Q - T * T)
    /\ n = 0 => T = 0 /\ Q = 0 /\ state.mean = 0 /\ state.m2 = 0

\* What the figures are in units of k, if WScale is n of them.
ScaledBy(n, k) == WScale = n * k
Units(state, k, n, T, Q) == state.mean = k * T /\ state.m2 = k * (n * Q - T * T)

LEMMA InUnits ==
    ASSUME NEW n \in Nat \ {0}, NEW k \in Int, NEW T \in Int, NEW Q \in Int, NEW state,
           Figures(state, n, T, Q), ScaledBy(n, k)
    PROVE  Units(state, k, n, T, Q)
  <1>1. PICK mean \in Int, m2 \in Int : mean = state.mean /\ m2 = state.m2
    BY DEF Figures
  <1>2. n * mean = n * (k * T) /\ n * m2 = n * (k * (n * Q - T * T))
    <2>1. (n * k) * T = n * (k * T) /\ (n * k) * (n * Q - T * T) = n * (k * (n * Q - T * T))
      OBVIOUS
    <2> QED
      BY <1>1, <2>1 DEF Figures, ScaledBy
  <1>3. k * T \in Int /\ k * (n * Q - T * T) \in Int
    OBVIOUS
  <1> QED
    BY <1>1, <1>2, <1>3, Cancel DEF Units

LEMMA UpdateIdentities ==
    ASSUME NEW n \in Int, NEW k \in Int, NEW x \in Int, NEW T \in Int, NEW Q \in Int
    PROVE  /\ (n * ((n + 1) * k)) * x - ((n + 1) * k) * T = (n + 1) * (k * (n * x - T))
           /\ ((n + 1) * k) * T + k * (n * x - T) = (n * k) * (T + x)
           /\ (n * ((n + 1) * k)) * x - (n * k) * (T + x) = (n * k) * (n * x - T)
           /\ ((n + 1) * (k * (n * x - T))) * ((n * k) * (n * x - T))
                 = (n * ((n + 1) * k)) * (k * ((n * x - T) * (n * x - T)))
           /\ ((n + 1) * k) * (n * Q - T * T) + k * ((n * x - T) * (n * x - T))
                 = (n * k) * ((n + 1) * (Q + x * x) - (T + x) * (T + x))
           /\ (n + 1) * ((n * k) * (T + x)) = (n * ((n + 1) * k)) * (T + x)
           /\ (n + 1) * ((n * k) * ((n + 1) * (Q + x * x) - (T + x) * (T + x)))
                 = (n * ((n + 1) * k)) * ((n + 1) * (Q + x * x) - (T + x) * (T + x))
  OBVIOUS

\* The first sample, and one sample more.
LEMMA FirstUpdate ==
    ASSUME NEW state, Figures(state, 0, 0, 0), NEW x \in Int
    PROVE  Figures(fc_welford_update(state, x), 1, x, x * x)
  <1>1. PICK W \in Nat \ {0} : W = WScale
    BY WelfordAssumption
  <1>2. state.count = 0 /\ state.mean = 0 /\ state.m2 = 0
    BY DEF Figures
  <1>3. PICK p \in Int : p = W * x
    OBVIOUS
  <1>4. p \div 1 = p /\ p * 0 = 0 /\ 0 \div W = 0
    <2>1. 1 * p = p /\ W * 0 = 0
      OBVIOUS
    <2> QED
      BY <2>1, ExactQuotient
  <1>5. fc_welford_update(state, x) = [count |-> 1, mean |-> p, m2 |-> 0]
    <2>1. /\ WScale * x = p /\ p - state.mean = p /\ state.mean + p \div 1 = p /\ p - p = 0
          /\ state.m2 + 0 = 0 /\ state.count + 1 = 1
      BY <1>1, <1>2, <1>3, <1>4
    <2> QED
      BY <1>1, <1>4, <2>1 DEF fc_welford_update
  <1>6. 1 * p = W * x /\ 1 * 0 = W * (1 * (x * x) - x * x)
    BY <1>3
  <1> QED
    BY <1>1, <1>5, <1>6 DEF Figures

LEMMA Updated ==
    ASSUME NEW n \in Nat \ {0}, n + 1 <= MaxCount, NEW T \in Int, NEW Q \in Int, NEW state,
           Figures(state, n, T, Q), NEW x \in Int
    PROVE  Figures(fc_welford_update(state, x), n + 1, T + x, Q + x * x)
  <1>1. PICK W \in Nat \ {0} : W = WScale
    BY WelfordAssumption
  <1>2. PICK k \in Nat \ {0} : W = n * ((n + 1) * k)
    <2>1. PICK one \in Nat \ {0} : one = 1
      OBVIOUS
    <2>2. PICK k \in Nat \ {0} : WScale = n * (one * ((n + one) * k))
      BY <2>1, ScaleDivisible
    <2>3. one * ((n + one) * k) = (n + 1) * k
      BY <2>1
    <2> QED
      BY <1>1, <2>2, <2>3
  <1>3. state.count = n /\ state.mean = ((n + 1) * k) * T /\ state.m2 = ((n + 1) * k) * (n * Q - T * T)
    <2>1. PICK c \in Int : c = (n + 1) * k
      OBVIOUS
    <2>2. ScaledBy(n, c)
      BY <1>1, <1>2, <2>1 DEF ScaledBy
    <2>3. Units(state, c, n, T, Q)
      BY <2>2, InUnits
    <2> QED
      BY <2>1, <2>3 DEF Figures, Units
  <1>4. PICK u \in Int : u = n * x - T
    OBVIOUS
  <1>5. PICK q \in Int : q = k * u
    OBVIOUS
  <1>6. PICK s \in Int : s = k * (u * u)
    OBVIOUS
  <1>7. PICK delta \in Int : delta = W * x - state.mean /\ delta = (n + 1) * q
    BY <1>2, <1>3, <1>4, <1>5, UpdateIdentities
  <1>8. delta \div (n + 1) = q
    BY <1>7, ExactQuotient
  <1>9. PICK mean \in Int : mean = state.mean + q /\ mean = (n * k) * (T + x)
    BY <1>3, <1>4, <1>5, UpdateIdentities
  <1>10. PICK delta2 \in Int : delta2 = W * x - mean /\ delta2 = (n * k) * u
    BY <1>2, <1>4, <1>9, UpdateIdentities
  <1>11. delta * delta2 = W * s
    BY <1>2, <1>4, <1>5, <1>6, <1>7, <1>10, UpdateIdentities
  <1>12. (delta * delta2) \div W = s
    BY <1>11, ExactQuotient
  <1>13. PICK m2 \in Int : m2 = state.m2 + s
                           /\ m2 = (n * k) * ((n + 1) * (Q + x * x) - (T + x) * (T + x))
    BY <1>3, <1>4, <1>6, UpdateIdentities
  <1>14. fc_welford_update(state, x) = [count |-> n + 1, mean |-> mean, m2 |-> m2]
    BY <1>1, <1>3, <1>7, <1>8, <1>9, <1>10, <1>12, <1>13 DEF fc_welford_update
  <1>15. (n + 1) * mean = W * (T + x) /\ (n + 1) * m2 = W * ((n + 1) * (Q + x * x) - (T + x) * (T + x))
    BY <1>2, <1>9, <1>13, UpdateIdentities
  <1> QED
    BY <1>1, <1>14, <1>15 DEF Figures

LEMMA RemovalIdentities ==
    ASSUME NEW n \in Int, NEW k \in Int, NEW x \in Int, NEW T \in Int, NEW Q \in Int
    PROVE  /\ (n * ((n + 1) * k)) * x - (n * k) * T = n * (k * ((n + 1) * x - T))
           /\ (n * k) * T - k * ((n + 1) * x - T) = ((n + 1) * k) * (T - x)
           /\ (n * ((n + 1) * k)) * x - ((n + 1) * k) * (T - x) = ((n + 1) * k) * ((n + 1) * x - T)
           /\ (n * (k * ((n + 1) * x - T))) * (((n + 1) * k) * ((n + 1) * x - T))
                 = (n * ((n + 1) * k)) * (k * (((n + 1) * x - T) * ((n + 1) * x - T)))
           /\ (n * k) * ((n + 1) * Q - T * T) - k * (((n + 1) * x - T) * ((n + 1) * x - T))
                 = ((n + 1) * k) * (n * (Q - x * x) - (T - x) * (T - x))
           /\ n * (((n + 1) * k) * (T - x)) = (n * ((n + 1) * k)) * (T - x)
           /\ n * (((n + 1) * k) * (n * (Q - x * x) - (T - x) * (T - x)))
                 = (n * ((n + 1) * k)) * (n * (Q - x * x) - (T - x) * (T - x))
           /\ n * ((n + 1) * k) = (n + 1) * (n * k)
  OBVIOUS

\* One sample less.
LEMMA Removed ==
    ASSUME NEW n \in Nat \ {0}, n + 1 <= MaxCount, NEW T \in Int, NEW Q \in Int, NEW state,
           Figures(state, n + 1, T, Q), NEW x \in Int
    PROVE  Figures(RemoveOldest(state, x), n, T - x, Q - x * x)
  <1>1. PICK W \in Nat \ {0} : W = WScale
    BY WelfordAssumption
  <1>2. PICK k \in Nat \ {0} : W = n * ((n + 1) * k)
    <2>1. PICK one \in Nat \ {0} : one = 1
      OBVIOUS
    <2>2. PICK k \in Nat \ {0} : WScale = n * (one * ((n + one) * k))
      BY <2>1, ScaleDivisible
    <2>3. one * ((n + one) * k) = (n + 1) * k
      BY <2>1
    <2> QED
      BY <1>1, <2>2, <2>3
  <1>3. state.count = n + 1 /\ state.mean = (n * k) * T /\ state.m2 = (n * k) * ((n + 1) * Q - T * T)
    <2>1. PICK c \in Int : c = n * k
      OBVIOUS
    <2>2. PICK m \in Nat \ {0} : m = n + 1
      OBVIOUS
    <2>3. ScaledBy(m, c)
      BY <1>1, <1>2, <2>1, <2>2, RemovalIdentities DEF ScaledBy
    <2>4. Figures(state, m, T, Q)
      BY <2>2
    <2>5. Units(state, c, m, T, Q)
      BY <2>3, <2>4, InUnits
    <2> QED
      BY <2>1, <2>2, <2>5 DEF Figures, Units
  <1>4. PICK u \in Int : u = (n + 1) * x - T
    OBVIOUS
  <1>5. PICK q \in Int : q = k * u
    OBVIOUS
  <1>6. PICK s \in Int : s = k * (u * u)
    OBVIOUS
  <1>7. PICK delta \in Int : delta = W * x - state.mean /\ delta = n * q
    BY <1>2, <1>3, <1>4, <1>5, RemovalIdentities
  <1>8. delta \div n = q
    BY <1>7, ExactQuotient
  <1>9. PICK mean \in Int : mean = state.mean - q /\ mean = ((n + 1) * k) * (T - x)
    BY <1>3, <1>4, <1>5, RemovalIdentities
  <1>10. PICK delta2 \in Int : delta2 = W * x - mean /\ delta2 = ((n + 1) * k) * u
    BY <1>2, <1>4, <1>9, RemovalIdentities
  <1>11. delta * delta2 = W * s
    BY <1>2, <1>4, <1>5, <1>6, <1>7, <1>10, RemovalIdentities
  <1>12. (delta * delta2) \div W = s
    BY <1>11, ExactQuotient
  <1>13. PICK m2 \in Int : m2 = state.m2 - s
                           /\ m2 = ((n + 1) * k) * (n * (Q - x * x) - (T - x) * (T - x))
    BY <1>3, <1>4, <1>6, RemovalIdentities
  <1>14. state.count - 1 = n
    BY <1>3
  <1>15. RemoveOldest(state, x) = [count |-> n, mean |-> mean, m2 |-> m2]
    BY <1>1, <1>7, <1>8, <1>9, <1>10, <1>12, <1>13, <1>14 DEF RemoveOldest
  <1>16. n * mean = W * (T - x) /\ n * m2 = W * (n * (Q - x * x) - (T - x) * (T - x))
    BY <1>2, <1>9, <1>13, RemovalIdentities
  <1> QED
    BY <1>1, <1>15, <1>16 DEF Figures

LEMMA MergeIdentities ==
    ASSUME NEW a \in Int, NEW b \in Int, NEW k \in Int, NEW T \in Int, NEW Q \in Int, NEW R \in Int, NEW S \in Int
    PROVE  /\ (a * ((a + b) * k)) * R - (b * ((a + b) * k)) * T = (a + b) * (k * (a * R - b * T))
           /\ ((a + b) * (k * (a * R - b * T))) * b = (a + b) * (b * (k * (a * R - b * T)))
           /\ (b * ((a + b) * k)) * T + b * (k * (a * R - b * T)) = (a * (b * k)) * (T + R)
           /\ ((b * ((a + b) * k)) * (a * Q - T * T) + (a * ((a + b) * k)) * (b * S - R * R))
                    + k * ((a * R - b * T) * (a * R - b * T))
                 = (a * (b * k)) * ((a + b) * (Q + S) - (T + R) * (T + R))
           /\ (a + b) * ((a * (b * k)) * (T + R)) = (a * (b * ((a + b) * k))) * (T + R)
           /\ (a + b) * ((a * (b * k)) * ((a + b) * (Q + S) - (T + R) * (T + R)))
                 = (a * (b * ((a + b) * k))) * ((a + b) * (Q + S) - (T + R) * (T + R))
           /\ a * (b * ((a + b) * k)) = b * (a * ((a + b) * k))
  OBVIOUS

\* A state without samples adds nothing, on either side.
LEMMA MergedWithNone ==
    ASSUME NEW a, NEW b, NEW T \in Int, NEW Q \in Int, NEW n \in Nat
    PROVE  /\ Figures(a, n, T, Q) /\ Figures(b, 0, 0, 0) => Figures(fc_welford_merge(a, b), n, T, Q)
           /\ Figures(a, 0, 0, 0) /\ Figures(b, n, T, Q) => Figures(fc_welford_merge(a, b), n, T, Q)
  <1>1. PICK W \in Nat \ {0} : W = WScale
    BY WelfordAssumption
  <1>2. ASSUME Figures(a, n, T, Q), Figures(b, 0, 0, 0)
        PROVE  Figures(fc_welford_merge(a, b), n, T, Q)
    <2>1. CASE n = 0
      BY <1>2, <2>1 DEF Figures, fc_welford_merge
    <2>2. CASE n # 0
      <3>1. PICK mean \in Int, m2 \in Int : a = [count |-> n, mean |-> mean, m2 |-> m2]
        <4>1. a = [count |-> a.count, mean |-> a.mean, m2 |-> a.m2]
          BY <1>2 DEF Figures
        <4> QED
          BY <1>2, <4>1 DEF Figures
      <3>2. b.count = 0 /\ b.mean = 0 /\ b.m2 = 0
        BY <1>2 DEF Figures
      <3>3. /\ n + 0 = n /\ n # 0 /\ (0 - mean) * 0 = 0 /\ 0 - mean \in Int
            /\ (0 - mean) * n * (0 - mean) * 0 = 0
        <4>1. (0 - mean) * n * (0 - mean) \in Int
          OBVIOUS
        <4> QED
          BY <2>2, <4>1
      <3>4. 0 \div n = 0 /\ 0 \div (W * n) = 0
        <4>1. n * 0 = 0 /\ (W * n) * 0 = 0 /\ W * n \in Nat \ {0} /\ n \in Nat \ {0}
          BY <2>2
        <4>2. PICK p \in Nat \ {0} : p = W * n
          BY <4>1
        <4>3. p * 0 = 0
          OBVIOUS
        <4> QED
          BY <4>1, <4>2, <4>3, ExactQuotient
      <3>5. mean + 0 = mean /\ m2 + 0 + 0 = m2
        OBVIOUS
      <3>6. fc_welford_merge(a, b) = a
        BY <1>1, <3>1, <3>2, <3>3, <3>4, <3>5 DEF fc_welford_merge
      <3> QED
        BY <1>2, <3>6
    <2> QED
      BY <2>1, <2>2
  <1>3. ASSUME Figures(a, 0, 0, 0), Figures(b, n, T, Q)
        PROVE  Figures(fc_welford_merge(a, b), n, T, Q)
    <2>1. CASE n = 0
      BY <1>3, <2>1 DEF Figures, fc_welford_merge
    <2>2. CASE n # 0
      <3>1. PICK mean \in Int, m2 \in Int : b = [count |-> n, mean |-> mean, m2 |-> m2]
        <4>1. b = [count |-> b.count, mean |-> b.mean, m2 |-> b.m2]
          BY <1>3 DEF Figures
        <4> QED
          BY <1>3, <4>1 DEF Figures
      <3>2. a.count = 0 /\ a.mean = 0 /\ a.m2 = 0
        BY <1>3 DEF Figures
      <3>3. /\ 0 + n = n /\ n # 0 /\ mean - 0 = mean /\ mean * n = n * mean
            /\ mean * 0 * mean * n = 0
        <4>1. mean * 0 = 0 /\ 0 * mean = 0 /\ 0 * n = 0
          OBVIOUS
        <4> QED
          BY <2>2, <4>1
      <3>4. (n * mean) \div n = mean /\ 0 \div (W * n) = 0
        <4>1. W * n \in Nat \ {0} /\ n \in Nat \ {0}
          BY <2>2
        <4>2. PICK p \in Nat \ {0} : p = W * n
          BY <4>1
        <4>3. p * 0 = 0
          OBVIOUS
        <4> QED
          BY <4>1, <4>2, <4>3, ExactQuotient
      <3>5. 0 + mean = mean /\ 0 + m2 + 0 = m2
        OBVIOUS
      <3>6. fc_welford_merge(a, b) = b
        BY <1>1, <3>1, <3>2, <3>3, <3>4, <3>5 DEF fc_welford_merge
      <3> QED
        BY <1>3, <3>6
    <2> QED
      BY <2>1, <2>2
  <1> QED
    BY <1>2, <1>3

\* The samples of two states.
LEMMA Merged ==
    ASSUME NEW a, NEW b, NEW m \in Nat \ {0}, NEW n \in Nat \ {0}, m + n <= MaxCount,
           NEW T \in Int, NEW Q \in Int, NEW R \in Int, NEW S \in Int,
           Figures(a, m, T, Q), Figures(b, n, R, S)
    PROVE  Figures(fc_welford_merge(a, b), m + n, T + R, Q + S)
  <1>1. PICK W \in Nat \ {0} : W = WScale
    BY WelfordAssumption
  <1>2. PICK k \in Nat \ {0} : W = m * (n * ((m + n) * k))
    BY <1>1, ScaleDivisible
  <1>3. a.count = m /\ a.mean = (n * ((m + n) * k)) * T /\ a.m2 = (n * ((m + n) * k)) * (m * Q - T * T)
    <2>1. PICK c \in Int : c = n * ((m + n) * k)
      OBVIOUS
    <2>2. ScaledBy(m, c)
      BY <1>1, <1>2, <2>1 DEF ScaledBy
    <2>3. Units(a, c, m, T, Q)
      BY <2>2, InUnits
    <2> QED
      BY <2>1, <2>3 DEF Figures, Units
  <1>4. b.count = n /\ b.mean = (m * ((m + n) * k)) * R /\ b.m2 = (m * ((m + n) * k)) * (n * S - R * R)
    <2>1. PICK c \in Int : c = m * ((m + n) * k)
      OBVIOUS
    <2>2. ScaledBy(n, c)
      BY <1>1, <1>2, <2>1, MergeIdentities DEF ScaledBy
    <2>3. Units(b, c, n, R, S)
      BY <2>2, InUnits
    <2> QED
      BY <2>1, <2>3 DEF Figures, Units
  <1>5. PICK u \in Int : u = m * R - n * T
    OBVIOUS
  <1>6. PICK q \in Int : q = n * (k * u)
    OBVIOUS
  <1>7. PICK s \in Int : s = k * (u * u)
    OBVIOUS
  <1>8. PICK delta \in Int : delta = b.mean - a.mean /\ delta = (m + n) * (k * u)
    BY <1>3, <1>4, <1>5, MergeIdentities
  <1>9. delta * n = (m + n) * q
    BY <1>5, <1>6, <1>8, MergeIdentities
  <1>10. (delta * n) \div (m + n) = q
    BY <1>9, ExactQuotient
  <1>11. PICK mean \in Int : mean = a.mean + q /\ mean = (m * (n * k)) * (T + R)
    BY <1>3, <1>5, <1>6, MergeIdentities
  <1>12. PICK d \in Nat \ {0} : d = W * (m + n)
    OBVIOUS
  <1>13. delta * m * delta * n = d * s
    <2>1. (((m + n) * (k * u)) * m * ((m + n) * (k * u))) * n
            = ((m * (n * ((m + n) * k))) * (m + n)) * (k * (u * u))
      OBVIOUS
    <2> QED
      BY <1>2, <1>7, <1>8, <1>12, <2>1
  <1>14. (delta * m * delta * n) \div d = s
    BY <1>13, ExactQuotient
  <1>15. PICK m2 \in Int : m2 = (a.m2 + b.m2) + s
                           /\ m2 = (m * (n * k)) * ((m + n) * (Q + S) - (T + R) * (T + R))
    BY <1>3, <1>4, <1>5, <1>7, MergeIdentities
  <1>16. fc_welford_merge(a, b) = [count |-> m + n, mean |-> mean, m2 |-> m2]
    BY <1>1, <1>3, <1>4, <1>8, <1>10, <1>11, <1>12, <1>14, <1>15 DEF fc_welford_merge
  <1>17. /\ (m + n) * mean = W * (T + R)
         /\ (m + n) * m2 = W * ((m + n) * (Q + S) - (T + R) * (T + R))
    BY <1>2, <1>11, <1>15, MergeIdentities
  <1> QED
    BY <1>1, <1>16, <1>17 DEF Figures

----------------------------------------------------------------------------
(* Numbers of occurrences.                                                  *)

Squares(d) == SumFunction([x \in Sample |-> d[x] * (x * x)])

LEMMA SamplesAre ==
    /\ IsFiniteSet(Sample) /\ Sample \in SUBSET Int /\ MaxCount \in Nat /\ WScale \in Nat \ {0}
    /\ \A x \in Sample : x \in Int
  BY WelfordAssumption

LEMMA SampleFinite == IsFiniteSet(Sample)
  BY SamplesAre

LEMMA CountSums ==
    ASSUME NEW d \in [Sample -> Nat]
    PROVE  /\ Size(d) \in Nat /\ Total(d) \in Int /\ Squares(d) \in Int
           /\ \A x \in Sample : d[x] <= Size(d)
           /\ Size(d) = 0 => Total(d) = 0 /\ Squares(d) = 0
  <1> DEFINE f == [x \in Sample |-> d[x] * x]
             g == [x \in Sample |-> d[x] * (x * x)]
  <1>1. d \in [Sample -> Int] /\ f \in [Sample -> Int] /\ g \in [Sample -> Int]
    BY SamplesAre
  <1>2. Size(d) \in Nat /\ \A x \in Sample : d[x] <= Size(d)
    BY SampleFinite, SumBounds DEF Size
  <1>3. Total(d) = SumFunction(f) /\ Squares(d) = SumFunction(g)
    BY DEF Total, Squares
  <1>4. ASSUME Size(d) = 0 PROVE Total(d) = 0 /\ Squares(d) = 0
    <2>1. \A x \in Sample : d[x] = 0
      BY <1>2, <1>4
    <2>2. \A x \in Sample : f[x] = 0 /\ g[x] = 0
      BY <2>1, SamplesAre
    <2>3. PICK zero \in Int : zero = 0
      OBVIOUS
    <2>4. \A r \in Int : Combined(zero, r, zero, r) = 0
      BY <2>3 DEF Combined
    <2>5. Combines(f, zero, f, zero, f) /\ Combines(g, zero, g, zero, g)
      <3> HIDE DEF f, g
      <3> QED
        BY <1>1, <2>2, <2>4 DEF Combines
    <2> HIDE DEF f, g
    <2>6. SumFunction(f) \in Int /\ SumFunction(g) \in Int
      BY <1>1, SampleFinite, SumType
    <2>7. SumFunction(f) = Combined(zero, SumFunction(f), zero, SumFunction(f))
      BY <1>1, <2>5, SampleFinite, SumLinear
    <2>8. SumFunction(g) = Combined(zero, SumFunction(g), zero, SumFunction(g))
      BY <1>1, <2>5, SampleFinite, SumLinear
    <2> QED
      BY <1>3, <2>4, <2>6, <2>7, <2>8
  <1> HIDE DEF f, g
  <1>5. Total(d) \in Int /\ Squares(d) \in Int
    BY <1>1, <1>3, SampleFinite, SumType
  <1> QED
    BY <1>2, <1>4, <1>5

\* One occurrence more.
LEMMA OneMore ==
    ASSUME NEW d \in [Sample -> Nat], NEW y \in Sample
    PROVE  /\ [d EXCEPT ![y] = @ + 1] \in [Sample -> Nat]
           /\ Size([d EXCEPT ![y] = @ + 1]) = Size(d) + 1
           /\ Total([d EXCEPT ![y] = @ + 1]) = Total(d) + y
           /\ Squares([d EXCEPT ![y] = @ + 1]) = Squares(d) + y * y
  <1> DEFINE e     == [d EXCEPT ![y] = @ + 1]
             f(c)  == [x \in Sample |-> c[x] * x]
             g(c)  == [x \in Sample |-> c[x] * (x * x)]
  <1>1. e \in [Sample -> Nat] /\ e[y] = d[y] + 1 /\ \A x \in Sample \ {y} : e[x] = d[x]
    OBVIOUS
  <1> HIDE DEF e
  <1>2. /\ d \in [Sample -> Int] /\ e \in [Sample -> Int] /\ y \in Int
        /\ f(d) \in [Sample -> Int] /\ f(e) \in [Sample -> Int]
        /\ g(d) \in [Sample -> Int] /\ g(e) \in [Sample -> Int]
    BY <1>1, SamplesAre
  <1>3. Size(e) = Size(d) + 1
    <2>1. PICK one \in Int : one = 1
      OBVIOUS
    <2>2. Raised(e, d, y, one)
      BY <1>1, <2>1 DEF Raised
    <2>3. SumFunction(e) = SumFunction(d) + one
      <3>1. e \in [Sample -> Int]
        BY <1>2
      <3> QED
        BY ONLY d \in [Sample -> Int], <3>1, y \in Sample, one \in Int, <2>2, SampleFinite, SumPut
    <2> QED
      BY <2>1, <2>3 DEF Size
  <1>4. Raised(f(e), f(d), y, y)
    <2>1. (d[y] + 1) * y = d[y] * y + y
      BY <1>2
    <2> QED
      BY <1>1, <2>1 DEF Raised
  <1>5. PICK z \in Int : z = y * y
    BY <1>2
  <1>6. Raised(g(e), g(d), y, z)
    <2>1. (d[y] + 1) * z = d[y] * z + z
      BY <1>2
    <2> QED
      BY <1>1, <1>5, <2>1 DEF Raised
  <1>7. Total(e) = SumFunction(f(e)) /\ Total(d) = SumFunction(f(d))
    BY DEF Total
  <1>8. Squares(e) = SumFunction(g(e)) /\ Squares(d) = SumFunction(g(d))
    BY DEF Squares
  <1> HIDE DEF f, g
  <1>9. SumFunction(f(e)) = SumFunction(f(d)) + y
    <2>1. f(d) \in [Sample -> Int] /\ f(e) \in [Sample -> Int]
      BY <1>2
    <2>2. PICK a \in [Sample -> Int] : a = f(d)
      BY <2>1
    <2>3. PICK b \in [Sample -> Int] : b = f(e)
      BY <2>1
    <2>4. PICK v \in Int : v = y
      BY <1>2
    <2>5. Raised(b, a, y, v)
      BY <1>4, <2>2, <2>3, <2>4
    <2>6. SumFunction(b) = SumFunction(a) + v
      BY ONLY a \in [Sample -> Int], b \in [Sample -> Int], y \in Sample, v \in Int, <2>5, SampleFinite, SumPut
    <2> QED
      BY <2>2, <2>3, <2>4, <2>6
  <1>10. SumFunction(g(e)) = SumFunction(g(d)) + z
    <2>1. g(d) \in [Sample -> Int] /\ g(e) \in [Sample -> Int]
      BY <1>2
    <2>2. PICK a \in [Sample -> Int] : a = g(d)
      BY <2>1
    <2>3. PICK b \in [Sample -> Int] : b = g(e)
      BY <2>1
    <2>4. Raised(b, a, y, z)
      BY <1>6, <2>2, <2>3
    <2>5. SumFunction(b) = SumFunction(a) + z
      BY ONLY a \in [Sample -> Int], b \in [Sample -> Int], y \in Sample, z \in Int, <2>4, SampleFinite, SumPut
    <2> QED
      BY <2>2, <2>3, <2>5
  <1> QED
    BY <1>1, <1>3, <1>5, <1>7, <1>8, <1>9, <1>10 DEF e

\* The occurrences of two states.
LEMMA Together ==
    ASSUME NEW c \in [Sample -> Nat], NEW d \in [Sample -> Nat], NEW e, e = [x \in Sample |-> c[x] + d[x]]
    PROVE  /\ e \in [Sample -> Nat] /\ Size(e) = Size(c) + Size(d) /\ Total(e) = Total(c) + Total(d)
           /\ Squares(e) = Squares(c) + Squares(d)
  <1> DEFINE f(a) == [x \in Sample |-> a[x] * x]
             g(a) == [x \in Sample |-> a[x] * (x * x)]
  <1>1. e \in [Sample -> Nat] /\ \A x \in Sample : e[x] = c[x] + d[x]
    OBVIOUS
  <1>2. /\ c \in [Sample -> Int] /\ d \in [Sample -> Int] /\ e \in [Sample -> Int]
        /\ f(c) \in [Sample -> Int] /\ f(d) \in [Sample -> Int] /\ f(e) \in [Sample -> Int]
        /\ g(c) \in [Sample -> Int] /\ g(d) \in [Sample -> Int] /\ g(e) \in [Sample -> Int]
    BY <1>1, SamplesAre
  <1>3. PICK one \in Int : one = 1
    OBVIOUS
  <1>4. \A p, q \in Int : Combined(one, p, one, q) = p + q
    BY <1>3 DEF Combined
  <1>5. Combines(e, one, c, one, d)
    BY <1>1, <1>2, <1>4 DEF Combines
  <1>6. Combines(f(e), one, f(c), one, f(d))
    <2>1. ASSUME NEW x \in Sample PROVE f(e)[x] = Combined(one, f(c)[x], one, f(d)[x])
      <3>1. (c[x] + d[x]) * x = c[x] * x + d[x] * x /\ c[x] * x \in Int /\ d[x] * x \in Int
        BY SamplesAre
      <3> QED
        BY <1>1, <1>4, <3>1
    <2> QED
      BY <2>1 DEF Combines
  <1>7. Combines(g(e), one, g(c), one, g(d))
    <2>1. ASSUME NEW x \in Sample PROVE g(e)[x] = Combined(one, g(c)[x], one, g(d)[x])
      <3>1. PICK z \in Int : z = x * x
        BY SamplesAre
      <3>2. (c[x] + d[x]) * z = c[x] * z + d[x] * z /\ c[x] * z \in Int /\ d[x] * z \in Int
        OBVIOUS
      <3> QED
        BY <1>1, <1>4, <3>1, <3>2
    <2> QED
      BY <2>1 DEF Combines
  <1>8. \A a \in {c, d, e} : /\ Size(a) = SumFunction(a) /\ Total(a) = SumFunction(f(a))
                             /\ Squares(a) = SumFunction(g(a))
    BY DEF Size, Total, Squares
  <1> HIDE DEF f, g
  <1>9. /\ SumFunction(c) \in Int /\ SumFunction(d) \in Int
        /\ SumFunction(f(c)) \in Int /\ SumFunction(f(d)) \in Int
        /\ SumFunction(g(c)) \in Int /\ SumFunction(g(d)) \in Int
    BY <1>2, SampleFinite, SumType
  <1>10. SumFunction(e) = Combined(one, SumFunction(c), one, SumFunction(d))
    BY <1>2, <1>5, SampleFinite, SumLinear
  <1>11. SumFunction(f(e)) = Combined(one, SumFunction(f(c)), one, SumFunction(f(d)))
    BY <1>2, <1>6, SampleFinite, SumLinear
  <1>12. SumFunction(g(e)) = Combined(one, SumFunction(g(c)), one, SumFunction(g(d)))
    BY <1>2, <1>7, SampleFinite, SumLinear
  <1> QED
    BY <1>1, <1>4, <1>8, <1>9, <1>10, <1>11, <1>12

----------------------------------------------------------------------------
(* The streams.                                                             *)

\* A state has the figures of the samples that d counts.
Describes(state, d) ==
    d \in [Sample -> Nat] /\ Size(d) <= MaxCount /\ Figures(state, Size(d), Total(d), Squares(d))

LEMMA InitDescribes == Describes(fc_welford_init, NoSamples)
  <1>1. NoSamples \in [Sample -> Nat] /\ NoSamples \in [Sample -> Int]
    BY DEF NoSamples
  <1>2. Size(NoSamples) = 0
    <2>1. PICK zero \in Int : zero = 0
      OBVIOUS
    <2>2. \A r \in Int : Combined(zero, r, zero, r) = 0
      BY <2>1 DEF Combined
    <2>3. \A x \in Sample : NoSamples[x] = 0
      BY DEF NoSamples
    <2>4. Combines(NoSamples, zero, NoSamples, zero, NoSamples)
      BY <1>1, <2>1, <2>2, <2>3 DEF Combines
    <2>5. SumFunction(NoSamples) = Combined(zero, SumFunction(NoSamples), zero, SumFunction(NoSamples))
      BY ONLY <1>1, <2>4, zero \in Int, SampleFinite, SumLinear
    <2>6. SumFunction(NoSamples) \in Int
      BY ONLY <1>1, SampleFinite, SumType
    <2> QED
      BY <2>2, <2>5, <2>6 DEF Size
  <1>3. Total(NoSamples) = 0 /\ Squares(NoSamples) = 0
    BY <1>1, <1>2, CountSums
  <1>4. PICK W \in Nat \ {0} : W = WScale
    BY SamplesAre
  <1>5. 0 * 0 = W * 0 /\ 0 * 0 - 0 * 0 = 0
    OBVIOUS
  <1>6. 0 <= MaxCount
    BY SamplesAre
  <1> QED
    BY <1>1, <1>2, <1>3, <1>4, <1>5, <1>6 DEF Describes, Figures, fc_welford_init

LEMMA UpdateDescribes ==
    ASSUME NEW state, NEW d, Describes(state, d), Size(d) + 1 <= MaxCount, NEW x \in Sample
    PROVE  Describes(fc_welford_update(state, x), [d EXCEPT ![x] = @ + 1])
  <1> DEFINE e == [d EXCEPT ![x] = @ + 1]
             next == fc_welford_update(state, x)
  <1>1. d \in [Sample -> Nat] /\ Figures(state, Size(d), Total(d), Squares(d))
    BY DEF Describes
  <1>2. /\ Size(d) \in Nat /\ Total(d) \in Int /\ Squares(d) \in Int
        /\ Size(d) = 0 => Total(d) = 0 /\ Squares(d) = 0
    BY <1>1, CountSums
  <1>3. /\ e \in [Sample -> Nat] /\ Size(e) = Size(d) + 1 /\ Total(e) = Total(d) + x
        /\ Squares(e) = Squares(d) + x * x
    BY <1>1, OneMore
  <1>4. PICK n \in Nat, T \in Int, Q \in Int : n = Size(d) /\ T = Total(d) /\ Q = Squares(d)
    BY <1>2
  <1>5. x \in Int
    BY SamplesAre
  <1>6. Figures(next, n + 1, T + x, Q + x * x)
    <2>1. Figures(state, n, T, Q) /\ n + 1 <= MaxCount
      BY <1>1, <1>4
    <2> HIDE DEF next
    <2>2. CASE n = 0
      <3>1. T = 0 /\ Q = 0 /\ Figures(state, 0, 0, 0)
        BY <1>2, <1>4, <2>1, <2>2
      <3>2. Figures(next, 1, x, x * x)
        BY <1>5, <3>1, FirstUpdate DEF next
      <3>3. x * x \in Int /\ 0 + 1 = 1
        BY <1>5
      <3>4. T + x = x /\ Q + x * x = x * x /\ n + 1 = 1
        BY <1>5, <2>2, <3>1, <3>3
      <3> QED
        BY <3>2, <3>4
    <2>3. CASE n # 0
      <3>1. n \in Nat \ {0}
        BY <2>3
      <3> QED
        BY ONLY <1>5, <2>1, <3>1, T \in Int, Q \in Int, Updated DEF next
    <2> QED
      BY <2>2, <2>3
  <1> HIDE DEF e, next
  <1>7. Describes(next, e)
    BY <1>3, <1>4, <1>6 DEF Describes
  <1> QED
    BY <1>7 DEF e, next

LEMMA MergeDescribes ==
    ASSUME NEW a, NEW b, NEW c, NEW d, Describes(a, c), Describes(b, d), Size(c) + Size(d) <= MaxCount
    PROVE  Describes(fc_welford_merge(a, b), [x \in Sample |-> c[x] + d[x]])
  <1> DEFINE e == [x \in Sample |-> c[x] + d[x]]
             both == fc_welford_merge(a, b)
  <1>1. /\ c \in [Sample -> Nat] /\ Figures(a, Size(c), Total(c), Squares(c))
        /\ d \in [Sample -> Nat] /\ Figures(b, Size(d), Total(d), Squares(d))
    BY DEF Describes
  <1>2. /\ Size(c) \in Nat /\ Total(c) \in Int /\ Squares(c) \in Int
        /\ Size(d) \in Nat /\ Total(d) \in Int /\ Squares(d) \in Int
        /\ Size(c) = 0 => Total(c) = 0 /\ Squares(c) = 0
        /\ Size(d) = 0 => Total(d) = 0 /\ Squares(d) = 0
    BY <1>1, CountSums
  <1>3. /\ e \in [Sample -> Nat] /\ Size(e) = Size(c) + Size(d) /\ Total(e) = Total(c) + Total(d)
        /\ Squares(e) = Squares(c) + Squares(d)
    <2>1. PICK sum : sum = e
      OBVIOUS
    <2>2. sum = [x \in Sample |-> c[x] + d[x]]
      BY <2>1
    <2> HIDE DEF e
    <2>3. /\ sum \in [Sample -> Nat] /\ Size(sum) = Size(c) + Size(d) /\ Total(sum) = Total(c) + Total(d)
          /\ Squares(sum) = Squares(c) + Squares(d)
      BY <1>1, <2>2, Together
    <2> QED
      BY <2>1, <2>3
  <1>4. PICK m \in Nat, T \in Int, Q \in Int : m = Size(c) /\ T = Total(c) /\ Q = Squares(c)
    BY <1>2
  <1>5. PICK n \in Nat, R \in Int, S \in Int : n = Size(d) /\ R = Total(d) /\ S = Squares(d)
    BY <1>2
  <1>6. Figures(a, m, T, Q) /\ Figures(b, n, R, S) /\ m + n <= MaxCount
    BY <1>1, <1>4, <1>5
  <1> HIDE DEF e, both
  <1>7. Figures(both, m + n, T + R, Q + S)
    <2>1. CASE n = 0
      <3>1. R = 0 /\ S = 0 /\ Figures(b, 0, 0, 0)
        BY <1>2, <1>5, <1>6, <2>1
      <3>2. Figures(both, m, T, Q)
        BY ONLY <1>6, <3>1, m \in Nat, T \in Int, Q \in Int, MergedWithNone DEF both
      <3> QED
        BY <2>1, <3>1, <3>2
    <2>2. CASE m = 0
      <3>1. T = 0 /\ Q = 0 /\ Figures(a, 0, 0, 0)
        BY <1>2, <1>4, <1>6, <2>2
      <3>2. Figures(both, n, R, S)
        BY ONLY <1>6, <3>1, n \in Nat, R \in Int, S \in Int, MergedWithNone DEF both
      <3> QED
        BY <2>2, <3>1, <3>2
    <2>3. CASE m # 0 /\ n # 0
      <3>1. m \in Nat \ {0} /\ n \in Nat \ {0}
        BY <2>3
      <3> QED
        BY ONLY <1>6, <3>1, T \in Int, Q \in Int, R \in Int, S \in Int, Merged DEF both
    <2> QED
      BY <2>1, <2>2, <2>3
  <1>8. Describes(both, e)
    BY <1>3, <1>4, <1>5, <1>6, <1>7 DEF Describes
  <1> QED
    BY <1>8 DEF e, both

\* The counts after each part of a batch.
Counts(d, n, values) == [i \in 0 .. n |-> Counted(d, [j \in 1 .. i |-> values[j]])]

GrowBySteps(k, d, n, values) ==
    /\ k[0] = d /\ k[n] = Counted(d, values)
    /\ \A i \in 0 .. n - 1 : k[i + 1] = [k[i] EXCEPT ![values[i + 1]] = @ + 1]

\* They grow by one value at a time.
LEMMA CountedSteps ==
    ASSUME NEW n \in Nat, NEW values \in [1 .. n -> Sample], NEW d \in [Sample -> Nat], NEW k,
           k = Counts(d, n, values)
    PROVE  GrowBySteps(k, d, n, values)
  <1> DEFINE at(i, x) == {j \in 1 .. i : values[j] = x}
  <1>1. ASSUME NEW i \in 0 .. n
        PROVE  k[i] = [x \in Sample |-> d[x] + Cardinality(at(i, x))]
    <2>1. /\ DOMAIN [j \in 1 .. i |-> values[j]] = 1 .. i
          /\ \A j \in 1 .. i : [m \in 1 .. i |-> values[m]][j] = values[j]
      OBVIOUS
    <2>2. \A x \in Sample : at(i, x) = {j \in DOMAIN [j \in 1 .. i |-> values[j]] : [m \in 1 .. i |-> values[m]][j] = x}
      BY <2>1
    <2> HIDE DEF at
    <2> QED
      BY <2>2 DEF Counted, Counts
  <1>2. ASSUME NEW i \in 0 .. n, NEW x \in Sample
        PROVE  IsFiniteSet(at(i, x)) /\ Cardinality(at(i, x)) \in Nat
    <2>1. IsFiniteSet(1 .. i)
      BY FS_Interval
    <2> QED
      BY <2>1, FS_Subset, FS_CardinalityType
  <1>3. k[0] = d
    <2>1. \A x \in Sample : at(0, x) = {}
      OBVIOUS
    <2>2. Cardinality({}) = 0 /\ 0 \in 0 .. n
      BY FS_EmptySet
    <2> HIDE DEF at
    <2>3. k[0] = [x \in Sample |-> d[x] + Cardinality(at(0, x))]
      BY <1>1, <2>2
    <2>4. \A x \in Sample : d[x] + Cardinality(at(0, x)) = d[x]
      <3>1. ASSUME NEW x \in Sample PROVE d[x] + Cardinality(at(0, x)) = d[x]
        <4>1. at(0, x) = {} /\ d[x] \in Nat
          BY <2>1
        <4>2. Cardinality(at(0, x)) = 0
          BY <2>2, <4>1
        <4> QED
          BY <4>1, <4>2
      <3> QED
        BY <3>1
    <2>5. d = [x \in Sample |-> d[x]]
      OBVIOUS
    <2> QED
      BY <2>3, <2>4, <2>5
  <1>4. k[n] = Counted(d, values)
    <2>1. values = [j \in 1 .. n |-> values[j]] /\ n \in 0 .. n
      OBVIOUS
    <2> QED
      BY <2>1 DEF Counts
  <1>5. ASSUME NEW i \in 0 .. n - 1
        PROVE  k[i + 1] = [k[i] EXCEPT ![values[i + 1]] = @ + 1]
    <2>1. i \in 0 .. n /\ i + 1 \in 0 .. n /\ i + 1 \in 1 .. n /\ values[i + 1] \in Sample
      OBVIOUS
    <2>2. ASSUME NEW x \in Sample
          PROVE  Cardinality(at(i + 1, x)) = Cardinality(at(i, x)) + (IF x = values[i + 1] THEN 1 ELSE 0)
      <3>1. CASE x = values[i + 1]
        <4>1. at(i + 1, x) = at(i, x) \cup {i + 1} /\ i + 1 \notin at(i, x)
          BY <2>1, <3>1
        <4>2. PICK S : S = at(i, x)
          OBVIOUS
        <4>3. Cardinality(S \cup {i + 1}) = Cardinality(S) + 1
          <5>1. IsFiniteSet(S) /\ i + 1 \notin S
            BY <1>2, <2>1, <4>1, <4>2
          <5> QED
            BY <5>1, FS_AddElement
        <4> QED
          BY <3>1, <4>1, <4>2, <4>3
      <3>2. CASE x # values[i + 1]
        <4>1. at(i + 1, x) = at(i, x)
          BY <2>1, <3>2
        <4> HIDE DEF at
        <4> QED
          BY <1>2, <2>1, <3>2, <4>1
      <3> QED
        BY <3>1, <3>2
    <2> HIDE DEF at
    <2>3. /\ k[i] = [x \in Sample |-> d[x] + Cardinality(at(i, x))]
          /\ k[i + 1] = [x \in Sample |-> d[x] + Cardinality(at(i + 1, x))]
      BY <1>1, <2>1
    <2>4. \A x \in Sample : /\ Cardinality(at(i, x)) \in Nat /\ d[x] \in Nat
                            /\ Cardinality(at(i + 1, x)) = Cardinality(at(i, x))
                                                              + (IF x = values[i + 1] THEN 1 ELSE 0)
      BY <1>2, <2>1, <2>2
    <2>5. k[i + 1] = [x \in Sample |-> IF x = values[i + 1] THEN k[i][x] + 1 ELSE k[i][x]]
      <3>1. \A x \in Sample : d[x] + Cardinality(at(i + 1, x))
                               = IF x = values[i + 1] THEN k[i][x] + 1 ELSE k[i][x]
        BY <2>3, <2>4
      <3> QED
        BY <2>3, <3>1
    <2>6. PICK f : f = k[i]
      OBVIOUS
    <2>7. f = [x \in Sample |-> f[x]]
      BY <2>3, <2>6
    <2>8. [f EXCEPT ![values[i + 1]] = @ + 1] = [x \in Sample |-> IF x = values[i + 1] THEN f[x] + 1 ELSE f[x]]
      BY <2>7
    <2> QED
      BY <2>5, <2>6, <2>8
  <1> QED
    BY <1>3, <1>4, <1>5 DEF GrowBySteps

\* A batch of any length.
LEMMA BatchDescribes ==
    ASSUME NEW state, NEW d, Describes(state, d), NEW n \in Nat, NEW values \in [1 .. n -> Sample],
           Size(d) + n <= MaxCount
    PROVE  Describes(fc_welford_update_batch(state, values), Counted(d, values))
  <1> DEFINE V == [count : Nat, mean : Int, m2 : Int]
             g == [p \in V \X (1 .. n) |-> fc_welford_update(p[1], values[p[2]])]
             Updates(t) == t = [s \in SUBSET (1 .. n) |->
                                  IF s = {} THEN state ELSE fc_welford_update(t[s \ {Max(s)}], values[Max(s)])]
             h == CHOOSE t : Updates(t)
             k == Counts(d, n, values)
  <1>1. \A v \in V, x \in Sample : fc_welford_update(v, x) \in V
    <2>1. ASSUME NEW v \in V, NEW x \in Sample PROVE fc_welford_update(v, x) \in V
      <3>1. PICK W \in Nat \ {0} : W = WScale
        BY SamplesAre
      <3>2. v.count + 1 \in Nat \ {0} /\ v.mean \in Int /\ v.m2 \in Int /\ x \in Int
        BY SamplesAre
      <3>3. PICK delta \in Int : delta = W * x - v.mean
        BY <3>2
      <3>4. PICK mean \in Int : mean = v.mean + delta \div (v.count + 1)
        BY <3>2
      <3>5. PICK delta2 \in Int : delta2 = W * x - mean
        BY <3>2
      <3>6. PICK p \in Int : p = delta * delta2
        OBVIOUS
      <3>7. v.m2 + p \div W \in Int
        BY <3>2
      <3> QED
        BY <3>1, <3>2, <3>3, <3>4, <3>5, <3>6, <3>7 DEF fc_welford_update
    <2> QED
      BY <2>1
  <1>2. state \in V /\ d \in [Sample -> Nat]
    BY DEF Describes, Figures
  <1>3. g \in [V \X (1 .. n) -> V]
    <2> HIDE DEF V
    <2> QED
      BY <1>1
  <1> HIDE DEF V
  <1>4. \E t : Updates(t)
    <2>1. PICK t \in [SUBSET (1 .. n) -> V] : Tabulates(t, n, state, g)
      BY <1>2, <1>3, TableExists
    <2>2. \A s \in SUBSET (1 .. n) : s # {} => Max(s) \in s
      BY <1>2, <1>3, TableExists
    <2>3. ASSUME NEW s \in SUBSET (1 .. n), s # {}
          PROVE  g[<<t[s \ {Max(s)}], Max(s)>>] = fc_welford_update(t[s \ {Max(s)}], values[Max(s)])
      <3>1. <<t[s \ {Max(s)}], Max(s)>> \in V \X (1 .. n)
        BY <2>2, <2>3
      <3> QED
        BY <3>1 DEF g
    <2>4. t = [s \in SUBSET (1 .. n) |-> t[s]]
      OBVIOUS
    <2>5. \A s \in SUBSET (1 .. n) :
             t[s] = IF s = {} THEN state ELSE fc_welford_update(t[s \ {Max(s)}], values[Max(s)])
      BY <2>1, <2>3 DEF Tabulates
    <2> QED
      BY <2>4, <2>5
  <1>5. Updates(h)
    BY <1>4
  <1>6. fc_welford_update_batch(state, values) = h[1 .. n]
    BY DEF fc_welford_update_batch, FoldLeft, MapThenFoldSet
  <1> HIDE DEF h
  <1>7. /\ k[0] = d /\ k[n] = Counted(d, values)
        /\ \A i \in 0 .. n - 1 : k[i + 1] = [k[i] EXCEPT ![values[i + 1]] = @ + 1]
    <2>1. PICK c : c = Counts(d, n, values)
      OBVIOUS
    <2>2. n \in Nat /\ values \in [1 .. n -> Sample] /\ d \in [Sample -> Nat]
      BY <1>2
    <2>3. GrowBySteps(c, d, n, values)
      BY ONLY <2>1, <2>2, CountedSteps
    <2> QED
      BY <2>1, <2>3 DEF GrowBySteps
  <1> HIDE DEF k
  <1> DEFINE S == {i \in Nat : i <= n => Describes(h[1 .. i], k[i]) /\ Size(k[i]) = Size(d) + i}
  <1>8. 0 \in S
    <2>1. 1 .. 0 = {} /\ {} \in SUBSET (1 .. n)
      OBVIOUS
    <2>2. h[{}] = state
      BY <1>5, <2>1
    <2>3. Size(d) \in Nat
      BY <1>2, CountSums
    <2> QED
      BY <1>7, <2>1, <2>2, <2>3
  <1>9. ASSUME NEW i \in S PROVE i + 1 \in S
    <2> SUFFICES ASSUME i + 1 <= n
                 PROVE  Describes(h[1 .. i + 1], k[i + 1]) /\ Size(k[i + 1]) = Size(d) + (i + 1)
      OBVIOUS
    <2>1. i \in 0 .. n - 1 /\ Describes(h[1 .. i], k[i]) /\ Size(k[i]) = Size(d) + i
      OBVIOUS
    <2>2. /\ 1 .. i + 1 \in SUBSET (1 .. n) /\ 1 .. i + 1 # {}
          /\ Max(1 .. i + 1) = i + 1 /\ (1 .. i + 1) \ {i + 1} = 1 .. i
      BY <2>1, TableBySteps
    <2>3. \A s \in SUBSET (1 .. n) : s # {} => h[s] = fc_welford_update(h[s \ {Max(s)}], values[Max(s)])
      BY <1>5
    <2>4. h[1 .. i + 1] = fc_welford_update(h[1 .. i], values[i + 1])
      BY <2>2, <2>3
    <2>5. k[i + 1] = [k[i] EXCEPT ![values[i + 1]] = @ + 1]
      BY <1>7, <2>1
    <2>6. values[i + 1] \in Sample /\ k[i] \in [Sample -> Nat] /\ Size(d) \in Nat /\ MaxCount \in Nat
      <3>1. i + 1 \in 1 .. n
        BY <2>1
      <3> QED
        BY <1>2, <2>1, <3>1, CountSums, SamplesAre DEF Describes
    <2>7. Size(k[i + 1]) = Size(k[i]) + 1
      BY <2>5, <2>6, OneMore
    <2>8. Size(k[i]) + 1 <= MaxCount
      BY <2>1, <2>6
    <2>9. Describes(h[1 .. i + 1], k[i + 1])
      BY <2>1, <2>4, <2>5, <2>6, <2>8, UpdateDescribes
    <2> QED
      BY <2>1, <2>6, <2>7, <2>9
  <1>10. S = Nat
    <2>1. S \in SUBSET Nat
      OBVIOUS
    <2> HIDE DEF S
    <2> QED
      BY <1>8, <1>9, <2>1, BySteps
  <1>11. Describes(h[1 .. n], k[n])
    BY <1>10
  <1> QED
    BY <1>6, <1>7, <1>11

\* Every stream's state describes the values that are in it.
WelfordInv ==
    /\ DOMAIN welford = Stream /\ DOMAIN samples = Stream
    /\ welford = [s \in Stream |-> welford[s]] /\ samples = [s \in Stream |-> samples[s]]
    /\ \A s \in Stream : Describes(welford[s], samples[s])

LEMMA PutKeepsInv ==
    ASSUME WelfordInv, NEW s \in Stream, NEW values \in Seq(Sample), Put(s, values)
    PROVE  WelfordInv'
  <1>1. PICK n \in Nat : n = Len(values)
    BY LenProperties
  <1>2. values \in [1 .. n -> Sample]
    BY <1>1, LenProperties
  <1>3. PICK w : w = fc_welford_update_batch(welford[s], values)
    OBVIOUS
  <1>4. PICK d : d = Counted(samples[s], values)
    OBVIOUS
  <1>5. Describes(welford[s], samples[s]) /\ Size(samples[s]) = welford[s].count
    BY DEF WelfordInv, Describes, Figures
  <1>6. Size(samples[s]) + n <= MaxCount
    BY <1>1, <1>5 DEF Put
  <1>7. Describes(w, d)
    BY <1>2, <1>3, <1>4, <1>5, <1>6, BatchDescribes
  <1>8. welford' = [welford EXCEPT ![s] = w] /\ samples' = [samples EXCEPT ![s] = d]
    BY <1>3, <1>4 DEF Put
  <1> QED
    BY <1>7, <1>8 DEF WelfordInv

LEMMA CountedOne ==
    ASSUME NEW d \in [Sample -> Nat], NEW x \in Sample
    PROVE  Counted(d, <<x>>) = [d EXCEPT ![x] = @ + 1]
  <1>1. \A y \in Sample : {i \in DOMAIN <<x>> : <<x>>[i] = y} = IF y = x THEN {1} ELSE {}
    OBVIOUS
  <1>2. Cardinality({1}) = 1 /\ Cardinality({}) = 0
    BY FS_Singleton, FS_EmptySet
  <1>3. \A y \in Sample : d[y] + Cardinality({i \in DOMAIN <<x>> : <<x>>[i] = y})
                            = IF y = x THEN d[y] + 1 ELSE d[y]
    <2>1. \A y \in Sample : Cardinality({i \in DOMAIN <<x>> : <<x>>[i] = y}) = IF y = x THEN 1 ELSE 0
      BY <1>1, <1>2
    <2>2. \A y \in Sample : d[y] \in Nat
      OBVIOUS
    <2> QED
      BY <2>1, <2>2
  <1>4. Counted(d, <<x>>) = [y \in Sample |-> IF y = x THEN d[y] + 1 ELSE d[y]]
    BY <1>3 DEF Counted
  <1>5. [d EXCEPT ![x] = @ + 1] = [y \in Sample |-> IF y = x THEN d[y] + 1 ELSE d[y]]
    OBVIOUS
  <1> QED
    BY <1>4, <1>5

LEMMA StreamsKeepInv ==
    ASSUME WelfordInv, UpdateStreams
    PROVE  WelfordInv'
  <1>1. PICK values \in [Stream -> Sample] :
          /\ \A s \in Stream : welford[s].count < MaxCount
          /\ welford' = [s \in Stream |-> fc_welford_update(welford[s], values[s])]
          /\ samples' = [s \in Stream |-> Counted(samples[s], <<values[s]>>)]
    BY DEF UpdateStreams
  <1>2. ASSUME NEW s \in Stream PROVE Describes(welford'[s], samples'[s])
    <2>1. values[s] \in Sample /\ Describes(welford[s], samples[s]) /\ MaxCount \in Nat
      BY SamplesAre DEF WelfordInv
    <2>2. samples[s] \in [Sample -> Nat] /\ Size(samples[s]) = welford[s].count /\ Size(samples[s]) \in Nat
      BY <2>1, CountSums DEF Describes, Figures
    <2>3. Size(samples[s]) + 1 <= MaxCount
      BY <1>1, <2>1, <2>2
    <2>4. Describes(fc_welford_update(welford[s], values[s]), [samples[s] EXCEPT ![values[s]] = @ + 1])
      BY <2>1, <2>3, UpdateDescribes
    <2>5. Counted(samples[s], <<values[s]>>) = [samples[s] EXCEPT ![values[s]] = @ + 1]
      BY <2>1, <2>2, CountedOne
    <2> QED
      BY <1>1, <2>4, <2>5
  <1> QED
    BY <1>1, <1>2 DEF WelfordInv

LEMMA MergeKeepsInv ==
    ASSUME WelfordInv, NEW s \in Stream, NEW t \in Stream, Merge(s, t)
    PROVE  WelfordInv'
  <1>1. Describes(welford[s], samples[s]) /\ Describes(welford[t], samples[t])
    BY DEF WelfordInv
  <1>2. Size(samples[s]) + Size(samples[t]) <= MaxCount
    BY <1>1 DEF Merge, Describes, Figures
  <1>3. PICK d : d = [x \in Sample |-> samples[s][x] + samples[t][x]]
    OBVIOUS
  <1>4. PICK w : w = fc_welford_merge(welford[s], welford[t])
    OBVIOUS
  <1>5. Describes(w, d)
    BY <1>1, <1>2, <1>3, <1>4, MergeDescribes
  <1>6. welford' = [welford EXCEPT ![s] = w] /\ samples' = [samples EXCEPT ![s] = d]
    BY <1>3, <1>4 DEF Merge, WelfordInv
  <1> QED
    BY <1>5, <1>6 DEF WelfordInv

\* Whatever the updates, batches, merges and resets are, every state describes the values
\* that are in its stream.
THEOREM WelfordInvariance == WelfordSpec => []WelfordInv
  <1>1. WelfordInit => WelfordInv
    <2> SUFFICES ASSUME WelfordInit PROVE WelfordInv
      OBVIOUS
    <2>1. \A s \in Stream : welford[s] = fc_welford_init /\ samples[s] = NoSamples
      BY DEF WelfordInit
    <2>2. \A s \in Stream : Describes(welford[s], samples[s])
      BY <2>1, InitDescribes
    <2> QED
      BY <2>2 DEF WelfordInit, WelfordInv
  <1>2. WelfordInv /\ [WelfordNext]_welfordVars => WelfordInv'
    <2> SUFFICES ASSUME WelfordInv, [WelfordNext]_welfordVars PROVE WelfordInv'
      OBVIOUS
    <2>1. ASSUME NEW s \in Stream, Update(s) PROVE WelfordInv'
      <3>1. PICK x \in Sample : Put(s, <<x>>)
        BY <2>1 DEF Update
      <3>2. <<x>> \in Seq(Sample)
        OBVIOUS
      <3> QED
        BY <3>1, <3>2, PutKeepsInv
    <2>2. ASSUME NEW s \in Stream, UpdateBatch(s) PROVE WelfordInv'
      <3>1. PICK a \in Sample \cup {NaN}, b \in Sample \cup {NaN} :
               IF NaN \notin {a, b} THEN Put(s, <<a, b>>) ELSE a # NaN /\ Put(s, <<a>>)
        BY <2>2 DEF UpdateBatch
      <3>2. CASE NaN \notin {a, b}
        <4>1. <<a, b>> \in Seq(Sample) /\ Put(s, <<a, b>>)
          BY <3>1, <3>2
        <4> QED
          BY <4>1, PutKeepsInv
      <3>3. CASE NaN \in {a, b}
        <4>1. <<a>> \in Seq(Sample) /\ Put(s, <<a>>)
          BY <3>1, <3>3
        <4> QED
          BY <4>1, PutKeepsInv
      <3> QED
        BY <3>2, <3>3
    <2>3. ASSUME NEW s \in Stream, fc_welford_reset(s) PROVE WelfordInv'
      <3>1. welford' = [welford EXCEPT ![s] = fc_welford_init] /\ samples' = [samples EXCEPT ![s] = NoSamples]
        BY <2>3 DEF fc_welford_reset
      <3> QED
        BY <3>1, InitDescribes DEF WelfordInv
    <2>4. ASSUME NEW s \in Stream, NEW t \in Stream, Merge(s, t) PROVE WelfordInv'
      BY <2>4, MergeKeepsInv
    <2>5. CASE UpdateStreams
      BY <2>5, StreamsKeepInv
    <2>6. CASE UNCHANGED welfordVars
      BY <2>6 DEF WelfordInv, welfordVars
    <2> QED
      BY <2>1, <2>2, <2>3, <2>4, <2>5, <2>6 DEF WelfordNext
  <1> QED
    BY <1>1, <1>2, PTL DEF WelfordSpec

----------------------------------------------------------------------------
(* The sums of the powers of the distances from the mean. *)

Distance(d, x) == Size(d) * x - Total(d)
SecondPowers(d) == [x \in Sample |-> d[x] * (Distance(d, x) * Distance(d, x))]

LEMMA SecondMoment ==
    ASSUME NEW d
    PROVE  Central(d, Squared) = SumFunction(SecondPowers(d))
  BY DEF Central, Squared, SecondPowers, Distance

\* The squared distances add up to what the sums of the values and of their squares say.
LEMMA SecondMomentIs ==
    ASSUME NEW d \in [Sample -> Nat]
    PROVE  /\ SecondPowers(d) \in [Sample -> Nat] /\ SumFunction(SecondPowers(d)) \in Nat
           /\ SumFunction(SecondPowers(d)) = Size(d) * (Size(d) * Squares(d) - Total(d) * Total(d))
  <1>1. PICK n \in Nat : n = Size(d)
    BY CountSums
  <1>2. PICK T \in Int : T = Total(d)
    BY CountSums
  <1>3. PICK Q \in Int : Q = Squares(d)
    BY CountSums
  <1>4. PICK h : h = SecondPowers(d)
    OBVIOUS
  <1>5. \A x \in Sample : d[x] \in Nat /\ x \in Int
    BY SamplesAre
  <1>6. h \in [Sample -> Nat] /\ \A x \in Sample : h[x] = d[x] * ((n * x - T) * (n * x - T))
    <2>1. ASSUME NEW x \in Sample PROVE d[x] * (Distance(d, x) * Distance(d, x)) \in Nat
      <3>1. PICK y \in Int : y = n * x - T
        BY <1>5
      <3>2. y * y \in Nat
        OBVIOUS
      <3>3. PICK z \in Nat : z = y * y
        BY <3>2
      <3>4. d[x] * z \in Nat
        BY <1>5
      <3> QED
        BY <1>1, <1>2, <3>1, <3>3, <3>4 DEF Distance
    <2> QED
      BY <1>1, <1>2, <1>4, <2>1 DEF SecondPowers, Distance
  <1>7. SumFunction(h) \in Nat
    <2>1. h \in [Sample -> Nat]
      BY <1>6
    <2> QED
      BY ONLY <2>1, SampleFinite, SumBounds
  <1> DEFINE e == [x \in Sample |-> d[x] * (x * x)]
             f == [x \in Sample |-> d[x] * x]
  <1>8. e \in [Sample -> Int] /\ f \in [Sample -> Int] /\ d \in [Sample -> Int] /\ h \in [Sample -> Int]
    <2>1. \A x \in Sample : x * x \in Int /\ d[x] \in Int
      BY <1>5
    <2>2. \A x \in Sample : d[x] * (x * x) \in Int /\ d[x] * x \in Int
      BY <1>5, <2>1
    <2> QED
      BY <1>6, <2>2
  <1>9. PICK a \in Int, b \in Int, c \in Int : a = n * n /\ b = -(2 * (n * T)) /\ c = T * T
    OBVIOUS
  <1>10. CombinesThree(h, a, e, b, f, c, d)
    <2>1. ASSUME NEW x \in Sample
          PROVE  h[x] = AddThree(a, d[x] * (x * x), b, d[x] * x, c, d[x])
      <3>1. PICK m \in Int : m = d[x]
        BY <1>5
      <3>2. PICK y \in Int : y = x
        BY <1>5
      <3>3. m * ((n * y - T) * (n * y - T)) = AddThree(n * n, m * (y * y), -(2 * (n * T)), m * y, T * T, m)
        BY DEF AddThree, Combined
      <3> QED
        BY <1>6, <1>9, <3>1, <3>2, <3>3
    <2> QED
      BY <1>6, <2>1 DEF CombinesThree
  <1>11. SumFunction(e) = Q /\ SumFunction(f) = T /\ SumFunction(d) = n
    BY <1>1, <1>2, <1>3 DEF Squares, Total, Size
  <1> HIDE DEF e, f
  <1>12. SumFunction(h) = AddThree(a, SumFunction(e), b, SumFunction(f), c, SumFunction(d))
    <2>1. /\ e \in [Sample -> Int] /\ f \in [Sample -> Int] /\ d \in [Sample -> Int] /\ h \in [Sample -> Int]
          /\ a \in Int /\ b \in Int /\ c \in Int
      BY <1>8
    <2> QED
      BY ONLY <1>10, <2>1, SampleFinite, SumThree
  <1>13. SumFunction(h) = n * (n * Q - T * T)
    <2>1. AddThree(n * n, Q, -(2 * (n * T)), T, T * T, n) = n * (n * Q - T * T)
      <3>1. n \in Int
        OBVIOUS
      <3> QED
        BY <3>1 DEF AddThree, Combined
    <2> QED
      BY <1>9, <1>11, <1>12, <2>1
  <1> QED
    BY <1>1, <1>2, <1>3, <1>4, <1>6, <1>7, <1>13

LEMMA NotNegative ==
    ASSUME NEW n \in Nat \ {0}, NEW a \in Int, n * a \in Nat
    PROVE  a \in Nat
  OBVIOUS

\* What a state that describes some values says of them.
LEMMA FiguresTell ==
    ASSUME NEW state, NEW d, Describes(state, d)
    PROVE  /\ state \in [count : 0 .. MaxCount, mean : Int, m2 : Nat] /\ d \in [Sample -> 0 .. MaxCount]
           /\ Size(d) = state.count
           /\ Size(d) * fc_welford_mean(state) = WScale * Total(d)
           /\ Size(d) > 0 => Size(d) * Size(d) * state.m2 = WScale * SumFunction(SecondPowers(d))
  <1>1. d \in [Sample -> Nat] /\ Size(d) <= MaxCount /\ Figures(state, Size(d), Total(d), Squares(d))
    BY DEF Describes
  <1>2. PICK n \in Nat : n = Size(d)
    BY <1>1, CountSums
  <1>3. PICK T \in Int : T = Total(d)
    BY <1>1, CountSums
  <1>4. PICK Q \in Int : Q = Squares(d)
    BY <1>1, CountSums
  <1>5. PICK W \in Nat \ {0} : W = WScale
    BY SamplesAre
  <1>6. /\ state \in [count : Nat, mean : Int, m2 : Int] /\ state.count = n /\ n <= MaxCount
        /\ n * state.mean = W * T /\ n * state.m2 = W * (n * Q - T * T)
        /\ n = 0 => T = 0 /\ Q = 0 /\ state.mean = 0 /\ state.m2 = 0
    BY <1>1, <1>2, <1>3, <1>4, <1>5 DEF Figures
  <1>7. PICK m2 \in Int : m2 = state.m2
    BY <1>6
  <1>8. PICK D \in Int : D = n * Q - T * T
    OBVIOUS
  <1>9. SumFunction(SecondPowers(d)) = n * D /\ n * D \in Nat
    BY <1>1, <1>2, <1>3, <1>4, <1>8, SecondMomentIs
  <1>10. n * m2 = W * D
    BY <1>6, <1>7, <1>8
  <1>11. m2 \in Nat
    <2>1. CASE n = 0
      BY <1>6, <1>7, <2>1
    <2>2. CASE n # 0
      <3>1. n \in Nat \ {0}
        BY <2>2
      <3>2. D \in Nat
        BY <1>9, <3>1, NotNegative
      <3>3. W * D \in Nat
        BY <3>2
      <3>4. n * m2 \in Nat
        BY <1>10, <3>3
      <3> QED
        BY <3>1, <3>4, NotNegative
    <2> QED
      BY <2>1, <2>2
  <1>12. \A x \in Sample : d[x] \in 0 .. MaxCount
    <2>1. \A x \in Sample : d[x] <= n /\ d[x] \in Nat
      BY <1>1, <1>2, CountSums
    <2>2. MaxCount \in Nat
      BY SamplesAre
    <2> QED
      BY <1>6, <2>1, <2>2
  <1>13. n * fc_welford_mean(state) = W * T
    BY <1>6 DEF fc_welford_mean
  <1>14. n > 0 => (n * n) * m2 = W * (n * D)
    <2>1. (n * n) * m2 = n * (n * m2) /\ n * (W * D) = W * (n * D)
      OBVIOUS
    <2> QED
      BY <1>10, <2>1
  <1>15. state \in [count : 0 .. MaxCount, mean : Int, m2 : Nat]
    <2>1. MaxCount \in Nat /\ state.count \in 0 .. MaxCount /\ state.m2 \in Nat
      BY <1>6, <1>7, <1>11, SamplesAre
    <2> QED
      BY <1>6, <2>1
  <1>16. d \in [Sample -> 0 .. MaxCount]
    BY <1>1, <1>12
  <1> QED
    BY <1>2, <1>3, <1>5, <1>6, <1>7, <1>9, <1>13, <1>14, <1>15, <1>16

LEMMA InvGivesExact ==
    ASSUME WelfordInv
    PROVE  WelfordTypeOK /\ WelfordExact
  <1>1. ASSUME NEW s \in Stream
        PROVE  /\ welford[s] \in [count : 0 .. MaxCount, mean : Int, m2 : Nat]
               /\ samples[s] \in [Sample -> 0 .. MaxCount]
               /\ Size(samples[s]) = welford[s].count
               /\ Size(samples[s]) * fc_welford_mean(welford[s]) = WScale * Total(samples[s])
               /\ Size(samples[s]) > 0 => Size(samples[s]) * Size(samples[s]) * welford[s].m2
                                             = WScale * SumFunction(SecondPowers(samples[s]))
    <2>1. Describes(welford[s], samples[s])
      BY DEF WelfordInv
    <2> QED
      BY ONLY <2>1, FiguresTell
  <1>2. WelfordTypeOK
    BY <1>1 DEF WelfordTypeOK, WelfordInv
  <1>3. ASSUME NEW s \in Stream, NEW n, n = Size(samples[s]), NEW v, v = fc_welford_variance(welford[s], TRUE),
               NEW p, p = fc_welford_variance(welford[s], FALSE)
        PROVE  /\ n = welford[s].count
               /\ n * fc_welford_mean(welford[s]) = WScale * Total(samples[s])
               /\ n > 0 => n * n * n * p[1] = WScale * Central(samples[s], Squared) * p[2]
               /\ n > 1 => n * n * (n - 1) * v[1] = WScale * Central(samples[s], Squared) * v[2]
    <2>1. PICK C : C = SumFunction(SecondPowers(samples[s]))
      OBVIOUS
    <2>2. samples[s] \in [Sample -> Nat] /\ n \in Nat /\ welford[s].count \in Nat /\ welford[s].m2 \in Nat
      BY <1>1, <1>3, SamplesAre
    <2>3. C \in Nat
      BY <2>1, <2>2, SecondMomentIs
    <2>4. PICK m2 \in Nat : m2 = welford[s].m2
      BY <2>2
    <2>5. PICK W \in Nat : W = WScale
      BY SamplesAre
    <2>6. n = welford[s].count /\ (n > 0 => (n * n) * m2 = W * C)
      BY <1>1, <1>3, <2>1, <2>4, <2>5
    <2>7. n > 0 => p = <<m2, n>>
      BY <1>3, <2>2, <2>4, <2>6 DEF fc_welford_variance
    <2>8. n > 1 => v = <<m2, n - 1>>
      BY <1>3, <2>2, <2>4, <2>6 DEF fc_welford_variance
    <2>9. /\ ((n * n) * n) * m2 = n * ((n * n) * m2) /\ n * (W * C) = (W * C) * n
          /\ ((n * n) * (n - 1)) * m2 = (n - 1) * ((n * n) * m2) /\ (n - 1) * (W * C) = (W * C) * (n - 1)
      BY <2>2, <2>3
    <2>10. n > 0 => ((n * n) * n) * p[1] = (W * C) * p[2]
      BY <2>6, <2>7, <2>9
    <2>11. n > 1 => ((n * n) * (n - 1)) * v[1] = (W * C) * v[2]
      BY <2>2, <2>6, <2>8, <2>9
    <2>12. Central(samples[s], Squared) = C
      BY <2>1, SecondMoment
    <2>13. n * fc_welford_mean(welford[s]) = WScale * Total(samples[s])
      BY <1>1, <1>3
    <2> QED
      BY <2>5, <2>6, <2>10, <2>11, <2>12, <2>13
  <1>4. WelfordExact
    BY <1>3 DEF WelfordExact
  <1> QED
    BY <1>2, <1>4

LEMMA ZeroSum ==
    ASSUME NEW f, f = [x \in Sample |-> 0]
    PROVE  SumFunction(f) = 0
  <1>1. f = NoSamples
    BY DEF NoSamples
  <1>2. Size(NoSamples) = 0
    BY InitDescribes DEF Describes, Figures, fc_welford_init
  <1> QED
    BY <1>1, <1>2 DEF Size

\* There is some distance exactly when there are two values.
LEMMA SpreadIs ==
    ASSUME NEW d \in [Sample -> Nat]
    PROVE  SumFunction(SecondPowers(d)) # 0 <=> Cardinality({x \in Sample : d[x] > 0}) > 1
  <1> DEFINE P == {x \in Sample : d[x] > 0}
  <1>1. IsFiniteSet(P) /\ Cardinality(P) \in Nat
    BY SampleFinite, FS_Subset, FS_CardinalityType
  <1>2. PICK n \in Nat : n = Size(d)
    BY CountSums
  <1>3. PICK T \in Int : T = Total(d)
    BY CountSums
  <1>4. \A x \in Sample : d[x] \in Nat /\ x \in Int /\ d[x] <= n
    BY <1>2, CountSums, SamplesAre
  <1>5. \A x \in Sample : SecondPowers(d)[x] = d[x] * ((n * x - T) * (n * x - T))
    BY <1>2, <1>3 DEF SecondPowers, Distance
  <1>6. CASE Cardinality(P) > 1
    <2>1. PICK y \in P : TRUE
      <3>1. P # {}
        BY <1>6, FS_EmptySet
      <3> QED
        BY <3>1
    <2>2. PICK z \in P : z # y
      <3>1. P # {y}
        <4>1. Cardinality({y}) = 1
          BY FS_Singleton
        <4> SUFFICES ASSUME P = {y} PROVE FALSE
          OBVIOUS
        <4>2. Cardinality(P) = 1
          BY <4>1
        <4> QED
          BY <1>6, <4>2
      <3> QED
        BY <2>1, <3>1
    <2>3. n > 0 /\ y \in Int /\ z \in Int /\ y \in Sample /\ z \in Sample
      BY <1>4, <2>1, <2>2
    <2>4. n * y - T # 0 \/ n * z - T # 0
      <3>1. n * y = n * z => y = z
        BY <2>3, Cancel
      <3>2. PICK a \in Int, b \in Int : a = n * y /\ b = n * z
        BY <2>3
      <3> QED
        BY <2>2, <3>1, <3>2
    <2>5. PICK x \in P : n * x - T # 0
      BY <2>1, <2>2, <2>4
    <2>6. SecondPowers(d)[x] > 0
      <3>1. PICK u \in Int : u = n * x - T
        BY <1>4, <2>5
      <3>2. PICK c \in Nat : c = d[x]
        BY <1>4, <2>5
      <3>3. u # 0 /\ c > 0
        BY <2>5, <3>1, <3>2
      <3>4. u * u > 0
        BY <3>3
      <3>5. PICK v \in Int : v = u * u
        OBVIOUS
      <3>6. c * v > 0
        BY <3>3, <3>4, <3>5
      <3> QED
        BY <1>5, <2>5, <3>1, <3>2, <3>5, <3>6
    <2>7. PICK h : h = SecondPowers(d)
      OBVIOUS
    <2>8. h \in [Sample -> Nat]
      BY <2>7, SecondMomentIs
    <2>9. SumFunction(h) \in Nat /\ \A k \in Sample : h[k] <= SumFunction(h)
      BY ONLY <2>8, SampleFinite, SumBounds
    <2>10. h[x] \in Nat /\ h[x] <= SumFunction(h) /\ h[x] > 0
      BY <2>5, <2>6, <2>7, <2>8, <2>9
    <2> QED
      BY <1>6, <2>7, <2>9, <2>10
  <1>7. CASE ~ (Cardinality(P) > 1)
    <2>1. ASSUME NEW y \in P PROVE n * y - T = 0
      <3>1. P = {y}
        <4>1. ASSUME NEW z \in P, z # y PROVE FALSE
          <5>1. Cardinality({y, z}) = 2
            <6>1. Cardinality({y}) = 1 /\ IsFiniteSet({y})
              BY FS_Singleton
            <6>2. {y, z} = {y} \cup {z} /\ z \notin {y}
              BY <4>1
            <6>3. Cardinality({y} \cup {z}) = Cardinality({y}) + 1
              BY <6>1, <6>2, FS_AddElement
            <6> QED
              BY <6>1, <6>2, <6>3
          <5>2. {y, z} \subseteq P
            BY <2>1, <4>1
          <5>3. Cardinality({y, z}) <= Cardinality(P)
            BY <1>1, <5>2, FS_Subset
          <5> QED
            BY <1>1, <1>7, <5>1, <5>3
        <4> QED
          BY <2>1, <4>1
      <3>2. \A x \in Sample : x # y => d[x] = 0
        BY <1>4, <3>1
      <3>3. PICK c \in Nat : c = d[y]
        BY <1>4
      <3>4. PICK w \in Int : w = y
        BY <1>4
      <3>5. PICK zero : zero = [x \in Sample |-> 0]
        OBVIOUS
      <3>6. zero \in [Sample -> Int] /\ SumFunction(zero) = 0 /\ \A x \in Sample : zero[x] = 0
        BY <3>5, ZeroSum
      <3>7. n = c
        <4>1. d \in [Sample -> Int] /\ y \in Sample /\ c \in Int
          OBVIOUS
        <4>2. Raised(d, zero, y, c)
          BY <3>2, <3>3, <3>6 DEF Raised
        <4>3. SumFunction(d) = SumFunction(zero) + c
          BY ONLY <3>6, <4>1, <4>2, SampleFinite, SumPut
        <4> QED
          BY <1>2, <3>6, <4>3 DEF Size
      <3>8. T = c * w
        <4>1. PICK f : f = [x \in Sample |-> d[x] * x]
          OBVIOUS
        <4>2. PICK v \in Int : v = c * w
          OBVIOUS
        <4>3. \A x \in Sample : d[x] * x \in Int
          <5>1. ASSUME NEW x \in Sample PROVE d[x] * x \in Int
            <6>1. d[x] \in Int /\ x \in Int
              BY <1>4
            <6> QED
              BY <6>1
          <5> QED
            BY <5>1
        <4>4. f \in [Sample -> Int] /\ y \in Sample
          BY <4>1, <4>3
        <4>5. \A x \in Sample : x # y => d[x] * x = 0
          <5>1. ASSUME NEW x \in Sample, x # y PROVE d[x] * x = 0
            <6>1. d[x] = 0 /\ x \in Int
              BY <1>4, <3>2, <5>1
            <6> QED
              BY <6>1
          <5> QED
            BY <5>1
        <4>6. Raised(f, zero, y, v)
          BY <3>3, <3>4, <3>6, <4>1, <4>2, <4>5 DEF Raised
        <4>7. SumFunction(f) = SumFunction(zero) + v
          BY ONLY <3>6, <4>2, <4>4, <4>6, SampleFinite, SumPut
        <4> QED
          BY <1>3, <3>6, <4>1, <4>2, <4>7 DEF Total
      <3> QED
        BY <3>4, <3>7, <3>8
    <2>2. \A x \in Sample : SecondPowers(d)[x] = 0
      <3>1. ASSUME NEW x \in Sample PROVE SecondPowers(d)[x] = 0
        <4>1. CASE x \in P
          <5>1. n * x - T = 0 /\ d[x] \in Int
            BY <1>4, <2>1, <4>1
          <5> QED
            BY <1>5, <5>1
        <4>2. CASE x \notin P
          <5>1. d[x] = 0
            BY <1>4, <4>2
          <5>2. PICK v \in Int : v = (n * x - T) * (n * x - T)
            <6>1. x \in Int
              BY <1>4
            <6> QED
              BY <6>1
          <5> QED
            BY <1>5, <5>1, <5>2
        <4> QED
          BY <4>1, <4>2
      <3> QED
        BY <3>1
    <2>3. SecondPowers(d) = [x \in Sample |-> 0]
      BY <2>2 DEF SecondPowers
    <2> QED
      BY <1>7, <2>3, ZeroSum
  <1> QED
    BY <1>6, <1>7

\* Whatever the updates, batches, merges and resets are, the mean and the variances of a
\* stream are those of the values in it.
THEOREM StreamsAreExact == WelfordSpec => [](WelfordTypeOK /\ WelfordExact)
  <1>1. WelfordInv => WelfordTypeOK /\ WelfordExact
    BY InvGivesExact
  <1> QED
    BY <1>1, WelfordInvariance, PTL

----------------------------------------------------------------------------
(* The moments.                                                             *)

\* The products of the numbers of occurrences with the powers of y.
Firsts(d, y)  == [x \in Sample |-> d[x] * y[x]]
Seconds(d, y) == [x \in Sample |-> d[x] * (y[x] * y[x])]
Thirds(d, y)  == [x \in Sample |-> d[x] * (y[x] * y[x] * y[x])]
Fourths(d, y) == [x \in Sample |-> d[x] * (y[x] * y[x] * y[x] * y[x])]

LEMMA PowersType ==
    ASSUME NEW d \in [Sample -> Nat], NEW y \in [Sample -> Int]
    PROVE  /\ Firsts(d, y) \in [Sample -> Int] /\ Seconds(d, y) \in [Sample -> Nat]
           /\ Seconds(d, y) \in [Sample -> Int] /\ Thirds(d, y) \in [Sample -> Int]
           /\ Fourths(d, y) \in [Sample -> Nat] /\ Fourths(d, y) \in [Sample -> Int]
           /\ d \in [Sample -> Int]
  <1>1. ASSUME NEW x \in Sample
        PROVE  /\ d[x] * y[x] \in Int /\ d[x] * (y[x] * y[x]) \in Nat /\ d[x] * (y[x] * y[x] * y[x]) \in Int
               /\ d[x] * (y[x] * y[x] * y[x] * y[x]) \in Nat
    <2>1. PICK c \in Nat : c = d[x]
      OBVIOUS
    <2>2. PICK z \in Int : z = y[x]
      OBVIOUS
    <2>3. PICK s \in Nat : s = z * z
      OBVIOUS
    <2>4. PICK f \in Nat : f = s * s
      OBVIOUS
    <2>5. z * z * z * z = f
      BY <2>3, <2>4
    <2>6. c * z \in Int /\ c * s \in Nat /\ c * (z * z * z) \in Int /\ c * f \in Nat
      OBVIOUS
    <2> QED
      BY <2>1, <2>2, <2>3, <2>5, <2>6
  <1>2. Nat \subseteq Int
    OBVIOUS
  <1>3. Firsts(d, y) \in [Sample -> Int] /\ Thirds(d, y) \in [Sample -> Int]
    BY <1>1 DEF Firsts, Thirds
  <1>4. Seconds(d, y) \in [Sample -> Nat] /\ Fourths(d, y) \in [Sample -> Nat]
    BY <1>1 DEF Seconds, Fourths
  <1> QED
    BY <1>2, <1>3, <1>4

LEMMA SumsType ==
    ASSUME NEW d \in [Sample -> Nat], NEW y \in [Sample -> Int]
    PROVE  /\ SumFunction(Firsts(d, y)) \in Int /\ SumFunction(Seconds(d, y)) \in Nat
           /\ SumFunction(Thirds(d, y)) \in Int /\ SumFunction(Fourths(d, y)) \in Nat
  <1>1. SumFunction(Firsts(d, y)) \in Int /\ SumFunction(Thirds(d, y)) \in Int
    BY PowersType, SampleFinite, SumType
  <1>2. SumFunction(Seconds(d, y)) \in Nat /\ SumFunction(Fourths(d, y)) \in Nat
    BY PowersType, SampleFinite, SumBounds
  <1> QED
    BY <1>1, <1>2

Polynomial(q4, q3, q2, q1, q0, p4, p3, p2, p1, p0) ==
    AddThree(1, AddThree(q4, p4, q3, p3, q2, p2), q1, p1, q0, p0)

\* The products of the numbers of occurrences with a polynomial of y.
Polynomials(h, d, y, q4, q3, q2, q1, q0) ==
    \A x \in Sample : h[x] = d[x] * Polynomial(q4, q3, q2, q1, q0, y[x] * y[x] * y[x] * y[x],
                                              y[x] * y[x] * y[x], y[x] * y[x], y[x], 1)

LEMMA SumPolynomials ==
    ASSUME NEW d \in [Sample -> Nat], NEW y \in [Sample -> Int], NEW h \in [Sample -> Int],
           NEW q4 \in Int, NEW q3 \in Int, NEW q2 \in Int, NEW q1 \in Int, NEW q0 \in Int,
           Polynomials(h, d, y, q4, q3, q2, q1, q0)
    PROVE  SumFunction(h) = Polynomial(q4, q3, q2, q1, q0, SumFunction(Fourths(d, y)), SumFunction(Thirds(d, y)),
                                       SumFunction(Seconds(d, y)), SumFunction(Firsts(d, y)), Size(d))
  <1>1. PICK e1 \in [Sample -> Int], e2 \in [Sample -> Int] : e1 = Firsts(d, y) /\ e2 = Seconds(d, y)
    BY PowersType
  <1>2. PICK e3 \in [Sample -> Int], e4 \in [Sample -> Int] : e3 = Thirds(d, y) /\ e4 = Fourths(d, y)
    BY PowersType
  <1>3. PICK c \in [Sample -> Int] : c = d
    OBVIOUS
  <1>4. \A x \in Sample : /\ e1[x] = c[x] * y[x] /\ e2[x] = c[x] * (y[x] * y[x])
                          /\ e3[x] = c[x] * (y[x] * y[x] * y[x]) /\ e4[x] = c[x] * (y[x] * y[x] * y[x] * y[x])
    BY <1>1, <1>2, <1>3 DEF Firsts, Seconds, Thirds, Fourths
  <1> DEFINE g == [x \in Sample |-> AddThree(q4, e4[x], q3, e3[x], q2, e2[x])]
  <1>5. g \in [Sample -> Int] /\ \A x \in Sample : g[x] = AddThree(q4, e4[x], q3, e3[x], q2, e2[x])
    <2>1. \A x \in Sample : AddThree(q4, e4[x], q3, e3[x], q2, e2[x]) \in Int
      BY DEF AddThree, Combined
    <2> QED
      BY <2>1
  <1> HIDE DEF g
  <1>6. PICK one \in Int : one = 1
    OBVIOUS
  <1>7. SumFunction(g) = AddThree(q4, SumFunction(e4), q3, SumFunction(e3), q2, SumFunction(e2))
    <2>1. CombinesThree(g, q4, e4, q3, e3, q2, e2)
      BY <1>5 DEF CombinesThree
    <2> QED
      BY <1>5, <2>1, SampleFinite, SumThree
  <1>8. CombinesThree(h, one, g, q1, e1, q0, c)
    <2>1. ASSUME NEW x \in Sample
          PROVE  h[x] = AddThree(1, AddThree(q4, e4[x], q3, e3[x], q2, e2[x]), q1, e1[x], q0, c[x])
      <3>1. PICK u \in Int : u = c[x]
        OBVIOUS
      <3>2. PICK z \in Int : z = y[x]
        OBVIOUS
      <3>3. h[x] = u * Polynomial(q4, q3, q2, q1, q0, z * z * z * z, z * z * z, z * z, z, 1)
        BY <1>3, <3>1, <3>2 DEF Polynomials
      <3>4. e4[x] = u * (z * z * z * z) /\ e3[x] = u * (z * z * z) /\ e2[x] = u * (z * z) /\ e1[x] = u * z
        BY <1>4, <3>1, <3>2
      <3>5. u * Polynomial(q4, q3, q2, q1, q0, z * z * z * z, z * z * z, z * z, z, 1)
                = AddThree(1, AddThree(q4, u * (z * z * z * z), q3, u * (z * z * z), q2, u * (z * z)), q1, u * z, q0, u)
        BY DEF Polynomial, AddThree, Combined
      <3> QED
        BY <3>1, <3>3, <3>4, <3>5
    <2> QED
      BY <1>5, <1>6, <2>1 DEF CombinesThree
  <1>9. SumFunction(h) = AddThree(one, SumFunction(g), q1, SumFunction(e1), q0, SumFunction(c))
    BY <1>5, <1>8, SampleFinite, SumThree
  <1> QED
    BY <1>1, <1>2, <1>3, <1>6, <1>7, <1>9 DEF Polynomial, Size

\* When the distances cancel, n * m4 * m2 >= n * m3 * m3 + m2 * m2 * m2: the squares of a
\* polynomial add up to what is not negative.
LEMMA MomentsBound ==
    ASSUME NEW d \in [Sample -> Nat], NEW y \in [Sample -> Int], SumFunction(Firsts(d, y)) = 0,
           NEW n \in Nat \ {0}, n = Size(d),
           NEW m2 \in Nat \ {0}, m2 = SumFunction(Seconds(d, y)),
           NEW m3 \in Int, m3 = SumFunction(Thirds(d, y)), NEW m4 \in Int, m4 = SumFunction(Fourths(d, y))
    PROVE  n * (m2 * m4) - n * (m3 * m3) - m2 * (m2 * m2) \in Nat
  <1>4. PICK p \in Int, a \in Int, b \in Int : p = n * m2 /\ a = n * m3 /\ b = m2 * m2
    OBVIOUS
  <1>5. PICK q1 \in Int, q2 \in Int, q3 \in Int : q1 = p * p /\ q2 = -(2 * (p * a)) /\ q3 = a * a - 2 * (p * b)
    OBVIOUS
  <1>6. PICK q4 \in Int, q5 \in Int : q4 = 2 * (a * b) /\ q5 = b * b
    OBVIOUS
  <1> DEFINE h == [x \in Sample |-> d[x] * ((p * (y[x] * y[x]) - a * y[x] - b) * (p * (y[x] * y[x]) - a * y[x] - b))]
  <1>7. h \in [Sample -> Nat]
    <2>1. ASSUME NEW x \in Sample
          PROVE  d[x] * ((p * (y[x] * y[x]) - a * y[x] - b) * (p * (y[x] * y[x]) - a * y[x] - b)) \in Nat
      <3>1. PICK z \in Int : z = p * (y[x] * y[x]) - a * y[x] - b
        <4>1. PICK u \in Int : u = y[x]
          OBVIOUS
        <4>2. p * (u * u) - a * u - b \in Int
          OBVIOUS
        <4> QED
          BY <4>1, <4>2
      <3>2. PICK w \in Nat : w = z * z
        OBVIOUS
      <3>3. PICK c \in Nat : c = d[x]
        OBVIOUS
      <3>4. c * w \in Nat
        OBVIOUS
      <3> QED
        BY <3>1, <3>2, <3>3, <3>4
    <2> QED
      BY <2>1
  <1>8. Polynomials(h, d, y, q1, q2, q3, q4, q5)
    <2>1. ASSUME NEW x \in Sample
          PROVE  h[x] = d[x] * Polynomial(q1, q2, q3, q4, q5, y[x] * y[x] * y[x] * y[x],
                                          y[x] * y[x] * y[x], y[x] * y[x], y[x], 1)
      <3>1. PICK z \in Int : z = y[x]
        OBVIOUS
      <3>2. h[x] = d[x] * ((p * (z * z) - a * z - b) * (p * (z * z) - a * z - b))
        BY <3>1
      <3>3. (p * (z * z) - a * z - b) * (p * (z * z) - a * z - b)
                = Polynomial(q1, q2, q3, q4, q5, z * z * z * z, z * z * z, z * z, z, 1)
        BY <1>5, <1>6 DEF Polynomial, AddThree, Combined
      <3> QED
        BY <3>1, <3>2, <3>3
    <2> HIDE DEF h
    <2> QED
      BY <2>1 DEF Polynomials
  <1> HIDE DEF h
  <1>10. SumFunction(h) = Polynomial(q1, q2, q3, q4, q5, m4, m3, m2, 0, n)
    <2>1. PICK f \in [Sample -> Int] : f = h
      BY <1>7
    <2>2. SumFunction(f) = Polynomial(q1, q2, q3, q4, q5, SumFunction(Fourths(d, y)), SumFunction(Thirds(d, y)),
                                      SumFunction(Seconds(d, y)), SumFunction(Firsts(d, y)), Size(d))
      BY <1>8, <2>1, SumPolynomials
    <2> QED
      BY <2>1, <2>2
  <1>11. SumFunction(h) \in Nat
    BY ONLY <1>7, SampleFinite, SumBounds
  <1>12. PICK X \in Int : X = n * (m2 * m4) - n * (m3 * m3) - m2 * (m2 * m2)
    OBVIOUS
  <1>13. Polynomial(q1, q2, q3, q4, q5, m4, m3, m2, 0, n) = (n * m2) * X
    <2>1. Polynomial((n * m2) * (n * m2), -(2 * ((n * m2) * (n * m3))),
                     (n * m3) * (n * m3) - 2 * ((n * m2) * (m2 * m2)), 2 * ((n * m3) * (m2 * m2)),
                     (m2 * m2) * (m2 * m2), m4, m3, m2, 0, n)
            = (n * m2) * (n * (m2 * m4) - n * (m3 * m3) - m2 * (m2 * m2))
      BY DEF Polynomial, AddThree, Combined
    <2> QED
      BY <1>4, <1>5, <1>6, <1>12, <2>1
  <1>14. PICK k \in Nat \ {0} : k = n * m2
    OBVIOUS
  <1>15. k * X \in Nat
    BY <1>10, <1>11, <1>13, <1>14
  <1>16. X \in Nat
    BY <1>15, NotNegative
  <1> QED
    BY <1>12, <1>16

\* The distances of the values from a mean.
From(mean) == [x \in Sample |-> MScale * x - mean]

LEMMA FromType ==
    ASSUME NEW mean \in Int
    PROVE  From(mean) \in [Sample -> Int] /\ \A x \in Sample : From(mean)[x] = MScale * x - mean
  <1>1. MScale \in Int /\ \A x \in Sample : x \in Int
    BY SamplesAre, MomentsAssumption
  <1>2. \A x \in Sample : MScale * x - mean \in Int
    BY <1>1
  <1> QED
    BY <1>2 DEF From

LEMMA AboutIs ==
    ASSUME NEW mean \in Int, NEW d
    PROVE  /\ About(d, mean, Squared) = SumFunction(Seconds(d, From(mean)))
           /\ About(d, mean, Cubed) = SumFunction(Thirds(d, From(mean)))
           /\ About(d, mean, ToTheFourth) = SumFunction(Fourths(d, From(mean)))
  <1>1. PICK y : y = From(mean) /\ \A x \in Sample : y[x] = MScale * x - mean
    BY FromType
  <1>2. /\ Seconds(d, y) = [x \in Sample |-> d[x] * ((MScale * x - mean) * (MScale * x - mean))]
        /\ Thirds(d, y) = [x \in Sample |-> d[x] * ((MScale * x - mean) * (MScale * x - mean) * (MScale * x - mean))]
        /\ Fourths(d, y) = [x \in Sample |-> d[x] * ((MScale * x - mean) * (MScale * x - mean)
                                                        * (MScale * x - mean) * (MScale * x - mean))]
    BY <1>1 DEF Seconds, Thirds, Fourths
  <1> QED
    BY <1>1, <1>2 DEF About, Squared, Cubed, ToTheFourth

\* A state has the moments of the values that d counts.
HasMoments(state, d) ==
    /\ state \in [n : Nat, mean : Int, m2 : Int, m3 : Int, m4 : Int]
    /\ d \in [Sample -> Nat] /\ Size(d) <= MaxMoments
    /\ state.n = Size(d) /\ state.n * state.mean = MScale * Total(d)
    /\ state.n = 0 => state.mean = 0
    /\ state.m2 = SumFunction(Seconds(d, From(state.mean)))
    /\ state.m3 = SumFunction(Thirds(d, From(state.mean)))
    /\ state.m4 = SumFunction(Fourths(d, From(state.mean)))

\* The distances from the mean cancel.
LEMMA DistancesCancel ==
    ASSUME NEW d \in [Sample -> Nat], NEW mean \in Int, Size(d) * mean = MScale * Total(d)
    PROVE  SumFunction(Firsts(d, From(mean))) = 0
  <1>1. PICK n \in Int : n = Size(d)
    BY CountSums
  <1>2. PICK T \in Int : T = Total(d)
    BY CountSums
  <1>3. PICK M \in Int, m \in Int : M = MScale /\ m = -mean
    BY MomentsAssumption
  <1>4. PICK h \in [Sample -> Int] : h = Firsts(d, From(mean))
    BY FromType, PowersType
  <1>5. \A x \in Sample : d[x] \in Int /\ x \in Int
    BY SamplesAre
  <1> DEFINE f == [x \in Sample |-> d[x] * x]
  <1>6. f \in [Sample -> Int] /\ d \in [Sample -> Int]
    <2>1. \A x \in Sample : d[x] * x \in Int
      BY <1>5
    <2> QED
      BY <1>5, <2>1
  <1>7. Combines(h, M, f, m, d)
    <2>1. ASSUME NEW x \in Sample PROVE h[x] = Combined(M, d[x] * x, m, d[x])
      <3>1. PICK c \in Int : c = d[x]
        BY <1>5
      <3>2. PICK z \in Int : z = x
        BY <1>5
      <3>3. c * (M * z - mean) = Combined(M, c * z, m, c)
        BY <1>3 DEF Combined
      <3>4. h[x] = c * (M * z - mean)
        BY <1>3, <1>4, <3>1, <3>2, FromType DEF Firsts
      <3> QED
        BY <3>1, <3>2, <3>3, <3>4
    <2> QED
      BY <2>1 DEF Combines
  <1>8. SumFunction(f) = T /\ SumFunction(d) = n
    BY <1>1, <1>2 DEF Total, Size
  <1> HIDE DEF f
  <1>9. SumFunction(h) = Combined(M, SumFunction(f), m, SumFunction(d))
    BY ONLY <1>6, <1>7, SampleFinite, SumLinear, h \in [Sample -> Int], M \in Int, m \in Int
  <1>10. Combined(M, T, m, n) = 0
    BY <1>1, <1>2, <1>3 DEF Combined
  <1> QED
    BY <1>4, <1>8, <1>9, <1>10

\* The mean moves by a whole number.
MeanOf(mean, n, T) == n * mean = MScale * T /\ (n = 0 => mean = 0 /\ T = 0)
Moves(e, mean, n, v) == MScale * v - mean = (n + 1) * e

LEMMA MeanShift ==
    ASSUME NEW n \in Nat, n + 1 <= MaxMoments, NEW mean \in Int, NEW T \in Int, NEW v \in Int, MeanOf(mean, n, T)
    PROVE  \E e \in Int : Moves(e, mean, n, v) /\ MeanOf(mean + e, n + 1, T + v)
  <1>1. PICK M \in Nat \ {0} : M = MScale /\ n * mean = M * T /\ (n = 0 => mean = 0 /\ T = 0)
    BY MomentsAssumption DEF MeanOf
  <1>2. ASSUME NEW i \in 1 .. MaxMoments PROVE \E k \in Int : M = i * k
    <2>1. i \in Nat \ {0} /\ M % i = 0
      <3>1. MaxMoments \in Nat /\ \A m \in 1 .. MaxMoments : MScale % m = 0
        BY MomentsAssumption
      <3>2. MScale % i = 0
        BY <3>1
      <3> QED
        BY <1>1, <3>1, <3>2
    <2>2. M = i * (M \div i) + (M % i) /\ M \div i \in Int
      BY <2>1
    <2> QED
      BY <2>1, <2>2
  <1>3. PICK e \in Int : M * v - mean = (n + 1) * e
    <2>1. CASE n = 0
      <3>1. PICK e \in Int : e = M * v
        OBVIOUS
      <3>2. M * v - mean = (n + 1) * e
        BY <1>1, <2>1, <3>1
      <3> QED
        BY <3>2
    <2>2. CASE n # 0
      <3>1. n \in 1 .. MaxMoments /\ n + 1 \in 1 .. MaxMoments /\ n \in Nat \ {0}
        BY <2>2, MomentsAssumption
      <3>2. PICK j \in Int : M = n * j
        BY <1>2, <3>1
      <3>3. PICK k \in Int : M = (n + 1) * k
        BY <1>2, <3>1
      <3>4. mean = j * T
        <4>1. n * mean = n * (j * T)
          BY <1>1, <3>2
        <4>2. j * T \in Int
          OBVIOUS
        <4> QED
          BY <3>1, <4>1, <4>2, Cancel
      <3>5. j = (n + 1) * (j - k)
        BY <3>2, <3>3
      <3>6. PICK i \in Int : i = j - k
        OBVIOUS
      <3>7. PICK e \in Int : e = k * v - i * T
        OBVIOUS
      <3>8. ((n + 1) * k) * v - ((n + 1) * i) * T = (n + 1) * (k * v - i * T)
        OBVIOUS
      <3> QED
        BY <3>3, <3>4, <3>5, <3>6, <3>7, <3>8
    <2> QED
      BY <2>1, <2>2
  <1>4. (n + 1) * (mean + e) = M * (T + v)
    <2>1. (n + 1) * (mean + e) = n * mean + (mean + (n + 1) * e)
      OBVIOUS
    <2>2. M * (T + v) = M * T + M * v
      OBVIOUS
    <2> QED
      BY <1>1, <1>3, <2>1, <2>2
  <1>5. n + 1 # 0
    OBVIOUS
  <1> QED
    BY <1>1, <1>3, <1>4, <1>5 DEF MeanOf, Moves

\* Distances from another mean.
LEMMA OtherMean ==
    ASSUME NEW d \in [Sample -> Nat], NEW y \in [Sample -> Int], NEW z \in [Sample -> Int], NEW e \in Int,
           \A x \in Sample : z[x] = y[x] - e, SumFunction(Firsts(d, y)) = 0,
           NEW n \in Int, n = Size(d), NEW m2 \in Int, m2 = SumFunction(Seconds(d, y)),
           NEW m3 \in Int, m3 = SumFunction(Thirds(d, y)), NEW m4 \in Int, m4 = SumFunction(Fourths(d, y))
    PROVE  /\ SumFunction(Seconds(d, z)) = m2 + n * (e * e)
           /\ SumFunction(Thirds(d, z)) = m3 - 3 * e * m2 - n * (e * e * e)
           /\ SumFunction(Fourths(d, z)) = m4 + 6 * (e * e) * m2 - 4 * e * m3 + n * (e * e * e * e)
  <1>1. PICK s \in Int, c \in Int, q \in Int : s = e * e /\ c = e * e * e /\ q = e * e * e * e
    OBVIOUS
  <1>2. PICK f \in [Sample -> Int], g \in [Sample -> Int] : f = Seconds(d, z) /\ g = Thirds(d, z)
    BY PowersType
  <1>3. PICK h \in [Sample -> Int] : h = Fourths(d, z)
    BY PowersType
  <1>4. PICK a \in Int, b \in Int, k \in Int, m \in Int, i \in Int :
           a = -(2 * e) /\ b = -(3 * e) /\ k = 3 * s /\ m = -c /\ i = -(4 * e)
    OBVIOUS
  <1>5. PICK j \in Int, l \in Int, zero \in Int, one \in Int : j = 6 * s /\ l = -(4 * c) /\ zero = 0 /\ one = 1
    OBVIOUS
  <1>6. ASSUME NEW x \in Sample
        PROVE  \E u \in Int : u = y[x] /\ f[x] = d[x] * ((u - e) * (u - e))
                              /\ g[x] = d[x] * ((u - e) * (u - e) * (u - e))
                              /\ h[x] = d[x] * ((u - e) * (u - e) * (u - e) * (u - e))
    BY <1>2, <1>3 DEF Seconds, Thirds, Fourths
  <1>7. Polynomials(f, d, y, zero, zero, one, a, s)
    <2>1. ASSUME NEW x \in Sample
          PROVE  f[x] = d[x] * Polynomial(zero, zero, one, a, s, y[x] * y[x] * y[x] * y[x],
                                          y[x] * y[x] * y[x], y[x] * y[x], y[x], 1)
      <3>1. PICK u \in Int : u = y[x] /\ f[x] = d[x] * ((u - e) * (u - e))
        BY <1>6
      <3>2. (u - e) * (u - e) = Polynomial(0, 0, 1, -(2 * e), e * e, u * u * u * u, u * u * u, u * u, u, 1)
        BY DEF Polynomial, AddThree, Combined
      <3> QED
        BY <1>1, <1>4, <1>5, <3>1, <3>2
    <2> QED
      BY <2>1 DEF Polynomials
  <1>8. Polynomials(g, d, y, zero, one, b, k, m)
    <2>1. ASSUME NEW x \in Sample
          PROVE  g[x] = d[x] * Polynomial(zero, one, b, k, m, y[x] * y[x] * y[x] * y[x],
                                          y[x] * y[x] * y[x], y[x] * y[x], y[x], 1)
      <3>1. PICK u \in Int : u = y[x] /\ g[x] = d[x] * ((u - e) * (u - e) * (u - e))
        BY <1>6
      <3>2. (u - e) * (u - e) * (u - e)
              = Polynomial(0, 1, -(3 * e), 3 * (e * e), -(e * e * e), u * u * u * u, u * u * u, u * u, u, 1)
        BY DEF Polynomial, AddThree, Combined
      <3> QED
        BY <1>1, <1>4, <1>5, <3>1, <3>2
    <2> QED
      BY <2>1 DEF Polynomials
  <1>9. Polynomials(h, d, y, one, i, j, l, q)
    <2>1. ASSUME NEW x \in Sample
          PROVE  h[x] = d[x] * Polynomial(one, i, j, l, q, y[x] * y[x] * y[x] * y[x],
                                          y[x] * y[x] * y[x], y[x] * y[x], y[x], 1)
      <3>1. PICK u \in Int : u = y[x] /\ h[x] = d[x] * ((u - e) * (u - e) * (u - e) * (u - e))
        BY <1>6
      <3>2. (u - e) * (u - e) * (u - e) * (u - e)
              = Polynomial(1, -(4 * e), 6 * (e * e), -(4 * (e * e * e)), e * e * e * e,
                           u * u * u * u, u * u * u, u * u, u, 1)
        BY DEF Polynomial, AddThree, Combined
      <3> QED
        BY <1>1, <1>4, <1>5, <3>1, <3>2
    <2> QED
      BY <2>1 DEF Polynomials
  <1>10. SumFunction(f) = Polynomial(zero, zero, one, a, s, m4, m3, m2, 0, n)
    BY <1>7, SumPolynomials
  <1>11. SumFunction(g) = Polynomial(zero, one, b, k, m, m4, m3, m2, 0, n)
    BY <1>8, SumPolynomials
  <1>12. SumFunction(h) = Polynomial(one, i, j, l, q, m4, m3, m2, 0, n)
    BY <1>9, SumPolynomials
  <1>13. Polynomial(0, 0, 1, -(2 * e), s, m4, m3, m2, 0, n) = m2 + n * s
    BY DEF Polynomial, AddThree, Combined
  <1>14. Polynomial(0, 1, -(3 * e), 3 * s, -c, m4, m3, m2, 0, n) = m3 - 3 * e * m2 - n * c
    BY DEF Polynomial, AddThree, Combined
  <1>15. Polynomial(1, -(4 * e), 6 * s, -(4 * c), q, m4, m3, m2, 0, n) = m4 + 6 * s * m2 - 4 * e * m3 + n * q
    BY DEF Polynomial, AddThree, Combined
  <1> QED
    BY <1>1, <1>2, <1>3, <1>4, <1>5, <1>10, <1>11, <1>12, <1>13, <1>14, <1>15

\* One value more.
OneMoreOf(more, d, v) == more = [d EXCEPT ![v] = @ + 1]

LEMMA OneMorePower ==
    ASSUME NEW d \in [Sample -> Nat], NEW more \in [Sample -> Nat], NEW y \in [Sample -> Int], NEW v \in Sample,
           OneMoreOf(more, d, v), NEW u \in Int, u = y[v]
    PROVE  /\ SumFunction(Seconds(more, y)) = SumFunction(Seconds(d, y)) + u * u
           /\ SumFunction(Thirds(more, y)) = SumFunction(Thirds(d, y)) + u * u * u
           /\ SumFunction(Fourths(more, y)) = SumFunction(Fourths(d, y)) + u * u * u * u
  <1>1. more = [d EXCEPT ![v] = @ + 1]
    BY DEF OneMoreOf
  <1>2. more[v] = d[v] + 1 /\ \A x \in Sample \ {v} : more[x] = d[x]
    BY <1>1
  <1>3. PICK s \in Int, c \in Int, q \in Int : s = u * u /\ c = u * u * u /\ q = u * u * u * u
    OBVIOUS
  <1>4. PICK w \in Int : w = d[v]
    OBVIOUS
  <1>5. (w + 1) * s = w * s + s /\ (w + 1) * c = w * c + c /\ (w + 1) * q = w * q + q
    OBVIOUS
  <1>6. SumFunction(Seconds(more, y)) = SumFunction(Seconds(d, y)) + s
    <2>1. PICK f \in [Sample -> Int], g \in [Sample -> Int] : f = Seconds(d, y) /\ g = Seconds(more, y)
      BY PowersType
    <2>2. Raised(g, f, v, s)
      BY <1>2, <1>3, <1>4, <1>5, <2>1 DEF Raised, Seconds
    <2> QED
      BY <2>1, <2>2, SampleFinite, SumPut
  <1>7. SumFunction(Thirds(more, y)) = SumFunction(Thirds(d, y)) + c
    <2>1. PICK f \in [Sample -> Int], g \in [Sample -> Int] : f = Thirds(d, y) /\ g = Thirds(more, y)
      BY PowersType
    <2>2. Raised(g, f, v, c)
      BY <1>2, <1>3, <1>4, <1>5, <2>1 DEF Raised, Thirds
    <2> QED
      BY <2>1, <2>2, SampleFinite, SumPut
  <1>8. SumFunction(Fourths(more, y)) = SumFunction(Fourths(d, y)) + q
    <2>1. PICK f \in [Sample -> Int], g \in [Sample -> Int] : f = Fourths(d, y) /\ g = Fourths(more, y)
      BY PowersType
    <2>2. Raised(g, f, v, q)
      BY <1>2, <1>3, <1>4, <1>5, <2>1 DEF Raised, Fourths
    <2> QED
      BY <2>1, <2>2, SampleFinite, SumPut
  <1> QED
    BY <1>3, <1>6, <1>7, <1>8

LEMMA InitHas == HasMoments(fc_stats_moments_init, NoSamples)
  <1>1. NoSamples \in [Sample -> Nat] /\ Size(NoSamples) = 0 /\ Total(NoSamples) = 0
    <2>1. NoSamples \in [Sample -> Nat]
      BY DEF NoSamples
    <2>2. Size(NoSamples) = 0
      BY InitDescribes DEF Describes, Figures, fc_welford_init
    <2> QED
      BY <2>1, <2>2, CountSums
  <1>2. PICK zero \in Int : zero = 0
    OBVIOUS
  <1>3. PICK y \in [Sample -> Int] : y = From(zero)
    BY FromType
  <1>4. Seconds(NoSamples, y) = NoSamples /\ Thirds(NoSamples, y) = NoSamples /\ Fourths(NoSamples, y) = NoSamples
    <2>1. ASSUME NEW x \in Sample
          PROVE  /\ NoSamples[x] * (y[x] * y[x]) = 0 /\ NoSamples[x] * (y[x] * y[x] * y[x]) = 0
                 /\ NoSamples[x] * (y[x] * y[x] * y[x] * y[x]) = 0
      <3>1. NoSamples[x] = 0
        BY DEF NoSamples
      <3>2. PICK s \in Int, c \in Int, q \in Int :
               s = y[x] * y[x] /\ c = y[x] * y[x] * y[x] /\ q = y[x] * y[x] * y[x] * y[x]
        OBVIOUS
      <3> QED
        BY <3>1, <3>2
    <2> QED
      BY <2>1 DEF Seconds, Thirds, Fourths, NoSamples
  <1>5. SumFunction(NoSamples) = 0
    BY <1>1 DEF Size
  <1>6. MScale \in Int /\ MaxMoments \in Nat
    BY MomentsAssumption
  <1> QED
    BY <1>1, <1>2, <1>3, <1>4, <1>5, <1>6 DEF HasMoments, fc_stats_moments_init

\* What the corrections of an update add up to, if the mean moves by e.
LEMMA CorrectionsAre ==
    ASSUME NEW n \in Int, NEW e \in Int, NEW m2 \in Int, NEW m3 \in Int, NEW m4 \in Int, NEW u \in Int, u = n * e
    PROVE  /\ m2 + n * (e * e) + u * u = m2 + (n + 1) * n * (e * e)
           /\ m3 - 3 * e * m2 - n * (e * e * e) + u * u * u
                 = m3 + (n + 1) * n * ((n + 1) - 2) * (e * e * e) - 3 * e * m2
           /\ m4 + 6 * (e * e) * m2 - 4 * e * m3 + n * (e * e * e * e) + u * u * u * u
                 = m4 + (n + 1) * n * ((n + 1) * (n + 1) - 3 * (n + 1) + 3) * (e * e * e * e)
                      + 6 * (e * e) * m2 - 4 * e * m3
  OBVIOUS

LEMMA UpdateHas ==
    ASSUME NEW state, NEW d, HasMoments(state, d), Size(d) + 1 <= MaxMoments, NEW v \in Sample
    PROVE  HasMoments(fc_stats_moments_update(state, v), [d EXCEPT ![v] = @ + 1])
  <1>1. d \in [Sample -> Nat] /\ v \in Int
    BY SamplesAre DEF HasMoments
  <1>2. PICK n \in Nat, T \in Int : n = Size(d) /\ T = Total(d) /\ (n = 0 => T = 0)
    BY <1>1, CountSums
  <1>3. PICK M \in Nat \ {0} : M = MScale
    BY MomentsAssumption
  <1>4. PICK mean \in Int, m2 \in Int, m3 \in Int, m4 \in Int :
           state = [n |-> n, mean |-> mean, m2 |-> m2, m3 |-> m3, m4 |-> m4]
    <2>1. state = [n |-> state.n, mean |-> state.mean, m2 |-> state.m2, m3 |-> state.m3, m4 |-> state.m4]
      BY DEF HasMoments
    <2>2. state.n = n
      BY <1>2 DEF HasMoments
    <2>3. state.mean \in Int /\ state.m2 \in Int /\ state.m3 \in Int /\ state.m4 \in Int
      BY DEF HasMoments
    <2> QED
      BY <2>1, <2>2, <2>3
  <1>5. n * mean = M * T /\ (n = 0 => mean = 0)
    BY <1>2, <1>3, <1>4 DEF HasMoments
  <1>6. PICK y \in [Sample -> Int] : y = From(mean) /\ \A x \in Sample : y[x] = M * x - mean
    BY <1>3, FromType
  <1>7. m2 = SumFunction(Seconds(d, y)) /\ m3 = SumFunction(Thirds(d, y)) /\ m4 = SumFunction(Fourths(d, y))
    BY <1>4, <1>6 DEF HasMoments
  <1>8. PICK e \in Int : M * v - mean = (n + 1) * e /\ (n + 1) * (mean + e) = M * (T + v)
    <2>1. MeanOf(mean, n, T) /\ n + 1 <= MaxMoments
      BY <1>2, <1>3, <1>5 DEF MeanOf
    <2>2. PICK e \in Int : Moves(e, mean, n, v) /\ MeanOf(mean + e, n + 1, T + v)
      BY <1>1, <2>1, MeanShift
    <2> QED
      BY <1>3, <2>2 DEF MeanOf, Moves
  <1>9. PICK next \in Int : next = mean + e
    OBVIOUS
  <1>10. PICK z \in [Sample -> Int] : z = From(next) /\ \A x \in Sample : z[x] = M * x - next
    BY <1>3, FromType
  <1>11. \A x \in Sample : z[x] = y[x] - e
    <2>1. ASSUME NEW x \in Sample PROVE z[x] = y[x] - e
      <3>1. PICK w \in Int : w = M * x
        BY SamplesAre
      <3> QED
        BY <1>6, <1>9, <1>10, <3>1
    <2> QED
      BY <2>1
  <1>12. SumFunction(Firsts(d, y)) = 0
    BY <1>1, <1>2, <1>3, <1>5, <1>6, DistancesCancel
  <1>13. /\ SumFunction(Seconds(d, z)) = m2 + n * (e * e)
         /\ SumFunction(Thirds(d, z)) = m3 - 3 * e * m2 - n * (e * e * e)
         /\ SumFunction(Fourths(d, z)) = m4 + 6 * (e * e) * m2 - 4 * e * m3 + n * (e * e * e * e)
    BY <1>1, <1>2, <1>7, <1>11, <1>12, OtherMean
  <1>14. PICK u \in Int : u = z[v] /\ u = n * e
    <2>1. z[v] = (n + 1) * e - e
      BY <1>8, <1>9, <1>10, <1>1
    <2>2. (n + 1) * e - e = n * e
      OBVIOUS
    <2> QED
      BY <2>1, <2>2
  <1>15. PICK more \in [Sample -> Nat] : /\ more = [d EXCEPT ![v] = @ + 1]
                                        /\ Size(more) = n + 1 /\ Total(more) = T + v
    <2>1. PICK more : more = [d EXCEPT ![v] = @ + 1]
      OBVIOUS
    <2>2. more \in [Sample -> Nat] /\ Size(more) = Size(d) + 1 /\ Total(more) = Total(d) + v
      BY ONLY <1>1, <2>1, v \in Sample, OneMore
    <2> QED
      BY <1>2, <2>1, <2>2
  <1>16. /\ SumFunction(Seconds(more, z)) = SumFunction(Seconds(d, z)) + u * u
         /\ SumFunction(Thirds(more, z)) = SumFunction(Thirds(d, z)) + u * u * u
         /\ SumFunction(Fourths(more, z)) = SumFunction(Fourths(d, z)) + u * u * u * u
    <2>1. OneMoreOf(more, d, v)
      BY <1>15 DEF OneMoreOf
    <2> QED
      <3>1. d \in [Sample -> Nat] /\ u = z[v]
        BY <1>1, <1>14
      <3> QED
        BY ONLY <2>1, <3>1, OneMorePower, more \in [Sample -> Nat], z \in [Sample -> Int], v \in Sample, u \in Int
  <1>17. PICK a \in Int : a = m2 + (n + 1) * n * (e * e)
    OBVIOUS
  <1>18. PICK b \in Int : b = m3 + (n + 1) * n * ((n + 1) - 2) * (e * e * e) - 3 * e * m2
    OBVIOUS
  <1>19. PICK c \in Int : c = m4 + (n + 1) * n * ((n + 1) * (n + 1) - 3 * (n + 1) + 3) * (e * e * e * e)
                              + 6 * (e * e) * m2 - 4 * e * m3
    OBVIOUS
  <1>20. SumFunction(Seconds(more, z)) = a /\ SumFunction(Thirds(more, z)) = b /\ SumFunction(Fourths(more, z)) = c
    BY <1>13, <1>14, <1>16, <1>17, <1>18, <1>19, CorrectionsAre
  <1>21. fc_stats_moments_update(state, v) = [n |-> n + 1, mean |-> next, m2 |-> a, m3 |-> b, m4 |-> c]
    <2>1. (MScale * v - mean) \div (n + 1) = e
      <3>1. n + 1 \in Nat \ {0}
        OBVIOUS
      <3> QED
        BY <1>3, <1>8, <3>1, ExactQuotient
    <2>2. PICK s : s = fc_stats_moments_update(state, v)
      OBVIOUS
    <2>3. s = [n    |-> n + 1, mean |-> mean + e,
               m2   |-> m2 + (n + 1) * n * (e * e),
               m3   |-> m3 + (n + 1) * n * ((n + 1) - 2) * (e * e * e) - 3 * e * m2,
               m4   |-> m4 + (n + 1) * n * ((n + 1) * (n + 1) - 3 * (n + 1) + 3) * (e * e * e * e)
                           + 6 * (e * e) * m2 - 4 * e * m3]
      BY <1>4, <2>1, <2>2 DEF fc_stats_moments_update, Squared, Cubed, ToTheFourth
    <2> QED
      BY <1>9, <1>17, <1>18, <1>19, <2>2, <2>3
  <1>22. (n + 1) * next = MScale * (T + v) /\ n + 1 <= MaxMoments /\ n + 1 # 0
    BY <1>2, <1>3, <1>8, <1>9
  <1>23. HasMoments([n |-> n + 1, mean |-> next, m2 |-> a, m3 |-> b, m4 |-> c], more)
    BY <1>10, <1>15, <1>20, <1>22 DEF HasMoments
  <1> QED
    BY <1>15, <1>21, <1>23

\* A batch of any length.
LEMMA BatchHas ==
    ASSUME NEW state, NEW d, HasMoments(state, d), NEW n \in Nat, NEW values \in [1 .. n -> Sample],
           Size(d) + n <= MaxMoments
    PROVE  HasMoments(fc_stats_moments_update_batch(state, values), Counted(d, values))
  <1> DEFINE V == [n : Nat, mean : Int, m2 : Int, m3 : Int, m4 : Int]
             g == [p \in V \X (1 .. n) |-> fc_stats_moments_update(p[1], values[p[2]])]
             Updates(t) == t = [s \in SUBSET (1 .. n) |->
                                  IF s = {} THEN state ELSE fc_stats_moments_update(t[s \ {Max(s)}], values[Max(s)])]
             h == CHOOSE t : Updates(t)
             k == Counts(d, n, values)
  <1>1. \A v \in V, x \in Sample : fc_stats_moments_update(v, x) \in V
    <2>1. ASSUME NEW v \in V, NEW x \in Sample PROVE fc_stats_moments_update(v, x) \in V
      <3>1. PICK n1 \in Nat \ {0} : n1 = v.n + 1
        OBVIOUS
      <3>2. PICK e \in Int : e = (MScale * x - v.mean) \div n1
        <4>1. MScale * x - v.mean \in Int
          BY SamplesAre, MomentsAssumption
        <4> QED
          BY <4>1
      <3>3. PICK s \in Int, c \in Int, q \in Int : s = e * e /\ c = e * e * e /\ q = e * e * e * e
        OBVIOUS
      <3>4. PICK n0 \in Nat, m2 \in Int, m3 \in Int, m4 \in Int : n0 = v.n /\ m2 = v.m2 /\ m3 = v.m3 /\ m4 = v.m4
        OBVIOUS
      <3>5. /\ v.mean + e \in Int /\ m2 + n1 * n0 * s \in Int
            /\ m3 + n1 * n0 * (n1 - 2) * c - 3 * e * m2 \in Int
            /\ m4 + n1 * n0 * (n1 * n1 - 3 * n1 + 3) * q + 6 * s * m2 - 4 * e * m3 \in Int
        OBVIOUS
      <3>6. PICK w : w = fc_stats_moments_update(v, x)
        OBVIOUS
      <3>7. w = [n |-> n1, mean |-> v.mean + e, m2 |-> m2 + n1 * n0 * s,
                 m3 |-> m3 + n1 * n0 * (n1 - 2) * c - 3 * e * m2,
                 m4 |-> m4 + n1 * n0 * (n1 * n1 - 3 * n1 + 3) * q + 6 * s * m2 - 4 * e * m3]
        BY <3>1, <3>2, <3>3, <3>4, <3>6 DEF fc_stats_moments_update, Squared, Cubed, ToTheFourth
      <3> QED
        BY <3>5, <3>6, <3>7
    <2> QED
      BY <2>1
  <1>2. state \in V /\ d \in [Sample -> Nat]
    BY DEF HasMoments
  <1>3. g \in [V \X (1 .. n) -> V]
    <2> HIDE DEF V
    <2> QED
      BY <1>1
  <1> HIDE DEF V
  <1>4. \E t : Updates(t)
    <2>1. PICK t \in [SUBSET (1 .. n) -> V] : Tabulates(t, n, state, g)
      BY <1>2, <1>3, TableExists
    <2>2. \A s \in SUBSET (1 .. n) : s # {} => Max(s) \in s
      BY <1>2, <1>3, TableExists
    <2>3. ASSUME NEW s \in SUBSET (1 .. n), s # {}
          PROVE  g[<<t[s \ {Max(s)}], Max(s)>>] = fc_stats_moments_update(t[s \ {Max(s)}], values[Max(s)])
      <3>1. <<t[s \ {Max(s)}], Max(s)>> \in V \X (1 .. n)
        BY <2>2, <2>3
      <3> QED
        BY <3>1 DEF g
    <2>4. t = [s \in SUBSET (1 .. n) |-> t[s]]
      OBVIOUS
    <2>5. \A s \in SUBSET (1 .. n) :
             t[s] = IF s = {} THEN state ELSE fc_stats_moments_update(t[s \ {Max(s)}], values[Max(s)])
      BY <2>1, <2>3 DEF Tabulates
    <2> QED
      BY <2>4, <2>5
  <1>5. Updates(h)
    BY <1>4
  <1>6. fc_stats_moments_update_batch(state, values) = h[1 .. n]
    BY DEF fc_stats_moments_update_batch, FoldLeft, MapThenFoldSet
  <1> HIDE DEF h
  <1>7. /\ k[0] = d /\ k[n] = Counted(d, values)
        /\ \A i \in 0 .. n - 1 : k[i + 1] = [k[i] EXCEPT ![values[i + 1]] = @ + 1]
    <2>1. PICK c : c = Counts(d, n, values)
      OBVIOUS
    <2>2. n \in Nat /\ values \in [1 .. n -> Sample] /\ d \in [Sample -> Nat]
      BY <1>2
    <2>3. GrowBySteps(c, d, n, values)
      BY ONLY <2>1, <2>2, CountedSteps
    <2> QED
      BY <2>1, <2>3 DEF GrowBySteps
  <1> HIDE DEF k
  <1> DEFINE S == {i \in Nat : i <= n => HasMoments(h[1 .. i], k[i]) /\ Size(k[i]) = Size(d) + i}
  <1>8. 0 \in S
    <2>1. 1 .. 0 = {} /\ {} \in SUBSET (1 .. n)
      OBVIOUS
    <2>2. h[{}] = state
      BY <1>5, <2>1
    <2>3. Size(d) \in Nat
      BY <1>2, CountSums
    <2> QED
      BY <1>7, <2>1, <2>2, <2>3
  <1>9. ASSUME NEW i \in S PROVE i + 1 \in S
    <2> SUFFICES ASSUME i + 1 <= n
                 PROVE  HasMoments(h[1 .. i + 1], k[i + 1]) /\ Size(k[i + 1]) = Size(d) + (i + 1)
      OBVIOUS
    <2>1. i \in 0 .. n - 1 /\ HasMoments(h[1 .. i], k[i]) /\ Size(k[i]) = Size(d) + i
      OBVIOUS
    <2>2. /\ 1 .. i + 1 \in SUBSET (1 .. n) /\ 1 .. i + 1 # {}
          /\ Max(1 .. i + 1) = i + 1 /\ (1 .. i + 1) \ {i + 1} = 1 .. i
      BY <2>1, TableBySteps
    <2>3. \A s \in SUBSET (1 .. n) : s # {} => h[s] = fc_stats_moments_update(h[s \ {Max(s)}], values[Max(s)])
      BY <1>5
    <2>4. h[1 .. i + 1] = fc_stats_moments_update(h[1 .. i], values[i + 1])
      BY <2>2, <2>3
    <2>5. k[i + 1] = [k[i] EXCEPT ![values[i + 1]] = @ + 1]
      BY <1>7, <2>1
    <2>6. values[i + 1] \in Sample /\ k[i] \in [Sample -> Nat] /\ Size(d) \in Nat /\ MaxMoments \in Nat
      <3>1. i + 1 \in 1 .. n
        BY <2>1
      <3> QED
        BY <1>2, <2>1, <3>1, CountSums, MomentsAssumption DEF HasMoments
    <2>7. Size(k[i + 1]) = Size(k[i]) + 1
      BY <2>5, <2>6, OneMore
    <2>8. Size(k[i]) + 1 <= MaxMoments
      BY <2>1, <2>6
    <2>9. HasMoments(h[1 .. i + 1], k[i + 1])
      BY <2>1, <2>4, <2>5, <2>6, <2>8, UpdateHas
    <2> QED
      BY <2>1, <2>6, <2>7, <2>9
  <1>10. S = Nat
    <2>1. S \in SUBSET Nat
      OBVIOUS
    <2> HIDE DEF S
    <2> QED
      BY <1>8, <1>9, <2>1, BySteps
  <1>11. HasMoments(h[1 .. n], k[n])
    BY <1>10
  <1> QED
    BY <1>6, <1>7, <1>11

\* The state has the moments of the values in it.
MomentsInv == HasMoments(moments, observed)

\* Every update, batch and reset keeps it so.
THEOREM MomentsInvariance == MomentsSpec => []MomentsInv
  <1>1. MomentsInit => MomentsInv
    BY InitHas DEF MomentsInit, MomentsInv
  <1>2. MomentsInv /\ [MomentsNext]_momentsVars => MomentsInv'
    <2> SUFFICES ASSUME MomentsInv, [MomentsNext]_momentsVars PROVE MomentsInv'
      OBVIOUS
    <2>1. /\ HasMoments(moments, observed) /\ observed \in [Sample -> Nat] /\ moments.n = Size(observed)
          /\ moments.n \in Nat /\ MaxMoments \in Nat
      BY MomentsAssumption DEF MomentsInv, HasMoments
    <2>2. CASE TakeOne
      <3>1. PICK v \in Sample : /\ moments.n < MaxMoments
                                /\ moments' = fc_stats_moments_update(moments, v)
                                /\ observed' = Counted(observed, <<v>>)
        BY <2>2 DEF TakeOne
      <3>2. observed' = [observed EXCEPT ![v] = @ + 1]
        BY <2>1, <3>1, CountedOne
      <3>3. Size(observed) + 1 <= MaxMoments
        BY <2>1, <3>1
      <3>4. HasMoments(fc_stats_moments_update(moments, v), [observed EXCEPT ![v] = @ + 1])
        BY <2>1, <3>3, UpdateHas
      <3> QED
        BY <3>1, <3>2, <3>4 DEF MomentsInv
    <2>3. CASE TakeBatch
      <3>0. PICK n \in 0 .. MaxMoments - moments.n : \E values \in [1 .. n -> Sample] :
               /\ moments' = fc_stats_moments_update_batch(moments, values)
               /\ observed' = Counted(observed, values)
        BY <2>3 DEF TakeBatch
      <3>1. PICK values \in [1 .. n -> Sample] :
               /\ moments' = fc_stats_moments_update_batch(moments, values)
               /\ observed' = Counted(observed, values)
        BY <3>0
      <3>2. n \in Nat /\ Size(observed) + n <= MaxMoments
        BY <2>1, <3>0
      <3>3. HasMoments(fc_stats_moments_update_batch(moments, values), Counted(observed, values))
        BY <2>1, <3>1, <3>2, BatchHas
      <3> QED
        BY <3>1, <3>3 DEF MomentsInv
    <2>4. CASE BeginAgain
      BY <2>4, InitHas DEF BeginAgain, MomentsInv
    <2>5. CASE UNCHANGED momentsVars
      BY <2>5 DEF MomentsInv, momentsVars
    <2> QED
      BY <2>2, <2>3, <2>4, <2>5 DEF MomentsNext
  <1> QED
    BY <1>1, <1>2, PTL DEF MomentsSpec

\* There is some distance from the mean exactly when there are two values.
LEMMA MomentsSpread ==
    ASSUME NEW d \in [Sample -> Nat], NEW n \in Nat \ {0}, n = Size(d), NEW mean \in Int, n * mean = MScale * Total(d)
    PROVE  SumFunction(Seconds(d, From(mean))) # 0 <=> Cardinality({x \in Sample : d[x] > 0}) > 1
  <1>1. PICK T \in Int, M \in Nat \ {0} : T = Total(d) /\ M = MScale
    BY CountSums, MomentsAssumption
  <1>2. PICK f \in [Sample -> Int] : f = Seconds(d, From(mean))
    BY FromType, PowersType
  <1>3. PICK g \in [Sample -> Int] : g = SecondPowers(d)
    <2>1. SecondPowers(d) \in [Sample -> Nat]
      BY SecondMomentIs
    <2>2. SecondPowers(d) \in [Sample -> Int]
      BY <2>1
    <2> QED
      BY <2>2
  <1>4. PICK a \in Int, b \in Int, zero \in Int : a = n * n /\ b = M * M /\ zero = 0
    OBVIOUS
  <1> DEFINE h == [x \in Sample |-> a * f[x]]
  <1>5. h \in [Sample -> Int] /\ \A x \in Sample : h[x] = a * f[x]
    OBVIOUS
  <1> HIDE DEF h
  <1>6. \A x \in Sample : a * f[x] = b * g[x]
    <2>1. ASSUME NEW x \in Sample PROVE a * f[x] = b * g[x]
      <3>1. PICK w \in Int, c \in Int : w = x /\ c = d[x]
        BY SamplesAre
      <3>2. f[x] = c * ((M * w - mean) * (M * w - mean))
        BY <1>1, <1>2, <3>1, FromType DEF Seconds
      <3>3. g[x] = c * ((n * w - T) * (n * w - T))
        BY <1>1, <1>3, <3>1 DEF SecondPowers, Distance
      <3>4. n * (M * w - mean) = M * (n * w - T)
        <4>1. n * (M * w - mean) = M * (n * w) - n * mean /\ M * (n * w - T) = M * (n * w) - M * T
          OBVIOUS
        <4> QED
          BY <1>1, <4>1
      <3>5. PICK p \in Int, q \in Int : p = M * w - mean /\ q = n * w - T
        OBVIOUS
      <3>6. (n * n) * (c * (p * p)) = c * ((n * p) * (n * p)) /\ (M * M) * (c * (q * q)) = c * ((M * q) * (M * q))
        OBVIOUS
      <3> QED
        BY <1>4, <3>2, <3>3, <3>4, <3>5, <3>6
    <2> QED
      BY <2>1
  <1>7. SumFunction(h) = Combined(a, SumFunction(f), zero, SumFunction(f))
    <2>1. Combines(h, a, f, zero, f)
      BY <1>4, <1>5 DEF Combines, Combined
    <2> QED
      BY <1>5, <2>1, SampleFinite, SumLinear
  <1>8. SumFunction(h) = Combined(b, SumFunction(g), zero, SumFunction(g))
    <2>1. Combines(h, b, g, zero, g)
      BY <1>4, <1>5, <1>6 DEF Combines, Combined
    <2> QED
      BY <1>5, <2>1, SampleFinite, SumLinear
  <1>9. PICK s \in Int, t \in Int : s = SumFunction(f) /\ t = SumFunction(g)
    BY SampleFinite, SumType
  <1>10. (n * n) * s = (M * M) * t
    BY <1>4, <1>7, <1>8, <1>9 DEF Combined
  <1>11. s # 0 <=> t # 0
    <2>1. PICK p \in Nat \ {0}, q \in Nat \ {0} : p = n * n /\ q = M * M
      OBVIOUS
    <2>2. p * s = q * t
      BY <1>10, <2>1
    <2> QED
      BY <2>2
  <1> QED
    BY <1>2, <1>3, <1>9, <1>11, SpreadIs

LEMMA NotAFraction ==
    ASSUME NEW a \in Int, NEW b \in Int, NEW c \in Int
    PROVE  <<a, b>> # NaN /\ <<a, b, c>> # NaN
  BY WelfordAssumption, MomentsAssumption

LEMMA HasRatios ==
    ASSUME MomentsInv
    PROVE  MomentsTypeOK /\ RatiosConsistent
  <1>1. observed \in [Sample -> Nat] /\ Size(observed) <= MaxMoments
    BY DEF MomentsInv, HasMoments
  <1>2. PICK n \in Nat, T \in Int : n = Size(observed) /\ T = Total(observed)
    BY <1>1, CountSums
  <1>3. PICK mean \in Int : mean = moments.mean /\ n * mean = MScale * Total(observed)
    BY <1>2 DEF MomentsInv, HasMoments
  <1>4. PICK y \in [Sample -> Int] : y = From(mean)
    BY FromType
  <1>5. PICK m2 \in Nat, m4 \in Nat : m2 = SumFunction(Seconds(observed, y)) /\ m4 = SumFunction(Fourths(observed, y))
    BY <1>1, SumsType
  <1>6. PICK m3 \in Int : m3 = SumFunction(Thirds(observed, y))
    BY <1>1, SumsType
  <1>7. moments = [n |-> n, mean |-> mean, m2 |-> m2, m3 |-> m3, m4 |-> m4]
    <2>1. moments = [n |-> moments.n, mean |-> moments.mean, m2 |-> moments.m2, m3 |-> moments.m3,
                     m4 |-> moments.m4]
      BY DEF MomentsInv, HasMoments
    <2>2. moments.n = n /\ moments.m2 = m2 /\ moments.m3 = m3 /\ moments.m4 = m4
      BY <1>2, <1>3, <1>4, <1>5, <1>6 DEF MomentsInv, HasMoments
    <2> QED
      BY <1>3, <2>1, <2>2
  <1>8. MomentsTypeOK
    <2>1. \A x \in Sample : observed[x] \in 0 .. MaxMoments
      <3>1. \A x \in Sample : observed[x] <= n /\ observed[x] \in Nat
        BY <1>1, <1>2, CountSums
      <3> QED
        BY <1>1, <1>2, <3>1, MomentsAssumption
    <2>2. n \in 0 .. MaxMoments
      BY <1>1, <1>2, MomentsAssumption
    <2> QED
      BY <1>1, <1>7, <2>1, <2>2 DEF MomentsTypeOK
  <1>9. PICK spread \in BOOLEAN : spread <=> Cardinality({x \in Sample : observed[x] > 0}) > 1
    OBVIOUS
  <1>10. n # 0 => (m2 # 0 <=> spread)
    <2> SUFFICES ASSUME n # 0 PROVE m2 # 0 <=> spread
      OBVIOUS
    <2>1. n \in Nat \ {0}
      OBVIOUS
    <2>2. SumFunction(Seconds(observed, From(mean))) # 0 <=> Cardinality({x \in Sample : observed[x] > 0}) > 1
      BY ONLY <1>1, <1>2, <1>3, <2>1, mean \in Int, MomentsSpread
    <2> QED
      BY <1>4, <1>5, <1>9, <2>2
  <1>11. m2 # 0 /\ n # 0 => n * (m2 * m4) - n * (m3 * m3) - m2 * (m2 * m2) \in Nat
    <2> SUFFICES ASSUME m2 # 0, n # 0
                 PROVE  n * (m2 * m4) - n * (m3 * m3) - m2 * (m2 * m2) \in Nat
      OBVIOUS
    <2>1. n \in Nat \ {0} /\ m2 \in Nat \ {0} /\ m4 \in Int
      OBVIOUS
    <2>2. SumFunction(Firsts(observed, y)) = 0
      <3>1. Size(observed) * mean = MScale * Total(observed)
        BY <1>2, <1>3
      <3>2. SumFunction(Firsts(observed, From(mean))) = 0
        BY ONLY <1>1, <3>1, mean \in Int, DistancesCancel
      <3> QED
        BY <1>4, <3>2
    <2> QED
      BY ONLY <1>1, <1>2, <1>5, <1>6, <2>1, <2>2, y \in [Sample -> Int], m3 \in Int, MomentsBound
  <1> DEFINE skew2 == fc_stats_moments_skewness(moments)
             kurt == fc_stats_moments_kurtosis(moments)
             excess == fc_stats_moments_excess_kurtosis(moments)
  <1>12. CASE n < 3 \/ m2 = 0
    <2>1. skew2 = NaN /\ kurt = NaN /\ excess = NaN
      BY <1>7, <1>12 DEF fc_stats_moments_skewness, fc_stats_moments_kurtosis, fc_stats_moments_excess_kurtosis
    <2> HIDE DEF skew2, kurt, excess
    <2>2. moments.n = n /\ (~ (n >= 3) \/ ~ spread) /\ (~ (n >= 4) \/ ~ spread)
      BY <1>7, <1>10, <1>12
    <2>3. RatiosConsistent
      BY <1>9, <2>1, <2>2 DEF skew2, kurt, excess, RatiosConsistent
    <2> QED
      BY <1>8, <2>3
  <1>13. CASE n >= 3 /\ m2 # 0
    <2>1. n # 0 /\ ~ (n < 3)
      BY <1>13
    <2>2. n * (m2 * m4) - n * (m3 * m3) - m2 * (m2 * m2) \in Nat
      BY <1>11, <1>13, <2>1
    <2>3. n * m3 * m3 \in Int /\ n * m4 \in Int /\ m2 * m2 \in Int /\ m2 \in Int
      OBVIOUS
    <2>4. skew2 = <<n * m3 * m3, m2 * m2, m2>> /\ skew2 # NaN
      <3>1. skew2 = <<n * m3 * m3, m2 * m2, m2>>
        BY <1>7, <1>13, <2>1 DEF fc_stats_moments_skewness
      <3> QED
        BY <2>3, <3>1, NotAFraction
    <2>5. n >= 4 => kurt = <<n * m4, m2 * m2>> /\ kurt # NaN
      <3>1. n >= 4 => kurt = <<n * m4, m2 * m2>>
        BY <1>7, <1>13, <2>1 DEF fc_stats_moments_kurtosis
      <3> QED
        BY <2>3, <3>1, NotAFraction
    <2>6. n >= 4 => excess = <<n * m4 - 3 * (m2 * m2), m2 * m2>> /\ excess # NaN
      <3>1. n >= 4 => excess = <<n * m4 - 3 * (m2 * m2), m2 * m2>>
        BY <2>5 DEF fc_stats_moments_excess_kurtosis
      <3>2. n * m4 - 3 * (m2 * m2) \in Int
        OBVIOUS
      <3> QED
        BY <2>3, <3>1, <3>2, NotAFraction
    <2>7. ~ (n >= 4) => kurt = NaN /\ excess = NaN
      BY <1>7 DEF fc_stats_moments_kurtosis, fc_stats_moments_excess_kurtosis
    <2> HIDE DEF skew2, kurt, excess
    <2>8. n >= 4 => (excess[1] + 2 * excess[2]) * m2 >= skew2[1]
      <3>1. ((n * m4 - 3 * (m2 * m2)) + 2 * (m2 * m2)) * m2 - n * m3 * m3
               = n * (m2 * m4) - n * (m3 * m3) - m2 * (m2 * m2)
        OBVIOUS
      <3>2. PICK u \in Int : u = ((n * m4 - 3 * (m2 * m2)) + 2 * (m2 * m2)) * m2
        OBVIOUS
      <3>3. PICK v \in Int : v = n * m3 * m3
        BY <2>3
      <3>4. u >= v
        BY <2>2, <3>1, <3>2, <3>3
      <3> QED
        BY <2>4, <2>6, <3>2, <3>3, <3>4
    <2>9. moments.n = n /\ moments.m2 = m2 /\ n >= 3 /\ spread
      BY <1>7, <1>10, <1>13
    <2>10. RatiosConsistent
      BY <1>9, <2>4, <2>5, <2>6, <2>7, <2>8, <2>9 DEF skew2, kurt, excess, RatiosConsistent
    <2> QED
      BY <1>8, <2>10
  <1> QED
    BY <1>12, <1>13

LEMMA InvGivesMoments ==
    ASSUME MomentsInv
    PROVE  MomentsExact
  <1>1. MomentsOfValues
    <2>1. PICK mean \in Int : mean = moments.mean
      BY DEF MomentsInv, HasMoments
    <2> QED
      BY <2>1, AboutIs DEF MomentsInv, HasMoments, MomentsOfValues
  <1> QED
    BY <1>1, HasRatios DEF MomentsExact

\* Whatever the updates, batches and resets are, the mean and the three moments of the
\* state, each corrected by the lower ones, are those of the values, and so are skewness
\* and kurtosis.
THEOREM MomentsAreExact == MomentsSpec => []MomentsExact
  <1>1. MomentsInv => MomentsExact
    BY InvGivesMoments
  <1> QED
    BY <1>1, MomentsInvariance, PTL

----------------------------------------------------------------------------
(* The window.                                                              *)

\* How often each value is at the places lo .. hi.
CountsIn(values, lo, hi) == [x \in Sample |-> Cardinality({i \in lo .. hi : values[i] = x})]

LEMMA CountsInType ==
    ASSUME NEW values, NEW lo \in Int, NEW hi \in Int
    PROVE  CountsIn(values, lo, hi) \in [Sample -> Nat]
  <1>1. ASSUME NEW x \in Sample PROVE Cardinality({i \in lo .. hi : values[i] = x}) \in Nat
    <2>1. IsFiniteSet(lo .. hi)
      BY FS_Interval
    <2>2. {i \in lo .. hi : values[i] = x} \subseteq lo .. hi
      OBVIOUS
    <2> QED
      BY <2>1, <2>2, FS_Subset, FS_CardinalityType
  <1> QED
    BY <1>1 DEF CountsIn

\* The first and the last place of an interval count once.
LEMMA CountsInGrow ==
    ASSUME NEW values, NEW lo \in Int, NEW hi \in Int, NEW place \in Int, place \notin lo .. hi, values[place] \in Sample,
           NEW below \in Int, NEW above \in Int, below .. above = (lo .. hi) \cup {place}
    PROVE  CountsIn(values, below, above) = [CountsIn(values, lo, hi) EXCEPT ![values[place]] = @ + 1]
  <1> DEFINE at(x) == {i \in lo .. hi : values[i] = x}
             all(x) == {i \in below .. above : values[i] = x}
  <1>1. \A x \in Sample : IsFiniteSet(at(x)) /\ Cardinality(at(x)) \in Nat
    <2>1. IsFiniteSet(lo .. hi)
      BY FS_Interval
    <2>2. \A x \in Sample : at(x) \subseteq lo .. hi
      OBVIOUS
    <2> QED
      BY <2>1, <2>2, FS_Subset, FS_CardinalityType
  <1>2. ASSUME NEW x \in Sample
        PROVE  Cardinality(all(x)) = IF x = values[place] THEN Cardinality(at(x)) + 1 ELSE Cardinality(at(x))
    <2>1. CASE x = values[place]
      <3>1. all(x) = at(x) \cup {place} /\ place \notin at(x)
        BY <2>1
      <3>2. PICK S : S = at(x)
        OBVIOUS
      <3>3. Cardinality(S \cup {place}) = Cardinality(S) + 1
        <4>1. IsFiniteSet(S) /\ place \notin S
          BY <1>1, <3>1, <3>2
        <4> QED
          BY <4>1, FS_AddElement
      <3> QED
        BY <2>1, <3>1, <3>2, <3>3
    <2>2. CASE x # values[place]
      <3>1. all(x) = at(x)
        BY <2>2
      <3> HIDE DEF all, at
      <3> QED
        BY <2>2, <3>1
    <2> QED
      BY <2>1, <2>2
  <1>3. PICK c : c = CountsIn(values, lo, hi)
    OBVIOUS
  <1>4. c = [x \in Sample |-> c[x]] /\ \A x \in Sample : c[x] = Cardinality(at(x))
    BY <1>3 DEF CountsIn
  <1>5. CountsIn(values, below, above) = [x \in Sample |-> Cardinality(all(x))]
    BY DEF CountsIn
  <1> HIDE DEF at, all
  <1>6. CountsIn(values, below, above) = [x \in Sample |-> IF x = values[place] THEN c[x] + 1 ELSE c[x]]
    BY <1>2, <1>4, <1>5
  <1>7. [c EXCEPT ![values[place]] = @ + 1] = [x \in Sample |-> IF x = values[place] THEN c[x] + 1 ELSE c[x]]
    BY <1>4
  <1> QED
    BY <1>3, <1>6, <1>7

LEMMA CountsInAgree ==
    ASSUME NEW values, NEW others, NEW lo \in Int, NEW hi \in Int, \A i \in lo .. hi : values[i] = others[i]
    PROVE  CountsIn(values, lo, hi) = CountsIn(others, lo, hi)
  <1>1. \A x \in Sample : {i \in lo .. hi : values[i] = x} = {i \in lo .. hi : others[i] = x}
    OBVIOUS
  <1> QED
    BY <1>1 DEF CountsIn

LEMMA CountsInNone ==
    ASSUME NEW values, NEW lo \in Int, NEW hi \in Int, hi < lo
    PROVE  CountsIn(values, lo, hi) = NoSamples
  <1>1. \A x \in Sample : {i \in lo .. hi : values[i] = x} = {}
    OBVIOUS
  <1>2. Cardinality({}) = 0
    BY FS_EmptySet
  <1> QED
    BY <1>1, <1>2 DEF CountsIn, NoSamples

\* What a part of a sequence counts is what its places count.
LEMMA CountsInPart ==
    ASSUME NEW values \in Seq(Sample), NEW lo \in Nat \ {0}, NEW hi \in Nat, hi <= Len(values), lo <= hi + 1
    PROVE  Counted(NoSamples, SubSeq(values, lo, hi)) = CountsIn(values, lo, hi)
  <1>1. PICK part : part = SubSeq(values, lo, hi)
    OBVIOUS
  <1>2. PICK n \in Nat : n = hi + 1 - lo
    OBVIOUS
  <1>3. Len(part) = n /\ DOMAIN part = 1 .. n /\ \A i \in 1 .. n : part[i] = values[lo + i - 1]
    BY <1>1, <1>2
  <1>4. ASSUME NEW x \in Sample
        PROVE  Cardinality({i \in 1 .. n : part[i] = x}) = Cardinality({i \in lo .. hi : values[i] = x})
    <2>1. PICK S : S = {i \in 1 .. n : part[i] = x}
      OBVIOUS
    <2>2. PICK R : R = {i \in lo .. hi : values[i] = x}
      OBVIOUS
    <2>3. IsFiniteSet(S)
      <3>1. IsFiniteSet(1 .. n) /\ S \subseteq 1 .. n
        BY <2>1, FS_Interval
      <3> QED
        BY <3>1, FS_Subset
    <2>4. \A i \in S : i \in 1 .. n /\ lo + i - 1 \in R
      BY <1>2, <1>3, <2>1, <2>2
    <2>5. \A j \in R : j \in lo .. hi /\ j - lo + 1 \in S
      <3>1. ASSUME NEW j \in R PROVE j \in lo .. hi /\ j - lo + 1 \in S
        <4>1. j \in lo .. hi /\ values[j] = x
          BY <2>2
        <4>2. j - lo + 1 \in 1 .. n /\ lo + (j - lo + 1) - 1 = j
          BY <1>2, <4>1
        <4>3. part[j - lo + 1] = x
          BY <1>3, <4>1, <4>2
        <4> QED
          BY <2>1, <4>1, <4>2, <4>3
      <3> QED
        BY <3>1
    <2>6. PICK f : f = [i \in S |-> lo + i - 1]
      OBVIOUS
    <2>7. f \in Bijection(S, R)
      <3>1. f \in [S -> R]
        BY <2>4, <2>6
      <3>2. \A i, j \in S : f[i] = f[j] => i = j
        BY <2>4, <2>6
      <3>3. \A j \in R : \E i \in S : f[i] = j
        <4>1. ASSUME NEW j \in R PROVE \E i \in S : f[i] = j
          <5>1. j - lo + 1 \in S /\ j \in Int /\ lo + (j - lo + 1) - 1 = j
            BY <2>5
          <5> QED
            BY <2>6, <5>1
        <4> QED
          BY <4>1
      <3> QED
        <4>1. f \in Injection(S, R)
          BY <3>1, <3>2 DEF Injection, IsInjective
        <4>2. f \in Surjection(S, R)
          BY <3>1, <3>3 DEF Surjection
        <4> QED
          BY <4>1, <4>2 DEF Bijection
    <2>8. ExistsBijection(S, R)
      BY <2>7 DEF ExistsBijection
    <2>9. Cardinality(S) = Cardinality(R)
      BY <2>3, <2>8, FS_Bijection
    <2> QED
      BY <2>1, <2>2, <2>9
  <1>5. \A x \in Sample : Cardinality({i \in 1 .. n : part[i] = x}) \in Nat
    <2>1. PICK one \in Int : one = 1
      OBVIOUS
    <2>2. CountsIn(part, one, n) \in [Sample -> Nat]
      BY n \in Int, CountsInType
    <2> QED
      BY <2>1, <2>2 DEF CountsIn
  <1>6. Counted(NoSamples, part) = [x \in Sample |-> 0 + Cardinality({i \in 1 .. n : part[i] = x})]
    <2>1. \A x \in Sample : {i \in DOMAIN part : part[i] = x} = {i \in 1 .. n : part[i] = x}
      BY <1>3
    <2>2. \A x \in Sample : NoSamples[x] = 0
      BY DEF NoSamples
    <2> QED
      BY <2>1, <2>2 DEF Counted
  <1>7. \A x \in Sample : 0 + Cardinality({i \in 1 .. n : part[i] = x}) = Cardinality({i \in lo .. hi : values[i] = x})
    BY <1>4, <1>5
  <1> QED
    BY <1>1, <1>6, <1>7 DEF CountsIn

----------------------------------------------------------------------------
(* The deques.                                                              *)

\* The indices q are those of elements after past, up to upto, in order, each at a place
\* that the rest leaves room for, and their values do not fall; every element after past
\* has one of them no earlier and no larger.
Queued(q, values, past, upto) ==
    /\ q \in Seq(Nat)
    /\ \A i \in 1 .. Len(q) : q[i] > past /\ q[i] >= 1 /\ q[i] + (Len(q) - i) <= upto
    /\ \A i, j \in 1 .. Len(q) : i < j => q[i] < q[j] /\ values[q[i]] <= values[q[j]]
    /\ \A e \in 1 .. upto : e > past => \E i \in 1 .. Len(q) : q[i] >= e /\ values[q[i]] <= values[e]

LEMMA NothingQueued ==
    ASSUME NEW values, NEW past \in Int
    PROVE  Queued(<<>>, values, past, 0)
  BY DEF Queued

LEMMA QueuedIn ==
    ASSUME NEW q, NEW values, NEW past \in Int, NEW L \in Nat, Queued(q, values, past, L)
    PROVE  \A i \in 1 .. Len(q) : q[i] \in 1 .. L
  <1>1. ASSUME NEW i \in 1 .. Len(q) PROVE q[i] \in 1 .. L
    <2>1. q \in Seq(Nat) /\ q[i] >= 1 /\ q[i] + (Len(q) - i) <= L
      BY DEF Queued
    <2>2. q[i] \in Nat /\ Len(q) \in Nat
      BY <2>1
    <2> QED
      BY <2>1, <2>2
  <1> QED
    BY <1>1

\* The element that leaves takes its index along if that is still there.
LEMMA QueueLeft ==
    ASSUME NEW L \in Nat, NEW past \in Int, NEW leaving \in Nat, NEW values, \A e \in 1 .. L : values[e] \in Int,
           NEW q, Queued(q, values, past, L), NEW left,
           leaving = (IF past + 1 >= 1 THEN past + 1 ELSE 0),
           left = IF q # <<>> /\ Head(q) <= leaving THEN Tail(q) ELSE q
    PROVE  Queued(left, values, past + 1, L)
  <1>1. /\ q \in Seq(Nat)
        /\ \A i \in 1 .. Len(q) : q[i] > past /\ q[i] >= 1 /\ q[i] + (Len(q) - i) <= L
        /\ \A i, j \in 1 .. Len(q) : i < j => q[i] < q[j] /\ values[q[i]] <= values[q[j]]
        /\ \A e \in 1 .. L : e > past => \E i \in 1 .. Len(q) : q[i] >= e /\ values[q[i]] <= values[e]
    BY DEF Queued
  <1>2. PICK n \in Nat : n = Len(q)
    BY <1>1
  <1>3. \A i \in 1 .. n : q[i] \in Nat
    BY <1>1, <1>2
  <1>4. CASE q # <<>> /\ Head(q) <= leaving
    <2>1. left = Tail(q) /\ n > 0 /\ q[1] <= leaving /\ q[1] = past + 1 /\ leaving = past + 1
      <3>1. left = Tail(q) /\ n > 0
        BY <1>1, <1>2, <1>4
      <3>2. Head(q) = q[1] /\ 1 \in 1 .. n
        BY <1>1, <1>2, <3>1
      <3>3. q[1] \in Nat
        BY <1>3, <3>2
      <3>4. \A i \in 1 .. n : q[i] > past /\ q[i] >= 1
        BY <1>1, <1>2
      <3>5. q[1] > past /\ q[1] >= 1
        BY <3>2, <3>4
      <3> QED
        BY <1>4, <3>1, <3>2, <3>3, <3>5
    <2>2. left \in Seq(Nat) /\ Len(left) = n - 1 /\ \A i \in 1 .. n - 1 : left[i] = q[i + 1]
      BY <1>1, <1>2, <2>1
    <2>3. ASSUME NEW i \in 1 .. n - 1
          PROVE  left[i] > past + 1 /\ left[i] >= 1 /\ left[i] + ((n - 1) - i) <= L
      <3>1. i + 1 \in 1 .. n /\ 1 \in 1 .. n /\ 1 < i + 1
        OBVIOUS
      <3>2. q[1] < q[i + 1] /\ q[i + 1] + (n - (i + 1)) <= L /\ q[i + 1] >= 1 /\ q[i + 1] \in Nat
        BY <1>1, <1>2, <1>3, <3>1
      <3>3. left[i] = q[i + 1] /\ q[1] = past + 1
        BY <2>1, <2>2
      <3>4. past + 1 < q[i + 1]
        BY <3>2, <3>3
      <3>5. \A k \in Nat : k + (n - (i + 1)) <= L => k + ((n - 1) - i) <= L
        OBVIOUS
      <3> QED
        BY <3>2, <3>3, <3>4, <3>5
    <2>4. ASSUME NEW i \in 1 .. n - 1, NEW j \in 1 .. n - 1, i < j
          PROVE  left[i] < left[j] /\ values[left[i]] <= values[left[j]]
      <3>1. i + 1 \in 1 .. n /\ j + 1 \in 1 .. n /\ i + 1 < j + 1
        BY <2>4
      <3>2. \A k, l \in 1 .. n : k < l => q[k] < q[l] /\ values[q[k]] <= values[q[l]]
        BY <1>1, <1>2
      <3>3. q[i + 1] < q[j + 1] /\ values[q[i + 1]] <= values[q[j + 1]]
        BY <3>1, <3>2
      <3>4. left[i] = q[i + 1] /\ left[j] = q[j + 1]
        BY <2>2
      <3> QED
        BY <3>3, <3>4
    <2>5. ASSUME NEW e \in 1 .. L, e > past + 1
          PROVE  \E i \in 1 .. n - 1 : left[i] >= e /\ values[left[i]] <= values[e]
      <3>1. PICK i \in 1 .. n : q[i] >= e /\ values[q[i]] <= values[e]
        <4>1. e > past
          BY <2>5
        <4>2. \E i \in 1 .. Len(q) : q[i] >= e /\ values[q[i]] <= values[e]
          BY <1>1, <4>1
        <4> QED
          BY <1>2, <4>2
      <3>2. i # 1
        BY <2>1, <2>5, <3>1
      <3>3. i - 1 \in 1 .. n - 1 /\ left[i - 1] = q[i]
        BY <2>2, <3>2
      <3> QED
        BY <3>1, <3>3
    <2> QED
      BY <2>2, <2>3, <2>4, <2>5 DEF Queued
  <1>5. CASE ~ (q # <<>> /\ Head(q) <= leaving)
    <2>1. left = q
      BY <1>5
    <2>2. ASSUME NEW i \in 1 .. n PROVE q[i] > past + 1
      <3>1. Head(q) = q[1] /\ q # <<>> /\ 1 \in 1 .. n
        BY <1>1, <1>2
      <3>2. q[1] > leaving /\ q[1] \in Nat /\ q[1] >= 1
        BY <1>1, <1>2, <1>3, <1>5, <3>1
      <3>3. q[1] <= q[i] /\ q[i] \in Nat
        <4>1. q[i] \in Nat /\ q[1] \in Nat
          BY <1>3, <3>1
        <4>2. CASE i = 1
          BY <4>1, <4>2
        <4>3. CASE i # 1
          <5>1. 1 < i /\ 1 \in 1 .. Len(q) /\ i \in 1 .. Len(q)
            BY <1>2, <3>1, <4>3
          <5>2. q[1] < q[i]
            BY <1>1, <5>1
          <5> QED
            BY <4>1, <5>2
        <4> QED
          BY <4>2, <4>3
      <3> QED
        BY <3>2, <3>3
    <2>3. \A e \in 1 .. L : e > past + 1 => \E i \in 1 .. Len(q) : q[i] >= e /\ values[q[i]] <= values[e]
      <3>1. \A e \in 1 .. L : e > past + 1 => e > past
        OBVIOUS
      <3> QED
        BY <1>1, <3>1
    <2>4. Queued(q, values, past + 1, L)
      BY <1>1, <1>2, <2>2, <2>3 DEF Queued
    <2> QED
      BY <2>1, <2>4
  <1> QED
    BY <1>4, <1>5

\* The next element goes behind the last index that it does not beat.
LEMMA QueueNext ==
    ASSUME NEW L \in Nat, NEW past \in Int, past <= L, NEW values, \A e \in 1 .. L + 1 : values[e] \in Int,
           NEW left, Queued(left, values, past, L), NEW c \in Nat, c <= Len(left),
           c > 0 => values[left[c]] <= values[L + 1],
           \A k \in 1 .. Len(left) : k > c => values[left[k]] >= values[L + 1]
    PROVE  Queued(Append(SubSeq(left, 1, c), L + 1), values, past, L + 1)
  <1>1. /\ left \in Seq(Nat)
        /\ \A i \in 1 .. Len(left) : left[i] > past /\ left[i] >= 1 /\ left[i] + (Len(left) - i) <= L
        /\ \A i, j \in 1 .. Len(left) : i < j => left[i] < left[j] /\ values[left[i]] <= values[left[j]]
        /\ \A e \in 1 .. L : e > past => \E i \in 1 .. Len(left) : left[i] >= e /\ values[left[i]] <= values[e]
    BY DEF Queued
  <1>2. PICK n \in Nat : n = Len(left)
    BY <1>1
  <1>3. PICK q : q = Append(SubSeq(left, 1, c), L + 1)
    OBVIOUS
  <1>4. /\ q \in Seq(Nat) /\ Len(q) = c + 1 /\ q[c + 1] = L + 1
        /\ \A i \in 1 .. c : q[i] = left[i] /\ i \in 1 .. n
    <2>1. PICK s : s = SubSeq(left, 1, c)
      OBVIOUS
    <2>2. s \in Seq(Nat) /\ Len(s) = c /\ \A i \in 1 .. c : s[i] = left[i] /\ i \in 1 .. n
      BY <1>1, <1>2, <2>1
    <2>3. q = Append(s, L + 1) /\ L + 1 \in Nat
      BY <1>3, <2>1
    <2>4. q \in Seq(Nat) /\ Len(q) = c + 1 /\ q[c + 1] = L + 1 /\ \A i \in 1 .. c : q[i] = s[i]
      BY <2>2, <2>3
    <2> QED
      BY <2>2, <2>4
  <1>5. ASSUME NEW i \in 1 .. n PROVE left[i] \in 1 .. L /\ values[left[i]] \in Int
    <2>1. left[i] \in Nat /\ left[i] >= 1 /\ left[i] + (n - i) <= L
      BY <1>1, <1>2
    <2>2. left[i] \in 1 .. L /\ left[i] \in 1 .. L + 1
      BY <2>1
    <2> QED
      BY <2>2
  <1>6. ASSUME NEW i \in 1 .. c + 1
        PROVE  q[i] > past /\ q[i] >= 1 /\ q[i] + ((c + 1) - i) <= L + 1
    <2>1. CASE i = c + 1
      BY <1>4, <2>1
    <2>2. CASE i # c + 1
      <3>1. i \in 1 .. c /\ i \in 1 .. n /\ q[i] = left[i]
        BY <1>4, <2>2
      <3>2. left[i] > past /\ left[i] >= 1 /\ left[i] + (n - i) <= L /\ left[i] \in Nat /\ c <= n
        BY <1>1, <1>2, <3>1
      <3> QED
        BY <3>1, <3>2
    <2> QED
      BY <2>1, <2>2
  <1>7. ASSUME NEW i \in 1 .. c + 1, NEW j \in 1 .. c + 1, i < j
        PROVE  q[i] < q[j] /\ values[q[i]] <= values[q[j]]
    <2>1. i \in 1 .. c /\ i \in 1 .. n /\ q[i] = left[i] /\ c \in 1 .. n /\ c > 0
      BY <1>2, <1>4, <1>7
    <2>2. CASE j = c + 1
      <3>1. left[i] \in 1 .. L /\ left[c] \in 1 .. L /\ values[left[i]] \in Int /\ values[left[c]] \in Int
            /\ values[L + 1] \in Int
        BY <1>5, <2>1
      <3>2. i < c \/ i = c
        BY <2>1
      <3>3. values[left[i]] <= values[left[c]]
        BY <1>1, <1>2, <2>1, <3>1, <3>2
      <3>4. values[left[c]] <= values[L + 1]
        BY <2>1
      <3>5. q[j] = L + 1
        BY <1>4, <2>2
      <3> QED
        BY <2>1, <3>1, <3>3, <3>4, <3>5
    <2>3. CASE j # c + 1
      <3>1. j \in 1 .. c /\ j \in 1 .. n /\ q[j] = left[j]
        BY <1>4, <2>3
      <3> QED
        BY <1>1, <1>2, <1>7, <2>1, <3>1
    <2> QED
      BY <2>2, <2>3
  <1>8. ASSUME NEW e \in 1 .. L + 1, e > past
        PROVE  \E i \in 1 .. c + 1 : q[i] >= e /\ values[q[i]] <= values[e]
    <2>1. c + 1 \in 1 .. c + 1 /\ q[c + 1] = L + 1 /\ values[L + 1] \in Int
      BY <1>4
    <2>2. CASE e = L + 1
      BY <2>1, <2>2
    <2>3. CASE e # L + 1
      <3>1. e \in 1 .. L /\ values[e] \in Int
        BY <2>3
      <3>2. PICK i \in 1 .. n : left[i] >= e /\ values[left[i]] <= values[e]
        BY <1>1, <1>2, <1>8, <3>1
      <3>3. CASE i <= c
        <4>1. i \in 1 .. c /\ i \in 1 .. c + 1 /\ q[i] = left[i]
          BY <1>4, <3>3
        <4> QED
          BY <3>2, <4>1
      <3>4. CASE i > c
        <4>1. values[left[i]] >= values[L + 1] /\ values[left[i]] \in Int
          BY <1>2, <1>5, <3>4
        <4>2. values[L + 1] <= values[e]
          BY <2>1, <3>1, <3>2, <4>1
        <4> QED
          BY <2>1, <4>2
      <3> QED
        BY <3>3, <3>4
    <2> QED
      BY <2>2, <2>3
  <1> QED
    BY <1>3, <1>4, <1>6, <1>7, <1>8 DEF Queued

LEMMA QueueFront ==
    ASSUME NEW L \in Nat \ {0}, NEW past \in Int, past < L, NEW values, \A e \in 1 .. L : values[e] \in Int,
           NEW q, Queued(q, values, past, L)
    PROVE  /\ q # <<>> /\ Head(q) = q[1] /\ q[1] \in 1 .. L /\ q[1] > past
           /\ Len(q) + past <= L /\ Len(q) <= L
           /\ \A e \in 1 .. L : e > past => values[q[1]] <= values[e]
  <1>1. /\ q \in Seq(Nat)
        /\ \A i \in 1 .. Len(q) : q[i] > past /\ q[i] >= 1 /\ q[i] + (Len(q) - i) <= L
        /\ \A i, j \in 1 .. Len(q) : i < j => q[i] < q[j] /\ values[q[i]] <= values[q[j]]
        /\ \A e \in 1 .. L : e > past => \E i \in 1 .. Len(q) : q[i] >= e /\ values[q[i]] <= values[e]
    BY DEF Queued
  <1>2. PICK n \in Nat : n = Len(q)
    BY <1>1
  <1>3. L \in 1 .. L
    OBVIOUS
  <1>4. n >= 1 /\ 1 \in 1 .. n
    BY <1>1, <1>2, <1>3
  <1>5. q # <<>> /\ Head(q) = q[1]
    BY <1>1, <1>2, <1>4
  <1>6. q[1] \in Nat /\ q[1] > past /\ q[1] >= 1 /\ q[1] + (n - 1) <= L
    BY <1>1, <1>2, <1>4
  <1>7. q[1] \in 1 .. L /\ n + past <= L /\ n <= L
    <2>1. PICK first \in Nat : first = q[1]
      BY <1>6
    <2>2. first > past /\ first >= 1 /\ first + (n - 1) <= L
      BY <1>6, <2>1
    <2>3. first \in 1 .. L /\ n + past <= L /\ n <= L
      BY <1>4, <2>2
    <2> QED
      BY <2>1, <2>3
  <1>8. ASSUME NEW e \in 1 .. L, e > past PROVE values[q[1]] <= values[e]
    <2>1. PICK i \in 1 .. n : q[i] >= e /\ values[q[i]] <= values[e]
      BY <1>1, <1>2, <1>8
    <2>2. q[i] \in Nat /\ q[i] >= 1 /\ q[i] + (n - i) <= L
      BY <1>1, <1>2
    <2>3. q[i] \in 1 .. L
      BY <2>2
    <2>4. values[q[i]] \in Int /\ values[q[1]] \in Int /\ values[e] \in Int
      BY <1>7, <2>3
    <2>5. values[q[1]] <= values[q[i]]
      <3>1. i = 1 \/ 1 < i
        OBVIOUS
      <3> QED
        BY <1>1, <1>2, <1>4, <2>4, <3>1
    <2> QED
      BY <2>1, <2>4, <2>5
  <1> QED
    BY <1>2, <1>5, <1>6, <1>7, <1>8

----------------------------------------------------------------------------
(* The rolling statistics.                                                  *)

\* The place of the first element in the window, and the counts of what is in it.
First == IF Len(data) > window THEN Len(data) - window + 1 ELSE 1
Held  == CountsIn(data, First, Len(data))

Opposite(values) == [i \in DOMAIN values |-> -values[i]]

RollingInv ==
    /\ window \in WindowSizes \cup {0} /\ (window = 0 => data = <<>>)
    /\ data \in Seq(Sample) /\ (data = <<>> => rolling = NoRolling)
    /\ rolling.sum = Total(Held) /\ Size(Held) = Len(data) + 1 - First
    /\ window > 1 => Describes(rolling.moving, Held)
    /\ Queued(rolling.smallest, data, Len(data) - window, Len(data))
    /\ Queued(rolling.largest, Opposite(data), Len(data) - window, Len(data))

LEMMA WindowSizesAre == WindowSizes \subseteq 1 .. MaxCount /\ MaxCount \in Nat
  BY RollingAssumption, SamplesAre

LEMMA EmptyIsExact ==
    ASSUME data = <<>>, rolling = NoRolling, window \in WindowSizes \cup {0}
    PROVE  RollingInv
  <1>1. window \in Nat /\ Len(data) = 0 /\ data \in Seq(Sample)
    BY WindowSizesAre
  <1>2. First = 1
    BY <1>1 DEF First
  <1>3. Held = NoSamples
    <2>1. PICK lo \in Int, hi \in Int : lo = 1 /\ hi = 0
      OBVIOUS
    <2>2. CountsIn(data, lo, hi) = NoSamples
      BY <2>1, CountsInNone
    <2> QED
      BY <1>1, <1>2, <2>1, <2>2 DEF Held
  <1>4. Describes(fc_welford_init, NoSamples)
    BY InitDescribes
  <1>5. Size(NoSamples) = 0 /\ Total(NoSamples) = 0
    <2>1. NoSamples \in [Sample -> Nat] /\ Size(NoSamples) = 0
      BY <1>4 DEF Describes, Figures, fc_welford_init
    <2> QED
      BY <2>1, CountSums
  <1>6. /\ rolling.sum = 0 /\ rolling.moving = fc_welford_init
        /\ rolling.smallest = <<>> /\ rolling.largest = <<>>
    BY DEF NoRolling
  <1>7. PICK past \in Int : past = Len(data) - window
    BY <1>1
  <1>8. Queued(<<>>, data, past, 0) /\ Queued(<<>>, Opposite(data), past, 0)
    BY NothingQueued
  <1>9. Queued(rolling.smallest, data, Len(data) - window, Len(data))
    BY <1>1, <1>6, <1>7, <1>8
  <1>10. Queued(rolling.largest, Opposite(data), Len(data) - window, Len(data))
    BY <1>1, <1>6, <1>7, <1>8
  <1>11. Describes(rolling.moving, Held)
    BY <1>3, <1>4, <1>6
  <1>12. rolling.sum = Total(Held) /\ Size(Held) = Len(data) + 1 - First
    BY <1>1, <1>2, <1>3, <1>5, <1>6
  <1> QED
    BY <1>1, <1>9, <1>10, <1>11, <1>12 DEF RollingInv

\* left counts the elements of the window that stay when the next comes in.
Stay(left, x) ==
    /\ left \in [Sample -> Nat]
    /\ IF Leaving = 0 THEN left = Held
       ELSE data[Leaving] \in Sample /\ Held = [left EXCEPT ![data[Leaving]] = @ + 1]
    /\ Held' = [left EXCEPT ![x] = @ + 1]
    /\ Size(left) = Len(data) + 1 - First'

LEMMA SomeStay ==
    ASSUME RollingInv, NEW x \in Sample, Slide(x)
    PROVE  /\ window \in 1 .. MaxCount /\ window' = window /\ Len(data') = Len(data) + 1
           /\ data' \in Seq(Sample) /\ data' = Append(data, x)
           /\ \A e \in 1 .. Len(data) : data'[e] = data[e] /\ data[e] \in Sample
           /\ data'[Len(data) + 1] = x
           /\ First' \in Nat \ {0} /\ First' <= Len(data) + 1 /\ Len(data) + 1 - First' < window
           /\ (Leaving # 0 => Len(data) + 1 - First' = window - 1)
           /\ \E left : Stay(left, x)
  <1>1. window \in 1 .. MaxCount /\ window' = window
    <2>1. window > 0 /\ window' = window
      BY DEF Slide
    <2>2. window \in WindowSizes \cup {0}
      BY DEF RollingInv
    <2> QED
      BY <2>1, <2>2, WindowSizesAre
  <1>2. PICK L \in Nat : L = Len(data)
    BY DEF RollingInv
  <1>3. PICK m \in Nat \ {0} : m = window
    BY <1>1
  <1>4. /\ data \in Seq(Sample) /\ data' = Append(data, x) /\ Len(data') = L + 1 /\ data' \in Seq(Sample)
        /\ \A e \in 1 .. L : data'[e] = data[e] /\ data[e] \in Sample
        /\ data'[L + 1] = x
    BY <1>2 DEF Slide, RollingInv
  <1>5. First = IF L > m THEN L - m + 1 ELSE 1
    BY <1>2, <1>3 DEF First
  <1>6. First' = IF L + 1 > m THEN L + 1 - m + 1 ELSE 1
    BY <1>1, <1>3, <1>4 DEF First
  <1>7. Leaving = IF L >= m THEN L + 1 - m ELSE 0
    BY <1>2, <1>3 DEF Leaving
  <1>8. PICK f \in Nat \ {0} : f = First' /\ f <= L + 1 /\ L + 1 - f < m
    BY <1>6
  <1>9. PICK left : left = CountsIn(data, f, L)
    OBVIOUS
  <1>10. left \in [Sample -> Nat]
    <2>1. f \in Int /\ L \in Int
      OBVIOUS
    <2> QED
      BY <1>9, <2>1, CountsInType
  <1>11. Held = CountsIn(data, First, L) /\ Held' = CountsIn(data', f, L + 1)
    BY <1>2, <1>4, <1>8 DEF Held
  <1>12. Held' = [left EXCEPT ![x] = @ + 1]
    <2>1. CountsIn(data', f, L) = left
      <3>1. \A e \in f .. L : data'[e] = data[e]
        BY <1>4
      <3>2. f \in Int /\ L \in Int
        OBVIOUS
      <3> QED
        BY <1>9, <3>1, <3>2, CountsInAgree
    <2>2. PICK place \in Int : place = L + 1
      OBVIOUS
    <2>3. place \notin f .. L /\ f .. place = (f .. L) \cup {place} /\ f \in Int /\ L \in Int
      BY <1>8, <2>2
    <2>4. data'[place] \in Sample /\ data'[place] = x
      BY <1>4, <2>2
    <2>5. CountsIn(data', f, place) = [CountsIn(data', f, L) EXCEPT ![data'[place]] = @ + 1]
      BY ONLY <2>2, <2>3, <2>4, CountsInGrow
    <2> QED
      BY <1>11, <2>1, <2>2, <2>4, <2>5
  <1>13. CASE L < m
    <2>1. Leaving = 0 /\ First = f
      BY <1>5, <1>6, <1>7, <1>8, <1>13
    <2>2. Held = left
      BY <1>9, <1>11, <2>1
    <2>3. Size(left) = L + 1 - f
      BY <1>2, <2>1, <2>2 DEF RollingInv
    <2>4. Stay(left, x)
      BY <1>2, <1>8, <1>10, <1>12, <2>1, <2>2, <2>3 DEF Stay
    <2> QED
      BY <1>1, <1>2, <1>3, <1>4, <1>8, <2>1, <2>4
  <1>14. CASE L >= m
    <2>1. Leaving = L + 1 - m /\ First = L + 1 - m /\ f = L + 1 - m + 1 /\ Leaving \in 1 .. L /\ f = Leaving + 1
      BY <1>5, <1>6, <1>7, <1>8, <1>14
    <2>2. PICK place \in Int : place = Leaving
      BY <2>1
    <2>3. data[place] \in Sample
      BY <1>4, <2>1, <2>2
    <2>4. place \notin f .. L /\ place .. L = (f .. L) \cup {place} /\ f \in Int /\ L \in Int
      BY <2>1, <2>2
    <2>5. CountsIn(data, place, L) = [CountsIn(data, f, L) EXCEPT ![data[place]] = @ + 1]
      <3>1. PICK below \in Int : below = place
        OBVIOUS
      <3>2. PICK above \in Int : above = L
        OBVIOUS
      <3>3. /\ f \in Int /\ L \in Int /\ place \in Int /\ below \in Int /\ above \in Int
            /\ place \notin f .. L /\ below .. above = (f .. L) \cup {place} /\ data[place] \in Sample
        BY <2>3, <2>4, <3>1, <3>2
      <3>4. CountsIn(data, below, above) = [CountsIn(data, f, L) EXCEPT ![data[place]] = @ + 1]
        BY ONLY <3>3, CountsInGrow
      <3> QED
        BY <3>1, <3>2, <3>4
    <2>6. Held = [left EXCEPT ![data[place]] = @ + 1]
      BY <1>9, <1>11, <2>1, <2>2, <2>5
    <2>7. Size(Held) = Size(left) + 1
      BY <1>10, <2>3, <2>6, OneMore
    <2>8. Size(left) \in Nat
      BY <1>10, CountSums
    <2>9. Size(Held) = L + 1 - (L + 1 - m)
      BY <1>2, <2>1 DEF RollingInv
    <2>10. Size(left) = L + 1 - f
      BY <2>1, <2>7, <2>8, <2>9
    <2>11. Leaving # 0 /\ L + 1 - f = m - 1
      BY <2>1
    <2>12. Stay(left, x)
      BY <1>2, <1>8, <1>10, <1>12, <2>2, <2>3, <2>6, <2>10, <2>11 DEF Stay
    <2> QED
      BY <1>1, <1>2, <1>3, <1>4, <1>8, <2>11, <2>12
  <1> QED
    BY <1>13, <1>14

LEMMA SumSlides ==
    ASSUME RollingInv, NEW x \in Sample, Slide(x)
    PROVE  rolling'.sum = Total(Held')
  <1>1. PICK left : Stay(left, x)
    BY SomeStay
  <1>2. left \in [Sample -> Nat] /\ x \in Int
    BY <1>1, SamplesAre DEF Stay
  <1>3. PICK T \in Int : T = Total(left)
    BY <1>2, CountSums
  <1>4. Total(Held') = T + x
    BY <1>1, <1>2, <1>3, OneMore DEF Stay
  <1>5. rolling'.sum = rolling.sum + x - (IF Leaving = 0 THEN 0 ELSE data[Leaving])
    BY DEF Slide, fc_stats_rolling_sum_f64
  <1>6. rolling.sum = Total(Held)
    BY DEF RollingInv
  <1>7. CASE Leaving = 0
    <2>1. Held = left
      BY <1>1, <1>7 DEF Stay
    <2> QED
      BY <1>2, <1>3, <1>4, <1>5, <1>6, <1>7, <2>1
  <1>8. CASE Leaving # 0
    <2>1. data[Leaving] \in Sample /\ Held = [left EXCEPT ![data[Leaving]] = @ + 1]
      BY <1>1, <1>8 DEF Stay
    <2>2. PICK y \in Int : y = data[Leaving]
      BY <2>1, SamplesAre
    <2>3. Total(Held) = T + y
      BY <1>2, <1>3, <2>1, <2>2, OneMore
    <2> QED
      BY <1>2, <1>4, <1>5, <1>6, <1>8, <2>2, <2>3
  <1> QED
    BY <1>7, <1>8

\* The reverse update gives back the state of the elements that stay.
LEMMA MovingSlides ==
    ASSUME RollingInv, NEW x \in Sample, Slide(x), window > 1
    PROVE  Describes(rolling'.moving, Held')
  <1>1. PICK left : Stay(left, x)
    BY SomeStay
  <1>2. left \in [Sample -> Nat] /\ x \in Int /\ MaxCount \in Nat /\ window \in 1 .. MaxCount
    BY <1>1, SamplesAre, SomeStay DEF Stay
  <1>3. PICK n \in Nat : n = Size(left)
    BY <1>2, CountSums
  <1>4. n < window /\ (Leaving # 0 => n = window - 1)
    BY <1>1, <1>3, SomeStay DEF Stay
  <1>5. n + 1 <= MaxCount
    BY <1>2, <1>4
  <1>6. Describes(rolling.moving, Held)
    BY DEF RollingInv
  <1>7. PICK moved : moved = IF Leaving = 0 THEN rolling.moving ELSE RemoveOldest(rolling.moving, data[Leaving])
    OBVIOUS
  <1>8. Describes(moved, left)
    <2>1. CASE Leaving = 0
      BY <1>1, <1>6, <1>7, <2>1 DEF Stay
    <2>2. CASE Leaving # 0
      <3>1. data[Leaving] \in Sample /\ Held = [left EXCEPT ![data[Leaving]] = @ + 1]
        BY <1>1, <2>2 DEF Stay
      <3>2. PICK y \in Sample : y = data[Leaving]
        BY <3>1
      <3>3. y \in Int /\ y * y \in Int
        BY SamplesAre
      <3>4. PICK T \in Int : T = Total(left)
        BY <1>2, CountSums
      <3>5. PICK Q \in Int : Q = Squares(left)
        BY <1>2, CountSums
      <3>6. Held = [left EXCEPT ![y] = @ + 1]
        BY <3>1, <3>2
      <3>7. Size(Held) = n + 1 /\ Total(Held) = T + y /\ Squares(Held) = Q + y * y
        BY <1>2, <1>3, <3>4, <3>5, <3>6, OneMore
      <3>8. PICK R \in Int, S \in Int : R = T + y /\ S = Q + y * y
        BY <3>3
      <3>9. Figures(rolling.moving, n + 1, R, S)
        BY <1>6, <3>7, <3>8 DEF Describes
      <3>10. n \in Nat \ {0}
        BY <1>2, <1>3, <1>4, <2>2
      <3>11. Figures(RemoveOldest(rolling.moving, y), n, R - y, S - y * y)
        BY ONLY <1>5, <3>3, <3>9, <3>10, R \in Int, S \in Int, Removed
      <3>12. R - y = T /\ S - y * y = Q
        BY <3>3, <3>8
      <3>13. Figures(moved, n, T, Q)
        BY <1>7, <2>2, <3>2, <3>11, <3>12
      <3>14. n <= MaxCount
        BY <1>2, <1>5
      <3> QED
        BY <1>2, <1>3, <3>4, <3>5, <3>13, <3>14 DEF Describes
    <2> QED
      BY <2>1, <2>2
  <1>9. PICK w : w = fc_welford_update(moved, x)
    OBVIOUS
  <1>10. rolling'.moving = w
    <2>1. rolling'.moving = fc_stats_rolling_variance_f64(x)
      BY DEF Slide
    <2>2. ~ (window < 2)
      BY <1>2
    <2> QED
      BY <1>7, <1>9, <2>1, <2>2 DEF fc_stats_rolling_variance_f64
  <1>11. Describes(w, [left EXCEPT ![x] = @ + 1])
    BY <1>3, <1>5, <1>8, <1>9, UpdateDescribes
  <1> QED
    BY <1>1, <1>10, <1>11 DEF Stay

\* What SelectLastInSeq finds.
LEMMA LastIs ==
    ASSUME NEW n \in Nat, NEW hit \in SUBSET (1 .. n), NEW c, c = IF hit # {} THEN Max(hit) ELSE 0
    PROVE  c \in 0 .. n /\ (c > 0 => c \in hit) /\ \A k \in 1 .. n : k > c => k \notin hit
  <1>1. CASE hit = {}
    BY <1>1
  <1>2. CASE hit # {}
    <2>1. PICK u \in Nat : n - u \in hit
      <3>1. PICK e \in hit : TRUE
        BY <1>2
      <3>2. e \in 1 .. n /\ n - e \in Nat /\ n - (n - e) = e
        BY <3>1
      <3> QED
        BY <3>1, <3>2
    <2> DEFINE K == {j \in Nat : n - j \in hit}
    <2>2. K # {} /\ K \in SUBSET Nat
      BY <2>1
    <2>3. \E least \in K : \A j \in K : least <= j
      <3> HIDE DEF K
      <3> QED
        BY <2>2, LeastNumber
    <2>4. \E least \in Nat : n - least \in hit /\ \A j \in Nat : n - j \in hit => least <= j
      BY <2>3
    <2>5. PICK least \in Nat : n - least \in hit /\ \A j \in Nat : n - j \in hit => least <= j
      BY <2>4
    <2>6. \A e \in hit : n - least >= e
      <3>1. ASSUME NEW e \in hit PROVE n - least >= e
        <4>1. e \in 1 .. n /\ n - e \in Nat /\ n - (n - e) = e
          OBVIOUS
        <4>2. least <= n - e
          BY <2>5, <4>1
        <4> QED
          BY <4>1, <4>2
      <3> QED
        BY <3>1
    <2>7. Max(hit) \in hit /\ \A e \in hit : Max(hit) >= e
      BY <2>5, <2>6 DEF Max
    <2>8. c = Max(hit)
      BY <1>2
    <2>9. c \in 1 .. n /\ c \in hit /\ \A e \in hit : c >= e
      BY <2>7, <2>8
    <2>10. \A k \in 1 .. n : k > c => k \notin hit
      BY <2>9
    <2> QED
      BY <2>9, <2>10
  <1> QED
    BY <1>1, <1>2

\* The places where y beats what is in the deque, the last of such places, and the values
\* that go on as old did, with y next.
Hits(old, left, y) == {i \in 1 .. Len(left) : old[left[i]] < y}
LastOf(hit) == IF hit # {} THEN Max(hit) ELSE 0
GoOn(values, old, n, y) ==
    y \in Int /\ values[n + 1] = y /\ \A e \in 1 .. n : values[e] = old[e] /\ values[e] \in Int

\* A deque slides along with the window: hit is where the new element beats what is there.
LEMMA QueueSlides ==
    ASSUME RollingInv, NEW x \in Sample, Slide(x),
           NEW old, NEW values, NEW y, GoOn(values, old, Len(data), y),
           NEW q, Queued(q, old, Len(data) - window, Len(data)), NEW left, left = Unexpired(q),
           NEW c, c = LastOf(Hits(old, left, y))
    PROVE  Queued(Append(SubSeq(left, 1, c), Len(data) + 1), values, Len(data') - window', Len(data'))
  <1>1. PICK L \in Nat : L = Len(data)
    BY DEF RollingInv
  <1>2. window \in 1 .. MaxCount /\ window' = window /\ Len(data') = L + 1
    BY <1>1, SomeStay
  <1>3. PICK past \in Int : past = L - window /\ past < L
    BY <1>2, WindowSizesAre
  <1>4. y \in Int /\ values[L + 1] = y /\ \A e \in 1 .. L : values[e] = old[e] /\ values[e] \in Int
    BY <1>1 DEF GoOn
  <1>5. \A e \in 1 .. L + 1 : values[e] \in Int
    <2>1. \A e \in 1 .. L + 1 : e \in 1 .. L \/ e = L + 1
      OBVIOUS
    <2> QED
      BY <1>4, <2>1
  <1>6. Queued(q, old, past, L)
    BY <1>1, <1>3
  <1>7. \A i \in 1 .. Len(q) : q[i] \in 1 .. L
    <2>1. L \in Nat /\ past \in Int
      OBVIOUS
    <2> QED
      BY ONLY <1>6, <2>1, QueuedIn
  <1>8. Queued(q, values, past, L)
    BY <1>4, <1>6, <1>7 DEF Queued
  <1>9. Queued(left, values, past + 1, L)
    <2>1. PICK leaving \in Nat : leaving = Leaving /\ leaving = (IF past + 1 >= 1 THEN past + 1 ELSE 0)
      <3>1. PICK m \in Nat \ {0} : m = window
        BY <1>2, WindowSizesAre
      <3>2. Leaving = IF L >= m THEN L + 1 - m ELSE 0
        BY <1>1, <3>1 DEF Leaving
      <3>3. past = L - m
        BY <1>3, <3>1
      <3>4. Leaving = (IF past + 1 >= 1 THEN past + 1 ELSE 0)
        BY <3>2, <3>3
      <3>5. Leaving \in Nat
        BY <3>2
      <3> QED
        BY <3>4, <3>5
    <2>2. left = IF q # <<>> /\ Head(q) <= leaving THEN Tail(q) ELSE q
      BY <2>1 DEF Unexpired
    <2>3. \A e \in 1 .. L : values[e] \in Int
      BY <1>5
    <2>4. L \in Nat /\ past \in Int /\ leaving \in Nat /\ leaving = (IF past + 1 >= 1 THEN past + 1 ELSE 0)
      BY <2>1
    <2> QED
      BY ONLY <1>8, <2>2, <2>3, <2>4, QueueLeft
  <1>10. PICK n \in Nat : n = Len(left)
    BY <1>9 DEF Queued
  <1>11. \A i \in 1 .. n : left[i] \in 1 .. L
    <2>1. PICK next \in Int : next = past + 1
      OBVIOUS
    <2>2. Queued(left, values, next, L) /\ L \in Nat /\ next \in Int
      BY <1>9, <2>1
    <2>3. \A i \in 1 .. Len(left) : left[i] \in 1 .. L
      BY ONLY <2>2, QueuedIn
    <2> QED
      BY <1>10, <2>3
  <1>12. PICK hit : hit = {i \in 1 .. n : old[left[i]] < y}
    OBVIOUS
  <1>13. c = IF hit # {} THEN Max(hit) ELSE 0
    BY <1>10, <1>12 DEF Hits, LastOf
  <1>14. c \in 0 .. n /\ (c > 0 => c \in hit) /\ \A k \in 1 .. n : k > c => k \notin hit
    <2>1. hit \in SUBSET (1 .. n)
      BY <1>12
    <2> QED
      BY <1>13, <2>1, LastIs
  <1>15. \A k \in 1 .. n : values[left[k]] = old[left[k]] /\ values[left[k]] \in Int
    BY <1>4, <1>11
  <1>16. /\ c \in Nat /\ c <= Len(left)
         /\ c > 0 => values[left[c]] <= values[L + 1]
         /\ \A k \in 1 .. Len(left) : k > c => values[left[k]] >= values[L + 1]
    <2>1. c \in Nat /\ c <= n
      BY <1>14
    <2>2. c > 0 => values[left[c]] <= values[L + 1]
      <3> SUFFICES ASSUME c > 0 PROVE values[left[c]] <= values[L + 1]
        OBVIOUS
      <3>1. c \in 1 .. n /\ old[left[c]] < y
        BY <1>12, <1>14
      <3>2. values[left[c]] = old[left[c]] /\ values[left[c]] \in Int
        BY <1>15, <3>1
      <3> QED
        BY <1>4, <3>1, <3>2
    <2>3. ASSUME NEW k \in 1 .. n, k > c PROVE values[left[k]] >= values[L + 1]
      <3>1. ~ (old[left[k]] < y)
        BY <1>12, <1>14, <2>3
      <3>2. values[left[k]] = old[left[k]] /\ values[left[k]] \in Int
        BY <1>15
      <3> QED
        BY <1>4, <3>1, <3>2
    <2> QED
      BY <1>10, <2>1, <2>2, <2>3
  <1>17. Queued(Append(SubSeq(left, 1, c), L + 1), values, past + 1, L + 1)
    <2>1. PICK next \in Int : next = past + 1
      OBVIOUS
    <2>2. next <= L /\ L \in Nat /\ next \in Int
      BY <1>3, <2>1
    <2>3. Queued(left, values, next, L)
      BY <1>9, <2>1
    <2>4. Queued(Append(SubSeq(left, 1, c), L + 1), values, next, L + 1)
      BY ONLY <1>5, <1>16, <2>2, <2>3, QueueNext
    <2> QED
      BY <2>1, <2>4
  <1>18. past + 1 = (L + 1) - window
    BY <1>2, <1>3, WindowSizesAre
  <1> QED
    BY <1>1, <1>2, <1>17, <1>18

LEMMA SmallestSlides ==
    ASSUME RollingInv, NEW x \in Sample, Slide(x)
    PROVE  Queued(rolling'.smallest, data', Len(data') - window', Len(data'))
  <1>1. PICK values : values = data'
    OBVIOUS
  <1>2. PICK old : old = data
    OBVIOUS
  <1>3. PICK y \in Int : y = x
    BY SamplesAre
  <1>4. \A e \in 1 .. Len(data) : values[e] = old[e] /\ values[e] \in Int
    BY <1>1, <1>2, SomeStay, SamplesAre
  <1>5. GoOn(values, old, Len(data), y)
    BY <1>1, <1>3, <1>4, SomeStay DEF GoOn
  <1>6. PICK q : q = rolling.smallest
    OBVIOUS
  <1>7. Queued(q, old, Len(data) - window, Len(data))
    BY <1>2, <1>6 DEF RollingInv
  <1>8. PICK left : left = Unexpired(q)
    OBVIOUS
  <1>9. PICK c : c = LastOf(Hits(old, left, y))
    OBVIOUS
  <1>10. c = LastBelow(left, x)
    BY <1>2, <1>3, <1>9 DEF LastBelow, SelectLastInSeq, LastOf, Hits
  <1>11. rolling'.smallest = Append(SubSeq(left, 1, c), Len(data) + 1)
    <2>1. rolling'.smallest = fc_stats_rolling_min_f64(x)
      BY DEF Slide
    <2> QED
      BY <1>6, <1>8, <1>10, <2>1 DEF fc_stats_rolling_min_f64
  <1>12. Queued(Append(SubSeq(left, 1, c), Len(data) + 1), values, Len(data') - window', Len(data'))
    BY ONLY RollingInv, Slide(x), x \in Sample, <1>5, <1>7, <1>8, <1>9, QueueSlides
  <1> QED
    BY <1>1, <1>11, <1>12

\* The greatest element is the opposite of the smallest opposite.
LEMMA LargestSlides ==
    ASSUME RollingInv, NEW x \in Sample, Slide(x)
    PROVE  Queued(rolling'.largest, Opposite(data'), Len(data') - window', Len(data'))
  <1>1. PICK values : values = Opposite(data')
    OBVIOUS
  <1>2. PICK old : old = Opposite(data)
    OBVIOUS
  <1>3. PICK y \in Int : y = -x
    BY SamplesAre
  <1>4. PICK L \in Nat : L = Len(data)
    BY DEF RollingInv
  <1>5. /\ data \in Seq(Sample) /\ data' \in Seq(Sample) /\ Len(data') = L + 1
        /\ \A e \in 1 .. L : data'[e] = data[e] /\ data[e] \in Int
        /\ data'[L + 1] = x /\ x \in Int
    BY <1>4, SomeStay, SamplesAre DEF RollingInv
  <1>6. DOMAIN data = 1 .. L /\ DOMAIN data' = 1 .. L + 1
    BY <1>4, <1>5
  <1>7. \A e \in 1 .. L : values[e] = -data[e] /\ old[e] = -data[e] /\ values[e] \in Int
    <2>1. \A e \in 1 .. L : e \in 1 .. L + 1
      OBVIOUS
    <2> QED
      BY <1>1, <1>2, <1>5, <1>6, <2>1 DEF Opposite
  <1>8. values[L + 1] = y
    BY <1>1, <1>3, <1>5, <1>6 DEF Opposite
  <1>9. PICK q : q = rolling.largest
    OBVIOUS
  <1>10. Queued(q, old, Len(data) - window, Len(data))
    BY <1>2, <1>9 DEF RollingInv
  <1>11. PICK left : left = Unexpired(q)
    OBVIOUS
  <1>12. \A i \in 1 .. Len(left) : left[i] \in 1 .. L
    <2>1. PICK past \in Int : past = Len(data) - window
      BY <1>4, SomeStay, WindowSizesAre
    <2>2. Queued(q, old, past, L) /\ L \in Nat /\ past \in Int
      BY <1>4, <1>10, <2>1
    <2>3. \A i \in 1 .. Len(q) : q[i] \in 1 .. L
      BY ONLY <2>2, QueuedIn
    <2>4. q \in Seq(Nat)
      BY <2>2 DEF Queued
    <2>5. CASE left = q
      BY <2>3, <2>5
    <2>6. CASE left # q
      <3>1. left = Tail(q) /\ q # <<>>
        BY <1>11, <2>6 DEF Unexpired
      <3>2. \A i \in 1 .. Len(left) : left[i] = q[i + 1] /\ i + 1 \in 1 .. Len(q)
        BY <2>4, <3>1
      <3> QED
        BY <2>3, <3>2
    <2> QED
      BY <2>5, <2>6
  <1>13. PICK c : c = LastOf(Hits(old, left, y))
    OBVIOUS
  <1>14. c = LastAbove(left, x)
    <2>1. \A i \in 1 .. Len(left) : old[left[i]] < y <=> data[left[i]] > x
      <3>1. ASSUME NEW i \in 1 .. Len(left) PROVE old[left[i]] < y <=> data[left[i]] > x
        <4>1. left[i] \in 1 .. L
          BY <1>12
        <4>2. PICK v \in Int : v = data[left[i]]
          BY <1>5, <4>1
        <4>3. old[left[i]] = -v
          BY <1>7, <4>1, <4>2
        <4> QED
          BY <1>3, <1>5, <4>2, <4>3
      <3> QED
        BY <3>1
    <2>2. Hits(old, left, y) = {i \in 1 .. Len(left) : data[left[i]] > x}
      BY <2>1 DEF Hits
    <2> QED
      BY <1>13, <2>2 DEF LastAbove, SelectLastInSeq, LastOf
  <1>15. rolling'.largest = Append(SubSeq(left, 1, c), Len(data) + 1)
    <2>1. rolling'.largest = fc_stats_rolling_max_f64(x)
      BY DEF Slide
    <2> QED
      BY <1>9, <1>11, <1>14, <2>1 DEF fc_stats_rolling_max_f64
  <1>16. GoOn(values, old, Len(data), y)
    BY <1>4, <1>7, <1>8 DEF GoOn
  <1>17. Queued(Append(SubSeq(left, 1, c), Len(data) + 1), values, Len(data') - window', Len(data'))
    BY ONLY RollingInv, Slide(x), x \in Sample, <1>10, <1>11, <1>13, <1>16, QueueSlides
  <1> QED
    BY <1>1, <1>15, <1>17

\* What is kept between two elements is what the elements of the window say.
THEOREM RollingInvariance == RollingSpec => []RollingInv
  <1>1. RollingInit => RollingInv
    BY EmptyIsExact DEF RollingInit
  <1>2. RollingInv /\ [RollingNext]_rollingVars => RollingInv'
    <2> SUFFICES ASSUME RollingInv, [RollingNext]_rollingVars PROVE RollingInv'
      OBVIOUS
    <2>1. (data = <<>> /\ rolling = NoRolling /\ window \in WindowSizes \cup {0} => RollingInv)'
      BY EmptyIsExact, PTL
    <2>2. CASE RollingCall
      <3>1. data' = <<>> /\ rolling' = NoRolling /\ window' \in WindowSizes \cup {0}
        BY <2>2 DEF RollingCall, RollingInv
      <3> QED
        BY <2>1, <3>1
    <2>3. CASE RollingReturn
      <3>1. data' = <<>> /\ rolling' = NoRolling /\ window' \in WindowSizes \cup {0}
        BY <2>3 DEF RollingReturn
      <3> QED
        BY <2>1, <3>1
    <2>4. ASSUME NEW x \in Sample, Slide(x) PROVE RollingInv'
      <3>1. window' \in WindowSizes \cup {0} /\ window' # 0
        <4>1. window > 0 /\ window' = window
          BY <2>4 DEF Slide
        <4>2. window \in WindowSizes \cup {0}
          BY DEF RollingInv
        <4> QED
          BY <4>1, <4>2
      <3>2. data' \in Seq(Sample) /\ data' # <<>>
        <4>1. data' \in Seq(Sample) /\ Len(data') = Len(data) + 1 /\ Len(data) \in Nat
          BY <2>4, SomeStay DEF RollingInv
        <4> QED
          BY <4>1
      <3>3. rolling'.sum = Total(Held')
        BY <2>4, SumSlides
      <3>4. Size(Held') = Len(data') + 1 - First'
        <4>1. PICK left : Stay(left, x)
          BY <2>4, SomeStay
        <4>2. PICK L \in Nat : L = Len(data)
          BY DEF RollingInv
        <4>3. PICK f \in Nat : f = First'
          BY <2>4, SomeStay
        <4>4. Size(left) = L + 1 - f /\ Len(data') = L + 1
          BY <2>4, <4>1, <4>2, <4>3, SomeStay DEF Stay
        <4>5. Size(Held') = Size(left) + 1
          BY <4>1, OneMore DEF Stay
        <4> QED
          BY <4>2, <4>3, <4>4, <4>5
      <3>5. window' > 1 => Describes(rolling'.moving, Held')
        BY <2>4, MovingSlides, SomeStay
      <3>6. /\ Queued(rolling'.smallest, data', Len(data') - window', Len(data'))
            /\ Queued(rolling'.largest, Opposite(data'), Len(data') - window', Len(data'))
        BY <2>4, SmallestSlides, LargestSlides
      <3>7. Opposite(data') = Opposite(data)'
        BY DEF Opposite
      <3> QED
        BY <3>1, <3>2, <3>3, <3>4, <3>5, <3>6, <3>7 DEF RollingInv
    <2>5. CASE UNCHANGED rollingVars
      BY <2>5 DEF RollingInv, rollingVars, Held, First
    <2> QED
      BY <2>2, <2>3, <2>4, <2>5 DEF RollingNext
  <1> QED
    BY <1>1, <1>2, PTL DEF RollingSpec

LEMMA RangeOfWindow ==
    ASSUME RollingInv, data # <<>>
    PROVE  /\ Range(InWindow) = {data[e] : e \in First .. Len(data)} /\ Len(InWindow) = Len(data) + 1 - First
           /\ Counted(NoSamples, InWindow) = Held
           /\ window \in 1 .. MaxCount /\ First \in 1 .. Len(data)
           /\ \A e \in 1 .. Len(data) : e >= First <=> e > Len(data) - window
           /\ Len(data) + 1 - First = IF Len(data) < window THEN Len(data) ELSE window
  <1>1. PICK L \in Nat \ {0} : L = Len(data)
    BY DEF RollingInv
  <1>2. window \in 1 .. MaxCount
    BY WindowSizesAre DEF RollingInv
  <1>3. PICK m \in Nat \ {0} : m = window
    BY <1>2, WindowSizesAre
  <1>4. PICK f \in Nat \ {0} : f = First /\ f <= L /\ f = IF L > m THEN L - m + 1 ELSE 1
    BY <1>1, <1>3 DEF First
  <1>5. data \in Seq(Sample)
    BY DEF RollingInv
  <1>6. InWindow = SubSeq(data, f, L)
    BY <1>1, <1>3, <1>4 DEF InWindow
  <1>7. PICK part : part = SubSeq(data, f, L)
    OBVIOUS
  <1>8. Len(part) = L + 1 - f /\ DOMAIN part = 1 .. L + 1 - f /\ \A i \in 1 .. L + 1 - f : part[i] = data[f + i - 1]
    <2>1. f <= L /\ L <= Len(data)
      BY <1>1, <1>4
    <2>2. L + 1 - f \in Nat
      BY <2>1
    <2>3. PICK n \in Nat : n = L + 1 - f
      BY <2>2
    <2>4. Len(part) = n /\ DOMAIN part = 1 .. n /\ \A i \in 1 .. n : part[i] = data[f + i - 1]
      BY <1>5, <1>7, <2>1, <2>3
    <2> QED
      BY <2>3, <2>4
  <1>9. Range(part) = {data[e] : e \in f .. L}
    <2>1. \A i \in 1 .. L + 1 - f : f + i - 1 \in f .. L
      OBVIOUS
    <2>2. \A e \in f .. L : e - f + 1 \in 1 .. L + 1 - f /\ f + (e - f + 1) - 1 = e
      OBVIOUS
    <2>3. \A e \in f .. L : part[e - f + 1] = data[e]
      BY <1>8, <2>2
    <2> QED
      BY <1>8, <2>1, <2>2, <2>3 DEF Range
  <1>10. Counted(NoSamples, part) = CountsIn(data, f, L)
    <2>1. f \in Nat \ {0} /\ L \in Nat /\ L <= Len(data) /\ f <= L + 1 /\ data \in Seq(Sample)
      BY <1>1, <1>4, <1>5
    <2> QED
      BY ONLY <1>7, <2>1, CountsInPart
  <1>11. \A e \in 1 .. L : e >= f <=> e > L - m
    BY <1>4
  <1>12. L + 1 - f = IF L < m THEN L ELSE m
    BY <1>4
  <1>13. Range(InWindow) = {data[e] : e \in First .. Len(data)}
    BY <1>1, <1>4, <1>6, <1>7, <1>9
  <1>14. Len(InWindow) = Len(data) + 1 - First
    BY <1>1, <1>4, <1>6, <1>7, <1>8
  <1>15. Counted(NoSamples, InWindow) = Held
    BY <1>1, <1>4, <1>6, <1>7, <1>10 DEF Held
  <1>16. First \in 1 .. Len(data)
    BY <1>1, <1>4
  <1>17. \A e \in 1 .. Len(data) : e >= First <=> e > Len(data) - window
    BY <1>1, <1>3, <1>4, <1>11
  <1>18. Len(data) + 1 - First = IF Len(data) < window THEN Len(data) ELSE window
    BY <1>1, <1>3, <1>4, <1>12
  <1> QED
    BY <1>2, <1>13, <1>14, <1>15, <1>16, <1>17, <1>18

LEMMA InvGivesRollingMoments ==
    ASSUME RollingInv
    PROVE  RollingMoments
  <1> SUFFICES ASSUME data # <<>> PROVE RollingMoments
    BY DEF RollingMoments
  <1>1. PICK d : d = Counted(NoSamples, InWindow)
    OBVIOUS
  <1>2. d = Held /\ window \in 1 .. MaxCount /\ First \in 1 .. Len(data)
    BY <1>1, RangeOfWindow
  <1>3. PICK n \in Nat \ {0} : n = Len(InWindow) /\ n = Len(data) + 1 - First
    <2>1. Len(data) \in Nat /\ First \in 1 .. Len(data)
      BY <1>2 DEF RollingInv
    <2> QED
      BY <2>1, RangeOfWindow
  <1>4. Size(d) = n /\ Total(d) = rolling.sum
    BY <1>2, <1>3 DEF RollingInv
  <1>5. fc_stats_rolling_mean_f64 = <<Total(d), n>>
    BY <1>3, <1>4, RangeOfWindow DEF fc_stats_rolling_mean_f64
  <1>6. ASSUME window > 1, NEW v, v = fc_welford_variance(rolling.moving, TRUE)
        PROVE  n * n * (n - 1) * v[1] = WScale * Central(d, Squared) * v[2]
    <2>1. Describes(rolling.moving, d)
      BY <1>2, <1>6 DEF RollingInv
    <2>2. /\ d \in [Sample -> Nat]
          /\ rolling.moving \in [count : 0 .. MaxCount, mean : Int, m2 : Nat] /\ Size(d) = rolling.moving.count
          /\ Size(d) > 0 => Size(d) * Size(d) * rolling.moving.m2 = WScale * SumFunction(SecondPowers(d))
      BY <2>1, FiguresTell, SamplesAre DEF Describes
    <2>3. PICK C \in Nat : C = SumFunction(SecondPowers(d))
      BY <2>2, SecondMomentIs
    <2>4. PICK m2 \in Nat : m2 = rolling.moving.m2
      BY <2>2
    <2>5. PICK W \in Nat : W = WScale
      BY SamplesAre
    <2>6. rolling.moving.count = n /\ (n * n) * m2 = W * C
      BY <1>4, <2>2, <2>3, <2>4, <2>5
    <2>7. Central(d, Squared) = C
      BY <2>3, SecondMoment
    <2>8. CASE n = 1
      <3>1. v = <<0, 1>>
        BY <1>6, <2>6, <2>8 DEF fc_welford_variance
      <3>2. C = 0
        <4>1. PICK place : place \in First .. Len(data) /\ First = Len(data) /\ place = First
          <5>1. Len(data) \in Nat /\ First \in Nat
            BY <1>2 DEF RollingInv
          <5>2. First = Len(data)
            BY <1>3, <2>8, <5>1
          <5> QED
            BY <5>1, <5>2
        <4>2. PICK y \in Sample : y = data[place]
          <5>1. data \in Seq(Sample) /\ place \in 1 .. Len(data)
            BY <1>2, <4>1 DEF RollingInv
          <5> QED
            BY <5>1
        <4>3. PICK lo \in Int : lo = place
          BY <1>2, <4>1 DEF RollingInv
        <4>4. PICK hi \in Int, next \in Int : hi = lo - 1 /\ next = lo
          OBVIOUS
        <4>5. CountsIn(data, lo, hi) = NoSamples
          BY <4>4, CountsInNone
        <4>6. next \notin lo .. hi /\ data[next] \in Sample /\ lo .. next = (lo .. hi) \cup {next}
          BY <4>2, <4>3, <4>4
        <4>7. PICK below \in Int : below = lo /\ below .. next = (lo .. hi) \cup {next}
          BY <4>6
        <4>8. PICK above \in Int : above = next /\ below .. above = (lo .. hi) \cup {next}
          BY <4>7
        <4>9. CountsIn(data, below, above) = [CountsIn(data, lo, hi) EXCEPT ![data[next]] = @ + 1]
          <5>1. /\ lo \in Int /\ hi \in Int /\ next \in Int /\ below \in Int /\ above \in Int
                /\ next \notin lo .. hi /\ data[next] \in Sample /\ below .. above = (lo .. hi) \cup {next}
            BY <4>6, <4>8
          <5> QED
            BY ONLY <5>1, CountsInGrow
        <4>10. d = [NoSamples EXCEPT ![y] = @ + 1]
          <5>1. CountsIn(data, below, above) = Held
            BY <4>1, <4>3, <4>4, <4>7, <4>8 DEF Held
          <5>2. data[next] = y
            BY <4>2, <4>3, <4>4
          <5> QED
            BY <1>2, <4>5, <4>9, <5>1, <5>2
        <4>11. NoSamples \in [Sample -> Nat] /\ Size(NoSamples) = 0
          BY InitDescribes DEF Describes, Figures, fc_welford_init
        <4>12. Total(NoSamples) = 0 /\ Squares(NoSamples) = 0
          BY <4>11, CountSums
        <4>13. PICK w \in Int : w = y
          BY SamplesAre
        <4>14. Size(d) = 1 /\ Total(d) = w /\ Squares(d) = w * w
          <5>1. Size(d) = Size(NoSamples) + 1 /\ Total(d) = Total(NoSamples) + y /\ Squares(d) = Squares(NoSamples) + y * y
            BY <4>10, <4>11, OneMore
          <5> QED
            BY <4>11, <4>12, <4>13, <5>1
        <4>15. C = 1 * (1 * (w * w) - w * w)
          BY <2>2, <2>3, <4>14, SecondMomentIs
        <4> QED
          BY <4>15
      <3>3. n * n * (n - 1) * 0 = 0 /\ W * 0 * 1 = 0
        OBVIOUS
      <3> QED
        BY <2>5, <2>7, <3>1, <3>2, <3>3
    <2>9. CASE n # 1
      <3>1. v = <<m2, n - 1>>
        BY <1>6, <2>2, <2>4, <2>6, <2>9 DEF fc_welford_variance
      <3>2. ((n * n) * (n - 1)) * m2 = (n - 1) * ((n * n) * m2) /\ (n - 1) * (W * C) = (W * C) * (n - 1)
        OBVIOUS
      <3>3. ((n * n) * (n - 1)) * v[1] = (W * C) * v[2]
        BY <2>6, <3>1, <3>2
      <3> QED
        BY <2>5, <2>7, <3>3
    <2> QED
      BY <2>8, <2>9
  <1>7. n = Len(InWindow)
    BY <1>3
  <1> QED
    BY <1>1, <1>5, <1>6, <1>7 DEF RollingMoments

LEMMA InvGivesExtremes ==
    ASSUME RollingInv
    PROVE  RollingExtremes
  <1> SUFFICES ASSUME data # <<>> PROVE RollingExtremes
    BY DEF RollingExtremes
  <1>1. PICK L \in Nat \ {0} : L = Len(data)
    BY DEF RollingInv
  <1>2. PICK m \in Nat \ {0} : m = window
    BY RangeOfWindow, WindowSizesAre
  <1>3. PICK past \in Int : past = L - m
    OBVIOUS
  <1>4. PICK f \in 1 .. L : f = First
    BY <1>1, RangeOfWindow
  <1>5. Range(InWindow) = {data[e] : e \in f .. L} /\ \A e \in 1 .. L : e >= f <=> e > past
    BY <1>1, <1>2, <1>3, <1>4, RangeOfWindow
  <1>6. data \in Seq(Sample) /\ DOMAIN data = 1 .. L /\ \A e \in 1 .. L : data[e] \in Int
    <2>1. data \in Seq(Sample)
      BY DEF RollingInv
    <2>2. DOMAIN data = 1 .. L /\ \A e \in 1 .. L : data[e] \in Sample
      BY <1>1, <2>1
    <2> QED
      BY <2>1, <2>2, SamplesAre
  <1>7. PICK q : q = rolling.smallest
    OBVIOUS
  <1>8. PICK p : p = rolling.largest
    OBVIOUS
  <1>9. PICK values : values = Opposite(data)
    OBVIOUS
  <1>10. \A e \in 1 .. L : values[e] = -data[e] /\ values[e] \in Int
    BY <1>6, <1>9 DEF Opposite
  <1>11. past < L
    BY <1>3
  <1>12. /\ q # <<>> /\ Head(q) = q[1] /\ q[1] \in 1 .. L /\ q[1] > past
         /\ Len(q) + past <= L /\ Len(q) <= L
         /\ \A e \in 1 .. L : e > past => data[q[1]] <= data[e]
    <2>1. Queued(q, data, past, L) /\ \A e \in 1 .. L : data[e] \in Int
      BY <1>1, <1>2, <1>3, <1>6, <1>7 DEF RollingInv
    <2>2. L \in Nat \ {0} /\ past \in Int
      OBVIOUS
    <2> QED
      BY ONLY <1>11, <2>1, <2>2, QueueFront
  <1>13. /\ p # <<>> /\ Head(p) = p[1] /\ p[1] \in 1 .. L /\ p[1] > past
         /\ Len(p) + past <= L /\ Len(p) <= L
         /\ \A e \in 1 .. L : e > past => values[p[1]] <= values[e]
    <2>1. Queued(p, values, past, L) /\ \A e \in 1 .. L : values[e] \in Int
      BY <1>1, <1>2, <1>3, <1>8, <1>9, <1>10 DEF RollingInv
    <2>2. L \in Nat \ {0} /\ past \in Int
      OBVIOUS
    <2> QED
      BY ONLY <1>11, <2>1, <2>2, QueueFront
  <1>14. PICK S : S = Range(InWindow)
    OBVIOUS
  <1>15. S \in SUBSET Int
    BY <1>4, <1>5, <1>6, <1>14
  <1>16. data[Head(q)] = Min(S)
    <2>1. data[q[1]] \in S
      BY <1>4, <1>5, <1>12, <1>14
    <2>2. \A y \in S : data[q[1]] <= y
      <3>1. \A e \in f .. L : e \in 1 .. L /\ e > past
        BY <1>4, <1>5
      <3> QED
        BY <1>5, <1>12, <1>14, <3>1
    <2>3. Min(S) \in S /\ \A y \in S : Min(S) <= y
      BY <2>1, <2>2 DEF Min
    <2>4. data[q[1]] \in Int /\ Min(S) \in Int
      BY <1>15, <2>1, <2>3
    <2> QED
      BY <1>12, <2>1, <2>2, <2>3, <2>4
  <1>17. data[Head(p)] = Max(S)
    <2>1. data[p[1]] \in S
      BY <1>4, <1>5, <1>13, <1>14
    <2>2. \A y \in S : data[p[1]] >= y
      <3>1. ASSUME NEW e \in f .. L PROVE data[p[1]] >= data[e]
        <4>1. e \in 1 .. L /\ e > past
          BY <1>4, <1>5
        <4>2. values[p[1]] <= values[e]
          BY <1>13, <4>1
        <4> QED
          BY <1>6, <1>10, <1>13, <4>1, <4>2
      <3> QED
        BY <1>5, <1>14, <3>1
    <2>3. Max(S) \in S /\ \A y \in S : Max(S) >= y
      BY <2>1, <2>2 DEF Max
    <2>4. data[p[1]] \in Int /\ Max(S) \in Int
      BY <1>15, <2>1, <2>3
    <2> QED
      BY <1>13, <2>1, <2>2, <2>3, <2>4
  <1>18. Len(q) <= m /\ Len(p) <= m
    <2>1. Len(q) \in Nat /\ Len(p) \in Nat
      BY <1>7, <1>8 DEF RollingInv, Queued
    <2> QED
      BY <1>3, <1>12, <1>13, <2>1
  <1> QED
    BY <1>2, <1>7, <1>8, <1>14, <1>16, <1>17, <1>18 DEF RollingExtremes

LEMMA InvGivesRolling ==
    ASSUME RollingInv
    PROVE  RollingExact
  BY InvGivesRollingMoments, InvGivesExtremes DEF RollingExact

\* Element by element, the sum, the mean, the variance and the extremes of the rolling
\* functions are those of the window alone, and a deque is never longer than the window.
THEOREM WindowsAreExact == RollingSpec => []RollingExact
  <1>1. RollingInv => RollingExact
    BY InvGivesRolling
  <1> QED
    BY <1>1, RollingInvariance, PTL

\* Together: what is computed element by element is what the elements say, of a stream, of
\* its moments and of a window.
THEOREM StreamingIsExact == WelfordSpec /\ MomentsSpec /\ RollingSpec => []StreamingExact
  <1>1. WelfordTypeOK /\ WelfordExact /\ MomentsExact /\ RollingExact => StreamingExact
    BY DEF StreamingExact
  <1> QED
    BY <1>1, StreamsAreExact, MomentsAreExact, WindowsAreExact, PTL

=============================================================================
