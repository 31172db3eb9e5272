------------------------- MODULE BindingArgs_proofs -------------------------
(***************************************************************************)
(* Proofs about BindingArgs for every width of an int, every length and    *)
(* every matrix that fits in memory: what the Go checks let through, C     *)
(* does not refuse, does not read or write outside the slices, and sees    *)
(* the counts the caller gave.                                             *)
(***************************************************************************)
EXTENDS BindingArgs, SequenceTheorems, TLAPS

\* What a binding has established when it is in C, when it panics and when it returns.
BindingInv ==
    /\ call \in Calls
    /\ phase \in {"called", "inC", "done"}
    /\ code \in -8 .. 2 ^ Width
    /\ answer \in {"none", "ok", "err", "panic"} /\ (answer # "none" <=> phase = "done")
    /\ phase = "inC" => ~Refuses(call) /\ ~Panics(call)
    /\ answer = "panic" => ~Refuses(call) /\ Panics(call)
    /\ answer = "ok" => /\ ~Refuses(call) /\ ~Panics(call)
                        /\ code \in Codes(call) /\ Succeeds(call, code)

----------------------------------------------------------------------------
(* Integers of Width bits.                                                  *)

LEMMA SmallCounts ==
    ASSUME NEW n \in Ints, n >= 0
    PROVE  n \in Nat /\ size_t(n) = n
  <1> DEFINE h == 2 ^ (Width - 1)
  <1>1. h \in Nat \ {0} /\ 2 ^ Width = 2 * h /\ Ints \subseteq -h .. h - 1
    BY WidthAssumption, IntsAssumption
  <1>2. n \in 0 .. h - 1
    <2> HIDE DEF h
    <2> QED
      BY <1>1
  <1>3. n % (2 * h) = n
    <2> HIDE DEF h
    <2> QED
      BY <1>1, <1>2
  <1> QED
    BY <1>1, <1>2, <1>3 DEF size_t

LEMMA ZeroCounts ==
    ASSUME NEW n \in Ints, size_t(n) = 0
    PROVE  n = 0
  <1> DEFINE h == 2 ^ (Width - 1)
  <1>1. h \in Nat \ {0} /\ 2 ^ Width = 2 * h /\ Ints \subseteq -h .. h - 1
    BY WidthAssumption, IntsAssumption
  <1>2. n \in -h .. h - 1 /\ n % (2 * h) = 0
    <2>1. n % (2 ^ Width) = 0
      BY DEF size_t
    <2> HIDE DEF h
    <2> QED
      BY <1>1, <2>1
  <1>3. n = 0
    <2> HIDE DEF h
    <2>1. CASE n < 0
      <3>1. (n + 2 * h) % (2 * h) = n + 2 * h
        BY <1>1, <1>2, <2>1
      <3>2. (n + 2 * h) % (2 * h) = n % (2 * h)
        BY <1>1, <1>2, Z3
      <3> QED
        BY <1>1, <1>2, <2>1, <3>1, <3>2
    <2>2. CASE n >= 0
      <3>1. n % (2 * h) = n
        BY <1>1, <1>2, <2>2
      <3> QED
        BY <1>2, <3>1
    <2> QED
      BY <1>1, <1>2, <2>1, <2>2
  <1> QED
    BY <1>3

LEMMA InRangeStays ==
    ASSUME NEW x \in Nat, x < 2 ^ (Width - 1)
    PROVE  Wrap(x) = x
  <1> DEFINE h == 2 ^ (Width - 1)
  <1>1. h \in Nat \ {0} /\ 2 ^ Width = 2 * h
    BY WidthAssumption
  <1>2. (x + h) % (2 * h) = x + h
    <2> HIDE DEF h
    <2>1. x < h
      BY DEF h
    <2> QED
      BY <1>1, <2>1
  <1>3. (x + h) - h = x
    <2> HIDE DEF h
    <2> QED
      BY <1>1
  <1> QED
    BY <1>1, <1>2, <1>3 DEF Wrap

----------------------------------------------------------------------------
(* Sequences of sizes.                                                      *)

LEMMA Joined ==
    ASSUME NEW S, NEW s \in Seq(S), NEW t \in Seq(S)
    PROVE  /\ s \o t \in Seq(S) /\ Len(s \o t) = Len(s) + Len(t)
           /\ Len(s) \in Nat /\ Len(t) \in Nat
           /\ DOMAIN (s \o t) = 1 .. Len(s) + Len(t)
           /\ \A i \in 1 .. Len(s) : (s \o t)[i] = s[i]
           /\ \A i \in 1 .. Len(t) : (s \o t)[Len(s) + i] = t[i]
           /\ \A i \in 1 .. Len(s) + Len(t) : (s \o t)[i] \in {s[j] : j \in 1 .. Len(s)} \cup {t[j] : j \in 1 .. Len(t)}
  <1>1. Len(s) \in Nat /\ Len(t) \in Nat
    BY LenProperties
  <1>2. /\ s \o t \in Seq(S) /\ Len(s \o t) = Len(s) + Len(t)
        /\ \A i \in 1 .. Len(s) + Len(t) : (s \o t)[i] = IF i <= Len(s) THEN s[i] ELSE t[i - Len(s)]
    BY ConcatProperties
  <1>3. ASSUME NEW i \in 1 .. Len(t) PROVE (s \o t)[Len(s) + i] = t[i]
    <2>1. Len(s) + i \in 1 .. Len(s) + Len(t) /\ ~(Len(s) + i <= Len(s)) /\ (Len(s) + i) - Len(s) = i
      BY <1>1
    <2> QED
      BY <1>2, <2>1
  <1>4. \A i \in 1 .. Len(s) : (s \o t)[i] = s[i]
    BY <1>1, <1>2
  <1>5. ASSUME NEW i \in 1 .. Len(s) + Len(t)
        PROVE  (s \o t)[i] \in {s[j] : j \in 1 .. Len(s)} \cup {t[j] : j \in 1 .. Len(t)}
    <2>1. CASE i <= Len(s)
      BY <1>1, <1>4, <2>1
    <2>2. CASE ~(i <= Len(s))
      <3>1. i - Len(s) \in 1 .. Len(t)
        BY <1>1, <2>2
      <3> QED
        BY <1>2, <2>2, <3>1
    <2> QED
      BY <2>1, <2>2
  <1>6. DOMAIN (s \o t) = 1 .. Len(s) + Len(t)
    BY <1>2, LenProperties
  <1> QED
    BY <1>1, <1>2, <1>3, <1>4, <1>5, <1>6

LEMMA ThreeAndMore ==
    ASSUME NEW a \in Int, NEW b \in Int, NEW d \in Int, NEW e \in Int
    PROVE  /\ <<a, b, d>> \o <<>> = <<a, b, d>> /\ <<a, b, d, e>> \o <<>> = <<a, b, d, e>>
           /\ <<a, b, d>> \o <<e>> = <<a, b, d, e>>
  <1>1. <<a, b, d>> \in Seq(Int) /\ <<a, b, d, e>> \in Seq(Int) /\ <<e>> \in Seq(Int)
    OBVIOUS
  <1>2. <<a, b, d>> \o <<>> = <<a, b, d>> /\ <<a, b, d, e>> \o <<>> = <<a, b, d, e>>
    BY <1>1, ConcatEmptySeq
  <1> DEFINE s == <<a, b, d>>
             t == <<e>>
             r == <<a, b, d, e>>
  <1>3. /\ s \in Seq(Int) /\ t \in Seq(Int) /\ r \in Seq(Int) /\ Len(s) = 3 /\ Len(t) = 1 /\ Len(r) = 4
        /\ r[1] = s[1] /\ r[2] = s[2] /\ r[3] = s[3] /\ r[4] = t[1]
    OBVIOUS
  <1> HIDE DEF s, t, r
  <1>4. /\ s \o t \in Seq(Int) /\ Len(s \o t) = 4
        /\ \A i \in 1 .. 3 : (s \o t)[i] = s[i]
        /\ (s \o t)[4] = t[1]
    <2>1. /\ s \o t \in Seq(Int) /\ Len(s \o t) = Len(s) + Len(t)
          /\ \A i \in 1 .. Len(s) + Len(t) : (s \o t)[i] = IF i <= Len(s) THEN s[i] ELSE t[i - Len(s)]
      BY <1>3, ConcatProperties
    <2> QED
      BY <1>3, <2>1
  <1>5. \A i \in 1 .. Len(s \o t) : (s \o t)[i] = r[i]
    <2>1. \A i \in 1 .. 4 : i = 4 \/ i \in 1 .. 3
      OBVIOUS
    <2> QED
      BY <1>3, <1>4, <2>1
  <1>6. s \o t = r
    BY <1>3, <1>4, <1>5, SeqEqual
  <1> QED
    BY <1>2, <1>6 DEF s, t, r

LEMMA OneAndMore ==
    ASSUME NEW a \in Int
    PROVE  /\ \A b \in Int : <<a>> \o <<b>> = <<a, b>>
           /\ \A b, d \in Int : <<a>> \o <<b, d>> = <<a, b, d>>
           /\ \A b, d, e \in Int : <<a>> \o <<b, d, e>> = <<a, b, d, e>>
  <1>1. ASSUME NEW t \in Seq(Int), NEW r \in Seq(Int), Len(r) = 1 + Len(t), r[1] = a,
               \A i \in 1 .. Len(t) : r[1 + i] = t[i]
        PROVE  <<a>> \o t = r
    <2> DEFINE s == <<a>>
    <2>1. s \in Seq(Int) /\ Len(s) = 1 /\ s[1] = a
      OBVIOUS
    <2>2. Len(t) \in Nat
      BY LenProperties
    <2> HIDE DEF s
    <2>3. /\ s \o t \in Seq(Int) /\ Len(s \o t) = Len(s) + Len(t)
          /\ \A i \in 1 .. Len(s) + Len(t) : (s \o t)[i] = IF i <= Len(s) THEN s[i] ELSE t[i - Len(s)]
      BY <2>1, ConcatProperties
    <2>4. ASSUME NEW i \in 1 .. Len(r) PROVE (s \o t)[i] = r[i]
      <3>1. CASE i = 1
        BY <1>1, <2>1, <2>2, <2>3, <3>1
      <3>2. CASE i # 1
        <4>1. /\ i - 1 \in 1 .. Len(t) /\ 1 + (i - 1) = i /\ ~(i <= Len(s))
              /\ i \in 1 .. Len(s) + Len(t) /\ i - Len(s) = i - 1
          BY <1>1, <2>1, <2>2, <3>2
        <4> QED
          BY <1>1, <2>3, <4>1
      <3> QED
        BY <3>1, <3>2
    <2>5. Len(s \o t) = Len(r)
      BY <1>1, <2>1, <2>3
    <2>6. s \o t = r
      BY <2>3, <2>4, <2>5, SeqEqual
    <2> QED
      BY <2>6 DEF s
  <1>2. ASSUME NEW b \in Int PROVE <<a>> \o <<b>> = <<a, b>>
    <2> DEFINE t == <<b>>
               r == <<a, b>>
    <2>1. /\ t \in Seq(Int) /\ r \in Seq(Int) /\ Len(t) = 1 /\ Len(r) = 1 + 1
          /\ r[1] = a /\ r[1 + 1] = t[1]
      OBVIOUS
    <2> HIDE DEF t, r
    <2>2. \A i \in 1 .. Len(t) : r[1 + i] = t[i]
      BY <2>1
    <2>3. <<a>> \o t = r
      BY <1>1, <2>1, <2>2
    <2> QED
      BY <2>3 DEF t, r
  <1>3. ASSUME NEW b \in Int, NEW d \in Int PROVE <<a>> \o <<b, d>> = <<a, b, d>>
    <2> DEFINE t == <<b, d>>
               r == <<a, b, d>>
    <2>1. /\ t \in Seq(Int) /\ r \in Seq(Int) /\ Len(t) = 2 /\ Len(r) = 1 + 2
          /\ r[1] = a /\ r[1 + 1] = t[1] /\ r[1 + 2] = t[2]
      OBVIOUS
    <2> HIDE DEF t, r
    <2>2. \A i \in 1 .. Len(t) : r[1 + i] = t[i]
      BY <2>1
    <2>3. <<a>> \o t = r
      BY <1>1, <2>1, <2>2
    <2> QED
      BY <2>3 DEF t, r
  <1>4. ASSUME NEW b \in Int, NEW d \in Int, NEW e \in Int PROVE <<a>> \o <<b, d, e>> = <<a, b, d, e>>
    <2> DEFINE t == <<b, d, e>>
               r == <<a, b, d, e>>
    <2>1. /\ t \in Seq(Int) /\ r \in Seq(Int) /\ Len(t) = 3 /\ Len(r) = 1 + 3
          /\ r[1] = a /\ r[1 + 1] = t[1] /\ r[1 + 2] = t[2] /\ r[1 + 3] = t[3]
      OBVIOUS
    <2> HIDE DEF t, r
    <2>2. \A i \in 1 .. Len(t) : r[1 + i] = t[i]
      BY <2>1
    <2>3. <<a>> \o t = r
      BY <1>1, <2>1, <2>2
    <2> QED
      BY <2>3 DEF t, r
  <1> QED
    BY <1>2, <1>3, <1>4

LEMMA FunctionsAreSequences ==
    ASSUME NEW S, NEW n \in Nat, NEW f \in [1 .. n -> S]
    PROVE  f \in Seq(S) /\ Len(f) = n
  <1>1. f \in Seq(S)
    BY SeqDef
  <1>2. Len(f) \in Nat /\ 1 .. Len(f) = 1 .. n
    BY <1>1, LenProperties
  <1> QED
    BY <1>1, <1>2

----------------------------------------------------------------------------
(* The calls.                                                               *)

LEMMA CallShapes ==
    ASSUME NEW c \in Calls
    PROVE  /\ c.fn \in LeastSquares =>
                  /\ c.n \in Ints /\ c.p \in Ints /\ c.batch \in Ints
                  /\ c.intercept \in BOOLEAN /\ c.residuals \in BOOLEAN
                  /\ c.X \in Nat /\ c.y \in Nat /\ c.work \in Nat
                  /\ c.fn # "LeastSquaresBatch" => c.batch = 1
                  /\ c.fn # "LeastSquaresExt" => ~c.residuals
           /\ c.fn \in {"VarHistorical", "VarParametricFromReturns"} =>
                  c.in \in [1 .. 1 -> Nat] /\ c.out = <<>>
           /\ c.fn = "VarParametricBatch" => c.in \in [1 .. 2 -> Nat] /\ c.out = <<>>
           /\ c.fn = "GreeksBatch" => c.in \in [1 .. 6 -> Nat] /\ c.out \in [1 .. 5 -> Nat \cup {Nil}]
           /\ c.fn \in Tables =>
                  /\ c.rows \in Rows /\ c.weights \in Rows
                  /\ c.fn = "VarHistoricalPortfolio" => Len(c.weights) = 1
                  /\ c.fn = "VarHistoricalBatchFromReturns" => c.weights = <<>>
           /\ c.fn \in Flat =>
                  /\ c.dim \in Ints /\ c.periods \in Ints /\ c.paths \in Ints
                  /\ c.returns \in Nat /\ c.weights \in Nat
           /\ c.fn \in LeastSquares \cup Columns \cup Tables \cup Flat \cup {"VarParametric"}
  <1> USE ValuesAssumption DEF LeastSquares, Columns, Tables, Flat
  <1> DEFINE Regression == [fn : LeastSquares, n : Ints, p : Ints, batch : Ints, intercept : BOOLEAN,
                            residuals : BOOLEAN, X : Lens, y : Lens, work : WorkLens \cup {0}]
             Table == [fn : Tables, rows : Rows, weights : Rows]
  <1>1. CASE /\ c \in Regression
             /\ c.fn # "LeastSquaresBatch" => c.batch = 1
             /\ c.fn # "LeastSquaresExt" => ~c.residuals
    <2>1. /\ c.fn \in LeastSquares /\ c.n \in Ints /\ c.p \in Ints /\ c.batch \in Ints
          /\ c.intercept \in BOOLEAN /\ c.residuals \in BOOLEAN
          /\ c.X \in Lens /\ c.y \in Lens /\ c.work \in WorkLens \cup {0}
      BY <1>1
    <2> QED
      BY <1>1, <2>1
  <1>2. CASE c \in [fn : {"VarHistorical", "VarParametricFromReturns"}, in : [1 .. 1 -> Lens], out : {<<>>}]
    BY <1>2
  <1>3. CASE c \in [fn : {"VarParametricBatch"}, in : [1 .. 2 -> Lens], out : {<<>>}]
    BY <1>3
  <1>4. CASE c \in [fn : {"GreeksBatch"}, in : [1 .. 6 -> Short], out : [1 .. 5 -> Short \cup {Nil}]]
    BY <1>4 DEF Short
  <1>5. CASE /\ c \in Table
             /\ c.fn = "VarHistoricalPortfolio" => Len(c.weights) = 1
             /\ c.fn = "VarHistoricalBatchFromReturns" => c.weights = <<>>
    BY <1>5
  <1>6. CASE c \in [fn : {"VarParametric"}]
    BY <1>6
  <1>7. CASE c \in [fn : Flat, dim : Ints, periods : Ints, paths : Ints, returns : Lens, weights : Lens]
    BY <1>7
  <1> QED
    BY <1>1, <1>2, <1>3, <1>4, <1>5, <1>6, <1>7 DEF Calls

\* The buffers are as long as C takes them to be.
Fits(c) ==
    /\ Len(Contract(c).extents) = Len(Buffers(c))
    /\ \A i \in DOMAIN Contract(c).extents :
          Buffers(c)[i] = Nil \/ Contract(c).extents[i] <= Buffers(c)[i]

----------------------------------------------------------------------------
(* Least squares.                                                           *)

\* What the checks leave of the sizes.
LEMMA RegressionCounts ==
    ASSUME NEW c \in Calls, c.fn \in LeastSquares, ~Refuses(c)
    PROVE  /\ c.n \in Nat \ {0} /\ c.p \in Nat \ {0} /\ c.batch \in Nat \ {0}
           /\ size_t(c.n) = c.n /\ size_t(c.p) = c.p /\ size_t(c.batch) = c.batch
           /\ Betas(c) = Coefficients(c) /\ Coefficients(c) \in Nat \ {0}
           /\ ~RegressionSizes(c)
           /\ ~(c.X < Wrap(c.batch * c.n * c.p)) /\ ~(c.y < Wrap(c.batch * c.n))
           /\ ~(c.fn = "LeastSquaresWork" /\ c.work < Wrap(WorkSize(c)))
  <1>1. ~LeastSquaresRefuses(c)
    BY DEF Refuses
  <1>2. /\ c.n \in Ints /\ c.p \in Ints /\ c.batch \in Ints /\ c.intercept \in BOOLEAN
        /\ c.X \in Nat /\ c.y \in Nat /\ c.work \in Nat
    BY CallShapes
  <1>3. Ints \subseteq Int
    BY WidthAssumption, IntsAssumption
  <1>4. /\ ~(c.n <= 0) /\ ~(c.p <= 0) /\ ~(c.batch <= 0)
        /\ ~(c.intercept /\ c.n <= c.p) /\ ~(~c.intercept /\ c.n < c.p)
        /\ ~(c.X < Wrap(c.batch * c.n * c.p)) /\ ~(c.y < Wrap(c.batch * c.n))
        /\ ~(c.fn = "LeastSquaresWork" /\ c.work < Wrap(WorkSize(c)))
    BY <1>1 DEF LeastSquaresRefuses
  <1>5. \A x \in Ints : ~(x <= 0) => x >= 0 /\ x \in Nat \ {0}
    BY <1>3
  <1>6. size_t(c.n) = c.n /\ size_t(c.p) = c.p /\ size_t(c.batch) = c.batch
    BY <1>2, <1>4, <1>5, SmallCounts
  <1>7. c.n \in Nat \ {0} /\ c.p \in Nat \ {0} /\ c.batch \in Nat \ {0}
    BY <1>2, <1>4, <1>5
  <1>8. Betas(c) = Coefficients(c) /\ Coefficients(c) \in Nat \ {0}
    BY <1>2, <1>6, <1>7 DEF Betas, Coefficients
  <1>9. ~RegressionSizes(c)
    BY <1>4, <1>6, <1>7 DEF RegressionSizes
  <1> QED
    BY <1>4, <1>6, <1>7, <1>8, <1>9


\* Unless a product wraps, the slices are as long as C takes them to be, and none is
\* empty.
LEMMA RegressionFits ==
    ASSUME NEW c \in Calls, c.fn \in LeastSquares, ~Refuses(c), NoWrap(c)
    PROVE  Fits(c) /\ ~Panics(c)
  <1>1. PICK n, p, b, q : n = c.n /\ p = c.p /\ b = c.batch /\ q = Coefficients(c)
    OBVIOUS
  <1>2. n \in Nat \ {0} /\ p \in Nat \ {0} /\ b \in Nat \ {0} /\ q \in Nat \ {0}
    BY <1>1, RegressionCounts
  <1>3. size_t(c.n) = n /\ size_t(c.p) = p /\ size_t(c.batch) = b /\ Betas(c) = q
    BY <1>1, RegressionCounts
  <1>4. /\ c.X \in Nat /\ c.y \in Nat /\ c.work \in Nat /\ c.intercept \in BOOLEAN
        /\ c.fn # "LeastSquaresBatch" => b = 1
        /\ c.fn # "LeastSquaresExt" => ~c.residuals
    BY <1>1, CallShapes
  <1>5. c.X >= b * n * p /\ c.y >= b * n /\ Wrap(b * q) = b * q
    <2>1. Wrap(b * n * p) = b * n * p /\ Wrap(b * n) = b * n /\ Wrap(b * q) = b * q
      BY <1>1 DEF NoWrap, Products
    <2>2. b * n * p \in Nat /\ b * n \in Nat
      BY <1>2
    <2>3. ~(c.X < b * n * p) /\ ~(c.y < b * n)
      BY <1>1, <2>1, RegressionCounts
    <2> QED
      BY <1>4, <2>1, <2>2, <2>3
  <1> DEFINE W == IF c.intercept THEN n * q + n + q ELSE n + q
  <1>6. W \in Nat \ {0} /\ (c.fn = "LeastSquaresWork" => c.work >= W)
    <2>1. q = IF c.intercept THEN p + 1 ELSE p
      BY <1>1 DEF Coefficients
    <2>2. WorkSize(c) = W
      BY <1>1, <1>2, <1>4, <2>1 DEF WorkSize
    <2>3. W \in Nat \ {0}
      BY <1>2
    <2>4. c.fn = "LeastSquaresWork" => Wrap(WorkSize(c)) = WorkSize(c) /\ ~(c.work < Wrap(WorkSize(c)))
      BY RegressionCounts DEF NoWrap, Products
    <2> HIDE DEF W
    <2> QED
      BY <1>4, <2>2, <2>3, <2>4
  <1>7. /\ n * p \in Nat \ {0} /\ b * n * p = b * (n * p) /\ b * n * p \in Nat \ {0}
        /\ b * n \in Nat \ {0} /\ b * q \in Nat \ {0} /\ 1 * n * p = n * p /\ 1 * n = n /\ 1 * q = q
    BY <1>2
  <1> HIDE DEF W
  <1>8. CASE c.fn = "LeastSquares"
    <2>1. Contract(c).extents = <<n * p, n, q>>
      BY <1>1, <1>3, <1>8 DEF Contract, fc_optim_least_squares
    <2>2. Buffers(c) = <<c.X, c.y, q>>
      <3>1. Buffers(c) = (<<c.X, c.y, q>> \o <<>>) \o <<>>
        BY <1>1, <1>4, <1>5, <1>7, <1>8 DEF Buffers, LeastSquares, LeastSquaresBuffers
      <3> QED
        BY <1>2, <1>4, <1>7, <3>1, ThreeAndMore
    <2>3. c.X >= n * p /\ c.y >= n
      BY <1>4, <1>5, <1>7, <1>8
    <2> QED
      BY <1>2, <1>4, <1>7, <1>8, <2>1, <2>2, <2>3 DEF Fits, Panics, Tables
  <1>9. CASE c.fn = "LeastSquaresWork"
    <2>1. Contract(c).extents = <<n * p, n, q, W>>
      <3>1. fc_optim_least_squares(c).extents = <<n * p, n, q>>
        BY <1>1, <1>3 DEF fc_optim_least_squares
      <3>2. Contract(c).extents = fc_optim_least_squares(c).extents \o <<W>>
        BY <1>1, <1>3, <1>9 DEF Contract, fc_optim_least_squares_work, fc_optim_least_squares, W
      <3> QED
        BY <1>2, <1>6, <1>7, <3>1, <3>2, ThreeAndMore
    <2>2. Buffers(c) = <<c.X, c.y, q, c.work>>
      <3>1. Buffers(c) = (<<c.X, c.y, q>> \o <<c.work>>) \o <<>>
        BY <1>1, <1>4, <1>5, <1>7, <1>9 DEF Buffers, LeastSquares, LeastSquaresBuffers
      <3> QED
        BY <1>2, <1>4, <1>7, <3>1, ThreeAndMore
    <2>3. c.X >= n * p /\ c.y >= n
      BY <1>4, <1>5, <1>7, <1>9
    <2> QED
      BY <1>2, <1>4, <1>6, <1>7, <1>9, <2>1, <2>2, <2>3 DEF Fits, Panics, Tables
  <1>10. CASE c.fn = "LeastSquaresBatch"
    <2>1. Contract(c).extents = <<b * n * p, b * n, b * q>>
      BY <1>1, <1>3, <1>10 DEF Contract, fc_optim_least_squares_batch
    <2>2. Buffers(c) = <<c.X, c.y, b * q>>
      <3>1. Buffers(c) = (<<c.X, c.y, b * q>> \o <<>>) \o <<>>
        BY <1>1, <1>4, <1>5, <1>7, <1>10 DEF Buffers, LeastSquares, LeastSquaresBuffers
      <3> QED
        BY <1>2, <1>4, <1>7, <3>1, ThreeAndMore
    <2> QED
      BY <1>2, <1>4, <1>5, <1>7, <1>10, <2>1, <2>2 DEF Fits, Panics, Tables
  <1>11. CASE c.fn = "LeastSquaresExt"
    <2> DEFINE e == fc_optim_least_squares(c).extents
    <2>1. e = <<n * p, n, q>>
      BY <1>1, <1>3 DEF fc_optim_least_squares
    <2>2. Contract(c).extents = e \o (IF c.residuals THEN <<n>> ELSE <<>>)
      BY <1>1, <1>3, <1>11 DEF Contract, fc_optim_least_squares_ext, fc_optim_least_squares
    <2>3. Buffers(c) = (<<c.X, c.y, q>> \o <<>>) \o (IF c.residuals THEN <<n>> ELSE <<>>)
      BY <1>1, <1>4, <1>5, <1>7, <1>11 DEF Buffers, LeastSquares, LeastSquaresBuffers
    <2>4. c.X >= n * p /\ c.y >= n
      BY <1>4, <1>5, <1>7, <1>11
    <2>5. CASE c.residuals
      <3>1. Contract(c).extents = <<n * p, n, q>> \o <<n>>
        BY <2>1, <2>2, <2>5
      <3>2. Contract(c).extents = <<n * p, n, q, n>>
        BY <1>2, <1>7, <3>1, ThreeAndMore
      <3>3. Buffers(c) = (<<c.X, c.y, q>> \o <<>>) \o <<n>>
        BY <2>3, <2>5
      <3>4. Buffers(c) = <<c.X, c.y, q, n>>
        BY <1>2, <1>4, <3>3, ThreeAndMore
      <3> QED
        BY <1>2, <1>4, <1>7, <1>11, <2>4, <3>2, <3>4 DEF Fits, Panics, Tables
    <2>6. CASE ~c.residuals
      <3>1. Contract(c).extents = <<n * p, n, q>> /\ Buffers(c) = <<c.X, c.y, q>>
        BY <1>2, <1>4, <1>7, <2>1, <2>2, <2>3, <2>6, ThreeAndMore
      <3> QED
        BY <1>2, <1>4, <1>7, <1>11, <2>4, <3>1 DEF Fits, Panics, Tables
    <2> QED
      BY <2>5, <2>6
  <1> QED
    BY <1>8, <1>9, <1>10, <1>11 DEF LeastSquares


----------------------------------------------------------------------------
(* Slices of one length.                                                    *)

LEMMA ColumnsBuffersAlike ==
    ASSUME NEW c \in Calls, c.fn \in Columns, ~Refuses(c)
    PROVE  /\ c.in[1] \in Nat \ {0}
           /\ c.fn = "VarParametricFromReturns" => c.in[1] >= 2
           /\ Len(Buffers(c)) = IF c.fn = "VarParametricBatch" THEN 4
                                ELSE IF c.fn = "GreeksBatch" THEN 11 ELSE 1
           /\ DOMAIN Buffers(c) = 1 .. Len(Buffers(c))
           /\ \A i \in DOMAIN Buffers(c) : Buffers(c)[i] \in {Nil, c.in[1]}
  <1>1. ~ColumnsRefuses(c)
    BY DEF Refuses
  <1> DEFINE S == Nat \cup {Nil}
  <1>2. PICK n \in {1, 2, 6} : /\ c.in \in [1 .. n -> Nat]
                               /\ n = IF c.fn = "VarParametricBatch" THEN 2
                                      ELSE IF c.fn = "GreeksBatch" THEN 6 ELSE 1
    BY CallShapes DEF Columns
  <1>3. c.in[1] \in Nat /\ \A i \in 1 .. n : c.in[i] = c.in[1]
    BY <1>1, <1>2 DEF ColumnsRefuses
  <1>4. c.in[1] \in Nat \ {0} /\ (c.fn = "VarParametricFromReturns" => c.in[1] >= 2)
    BY <1>1, <1>3 DEF ColumnsRefuses
  <1> DEFINE more == IF c.fn = "VarParametricBatch" THEN <<c.in[1], c.in[1]>> ELSE c.out
  <1>5. more \in Seq(S) /\ \A i \in 1 .. Len(more) : more[i] \in {Nil, c.in[1]}
    <2>1. CASE c.fn = "VarParametricBatch"
      BY <1>3, <2>1
    <2>2. CASE c.fn = "GreeksBatch"
      <3>1. c.out \in [1 .. 5 -> S] /\ \A i \in 1 .. 5 : c.out[i] \in {Nil, c.in[1]}
        BY <1>1, <2>2, CallShapes DEF ColumnsRefuses
      <3>2. c.out \in Seq(S) /\ Len(c.out) = 5
        BY <3>1, FunctionsAreSequences
      <3>3. more = c.out
        BY <2>2
      <3> HIDE DEF more
      <3> QED
        BY <3>1, <3>2, <3>3
    <2>3. CASE c.fn \notin {"VarParametricBatch", "GreeksBatch"}
      <3>1. more = <<>> /\ <<>> \in Seq(S) /\ Len(<<>>) = 0
        BY <2>3, CallShapes, EmptySeq DEF Columns
      <3> HIDE DEF more
      <3> QED
        BY <3>1
    <2> QED
      BY <2>1, <2>2, <2>3
  <1>6. Len(more) = IF c.fn = "VarParametricBatch" THEN 2 ELSE IF c.fn = "GreeksBatch" THEN 5 ELSE 0
    <2>1. CASE c.fn = "VarParametricBatch"
      BY <2>1
    <2>2. CASE c.fn = "GreeksBatch"
      <3>1. c.out \in [1 .. 5 -> S]
        BY <2>2, CallShapes
      <3> QED
        BY <2>2, <3>1, FunctionsAreSequences
    <2>3. CASE c.fn \notin {"VarParametricBatch", "GreeksBatch"}
      BY <2>3, CallShapes, EmptySeq DEF Columns
    <2> QED
      BY <2>1, <2>2, <2>3
  <1>7. Buffers(c) = c.in \o more
    BY DEF Buffers, LeastSquares, Columns, ColumnsBuffers
  <1>8. c.in \in Seq(S) /\ Len(c.in) = n
    <2>1. c.in \in [1 .. n -> S] /\ n \in Nat
      BY <1>2
    <2> QED
      BY <2>1, FunctionsAreSequences
  <1> HIDE DEF more
  <1>9. /\ Len(Buffers(c)) = n + Len(more) /\ DOMAIN Buffers(c) = 1 .. n + Len(more)
        /\ \A i \in 1 .. n + Len(more) :
              Buffers(c)[i] \in {c.in[j] : j \in 1 .. n} \cup {more[j] : j \in 1 .. Len(more)}
    BY <1>5, <1>7, <1>8, Joined
  <1>10. \A i \in DOMAIN Buffers(c) : Buffers(c)[i] \in {Nil, c.in[1]}
    BY <1>3, <1>5, <1>9
  <1> QED
    BY <1>2, <1>4, <1>6, <1>9, <1>10 DEF Columns

LEMMA ColumnsFit ==
    ASSUME NEW c \in Calls, c.fn \in Columns, ~Refuses(c)
    PROVE  Fits(c) /\ ~Panics(c) /\ ~Contract(c).refuses
  <1>1. PICK v \in Nat \ {0} : v = c.in[1]
    BY ColumnsBuffersAlike
  <1> DEFINE k == Len(Buffers(c))
  <1>2. k \in Nat /\ DOMAIN Buffers(c) = 1 .. k /\ \A i \in 1 .. k : Buffers(c)[i] \in {Nil, v}
    BY <1>1, ColumnsBuffersAlike
  <1>3. Contract(c).extents = [i \in 1 .. k |-> v]
    <2>1. CASE c.fn = "VarParametricBatch"
      BY <1>1, <2>1, ColumnsBuffersAlike DEF Contract, fc_optim_var_parametric_batch
    <2>2. CASE c.fn = "GreeksBatch"
      BY <1>1, <2>2, ColumnsBuffersAlike DEF Contract, fc_optim_greeks_batch
    <2>3. CASE c.fn \in {"VarHistorical", "VarParametricFromReturns"}
      <3>1. Contract(c).extents = <<v>>
        BY <1>1, <2>3 DEF Contract, fc_optim_var_historical, fc_optim_var_parametric_from_returns
      <3>2. k = 1
        BY <2>3, ColumnsBuffersAlike
      <3> QED
        BY <3>1, <3>2
    <2> QED
      BY <2>1, <2>2, <2>3 DEF Columns
  <1>4. Fits(c)
    <2>1. Len([i \in 1 .. k |-> v]) = k
      BY <1>2, FunctionsAreSequences
    <2> QED
      BY <1>1, <1>2, <1>3, <2>1 DEF Fits
  <1>5. ~Panics(c)
    BY <1>1, <1>2 DEF Panics, Columns, Tables
  <1>6. ~Contract(c).refuses
    <2>1. CASE c.fn = "VarParametricBatch"
      BY <1>1, <2>1 DEF Contract, fc_optim_var_parametric_batch
    <2>2. CASE c.fn = "GreeksBatch"
      BY <1>1, <2>2 DEF Contract, fc_optim_greeks_batch
    <2>3. CASE c.fn = "VarHistorical"
      BY <1>1, <2>3 DEF Contract, fc_optim_var_historical
    <2>4. CASE c.fn = "VarParametricFromReturns"
      <3>1. c.in[1] >= 2
        BY <2>4, ColumnsBuffersAlike
      <3>2. Contract(c).refuses = (v < 2) /\ ~(v < 2)
        BY <1>1, <2>4, <3>1 DEF Contract, fc_optim_var_parametric_from_returns
      <3> QED
        BY <3>2
    <2> QED
      BY <2>1, <2>2, <2>3, <2>4 DEF Columns
  <1> QED
    BY <1>4, <1>5, <1>6

----------------------------------------------------------------------------
(* Matrices.                                                                *)

\* Of a matrix with rows of one length the number of elements does not wrap.
LEMMA MatrixElements ==
    ASSUME NEW r \in Rows, r # <<>>, NEW n \in Nat, \A i \in DOMAIN r : r[i] = n
    PROVE  /\ Len(r) \in Nat \ {0} /\ Len(r) * n \in Nat /\ Wrap(Len(r) * n) = Len(r) * n
           /\ 1 \in DOMAIN r
  <1>1. r \in Seq(Nat)
    BY ValuesAssumption
  <1>2. Len(r) \in Nat \ {0} /\ DOMAIN r = 1 .. Len(r)
    BY <1>1, LenProperties, EmptySeq
  <1>3. r[1] = n /\ \A i \in DOMAIN r : r[i] = r[1]
    BY <1>2
  <1>4. Len(r) * n < 2 ^ (Width - 1)
    BY <1>3, RowsAssumption
  <1>5. Len(r) * n \in Nat
    BY <1>2
  <1>6. Wrap(Len(r) * n) = Len(r) * n
    BY <1>4, <1>5, InRangeStays
  <1> QED
    BY <1>2, <1>5, <1>6

LEMMA TablesFit ==
    ASSUME NEW c \in Calls, c.fn \in Tables, ~Refuses(c)
    PROVE  /\ Fits(c)
           /\ c.rows[1] \in Nat
           /\ c.rows[1] # 0 <=> ~Panics(c)
           /\ c.rows[1] # 0 <=> ~Contract(c).refuses
  <1>1. ~TablesRefuses(c)
    BY DEF Refuses
  <1>2. PICK m, n, k : m = Len(c.rows) /\ n = c.rows[1] /\ k = Len(c.weights)
    OBVIOUS
  <1>3. /\ c.rows \in Rows /\ c.weights \in Rows /\ c.rows \in Seq(Nat) /\ c.weights \in Seq(Nat)
        /\ c.rows # <<>> /\ \A i \in DOMAIN c.rows : c.rows[i] = n
        /\ \A i \in DOMAIN c.weights : c.weights[i] = m
        /\ c.fn = "VarHistoricalBatch" => c.weights # <<>>
        /\ c.fn = "VarHistoricalPortfolio" => k = 1
        /\ c.fn = "VarHistoricalBatchFromReturns" => c.weights = <<>>
    BY <1>1, <1>2, CallShapes, ValuesAssumption DEF TablesRefuses
  <1>4. n \in Nat
    BY <1>2, <1>3, LenProperties, EmptySeq
  <1>5. m \in Nat \ {0} /\ m * n \in Nat /\ Wrap(m * n) = m * n
    BY <1>2, <1>3, <1>4, MatrixElements
  <1>6. c.weights # <<>> => k \in Nat \ {0} /\ Wrap(k * m) = k * m /\ 1 \in DOMAIN c.weights
    BY <1>2, <1>3, <1>5, MatrixElements
  <1>7. ~PanicsCopying(c)
    BY <1>2, <1>3, <1>4, <1>5 DEF PanicsCopying
  <1>8. n # 0 <=> m * n > 0
    BY <1>4, <1>5
  <1>9. CASE c.fn = "VarHistoricalPortfolio"
    <2>1. c.weights # <<>> /\ c.weights[1] = m
      BY <1>2, <1>3, <1>6, <1>9, EmptySeq
    <2>5. Buffers(c) = <<m * n>> \o <<m>>
      BY <1>2, <1>3, <1>5, <1>9, <2>1 DEF Buffers, LeastSquares, Columns, Tables, TablesBuffers
    <2>3. Contract(c).extents = <<m * n, m>> /\ (Contract(c).refuses <=> n = 0)
      BY <1>2, <1>5, <1>9 DEF Contract, fc_optim_var_historical_portfolio
    <2>4. Buffers(c) = <<m * n, m>>
      BY <1>5, <2>5, OneAndMore
    <2>6. Fits(c)
      BY <1>4, <1>5, <1>9, <2>3, <2>4 DEF Fits
    <2>7. n # 0 <=> ~Panics(c)
      BY <1>4, <1>5, <1>7, <1>8, <1>9, <2>3, <2>4, ValuesAssumption DEF Panics
    <2> QED
      BY <1>2, <1>4, <2>3, <2>6, <2>7
  <1>10. CASE c.fn = "VarHistoricalBatch"
    <2>1. c.weights # <<>> /\ k \in Nat \ {0} /\ k * m \in Nat \ {0}
      BY <1>3, <1>5, <1>6, <1>10
    <2>2. Buffers(c) = <<m * n>> \o <<k * m, k, k>>
      BY <1>2, <1>3, <1>5, <1>6, <1>10, <2>1 DEF Buffers, LeastSquares, Columns, Tables, TablesBuffers
    <2>3. Contract(c).extents = <<m * n, k * m, k, k>> /\ (Contract(c).refuses <=> n = 0)
      BY <1>2, <1>5, <1>10, <2>1 DEF Contract, fc_optim_var_historical_batch
    <2>4. Buffers(c) = <<m * n, k * m, k, k>>
      BY <1>5, <2>1, <2>2, OneAndMore
    <2>6. Fits(c)
      BY <1>4, <1>5, <1>10, <2>1, <2>3, <2>4 DEF Fits
    <2>7. n # 0 <=> ~Panics(c)
      BY <1>4, <1>5, <1>7, <1>8, <1>10, <2>1, <2>3, <2>4, ValuesAssumption DEF Panics
    <2> QED
      BY <1>2, <1>4, <2>3, <2>6, <2>7
  <1>11. CASE c.fn = "VarHistoricalBatchFromReturns"
    <2>1. k = 0
      BY <1>2, <1>3, <1>11, EmptySeq
    <2>2. Buffers(c) = <<m * n>> \o <<m, m>>
      BY <1>2, <1>3, <1>5, <1>11, <2>1 DEF Buffers, LeastSquares, Columns, Tables, TablesBuffers
    <2>3. Contract(c).extents = <<m * n, m, m>> /\ (Contract(c).refuses <=> n = 0)
      BY <1>2, <1>5, <1>11 DEF Contract, fc_optim_var_historical_batch_from_returns
    <2>4. Buffers(c) = <<m * n, m, m>>
      BY <1>5, <2>2, OneAndMore
    <2>6. Fits(c)
      BY <1>4, <1>5, <1>11, <2>3, <2>4 DEF Fits
    <2>7. n # 0 <=> ~Panics(c)
      BY <1>4, <1>5, <1>7, <1>8, <1>11, <2>3, <2>4, ValuesAssumption DEF Panics
    <2> QED
      BY <1>2, <1>4, <2>3, <2>6, <2>7
  <1> QED
    BY <1>9, <1>10, <1>11 DEF Tables

----------------------------------------------------------------------------
(* Flattened matrices, and numbers.                                         *)

LEMMA FlatCounts ==
    ASSUME NEW c \in Calls, c.fn \in Flat, ~Refuses(c)
    PROVE  /\ c.dim \in Nat \ {0} /\ c.periods \in Nat \ {0} /\ c.periods > c.dim
           /\ size_t(c.dim) = c.dim /\ size_t(c.periods) = c.periods
           /\ c.weights = c.dim /\ c.returns = Wrap(c.dim * c.periods)
           /\ Contract(c).refuses => c.fn = "VarMonteCarloSimple" /\ c.paths = 0
  <1>1. ~FlatRefuses(c) /\ c.dim \in Ints /\ c.periods \in Ints /\ c.paths \in Ints
    BY CallShapes DEF Refuses
  <1>2. Ints \subseteq Int
    BY WidthAssumption, IntsAssumption
  <1>3. PICK d \in Ints, p \in Ints : d = c.dim /\ p = c.periods
    BY <1>1
  <1>4. ~(d <= 0) /\ ~(p <= d) /\ c.weights = d /\ c.returns = Wrap(d * p)
    BY <1>1, <1>3 DEF FlatRefuses
  <1>5. d \in Nat \ {0} /\ p \in Nat \ {0} /\ p > d /\ p >= 0 /\ d >= 0 /\ ~(p < d + 1)
    BY <1>2, <1>4
  <1>6. size_t(d) = d /\ size_t(p) = p
    BY <1>5, SmallCounts
  <1>7. c.fn = "VarParametricFromPortfolioReturns" => Contract(c).refuses = (d = 0 \/ p < d + 1)
    BY <1>3, <1>6 DEF Contract, fc_optim_var_parametric_from_portfolio_returns
  <1>8. c.fn = "VarMonteCarloSimple" =>
          Contract(c).refuses = (d = 0 \/ p < d + 1 \/ size_t(c.paths) = 0)
    BY <1>3, <1>6 DEF Contract, fc_optim_var_monte_carlo_simple
  <1>9. Contract(c).refuses => c.fn = "VarMonteCarloSimple" /\ size_t(c.paths) = 0
    BY <1>5, <1>7, <1>8 DEF Flat
  <1> QED
    BY <1>1, <1>3, <1>4, <1>5, <1>6, <1>9, ZeroCounts

LEMMA FlatFits ==
    ASSUME NEW c \in Calls, c.fn \in Flat, ~Refuses(c), NoWrap(c)
    PROVE  Fits(c) /\ ~Panics(c)
  <1>1. PICK d \in Nat \ {0}, p \in Nat \ {0} :
            /\ d = c.dim /\ p = c.periods /\ size_t(c.dim) = d /\ size_t(c.periods) = p
            /\ c.weights = d /\ c.returns = Wrap(d * p)
    BY FlatCounts
  <1>2. Wrap(d * p) = d * p
    BY <1>1 DEF NoWrap, Products, Flat, LeastSquares
  <1>3. d * p \in Nat \ {0}
    OBVIOUS
  <1>4. Buffers(c) = <<d * p, d>>
    BY <1>1, <1>2 DEF Buffers, Flat, LeastSquares, Columns, Tables
  <1>5. Contract(c).extents = <<d * p, d>>
    BY <1>1
       DEF Flat, Contract, fc_optim_var_parametric_from_portfolio_returns, fc_optim_var_monte_carlo_simple
  <1>6. Fits(c)
    BY <1>3, <1>4, <1>5 DEF Fits
  <1>7. ~Panics(c)
    BY <1>3, <1>4 DEF Panics, Flat, Tables
  <1> QED
    BY <1>6, <1>7

LEMMA NumbersFit ==
    ASSUME NEW c \in Calls, c.fn = "VarParametric"
    PROVE  Fits(c) /\ ~Panics(c) /\ ~Contract(c).refuses
  <1>1. Buffers(c) = <<>> /\ Contract(c).extents = <<>> /\ ~Contract(c).refuses
    BY DEF Buffers, Flat, LeastSquares, Columns, Tables, Contract, fc_optim_var_parametric
  <1>2. DOMAIN <<>> = {}
    OBVIOUS
  <1> QED
    BY <1>1, <1>2 DEF Fits, Panics, Tables

----------------------------------------------------------------------------
(* All functions.                                                           *)

\* What Go has not refused, and what does not panic, C does not refuse, but for the
\* number of paths that Go does not look at.
LEMMA NotRefused ==
    ASSUME NEW c \in Calls, ~Refuses(c), ~Panics(c)
    PROVE  Contract(c).refuses => c.fn = "VarMonteCarloSimple" /\ c.paths = 0
  <1>1. CASE c.fn \in LeastSquares
    <2>1. ~RegressionSizes(c) /\ size_t(c.batch) # 0
      BY <1>1, RegressionCounts
    <2> QED
      BY <1>1, <2>1 DEF LeastSquares, Contract, fc_optim_least_squares, fc_optim_least_squares_work,
                        fc_optim_least_squares_batch, fc_optim_least_squares_ext
  <1> QED
    BY <1>1, ColumnsFit, TablesFit, FlatCounts, NumbersFit, CallShapes

\* Unless a product wraps, the slices are those that C expects.
LEMMA AllFit ==
    ASSUME NEW c \in Calls, ~Refuses(c), NoWrap(c)
    PROVE  /\ Fits(c)
           /\ Panics(c) => c.fn \in Tables /\ c.rows[1] = 0
  <1>1. CASE c.fn \in Tables
    BY <1>1, TablesFit
  <1> QED
    BY <1>1, RegressionFits, ColumnsFit, FlatFits, NumbersFit, CallShapes

\* Which codes a call may return, and which of them Go takes for a success.
LEMMA CodesKnown ==
    ASSUME NEW c \in Calls, ~Refuses(c), ~Panics(c)
    PROVE  /\ Codes(c) \subseteq -8 .. 2 ^ Width
           /\ \A r \in Codes(c) : Succeeds(c, r) =>
                 /\ ~Contract(c).refuses
                 /\ \/ r = 0
                    \/ c.fn = "LeastSquaresBatch" /\ r \in 0 .. c.batch
                    \/ c.fn \in LeastSquares \ {"LeastSquaresBatch"} /\ r = Other
  <1>1. Contract(c).refuses => c.fn \in Flat /\ c.fn = "VarMonteCarloSimple"
    BY NotRefused DEF Flat
  <1>2. 2 ^ Width \in Nat \ {0}
    BY WidthAssumption
  <1>3. CASE c.fn = "LeastSquaresBatch"
    <2>1. c.fn \in LeastSquares /\ ~Contract(c).refuses
      BY <1>1, <1>3 DEF LeastSquares
    <2>2. PICK b \in Nat : b = c.batch /\ b \in Ints /\ size_t(c.batch) = b
      BY <2>1, RegressionCounts, CallShapes
    <2>3. b <= 2 ^ Width
      <3>1. PICK h \in Nat \ {0} : h = 2 ^ (Width - 1)
        BY WidthAssumption
      <3>2. 2 ^ Width = 2 * h /\ b \in -h .. h - 1
        BY <2>2, <3>1, WidthAssumption, IntsAssumption
      <3> QED
        BY <2>2, <3>2
    <2>4. Codes(c) = 0 .. b
      BY <1>3, <2>1, <2>2 DEF Codes, Contract, fc_optim_least_squares_batch
    <2>5. Codes(c) \subseteq -8 .. 2 ^ Width
      BY <1>2, <2>2, <2>3, <2>4
    <2> QED
      BY <1>3, <2>1, <2>2, <2>4, <2>5
  <1>4. CASE c.fn # "LeastSquaresBatch"
    <2>1. Contract(c).codes \subseteq {0, -2, -3, -4, -7}
      <3>1. CASE c.fn \in LeastSquares
        BY <1>4, <3>1
           DEF LeastSquares, Contract, fc_optim_least_squares, fc_optim_least_squares_work,
               fc_optim_least_squares_ext
      <3>2. CASE c.fn \in Columns
        BY <3>2
           DEF Columns, Contract, fc_optim_var_parametric_batch, fc_optim_greeks_batch,
               fc_optim_var_historical, fc_optim_var_parametric_from_returns
      <3>3. CASE c.fn \in Tables
        BY <3>3
           DEF Tables, Contract, fc_optim_var_historical_portfolio, fc_optim_var_historical_batch,
               fc_optim_var_historical_batch_from_returns
      <3>4. CASE c.fn \in Flat \cup {"VarParametric"}
        BY <3>4
           DEF Flat, Contract, fc_optim_var_parametric, fc_optim_var_monte_carlo_simple,
               fc_optim_var_parametric_from_portfolio_returns
      <3> QED
        BY <3>1, <3>2, <3>3, <3>4, CallShapes
    <2>2. c.fn \in LeastSquares => Contract(c).codes = {0, -3}
      BY <1>4
         DEF LeastSquares, Contract, fc_optim_least_squares, fc_optim_least_squares_work,
             fc_optim_least_squares_ext
    <2>3. /\ Contract(c).refuses => Codes(c) = {Other} \cup ({-2} \cup (Contract(c).codes \ {0}))
          /\ ~Contract(c).refuses => Codes(c) = {Other} \cup Contract(c).codes
      BY <1>4 DEF Codes
    <2>4. Codes(c) \subseteq {0, -2, -3, -4, -7, -8}
      <3>1. Other = -8
        BY DEF Other
      <3> QED
        BY <2>1, <2>3, <3>1
    <2>5. Codes(c) \subseteq -8 .. 2 ^ Width
      BY <1>2, <2>4
    <2>6. ASSUME NEW r \in Codes(c), Succeeds(c, r)
          PROVE  ~Contract(c).refuses /\ (r = 0 \/ (c.fn \in LeastSquares /\ r = Other))
      <3>1. CASE c.fn \in LeastSquares
        <4>1. ~Contract(c).refuses /\ Codes(c) = {Other} \cup {0, -3} /\ r \notin {-1, -2, -3}
          BY <1>1, <1>4, <2>2, <2>3, <2>6, <3>1 DEF Succeeds, LeastSquares, Flat
        <4> QED
          BY <3>1, <4>1
      <3>2. CASE c.fn \notin LeastSquares
        <4>1. r = 0
          BY <1>4, <2>6, <3>2 DEF Succeeds
        <4>2. ~Contract(c).refuses
          BY <2>3, <2>6, <4>1 DEF Other
        <4> QED
          BY <4>1, <4>2
      <3> QED
        BY <3>1, <3>2
    <2> QED
      BY <1>4, <2>5, <2>6
  <1> QED
    BY <1>3, <1>4

LEMMA InitInv == BindingInit => BindingInv
  <1> SUFFICES ASSUME BindingInit PROVE BindingInv
    OBVIOUS
  <1>1. code \in -8 .. 2 ^ Width
    BY WidthAssumption DEF BindingInit
  <1> QED
    BY <1>1 DEF BindingInit, BindingInv

LEMMA StepInv == BindingInv /\ [BindingNext]_bindingVars => BindingInv'
  <1> SUFFICES ASSUME BindingInv, [BindingNext]_bindingVars PROVE BindingInv'
    OBVIOUS
  <1>1. CASE EnterC
    <2>1. /\ call' = call /\ code' = code /\ phase = "called" /\ answer = "none"
          /\ \/ Refuses(call) /\ phase' = "done" /\ answer' = "err"
             \/ ~Refuses(call) /\ Panics(call) /\ phase' = "done" /\ answer' = "panic"
             \/ ~Refuses(call) /\ ~Panics(call) /\ phase' = "inC" /\ answer' = answer
      BY <1>1 DEF EnterC, BindingInv
    <2>2. PICK c : c = call
      OBVIOUS
    <2>3. Refuses(call)' = Refuses(c) /\ Panics(call)' = Panics(c)
      BY <2>1, <2>2
    <2> QED
      BY <2>1, <2>2, <2>3 DEF BindingInv
  <1>2. CASE CReturns
    <2>1. PICK c \in Calls : c = call /\ call' = c
      BY <1>2 DEF CReturns, BindingInv
    <2>2. /\ phase' = "done" /\ ~Refuses(c) /\ ~Panics(c) /\ code' \in Codes(c)
          /\ answer' = IF Succeeds(c, code') THEN "ok" ELSE "err"
      BY <1>2, <2>1 DEF CReturns, BindingInv
    <2>3. code' \in -8 .. 2 ^ Width
      BY <2>2, CodesKnown
    <2> QED
      BY <2>1, <2>2, <2>3 DEF BindingInv
  <1>3. CASE UNCHANGED bindingVars
    BY <1>3 DEF bindingVars, BindingInv
  <1> QED
    BY <1>1, <1>2, <1>3 DEF BindingNext

----------------------------------------------------------------------------
(* The theorems.                                                            *)

\* C is entered only by what the checks let through, and an answer says what happened.
THEOREM BindingInvariance == BindingSpec => []BindingInv
  <1> QED
    BY InitInv, StepInv, PTL DEF BindingSpec

\* C stays inside every slice it is given, unless a product of ints wrapped.
THEOREM StaysInside == BindingSpec => []Contained
  <1>1. BindingInv => Contained
    BY AllFit DEF BindingInv, Contained, BindingTypeOK, Fits
  <1> QED
    BY <1>1, BindingInvariance, PTL

\* C refuses no size that Go let through, but for the 0 paths of VarMonteCarloSimple.
THEOREM SizesChecked == BindingSpec => []DimensionsChecked
  <1>1. BindingInv => DimensionsChecked
    BY NotRefused DEF BindingInv, DimensionsChecked
  <1> QED
    BY <1>1, BindingInvariance, PTL

\* No negative int reaches C as a huge count, but for the number of paths.
THEOREM TrueCounts == BindingSpec => []CountsFaithful
  <1>1. ASSUME BindingInv PROVE CountsFaithful
    <2> SUFFICES ASSUME phase = "inC", NEW i \in DOMAIN Counts(call)
                 PROVE  (i = 3 /\ call.fn \in Flat) \/ size_t(Counts(call)[i]) = Counts(call)[i]
      BY DEF CountsFaithful
    <2>1. PICK c \in Calls : c = call /\ ~Refuses(c)
      BY <1>1 DEF BindingInv
    <2>2. CASE c.fn \in LeastSquares
      <3>1. Counts(call) = <<c.n, c.p, c.batch>> /\ i \in 1 .. 3
        BY <2>1, <2>2 DEF Counts
      <3>2. size_t(c.n) = c.n /\ size_t(c.p) = c.p /\ size_t(c.batch) = c.batch
        BY <2>1, <2>2, RegressionCounts
      <3> QED
        BY <3>1, <3>2
    <2>3. CASE c.fn \in Flat
      <3>1. Counts(call) = <<c.dim, c.periods, c.paths>> /\ i \in 1 .. 3
        BY <2>1, <2>3 DEF Counts, Flat, LeastSquares
      <3>2. size_t(c.dim) = c.dim /\ size_t(c.periods) = c.periods
        BY <2>1, <2>3, FlatCounts
      <3> QED
        BY <2>1, <2>3, <3>1, <3>2
    <2>4. CASE c.fn \notin LeastSquares \cup Flat
      <3>1. Counts(call) = <<>>
        BY <2>1, <2>4 DEF Counts
      <3>2. DOMAIN <<>> = {}
        OBVIOUS
      <3> QED
        BY <3>1, <3>2
    <2> QED
      BY <2>2, <2>3, <2>4
  <1> QED
    BY <1>1, BindingInvariance, PTL

\* A binding panics only on a matrix whose rows hold no period.
THEOREM FewPanics == BindingSpec => []OtherPanicsExcluded
  <1>1. BindingInv => OtherPanicsExcluded
    BY AllFit DEF BindingInv, OtherPanicsExcluded
  <1> QED
    BY <1>1, BindingInvariance, PTL

\* A nil error means that C ran on sizes it accepts and reported no failure, or, from
\* the three functions of least squares with a code, one they do not know.
THEOREM NilMeansComputed == BindingSpec => []SuccessMeansComputed
  <1>1. BindingInv => SuccessMeansComputed
    BY CodesKnown DEF BindingInv, SuccessMeansComputed
  <1> QED
    BY <1>1, BindingInvariance, PTL
=============================================================================
