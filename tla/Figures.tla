------------------------------ MODULE Figures -------------------------------
(***************************************************************************)
(* The figures of one array or of several: means and variances (mean_var.h)*)
(* and their weighted forms (weighted.h), covariances (covariance.h) and   *)
(* the coefficients of Pearson (correlation.h) and Spearman (covariance.h).*)
(* They keep no state: the array and the weights are those of Selection,   *)
(* and a second variable is the weights again.  Each figure is a numerator *)
(* with what it is divided by, and a root is left undrawn.                 *)
(***************************************************************************)
EXTENDS Selection, Welford

Sum(S, f(_)) == MapThenSumSet(f, S)

----------------------------------------------------------------------------
(* mean_var.h.                                                              *)

\* The vectorised functions go through the data twice, for the mean and for the
\* squares of the distances from it; the scalar ones are Welford's updates.  Either
\* result is a state of Welford's.
TwoPasses(xs) ==
    LET mean == (WScale * Sum(DOMAIN xs, LAMBDA i : xs[i])) \div Len(xs)
    IN  [count |-> Len(xs), mean |-> mean,
         m2    |-> Sum(DOMAIN xs, LAMBDA i : (WScale * xs[i] - mean) ^ 2) \div WScale]

OnePass(xs) == fc_welford_update_batch(fc_welford_init, xs)

----------------------------------------------------------------------------
(* weighted.h; a total weight of zero is FC_ERR_INVALID_ARG.                *)

fc_stats_weighted_sum_f64(xs, w) == Sum(DOMAIN xs, LAMBDA i : xs[i] * w[i])

fc_stats_weighted_mean_f64(xs, w) == <<fc_stats_weighted_sum_f64(xs, w), Sum(DOMAIN w, LAMBDA i : w[i])>>

\* mutant: the squares are not weighted
SquaresUnweighted(xs, w) ==
    LET mean == fc_stats_weighted_mean_f64(xs, w)
    IN  <<Sum(DOMAIN xs, LAMBDA i : (mean[2] * xs[i] - mean[1]) ^ 2), mean[2] ^ 3>>

\* That of the population; with the mean a fraction, so are the distances from it.
fc_stats_weighted_variance_f64(xs, w) ==
    LET mean == fc_stats_weighted_mean_f64(xs, w)
    IN  <<Sum(DOMAIN xs, LAMBDA i : w[i] * (mean[2] * xs[i] - mean[1]) ^ 2), mean[2] ^ 3>>

\* Groups of one size lie one behind the other, ...
Group(flat, g, size) == SubSeq(flat, (g - 1) * size + 1, g * size)

fc_stats_weighted_mean_batch_f64(xs, w, n_groups, size) ==
    [g \in 1 .. n_groups |-> fc_stats_weighted_mean_f64(Group(xs, g, size), Group(w, g, size))]

\* ... and those of weighted medians of any size, each where its offset says.
fc_stats_weighted_median_batch_f64(xs, w, offsets, sizes) ==
    [b \in DOMAIN sizes |->
        LET dataset(flat) == SubSeq(flat, offsets[b] + 1, offsets[b] + sizes[b])
        IN  fc_stats_weighted_median_f64(dataset(xs), dataset(w))]

----------------------------------------------------------------------------
(* covariance.h and correlation.h, on a row-major matrix of samples.        *)

Variable(matrix, n_vars, j) == [i \in 1 .. Len(matrix) \div n_vars |-> matrix[(i - 1) * n_vars + j]]

\* n times the sum of products less the product of sums: the covariance but for a
\* divisor that all entries have in common.
fc_stats_covariance_f64(matrix, n_vars) ==
    [j, k \in 1 .. n_vars |->
        LET x == Variable(matrix, n_vars, j)
            y == Variable(matrix, n_vars, k)
            rows == DOMAIN x
        IN  Len(x) * Sum(rows, LAMBDA i : x[i] * y[i])
            - Sum(rows, LAMBDA i : x[i]) * Sum(rows, LAMBDA i : y[i])]

\* The numerator and the square of the denominator, the deviations being the roots of the
\* diagonal; 0 / 0 if a variable does not vary.
fc_stats_correlation_f64(cov, n_vars) ==
    [j, k \in 1 .. n_vars |-> IF j = k THEN <<1, 1>> ELSE <<cov[j, k], cov[j, j] * cov[k, k]>>]

\* From the distances, and 0 if a variable does not vary.
fc_stats_pearson_correlation_f64(x, y) ==
    LET distance(v, i) == Len(v) * v[i] - Sum(DOMAIN v, LAMBDA k : v[k])
        products(u, v) == Sum(DOMAIN u, LAMBDA i : distance(u, i) * distance(v, i))
        squares        == products(x, x) * products(y, y)
    IN  IF squares = 0 THEN <<0, 1>> ELSE <<products(x, y), squares>>

\* The upper triangle is computed, the rest mirrored from it, and the diagonal set.
fc_stats_pearson_correlation_matrix_f64(matrix, n_vars) ==
    [j, k \in 1 .. n_vars |->
        IF j = k THEN <<1, 1>>
        ELSE fc_stats_pearson_correlation_f64(Variable(matrix, n_vars, Min({j, k})),
                                              Variable(matrix, n_vars, Max({j, k})))]

\* mutant: equal values are ranked in the order in which they come
TiesByOrder(xs) == fc_stats_rank_f64(xs, "first")

\* Ties have the average rank.
SpearmanRanks(xs) == fc_stats_rank_f64(xs, "average")

fc_stats_spearman_f64(matrix, n_vars) ==
    LET ranks(j) == SpearmanRanks(Variable(matrix, n_vars, j))
    IN  [j, k \in 1 .. n_vars |->
            IF j = k THEN <<1, 1>> ELSE fc_stats_pearson_correlation_f64(ranks(j), ranks(k))]

----------------------------------------------------------------------------
(* The property, in its parts.                                              *)

\* Each element as often as it weighs.
Repeated(xs, w) == FoldLeft(LAMBDA r, i : r \o [k \in 1 .. w[i] |-> xs[i]], <<>>, [i \in DOMAIN xs |-> i])

\* Whole weights do what repeating an element does.
WeightsRepeat(xs, w) ==
    LET often == Repeated(xs, w)
        total == Sum(DOMAIN often, LAMBDA i : often[i])
        n     == Len(often)
    IN  n > 0 =>
          /\ fc_stats_weighted_mean_f64(xs, w) = <<total, n>>
          /\ fc_stats_weighted_variance_f64(xs, w)[1] =
                n * (n * Sum(DOMAIN often, LAMBDA i : often[i] ^ 2) - total ^ 2)

\* A batch gives every part of the flat arrays its own figures.
BatchesApart(xs, w) ==
    LET n        == Len(xs)
        weigh(S) == Sum(S, LAMBDA i : w[i])
        part(g, size) == IF g = 1 THEN 1 .. size ELSE size + 1 .. n
    IN  /\ n % 2 = 0 =>
              \A g \in 1 .. 2 :
                 fc_stats_weighted_mean_batch_f64(xs, w, 2, n \div 2)[g] =
                    <<Sum(part(g, n \div 2), LAMBDA i : xs[i] * w[i]), weigh(part(g, n \div 2))>>
        /\ \A size \in 1 .. n - 1 :
              (\A g \in 1 .. 2 : weigh(part(g, size)) > 0) =>
                  LET medians == fc_stats_weighted_median_batch_f64(xs, w, <<0, size>>, <<size, n - size>>)
                  IN  \A g \in 1 .. 2 :
                         LET weighs == weigh(part(g, size))
                         IN  /\ 2 * weigh({i \in part(g, size) : xs[i] < medians[g]}) < weighs
                             /\ 2 * weigh({i \in part(g, size) : xs[i] > medians[g]}) <= weighs

\* The covariance by sums is that by distances from the means, and a variance on the
\* diagonal; the coefficient from covariances is that from the data; a coefficient lies
\* in [-1, 1], and at an end of it exactly when one variable is a line in the other; that
\* of Spearman does not change when a variable is replaced by an increasing function of
\* it, and is 1 exactly when both have the same order.
CoefficientsHold(x, y) ==
    LET n      == Len(x)
        matrix(u) == [p \in 1 .. 2 * n |-> IF p % 2 = 1 THEN u[(p + 1) \div 2] ELSE y[p \div 2]]
        cov    == fc_stats_covariance_f64(matrix(x), 2)
        corr   == fc_stats_correlation_f64(cov, 2)
        r      == fc_stats_pearson_correlation_matrix_f64(matrix(x), 2)
        rho    == fc_stats_spearman_f64(matrix(x), 2)
        total(u) == Sum(1 .. n, LAMBDA i : u[i])
        extreme(c) == c[1] ^ 2 = c[2]
        line   == \E a, b \in 1 .. n :
                     /\ x[a] # x[b] /\ y[a] # y[b]
                     /\ \A i \in 1 .. n : (x[i] - x[a]) * (y[b] - y[a]) = (y[i] - y[a]) * (x[b] - x[a])
    IN  /\ n * cov[1, 2] = Sum(1 .. n, LAMBDA i : (n * x[i] - total(x)) * (n * y[i] - total(y)))
        /\ cov[2, 1] = cov[1, 2] /\ cov[1, 1] * WScale = n * TwoPasses(x).m2
        /\ corr[1, 2][2] # 0 => r[1, 2] = <<n * corr[1, 2][1], n * n * corr[1, 2][2]>>
        /\ r[1, 2] = r[2, 1] /\ r[1, 2][1] ^ 2 <= r[1, 2][2] /\ (extreme(r[1, 2]) <=> line)
        /\ rho[1, 2][1] ^ 2 <= rho[1, 2][2]
        /\ rho = fc_stats_spearman_f64(matrix([i \in 1 .. n |-> x[i] ^ 2 + x[i]]), 2)
        /\ extreme(rho[1, 2]) /\ rho[1, 2][1] > 0 <=>
              /\ Cardinality(Range(x)) > 1
              /\ \A i, k \in 1 .. n : x[i] < x[k] <=> y[i] < y[k]

\* The same figure by two ways is the same: by scalar and by vector code, by weights and
\* by repetition, in a batch and alone, by sums and by distances, of values and of ranks.
FiguresAgree ==
    answer = NoAnswer /\ array # <<>> =>
        LET n == Len(array)
        IN  /\ OnePass(array) = TwoPasses(array)
            /\ n <= 4 => \A w \in [1 .. n -> Weights] : WeightsRepeat(array, w) /\ BatchesApart(array, w)
            /\ n \in {2, 3} => \A y \in [1 .. n -> Weights] : CoefficientsHold(array, y)
=============================================================================
