----------------------------- MODULE BenchStats -----------------------------
(***************************************************************************)
(* The statistics of benchmarks/bench_framework.c, fc_bench_stats_t: the   *)
(* running mean and sum of squares, exact as fractions of Scale, and the   *)
(* array of samples behind the percentiles.  The array grows by realloc,   *)
(* and when that fails the sample is dropped while the count goes on.      *)
(***************************************************************************)
EXTENDS Integers, Sequences, FiniteSets, SequencesExt

CONSTANTS
    None,             \* a sample that was never written
    InitialCapacity,  \* of the array, in samples: 128
    Scale             \* divisible by every count that occurs

ASSUME StatsAssumption ==
    InitialCapacity \in Nat \ {0} /\ Scale \in Nat \ {0} /\ None \notin Int

\* samples is the array, as long as its capacity; NULL is the empty one.
NoStats == [count |-> 0, mean |-> 0, m2 |-> 0, min |-> 0, max |-> 0, samples |-> <<>>]

Undefined(k) == [i \in 1 .. k |-> None]

MustGrow(s) == s.count + 1 > Len(s.samples)

SameCapacity(samples) ==   \* mutant: realloc without a larger size
    samples \o Undefined(IF samples = <<>> THEN InitialCapacity ELSE 0)

Grown(samples) ==
    samples \o Undefined(IF samples = <<>> THEN InitialCapacity ELSE Len(samples))

Stored(samples, n, v) == IF n <= Len(samples) THEN [samples EXCEPT ![n] = v] ELSE samples

OldDelta(s, v, ok) ==   \* mutant: the deviation from the old mean is squared
    LET n     == s.count + 1
        delta == Scale * v - s.mean
    IN  [count |-> n, mean |-> s.mean + (delta \div n), m2 |-> s.m2 + delta * delta,
         min |-> IF s.count = 0 \/ v < s.min THEN v ELSE s.min,
         max |-> IF s.count = 0 \/ v > s.max THEN v ELSE s.max,
         samples |-> Stored(IF MustGrow(s) /\ ok THEN Grown(s.samples) ELSE s.samples, n, v)]

\* Welford's update; ok says whether a realloc that is needed succeeds.
fc_bench_stats_add(s, v, ok) ==
    LET n     == s.count + 1
        delta == Scale * v - s.mean
        mean  == s.mean + (delta \div n)
    IN  [count |-> n, mean |-> mean, m2 |-> s.m2 + delta * (Scale * v - mean),
         min |-> IF s.count = 0 \/ v < s.min THEN v ELSE s.min,
         max |-> IF s.count = 0 \/ v > s.max THEN v ELSE s.max,
         samples |-> Stored(IF MustGrow(s) /\ ok THEN Grown(s.samples) ELSE s.samples, n, v)]

\* percentile copies count samples: they are in the array, and all were written.
Readable(s) == s.count <= Len(s.samples) /\ \A i \in 1 .. s.count : s.samples[i] # None

Clamped(p) == IF p < 0 THEN 0 ELSE IF p > 100 THEN 100 ELSE p

RankOfCount(s, p) ==   \* mutant: the rank is a share of count, not of count - 1
    LET r == p * s.count IN IF r >= 100 * s.count THEN 100 * (s.count - 1) ELSE r

\* index, in hundredths: the whole part counts samples from 0.
Rank(s, p) == p * (s.count - 1)

\* qsort puts xs[i] after what is less; of equal numbers the order does not show.
Place(xs, i) == Cardinality({j \in DOMAIN xs : xs[j] < xs[i] \/ (xs[j] = xs[i] /\ j <= i)})

qsort(xs) == [k \in DOMAIN xs |-> xs[CHOOSE i \in DOMAIN xs : Place(xs, i) = k]]

\* In hundredths; ok says whether the copy can be allocated.
fc_bench_stats_percentile(s, p, ok) ==
    IF s.count = 0 \/ s.samples = <<>> \/ ~ok THEN 0
    ELSE IF ~Readable(s) THEN None
    ELSE LET sorted == qsort([i \in 1 .. s.count |-> s.samples[i]])
             index  == Rank(s, Clamped(p))
             lower  == index \div 100
             weight == index % 100
         IN  IF lower + 1 >= s.count THEN 100 * sorted[lower + 1]
             ELSE sorted[lower + 1] * (100 - weight) + sorted[lower + 2] * weight

fc_bench_stats_median(s, ok) == fc_bench_stats_percentile(s, 50, ok)
=============================================================================
