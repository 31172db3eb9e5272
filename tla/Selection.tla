----------------------------- MODULE Selection ------------------------------
(***************************************************************************)
(* Order statistics: the quantiles of quantile.h and the largest and       *)
(* smallest elements of topk.h, which rearrange the array they are given,  *)
(* so that every call works on what the one before has left; the ranks of  *)
(* rank.h and the weighted median of weighted.h.  Positions count from 1,  *)
(* and a quantile is a number of quarters.                                 *)
(***************************************************************************)
EXTENDS Integers, Sequences, SequencesExt, FiniteSets, FiniteSetsExt, Folds, Functions

CONSTANTS
    Elements,   \* the values in the array
    MaxLength,  \* bound: its length
    Weights,    \* the weights of the weighted median
    MaxSelects  \* bound: the calls

ASSUME SelectionAssumption ==
    /\ Elements \subseteq Int /\ Weights \subseteq Nat /\ MaxLength \in Nat /\ MaxSelects \in Nat

VARIABLES
    array,    \* data
    answer,   \* what the last call was asked and returned
    ordered,  \* (history) the array it was at first, sorted
    selects   \* (history) the number of calls

selectionVars == <<array, answer, ordered, selects>>

NoAnswer == [of |-> "none"]

Swapped(a, i, j) == [a EXCEPT ![i] = a[j], ![j] = a[i]]

----------------------------------------------------------------------------
(* Quantiles, by QuickSelect.                                               *)

\* Around a pivot: what is less goes before it and the rest behind.
Partition(part, pivot) ==
    LET less(x)  == x < pivot
        equal(x) == x = pivot
        more(x)  == x > pivot
    IN  [less |-> SelectSeq(part, less), equal |-> SelectSeq(part, equal), more |-> SelectSeq(part, more)]

\* The part of the array with the k-th element at its place: only the side it is on is
\* divided further.
RECURSIVE QuickSelect(_, _)
QuickSelect(part, k) ==
    IF Len(part) < 2 THEN part
    ELSE LET p == Partition(part, part[(Len(part) + 1) \div 2])
             l == Len(p.less)
             m == l + Len(p.equal)
         IN  IF k <= l THEN QuickSelect(p.less, k) \o p.equal \o p.more
             ELSE IF k <= m THEN p.less \o p.equal \o p.more
             ELSE p.less \o p.equal \o QuickSelect(p.more, k - m)

\* Between two elements the quantile is interpolated; the result is four times the
\* quantile, which is whole.
fc_stats_quantile_f64(a, quarters) ==
    LET at    == quarters * (Len(a) - 1)
        k     == at \div 4 + 1
        after == QuickSelect(a, k)
    IN  [array |-> after,
         times4 |-> IF at % 4 = 0 THEN 4 * after[k]
                    ELSE (4 - (at % 4)) * after[k]
                         + (at % 4) * Min({after[j] : j \in k + 1 .. Len(a)})]

\* One after the other, on the array each leaves.
fc_stats_quantiles_f64(a, quantiles) ==
    FoldLeft(LAMBDA r, q : LET s == fc_stats_quantile_f64(r.array, q)
                           IN  [array |-> s.array, times4 |-> Append(r.times4, s.times4)],
             [array |-> a, times4 |-> <<>>], quantiles)

fc_stats_quartiles_f64(a) == fc_stats_quantiles_f64(a, <<1, 2, 3>>)

----------------------------------------------------------------------------
(* The k largest, with a heap whose root is the smallest of them; with the  *)
(* sign turned, the k smallest.                                             *)
(* The heap holds values, or indices when these are asked for; key gives    *)
(* the value of what it holds.                                              *)

RECURSIVE SiftDown(_, _, _, _)
SiftDown(heap, key, i, size) ==
    LET children == {2 * i, 2 * i + 1} \cap 1 .. size
        least    == CHOOSE c \in children : \A d \in children : key[heap[c]] <= key[heap[d]]
    IN  IF children = {} \/ key[heap[i]] <= key[heap[least]] THEN heap
        ELSE SiftDown(Swapped(heap, i, least), key, least, size)

Heapified(a, key, k) ==
    FoldLeft(LAMBDA h, i : SiftDown(h, key, k \div 2 + 1 - i, k), a, [i \in 1 .. k \div 2 |-> i])

\* mutant: the root is replaced and not sifted down
RootLeft(a, key, k) ==
    FoldLeft(LAMBDA h, i : IF key[h[i]] > key[h[1]] THEN Swapped(h, 1, i) ELSE h,
             Heapified(a, key, k), [i \in 1 .. Len(a) - k |-> k + i])

\* An element larger than the root takes its place.
Collected(a, key, k) ==
    FoldLeft(LAMBDA h, i : IF key[h[i]] > key[h[1]] THEN SiftDown(Swapped(h, 1, i), key, 1, k) ELSE h,
             Heapified(a, key, k), [i \in 1 .. Len(a) - k |-> k + i])

\* The root, the smallest, goes to the end of the heap until the heap is used up.
Drained(a, key, k) ==
    IF k = 0 THEN a
    ELSE FoldLeft(LAMBDA h, i : SiftDown(Swapped(h, 1, k + 1 - i), key, 1, k - i),
                  Collected(a, key, k), [i \in 1 .. k - 1 |-> i])

Negated(a) == [i \in DOMAIN a |-> -a[i]]

fc_topk_largest_f64(a, k) == Drained(a, [x \in Range(a) |-> x], k)

fc_topk_smallest_f64(a, k) == Drained(a, [x \in Range(a) |-> -x], k)

\* The array is left as it is.
fc_topk_largest_f64_indexed(a, k) ==
    LET heap == Drained([i \in DOMAIN a |-> i], a, k)
    IN  [values |-> [i \in 1 .. k |-> a[heap[i]]], indices |-> [i \in 1 .. k |-> heap[i]]]

fc_topk_smallest_f64_indexed(a, k) ==
    LET r == fc_topk_largest_f64_indexed(Negated(a), k)
    IN  [r EXCEPT !.values = Negated(@)]

----------------------------------------------------------------------------
(* Ranks, from a stable index sort; groups of ties are gone through from    *)
(* the first to the last.                                                   *)

Indices(a) ==
    FoldLeft(LAMBDA done, i :
                 LET k == Max({0} \cup {j \in DOMAIN done : a[done[j]] <= a[i]})
                 IN  InsertAt(done, k + 1, i),
             <<>>, [i \in DOMAIN a |-> i])

\* mutant: a group of ties moves the dense rank by its size
RanksSkipped(a, method) ==
    LET order  == Indices(a)
        place  == [i \in DOMAIN a |-> CHOOSE p \in DOMAIN order : order[p] = i]
        first(i) == Min({place[j] : j \in {k \in DOMAIN a : a[k] = a[i]}})
        last(i)  == Max({place[j] : j \in {k \in DOMAIN a : a[k] = a[i]}})
    IN  [i \in DOMAIN a |->
            CASE method = "average" -> first(i) + last(i)
              [] method = "min"     -> 2 * first(i)
              [] method = "max"     -> 2 * last(i)
              [] method = "first"   -> 2 * place[i]
              [] method = "dense"   -> 2 * first(i)]

\* Twice the rank, which is whole for the average too.
fc_stats_rank_f64(a, method) ==
    LET order  == Indices(a)
        place  == [i \in DOMAIN a |-> CHOOSE p \in DOMAIN order : order[p] = i]
        first(i) == Min({place[j] : j \in {k \in DOMAIN a : a[k] = a[i]}})
        last(i)  == Max({place[j] : j \in {k \in DOMAIN a : a[k] = a[i]}})
    IN  [i \in DOMAIN a |->
            CASE method = "average" -> first(i) + last(i)
              [] method = "min"     -> 2 * first(i)
              [] method = "max"     -> 2 * last(i)
              [] method = "first"   -> 2 * place[i]
              [] method = "dense"   -> 2 * Cardinality({a[order[p]] : p \in 1 .. place[i]})]

\* A numerator and a denominator.
fc_stats_rank_normalized_f64(a, method) ==
    [i \in DOMAIN a |-> IF Len(a) = 1 THEN <<1, 2>>
                        ELSE <<fc_stats_rank_f64(a, method)[i] - 2, 2 * (Len(a) - 1)>>]

----------------------------------------------------------------------------
(* The weighted median.                                                     *)

Cumulative(w, order, p) == FoldLeft(LAMBDA sum, i : sum + w[i], 0, SubSeq(order, 1, p))

\* mutant: the first position where the sum is more than half
MoreThanHalf(a, w) ==
    LET order == Indices(a)
        total == Cumulative(w, order, Len(a))
    IN  a[order[Min({p \in DOMAIN order : 2 * Cumulative(w, order, p) >= total + 2} \cup {Len(a)})]]

\* The value at the first position where the weights add up to half of all.
fc_stats_weighted_median_f64(a, w) ==
    LET order == Indices(a)
        total == Cumulative(w, order, Len(a))
    IN  a[order[Min({p \in DOMAIN order : 2 * Cumulative(w, order, p) >= total})]]

----------------------------------------------------------------------------

SelectionInit == array = <<>> /\ answer = NoAnswer /\ ordered = <<>> /\ selects = 0

\* The program fills the array.
LoadArray ==
    /\ array = <<>>
    /\ \E n \in 1 .. MaxLength : array' \in [1 .. n -> Elements]
    /\ ordered' = [p \in DOMAIN array' |-> array'[Indices(array')[p]]]
    /\ UNCHANGED <<answer, selects>>

Selects == array # <<>> /\ selects < MaxSelects /\ selects' = selects + 1 /\ UNCHANGED ordered

\* In ascending order or not, repeated or not.
Quantiles ==
    /\ Selects
    /\ \E quantiles \in {<<0>>, <<2>>, <<4>>, <<1, 2, 3>>, <<3, 1>>, <<2, 2>>} :
          LET r == fc_stats_quantiles_f64(array, quantiles)
          IN  /\ array' = r.array
              /\ answer' = [of |-> "quantiles", asked |-> quantiles, times4 |-> r.times4]

TopK ==
    /\ Selects
    /\ \E k \in 0 .. Len(array) :
          \/ /\ array' = fc_topk_largest_f64(array, k)
             /\ answer' = [of |-> "largest", k |-> k]
          \/ /\ array' = fc_topk_smallest_f64(array, k)
             /\ answer' = [of |-> "smallest", k |-> k]
          \/ /\ answer' = [of |-> "indexed", k |-> k,
                            largest  |-> fc_topk_largest_f64_indexed(array, k),
                            smallest |-> fc_topk_smallest_f64_indexed(array, k)]
             /\ UNCHANGED array

SelectionNext == LoadArray \/ Quantiles \/ TopK

SelectionSpec == SelectionInit /\ [][SelectionNext]_selectionVars

----------------------------------------------------------------------------
(* Properties.                                                              *)

\* Whatever calls have rearranged the array before, each quantile is that of the data,
\* the k elements at the front are the largest (smallest) in order, and no element
\* is lost or duplicated; indices are where the values are, and no two the same.
SelectionsExact ==
    LET n == Len(array)
    IN  /\ [p \in DOMAIN array |-> array[Indices(array)[p]]] = ordered
        /\ answer.of = "quantiles" =>
              \A i \in DOMAIN answer.asked :
                  LET at == answer.asked[i] * (n - 1)
                      k  == at \div 4 + 1
                  IN  answer.times4[i] = IF at % 4 = 0 THEN 4 * ordered[k]
                                         ELSE 4 * ordered[k] + (at % 4) * (ordered[k + 1] - ordered[k])
        /\ answer.of = "largest" => \A i \in 1 .. answer.k : array[i] = ordered[n + 1 - i]
        /\ answer.of = "smallest" => \A i \in 1 .. answer.k : array[i] = ordered[i]
        /\ answer.of = "indexed" =>
              /\ answer.largest.values  = [i \in 1 .. answer.k |-> ordered[n + 1 - i]]
              /\ answer.smallest.values = [i \in 1 .. answer.k |-> ordered[i]]
              /\ \A r \in {answer.largest, answer.smallest} :
                    /\ IsInjective(r.indices)
                    /\ \A i \in 1 .. answer.k : array[r.indices[i]] = r.values[i]

\* The five ways to rank ties agree with counting: less, not more, the middle of both,
\* the order of appearance, and without gaps; the ranks average to (n + 1) / 2 where
\* they should, and normalised ranks stay within [0, 1].
RanksConsistent ==
    answer = NoAnswer =>
        LET n        == Len(array)
            rank(m)  == fc_stats_rank_f64(array, m)
            below(i) == Cardinality({j \in 1 .. n : array[j] < array[i]})
            upTo(i)  == Cardinality({j \in 1 .. n : array[j] <= array[i]})
        IN  /\ \A i \in 1 .. n :
                  /\ rank("min")[i] = 2 * (below(i) + 1) /\ rank("max")[i] = 2 * upTo(i)
                  /\ rank("average")[i] = below(i) + 1 + upTo(i)
                  /\ rank("first")[i] =
                        2 * (below(i) + Cardinality({j \in 1 .. i : array[j] = array[i]}))
                  /\ rank("dense")[i] =
                        2 * Cardinality({array[j] : j \in {k \in 1 .. n : array[k] <= array[i]}})
            /\ \A m \in {"average", "first"} : FoldFunction(+, 0, rank(m)) = n * (n + 1)
            /\ \A m \in {"average", "min", "max", "first", "dense"} : \A i \in 1 .. n :
                  LET r == fc_stats_rank_normalized_f64(array, m)[i] IN r[1] \in 0 .. r[2]

\* Less than half of the weight lies below the weighted median and no more than half
\* above it, and the median itself weighs something, with ties and with elements
\* that weigh nothing: neither side outvotes the other.
MedianHalves ==
    answer = NoAnswer =>
        \A w \in [DOMAIN array -> Weights] :
            LET weigh(S) == MapThenSumSet(LAMBDA i : w[i], S)
                total    == weigh(DOMAIN array)
                m        == fc_stats_weighted_median_f64(array, w)
            IN  total > 0 =>
                    /\ 2 * weigh({i \in DOMAIN array : array[i] < m}) < total
                    /\ 2 * weigh({i \in DOMAIN array : array[i] > m}) <= total
                    /\ \E i \in DOMAIN array : array[i] = m /\ w[i] > 0

\* Quantiles, extremes, ranks and medians are those of the data in order.
OrderStatistics == SelectionsExact /\ RanksConsistent /\ MedianHalves
=============================================================================
