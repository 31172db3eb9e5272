----------------------------- MODULE Transforms -----------------------------
(***************************************************************************)
(* The functions that turn an array into another of the same length: the   *)
(* cumulative sum and maximum of cumsum.h and cummax.h, the moving average *)
(* of ema.h, the scores of zscore.h and the trimmed tails of winsorize.h.  *)
(* The output may be the input array itself where the header allows it,    *)
(* and a batch may go through its series in any order, or side by side: so *)
(* a step writes one element.  Numbers are multiples of 1 / Unit, exact.   *)
(***************************************************************************)
EXTENDS Selection, Welford

CONSTANTS
    Shapes,  \* the sizes of arrays: the number of series and the length of each
    Unit     \* the common denominator, a power of two

ASSUME TransformsAssumption ==
    /\ Shapes \subseteq (Nat \ {0}) \X (Nat \ {0})
    /\ \A shape \in Shapes : Unit % (4 * 2 ^ (shape[2] - 1)) = 0

VARIABLES
    buffers,    \* the two arrays, "in" and "out", each a sequence of series
    transform,  \* the call
    given       \* (history) the input when the call began

transformVars == <<buffers, transform, given>>

NoTransform == [of |-> "none", into |-> "out", halves |-> 2, first |-> NaN, quarters |-> <<0, 4>>,
                sample |-> 0, done |-> <<>>, locals |-> <<>>, status |-> "FC_OK"]

TransformsInit == buffers = [in |-> <<>>, out |-> <<>>] /\ transform = NoTransform /\ given = <<>>

\* What a function is called with: the smoothing factor of a moving average as a number
\* of halves, and its first value if it has one of its own; the limits of winsorize as
\* quarters; the kind of deviation of the scores.  Only the moving average may be written over its input in every case; the
\* scores of one series may, and winsorize does so by a function of its own.  These three
\* have a batch as well.
Transform(of, into) == [NoTransform EXCEPT !.of = of, !.into = into]

OneSeries ==
    {Transform("cumsum", "out"), Transform("cummax", "out")}
    \cup {[Transform("winsorize", "in") EXCEPT !.quarters = q] : q \in {<<1, 3>>, <<0, 2>>}}
    \cup {[Transform("ema", into) EXCEPT !.halves = 1, !.first = Unit] : into \in {"in", "out"}}
    \cup {[Transform("zscore", "in") EXCEPT !.sample = k] : k \in {0, 1}}

AnySeries ==
    {[Transform("ema", into) EXCEPT !.halves = h] : into \in {"in", "out"}, h \in {1, 2}}
    \cup {[Transform("zscore", "out") EXCEPT !.sample = k] : k \in {0, 1}}
    \cup {[Transform("winsorize", "out") EXCEPT !.quarters = q] : q \in {<<1, 3>>, <<0, 2>>}}

TransformCall ==
    /\ transform = NoTransform
    /\ \E shape \in Shapes :
          /\ given' \in [1 .. shape[1] -> [1 .. shape[2] -> {Unit * x : x \in Sample} \cup {NaN}]]
          /\ buffers' = [in |-> given', out |-> [s \in 1 .. shape[1] |-> [i \in 1 .. shape[2] |-> 0]]]
          /\ \E t \in AnySeries \cup (IF shape[1] = 1 THEN OneSeries ELSE {}) :
                transform' = [t EXCEPT !.done   = [s \in 1 .. shape[1] |-> -1],
                                       !.locals = [s \in 1 .. shape[1] |-> <<>>]]

----------------------------------------------------------------------------
(* What a series needs to know of its whole input before the first element  *)
(* is written.                                                              *)

\* The quantiles, of a copy that is rearranged for them.
Limits(series, quarters) ==
    LET times4 == fc_stats_quantiles_f64(series, quarters).times4
    IN  <<times4[1] \div 4, times4[2] \div 4>>

SumOf(series) == FoldLeft(LAMBDA a, x : a + x, 0, series)

\* n^2 times the variance of the population.
Squares(series) ==
    Len(series) * FoldLeft(LAMBDA a, x : a + x * x, 0, series) - SumOf(series) ^ 2

\* mutant: the deviation is that of the population, whatever is asked for
SampleIgnored(series, sample) ==
    IF NaN \in Range(series) THEN [sum |-> NaN, square |-> NaN]
    ELSE [sum |-> SumOf(series), square |-> <<1, Squares(series)>>]

\* The sum, and 1 / (n * std)^2 as a fraction, of the variance Squares / n^2 or, for a
\* sample, Squares / (n * (n - 1)).
Spread(series, sample) ==
    IF NaN \in Range(series) THEN [sum |-> NaN, square |-> NaN]
    ELSE LET n == Len(series)
         IN  [sum    |-> SumOf(series),
              square |-> IF sample = 1 THEN <<n - 1, n * Squares(series)>> ELSE <<1, Squares(series)>>]

\* winsorize refuses NaN before it writes anything.  Its batch has one temporary array
\* for the copies, so its series come one after the other.
TransformBegin(s) ==
    /\ transform.of # "none" /\ transform.status = "FC_OK" /\ transform.done[s] = -1
    /\ transform.of = "winsorize" =>
          \A r \in 1 .. s - 1 : transform.done[r] = Len(buffers.in[r])
    /\ transform' =
          IF transform.of = "winsorize" /\ NaN \in Range(buffers.in[s])
          THEN [transform EXCEPT !.status = "FC_ERR_NAN_INPUT"]
          ELSE [transform EXCEPT
                  !.done[s]   = 0,
                  !.locals[s] = CASE transform.of = "winsorize" -> Limits(buffers.in[s], transform.quarters)
                                  [] transform.of = "zscore"    -> Spread(buffers.in[s], transform.sample)
                                  [] OTHER                      -> <<>>]
    /\ UNCHANGED <<buffers, given>>

----------------------------------------------------------------------------
(* The elements.                                                            *)

fc_math_cumsum_f64(sum, x) == IF NaN \in {sum, x} THEN NaN ELSE sum + x

\* mutant: NaN compares false with everything and is passed over
NaNPassedOver(most, x) ==
    IF x = NaN THEN most ELSE IF most = NaN THEN x ELSE Max({most, x})

fc_math_cummax_f64(most, x) == IF NaN \in {most, x} THEN NaN ELSE Max({most, x})

\* mutant: a batch is one long series
OneLongSeries(t, s) == IF s = 1 THEN t.first ELSE Last(buffers[t.into][s - 1])

\* The moving average before the first element; NaN: none, the first element takes its
\* place.
InitialValue(t, s) == t.first

fc_stats_ema_f64(halves, ema, x) ==
    IF NaN \in {ema, x} THEN NaN ELSE (halves * x + (2 - halves) * ema) \div 2

\* (x - mean) / std but for a factor that the elements have in common, the root of square;
\* NaN where there is no deviation.
fc_stat_zscore_f64(n, spread, x) ==
    IF spread.square = NaN \/ spread.square[2] = 0 THEN NaN ELSE n * x - spread.sum

fc_stats_winsorize_f64(limits, x) ==
    IF x < limits[1] THEN limits[1] ELSE IF x > limits[2] THEN limits[2] ELSE x

\* One element of a series, from the input as it is now and the output before it.
TransformStep(s) ==
    LET t == transform
        i == t.done[s] + 1
        x == buffers.in[s][i]
        y == buffers[t.into][s][i - 1]
        z == CASE t.of = "cumsum"    -> IF i = 1 THEN x ELSE fc_math_cumsum_f64(y, x)
               [] t.of = "cummax"    -> IF i = 1 THEN x ELSE fc_math_cummax_f64(y, x)
               [] t.of = "ema"       -> IF i > 1 THEN fc_stats_ema_f64(t.halves, y, x)
                                        ELSE IF InitialValue(t, s) = NaN THEN x ELSE InitialValue(t, s)
               [] t.of = "zscore"    -> fc_stat_zscore_f64(Len(buffers.in[s]), t.locals[s], x)
               [] t.of = "winsorize" -> fc_stats_winsorize_f64(t.locals[s], x)
    IN  /\ t.status = "FC_OK" /\ t.done[s] \in 0 .. Len(buffers.in[s]) - 1
        /\ buffers'   = [buffers EXCEPT ![t.into][s][i] = z]
        /\ transform' = [t EXCEPT !.done[s] = i]
        /\ UNCHANGED given

TransformsNext ==
    \/ TransformCall
    \/ \E s \in DOMAIN transform.done : TransformBegin(s) \/ TransformStep(s)

TransformsSpec == TransformsInit /\ [][TransformsNext]_transformVars

----------------------------------------------------------------------------
(* The property.                                                            *)

\* The quantile by the array in order.
Quantile(series, quarters) ==
    LET sorted == [p \in DOMAIN series |-> series[Indices(series)[p]]]
        at     == quarters * (Len(series) - 1)
        k      == at \div 4 + 1
    IN  IF at % 4 = 0 THEN sorted[k] ELSE sorted[k] + ((at % 4) * (sorted[k + 1] - sorted[k])) \div 4

\* The scores have the mean 0 and the deviation 1, of the kind asked for: their squares
\* add up to the number of elements, or to one less for a sample.
Standard(scores, square, divisor) ==
    /\ SumOf(scores) = 0
    /\ square[1] * SumOf([i \in DOMAIN scores |-> scores[i] ^ 2]) = divisor * square[2]

\* Each element written is the one that the definition gives for the input as it was
\* when the call began, also where the output lies over the input and however far the
\* other series are, and the scores of a series are standard; NaN passes on as documented;
\* nothing else is written, and nothing at all of a series that is refused.
TransformsExact ==
    \A s \in DOMAIN transform.done :
        LET t     == transform
            n     == Len(given[s])
            out   == buffers[t.into][s]
            xs    == IF t.first = NaN THEN given[s] ELSE [given[s] EXCEPT ![1] = t.first]
            clean == NaN \notin Range(given[s])
        IN  /\ t.into = "out" => buffers.in[s] = given[s]
            /\ t.into = "in"  => \A i \in 1 .. n : i > t.done[s] => out[i] = given[s][i]
            /\ \A i \in 1 .. t.done[s] :
                  LET before == SubSeq(xs, 1, i)
                  IN  CASE t.of \in {"cumsum", "cummax", "ema"} /\ NaN \in Range(before) -> out[i] = NaN
                        [] t.of = "cumsum"    -> out[i] = SumOf(before)
                        [] t.of = "cummax"    -> out[i] = Max(Range(before))
                        [] t.of = "ema"       ->
                              IF t.halves = 2 THEN out[i] = xs[i]
                              ELSE out[i] * 2 ^ (i - 1) =
                                      xs[1] + SumOf([j \in 1 .. i - 1 |-> 2 ^ (j - 1) * xs[j + 1]])
                        [] t.of = "winsorize" ->
                              /\ clean
                              /\ out[i] = Max({Quantile(xs, t.quarters[1]),
                                               Min({Quantile(xs, t.quarters[2]), xs[i]})})
                        [] t.of = "zscore"    ->
                              IF ~clean \/ Cardinality(Range(xs)) = 1 THEN out[i] = NaN
                              ELSE \A j \in 1 .. i : out[i] - out[j] = n * (xs[i] - xs[j])
            /\ t.of = "zscore" /\ t.done[s] = n /\ out[1] # NaN =>
                  Standard(out, t.locals[s].square, n - t.sample)
=============================================================================
