------------------------------ MODULE Welford -------------------------------
(***************************************************************************)
(* The streaming mean and variance of welford.h.  Several independent      *)
(* streams are updated one at a time, in batches or together, merged and   *)
(* reset.  Floating point is replaced by exact fractions, as multiples of  *)
(* 1 / WScale: the constant is divisible by every denominator that occurs, *)
(* so no division below has a remainder and rounding is not modelled.      *)
(***************************************************************************)
EXTENDS Integers, Sequences, SequencesExt, FiniteSetsExt, Functions

CONSTANTS
    Stream,    \* the states of the program, one for each stream
    Sample,    \* the values of the data
    NaN,       \* and the one that is refused
    WScale,    \* the common denominator
    MaxCount   \* bound: the samples in one state

ASSUME WelfordAssumption ==
    /\ Sample \subseteq Int /\ IsFiniteSet(Sample) /\ NaN \notin Sample \cup (Int \X Int)
    /\ MaxCount \in Nat /\ WScale \in Nat \ {0}
    /\ \A a, b \in 1 .. MaxCount : a + b <= MaxCount => WScale % (a * b * (a + b)) = 0

VARIABLES
    welford,  \* fc_welford_state_t of each stream
    samples   \* (history) how often each value is in each stream

welfordVars == <<welford, samples>>

NoSamples == [x \in Sample |-> 0]

WelfordTypeOK ==
    /\ welford \in [Stream -> [count : 0 .. MaxCount, mean : Int, m2 : Nat]]
    /\ samples \in [Stream -> [Sample -> 0 .. MaxCount]]

fc_welford_init == [count |-> 0, mean |-> 0, m2 |-> 0]

fc_welford_update(state, value) ==
    LET n      == state.count + 1
        delta  == WScale * value - state.mean
        mean   == state.mean + delta \div n
        delta2 == WScale * value - mean
    IN  [count |-> n, mean |-> mean, m2 |-> state.m2 + (delta * delta2) \div WScale]

fc_welford_update_batch(state, values) == FoldLeft(fc_welford_update, state, values)

\* mutant: the merged squares lack the distance between the two means
MeansIgnored(a, b) ==
    LET n     == a.count + b.count
        delta == b.mean - a.mean
    IN  IF n = 0 THEN a
        ELSE [count |-> n,
              mean  |-> a.mean + (delta * b.count) \div n,
              m2    |-> a.m2 + b.m2]

\* Two states without samples stay one without: the formula would divide by zero.
fc_welford_merge(a, b) ==
    LET n     == a.count + b.count
        delta == b.mean - a.mean
    IN  IF n = 0 THEN a
        ELSE [count |-> n,
              mean  |-> a.mean + (delta * b.count) \div n,
              m2    |-> a.m2 + b.m2 + (delta * a.count * delta * b.count) \div (WScale * n)]

fc_welford_mean(state) == IF state.count = 0 THEN 0 ELSE state.mean

\* A numerator and a denominator.
fc_welford_variance(state, sample) ==
    IF state.count = 0 \/ (sample /\ state.count < 2) THEN <<0, 1>>
    ELSE <<state.m2, IF sample THEN state.count - 1 ELSE state.count>>

----------------------------------------------------------------------------

Counted(d, values) == [x \in Sample |-> d[x] + Cardinality({i \in DOMAIN values : values[i] = x})]

Put(s, values) ==
    /\ welford[s].count + Len(values) <= MaxCount
    /\ welford' = [welford EXCEPT ![s] = fc_welford_update_batch(@, values)]
    /\ samples' = [samples EXCEPT ![s] = Counted(@, values)]

Update(s) == \E x \in Sample : Put(s, <<x>>)

\* With a NaN the call is FC_ERR_NAN_INPUT; the header does not say whether the
\* values before it were taken.
UpdateBatch(s) ==
    \E a, b \in Sample \cup {NaN} :
        IF NaN \notin {a, b} THEN Put(s, <<a, b>>)
        ELSE a # NaN /\ Put(s, <<a>>)

\* One value for every stream.
UpdateStreams ==
    \E values \in [Stream -> Sample] :
        /\ \A s \in Stream : welford[s].count < MaxCount
        /\ welford' = [s \in Stream |-> fc_welford_update(welford[s], values[s])]
        /\ samples' = [s \in Stream |-> Counted(samples[s], <<values[s]>>)]

Merge(s, t) ==
    /\ s # t
    /\ welford[s].count + welford[t].count <= MaxCount
    /\ welford' = [welford EXCEPT ![s] = fc_welford_merge(welford[s], welford[t])]
    /\ samples' = [samples EXCEPT ![s] = [x \in Sample |-> @[x] + samples[t][x]]]

fc_welford_reset(s) ==
    /\ welford' = [welford EXCEPT ![s] = fc_welford_init]
    /\ samples' = [samples EXCEPT ![s] = NoSamples]

WelfordInit ==
    /\ welford = [s \in Stream |-> fc_welford_init]
    /\ samples = [s \in Stream |-> NoSamples]

WelfordNext ==
    \/ \E s \in Stream : Update(s) \/ UpdateBatch(s) \/ fc_welford_reset(s)
    \/ \E s, t \in Stream : Merge(s, t)
    \/ UpdateStreams

WelfordSpec == WelfordInit /\ [][WelfordNext]_welfordVars

----------------------------------------------------------------------------
(* The values themselves.                                                   *)

Size(d)  == SumFunction(d)
Total(d) == SumFunction([x \in Sample |-> d[x] * x])

Squared(y) == y * y

\* The sum of the powers of the distances from the mean, times the power of the count
\* that makes them whole.
Central(d, Power(_)) == SumFunction([x \in Sample |-> d[x] * Power(Size(d) * x - Total(d))])

----------------------------------------------------------------------------
(* Properties.                                                              *)

\* However a state came about, by updates, batches that failed in the middle, the
\* streams of SIMD lanes, merges and resets, its mean and its sample and population
\* variances are those of the values in it.
WelfordExact ==
    \A s \in Stream :
        LET n == Size(samples[s])
            v == fc_welford_variance(welford[s], TRUE)
            p == fc_welford_variance(welford[s], FALSE)
        IN  /\ n = welford[s].count
            /\ n * fc_welford_mean(welford[s]) = WScale * Total(samples[s])
            /\ n > 0 => n * n * n * p[1] = WScale * Central(samples[s], Squared) * p[2]
            /\ n > 1 => n * n * (n - 1) * v[1] = WScale * Central(samples[s], Squared) * v[2]
=============================================================================
