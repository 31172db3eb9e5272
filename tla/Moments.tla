------------------------------ MODULE Moments -------------------------------
(***************************************************************************)
(* The online moments of moments.h: the extended algorithm of Welford,     *)
(* that keeps the sums of the second, third and fourth powers of the       *)
(* distances from a mean that moves, one value at a time or a batch.  The  *)
(* mean is a multiple of 1 / MScale and the sums are of its powers, so no  *)
(* division below has a remainder and rounding is not modelled.            *)
(***************************************************************************)
EXTENDS Welford

CONSTANTS
    MScale,     \* the common denominator of the means
    MaxMoments  \* bound: the values in the state

ASSUME MomentsAssumption ==
    /\ MScale \in Nat \ {0} /\ MaxMoments \in Nat
    /\ \A n \in 1 .. MaxMoments : MScale % n = 0
    /\ NaN \notin Int \X Int \X Int

VARIABLES
    moments,  \* fc_moments_state_t
    observed  \* (history) how often each value is in it

momentsVars == <<moments, observed>>

Cubed(y)       == y * y * y
ToTheFourth(y) == y * y * y * y

MomentsTypeOK ==
    /\ moments \in [n : 0 .. MaxMoments, mean : Int, m2 : Nat, m3 : Int, m4 : Nat]
    /\ observed \in [Sample -> 0 .. MaxMoments]

fc_stats_moments_init == [n |-> 0, mean |-> 0, m2 |-> 0, m3 |-> 0, m4 |-> 0]

\* mutant: the second moment is updated before those that need it as it was
SecondFirst(state, value) ==
    LET n     == state.n + 1
        shift == (MScale * value - state.mean) \div n
        m2    == state.m2 + n * state.n * Squared(shift)
    IN  [n    |-> n,
         mean |-> state.mean + shift,
         m2   |-> m2,
         m3   |-> state.m3 + n * state.n * (n - 2) * Cubed(shift) - 3 * shift * m2,
         m4   |-> state.m4 + n * state.n * (n * n - 3 * n + 3) * ToTheFourth(shift)
                     + 6 * Squared(shift) * m2 - 4 * shift * state.m3]

\* By as much as the mean shifts, every distance from it changes.
fc_stats_moments_update(state, value) ==
    LET n     == state.n + 1
        shift == (MScale * value - state.mean) \div n
    IN  [n    |-> n,
         mean |-> state.mean + shift,
         m2   |-> state.m2 + n * state.n * Squared(shift),
         m3   |-> state.m3 + n * state.n * (n - 2) * Cubed(shift) - 3 * shift * state.m2,
         m4   |-> state.m4 + n * state.n * (n * n - 3 * n + 3) * ToTheFourth(shift)
                     + 6 * Squared(shift) * state.m2 - 4 * shift * state.m3]

fc_stats_moments_update_batch(state, values) == FoldLeft(fc_stats_moments_update, state, values)

\* The square of the skewness: a numerator and two factors of the denominator.
fc_stats_moments_skewness(state) ==
    IF state.n < 3 \/ state.m2 = 0 THEN NaN
    ELSE <<state.n * state.m3 * state.m3, state.m2 * state.m2, state.m2>>

\* mutant: the kurtosis lacks the factor n
KurtosisUnscaled(state) ==
    IF state.n < 4 \/ state.m2 = 0 THEN NaN
    ELSE <<state.m4, state.m2 * state.m2>>

fc_stats_moments_kurtosis(state) ==
    IF state.n < 4 \/ state.m2 = 0 THEN NaN
    ELSE <<state.n * state.m4, state.m2 * state.m2>>

fc_stats_moments_excess_kurtosis(state) ==
    LET kurt == fc_stats_moments_kurtosis(state)
    IN  IF kurt = NaN THEN NaN ELSE <<kurt[1] - 3 * kurt[2], kurt[2]>>

----------------------------------------------------------------------------

TakeBatch ==
    \E n \in 0 .. MaxMoments - moments.n : \E values \in [1 .. n -> Sample] :
        /\ moments' = fc_stats_moments_update_batch(moments, values)
        /\ observed' = Counted(observed, values)

TakeOne ==
    \E value \in Sample :
        /\ moments.n < MaxMoments
        /\ moments' = fc_stats_moments_update(moments, value)
        /\ observed' = Counted(observed, <<value>>)

MomentsInit == moments = fc_stats_moments_init /\ observed = NoSamples

BeginAgain == moments' = fc_stats_moments_init /\ observed' = NoSamples

MomentsNext == TakeOne \/ TakeBatch \/ BeginAgain

MomentsSpec == MomentsInit /\ [][MomentsNext]_momentsVars

----------------------------------------------------------------------------
(* Properties.                                                              *)

\* The sum of the powers of the distances of all values from the mean they have now.
About(d, mean, Power(_)) == SumFunction([x \in Sample |-> d[x] * Power(MScale * x - mean)])

\* Whatever the order of updates and batches, the mean and the three moments of the state
\* are those of the values: each was corrected, at every value, by lower moments as they
\* were before it.
MomentsOfValues ==
    /\ moments.n = Size(observed)
    /\ moments.n * moments.mean = MScale * Total(observed)
    /\ moments.m2 = About(observed, moments.mean, Squared)
    /\ moments.m3 = About(observed, moments.mean, Cubed)
    /\ moments.m4 = About(observed, moments.mean, ToTheFourth)

\* Skewness and kurtosis are numbers exactly when there are enough values with some
\* spread, and then the excess kurtosis is at least the squared skewness less two, as
\* for any distribution.
RatiosConsistent ==
    LET skew2  == fc_stats_moments_skewness(moments)
        kurt   == fc_stats_moments_kurtosis(moments)
        excess == fc_stats_moments_excess_kurtosis(moments)
        spread == Cardinality({x \in Sample : observed[x] > 0}) > 1
    IN  /\ skew2 # NaN <=> moments.n >= 3 /\ spread
        /\ kurt # NaN <=> moments.n >= 4 /\ spread
        /\ excess # NaN <=> kurt # NaN
        /\ kurt # NaN => (excess[1] + 2 * excess[2]) * moments.m2 >= skew2[1]

\* The state and what is computed from it are what the values say.
MomentsExact == MomentsTypeOK /\ MomentsOfValues /\ RatiosConsistent
=============================================================================
