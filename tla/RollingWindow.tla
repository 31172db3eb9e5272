--------------------------- MODULE RollingWindow ----------------------------
(***************************************************************************)
(* The rolling statistics of rolling.h, one element of the data at a time: *)
(* the sum and the mean of the window, its variance by the update of       *)
(* Welford and the reverse of it for the element that leaves, and its      *)
(* extremes, each with a deque of indices.  Fractions are exact, as in     *)
(* Welford, and infinities and rounding are not modelled.                  *)
(***************************************************************************)
EXTENDS Welford, Moments

CONSTANTS
    WindowSizes,  \* the values of window_size
    MaxData       \* bound: n

ASSUME RollingAssumption == WindowSizes \subseteq 1 .. MaxCount /\ MaxData \in Nat

VARIABLES
    data,     \* the elements the call has gone through
    window,   \* window_size; 0 when there is no call
    rolling   \* what it keeps between two elements

rollingVars == <<data, window, rolling>>

NoRolling == [sum |-> 0, moving |-> fc_welford_init, smallest |-> <<>>, largest |-> <<>>]

\* The index of the element that leaves the window when the next comes in; 0: none.
Leaving == IF Len(data) >= window THEN Len(data) + 1 - window ELSE 0

\* output[i] of fc_stats_rolling_sum_f64 is the sum, and of fc_stats_rolling_mean_f64
\* the sum by the number of elements.
fc_stats_rolling_sum_f64(x) == rolling.sum + x - (IF Leaving = 0 THEN 0 ELSE data[Leaving])

fc_stats_rolling_mean_f64 ==
    <<rolling.sum, IF Len(data) < window THEN Len(data) ELSE window>>

\* mutant: the squares lose the square of one distance, not the product of two
OneDistance(state, value) ==
    LET n     == state.count - 1
        delta == WScale * value - state.mean
        mean  == state.mean - delta \div n
    IN  [count |-> n, mean |-> mean, m2 |-> state.m2 - (delta * delta) \div WScale]

\* Welford's update backwards.  The window has two elements at least, as the header
\* demands for the variance: from the last one there would be a division by zero.
RemoveOldest(state, value) ==
    LET n      == state.count - 1
        delta  == WScale * value - state.mean
        mean   == state.mean - delta \div n
        delta2 == WScale * value - mean
    IN  [count |-> n, mean |-> mean, m2 |-> state.m2 - (delta * delta2) \div WScale]

fc_stats_rolling_variance_f64(x) ==
    IF window < 2 THEN rolling.moving
    ELSE fc_welford_update(IF Leaving = 0 THEN rolling.moving
                           ELSE RemoveOldest(rolling.moving, data[Leaving]), x)

\* mutant: an index stays one element too long
StaysTooLong(indices) ==
    IF indices # <<>> /\ Head(indices) < Leaving THEN Tail(indices) ELSE indices

\* The indices still in the window when the next element comes in: the one that leaves
\* is at the front if it is there at all.
Unexpired(indices) ==
    IF indices # <<>> /\ Head(indices) <= Leaving THEN Tail(indices) ELSE indices

\* The last place in the deque whose element the new one does not beat; 0: none.
LastBelow(indices, x) == SelectLastInSeq(indices, LAMBDA i : data[i] < x)
LastAbove(indices, x) == SelectLastInSeq(indices, LAMBDA i : data[i] > x)

\* Indices from the back go while the new element beats them: what is at the front is
\* the extreme of the window.
fc_stats_rolling_min_f64(x) ==
    LET left == Unexpired(rolling.smallest)
    IN  Append(SubSeq(left, 1, LastBelow(left, x)), Len(data) + 1)

fc_stats_rolling_max_f64(x) ==
    LET left == Unexpired(rolling.largest)
    IN  Append(SubSeq(left, 1, LastAbove(left, x)), Len(data) + 1)

----------------------------------------------------------------------------

RollingInit == data = <<>> /\ window = 0 /\ rolling = NoRolling

RollingCall ==
    /\ window = 0
    /\ window' \in WindowSizes /\ UNCHANGED <<data, rolling>>

\* The window is at most as large as the data, and the next element comes in.
Slide(x) ==
    /\ window > 0 /\ Len(data) < MaxData
    /\ data' = Append(data, x)
    /\ rolling' = [sum      |-> fc_stats_rolling_sum_f64(x),
                   moving   |-> fc_stats_rolling_variance_f64(x),
                   smallest |-> fc_stats_rolling_min_f64(x),
                   largest  |-> fc_stats_rolling_max_f64(x)]
    /\ UNCHANGED window

\* The call is over, at the end of the data or with FC_ERR_NAN_INPUT at a NaN.
RollingReturn ==
    /\ window > 0
    /\ data' = <<>> /\ window' = 0 /\ rolling' = NoRolling

RollingNext == RollingCall \/ RollingReturn \/ \E x \in Sample : Slide(x)

RollingSpec == RollingInit /\ [][RollingNext]_rollingVars

----------------------------------------------------------------------------
(* Properties.                                                              *)

InWindow == SubSeq(data, IF Len(data) > window THEN Len(data) - window + 1 ELSE 1, Len(data))

\* After every element sum, mean and variance are those of the elements in
\* [max(0, i - window_size + 1), i]: nothing of what left the window stays behind.
RollingMoments ==
    data # <<>> =>
        LET d == Counted(NoSamples, InWindow)
            v == fc_welford_variance(rolling.moving, TRUE)
            n == Len(InWindow)
        IN  /\ fc_stats_rolling_mean_f64 = <<Total(d), n>>
            /\ window > 1 => n * n * (n - 1) * v[1] = WScale * Central(d, Squared) * v[2]

\* The front of each deque is the extreme of the window, and the deque never holds more
\* than the window does, however long the data.  (It does hold as many: the "O(1)" that the
\* header gives as the space of a deque-based algorithm is constant in the data only.)
RollingExtremes ==
    data # <<>> =>
        /\ data[Head(rolling.smallest)] = Min(Range(InWindow))
        /\ data[Head(rolling.largest)] = Max(Range(InWindow))
        /\ Len(rolling.smallest) <= window /\ Len(rolling.largest) <= window

\* The rolling figures are those of the window alone.
RollingExact == RollingMoments /\ RollingExtremes

\* What is computed element by element is what the elements say: the mean and variance of
\* a stream, the moments of a state, and the figures of a window.
StreamingExact == WelfordTypeOK /\ WelfordExact /\ MomentsExact /\ RollingExact
=============================================================================
