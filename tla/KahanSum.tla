------------------------------ MODULE KahanSum ------------------------------
(***************************************************************************)
(* The compensated summation of kahan_sum.h.  A double is replaced by an   *)
(* integer of at most Precision significant bits, and every addition and   *)
(* subtraction rounds to the nearest of them, ties to even, as IEEE 754    *)
(* does; there is no overflow and nothing is lost below 1.  So the doubles *)
(* of the header are scaled down to a precision at which bits are lost     *)
(* after a few additions, in all the ways they can be.                     *)
(***************************************************************************)
EXTENDS Integers, Sequences, SequencesExt

CONSTANTS
    Precision,  \* significant bits
    Summands,   \* the values added
    MaxAdded    \* bound: how many are


VARIABLES
    kahan,  \* fc_kahan_state_t
    added   \* (history) the values added since init

kahanVars == <<kahan, added>>

Magnitude(x) == IF x < 0 THEN -x ELSE x

\* The spacing of the numbers around x.
Ulp(x) == 2 ^ (CHOOSE k \in 0 .. Magnitude(x) :
                    /\ Magnitude(x) < 2 ^ (Precision + k)
                    /\ k > 0 => Magnitude(x) >= 2 ^ (Precision + k - 1))

\* The multiple of u nearest to m, which is not negative.
Nearest(m, u) ==
    LET q == m \div u
        r == m % u
    IN  IF 2 * r > u \/ (2 * r = u /\ q % 2 = 1) THEN (q + 1) * u ELSE q * u

Fl(x) == IF x < 0 THEN -Nearest(-x, Ulp(x)) ELSE Nearest(x, Ulp(x))

ASSUME KahanAssumption ==
    /\ Precision \in Nat \ {0} /\ MaxAdded \in Nat
    /\ Summands \subseteq Int /\ \A x \in Summands : Fl(x) = x

fc_stat_kahan_init == [sum |-> 0, c |-> 0]

\* mutant: the compensation is reassociated away, as -ffast-math may
Reassociated(state, value) ==
    LET y == Fl(value - state.c)
        t == Fl(state.sum + y)
    IN  [sum |-> t, c |-> Fl(Fl(t - t))]

fc_stat_kahan_add(state, value) ==
    LET y == Fl(value - state.c)
        t == Fl(state.sum + y)
    IN  [sum |-> t, c |-> Fl(Fl(t - state.sum) - y)]

fc_stat_kahan_add_batch(state, data) == FoldLeft(fc_stat_kahan_add, state, data)

fc_stat_kahan_get_sum(state) == state.sum

fc_stat_kahan_sum_f64(data) == fc_stat_kahan_get_sum(fc_stat_kahan_add_batch(fc_stat_kahan_init, data))

\* Every sum on the way, of cumsum.h.
fc_math_cumsum_kahan_f64(data) == [i \in DOMAIN data |-> fc_stat_kahan_sum_f64(SubSeq(data, 1, i))]

KahanInit == kahan = fc_stat_kahan_init /\ added = <<>>

KahanReset == kahan' = fc_stat_kahan_init /\ added' = <<>>

AddBatch ==
    \E n \in 1 .. 2 : \E data \in [1 .. n -> Summands] :
        /\ Len(added) + n <= MaxAdded
        /\ kahan' = fc_stat_kahan_add_batch(kahan, data)
        /\ added' = added \o data

KahanNext == KahanReset \/ AddBatch

KahanSpec == KahanInit /\ [][KahanNext]_kahanVars

PlainSum(xs)   == FoldLeft(LAMBDA a, x : a + x, 0, xs)
Magnitudes(xs) == FoldLeft(LAMBDA a, x : a + Magnitude(x), 0, xs)

\* However many additions and batches it took, the sum is the one of all values at once,
\* and its error and that of every sum on the way stay within two unit roundoffs of the
\* total magnitude of the values, in whatever order they come and whatever cancels: the
\* error does not grow with their number, as that of plain summation does.
KahanAccurate ==
    LET sums == fc_math_cumsum_kahan_f64(added)
    IN  /\ fc_stat_kahan_get_sum(kahan) = fc_stat_kahan_sum_f64(added)
        /\ \A i \in DOMAIN added :
              Magnitude(sums[i] - PlainSum(SubSeq(added, 1, i))) * 2 ^ Precision
                  <= 2 * Magnitudes(SubSeq(added, 1, i))
=============================================================================
