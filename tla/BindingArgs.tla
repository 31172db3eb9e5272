---------------------------- MODULE BindingArgs ----------------------------
(***************************************************************************)
(* The stateless Go bindings: least_squares.go, greeks.go,                 *)
(* var_historical.go, var_parametric.go and VarMonteCarloSimple.  Each     *)
(* checks its arguments, flattens matrices, makes the output slices, hands *)
(* C the address of the first element of every slice with the sizes, and   *)
(* turns the return code into an error.  Go's int is two's complement and  *)
(* its products wrap; C.size_t(n) of a negative n is a huge count.         *)
(*                                                                         *)
(* The C functions are not in the repository: what they refuse, how far    *)
(* they read and write and what they return is the contract of each in its *)
(* header.  A code may also be one that the header does not list.  Only    *)
(* lengths matter here; a call is one of a set of records.                 *)
(***************************************************************************)
EXTENDS Integers, Sequences, SequencesExt

CONSTANTS
    Width,     \* bits of an int
    Ints,      \* the values of int parameters
    Lens,      \* the lengths of slices
    WorkLens,  \* the lengths of the workspace
    Rows,      \* matrices, as the sequences of the lengths of their rows
    Nil        \* an output slice that is not wanted

\* Of the powers of two only this is used, by the proofs.
ASSUME WidthAssumption ==
    /\ Width \in Nat \ {0}
    /\ 2 ^ (Width - 1) \in Nat \ {0} /\ 2 ^ Width = 2 * 2 ^ (Width - 1)
ASSUME ValuesAssumption == Lens \cup WorkLens \subseteq Nat /\ Nil \notin Int /\ Rows \subseteq Seq(Nat)
\* A matrix with rows of one length is in memory: an int counts its elements.
ASSUME RowsAssumption ==
    \A r \in Rows \ {<<>>} :
        (\A i \in DOMAIN r : r[i] = r[1]) => Len(r) * r[1] < 2 ^ (Width - 1)
ASSUME IntsAssumption == Ints \subseteq -(2 ^ (Width - 1)) .. 2 ^ (Width - 1) - 1

VARIABLES
    phase,   \* "called", "inC", "done"
    call,    \* the function and its arguments
    code,    \* what C returned
    answer   \* "ok", "err" or "panic" once the binding is done

bindingVars == <<phase, call, code, answer>>

Wrap(x)   == ((x + 2 ^ (Width - 1)) % (2 ^ Width)) - 2 ^ (Width - 1)
size_t(x) == x % (2 ^ Width)

LeastSquares == {"LeastSquares", "LeastSquaresWork", "LeastSquaresBatch", "LeastSquaresExt"}
Columns      == {"VarHistorical", "VarParametricFromReturns", "VarParametricBatch", "GreeksBatch"}
Tables       == {"VarHistoricalPortfolio", "VarHistoricalBatch", "VarHistoricalBatchFromReturns"}
Flat         == {"VarParametricFromPortfolioReturns", "VarMonteCarloSimple"}

----------------------------------------------------------------------------
(* The calls.  Columns takes slices of one length; Tables a matrix and the  *)
(* weights of each portfolio (Portfolio: of the one); Flat a matrix already *)
(* flattened; VarParametric three numbers.                                  *)

Short == Lens \cap 0 .. 1   \* enough to tell equal lengths from different ones

Calls ==
    {c \in [fn : LeastSquares, n : Ints, p : Ints, batch : Ints, intercept : BOOLEAN,
            residuals : BOOLEAN, X : Lens, y : Lens, work : WorkLens \cup {0}] :
        /\ c.fn # "LeastSquaresBatch" => c.batch = 1
        /\ c.fn # "LeastSquaresExt" => ~c.residuals
        /\ c.fn # "LeastSquaresWork" => c.work = 0}
    \cup [fn : {"VarHistorical", "VarParametricFromReturns"}, in : [1 .. 1 -> Lens], out : {<<>>}]
    \cup [fn : {"VarParametricBatch"}, in : [1 .. 2 -> Lens], out : {<<>>}]
    \cup [fn : {"GreeksBatch"}, in : [1 .. 6 -> Short], out : [1 .. 5 -> Short \cup {Nil}]]
    \cup {c \in [fn : Tables, rows : Rows, weights : Rows] :
            /\ c.fn = "VarHistoricalPortfolio" => Len(c.weights) = 1
            /\ c.fn = "VarHistoricalBatchFromReturns" => c.weights = <<>>}
    \cup [fn : {"VarParametric"}]
    \cup [fn : Flat, dim : Ints, periods : Ints, paths : Ints, returns : Lens, weights : Lens]

BindingTypeOK ==
    /\ call \in Calls
    /\ phase \in {"called", "inC", "done"}
    /\ code \in -8 .. 2 ^ Width
    /\ answer \in {"none", "ok", "err", "panic"} /\ (answer # "none" <=> phase = "done")

----------------------------------------------------------------------------
(* The checks in Go.  Wrapping a product once is wrapping at every step.    *)

Coefficients(c) == IF c.intercept THEN c.p + 1 ELSE c.p
WorkSize(c)     == IF c.intercept THEN c.n * (c.p + 1) + c.n + c.p + 1 ELSE c.n + c.p

\* mutant: as many observations as predictors are let through with an intercept
SquareWithIntercept(c) ==
    \/ c.X < Wrap(c.batch * c.n * c.p)
    \/ c.y < Wrap(c.batch * c.n)
    \/ c.fn = "LeastSquaresWork" /\ c.work < Wrap(WorkSize(c))
    \/ c.n <= 0 \/ c.p <= 0 \/ c.batch <= 0
    \/ c.n < c.p

\* mutant: the signs are not checked
NegativeAccepted(c) ==
    \/ c.X < Wrap(c.batch * c.n * c.p)
    \/ c.y < Wrap(c.batch * c.n)
    \/ c.fn = "LeastSquaresWork" /\ c.work < Wrap(WorkSize(c))
    \/ c.intercept /\ c.n <= c.p
    \/ ~c.intercept /\ c.n < c.p

LeastSquaresRefuses(c) ==
    \/ c.X < Wrap(c.batch * c.n * c.p)
    \/ c.y < Wrap(c.batch * c.n)
    \/ c.fn = "LeastSquaresWork" /\ c.work < Wrap(WorkSize(c))
    \/ c.n <= 0 \/ c.p <= 0 \/ c.batch <= 0
    \/ c.intercept /\ c.n <= c.p
    \/ ~c.intercept /\ c.n < c.p

ColumnsRefuses(c) ==
    \/ c.in[1] < (IF c.fn = "VarParametricFromReturns" THEN 2 ELSE 1)
    \/ \E i \in DOMAIN c.in : c.in[i] # c.in[1]
    \/ c.fn = "GreeksBatch" /\ ToSet(c.out) = {Nil}
    \/ \E i \in DOMAIN c.out : c.out[i] \notin {Nil, c.in[1]}

\* mutant: only the first weight vector of a batch is looked at
FirstWeights(c) ==
    \/ c.rows = <<>>
    \/ \E i \in DOMAIN c.rows : c.rows[i] # c.rows[1]
    \/ c.fn = "VarHistoricalBatch" /\ c.weights = <<>>
    \/ c.weights # <<>> /\ c.weights[1] # Len(c.rows)

TablesRefuses(c) ==
    \/ c.rows = <<>>
    \/ \E i \in DOMAIN c.rows : c.rows[i] # c.rows[1]
    \/ c.fn = "VarHistoricalBatch" /\ c.weights = <<>>
    \/ \E k \in DOMAIN c.weights : c.weights[k] # Len(c.rows)

FlatRefuses(c) ==
    \/ c.dim <= 0
    \/ c.periods <= c.dim
    \/ c.returns # Wrap(c.dim * c.periods)
    \/ c.weights # c.dim

Refuses(c) ==
    \/ c.fn \in LeastSquares /\ LeastSquaresRefuses(c)
    \/ c.fn \in Columns /\ ColumnsRefuses(c)
    \/ c.fn \in Tables /\ TablesRefuses(c)
    \/ c.fn \in Flat /\ FlatRefuses(c)

----------------------------------------------------------------------------
(* What is passed.  The slices, in the order of the C parameters: &b[0] of  *)
(* an empty one panics, and so does make of a negative length.  For an      *)
(* output that is not wanted C gets NULL.                                   *)

LeastSquaresBuffers(c) ==
    <<c.X, c.y, Wrap(c.batch * Coefficients(c))>>
        \o (IF c.fn = "LeastSquaresWork" THEN <<c.work>> ELSE <<>>)
        \o (IF c.residuals THEN <<c.n>> ELSE <<>>)

\* The outputs, but for GreeksBatch, are made as long as the input.
ColumnsBuffers(c) ==
    c.in \o (IF c.fn = "VarParametricBatch" THEN <<c.in[1], c.in[1]>> ELSE c.out)

\* mutant: the flattened weights are as long as the returns
WeightsAsReturns(c) ==
    LET m == Len(c.rows)
        k == Len(c.weights)
    IN  <<Wrap(m * c.rows[1])>>
            \o (IF k = 0 THEN <<m, m>>
                ELSE IF c.fn = "VarHistoricalPortfolio" THEN <<c.weights[1]>>
                ELSE <<Wrap(m * c.rows[1]), k, k>>)

\* The flattened matrices, and an output for each asset or portfolio.
TablesBuffers(c) ==
    LET m == Len(c.rows)
        k == Len(c.weights)
    IN  <<Wrap(m * c.rows[1])>>
            \o (IF k = 0 THEN <<m, m>>
                ELSE IF c.fn = "VarHistoricalPortfolio" THEN <<c.weights[1]>>
                ELSE <<Wrap(k * m), k, k>>)

Buffers(c) ==
    IF c.fn \in LeastSquares THEN LeastSquaresBuffers(c)
    ELSE IF c.fn \in Columns THEN ColumnsBuffers(c)
    ELSE IF c.fn \in Tables THEN TablesBuffers(c)
    ELSE IF c.fn \in Flat THEN <<c.returns, c.weights>>
    ELSE <<>>

\* Flattening reads as many elements of every row as of the first, of every weight
\* vector as there are assets.
PanicsCopying(c) ==
    \/ \E i \in DOMAIN c.rows : c.rows[i] < c.rows[1]
    \/ c.fn = "VarHistoricalBatch" /\ \E k \in DOMAIN c.weights : c.weights[k] < Len(c.rows)

Panics(c) ==
    \/ c.fn \in Tables /\ PanicsCopying(c)
    \/ \E i \in DOMAIN Buffers(c) : Buffers(c)[i] # Nil /\ Buffers(c)[i] <= 0

\* The int arguments given to C as counts.
Counts(c) ==
    IF c.fn \in LeastSquares THEN <<c.n, c.p, c.batch>>
    ELSE IF c.fn \in Flat THEN <<c.dim, c.periods, c.paths>>
    ELSE <<>>

----------------------------------------------------------------------------
(* The C functions, as their headers state them: how much of each slice is  *)
(* read or written, whether the sizes are refused (by the batch of least    *)
(* squares with a count of 0), and the codes the header lists for a call    *)
(* whose sizes are not refused: 0 or what failed on the values.             *)

\* A code that no header lists: it says "negative error code on failure" or lists no
\* code for a failed allocation.
Other == -8

\* The number of coefficients, with the intercept.
Betas(c) == size_t(c.p) + (IF c.intercept THEN 1 ELSE 0)

RegressionSizes(c) ==
    \/ 0 \in {size_t(c.n), size_t(c.p)}
    \/ c.intercept /\ size_t(c.n) <= size_t(c.p)
    \/ ~c.intercept /\ size_t(c.n) < size_t(c.p)

\* X is n x p, y has n elements; -3 is a matrix without full rank.
fc_optim_least_squares(c) ==
    [extents |-> <<size_t(c.n) * size_t(c.p), size_t(c.n), Betas(c)>>,
     refuses |-> RegressionSizes(c),
     codes   |-> {0, -3}]

\* The workspace: tau and qtb; with an intercept the augmented matrix before them.
fc_optim_least_squares_work(c) ==
    LET n == size_t(c.n)
        q == Betas(c)
    IN  [fc_optim_least_squares(c) EXCEPT
            !.extents = @ \o <<IF c.intercept THEN n * q + n + q ELSE n + q>>]

\* A count of the regressions solved.
fc_optim_least_squares_batch(c) ==
    LET b == size_t(c.batch)
    IN  [extents |-> <<b * size_t(c.n) * size_t(c.p), b * size_t(c.n), b * Betas(c)>>,
         refuses |-> b = 0 \/ RegressionSizes(c),
         codes   |-> 0 .. b]

fc_optim_least_squares_ext(c) ==
    [fc_optim_least_squares(c) EXCEPT
        !.extents = @ \o (IF c.residuals THEN <<size_t(c.n)>> ELSE <<>>)]

\* Every array has n elements, of the outputs those that are not NULL.
fc_optim_greeks_batch(c) ==
    [extents |-> [i \in 1 .. 11 |-> c.in[1]],
     refuses |-> c.in[1] = 0,
     codes   |-> {0, -3}]

fc_optim_var_parametric(c) ==
    [extents |-> <<>>, refuses |-> FALSE, codes |-> {0, -2, -3}]

fc_optim_var_parametric_batch(c) ==
    [extents |-> [i \in 1 .. 4 |-> c.in[1]],
     refuses |-> c.in[1] = 0,
     codes   |-> {0, -3}]

fc_optim_var_parametric_from_returns(c) ==
    [extents |-> <<c.in[1]>>, refuses |-> c.in[1] < 2, codes |-> {0, -3, -4}]

\* A flattened matrix of dim rows, at least one period more than there are assets.
fc_optim_var_parametric_from_portfolio_returns(c) ==
    [extents |-> <<size_t(c.dim) * size_t(c.periods), size_t(c.dim)>>,
     refuses |-> size_t(c.dim) = 0 \/ size_t(c.periods) < size_t(c.dim) + 1,
     codes   |-> {0, -3, -4}]

fc_optim_var_historical(c) ==
    [extents |-> <<c.in[1]>>, refuses |-> c.in[1] = 0, codes |-> {0, -3}]

\* m assets of n periods, and the weight of each asset.
fc_optim_var_historical_portfolio(c) ==
    LET m == Len(c.rows)
    IN  [extents |-> <<m * c.rows[1], m>>, refuses |-> 0 \in {m, c.rows[1]}, codes |-> {0, -3}]

\* The weights of k portfolios, and two outputs for each.
fc_optim_var_historical_batch(c) ==
    LET m == Len(c.rows)
        k == Len(c.weights)
    IN  [extents |-> <<m * c.rows[1], k * m, k, k>>,
         refuses |-> 0 \in {k, m, c.rows[1]},
         codes   |-> {0, -3}]

fc_optim_var_historical_batch_from_returns(c) ==
    LET m == Len(c.rows)
    IN  [extents |-> <<m * c.rows[1], m, m>>, refuses |-> 0 \in {m, c.rows[1]}, codes |-> {0, -3}]

\* It creates a state, and there is none for 0 paths.  The header lists no code: those
\* Go knows, -7 for memory or the covariance.
fc_optim_var_monte_carlo_simple(c) ==
    [extents |-> <<size_t(c.dim) * size_t(c.periods), size_t(c.dim)>>,
     refuses |-> \/ size_t(c.dim) = 0 \/ size_t(c.periods) < size_t(c.dim) + 1
                 \/ size_t(c.paths) = 0,
     codes   |-> {0, -3, -7}]

Contract(c) ==
    CASE c.fn = "LeastSquares"                      -> fc_optim_least_squares(c)
      [] c.fn = "LeastSquaresWork"                  -> fc_optim_least_squares_work(c)
      [] c.fn = "LeastSquaresBatch"                 -> fc_optim_least_squares_batch(c)
      [] c.fn = "LeastSquaresExt"                   -> fc_optim_least_squares_ext(c)
      [] c.fn = "GreeksBatch"                       -> fc_optim_greeks_batch(c)
      [] c.fn = "VarParametric"                     -> fc_optim_var_parametric(c)
      [] c.fn = "VarParametricBatch"                -> fc_optim_var_parametric_batch(c)
      [] c.fn = "VarParametricFromReturns"          -> fc_optim_var_parametric_from_returns(c)
      [] c.fn = "VarParametricFromPortfolioReturns" -> fc_optim_var_parametric_from_portfolio_returns(c)
      [] c.fn = "VarHistorical"                     -> fc_optim_var_historical(c)
      [] c.fn = "VarHistoricalPortfolio"            -> fc_optim_var_historical_portfolio(c)
      [] c.fn = "VarHistoricalBatch"                -> fc_optim_var_historical_batch(c)
      [] c.fn = "VarHistoricalBatchFromReturns"     -> fc_optim_var_historical_batch_from_returns(c)
      [] c.fn = "VarMonteCarloSimple"               -> fc_optim_var_monte_carlo_simple(c)

\* What C may return.  The batch of least squares counts, and has no error.
Codes(c) ==
    LET refused == Contract(c).refuses
        codes   == Contract(c).codes
    IN  IF c.fn = "LeastSquaresBatch" THEN (IF refused THEN {0} ELSE codes)
        ELSE {Other} \cup (IF refused THEN {-2} \cup (codes \ {0}) ELSE codes)

----------------------------------------------------------------------------

BindingInit == phase = "called" /\ call \in Calls /\ code = 0 /\ answer = "none"

EnterC ==
    /\ phase = "called"
    /\ IF Refuses(call) THEN phase' = "done" /\ answer' = "err"
       ELSE IF Panics(call) THEN phase' = "done" /\ answer' = "panic"
       ELSE phase' = "inC" /\ UNCHANGED answer
    /\ UNCHANGED <<call, code>>

\* mutant: a matrix without full rank is not reported
RankIgnored(c, r) ==
    IF c.fn = "LeastSquaresBatch" THEN TRUE
    ELSE IF c.fn \in LeastSquares THEN r \notin {-1, -2}
    ELSE r = 0

\* Which return codes become a nil error.
Succeeds(c, r) ==
    IF c.fn = "LeastSquaresBatch" THEN TRUE
    ELSE IF c.fn \in LeastSquares THEN r \notin {-1, -2, -3}
    ELSE r = 0

CReturns ==
    /\ phase = "inC"
    /\ phase' = "done"
    /\ code' \in Codes(call)
    /\ answer' = IF Succeeds(call, code') THEN "ok" ELSE "err"
    /\ UNCHANGED call

BindingNext == EnterC \/ CReturns

BindingSpec == BindingInit /\ [][BindingNext]_bindingVars

----------------------------------------------------------------------------
(* Properties.                                                              *)

\* The products of ints that the checks and the makes compute.  Past the range of
\* an int the checks compare what is left of them, and the properties say nothing.
Products(c) ==
    IF c.fn \in LeastSquares
    THEN {c.batch * c.n * c.p, c.batch * c.n, c.batch * Coefficients(c)}
             \cup (IF c.fn = "LeastSquaresWork" THEN {WorkSize(c)} ELSE {})
    ELSE IF c.fn \in Flat THEN {c.dim * c.periods} ELSE {}

NoWrap(c) == \A x \in Products(c) : Wrap(x) = x

\* C stays inside every slice it is given: for each function the checks on lengths,
\* the sizes of the slices Go makes and the sizes told to C agree with what the
\* header says the function reads and writes.
Contained ==
    /\ BindingTypeOK
    /\ phase = "inC" /\ NoWrap(call) =>
          LET extents == Contract(call).extents
          IN  /\ Len(extents) = Len(Buffers(call))
              /\ \A i \in DOMAIN extents :
                    Buffers(call)[i] = Nil \/ extents[i] <= Buffers(call)[i]

\* Go refuses all the sizes that C would refuse, but for the 0 paths of
\* VarMonteCarloSimple, which it does not look at.  LeastSquaresBatch relies on it: it
\* has no error for a batch that C does not start on, and a count of 0 must mean
\* that every regression was tried and failed.
DimensionsChecked ==
    phase = "inC" /\ NoWrap(call) /\ Contract(call).refuses =>
        call.fn = "VarMonteCarloSimple" /\ call.paths = 0

\* No negative int reaches C as a huge count, except the number of paths of
\* VarMonteCarloSimple, which is not checked.
CountsFaithful ==
    phase = "inC" =>
        \A i \in DOMAIN Counts(call) :
            (i = 3 /\ call.fn \in Flat) \/ size_t(Counts(call)[i]) = Counts(call)[i]

\* A binding panics only on a matrix whose rows hold no period.
OtherPanicsExcluded ==
    answer = "panic" /\ NoWrap(call) => call.fn \in Tables /\ call.rows[1] = 0

\* A nil error means that C ran on sizes it accepts, and that it returned 0, for the
\* batch a count, unless the function is one of the three of least squares with a code
\* and the code one they do not know.  So 0 paths, and every code the headers list,
\* come back as errors.
SuccessMeansComputed ==
    answer = "ok" =>
        /\ ~Contract(call).refuses
        /\ \/ code = 0
           \/ call.fn = "LeastSquaresBatch" /\ code \in 0 .. call.batch
           \/ call.fn \in LeastSquares \ {"LeastSquaresBatch"} /\ code = Other

\* What least_squares.go says of them ("error: nil on success, error otherwise"), and
\* the code does not do: every negative code is an error.
NilMeansSuccess == answer = "ok" => code >= 0
=============================================================================
