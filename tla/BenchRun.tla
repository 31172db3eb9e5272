------------------------------ MODULE BenchRun ------------------------------
(***************************************************************************)
(* The C benchmark runner (benchmarks/bench_framework.c): fc_bench_run     *)
(* with its warmup, calibration and measurement passes, the statistics it  *)
(* keeps, the counts of allocations, and fc_bench_compare_simd, which runs *)
(* a benchmark once at each SIMD level.  One thread; what the function     *)
(* that is measured does between two readings of the clock is the          *)
(* environment's: it takes time, allocates and may change the SIMD level.  *)
(* A loop over the function is one step.                                   *)
(*                                                                         *)
(* Times are whole ticks.  A pass's time per operation is its time over    *)
(* the same number of iterations in every pass, so the statistics are kept *)
(* of the times of passes.  None also stands for NULL.                     *)
(***************************************************************************)
EXTENDS BenchStats

CONSTANTS
    Name,      \* names of benchmarks; at level i, <<name, i>>
    Config,    \* configurations, each with the function it measures
    Filter,    \* filter patterns, as the sets of names in which they occur
    MaxCalls,     \* bound on the calls a program makes
    MaxFailures   \* bound on the reallocs that fail in a run

Levels == 0 .. 3
Passes == 5
ASSUME ScaleAssumption == \A n \in 1 .. Passes : Scale % n = 0
ASSUME BoundsAssumption == MaxCalls \in Nat /\ MaxFailures \in Nat

\* The function: a call takes cost ticks, and a loop of calls up to jitter ticks
\* more; a call records allocs allocations; a loop leaves the SIMD level alone, or
\* at one of levels.
ASSUME ConfigAssumption ==
    Config \subseteq [name : Name \cup {None}, min_iterations : Nat \ {0}, max_iterations : Nat,
                      min_time : Nat, warmup : Nat, enable_stats : BOOLEAN,
                      cost : Nat, jitter : Nat, allocs : Nat, levels : SUBSET Levels]
\* A pattern that occurs in a name occurs in the name with a level appended;
\* None, for NULL, is no name.
ASSUME FilterAssumption ==
    /\ None \notin Name
    /\ \A f \in Filter, n \in Name : n \in f => {n} \X Levels \subseteq f

VARIABLES
    filter,      \* g_filter_pattern
    tracking,    \* g_track_allocations
    allocs,      \* g_total_allocs
    level,       \* g_bench_simd_level_override
    pc,          \* "program", or where fc_bench_run is
    run,         \* the locals of fc_bench_run; (history) failed: reallocs that did
    result,      \* *result of the last run that was not skipped
    simd,        \* the locals of fc_bench_compare_simd
    calls,       \* calls made by the program
    spent        \* (history) the time of every pass of the present run

vars == <<filter, tracking, allocs, level, pc, run, result, simd, calls, spent>>

NoConfig == [name |-> None, min_iterations |-> 1, max_iterations |-> 0, min_time |-> 0, warmup |-> 0,
             enable_stats |-> FALSE, cost |-> 0, jitter |-> 0, allocs |-> 0, levels |-> {}]
NoRun    == [config |-> NoConfig, iterations |-> 0, pass |-> 0, stats |-> NoStats, failed |-> 0]
NoSimd   == [name |-> None, config |-> NoConfig, i |-> 0, prev |-> -1, before |-> -1]
NoResult == [iterations |-> 0, elapsed |-> 0, m2 |-> 0, min |-> 0, max |-> 0, allocs_per_op |-> 0]

TypeOK ==
    /\ filter \in Filter \cup {None}
    /\ tracking \in BOOLEAN /\ allocs \in Nat
    /\ level \in Levels \cup {-1}
    /\ pc \in {"program", "warmup", "calibrate", "pass", "finish", "next level", "restore"}
    /\ run.iterations \in Nat /\ run.pass \in 0 .. Passes
    /\ run.failed \in 0 .. MaxFailures /\ run.stats.count \in 0 .. Passes /\ run.stats.m2 \in Nat
    /\ simd.i \in 0 .. 4 /\ simd.prev \in Levels \cup {-1}
    /\ result.iterations \in Nat /\ result.m2 \in Nat
    /\ calls \in 0 .. MaxCalls
    /\ pc = "program" => run = NoRun /\ simd = NoSimd

Init ==
    /\ filter \in Filter \cup {None}   \* fc_bench_init_with_args
    /\ tracking = FALSE /\ allocs = 0 /\ level = -1
    /\ pc = "program" /\ run = NoRun /\ simd = NoSimd /\ result = NoResult
    /\ calls = 0 /\ spent = <<>>

----------------------------------------------------------------------------
(* Calls of the program.                                                    *)

Call == pc = "program" /\ calls < MaxCalls /\ calls' = calls + 1

fc_bench_set_filter ==
    /\ Call
    /\ filter' \in Filter \cup {None}
    /\ UNCHANGED <<tracking, allocs, level, pc, run, result, simd, spent>>

fc_bench_track_allocations(enable) ==
    /\ Call
    /\ tracking' = enable
    /\ allocs' = IF enable THEN 0 ELSE allocs
    /\ UNCHANGED <<filter, level, pc, run, result, simd, spent>>

fc_bench_set_simd_level(l) ==
    /\ Call
    /\ level' = l
    /\ UNCHANGED <<filter, tracking, allocs, pc, run, result, simd, spent>>

Skipped(name) == filter # None /\ name # None /\ name \notin filter

\* fc_bench_run up to the first loop; a skipped benchmark leaves *result alone.
Start(name, c, after) ==
    IF Skipped(name) THEN pc' = after /\ UNCHANGED <<run, result, spent>>
    ELSE /\ pc' = "warmup"
         /\ run' = [NoRun EXCEPT !.config = c, !.iterations = c.min_iterations]
         /\ result' = NoResult
         /\ spent' = <<>>

fc_bench_run(c) ==
    /\ Call
    /\ Start(c.name, c, "program")
    /\ UNCHANGED <<filter, tracking, allocs, level, simd>>

----------------------------------------------------------------------------
(* The loops of fc_bench_run.                                               *)

Elapsed(k) == k * run.config.cost .. k * run.config.cost + run.config.jitter

\* What k calls of the function do besides taking time; fc_bench_record_alloc.
Effects(k) ==
    /\ allocs' = IF tracking THEN allocs + k * run.config.allocs ELSE allocs
    /\ level' \in {level} \cup run.config.levels

fc_bench_warmup ==
    /\ pc = "warmup"
    /\ pc' = "calibrate"
    /\ \/ run.config.warmup = 0 /\ UNCHANGED <<allocs, level>>
       \/ \E k \in 1 .. run.config.warmup :
             /\ run.config.warmup \in 1 .. k * run.config.cost + run.config.jitter
             /\ (k - 1) * run.config.cost < run.config.warmup
             /\ Effects(k)
    /\ UNCHANGED <<filter, tracking, run, result, simd, calls, spent>>

\* min_time / (elapsed / iterations); too fast for the clock, it is infinite, and
\* its conversion to an integer undefined.
TargetIterations(c, e) ==
    IF e > 0 THEN {(c.min_time * c.min_iterations) \div e} ELSE 0 .. c.max_iterations + 1

Uncapped(c, e) ==   \* mutant: max_iterations is not looked at
    IF e < c.min_time /\ c.min_iterations < c.max_iterations
    THEN {IF t > c.min_iterations THEN t ELSE c.min_iterations : t \in TargetIterations(c, e)}
    ELSE {c.min_iterations}

StrictCap(c, e) ==   \* mutant: the cap itself is not allowed
    IF e < c.min_time /\ c.min_iterations < c.max_iterations
    THEN {IF t > c.min_iterations /\ t < c.max_iterations THEN t ELSE c.min_iterations :
             t \in TargetIterations(c, e)}
    ELSE {c.min_iterations}

\* The iterations of a pass, after a calibration that took e.
Adjusted(c, e) ==
    IF e < c.min_time /\ c.min_iterations < c.max_iterations
    THEN {IF t > c.min_iterations /\ t <= c.max_iterations THEN t ELSE c.min_iterations :
             t \in TargetIterations(c, e)}
    ELSE {c.min_iterations}

Calibrate ==
    /\ pc = "calibrate"
    /\ pc' = "pass"
    /\ \E e \in Elapsed(run.iterations) : \E n \in Adjusted(run.config, e) :
          run' = [run EXCEPT !.iterations = n]
    /\ Effects(run.iterations)
    /\ UNCHANGED <<filter, tracking, result, simd, calls, spent>>

NumPasses(c) == IF c.enable_stats THEN Passes ELSE 1

Pass ==
    /\ pc = "pass"
    /\ \E e \in Elapsed(run.iterations), ok \in BOOLEAN :
          /\ ~ok => run.config.enable_stats /\ MustGrow(run.stats) /\ run.failed < MaxFailures
          /\ run' = [run EXCEPT !.pass = @ + 1, !.failed = IF ok THEN @ ELSE @ + 1,
                         !.stats = IF run.config.enable_stats THEN fc_bench_stats_add(@, e, ok) ELSE @]
          /\ result' = [result EXCEPT !.elapsed = @ + e]
          /\ spent' = Append(spent, e)
    /\ pc' = IF run.pass + 1 = NumPasses(run.config) THEN "finish" ELSE "pass"
    /\ Effects(run.iterations)
    /\ UNCHANGED <<filter, tracking, simd, calls>>

PerPass(n) ==   \* mutant: divided by the iterations of five passes, as the times are
    IF tracking THEN allocs \div (Passes * n) ELSE 0

\* The total since tracking was enabled, whatever ran since.
AllocsPerOp(n) == IF tracking THEN allocs \div n ELSE 0

FiveAlways(r) ==   \* mutant: the sum is divided by five without statistics too
    [r EXCEPT !.iterations = run.iterations, !.elapsed = (Scale * @) \div Passes,
              !.m2 = run.stats.m2, !.min = run.stats.min, !.max = run.stats.max,
              !.allocs_per_op = AllocsPerOp(run.iterations)]

Derived(r) ==
    [r EXCEPT !.iterations = run.iterations, !.elapsed = (Scale * @) \div NumPasses(run.config),
              !.m2 = run.stats.m2, !.min = run.stats.min, !.max = run.stats.max,
              !.allocs_per_op = AllocsPerOp(run.iterations)]

Finish ==
    /\ pc = "finish"
    /\ result' = Derived(result)
    /\ pc' = IF simd = NoSimd THEN "program" ELSE "restore"
    /\ run' = NoRun /\ spent' = <<>>
    /\ UNCHANGED <<filter, tracking, allocs, level, simd, calls>>

----------------------------------------------------------------------------
(* fc_bench_compare_simd.                                                   *)

fc_bench_compare_simd(name, c) ==
    /\ Call
    /\ simd' = [NoSimd EXCEPT !.name = name, !.config = c, !.before = level]
    /\ pc' = "next level"
    /\ UNCHANGED <<filter, tracking, allocs, level, run, result, spent>>

BeginLevel ==
    /\ pc = "next level"
    /\ simd.i \in Levels
    /\ simd' = [simd EXCEPT !.prev = level]
    /\ level' = simd.i
    /\ Start(<<simd.name, simd.i>>, simd.config, "restore")
    /\ UNCHANGED <<filter, tracking, allocs, calls>>

RestoredOnce ==   \* mutant: the level is put back after the first measurement only
    IF simd.i = 0 THEN simd.prev ELSE level

Restored == simd.prev

EndLevel ==
    /\ pc = "restore"
    /\ level' = Restored
    /\ simd' = [simd EXCEPT !.i = @ + 1]
    /\ pc' = "next level"
    /\ UNCHANGED <<filter, tracking, allocs, run, result, calls, spent>>

CompareReturns ==
    /\ pc = "next level"
    /\ simd.i \notin Levels
    /\ simd' = NoSimd
    /\ pc' = "program"
    /\ UNCHANGED <<filter, tracking, allocs, level, run, result, calls, spent>>

----------------------------------------------------------------------------

Next ==
    \/ fc_bench_set_filter
    \/ \E enable \in BOOLEAN : fc_bench_track_allocations(enable)
    \/ \E l \in Levels \cup {-1} : fc_bench_set_simd_level(l)
    \/ \E c \in Config : fc_bench_run(c) \/ \E n \in Name : fc_bench_compare_simd(n, c)
    \/ fc_bench_warmup \/ Calibrate \/ Pass \/ Finish
    \/ BeginLevel \/ EndLevel \/ CompareReturns

Spec == Init /\ [][Next]_vars

----------------------------------------------------------------------------
(* Properties.                                                              *)

Total == FoldSeq(+, 0, spent)

\* The value at rank k, from 0, of the times of the passes.
Ranked(k) ==
    CHOOSE v \in ToSet(spent) :
        /\ Cardinality({i \in DOMAIN spent : spent[i] < v}) <= k
        /\ k < Cardinality({i \in DOMAIN spent : spent[i] <= v})

\* The percentile of the passes, in hundredths: between the two nearest ranks.
Reference(p) ==
    LET r == p * (Len(spent) - 1)
    IN  IF r % 100 = 0 THEN 100 * Ranked(r \div 100)
        ELSE (100 - (r % 100)) * Ranked(r \div 100) + (r % 100) * Ranked((r \div 100) + 1)

\* The mean, the sum of the squared deviations from the mean as it is now, and the
\* extremes are those of the passes.
RunningExact(s) ==
    /\ s.count = Len(spent)
    /\ s.mean * Len(spent) = Scale * Total
    /\ s.m2 = FoldSeq(LAMBDA v, sum : (Scale * v - s.mean) * (Scale * v - s.mean) + sum, 0, spent)
    /\ s.min \in ToSet(spent) /\ \A v \in ToSet(spent) : s.min <= v
    /\ s.max \in ToSet(spent) /\ \A v \in ToSet(spent) : v <= s.max

\* Every sample is where it belongs, even after a realloc has failed, and there the
\* array has a hole or an end before count, for good: percentiles may be taken as long
\* as none failed.
SamplesInPlace(s) ==
    /\ \A i \in DOMAIN s.samples : s.samples[i] # None => i <= Len(spent) /\ s.samples[i] = spent[i]
    /\ Readable(s) <=> run.failed = 0

\* The percentiles are those of the passes, from the minimum to the maximum.
PercentilesExact(s) ==
    Readable(s) =>
        /\ \A p \in {0, 25, 95, 99, 100} : fc_bench_stats_percentile(s, p, TRUE) = Reference(p)
        /\ fc_bench_stats_median(s, TRUE) = Reference(50)
        /\ fc_bench_stats_percentile(s, -1, TRUE) = 100 * s.min
        /\ fc_bench_stats_percentile(s, 101, TRUE) = 100 * s.max

\* The running statistics are those of the passes so far, whatever allocation failed,
\* and the percentiles, from the samples, are those of the same passes.
StatsExact ==
    /\ TypeOK
    /\ run.stats.count > 0 =>
        /\ RunningExact(run.stats)
        /\ SamplesInPlace(run.stats)
        /\ PercentilesExact(run.stats)

Finishes == pc = "finish" /\ pc' # "finish"

\* What the figures reported are.  elapsed_ms is the time of a pass on average, not of
\* the passes together: with statistics the mean they have, between min_ns and max_ns.
\* allocs_per_op is what has been counted since tracking was enabled, by all passes
\* and whatever ran before, over the iterations of one pass: with statistics at least
\* five times what a call allocates.
FiguresOfPasses ==
    [][ Finishes =>
          /\ tracking => result'.allocs_per_op >= NumPasses(run.config) * run.config.allocs
          /\ result'.elapsed * Len(spent) = Scale * Total
          /\ run.config.enable_stats =>
                /\ result'.elapsed = run.stats.mean
                /\ Scale * result'.min <= result'.elapsed /\ result'.elapsed <= Scale * result'.max ]_vars

\* Two comments of fc_bench_result_t: elapsed_ms is the "total elapsed time", and
\* allocs_per_op the "number of allocations per operation".  Violated, even as the
\* claim that one of the two is so.
EitherFigureDocumented ==
    [][ Finishes /\ tracking =>
          result'.elapsed = Scale * Total \/ result'.allocs_per_op = run.config.allocs ]_vars

\* No pass runs more than max_iterations unless min_iterations asks for it, nor
\* fewer than min_iterations, even when the clock is too coarse to calibrate by.
IterationsWithin ==
    pc \in {"pass", "finish"} =>
        /\ run.iterations >= run.config.min_iterations
        /\ run.iterations # run.config.min_iterations => run.iterations <= run.config.max_iterations

\* A function that always takes the same time: a pass takes min_time to within one
\* call, whenever max_iterations is enough for that.
MinTimeWithinCap ==
    [][ LET c == run.config
        IN  Finishes /\ c.jitter = 0 /\ c.cost > 0 /\ c.min_time <= c.cost * c.max_iterations =>
                \A v \in ToSet(spent) : v > c.min_time - c.cost ]_vars

\* The SIMD level is after a comparison what it was before, whatever the function
\* or the filter does in between.
LevelRestored == [][simd # NoSimd /\ simd' = NoSimd => level' = simd.before]_vars

\* "Minimum total time to run" (min_time_ms), "Maximum iterations to run".  Violated:
\* when max_iterations is not enough for min_time, a pass keeps to min_iterations.
MinTimeOrMaxIterations ==
    [][ Finishes =>
          Total + run.config.cost + run.config.jitter >= run.config.min_time
             \/ run.iterations >= run.config.max_iterations ]_vars
=============================================================================
