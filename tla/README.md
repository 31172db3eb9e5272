# optim: a verification project

`optim` computes portfolio risk figures (VaR and CVaR by three methods, option
Greeks, least squares) in C, behind Go bindings that use cgo.  The C sources of
the numeric kernels and of the libraries below them are git submodules and are
not in this repository.  What is here is the Go binding layer, a C unit-test
framework, a C benchmark framework, the build scripts, and the headers that
the libraries install.

So there are two kinds of module.  Those of the first kind translate code:
the bindings, the frameworks, `merge_libs.sh`, and what the headers define
inline.  Those of the second kind, *header modules*, specify what an installed
header lays down: layouts and flags, the algorithm it names, the order of
steps and of memory accesses, what each function answers and when.  Where a
header leaves a choice open, the module names the one it makes.  A header
module shows that the algorithm described keeps what the header promises; it
says nothing of C code that nobody here can read.

## 1. Inventory

| component | state it keeps | operations | what is hard |
|---|---|---|---|
| Monte Carlo state binding (`var_monte_carlo.go`) | a Go object holding a C pointer and the dimension; in C, a generator, a cached Cholesky factor, buffers | `NewVarMonteCarloState`, `Close`, `SetCovariance`, `VarMonteCarlo`, `…Cached`, `…FromHistory`, `…Batch`; the stateless `…Simple` | `s.state` is read twice with no lock; `Close` is three steps; memory is reused; failure may change the C state |
| Stateless bindings (`least_squares.go`, `greeks.go`, `var_historical.go`, `var_parametric.go`) | none | argument checks, flattening, one C call, mapping of return codes | `int` products that wrap, empty slices, codes the mapping does not know |
| cgo set-up (`cgo_source.go`, `cgo_prebuilt.go`) | the C library's global initialisation | `init` | `fc_init` once per process; nothing calls `fc_cleanup` |
| Test framework (`tests/test_framework.c`, `.h`) | counters, the current test and verdict, registered suites, filter, tracked allocations | registration, `run_all`, `run_suite`, assertions, skip, allocation tracking | verdicts overwritten, global state carried from one test to the next, tables at their limit |
| Benchmark framework (`benchmarks/bench_framework.c`, `.h`) | sample arrays, globals for filter, output file, allocation counts, suites | `stats_add`, `percentile`, `run`, `compare_simd`, baseline files | `realloc` failure, calibration, results that were never written |
| Library merge (`scripts/merge_libs.sh`) | the list of archives to merge | read `.gitmodules`, find archives, drop the bundled ones, merge | a variable not reset between modules, a missing archive skipped in silence |
| Build (`Makefile`, `CMakeLists.txt`, `cmake/`, other scripts) | files | compile, link, coverage | tool invocations |
| Shared-memory queue (`spsc.h`, `spsc_shm.h`, `spsc_layout.h`) | a segment with a control block, two sequence numbers, slots; each side's copy of the other's number | create, open, init, attach, push, pop, in bulk, close | two processes, stale copies, a side that dies or comes back |
| Memory pool (`mem_pool.h`, `platform.h`) | a list of free blocks, counters | alloc, free, in batches, statistics | lock-free, blocks come back while they are looked at |
| Arena (`arena.h`, `mem_aligned.h`) | base, size, offset | create, alloc, aligned alloc, reset, destroy | sizes that wrap |
| Ring buffers (`ring_buffer.h`, `generic_ring_buffer.h`) | write position, count, array | push, pop, get, in batches, clear | overwriting, wrapping, sizes at the ends of the range |
| Streaming statistics (`welford.h`, `moments.h`, `rolling.h`, `kahan_sum.h`) | running moments, deques, a compensation | update, batch, merge, reset | update order, cancellation, constant data |
| Random streams (`xoshiro256.h`) | 256 bits per generator | init, next, batch, jump, long_jump | streams that overlap far out |
| Bloom filter (`bloom_filter.h`) | bits, a count | add, contains, clear, in batches | shared bits |
| Roaring bitmap (`roaring_bitmap.h`) | containers of three kinds | adding, removing, ranges, set operations | the same set stored differently, container boundaries |
| Sorting, selection, ranks (`float_sort.h`, `int_sort.h`, `argsort.h`, `multikey.h`, `topk.h`, `quantile.h`, `rank.h`) | the caller's arrays | sorts, quantiles, top k, ranks, weighted median | stability, ties, NaN, arrays rearranged by the call before |
| Array figures and transforms (`mean_var.h`, `weighted.h`, `covariance.h`, `correlation.h`, `cumsum.h`, `cummax.h`, `ema.h`, `zscore.h`, `winsorize.h`) | the caller's arrays | one figure, or one array from another | several ways to one figure, output over input, batches |
| Other numeric headers and the kernels behind them | - | - | formulas over real numbers, or not in the repository |

How they interact: Go callers enter the bindings from any goroutine; each
binding checks its arguments, passes pointers into Go memory to C and maps the
return code.  The C test programs link the kernels with the test framework,
the benchmarks with the benchmark framework; both frameworks are
single-threaded programs built on global variables, called back by and calling
into test bodies.  `merge_libs.sh` builds the archive the bindings link.

What makes each part correct, in a sentence each:

- Monte Carlo state binding: while C runs it has the live state of the handle
  the method was called on; no state leaks or is destroyed twice; nothing
  succeeds after `Close`; to one caller at a time the handle is an atomic
  object with a remembered factor and a random sequence that is never reused.
- Stateless bindings: C stays inside the slices it is given, Go refuses what C
  would refuse, no negative count reaches C, and a nil error means C computed
  (the number of paths and unknown codes of least squares excepted).
- Test framework: the tally is true to the tests, a runner that returns 0
  vouches for all of them, every test runs, no block is freed twice, and a
  test's blocks are freed when it ends.
- Benchmark framework: the reported figures are those of the passes measured,
  the number of iterations respects its limits, and the SIMD level is left as
  it was found.
- Library merge: no dependency is lost and none is included twice.
- Shared-memory queue: no slot is written while it may be read, and the two
  sides see a bounded queue, whoever dies or attaches again.
- Memory pool: a block has one owner, the counters come out right, and some
  thread always gets on.
- Arena: live blocks are aligned, inside and apart.
- Ring buffers: they hold the newest elements in order.
- Statistics, figures and transforms: the result is the one the definition
  gives, by whichever of the ways it is computed.
- Random streams: no two ever draw the same number of the sequence.
- Bloom filter, bitmap, sorts, selections: they answer as the set, the order
  and the ranks that they stand for.

## 2. Modules

| module | what it is | extends / used by |
|---|---|---|
| `MonteCarloState` | the handle, its callers and the contract of the C functions | instantiates `SimulationHandle` |
| `SimulationHandle` | the abstract specification: a handle as an atomic object | refined by `MonteCarloState` |
| `MonteCarloState_proofs` | inductive invariant, lemmas and theorems | extends `MonteCarloState` |
| `TestFramework` | `test_framework.c` with any test bodies and hooks | - |
| `MergeLibs` | the loops of `merge_libs.sh` that choose the archives | - |
| `Tooling_proofs` | invariants and theorems of the two | extends `TestFramework`, `MergeLibs` |
| `BindingArgs` | argument checks, sizes and return codes of the stateless bindings | - |
| `BindingArgs_proofs` | what the Go checks establish, for every width of int | extends `BindingArgs` |
| `BenchStats` | the running statistics, the array of samples, the percentiles | - |
| `BenchRun` | `fc_bench_run` and `fc_bench_compare_simd` | extends `BenchStats` |
| `BenchRun_proofs` | its invariant and theorems | extends `BenchRun` |
| `BoundedQueue` | the abstract specification: what a bounded queue promises its two sides | refined by `SpscRing` |
| `SpscRing` | the shared-memory ring, one memory access at a time | instantiates `BoundedQueue` |
| `MemPool` | the lock-free pool, one access at a time | - |
| `SharedMemory_proofs` | invariants and theorems of ring and pool, and the refinement of the queue | extends `SpscRing`, `MemPool` |
| `Arena` | the bump allocator with sizes that wrap | - |
| `RingBuffer` | the ring of doubles | refined by `GenericRingBuffer` |
| `GenericRingBuffer` | the ring of elements of any size, copied by bytes | instantiates `RingBuffer` |
| `Welford` | streaming mean and variance | extended by the next three |
| `Moments` | online second, third and fourth moments, skewness, kurtosis | extends `Welford` |
| `RollingWindow` | rolling sum, mean, variance, minimum and maximum | extends `Welford` |
| `Figures` | means, variances, covariances, coefficients of whole arrays | extends `Selection`, `Welford` |
| `KahanSum` | compensated summation in a small floating-point format | - |
| `RandomStreams` | generators set apart by jumps | - |
| `BloomFilter`, `RoaringBitmap` | the two set structures | - |
| `Structures_proofs` | invariants and theorems of four structures that one thread uses, and the refinement of the rings | extends `Arena`, `GenericRingBuffer`, `RandomStreams`, `BloomFilter` |
| `RoaringBitmap_proofs` | its invariant and theorems | extends `RoaringBitmap`, `Structures_proofs` |
| `Statistics_proofs` | invariants and theorems of the streams, the moments and the windows | extends `Moments`, `RollingWindow`, `Structures_proofs` |
| `Sorting` | stable, unstable and radix sorts of a table of records | - |
| `Selection` | quantiles, top k, ranks, weighted median | extended by `Figures`, `Transforms` |
| `Transforms` | cumulative sums and maxima, moving averages, scores, winsorizing | extends `Selection`, `Welford` |
| `MC_InstalledHeaders` | the header modules side by side | extends them all |
| `MC_Repository` | test framework, merge script and stateless bindings side by side | extends their `MC_…` modules |
| `MC_…` | model values and symmetry for TLC | extend the above |

`PROJECT.json` maps each definition to the lines it translates.  Three
conventions hold in all modules.  A variable marked *(history)* records what a
property needs to look back at and never enables or disables a step.  An
operator commented *mutant:* stands beside the one it would replace and is
never used by the specification: it is a bug the code could have, and the run
of the property it is listed with finds it.  Definitions with the name of a C
function are that function.

### MonteCarloState

One Go method is several steps, because it reads `s.state` twice and takes no
lock: `Invoke` is everything up to and including the argument checks (a
refusal, the panic on an empty slice, and `Close` of a closed handle all end
here), `EnterC` is the second read and the C function reading its state,
`LeaveC` is the C function writing the state and the mapping of its return
code.  `Close` ends with `Destroy` and then `ClearPtr` (`s.state = nil`).  `LeaveCNull` is a
call that finds the pointer cleared after its check; `LeaveCDangling` is
undefined behaviour, a call whose state was destroyed or whose address was
given to another handle, and may answer anything.  What it could do to other
memory is not modelled: no property is claimed of a behaviour that has it,
but for `NoSuccessAfterClose` and `CloseReleases`, which speak of the handle's
own calls.

The heap maps addresses to C states.  `malloc` reuses addresses, so with two
addresses a destroyed state's place is soon another handle's.  A covariance is a
model value, positive definite or not; the cached factor is the covariance it
came from; the random sequence is how many simulations have drawn from it.
`COutcomes` says, by an operator per C function, what it may return and leave behind, failures that
have drawn or dropped the factor included.  The library is external, so that
contract comes from how the bindings and their header describe it.

`Sharing` says how callers share a handle.  The header calls the C functions
not thread-safe, so the callers the code is written for are `serial`.
`overlap` lets methods overlap but closes only idle handles, which is the weakest
discipline under which pointers stay valid; `free` is no discipline at all.

For a serial caller a handle is a `SimulationHandle`: its status is read off
the pointer and the dimension (`StatusOf`), its factor and its draws off the C
state (`FactorOf`, `DrawsOf`), its answers off the last response (`AnswerTo`).

### TestFramework

The program registers suites, sets a filter, runs single tests with
`RUN_TEST`, and calls `run_all` and `run_suite`; test bodies and hooks are the
environment, and call assertions, `fc_test_skip`, `fc_test_fail` and the
allocation tracker in any order.  `at` says whose code is running.  A test's name
is its function; a filter pattern is the set of suites and of tests whose name
or path contains it.  A failed assertion only records the verdict: its macro returns
from the function it stands in, which may be a helper or a hook, so whoever
called that can carry on and record another verdict.

### MergeLibs

The script's arrays are sets, its loops take the next module in any order
(that of `.gitmodules`), and `sub_deps` keeps its content from one module to
the next, as `declare -a` leaves it.  Which archives exist and what each module's own
`.gitmodules` lists is chosen in `Init`, without cycles: a submodule cannot
contain itself.

### BindingArgs

A call is a record of int parameters and slice lengths; `Refuses` is what the
Go checks of each function reject, `Buffers` the lengths
of the slices that C is given, `Counts` the ints turned into `size_t`; one
contract operator per C function says how far the header lets it read and
write, which arguments it refuses and which codes it lists.  Ints have `Width` bits and
their products wrap.  What C computes is left out; its code is any the header
lists and, because the headers also say "negative error code on failure" and
memory may run out, one that it does not list (`Other`).  The contract of
`fc_optim_var_monte_carlo_simple` refuses 0 paths, as the state behind it does
(`tests/test_var_monte_carlo.c:21`).  An output that the caller does not want has the
length `Nil`, which C is given as NULL.  A matrix whose rows are of one length
is in memory, so an int counts its elements (`RowsAssumption`); those of `Ints`
are the values of an int.

### BenchRun and BenchStats

Time is a whole number of ticks and chosen by the environment within a
configuration's cost and jitter; a loop over the measured function is one
step.  Floating point is replaced by exact fractions (`Scale` is divisible by
every number of passes), so rounding is not modelled, and `min_time` divided
by an elapsed time of zero, which C converts to an integer with an undefined
result, may be any number.

The array of samples is a sequence as long as its capacity, in which `None`
stands for an element never written.  Any `realloc` may fail; the count then goes on
without the sample.  `StatsExact` has three parts.  `RunningExact` is about mean, squares and
extremes; `PercentilesExact` takes a percentile after every pass and
compares it with one defined by counting; `SamplesInPlace` says what a failure costs: the other figures stay exact and the
samples that are there are at their own places, but the array has a hole, or ends before
the count, from then on, and `fc_bench_stats_percentile` reads it nevertheless.
`fc_bench_run` asks for no percentile itself; the functions are offered to programs.

### The header modules

**`SpscRing`.**  A step is one access to the shared memory: reading the
other's number, writing or reading one slot, publishing one's own.  The
variables in the segment (`header`, `tail`, `head`, `dropped`, `slots`)
survive the sides; what a side has on its own (`cached`, `xfer`, its place
`pc`) is lost when it closes or dies, and taken anew by `fc_spsc_attach`.
Acquire and release are not modelled as such: the numbers are published after
the slots, so executions are equivalent to interleavings of these steps as
long as no slot is written while it may be read, which is an invariant.

`BoundedQueue` knows no segment, copies, slots or memory accesses: a sequence
of what is in the queue, and atomic `Put`, `Take`, refusals that are allowed
only while the queue is full (empty), and `Abandon` for a side that goes away
in a call.  The refinement maps the contents to the slots between `head` and
`tail`.

Of `FC_SPSC_BACKPRESSURE_SPIN` the header says two things: "Spin until space
available" (`spsc.h:67`), and that a push returns `FC_ERR_WOULD_BLOCK` "if full
(SPIN mode only)" (`spsc.h:153`).  Both readings are modelled, as policies
`spin` and `refuse`, and a ring has either.  What differs is `CallsReturn`: a push that
spins returns only if the consumer makes room or the side goes away, which the property
says; one that refuses always does, and so does a bulk push under
either reading, because it moves what it can.

**`MemPool`.**  A step is one access to what threads share: reading the head,
reading a link, the compare-and-swap, each counter.  The header names a
lock-free pool and `FC_ATOMIC_CAS` but not the representation of the head,
for which the module takes a block with a version.

**`Arena`, `RingBuffer`, `GenericRingBuffer`, `BloomFilter`,
`RoaringBitmap`, `RandomStreams`.**  One action per function; sizes wrap where
they can.  The contents are compared with a history variable that holds what
the structure stands for: the numbers pushed, the set of members, the ranges
handed out.

**`Welford`, `RollingWindow`, `Figures`, `Transforms`, `KahanSum`.**  All but
the last compute with exact fractions over a common denominator, so that a
formula is either right or wrong; a root is left undrawn and both sides of an
equation are squared.  `KahanSum` is about rounding and nothing else, so it
has a floating-point format of its own, of four bits.  In `Transforms` a step
writes one element and the series of a batch progress in any order, because
the question is what an output that lies over its input may still read.  A score
is the distance from the mean over a root, so an element holds `n` times the
distance and the series the square of the factor, by the deviation of the sample or of the
population; that the scores are standard is part of `TransformsExact` (`Standard`).

**`Moments`.**  `moments.h` defines `init`, skewness and the two kurtoses inline, and those are translated as
code; it names the algorithm of the updates, Welford's extended one, and the
module writes it out: by as much as the mean shifts every sum of powers is corrected by
the lower ones as they were.  The history counts the values, and nothing of the state is
computed from it.  A batch may be split over SIMD lanes; here it is one value after another.

**`Sorting`, `Selection`.**  Programs that load an array and call one function
after another on what the last left there.

`MC_InstalledHeaders` explores all of them in one run: `part` says which one
moves.  They share no state, except the modules that extend one another, so
nothing is lost by not interleaving them.  `MC_Repository` does the same with the
test framework, the merge script and the stateless bindings.

## 3. Runs

All runs that pass are exhaustive for their constants.

| run | configuration | shows |
|---|---|---|
| `monte_carlo_serial` | `MonteCarloState_serial` | two goroutines taking turns on two handles see the atomic object (`ImplementsHandle`) |
| `monte_carlo_overlap` | `MonteCarloState_overlap` | if only idle handles are closed, C always has its handle's live state (`CPointerValid`) and nothing leaks (`NoLeak`); the proofs' invariant `Inv` holds |
| `monte_carlo_free` | `MonteCarloState_free` | under any sharing nothing succeeds after a Close (`NoSuccessAfterClose`), and a Close releases the state (`CloseReleases`) |
| `monte_carlo_periods` | `MonteCarloState_periods` | *violation*: rows of no periods panic |
| `repository` | `Repository` | test framework: counters and return codes against what tests did (`TallyFaithful`, `ZeroVouches`, `RunsAll`), no double free, no leak but by the full table (`TrackedOnce`, `FreedAtEnd`); merge: what is merged is what no other candidate lists, and nothing is lost (`ExactlyUnbundled`, `NothingLost`); stateless bindings: slices (`Contained`), refusals (`DimensionsChecked`), counts (`CountsFaithful`), panics (`OtherPanicsExcluded`) and codes (`SuccessMeansComputed`) |
| `framework_direct` | `TestFramework_direct` | *violation*: the filter does not stop tests run by `RUN_TEST` |
| `merge_missing` | `MergeLibs_missing` | *violation*: a missing archive is left out without a word |
| `binding_codes` | `BindingArgs_codes` | *violation*: a failure by a code that least squares does not know is a nil error |
| `bench_results` | `BenchRun_results` | figures and percentiles under failing allocations (`StatsExact`, `FiguresOfPasses`), limits (`IterationsWithin`, `MinTimeWithinCap`), SIMD level (`LevelRestored`) |
| `installed_headers` | `InstalledHeaders` | the header modules, below |
| `bench_mintime` | `BenchRun_mintime` | *violation*: a target over `max_iterations` is dropped, not capped |
| `bench_fields` | `BenchRun_fields` | *violation*: the elapsed time is no total, the allocations are not per operation |

`installed_headers` checks, of each header module:

| property | says |
|---|---|
| `SpscNoSlotShared`, `SpscSlotsMapped` | no slot is written while it may be read; every slot lies in the segment |
| `SpscImplementsQueue` | the ring is a bounded queue, under any interleaving, closing, death and re-attachment |
| `CallsReturn` | a push or pop that began ends, whatever the other side does, but for a single push that spins on a full ring; of the threads in the pool, some one gets on |
| `PoolConsistent` | one owner per block, counters that settle to the truth, a peak neither missed nor invented |
| `ArenaBlocksApart` | live blocks are aligned, inside the arena and disjoint |
| `RingHoldsNewest`, `GenericImplementsRing` | the newest elements in order, after any calls; the untyped ring is the typed one |
| `StreamingExact` | mean and variances of a stream after any updates, batches, merges and resets; the online moments, skewness and kurtosis after any updates and batches; each rolling figure is that of the window, and the deques are no longer than it |
| `FiguresAgree` | of whole arrays: scalar and vector code, weights and repetition, batches, matrices and ranks agree |
| `TransformsExact` | each element written is the one defined by the input as it was, over the input or not; the scores of a series have mean 0 and deviation 1, of the sample or the population as asked |
| `KahanAccurate` | the error of each sum stays below 2^(1 - Precision) of the total magnitude, however many there are and whatever cancels |
| `StreamsApart` | no two streams draw one position |
| `BloomNoFalseNegative` | what was added is found |
| `RoaringFaithful` | the bitmap is the set, compares as it, and is stored as the header says |
| `SortsAgree`, `OrderStatistics` | sorting by keys in turn is sorting by all of them; all sorts agree on a column; quantiles, top k, ranks and medians are those of the data |

Bounds, and why they are enough:

- Monte Carlo: two goroutines and two handles give every pair of overlapping
  methods on one handle and on two; two addresses are the fewest that let a
  pointer dangle into another handle's state (the `free` run, whose properties
  do not look at the heap of others, has one address, so that reuse is
  immediate).  `Dim` has 0, which New refuses, and a valid one; the overlap run
  has two valid ones, so that a state of another handle can have the wrong
  dimension.  Two positive definite covariances let the cached factor be
  the wrong one.  `MaxDraws`, the bound on simulations of one state, is 2 where
  draws are compared and 1 elsewhere.
- Test framework: two suites, so that one test's leavings can reach a test of
  another, one of them with a NULL entry between its tests;
  `MaxSuites` and `MaxAllocs` are the tables' sizes (64 and 32 in the code),
  and are reached: a program of `MaxCalls` calls can register a third time, and
  two blocks overfill the table of one.
- MergeLibs: the project and three modules, each with any acyclic lists and any
  archives missing: enough for a chain of bundled modules.  `Ordered` takes of
  the lists that differ only in the names of modules those in which a module lists none after
  it, since any lists without a cycle can be named so.  The theorems hold
  for any number.
- BindingArgs: ints of five bits, so that products of three small numbers wrap;
  lengths on both sides of every product that does not; matrices of at most
  two rows of different lengths.
  One code stands for those that no header lists: no binding tells two of them apart.
- BenchRun: five configurations, with limits that are reached and that are not, with
  functions of fixed, varying and unmeasurable time; three calls of the
  program, so that tracking, a filter or a level can be set before a run, and a run can follow
  another.  `InitialCapacity` is 2 (128 in the code), so that five passes grow the array three
  times; one `realloc` fails in a run (`MaxFailures`), the first or a later one.

- Queue: capacities 1, 2 and 4 (3 is refused), segments that are too small, that end
  before and behind the last slot, transfers of up to three at once, and five
  elements offered (`MaxOffered`), so that a ring of four wraps and smaller ones do so
  again and again while the other side's copy is old.  The theorems hold for any.
- Pool: two threads and two blocks, the fewest with which the head can come
  back to a block with another one below; four calls (`MaxPoolCalls`), the
  two that take a block, one that returns it and one in between.
- Arena: addresses of five bits, with sizes that wrap on rounding up and on
  being added; three blocks (`MaxBlocks`), so that one fails between two.
- Rings: sizes of three bits, 0 and more than half the range included; batches of up to
  five and nine elements in all (`MaxBatch`, `MaxPushed`), over twice the largest ring.
- Statistics: five values per stream (`MaxCount`), from
  three that are not symmetric, and four in the state of moments (`MaxMoments`), as many as
  kurtosis needs, with `MScale` 12 to divide by any of their numbers; windows up to four on six elements (`MaxData`), so that each
  leaves a window; series of four, and two of two; weights 0, 1 and 2, so that
  a half of the weight can lie between elements.
- Summation: four bits and four summands (`MaxAdded`) of both signs from 1 to 16, so that every
  rounding case and cancellation occurs, some of them twice.
- Streams: two nodes of two threads, distances 4 and 8 on a cycle of 17, batches of three.
- Filter and bitmap: two keys of up to two hashes with bits in common; chunks of four values,
  of which three make an array too long, three chunks and three operations
  (`MaxSetOps`) on two bitmaps, enough to store equal sets in different ways.
- Sorts: tables of three records (`TableSize`), sorted twice (`MaxSorts`); runs of two, so that
  merging takes place, integers of two bits sorted bit by bit.
- Selections: arrays of up to five of three values, so that ties are
  inevitable, and two calls in a row (`MaxSelects`).

The runs do not look for deadlocks (`CHECK_DEADLOCK FALSE`): programs, scripts and calls end, and
the bounds on calls stop the model besides.

Fairness.  `CloseReleases` needs it: `FairSpec` has weak fairness of
each goroutine's `Step`, the steps inside a method.  The Go scheduler runs
every runnable goroutine and the C functions are loops over finite arrays.
`Invoke` and `New` have none: a program need not call anything.
So does `CallsReturn`, in `PartSpec`.  A side of the queue that is in a push or a pop takes
its steps, and a side that initialises the ring or waits for it does; nothing
makes it begin a call, and it may die in the middle.  In the pool, all threads
together have one weak fairness (`PoolStep`): some thread gets on, which is all
that lock freedom grants.

## 4. Findings

1. `VarMonteCarloBatch` and `VarMonteCarloFromHistory` panic on rows of no
   periods instead of returning the error they map for it (`NeverPanics`).
2. A filter is looked at by `run_all` and `run_suite` only, and the project's
   own test programs run their tests by `RUN_TEST` (`OnlyMatchingRun`).
3. The merged library silently lacks a dependency that was not built
   (`AllDependencies`).
4. The calibrated number of iterations is dropped when it exceeds
   `max_iterations`, so a fast benchmark runs `min_iterations`, far below
   `min_time` (`MinTimeOrMaxIterations`).
5. The bindings of least squares return a nil error for any code but -1, -2 and
   -3, where their C header says "negative error code on failure"
   (`NilMeansSuccess`).
6. Two fields of a benchmark's result are not what `bench_framework.h` says
   of them (`EitherFigureDocumented`): `elapsed_ms`, "total elapsed time", is the
   mean of the passes, and `allocs_per_op` counts the allocations of warmup,
   calibration, all passes and earlier runs over the iterations of one pass.
   The property asks only that one of the two be as documented.

Seen while modelling, and left without a run: a skip after a failed assertion
hides the failure; `run_suite` returns the failures of earlier suites too; a
failing `libtool` is reported as success, its status lost in a pipe; products of int
parameters wrap, and the checks compare what is left; `nPaths` is not checked by
`VarMonteCarloSimple`, so that 0 is refused only by C; after a failed `realloc` `fc_bench_stats_percentile` reads
elements that were never written or lie beyond the array; under a filter
`fc_bench_compare_simd` prints results it never measured.  `PROJECT.json` lists them under "hazards" at their lines.

## 5. Proofs

`tlapm` checks every proof to its leaves.  They assume the named assumptions on the constants and
nothing else.

**`MonteCarloState_proofs`.**  `CPointerValid` and `NoLeak` are not inductive.
The pointer in C is right because it was read from `s.state` while the handle was open,
and the handle is still open because nobody closes it meanwhile; that takes

- `BlocksOwned`: a live C state is the one its owner points to, with its dimension;
- `CallsChecked`: a goroutine in a method checked the lengths;
- `CloseAlone`: nobody else is in a method of a handle being closed, the
  one place where the callers' discipline enters (`PermittedAlone`);
- `StateHeld`: what the nil check found still holds;
- `PtrCurrent`: the pointer in C is `s.state`;
- `HandlesOpen`, `NothingLeft`, `UnbornHandles`: what a pointer that is nil,
  or left between `destroy` and `s.state = nil`, says of the heap.

`Inv` is their conjunction with `TypeOK`; there is one lemma per action
(`NewInv`, `AcceptInv`, … `ClearPtrInv`), joined in `NextInv`.  From it
follow, if `Sharing # "free"`, `Invariance`, `TypeCorrect`, `PointersValid`
and `NothingLeaks`, for any goroutines, handles, addresses and dimensions.
`ClosedForGood` (`NoSuccessAfterClose`) holds for any `Sharing`, by an invariant of its
own, `LateInv`: a handle in `closed` has no pointer and never gets one again.

`SerialHandle` is the refinement `ImplementsHandle`, for `Sharing = "serial"`.
`Inv` is enough for it: with it each action is one step of `SimulationHandle`
or changes nothing that the mapping reads.  One lemma per action
(`MapNew`, `MapInvoke`, ... `MapClearPtr`) shows which, and the
longest, `MapLeaveC`, goes through what each C function may leave behind.
`LeaveCNull` and `LeaveCDangling` do not happen to a serial caller.

**`Tooling_proofs`, the test framework.**  For any suites, tests with NULL entries, hooks, filters and
table sizes.  `TestInv` adds to `TallyFaithful` and `TrackedOnce` where the
program can be (`Placed`), what the present test's verdict is whatever the test before left behind
(`VerdictKnown`) and which blocks the table answers for (`HandedHeld`).  The lemmas on
sequences say what appending a block, removing it by shifting the rest and
emptying do to a table without repetition.  `TallyIsFaithful`,
`NoDoubleFree`, `ZeroMeansNoFailure` (`ZeroVouches`) and `TestEndFrees`
(`FreedAtEnd`) follow; the last two are action properties.

**`BindingArgs_proofs`.**  For every width of int, every length and every
matrix.  The invariant is simple, what matters are lemmas on a call that Go
does not refuse: for each function, that the checks made with products of
`Width` bits, which may wrap, are enough for the reads and writes C will make
with products of `size_t`, unless `NoWrap` fails (`StaysInside`); that they exclude what C
refuses (`SizesChecked`, but for 0 paths), negative counts (`TrueCounts`, but for the
number of paths) and, but for rows without
a period, every index out of range (`FewPanics`).  `NilMeansComputed`
(`SuccessMeansComputed`) says what a nil error leaves open: the sizes were
accepted, and the code is 0, a count, or one that least squares does not know.

**`BenchRun_proofs`.**  For any configurations, costs, jitters and failing
`realloc`s.  `BenchInv` says what a run holds from its first pass on
(`Measured`): the number of iterations is within its limits and long enough, and the
statistics are those of the passes so far (`StatsOf`).  Because a run has at
most five passes a fold is a sum of five terms, which makes Welford's update
provable: its squares are those about the mean as it is now.  `LimitsKept`,
`FiguresReported`, `MinTimeReached` and `LevelPutBack` are `IterationsWithin`,
`FiguresOfPasses`, `MinTimeWithinCap` and `LevelRestored`; `StatisticsFollow` is `StatsExact`.
Of the percentiles it uses that sorting gives every element a place of its own
(`PlacesDiffer`: an injection of `1 .. n` into itself is onto), so that what is at place `k`
is what counting says is there (`RankedIsSorted`); this part holds for any number of passes, and for any
percentile, not only those of the property.

**`Tooling_proofs`, the merge.**  For any modules.  `MInv` says what the arrays hold while the loops run;
its core is
`Credits`: a candidate is credited with what it lists, and nobody with anything
that no candidate lists.  `CreditDecides` is the reason the stale array does no
harm: a candidate that another one is credited with is listed by some
candidate, and not by itself because `deps` is acyclic, so `is_bundled`
decides as it would with an emptied array.
`BenignAccumulation` (`ExactlyUnbundled`) follows, and
`DeduplicationLosesNothing` (`NothingLost`) by taking, among the candidates not provided,
one that no other of them depends on.

**`SharedMemory_proofs`, the queue.**  For every capacity, element size, segment and size of
transfer.  That a slot is not shared is not inductive, because a side decides
on an old copy.  The invariant `SpscInv` adds why that is safe: nobody works
before the side that initialises is done (`Phases`), and copies are old on
the safe side (`Window`: the producer's copy of `head` is not above it, so the
room it believes in is there; the consumer's copy of `tail` likewise).  So what
the producer is writing lies above, and less than a capacity above, everything
published and not released (`Ahead`), and such numbers have different slots
(`SlotsApart`).  For the refinement, `Contents` says besides what the slots
already written, and the elements already read, hold.
`Invariant` joins one lemma per action; `NoSlotShared`, `SlotsMapped` and
`ImplementsQueue` follow, the last by showing of each step that it is a step
of `BoundedQueue` or a stutter.  Numbers are unbounded here: 64 bits
do not overflow in the life of a segment, and a subtraction that goes below
zero is shown not to happen.

**`SharedMemory_proofs`, the pool.**  For any threads and blocks.  That a block has one
owner is not inductive: it rests on the free list being a list.  `PoolInv`
says so (`Linked`: a chain of distinct blocks from the head to null), that every block is in the chain, held,
or in the hands of one call (`Parted`), and why a swap that succeeds puts
the right block in place (`SwapsSafe`): a head of the present version is
the present head, so the link read behind it is still its link, though the block may
have been taken and returned in between under other versions.  `UseCounted`
says which blocks the counter counts already, `PeakKept` who is about to record the
peak.  `PoolSafe` is `PoolConsistent`.

**`Structures_proofs`.**  What one thread uses at a time.

- Streams, for any distances that fit (`StreamsNeverMeet`): every generator stands where the number
  of jumps before it put it, and has drawn the first positions of its own range
  (`StandsFrom`, `DrewInOrder`); ranges are disjoint below the period, because
  numbers less than the modulus apart have different remainders.
- Arena, for any width of addresses, sizes and alignments (`BlocksApart`): what rounding up returns when sizes wrap, and blocks in the order in which
  they were handed out.
- Bloom filter, for any hashes (`NoFalseNegative`): the bits of what is
  present are set, after batches too.
- Ring of doubles, for any capacities and width of `size_t` (`NewestHeld`): `RingInv` says, going back
  from the write position, which element lies where.  That a
  subtraction that wraps gives the right index, and that rounding gives a power
  of two, are lemmas of their own (`MaskedIndex`, `RoundedToPower`).
- Ring of any elements (`GenericRefines`, the refinement `GenericImplementsRing`): the invariant is that the
  memory always holds whole elements (`Encodes`); a copy changes one slot and no
  other (`CopiedIn`), so a batch of copies is the batch of pushes
  (`BatchCopied`), and an element is read where the typed ring reads it.

A batch is a fold.  Its value is found as a table over the sets of
its indices, which exists by induction (`TableExists`), and a fact about all
prefixes of a batch is proved of a set of numbers that contains 0 and with each number the next (`BySteps`).

Nothing is known to the provers about powers of two, so what arithmetic says of
them (they are positive, a smaller one divides a larger one, twice one is the
next) is named in `WidthAssumption`, `ArenaAssumption` and `RingAssumption`, where TLC
evaluates it for the widths of the runs.

**`RoaringBitmap_proofs`.**  For any chunk width and thresholds, and any sets.
`RoaringInv` says of every bitmap that it is well stored (`WellStored`): its
keys are the chunks that have a member; each container holds the members of its
chunk (`Holds`), as an array if they are fewer than the limit, a bitmap if not, or
runs; and `count` is the number of members.  There is one lemma
per operation (`AddStored`, `AddBatchStored`, `RemoveStored`, `AddRangeStored`,
`UnionStored`, ... `OptimizeStored`), each going through the change of kind
that the operation can bring about: a container that outgrows an array, one that
shrinks to it, one that loses its last member and its key with it.
`RoaringIsFaithful` (`RoaringFaithful`) follows.

**`Statistics_proofs`.**  For any finite set of integer samples, any counts and
any windows.  A state is compared with sums over the multiset of what it has
seen, so the module begins with those sums: a statement about all subsets of a
finite set is proved by adding one element at a time (`BySets`), and from it that
sums are linear (`SumLinear`, `SumThree`), what raising one count adds
(`SumPut`) and what bounds them (`SumBounds`).

- Streams: `WelfordInv` says that each state `Describes` its counts: `n * mean` is
  the total, and `n * m2` is what is left of `n` times the squares when
  the square of the total is taken off.  An update (`Updated`), a batch (`BatchDescribes`) and Chan's merge
  (`Merged`) preserve it; their divisions are exact because `WScale` is a multiple of
  what they divide by (`ScaleDivisible`).  `StreamsAreExact` is `WelfordExact`.
- Moments: `MomentsInv` (`HasMoments`) compares the state with sums of powers of the
  distances of its values from the mean as it is now, which moves with every value.  So an update
  changes every term of each sum: `OtherMean` says what becomes of the sums of powers
  about another mean, with the lower sums as factors, `OneMorePower` what the new value adds, and
  `DistancesCancel` that the first power adds up to nothing; together they are
  the corrections of the update (`CorrectionsAre`, `UpdateHas`), and `BatchHas` is the
  batch.  The moments of any values satisfy
  `n * m4 * m2 >= n * m3^2 + m2^3` (`MomentsBound`), because the squares of a polynomial of the
  distances add up to no less than zero, so kurtosis is never below skewness squared plus one.
  `MomentsAreExact` is `MomentsExact`.
- Windows: `RollingInv` says that the sum and the moving state go with the counts of
  the window (`Removed` takes the oldest sample off as `Updated` puts one on), and what
  the deques hold (`Queued`): positions that ascend, with values that do not
  fall, and for every element of the window one that stands no earlier and
  is no larger.  So the first is the smallest; the deque of the largest is that
  of the smallest of the opposites, and is not proved twice.
  `WindowsAreExact` is `RollingExact`.

`StreamingIsExact` joins them as `StreamingExact`, the property the run checks.
`WelfordAssumption` asks that NaN is neither a sample nor a fraction, as in
the floating-point numbers it stands for, and `RollingAssumption` that the
bound on updates leaves room for every window to fill.

**Only model-checked**:

- the liveness properties `CloseReleases` and `CallsReturn`, out of the
  provers' reach, and `RunsAll`, which compares sequences made by filtering
  and flattening, that is by recursion over data;
- `FiguresAgree`, `TransformsExact`, `KahanAccurate`, `SortsAgree` and
  `OrderStatistics`: each compares a computation by folds over an array with
  another one, or with a definition by counting, and needs induction over
  the array on both sides; the sorts and selections recurse besides.

## 6. Not modelled, and why

- The C code behind the headers: git submodules, not in the repository.
- The lock-free variants of the ring buffers (`FC_RING_BUFFER_LOCKFREE`): head
  belongs to the producer and tail to the consumer, yet a push into a full
  ring overwrites the oldest element; the headers do not say which side moves
  tail, and either answer would be an invention.
- `fc_spsc_len`, `fc_spsc_dropped` and `fc_spsc_high_watermark`: they only read, and are for monitoring.
- Sizing a Bloom filter and estimating its error rate: logarithms.
- Arbitrary precision (`fc_bigint.h`, `fc_bigfloat.h` and the `_bigfloat`
  variants), matrices, decompositions and distributions: formulas over real numbers, or calls of GMP and MPFR.
- What is only output: printed tables, colours, baseline and coverage
  files, usage texts.
- The benchmark framework's suites, output file and comparison with a baseline:
  output, but for what the plan names.
- `cgo` directives, `fc_init`, the Makefile, CMake and build scripts: tool
  invocations; what matters of them, the choice of archives, is `MergeLibs`.

Two comments of headers contradict others of the same header, about code that is not
here, so there is no run for them.  The example of `fc_stat_zscore_f64` (`zscore.h:28-32`) asks for the
deviation of the sample and shows the scores by that of the population: their squares
add up to 5, the number of elements, where `Standard` asks for 4 as `zscore.h:18` does.  The
rolling extremes are said to need `O(1)` auxiliary space (`rolling.h:21`, `rolling.h:147`) beside the deque
that they are computed with, which `RollingExact` bounds by the window only.

## 7. Plan

Done, in the order of importance: `MonteCarloState` with its abstraction and
proofs, `TestFramework`, `MergeLibs` with its proofs, `BindingArgs`, `BenchRun`
with `BenchStats`; then the header modules, shared memory first: `SpscRing` with its abstraction and
proofs, `MemPool`, `Arena`, the rings, and the sequential structures and figures; then proofs
of the properties of the frameworks, the stateless bindings, the pool, the arena, the rings, the
generators, the filter, the bitmap, the streams and the windows, and of the refinements.

Left:

1. The result table of `fc_bench_compare_simd`, with the results of skipped
   levels, and the output file that `fc_bench_init` forgets.
2. `RunsAll`, from lemmas on the sequence of the tests that are still to run.
