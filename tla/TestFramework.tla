--------------------------- MODULE TestFramework ---------------------------
(***************************************************************************)
(* The C unit-test framework (tests/test_framework.c): global variables    *)
(* for the registered suites, the test being run, its verdict, the         *)
(* counters and the tracked allocations.  Everything runs in one thread;   *)
(* what interleaves is the framework and the code it calls back: suite and *)
(* test hooks and test bodies, which call the framework in any order.  A   *)
(* hook that is not set is a hook that does nothing.                       *)
(***************************************************************************)
EXTENDS Naturals, Sequences, SequencesExt

CONSTANTS
    Suite,      \* the test suites
    Tests,      \* the tests of every suite, in order; NoFn for a NULL entry
    Direct,     \* the tests a program runs by RUN_TEST, outside any suite
    Filter,     \* filter patterns, as [suites |-> .., paths |-> ..]: the suites
                \* s and the tests s/t in whose names the pattern occurs
    Block,      \* heap addresses
    MaxSuites,  \* FC_TEST_MAX_SUITES
    MaxAllocs,  \* FC_TEST_MAX_ALLOCS
    NoFn, None, \* NULL, as a test function and elsewhere
    MaxCalls    \* bound on the calls a program makes

AllTests == (UNION {ToSet(Tests[s]) : s \in Suite}) \cup Direct

ASSUME TestsAssumption == Tests \in [Suite -> Seq(AllTests)] /\ None \notin AllTests
ASSUME BoundsAssumption == {MaxSuites, MaxAllocs, MaxCalls} \subseteq Nat
\* A pattern that occurs in "suite/" occurs in "suite/test".
ASSUME FilterAssumption ==
    \A f \in Filter : \A s \in f.suites : ToSet(Tests[s]) \ {NoFn} \subseteq f.paths

VARIABLES
    suites,   \* g_suites
    filter,   \* g_filter_pattern
    stats,    \* g_stats
    current,  \* g_current_test
    result,   \* g_current_result
    tracked,  \* g_tracked_allocs
    live,     \* the blocks allocated and not freed
    at,       \* the code that is running: the program's, a hook or a body
    run,      \* the loop of run_all or run_suite: its suites left, its test index
    ret,      \* what run_all or run_suite last returned
    calls,    \* calls made by the program
    past      \* (history) see NoPast

vars == <<suites, filter, stats, current, result, tracked, live, at, run, ret, calls, past>>

Verdict == {"passed", "failed", "skipped"}
NoStats == [total |-> 0, passed |-> 0, failed |-> 0, skipped |-> 0]
Idle    == [mode |-> "none", left |-> <<>>, j |-> 0]
Places  == {"program", "suiteSetup", "setup", "body", "teardown", "suiteTeardown"}

\* What happened: the tests run since the last runner began; the kind of the last
\* verdict call of the present test; how many tests ended clean, and on a failed
\* assertion; the blocks handed to the tracker, and those it had no room for.
NoPast == [ran |-> <<>>, kind |-> "clean", clean |-> 0, failed |-> 0,
           handed |-> {}, dropped |-> {}]

TypeOK ==
    /\ suites \in Seq(Suite) /\ Len(suites) <= MaxSuites
    /\ filter \in Filter \cup {None}
    /\ stats \in [{"total", "passed", "failed", "skipped"} -> Nat]
    /\ current \in AllTests \cup {None}
    /\ result \in Verdict
    /\ tracked \in Seq(Block) /\ Len(tracked) <= MaxAllocs
    /\ live \subseteq Block
    /\ at \in Places /\ (at = "body" <=> current # None)
    /\ run.mode \in {"none", "direct", "all", "suite"} /\ run.left \in Seq(Suite) /\ run.j \in Nat
    /\ ret \in {None, 0, 1}
    /\ calls \in 0 .. MaxCalls

Init ==
    /\ suites = <<>> /\ filter \in Filter \cup {None}   \* fc_test_init_with_args
    /\ stats = NoStats
    /\ current = None /\ result = "passed"
    /\ tracked = <<>> /\ live = {}
    /\ at = "program" /\ run = Idle /\ ret = None
    /\ calls = 0 /\ past = NoPast

----------------------------------------------------------------------------
(* Calls of the program.                                                    *)

Call == at = "program" /\ calls < MaxCalls /\ calls' = calls + 1

memory == <<tracked, live>>

fc_test_init ==
    /\ Call
    /\ stats' = NoStats /\ suites' = <<>>
    /\ past' = [NoPast EXCEPT !.handed = past.handed, !.dropped = past.dropped]
    /\ ret' = None
    /\ UNCHANGED <<filter, current, result, memory, at, run>>

fc_test_cleanup ==
    /\ Call
    /\ suites' = <<>>
    /\ UNCHANGED <<filter, stats, current, result, memory, at, run, ret, past>>

fc_test_set_filter ==
    /\ Call
    /\ filter' \in Filter \cup {None}
    /\ UNCHANGED <<suites, stats, current, result, memory, at, run, ret, past>>

Registered(s) == IF Len(suites) >= MaxSuites THEN suites ELSE Append(suites, s)

fc_test_register_suite(s) ==
    /\ Call
    /\ suites' = Registered(s)
    /\ UNCHANGED <<filter, stats, current, result, memory, at, run, ret, past>>

\* mutant: g_current_result is not reset
StaleVerdict(t) ==
    /\ current' = t /\ at' = "body"
    /\ past' = [past EXCEPT !.ran = Append(@, t), !.kind = "clean"]
    /\ UNCHANGED result

fc_test_start(t) ==
    /\ current' = t /\ at' = "body"
    /\ result' = "passed"
    /\ past' = [past EXCEPT !.ran = Append(@, t), !.kind = "clean"]

RUN_TEST(t) ==
    /\ Call
    /\ fc_test_start(t)
    /\ run' = [Idle EXCEPT !.mode = "direct"]
    /\ UNCHANGED <<suites, filter, stats, memory, ret>>

\* The loops over suites and tests.  A suite's setup runs before its tests are
\* looked at, and with a filter the tests run only if it occurs in the suite's name.
Enter(mode, left) ==
    IF left = <<>>
    THEN /\ at' = "program" /\ run' = Idle
         /\ ret' = IF stats.failed > 0 THEN 1 ELSE 0
    ELSE /\ at' = "suiteSetup" /\ run' = [mode |-> mode, left |-> left, j |-> 0]
         /\ UNCHANGED ret

Selected(s) == filter = None \/ s \in filter.suites

StopsAtNull(s, j) ==   \* mutant: a NULL entry ends the suite
    IF j < Len(Tests[s]) /\ Tests[s][j + 1] # NoFn /\ Selected(s) THEN {j + 1} ELSE {}

\* The index of the next test of suite s after j, if there is one.
NextTest(s, j) ==
    {k \in j + 1 .. Len(Tests[s]) :
        /\ Selected(s) /\ Tests[s][k] # NoFn
        /\ \A m \in j + 1 .. k - 1 : Tests[s][m] = NoFn}

Advance ==
    LET next == NextTest(Head(run.left), run.j)
    IN  IF next = {} THEN at' = "suiteTeardown" /\ UNCHANGED run
        ELSE \E k \in next : at' = "setup" /\ run' = [run EXCEPT !.j = k]

fc_test_run_all ==
    /\ Call
    /\ Enter("all", suites)
    /\ past' = [past EXCEPT !.ran = <<>>]
    /\ UNCHANGED <<suites, filter, stats, current, result, memory>>

\* The first suite of that name; 1 if there is none.
fc_test_run_suite(s) ==
    /\ Call
    /\ IF s \in ToSet(suites) THEN Enter("suite", <<s>>)
       ELSE ret' = 1 /\ UNCHANGED <<at, run>>
    /\ past' = [past EXCEPT !.ran = <<>>]
    /\ UNCHANGED <<suites, filter, stats, current, result, memory>>

----------------------------------------------------------------------------
(* Calls of hooks and test bodies.                                          *)

Called == at # "program"

\* The fc_test_assert_fail functions; the body may go on, when the assertion was
\* in a function it called.
fc_test_assert_fail ==
    /\ Called
    /\ result' = "failed"
    /\ past' = [past EXCEPT !.kind = "failed"]
    /\ UNCHANGED <<suites, filter, stats, current, memory, at, run, ret, calls>>

fc_test_skip ==
    /\ Called
    /\ result' = "skipped"
    /\ past' = [past EXCEPT !.kind = "set"]
    /\ UNCHANGED <<suites, filter, stats, current, memory, at, run, ret, calls>>

\* The caller takes the verdict back, or gives another.
fc_test_set_result(v) ==
    /\ Called
    /\ result' = v
    /\ past' = [past EXCEPT !.kind = "set"]
    /\ UNCHANGED <<suites, filter, stats, current, memory, at, run, ret, calls>>

\* fc_test_malloc_tracked, or malloc and fc_test_track_alloc.
fc_test_malloc_tracked(b) ==
    /\ Called
    /\ b \notin live
    /\ live' = live \cup {b}
    /\ tracked' = IF Len(tracked) >= MaxAllocs THEN tracked ELSE Append(tracked, b)
    /\ past' = [past EXCEPT !.handed = @ \cup {b},
                            !.dropped = IF Len(tracked) >= MaxAllocs THEN @ \cup {b} ELSE @ \ {b}]
    /\ UNCHANGED <<suites, filter, stats, current, result, at, run, ret, calls>>

Forgotten(b) == tracked   \* mutant: FC_TEST_FREE does not untrack

Untracked(b) == RemoveFirst(tracked, b)   \* the entries after it move down

\* FC_TEST_FREE, or free and fc_test_untrack_alloc.
FC_TEST_FREE(b) ==
    /\ Called
    /\ b \in live
    /\ tracked' = Untracked(b)
    /\ live' = live \ {b}
    /\ past' = [past EXCEPT !.handed = @ \ {b}]
    /\ UNCHANGED <<suites, filter, stats, current, result, at, run, ret, calls>>

fc_test_untrack_alloc(b) ==
    /\ Called
    /\ b \in live
    /\ tracked' = Untracked(b)
    /\ past' = [past EXCEPT !.handed = @ \ {b}]
    /\ UNCHANGED <<suites, filter, stats, current, result, live, at, run, ret, calls>>

LastKept == live \ ToSet(SubSeq(tracked, 1, Len(tracked) - 1))   \* mutant: one entry too few

\* What the cleanup leaves allocated.
Kept == live \ ToSet(tracked)

fc_test_cleanup_allocs == tracked' = <<>> /\ live' = Kept

CallCleanup ==
    /\ Called
    /\ fc_test_cleanup_allocs
    /\ UNCHANGED <<suites, filter, stats, current, result, at, run, ret, calls, past>>

----------------------------------------------------------------------------
(* Hooks and bodies return.                                                 *)

SuiteSetupReturns ==
    /\ at = "suiteSetup"
    /\ Advance
    /\ UNCHANGED <<suites, filter, stats, current, result, memory, ret, calls, past>>

SetupReturns ==
    /\ at = "setup"
    /\ fc_test_start(Tests[Head(run.left)][run.j])
    /\ UNCHANGED <<suites, filter, stats, memory, run, ret, calls>>

\* mutant: the switch of fc_test_end has no case for a failed test
FailureUncounted ==
    IF result = "failed" THEN [stats EXCEPT !.total = @ + 1]
    ELSE [stats EXCEPT !.total = @ + 1, ![result] = @ + 1]

Counted == [stats EXCEPT !.total = @ + 1, ![result] = @ + 1]

\* fc_test_end.
BodyReturns ==
    /\ at = "body"
    /\ stats' = Counted
    /\ fc_test_cleanup_allocs
    /\ current' = None
    /\ IF run.mode = "direct" THEN at' = "program" /\ run' = Idle
       ELSE at' = "teardown" /\ UNCHANGED run
    /\ past' = [past EXCEPT !.clean = IF past.kind = "clean" THEN @ + 1 ELSE @,
                            !.failed = IF past.kind = "failed" THEN @ + 1 ELSE @]
    /\ UNCHANGED <<suites, filter, result, ret, calls>>

TeardownReturns ==
    /\ at = "teardown"
    /\ Advance
    /\ UNCHANGED <<suites, filter, stats, current, result, memory, ret, calls, past>>

SuiteTeardownReturns ==
    /\ at = "suiteTeardown"
    /\ Enter(run.mode, Tail(run.left))
    /\ UNCHANGED <<suites, filter, stats, current, result, memory, calls, past>>

----------------------------------------------------------------------------

Next ==
    \/ fc_test_init \/ fc_test_cleanup \/ fc_test_set_filter
    \/ \E s \in Suite : fc_test_register_suite(s) \/ fc_test_run_suite(s)
    \/ \E t \in Direct : RUN_TEST(t)
    \/ fc_test_run_all
    \/ fc_test_assert_fail
    \/ fc_test_skip \/ \E v \in Verdict : fc_test_set_result(v)
    \/ \E b \in Block : fc_test_malloc_tracked(b) \/ FC_TEST_FREE(b) \/ fc_test_untrack_alloc(b)
    \/ CallCleanup
    \/ SuiteSetupReturns \/ SetupReturns \/ BodyReturns \/ TeardownReturns \/ SuiteTeardownReturns

Spec == Init /\ [][Next]_vars

----------------------------------------------------------------------------
(* Properties.                                                              *)

\* The tally is true to the tests: a test in which nothing failed, nothing was
\* skipped and no verdict was set counts as passed, whatever happened in the test
\* or the hooks before it, and one whose last verdict was a failed assertion
\* counts as failed.
TallyFaithful ==
    /\ TypeOK
    /\ stats.total = stats.passed + stats.failed + stats.skipped
    /\ stats.passed >= past.clean
    /\ stats.failed >= past.failed

\* The end of a run_all or a run_suite that found its suite.
Returns(mode) ==
    \/ at = "suiteTeardown" /\ at' = "program" /\ run.mode = mode
    \/ mode = "all" /\ suites = <<>> /\ fc_test_run_all

\* A runner that returns 0 vouches for every test that ended since fc_test_init,
\* those run outside the suites included: none ended on a failed assertion.
ZeroVouches == [][(Returns("all") \/ Returns("suite")) /\ ret' = 0 => past.failed = 0]_vars

\* run_all runs every test of every registered suite once and in order, NULL
\* entries left out, but for the suites in whose name a filter does not occur.
RunsAll ==
    [][ Returns("all") =>
          past'.ran = FlattenSeq([i \in DOMAIN suites |->
              IF filter # None /\ suites[i] \notin filter.suites THEN <<>>
              ELSE SelectSeq(Tests[suites[i]], LAMBDA t : t # NoFn)]) ]_vars

\* The tracker never frees a block twice: what it holds is allocated, and held once,
\* in whatever order tests and hooks track, free, untrack and clean up.
TrackedOnce == ToSet(tracked) \subseteq live /\ IsInjective(tracked)

\* At the end of a test, the blocks handed to the tracker by the test and by the
\* hooks before it are freed, but for those it had no room for.
FreedAtEnd == [][at = "body" /\ at' # "body" => live' \cap past.handed \subseteq past.dropped]_vars

\* "Only tests matching the pattern will be run" (fc_test_set_filter).  Violated by
\* tests run by RUN_TEST, which is how every register_..._tests runs its tests.
OnlyMatchingRun == [][current' \notin {None, current} /\ filter # None => current' \in filter.paths]_vars
=============================================================================
