--------------------------- MODULE Tooling_proofs ---------------------------
(***************************************************************************)
(* Proofs about the two parts of the project's own tooling that keep no    *)
(* figures.                                                                *)
(*                                                                         *)
(* TestFramework, for any suites, tests, filters, table sizes and          *)
(* programs: the tally is true to the tests, a runner that returns 0       *)
(* vouches for them, no block is freed twice, and a test that ends leaves  *)
(* no block behind that the tracker had room for.                          *)
(*                                                                         *)
(* MergeLibs, for any family of modules: the array that is never emptied   *)
(* changes no decision, and the deduplication loses nothing.  Both rest on *)
(* there being no cycle among the modules.                                 *)
(***************************************************************************)
EXTENDS TestFramework, MergeLibs, SequenceTheorems, TLAPS

----------------------------------------------------------------------------
(* TestFramework.                                                           *)

\* Off the program, a runner is in a suite, or RUN_TEST in a body; a test that is
\* being prepared is one of its suite's.
Placed ==
    /\ run \in [mode : {"none", "direct", "all", "suite"}, left : Seq(Suite), j : Nat]
    /\ Called /\ run.mode # "direct" => run.mode \in {"all", "suite"} /\ run.left # <<>>
    /\ run.mode = "direct" => at = "body"
    /\ at = "setup" => /\ run.j \in DOMAIN Tests[Head(run.left)]
                       /\ Tests[Head(run.left)][run.j] # NoFn

HistoryOK ==
    past \in [ran : Seq(AllTests), kind : {"clean", "failed", "set"}, clean : Nat, failed : Nat,
              handed : SUBSET Block, dropped : SUBSET Block]

\* The present test's verdict is the one its last call gave, whatever was left
\* behind by the test before it.
VerdictKnown ==
    at = "body" => /\ past.kind = "clean" => result = "passed"
                   /\ past.kind = "failed" => result = "failed"

\* What was handed to the tracker and is still allocated is in its table, but for
\* what it had no room for.
HandedHeld == live \cap past.handed \subseteq ToSet(tracked) \cup past.dropped

TestInv ==
    /\ Placed /\ HistoryOK
    /\ TallyFaithful
    /\ TrackedOnce
    /\ VerdictKnown
    /\ HandedHeld

----------------------------------------------------------------------------
(* The table of tracked blocks.                                             *)

LEMMA AppendedOnce ==
    ASSUME NEW S, NEW s \in Seq(S), NEW e \in S
    PROVE  /\ Append(s, e) \in Seq(S) /\ Len(Append(s, e)) = Len(s) + 1
           /\ ToSet(Append(s, e)) = ToSet(s) \cup {e}
           /\ IsInjective(s) /\ e \notin ToSet(s) => IsInjective(Append(s, e))
  <1> DEFINE a == Append(s, e)
  <1>1. /\ a \in Seq(S) /\ Len(a) = Len(s) + 1 /\ a[Len(s) + 1] = e
        /\ \A i \in 1 .. Len(s) : a[i] = s[i]
    BY AppendProperties
  <1>2. Len(s) \in Nat /\ DOMAIN s = 1 .. Len(s) /\ DOMAIN a = 1 .. Len(s) + 1
    BY <1>1, LenProperties
  <1> HIDE DEF a
  <1>3. ToSet(a) = ToSet(s) \cup {e}
    BY <1>1, <1>2 DEF ToSet
  <1>4. IsInjective(s) /\ e \notin ToSet(s) => IsInjective(a)
    BY <1>1, <1>2 DEF ToSet, IsInjective
  <1> QED
    BY <1>1, <1>3, <1>4 DEF a

LEMMA RemovedOnce ==
    ASSUME NEW S, NEW s \in Seq(S), NEW e, IsInjective(s)
    PROVE  /\ RemoveFirst(s, e) \in Seq(S) /\ Len(RemoveFirst(s, e)) <= Len(s)
           /\ ToSet(RemoveFirst(s, e)) = ToSet(s) \ {e}
           /\ IsInjective(RemoveFirst(s, e))
  <1>1. Len(s) \in Nat /\ DOMAIN s = 1 .. Len(s) /\ \A i \in 1 .. Len(s) : s[i] \in S
    BY LenProperties, ElementOfSeq
  <1>2. CASE ~ \E i \in 1 .. Len(s) : s[i] = e
    <2>1. RemoveFirst(s, e) = s
      BY <1>2 DEF RemoveFirst
    <2> QED
      BY <1>1, <1>2, <2>1 DEF ToSet
  <1>3. ASSUME NEW k \in 1 .. Len(s), s[k] = e
        PROVE  RemoveFirst(s, e) = SubSeq(s, 1, k - 1) \o SubSeq(s, k + 1, Len(s))
    <2>1. {i \in 1 .. Len(s) : s[i] = e} = {k}
      BY <1>1, <1>3 DEF IsInjective
    <2>2. SelectInSeq(s, LAMBDA v : v = e) = k
      BY <2>1 DEF SelectInSeq, Min
    <2> QED
      BY <1>3, <2>2 DEF RemoveFirst, RemoveAt
  <1>4. ASSUME NEW k \in 1 .. Len(s), s[k] = e
        PROVE  LET r == SubSeq(s, 1, k - 1) \o SubSeq(s, k + 1, Len(s))
               IN  /\ r \in Seq(S) /\ Len(r) = Len(s) - 1
                   /\ \A i \in 1 .. Len(r) : r[i] = s[IF i < k THEN i ELSE i + 1]
    <2> DEFINE p == SubSeq(s, 1, k - 1)
               q == SubSeq(s, k + 1, Len(s))
    <2>1. /\ p \in Seq(S) /\ Len(p) = k - 1
          /\ \A i \in 1 .. k - 1 : p[i] = s[i]
      BY <1>1, SubSeqProperties
    <2>2. /\ q \in Seq(S) /\ Len(q) = Len(s) - k
          /\ \A i \in 1 .. Len(s) - k : q[i] = s[k + i]
      <3>1. /\ q \in Seq(S) /\ Len(q) = IF k + 1 <= Len(s) THEN Len(s) - (k + 1) + 1 ELSE 0
            /\ \A i \in 1 .. Len(s) - (k + 1) + 1 : q[i] = s[(k + 1) + i - 1]
        <4>1. k + 1 \in Int /\ Len(s) \in Int /\ \A i \in k + 1 .. Len(s) : s[i] \in S
          BY <1>1
        <4> QED
          BY <4>1, SubSeqProperties
      <3> HIDE DEF q
      <3>2. ASSUME NEW i \in 1 .. Len(s) - k PROVE q[i] = s[k + i]
        <4>1. i \in 1 .. Len(s) - (k + 1) + 1 /\ (k + 1) + i - 1 = k + i
          BY <1>1
        <4> QED
          BY <3>1, <4>1
      <3>3. Len(q) = Len(s) - k
        <4>1. PICK N \in Nat : N = Len(s)
          BY <1>1
        <4>2. k \in 1 .. N /\ Len(q) = IF k + 1 <= N THEN N - (k + 1) + 1 ELSE 0
          BY <3>1, <4>1
        <4>3. Len(q) = N - k
          BY <4>2
        <4> QED
          BY <4>1, <4>3
      <3> QED
        BY <3>1, <3>2, <3>3
    <2> HIDE DEF p, q
    <2>3. /\ p \o q \in Seq(S) /\ Len(p \o q) = Len(p) + Len(q)
          /\ \A i \in 1 .. Len(p) + Len(q) :
                (p \o q)[i] = IF i <= Len(p) THEN p[i] ELSE q[i - Len(p)]
      BY <2>1, <2>2, ConcatProperties
    <2>4. ASSUME NEW i \in 1 .. Len(s) - 1 PROVE (p \o q)[i] = s[IF i < k THEN i ELSE i + 1]
      <3>1. CASE i < k
        BY <1>1, <2>1, <2>2, <2>3, <3>1
      <3>2. CASE ~(i < k)
        <4>1. i - Len(p) \in 1 .. Len(s) - k /\ k + (i - Len(p)) = i + 1
          BY <1>1, <2>1, <3>2
        <4>2. (p \o q)[i] = q[i - Len(p)]
          BY <1>1, <2>1, <2>2, <2>3, <3>2
        <4>3. q[i - Len(p)] = s[k + (i - Len(p))]
          BY <2>2, <4>1
        <4> QED
          BY <3>2, <4>1, <4>2, <4>3
      <3> QED
        BY <3>1, <3>2
    <2>5. Len(p \o q) = Len(s) - 1
      BY <1>1, <2>1, <2>2, <2>3
    <2> QED
      BY <2>3, <2>4, <2>5 DEF p, q
  <1>5. ASSUME NEW k \in 1 .. Len(s), s[k] = e, NEW r \in Seq(S), Len(r) = Len(s) - 1,
               \A i \in 1 .. Len(r) : r[i] = s[IF i < k THEN i ELSE i + 1]
        PROVE  ToSet(r) = ToSet(s) \ {e} /\ IsInjective(r)
    <2>1. DOMAIN r = 1 .. Len(s) - 1
      BY <1>5, LenProperties
    <2>2. ASSUME NEW i \in 1 .. Len(s), i # k
          PROVE  \E j \in DOMAIN r : r[j] = s[i]
      <3>1. CASE i < k
        BY <1>1, <1>5, <2>1, <3>1
      <3>2. CASE i > k
        <4>1. i - 1 \in DOMAIN r /\ ~(i - 1 < k) /\ (i - 1) + 1 = i
          BY <1>1, <2>1, <3>2
        <4> QED
          BY <1>5, <2>1, <4>1
      <3> QED
        BY <1>1, <2>2, <3>1, <3>2
    <2>3. ASSUME NEW j \in DOMAIN r
          PROVE  \E i \in 1 .. Len(s) : i # k /\ r[j] = s[i] /\ i = IF j < k THEN j ELSE j + 1
      BY <1>1, <1>5, <2>1
    <2>4. ToSet(r) = ToSet(s) \ {e}
      <3>1. \A i \in 1 .. Len(s) : s[i] = e <=> i = k
        BY <1>1, <1>5 DEF IsInjective
      <3>2. \A j \in DOMAIN r : r[j] \in ToSet(s) \ {e}
        BY <1>1, <2>3, <3>1 DEF ToSet
      <3>3. \A x \in ToSet(s) \ {e} : \E j \in DOMAIN r : r[j] = x
        BY <1>1, <1>5, <2>2 DEF ToSet
      <3> QED
        BY <3>2, <3>3 DEF ToSet
    <2>5. IsInjective(r)
      <3> SUFFICES ASSUME NEW a \in DOMAIN r, NEW b \in DOMAIN r, r[a] = r[b] PROVE a = b
        BY DEF IsInjective
      <3>1. PICK i \in 1 .. Len(s) : r[a] = s[i] /\ i = IF a < k THEN a ELSE a + 1
        BY <2>3
      <3>2. PICK j \in 1 .. Len(s) : r[b] = s[j] /\ j = IF b < k THEN b ELSE b + 1
        BY <2>3
      <3>3. i = j
        BY <1>1, <3>1, <3>2 DEF IsInjective
      <3> QED
        BY <1>1, <2>1, <3>1, <3>2, <3>3
    <2> QED
      BY <2>4, <2>5
  <1>6. ASSUME NEW k \in 1 .. Len(s), s[k] = e
        PROVE  /\ RemoveFirst(s, e) \in Seq(S) /\ Len(RemoveFirst(s, e)) <= Len(s)
               /\ ToSet(RemoveFirst(s, e)) = ToSet(s) \ {e}
               /\ IsInjective(RemoveFirst(s, e))
    <2>1. PICK r : r = RemoveFirst(s, e)
      OBVIOUS
    <2>2. /\ r \in Seq(S) /\ Len(r) = Len(s) - 1
          /\ \A i \in 1 .. Len(r) : r[i] = s[IF i < k THEN i ELSE i + 1]
      BY <1>3, <1>4, <1>6, <2>1
    <2>3. ToSet(r) = ToSet(s) \ {e} /\ IsInjective(r)
      BY <1>5, <1>6, <2>2
    <2> QED
      BY <1>1, <2>1, <2>2, <2>3
  <1> QED
    BY <1>2, <1>6

----------------------------------------------------------------------------
(* Initially, and what a step need not be shown to keep.                    *)

LEMMA InitInv == Init => TestInv
  <1> SUFFICES ASSUME Init PROVE TestInv
    OBVIOUS
  <1> USE DEF Init
  <1>1. TypeOK
    BY TestsAssumption, BoundsAssumption, EmptySeq
       DEF TypeOK, NoStats, Idle, Verdict, Places
  <1>2. Placed /\ HistoryOK
    BY EmptySeq DEF Placed, HistoryOK, Idle, NoPast, Called
  <1>3. TallyFaithful
    BY <1>1 DEF TallyFaithful, NoStats, NoPast
  <1>4. TrackedOnce /\ HandedHeld /\ VerdictKnown
    BY DEF TrackedOnce, HandedHeld, VerdictKnown, IsInjective, ToSet, NoPast
  <1> QED
    BY <1>2, <1>3, <1>4 DEF TestInv

\* Memory and its history stay as they are.
MemoryKept == UNCHANGED memory /\ past'.handed = past.handed /\ past'.dropped = past.dropped

LEMMA MemoryInv ==
    ASSUME TestInv, MemoryKept
    PROVE  TrackedOnce' /\ HandedHeld'
  BY DEF TestInv, MemoryKept, memory, TrackedOnce, HandedHeld

\* The tests and their verdicts stay as they are.
TallyKept == /\ UNCHANGED <<stats, current, result, at, run>>
             /\ past'.kind = past.kind /\ past'.clean = past.clean /\ past'.failed = past.failed

LEMMA TallyInv ==
    ASSUME TestInv, TallyKept, TypeOK'
    PROVE  Placed' /\ VerdictKnown' /\ TallyFaithful'
  BY DEF TestInv, TallyKept, Placed, Called, VerdictKnown, TallyFaithful

LEMMA SuiteOfTests ==
    ASSUME TypeOK, Placed, Called, run.mode # "direct"
    PROVE  /\ Head(run.left) \in Suite /\ Tail(run.left) \in Seq(Suite)
           /\ Tests[Head(run.left)] \in Seq(AllTests)
           /\ \A k \in DOMAIN Tests[Head(run.left)] : Tests[Head(run.left)][k] \in AllTests /\ k \in Nat
  <1>1. Head(run.left) \in Suite /\ Tail(run.left) \in Seq(Suite)
    BY HeadTailProperties DEF Placed, TypeOK
  <1>2. Tests[Head(run.left)] \in Seq(AllTests)
    BY <1>1, TestsAssumption
  <1> QED
    BY <1>1, <1>2, LenProperties, ElementOfSeq

----------------------------------------------------------------------------
(* The program's calls.                                                     *)

LEMMA SettingsInv ==
    ASSUME TestInv, \/ fc_test_cleanup \/ fc_test_set_filter
                    \/ \E s \in Suite : fc_test_register_suite(s)
    PROVE  TestInv'
  <1>1. /\ MemoryKept /\ TallyKept /\ UNCHANGED past /\ UNCHANGED ret /\ calls' = calls + 1 /\ Call
        /\ filter' \in Filter \cup {None}
    BY DEF TestInv, TallyFaithful, TypeOK, fc_test_cleanup, fc_test_set_filter, fc_test_register_suite,
           MemoryKept, TallyKept, Call, memory
  <1>2. suites' \in Seq(Suite) /\ Len(suites') <= MaxSuites
    <2>1. ASSUME NEW s \in Suite
          PROVE  Registered(s) \in Seq(Suite) /\ Len(Registered(s)) <= MaxSuites
      BY BoundsAssumption, AppendProperties, LenProperties
         DEF Registered, TestInv, TallyFaithful, TypeOK
    <2>2. /\ suites \in Seq(Suite) /\ Len(suites) <= MaxSuites
          /\ <<>> \in Seq(Suite) /\ Len(<<>>) <= MaxSuites
      BY BoundsAssumption, EmptySeq DEF TestInv, TallyFaithful, TypeOK
    <2>3. suites' \in {suites, <<>>} \/ \E s \in Suite : suites' = Registered(s)
      BY DEF fc_test_cleanup, fc_test_set_filter, fc_test_register_suite
    <2> QED
      BY <2>1, <2>2, <2>3
  <1>3. TypeOK'
    BY <1>1, <1>2, BoundsAssumption DEF TestInv, TallyFaithful, TypeOK, TallyKept, MemoryKept, memory, Call
  <1> QED
    BY <1>1, <1>3, MemoryInv, TallyInv DEF TestInv, HistoryOK

LEMMA InitCallInv ==
    ASSUME TestInv, fc_test_init
    PROVE  TestInv'
  <1>1. MemoryKept
    BY DEF fc_test_init, MemoryKept, NoPast
  <1>2. TypeOK'
    BY BoundsAssumption, EmptySeq DEF TestInv, TallyFaithful, TypeOK, fc_test_init, NoStats, memory, Call
  <1>3. Placed' /\ VerdictKnown' /\ TallyFaithful'
    BY <1>2 DEF TestInv, Placed, Called, VerdictKnown, TallyFaithful, fc_test_init, Call, NoStats, NoPast
  <1>4. HistoryOK'
    BY EmptySeq DEF TestInv, HistoryOK, fc_test_init, NoPast
  <1> QED
    BY <1>1, <1>3, <1>4, MemoryInv DEF TestInv

LEMMA RunTestInv ==
    ASSUME TestInv, NEW t \in Direct, RUN_TEST(t)
    PROVE  TestInv'
  <1>1. MemoryKept
    BY DEF RUN_TEST, fc_test_start, MemoryKept
  <1>2. t \in AllTests /\ t # None
    BY TestsAssumption DEF AllTests
  <1>3. run' = [mode |-> "direct", left |-> <<>>, j |-> 0] /\ at' = "body" /\ current' = t
    BY DEF RUN_TEST, fc_test_start, Idle
  <1>4. TypeOK'
    <2>1. /\ <<>> \in Seq(Suite) /\ result' \in Verdict /\ calls' \in 0 .. MaxCalls
          /\ UNCHANGED <<suites, filter, stats, memory, ret>>
      BY BoundsAssumption, EmptySeq
         DEF TestInv, TallyFaithful, TypeOK, RUN_TEST, fc_test_start, Call, Verdict
    <2> QED
      BY <1>2, <1>3, <2>1 DEF TestInv, TallyFaithful, TypeOK, memory, Places
  <1>5. HistoryOK' /\ past'.clean = past.clean /\ past'.failed = past.failed /\ past'.kind = "clean"
    BY <1>2, AppendProperties DEF TestInv, HistoryOK, RUN_TEST, fc_test_start
  <1>6. TallyFaithful'
    BY <1>4, <1>5 DEF TestInv, TallyFaithful, RUN_TEST
  <1>7. Placed' /\ VerdictKnown'
    <2>1. result' = "passed" /\ <<>> \in Seq(Suite)
      BY EmptySeq DEF RUN_TEST, fc_test_start
    <2> QED
      BY <1>3, <1>5, <2>1 DEF Placed, Called, VerdictKnown
  <1> QED
    BY <1>1, <1>5, <1>6, <1>7, MemoryInv DEF TestInv

\* A runner's first suite, its next one, or its return.
LEMMA EnterInv ==
    ASSUME TypeOK, NEW mode \in {"all", "suite"}, NEW left \in Seq(Suite), Enter(mode, left)
    PROVE  /\ run' \in [mode : {"none", "direct", "all", "suite"}, left : Seq(Suite), j : Nat]
           /\ Placed' /\ at' \in {"program", "suiteSetup"} /\ ret' \in {None, 0, 1}
  <1>1. CASE left = <<>>
    <2>1. at' = "program" /\ run' = [mode |-> "none", left |-> <<>>, j |-> 0] /\ <<>> \in Seq(Suite)
      BY <1>1, EmptySeq DEF Enter, Idle
    <2>2. ret' \in {0, 1}
      BY <1>1 DEF Enter
    <2> QED
      BY <2>1, <2>2 DEF Placed, Called
  <1>2. CASE left # <<>>
    BY <1>2 DEF Enter, Placed, Called, TypeOK
  <1> QED
    BY <1>1, <1>2

LEMMA RunnersInv ==
    ASSUME TestInv, fc_test_run_all \/ \E s \in Suite : fc_test_run_suite(s)
    PROVE  TestInv'
  <1>1. /\ UNCHANGED <<suites, filter, stats, current, result, memory>> /\ MemoryKept /\ Call
        /\ past'.kind = past.kind /\ past'.clean = past.clean /\ past'.failed = past.failed /\ HistoryOK'
    BY EmptySeq DEF TestInv, HistoryOK, fc_test_run_all, fc_test_run_suite, MemoryKept
  <1>2. /\ Placed' /\ at' \in {"program", "suiteSetup"} /\ ret' \in {None, 0, 1}
    <2>1. CASE fc_test_run_all
      <3>1. TypeOK /\ suites \in Seq(Suite) /\ Enter("all", suites)
        BY <2>1 DEF TestInv, TallyFaithful, TypeOK, fc_test_run_all
      <3> QED
        BY <3>1, EnterInv
    <2>2. ASSUME NEW s \in Suite, fc_test_run_suite(s)
          PROVE  Placed' /\ at' \in {"program", "suiteSetup"} /\ ret' \in {None, 0, 1}
      <3>1. CASE s \in ToSet(suites)
        <4>1. TypeOK /\ <<s>> \in Seq(Suite) /\ Enter("suite", <<s>>)
          BY <2>2, <3>1 DEF TestInv, TallyFaithful, fc_test_run_suite
        <4> QED
          BY <4>1, EnterInv
      <3>2. CASE s \notin ToSet(suites)
        BY <2>2, <3>2 DEF TestInv, Placed, Called, fc_test_run_suite, Call
      <3> QED
        BY <3>1, <3>2
    <2> QED
      BY <2>1, <2>2
  <1>3. TypeOK'
    BY <1>1, <1>2, BoundsAssumption DEF TestInv, TallyFaithful, TypeOK, memory, Call, Placed, Places
  <1>4. VerdictKnown' /\ TallyFaithful'
    BY <1>1, <1>2, <1>3 DEF TestInv, VerdictKnown, TallyFaithful
  <1> QED
    BY <1>1, <1>2, <1>4, MemoryInv DEF TestInv

----------------------------------------------------------------------------
(* The calls of hooks and bodies.                                           *)

LEMMA VerdictCallsInv ==
    ASSUME TestInv, fc_test_assert_fail \/ fc_test_skip \/ \E v \in Verdict : fc_test_set_result(v)
    PROVE  TestInv'
  <1>1. /\ UNCHANGED <<suites, filter, stats, current, memory, at, run, ret, calls>>
        /\ result' \in Verdict /\ MemoryKept /\ HistoryOK'
        /\ past'.clean = past.clean /\ past'.failed = past.failed
        /\ past'.kind = "failed" => result' = "failed"
        /\ past'.kind # "clean"
    BY DEF TestInv, HistoryOK, fc_test_assert_fail, fc_test_skip, fc_test_set_result, MemoryKept, Verdict
  <1>2. TypeOK'
    BY <1>1 DEF TestInv, TallyFaithful, TypeOK, memory
  <1>3. Placed' /\ VerdictKnown' /\ TallyFaithful'
    BY <1>1, <1>2 DEF TestInv, Placed, Called, VerdictKnown, TallyFaithful
  <1> QED
    BY <1>1, <1>3, MemoryInv DEF TestInv

LEMMA TrackInv ==
    ASSUME TestInv, NEW b \in Block, fc_test_malloc_tracked(b)
    PROVE  TestInv'
  <1>1. /\ Called /\ b \notin live /\ live' = live \cup {b} /\ TallyKept /\ HistoryOK'
        /\ UNCHANGED <<suites, filter, ret, calls>>
    BY DEF TestInv, HistoryOK, fc_test_malloc_tracked, TallyKept
  <1>2. /\ tracked \in Seq(Block) /\ Len(tracked) \in Nat /\ Len(tracked) <= MaxAllocs
        /\ b \notin ToSet(tracked)
    BY <1>1, LenProperties DEF TestInv, TallyFaithful, TypeOK, TrackedOnce
  <1>3. CASE Len(tracked) >= MaxAllocs
    <2>1. tracked' = tracked /\ past'.handed = past.handed \cup {b} /\ past'.dropped = past.dropped \cup {b}
      BY <1>3 DEF TestInv, HistoryOK, fc_test_malloc_tracked
    <2>2. TypeOK'
      BY <1>1, <1>2, <2>1 DEF TestInv, TallyFaithful, TypeOK, TallyKept
    <2>3. TrackedOnce' /\ HandedHeld'
      BY <1>1, <2>1 DEF TestInv, TrackedOnce, HandedHeld
    <2> QED
      BY <1>1, <2>2, <2>3, TallyInv DEF TestInv
  <1>4. CASE ~(Len(tracked) >= MaxAllocs)
    <2>1. /\ tracked' = Append(tracked, b)
          /\ past'.handed = past.handed \cup {b} /\ past'.dropped = past.dropped \ {b}
      BY <1>4 DEF TestInv, HistoryOK, fc_test_malloc_tracked
    <2>2. /\ tracked' \in Seq(Block) /\ Len(tracked') = Len(tracked) + 1
          /\ ToSet(tracked') = ToSet(tracked) \cup {b} /\ IsInjective(tracked')
      BY <1>2, <2>1, AppendedOnce DEF TestInv, TrackedOnce
    <2>3. TypeOK'
      BY <1>1, <1>2, <1>4, <2>2, BoundsAssumption DEF TestInv, TallyFaithful, TypeOK, TallyKept
    <2>4. TrackedOnce' /\ HandedHeld'
      BY <1>1, <2>1, <2>2 DEF TestInv, TrackedOnce, HandedHeld
    <2> QED
      BY <1>1, <2>3, <2>4, TallyInv DEF TestInv
  <1> QED
    BY <1>3, <1>4

LEMMA UntrackInv ==
    ASSUME TestInv, NEW b \in Block, FC_TEST_FREE(b) \/ fc_test_untrack_alloc(b)
    PROVE  TestInv'
  <1>1. /\ Called /\ live' \in {live, live \ {b}} /\ TallyKept /\ HistoryOK'
        /\ UNCHANGED <<suites, filter, ret, calls>>
        /\ tracked' = RemoveFirst(tracked, b)
        /\ past'.handed = past.handed \ {b} /\ past'.dropped = past.dropped
    BY DEF TestInv, HistoryOK, FC_TEST_FREE, fc_test_untrack_alloc, Untracked, TallyKept
  <1>2. /\ tracked' \in Seq(Block) /\ Len(tracked') <= Len(tracked)
        /\ ToSet(tracked') = ToSet(tracked) \ {b} /\ IsInjective(tracked')
    BY <1>1, RemovedOnce DEF TestInv, TallyFaithful, TypeOK, TrackedOnce
  <1>3. Len(tracked) \in Nat /\ Len(tracked') \in Nat /\ Len(tracked) <= MaxAllocs
    BY <1>2, LenProperties DEF TestInv, TallyFaithful, TypeOK
  <1>4. TypeOK'
    BY <1>1, <1>2, <1>3, BoundsAssumption DEF TestInv, TallyFaithful, TypeOK, TallyKept
  <1>5. TrackedOnce' /\ HandedHeld'
    BY <1>1, <1>2 DEF TestInv, TrackedOnce, HandedHeld
  <1> QED
    BY <1>1, <1>4, <1>5, TallyInv DEF TestInv

\* The blocks of the table are freed, and it is empty.
LEMMA CleanedInv ==
    ASSUME TestInv, fc_test_cleanup_allocs, UNCHANGED <<past.handed, past.dropped>>
    PROVE  /\ TrackedOnce' /\ HandedHeld' /\ live' \subseteq live
           /\ tracked' \in Seq(Block) /\ Len(tracked') <= MaxAllocs
           /\ live' \cap past.handed \subseteq past.dropped
  <1>1. tracked' = <<>> /\ live' = live \ ToSet(tracked)
    BY DEF fc_test_cleanup_allocs, Kept
  <1>2. ToSet(<<>>) = {} /\ IsInjective(<<>>) /\ <<>> \in Seq(Block) /\ Len(<<>>) = 0
    BY EmptySeq DEF ToSet, IsInjective
  <1>3. 0 <= MaxAllocs
    BY BoundsAssumption
  <1> QED
    BY <1>1, <1>2, <1>3 DEF TestInv, TrackedOnce, HandedHeld

LEMMA CleanupInv ==
    ASSUME TestInv, CallCleanup
    PROVE  TestInv'
  <1>1. TallyKept /\ HistoryOK' /\ UNCHANGED <<suites, filter, ret, calls, past>>
    BY DEF TestInv, CallCleanup, TallyKept, HistoryOK
  <1>2. /\ TrackedOnce' /\ HandedHeld' /\ live' \subseteq live
        /\ tracked' \in Seq(Block) /\ Len(tracked') <= MaxAllocs
    BY <1>1, CleanedInv DEF CallCleanup
  <1>3. TypeOK'
    BY <1>1, <1>2 DEF TestInv, TallyFaithful, TypeOK, TallyKept
  <1> QED
    BY <1>1, <1>2, <1>3, TallyInv DEF TestInv

----------------------------------------------------------------------------
(* Hooks and bodies return.                                                 *)

\* To the next test of the suite, or to its teardown.
LEMMA AdvanceInv ==
    ASSUME TestInv, Called, run.mode # "direct", Advance
    PROVE  Placed' /\ at' \in {"setup", "suiteTeardown"}
  <1> DEFINE s == Head(run.left)
             next == NextTest(s, run.j)
  <1>1. \A k \in next : k \in DOMAIN Tests[s] /\ k \in Nat /\ Tests[s][k] # NoFn
    <2>1. Tests[s] \in Seq(AllTests) /\ run.j \in Nat
      BY SuiteOfTests DEF TestInv, TallyFaithful, Placed
    <2>2. Len(Tests[s]) \in Nat /\ DOMAIN Tests[s] = 1 .. Len(Tests[s])
      BY <2>1, LenProperties
    <2> QED
      BY <2>1, <2>2 DEF NextTest
  <1>2. \/ at' = "suiteTeardown" /\ UNCHANGED run
        \/ \E k \in next : at' = "setup" /\ run' = [run EXCEPT !.j = k]
    BY DEF Advance
  <1>3. CASE at' = "suiteTeardown" /\ UNCHANGED run
    BY <1>3 DEF TestInv, Placed, Called
  <1>4. ASSUME NEW k \in next, at' = "setup", run' = [run EXCEPT !.j = k]
        PROVE  Placed'
    <2>1. /\ run'.mode = run.mode /\ run'.left = run.left /\ run'.j = k
          /\ run' \in [mode : {"none", "direct", "all", "suite"}, left : Seq(Suite), j : Nat]
      BY <1>1, <1>4 DEF TestInv, Placed
    <2> QED
      BY <1>1, <1>4, <2>1 DEF TestInv, Placed, Called
  <1> QED
    BY <1>2, <1>3, <1>4

LEMMA LoopInv ==
    ASSUME TestInv, SuiteSetupReturns \/ TeardownReturns \/ SuiteTeardownReturns
    PROVE  TestInv'
  <1>1. /\ UNCHANGED <<suites, filter, stats, current, result, memory, calls, past>> /\ MemoryKept
        /\ Called /\ at # "body" /\ run.mode # "direct"
    BY DEF TestInv, Placed, Called, SuiteSetupReturns, TeardownReturns, SuiteTeardownReturns, MemoryKept
  <1>2. Placed' /\ at' \in {"program", "suiteSetup", "setup", "suiteTeardown"} /\ ret' \in {None, 0, 1}
    <2>1. CASE SuiteSetupReturns \/ TeardownReturns
      <3>1. Advance /\ UNCHANGED ret
        BY <2>1 DEF SuiteSetupReturns, TeardownReturns
      <3> QED
        BY <1>1, <3>1, AdvanceInv DEF TestInv, TallyFaithful, TypeOK
    <2>2. CASE SuiteTeardownReturns
      <3>1. /\ TypeOK /\ run.mode \in {"all", "suite"} /\ Tail(run.left) \in Seq(Suite)
            /\ Enter(run.mode, Tail(run.left))
        BY <1>1, <2>2, SuiteOfTests DEF TestInv, TallyFaithful, Placed, SuiteTeardownReturns
      <3> QED
        BY <3>1, EnterInv
    <2> QED
      BY <2>1, <2>2
  <1>3. TypeOK'
    BY <1>1, <1>2 DEF TestInv, TallyFaithful, TypeOK, memory, Placed, Places
  <1>4. VerdictKnown' /\ TallyFaithful' /\ HistoryOK'
    BY <1>1, <1>2, <1>3 DEF TestInv, VerdictKnown, TallyFaithful, HistoryOK
  <1> QED
    BY <1>1, <1>2, <1>4, MemoryInv DEF TestInv

LEMMA SetupInv ==
    ASSUME TestInv, SetupReturns
    PROVE  TestInv'
  <1> DEFINE t == Tests[Head(run.left)][run.j]
  <1>1. t \in AllTests /\ t # None
    BY SuiteOfTests, TestsAssumption
       DEF TestInv, TallyFaithful, Placed, SetupReturns, Called
  <1>2. /\ current' = t /\ at' = "body" /\ result' = "passed"
        /\ UNCHANGED <<suites, filter, stats, memory, run, ret, calls>>
        /\ past' = [past EXCEPT !.ran = Append(@, t), !.kind = "clean"] /\ at = "setup"
    BY DEF SetupReturns, fc_test_start
  <1> HIDE DEF t
  <1>3. TypeOK'
    BY <1>1, <1>2 DEF TestInv, TallyFaithful, TypeOK, memory, Places, Verdict
  <1>4. HistoryOK' /\ MemoryKept /\ past'.clean = past.clean /\ past'.failed = past.failed
        /\ past'.kind = "clean"
    BY <1>1, <1>2, AppendProperties DEF TestInv, HistoryOK, MemoryKept
  <1>5. Placed' /\ VerdictKnown' /\ TallyFaithful'
    BY <1>2, <1>3, <1>4 DEF TestInv, Placed, Called, VerdictKnown, TallyFaithful
  <1> QED
    BY <1>4, <1>5, MemoryInv DEF TestInv

LEMMA BodyInv ==
    ASSUME TestInv, BodyReturns
    PROVE  TestInv' /\ live' \cap past.handed \subseteq past.dropped
  <1>1. /\ at = "body" /\ current' = None /\ UNCHANGED <<suites, filter, result, ret, calls>>
        /\ fc_test_cleanup_allocs
        /\ \/ run.mode = "direct" /\ at' = "program" /\ run' = Idle
           \/ run.mode # "direct" /\ at' = "teardown" /\ UNCHANGED run
    BY DEF BodyReturns
  <1>2. HistoryOK /\ result \in Verdict
        /\ stats \in [{"total", "passed", "failed", "skipped"} -> Nat]
    BY DEF TestInv, TallyFaithful, TypeOK
  <1>3. /\ HistoryOK' /\ past'.handed = past.handed /\ past'.dropped = past.dropped
        /\ past'.clean = IF past.kind = "clean" THEN past.clean + 1 ELSE past.clean
        /\ past'.failed = IF past.kind = "failed" THEN past.failed + 1 ELSE past.failed
    <2> DEFINE c == IF past.kind = "clean" THEN past.clean + 1 ELSE past.clean
               f == IF past.kind = "failed" THEN past.failed + 1 ELSE past.failed
    <2>1. past' = [past EXCEPT !.clean = c, !.failed = f]
      BY <1>2 DEF BodyReturns, HistoryOK
    <2>2. c \in Nat /\ f \in Nat
      BY <1>2 DEF HistoryOK
    <2> HIDE DEF c, f
    <2>3. /\ HistoryOK' /\ past'.handed = past.handed /\ past'.dropped = past.dropped
          /\ past'.clean = c /\ past'.failed = f
      BY <1>2, <2>1, <2>2 DEF HistoryOK
    <2> QED
      BY <2>3 DEF c, f
  <1>4. /\ stats' \in [{"total", "passed", "failed", "skipped"} -> Nat]
        /\ stats'.total = stats.total + 1
        /\ \A v \in Verdict : stats'[v] = IF v = result THEN stats[v] + 1 ELSE stats[v]
    BY <1>2 DEF BodyReturns, Counted, Verdict
  <1>5. /\ TrackedOnce' /\ HandedHeld' /\ live' \subseteq live
        /\ tracked' \in Seq(Block) /\ Len(tracked') <= MaxAllocs
        /\ live' \cap past.handed \subseteq past.dropped
    BY <1>1, <1>3, CleanedInv
  <1>6. Placed'
    <2>1. <<>> \in Seq(Suite)
      BY EmptySeq
    <2>2. CASE at' = "program" /\ run' = Idle
      <3>1. run' = [mode |-> "none", left |-> <<>>, j |-> 0]
        BY <2>2 DEF Idle
      <3> QED
        BY <2>1, <2>2, <3>1 DEF Placed, Called
    <2>3. CASE run.mode # "direct" /\ at' = "teardown" /\ UNCHANGED run
      BY <1>1, <2>3 DEF TestInv, Placed, Called
    <2> QED
      BY <1>1, <2>2, <2>3
  <1>7. TypeOK'
    BY <1>1, <1>4, <1>5, <1>6 DEF TestInv, TallyFaithful, TypeOK, Placed, Places
  <1>8. TallyFaithful'
    <2>1. /\ past.kind = "clean" => result = "passed"
          /\ past.kind = "failed" => result = "failed"
      BY <1>1 DEF TestInv, VerdictKnown
    <2>2. /\ stats.total = stats.passed + stats.failed + stats.skipped
          /\ stats.passed >= past.clean /\ stats.failed >= past.failed
          /\ past.clean \in Nat /\ past.failed \in Nat
          /\ stats.passed \in Nat /\ stats.failed \in Nat /\ stats.skipped \in Nat
      BY <1>2 DEF TestInv, TallyFaithful, HistoryOK
    <2>3. /\ stats'.passed = IF result = "passed" THEN stats.passed + 1 ELSE stats.passed
          /\ stats'.failed = IF result = "failed" THEN stats.failed + 1 ELSE stats.failed
          /\ stats'.skipped = IF result = "skipped" THEN stats.skipped + 1 ELSE stats.skipped
          /\ result \in {"passed", "failed", "skipped"}
      BY <1>2, <1>4 DEF Verdict
    <2>4. /\ stats'.total = stats'.passed + stats'.failed + stats'.skipped
      BY <1>4, <2>2, <2>3
    <2>5. stats'.passed >= past'.clean /\ stats'.failed >= past'.failed
      BY <1>3, <2>1, <2>2, <2>3
    <2> QED
      BY <1>7, <2>4, <2>5 DEF TallyFaithful
  <1>9. VerdictKnown'
    BY <1>1 DEF VerdictKnown
  <1> QED
    BY <1>3, <1>5, <1>6, <1>8, <1>9 DEF TestInv

LEMMA StepInv == TestInv /\ [Next]_vars => TestInv'
  <1> SUFFICES ASSUME TestInv, [Next]_vars PROVE TestInv'
    OBVIOUS
  <1>1. CASE UNCHANGED vars
    BY <1>1 DEF vars, TestInv, Placed, Called, HistoryOK, TallyFaithful, TypeOK, TrackedOnce,
                VerdictKnown, HandedHeld
  <1>2. CASE Next
    BY <1>2, SettingsInv, InitCallInv, RunTestInv, RunnersInv, VerdictCallsInv, TrackInv, UntrackInv,
       CleanupInv, LoopInv, SetupInv, BodyInv DEF Next
  <1> QED
    BY <1>1, <1>2

----------------------------------------------------------------------------
(* The theorems.                                                            *)

\* Every state of every program satisfies the inductive invariant.
THEOREM TestInvariance == Spec => []TestInv
  <1> QED
    BY InitInv, StepInv, PTL DEF Spec

\* The tally of fc_test_end is true to what happened in the tests, and types are
\* respected.
THEOREM TallyIsFaithful == Spec => []TallyFaithful
  <1>1. TestInv => TallyFaithful
    BY DEF TestInv
  <1> QED
    BY <1>1, TestInvariance, PTL

\* fc_test_cleanup_allocs never frees a block twice, nor one that is not allocated.
THEOREM NoDoubleFree == Spec => []TrackedOnce
  <1>1. TestInv => TrackedOnce
    BY DEF TestInv
  <1> QED
    BY <1>1, TestInvariance, PTL

\* A runner that returns 0 vouches for every test that ended since fc_test_init.
THEOREM ZeroMeansNoFailure == Spec => ZeroVouches
  <1>1. ASSUME TestInv, Next, Returns("all") \/ Returns("suite"), ret' = 0
        PROVE  past.failed = 0
    <2>1. \E mode \in {"all", "suite"}, left \in Seq(Suite) :
             left = <<>> /\ Enter(mode, left)
      <3>1. CASE suites = <<>> /\ fc_test_run_all
        BY <3>1, EmptySeq DEF fc_test_run_all
      <3>2. CASE at = "suiteTeardown" /\ at' = "program"
        <4>1. SuiteTeardownReturns
          BY <1>1, <3>2
             DEF Next, fc_test_init, fc_test_cleanup, fc_test_set_filter, fc_test_register_suite,
                 fc_test_run_suite, fc_test_run_all, RUN_TEST, Call, fc_test_assert_fail, fc_test_skip,
                 fc_test_set_result, fc_test_malloc_tracked, FC_TEST_FREE, fc_test_untrack_alloc,
                 CallCleanup, SuiteSetupReturns, SetupReturns, BodyReturns, TeardownReturns
        <4>2. run.mode \in {"all", "suite"} /\ Tail(run.left) \in Seq(Suite)
          <5>1. TypeOK /\ Placed
            BY <1>1 DEF TestInv, TallyFaithful
          <5>2. Called /\ run.mode \in {"all", "suite"} /\ run.mode # "direct"
            BY <3>2, <5>1 DEF Placed, Called
          <5> QED
            BY <5>1, <5>2, SuiteOfTests
        <4> QED
          BY <3>2, <4>1, <4>2 DEF SuiteTeardownReturns, Enter
      <3> QED
        BY <1>1, <3>1, <3>2 DEF Returns
    <2>2. ~(stats.failed > 0)
      BY <1>1, <2>1 DEF Enter
    <2> QED
      BY <1>1, <2>2 DEF TestInv, TallyFaithful, TypeOK, HistoryOK
  <1>2. TestInv /\ [Next]_vars =>
          [(Returns("all") \/ Returns("suite")) /\ ret' = 0 => past.failed = 0]_vars
    BY <1>1
  <1> QED
    BY <1>2, TestInvariance, PTL DEF Spec, ZeroVouches

\* At the end of a test its blocks are freed, but for those there was no room for.
THEOREM TestEndFrees == Spec => FreedAtEnd
  <1>1. ASSUME TestInv, Next, at = "body", at' # "body"
        PROVE  live' \cap past.handed \subseteq past.dropped
    <2>1. BodyReturns
      BY <1>1
         DEF Next, fc_test_init, fc_test_cleanup, fc_test_set_filter, fc_test_register_suite,
             fc_test_run_suite, fc_test_run_all, RUN_TEST, Call, fc_test_assert_fail, fc_test_skip,
             fc_test_set_result, fc_test_malloc_tracked, FC_TEST_FREE, fc_test_untrack_alloc,
             CallCleanup, SuiteSetupReturns, SetupReturns, TeardownReturns, SuiteTeardownReturns
    <2> QED
      BY <1>1, <2>1, BodyInv
  <1>2. TestInv /\ [Next]_vars =>
          [at = "body" /\ at' # "body" => live' \cap past.handed \subseteq past.dropped]_vars
    BY <1>1
  <1> QED
    BY <1>2, TestInvariance, PTL DEF Spec, FreedAtEnd

----------------------------------------------------------------------------
(* MergeLibs.                                                               *)

\* No other candidate's own .gitmodules lists m.
Unbundled(m) == \A o \in candidates \ {m} : m \notin deps[o]

\* The modules the first loop has taken so far, when those of S are left.
Taken(S) == ((root \ S) \cap found) \ {Current}

\* A module is credited with its own dependencies at least, and with those of
\* candidates at most.
Credits ==
    /\ \A m \in candidates : deps[m] \subseteq module_deps[m]
    /\ \A m \in Module : \A x \in module_deps[m] : \E k \in candidates : x \in deps[k]
    /\ \A x \in sub_deps : \E k \in candidates : x \in deps[k]

Progress ==
    /\ pc = "collect" => /\ todo \subseteq root
                         /\ candidates = Taken(todo)
                         /\ merge_order \cap Module = {}
    /\ pc # "collect" => candidates = Taken({})
    /\ pc = "filter" => todo \subseteq candidates
    /\ pc = "filter" => merge_order \cap Module = {m \in candidates \ todo : Unbundled(m)}
    /\ pc \in {"merge", "done"} => merge_order \cap Module = {m \in candidates : Unbundled(m)}

MInv ==
    /\ MergeTypeOK
    /\ Acyclic(deps)
    /\ \A m \in Module \ listing : deps[m] = {}
    /\ Credits
    /\ Progress

LEMMA NotOwnDependency ==
    ASSUME MInv, NEW m \in Module
    PROVE  m \notin deps[m]
  <1>1. {m} \in SUBSET Module /\ {m} # {}
    OBVIOUS
  <1>2. QED
    BY <1>1 DEF MInv, Acyclic

\* The script's test, on credited dependencies, decides as the own ones would.
LEMMA CreditDecides ==
    ASSUME MInv, NEW m \in candidates
    PROVE  is_bundled(m) <=> ~Unbundled(m)
  <1>1. m \in Module /\ candidates \subseteq Module
    BY DEF MInv, MergeTypeOK
  <1>2. ASSUME is_bundled(m) PROVE ~Unbundled(m)
    <2>1. PICK o \in candidates : m \in module_deps[o]
      BY <1>2 DEF is_bundled
    <2>2. PICK k \in candidates : m \in deps[k]
      BY <1>1, <2>1 DEF MInv, Credits
    <2>3. k # m
      BY <1>1, <2>2, NotOwnDependency
    <2>4. QED
      BY <2>2, <2>3 DEF Unbundled
  <1>3. ASSUME ~Unbundled(m) PROVE is_bundled(m)
    <2>1. PICK o \in candidates \ {m} : m \in deps[o]
      BY <1>3 DEF Unbundled
    <2>2. QED
      BY <2>1 DEF is_bundled, MInv, Credits
  <1>4. QED
    BY <1>2, <1>3

LEMMA MergeStarts == MergeInit => MInv
  <1> SUFFICES ASSUME MergeInit PROVE MInv
    OBVIOUS
  <1>1. MergeTypeOK
    BY DEF MergeInit, MergeTypeOK
  <1>2. Acyclic(deps) /\ \A m \in Module \ listing : deps[m] = {}
    BY DEF MergeInit
  <1>3. Credits
    BY DEF MergeInit, Credits
  <1>4. Progress
    BY ModuleAssumption DEF MergeInit, Progress, Taken, Unbundled
  <1>5. QED
    BY <1>1, <1>2, <1>3, <1>4 DEF MInv

LEMMA CollectStep ==
    ASSUME MInv, NEW m \in Module, Collect(m)
    PROVE  MInv'
  <1>1. /\ pc = "collect" /\ m \in todo /\ todo' = todo \ {m}
        /\ UNCHANGED <<root, found, listing, deps, pc, merge_order, outcome>>
    BY DEF Collect, world
  <1>2. /\ candidates' = IF Skipped(m) THEN candidates ELSE candidates \cup {m}
        /\ sub_deps' = IF Read(m) THEN sub_deps \cup deps[m] ELSE sub_deps
        /\ module_deps' = IF Read(m) /\ sub_deps' # {}
                          THEN [module_deps EXCEPT ![m] = sub_deps'] ELSE module_deps
    BY DEF Collect
  <1>3. MergeTypeOK'
    BY <1>1, <1>2 DEF MInv, MergeTypeOK, Skipped
  <1>4. candidates' = Taken(todo)'
    BY <1>1, <1>2 DEF MInv, Progress, Taken, Skipped
  <1>5. Progress'
    BY <1>1, <1>4 DEF MInv, Progress
  <1>6. \A x \in sub_deps' : \E k \in candidates' : x \in deps'[k]
    BY <1>1, <1>2 DEF MInv, Credits, Read
  <1>7. Credits'
    <2>1. CASE Read(m) /\ sub_deps' # {}
      <3>1. \A k \in Module : module_deps'[k] = IF k = m THEN sub_deps' ELSE module_deps[k]
        BY <1>2, <2>1 DEF MInv, MergeTypeOK
      <3>2. deps[m] \subseteq sub_deps' /\ candidates' = candidates \cup {m}
        BY <1>2, <2>1 DEF Read
      <3>3. candidates' \subseteq Module
        BY <1>3 DEF MergeTypeOK
      <3>4. \A k \in candidates' : deps'[k] \subseteq module_deps'[k]
        BY <1>1, <3>1, <3>2, <3>3 DEF MInv, Credits
      <3>5. \A k \in Module : \A x \in module_deps'[k] : \E n \in candidates' : x \in deps'[n]
        BY <1>1, <1>6, <3>1, <3>2 DEF MInv, Credits
      <3>6. QED
        BY <1>6, <3>4, <3>5 DEF Credits
    <2>2. CASE ~(Read(m) /\ sub_deps' # {})
      <3>1. module_deps' = module_deps
        BY <1>2, <2>2
      <3>2. deps[m] = {} \/ Skipped(m)
        BY <1>2, <2>2 DEF Read, MInv
      <3>3. QED
        BY <1>1, <1>2, <1>6, <3>1, <3>2 DEF MInv, Credits
    <2>3. QED
      BY <2>1, <2>2
  <1>8. (Acyclic(deps) /\ \A k \in Module \ listing : deps[k] = {})'
    BY <1>1 DEF MInv, Acyclic
  <1>9. QED
    BY <1>3, <1>5, <1>7, <1>8 DEF MInv

LEMMA SelectStep ==
    ASSUME MInv, NEW m \in Module, Select(m)
    PROVE  MInv'
  <1>1. /\ pc = "filter" /\ m \in todo /\ todo' = todo \ {m}
        /\ merge_order' = IF is_bundled(m) THEN merge_order ELSE merge_order \cup {m}
        /\ UNCHANGED <<root, found, listing, deps, pc, sub_deps, module_deps, candidates, outcome>>
    BY DEF Select, world
  <1>2. m \in candidates /\ m \in Module /\ candidates \subseteq Module
    BY <1>1 DEF MInv, Progress, MergeTypeOK
  <1>3. is_bundled(m) <=> ~Unbundled(m)
    BY <1>2, CreditDecides
  <1>4. MergeTypeOK'
    BY <1>1, <1>2 DEF MInv, MergeTypeOK
  <1>5. \A k \in candidates : Unbundled(k)' <=> Unbundled(k)
    BY <1>1 DEF Unbundled
  <1>6. merge_order' \cap Module = {k \in candidates \ todo' : Unbundled(k)}
    <2>1. merge_order \cap Module = {k \in candidates \ todo : Unbundled(k)}
      BY <1>1 DEF MInv, Progress
    <2>2. candidates \ todo' = (candidates \ todo) \cup {m}
      BY <1>1, <1>2
    <2>3. merge_order' \cap Module =
              IF Unbundled(m) THEN (merge_order \cap Module) \cup {m} ELSE merge_order \cap Module
      BY <1>1, <1>2, <1>3
    <2>4. QED
      BY <2>1, <2>2, <2>3
  <1>7. Progress'
    BY <1>1, <1>5, <1>6 DEF MInv, Progress, Taken
  <1>8. Credits' /\ (Acyclic(deps) /\ \A k \in Module \ listing : deps[k] = {})'
    BY <1>1 DEF MInv, Credits, Acyclic
  <1>9. QED
    BY <1>4, <1>7, <1>8 DEF MInv

LEMMA LoopsEnd ==
    ASSUME MInv, Collected \/ Filtered \/ Merge
    PROVE  MInv'
  <1>1. UNCHANGED <<root, found, listing, deps, sub_deps, module_deps, candidates, merge_order>>
    BY DEF Collected, Filtered, Merge, world
  <1>2. MergeTypeOK'
    BY <1>1 DEF MInv, MergeTypeOK, Collected, Filtered, Merge
  <1>3. Credits' /\ (Acyclic(deps) /\ \A k \in Module \ listing : deps[k] = {})'
    BY <1>1 DEF MInv, Credits, Acyclic
  <1>4. \A k \in candidates : Unbundled(k)' <=> Unbundled(k)
    BY <1>1 DEF Unbundled
  <1>5. Progress'
    <2>1. CASE Collected
      BY <1>1, <1>4, <2>1 DEF MInv, Progress, Taken, Collected
    <2>2. CASE Filtered
      <3>1. candidates \ todo = candidates
        BY <2>2 DEF Filtered
      <3>2. merge_order \cap Module = {k \in candidates : Unbundled(k)}
        BY <2>2, <3>1 DEF MInv, Progress, Filtered
      <3>3. pc' = "merge" /\ candidates = Taken({})
        BY <2>2 DEF MInv, Progress, Filtered
      <3>4. QED
        BY <1>1, <1>4, <3>2, <3>3 DEF Progress, Taken
    <2>3. CASE Merge
      <3>1. pc = "merge" /\ pc' = "done"
        BY <2>3 DEF Merge
      <3>2. merge_order \cap Module = {k \in candidates : Unbundled(k)} /\ candidates = Taken({})
        BY <3>1 DEF MInv, Progress
      <3>3. QED
        BY <1>1, <1>4, <3>1, <3>2 DEF Progress, Taken
    <2>4. QED
      BY <2>1, <2>2, <2>3
  <1>6. QED
    BY <1>2, <1>3, <1>5 DEF MInv

THEOREM MergeInvariance == MergeSpec => []MInv
  <1>1. MergeInit => MInv
    BY MergeStarts
  <1>2. MInv /\ [MergeNext]_mergeVars => MInv'
    <2>1. SUFFICES ASSUME MInv, [MergeNext]_mergeVars PROVE MInv'
      OBVIOUS
    <2>2. CASE UNCHANGED mergeVars
      BY <2>1, <2>2 DEF mergeVars, world, MInv, MergeTypeOK, Acyclic, Credits, Progress, Taken, Unbundled
    <2>3. CASE MergeNext
      BY <2>1, <2>3, CollectStep, SelectStep, LoopsEnd DEF MergeNext
    <2>4. QED
      BY <2>1, <2>2, <2>3
  <1>3. QED
    BY <1>1, <1>2, PTL DEF MergeSpec

THEOREM MergeTypeCorrect == MergeSpec => []MergeTypeOK
  <1>1. MInv => MergeTypeOK
    BY DEF MInv
  <1>2. QED
    BY <1>1, MergeInvariance, PTL

\* The modules merged are exactly the candidates no other candidate lists, as if
\* sub_deps were emptied for every module.
THEOREM BenignAccumulation == MergeSpec => []ExactlyUnbundled
  <1>1. MInv => ExactlyUnbundled
    BY DEF MInv, Progress, ExactlyUnbundled, Chosen, Unbundled
  <1>2. QED
    BY <1>1, MergeInvariance, PTL

\* Every module whose archive exists is in the merged library.  If T holds the
\* merged modules and whatever those of T list, it holds all the candidates: one
\* of those outside T would be listed by none of them, nor by any inside.
THEOREM DeduplicationLosesNothing == MergeSpec => []NothingLost
  <1>1. MInv => NothingLost
    <2>1. SUFFICES ASSUME MInv, Chosen,
                          NEW T \in SUBSET Module,
                          merge_order \cap Module \subseteq T,
                          \A o \in T : deps[o] \subseteq T
                   PROVE  (root \cap found) \ {Current} \subseteq T
      BY DEF NothingLost, Provided, MInv, MergeTypeOK
    <2>2. /\ candidates = (root \cap found) \ {Current}
          /\ merge_order \cap Module = {m \in candidates : Unbundled(m)}
      BY <2>1 DEF MInv, Progress, Taken, Chosen
    <2>3. SUFFICES ASSUME candidates \ T # {} PROVE FALSE
      BY <2>2
    <2>4. candidates \ T \in SUBSET Module
      BY <2>1 DEF MInv, MergeTypeOK
    <2>5. PICK m \in candidates \ T : \A o \in candidates \ T : m \notin deps[o]
      BY <2>1, <2>3, <2>4 DEF MInv, Acyclic
    <2>6. \A o \in candidates : m \notin deps[o]
      BY <2>1, <2>5
    <2>7. m \in merge_order \cap Module
      BY <2>2, <2>5, <2>6 DEF Unbundled
    <2>8. QED
      BY <2>1, <2>5, <2>7
  <1>2. QED
    BY <1>1, MergeInvariance, PTL
=============================================================================
