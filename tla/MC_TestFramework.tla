------------------------- MODULE MC_TestFramework --------------------------
(* Two suites, one with a NULL entry, and a test run by RUN_TEST; a pattern  *)
(* that occurs in one suite's name and, in the other, in one test's path.    *)
EXTENDS TestFramework, TLC

CONSTANTS s1, s2, t1, t2, t3, direct, b1, b2

MC_Suite  == {s1, s2}
MC_Tests  == s1 :> <<t1, NoFn, t2>> @@ s2 :> <<t3>>
MC_Direct == {direct}
MC_Filter == {[suites |-> {s2}, paths |-> {t2, t3}]}
MC_Block  == {b1, b2}

Symmetry == Permutations(Block)
=============================================================================
