---------------------------- MODULE MC_BenchRun -----------------------------
(* Functions that take a fixed time, a varying one, or none the clock sees;   *)
(* limits that are reached and that are not.                                  *)
EXTENDS BenchRun, TLC

CONSTANTS alpha, beta

MC_Name   == {alpha, beta}
MC_Filter == {{alpha} \cup {alpha} \X Levels, {<<beta, 2>>}}

Base == [name |-> alpha, min_iterations |-> 2, max_iterations |-> 4, min_time |-> 4, warmup |-> 0,
         enable_stats |-> TRUE, cost |-> 1, jitter |-> 0, allocs |-> 1, levels |-> {}]

MC_Config ==
    { Base,
      [Base EXCEPT !.min_time = 9, !.enable_stats = FALSE, !.allocs = 2],      \* out of reach
      [Base EXCEPT !.jitter = 1, !.warmup = 2, !.name = beta, !.levels = {3}],
      [Base EXCEPT !.cost = 0, !.jitter = 1, !.min_iterations = 1, !.name = None, !.warmup = 1],
      [Base EXCEPT !.max_iterations = 1, !.min_time = 3, !.cost = 2, !.enable_stats = FALSE] }
=============================================================================
