------------------------ MODULE MC_MonteCarloState -------------------------
(* Model values for TLC, and the symmetry of the sets nothing distinguishes. *)
EXTENDS MonteCarloState_proofs, TLC

CONSTANTS g1, g2, h1, h2, p1, p2, covA, covB, covBad

MC_Goroutine == {g1, g2}
MC_Handle    == {h1, h2}
MC_Ptr       == {p1, p2}
MC_Cov       == {covA, covB, covBad}
MC_PD        == {covA, covB}

\* Smaller sets for the runs whose properties do not look at covariances.
MC_OneHandle == {h1}
MC_OnePtr    == {p1}
MC_TwoCov    == {covA, covBad}
MC_OnePD     == {covA}

Symmetry == Permutations(Goroutine) \cup Permutations(Handle)
                \cup Permutations(Ptr) \cup Permutations(PD)
=============================================================================
