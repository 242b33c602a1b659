------------------------- MODULE MCInsightLifecycle -------------------------
(* Instances of InsightLifecycle for TLC. *)
EXTENDS InsightLifecycle, TLC

CONSTANTS a, b, saveRenewal

\* Worker threads are interchangeable.
Symmetry == Permutations({a, b})
=============================================================================
