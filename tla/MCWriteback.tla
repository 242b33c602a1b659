----------------------------- MODULE MCWriteback -----------------------------
(* Instances of Writeback for TLC. *)
EXTENDS Writeback, TLC

CONSTANTS r1, r2

\* The two requests are interchangeable in runs of safety properties.
Symmetry == Permutations({r1, r2})
=============================================================================
