---------------------------- MODULE MCSourceSync ----------------------------
(* Instances of SourceSync for TLC. *)
EXTENDS SourceSync, TLC

CONSTANTS a, b

\* Request threads are interchangeable.
Symmetry == Permutations({a, b})
=============================================================================
