----------------------------- MODULE MCScoring -----------------------------
(* The score of an account and its calibration: instances of RiskScore and *)
(* Calibration for TLC.  They share no variable (a label's score is any    *)
(* that occurs), so one of them moves while the other rests.               *)
EXTENDS RiskScore, Calibration, TLC

CONSTANTS a, b

\* One of the accounts that Init allows, to rest in.
AccountRests == Init /\ renewal = None /\ terms = [auto |-> FALSE, strategic |-> FALSE]

ScoringInit == Init /\ CalInit

ScoringNext ==
  \/ CalInit /\ Next /\ UNCHANGED calVars
  \/ AccountRests /\ CalNext /\ UNCHANGED vars

ScoringSpec == ScoringInit /\ [][ScoringNext]_<<vars, calVars>>

\* Request threads are interchangeable.
Symmetry == Permutations({a, b})
=============================================================================
