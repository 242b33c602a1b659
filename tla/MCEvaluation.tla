---------------------------- MODULE MCEvaluation ----------------------------
(* Evaluations and data-quality checks, each overlapping with its like:    *)
(* instances of SignalEngine and DataQuality for TLC.  They share no       *)
(* variable, so in a behaviour one of them moves and the other rests.      *)
EXTENDS SignalEngine, DataQuality

CONSTANTS a, b

TwoDetectors == <<"critical_ticket_unresolved", "payment_late">>

\* References in a CSV: one of the account's, and one of nobody.
References == [ref \in {"acme.com", "nobody.com"} |-> IF ref = "acme.com" THEN {"acme"} ELSE {}]

VARIABLE moving   \* the component that moves

all == <<moving, vars, dqVars>>

Evaluates(A) == moving = "signals" /\ A /\ UNCHANGED <<moving, dqVars>>
Checks(A) == moving = "checks" /\ A /\ UNCHANGED <<moving, vars>>

SideInit == moving \in {"signals", "checks"} /\ Init /\ DqInit

SideNext == Evaluates(Next) \/ Checks(DqNext)

\* The fairness of EvaluatingSpec and DqFairSpec, each for the side that moves.
SideSpec ==
  /\ SideInit /\ [][SideNext]_all
  /\ \A w \in Worker :
       /\ WF_all(Evaluates(EvaluateStart(w))) /\ WF_all(Evaluates(Running(w)))
       /\ SF_all(Evaluates(Locking(w))) /\ WF_all(Evaluates(BreakDeadlock(w)))
  /\ \A w \in Checker :
       /\ WF_all(Checks(CheckRunsOn(w))) /\ WF_all(Checks(CheckDeadlock(w)))
       /\ SF_all(Checks(CheckUpsert(w))) /\ SF_all(Checks(CheckResolve(w)))
=============================================================================
