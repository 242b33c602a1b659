-------------------------- MODULE WritebackPromise --------------------------
(***************************************************************************)
(* What the write-back framework promises of one request's committed state *)
(* and audit trail (rig/writeback.py, migrations/0004): every change of    *)
(* state is one of the lifecycle's, and it appends its audit events in the *)
(* same step.  Nothing is said of the external system.                     *)
(***************************************************************************)
EXTENDS Sequences

CONSTANT Request

VARIABLES state, trail

vars == <<state, trail>>

Init ==
  /\ state = [r \in Request |-> "none"]
  /\ trail = [r \in Request |-> <<>>]

\* r leaves one of the states in from for to, recording events.
Move(r, from, to, events) ==
  /\ state[r] \in from
  /\ state' = [state EXCEPT ![r] = to]
  /\ trail' = [trail EXCEPT ![r] = @ \o events]

Propose(r) == Move(r, {"none"}, "proposed", <<"propose">>)
Approve(r) == Move(r, {"proposed"}, "approved", <<"approve">>)
Execute(r) == Move(r, {"proposed"}, "executed", <<"approve", "execute">>)
Reject(r)  == Move(r, {"proposed", "approved"}, "rejected", <<"reject">>)

Next == \E r \in Request : Propose(r) \/ Approve(r) \/ Execute(r) \/ Reject(r)

Spec == Init /\ [][Next]_vars
=============================================================================
