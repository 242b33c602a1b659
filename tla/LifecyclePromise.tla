-------------------------- MODULE LifecyclePromise --------------------------
(***************************************************************************)
(* The insight lifecycle as rig/insights.py (TRANSITIONS) and migration    *)
(* 0003 document it: an account has at most one open risk insight, an      *)
(* insight moves along the edges of the diagram, and an open one may be    *)
(* closed as outcome_known from any state, for good.                       *)
(***************************************************************************)
EXTENDS LifecycleStates

CONSTANT Insight

VARIABLE state      \* [Insight -> state of the insight, or "absent"]

Init == state = [i \in Insight |-> "absent"]

Detect(i) ==
  /\ state[i] = "absent"
  /\ \A j \in Insight : state[j] \notin OpenState
  /\ state' = [state EXCEPT ![i] = "detected"]

Advance(i) ==
  /\ state[i] # "absent"
  /\ \E to \in TRANSITIONS[state[i]] : state' = [state EXCEPT ![i] = to]

Close(i) ==
  /\ state[i] \in OpenState
  /\ state' = [state EXCEPT ![i] = "outcome_known"]

Next == \E i \in Insight : Detect(i) \/ Advance(i) \/ Close(i)

Spec == Init /\ [][Next]_state
=============================================================================
