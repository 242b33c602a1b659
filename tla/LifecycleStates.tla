--------------------------- MODULE LifecycleStates ---------------------------
(* The states of a risk insight and the moves a person may make between     *)
(* them (rig/insights.py), shared by the promise and the detailed module.   *)

OpenState == {"detected", "triaged", "accepted", "in_progress",
              "mitigated", "not_mitigated"}
ClosedState == {"dismissed", "outcome_known"}

TRANSITIONS ==
  [s \in OpenState \cup ClosedState |->
     CASE s = "detected"    -> {"triaged"}
       [] s = "triaged"     -> {"accepted", "dismissed"}
       [] s = "accepted"    -> {"in_progress", "dismissed"}
       [] s = "in_progress" -> {"mitigated", "not_mitigated"}
       [] s \in {"mitigated", "not_mitigated", "dismissed"} -> {"outcome_known"}
       [] OTHER -> {}]
=============================================================================
