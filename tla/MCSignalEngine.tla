--------------------------- MODULE MCSignalEngine ---------------------------
(* Instances of SignalEngine for TLC. *)
EXTENDS SignalEngine, TLC

CONSTANTS a, b

TwoDetectors == <<"critical_ticket_unresolved", "payment_late">>
OneDetector == <<"payment_late">>
=============================================================================
