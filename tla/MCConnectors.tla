---------------------------- MODULE MCConnectors ----------------------------
(* One source and its runs, and the identity of the companies several      *)
(* sources list: instances of SourceSync and IdentityResolution for TLC.   *)
(* The two look at the same transactions at different depths and share no  *)
(* variable, so one of them moves while the other rests in its initial     *)
(* state.                                                                  *)
EXTENDS SourceSync, IdentityResolution

CONSTANTS a, b, r, s

Companies == {"crm", "crm2", "billing"}
Sources == [c \in Companies |-> IF c = "billing" THEN "stripe" ELSE "hubspot"]
Names == [c \in Companies |-> IF c = "crm" THEN "acme" ELSE IF c = "crm2" THEN "acmes" ELSE "acne"]
Domains == [c \in Companies |-> IF c = "crm" THEN "none" ELSE "acme.com"]

\* Just enough alike to be linked, except one way: SequenceMatcher's ratio is
\* not symmetric.
Alikeness ==
  LET names == {Names[c] : c \in Companies} IN
  [m \in names |-> [n \in names |->
    IF m = n THEN 100 ELSE IF m = "acme" /\ n = "acmes" THEN 94 ELSE 95]]

BothInit == Init /\ IdInit

BothNext ==
  \/ IdInit /\ Next /\ UNCHANGED idVars
  \/ Init /\ IdNext /\ UNCHANGED vars

BothSpec == BothInit /\ [][BothNext]_<<vars, idVars>>

\* The type invariants of both: what source, records, links and candidates hold.
BothTypeOK == TypeOK /\ IdTypeOK

\* Request threads are interchangeable, and so are reviewers.
Symmetry == Permutations({a, b}) \cup Permutations({r, s})
=============================================================================
