----------------------------- MODULE MCRecords -----------------------------
(* What is kept to be shown later: the audit log, and the briefs with the  *)
(* evidence they cite.  Instances of AuditChain and ExecBrief for TLC.     *)
(* They share no variable (a brief's own audit rows are like any other),   *)
(* so one of them moves while the other rests in an initial state.         *)
EXTENDS AuditChain, ExecBrief, FiniteSetsExt, TLC

CONSTANTS t1, t2, w1, w2, w3, c1, c2

\* Two request transactions of one tenant, one of another.
SharedTenantOf == (w1 :> t1) @@ (w2 :> t1) @@ (w3 :> t2)

\* One of the portfolios that BriefInit allows, to rest in.
BriefRests ==
  /\ BriefInit /\ signals["llm"] = Quiet
  /\ figure = [cents |-> Min(Amount), accounts |-> Min(Accounts)]

RecordsInit == Init /\ BriefInit

RecordsNext ==
  \/ BriefRests /\ Next /\ UNCHANGED briefVars
  \/ Init /\ BriefNext /\ UNCHANGED vars

RecordsSpec == RecordsInit /\ [][RecordsNext]_<<vars, briefVars>>

\* The type invariants of both: what the rows of the log and of the briefs hold.
RecordsTypeOK == TypeOK /\ BriefTypeOK

\* Request threads are interchangeable.
Symmetry == Permutations({c1, c2})
=============================================================================
