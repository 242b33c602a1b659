--------------------------- MODULE WritebackProofs ---------------------------
(***************************************************************************)
(* Proofs about Writeback, for every set of requests, with or without      *)
(* crashes: type correctness, the accounting of external writes, the       *)
(* exclusion the audit lock gives, and that the framework implements       *)
(* WritebackPromise.                                                       *)
(***************************************************************************)
EXTENDS Writeback, SequenceTheorems, TLAPS

-----------------------------------------------------------------------------
(* Type correctness.                                                       *)

\* Every step of every handler keeps the write-back state well typed.
THEOREM TypeCorrect == Spec => []TypeOK
<1>1. Init => TypeOK
  BY DEF Init, TypeOK, State, Phase
<1>2. TypeOK /\ [Next]_vars => TypeOK'
  <2> SUFFICES ASSUME TypeOK, [Next]_vars PROVE TypeOK'
    OBVIOUS
  <2> USE DEF TypeOK, txnVars, crmVars, dbVars
  <2>1. ASSUME NEW r \in Request, NEW to \in State, NEW a \in Action, Record(r, to, a)
        PROVE  TypeOK'
    BY <2>1 DEF Record
  <2>2. ASSUME NEW r \in Request, Discard(r) PROVE TypeOK'
    BY <2>2 DEF Discard, State, Phase
  <2>3. CASE ConfigureClient
    BY <2>3 DEF ConfigureClient
  <2>4. ASSUME NEW r \in Request, ProposeTask(r) PROVE TypeOK'
    BY <2>1, <2>4 DEF ProposeTask, State, Action
  <2>5. ASSUME NEW r \in Request, ApproveOnly(r) PROVE TypeOK'
    BY <2>1, <2>5 DEF ApproveOnly, State, Action
  <2>6. ASSUME NEW r \in Request, Reject(r) PROVE TypeOK'
    BY <2>1, <2>6 DEF Reject, State, Action
  <2>7. ASSUME NEW r \in Request, ApproveAndCall(r) PROVE TypeOK'
    BY <2>7 DEF ApproveAndCall, State, Phase, Action
  <2>8. ASSUME NEW r \in Request, CrmCreates(r) PROVE TypeOK'
    BY <2>8 DEF CrmCreates, Phase
  <2>9. ASSUME NEW r \in Request, CrmRefuses(r) PROVE TypeOK'
    BY <2>9 DEF CrmRefuses, Phase
  <2>10. ASSUME NEW r \in Request, RecordExecuted(r) PROVE TypeOK'
    <3>1. trail[r] \o Append(viewTrail[r], "execute") \in Seq(Action)
      BY DEF Action
    <3>2. QED
      BY <2>10, <3>1 DEF RecordExecuted, State, Phase
  <2>11. ASSUME NEW r \in Request, FailAndRaise(r) PROVE TypeOK'
    BY <2>11 DEF FailAndRaise, State, Action
  <2>12. ASSUME NEW r \in Request, RollBackFailed(r) PROVE TypeOK'
    BY <2>2, <2>12 DEF RollBackFailed
  <2>13. ASSUME NEW r \in Request, Crash(r) PROVE TypeOK'
    BY <2>2, <2>13 DEF Crash
  <2>14. CASE UNCHANGED vars
    BY <2>14 DEF vars
  <2>15. QED
    BY <2>3, <2>4, <2>5, <2>6, <2>7, <2>8, <2>9, <2>10, <2>11, <2>12, <2>13, <2>14
       DEF Next
<1>3. QED
  BY <1>1, <1>2, PTL DEF Spec

-----------------------------------------------------------------------------
(* The inductive invariant: the checked invariants, and what the view of   *)
(* the open transaction holds in each phase of the call.                   *)

CallView ==
  \A r \in Request :
    /\ call[r] = "idle" => view[r] = "none" /\ viewTrail[r] = <<>>
    /\ call[r] # "idle" => view[r] \in {"approved", "failed"}
    /\ call[r] \in {"calling", "created"} => view[r] = "approved"
    /\ view[r] = "approved" => viewTrail[r] = <<"approve">>

IInv ==
  /\ TypeOK
  /\ NoDecisionDuringCall
  /\ OneCallInFlight
  /\ CallView
  /\ EffectsAccounted
  /\ TrailTellsState

\* Appending to the short sequences an audit trail is made of.
LEMMA AppendToOne ==
  ASSUME NEW S, NEW a \in S, NEW b \in S
  PROVE  Append(<<a>>, b) = <<a, b>>
<1>1. /\ <<a>> \in Seq(S) /\ Len(<<a>>) = 1
      /\ <<a, b>> \in Seq(S) /\ Len(<<a, b>>) = 2
  OBVIOUS
<1>2. Append(<<a>>, b) \in Seq(S) /\ Len(Append(<<a>>, b)) = 2
  BY <1>1, AppendProperties
<1>3. Append(<<a>>, b)[1] = a /\ Append(<<a>>, b)[2] = b
  BY <1>1, AppendProperties
<1>4. \A i \in 1..Len(Append(<<a>>, b)) : Append(<<a>>, b)[i] = <<a, b>>[i]
  BY <1>2, <1>3
<1>5. QED
  BY <1>1, <1>2, <1>4, SeqEqual

LEMMA AppendToTwo ==
  ASSUME NEW S, NEW a \in S, NEW b \in S, NEW c \in S
  PROVE  Append(<<a, b>>, c) = <<a, b, c>>
<1>1. /\ <<a, b>> \in Seq(S) /\ Len(<<a, b>>) = 2
      /\ <<a, b, c>> \in Seq(S) /\ Len(<<a, b, c>>) = 3
  OBVIOUS
<1>2. Append(<<a, b>>, c) \in Seq(S) /\ Len(Append(<<a, b>>, c)) = 3
  BY <1>1, AppendProperties
<1>3. /\ Append(<<a, b>>, c)[1] = a /\ Append(<<a, b>>, c)[2] = b
      /\ Append(<<a, b>>, c)[3] = c
  BY <1>1, AppendProperties
<1>4. \A i \in 1..Len(Append(<<a, b>>, c)) : Append(<<a, b>>, c)[i] = <<a, b, c>>[i]
  BY <1>2, <1>3
<1>5. QED
  BY <1>1, <1>2, <1>4, SeqEqual

LEMMA ConcatOneTwo ==
  ASSUME NEW S, NEW a \in S, NEW b \in S, NEW c \in S
  PROVE  <<a>> \o <<b, c>> = <<a, b, c>>
<1>1. /\ <<a>> \in Seq(S) /\ Len(<<a>>) = 1
      /\ <<b, c>> \in Seq(S) /\ Len(<<b, c>>) = 2
      /\ <<a, b, c>> \in Seq(S) /\ Len(<<a, b, c>>) = 3
  OBVIOUS
<1>2. <<a>> \o <<b, c>> \in Seq(S) /\ Len(<<a>> \o <<b, c>>) = 3
  BY <1>1, ConcatProperties
<1>3. /\ (<<a>> \o <<b, c>>)[1] = a /\ (<<a>> \o <<b, c>>)[2] = b
      /\ (<<a>> \o <<b, c>>)[3] = c
  BY <1>1, ConcatProperties
<1>4. \A i \in 1..Len(<<a>> \o <<b, c>>) : (<<a>> \o <<b, c>>)[i] = <<a, b, c>>[i]
  BY <1>2, <1>3
<1>5. QED
  BY <1>1, <1>2, <1>4, SeqEqual

\* How the audit trail of a request grows.
LEMMA TrailAppends ==
  /\ Append(<<>>, "propose") = <<"propose">>
  /\ Append(<<"propose">>, "approve") = <<"propose", "approve">>
  /\ Append(<<"propose">>, "reject") = <<"propose", "reject">>
  /\ Append(<<"propose", "approve">>, "reject") = <<"propose", "approve", "reject">>
  /\ Append(<<"approve">>, "execute") = <<"approve", "execute">>
  /\ <<"propose">> \o <<"approve", "execute">> = <<"propose", "approve", "execute">>
<1>1. {"propose", "approve", "reject", "execute"} \subseteq Action
  BY DEF Action
<1>2. Append(<<>>, "propose") = <<"propose">>
  OBVIOUS
<1>3. QED
  BY <1>1, <1>2, AppendToOne, AppendToTwo, ConcatOneTwo

LEMMA IInvInit == Init => IInv
BY DEF Init, IInv, TypeOK, State, Phase, NoDecisionDuringCall, OneCallInFlight,
       CallView, EffectsAccounted, TrailTellsState

LEMMA IInvRecord ==
  ASSUME IInv, NEW r \in Request,
         ProposeTask(r) \/ ApproveOnly(r) \/ Reject(r), TypeOK'
  PROVE  IInv'
<1> USE DEF IInv
<1>1. AuditLockFree /\ UNCHANGED <<call, view, viewTrail, written, unrecorded>>
  BY DEF ProposeTask, ApproveOnly, Reject, Record, txnVars, crmVars
<1>2. \A q \in Request : q # r => state'[q] = state[q] /\ trail'[q] = trail[q]
  BY DEF ProposeTask, ApproveOnly, Reject, Record, TypeOK
<1>3. NoDecisionDuringCall' /\ OneCallInFlight' /\ CallView'
  BY <1>1 DEF NoDecisionDuringCall, OneCallInFlight, CallView, AuditLockFree
<1>4. state[r] # "executed" /\ state'[r] # "executed"
  BY DEF ProposeTask, ApproveOnly, Reject, Record, TypeOK
<1>5. EffectsAccounted'
  BY <1>1, <1>2, <1>4 DEF EffectsAccounted
<1>6. TrailTellsState'
  <2>1. CASE ProposeTask(r)
    BY <2>1, <1>2, TrailAppends DEF ProposeTask, Record, TrailTellsState, TypeOK
  <2>2. CASE ApproveOnly(r)
    BY <2>2, <1>2, TrailAppends DEF ApproveOnly, Record, TrailTellsState, TypeOK
  <2>3. CASE Reject(r)
    BY <2>3, <1>2, TrailAppends DEF Reject, Record, TrailTellsState, TypeOK
  <2>4. QED
    BY <2>1, <2>2, <2>3
<1>7. QED
  BY <1>3, <1>5, <1>6

LEMMA IInvCall ==
  ASSUME IInv, NEW r \in Request, ApproveAndCall(r), TypeOK'
  PROVE  IInv'
<1> USE DEF IInv, dbVars, crmVars
<1>1. AuditLockFree
  BY DEF ApproveAndCall
<1>2. NoDecisionDuringCall' /\ OneCallInFlight'
  BY <1>1 DEF ApproveAndCall, NoDecisionDuringCall, OneCallInFlight, AuditLockFree, TypeOK
<1>3. CallView'
  BY DEF ApproveAndCall, CallView, TypeOK
<1>4. EffectsAccounted' /\ TrailTellsState'
  BY <1>1 DEF ApproveAndCall, EffectsAccounted, TrailTellsState, AuditLockFree, TypeOK
<1>5. QED
  BY <1>2, <1>3, <1>4

LEMMA IInvCrm ==
  ASSUME IInv, NEW r \in Request, CrmCreates(r) \/ CrmRefuses(r), TypeOK'
  PROVE  IInv'
<1> USE DEF IInv, dbVars, crmVars
<1>1. NoDecisionDuringCall' /\ OneCallInFlight'
  BY DEF CrmCreates, CrmRefuses, NoDecisionDuringCall, OneCallInFlight, TypeOK
<1>2. CallView'
  BY DEF CrmCreates, CrmRefuses, CallView, TypeOK
<1>3. EffectsAccounted'
  <2>1. CASE CrmCreates(r)
    BY <2>1 DEF CrmCreates, EffectsAccounted, TypeOK
  <2>2. CASE CrmRefuses(r)
    BY <2>2 DEF CrmRefuses, EffectsAccounted, TypeOK
  <2>3. QED
    BY <2>1, <2>2
<1>4. TrailTellsState'
  BY DEF CrmCreates, CrmRefuses, TrailTellsState
<1>5. QED
  BY <1>1, <1>2, <1>3, <1>4

LEMMA IInvExecuted ==
  ASSUME IInv, NEW r \in Request, RecordExecuted(r), TypeOK'
  PROVE  IInv'
<1> USE DEF IInv, dbVars, crmVars
<1>1. state[r] = "proposed" /\ trail[r] = <<"propose">> /\ viewTrail[r] = <<"approve">>
  BY DEF RecordExecuted, NoDecisionDuringCall, CallView, TrailTellsState
<1>2. trail'[r] = <<"propose", "approve", "execute">> /\ state'[r] = "executed"
  BY <1>1, TrailAppends DEF RecordExecuted, TypeOK
<1>3. \A q \in Request : q # r => state'[q] = state[q] /\ trail'[q] = trail[q]
  BY DEF RecordExecuted, TypeOK
<1>4. NoDecisionDuringCall' /\ OneCallInFlight'
  BY DEF RecordExecuted, NoDecisionDuringCall, OneCallInFlight, TypeOK
<1>5. CallView'
  BY DEF RecordExecuted, CallView, TypeOK
<1>6. EffectsAccounted'
  BY <1>1 DEF RecordExecuted, EffectsAccounted, TypeOK
<1>7. TrailTellsState'
  BY <1>2, <1>3 DEF TrailTellsState
<1>8. QED
  BY <1>4, <1>5, <1>6, <1>7

LEMMA IInvDiscard ==
  ASSUME IInv, NEW r \in Request, call[r] # "idle", Discard(r), TypeOK'
  PROVE  IInv'
<1> USE DEF IInv, dbVars
<1>1. NoDecisionDuringCall' /\ OneCallInFlight' /\ TrailTellsState'
  BY DEF Discard, NoDecisionDuringCall, OneCallInFlight, TrailTellsState, TypeOK
<1>2. CallView'
  BY DEF Discard, CallView, TypeOK
<1>3. EffectsAccounted'
  BY DEF Discard, EffectsAccounted, TypeOK, NoDecisionDuringCall
<1>4. QED
  BY <1>1, <1>2, <1>3

LEMMA IInvFail ==
  ASSUME IInv, NEW r \in Request, FailAndRaise(r), TypeOK'
  PROVE  IInv'
<1> USE DEF IInv, dbVars, crmVars
<1>1. NoDecisionDuringCall' /\ OneCallInFlight' /\ TrailTellsState' /\ EffectsAccounted'
  BY DEF FailAndRaise, NoDecisionDuringCall, OneCallInFlight, TrailTellsState, EffectsAccounted
<1>2. CallView'
  BY DEF FailAndRaise, CallView, TypeOK
<1>3. QED
  BY <1>1, <1>2

\* The inductive invariant holds of every behaviour.
THEOREM Invariant == Spec => []IInv
<1>1. IInv /\ TypeOK' /\ [Next]_vars => IInv'
  <2> SUFFICES ASSUME IInv, TypeOK', [Next]_vars PROVE IInv'
    OBVIOUS
  <2>1. CASE ConfigureClient
    BY <2>1 DEF ConfigureClient, IInv, NoDecisionDuringCall, OneCallInFlight, CallView,
                EffectsAccounted, TrailTellsState, dbVars, txnVars, crmVars
  <2>2. ASSUME NEW r \in Request, RollBackFailed(r) \/ Crash(r) PROVE IInv'
    <3>1. call[r] # "idle" /\ Discard(r)
      BY <2>2 DEF RollBackFailed, Crash, IInv, CallView
    <3>2. QED
      BY <3>1, IInvDiscard
  <2>3. CASE UNCHANGED vars
    BY <2>3 DEF vars, IInv, NoDecisionDuringCall, OneCallInFlight, CallView,
                EffectsAccounted, TrailTellsState, dbVars, txnVars, crmVars
  <2>4. QED
    BY <2>1, <2>2, <2>3, IInvRecord, IInvCall, IInvCrm, IInvExecuted, IInvFail DEF Next
<1>2. QED
  BY <1>1, IInvInit, TypeCorrect, PTL DEF Spec

-----------------------------------------------------------------------------

\* Every task in the CRM is one an executed request recorded, one of the call
\* under way, or one whose approval was rolled back.
THEOREM AllEffectsAccounted == Spec => []EffectsAccounted
<1>1. IInv => EffectsAccounted
  BY DEF IInv
<1>2. QED
  BY <1>1, Invariant, PTL

\* The committed audit trail always is the one the committed state calls for.
THEOREM TrailAlwaysTellsState == Spec => []TrailTellsState
<1>1. IInv => TrailTellsState
  BY DEF IInv
<1>2. QED
  BY <1>1, Invariant, PTL

\* No request is decided on while the CRM is being called for it, and a tenant
\* never has two external writes under way.
THEOREM CallsExclude == Spec => [](NoDecisionDuringCall /\ OneCallInFlight)
<1>1. IInv => NoDecisionDuringCall /\ OneCallInFlight
  BY DEF IInv
<1>2. QED
  BY <1>1, Invariant, PTL

\* The write-back handlers, with their calls, failures, rollbacks and crashes,
\* implement the promised lifecycle of states and audit trails.
THEOREM Implements == Spec => KeepsPromise
<1>1. Init => Promise!Init
  BY DEF Init, Promise!Init
<1>2. IInv /\ [Next]_vars => [Promise!Next]_(Promise!vars)
  <2> SUFFICES ASSUME IInv, [Next]_vars PROVE [Promise!Next]_(Promise!vars)
    OBVIOUS
  <2> USE DEF Promise!Next, Promise!vars, Promise!Move
  <2>1. \A r \in Request : trail[r] \in Seq(Action)
    BY DEF IInv, TypeOK
  <2>2. ASSUME NEW r \in Request, ProposeTask(r) PROVE Promise!Propose(r)
    <3>1. Append(trail[r], "propose") = trail[r] \o <<"propose">>
      BY <2>1
    <3>2. QED
      BY <2>2, <3>1 DEF ProposeTask, Record, Promise!Propose
  <2>3. ASSUME NEW r \in Request, ApproveOnly(r) PROVE Promise!Approve(r)
    <3>1. Append(trail[r], "approve") = trail[r] \o <<"approve">>
      BY <2>1
    <3>2. QED
      BY <2>3, <3>1 DEF ApproveOnly, Record, Promise!Approve
  <2>4. ASSUME NEW r \in Request, Reject(r) PROVE Promise!Reject(r)
    <3>1. Append(trail[r], "reject") = trail[r] \o <<"reject">>
      BY <2>1
    <3>2. QED
      BY <2>4, <3>1 DEF Reject, Record, Promise!Reject
  <2>5. ASSUME NEW r \in Request, RecordExecuted(r) PROVE Promise!Execute(r)
    <3>1. state[r] = "proposed" /\ viewTrail[r] = <<"approve">>
      BY <2>5 DEF IInv, RecordExecuted, NoDecisionDuringCall, CallView
    <3>2. Append(viewTrail[r], "execute") = <<"approve", "execute">>
      BY <3>1, TrailAppends
    <3>3. QED
      BY <2>5, <3>1, <3>2 DEF RecordExecuted, Promise!Execute
  <2>6. ASSUME NEW r \in Request,
               \/ ApproveAndCall(r) \/ CrmCreates(r) \/ CrmRefuses(r)
               \/ FailAndRaise(r) \/ RollBackFailed(r) \/ Crash(r)
        PROVE  UNCHANGED <<state, trail>>
    BY <2>6 DEF ApproveAndCall, CrmCreates, CrmRefuses, FailAndRaise,
                RollBackFailed, Crash, Discard, dbVars
  <2>7. CASE ConfigureClient \/ UNCHANGED vars
    BY <2>7 DEF ConfigureClient, vars, dbVars
  <2>8. QED
    BY <2>2, <2>3, <2>4, <2>5, <2>6, <2>7 DEF Next
<1>3. QED
  BY <1>1, <1>2, Invariant, PTL DEF Spec, KeepsPromise, Promise!Spec
=============================================================================
