------------------------------ MODULE Writeback ------------------------------
(***************************************************************************)
(* The write-back framework (rig/writeback.py and its endpoints in         *)
(* rig/main.py) for the requests of one tenant, with the external CRM.     *)
(*                                                                         *)
(* Each endpoint is one PostgreSQL transaction (rig/db.py, tenant_session) *)
(* that rolls back when the handler raises, and a WritebackError leaves    *)
(* the handler as an HTTPException.  The approve endpoint approves and     *)
(* executes in one transaction, with the HTTP call to the CRM inside it.   *)
(* audit.record takes the tenant's advisory lock until the transaction     *)
(* ends, so an approval that waits for the CRM holds up every other        *)
(* audited request of the tenant.                                          *)
(***************************************************************************)
EXTENDS Naturals, Sequences

CONSTANTS Request,     \* write-back requests that may be proposed
          Crashes,     \* whether processes and connections may die
          MaxWrites    \* bound on external writes per request, for TLC only

ASSUME CrashesAssumption == Crashes \in BOOLEAN
ASSUME MaxWritesAssumption == MaxWrites \in Nat

VARIABLES
  state,       \* committed writeback_request.state
  trail,       \* committed audit actions about the request, in order
  call,        \* the open approve transaction of the request, if any
  view,        \* state as that transaction sees it
  viewTrail,   \* audit actions it has recorded but not committed
  written,     \* tasks created in the CRM for the request (external)
  unrecorded,  \* of these, the ones whose transaction was rolled back
  client       \* default_write_client is not None

dbVars == <<state, trail>>
txnVars == <<call, view, viewTrail>>
crmVars == <<written, unrecorded>>
vars == <<dbVars, txnVars, crmVars, client>>

State == {"none", "proposed", "approved", "rejected", "executed", "failed"}
Action == {"propose", "approve", "reject", "execute", "failed"}

\* idle: no transaction; calling: HTTP request under way; created, refused and
\* unknown: what became of it, with unknown a task created but no usable answer.
Phase == {"idle", "calling", "created", "refused", "unknown"}

\* Mutant of AuditLockFree: audit events are recorded outside the transaction.
NoAuditLock == TRUE

\* The advisory lock of the tenant's audit chain is not held.
AuditLockFree == \A q \in Request : call[q] = "idle"

-----------------------------------------------------------------------------

Init ==
  /\ state = [r \in Request |-> "none"]
  /\ trail = [r \in Request |-> <<>>]
  /\ call = [r \in Request |-> "idle"]
  /\ view = [r \in Request |-> "none"]
  /\ viewTrail = [r \in Request |-> <<>>]
  /\ written = [r \in Request |-> 0]
  /\ unrecorded = [r \in Request |-> 0]
  /\ client \in BOOLEAN

\* Mutants of Record: state and action swapped; the event forgotten.
RecordSwapped(r, to, action) ==
  /\ AuditLockFree
  /\ state' = [state EXCEPT ![r] = action]
  /\ trail' = [trail EXCEPT ![r] = Append(@, to)]
  /\ UNCHANGED <<txnVars, crmVars, client>>

RecordSilently(r, to, action) ==
  /\ AuditLockFree
  /\ state' = [state EXCEPT ![r] = to]
  /\ UNCHANGED <<trail, txnVars, crmVars, client>>

\* A handler that commits in one step: new state and its audit event.
Record(r, to, action) ==
  /\ AuditLockFree
  /\ state' = [state EXCEPT ![r] = to]
  /\ trail' = [trail EXCEPT ![r] = Append(@, action)]
  /\ UNCHANGED <<txnVars, crmVars, client>>

ProposeTask(r) ==
  /\ state[r] = "none"
  /\ Record(r, "proposed", "propose")

\* Mutant of ApproveOnly: with nothing to call, the request counts as executed.
ApproveAsExecuted(r) ==
  /\ ~client
  /\ state[r] = "proposed"
  /\ Record(r, "executed", "approve")

\* approve with no write client: the transaction ends after the approval.
ApproveOnly(r) ==
  /\ ~client
  /\ state[r] = "proposed"
  /\ Record(r, "approved", "approve")

\* Mutant of Reject: an executed request may still be rejected.
RejectExecuted(r) ==
  /\ state[r] \in {"proposed", "approved", "executed"}
  /\ Record(r, "rejected", "reject")

Reject(r) ==
  /\ state[r] \in {"proposed", "approved"}
  /\ Record(r, "rejected", "reject")

\* approve, then execute up to the HTTP call.  Nothing is committed yet.
ApproveAndCall(r) ==
  /\ client
  /\ AuditLockFree
  /\ state[r] = "proposed"
  /\ written[r] < MaxWrites
  /\ call' = [call EXCEPT ![r] = "calling"]
  /\ view' = [view EXCEPT ![r] = "approved"]
  /\ viewTrail' = [viewTrail EXCEPT ![r] = <<"approve">>]
  /\ UNCHANGED <<dbVars, crmVars, client>>

\* The CRM creates the task; its answer arrives, or is lost or unusable.
CrmCreates(r) ==
  /\ call[r] = "calling"
  /\ written' = [written EXCEPT ![r] = @ + 1]
  /\ \E p \in {"created", "unknown"} : call' = [call EXCEPT ![r] = p]
  /\ UNCHANGED <<dbVars, view, viewTrail, unrecorded, client>>

\* The CRM, or the network before it, refuses the request.
CrmRefuses(r) ==
  /\ call[r] = "calling"
  /\ call' = [call EXCEPT ![r] = "refused"]
  /\ UNCHANGED <<dbVars, view, viewTrail, crmVars, client>>

\* Mutant of Discard: the connection is returned to the pool without a rollback.
DiscardHoldingLocks(r) ==
  /\ view' = [view EXCEPT ![r] = "none"]
  /\ viewTrail' = [viewTrail EXCEPT ![r] = <<>>]
  /\ UNCHANGED <<dbVars, call, crmVars, client>>

\* The transaction of r ends without committing; a task the CRM may have
\* created for it is on no record.
Discard(r) ==
  /\ call' = [call EXCEPT ![r] = "idle"]
  /\ view' = [view EXCEPT ![r] = "none"]
  /\ viewTrail' = [viewTrail EXCEPT ![r] = <<>>]
  /\ unrecorded' = [unrecorded EXCEPT
       ![r] = IF call[r] \in {"created", "unknown"} THEN @ + 1 ELSE @]
  /\ UNCHANGED <<dbVars, written, client>>

\* execute after an answer: state executed, its audit event, and the commit.
RecordExecuted(r) ==
  /\ call[r] = "created"
  /\ state' = [state EXCEPT ![r] = "executed"]
  /\ trail' = [trail EXCEPT ![r] = @ \o Append(viewTrail[r], "execute")]
  /\ call' = [call EXCEPT ![r] = "idle"]
  /\ view' = [view EXCEPT ![r] = "none"]
  /\ viewTrail' = [viewTrail EXCEPT ![r] = <<>>]
  /\ UNCHANGED <<crmVars, client>>

\* execute after an exception: state failed and its audit event are written in
\* the transaction, which the WritebackError raised next rolls back.
FailAndRaise(r) ==
  /\ call[r] \in {"refused", "unknown"}
  /\ view[r] = "approved"
  /\ view' = [view EXCEPT ![r] = "failed"]
  /\ viewTrail' = [viewTrail EXCEPT ![r] = Append(@, "failed")]
  /\ UNCHANGED <<dbVars, call, crmVars, client>>

RollBackFailed(r) ==
  /\ view[r] = "failed"
  /\ Discard(r)

\* The process or its database connection dies inside the transaction.
Crash(r) ==
  /\ Crashes
  /\ call[r] # "idle"
  /\ Discard(r)

\* A restart of the service with a write client configured.
ConfigureClient ==
  /\ ~client
  /\ AuditLockFree
  /\ client' = TRUE
  /\ UNCHANGED <<dbVars, txnVars, crmVars>>

Next ==
  \/ ConfigureClient
  \/ \E r \in Request :
       \/ ProposeTask(r) \/ ApproveOnly(r) \/ Reject(r) \/ ApproveAndCall(r)
       \/ CrmCreates(r) \/ CrmRefuses(r) \/ RecordExecuted(r)
       \/ FailAndRaise(r) \/ RollBackFailed(r) \/ Crash(r)

Spec == Init /\ [][Next]_vars

\* The HTTP client times out (30 s), so a call ends, and a handler whose call
\* ended runs to its end.  Nothing obliges a user to act.  That a write client is
\* configured some day only gives the note of main.py:737 its premise.
HandlerSteps(r) ==
  CrmCreates(r) \/ CrmRefuses(r) \/ RecordExecuted(r)
    \/ FailAndRaise(r) \/ RollBackFailed(r)

Fairness ==
  /\ WF_vars(ConfigureClient)
  /\ \A r \in Request : WF_vars(HandlerSteps(r))

FairSpec == Spec /\ Fairness

-----------------------------------------------------------------------------

TypeOK ==
  /\ state \in [Request -> State]
  /\ trail \in [Request -> Seq(Action)]
  /\ call \in [Request -> Phase]
  /\ view \in [Request -> State]
  /\ viewTrail \in [Request -> Seq(Action)]
  /\ written \in [Request -> Nat]
  /\ unrecorded \in [Request -> Nat]
  /\ client \in BOOLEAN

\* Every task in the CRM belongs to an executed request, to the approval under
\* way, or to an approval that was rolled back; none is counted twice.
EffectsAccounted ==
  \A r \in Request :
    written[r] = unrecorded[r]
                 + (IF state[r] = "executed" THEN 1 ELSE 0)
                 + (IF call[r] \in {"created", "unknown"} THEN 1 ELSE 0)

\* The committed audit trail of a request is the one its state calls for: no
\* commit changes the state without its events or records an event twice.
TrailTellsState ==
  \A r \in Request :
    \/ state[r] = "none" /\ trail[r] = <<>>
    \/ state[r] = "proposed" /\ trail[r] = <<"propose">>
    \/ state[r] = "approved" /\ trail[r] = <<"propose", "approve">>
    \/ state[r] = "executed" /\ trail[r] = <<"propose", "approve", "execute">>
    \/ state[r] = "rejected" /\ trail[r] \in {<<"propose", "reject">>,
                                            <<"propose", "approve", "reject">>}

\* While the CRM is being called for a request nobody else decides on it: it
\* cannot be rejected, nor approved a second time, under the open transaction.
NoDecisionDuringCall ==
  \A r \in Request : call[r] # "idle" => state[r] = "proposed"

\* The audit lock, held to the end of the approval, lets the tenant have one
\* external write under way at a time.
OneCallInFlight ==
  \A q, r \in Request : q # r => call[q] = "idle" \/ call[r] = "idle"

\* Committed states and audit trails change as the lifecycle promises: nothing
\* leaves rejected or executed, and events are committed with their change.
Promise == INSTANCE WritebackPromise
KeepsPromise == Promise!Spec

\* An approval that calls the CRM does not hold its locks forever.
CallsEnd == \A r \in Request : (call[r] # "idle") ~> (call[r] = "idle")

-----------------------------------------------------------------------------
(* What comments say of the framework and the code does not do.            *)

\* writeback.py:3: nothing mutates an external system without an approval and
\* audit events at every step.
WritesAreAudited ==
  \A r \in Request :
    written[r] > 0 /\ call[r] = "idle" => \E i \in DOMAIN trail[r] : trail[r][i] = "approve"

\* writeback.py:4: an idempotent execution, of one task per request.
WrittenOnce == \A r \in Request : written[r] <= 1

\* migrations/0004:13: an approved request whose execution fails is failed.
\* Once a handler has seen its call fail, the request leaves proposed for good.
FailureIsRecorded ==
  [][\A r \in Request :
       view[r] = "failed" /\ view'[r] = "none" => state'[r] = "failed"]_vars

\* main.py:737: an approved request will execute when the connector is live.
ApprovedIsExecuted ==
  \A r \in Request : (state[r] = "approved") ~> (state[r] \in {"executed", "rejected", "failed"})
=============================================================================
