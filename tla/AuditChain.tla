----------------------------- MODULE AuditChain -----------------------------
(***************************************************************************)
(* The tamper-evident audit log: the table audit_event, the trigger that   *)
(* computes its per-tenant hash chain, and verify_chain (rig/audit.py).    *)
(*                                                                         *)
(* A writer is one request transaction that calls audit.record one or more *)
(* times (the write-back approval records two events).  PostgreSQL         *)
(* evaluates the column default of seq, nextval, before it runs a BEFORE   *)
(* INSERT trigger, so a row has its seq before the trigger takes the       *)
(* tenant's advisory lock; the lock is then held to the transaction's end. *)
(* nextval is never rolled back.                                           *)
(*                                                                         *)
(* A row's hash is abstracted to the row's seq: sha256 over contents that  *)
(* include prev_hash and the timestamp is taken as injective, and all that *)
(* verify_chain does with hashes is compare them.                          *)
(***************************************************************************)
EXTENDS Naturals

CONSTANTS Tenant,    \* tenants sharing the database and its one sequence
          Writer,    \* request transactions
          TenantOf,  \* [Writer -> Tenant], the tenant of the request
          MaxSeq     \* bound on the sequence, for TLC only

ASSUME TenantOfAssumption == TenantOf \in [Writer -> Tenant]
ASSUME MaxSeqAssumption == MaxSeq \in Nat

VARIABLES nextSeq,   \* the value nextval returns next
          committed, \* committed rows of audit_event, of every tenant
          drawn,     \* drawn[w]: seq of the row w is inserting, or Genesis
          own        \* own[w]: rows of w's open transaction

vars == <<nextSeq, committed, drawn, own>>

Genesis == 0                                  \* prev_hash of the first row

Row == [seq : Nat \ {0}, tenant : Tenant, prev : Nat]

RowsOf(S, t) == {r \in S : r.tenant = t}

\* Mutants of Visible: row-level security off; the lookup on a second connection.
VisibleToAll(w) == committed \cup own[w]
VisibleCommitted(w) == RowsOf(committed, TenantOf[w])

\* What a statement of w sees: READ COMMITTED, plus its own uncommitted rows.
Visible(w) == RowsOf(committed \cup own[w], TenantOf[w])

\* h is what "SELECT hash ... ORDER BY seq DESC LIMIT 1" yields over S.
IsLastHash(h, S) ==
  \/ S = {} /\ h = Genesis
  \/ \E r \in S : r.seq = h /\ \A q \in S : q.seq <= h

\* Mutant of LockFree: the trigger takes no lock.
NoLock(w) == TRUE

\* pg_advisory_xact_lock: w may take the tenant's lock, or already holds it.
LockFree(w) ==
  \A v \in Writer : v # w /\ TenantOf[v] = TenantOf[w] => own[v] = {}

-----------------------------------------------------------------------------

\* Mutant of Init: the sequence starts at the value that stands for no row.
InitAtGenesis ==
  /\ nextSeq = Genesis
  /\ committed = {}
  /\ drawn = [w \in Writer |-> Genesis]
  /\ own = [w \in Writer |-> {}]

Init ==
  /\ nextSeq = 1
  /\ committed = {}
  /\ drawn = [w \in Writer |-> Genesis]
  /\ own = [w \in Writer |-> {}]

\* INSERT INTO audit_event begins: the default of seq is evaluated.
DrawSeq(w) ==
  /\ drawn[w] = Genesis
  /\ nextSeq <= MaxSeq
  /\ drawn' = [drawn EXCEPT ![w] = nextSeq]
  /\ nextSeq' = nextSeq + 1
  /\ UNCHANGED <<committed, own>>

\* The trigger: lock, read the last hash with a fresh snapshot, chain the row.
AppendRow(w) ==
  /\ drawn[w] # Genesis
  /\ LockFree(w)
  /\ \E h \in 0..(nextSeq - 1) :
       /\ IsLastHash(h, Visible(w))
       /\ own' = [own EXCEPT ![w] = @ \cup
                    {[seq |-> drawn[w], tenant |-> TenantOf[w], prev |-> h]}]
  /\ drawn' = [drawn EXCEPT ![w] = Genesis]
  /\ UNCHANGED <<nextSeq, committed>>

\* The request's transaction commits; its advisory lock is released.
Commit(w) ==
  /\ drawn[w] = Genesis
  /\ own[w] # {}
  /\ committed' = committed \cup own[w]
  /\ own' = [own EXCEPT ![w] = {}]
  /\ UNCHANGED <<nextSeq, drawn>>

\* The handler raises, or the connection is lost: rows go, seq values do not.
Rollback(w) ==
  /\ drawn[w] # Genesis \/ own[w] # {}
  /\ drawn' = [drawn EXCEPT ![w] = Genesis]
  /\ own' = [own EXCEPT ![w] = {}]
  /\ UNCHANGED <<nextSeq, committed>>

Next == \E w \in Writer : DrawSeq(w) \/ AppendRow(w) \/ Commit(w) \/ Rollback(w)

Spec == Init /\ [][Next]_vars

-----------------------------------------------------------------------------
(* verify_chain over a set of rows of one tenant, walked in order of seq.  *)

IsPredecessor(h, r, S) == IsLastHash(h, {q \in S : q.seq < r.seq})

Intact(S) == \A r \in S : IsPredecessor(r.prev, r, S)

\* A row chained to a row whose seq is higher than its own.
Inverted(S) == \E r \in S : r.prev > r.seq

-----------------------------------------------------------------------------

TypeOK ==
  /\ nextSeq \in Nat \ {0}
  /\ committed \in SUBSET Row
  /\ drawn \in [Writer -> Nat]
  /\ own \in [Writer -> SUBSET Row]

\* The advisory lock serialises the appends of a tenant: two open transactions
\* of one tenant never both hold chained rows.
OneAppenderPerTenant ==
  \A v, w \in Writer :
    v # w /\ TenantOf[v] = TenantOf[w] => own[v] = {} \/ own[w] = {}

\* Whatever rolls back and in whatever order writers commit, a committed row is
\* chained to nothing or to a committed row of the same tenant.
LinksResolve ==
  \A r \in committed :
    \/ r.prev = Genesis
    \/ \E q \in committed : q.seq = r.prev /\ q.tenant = r.tenant

\* A tenant's log fails verification only when some row was chained after a row
\* with a higher seq: draw order and lock order disagreeing is the one cause.
BrokenOnlyByInversion ==
  \A t \in Tenant :
    Intact(RowsOf(committed, t)) \/ Inverted(RowsOf(committed, t))

\* verify_chain reports every tenant's log intact after any legal history.
ChainVerifies == \A t \in Tenant : Intact(RowsOf(committed, t))
=============================================================================
