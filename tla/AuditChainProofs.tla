-------------------------- MODULE AuditChainProofs --------------------------
(***************************************************************************)
(* Proofs about AuditChain, for every set of tenants and writers and every *)
(* bound on the sequence.                                                  *)
(***************************************************************************)
EXTENDS AuditChain, TLAPS

-----------------------------------------------------------------------------
(* What a step does to the rows of open transactions.                      *)

\* The trigger chains one row, of the writer's tenant and with the seq drawn.
LEMMA ChainedRow ==
  ASSUME TypeOK, NEW w \in Writer, AppendRow(w)
  PROVE  \E n \in Row : own' = [own EXCEPT ![w] = @ \cup {n}]
<1>1. PICK h \in 0..(nextSeq - 1) :
        own' = [own EXCEPT ![w] = @ \cup
                  {[seq |-> drawn[w], tenant |-> TenantOf[w], prev |-> h]}]
  BY DEF AppendRow
<1>2. drawn[w] \in Nat \ {0} /\ TenantOf[w] \in Tenant
  BY TenantOfAssumption DEF AppendRow, Genesis, TypeOK
<1>3. [seq |-> drawn[w], tenant |-> TenantOf[w], prev |-> h] \in Row
  BY <1>2 DEF Row
<1>4. QED
  BY <1>1, <1>3

\* Only the trigger adds a row; any other step leaves a transaction the rows it
\* has, or ends it.
LEMMA OnlyAppendsAdd ==
  ASSUME TypeOK, [Next]_vars, ~ \E w \in Writer : AppendRow(w)
  PROVE  \A v \in Writer : own'[v] = own[v] \/ own'[v] = {}
BY DEF Next, DrawSeq, Commit, Rollback, TypeOK, vars

-----------------------------------------------------------------------------
(* Type correctness.                                                       *)

\* Every step of every writer keeps the audit state well typed.
THEOREM TypeCorrect == Spec => []TypeOK
<1>1. ASSUME TypeOK, NEW w \in Writer, AppendRow(w) PROVE TypeOK'
  <2>1. own' \in [Writer -> SUBSET Row]
    BY <1>1, ChainedRow DEF TypeOK
  <2>2. QED
    BY <1>1, <2>1 DEF AppendRow, TypeOK, Genesis
<1>2. ASSUME TypeOK, NEW w \in Writer, DrawSeq(w) \/ Commit(w) \/ Rollback(w)
      PROVE  TypeOK'
  BY <1>2 DEF DrawSeq, Commit, Rollback, TypeOK, Genesis
<1>3. TypeOK /\ [Next]_vars => TypeOK'
  <2>1. TypeOK /\ Next => TypeOK'
    BY <1>1, <1>2 DEF Next
  <2>2. TypeOK /\ vars' = vars => TypeOK'
    BY DEF TypeOK, vars
  <2>3. QED
    BY <2>1, <2>2
<1>4. Init => TypeOK
  BY DEF Init, TypeOK, Genesis
<1>5. QED
  BY <1>3, <1>4, PTL DEF Spec

-----------------------------------------------------------------------------
(* The advisory lock.                                                      *)

\* The trigger's advisory lock, held to the transaction's end, keeps two open
\* transactions of a tenant from both holding chained rows.
THEOREM LockExcludes == Spec => []OneAppenderPerTenant
<1>1. ASSUME TypeOK, OneAppenderPerTenant, NEW w \in Writer, AppendRow(w)
      PROVE  OneAppenderPerTenant'
  <2>1. \A v \in Writer : v # w /\ TenantOf[v] = TenantOf[w] => own[v] = {}
    BY <1>1 DEF AppendRow, LockFree
  <2>2. \A v \in Writer : v # w => own'[v] = own[v]
    BY <1>1, ChainedRow DEF TypeOK
  <2>3. QED
    BY <1>1, <2>1, <2>2 DEF OneAppenderPerTenant
<1>2. ASSUME TypeOK, OneAppenderPerTenant, [Next]_vars, ~ \E w \in Writer : AppendRow(w)
      PROVE  OneAppenderPerTenant'
  BY <1>2, OnlyAppendsAdd DEF OneAppenderPerTenant
<1>3. OneAppenderPerTenant /\ TypeOK /\ [Next]_vars => OneAppenderPerTenant'
  BY <1>1, <1>2
<1>4. Init => OneAppenderPerTenant
  BY DEF Init, OneAppenderPerTenant
<1>5. QED
  BY <1>3, <1>4, TypeCorrect, PTL DEF Spec

-----------------------------------------------------------------------------
(* What chaining one more row does to a verified log.                      *)

\* A row chained to the last row of a log that verifies, or holds an inversion,
\* leaves a log that verifies or holds an inversion.
LEMMA ChainOneMore ==
  ASSUME NEW S \in SUBSET Row, NEW n \in Row,
         IsLastHash(n.prev, S),
         \A q \in S : q.seq # n.seq,
         Intact(S) \/ Inverted(S)
  PROVE  Intact(S \cup {n}) \/ Inverted(S \cup {n})
<1>1. CASE Inverted(S)
  BY <1>1 DEF Inverted
<1>2. CASE n.prev > n.seq
  BY <1>2 DEF Inverted
<1>3. CASE Intact(S) /\ ~(n.prev > n.seq)
  <2>1. \A q \in S : q.seq < n.seq
    <3> SUFFICES ASSUME NEW q \in S PROVE q.seq < n.seq
      OBVIOUS
    <3>1. q.seq <= n.prev
      BY DEF IsLastHash
    <3>2. q.seq \in Nat /\ n.seq \in Nat /\ n.prev \in Nat
      BY DEF Row
    <3>3. QED
      BY <1>3, <3>1, <3>2
  <2>2. n.seq \in Nat /\ \A q \in S : q.seq \in Nat
    BY DEF Row
  <2>3. {q \in S \cup {n} : q.seq < n.seq} = S
    BY <2>1, <2>2
  <2>4. IsPredecessor(n.prev, n, S \cup {n})
    BY <2>3 DEF IsPredecessor
  <2>5. ASSUME NEW r \in S PROVE IsPredecessor(r.prev, r, S \cup {n})
    <3>1. {q \in S \cup {n} : q.seq < r.seq} = {q \in S : q.seq < r.seq}
      BY <2>1, <2>2
    <3>2. IsPredecessor(r.prev, r, S)
      BY <1>3 DEF Intact
    <3>3. QED
      BY <3>1, <3>2 DEF IsPredecessor
  <2>6. QED
    BY <2>4, <2>5 DEF Intact
<1>4. QED
  BY <1>1, <1>2, <1>3

-----------------------------------------------------------------------------
(* The inductive invariant: seq values are drawn once, an open transaction *)
(* holds rows of its own tenant, and what it would leave if it committed   *)
(* now already satisfies the two properties of the committed log.          *)

SeqFresh ==
  /\ \A r \in committed : r.seq < nextSeq
  /\ \A w \in Writer : drawn[w] < nextSeq
  /\ \A w \in Writer : \A r \in own[w] : r.seq < nextSeq
  /\ \A v, w \in Writer : v # w /\ drawn[v] # Genesis => drawn[v] # drawn[w]
  /\ \A w \in Writer : drawn[w] # Genesis =>
       /\ \A r \in committed : r.seq # drawn[w]
       /\ \A v \in Writer : \A r \in own[v] : r.seq # drawn[w]

OwnTenant == \A w \in Writer : \A r \in own[w] : r.tenant = TenantOf[w]

LinksResolveIn(S) ==
  \A r \in S : r.prev = Genesis \/ \E q \in S : q.seq = r.prev /\ q.tenant = r.tenant

OpenLinksResolve == \A w \in Writer : LinksResolveIn(Visible(w))

OpenBrokenOnlyByInversion ==
  \A w \in Writer : Intact(Visible(w)) \/ Inverted(Visible(w))

IInv ==
  /\ TypeOK
  /\ OneAppenderPerTenant
  /\ SeqFresh
  /\ OwnTenant
  /\ LinksResolve
  /\ OpenLinksResolve
  /\ BrokenOnlyByInversion
  /\ OpenBrokenOnlyByInversion

LEMMA IInvInit == Init => IInv
<1> SUFFICES ASSUME Init PROVE IInv
  OBVIOUS
<1>1. \A w \in Writer : Visible(w) = {}
  BY DEF Init, Visible, RowsOf
<1>2. \A t \in Tenant : RowsOf(committed, t) = {}
  BY DEF Init, RowsOf
<1>3. TypeOK
  BY DEF Init, TypeOK, Genesis
<1>4. SeqFresh /\ OwnTenant /\ OneAppenderPerTenant /\ LinksResolve
  BY DEF Init, SeqFresh, OwnTenant, OneAppenderPerTenant, LinksResolve, Genesis
<1>5. OpenLinksResolve
  BY <1>1 DEF OpenLinksResolve, LinksResolveIn
<1>6. BrokenOnlyByInversion /\ OpenBrokenOnlyByInversion
  BY <1>1, <1>2 DEF BrokenOnlyByInversion, OpenBrokenOnlyByInversion, Intact
<1>7. QED
  BY <1>3, <1>4, <1>5, <1>6 DEF IInv

LEMMA IInvDraw ==
  ASSUME IInv, TypeOK', OneAppenderPerTenant', NEW w \in Writer, DrawSeq(w)
  PROVE  IInv'
<1> USE DEF IInv
<1>1. SeqFresh'
  BY DEF DrawSeq, SeqFresh, TypeOK, Genesis, Row
<1>2. OwnTenant' /\ LinksResolve' /\ BrokenOnlyByInversion'
  BY DEF DrawSeq, OwnTenant, LinksResolve, BrokenOnlyByInversion
<1>3. \A v \in Writer : Visible(v)' = Visible(v)
  BY DEF DrawSeq, Visible
<1>4. OpenLinksResolve' /\ OpenBrokenOnlyByInversion'
  BY <1>3 DEF OpenLinksResolve, OpenBrokenOnlyByInversion
<1>5. QED
  BY <1>1, <1>2, <1>4

LEMMA IInvAppend ==
  ASSUME IInv, TypeOK', OneAppenderPerTenant', NEW w \in Writer, AppendRow(w)
  PROVE  IInv'
<1> USE DEF IInv
<1>1. PICK h \in 0..(nextSeq - 1) :
        /\ IsLastHash(h, Visible(w))
        /\ own' = [own EXCEPT ![w] = @ \cup
                     {[seq |-> drawn[w], tenant |-> TenantOf[w], prev |-> h]}]
  BY DEF AppendRow
<1> DEFINE n == [seq |-> drawn[w], tenant |-> TenantOf[w], prev |-> h]
<1>2. n \in Row
  <2>1. drawn[w] \in Nat \ {0}
    BY DEF AppendRow, Genesis, TypeOK
  <2>2. TenantOf[w] \in Tenant
    BY TenantOfAssumption
  <2>3. QED
    BY <2>1, <2>2 DEF Row
<1>3. n.seq = drawn[w] /\ n.tenant = TenantOf[w] /\ n.prev = h
  OBVIOUS
<1>4. own'[w] = own[w] \cup {n} /\ \A v \in Writer : v # w => own'[v] = own[v]
  BY <1>1 DEF TypeOK
<1>5. drawn[w] # Genesis /\ committed' = committed /\ nextSeq' = nextSeq
  BY DEF AppendRow
<1>6. drawn'[w] = Genesis /\ \A v \in Writer : v # w => drawn'[v] = drawn[v]
  BY DEF AppendRow, TypeOK
<1> HIDE DEF n
<1>7. SeqFresh'
  <2>1. \A r \in committed' : r.seq < nextSeq'
    BY <1>5 DEF SeqFresh
  <2>2. \A v \in Writer : drawn'[v] < nextSeq' /\ \A r \in own'[v] : r.seq < nextSeq'
    BY <1>3, <1>4, <1>5, <1>6 DEF SeqFresh, Genesis, TypeOK
  <2>3. \A u, v \in Writer : u # v /\ drawn'[u] # Genesis => drawn'[u] # drawn'[v]
    BY <1>6 DEF SeqFresh
  <2>4. \A v \in Writer : drawn'[v] # Genesis =>
          /\ \A r \in committed' : r.seq # drawn'[v]
          /\ \A u \in Writer : \A r \in own'[u] : r.seq # drawn'[v]
    BY <1>3, <1>4, <1>5, <1>6 DEF SeqFresh
  <2>5. QED
    BY <2>1, <2>2, <2>3, <2>4 DEF SeqFresh
<1>8. OwnTenant'
  BY <1>3, <1>4 DEF OwnTenant
<1>9. LinksResolve' /\ BrokenOnlyByInversion'
  BY <1>5 DEF LinksResolve, BrokenOnlyByInversion
<1>10. Visible(w)' = Visible(w) \cup {n}
  BY <1>3, <1>4, <1>5 DEF Visible, RowsOf
<1>11. \A v \in Writer : v # w => Visible(v)' = Visible(v)
  BY <1>4, <1>5 DEF Visible
<1>12. Visible(w) \in SUBSET Row
  BY DEF Visible, RowsOf, TypeOK
<1>13. OpenLinksResolve'
  <2>1. n.prev = Genesis \/ \E q \in Visible(w) : q.seq = n.prev /\ q.tenant = n.tenant
    BY <1>1, <1>3 DEF IsLastHash, Visible, RowsOf
  <2>2. LinksResolveIn(Visible(w) \cup {n})
    BY <2>1 DEF OpenLinksResolve, LinksResolveIn
  <2>3. QED
    BY <2>2, <1>10, <1>11 DEF OpenLinksResolve
<1>14. OpenBrokenOnlyByInversion'
  <2>1. \A q \in Visible(w) : q.seq # n.seq
    BY <1>3, <1>5 DEF SeqFresh, Visible, RowsOf
  <2>2. Intact(Visible(w)) \/ Inverted(Visible(w))
    BY DEF OpenBrokenOnlyByInversion
  <2>3. IsLastHash(n.prev, Visible(w))
    BY <1>1, <1>3
  <2>4. Intact(Visible(w) \cup {n}) \/ Inverted(Visible(w) \cup {n})
    BY <1>2, <1>12, <2>1, <2>2, <2>3, ChainOneMore
  <2>5. QED
    BY <2>4, <1>10, <1>11 DEF OpenBrokenOnlyByInversion
<1>15. QED
  BY <1>7, <1>8, <1>9, <1>13, <1>14

LEMMA IInvCommit ==
  ASSUME IInv, TypeOK', OneAppenderPerTenant', NEW w \in Writer, Commit(w)
  PROVE  IInv'
<1> USE DEF IInv
<1>1. /\ committed' = committed \cup own[w] /\ own[w] # {}
      /\ own'[w] = {} /\ \A v \in Writer : v # w => own'[v] = own[v]
      /\ nextSeq' = nextSeq /\ drawn' = drawn
  BY DEF Commit, TypeOK
<1>2. SeqFresh'
  BY <1>1 DEF SeqFresh
<1>3. OwnTenant'
  BY <1>1 DEF OwnTenant
<1>4. \A t \in Tenant : t = TenantOf[w] => RowsOf(committed', t) = Visible(w)
  BY <1>1 DEF Visible, RowsOf
<1>5. \A t \in Tenant : t # TenantOf[w] => RowsOf(committed', t) = RowsOf(committed, t)
  BY <1>1 DEF OwnTenant, RowsOf
<1>6. \A v \in Writer : TenantOf[v] = TenantOf[w] => Visible(v)' = Visible(w)
  <2> SUFFICES ASSUME NEW v \in Writer, TenantOf[v] = TenantOf[w]
               PROVE  Visible(v)' = Visible(w)
    OBVIOUS
  <2>1. own'[v] = {}
    BY <1>1 DEF OneAppenderPerTenant
  <2>2. QED
    BY <1>1, <2>1 DEF Visible, RowsOf
<1>7. \A v \in Writer : TenantOf[v] # TenantOf[w] => Visible(v)' = Visible(v)
  BY <1>1 DEF OwnTenant, Visible, RowsOf
<1>8. LinksResolve'
  <2> SUFFICES ASSUME NEW r \in committed'
               PROVE  r.prev = Genesis
                      \/ \E q \in committed' : q.seq = r.prev /\ q.tenant = r.tenant
    BY DEF LinksResolve
  <2>1. CASE r \in committed
    BY <2>1, <1>1 DEF LinksResolve
  <2>2. CASE r \in own[w]
    <3>1. r \in Visible(w)
      BY <2>2 DEF Visible, RowsOf, OwnTenant
    <3>2. Visible(w) \subseteq committed'
      BY <1>1 DEF Visible, RowsOf
    <3>3. QED
      BY <3>1, <3>2 DEF OpenLinksResolve, LinksResolveIn
  <2>3. QED
    BY <2>1, <2>2, <1>1
<1>9. OpenLinksResolve'
  BY <1>6, <1>7 DEF OpenLinksResolve
<1>10. BrokenOnlyByInversion'
  BY <1>4, <1>5 DEF BrokenOnlyByInversion, OpenBrokenOnlyByInversion
<1>11. OpenBrokenOnlyByInversion'
  BY <1>6, <1>7 DEF OpenBrokenOnlyByInversion
<1>12. QED
  BY <1>2, <1>3, <1>8, <1>9, <1>10, <1>11

LEMMA IInvRollback ==
  ASSUME IInv, TypeOK', OneAppenderPerTenant', NEW w \in Writer, Rollback(w)
  PROVE  IInv'
<1> USE DEF IInv
<1>1. /\ committed' = committed /\ nextSeq' = nextSeq
      /\ own'[w] = {} /\ \A v \in Writer : v # w => own'[v] = own[v]
      /\ drawn'[w] = Genesis /\ \A v \in Writer : v # w => drawn'[v] = drawn[v]
  BY DEF Rollback, TypeOK
<1>2. SeqFresh'
  <2>1. \A v \in Writer : drawn'[v] < nextSeq'
    BY <1>1 DEF SeqFresh, Genesis, TypeOK
  <2>2. \A v \in Writer : own'[v] \subseteq own[v]
    BY <1>1
  <2>3. QED
    BY <1>1, <2>1, <2>2 DEF SeqFresh
<1>3. OwnTenant' /\ LinksResolve' /\ BrokenOnlyByInversion'
  BY <1>1 DEF OwnTenant, LinksResolve, BrokenOnlyByInversion
<1>4. Visible(w)' = RowsOf(committed, TenantOf[w]) /\ TenantOf[w] \in Tenant
  BY <1>1, TenantOfAssumption DEF Visible, RowsOf
<1>5. \A v \in Writer : v # w => Visible(v)' = Visible(v)
  BY <1>1 DEF Visible
<1>6. OpenLinksResolve'
  <2>1. LinksResolveIn(RowsOf(committed, TenantOf[w]))
    BY DEF LinksResolve, LinksResolveIn, RowsOf
  <2>2. QED
    BY <2>1, <1>4, <1>5 DEF OpenLinksResolve
<1>7. OpenBrokenOnlyByInversion'
  BY <1>4, <1>5 DEF BrokenOnlyByInversion, OpenBrokenOnlyByInversion
<1>8. QED
  BY <1>2, <1>3, <1>6, <1>7

\* The invariant holds initially and every step keeps it.
THEOREM Invariant == Spec => []IInv
<1>1. IInv /\ TypeOK' /\ OneAppenderPerTenant' /\ [Next]_vars => IInv'
  <2> SUFFICES ASSUME IInv, TypeOK', OneAppenderPerTenant', [Next]_vars PROVE IInv'
    OBVIOUS
  <2>1. CASE UNCHANGED vars
    <3>1. \A v \in Writer : Visible(v)' = Visible(v)
      BY <2>1 DEF vars, Visible
    <3>2. SeqFresh' /\ OwnTenant' /\ LinksResolve' /\ BrokenOnlyByInversion'
      BY <2>1 DEF IInv, vars, SeqFresh, OwnTenant, LinksResolve, BrokenOnlyByInversion
    <3>3. OpenLinksResolve' /\ OpenBrokenOnlyByInversion'
      BY <3>1 DEF IInv, OpenLinksResolve, OpenBrokenOnlyByInversion
    <3>4. QED
      BY <3>2, <3>3 DEF IInv
  <2>2. QED
    BY <2>1, IInvDraw, IInvAppend, IInvCommit, IInvRollback DEF Next
<1>2. QED
  BY <1>1, IInvInit, TypeCorrect, LockExcludes, PTL DEF Spec

-----------------------------------------------------------------------------
(* The two properties of the committed log.                                *)

\* Whatever the interleaving and whatever rolls back, every committed row is
\* chained to nothing or to a committed row of its tenant.
THEOREM LinksAlwaysResolve == Spec => []LinksResolve
<1>1. IInv => LinksResolve
  BY DEF IInv
<1>2. QED
  BY <1>1, Invariant, PTL

\* A log can fail verification only where a row was chained after a row that
\* had drawn a higher seq.
THEOREM OnlyInversionBreaks == Spec => []BrokenOnlyByInversion
<1>1. IInv => BrokenOnlyByInversion
  BY DEF IInv
<1>2. QED
  BY <1>1, Invariant, PTL

-----------------------------------------------------------------------------
(* Transactions of one tenant that never overlap.                          *)

\* No two writers are transactions of one tenant.
Alone == \A v, w \in Writer : v # w => TenantOf[v] # TenantOf[w]

AloneInv ==
  /\ \A w \in Writer : drawn[w] # Genesis => \A r \in Visible(w) : r.seq < drawn[w]
  /\ \A w \in Writer : Intact(Visible(w))
  /\ ChainVerifies

\* A row drawn after every row of the log and chained to its last row leaves
\* a log that verifies.
LEMMA ChainOneLater ==
  ASSUME NEW S \in SUBSET Row, NEW n \in Row,
         IsLastHash(n.prev, S),
         \A q \in S : q.seq < n.seq,
         Intact(S)
  PROVE  Intact(S \cup {n})
<1>1. n.seq \in Nat /\ \A q \in S : q.seq \in Nat
  BY DEF Row
<1>2. {q \in S \cup {n} : q.seq < n.seq} = S
  BY <1>1
<1>3. IsPredecessor(n.prev, n, S \cup {n})
  BY <1>2 DEF IsPredecessor
<1>4. ASSUME NEW r \in S PROVE IsPredecessor(r.prev, r, S \cup {n})
  <2>1. {q \in S \cup {n} : q.seq < r.seq} = {q \in S : q.seq < r.seq}
    BY <1>1
  <2>2. IsPredecessor(r.prev, r, S)
    BY DEF Intact
  <2>3. QED
    BY <2>1, <2>2 DEF IsPredecessor
<1>5. QED
  BY <1>3, <1>4 DEF Intact

LEMMA AloneStep ==
  ASSUME Alone, IInv, AloneInv, [Next]_vars
  PROVE  AloneInv'
<1> USE DEF IInv, AloneInv
<1>1. ASSUME NEW w \in Writer, DrawSeq(w) PROVE AloneInv'
  <2>1. \A v \in Writer : Visible(v)' = Visible(v)
    BY <1>1 DEF DrawSeq, Visible
  <2>2. ChainVerifies'
    BY <1>1 DEF DrawSeq, ChainVerifies
  <2>3. \A r \in Visible(w) : r.seq < nextSeq
    BY DEF Visible, RowsOf, SeqFresh
  <2>4. \A v \in Writer : drawn'[v] # Genesis => \A r \in Visible(v) : r.seq < drawn'[v]
    BY <1>1, <2>3 DEF DrawSeq, TypeOK
  <2>5. QED
    BY <2>1, <2>2, <2>4
<1>2. ASSUME NEW w \in Writer, AppendRow(w) PROVE AloneInv'
  <2>1. PICK h \in 0..(nextSeq - 1) :
          /\ IsLastHash(h, Visible(w))
          /\ own' = [own EXCEPT ![w] = @ \cup
                       {[seq |-> drawn[w], tenant |-> TenantOf[w], prev |-> h]}]
    BY <1>2 DEF AppendRow
  <2> DEFINE n == [seq |-> drawn[w], tenant |-> TenantOf[w], prev |-> h]
  <2>2. n \in Row
    <3>1. drawn[w] \in Nat \ {0}
      BY <1>2 DEF AppendRow, Genesis, TypeOK
    <3>2. TenantOf[w] \in Tenant
      BY TenantOfAssumption
    <3>3. QED
      BY <3>1, <3>2 DEF Row
  <2>3. n.seq = drawn[w] /\ n.tenant = TenantOf[w] /\ n.prev = h
    OBVIOUS
  <2>4. own'[w] = own[w] \cup {n} /\ \A v \in Writer : v # w => own'[v] = own[v]
    BY <2>1 DEF TypeOK
  <2>5. committed' = committed /\ drawn[w] # Genesis
        /\ drawn'[w] = Genesis /\ \A v \in Writer : v # w => drawn'[v] = drawn[v]
    BY <1>2 DEF AppendRow, TypeOK
  <2> HIDE DEF n
  <2>6. Visible(w)' = Visible(w) \cup {n}
    BY <2>3, <2>4, <2>5 DEF Visible, RowsOf
  <2>7. \A v \in Writer : v # w => Visible(v)' = Visible(v)
    BY <2>4, <2>5 DEF Visible
  <2>8. Visible(w) \in SUBSET Row
    BY DEF Visible, RowsOf, TypeOK
  <2>9. Intact(Visible(w) \cup {n})
    BY <2>1, <2>2, <2>3, <2>5, <2>8, ChainOneLater
  <2>10. ChainVerifies'
    BY <2>5 DEF ChainVerifies
  <2>11. QED
    BY <2>5, <2>6, <2>7, <2>9, <2>10
<1>3. ASSUME NEW w \in Writer, Commit(w) PROVE AloneInv'
  <2>1. /\ committed' = committed \cup own[w] /\ drawn' = drawn
        /\ own'[w] = {} /\ \A v \in Writer : v # w => own'[v] = own[v]
    BY <1>3 DEF Commit, TypeOK
  <2>2. \A v \in Writer : Visible(v)' = Visible(v)
    BY <2>1 DEF Alone, OwnTenant, Visible, RowsOf
  <2>3. \A t \in Tenant : t = TenantOf[w] => RowsOf(committed', t) = Visible(w)
    BY <2>1 DEF Visible, RowsOf
  <2>4. \A t \in Tenant : t # TenantOf[w] => RowsOf(committed', t) = RowsOf(committed, t)
    BY <2>1 DEF OwnTenant, RowsOf
  <2>5. ChainVerifies'
    BY <2>3, <2>4 DEF ChainVerifies
  <2>6. QED
    BY <2>1, <2>2, <2>5
<1>4. ASSUME NEW w \in Writer, Rollback(w) PROVE AloneInv'
  <2>1. /\ committed' = committed
        /\ own'[w] = {} /\ \A v \in Writer : v # w => own'[v] = own[v]
        /\ drawn'[w] = Genesis /\ \A v \in Writer : v # w => drawn'[v] = drawn[v]
    BY <1>4 DEF Rollback, TypeOK
  <2>2. Visible(w)' = RowsOf(committed, TenantOf[w]) /\ TenantOf[w] \in Tenant
    BY <2>1, TenantOfAssumption DEF Visible, RowsOf
  <2>3. \A v \in Writer : v # w => Visible(v)' = Visible(v)
    BY <2>1 DEF Visible
  <2>4. ChainVerifies'
    BY <2>1 DEF ChainVerifies
  <2>5. Intact(Visible(w)')
    BY <2>2 DEF ChainVerifies
  <2>6. QED
    BY <2>1, <2>3, <2>4, <2>5
<1>5. CASE UNCHANGED vars
  <2>1. \A v \in Writer : Visible(v)' = Visible(v)
    BY <1>5 DEF vars, Visible
  <2>2. QED
    BY <1>5, <2>1 DEF vars, ChainVerifies
<1>6. QED
  BY <1>1, <1>2, <1>3, <1>4, <1>5 DEF Next

\* While no two audited transactions of a tenant overlap, verify_chain reports
\* every tenant's log intact, whatever other tenants draw from the sequence.
THEOREM AloneVerifies == Alone => (Spec => []ChainVerifies)
<1> SUFFICES ASSUME Alone PROVE Spec => []ChainVerifies
  OBVIOUS
<1>1. Init => AloneInv
  <2> SUFFICES ASSUME Init PROVE AloneInv
    OBVIOUS
  <2>1. \A w \in Writer : Visible(w) = {}
    BY DEF Init, Visible, RowsOf
  <2>2. \A t \in Tenant : RowsOf(committed, t) = {}
    BY DEF Init, RowsOf
  <2>3. QED
    BY <2>1, <2>2 DEF Init, AloneInv, ChainVerifies, Intact
<1>2. IInv /\ AloneInv /\ [Next]_vars => AloneInv'
  BY AloneStep
<1>3. AloneInv => ChainVerifies
  BY DEF AloneInv
<1>4. QED
  BY <1>1, <1>2, <1>3, Invariant, PTL DEF Spec
=============================================================================
