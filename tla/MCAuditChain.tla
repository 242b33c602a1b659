---------------------------- MODULE MCAuditChain ----------------------------
(* Instances of AuditChain for TLC. *)
EXTENDS AuditChain, TLC

CONSTANTS t1, t2, w1, w2, w3

\* Two request transactions of one tenant, one of another.
SharedTenantOf == (w1 :> t1) @@ (w2 :> t1) @@ (w3 :> t2)

=============================================================================
