CONSTANTS
  t1 = t1
  t2 = t2
  w1 = w1
  w2 = w2
  w3 = w3
  Tenant = {t1, t2}
  Writer = {w1, w2, w3}
  TenantOf <- SharedTenantOf
  MaxSeq = 4
SPECIFICATION Spec
INVARIANT ChainVerifies
CHECK_DEADLOCK FALSE
