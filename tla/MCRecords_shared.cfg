CONSTANTS
  t1 = t1
  t2 = t2
  w1 = w1
  w2 = w2
  w3 = w3
  Tenant = {t1, t2}
  Writer = {w1, w2, w3}
  TenantOf <- SharedTenantOf
  MaxSeq = 4
  c1 = c1
  c2 = c2
  Clerk = {c1, c2}
  Amount = {100, 160}
  Accounts = {1}
  MaxAge = 0
  MaxDate = 1
  MaxBrief = 2
  MaxTurns = 2
SPECIFICATION RecordsSpec
SYMMETRY Symmetry
INVARIANTS
  LinksResolve
  BrokenOnlyByInversion
  RecordsTypeOK
  ApprovalRestsOnFresh
  AmountIsEvidenced
CHECK_DEADLOCK FALSE
