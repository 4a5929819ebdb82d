SPECIFICATION Spec
CONSTANTS
  None = None
  u1 = u1
  u2 = u2
  t1 = t1
  t2 = t2
  Tenant <- MCTenant
  TTL <- MCTTL
  MaxAccessTTL = 2
  MaxSkew = 1
  Requests = {p1, p2}
  Replicas = {r1, r2}
  Capacity = 1
  RPS = 2
  EntryTTL = 2
  MaxTime = 6
  MaxEpoch = 1
  Scenes <- MCScenes
SYMMETRY Symmetry
INVARIANTS RevocationSeen GrantHeld TenantBound AccessSurvives LimitersExact
PROPERTY SudoProven
CHECK_DEADLOCK FALSE
