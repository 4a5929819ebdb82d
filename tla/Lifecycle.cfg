SPECIFICATION FairSpec
CONSTANTS
  None = None
  Replicas = {r1, r2}
  LockTTL = 2
  MaxStall = 1
  MaxStarts = 3
  MaxFailures = 1
  Deployments <- MCDeployments
INVARIANTS OneLeader PoolOutlivesUsers
PROPERTIES JobsGoOn ShutdownEnds
CHECK_DEADLOCK FALSE
