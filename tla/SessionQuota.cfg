SPECIFICATION Spec
CONSTANTS
  u1 = u1
  u2 = u2
  r1 = r1
  r2 = r2
  Users = {u1, u2}
  Reqs = {r1, r2}
  None = None
  MaxSessions = 2
  MaxFaults = 1
  MaxLivePerUser = 1
  MaxLivePerDeployment = 1
  MaxStartingPerUser = 1
INVARIANTS
  QuotaInv
  OverrunBounded
PROPERTY
  StartingResolves
