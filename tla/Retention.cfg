SPECIFICATION Spec
CONSTANTS
  s1 = s1
  s2 = s2
  a = a
  b = b
  Sessions = {s1, s2}
  Instances = {a, b}
  None = None
  RetentionDays = 1
  BatchSize = 1
  MaxTime = 2
  MaxRows = 2
  MaxFaults = 1
INVARIANTS
  RetentionInv
  PurgeAuditExact
PROPERTIES
  OnlyExpiredPurged
  EventuallyPurged
