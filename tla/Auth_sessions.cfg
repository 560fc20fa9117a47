SPECIFICATION Spec
SYMMETRY Symmetry
CONSTANTS
  None = None
  Users = {alice}
  Passwords = {old, new}
  Sids = {s1, s2}
  Reqs = {r1, r2}
  Provisioned = {alice}
  Routes = {"login", "logout", "read", "change", "revoke", "revoke_all"}
  TTL = 1
  MaxTime = 0
  MaxEpoch = 1
  MaxRestarts = 0
  MaxLost = 1
  MaxFailures = 1
  Window = 1
  Block = 1
  MaxTrackedKeys = 1
INVARIANTS
  OldPasswordDies
  RevocationAudited
