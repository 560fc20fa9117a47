SPECIFICATION Spec
SYMMETRY FullSymmetry
CONSTANTS
  None = None
  Users = {alice, bob}
  Passwords = {old}
  Sids = {}
  Reqs = {r1, r2}
  Provisioned = {}
  Routes = {"bootstrap", "login"}
  TTL = 1
  MaxTime = 3
  MaxEpoch = 1
  MaxRestarts = 1
  MaxLost = 1
  MaxFailures = 2
  Window = 2
  Block = 2
  MaxTrackedKeys = 1
INVARIANTS
  ThrottleInv
PROPERTY
  BlockPersists
