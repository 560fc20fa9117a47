SPECIFICATION Spec
CONSTANTS
  ed1 = ed1
  ed2 = ed2
  rsa1 = rsa1
  Keys = {ed1, ed2, rsa1}
  TypeOf <- MCTypeOf
  Reqs = {r1, r2}
  None = None
  MaxPermits = 1
INVARIANTS
  PinsInv
  OfferedOnlyToPinned
PROPERTY
  RevokedForever
SYMMETRY Symmetry
