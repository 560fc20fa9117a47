SPECIFICATION Spec
CONSTANTS
  alice = alice
  bob = bob
  h1 = h1
  h2 = h2
  i1 = i1
  i2 = i2
  p1 = p1
  Users = {alice, bob}
  Hosts = {h1, h2}
  Idents = {i1, i2}
  Profiles = {p1}
  Reqs = {r1, r2}
  Owner <- MCOwner
  Provisioned = {h2}
  None = None
INVARIANTS
  InventoryInv
  DeletionAudited
  BarredNeverWrites
SYMMETRY Symmetry
