SPECIFICATION Spec
CONSTANTS
  Call = {c1, c2}
  alice = alice
  bob = bob
  inv = inv
  NoKey = NoKey
  Request <- MCOneRequest
  Enabled = TRUE
  TwoFloor = TRUE
  MaxFaults = 1
SYMMETRY Symmetry
INVARIANTS
  RefusedNeverRan
