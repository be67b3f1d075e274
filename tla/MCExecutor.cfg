SPECIFICATION Spec
CONSTANTS
  Call = {c1, c2}
  alice = alice
  bob = bob
  inv = inv
  NoKey = NoKey
  Request <- MCRequest
  Enabled = TRUE
  TwoFloor = TRUE
  MaxFaults = 2
SYMMETRY Symmetry
INVARIANTS
  TypeOK
  LinesTruthful
  AnswerTraceable
  TripStopsCommands
