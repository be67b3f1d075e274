SPECIFICATION Spec
CONSTANTS
  Proc = {"api", "cli", "worker"}
  Node = {"host1", "host2"}
  NodeOf <- MCNodeOf
  Requested <- MCMixed
  MaxFaults = 2
  NoNode = NoNode
INVARIANTS
  TypeOK
  TripStopsCalls
  ReleaseClears
PROPERTIES
  StaysHalted
