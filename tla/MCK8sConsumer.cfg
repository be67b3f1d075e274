SPECIFICATION MCSpec
CONSTANTS
  a1 = a1
  a2 = a2
  w1 = w1
  w2 = w2
  v2 = v2
  Watcher = {w1, w2}
  Artifact = {a1, a2}
  Owner <- MCOwner
  Val = {NoValue, v2}
  NoValue = NoValue
  Gone = Gone
  Unset = Unset
  QueueMax = 1
  MaxRetries = 1
  MaxLog = 2
  MaxFails = 2
  MaxReturns = 1
INVARIANTS
  HandoverSound
PROPERTIES
  HeardInOrder
  Converges
CHECK_DEADLOCK FALSE
