SPECIFICATION MCSpec
CONSTANTS
  a1 = a1
  a2 = a2
  Artifact = {a1, a2}
  Slug = {1, 2}
  Drainer = {d1, d2}
  NoSlug = NoSlug
  NoArtifact = NoArtifact
  FanoutCap = 2
  Deps0 <- MCDeps
  Rewrites <- MCRewrites
  MaxChanges = 1
  MaxEdits = 1
  MaxFaults = 1
  MaxCrashes = 1
INVARIANTS
  TypeOK
  Reread
  PendingOwed
PROPERTIES
  UsesQueue
  EventsSettle
CHECK_DEADLOCK FALSE
