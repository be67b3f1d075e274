SPECIFICATION FairSpec
CONSTANTS
  a1 = a1
  a2 = a2
  Artifact = {a1, a2}
  Slug = {1, 2}
  Drainer = {d1}
  NoSlug = NoSlug
  NoArtifact = NoArtifact
  FanoutCap = 2
  Deps0 <- MCDeps
  Rewrites <- MCRewrites
  MaxChanges = 1
  MaxEdits = 0
  MaxFaults = 0
  MaxCrashes = 0
PROPERTIES
  EventsHeard
CHECK_DEADLOCK FALSE
