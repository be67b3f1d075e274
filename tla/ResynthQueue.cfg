SPECIFICATION FairSpec
CONSTANTS
  Slug = {g1, g2}
  Drainer = {d1, d2}
  NoSlug = NoSlug
  MaxCrashes = 2
INVARIANTS
  WorkOnDisk
  Traceable
PROPERTIES
  KeepsPromise
  EventuallyTried
