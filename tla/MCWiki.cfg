SPECIFICATION Spec
CONSTANTS
  s1 = s1
  s2 = s2
  oom = oom
  index = index
  g1 = g1
  g2 = g2
  l1 = l1
  l2 = l2
  WSource = {s1, s2}
  Slug = {oom, index}
  Overview = index
  Ingest = {g1, g2}
  WrittenType = {"entity", "incident"}
  HumanFile <- SmallHuman
  MaxEdits = 1
  MaxArchives = 1
  MaxLosses = 1
  MaxBlocks = 2
  Syncer = {l1, l2}
  PageCount = 3
  SpaceOf <- SmallSpaces
  PerRequest = 1
  Batch <- SmallBatch
  MaxChanges = 2
  MaxRuns = 3
  MaxCrashes = 1
  Job = {l1, l2}
  AutoPush = TRUE
  MaxCommits = 3
  MaxRollbacks = 1
  LintInputs <- SmallPages
  Keyword = {"t", "u", "A"}
  TopCount = 2
  Exempt = {"b"}
INVARIANTS
  PublishSound
  LintExact
PROPERTIES
  WikiSound
  SyncSound
  WorkEnds
CHECK_DEADLOCK FALSE
