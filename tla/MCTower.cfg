SPECIFICATION Spec
CONSTANTS
  i1 = i1
  i2 = i2
  web = web
  db = db
  c = c
  d = d
  x = x
  y = y
  z = z
  Investigation = {i1, i2}
  TraceId = {t1}
  Untraced = Untraced
  Configured <- SmallCeilings
  Budget <- SmallBudgets
  Found <- SmallFound
  Length <- SmallLengths
  Page <- SmallPages
  MaxLimit = 5
  Service = {web, db}
  NoService = NoService
  Template = {x, y, z, c, d}
  Order <- SmallOrder
  Similar <- SmallSimilar
  Severity = {"error", "info"}
  Inputs <- SmallInputs
  Window = 1
  BurstZ = 2
  WowZ = 2
  CorrWindow = 1
  MaxClusters = 2
  DaySeconds = 1
INVARIANTS
  InvestigationSound
  PatternsExact
PROPERTIES
  SearchSound
CHECK_DEADLOCK FALSE
