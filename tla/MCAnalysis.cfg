SPECIFICATION Spec
CONSTANTS
  Library <- SmallLibrary
  Kind <- SmallKind
  Holding <- SmallHolding
  SmallDocs <- ThreeDocs
  StartShelf <- SmallShelf
  PairLimits = {0, 3}
  MaxEdits = 1
  Sweeps <- SmallSweeps
  LinkLists <- SmallLinkLists
  Disallows <- SmallDisallows
  Lookback = 7
  Amounts = {0, 1, 100}
  Statements <- SmallStatements
  Halves = 4
  Answers <- SmallAnswers
  Limits = {1, 2}
  Batches <- SmallBatches
  TopCount = 3
  Repeated = 2
  Questions <- SmallQuestions
  Rows <- SmallRows
INVARIANTS
  DocToolsSound
  FiguresExact
PROPERTIES
  ReconcileSound
CHECK_DEADLOCK FALSE
