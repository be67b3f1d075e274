SPECIFICATION Spec
CONSTANTS
  Job = {j1, j2}
  Override = {j1}
  MaxRuns = 2
  MaxAdds = 2
  Cap = 1
  Legacy = {action, apply}
  NeedsApproval = {action, apply}
  Scoped = {post}
  BlockedNames = {apply}
  LoadRead = TRUE
  LoadWrite = TRUE
  NoId = NoId
  Investigation = {NoId}
  Caller = {a1, a2}
  MaxAudit = 2
  Incident = {i1, i2}
  Phases = 2
  MaxTurns = 1
  MaxHistory = 1
  NoRecord = NoRecord
  Action <- MCAction
  Extra = {0, 20}
  EnvRisk <- MCEnvRisk
  CatRisk <- MCCatRisk
  Rule <- MCRule
  Operator = {o1, o2}
SYMMETRY Symmetry
INVARIANTS
  DecisionEarned
PROPERTIES
  SchedulerSound
  ToolUseSound
  SwitchReadLast
CHECK_DEADLOCK FALSE
