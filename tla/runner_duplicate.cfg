SPECIFICATION Spec
CONSTANTS
  t1 = t1
  NoTask = NoTask
  NoPid = NoPid
  Priority <- MCPriority
  TaskType <- MCTaskType
  Tasks <- OneTask
  Workers = {w1, w2}
  Pids = {p1, p2, p3}
  RetryMax = 1
  Fallback = TRUE
  AgentWrites = {"wait"}
  ExitResults = {"ok", "transient", "error"}
  StopTargets = {}
  HealLimit = 1
  MaxPolls = 0
  MaxHeals = 1
  MaxCrashes = 0
  MaxFaults = 0
SYMMETRY Symmetry
INVARIANTS
  NoDuplicateRun
CHECK_DEADLOCK FALSE
