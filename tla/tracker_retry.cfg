SPECIFICATION FairSpec
CONSTANTS
  t1 = t1
  NoTask = NoTask
  NoPid = NoPid
  Priority <- MCPriority
  TaskType <- MCTaskType
  Tasks <- OneTask
  Workers = {w1}
  Pids = {p1, p2, p3}
  RetryMax = 1
  Fallback = FALSE
  AgentWrites = {"done"}
  ExitResults = {"ok", "transient"}
  StopTargets = {}
  HealLimit = 1
  MaxPolls = 0
  MaxHeals = 0
  MaxCrashes = 0
  MaxFaults = 0
PROPERTIES
  Settles
CHECK_DEADLOCK FALSE
