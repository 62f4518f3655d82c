SPECIFICATION SceneSpec
CONSTANTS
  t1 = t1
  t2 = t2
  NoTask = NoTask
  NoPid = NoPid
  Priority <- MCPriority
  TaskType <- MCTaskType
  Tasks <- TwoTasks
  Workers = {1, 2}
  Pids = {1, 2, 3, 4}
  RetryMax = 1
  Fallback = TRUE
  AgentWrites = {"none", "wait", "done"}
  ExitResults = {"ok", "transient", "error"}
  StopTargets = {t1, t2}
  HealLimit = 1
  MaxHeals = 1
  MaxPolls = 1
  MaxCrashes = 1
  MaxFaults = 2
INVARIANTS
  TypeOK
  ProcessesAreAttended
  OneHolder
  OnlyHealOrFaultDuplicates
  RetryBudget
  QueuedIsTracked
  OrphanHasNoRunner
PROPERTIES
  StopSticks
  Settles
CHECK_DEADLOCK FALSE
