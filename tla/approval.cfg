SPECIFICATION FairSupSpec
CONSTANTS
  accessGate = accessGate
  changeGate = changeGate
  post = post
  Loop = Loop
  NoChange = NoChange
  MaxAgents = 3
  Scenes <- AllScenes
  Changes <- BothGates
  AccessChanges <- AccessGate
  ManualChanges <- AccessGate
  Requests = {r1}
  Audits = {Loop, post}
  Operators = {o1}
  MaxRecovery = 1
INVARIANTS
  SupervisionTypeOK
  OneAgentAtWork
  AccessFollowsGate
  ReplacementsBounded
  FinalizedStays
PROPERTIES
  ApprovalOfWaitingAgentResumes
  FreedWhenDone
CHECK_DEADLOCK FALSE
