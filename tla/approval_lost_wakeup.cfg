SPECIFICATION FairSpec
CONSTANTS
  accessGate = accessGate
  NoChange = NoChange
  MaxAgents = 4
  Scenes <- OneApproval
  Changes <- AccessGate
  AccessChanges <- AccessGate
  ManualChanges <- AccessGate
  Requests = {r1}
PROPERTIES
  ApprovalResumes
CHECK_DEADLOCK FALSE
