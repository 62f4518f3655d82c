SPECIFICATION FairSpec
CONSTANTS
  a = a
  b = b
  d = d
  loop = loop
  Jobs = {a, b, d, loop}
  Loop = loop
  Scenes <- AllScenes
  MaxObjects = 2
  FullEvery = 2
  MaxActive = 1
INVARIANTS
  TypeOK
  WaitRemembersWork
  OneAgentUnlessRaced
  ClosedStaysClosed
  OneTicketPerObject
  AutoCapacityKept
PROPERTIES
  ObjectsArrive
  EndsArrive
CHECK_DEADLOCK FALSE
