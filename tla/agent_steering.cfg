SPECIFICATION FairSpec
CONSTANTS
  a1 = a1
  a2 = a2
  Agents = {a1, a2}
  Notes = {1, 2, 3}
  Casts <- Companies
  InboxLimit = 1
INVARIANTS
  DeliveredIsInInbox
PROPERTIES
  UpdatesArrive
CHECK_DEADLOCK FALSE
