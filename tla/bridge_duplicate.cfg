SPECIFICATION Spec
CONSTANTS
  invite = invite
  m1 = m1
  m2 = m2
  n1 = n1
  n2 = n2
  n3 = n3
  t1 = t1
  t2 = t2
  Agendas <- Scenes
  Invite = invite
  Handlers = {h1, h2}
  NoHandler = NoHandler
  Notes = {n1, n2, n3}
  NoteTicket <- TwoTickets
  NoTicket = NoTicket
  PollLimit = 1
  ClearAt = 1
  MaxFaults = 0
  MaxTimeouts = 0
  MaxCrashes = 1
INVARIANTS
  DeliveredOnce
CHECK_DEADLOCK FALSE
