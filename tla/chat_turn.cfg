SPECIFICATION FairSpec
CONSTANTS
  t1 = t1
  t2 = t2
  work = work
  more = more
  chat = chat
  cancel = cancel
  correct = correct
  Turns = {t1, t2}
  MaxAttempts = 2
  MaxCommands = 2
  Scenes <- AllScenes
  Silence = Silence
  Kind <- Words
  FollowUps = {cancel}
INVARIANTS
  ClaimsAreBacked
  GivesUpWithoutTicket
  ReportedIsAssigned
PROPERTIES
  TurnsEnd
CHECK_DEADLOCK FALSE
