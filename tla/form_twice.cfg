SPECIFICATION Spec
CONSTANTS
  a = a
  b = b
  d = d
  loop = loop
  Jobs = {a, b, d, loop}
  Loop = loop
  Scenes <- SubmittedTwice
  MaxObjects = 2
  FullEvery = 2
  MaxActive = 1
INVARIANT OneSubmit
CHECK_DEADLOCK FALSE
