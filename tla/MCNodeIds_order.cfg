SPECIFICATION Spec
CONSTANTS
  Threads = {t1, t2}
  NoId = NoId
  TicksPerMs = 1
  Seeds = {0, 1}
  MaxCtr = 1
  FieldChoices <- MCFieldChoices
  MaxClock = 2
  MaxBuilds = 3
  MaxBoots = 2
SYMMETRY ThreadSymmetry
INVARIANT IdOrderIsCreationOrder
CHECK_DEADLOCK FALSE
