SPECIFICATION Spec
CONSTANTS
  Threads = {t1, t2}
  NoId = NoId
  TicksPerMs = 2
  Seeds = {0, 1}
  MaxCtr = 1
  FieldChoices <- MCFieldChoices
  MaxClock = 2
  MaxBuilds = 3
  MaxBoots = 2
SYMMETRY ThreadSymmetry
INVARIANTS TypeOK UniqueIds IdsFollowRealTime InversionsOverlap
PROPERTY IdSourceSpec
CHECK_DEADLOCK FALSE
