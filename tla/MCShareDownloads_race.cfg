SPECIFICATION Spec
CONSTANTS
  Sessions = {s1, s2, s3}
  Links <- MCLinks
  NoLimit = NoLimit
  NoExpiry = NoExpiry
  MaxClock = 2
  MaxCount = 5
SYMMETRY SessionSymmetry
INVARIANTS TypeOK OvershootBounded
PROPERTIES RevivedByClockOnly RefusalIsRight
CHECK_DEADLOCK FALSE
