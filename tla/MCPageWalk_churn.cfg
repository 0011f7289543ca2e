SPECIFICATION Spec
CONSTANTS
  MaxU32 = 4
  Entries = {e1, e2, e3, e4, e5}
  Changes = {"insert", "remove"}
  FirstPages = {1}
  PageSizes = {0, 1, 2, 3}
INVARIANTS TypeOK MissedAtMostRemoved RepeatsAtMostAdded FaithfulWhileQuiet
PROPERTIES WalkEnds NextPageExists
CHECK_DEADLOCK FALSE
