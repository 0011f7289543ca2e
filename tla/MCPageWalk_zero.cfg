SPECIFICATION Spec
CONSTANTS
  MaxU32 = 5
  Entries = {e1, e2, e3}
  Changes = {}
  FirstPages = {0}
  PageSizes = {1, 2}
PROPERTY NextPageExists
CHECK_DEADLOCK FALSE
