SPECIFICATION Spec
CONSTANTS
  Handlers = {h1, h2}
  Totals = {0, 1, 2}
  Gone = Gone
  NoFile = NoFile
  MaxCrashes = 1
INVARIANTS TypeOK AssembledWhole ProgressInRange
PROPERTIES EventuallyAssembled WholeUploadSpec
CHECK_DEADLOCK FALSE
