SPECIFICATION Spec
CONSTANTS
  d = d
  e = e
  f = f
  g = g
  FileIds <- MCFileIds
  Directories <- MCDirectories
  Root = Root
  Names = {"a","b"}
  Unused = Unused
  Purged = Purged
  Nothing = Nothing
  Databases <- MCDatabases
  MaxChanges = 2
  MaxCrashes = 1
INVARIANTS TypeOK NamesUnique Rooted StaleIsExplained RebuildHeals
PROPERTIES StraysAreRestored TerminalIsFinal TaskEnds
CHECK_DEADLOCK FALSE
