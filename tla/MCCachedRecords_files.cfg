SPECIFICATION Spec
CONSTANTS
  Record = "FileNode"
  Readers = {r1, r2}
  NoEntry = NoEntry
  MaxVersion = 2
INVARIANTS TypeOK ReadsWereStored EntriesReadable
PROPERTY FreshAgain
