SPECIFICATION Spec
CONSTANTS
  Record = "User"
  Readers = {r1, r2}
  NoEntry = NoEntry
  MaxVersion = 2
INVARIANT EntriesReadable
