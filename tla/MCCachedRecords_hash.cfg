SPECIFICATION Spec
CONSTANTS
  Record = "ShareLink"
  Readers = {r1, r2}
  NoEntry = NoEntry
  MaxVersion = 2
INVARIANT ProtectionKept
