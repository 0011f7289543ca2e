SPECIFICATION Spec
CONSTANTS
  Sessions = {s1, s2, s3}
  Quotas = {0, 1, NoQuota}
  NoQuota = NoQuota
  MaxU64 = 31
  MaxSize = 2
  MaxUsed = 3
SYMMETRY SessionSymmetry
INVARIANTS TypeOK OvershootBounded
PROPERTY OverrunOnOldCopies
