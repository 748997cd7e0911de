CONSTANTS
  Batch = {b1, b2, b3}
  r1 = r1
  r2 = r2
  Custom <- MCCustom
  Line <- MCLine
  Answer <- MCAnswer
  Ttl = 1
  MaxBatchContexts = 2
  None = None
  MaxTime = 2
  MaxMade = 3
SPECIFICATION WalkSpec
SYMMETRY Symmetry
INVARIANTS
  KeptUntilExpiry
  NeverStale
  LinesArePreserved
  RetrievalsResolved
CHECK_DEADLOCK FALSE
