CONSTANTS
  KeyIDs = {a, b, c}
  Rate = 2
  Period = 3
  IdleTTL = 3
  SweepInterval = 2
  MaxBuckets = 2
  MaxTime = 9
SPECIFICATION Spec
INVARIANTS
  TableBounded
  LimiterExact
PROPERTIES
  VerdictIsIdeal
