CONSTANTS
  k1 = k1
  k2 = k2
  s1 = s1
  p1 = p1
  p2 = p2
  Keys = {k1, k2}
  Ports = {p1, p2}
  Subs = {s1}
  Manual = Manual
  Faults = {"db", "reload", "reject", "restart", "lapse"}
  MaxFaults = 1
  MaxAside = 1
  NoRow = NoRow
  NoKey = NoKey
  Gone = Gone
SPECIFICATION Spec
SYMMETRY Symmetry
INVARIANTS
  CommitMatchesRuntime
  OwnedKeyNotReclaimed
  RowsReachTheirNodes
  NoGhostNode
  ActiveOnOwnEvidence
CHECK_DEADLOCK FALSE
