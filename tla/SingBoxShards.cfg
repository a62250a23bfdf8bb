CONSTANTS
  Keys = {1, 2, 3}
  NumShards = 2
  ShardOf <- TwoShards
  Segment <- TwoSegments
CHECK_DEADLOCK FALSE
SPECIFICATION SpecPublished
INVARIANTS
  PortMapServed
  PortsDistinct
  SuccessServesTarget
  FailureRestores
  StopIsFinal
PROPERTIES
  KeepsContract
