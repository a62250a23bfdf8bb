CONSTANTS
  MaxBatch = 3
  Concurrency = 2
  BufferFactor = 1
  MaxStarts = 2
  Hand = Hand
SPECIFICATION FairSpec
INVARIANTS
  ClosedStreamIsComplete
  StoppedLoopIsQuiet
PROPERTIES
  StopReturns
