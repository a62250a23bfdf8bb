CONSTANTS
  MaxBytes = 2
  Idle = 2
SPECIFICATION FairSpec
INVARIANTS EofIsHonest OnlyIdleIsCut BooksAgree NothingLeft
PROPERTIES EndedTunnelReturns
CHECK_DEADLOCK FALSE
