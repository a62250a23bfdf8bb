CONSTANTS
  Keys = {1, 2, 3}
  NumShards = 1
  ShardOf <- OneShard
  Segment <- ShortSegment
CHECK_DEADLOCK FALSE
SPECIFICATION FairSpec
PROPERTIES
  CrashedShardRecovers
