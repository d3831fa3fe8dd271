SPECIFICATION FairSpec
CONSTANTS
  Limit = 2
  MaxConfigs = 4
  MaxDeletes = 1
INVARIANTS
  WalkTypeOK
  MissedByMovesOnly
  QueuedTwiceByCreatesOnly
  StrandedAtMostOne
PROPERTIES
  WalkEnds
CHECK_DEADLOCK FALSE
