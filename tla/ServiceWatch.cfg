SPECIFICATION Spec
CONSTANTS
  Chunk = 4
  Settle = 1
  MaxWait = 5
  SuccessTtl = 3
  FailureTtl = 2
  MaxProbe = 2
  MaxTime = 11
  MaxStatusTime = 7
  MaxEvents = 3
  Readers = {r1, r2}
SYMMETRY Symmetry
INVARIANTS
  WatchTypeOK
  FailureEndsWait
  WaitEndsInTime
PROPERTIES
  ReadyMeansUp
  OnlineIsRecent
  OfflineIsRecent
CHECK_DEADLOCK FALSE
