\* Everything that was begun ends, with a fault and a retry.
SPECIFICATION FairSpec
CONSTANTS
  Configs = {c1}
  Workers = {w1, w2}
  Clients = {a1}
  Edits = {e1}
  NoOne = NoOne
  MaxVersion = 2
  MaxTasks = 2
  MaxRetries = 1
  MaxFaults = 1
  Requests = {"create", "regenerate"}
PROPERTIES
  TasksSettle
  QueuedLeadsOutOfPending
  RequestsEnd
CHECK_DEADLOCK FALSE
