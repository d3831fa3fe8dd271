\* Two workers, one request at a time, retries and a fault: the versions of a config.
SPECIFICATION Spec
CONSTANTS
  Configs = {c1}
  Workers = {w1, w2}
  Clients = {a1}
  Edits = {e1}
  NoOne = NoOne
  MaxVersion = 3
  MaxTasks = 3
  MaxRetries = 1
  MaxFaults = 1
  Requests = {"create", "regenerate"}
SYMMETRY Symmetry
INVARIANTS
  TypeOK
  VersionsContiguous
  ActiveHasVersion
  CompletedHasVersion
PROPERTIES
  SnapshotsSurvive
  ImplementsVersionLog
CHECK_DEADLOCK FALSE
