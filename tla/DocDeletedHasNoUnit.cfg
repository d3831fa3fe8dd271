SPECIFICATION Spec
CONSTANTS
  Configs = {c1}
  Workers = {w1}
  Clients = {a1}
  Edits = {e1}
  NoOne = NoOne
  MaxVersion = 1
  MaxTasks = 1
  MaxRetries = 0
  MaxFaults = 0
  Requests = {"create", "delete"}
SYMMETRY Symmetry
INVARIANTS
  DeletedHasNoUnit
CHECK_DEADLOCK FALSE
