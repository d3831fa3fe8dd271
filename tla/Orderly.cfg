\* No fault, no lost lease, no edit: builds fail, requests race.
SPECIFICATION Spec
CONSTANTS
  Configs = {c1}
  Workers = {w1, w2}
  Clients = {a1, a2}
  Edits = {e1}
  NoOne = NoOne
  MaxVersion = 3
  MaxTasks = 3
  MaxRetries = 1
  MaxFaults = 0
  Requests = {"create", "regenerate", "delete"}
SYMMETRY Symmetry
INVARIANTS
  ServesWhatItStores
  PendingIsQueued
CHECK_DEADLOCK FALSE
