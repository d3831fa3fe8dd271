\* Two workers and two requests of every kind at a time, with a fault.
SPECIFICATION Spec
CONSTANTS
  Configs = {c1}
  Workers = {w1, w2}
  Clients = {a1, a2}
  Edits = {e1}
  NoOne = NoOne
  MaxVersion = 2
  MaxTasks = 2
  MaxRetries = 0
  MaxFaults = 1
  Requests = {"create", "regenerate", "edit", "delete"}
SYMMETRY Symmetry
INVARIANTS
  OneWriter
  LockIsHeld
CHECK_DEADLOCK FALSE
