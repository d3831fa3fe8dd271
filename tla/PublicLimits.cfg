\* Calls of one address to both endpoints over two windows, no link exists.
SPECIFICATION Spec
CONSTANTS
  Configs = {}
  MaxVersion = 0
  Callers = {r1, r2, r3}
  Addresses = {i1}
  Scopes = {"share", "login"}
  Tokens = {t1}
  ShareLimit = 2
  LoginLimit = 1
  ShareWindow = 2
  LoginWindow = 3
  Nobody = Nobody
  AllConfigs = AllConfigs
  MaxTime = 2
  MaxRefused = 1
SYMMETRY Symmetry
INVARIANTS
  PublicTypeOK
  ServedExactly
  RowHeldByCall
CHECK_DEADLOCK FALSE
