\* Links are made, resolved from two addresses, revoked and expire while versions are built; every call ends.
SPECIFICATION FairSpec
CONSTANTS
  Configs = {c1}
  MaxVersion = 1
  Callers = {r1, r2}
  Addresses = {i1, i2}
  Scopes = {"share"}
  Tokens = {t1}
  ShareLimit = 1
  LoginLimit = 1
  ShareWindow = 2
  LoginWindow = 3
  Nobody = Nobody
  AllConfigs = AllConfigs
  MaxTime = 1
  MaxRefused = 1
INVARIANTS
  RevokedNeverAnswers
  ListMatchesResolve
  AccessCounted
PROPERTIES
  CallsEnd
CHECK_DEADLOCK FALSE
