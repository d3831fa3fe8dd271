SPECIFICATION Spec
CONSTANTS
  Snis = {"panel", "a", "r"}
  PanelSnis = {"panel"}
  RealitySnis = {"a", "r"}
  Configs = {1, 2}
  Ports = {101, 102}
  PublicPorts = {}
  PanelPort = 103
  Hosts = {"panel", "a"}
  MaxWorkers = 1
  MaxBuilds = 3
  MaxFaults = 0
INVARIANTS
  LastSyncWins
CHECK_DEADLOCK FALSE
