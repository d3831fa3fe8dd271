SPECIFICATION Spec
CONSTANTS
  Snis = {"panel", "a", "r"}
  PanelSnis = {"panel"}
  RealitySnis = {"a", "r"}
  Configs = {1, 2}
  Ports = {101, 102, 103}
  PublicPorts = {101}
  PanelPort = 103
  Hosts = {"panel", "a"}
  MaxWorkers = 2
  MaxBuilds = 3
  MaxFaults = 1
INVARIANTS
  
  RoutesCoverActive
  RoutesAreClaimed
CHECK_DEADLOCK FALSE
