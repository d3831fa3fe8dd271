\* The four profiles over three versions, with and without a public port and files of the profile.
SPECIFICATION Spec
CONSTANTS
  Ports = {443, 8443}
  PanelPort = 8000
  PublicHost = "vpn"
  Dests <- MCDests
  Paths = {"/a", "/b"}
  Services = {"Api", "Drive"}
  GrpcSnis = {"ya.ru", "vk.com"}
  ShareHosts = {"", "hy"}
  PublicPorts = {0, 443}
  MaxVersion = 3
  MaxTicked = 1
  MaxChanges = 2
INVARIANTS
  DeliveryTypeOK
  LinksConnect
  UnrotatedKeepsLinks
  RotationRevokes
  OwnCertCoversSni
  ProbeActsAsClient
CHECK_DEADLOCK FALSE
