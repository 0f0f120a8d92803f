SPECIFICATION SyncSpec
CONSTANTS
  None = None
  n1 = n1
  n2 = n2
  p1 = p1
  p2 = p2
  p3 = p3
  g1 = g1
  L1 = L1
  L2 = L2
  Nodes = {n1, n2}
  Ports = {p1, p2, p3}
  Groups = {g1}
  Owner <- Owners
  IfNames = {"a", "b"}
  Links = {L1, L2}
  Statuses = {"Staged", "Active"}
  MaxEvents = 5
  MaxAttempts = 2
  Envs <- DeviceEnvs
  Nothing = Nothing
  P1 = P1
  P2 = P2
  D0 = D0
  N1 = N1
  N2 = N2
  Projects = {P1, P2, D0}
  Domains = {D0}
  ProjectNames = {"a", "b"}
  Networks = {N1, N2}
  Segments = {1, 2}
  Devices = {n1, n2}
  MaxTenantEvents = 4
  TenantEnvs <- WorldEnvs
  Pairs <- Together
INVARIANTS   EventsKeepDevices PositionKept ResyncMirrors TenantsFollowProjects
CHECK_DEADLOCK FALSE
