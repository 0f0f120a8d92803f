SPECIFICATION FairSpec
CONSTANTS
  p1 = p1
  p2 = p2
  p3 = p3
  s1 = s1
  s2 = s2
  netA = netA
  netB = netB
  prov = prov
  x1 = x1
  x2 = x2
  h1 = h1
  h2 = h2
  NoSeg = 0
  NoPort = NoPort
  NoNet = NoNet
  SegIds = {1, 2, 3, 4, 5, 6}
  Ports <- MCPorts
  Subports <- MCSubports
  Nets <- MCNets
  Provisioning <- MCProvisioning
  Physnets <- MCPhysnets
  NetOf <- MCNetOf
  PhysOf <- MCPhysOf
  HostOf <- MCHostOf
  StaticSegments <- MCStatic
  Envs <- MCEnvs
INVARIANTS
  
  DeleteReleasesSegment
  FabricInSync
PROPERTIES
  ReleasedOnlyUnused
  
