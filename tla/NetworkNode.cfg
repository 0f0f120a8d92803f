SPECIFICATION MCSpec
CONSTANTS
  r1 = r1
  r2 = r2
  r3 = r3
  NoId = NoId
  UplinkIds = {u1, u2, u3}
  SegIds = {g1, g2, g3, g4}
  RouterPorts <- ThreePorts
  Envs <- MCEnvs
  Networks = {n1, n2, n3}
  Routers = {router}
  c1 = c1
  c2 = c2
  Chassis <- TwoHosts
  Nobody = Nobody
  Confs <- MCConfs
SYMMETRY NetworkSymmetry
INVARIANTS
  
  SweepLeavesNone
  RepairRestores
PROPERTIES
  UplinkIsKept
  LiveNetworkKept
