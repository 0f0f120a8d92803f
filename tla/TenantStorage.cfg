\* Two projects, one volume type, two backends, up to four events.
SPECIFICATION StorageSpec
CONSTANTS
  p1 = p1
  p2 = p2
  t1 = t1
  d1 = d1
  d2 = d2
  NoPool = NoPool
  Projects = {p1, p2}
  VolumeTypes = {t1}
  Disks = {d1, d2}
  Backends = 2
  MaxEvents = 4
  NodesOf <- MCNodesOf
  OwnerOf <- MCOwnerOf
  TypeOf <- MCTypeOf
  Envs <- MCEnvs
INVARIANTS
  SvmFollowsTag
  GrantedVolumesKept
  NetworkFollowsSvm
  
PROPERTIES
  ImplementsStore
  
CHECK_DEADLOCK FALSE
