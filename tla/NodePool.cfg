SPECIFICATION PoolSpec
CONSTANTS
  r1 = r1
  r2 = r2
  r3 = r3
  n1 = n1
  n2 = n2
  n3 = n3
  w1 = w1
  w2 = w2
  big = big
  small = small
  NoRouter = NoRouter
  NoNode = NoNode
  NoPort = NoPort
  Unset = Unset
  Placeholder = "placeholder"
  Generic = "generic"
  Foreign = {}
  Classes <- MCClasses
  ClassOf <- MCClassOf
  NodeClass <- MCNodeClass
  Routers <- MCRouters
  Nodes <- MCNodes
  Parked <- NoneParked
  FaultSets <- MCFaultSets
  Workflows <- MCWorkflows
  Labels <- MCLabels
  Asks <- MCAsks
  Requests <- MCRequests
  Scopes <- MCScopes
  Nics <- MCNics
  NoNic = "none"
  Switches <- MCSwitches
  NoSwitch = "none"
  Cablings <- MCCablings
  CategoryOf <- MCCategoryOf
  RackOf <- MCRackOf
  RankOf <- MCRankOf
  Exclusive = TRUE
SYMMETRY WorkflowSymmetry
INVARIANTS
  CommittedRouterOwnsNode
  NodesAreReturned
  AvailableIsDescribed
  ServerIsDeployable
PROPERTIES
  ClearsOnlyOwnStamps
  EnrollKeepsPromise
  SwitchIdKept
