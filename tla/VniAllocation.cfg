SPECIFICATION FairSpec
CONSTANTS
  Routers = {r1, r2}
  Vnis <- MCVnis
  RangeSets <- MCRangeSets
  AutoVni = AutoVni
  NoVni = NoVni
  NoRouter = NoRouter
  MaxClock = 2
INVARIANTS
  VniOwnership
PROPERTIES
  QuarantineOrder
  ExhaustionIsReal
  EveryCreateDecided
