CONSTANTS
  c1 = c1
  c2 = c2
  n1 = n1
  n2 = n2
  n3 = n3
  r0 = r0
  r1 = r1
  r2 = r2
  r3 = r3
  Data <- MCEntries
  Nodes <- MCNodes
  NoData = NoData
  NoNode = NoNode
  TickSize = 2
  Every = 1
  ArmTimeout = 1
  PreAlloc = 1
  ClockSteps <- Forward
  MaxLag = 2
  MaxBack = 0
  Width = 2
  Keys <- MCKeys
  Routes <- MCRoutes
  NoRoute = NoRoute
  NoCache = NoCache
  NoAddr = NoAddr
  CacheTimeout = 2
  MaxRefs = 2
  AgeCap = 5
SPECIFICATION Spec
SYMMETRY Symmetry
INVARIANTS TypeOK CacheLinked TimersMatchEntries StaleBounded
PROPERTIES ImplementsRouteTable
