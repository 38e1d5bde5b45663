CONSTANTS
  e1 = e1
  e2 = e2
  n1 = n1
  n2 = n2
  n3 = n3
  Data <- MCData
  Nodes <- MCNodes
  NoData = NoData
  NoNode = NoNode
  TickSize = 2
  Every = 2
  ArmTimeout = 2
  PreAlloc = 1
  ClockSteps <- MCSteps
  MaxLag = 5
  AgeCap = 7
  MaxBack = 0
  IdleTimeout = 2
SPECIFICATION FairSpec
INVARIANTS TypeOK NodesAccounted PoolBounded TimersMatchEvents IdleBounded
PROPERTIES ClosedOnlyWhenIdle IdleIsClosed ImplementsTimerService
