CONSTANTS
  s1 = s1
  s2 = s2
  n1 = n1
  n2 = n2
  n3 = n3
  h1 = h1
  h2 = h2
  Data <- MCSessions
  Nodes <- MCNodes
  NoData = NoData
  NoNode = NoNode
  NoSession = NoSession
  NoHost = NoHost
  TickSize = 2
  Every = 1
  ArmTimeout = 1
  PreAlloc = 1
  ClockSteps <- MCSteps
  MaxLag = 2
  MaxBack = 1
  Protocols <- MCProtocols
  Flows <- MCFlows
  IdMin = 1
  IdMax = 2
  ByteBase = 2
  Ranges <- MCRanges
  Rules <- MCRules
  MinTimeout = 1
  Timeout = 2
  AgeCap = 6
  MallocFails = TRUE
SPECIFICATION Spec
SYMMETRY Symmetry
INVARIANTS TypeOK SessionsLinked TimersMatchSessions IdsConserved ReplyReachesSender IdleBounded
PROPERTIES ImplementsNatTable
