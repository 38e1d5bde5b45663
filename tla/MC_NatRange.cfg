CONSTANTS
  s1 = s1
  s2 = s2
  n1 = n1
  n2 = n2
  n3 = n3
  h1 = h1
  h2 = h2
  Data <- MCSessions
  Nodes <- MCNodes
  NoData = NoData
  NoNode = NoNode
  NoSession = NoSession
  NoHost = NoHost
  TickSize = 2
  Every = 2
  ArmTimeout = 2
  PreAlloc = 1
  ClockSteps <- Forward
  MaxLag = 3
  MaxBack = 0
  Protocols <- OneProtocol
  Flows <- TcpFlows
  IdMin = 1
  IdMax = 2
  ByteBase = 2
  Ranges <- MCRanges
  Rules <- NoRanges
  MinTimeout = 2
  Timeout = 4
  AgeCap = 8
  MallocFails = FALSE
SPECIFICATION Spec
SYMMETRY Symmetry
PROPERTIES NewIdInRange
