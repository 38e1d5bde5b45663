SPECIFICATION FairSpec
CONSTANTS
  Acs = {a1, a2}
  NoAc = NoAc
  Heartbeat = TRUE
  GiveUp = 6
  PyEvery = 3
  LcpWait = 3
  AuthWait = 3
  MaxFails = 1
INVARIANTS TypeOK HalvesAgree
PROPERTIES Redials RedialsInTime EveryAcTried
