CONSTANTS
  c1 = c1
  c2 = c2
  s = s
  Clients <- MCClients
  End = 3
  NoIp = NoIp
  Static <- MCStatic
  Tries = 4
  Probe = 1
  Reclaim = 1
  Lease = 2
SPECIFICATION Spec
INVARIANTS TypeOK   RecordIsBind 
PROPERTY LeaseKept
SYMMETRY MCSymmetry
