CONSTANTS
  m1 = m1
  m2 = m2
  m3 = m3
  s1 = s1
  s2 = s2
  f1 = f1
  f2 = f2
  d = d
  Mbufs <- MCMbufs
  NoMbuf = NoMbuf
  PreAlloc = 2
  MaxMbufs = 3
  Fds <- MCFds
  Backends <- MCBoth
  NoFd = NoFd
  Slots <- MCSlots
  NoSlot = NoSlot
  Flows <- MCFlows
  NoFlow = NoFlow
  In <- MCIn
  Out <- MCOut
  Self <- MCSelf
  Firsts <- MCFirsts
  SlotOf <- MCSlotOf
  WAN = "WAN"
  ReadNum = 2
SPECIFICATION Spec
INVARIANT PolledAsAdded
