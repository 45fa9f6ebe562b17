\* A node resets its connection while the AP writes to it.
SPECIFICATION Spec
CONSTANTS
  Addrs = {a1, a2}
  NoAddr = none
  MaxNodes = 2
  MaxInterfaces = 2
  UINT8_MAX = 6
  MaxFds = 2
  NodeCports = {0}
  Timeslicing = FALSE
  SlabTakesBlock = FALSE
  StaleFds = {99}
  PeerFaults = {"reset"}
  ApCommands = {"data"}
  MaxCreated = 1
  MaxFromNodes = 0
  MaxFromAp = 1
INVARIANTS WriteReturns
CHECK_DEADLOCK FALSE
