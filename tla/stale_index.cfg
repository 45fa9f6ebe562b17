\* A node closes its connection while wq connects to another.
SPECIFICATION Spec
CONSTANTS
  Addrs = {a1, a2}
  NoAddr = none
  MaxNodes = 3
  MaxInterfaces = 2
  UINT8_MAX = 6
  MaxFds = 2
  NodeCports = {0}
  Timeslicing = FALSE
  SlabTakesBlock = FALSE
  StaleFds = {99}
  PeerFaults = {"close"}
  ApCommands = {}
  MaxCreated = 3
  MaxFromNodes = 1
  MaxFromAp = 0
INVARIANTS RxRouting
CHECK_DEADLOCK FALSE
