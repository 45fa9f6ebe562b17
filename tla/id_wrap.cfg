\* The counter of ids wraps while a node stays.
SPECIFICATION Spec
CONSTANTS
  Addrs = {a1, a2}
  NoAddr = none
  MaxNodes = 3
  MaxInterfaces = 2
  UINT8_MAX = 4
  MaxFds = 2
  NodeCports = {0}
  Timeslicing = FALSE
  SlabTakesBlock = FALSE
  StaleFds = {99}
  PeerFaults = {"close"}
  ApCommands = {}
  MaxCreated = 3
  MaxFromNodes = 0
  MaxFromAp = 0
INVARIANTS FindsInterfaces
CHECK_DEADLOCK FALSE
