\* The AP writes to a node that has closed while rx removes another.
SPECIFICATION Spec
CONSTANTS
  Addrs = {a1, a2}
  NoAddr = none
  MaxNodes = 3
  MaxInterfaces = 2
  UINT8_MAX = 6
  MaxFds = 2
  NodeCports = {0}
  Timeslicing = FALSE
  SlabTakesBlock = FALSE
  StaleFds = {99}
  PeerFaults = {"close"}
  ApCommands = {"data"}
  MaxCreated = 2
  MaxFromNodes = 0
  MaxFromAp = 1
INVARIANTS FindsInterfaces
CHECK_DEADLOCK FALSE
