\* The AP stops the SVC while discovery adds a node.
SPECIFICATION Spec
CONSTANTS
  Addrs = {a1}
  NoAddr = none
  MaxNodes = 2
  MaxInterfaces = 1
  UINT8_MAX = 6
  MaxFds = 1
  NodeCports = {0}
  Timeslicing = FALSE
  SlabTakesBlock = FALSE
  StaleFds = {99}
  PeerFaults = {}
  ApCommands = {"stop"}
  MaxCreated = 1
  MaxFromNodes = 1
  MaxFromAp = 0
INVARIANTS NothingLeftOver
CHECK_DEADLOCK FALSE
