\* The AP connects to a node and writes to it before rx has its socket pair.
SPECIFICATION Spec
CONSTANTS
  Addrs = {a1}
  NoAddr = none
  MaxNodes = 2
  MaxInterfaces = 1
  UINT8_MAX = 6
  MaxFds = 1
  NodeCports = {0}
  Timeslicing = FALSE
  SlabTakesBlock = FALSE
  StaleFds = {99}
  PeerFaults = {}
  ApCommands = {"data"}
  MaxCreated = 1
  MaxFromNodes = 1
  MaxFromAp = 1
INVARIANTS WholeMessages
CHECK_DEADLOCK FALSE
