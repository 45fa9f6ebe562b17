\* A node closes its connection while discovery adds another, with time slicing.
SPECIFICATION Spec
CONSTANTS
  Addrs = {a1, a2}
  NoAddr = none
  MaxNodes = 3
  MaxInterfaces = 2
  UINT8_MAX = 6
  MaxFds = 2
  NodeCports = {0}
  Timeslicing = TRUE
  SlabTakesBlock = FALSE
  StaleFds = {99}
  PeerFaults = {"close"}
  ApCommands = {}
  MaxCreated = 2
  MaxFromNodes = 1
  MaxFromAp = 0
INVARIANTS FindsInterfaces
CHECK_DEADLOCK FALSE
