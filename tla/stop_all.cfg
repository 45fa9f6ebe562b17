\* Two nodes are known when the AP stops the SVC.
SPECIFICATION Spec
CONSTANTS
  Addrs = {a1, a2}
  NoAddr = none
  MaxNodes = 2
  MaxInterfaces = 2
  UINT8_MAX = 6
  MaxFds = 2
  NodeCports = {0}
  Timeslicing = FALSE
  SlabTakesBlock = FALSE
  StaleFds = {99}
  PeerFaults = {}
  ApCommands = {"stop"}
  MaxCreated = 2
  MaxFromNodes = 0
  MaxFromAp = 0
INVARIANTS StopDestroysAll
CHECK_DEADLOCK FALSE
