\* A node closes its connection in the middle of a message.
SPECIFICATION Spec
CONSTANTS
  Addrs = {a1, a2}
  NoAddr = none
  MaxNodes = 3
  MaxInterfaces = 2
  UINT8_MAX = 6
  MaxFds = 2
  NodeCports = {0}
  Timeslicing = FALSE
  SlabTakesBlock = FALSE
  StaleFds = {99}
  PeerFaults = {"close", "partial"}
  ApCommands = {}
  MaxCreated = 2
  MaxFromNodes = 2
  MaxFromAp = 0
INVARIANTS ClosedIsClosed
CHECK_DEADLOCK FALSE
