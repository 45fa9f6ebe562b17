\* Nodes that refuse, close and reset connections and come back.
SPECIFICATION Spec
CONSTANTS
  Addrs = {a1, a2}
  NoAddr = none
  MaxNodes = 3
  MaxInterfaces = 2
  UINT8_MAX = 6
  MaxFds = 2
  NodeCports = {0}
  Timeslicing = FALSE
  SlabTakesBlock = FALSE
  StaleFds = {0}
  PeerFaults = {"refuse", "close", "reset", "partial"}
  ApCommands = {}
  MaxCreated = 3
  MaxFromNodes = 1
  MaxFromAp = 0
INVARIANTS NoFdLeak AnnounceOrder
CHECK_DEADLOCK FALSE
