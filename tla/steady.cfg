\* Nodes that keep their connections; the AP connects, disconnects and sends.
SPECIFICATION FairSpec
CONSTANTS
  Addrs = {a1, a2}
  NoAddr = none
  MaxNodes = 3
  MaxInterfaces = 2
  UINT8_MAX = 4
  MaxFds = 2
  NodeCports = {0}
  Timeslicing = TRUE
  SlabTakesBlock = FALSE
  StaleFds = {99}
  PeerFaults = {"refuse", "partial"}
  ApCommands = {"data", "destroy"}
  MaxCreated = 2
  MaxFromNodes = 1
  MaxFromAp = 1
INVARIANTS TypeOK SockCoherent RxRouting TxRouting NoFault
PROPERTIES NodeHeard
CHECK_DEADLOCK FALSE
