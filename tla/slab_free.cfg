\* The kernel whose k_mem_slab_free takes the block; a node closes.
SPECIFICATION Spec
CONSTANTS
  Addrs = {a1}
  NoAddr = none
  MaxNodes = 2
  MaxInterfaces = 1
  UINT8_MAX = 6
  MaxFds = 1
  NodeCports = {0}
  Timeslicing = FALSE
  SlabTakesBlock = TRUE
  StaleFds = {99}
  PeerFaults = {"close"}
  ApCommands = {}
  MaxCreated = 1
  MaxFromNodes = 1
  MaxFromAp = 0
INVARIANTS BlocksReturned
CHECK_DEADLOCK FALSE
