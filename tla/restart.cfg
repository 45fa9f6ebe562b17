\* The host stops, starts and reboots while nodes fail and messages flow.
SPECIFICATION Spec
CONSTANTS
  Addrs = {a1, a2}
  NoAddr = none
  MaxNodes = 2
  MaxInterfaces = 2
  UINT8_MAX = 5
  MaxFds = 2
  NodeCports = {0}
  Timeslicing = FALSE
  SlabTakesBlock = FALSE
  StaleFds = {0}
  PeerFaults = {"close", "partial"}
  ApCommands = {"data", "destroy", "stop", "reboot"}
  MaxCreated = 2
  MaxFromNodes = 1
  MaxFromAp = 1
INVARIANTS NoFdLeak SvcAtCportZero
CHECK_DEADLOCK FALSE
