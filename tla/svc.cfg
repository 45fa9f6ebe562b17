\* The counter wraps, two nodes come and go, the host stops and restarts.
SPECIFICATION Spec
CONSTANTS
  HeapBlocks = 4
  UINT16_MAX = 3
  AP_MAX_NODES = 2
  Types = {"PING", "DME_PEER_GET", "CONN_CREATE", "CONN_DESTROY", "VERSION", "DATA"}
  MaxInbox = 2
  MaxAsks = 2
  MaxStarts = 2
  MaxArrivals = 2
INVARIANTS TypeOK Ownership IdsDistinct ApKnowsTable StoppedIsClean NoNullCall
PROPERTIES HeapSuffices
CHECK_DEADLOCK FALSE
