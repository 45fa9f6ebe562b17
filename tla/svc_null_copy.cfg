\* The payload is copied before the result of gb_message_alloc is tested.
SPECIFICATION Spec
CONSTANTS
  HeapBlocks = 4
  UINT16_MAX = 3
  AP_MAX_NODES = 2
  Types = {"PING", "DME_PEER_GET", "CONN_CREATE", "CONN_DESTROY", "VERSION", "DATA"}
  MaxInbox = 1
  MaxAsks = 2
  MaxStarts = 2
  MaxArrivals = 2
INVARIANTS NullInCaseOfError
CHECK_DEADLOCK FALSE
