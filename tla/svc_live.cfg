\* As svc, with one node: every request is answered, every START leads to a session.
SPECIFICATION FairSpec
CONSTANTS
  HeapBlocks = 4
  UINT16_MAX = 3
  AP_MAX_NODES = 2
  Types = {"PING", "DME_PEER_GET", "CONN_CREATE", "CONN_DESTROY", "VERSION", "DATA"}
  MaxInbox = 2
  MaxAsks = 2
  MaxStarts = 2
  MaxArrivals = 1
PROPERTIES Answered Handshake
CHECK_DEADLOCK FALSE
