SPECIFICATION FairSpec
CONSTANTS
  Hosts = {h1, h2}
  MAX_GREYBUS_NODES = 1
  MDNS_RESPONSE_BUFFER_SIZE = 60
  MDNS_REQUEST_BUFFER_SIZE = 21
  MDNS_PTR_NAME_SIZE = 5
  MaxFd = 2
  MaxQueue = 2
  MaxPackets = 2
  MaxRecords = 2
  MaxStarts = 2
INVARIANT TakesPackets
