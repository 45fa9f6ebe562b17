\* A message of a node that exceeds the buffer of gb_message_hdlc_send.
SPECIFICATION Spec
CONSTANTS
  Lines = {{"host"}, {"rx", "log"}}
  Payload = {"7E"}
  MaxPayload = 1
  MaxBlock = 7
  Escapes = {{}, {"hi"}}
  LongMessages = TRUE
  MaxFrames = 3
  MaxLost = 2
INVARIANT StaysInBuffer
CHECK_DEADLOCK FALSE
