\* Blocks with bytes that must be escaped, from the host and from the threads of
\* the firmware; bytes are lost anywhere.
SPECIFICATION Spec
CONSTANTS
  Lines = {{"host"}, {"rx", "log"}}
  Payload = {"7E"}
  MaxPayload = 1
  MaxBlock = 7
  Escapes = {{}, {"hi"}}
  LongMessages = TRUE
  MaxFrames = 3
  MaxLost = 2
INVARIANTS TypeOK DamageContained SentUnlessOverflow
CHECK_DEADLOCK FALSE
