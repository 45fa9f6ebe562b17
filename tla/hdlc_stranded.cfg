\* The last bytes of a frame cross the end of the storage.
SPECIFICATION FairSpec
CONSTANTS
  Size = 3
  UartFifo = 2
  Trigger = 1
  ReadFails = FALSE
  MaxBytes = 5
PROPERTY AcceptedIsProcessed
CHECK_DEADLOCK FALSE
