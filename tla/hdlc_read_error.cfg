\* A read fails and the next one does not.
SPECIFICATION Spec
CONSTANTS
  Size = 3
  UartFifo = 2
  Trigger = 1
  ReadFails = TRUE
  MaxBytes = 5
INVARIANT WrittenIsProcessed
CHECK_DEADLOCK FALSE
