\* Several laps of a small ring, with a UART FIFO that can overrun and reads
\* that fail.
SPECIFICATION FairSpec
CONSTANTS
  Size = 4
  UartFifo = 3
  Trigger = 2
  ReadFails = TRUE
  MaxBytes = 10
INVARIANT RingInv
PROPERTIES StreamSpec FullRingDrains
CHECK_DEADLOCK FALSE
