SPECIFICATION Spec
CONSTANTS
  TxSize = 2
  Pins <- MCPins
  FirmwareFsel <- MCFsel
  FirmwarePull <- MCPull
  EarlyInput = TRUE
  StaleMatch = FALSE
  RxTrigger = 3
  RxSize = 4
  TaskString = 2
  TickString = 2
  RxWindow = 2
  RxBytes = 4
  Ticks = 1
INVARIANT PrintkIsReady
\* The boot is over, the input is used up, and the last task waits.
CHECK_DEADLOCK FALSE
