SPECIFICATION FairSpec
CONSTANTS
  TxSize = 2
  Pins <- MCPins
  FirmwareFsel <- MCFsel
  FirmwarePull <- MCPull
  EarlyInput = TRUE
  StaleMatch = TRUE
  RxTrigger = 3
  RxSize = 4
  TaskString = 2
  TickString = 2
  RxWindow = 2
  RxBytes = 6
  Ticks = 1
INVARIANTS TypeOK PointersAreSet NoLostRxInterrupt TimerGoesOn
INVARIANTS OrderIsKept LossIsBounded
PROPERTIES IrqEnds PrintkReturns
\* The boot is over, the input is used up, and the last task waits.
CHECK_DEADLOCK FALSE
