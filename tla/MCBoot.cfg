SPECIFICATION FairSpec
CONSTANTS
  Ascii <- MCAscii
  Keys <- MCKeys
  Lists <- MCLists
  Entries = 12
  SectionSize = 2
  KernelEnd = 2
  PeripheralBase = 5
  PeripheralEnd = 7
  QuadA7 = 7
  Half = 10
INVARIANTS TypeOK LastCounts ReadsWholeValue MmuIsReady
PROPERTY Boots
\* The kernel is up, or stands still for ever.
CHECK_DEADLOCK FALSE
