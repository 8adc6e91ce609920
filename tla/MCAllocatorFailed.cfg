SPECIFICATION FairSpec
CONSTANTS
  PageSize = 2
  HeaderSize = 1
  WordSize = 64
  KernelPages = 1
  ReservedPages = 5
  MemoryTotal = 12
  MapPages = 12
  RamPages = 6
  Task = {t1, t2}
  Sizes = {0, 1}
  Types = {"KERNEL_MEMORY"}
PROPERTY FailureIsReported
\* After a failed kmalloc memory_mutex stays taken and every task waits.
CHECK_DEADLOCK FALSE
