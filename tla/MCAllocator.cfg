SPECIFICATION FairSpec
CONSTANTS
  PageSize = 2
  HeaderSize = 1
  WordSize = 64
  KernelPages = 1
  ReservedPages = 4
  MemoryTotal = 12
  MapPages = 8
  RamPages = 6
  Task = {t1, t2}
  Sizes = {0, 1}
  Types = {"KERNEL_MEMORY", "USER_MEMORY"}
INVARIANTS TypeOK NoOverlap MapExact HeaderIntact MutexHeldOnce StaleHeaderIsFree RamIsUsedFirst
PROPERTIES MutexComesBack
\* After a failed kmalloc memory_mutex stays taken, panic never returns,
\* and nothing is known of a kernel that has overwritten other variables.
CHECK_DEADLOCK FALSE
