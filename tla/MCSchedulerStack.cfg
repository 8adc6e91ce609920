SPECIFICATION Spec
CONSTANTS
  PageSize = 4
  HeaderSize = 1
  WordSize = 64
  KernelPages = 1
  ReservedPages = 7
  MemoryTotal = 28
  TaskSize = 2
  MaxNest = 1
INVARIANT StacksAreApart
\* A task may wait in kmalloc for a mutex that nobody gives back.
CHECK_DEADLOCK FALSE
