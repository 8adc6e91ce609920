-------------------------------- MODULE Pages -------------------------------
(***************************************************************************)
(* The page arithmetic of kernel/mm/memory.c: how many pages a request     *)
(* takes, which pages a memory type may use, and which runs of pages       *)
(* find_free_memory accepts.  A page is its number; the bitmap memory_map  *)
(* is the set of the pages whose bit is set.                               *)
(***************************************************************************)
EXTENDS Integers

CONSTANTS
  PageSize,        \* PAGE_SIZE
  HeaderSize,      \* sizeof(memory_alloc_t)
  WordSize,        \* 2^32, where uint32_t wraps around
  KernelPages,     \* kernel_pages: pages of the kernel image and its stacks
  ReservedPages,   \* RESERVED_KERNEL_PAGES
  MemoryTotal      \* memory_total: the bytes of RAM the boot loader reports

ASSUME PagesAssumption ==
  /\ PageSize \in Nat \ {0}
  /\ HeaderSize \in Nat \ {0}
  /\ WordSize \in Nat \ {0}
  /\ KernelPages \in Nat \ {0}
  /\ ReservedPages \in Nat /\ KernelPages <= ReservedPages
  /\ MemoryTotal \in Nat /\ ReservedPages <= MemoryTotal

MemoryType == {"KERNEL_MEMORY", "USER_MEMORY"}

Page == 0 .. MemoryTotal - 1    \* every page number the scan can reach

(* A faulty NumPages: the pages the request fills, without the last one. *)
NumPagesRoundedDown(size) == ((size + HeaderSize) % WordSize) \div PageSize

(* num_pages of kmalloc, in uint32_t arithmetic. *)
NumPages(size) == ((size + HeaderSize) % WordSize) \div PageSize + 1

(* A faulty End: that of kernel memory is a number of bytes, too. *)
EndInBytes(type) ==
  IF type = "KERNEL_MEMORY" THEN ReservedPages * PageSize ELSE MemoryTotal

(* start and end of kmalloc.  The end of user memory is a number of bytes. *)
First(type) == IF type = "KERNEL_MEMORY" THEN 0 ELSE ReservedPages
End(type) == IF type = "KERNEL_MEMORY" THEN ReservedPages ELSE MemoryTotal

PagesOf(page, n) == page .. page + n - 1

IsFree(map, page, n) == PagesOf(page, n) \cap map = {}

(* The pages where the loops of find_free_memory would stop. *)
Candidates(map, n, start, end) ==
  {i \in start .. end - 1 : i + n < end /\ IsFree(map, i, n)}

(* A faulty FoundAt: the loop runs downwards. *)
FoundLast(i, map, n, start, end) ==
  /\ i \in Candidates(map, n, start, end)
  /\ \A k \in Candidates(map, n, start, end) : i >= k

(* find_free_memory returns i: the loop takes the lowest candidate. *)
FoundAt(i, map, n, start, end) ==
  /\ i \in Candidates(map, n, start, end)
  /\ \A k \in Candidates(map, n, start, end) : i <= k
=============================================================================
