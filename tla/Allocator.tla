------------------------------ MODULE Allocator -----------------------------
(***************************************************************************)
(* The physical page allocator, kernel/mm/memory.c: kmalloc and kfree as   *)
(* called by several tasks, one action per step another task can observe.  *)
(* memory_mutex is the lock of module Lock, which Mutex implements.        *)
(***************************************************************************)
EXTENDS Pages

CONSTANTS
  Task,       \* the callers of kmalloc and kfree
  Sizes,      \* the sizes they ask for, in bytes
  Types,      \* the memory types they ask for
  MapPages,   \* bits in memory_map: MEM_REGION * 32
  RamPages    \* pages of RAM the translation table maps

(* memory_map has a bit for every page of RAM, and a page with a bit has   *)
(* an address that does not wrap around.                                   *)
ASSUME AllocatorAssumption ==
  /\ Sizes \subseteq Nat
  /\ Types \subseteq MemoryType
  /\ RamPages \in Nat /\ MapPages \in Nat
  /\ ReservedPages <= RamPages /\ RamPages <= MapPages
  /\ RamPages * PageSize <= MemoryTotal
  /\ MapPages * PageSize <= WordSize

Bit == 0 .. MapPages - 1    \* the pages that have a bit in memory_map
Ram == 0 .. RamPages - 1

(* memory.c tests the bits of pages behind memory_map as well: what it     *)
(* finds there are other variables, whose values are not modelled.         *)
BehindMap == SUBSET (MapPages .. MemoryTotal - 1)

VARIABLES
  memory_map,     \* the pages whose bit is set
  memory_mutex,   \* 0 free, 1 taken
  header,         \* header[i]: pages recorded behind a MEMORY_MAGIC at page i,
                  \* 0 when there is no magic
  held,           \* blocks <<page, pages>> kmalloc returned and nobody freed
  failed,         \* some kmalloc returned NULL for want of memory
  lost,           \* a write went behind memory_map or outside RAM: what
                  \* the kernel does from there on its code does not say
  pc,             \* pc[t]: where task t is
  type, num, page \* its type, num_pages and start_page

vars == <<memory_map, memory_mutex, header, held, failed, lost, pc, type, num,
          page>>

locals == <<type, num, page>>

Label == {"idle", "m_acquire", "m_find", "m_mark", "m_release", "m_header",
          "f_acquire", "f_clear", "f_release", "panic"}

Goto(t, l) == pc' = [pc EXCEPT ![t] = l]

NoPage == 0   \* the kernel image starts there: no block does

-----------------------------------------------------------------------------
(* Faulty variants of definitions below, one for each property: the runs   *)
(* are shown to notice them.                                               *)
AcquireDoesNotWait(t, from, to) ==
  /\ pc[t] = from
  /\ memory_mutex' = 1
  /\ Goto(t, to)
  /\ UNCHANGED <<memory_map, header, held, failed, lost, locals>>

ReleaseOnlyMemory(t) ==
  UNCHANGED <<memory_mutex, memory_map, header, held, failed, lost>>

HeaderBeforeMemset(t) ==
  /\ pc[t] = "m_header"
  /\ header' = [i \in Ram |->
                  IF i \in PagesOf(page[t], num[t]) THEN 0 ELSE header[i]]
  /\ held' = held \cup {<<page[t], num[t]>>}
  /\ Goto(t, "idle")
  /\ UNCHANGED <<memory_map, memory_mutex, failed, lost, locals>>

KfreeDoesNotLock(t, i) ==
  /\ pc[t] = "idle"
  /\ header[i] # 0
  /\ page' = [page EXCEPT ![t] = i]
  /\ num' = [num EXCEPT ![t] = header[i]]
  /\ held' = {b \in held : b[1] # i}
  /\ Goto(t, "f_clear")
  /\ UNCHANGED <<memory_map, memory_mutex, header, failed, lost, type>>

ClearsTooFew(t) ==
  /\ pc[t] = "f_clear"
  /\ memory_map' = memory_map \ PagesOf(page[t], header[page[t]] - 1)
  /\ Goto(t, "f_release")
  /\ UNCHANGED <<memory_mutex, header, held, failed, lost, locals>>

-----------------------------------------------------------------------------
(* What bss and memory_init leave: the pages of the kernel image are used. *)
Init ==
  /\ memory_map = PagesOf(0, KernelPages)
  /\ memory_mutex = 0
  /\ header = [i \in Ram |-> 0]
  /\ held = {}
  /\ failed = FALSE
  /\ lost = FALSE
  /\ pc = [t \in Task |-> "idle"]
  /\ type = [t \in Task |-> "KERNEL_MEMORY"]
  /\ num = [t \in Task |-> 0]
  /\ page = [t \in Task |-> NoPage]

(* A call returns: its locals are gone. *)
Return(t) ==
  /\ Goto(t, "idle")
  /\ type' = [type EXCEPT ![t] = "KERNEL_MEMORY"]
  /\ num' = [num EXCEPT ![t] = 0]
  /\ page' = [page EXCEPT ![t] = NoPage]

-----------------------------------------------------------------------------
(* kmalloc is called.  (An unknown type returns NULL and changes nothing.) *)
Kmalloc(t, ty, size) ==
  /\ pc[t] = "idle"
  /\ type' = [type EXCEPT ![t] = ty]
  /\ num' = [num EXCEPT ![t] = NumPages(size)]
  /\ Goto(t, "m_acquire")
  /\ UNCHANGED <<memory_map, memory_mutex, header, held, failed, lost, page>>

(* mutex_acquire(&memory_mutex), in kmalloc and in kfree. *)
Acquire(t, from, to) ==
  /\ pc[t] = from
  /\ memory_mutex = 0
  /\ memory_mutex' = 1
  /\ Goto(t, to)
  /\ UNCHANGED <<memory_map, header, held, failed, lost, locals>>

(* mutex_release(&memory_mutex) *)
Release(t) ==
  /\ memory_mutex' = 0
  /\ UNCHANGED <<memory_map, header, held, failed, lost>>

(* find_free_memory stops at page i. *)
Find(t) ==
  /\ pc[t] = "m_find"
  /\ \E behind \in BehindMap, i \in First(type[t]) .. End(type[t]) - 1 :
       /\ FoundAt(i, memory_map \cup behind, num[t], First(type[t]), End(type[t]))
       /\ page' = [page EXCEPT ![t] = i]
  /\ Goto(t, "m_mark")
  /\ UNCHANGED <<memory_map, memory_mutex, header, held, failed, lost, type,
                 num>>

(* find_free_memory returns -1: kmalloc returns NULL, memory_mutex taken. *)
Fail(t) ==
  /\ pc[t] = "m_find"
  /\ \E behind \in BehindMap :
       Candidates(memory_map \cup behind, num[t], First(type[t]), End(type[t])) = {}
  /\ failed' = TRUE
  /\ Return(t)
  /\ UNCHANGED <<memory_map, memory_mutex, header, held, lost>>

(* The loop over set_memory_used, inside memory_map. *)
Mark(t) ==
  /\ pc[t] = "m_mark"
  /\ PagesOf(page[t], num[t]) \subseteq Bit
  /\ memory_map' = memory_map \cup PagesOf(page[t], num[t])
  /\ Goto(t, "m_release")
  /\ UNCHANGED <<memory_mutex, header, held, failed, lost, locals>>

KmallocRelease(t) ==
  /\ pc[t] = "m_release"
  /\ Release(t)
  /\ Goto(t, "m_header")
  /\ UNCHANGED locals

(* memset, the header, and the pointer behind it for the caller: in RAM.   *)
WriteHeader(t) ==
  /\ pc[t] = "m_header"
  /\ PagesOf(page[t], num[t]) \subseteq Ram
  /\ header' = [i \in Ram |->
                 IF i = page[t] THEN num[t]
                 ELSE IF i \in PagesOf(page[t], num[t]) THEN 0 ELSE header[i]]
  /\ held' = held \cup {<<page[t], num[t]>>}
  /\ Return(t)
  /\ UNCHANGED <<memory_map, memory_mutex, failed, lost>>

(* User memory ends at a number of bytes: find_free_memory also returns    *)
(* pages that have no bit, where set_memory_used overwrites the variables  *)
(* behind memory_map, and pages that are no RAM, where memset writes to    *)
(* device registers or takes a data abort, for which there is no handler.  *)
Stray(t) ==
  /\ \/ pc[t] = "m_mark" /\ ~(PagesOf(page[t], num[t]) \subseteq Bit)
     \/ pc[t] = "m_header" /\ ~(PagesOf(page[t], num[t]) \subseteq Ram)
  /\ lost' = TRUE
  /\ UNCHANGED <<memory_map, memory_mutex, header, held, failed, pc, locals>>

-----------------------------------------------------------------------------
(* kfree is called with the pointer into page i, and finds MEMORY_MAGIC. *)
Kfree(t, i) ==
  /\ pc[t] = "idle"
  /\ header[i] # 0
  /\ page' = [page EXCEPT ![t] = i]
  /\ num' = [num EXCEPT ![t] = header[i]]
  /\ held' = {b \in held : b[1] # i}
  /\ Goto(t, "f_acquire")
  /\ UNCHANGED <<memory_map, memory_mutex, header, failed, lost, type>>

(* kfree is called with some other pointer, finds no magic, and panics:    *)
(* panic() never returns.                                                  *)
KfreePanics(t, i) ==
  /\ pc[t] = "idle"
  /\ header[i] = 0
  /\ held' = {b \in held : b[1] # i}
  /\ Goto(t, "panic")
  /\ UNCHANGED <<memory_map, memory_mutex, header, failed, lost, locals>>

(* The loop over set_memory_free: alloc->pages is read again here. *)
Clear(t) ==
  /\ pc[t] = "f_clear"
  /\ memory_map' = memory_map \ PagesOf(page[t], header[page[t]])
  /\ Goto(t, "f_release")
  /\ UNCHANGED <<memory_mutex, header, held, failed, lost, locals>>

KfreeRelease(t) ==
  /\ pc[t] = "f_release"
  /\ Release(t)
  /\ Return(t)

-----------------------------------------------------------------------------
(* What task t does by itself once it has called kmalloc or kfree. *)
Proceed(t) ==
  \/ Acquire(t, "m_acquire", "m_find") \/ Find(t) \/ Fail(t) \/ Mark(t)
  \/ KmallocRelease(t) \/ WriteHeader(t) \/ Stray(t)
  \/ Acquire(t, "f_acquire", "f_clear") \/ Clear(t) \/ KfreeRelease(t)

(* Every block is freed once; a pointer that kmalloc did not return may be *)
(* passed to kfree as well, and is then not behind a header.  A second     *)
(* kfree of a block is no step: StaleHeaderIsFree says when it would do    *)
(* nothing, and an allocation between its check and its loop would lose    *)
(* its pages to it.                                                        *)
Next ==
  /\ ~lost
  /\ \E t \in Task :
       \/ \E ty \in Types, size \in Sizes : Kmalloc(t, ty, size)
       \/ \E b \in held : Kfree(t, b[1])
       \/ \E i \in Ram : KfreePanics(t, i)
       \/ Proceed(t)

Spec == Init /\ [][Next]_vars

(* A task executes its instructions; when to call is the caller's choice. *)
FairSpec == Spec /\ \A t \in Task : WF_vars(~lost /\ Proceed(t))

-----------------------------------------------------------------------------
(* The blocks that belong to somebody: returned and not freed (held), or   *)
(* on their way out of kmalloc or into kfree.                              *)
InFlight == {t \in Task : pc[t] \in {"m_release", "m_header", "f_acquire",
                                     "f_clear"}}

Block(t) == <<page[t], num[t]>>

Live == held \cup {Block(t) : t \in InFlight}

Overlap(b, c) == PagesOf(b[1], b[2]) \cap PagesOf(c[1], c[2]) # {}

(* The tasks that may touch memory_map. *)
Inside == {t \in Task : pc[t] \in {"m_find", "m_mark", "m_release", "f_clear",
                                   "f_release"}}

(* Types of the variables; every block is at least a page. *)
TypeOK ==
  /\ memory_map \subseteq Bit
  /\ memory_mutex \in {0, 1}
  /\ header \in [Ram -> Nat]
  /\ held \subseteq Ram \X (Nat \ {0})
  /\ failed \in BOOLEAN
  /\ lost \in BOOLEAN
  /\ pc \in [Task -> Label]
  /\ type \in [Task -> MemoryType]
  /\ num \in [Task -> Nat]
  /\ page \in [Task -> Page]

(* No page belongs to two callers: kmalloc never hands out a page of a     *)
(* block that is in use, however its scan and another call interleave.     *)
NoOverlap ==
  /\ \A b, c \in held : Overlap(b, c) => b = c
  /\ \A t \in InFlight, b \in held : ~Overlap(Block(t), b)
  /\ \A t, u \in InFlight : Overlap(Block(t), Block(u)) => t = u

(* The bitmap is exact: the used pages are those of the kernel image and   *)
(* of the live blocks; no page is lost, none in use is marked free.        *)
MapExact ==
  memory_map = PagesOf(0, KernelPages) \cup UNION {PagesOf(b[1], b[2]) : b \in Live}

(* kfree finds in front of every live block the header kmalloc wrote: it   *)
(* frees exactly what was allocated and does not panic.                    *)
HeaderIntact == \A b \in held : header[b[1]] = b[2]

(* Kernel memory is above the kernel image and below the end of its        *)
(* region, user memory above it; so no block is at address 0 (NULL).       *)
InRegion ==
  \A b \in Live :
    \/ KernelPages <= b[1] /\ b[1] + b[2] < ReservedPages
    \/ ReservedPages <= b[1] /\ b[1] + b[2] <= MapPages

(* The mutex is taken exactly while one task is inside its critical        *)
(* section -- or for ever, once kmalloc has failed (memory.c:173).         *)
MutexHeldOnce ==
  /\ memory_mutex = 0 => Inside = {} /\ ~failed
  /\ memory_mutex = 1 => failed \/ \E t \in Inside : Inside = {t}
  /\ failed => Inside = {}

(* First fit keeps a freed block whole: the pages behind a header that     *)
(* kfree left in a free page are all free.  A second kfree of the block,   *)
(* before its first page is allocated again, therefore frees nothing.      *)
StaleHeaderIsFree ==
  \A i \in Ram : header[i] # 0 /\ i \notin memory_map
                   => IsFree(memory_map, i, header[i])

(* A task that waits for memory_mutex gets it, or another task does: the   *)
(* mutex is always given back, unless a kmalloc has failed or strayed.     *)
MutexComesBack == memory_mutex = 1 ~> (memory_mutex = 0 \/ failed \/ lost)

(* How far the end in bytes of user memory (memory.c:160) reaches: pages   *)
(* that are no RAM are found for user memory only, and only when no run of *)
(* RAM pages is free for the request; kernel memory is always RAM.         *)
RamIsUsedFirst ==
  \A t \in Task : pc[t] = "m_mark" /\ ~(PagesOf(page[t], num[t]) \subseteq Ram) =>
    /\ type[t] = "USER_MEMORY"
    /\ \A i \in ReservedPages .. RamPages - num[t] : ~IsFree(memory_map, i, num[t])

-----------------------------------------------------------------------------
(* kmalloc and kfree are callers of the lock of mutex.h and keep to its    *)
(* protocol: they ask, are inside alone, and leave.  A kmalloc that fails  *)
(* leaves like the others; the lock it does not give back lets nobody in.  *)
Where(t) ==
  IF t \in Inside THEN "inside"
  ELSE IF pc[t] \in {"m_acquire", "f_acquire"} THEN "asking" ELSE "outside"

Lk == INSTANCE Lock WITH Core <- Task, state <- [t \in Task |-> Where(t)]

UsesLock == Lk!LockSpec

(* "kmalloc: unable to find contiguous memory space" (memory.c:172), and   *)
(* the NULL returned behind it: a kmalloc that fails says so to its caller *)
(* and the next caller's turn comes.                                       *)
FailureIsReported == memory_mutex = 1 ~> memory_mutex = 0
=============================================================================
