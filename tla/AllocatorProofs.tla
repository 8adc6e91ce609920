--------------------------- MODULE AllocatorProofs --------------------------
(***************************************************************************)
(* Proofs about Allocator: its invariants hold for every number of tasks,  *)
(* every size of memory and every header size, not only for the instances  *)
(* of MCAllocator.                                                         *)
(***************************************************************************)
EXTENDS Allocator, TLAPS, NatFacts

(* A task that has found a run of pages, and not yet marked it, relies on  *)
(* the bitmap it scanned: it is still the current one, because the task    *)
(* has the mutex.                                                          *)
FoundIsCurrent ==
  \A t \in Task : pc[t] = "m_mark" => \E behind \in BehindMap :
    FoundAt(page[t], memory_map \cup behind, num[t], First(type[t]), End(type[t]))

(* A request is at least one page long. *)
RequestsNotEmpty ==
  \A t \in Task : pc[t] \notin {"idle", "f_release", "panic"} => num[t] >= 1

(* A task inside kfree finds the header it has checked. *)
FreedHeaderIntact ==
  \A t \in Task : pc[t] \in {"f_acquire", "f_clear"} =>
    page[t] \in Ram /\ header[page[t]] = num[t]

(* The bits that were set at the start are set for good: no block contains *)
(* one of their pages.                                                     *)
Preset == PagesOf(0, KernelPages)

PresetIsKept == \A b \in Live : PagesOf(b[1], b[2]) \cap Preset = {}

(* The invariant that is inductive: the properties and what they rest on.  *)
IInv ==
  /\ TypeOK
  /\ NoOverlap
  /\ MapExact
  /\ HeaderIntact
  /\ InRegion
  /\ PresetIsKept
  /\ MutexHeldOnce
  /\ FoundIsCurrent
  /\ RequestsNotEmpty
  /\ FreedHeaderIntact

(* A request takes at least one page. *)
LEMMA NumPagesPositive ==
  ASSUME NEW size \in Nat
  PROVE  NumPages(size) \in Nat /\ NumPages(size) >= 1
<1>1. (size + HeaderSize) % WordSize \in Nat
  BY PagesAssumption
<1>2. \A x \in Nat : x \div PageSize \in Nat
  BY PagesAssumption
<1> QED BY <1>1, <1>2 DEF NumPages

(* kmalloc takes enough pages for the header and the bytes behind it, as   *)
(* long as their sum does not wrap around in uint32_t.                     *)
THEOREM RequestFits ==
  ASSUME NEW size \in Nat, size + HeaderSize < WordSize
  PROVE  NumPages(size) * PageSize > size + HeaderSize
<1> DEFINE x == size + HeaderSize
<1>1. x \in Nat /\ x % WordSize = x
  BY PagesAssumption
<1>2. NumPages(size) = x \div PageSize + 1
  BY <1>1 DEF NumPages
<1>3. x < (x \div PageSize + 1) * PageSize
  BY <1>1, PagesAssumption
<1> QED BY <1>2, <1>3

(* The region of a memory type lies in the pages there are. *)
LEMMA RegionBounds ==
  ASSUME NEW ty \in MemoryType
  PROVE  First(ty) \in Nat /\ End(ty) \in Nat /\ End(ty) <= MemoryTotal
BY PagesAssumption DEF MemoryType, First, End

(* What find_free_memory returns is free and ends below its region's end.  *)
LEMMA FoundIsFree ==
  ASSUME NEW i, NEW map, NEW n, NEW ty \in MemoryType,
         FoundAt(i, map, n, First(ty), End(ty))
  PROVE  /\ i \in First(ty) .. End(ty) - 1
         /\ i + n < End(ty)
         /\ PagesOf(i, n) \cap map = {}
BY DEF FoundAt, Candidates, IsFree

(* RAM has bits in memory_map, and a page number for each of its pages. *)
LEMMA RamBounds ==
  /\ Ram \subseteq Bit /\ Ram \subseteq Page /\ Ram \subseteq Nat /\ 0 \in Page
  /\ \A behind \in BehindMap : behind \cap Bit = {}
<1>1. RamPages <= MemoryTotal
  <2>1. RamPages <= RamPages * PageSize
    BY PagesAssumption, AllocatorAssumption
  <2> QED BY <2>1, PagesAssumption, AllocatorAssumption
<1> QED BY <1>1, PagesAssumption, AllocatorAssumption DEF Ram, Bit, Page, BehindMap

LEMMA InitIInv == Init => IInv
<1> SUFFICES ASSUME Init PROVE IInv
  OBVIOUS
<1>1. 0 \in Page /\ PagesOf(0, KernelPages) \subseteq Bit
  BY PagesAssumption, AllocatorAssumption DEF Page, Bit, PagesOf
<1>2. TypeOK
  BY <1>1 DEF TypeOK, Init, Label, MemoryType, NoPage
<1>3. InFlight = {} /\ Live = {} /\ Inside = {}
  BY DEF Init, InFlight, Live, Inside
<1> QED BY <1>2, <1>3 DEF Init, IInv, NoOverlap, MapExact, HeaderIntact, InRegion,
    PresetIsKept, MutexHeldOnce, FoundIsCurrent, RequestsNotEmpty, FreedHeaderIntact

-----------------------------------------------------------------------------
(* A step that moves no block keeps what IInv says of blocks, bitmap and   *)
(* headers.                                                                *)
LEMMA SameBlocks ==
  ASSUME IInv, UNCHANGED <<memory_map, header, held>>, InFlight' = InFlight,
         \A t \in InFlight : page'[t] = page[t] /\ num'[t] = num[t]
  PROVE  NoOverlap' /\ MapExact' /\ HeaderIntact' /\ InRegion' /\ PresetIsKept'
<1>1. {Block(t) : t \in InFlight}' = {Block(t) : t \in InFlight}
  BY DEF Block
<1>2. Live' = Live
  BY <1>1 DEF Live
<1>3. MapExact' /\ HeaderIntact' /\ InRegion' /\ PresetIsKept'
  BY <1>2 DEF IInv, MapExact, HeaderIntact, InRegion, PresetIsKept
<1>4. \A t \in InFlight : Block(t)' = Block(t)
  BY DEF Block
<1>5. NoOverlap'
  BY <1>4 DEF IInv, NoOverlap, Overlap
<1> QED BY <1>3, <1>5

LEMMA KmallocStep ==
  ASSUME IInv, NEW t \in Task, NEW ty \in Types, NEW size \in Sizes,
         Kmalloc(t, ty, size)
  PROVE  IInv'
<1> USE DEF IInv, Kmalloc, Goto
<1>1. size \in Nat /\ ty \in MemoryType
  BY AllocatorAssumption
<1>2. TypeOK'
  BY <1>1, NumPagesPositive DEF TypeOK, Label
<1>3. InFlight' = InFlight /\ t \notin InFlight /\ Inside' = Inside
  BY DEF TypeOK, InFlight, Inside
<1>4. NoOverlap' /\ MapExact' /\ HeaderIntact' /\ InRegion' /\ PresetIsKept'
  BY <1>3, SameBlocks DEF TypeOK
<1>5. MutexHeldOnce'
  BY <1>3 DEF MutexHeldOnce
<1>6. FoundIsCurrent' /\ FreedHeaderIntact'
  BY DEF TypeOK, FoundIsCurrent, FreedHeaderIntact
<1>7. RequestsNotEmpty'
  BY <1>1, NumPagesPositive DEF TypeOK, RequestsNotEmpty
<1> QED BY <1>2, <1>4, <1>5, <1>6, <1>7

(* A pointer without a header behind it is none of a held block. *)
LEMMA PanicKeepsHeld ==
  ASSUME IInv, NEW t \in Task, NEW i \in Ram, KfreePanics(t, i)
  PROVE  UNCHANGED held
<1>1. \A b \in held : b[1] # i
  BY DEF IInv, TypeOK, HeaderIntact, KfreePanics
<1> QED BY <1>1 DEF KfreePanics

LEMMA KfreePanicsStep ==
  ASSUME IInv, NEW t \in Task, NEW i \in Ram, KfreePanics(t, i)
  PROVE  IInv'
<1> USE DEF IInv, KfreePanics, Goto, locals
<1>1. UNCHANGED held
  BY PanicKeepsHeld
<1>2. TypeOK'
  BY <1>1 DEF TypeOK, Label
<1>3. InFlight' = InFlight /\ t \notin InFlight /\ Inside' = Inside
  BY DEF TypeOK, InFlight, Inside
<1>4. NoOverlap' /\ MapExact' /\ HeaderIntact' /\ InRegion' /\ PresetIsKept'
  BY <1>1, <1>3, SameBlocks DEF TypeOK
<1>5. MutexHeldOnce'
  BY <1>3 DEF MutexHeldOnce
<1>6. FoundIsCurrent' /\ FreedHeaderIntact' /\ RequestsNotEmpty'
  BY DEF TypeOK, FoundIsCurrent, FreedHeaderIntact, RequestsNotEmpty
<1> QED BY <1>2, <1>4, <1>5, <1>6

LEMMA AcquireStep ==
  ASSUME IInv, NEW t \in Task,
         \/ Acquire(t, "m_acquire", "m_find")
         \/ Acquire(t, "f_acquire", "f_clear")
  PROVE  IInv'
<1> USE DEF IInv, Acquire, Goto, locals
<1>1. TypeOK'
  BY DEF TypeOK, Label
<1>2. InFlight' = InFlight
  BY DEF TypeOK, InFlight
<1>3. NoOverlap' /\ MapExact' /\ HeaderIntact' /\ InRegion' /\ PresetIsKept'
  BY <1>2, SameBlocks DEF TypeOK
<1>4. Inside = {} /\ ~failed
  BY DEF MutexHeldOnce
<1>5. Inside' = {t}
  BY <1>4 DEF TypeOK, Inside
<1>6. MutexHeldOnce'
  BY <1>4, <1>5 DEF MutexHeldOnce
<1>7. FoundIsCurrent' /\ FreedHeaderIntact' /\ RequestsNotEmpty'
  BY DEF TypeOK, FoundIsCurrent, FreedHeaderIntact, RequestsNotEmpty
<1> QED BY <1>1, <1>3, <1>6, <1>7

(* A task in its critical section is the only one there. *)
LEMMA Alone ==
  ASSUME IInv, NEW t \in Inside
  PROVE  memory_mutex = 1 /\ Inside = {t} /\ ~failed
BY DEF IInv, TypeOK, MutexHeldOnce

LEMMA FindStep ==
  ASSUME IInv, NEW t \in Task, Find(t)
  PROVE  IInv'
<1> USE DEF IInv, Find, Goto
<1>1. TypeOK'
  <2>1. type[t] \in MemoryType
    BY DEF TypeOK
  <2>2. First(type[t]) .. End(type[t]) - 1 \subseteq Page
    BY <2>1, RegionBounds, PagesAssumption DEF Page
  <2> QED BY <2>2 DEF TypeOK, Label
<1>2. InFlight' = InFlight /\ t \notin InFlight /\ Inside' = Inside
  BY DEF TypeOK, InFlight, Inside
<1>3. NoOverlap' /\ MapExact' /\ HeaderIntact' /\ InRegion' /\ PresetIsKept'
  BY <1>2, SameBlocks DEF TypeOK
<1>4. MutexHeldOnce'
  BY <1>2 DEF MutexHeldOnce
<1>5. FoundIsCurrent'
  BY DEF TypeOK, FoundIsCurrent
<1>6. FreedHeaderIntact' /\ RequestsNotEmpty'
  BY DEF TypeOK, FreedHeaderIntact, RequestsNotEmpty
<1> QED BY <1>1, <1>3, <1>4, <1>5, <1>6

LEMMA FailStep ==
  ASSUME IInv, NEW t \in Task, Fail(t)
  PROVE  IInv'
<1> USE DEF IInv, Fail, Return, Goto
<1>1. TypeOK'
  BY PagesAssumption DEF TypeOK, Label, MemoryType, Page, NoPage
<1>2. InFlight' = InFlight /\ t \notin InFlight
  BY DEF TypeOK, InFlight
<1>3. NoOverlap' /\ MapExact' /\ HeaderIntact' /\ InRegion' /\ PresetIsKept'
  BY <1>2, SameBlocks DEF TypeOK
<1>4. memory_mutex = 1 /\ Inside = {t}
  BY Alone DEF Inside
<1>5. Inside' = {}
  BY <1>4 DEF TypeOK, Inside
<1>6. MutexHeldOnce'
  BY <1>4, <1>5 DEF MutexHeldOnce
<1>7. FoundIsCurrent' /\ FreedHeaderIntact' /\ RequestsNotEmpty'
  BY DEF TypeOK, FoundIsCurrent, FreedHeaderIntact, RequestsNotEmpty
<1> QED BY <1>1, <1>3, <1>6, <1>7

LEMMA ReleaseStep ==
  ASSUME IInv, NEW t \in Task, KmallocRelease(t) \/ KfreeRelease(t)
  PROVE  IInv'
<1> USE DEF IInv, KmallocRelease, KfreeRelease, Release, Return, Goto, locals
<1>1. TypeOK'
  <2>1. CASE KmallocRelease(t)
    BY <2>1 DEF TypeOK, Label
  <2>2. CASE KfreeRelease(t)
    <3>1. NoPage \in Page
      BY PagesAssumption DEF Page, NoPage
    <3> QED BY <2>2, <3>1 DEF TypeOK, Label, MemoryType
  <2> QED BY <2>1, <2>2
<1>2. /\ InFlight' = InFlight
      /\ \A u \in InFlight : page'[u] = page[u] /\ num'[u] = num[u]
  <2>1. CASE KmallocRelease(t)
    BY <2>1 DEF TypeOK, InFlight
  <2>2. CASE KfreeRelease(t)
    <3>1. t \notin InFlight /\ InFlight' = InFlight
      BY <2>2 DEF TypeOK, InFlight
    <3> QED BY <2>2, <3>1 DEF TypeOK, InFlight
  <2> QED BY <2>1, <2>2
<1>3. NoOverlap' /\ MapExact' /\ HeaderIntact' /\ InRegion' /\ PresetIsKept'
  BY <1>2, SameBlocks
<1>4. Inside = {t} /\ ~failed
  BY Alone DEF Inside
<1>5. Inside' = {}
  BY <1>4 DEF TypeOK, Inside
<1>6. MutexHeldOnce'
  BY <1>4, <1>5 DEF MutexHeldOnce
<1>7. FoundIsCurrent' /\ FreedHeaderIntact' /\ RequestsNotEmpty'
  BY DEF TypeOK, FoundIsCurrent, FreedHeaderIntact, RequestsNotEmpty
<1> QED BY <1>1, <1>3, <1>6, <1>7

(* Marking the run that was found adds a block that overlaps no other.     *)
LEMMA MarkStep ==
  ASSUME IInv, NEW t \in Task, Mark(t)
  PROVE  IInv'
<1> USE DEF IInv, Mark, Goto, locals
<1>1. /\ memory_mutex = 1 /\ Inside = {t} /\ ~failed
      /\ t \notin InFlight
      /\ num[t] \in Nat /\ num[t] >= 1 /\ page[t] \in Page
      /\ type[t] \in MemoryType
  BY Alone DEF Inside, InFlight, TypeOK, RequestsNotEmpty
<1>2. PICK behind \in BehindMap :
        FoundAt(page[t], memory_map \cup behind, num[t], First(type[t]), End(type[t]))
  BY DEF FoundIsCurrent
<1>3. /\ page[t] \in First(type[t]) .. End(type[t]) - 1
      /\ page[t] + num[t] < End(type[t])
      /\ PagesOf(page[t], num[t]) \cap memory_map = {}
  BY <1>1, <1>2, FoundIsFree
<1>4. PagesOf(page[t], num[t]) \subseteq Bit
  OBVIOUS
<1>5. TypeOK'
  BY <1>4 DEF TypeOK, Label
<1>6. InFlight' = InFlight \cup {t} /\ Inside' = Inside
  BY DEF TypeOK, InFlight, Inside
<1>7. \A u \in Task : Block(u)' = Block(u)
  BY DEF Block
<1>8. Live' = Live \cup {Block(t)}
  BY <1>6, <1>7 DEF Live, InFlight
<1>9. MapExact'
  <2> DEFINE Used(L) == UNION {PagesOf(b[1], b[2]) : b \in L}
  <2>1. \A i : i \in Used(Live')
               <=> i \in Used(Live) \/ i \in PagesOf(Block(t)[1], Block(t)[2])
    BY <1>8
  <2>2. Used(Live') = Used(Live) \cup PagesOf(page[t], num[t])
    BY <2>1 DEF Block
  <2>3. memory_map = PagesOf(0, KernelPages) \cup Used(Live)
    BY DEF MapExact
  <2> HIDE DEF Used
  <2>4. memory_map' = PagesOf(0, KernelPages) \cup Used(Live')
    BY <2>2, <2>3
  <2> QED BY <2>4 DEF MapExact, Used
<1>10. \A b \in Live : ~Overlap(b, Block(t)) /\ ~Overlap(Block(t), b)
  BY <1>3 DEF MapExact, Overlap, Block
<1>11. NoOverlap'
  <2>1. \A b \in held : ~Overlap(Block(t), b)
    BY <1>10 DEF Live
  <2>2. \A u \in InFlight : ~Overlap(Block(t), Block(u)) /\ ~Overlap(Block(u), Block(t))
    BY <1>10 DEF Live
  <2>3. \A u, v \in InFlight' : Overlap(Block(u), Block(v)) => u = v
    BY <1>6, <2>2 DEF NoOverlap
  <2>4. \A u \in InFlight', b \in held : ~Overlap(Block(u), b)
    BY <1>6, <2>1 DEF NoOverlap
  <2>5. \A u, v \in InFlight' : Overlap(Block(u)', Block(v)') => u = v
    BY <1>7, <2>3 DEF InFlight
  <2>6. \A u \in InFlight', b \in held : ~Overlap(Block(u)', b)
    BY <1>7, <2>4 DEF InFlight
  <2> QED BY <2>5, <2>6 DEF NoOverlap, Overlap
<1>12. InRegion'
  <2>1. page[t] \notin memory_map
    BY <1>1, <1>3 DEF PagesOf, Page
  <2>2. KernelPages <= page[t]
    BY <1>1, <2>1, PagesAssumption DEF MapExact, PagesOf, Page
  <2>3. \/ KernelPages <= page[t] /\ page[t] + num[t] < ReservedPages
        \/ ReservedPages <= page[t] /\ page[t] + num[t] <= MapPages
    <3>1. page[t] + num[t] - 1 \in Bit
      BY <1>1, <1>4 DEF PagesOf, Page
    <3>2. page[t] + num[t] <= MapPages
      BY <1>1, <3>1, AllocatorAssumption DEF Bit, Page
    <3> QED BY <1>1, <1>3, <2>2, <3>2, PagesAssumption, AllocatorAssumption
            DEF MemoryType, First, End, Page
  <2> QED BY <1>8, <2>3 DEF InRegion, Block
<1>13. MutexHeldOnce' /\ HeaderIntact'
  BY <1>1, <1>6 DEF MutexHeldOnce, HeaderIntact
<1>14. FoundIsCurrent'
  BY <1>1 DEF TypeOK, FoundIsCurrent, Inside
<1>15. FreedHeaderIntact' /\ RequestsNotEmpty'
  BY DEF TypeOK, FreedHeaderIntact, RequestsNotEmpty
<1>16. PresetIsKept'
  BY <1>3, <1>8 DEF PresetIsKept, MapExact, Preset, Block
<1> QED BY <1>5, <1>9, <1>11, <1>12, <1>13, <1>14, <1>15, <1>16

(* The headers inside other blocks survive the memset of this one. *)
LEMMA WriteHeaderStep ==
  ASSUME IInv, NEW t \in Task, WriteHeader(t)
  PROVE  IInv'
<1> USE DEF IInv, WriteHeader, Return, Goto
<1>1. t \in InFlight /\ num[t] \in Nat /\ num[t] >= 1 /\ page[t] \in Ram
  <2>1. t \in InFlight /\ num[t] \in Nat /\ num[t] >= 1 /\ page[t] \in Page
    BY DEF InFlight, TypeOK, RequestsNotEmpty
  <2> QED BY <2>1 DEF PagesOf, Page
<1>2. TypeOK'
  BY <1>1, PagesAssumption, SMTT(30) DEF TypeOK, Label, MemoryType, Page, NoPage
<1>3. InFlight' = InFlight \ {t} /\ Inside' = Inside
  BY DEF TypeOK, InFlight, Inside
<1>4. \A u \in InFlight \ {t} : Block(u)' = Block(u)
  BY DEF Block, TypeOK, InFlight
<1>5. Live' = Live
  BY <1>1, <1>3, <1>4 DEF Live, Block
<1>6. MapExact' /\ InRegion' /\ PresetIsKept' /\ MutexHeldOnce'
  BY <1>3, <1>5 DEF MapExact, InRegion, PresetIsKept, MutexHeldOnce
<1>7. held' = held \cup {Block(t)}
  BY DEF Block
<1>8. NoOverlap'
  BY <1>1, <1>3, <1>4, <1>7 DEF NoOverlap, Overlap
<1>9. \A p \in Page, n \in Nat : n >= 1 => p \in PagesOf(p, n)
  BY DEF PagesOf, Page
<1>10. \A p \in Ram : p \in Page
  BY RamBounds
<1>11. \A b \in held : b[1] \notin PagesOf(page[t], num[t])
  <2>1. \A b \in held : b[1] \in PagesOf(b[1], b[2])
    BY <1>9, <1>10 DEF TypeOK
  <2> QED BY <1>1, <2>1 DEF NoOverlap, Overlap, Block
<1>12. page[t] \in PagesOf(page[t], num[t])
  BY <1>1, <1>9, <1>10
<1>13. HeaderIntact'
  <2>1. \A b \in held : header'[b[1]] = header[b[1]]
    BY <1>11, <1>12 DEF TypeOK
  <2>2. header'[page[t]] = num[t]
    BY <1>1
  <2> QED BY <1>7, <2>1, <2>2 DEF HeaderIntact, Block
<1>14. FreedHeaderIntact'
  <2>1. ASSUME NEW u \in Task, pc'[u] \in {"f_acquire", "f_clear"}
        PROVE  page'[u] \in Ram /\ header'[page'[u]] = num'[u]
    <3>1. u # t /\ pc'[u] = pc[u] /\ page'[u] = page[u] /\ num'[u] = num[u]
      BY <2>1 DEF TypeOK
    <3>2. u \in InFlight /\ num[u] \in Nat /\ num[u] >= 1 /\ page[u] \in Ram
      BY <2>1, <3>1 DEF InFlight, TypeOK, RequestsNotEmpty, FreedHeaderIntact
    <3>3. page[u] \in PagesOf(page[u], num[u])
      BY <3>2, <1>9, <1>10
    <3>4. page[u] \notin PagesOf(page[t], num[t])
      BY <1>1, <3>1, <3>2, <3>3 DEF NoOverlap, Overlap, Block
    <3>5. header'[page[u]] = header[page[u]]
      BY <1>12, <3>2, <3>4
    <3> QED BY <2>1, <3>1, <3>2, <3>5 DEF FreedHeaderIntact
  <2> QED BY <2>1 DEF FreedHeaderIntact
<1>15. FoundIsCurrent' /\ RequestsNotEmpty'
  BY DEF TypeOK, FoundIsCurrent, RequestsNotEmpty
<1> QED BY <1>2, <1>6, <1>8, <1>13, <1>14, <1>15

(* kfree is called with a block that is held, and finds its header. *)
LEMMA KfreeStep ==
  ASSUME IInv, NEW t \in Task, NEW b \in held, Kfree(t, b[1])
  PROVE  IInv'
<1> USE DEF IInv, Kfree, Goto
<1>1. b = <<b[1], header[b[1]]>> /\ b[1] \in Ram /\ b[1] \in Page
      /\ b[2] \in Nat /\ b[2] >= 1 /\ header[b[1]] = b[2]
  <2>1. b \in Ram \X (Nat \ {0}) /\ header[b[1]] = b[2]
    BY DEF TypeOK, HeaderIntact
  <2>2. \A i \in Ram : i \in Page
    BY RamBounds
  <2> QED BY <2>1, <2>2
<1>2. TypeOK'
  BY <1>1 DEF TypeOK, Label
<1>3. InFlight' = InFlight \cup {t} /\ t \notin InFlight /\ Inside' = Inside
  BY DEF TypeOK, InFlight, Inside
<1>4. Block(t)' = b /\ \A u \in InFlight : Block(u)' = Block(u)
  BY <1>1, <1>3 DEF Block, TypeOK
<1>5. held' = held \ {b}
  <2>1. \A p \in Page, n \in Nat : n >= 1 => p \in PagesOf(p, n)
    BY DEF PagesOf, Page
  <2>2. \A c \in held : c[1] \in PagesOf(c[1], c[2])
    <3>1. \A i \in Ram : i \in Page
      BY RamBounds
    <3>2. held \subseteq Ram \X (Nat \ {0})
      BY DEF TypeOK
    <3> QED BY <2>1, <3>1, <3>2
  <2>3. \A c \in held : c[1] = b[1] => c = b
    BY <2>2 DEF NoOverlap, Overlap
  <2> QED BY <2>3
<1>6. Live' = Live
  BY <1>3, <1>4, <1>5 DEF Live
<1>7. /\ MapExact' /\ InRegion' /\ PresetIsKept'
      /\ MutexHeldOnce' /\ HeaderIntact'
  BY <1>3, <1>5, <1>6 DEF MapExact, InRegion, PresetIsKept, MutexHeldOnce, HeaderIntact
<1>8. NoOverlap'
  <2>1. \A u \in InFlight : ~Overlap(Block(u), b) /\ ~Overlap(b, Block(u))
    BY DEF NoOverlap, Overlap
  <2>2. \A c \in held' : ~Overlap(b, c)
    BY <1>5 DEF NoOverlap
  <2>3. \A u, v \in InFlight' : Overlap(Block(u)', Block(v)') => u = v
    BY <1>3, <1>4, <2>1 DEF NoOverlap
  <2>4. \A u \in InFlight', c \in held' : ~Overlap(Block(u)', c)
    BY <1>3, <1>4, <1>5, <2>2 DEF NoOverlap
  <2>5. \A c, d \in held' : Overlap(c, d) => c = d
    BY <1>5 DEF NoOverlap
  <2> QED BY <2>3, <2>4, <2>5 DEF NoOverlap, Overlap
<1>9. FreedHeaderIntact' /\ FoundIsCurrent' /\ RequestsNotEmpty'
  BY <1>1 DEF TypeOK, FreedHeaderIntact, FoundIsCurrent, RequestsNotEmpty
<1> QED BY <1>2, <1>7, <1>8, <1>9

LEMMA ClearStep ==
  ASSUME IInv, NEW t \in Task, Clear(t)
  PROVE  IInv'
<1> USE DEF IInv, Clear, Goto, locals
<1>1. /\ memory_mutex = 1 /\ Inside = {t} /\ ~failed
      /\ t \in InFlight
      /\ header[page[t]] = num[t]
  BY Alone DEF Inside, InFlight, FreedHeaderIntact
<1>2. TypeOK'
  BY DEF TypeOK, Label
<1>3. InFlight' = InFlight \ {t} /\ Inside' = Inside
  BY DEF TypeOK, InFlight, Inside
<1>4. \A u \in Task : Block(u)' = Block(u)
  BY DEF Block
<1>5. page[t] \in PagesOf(page[t], num[t])
  <2>1. num[t] \in Nat /\ num[t] >= 1 /\ page[t] \in Page
    BY DEF TypeOK, RequestsNotEmpty
  <2> QED BY <2>1 DEF PagesOf, Page
<1>6. \A c \in held : ~Overlap(Block(t), c) /\ ~Overlap(c, Block(t))
  BY <1>1 DEF NoOverlap, Overlap
<1>7. \A u \in InFlight \ {t} : ~Overlap(Block(t), Block(u)) /\ ~Overlap(Block(u), Block(t))
  BY <1>1 DEF NoOverlap
<1>8. ~ (Block(t) \in held) /\ \A u \in InFlight \ {t} : Block(u) # Block(t)
  BY <1>5, <1>6, <1>7 DEF Overlap, Block
<1>9. Live' = Live \ {Block(t)}
  <2>1. \A b : b \in {Block(u) : u \in InFlight}'
               <=> \E u \in InFlight \ {t} : b = Block(u)
    BY <1>3, <1>4 DEF InFlight
  <2>2. \A b : b \in Live' <=> b \in held \/ \E u \in InFlight \ {t} : b = Block(u)
    BY <2>1 DEF Live
  <2>3. \A b : b \in Live <=> b \in held \/ \E u \in InFlight : b = Block(u)
    BY DEF Live
  <2>4. \A b : b \in Live' <=> b \in Live /\ b # Block(t)
    BY <1>1, <1>8, <2>2, <2>3
  <2> QED BY <2>4
<1>10. \A c \in Live' : PagesOf(c[1], c[2]) \cap PagesOf(page[t], num[t]) = {}
  BY <1>6, <1>7, <1>8, <1>9 DEF Overlap, Live, Block
<1>11. MapExact'
  <2> DEFINE Used(L) == UNION {PagesOf(c[1], c[2]) : c \in L}
  <2>1. memory_map = PagesOf(0, KernelPages) \cup Used(Live)
    BY DEF MapExact
  <2>2. Block(t) \in Live /\ PagesOf(Block(t)[1], Block(t)[2]) = PagesOf(page[t], num[t])
    BY <1>1 DEF Live, Block
  <2>3. \A i : i \in Used(Live') <=> i \in Used(Live) /\ i \notin PagesOf(page[t], num[t])
    BY <1>9, <1>10, <2>2
  <2>4. PagesOf(page[t], num[t]) \cap (PagesOf(0, KernelPages)) = {}
    BY <2>2 DEF PresetIsKept, Preset
  <2> HIDE DEF Used
  <2>5. memory_map' = PagesOf(0, KernelPages) \cup Used(Live')
    BY <1>1, <2>1, <2>3, <2>4
  <2> QED BY <2>5 DEF MapExact, Used
<1>12. NoOverlap'
  <2>1. \A u, v \in InFlight' : Overlap(Block(u)', Block(v)') => u = v
    BY <1>3, <1>4 DEF NoOverlap, InFlight
  <2>2. \A u \in InFlight', c \in held : ~Overlap(Block(u)', c)
    BY <1>3, <1>4 DEF NoOverlap, InFlight
  <2> QED BY <2>1, <2>2 DEF NoOverlap, Overlap
<1>13. InRegion' /\ PresetIsKept' /\ HeaderIntact' /\ MutexHeldOnce'
  BY <1>1, <1>3, <1>9 DEF InRegion, PresetIsKept, HeaderIntact, MutexHeldOnce
<1>14. FoundIsCurrent'
  BY <1>1 DEF TypeOK, FoundIsCurrent, Inside
<1>15. FreedHeaderIntact' /\ RequestsNotEmpty'
  BY DEF TypeOK, FreedHeaderIntact, RequestsNotEmpty
<1> QED BY <1>2, <1>11, <1>12, <1>13, <1>14, <1>15

(* A write that goes astray is the last step: the invariant is about what  *)
(* was so before it.                                                       *)
LEMMA StrayStep ==
  ASSUME IInv, NEW t \in Task, Stray(t)
  PROVE  IInv'
<1> USE DEF IInv
<1>1. /\ UNCHANGED <<memory_map, memory_mutex, header, held, failed, pc, type, num, page>>
      /\ lost' = TRUE
  BY DEF Stray, locals
<1>2. InFlight' = InFlight /\ Inside' = Inside
  BY <1>1 DEF InFlight, Inside
<1>3. NoOverlap' /\ MapExact' /\ HeaderIntact' /\ InRegion' /\ PresetIsKept'
  BY <1>1, <1>2, SameBlocks
<1>4. TypeOK' /\ MutexHeldOnce'
  BY <1>1, <1>2 DEF TypeOK, MutexHeldOnce
<1>5. FoundIsCurrent' /\ FreedHeaderIntact' /\ RequestsNotEmpty'
  BY <1>1 DEF FoundIsCurrent, FreedHeaderIntact, RequestsNotEmpty
<1> QED BY <1>3, <1>4, <1>5

-----------------------------------------------------------------------------
(* Every action keeps the invariant. *)
LEMMA StepIInv == IInv /\ [Next]_vars => IInv'
<1> SUFFICES ASSUME IInv, [Next]_vars PROVE IInv'
  OBVIOUS
<1>1. ASSUME NEW t \in Task, NEW ty \in Types, NEW size \in Sizes,
             Kmalloc(t, ty, size)
      PROVE  IInv'
  BY <1>1, KmallocStep
<1>2. ASSUME NEW t \in Task, NEW b \in held, Kfree(t, b[1])
      PROVE  IInv'
  BY <1>2, KfreeStep
<1>3. ASSUME NEW t \in Task, NEW i \in Ram, KfreePanics(t, i)
      PROVE  IInv'
  BY <1>3, KfreePanicsStep
<1>4. ASSUME NEW t \in Task, Proceed(t)
      PROVE  IInv'
  BY <1>4, AcquireStep, FindStep, FailStep, MarkStep, ReleaseStep,
     WriteHeaderStep, StrayStep, ClearStep DEF Proceed
<1>5. CASE UNCHANGED vars
  <2>1. InFlight' = InFlight /\ Inside' = Inside
    BY <1>5 DEF vars, InFlight, Inside
  <2>2. NoOverlap' /\ MapExact' /\ HeaderIntact' /\ InRegion' /\ PresetIsKept'
    BY <1>5, <2>1, SameBlocks DEF vars
  <2>3. TypeOK' /\ MutexHeldOnce'
    BY <1>5, <2>1 DEF vars, IInv, TypeOK, MutexHeldOnce
  <2>4. FoundIsCurrent' /\ FreedHeaderIntact' /\ RequestsNotEmpty'
    BY <1>5 DEF vars, IInv, FoundIsCurrent, FreedHeaderIntact, RequestsNotEmpty
  <2> QED BY <2>2, <2>3, <2>4 DEF IInv
<1> QED BY <1>1, <1>2, <1>3, <1>4, <1>5 DEF Next

(* Whatever the tasks ask for and however their calls interleave, the      *)
(* inductive invariant holds.                                              *)
THEOREM Inductive == Spec => []IInv
BY InitIInv, StepIInv, PTL DEF Spec

(* The variables keep their types. *)
THEOREM TypeCorrect == Spec => []TypeOK
<1>1. IInv => TypeOK
  BY DEF IInv
<1> QED BY <1>1, Inductive, PTL

(* memory.c never gives one page to two callers. *)
THEOREM BlocksAreDisjoint == Spec => []NoOverlap
<1>1. IInv => NoOverlap
  BY DEF IInv
<1> QED BY <1>1, Inductive, PTL

(* The bitmap is exactly the kernel image and the live blocks. *)
THEOREM BitmapIsExact == Spec => []MapExact
<1>1. IInv => MapExact
  BY DEF IInv
<1> QED BY <1>1, Inductive, PTL

(* kfree finds the header that kmalloc wrote. *)
THEOREM HeadersSurvive == Spec => []HeaderIntact
<1>1. IInv => HeaderIntact
  BY DEF IInv
<1> QED BY <1>1, Inductive, PTL

(* Blocks stay in the region of their memory type. *)
THEOREM BlocksInRegion == Spec => []InRegion
<1>1. IInv => InRegion
  BY DEF IInv
<1> QED BY <1>1, Inductive, PTL

(* memory_mutex protects the bitmap and is lost only by a failed kmalloc.  *)
THEOREM MutexDiscipline == Spec => []MutexHeldOnce
<1>1. IInv => MutexHeldOnce
  BY DEF IInv
<1> QED BY <1>1, Inductive, PTL

-----------------------------------------------------------------------------
(* Every step of kmalloc and kfree is a step of the abstract lock or       *)
(* stutters: the calls, the acquires, and what leaves a critical section.  *)
LEMMA StepUsesLock ==
  ASSUME IInv, [Next]_vars
  PROVE  [Lk!LockNext]_([t \in Task |-> Where(t)])
<1> DEFINE abs == [t \in Task |-> Where(t)]
<1>1. pc \in [Task -> Label]
  BY DEF IInv, TypeOK
<1>2. ASSUME NEW t \in Task, NEW from, NEW to, pc[t] = from, Goto(t, to)
      PROVE  \A u \in Task : pc'[u] = IF u = t THEN to ELSE pc[u]
  BY <1>1, <1>2 DEF Goto
<1>3. ASSUME NEW t \in Task, NEW w, \A u \in Task : Where(u)' = IF u = t THEN w ELSE Where(u)
      PROVE  abs' = [abs EXCEPT ![t] = w]
  BY <1>3
<1>4. CASE UNCHANGED vars
  BY <1>4 DEF vars, Where, Inside
<1>5. ASSUME NEW t \in Task,
             \/ \E ty \in Types, size \in Sizes : Kmalloc(t, ty, size)
             \/ \E b \in held : Kfree(t, b[1])
      PROVE  Lk!Ask(t)
  <2>1. pc[t] = "idle" /\ (Goto(t, "m_acquire") \/ Goto(t, "f_acquire"))
    BY <1>5 DEF Kmalloc, Kfree
  <2>2. \A u \in Task : Where(u)' = IF u = t THEN "asking" ELSE Where(u)
    BY <2>1, <1>2 DEF Where, Inside
  <2>3. Where(t) = "outside"
    BY <2>1 DEF Where, Inside
  <2> QED BY <1>3, <2>2, <2>3 DEF Lk!Ask
<1>6. ASSUME NEW t \in Task,
             Acquire(t, "m_acquire", "m_find") \/ Acquire(t, "f_acquire", "f_clear")
      PROVE  Lk!Grant(t)
  <2>1. /\ memory_mutex = 0
        /\ \/ pc[t] = "m_acquire" /\ Goto(t, "m_find")
           \/ pc[t] = "f_acquire" /\ Goto(t, "f_clear")
    BY <1>6 DEF Acquire
  <2>2. \A u \in Task : Where(u)' = IF u = t THEN "inside" ELSE Where(u)
    BY <2>1, <1>2 DEF Where, Inside
  <2>3. Inside = {}
    BY <2>1 DEF IInv, MutexHeldOnce
  <2>4. Where(t) = "asking" /\ \A u \in Task : Where(u) # "inside"
    BY <2>1, <2>3 DEF Where
  <2> QED BY <1>3, <2>2, <2>4 DEF Lk!Grant
<1>7. ASSUME NEW t \in Task, Fail(t) \/ KmallocRelease(t) \/ KfreeRelease(t)
      PROVE  Lk!GiveBack(t)
  <2>1. /\ pc[t] \in {"m_find", "m_release", "f_release"}
        /\ Goto(t, "idle") \/ Goto(t, "m_header")
    BY <1>7 DEF Fail, KmallocRelease, KfreeRelease, Return
  <2>2. \A u \in Task : Where(u)' = IF u = t THEN "outside" ELSE Where(u)
    BY <2>1, <1>2 DEF Where, Inside
  <2>3. Where(t) = "inside"
    BY <2>1 DEF Where, Inside
  <2> QED BY <1>3, <2>2, <2>3 DEF Lk!GiveBack
<1>8. ASSUME NEW t \in Task,
             \/ Find(t) \/ Mark(t) \/ WriteHeader(t) \/ Stray(t) \/ Clear(t)
             \/ \E i \in Ram : KfreePanics(t, i)
      PROVE  UNCHANGED abs
  <2>1. \/ pc[t] = "m_find" /\ Goto(t, "m_mark")
        \/ pc[t] = "m_mark" /\ Goto(t, "m_release")
        \/ pc[t] = "m_header" /\ Goto(t, "idle")
        \/ pc[t] = "f_clear" /\ Goto(t, "f_release")
        \/ pc[t] = "idle" /\ Goto(t, "panic")
        \/ UNCHANGED pc
    BY <1>8 DEF Find, Mark, WriteHeader, Stray, Clear, KfreePanics, Return
  <2>2. \A u \in Task : Where(u)' = Where(u)
    BY <2>1, <1>2 DEF Where, Inside
  <2> QED BY <2>2
<1> QED BY <1>4, <1>5, <1>6, <1>7, <1>8 DEF Next, Proceed, Lk!LockNext

(* kmalloc and kfree keep to the protocol of the lock that mutex.h         *)
(* promises and mutex.S implements, also around a kmalloc that fails.      *)
THEOREM AllocatorUsesLock == Spec => UsesLock
<1>1. Init => Lk!LockInit
  BY DEF Init, Lk!LockInit, Where, Inside
<1>2. IInv /\ [Next]_vars => [Lk!LockNext]_([t \in Task |-> Where(t)])
  BY StepUsesLock
<1> QED
  BY <1>1, <1>2, Inductive, PTL DEF Spec, UsesLock, Lk!LockSpec, Where

-----------------------------------------------------------------------------
(* The pages that are no RAM are found last: all of memory_map comes first *)
(* in the scan, and the end of kernel memory is RAM.                       *)
LEMMA RamFirstWhileInv == IInv => RamIsUsedFirst
<1> SUFFICES ASSUME IInv, NEW t \in Task, pc[t] = "m_mark",
                    ~(PagesOf(page[t], num[t]) \subseteq Ram)
             PROVE  /\ type[t] = "USER_MEMORY"
                    /\ \A i \in ReservedPages .. RamPages - num[t] :
                         ~IsFree(memory_map, i, num[t])
  BY DEF RamIsUsedFirst
<1> DEFINE p == page[t]
           n == num[t]
<1>1. p \in Nat /\ n \in Nat /\ n >= 1 /\ type[t] \in MemoryType
  BY DEF IInv, TypeOK, RequestsNotEmpty, Page
<1>2. PICK behind \in BehindMap :
        FoundAt(p, memory_map \cup behind, n, First(type[t]), End(type[t]))
  BY DEF IInv, FoundIsCurrent
<1>3. p + n < End(type[t])
  BY <1>1, <1>2, FoundIsFree
<1>4. p + n > RamPages
  <2>1. ~(p .. p + n - 1 \subseteq 0 .. RamPages - 1)
    BY DEF PagesOf, Ram
  <2> QED BY <1>1, <2>1, AllocatorAssumption
<1>5. type[t] = "USER_MEMORY"
  BY <1>1, <1>3, <1>4, PagesAssumption, AllocatorAssumption DEF MemoryType, End
<1>6. ASSUME NEW i \in ReservedPages .. RamPages - n, IsFree(memory_map, i, n)
      PROVE  FALSE
  <2>1. i \in Nat /\ i + n <= RamPages /\ ReservedPages <= i
    BY <1>1, PagesAssumption, AllocatorAssumption
  <2>2. PagesOf(i, n) \subseteq Ram
    BY <1>1, <2>1, AllocatorAssumption DEF PagesOf, Ram
  <2>3. PagesOf(i, n) \cap behind = {}
    BY <2>2, RamBounds
  <2>4. IsFree(memory_map \cup behind, i, n)
    BY <1>6, <2>3 DEF IsFree
  <2>5. First(type[t]) = ReservedPages /\ End(type[t]) \in Nat
    BY <1>5, PagesAssumption DEF First, End
  <2>6. i \in First(type[t]) .. End(type[t]) - 1 /\ i + n < End(type[t])
    BY <1>1, <1>3, <1>4, <2>1, <2>5, PagesAssumption, AllocatorAssumption
  <2>7. i \in Candidates(memory_map \cup behind, n, First(type[t]), End(type[t]))
    BY <2>4, <2>6 DEF Candidates
  <2>8. p <= i
    BY <1>2, <2>7 DEF FoundAt
  <2> QED BY <1>1, <1>4, <2>1, <2>8, AllocatorAssumption
<1> QED BY <1>5, <1>6

(* memory.c takes pages that are no RAM only for user memory for which no  *)
(* RAM is left, and kernel memory never.                                   *)
THEOREM StraysComeLast == Spec => []RamIsUsedFirst
BY Inductive, RamFirstWhileInv, PTL

-----------------------------------------------------------------------------
(* First fit: kfree leaves the header of a block in its first page, and    *)
(* such a stale header never covers a page in use.  memory.c allocates     *)
(* first fit, so what is taken from a freed block is taken from its front, *)
(* and the header is then overwritten.                                     *)

(* Every header, stale or not, describes pages inside one region. *)
WithinRegion(i, n) ==
  \/ KernelPages <= i /\ i + n < ReservedPages
  \/ ReservedPages <= i /\ i + n <= MapPages

HeadersInRegion == \A i \in Ram : header[i] # 0 => WithinRegion(i, header[i])

(* Blocks whose header has been written and that are not free yet. *)
Entering == {t \in Task : pc[t] \in {"f_acquire", "f_clear"}}

Written == held \cup {Block(t) : t \in Entering}

(* The memset of kmalloc leaves one header in a block: its own. *)
NoInnerHeader ==
  \A b \in Written : \A i \in PagesOf(b[1], b[2]) \cap Ram : i # b[1] => header[i] = 0

SInv == IInv /\ HeadersInRegion /\ NoInnerHeader /\ StaleHeaderIsFree

LEMMA WrittenIsLive ==
  ASSUME NEW b \in Written
  PROVE  b \in Live
BY DEF Written, Live, Entering, InFlight

LEMMA InitSInv == Init => SInv
<1> SUFFICES ASSUME Init PROVE SInv
  OBVIOUS
<1>1. IInv
  BY InitIInv
<1>2. Written = {}
  BY DEF Init, Written, Entering
<1> QED BY <1>1, <1>2 DEF SInv, Init, HeadersInRegion, NoInnerHeader, StaleHeaderIsFree

(* Steps that leave bitmap and headers alone, and finish no kmalloc. *)
LEMMA QuietStep ==
  ASSUME SInv, UNCHANGED <<memory_map, header>>, Written' \subseteq Written
  PROVE  HeadersInRegion' /\ NoInnerHeader' /\ StaleHeaderIsFree'
BY DEF SInv, HeadersInRegion, NoInnerHeader, StaleHeaderIsFree

LEMMA QuietActions ==
  ASSUME SInv, NEW t \in Task,
         \/ \E ty \in Types, size \in Sizes : Kmalloc(t, ty, size)
         \/ \E i \in Ram : KfreePanics(t, i)
         \/ Acquire(t, "m_acquire", "m_find")
         \/ Acquire(t, "f_acquire", "f_clear")
         \/ Find(t) \/ Fail(t) \/ KmallocRelease(t) \/ KfreeRelease(t)
  PROVE  Written' \subseteq Written /\ UNCHANGED <<memory_map, header>>
<1> USE DEF Kmalloc, KfreePanics, Acquire, Find, Fail, KmallocRelease, KfreeRelease, Release,
       Return, Goto, locals, SInv, IInv
<1>1. UNCHANGED <<memory_map, header, held>>
  BY PanicKeepsHeld
<1>2. Entering' = Entering
  BY DEF TypeOK, Entering
<1>3. \A u \in Entering : page'[u] = page[u] /\ num'[u] = num[u]
  BY DEF TypeOK, Entering
<1>4. \A u \in Entering : Block(u)' = Block(u)
  BY <1>3 DEF Block
<1>5. {Block(u) : u \in Entering}' = {Block(u) : u \in Entering}
  BY <1>2, <1>4
<1> QED BY <1>1, <1>5 DEF Written

(* A freed block moves from held into kfree: no block becomes written. *)
LEMMA KfreeWritten ==
  ASSUME SInv, NEW t \in Task, NEW b \in held, Kfree(t, b[1])
  PROVE  Written' \subseteq Written /\ UNCHANGED <<memory_map, header>>
<1> USE DEF Kfree, Goto, SInv, IInv
<1>1. b = <<b[1], header[b[1]]>>
  BY DEF TypeOK, HeaderIntact
<1>2. Entering' = Entering \cup {t} /\ t \notin Entering
  BY DEF TypeOK, Entering
<1>3. Block(t)' = b /\ \A u \in Entering : Block(u)' = Block(u)
  BY <1>1, <1>2 DEF Block, TypeOK
<1>4. \A c \in {Block(u) : u \in Entering}' : c = b \/ \E u \in Entering : c = Block(u)
  BY <1>2, <1>3
<1>5. held' \subseteq held
  OBVIOUS
<1> QED BY <1>4, <1>5 DEF Written

(* First fit at work: a run that begins inside a stale block would have    *)
(* been found where that block begins.                                     *)
LEMMA MarkKeepsStale ==
  ASSUME SInv, NEW t \in Task, Mark(t)
  PROVE  HeadersInRegion' /\ NoInnerHeader' /\ StaleHeaderIsFree'
<1> USE DEF Mark, Goto, locals, SInv, IInv
<1>1. Written' \subseteq Written /\ UNCHANGED header
  <2>1. Entering' = Entering
    BY DEF TypeOK, Entering
  <2> QED BY <2>1 DEF Written, Block
<1>2. HeadersInRegion' /\ NoInnerHeader'
  BY <1>1 DEF HeadersInRegion, NoInnerHeader
<1> DEFINE p == page[t]
           n == num[t]
           s == First(type[t])
           e == End(type[t])
<1>3. /\ p \in Page /\ n \in Nat /\ n >= 1 /\ type[t] \in MemoryType
      /\ s \in Nat /\ e \in Nat /\ e <= MemoryTotal
  <2>1. p \in Page /\ n \in Nat /\ n >= 1 /\ type[t] \in MemoryType
    BY DEF TypeOK, RequestsNotEmpty
  <2> QED BY <2>1, RegionBounds
<1>4. PICK behind \in BehindMap : FoundAt(p, memory_map \cup behind, n, s, e)
  BY DEF FoundIsCurrent
<1>5. PagesOf(p, n) \subseteq Bit /\ behind \cap Bit = {}
  BY RamBounds
<1>6. s <= p /\ p + n < e /\ PagesOf(p, n) \cap memory_map = {}
  BY <1>3, <1>4, FoundIsFree
<1>7. \A k \in Candidates(memory_map \cup behind, n, s, e) : p <= k
  BY <1>4 DEF FoundAt
<1>8. ASSUME NEW i \in Ram, header'[i] # 0, i \notin memory_map'
      PROVE  IsFree(memory_map', i, header'[i])
  <2> DEFINE h == header[i]
  <2>1. header'[i] = h /\ h \in Nat /\ h # 0 /\ i \in Int /\ i >= 0 /\ p \in Int /\ p >= 0
    <3>1. \A k \in Ram : k \in Int /\ k >= 0
      BY DEF Ram
    <3>2. header[i] \in Nat /\ p \in Int /\ p >= 0
      BY <1>3 DEF TypeOK, Page
    <3> QED BY <1>1, <1>8, <3>1, <3>2
  <2>2. i \notin memory_map /\ i \notin PagesOf(p, n)
    BY <1>8
  <2>3. PagesOf(i, h) \cap memory_map = {}
    BY <2>1, <2>2 DEF StaleHeaderIsFree, IsFree
  <2>4. WithinRegion(i, h)
    BY <2>1 DEF HeadersInRegion
  <2>5. ASSUME NEW k \in PagesOf(i, h), k \in PagesOf(p, n)
        PROVE  FALSE
    <3>1. i < p /\ p < i + h
      BY <1>3, <2>1, <2>2, <2>5 DEF PagesOf
    <3>2. PagesOf(i, n) \subseteq PagesOf(i, h) \cup PagesOf(p, n)
      BY <1>3, <2>1, <3>1 DEF PagesOf
    <3>3. PagesOf(i, n) \cap behind = {}
      <4>1. p + n - 1 \in PagesOf(p, n)
        BY <1>3 DEF PagesOf, Page
      <4>2. p + n - 1 \in Bit
        BY <4>1, <1>5
      <4>3. PagesOf(i, n) \subseteq Bit
        BY <1>3, <2>1, <3>1, <4>2, AllocatorAssumption DEF PagesOf, Bit
      <4> QED BY <4>3, <1>5
    <3>4. IsFree(memory_map \cup behind, i, n)
      BY <1>6, <2>3, <3>2, <3>3 DEF IsFree
    <3>5. s <= i
      BY <1>3, <1>6, <2>1, <2>4, <3>1, PagesAssumption
         DEF WithinRegion, First, End, MemoryType
    <3>6. i + n < e /\ i < e
      BY <1>3, <1>6, <2>1, <3>1
    <3>7. i \in Candidates(memory_map \cup behind, n, s, e)
      BY <1>3, <2>1, <3>4, <3>5, <3>6 DEF Candidates
    <3> QED BY <1>7, <2>1, <3>1, <3>7
  <2> QED BY <2>1, <2>3, <2>5 DEF IsFree
<1> QED BY <1>2, <1>8 DEF StaleHeaderIsFree

LEMMA WriteHeaderKeepsStale ==
  ASSUME SInv, NEW t \in Task, WriteHeader(t)
  PROVE  HeadersInRegion' /\ NoInnerHeader' /\ StaleHeaderIsFree'
<1> USE DEF WriteHeader, Return, Goto, SInv, IInv
<1>1. /\ t \in InFlight /\ Block(t) \in Live
      /\ num[t] \in Nat /\ num[t] >= 1 /\ page[t] \in Ram
      /\ page[t] \in PagesOf(page[t], num[t])
  <2>1. t \in InFlight /\ num[t] \in Nat /\ num[t] >= 1 /\ page[t] \in Page
    BY DEF InFlight, TypeOK, RequestsNotEmpty
  <2>2. page[t] \in PagesOf(page[t], num[t])
    BY <2>1 DEF PagesOf, Page
  <2> QED BY <2>1, <2>2 DEF Live
<1>2. PagesOf(page[t], num[t]) \subseteq memory_map
  BY <1>1 DEF MapExact, Block
<1>3. HeadersInRegion'
  <2>1. WithinRegion(page[t], num[t])
    BY <1>1 DEF InRegion, WithinRegion, Block
  <2> QED BY <1>1, <2>1 DEF HeadersInRegion, TypeOK
<1>4. StaleHeaderIsFree'
  <2>1. \A i \in Ram : i \notin memory_map => header'[i] = header[i]
    BY <1>1, <1>2 DEF TypeOK
  <2> QED BY <2>1 DEF StaleHeaderIsFree
<1>5. Written' \subseteq Written \cup {Block(t)}
  <2>1. Entering' = Entering /\ t \notin Entering
    BY DEF TypeOK, Entering
  <2>2. \A u \in Entering : Block(u)' = Block(u)
    BY <2>1 DEF Block, TypeOK, Entering
  <2>3. {Block(u) : u \in Entering}' = {Block(u) : u \in Entering}
    BY <2>1, <2>2
  <2> QED BY <2>3 DEF Written, Block
<1>6. \A i \in Ram : \/ header'[i] = header[i]
                     \/ header'[i] = 0
                     \/ i = page[t]
  OBVIOUS
<1>7. ASSUME NEW b \in Written', NEW i \in PagesOf(b[1], b[2]) \cap Ram, i # b[1]
      PROVE  header'[i] = 0
  <2>1. CASE b = Block(t)
    <3>1. i \in PagesOf(page[t], num[t]) /\ i # page[t]
      BY <1>7, <2>1 DEF Block
    <3> QED BY <1>7, <3>1
  <2>2. CASE b # Block(t) /\ b \in Written
    <3>1. header[i] = 0 /\ b \in Live
      BY <1>7, <2>2, WrittenIsLive DEF NoInnerHeader
    <3>2. i # page[t]
      BY <1>1, <1>7, <2>2, SMTT(30) DEF NoOverlap, Overlap, Block, Written, Entering, InFlight
    <3> QED BY <1>6, <1>7, <3>1, <3>2
  <2> QED BY <1>5, <1>7, <2>1, <2>2
<1> QED BY <1>3, <1>4, <1>7 DEF NoInnerHeader

(* The block that becomes free has one header, and is free as a whole. *)
LEMMA ClearKeepsStale ==
  ASSUME SInv, NEW t \in Task, Clear(t)
  PROVE  HeadersInRegion' /\ NoInnerHeader' /\ StaleHeaderIsFree'
<1> USE DEF Clear, Goto, locals, SInv, IInv
<1>1. Written' \subseteq Written /\ UNCHANGED header
  <2>1. Entering' \subseteq Entering
    BY DEF TypeOK, Entering
  <2> QED BY <2>1 DEF Written, Block
<1>2. HeadersInRegion' /\ NoInnerHeader'
  BY <1>1 DEF HeadersInRegion, NoInnerHeader
<1>3. header[page[t]] = num[t] /\ Block(t) \in Written
  BY DEF FreedHeaderIntact, Written, Entering
<1>4. \A i \in PagesOf(page[t], num[t]) \cap Ram : i # page[t] => header[i] = 0
  BY <1>3 DEF NoInnerHeader, Block
<1>5. ASSUME NEW i \in Ram, header[i] # 0, i \notin memory_map'
      PROVE  IsFree(memory_map', i, header[i])
  <2>1. CASE i \in PagesOf(page[t], num[t])
    BY <1>3, <1>4, <1>5, <2>1 DEF IsFree
  <2>2. CASE i \notin PagesOf(page[t], num[t])
    BY <1>3, <1>5, <2>2 DEF StaleHeaderIsFree, IsFree
  <2> QED BY <2>1, <2>2
<1> QED BY <1>1, <1>2, <1>5 DEF StaleHeaderIsFree

LEMMA StepSInv == SInv /\ [Next]_vars => SInv'
<1> SUFFICES ASSUME SInv, [Next]_vars PROVE SInv'
  OBVIOUS
<1>1. IInv'
  BY StepIInv DEF SInv
<1> DEFINE Goal == HeadersInRegion' /\ NoInnerHeader' /\ StaleHeaderIsFree'
<1>2. ASSUME NEW t \in Task, NEW ty \in Types, NEW size \in Sizes,
             Kmalloc(t, ty, size)
      PROVE  Goal
  BY <1>2, QuietActions, QuietStep
<1>3. ASSUME NEW t \in Task, NEW b \in held, Kfree(t, b[1])
      PROVE  Goal
  BY <1>3, KfreeWritten, QuietStep
<1>4. ASSUME NEW t \in Task, NEW i \in Ram, KfreePanics(t, i)
      PROVE  Goal
  BY <1>4, QuietActions, QuietStep
<1>5. ASSUME NEW t \in Task, Proceed(t)
      PROVE  Goal
  <2>1. CASE Mark(t)
    BY <2>1, MarkKeepsStale
  <2>2. CASE WriteHeader(t)
    BY <2>2, WriteHeaderKeepsStale
  <2>3. CASE Clear(t)
    BY <2>3, ClearKeepsStale
  <2>4. CASE Stray(t)
    <3>1. Written' = Written /\ UNCHANGED <<memory_map, header>>
      BY <2>4 DEF Stray, locals, Written, Entering, Block
    <3> QED BY <3>1, QuietStep
  <2>5. CASE \/ Acquire(t, "m_acquire", "m_find")
             \/ Acquire(t, "f_acquire", "f_clear")
             \/ Find(t) \/ Fail(t) \/ KmallocRelease(t) \/ KfreeRelease(t)
    BY <2>5, QuietActions, QuietStep
  <2> QED BY <1>5, <2>1, <2>2, <2>3, <2>5, <2>4 DEF Proceed
<1>6. ASSUME UNCHANGED vars
      PROVE  Goal
  <2>1. Written' = Written /\ UNCHANGED <<memory_map, header>>
    BY <1>6 DEF vars, Written, Entering, Block
  <2> QED BY <2>1, QuietStep
<1> HIDE DEF Goal
<1>7. Goal
  BY <1>2, <1>3, <1>4, <1>5, <1>6 DEF Next
<1> QED BY <1>1, <1>7 DEF SInv, Goal

(* A header that kfree left behind describes free pages, for every number  *)
(* of tasks and every size of memory.                                      *)
THEOREM StaleHeadersAreHarmless == Spec => []StaleHeaderIsFree
<1>1. SInv => StaleHeaderIsFree
  BY DEF SInv
<1> QED BY <1>1, InitSInv, StepSInv, PTL DEF Spec

-----------------------------------------------------------------------------
(* The critical sections come to an end. *)

(* find_free_memory stops at a page or returns -1. *)
ScanDecides ==
  \A t \in Task, behind \in BehindMap : pc[t] = "m_find" =>
    LET map == memory_map \cup behind IN
      \/ Candidates(map, num[t], First(type[t]), End(type[t])) = {}
      \/ \E i \in Page : FoundAt(i, map, num[t], First(type[t]), End(type[t]))

(* The steps of a task until it is outside. *)
LeftInside(t) ==
  CASE pc[t] = "m_find" -> 3
    [] pc[t] \in {"m_mark", "f_clear"} -> 2
    [] pc[t] \in {"m_release", "f_release"} -> 1
    [] OTHER -> 0

(* Somebody has the mutex, or had it when kmalloc failed. *)
HolderGoesOn ==
  memory_mutex = 1 /\ ~failed => \E t \in Task : Inside = {t} /\ LeftInside(t) \in 1 .. 3

LEMMA LowestCandidate ==
  ASSUME NEW map, NEW n \in Nat, NEW ty \in MemoryType,
         Candidates(map, n, First(ty), End(ty)) # {}
  PROVE  \E i \in Page : FoundAt(i, map, n, First(ty), End(ty))
<1> DEFINE C == Candidates(map, n, First(ty), End(ty))
<1>1. C \subseteq Page /\ C \subseteq Nat
  BY PagesAssumption DEF Candidates, First, End, Page, MemoryType
<1>2. C # {}
  OBVIOUS
<1> HIDE DEF C
<1>3. PICK i \in C : \A k \in C : i <= k
  BY <1>1, <1>2, LeastElement
<1> QED BY <1>1, <1>3 DEF FoundAt, C

LEMMA GoesOnWhileInv ==
  ASSUME IInv
  PROVE  ScanDecides /\ HolderGoesOn
<1>1. ScanDecides
  BY LowestCandidate DEF ScanDecides, IInv, TypeOK
<1>2. ASSUME memory_mutex = 1, ~failed
      PROVE  \E t \in Task : Inside = {t} /\ LeftInside(t) \in 1 .. 3
  <2>1. PICK t \in Inside : Inside = {t}
    BY <1>2 DEF IInv, MutexHeldOnce
  <2>2. LeftInside(t) \in 1 .. 3
    BY <2>1 DEF Inside, LeftInside
  <2> QED BY <2>1, <2>2 DEF Inside
<1> QED BY <1>1, <1>2 DEF HolderGoesOn

(* Inside, a task has nothing to do but its own next step. *)
LEMMA StepInsideIsLess ==
  ASSUME IInv, Next, NEW t \in Task, t \in Inside, pc'[t] # pc[t]
  PROVE  LeftInside(t)' < LeftInside(t)
<1>1. pc \in [Task -> Label]
  BY DEF IInv, TypeOK
<1>2. PICK u \in Task :
        \/ \E ty \in Types, size \in Sizes : Kmalloc(u, ty, size)
        \/ \E b \in held : Kfree(u, b[1])
        \/ \E i \in Ram : KfreePanics(u, i)
        \/ Proceed(u)
  BY DEF Next
<1>3. \A v \in Task \ {u} : pc'[v] = pc[v]
  BY <1>1, <1>2 DEF Kmalloc, Kfree, KfreePanics, Proceed, Acquire, Find, Fail, Mark,
     KmallocRelease, WriteHeader, Stray, Clear, KfreeRelease, Return, Goto
<1>4. u = t
  BY <1>3
<1>5. \/ pc[t] = "m_find" /\ pc'[t] \in {"m_mark", "idle"}
      \/ pc[t] = "m_mark" /\ pc'[t] = "m_release"
      \/ pc[t] = "m_release" /\ pc'[t] = "m_header"
      \/ pc[t] = "f_clear" /\ pc'[t] = "f_release"
      \/ pc[t] = "f_release" /\ pc'[t] = "idle"
  BY <1>1, <1>2, <1>4 DEF Inside, Kmalloc, Kfree, KfreePanics, Proceed, Acquire, Find, Fail,
     Mark, KmallocRelease, WriteHeader, Stray, Clear, KfreeRelease, Return, Goto
<1> QED BY <1>5 DEF LeftInside

(* find_free_memory always comes to a page or to the end of the region,    *)
(* and whoever has memory_mutex needs at most three more steps, which no   *)
(* other task adds to: then it is given back, or kmalloc has failed.       *)
THEOREM CriticalSectionsEnd ==
  Spec => /\ [](ScanDecides /\ HolderGoesOn)
          /\ [][\A t \in Task : t \in Inside /\ pc'[t] # pc[t]
                                  => LeftInside(t)' < LeftInside(t)]_vars
<1>1. IInv => ScanDecides /\ HolderGoesOn
  BY GoesOnWhileInv
<1>2. IInv /\ [Next]_vars =>
        [\A t \in Task : t \in Inside /\ pc'[t] # pc[t]
                           => LeftInside(t)' < LeftInside(t)]_vars
  BY StepInsideIsLess
<1> QED BY <1>1, <1>2, Inductive, PTL DEF Spec
=============================================================================
