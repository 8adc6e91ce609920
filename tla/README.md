# Verification of d2os in TLA+

d2os is a small kernel for the Raspberry Pi 2 (ARM Cortex-A7, BCM2836) in C and
assembler, without tests or documents: what it is meant to do is said by its
code, its comments and the messages it prints. This directory holds TLA+ models
of its parts, their model checking with TLC, and proofs with TLAPS.
`PROJECT.json` lists every run, property, theorem, hazard and finding, and maps
each definition to the lines it models.

## The system

| component | state | operations | hard behaviour |
|---|---|---|---|
| mutex (`arch/arm/mutex.S`) | a word; per core a monitor and an event register | `arch_mutex_acquire`, `arch_mutex_release` | two cores between `ldrex` and `strex`; an event sent before the `wfe` |
| page allocator (`mm/memory.c`) | `memory_map`, `memory_mutex`, a header in front of each block | `memory_init`, `kmalloc`, `kfree` | several callers; failure; double free; ends of regions |
| tasks and scheduler (`process/`, `interrupt.S`) | task list, `current_task`, `preempt` and `counter` per task, saved contexts | `create_kernel_task`, `schedule`, `disable_preempt`, `enable_preempt`, `arch_switch_task`, `return_from_fork` | counts that are raised by one task and lowered by another; starvation; failing `kmalloc` |
| interrupt dispatch and boot (`arch/arm/main.c`, `interrupt.c`, `drivers/interrupt`) | pointers to managers, handler table, enabled lines | `arch_kernel_main`, `set_interrupt_handler`, `arch_kernel_irq_handler` | interrupts are on long before the boot is over |
| interrupt entry and exit (`interrupt.S`) | registers, one save slot, a frame on the stack | `_irq_handler_asm`, `_irq_handler_svc` | any code may be interrupted anywhere |
| timer (`drivers/timer`) | compare register, match | `init_bcm_2835_timer`, `timer_interrupt_handler` | the handler alone sets the next match; a match from before the kernel |
| UART and console (`drivers/serial`, `utils/printk.c`) | FIFOs, interrupt status, `stdout_putf` | `printk`, `uart_putc`, `uart0_interrupt_handler`, `uart_init` | printing from a handler that interrupts printing; bytes that arrive while the handler ends |
| formatting (`utils/printk.c`) | position in the format, arguments, two buffers | `tfp_format`, `a2i`, `ui2a`, `i2a`, `putbin`, `putchw` | largest and smallest numbers, padding, ends of buffers and formats |
| boot loader tags (`arch/arm/atags`) | `atag_info` | `atags_detect` | lists written by somebody else |
| command line (`arch/arm/atags`) | none | `parse_cmdline_int` | keys and values at the end of the line |
| page table and MMU (`arch/arm/memory.c`) | `page_table`, coprocessor registers | `arch_pagetable_init`, `arch_mmu_init` | loops that overwrite each other; order of the steps |
| GPIO (`drivers/gpio`) | registers, pads | `set_direction`, `set_pull` | a sequence of writes; pins and bits |
| idle task (`process/idle.c`) | none | prints, `wfi` | a handler that prints in between |
| startup (`boot.S`), `panic`, clock, MMIO helpers | | | not modelled: see the end |

How they interact. `boot.S` clears bss and calls `arch_kernel_main`, which
reads the boot loader's tags, sets the two interrupt controllers, the timer and
the UART up and calls `kernel_main`: `init_printk`, `memory_init` (bitmap, page
table, MMU), one `create_kernel_task` for the idle task, `schedule`. From then
on the idle task prints and waits; interrupts run their handlers on its stack.
`memory_total` comes from the tags and goes to the allocator and the page
table. `create_kernel_task` calls `kmalloc`; `kmalloc` and `create_kernel_task`
use the mutex; handlers and tasks share the UART through `printk`.

Who runs concurrently. Three cores are parked in `boot.S`, so only core 0 runs
the kernel, and no handler calls `schedule` (`bcm_2835_timer.c:27` is a
comment). The concurrency of this kernel is therefore: interrupt handlers with
the code they interrupt, and devices with both. The mutex and the allocator
that relies on it are written for several cores (`ldrex`/`strex`, `wfe`/`sev`,
"PER CPU" in `schedule.c:5`), and modelled as what they promise their callers:
any number of them.

## Modules

| module | models | made of |
|---|---|---|
| `Lock` | what `kernel/mutex.h` promises | abstract specification |
| `Mutex` | `mutex.S` | an action for each access that cores share; implements `Lock` |
| `Pages` | page arithmetic of `memory.c` | operators |
| `Allocator` | `kmalloc`, `kfree`, `memory_init` | extends `Pages`; `memory_mutex` is a lock as in `Lock` |
| `Scheduler` | `task.c`, `schedule.c`, the context switch | extends `Pages` for the `kmalloc` of tasks |
| `Console` | `printk` down to `uart_putc`, from two contexts | component |
| `Gpio` | `set_direction`, `set_pull` | component |
| `Interrupts` | boot, dispatch, timer, UART reception, idle task | extends `Console` and `Gpio`: who prints, and who sets pins up |
| `IrqEntry` | `_irq_handler_asm`, `_irq_handler_svc` | registers and frame |
| `Cmdline` | `parse_cmdline_int` | loops, against a definition without loops |
| `Atags` | `atags_detect` | extends `Cmdline`, which it calls for three keys |
| `PageTable` | `arch_pagetable_init`, `arch_mmu_init` | |
| `Boot` | `atags_detect`, then `memory_init` | composes `Atags` and `PageTable` |
| `Format` | `ui2a`, `i2a`, `putbin`, `putchw` | component |
| `Printk` | `tfp_format`, `a2i` | extends `Format`; against what the pieces of a format mean |
| `MutexProofs`, `AllocatorProofs`, `SchedulerProofs`, `InterruptsProofs`, `IrqEntryProofs`, `BootProofs`, `PrintkProofs` | theorems about the above | each extends its module |
| `NatFacts` | induction, recursive functions, minima, quotients | cited by `AllocatorProofs`, `BootProofs` and `PrintkProofs` |
| `MC...` | constants for TLC | |

A definition whose comment calls it *faulty* is not part of a specification: it
is the code with a plausible mistake, and stands next to the definition it is a
variant of. Replacing one by the other must make a run fail; `PROJECT.json`
lists, for every property, the variant that violates it.

### Correspondence

* **Mutex.** `mutex` is the `mutex_t`, `monitor[c]` and `event[c]` the
  exclusive monitor and event register of core c. `Ldrex` includes the compare
  and branch behind it, and so on; `Interrupt` clears a monitor and ends a
  `wfe`, so nothing depends on a reservation surviving. `dmb` orders one core's
  accesses, which here is their order in the program; weaker orders between
  accesses to the protected data are not modelled.
* **Allocator.** `memory_map` is the set of used pages. `header[i]` is what
  stands behind a `MEMORY_MAGIC` at the start of page i: `memset` of a new block
  clears old ones, `kfree` leaves its own. `held` and `failed` are history for
  the properties. One action lies between any two points where another caller
  could look: acquire, scan, mark, release, header. The end of user memory is a
  number of bytes (see "What the models pin down"), so the scan reaches pages
  that have no bit in `memory_map` (`Bit`) and pages that are no RAM (`Ram`).
  What it reads behind `memory_map` may be anything (`BehindMap`). Marking such
  a page overwrites other variables, and writing its header goes to no memory:
  `Stray` sets `lost`, and the model ends there, because what the kernel does
  from then on its code does not say. Every property of the allocator is about
  the kernel up to that write, and a page that has a bit has an address that does
  not wrap around (`AllocatorAssumption`).
  A second `kfree` of a block is no action either: `StaleHeaderIsFree` says in
  which states it would do nothing, and in the others (its first page is
  allocated between the check of the magic and the loop) it takes the pages of
  somebody's block away, which no caller can want.
* **Scheduler.** A task is the page of its `kernel_task_t`. `list` is the chain
  of `next` pointers, `last_task` the variable; they can part, after a failed
  `kmalloc` has made `last_task` NULL. `nest` counts a task's own calls of
  `disable_preempt`. `pc` is where a suspended task goes on. As nothing else
  runs, an action is what happens between two points where another context may
  continue.
* **Interrupts.** `boot` steps through `arch_kernel_main`, the drivers' init
  functions, `kernel_main` and `idle_task`, one step per write a handler could
  notice. A call through a pointer that is not set is a `fault`: `device` for a
  manager, the GPIO or the serial device, `printk` for `stdout_putf`. `irq`
  steps through `arch_kernel_irq_handler` with interrupts masked. `armed` says
  that the counter is on its way to the compare register, `match` is
  `timer3_matched`. `Line`, `Receive`, `Send`, `TimerMatches` are the devices,
  from how the drivers use them. What `kernel_main` does between its two prints
  (`memory_init`, `create_kernel_task`, `schedule`) no handler can see.
* **Console.** A string is a number of characters; `pc[c]` is where context c
  is in `uart_putc`, between the test of TXFF and the write to DR. The main flow
  (`task`) is stopped while the handler (`irq`) runs.
* **Gpio.** A register is kept as what its fields say of each pin. `set_pull` is
  four writes; a pad takes its pull when its clock bit goes up, which is what
  the order of the writes is for. The fields of the other pins are there to show
  which pads a write reaches.
* **IrqEntry.** The interrupted code does anything (`Execute`). `interrupted`
  remembers what it was, for the properties. The C handler may change what the
  calling convention lets it change.
* **Boot.** One program counter goes through `atags_detect` (`Atags`: one
  action per round of its loop; `Cmdline`: one per round of the loops of
  `parse_cmdline_int`) and through `memory_init` (`PageTable`: one per loop of
  `arch_pagetable_init`, one per register of `arch_mmu_init`). `ramsize` is the
  argument of `arch_pagetable_init`, in bytes. `atags.c:6` defines `printk` as
  nothing, so the warnings of `atags_detect` are no steps. `Continue` is the first instruction that is fetched
  through the table. The drivers that `arch_kernel_main` sets up in between are
  in `Interrupts`.
* **Format.** Sequential loops, one action per round, with the locals of `ui2a`
  as variables. `Word` is 2^32, so that all arithmetic is modular. `bf` and
  `buf` are the characters in them; `BehindBuf` is what follows `buf` on the
  stack, up to a NUL.
* **Printk.** `p` is `fmt`, an index into the format and what follows it in
  memory; `ch`, `lz`, `w` are the locals; `va` counts the arguments taken. A
  format is given as pieces (a character, or a directive with its argument),
  from which its text is made and from which `Meant` says what it should print
  without scanning it.

## Runs

Bounds are the constants of each `.cfg`; nothing else limits a run except the
counters named "bound" in the modules.

| run | what it shows | bounds and why they are enough |
|---|---|---|
| `MCMutex` | exclusion, no lost wakeup, refinement of `Lock`, somebody always gets the mutex | 4 cores, the machine's number: holder, sleeper, and two that race |
| `MCAllocator` | blocks, bitmap, headers, stale headers; the mutex is given back; what is given outside RAM, and when | 2 tasks; 2 pages of kernel and 2 of user memory can be used, blocks of 1 and 2: fragmentation, exhaustion, a failed `kmalloc` with another task waiting; then 2 pages that have a bit and are no RAM, and 4 behind `memory_map`: a block may lie in each, or across two; every content of the memory behind `memory_map` |
| `MCScheduler` | counts, list, starvation, exception vectors; `schedule` ends | tasks until memory is used up (5), nesting 2: one more than needed to tell own calls from `schedule`'s |
| `MCInterrupts` | pointers in time; no receive interrupt or tick lost; order of the output, bounded loss; handlers and every `printk` end | transmit FIFO of 2, strings of 2: it fills inside and outside the handler; receive FIFO of 4 with trigger 3, 6 bytes: two fillings; a tick, and a match left from before the kernel; any lines left enabled, none of them asserted; pins 0-4, 14, 15: those meant, those reached, one of neither |
| `MCIrqEntry` | the frame, what survives | 2 values, enough to tell two registers or two instructions apart; r4 stands for r4-r11 |
| `MCBoot` | what the tags and the command line leave in `atag_info`; the table; which lists boot | all lists of 2 tags, and of 3 with memory and command lines in any order: two of a kind with a third anywhere; about 2500 lines over 6 characters, with keys one of which ends the others; memory that ends before, at, inside and behind the peripherals, also in the middle of a section |
| `MCPrintk` | formats print what they mean; buffers, the power of the base and the end of the format | all numbers in one directive, and all formats of up to 3 of 16 pieces, the last one possibly unfinished; 9 bits: the largest hexadecimal and decimal numbers stop at different distances from the next power, as 32 bits do |

Runs that find a violation show what the code does where a comment or a message
says something else:

| run | property | the code |
|---|---|---|
| `MCAllocatorFailed` | `FailureIsReported` | `memory.c:173` returns with `memory_mutex` taken |
| `MCSchedulerStack` | `StacksAreApart` | `task.c:18` adds `PAGE_SIZE` tasks, not bytes |
| `MCInterruptsEarly` | `PrintkIsReady` | the UART interrupt is on before `init_printk`: a receive FIFO that fills to its trigger before that makes the handler print |
| `MCInterruptsPull` | `PullReachesPins` | `bcm_2835_gpio.c:57` ors the pin's number, not its bit: 14 is the bits 1, 2, 3 and 15 the bits 0 to 3 |
| `MCIrqEntryRestore` | `RestoresR0ToR12` | `interrupt.S:123` loads two registers; r1 and r3 keep the spsr and the frame's address (`:115-116`) |

`CHECK_DEADLOCK FALSE` stands in the configurations of systems that stop, with
the reason; `MCMutex` does check deadlock.

### What the models pin down

Other places where the code does something a reader would not expect. The
models contain them as they are, and the properties named say what still holds:

* `memory.c:113` accepts a run of pages only if it ends before the region's last
  page, which is never used; a `kmalloc` fails while it is free
  (`VectorsOutliveMemory`, of the kernel's region, names the last page it uses).
* `memory.c:160` takes `memory_total`, a number of bytes, as the number of the
  page where user memory ends: the scan runs over bits behind `memory_map`, and
  hands out pages behind the end of the RAM. `RamIsUsedFirst` says when: for
  user memory only, when no run of RAM pages is free for the request, which is
  where `kmalloc` should fail. `set_memory_used` then writes to other variables
  (`:74`), and the page's address wraps around from page 2^20 on (`:181`): the
  other properties say nothing of what comes after.
* `memory.c:197`: `kfree` does not clear the magic it checks. A block freed
  twice is accepted, and frees nothing until its first page is allocated again
  (`StaleHeaderIsFree`).
* `bcm_2835_uart.c:17`: `uart_putc` checks for room and then writes; a handler
  that prints in between takes the room (`LossIsBounded`).
* `atags.c:251`: a tag the walk does not know is not stepped over, and is looked
  at for ever (`Boots`). Memory that does not start at 0 is taken as if it did.
  A list without memory is taken as it is; the kernel then unmaps its own
  section and is gone when it turns the MMU on (`MmuIsReady`).
* `bcm_2835_gpio.c:42`: making a pin an input changes nothing, as no bit is
  cleared. `uart_init` asks for it for the UART's own pins, which stay the
  UART's for this reason. (No property: it would restate `SetDirection`.)
* `atags.c:134` reads two characters behind the line's NUL when a key ends the
  line. If `0x` stands there the index goes two further, and no value is read in
  any case (`TypeOK`, `LastCounts`).
* `bcm_2835_gpio.c:32`: the clock register is GPPUDCLK0 for every pin.
* `bcm_2835_timer.c:40` unmasks the timer's line without clearing a match the
  firmware may have left. Its handler then runs during the boot, sets the first
  match early (`TimerGoesOn`), and prints before `init_printk`.
* `memory.c:170` in `arch/arm`: "Setting TTBCR" writes TTBR0 (`asm.h:51`);
  TTBCR, which is `c2, c0, 2`, is never written. `MmuIsReady` holds because
  TTBR0 is written again.
* `mmu.h:71`: the access bits of `SECTION_KERNEL` (ap 3, apx 0) let user mode
  read and write; the comment at `arch/arm/memory.c:32` says supervisor only.
* `arch/arm/memory.c:68` maps the peripherals like memory, write-back and
  executable, although `mmu.h:102` has `SECTION_PERIPH` for them.
* `printk.c:97` puts the padding in front of all of `bf`: `%05d` of -12 is
  `00-12`; `:81` takes the letter a for a digit in a width; `:121` leaves the
  bits of `%b` without a NUL, and what stands behind them is printed too; `:149`
  ends the switch and not the loop at a NUL within a directive, and the scan
  goes on behind the format (`PrintsFormat`).

### Fairness

* `Mutex`: weak fairness of what a core does by itself: it executes its
  instructions, and critical sections are finite. Strong fairness of the `strex`
  that stores: another core's store, or an interrupt, can take a reservation
  away again and again, and the architecture promises only that somebody
  succeeds. Calling and being interrupted are never required.
* `Allocator`, `Scheduler`, `Boot`: the core executes its instructions.
* `Interrupts`: the core executes the main flow and the handlers and takes
  pending interrupts, and the UART sends. `IrqEnds` and `PrintkReturns` depend
  on bounded input (`RxBytes`, `Ticks`): the handler drains the FIFO in a loop,
  and a sender that never pauses could keep it there, as endless interrupts
  could keep the main flow from going on.

## Proofs

The proofs hold for every value of the constants that satisfies the named
assumptions.

* **MutexProofs** (no assumption; any set of cores). The invariant adds to the
  properties that the word is 1 exactly while some core is critical, and that a
  core at `strex` with its monitor set still sees a free word. Exclusion: the
  core that stores finds the word 0, so nobody is critical. Wakeup: a core goes
  to `wfe` only when the word is 1, so the holder's `sev` is still to come. The
  refinement needs the invariant for `Grant` only.
* **AllocatorProofs** (`PagesAssumption`, `AllocatorAssumption`). The invariant
  `IInv` consists of types, disjoint live blocks, an exact bitmap, headers,
  regions, the discipline of the mutex, and what `page` and `num` mean between
  two steps. It is needed whole: the scan finds only free pages, which are
  pages of nobody only if the bitmap is exact; the bitmap stays exact under
  `kfree` only if headers say what was allocated and blocks are disjoint;
  headers survive another caller's `memset` only if blocks are disjoint. One
  lemma per action. `RequestFits` says when the rounding up to pages is right.
  `AllocatorUsesLock` composes it with the mutex: seen through `Where`, each
  step of `kmalloc` and `kfree` is one of `Lock`, which `Mutex` implements. A
  `kmalloc` that fails maps to leaving the lock; that the word stays taken is
  `MutexHeldOnce`. `StraysComeLast` is about the end of user memory: a page
  outside RAM is the lowest candidate only if no run in RAM is one, whatever is
  read behind `memory_map`, and kernel memory ends inside RAM.
  The last part of the module is first fit: a second invariant, on top of
  `IInv`, adds that every header, stale or not, describes pages of one region,
  and that a live block contains no header but its own. If a new block began inside the free pages behind a stale
  header, the header's own page would have been a lower candidate; so it begins
  at or before that page, and `memset` erases the header
  (`StaleHeadersAreHarmless`).
  `CriticalSectionsEnd` is what the code contributes to `MutexComesBack`: the
  scan has a lowest candidate or none at all, and the holder's steps count down.
* **SchedulerProofs** (`PagesAssumption`, `SchedulerAssumption`). The invariant
  adds that the current task is one of the first two of the list, that counters
  are 0 or 1 and no later task's is 1 without the first task's (`FirstIsAhead`),
  that `last_task` is NULL only once `memory_mutex` is lost, and that pages that
  are no tasks yet have nothing to undo. So the scan, which keeps the first of
  equals, always ends at the first task created. `SchedulingEnds` adds that it
  never gets stuck: the second task of the list is the `Best` whenever there is
  one, and renewing makes its counter 1, so the loop has at most two rounds.
  `VectorsLastAsLongAsMemory` follows from `FailedForWant`, that the vectors are
  lost only when every page below the last of the region is in `memory_map`, and
  from `ListIsComplete`: the pages there that are not the image are the tasks.

* **InterruptsProofs** (`ConsoleAssumption`, `GpioAssumption`,
  `InterruptsAssumption`, `WindowAssumption`). The invariant has a part for each
  property. `BootSets` ties the progress of the boot to the pointers,
  `InterruptsComeLate` says that no interrupt is served before the timer's line
  is unmasked, lines left enabled being asserted by nobody until all are masked:
  a handler therefore finds what it needs. `WindowCounts` bounds
  what comes in between the handler's last look at the FIFO and its clearing of
  the interrupt by a number below the trigger level; only this step needs
  `WindowAssumption`. `RoomIsTakenOnce` says that the room the main flow has
  found is gone only if an interrupt has taken it, and that the handler's own is
  never gone. `Numbered` is the order of the characters
  still to come. Two lemmas cut the work: every step of the kernel is at most
  one step of the console, and at most one of the GPIO.
* **IrqEntryProofs** (`IrqEntryAssumption`, `CodeAssumption`). The invariant
  follows the return address and the spsr from the save slot to the frame and
  from the frame to the registers, with what was interrupted as the witness.
* **BootProofs** (`CmdlineAssumption`, `AtagsAssumption`,
  `PageTableAssumption`). `WalkSoFar` says that `ramsize` is the last memory tag
  passed, unless the walk is stuck at a tag of size 0; `MappedBefore` what each
  of the five loops has added or removed; `RegistersSoFar` which of the steps of
  `arch_mmu_init` wrote a register last. At the end the three together are
  `MmuIsReady`, for all lists and layouts. For the command line, `ParseSoFar`
  says where each loop of `parse_cmdline_int` is: the search has passed no
  occurrence of the key, the digits read so far make `result`; and `KeysSoFar`
  that the keys before `info`'s last are done. The value of n digits is the
  value of n - 1 digits and one more (`Values`), which is the step of the loop.
  This gives `LastCounts` for every line, and `ReadsWholeValue` by comparing the
  two places where a value can end. `BootEndsAsItShould` adds that no tag passed is
  an obstacle and draws the conclusion for section 0, where the kernel is;
  `EveryBootEnds` orders what is left of the boot lexicographically (steps after
  the walk, tags, keys, characters), and every step lowers it unless a tag holds
  the walk up. Together they are `Boots` but for its fairness.
* **NatFacts** (lemmas about numbers, not about the kernel) is what makes loops over data provable here. The library's
  induction and recursion theorems take operators as parameters, which the
  provers cannot instantiate. `NatFacts` states both for sets and functions:
  `Induction` for a set that contains 0 and every successor, `RecursionUpTo` and
  `RecursionOnNat` for a step that is a function. A lemma about a recursive
  definition first turns its step into a function, with values in a set that is
  known to hold them.
* **PrintkProofs** (`FormatAssumption`, `PrintkAssumption`). What a format means
  is defined by its pieces, and the code sees a row of characters; the invariant
  ties the two together. `Start` and `WidthStart` say where in memory a piece
  and its field width begin. `AtPiece(k)`: the scan is at the k-th piece, what
  the pieces before it mean is printed, and as many arguments are taken as they
  have (so the argument that is taken next belongs to the next directive that
  takes one: `ArgIs`). `InDirective(k, j)`: j characters of the field width are
  read and make `w`. `AtBehind(m)`: the format ended within a directive, and m
  characters of what stands behind it are printed. `Converts(v, sign)` is the
  invariant of `ui2a`: while `d` grows it is a power of the base that is not
  above the number, so that it neither becomes 0 nor wraps around; then `num`,
  `d` and `bf` are what the first j places of v leave, take and give. `d` starts
  at the highest place, for which the room in `bf` (`FormatAssumption`) is
  enough, so the digits fit, in either base. `PlacesIs`, `NumeralFacts`,
  `PutchwFacts` and `MeantIs` say that the places, the padding and the cases are
  those of `Meant`. The measure of `EveryCallEnds` is the number of characters left
  times 2 * Word + 4, plus the steps left at a place: `d` grows towards `num` and
  then falls, so a conversion has fewer than twice Word of them. One lemma per
  action; TLC checked the parts of the invariant
  on the instance of `MCPrintk` before they were proved.

Every invariant and every action property that the passing runs check, and both
refinements of `Lock` (`ImplementsLock`, and `UsesLock` for the callers), are
proved. Only model-checked are the liveness properties
(`Progress`, `MutexComesBack`, `ScheduleReturns`, `IrqEnds`, `PrintkReturns`,
`Boots`): fairness and ENABLED are out of the prover's reach. For four of them
the part that does not need fairness is proved, that a call has only finitely
many steps (`EveryCallEnds`, `EveryBootEnds`), of `schedule` and of the page scan
also that their loops always find how to go on (`SchedulingEnds`,
`CriticalSectionsEnd`). What remains to TLC is that elsewhere there is a step to
take, and that the core takes it. `Progress` depends on which core's
`strex` wins, and `IrqEnds` on what the UART sends and receives while a handler
waits: they have no such measure. The runs that expect a violation have no
theorem.

## Assumptions

* The boot loader reports at least the memory reserved for the kernel
  (`PagesAssumption`, for the allocator; `Boot` shows what happens without a
  memory tag).
* The kernel's region ends below the peripherals, and the Quad-A7 registers are
  not in section 0 (`PageTableAssumption`).
* `memory_map` has a bit for every page of RAM, and none for a page whose address
  wraps around (`AllocatorAssumption`; 2^18 pages of a gigabyte, `arch/memory.h:7`).
* A `kernel_task_t` and its header fit into a page (`SchedulerAssumption`).
* A match that the kernel sets comes after the boot: a TICK is a second.
* The UART's interrupts are masked when the kernel starts (its reset state). The
  firmware may have left lines enabled in the interrupt controller, but none that
  is asserted: from the first `cpsie` (`bcm_2836_interrupt.c:9`) until
  `bcm2835_interrupt_init` masks all lines it would be served through pointers
  that are not set.
* In `Interrupts` and `Console` the interrupted code goes on with its registers.
  `interrupt.S:123` restores only two of them (`RestoresR0ToR12`), so
  `OrderIsKept` and `LossIsBounded` are what the drivers do for a return that
  works.
* Kernel code runs in SVC mode; nothing creates user mode code.
* Fewer bytes come in than the UART's trigger level while its handler prints one
  character and clears the interrupt (`WindowAssumption`).
* The addresses of the interrupted code are not those of `interrupt.S`'s entry
  code, which runs with interrupts masked (`CodeAssumption`).
* A list of tags has an `ATAG_NONE`; the three keys of `atags_detect` are
  different and not empty (`AtagsAssumption`), and a line has no NUL but its last
  (`CmdlineAssumption`).
* `bf` has room for a sign, the decimal digits of an unsigned int and a NUL
  (`FormatAssumption`; 12 for 32 bits, and `bf` has 12). A format has no
  directive whose argument is of another type (`PrintkAssumption`).
* `-O0` (toolchain file): device registers are read when the code says so.

## Not modelled

* `boot.S`: straight-line code, whose result is the initial
  state. `smp_boot.S` is not built, the rest of `boot.S` is a comment.
* `panic` and the exception handlers are endless loops. The words of the vector
  table (`interrupt.S:18-25`) lead to `nop`s (`:27-50`) that run into the
  interrupt entry, which changes the mode with an exclusive or made for IRQ mode
  (`:66`): an abort or an undefined instruction ends in a mode that the kernel
  has no code for, and what happens then the architecture does not say.
* Clock driver, MMIO helpers, `atags_dump`, `remove_interrupt_handler`,
  `get_interrupt_handler`, `gpio_set_edge`, `tfp_sprintk`: no callers.
* Caches and memory attributes: all memory, the peripherals too, is mapped
  write-back; the model has addresses only.
* `task_mutex`: taken with preemption disabled on the only core; nobody waits.

## Plan

Done, in this order: mutex, allocator, scheduler (the core, with proofs), then
interrupts, entry, console, the boot from tags to the MMU, GPIO, formats; the
proofs about interrupts, entry and boot; induction over data, and with it the
proofs about the command line and printk. Left:

1. What can be said without fairness for `IrqEnds`: a measure of the handlers that
   counts the bytes that may still arrive (`RxBytes`) and the room in the FIFO.
