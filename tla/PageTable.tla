------------------------------- MODULE PageTable ----------------------------
(***************************************************************************)
(* Virtual memory, arch/arm/memory.c: arch_pagetable_init fills the table  *)
(* of sections of 1 MB in five loops, of which later ones overwrite what   *)
(* earlier ones wrote; arch_mmu_init then turns address translation on.    *)
(* One action per loop and per write to a coprocessor register.  Of the    *)
(* bits of a section only the address is modelled.                         *)
(***************************************************************************)
EXTENDS Integers, Sequences

CONSTANTS
  Entries,        \* NUM_PAGE_TABLE_ENTRIES
  SectionSize,    \* the bytes of a section: 1 << 20
  KernelEnd,      \* kernel_end >> 20
  PeripheralBase, \* PERIPHERAL_BASE >> 20
  PeripheralEnd,  \* PERIPHERAL_END >> 20
  QuadA7,         \* 0x40000000 >> 20
  Half            \* 0x80000000 >> 20

ASSUME PageTableAssumption ==
  /\ {Entries, KernelEnd, PeripheralBase, PeripheralEnd, QuadA7, Half} \subseteq Nat
  /\ SectionSize \in Nat \ {0}
  /\ 0 < KernelEnd /\ KernelEnd <= PeripheralBase
  /\ PeripheralBase <= PeripheralEnd /\ PeripheralEnd <= Half
  /\ 0 < QuadA7 /\ QuadA7 < Half /\ Half <= Entries

VARIABLES
  mem_end,      \* the argument of arch_pagetable_init
  page_table,   \* page_table[e]: the section that entry e maps to, or Unused
  fill,         \* the loop of arch_pagetable_init, 0 before the call
  step,         \* the step of arch_mmu_init
  cp15          \* what the coprocessor's registers, TLB and caches hold

memory_vars == <<mem_end, page_table, fill, step, cp15>>

Section == 0 .. Entries - 1

Unused == -1    \* a descriptor of 0

(* A loop over sections: it maps each to itself, or to nothing. *)
Loop(from, to, mapped) == [range |-> from .. to - 1, mapped |-> mapped]

(* A faulty Loops: the peripherals before what is unused. *)
LoopsSwapped ==
  << Loop(0, KernelEnd, TRUE),
     Loop(KernelEnd, mem_end \div SectionSize, TRUE),
     Loop(PeripheralBase, PeripheralEnd, TRUE),
     Loop(mem_end \div SectionSize, Half, FALSE),
     Loop(QuadA7, QuadA7 + 1, TRUE) >>

(* The loops: kernel, other memory, unused, peripherals, Quad-A7. *)
Loops ==
  << Loop(0, KernelEnd, TRUE),
     Loop(KernelEnd, mem_end \div SectionSize, TRUE),
     Loop(mem_end \div SectionSize, Half, FALSE),
     Loop(PeripheralBase, PeripheralEnd, TRUE),
     Loop(QuadA7, QuadA7 + 1, TRUE) >>

(* The steps of arch_mmu_init.  The one that says TTBCR writes c2, c0, 0,  *)
(* which is TTBR0.                                                         *)
MmuSteps ==
  << [reg |-> "dcache", value |-> "clean"], [reg |-> "smpen", value |-> "on"],
     [reg |-> "dcache", value |-> "invalid"], [reg |-> "icache", value |-> "invalid"],
     [reg |-> "branches", value |-> "flushed"], [reg |-> "tlb", value |-> "invalid"],
     [reg |-> "ttbr0", value |-> "zero"], [reg |-> "dacr", value |-> "client"],
     [reg |-> "afe", value |-> "off"], [reg |-> "ttbr0", value |-> "page_table"],
     [reg |-> "mmu", value |-> "on"] >>

Register == {"dcache", "icache", "branches", "tlb", "smpen", "ttbr0", "dacr",
             "afe", "mmu"}

(* bss is zero; what the boot loader left in the coprocessor is not known, *)
(* but translation is off.                                                 *)
MemoryInit ==
  /\ mem_end = 0
  /\ page_table = [e \in Section |-> Unused]
  /\ fill = 0
  /\ step = 1
  /\ cp15 = [r \in Register |-> "old"]

(* arch_pagetable_init(0, end, kernel_end) is called. *)
PageTableCall(end) ==
  /\ fill = 0
  /\ mem_end' = end
  /\ fill' = 1
  /\ UNCHANGED <<page_table, step, cp15>>

(* One of its loops. *)
Fill ==
  /\ fill \in DOMAIN Loops
  /\ page_table' = [e \in Section |->
                      IF e \notin Loops[fill].range THEN page_table[e]
                      ELSE IF Loops[fill].mapped THEN e ELSE Unused]
  /\ fill' = fill + 1
  /\ UNCHANGED <<mem_end, step, cp15>>

(* A step of arch_mmu_init. *)
MmuInit ==
  /\ fill = Len(Loops) + 1
  /\ step \in DOMAIN MmuSteps
  /\ cp15' = [cp15 EXCEPT ![MmuSteps[step].reg] = MmuSteps[step].value]
  /\ step' = step + 1
  /\ UNCHANGED <<mem_end, page_table, fill>>

-----------------------------------------------------------------------------
MmuIsOn == cp15["mmu"] = "on"

Mapped == {e \in Section : page_table[e] # Unused}

MemoryTypeOK ==
  /\ mem_end \in Nat
  /\ DOMAIN page_table = Section
  /\ \A e \in Mapped : page_table[e] \in Section
  /\ fill \in 0 .. Len(Loops) + 1
  /\ step \in 1 .. Len(MmuSteps) + 1
=============================================================================
