-------------------------------- MODULE Boot --------------------------------
(***************************************************************************)
(* From the boot loader's list to virtual memory: arch_kernel_main calls   *)
(* atags_detect (module Atags), kernel_main calls memory_init, and that    *)
(* builds the page table for the memory the list reported and turns the    *)
(* MMU on (module PageTable).  What happens in between, the drivers and    *)
(* the interrupts, is in module Interrupts.                                *)
(***************************************************************************)
EXTENDS Atags, PageTable

vars == <<atags_vars, memory_vars>>

Init == DetectInit /\ MemoryInit

(* arch_kernel_main up to the return of atags_detect. *)
Detecting == Detect /\ UNCHANGED memory_vars

(* memory_init: memory_total is atags_get_memory(), ... *)
MemoryInitCall ==
  /\ pc = "done"
  /\ PageTableCall(ramsize)
  /\ UNCHANGED atags_vars

Virtual == (Fill \/ MmuInit) /\ UNCHANGED atags_vars

(* ... and goes on, if the next instruction is still there: the kernel's   *)
(* code is in section 0.                                                   *)
Continue ==
  /\ pc = "done" /\ MmuIsOn /\ step > Len(MmuSteps)
  /\ pc' = IF page_table[0] = 0 THEN "booted" ELSE "fault"
  /\ UNCHANGED <<list, tags, ramsize, cmdline, info, parse_vars, memory_vars>>

Next == Detecting \/ MemoryInitCall \/ Virtual \/ Continue

Spec == Init /\ [][Next]_vars

(* The core executes its instructions. *)
FairSpec == Spec /\ WF_vars(Next)

-----------------------------------------------------------------------------
TypeOK ==
  /\ DetectTypeOK /\ MemoryTypeOK
  /\ pc \in {"detect", "parse", "done", "booted", "fault"}

(* The tags the walk has looked at. *)
Seen == IF pc = "parse" THEN 1 .. tags ELSE 1 .. tags - 1

(* The last of these tags of this kind, 0 when there is none. *)
Latest(kind, where) == Max({n \in where : list[n].tag = kind} \cup {0})

Memory(n) == IF n = 0 THEN 0 ELSE list[n].mem

(* The walk stands at a tag of size 0 for ever. *)
Stuck == list[tags].empty /\ list[tags].tag # "NONE"

(* Of several memory tags, and of several command lines, the last one the  *)
(* walk has passed counts, and the three numbers of atag_info are all of   *)
(* that line, never of an earlier one: they are what Expected says,        *)
(* whatever stands on the line, keys at its end, keys inside other words,  *)
(* values without digits or cut short.  (A tag of size 0 counts and is     *)
(* never passed.)                                                          *)
LastCounts ==
  /\ \/ Stuck
     \/ ramsize = Memory(Latest("MEM", Seen)) /\ cmdline = Latest("CMDLINE", Seen)
  /\ pc # "parse" =>
       \A n \in DOMAIN Keys :
         info[n] = IF cmdline = 0 THEN 0 ELSE Expected(list[cmdline].line, Keys[n])

(* A value with key_len - 1 characters behind it on the line is read whole.*)
ReadsWholeValue ==
  pc # "parse" /\ cmdline # 0 =>
    LET l == list[cmdline].line
    IN  \A n \in DOMAIN Keys :
          Occurrences(l, Keys[n]) # {} =>
            LET end == Min(Blanks(l, Keys[n]) \cup {Len(l)})
            IN  end + Len(Keys[n]) - 1 <= Len(l) =>
                  info[n] = Value(l, Keys[n], end)

(* The tags the walk looks at when nothing stops it. *)
Walk == 1 .. Min({n \in DOMAIN list : list[n].tag = "NONE"})

Reported == Memory(Latest("MEM", Walk))

(* The sections of the memory the last memory tag reported, of the         *)
(* peripherals and of the Quad-A7 registers.                               *)
Reachable ==
  {e \in Section : (e + 1) * SectionSize <= Reported}
    \cup PeripheralBase .. PeripheralEnd - 1 \cup {QuadA7}

(* When translation is on, table and TLB are the kernel's, and it is "a    *)
(* one-to-one physical to virtual mapping" (arch/arm/memory.c:21) of       *)
(* exactly what is there, also when the memory ends within the kernel, or  *)
(* reaches into or beyond the sections of the peripherals.                 *)
MmuIsReady ==
  MmuIsOn =>
    /\ cp15["ttbr0"] = "page_table" /\ cp15["tlb"] = "invalid"
    /\ cp15["dacr"] = "client" /\ cp15["afe"] = "off"
    /\ page_table = [e \in Section |-> IF e \in Reachable THEN e ELSE Unused]

(* A tag the walk never gets past. *)
Obstacle(t) == t.tag = "unknown" \/ (t.empty /\ t.tag # "NONE")

(* The boot gets past the boot loader's list and survives the MMU, unless  *)
(* a tag the walk does not know or a tag of size 0 stands before the end   *)
(* of the list (there it hangs), or the last memory tag reports less than  *)
(* the kernel needs.  Where the memory it reports starts does not matter.  *)
Boots ==
  /\ \A n \in Walk : ~Obstacle(list[n])
  /\ SectionSize <= Reported
  => <>(pc = "booted")
=============================================================================
