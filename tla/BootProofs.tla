------------------------------ MODULE BootProofs ----------------------------
(***************************************************************************)
(* Proofs about Boot, for every list of tags that has an end, every        *)
(* command line and every layout of memory.                                *)
(***************************************************************************)
EXTENDS Boot, NatFacts

-----------------------------------------------------------------------------
(* Memory: the table after the loops, the registers after the steps.       *)

(* The number of the first section that is not all memory. *)
Limit == mem_end \div SectionSize

(* The sections that are mapped before loop f. *)
MappedBefore(f) ==
  { e \in Section :
      \/ f = 2 /\ e < KernelEnd
      \/ f = 3 /\ (e < KernelEnd \/ e < Limit)
      \/ f >= 4 /\ e < Limit
      \/ f >= 5 /\ e \in PeripheralBase .. PeripheralEnd - 1
      \/ f >= 6 /\ e = QuadA7 }

TableSoFar ==
  page_table = [e \in Section |-> IF e \in MappedBefore(fill) THEN e ELSE Unused]

(* The last writes before translation is turned on decide what it uses. *)
RegistersSoFar ==
  /\ DOMAIN cp15 = Register
  /\ step > 1 => fill = Len(Loops) + 1
  /\ MmuIsOn => step = 12
  /\ step > 6 => cp15["tlb"] = "invalid"
  /\ step > 8 => cp15["dacr"] = "client"
  /\ step > 9 => cp15["afe"] = "off"
  /\ step > 10 => cp15["ttbr0"] = "page_table"

MemoryInv == mem_end \in Nat /\ fill \in 0 .. 6 /\ step \in 1 .. 12 /\ TableSoFar /\ RegistersSoFar

-----------------------------------------------------------------------------
(* Tags: the walk has not passed the end, and what it has passed is what   *)
(* ramsize says, unless it stands at a tag of size 0 for ever.             *)

(* The last tag of a kind before the one the walk is at, 0 when there is   *)
(* none.                                                                   *)
IsLast(kind, n) ==
  /\ n \in 0 .. tags - 1
  /\ n = 0 \/ list[n].tag = kind
  /\ \A m \in n + 1 .. tags - 1 : list[m].tag # kind

WalkSoFar ==
  /\ \A m \in 1 .. tags - 1 : list[m].tag # "NONE"
  /\ Stuck \/ \E n \in 0 .. Len(list) : IsLast("MEM", n) /\ ramsize = Memory(n)
  /\ pc # "parse" => Stuck \/ IsLast("CMDLINE", cmdline)
  /\ pc = "parse" => list[tags].tag = "CMDLINE"
  /\ pc \in {"done", "booted", "fault"} => list[tags].tag = "NONE"

(* The page table is for the memory the walk has found. *)
Handover ==
  /\ pc \in {"detect", "parse"} => fill = 0
  /\ fill > 0 => mem_end = ramsize

(* The line, the key and the list are what the assumptions say. *)
Texts ==
  /\ list \in Lists
  /\ line \in Seq(DOMAIN Ascii) /\ key \in Seq(DOMAIN Ascii)
  /\ loop # "none" => key # <<>>

(* parse_cmdline_int: no occurrence of the key has been passed; what has   *)
(* been read is the number that the characters before i say, and none of   *)
(* them ends it, or the key ends the line and nothing is read; and in the  *)
(* end it is what it should be.                                            *)
DigitsOnLine ==
  /\ ValueStart(line, key) <= i /\ base = Base(line, key)
  /\ \A n \in ValueStart(line, key) .. i - 1 : CharAt(line, n) # " "
  /\ \A n \in ValueStart(line, key) .. i - 1 : n + Len(key) <= Len(line)
  /\ result = Value(line, key, i)

DigitsSoFar ==
  /\ Occurrences(line, key) # {}
  /\ IF i <= Len(line) THEN DigitsOnLine
     ELSE ValueStart(line, key) > Len(line) /\ result = 0

ParseSoFar ==
  /\ loop = "search" => result = 0 /\ \A n \in Occurrences(line, key) : i <= n
  /\ loop = "digits" => DigitsSoFar
  /\ pc = "parse" /\ loop = "none" => result = Expected(line, key)

(* The numbers of the keys before the n-th are those of the line that is   *)
(* parsed; the numbers of all keys are those of the line cmdline is at.    *)
KeysSoFar ==
  /\ pc = "parse" =>
       /\ cmdline = tags /\ line = list[tags].line
       /\ \E n \in DOMAIN Keys :
            key = Keys[n] /\ \A m \in 1 .. n - 1 : info[m] = Expected(line, Keys[m])
  /\ pc # "parse" =>
       \A n \in DOMAIN Keys :
         info[n] = IF cmdline = 0 THEN 0 ELSE Expected(list[cmdline].line, Keys[n])

(* The invariant that is inductive: the properties and what they rest on. *)
IInv ==
  TypeOK /\ Texts /\ WalkSoFar /\ ParseSoFar /\ KeysSoFar /\ Handover /\ MemoryInv

-----------------------------------------------------------------------------
(* The loops and the steps, one by one. *)

LEMMA LoopsByNumber ==
  /\ Len(Loops) = 5 /\ DOMAIN Loops = 1 .. 5
  /\ Loops[1].range = 0 .. KernelEnd - 1 /\ Loops[1].mapped
  /\ Loops[2].range = KernelEnd .. Limit - 1 /\ Loops[2].mapped
  /\ Loops[3].range = Limit .. Half - 1 /\ ~Loops[3].mapped
  /\ Loops[4].range = PeripheralBase .. PeripheralEnd - 1 /\ Loops[4].mapped
  /\ (\A e \in Nat : e \in Loops[5].range <=> e = QuadA7) /\ Loops[5].mapped
<1>1. /\ Len(Loops) = 5 /\ DOMAIN Loops = 1 .. 5
      /\ Loops[1] = Loop(0, KernelEnd, TRUE)
      /\ Loops[2] = Loop(KernelEnd, Limit, TRUE)
      /\ Loops[3] = Loop(Limit, Half, FALSE)
      /\ Loops[4] = Loop(PeripheralBase, PeripheralEnd, TRUE)
      /\ Loops[5] = Loop(QuadA7, QuadA7 + 1, TRUE)
  BY DEF Loops, Limit
<1>2. ASSUME NEW from, NEW to, NEW mapped \in BOOLEAN
      PROVE  /\ Loop(from, to, mapped).range = from .. to - 1
             /\ Loop(from, to, mapped).mapped <=> mapped
  BY DEF Loop
<1>3. Loops[1].range = 0 .. KernelEnd - 1 /\ Loops[1].mapped
  BY <1>1, <1>2, ZenonT(30)
<1>4. Loops[2].range = KernelEnd .. Limit - 1 /\ Loops[2].mapped
  BY <1>1, <1>2, ZenonT(30)
<1>5. Loops[3].range = Limit .. Half - 1 /\ ~Loops[3].mapped
  BY <1>1, <1>2, ZenonT(30)
<1>6. Loops[4].range = PeripheralBase .. PeripheralEnd - 1 /\ Loops[4].mapped
  BY <1>1, <1>2, ZenonT(30)
<1>7. (\A e \in Nat : e \in Loops[5].range <=> e = QuadA7) /\ Loops[5].mapped
  <2>1. QuadA7 \in Nat
    BY PageTableAssumption
  <2>2. Loops[5].range = QuadA7 .. (QuadA7 + 1) - 1
    BY <1>1 DEF Loop
  <2>3. Loops[5].mapped
    BY <1>1, <1>2
  <2> QED BY <2>1, <2>2, <2>3
<1> QED BY <1>1, <1>3, <1>4, <1>5, <1>6, <1>7

LEMMA StepsByNumber ==
  /\ Len(MmuSteps) = 11 /\ DOMAIN MmuSteps = 1 .. 11
  /\ MmuSteps[7].reg = "ttbr0"
  /\ \A s \in 1 .. 11 : MmuSteps[s].reg = "mmu" => s = 11
  /\ \A s \in 1 .. 11 :
       /\ MmuSteps[s].reg = "tlb" => s = 6
       /\ MmuSteps[s].reg = "dacr" => s = 8
       /\ MmuSteps[s].reg = "afe" => s = 9
       /\ MmuSteps[s].reg = "ttbr0" => s \in {7, 10}
       /\ MmuSteps[s].reg \in Register
  /\ MmuSteps[6] = [reg |-> "tlb", value |-> "invalid"]
  /\ MmuSteps[8] = [reg |-> "dacr", value |-> "client"]
  /\ MmuSteps[9] = [reg |-> "afe", value |-> "off"]
  /\ MmuSteps[10] = [reg |-> "ttbr0", value |-> "page_table"]
BY DEF MmuSteps, Register

LEMMA LimitIsNat ==
  ASSUME mem_end \in Nat
  PROVE  /\ Limit \in Nat
         /\ \A e \in Nat : e < Limit <=> (e + 1) * SectionSize <= mem_end
<1>1. SectionSize \in Nat \ {0}
  BY PageTableAssumption
<1>2. /\ Limit \in Nat
      /\ Limit * SectionSize <= mem_end /\ mem_end < (Limit + 1) * SectionSize
  BY <1>1, Quotient DEF Limit
<1>3. ASSUME NEW e \in Nat
      PROVE  (e + 1) * SectionSize \in Nat /\ Limit * SectionSize \in Nat
  BY <1>1, <1>2
<1>4. ASSUME NEW e \in Nat, e < Limit
      PROVE  (e + 1) * SectionSize <= mem_end
  <2>1. (e + 1) * SectionSize <= Limit * SectionSize
    BY <1>1, <1>2, <1>4, TimesMonotone
  <2> QED BY <2>1, <1>2, <1>3
<1>5. ASSUME NEW e \in Nat, ~(e < Limit)
      PROVE  ~((e + 1) * SectionSize <= mem_end)
  <2>1. (Limit + 1) * SectionSize <= (e + 1) * SectionSize
    BY <1>1, <1>2, <1>5, TimesMonotone
  <2>2. (Limit + 1) * SectionSize \in Nat
    BY <1>2, <1>3
  <2> QED BY <2>1, <2>2, <1>2, <1>3
<1> QED BY <1>2, <1>4, <1>5

(* One loop after the other. *)
LEMMA FillKeeps ==
  ASSUME MemoryInv, Fill
  PROVE  MemoryInv'
<1> USE DEF MemoryInv
<1>1. fill \in 1 .. 5 /\ fill' = fill + 1 /\ mem_end' = mem_end /\ step' = step /\ cp15' = cp15
  BY LoopsByNumber DEF Fill
<1>2. Limit \in Nat /\ Limit' = Limit
  BY <1>1, LimitIsNat DEF Limit
<1>3. ASSUME NEW e \in Section
      PROVE  e \in MappedBefore(fill + 1) <=>
               IF e \in Loops[fill].range THEN Loops[fill].mapped ELSE e \in MappedBefore(fill)
  <2>1. e \in Nat /\ e < Entries
    BY PageTableAssumption DEF Section
  <2>2. CASE fill = 1
    BY <2>2, <2>1, <1>2, LoopsByNumber, PageTableAssumption, SMTT(30) DEF MappedBefore
  <2>3. CASE fill = 2
    BY <2>3, <2>1, <1>2, LoopsByNumber, PageTableAssumption, SMTT(30) DEF MappedBefore
  <2>4. CASE fill = 3
    BY <2>4, <2>1, <1>2, LoopsByNumber, PageTableAssumption, SMTT(30) DEF MappedBefore
  <2>5. CASE fill = 4
    BY <2>5, <2>1, <1>2, LoopsByNumber, PageTableAssumption, SMTT(30) DEF MappedBefore
  <2>6. CASE fill = 5
    BY <2>6, <2>1, <1>2, LoopsByNumber, PageTableAssumption, SMTT(30) DEF MappedBefore
  <2> QED BY <1>1, <2>2, <2>3, <2>4, <2>5, <2>6
<1>4. page_table' = [e \in Section |-> IF e \in MappedBefore(fill + 1) THEN e ELSE Unused]
  <2>1. page_table' = [e \in Section |->
                         IF e \notin Loops[fill].range THEN page_table[e]
                         ELSE IF Loops[fill].mapped THEN e ELSE Unused]
    BY DEF Fill
  <2>2. ASSUME NEW e \in Section
        PROVE  page_table[e] = IF e \in MappedBefore(fill) THEN e ELSE Unused
    BY DEF TableSoFar
  <2> QED BY <2>1, <2>2, <1>3
<1>5. MappedBefore(fill + 1) = MappedBefore(fill)'
  BY <1>1, <1>2 DEF MappedBefore
<1>6. TableSoFar'
  BY <1>4, <1>5, <1>1 DEF TableSoFar
<1>7. RegistersSoFar'
  BY <1>1, LoopsByNumber DEF RegistersSoFar, MmuIsOn
<1> QED BY <1>1, <1>6, <1>7

(* One register after the other. *)
LEMMA MmuInitKeeps ==
  ASSUME MemoryInv, MmuInit
  PROVE  MemoryInv'
<1> USE DEF MemoryInv
<1>1. /\ step \in 1 .. 11 /\ step' = step + 1
      /\ mem_end' = mem_end /\ page_table' = page_table /\ fill' = fill
      /\ fill = Len(Loops) + 1
      /\ cp15' = [cp15 EXCEPT ![MmuSteps[step].reg] = MmuSteps[step].value]
  BY StepsByNumber DEF MmuInit
<1>2. TableSoFar'
  BY <1>1 DEF TableSoFar, MappedBefore, Limit
<1>3. ASSUME NEW r \in Register, MmuSteps[step].reg # r
      PROVE  cp15'[r] = cp15[r]
  BY <1>1, <1>3 DEF RegistersSoFar
<1>4. MmuSteps[step].reg \in Register /\ cp15'[MmuSteps[step].reg] = MmuSteps[step].value
  BY <1>1, StepsByNumber DEF RegistersSoFar
<1>5. {"tlb", "dacr", "afe", "ttbr0", "mmu"} \subseteq Register
  BY DEF Register
<1>6. MmuIsOn' => step' = 12
  <2>1. ASSUME step # 11, MmuIsOn' PROVE FALSE
    <3>1. cp15'["mmu"] = cp15["mmu"]
      BY <2>1, <1>1, <1>3, <1>5, StepsByNumber
    <3> QED BY <3>1, <2>1, <1>1 DEF RegistersSoFar, MmuIsOn
  <2> QED BY <2>1, <1>1
<1>7. step' > 6 => cp15'["tlb"] = "invalid"
  BY <1>1, <1>3, <1>4, <1>5, StepsByNumber DEF RegistersSoFar
<1>8. step' > 8 => cp15'["dacr"] = "client"
  BY <1>1, <1>3, <1>4, <1>5, StepsByNumber DEF RegistersSoFar
<1>9. step' > 9 => cp15'["afe"] = "off"
  BY <1>1, <1>3, <1>4, <1>5, StepsByNumber DEF RegistersSoFar
<1>10. step' > 10 => cp15'["ttbr0"] = "page_table"
  BY <1>1, <1>3, <1>4, <1>5, StepsByNumber DEF RegistersSoFar
<1>11. DOMAIN cp15' = Register /\ Len(Loops)' = Len(Loops)
  BY <1>1, LoopsByNumber DEF RegistersSoFar, Loops, Loop
<1>12. RegistersSoFar'
  BY <1>1, <1>6, <1>7, <1>8, <1>9, <1>10, <1>11 DEF RegistersSoFar
<1> QED BY <1>1, <1>2, <1>12

LEMMA PageTableCallKeeps ==
  ASSUME MemoryInv, NEW end \in Nat, PageTableCall(end)
  PROVE  MemoryInv'
<1>1. TableSoFar'
  BY PageTableAssumption DEF MemoryInv, PageTableCall, TableSoFar, MappedBefore
<1>2. RegistersSoFar'
  BY LoopsByNumber DEF MemoryInv, PageTableCall, RegistersSoFar, MmuIsOn
<1> QED BY <1>1, <1>2 DEF MemoryInv, PageTableCall

LEMMA MemoryStays ==
  ASSUME MemoryInv, UNCHANGED memory_vars
  PROVE  MemoryInv'
BY DEF MemoryInv, memory_vars, TableSoFar, MappedBefore, Limit, RegistersSoFar, MmuIsOn, Loops, Loop

LEMMA MemoryTyped == MemoryInv => MemoryTypeOK
<1> SUFFICES ASSUME MemoryInv PROVE MemoryTypeOK
  OBVIOUS
<1>1. \A e \in Section : e \in Nat
  BY PageTableAssumption DEF Section
<1> QED BY <1>1, LoopsByNumber, StepsByNumber DEF MemoryInv, TableSoFar, MemoryTypeOK, Mapped, Unused

-----------------------------------------------------------------------------
(* The command line: what the function is to compute. *)

LEMMA CharOfLine ==
  ASSUME NEW l \in Seq(DOMAIN Ascii), NEW n \in 0 .. Len(l) - 1
  PROVE  /\ CharAt(l, n) = l[n + 1] /\ CharAt(l, n) \in DOMAIN Ascii
         /\ CharAt(l, n) # "NUL" /\ Digit(CharAt(l, n)) \in Int
<1>1. CharAt(l, n) = l[n + 1] /\ l[n + 1] \in DOMAIN Ascii
  BY DEF CharAt
<1> QED BY <1>1, CmdlineAssumption, SMTT(30) DEF Digit

(* Where the value begins. *)
LEMMA ValueStartIsNat ==
  ASSUME NEW l \in Seq(DOMAIN Ascii), NEW k \in Seq(DOMAIN Ascii), Occurrences(l, k) # {}
  PROVE  /\ ValueStart(l, k) \in Nat /\ ValueStart(l, k) > Len(k)
         /\ Base(l, k) \in {10, 16} /\ Len(k) <= Len(l)
         /\ Len(k) \in Nat /\ Len(l) \in Nat
<1>1. Len(l) \in Nat /\ Len(k) \in Nat
  OBVIOUS
<1>2. Occurrences(l, k) \subseteq Nat /\ \A n \in Occurrences(l, k) : n <= Len(l) - Len(k)
  BY <1>1 DEF Occurrences
<1>3. Min(Occurrences(l, k)) \in Nat /\ Min(Occurrences(l, k)) <= Len(l) - Len(k)
  BY <1>2, MinOfNats
<1> QED BY <1>1, <1>3 DEF ValueStart, Behind, Base

(* The number that the characters before n say, from the one before n - 1. *)
LEMMA ValuesByIndex ==
  ASSUME NEW l \in Seq(DOMAIN Ascii), NEW k \in Seq(DOMAIN Ascii), Occurrences(l, k) # {}
  PROVE  \A n \in 0 .. Len(l) :
           /\ Value(l, k, n) \in Int
           /\ n <= ValueStart(l, k) => Value(l, k, n) = 0
           /\ n > ValueStart(l, k) =>
                Value(l, k, n) = Value(l, k, n - 1) * Base(l, k) + Digit(CharAt(l, n - 1))
<1> DEFINE start == ValueStart(l, k)
           b == Base(l, k)
           dgt(n) == Digit(CharAt(l, n))
           next == [x \in Int \X Nat |->
                      IF x[2] \in 1 .. Len(l) /\ x[2] > start THEN x[1] * b + dgt(x[2] - 1) ELSE 0]
<1>1. start \in Nat /\ b \in {10, 16} /\ Len(l) \in Nat
  BY ValueStartIsNat
<1>2. \A n \in 0 .. Len(l) - 1 : dgt(n) \in Int
  BY CharOfLine
<1>3. Values(l, k) =
        CHOOSE v : v = [n \in 0 .. Len(l) |-> IF n <= start THEN 0 ELSE v[n - 1] * b + dgt(n - 1)]
  BY DEF Values
<1> HIDE DEF start, b, dgt
<1>4. next \in [Int \X Nat -> Int]
  <2>1. ASSUME NEW v \in Int, NEW n \in 1 .. Len(l)
        PROVE  v * b + dgt(n - 1) \in Int
    <3>1. dgt(n - 1) \in Int /\ v * b \in Int
      BY <1>1, <1>2
    <3> QED BY <3>1
  <2>2. ASSUME NEW x \in Int \X Nat
        PROVE  (IF x[2] \in 1 .. Len(l) /\ x[2] > start THEN x[1] * b + dgt(x[2] - 1) ELSE 0) \in Int
    <3>1. x[1] \in Int
      OBVIOUS
    <3> QED BY <3>1, <2>1
  <2> QED BY <2>2
<1>5. PICK f \in [0 .. Len(l) -> Int] : Recurs(f, 0, next, 1 .. Len(l))
  <2> HIDE DEF next
  <2>1. 0 \in Int
    OBVIOUS
  <2> QED BY <2>1, <1>1, <1>4, RecursionUpTo
<1>6. ASSUME NEW n \in 0 .. Len(l)
      PROVE  f[n] = IF n <= start THEN 0 ELSE f[n - 1] * b + dgt(n - 1)
  <2>1. CASE n = 0
    BY <2>1, <1>1, <1>5 DEF Recurs
  <2>2. CASE n \in 1 .. Len(l)
    <3>1. n - 1 \in 0 .. Len(l) /\ n \in Nat
      BY <2>2, <1>1
    <3>2. f[n] = next[<<f[n - 1], n>>] /\ f[n - 1] \in Int
      <4> HIDE DEF next
      <4> QED BY <2>2, <3>1, <1>5 DEF Recurs
    <3>3. next[<<f[n - 1], n>>] = IF n > start THEN f[n - 1] * b + dgt(n - 1) ELSE 0
      BY <3>1, <3>2, <2>2
    <3> QED BY <3>1, <3>2, <3>3, <1>1
  <2> QED BY <2>1, <2>2, <1>1
<1>7. f = [n \in 0 .. Len(l) |-> IF n <= start THEN 0 ELSE f[n - 1] * b + dgt(n - 1)]
  BY <1>6
<1>8. Values(l, k) = [n \in 0 .. Len(l) |->
                        IF n <= start THEN 0 ELSE Values(l, k)[n - 1] * b + dgt(n - 1)]
  BY <1>3, <1>7
<1> DEFINE T == {n \in 0 .. Len(l) : Values(l, k)[n] \in Int}
<1>9. 0 \in T
  BY <1>8, <1>1
<1>10. ASSUME NEW n \in 0 .. Len(l) - 1, n \in T
       PROVE  n + 1 \in T
  <2>1. n + 1 \in 0 .. Len(l) /\ (n + 1) - 1 = n
    BY <1>1
  <2>2. Values(l, k)[n + 1] = IF n + 1 <= start THEN 0 ELSE Values(l, k)[n] * b + dgt(n)
    BY <1>8, <2>1
  <2>3. Values(l, k)[n] * b + dgt(n) \in Int
    <3>1. dgt(n) \in Int /\ Values(l, k)[n] * b \in Int
      BY <1>10, <1>1, <1>2
    <3> QED BY <3>1
  <2> QED BY <2>1, <2>2, <2>3
<1>11. \A n \in 0 .. Len(l) : n \in T
  <2> HIDE DEF T
  <2> QED BY <1>1, <1>9, <1>10, InductionUpTo
<1>12. ASSUME NEW n \in 0 .. Len(l)
       PROVE  /\ Values(l, k)[n] \in Int
              /\ n <= start => Values(l, k)[n] = 0
              /\ n > start => Values(l, k)[n] = Values(l, k)[n - 1] * b + dgt(n - 1)
  <2>1. Values(l, k)[n] \in Int
    BY <1>11
  <2>2. Values(l, k)[n] = IF n <= start THEN 0 ELSE Values(l, k)[n - 1] * b + dgt(n - 1)
    BY <1>8
  <2> QED BY <2>1, <2>2, <1>1
<1> QED BY <1>12 DEF Value, start, b, dgt

-----------------------------------------------------------------------------
(* The command line: the loops compute it. *)

LEMMA ParseKeeps ==
  ASSUME Parse, ParseTypeOK, Texts, UNCHANGED list,
         \A c \in DOMAIN Ascii : Ascii[c] \in Nat
  PROVE  ParseTypeOK' /\ Texts'
<1>1. /\ Len(line) \in Nat /\ Len(key) \in Nat /\ i \in 0 .. Len(line) + 3
      /\ result \in Int /\ base \in {10, 16}
      /\ line' = line /\ key' = key
      /\ loop # "none" => Len(key) > 0
  BY DEF Parse, ParseTypeOK, Texts, NotFound, SearchOn, Found, ReadDigit, ReadEnd
<1>2. Texts'
  <2>1. loop # "none"
    BY DEF Parse, NotFound, SearchOn, Found, ReadDigit, ReadEnd
  <2> QED BY <1>1, <2>1 DEF Texts
<1>3. CASE NotFound
  BY <1>1, <1>2, <1>3 DEF NotFound, ParseTypeOK
<1>4. CASE SearchOn
  BY <1>1, <1>2, <1>4 DEF SearchOn, NoRoom, ParseTypeOK
<1>5. CASE Found
  <2> DEFINE n == i + Len(key) + 1
  <2>1. n \in Nat /\ n <= Len(line) + 1
    BY <1>1, <1>2, <1>5 DEF Found, NoRoom
  <2>2. /\ base' \in {10, 16} /\ i' \in {n, n + 2}
        /\ loop' = "digits" /\ result' = result
    BY <1>5 DEF Found
  <2> QED BY <1>1, <1>2, <2>1, <2>2 DEF ParseTypeOK
<1>6. CASE ReadDigit
  <2>1. i \in 0 .. Len(line) - 1
    <3>1. loop = "digits" /\ ~NoRoom
      BY <1>6 DEF ReadDigit, AtEnd
    <3> QED BY <3>1, <1>1 DEF NoRoom
  <2>2. line[i + 1] \in DOMAIN Ascii
    BY <2>1, <1>1 DEF Texts
  <2>3. CharAt(line, i) = line[i + 1]
    BY <2>1, <1>1 DEF CharAt
  <2>4. Digit(CharAt(line, i)) \in Int
    BY <2>2, <2>3 DEF Digit
  <2>5. result * base + Digit(CharAt(line, i)) \in Int
    BY <1>1, <1>2, <2>4
  <2> QED BY <1>1, <1>2, <2>1, <2>5, <1>6 DEF ReadDigit, ParseTypeOK
<1>7. CASE ReadEnd
  BY <1>1, <1>2, <1>7 DEF ReadEnd, ParseTypeOK
<1> QED BY <1>2, <1>3, <1>4, <1>5, <1>6, <1>7 DEF Parse

(* What the function returns: everything before stop has been read. *)
LEMMA ReadEndExpected ==
  ASSUME ParseTypeOK, Texts, ParseSoFar, ReadEnd
  PROVE  result = Expected(line, key)
<1> DEFINE start == ValueStart(line, key)
           last == Len(line) - Len(key) + 1
           S == Blanks(line, key) \cup {last}
<1>1. /\ loop = "digits" /\ key # <<>> /\ line \in Seq(DOMAIN Ascii) /\ key \in Seq(DOMAIN Ascii)
      /\ Occurrences(line, key) # {}
  BY DEF ReadEnd, ParseSoFar, DigitsSoFar, Texts
<1>2. /\ start \in Nat /\ start > Len(key) /\ Len(key) <= Len(line)
      /\ Len(key) \in Nat \ {0} /\ Len(line) \in Nat /\ i \in 0 .. Len(line) + 3
  BY <1>1, ValueStartIsNat DEF ParseTypeOK
<1>3. i <= Len(line) => start <= i /\ \A n \in start .. i - 1 : n + Len(key) <= Len(line)
  BY <1>1 DEF ParseSoFar, DigitsSoFar, DigitsOnLine
<1>4. i <= Len(line) => \A n \in start .. i - 1 : CharAt(line, n) # " "
  BY <1>1 DEF ParseSoFar, DigitsSoFar, DigitsOnLine
<1>5. IF i <= Len(line) THEN result = Value(line, key, i) ELSE start > Len(line) /\ result = 0
  BY <1>1 DEF ParseSoFar, DigitsSoFar, DigitsOnLine
<1>6. AtEnd
  BY DEF ReadEnd
<1>7. Expected(line, key) = Value(line, key, Min(S))
  BY <1>1 DEF Expected
<1>8. \A n \in Blanks(line, key) : n \in start .. Len(line) - 1 /\ n >= i /\ i <= Len(line)
  <2>1. \A n \in Blanks(line, key) : n \in start .. Len(line) - 1 /\ CharAt(line, n) = " "
    BY DEF Blanks
  <2>2. i <= Len(line) => \A n \in Blanks(line, key) : n \notin start .. i - 1
    BY <2>1, <1>4
  <2>3. \A n \in Blanks(line, key) : n \in start .. Len(line) - 1
    BY <2>1
  <2> HIDE DEF start
  <2> QED BY <2>2, <2>3, <1>2, <1>3, <1>5
<1> HIDE DEF start
<1>9. S \subseteq Int /\ S \subseteq Nat /\ last \in S /\ S # {} /\ last <= Len(line)
  BY <1>2, <1>8
<1>10. Min(S) \in S /\ \A n \in S : Min(S) <= n
  BY <1>9, MinOfNats
<1>11. CASE last < i
  (* The key ends the line, or nearly: there is no value. *)
  <2>1. IF i <= Len(line) THEN i = start ELSE start > Len(line)
    <3>1. CASE i <= Len(line)
      <4>1. i - 1 \in start .. i - 1 => i - 1 + Len(key) <= Len(line)
        BY <1>3, <3>1
      <4> QED BY <3>1, <4>1, <1>11, <1>2, <1>3
    <3> QED BY <3>1, <1>5
  <2>2. Min(S) \in 0 .. Len(line) /\ Min(S) <= start
    <3>1. Min(S) \in Nat /\ Min(S) <= last
      <4> HIDE DEF S
      <4> QED BY <1>9, <1>10
    <3> QED BY <3>1, <1>9, <1>11, <1>2, <2>1
  <2>3. Value(line, key, Min(S)) = 0
    BY <2>2, <1>1, ValuesByIndex DEF start
  <2>4. i <= Len(line) => Value(line, key, i) = 0
    BY <2>1, <1>1, <1>2, ValuesByIndex DEF start
  <2> QED BY <2>3, <2>4, <1>5, <1>7
<1>12. CASE i <= last
  <2>1. i \in S
    <3>1. CASE NoRoom
      BY <3>1, <1>12, <1>2 DEF NoRoom
    <3> i <= Len(line)
      BY <1>12, <1>2
    <3>2. CASE ~NoRoom /\ CharAt(line, i) = " "
      <4>1. ~NoRoom
        BY <3>2
      <4>2. i \in start .. Len(line) - 1
        BY <4>1, <1>2, <1>3 DEF NoRoom
      <4> QED BY <4>2, <3>2 DEF Blanks, start
    <3>3. CASE ~NoRoom /\ CharAt(line, i) = "NUL"
      <4>1. i \in 0 .. Len(line) - 1
        BY <3>3, <1>2, <1>3 DEF NoRoom
      <4> QED BY <4>1, <3>3, <1>1, CharOfLine
    <3> QED BY <3>1, <3>2, <3>3, <1>6 DEF AtEnd
  <2>2. \A n \in S : i <= n
    BY <1>8, <1>12
  <2>3. Min(S) = i
    <3> HIDE DEF S
    <3> QED BY <2>1, <2>2, <1>9, MinIs
  <2> QED BY <2>3, <1>5, <1>7, <1>9, <1>12, <1>2
<1> QED BY <1>11, <1>12, <1>2

(* The search and the digits. *)
LEMMA ParseComputes ==
  ASSUME Parse, ParseTypeOK, Texts, ParseSoFar
  PROVE  ParseSoFar'
<1>1. /\ line \in Seq(DOMAIN Ascii) /\ key \in Seq(DOMAIN Ascii) /\ key # <<>>
      /\ Len(line) \in Nat /\ Len(key) \in Nat \ {0} /\ i \in 0 .. Len(line) + 3
      /\ line' = line /\ key' = key
  <2>1. loop # "none" /\ line' = line /\ key' = key
    BY DEF Parse, NotFound, SearchOn, Found, ReadDigit, ReadEnd
  <2> QED BY <2>1 DEF ParseTypeOK, Texts
<1>2. CASE NotFound
  <2>1. NoRoom
    <3>1. CASE i \in 0 .. Len(line) - 1
      BY <3>1, <1>1, <1>2, CharOfLine DEF NotFound
    <3>2. CASE i \notin 0 .. Len(line) - 1
      BY <3>2, <1>1 DEF NoRoom
    <3> QED BY <3>1, <3>2
  <2>2. result = 0 /\ \A n \in Occurrences(line, key) : i <= n
    BY <1>2 DEF NotFound, ParseSoFar
  <2>3. Occurrences(line, key) = {}
    <3>1. \A n \in Occurrences(line, key) : n \in 0 .. Len(line) - Len(key)
      BY DEF Occurrences
    <3> QED BY <3>1, <2>1, <2>2, <1>1 DEF NoRoom
  <2>4. Expected(line, key) = 0
    BY <2>3 DEF Expected
  <2> QED BY <2>2, <2>4, <1>1, <1>2 DEF NotFound, ParseSoFar
<1>3. CASE SearchOn
  <2>1. /\ result = 0 /\ (\A n \in Occurrences(line, key) : i <= n)
        /\ loop = "search" /\ ~Matches(line, key, i)
        /\ i' = i + 1 /\ result' = result /\ loop' = loop
    BY <1>3 DEF SearchOn, ParseSoFar
  <2>2. \A n \in Occurrences(line, key) : n \in Int /\ n # i
    BY <2>1, <1>1 DEF Occurrences
  <2>3. \A n \in Occurrences(line, key) : i + 1 <= n
    BY <2>1, <2>2, <1>1
  <2> QED BY <2>1, <2>3, <1>1 DEF ParseSoFar
<1>4. CASE Found
  <2>1. /\ result = 0 /\ (\A n \in Occurrences(line, key) : i <= n)
        /\ ~NoRoom /\ Matches(line, key, i)
        /\ result' = result /\ loop' = "digits"
    BY <1>4 DEF Found, ParseSoFar
  <2>2. i \in Occurrences(line, key)
    BY <2>1, <1>1 DEF Occurrences, NoRoom
  <2>3. Behind(line, key) = i + Len(key) + 1
    <3>1. Occurrences(line, key) \subseteq Int
      BY <1>1 DEF Occurrences
    <3> QED BY <3>1, <2>1, <2>2, MinIs DEF Behind
  <2>4. ValueStart(line, key) \in Nat
    BY <1>1, <2>2, ValueStartIsNat
  <2>5. ASSUME Behind(line, key) <= Len(line) PROVE DigitsSoFar'
    <3>1. i' = ValueStart(line, key) /\ base' = Base(line, key)
      BY <1>4, <1>1, <2>3, <2>5 DEF Found, MayBeHex, ValueStart, Base
    <3>2. i' <= Len(line) => result' = Value(line, key, i')
      BY <2>1, <2>2, <2>4, <3>1, <1>1, ValuesByIndex
    <3>3. ValueStart(line, key) <= i' /\ \A n \in ValueStart(line, key) .. i' - 1 : FALSE
      BY <2>4, <3>1
    <3>4. i' <= Len(line) => DigitsOnLine'
      BY <3>1, <3>2, <3>3, <1>1, Zenon DEF DigitsOnLine
    <3>5. ~(i' <= Len(line)) => ValueStart(line, key) > Len(line) /\ result' = 0
      BY <2>1, <2>4, <3>1, <1>1
    <3>6. Occurrences(line', key') # {} /\ Len(line') = Len(line)
      BY <2>2, <1>1
    <3>7. ValueStart(line', key') = ValueStart(line, key)
      BY <1>1
    <3> QED BY <3>4, <3>5, <3>6, <3>7, Zenon DEF DigitsSoFar
  <2>6. ASSUME ~(Behind(line, key) <= Len(line)) PROVE DigitsSoFar'
    <3>1. i' > Len(line)
      BY <1>4, <1>1, <2>3, <2>6 DEF Found
    <3>2. ValueStart(line, key) > Len(line)
      BY <1>1, <2>3, <2>6 DEF ValueStart
    <3>3. ~(i' <= Len(line))
      BY <1>4, <1>1, <3>1 DEF Found
    <3>4. Occurrences(line', key') # {} /\ Len(line') = Len(line)
      BY <2>2, <1>1
    <3>5. ValueStart(line', key') = ValueStart(line, key)
      BY <1>1
    <3> QED BY <2>1, <3>2, <3>3, <3>4, <3>5, Zenon DEF DigitsSoFar
  <2>7. DigitsSoFar'
    BY <2>5, <2>6
  <2> QED BY <2>1, <2>7 DEF ParseSoFar
<1>5. CASE ReadDigit
  <2>1. /\ Occurrences(line, key) # {} /\ ValueStart(line, key) <= i
        /\ base = Base(line, key)
        /\ result = Value(line, key, i)
        /\ ~NoRoom
        /\ i' = i + 1 /\ base' = base /\ loop' = "digits"
        /\ result' = result * base + Digit(CharAt(line, i))
    <3>1. ~NoRoom
      BY <1>5 DEF ReadDigit, AtEnd
    <3>2. i <= Len(line)
      BY <1>1, <3>1 DEF NoRoom
    <3> QED BY <1>5, <3>2 DEF ReadDigit, AtEnd, ParseSoFar, DigitsSoFar, DigitsOnLine
  <2>2. ValueStart(line, key) \in Nat /\ i + Len(key) <= Len(line)
    BY <1>1, <2>1, ValueStartIsNat DEF NoRoom
  <2>3. result' = Value(line, key, i + 1) /\ i + 1 <= Len(line)
    <3>1. i + 1 \in 0 .. Len(line) /\ (i + 1) - 1 = i /\ i + 1 > ValueStart(line, key)
      BY <2>1, <2>2, <1>1
    <3>2. Value(line, key, i + 1) = Value(line, key, i) * Base(line, key) + Digit(CharAt(line, i))
      BY <3>1, <2>1, <1>1, ValuesByIndex
    <3>3. result' = Value(line, key, i) * Base(line, key) + Digit(CharAt(line, i))
      BY <2>1, Zenon
    <3>4. i + 1 <= Len(line)
      BY <3>1, <1>1
    <3> QED BY <3>2, <3>3, <3>4, Zenon
  <2>4. \A n \in ValueStart(line, key) .. i : CharAt(line, n) # " "
    <3>1. i <= Len(line)
      BY <2>2, <1>1
    <3>2. CharAt(line, i) # " " /\ \A n \in ValueStart(line, key) .. i - 1 : CharAt(line, n) # " "
      BY <1>5, <3>1 DEF ReadDigit, AtEnd, ParseSoFar, DigitsSoFar, DigitsOnLine
    <3>3. \A n \in ValueStart(line, key) .. i : n = i \/ n \in ValueStart(line, key) .. i - 1
      BY <2>2, <1>1
    <3> QED BY <3>2, <3>3
  <2>5. \A n \in ValueStart(line, key) .. i : n + Len(key) <= Len(line)
    BY <2>1, <2>2, <1>1
  <2>6. i' - 1 = i /\ ValueStart(line, key) <= i' /\ i' <= Len(line)
    BY <2>1, <2>2, <2>3, <1>1
  <2>7. result' = Value(line, key, i')
    BY <2>1, <2>3
  <2>8. DigitsSoFar'
    BY <2>1, <2>4, <2>5, <2>6, <2>7, <1>1, Zenon DEF DigitsSoFar, DigitsOnLine
  <2> QED BY <2>1, <2>8 DEF ParseSoFar
<1>6. CASE ReadEnd
  BY <1>6, <1>1, ReadEndExpected DEF ReadEnd, ParseSoFar
<1> QED BY <1>2, <1>3, <1>4, <1>5, <1>6 DEF Parse

-----------------------------------------------------------------------------
(* The walk. *)

(* What the assumptions say of the list and the tag the walk is at. *)
LEMMA ListFacts ==
  ASSUME list \in Lists, tags \in DOMAIN list
  PROVE  /\ list \in Seq(Tag) /\ Len(list) \in Nat /\ DOMAIN list = 1 .. Len(list)
         /\ tags \in 1 .. Len(list)
         /\ \A n \in DOMAIN list : list[n].mem \in Nat /\ list[n].line \in Seq(DOMAIN Ascii)
         /\ \E n \in DOMAIN list : list[n].tag = "NONE"
<1>1. list \in Seq(Tag) /\ \E n \in DOMAIN list : list[n].tag = "NONE"
  BY AtagsAssumption
<1>2. Len(list) \in Nat /\ DOMAIN list = 1 .. Len(list)
  BY <1>1
<1>3. \A n \in DOMAIN list : list[n] \in Tag
  BY <1>1
<1>4. \A t \in Tag : t.mem \in Nat /\ t.line \in Seq(DOMAIN Ascii)
  BY DEF Tag
<1> QED BY <1>1, <1>2, <1>3, <1>4

(* A step over a tag that is neither memory nor the end; over a command    *)
(* line when it has been parsed.                                           *)
LEMMA PassesOther ==
  ASSUME IInv, Advance, list' = list, ramsize' = ramsize, cmdline' = cmdline,
         list[tags].tag \notin {"NONE", "MEM"}, pc' = "detect",
         IF list[tags].tag = "CMDLINE" THEN cmdline = tags ELSE pc # "parse"
  PROVE  WalkSoFar' /\ tags' \in DOMAIN list
<1>1. /\ Len(list) \in Nat /\ DOMAIN list = 1 .. Len(list) /\ tags \in 1 .. Len(list)
      /\ \E n \in DOMAIN list : list[n].tag = "NONE"
  BY ListFacts DEF IInv, Texts, TypeOK, DetectTypeOK
<1>2. CASE list[tags].empty
  BY <1>1, <1>2 DEF Advance, IInv, WalkSoFar, Stuck
<1>3. CASE ~list[tags].empty
  <2>1. tags' = tags + 1
    BY <1>3 DEF Advance
  <2>2. \A m \in 1 .. tags : list[m].tag # "NONE"
    BY <1>1 DEF IInv, WalkSoFar
  <2>3. tags + 1 \in DOMAIN list
    BY <2>2, <1>1
  <2>4. PICK n \in 0 .. Len(list) : IsLast("MEM", n) /\ ramsize = Memory(n)
    BY <1>3 DEF IInv, WalkSoFar, Stuck
  <2>5. IsLast("MEM", n)' /\ Memory(n)' = Memory(n)
    BY <2>1, <2>4, <1>1 DEF IsLast, Memory
  <2>6. Len(list') = Len(list)
    OBVIOUS
  <2>7. (\E k \in 0 .. Len(list) : IsLast("MEM", k) /\ ramsize = Memory(k))'
    BY <2>4, <2>5, <2>6
  <2>8. IsLast("CMDLINE", cmdline)'
    <3>1. CASE list[tags].tag = "CMDLINE"
      BY <3>1, <2>1, <1>1 DEF IsLast
    <3>2. CASE list[tags].tag # "CMDLINE"
      <4>1. IsLast("CMDLINE", cmdline)
        BY <3>2, <1>3 DEF IInv, WalkSoFar, Stuck
      <4> QED BY <4>1, <3>2, <2>1, <1>1 DEF IsLast
    <3> QED BY <3>1, <3>2
  <2> QED BY <1>1, <2>1, <2>2, <2>3, <2>7, <2>8 DEF WalkSoFar
<1> QED BY <1>2, <1>3

(* A step over a memory tag. *)
LEMMA PassesMemory ==
  ASSUME IInv, Mem
  PROVE  WalkSoFar' /\ tags' \in DOMAIN list
<1>1. /\ Len(list) \in Nat /\ DOMAIN list = 1 .. Len(list) /\ tags \in 1 .. Len(list)
      /\ \E n \in DOMAIN list : list[n].tag = "NONE"
  BY ListFacts DEF IInv, Texts, TypeOK, DetectTypeOK
<1>2. /\ list' = list /\ pc = "detect" /\ pc' = pc /\ cmdline' = cmdline
      /\ list[tags].tag = "MEM"
      /\ ramsize' = list[tags].mem
      /\ tags' = IF list[tags].empty THEN tags ELSE tags + 1
  BY DEF Mem, At, Advance
<1>3. CASE list[tags].empty
  BY <1>1, <1>2, <1>3 DEF IInv, WalkSoFar, Stuck
<1>4. CASE ~list[tags].empty
  <2>1. tags' = tags + 1
    BY <1>2, <1>4
  <2>2. \A m \in 1 .. tags : list[m].tag # "NONE"
    BY <1>1, <1>2 DEF IInv, WalkSoFar
  <2>3. tags + 1 \in DOMAIN list
    BY <2>2, <1>1
  <2>4. PICK n \in 0 .. Len(list) : n = tags
    BY <1>1
  <2>5. IsLast("MEM", n)' /\ ramsize' = Memory(n)'
    BY <1>1, <1>2, <2>1, <2>4 DEF IsLast, Memory
  <2>6. (\E k \in 0 .. Len(list) : IsLast("MEM", k) /\ ramsize = Memory(k))'
    BY <2>5, <2>4, <1>2
  <2>7. IsLast("CMDLINE", cmdline)'
    <3>1. IsLast("CMDLINE", cmdline)
      BY <1>2, <1>4 DEF IInv, WalkSoFar, Stuck
    <3> QED BY <3>1, <1>1, <1>2, <2>1 DEF IsLast
  <2> QED BY <1>1, <1>2, <2>1, <2>2, <2>3, <2>6, <2>7 DEF WalkSoFar
<1> QED BY <1>3, <1>4

(* No step from which tags, list and ramsize are the same changes what the *)
(* walk has passed.                                                        *)
LEMMA WalkStays ==
  ASSUME IInv, UNCHANGED <<list, tags, ramsize>>,
         pc' # "parse" => pc # "parse" /\ cmdline' = cmdline,
         pc' = "parse" => list[tags].tag = "CMDLINE",
         pc' \in {"done", "booted", "fault"} => list[tags].tag = "NONE"
  PROVE  WalkSoFar'
BY DEF IInv, WalkSoFar, IsLast, Stuck, Memory

(* No step outside parse_cmdline_int and around it changes the numbers. *)
LEMMA NumbersStay ==
  ASSUME IInv, UNCHANGED <<list, cmdline, info, parse_vars>>, pc # "parse", pc' # "parse"
  PROVE  ParseSoFar' /\ KeysSoFar'
<1>1. UNCHANGED <<line, key, i, base, result, loop>>
  BY DEF parse_vars
<1>2. ParseSoFar'
  BY <1>1 DEF IInv, ParseSoFar, DigitsSoFar, DigitsOnLine
<1>3. KeysSoFar'
  BY DEF IInv, KeysSoFar
<1> QED BY <1>2, <1>3

-----------------------------------------------------------------------------
(* The inductive invariant. *)

LEMMA InitIInv == Init => IInv
<1> SUFFICES ASSUME Init PROVE IInv
  OBVIOUS
<1>1. /\ list \in Lists /\ tags = 1 /\ ramsize = 0 /\ cmdline = 0
      /\ info = [n \in DOMAIN Keys |-> 0] /\ pc = "detect"
      /\ line = <<>> /\ key = <<>> /\ i = 0 /\ base = 10 /\ result = 0 /\ loop = "none"
  BY DEF Init, DetectInit, ParseInit
<1>2. list \in Seq(Tag) /\ \E n \in DOMAIN list : list[n].tag = "NONE"
  BY <1>1, AtagsAssumption
<1>3. Len(list) \in Nat /\ DOMAIN list = 1 .. Len(list) /\ 1 \in DOMAIN list
  BY <1>2
<1>4. ParseTypeOK /\ Texts
  BY <1>1 DEF ParseTypeOK, Texts
<1>5. MemoryInv
  <2>1. /\ mem_end = 0 /\ page_table = [e \in Section |-> Unused] /\ fill = 0 /\ step = 1
        /\ cp15 = [r \in Register |-> "old"]
    BY DEF Init, MemoryInit
  <2>2. MappedBefore(0) = {}
    BY DEF MappedBefore
  <2>3. TableSoFar
    BY <2>1, <2>2 DEF TableSoFar
  <2>4. RegistersSoFar
    BY <2>1 DEF RegistersSoFar, MmuIsOn, Register
  <2> QED BY <2>1, <2>3, <2>4 DEF MemoryInv
<1>6. WalkSoFar
  <2>1. IsLast("MEM", 0) /\ IsLast("CMDLINE", 0) /\ Memory(0) = 0
    BY <1>1 DEF IsLast, Memory
  <2> QED BY <2>1, <1>1, <1>3 DEF WalkSoFar
<1>7. Handover
  BY <1>1 DEF Handover, Init, MemoryInit
<1>8. TypeOK
  BY <1>1, <1>3, <1>4, <1>5, MemoryTyped DEF TypeOK, DetectTypeOK
<1>9. ParseSoFar /\ KeysSoFar
  BY <1>1 DEF ParseSoFar, KeysSoFar
<1> QED BY <1>4, <1>5, <1>6, <1>7, <1>8, <1>9 DEF IInv

(* The call of parse_cmdline_int for one of the keys. *)
LEMMA CallTyped ==
  ASSUME NEW l \in Seq(DOMAIN Ascii), NEW n \in DOMAIN Keys, list' \in Lists,
         ParseCall(l, Keys[n])
  PROVE  /\ ParseTypeOK' /\ Texts' /\ ParseSoFar'
         /\ line' = l /\ key' = Keys[n]
<1>1. Keys[n] \in Seq(DOMAIN Ascii) /\ Keys[n] # <<>>
  BY AtagsAssumption
<1>2. Len(l) \in Nat
  OBVIOUS
<1>3. \A m \in Occurrences(l, Keys[n]) : m \in Nat /\ 0 <= m
  BY <1>1, <1>2 DEF Occurrences
<1>4. line' = l /\ key' = Keys[n] /\ i' = 0 /\ base' = 10 /\ result' = 0 /\ loop' = "search"
  BY DEF ParseCall
<1>5. ParseSoFar'
  BY <1>3, <1>4 DEF ParseSoFar
<1> QED BY <1>1, <1>2, <1>4, <1>5 DEF ParseTypeOK, Texts

LEMMA DetectingKeeps ==
  ASSUME IInv, Detecting
  PROVE  IInv'
<1>1. /\ MemoryInv' /\ MemoryTypeOK' /\ fill' = fill /\ mem_end' = mem_end
      /\ list' = list /\ list \in Lists
  <2>1. MemoryInv' /\ fill' = fill /\ mem_end' = mem_end
    BY MemoryStays DEF Detecting, IInv, memory_vars
  <2>2. list' = list
    BY DEF Detecting, Detect, Mem, Cmdline, Parsing, Parsed, Skip, None, Unknown, atags_vars
  <2>3. MemoryTypeOK'
    BY <2>1, MemoryTyped, PTL
  <2> QED BY <2>1, <2>2, <2>3 DEF IInv, Texts
<1>2. /\ DetectTypeOK /\ ParseTypeOK /\ Texts /\ pc \in {"detect", "parse"} /\ fill = 0
  <2>1. pc \in {"detect", "parse"}
    BY DEF Detecting, Detect, Mem, Cmdline, Parsing, Parsed, Skip, None, Unknown, At
  <2> QED BY <2>1 DEF IInv, TypeOK, DetectTypeOK, Handover
<1>3. Len(list) \in Nat /\ DOMAIN list = 1 .. Len(list) /\ tags \in 1 .. Len(list)
  BY <1>1, <1>2, ListFacts DEF DetectTypeOK
<1>4. SUFFICES /\ WalkSoFar' /\ ParseTypeOK' /\ Texts' /\ tags' \in DOMAIN list
               /\ ParseSoFar' /\ KeysSoFar'
               /\ ramsize' \in Nat /\ cmdline' \in 0 .. Len(list)
               /\ info' \in [DOMAIN Keys -> Int]
               /\ pc' \in {"detect", "parse", "done"}
  <2>1. Handover'
    BY <1>1, <1>2 DEF Handover
  <2> QED BY <1>1, <1>4, <2>1 DEF IInv, TypeOK, DetectTypeOK
<1>5. CASE Mem
  <2>1. list[tags].mem \in Nat
    BY <1>1, <1>2, ListFacts DEF DetectTypeOK
  <2>2. WalkSoFar' /\ tags' \in DOMAIN list
    BY <1>5, PassesMemory
  <2>3. /\ ramsize' \in Nat /\ cmdline' = cmdline /\ info' = info
        /\ pc = "detect" /\ pc' = "detect" /\ UNCHANGED parse_vars
    BY <1>5, <2>1 DEF Mem, At
  <2>4. ParseSoFar' /\ KeysSoFar'
    BY <2>3, <1>1, NumbersStay
  <2> QED BY <2>2, <2>3, <2>4, <1>1, <1>2 DEF DetectTypeOK, ParseTypeOK, Texts, parse_vars
<1>6. CASE Cmdline
  <2>1. /\ cmdline' = tags /\ pc' = "parse" /\ list[tags].tag = "CMDLINE"
        /\ tags' = tags /\ ramsize' = ramsize /\ info' = info
        /\ ParseCall(list[tags].line, Keys[1])
    BY <1>6 DEF Cmdline, At
  <2>2. list[tags].line \in Seq(DOMAIN Ascii)
    BY <1>1, <1>2, ListFacts DEF DetectTypeOK
  <2>3. 1 \in DOMAIN Keys
    BY AtagsAssumption
  <2>4. /\ ParseTypeOK' /\ Texts' /\ ParseSoFar'
        /\ line' = list[tags].line /\ key' = Keys[1]
    BY <2>1, <2>2, <2>3, <1>1, CallTyped
  <2>5. KeysSoFar'
    BY <2>1, <2>3, <2>4, <1>1 DEF KeysSoFar
  <2>6. WalkSoFar'
    BY <2>1, <1>1, WalkStays
  <2> QED BY <2>1, <2>4, <2>6, <2>5, <1>2, <1>3 DEF DetectTypeOK
<1>7. CASE Parsing
  <2>1. UNCHANGED <<list, tags, ramsize, cmdline, info, pc>> /\ Parse /\ pc = "parse"
    BY <1>7 DEF Parsing
  <2>2. ParseTypeOK' /\ Texts'
    BY <2>1, <1>2, ParseKeeps, CmdlineAssumption
  <2>3. WalkSoFar'
    BY <2>1, WalkStays DEF IInv, WalkSoFar
  <2>4. ParseSoFar'
    BY <2>1, <1>2, ParseComputes DEF IInv
  <2>5. line' = line /\ key' = key
    BY <2>1 DEF Parse, NotFound, SearchOn, Found, ReadDigit, ReadEnd
  <2>6. KeysSoFar'
    BY <2>1, <2>5 DEF IInv, KeysSoFar
  <2> QED BY <2>1, <2>2, <2>3, <2>4, <2>6, <1>2 DEF DetectTypeOK
<1>8. ASSUME NEW n \in DOMAIN Keys, Parsed(n)
      PROVE  /\ WalkSoFar' /\ ParseTypeOK' /\ Texts' /\ tags' \in DOMAIN list
             /\ ParseSoFar' /\ KeysSoFar'
             /\ ramsize' \in Nat /\ cmdline' \in 0 .. Len(list)
             /\ info' \in [DOMAIN Keys -> Int]
             /\ pc' \in {"detect", "parse", "done"}
  <2>1. /\ ramsize' = ramsize /\ cmdline' = cmdline /\ pc = "parse"
        /\ info' = [info EXCEPT ![n] = result]
        /\ list[tags].tag = "CMDLINE" /\ cmdline = tags /\ line = list[tags].line
    BY <1>8 DEF Parsed, IInv, WalkSoFar, KeysSoFar
  <2>2. \A m \in 1 .. n : info'[m] = Expected(line, Keys[m])
    <3>1. PICK k \in DOMAIN Keys :
            key = Keys[k] /\ \A m \in 1 .. k - 1 : info[m] = Expected(line, Keys[m])
      BY <2>1 DEF IInv, KeysSoFar
    <3>2. k = n
      BY <3>1, <1>8, AtagsAssumption DEF Parsed
    <3>3. result = Expected(line, Keys[n])
      BY <1>8 DEF Parsed, IInv, ParseSoFar
    <3>4. DOMAIN info = DOMAIN Keys /\ DOMAIN Keys = 1 .. Len(Keys) /\ Len(Keys) \in Nat
      BY <1>2, AtagsAssumption DEF DetectTypeOK
    <3>5. \A m \in 1 .. n : m \in DOMAIN info /\ (m = n \/ m \in 1 .. n - 1)
      BY <3>4
    <3> QED BY <3>1, <3>2, <3>3, <3>5, <2>1
  <2>3. info' \in [DOMAIN Keys -> Int]
    BY <2>1, <1>2 DEF DetectTypeOK, ParseTypeOK
  <2>4. CASE n < Len(Keys)
    <3>1. n + 1 \in DOMAIN Keys
      BY <2>4, AtagsAssumption
    <3>2. ParseCall(line, Keys[n + 1]) /\ tags' = tags /\ pc' = pc
      BY <1>8, <2>4 DEF Parsed
    <3>3. /\ ParseTypeOK' /\ Texts' /\ ParseSoFar'
          /\ line' = line /\ key' = Keys[n + 1]
      BY <3>1, <3>2, <1>1, <1>2, CallTyped DEF Texts
    <3>4. WalkSoFar'
      BY <3>2, <2>1, <1>1, WalkStays
    <3>5. KeysSoFar'
      <4>1. \A m \in 1 .. (n + 1) - 1 : info'[m] = Expected(line, Keys[m])
        <5>1. (n + 1) - 1 = n
          BY AtagsAssumption
        <5> QED BY <5>1, <2>2
      <4> QED BY <4>1, <2>1, <3>1, <3>2, <3>3, <1>1 DEF KeysSoFar
    <3> QED BY <2>1, <2>3, <3>2, <3>3, <3>4, <3>5, <1>2 DEF DetectTypeOK
  <2>5. CASE ~(n < Len(Keys))
    <3>1. Advance /\ pc' = "detect" /\ UNCHANGED parse_vars
      BY <1>8, <2>5 DEF Parsed
    <3>2. WalkSoFar' /\ tags' \in DOMAIN list
      BY <3>1, <2>1, <1>1, PassesOther
    <3>3. ParseSoFar'
      BY <3>1, <1>8 DEF parse_vars, Parsed, ParseSoFar
    <3>4. KeysSoFar'
      <4>1. \A m \in DOMAIN Keys : m \in 1 .. n
        BY <2>5, AtagsAssumption
      <4>2. cmdline # 0
        BY <2>1, <1>3
      <4> QED BY <4>1, <4>2, <2>1, <2>2, <3>1, <1>1 DEF KeysSoFar
    <3> QED BY <2>1, <2>3, <3>1, <3>2, <3>3, <3>4, <1>1, <1>2
            DEF DetectTypeOK, ParseTypeOK, Texts, parse_vars
  <2> QED BY <2>4, <2>5
<1>9. CASE Skip
  <2>1. /\ Advance /\ ramsize' = ramsize /\ cmdline' = cmdline /\ info' = info
        /\ pc = "detect" /\ pc' = "detect" /\ UNCHANGED parse_vars
        /\ list[tags].tag \notin {"NONE", "MEM", "CMDLINE"}
    BY <1>9 DEF Skip, At, Skipped
  <2>2. WalkSoFar' /\ tags' \in DOMAIN list
    BY <2>1, <1>1, PassesOther
  <2>3. ParseSoFar' /\ KeysSoFar'
    BY <2>1, <1>1, NumbersStay
  <2> QED BY <2>1, <2>2, <2>3, <1>1, <1>2 DEF DetectTypeOK, ParseTypeOK, Texts, parse_vars
<1>10. CASE None
  <2>1. /\ UNCHANGED <<list, tags, ramsize, cmdline, info, parse_vars>>
        /\ pc = "detect" /\ pc' = "done" /\ list[tags].tag = "NONE"
    BY <1>10 DEF None, At
  <2>2. WalkSoFar'
    BY <2>1, WalkStays
  <2>3. ParseSoFar' /\ KeysSoFar'
    BY <2>1, NumbersStay
  <2> QED BY <2>1, <2>2, <2>3, <1>2 DEF DetectTypeOK, ParseTypeOK, Texts, parse_vars
<1>11. CASE Unknown
  <2>1. UNCHANGED atags_vars /\ pc = "detect"
    BY <1>11 DEF Unknown, At
  <2>2. WalkSoFar'
    BY <2>1, WalkStays DEF atags_vars
  <2>3. ParseSoFar' /\ KeysSoFar'
    BY <2>1, NumbersStay DEF atags_vars
  <2> QED BY <2>1, <2>2, <2>3, <1>2 DEF DetectTypeOK, ParseTypeOK, Texts, atags_vars, parse_vars
<1> QED BY <1>5, <1>6, <1>7, <1>8, <1>9, <1>10, <1>11 DEF Detecting, Detect

(* After the walk only the memory's variables and pc change. *)
LEMMA LaterKeeps ==
  ASSUME IInv, UNCHANGED <<list, tags, ramsize, cmdline, info, parse_vars>>,
         pc \notin {"detect", "parse"}, pc' \in {pc, "booted", "fault"},
         MemoryInv', mem_end' = ramsize
  PROVE  IInv'
<1>1. MemoryTypeOK'
  BY MemoryTyped, PTL
<1>2. pc \in {"done", "booted", "fault"} /\ list[tags].tag = "NONE"
  BY DEF IInv, TypeOK, WalkSoFar
<1>3. WalkSoFar'
  BY <1>2, WalkStays
<1>4. DetectTypeOK' /\ Texts'
  BY DEF IInv, TypeOK, DetectTypeOK, ParseTypeOK, Texts, parse_vars
<1>5. Handover'
  BY <1>2 DEF Handover
<1>6. ParseSoFar' /\ KeysSoFar'
  BY <1>2, NumbersStay
<1> QED BY <1>1, <1>2, <1>3, <1>4, <1>5, <1>6 DEF IInv, TypeOK

(* Every step of the boot keeps the invariant: the walk over the tags, the *)
(* loops that fill the table, the steps that turn translation on.          *)
THEOREM Inductive == IInv /\ [Next]_vars => IInv'
<1> SUFFICES ASSUME IInv, [Next]_vars PROVE IInv'
  OBVIOUS
<1>1. CASE Detecting
  BY <1>1, DetectingKeeps
<1>2. CASE MemoryInitCall
  <2>1. ramsize \in Nat /\ MemoryInv
    BY DEF IInv, TypeOK, DetectTypeOK
  <2>2. PageTableCall(ramsize) /\ UNCHANGED atags_vars /\ pc = "done"
    BY <1>2 DEF MemoryInitCall
  <2>3. MemoryInv' /\ mem_end' = ramsize
    BY <2>1, <2>2, PageTableCallKeeps DEF PageTableCall
  <2> QED BY <2>2, <2>3, LaterKeeps DEF atags_vars
<1>3. CASE Virtual
  <2>1. fill > 0 /\ mem_end' = mem_end /\ MemoryInv'
    <3>1. MemoryInv /\ Len(Loops) = 5 /\ DOMAIN Loops = 1 .. 5
      BY LoopsByNumber DEF IInv
    <3>2. CASE Fill
      BY <3>1, <3>2, FillKeeps DEF Fill
    <3>3. CASE MmuInit
      BY <3>1, <3>3, MmuInitKeeps DEF MmuInit
    <3> QED BY <1>3, <3>2, <3>3 DEF Virtual
  <2>2. UNCHANGED atags_vars /\ mem_end = ramsize /\ pc \notin {"detect", "parse"}
    BY <1>3, <2>1 DEF Virtual, IInv, Handover
  <2> QED BY <2>1, <2>2, LaterKeeps DEF atags_vars
<1>4. CASE Continue
  <2>1. /\ UNCHANGED <<list, tags, ramsize, cmdline, info, parse_vars, memory_vars>>
        /\ pc = "done" /\ pc' \in {"booted", "fault"} /\ step > Len(MmuSteps)
    BY <1>4 DEF Continue
  <2>2. MemoryInv' /\ mem_end' = mem_end
    BY <2>1, MemoryStays DEF IInv, memory_vars
  <2>3. mem_end = ramsize
    BY <2>1, StepsByNumber, LoopsByNumber DEF IInv, MemoryInv, RegistersSoFar, Handover
  <2> QED BY <2>1, <2>2, <2>3, LaterKeeps
<1>5. CASE UNCHANGED vars
  <2>1. MemoryInv' /\ UNCHANGED atags_vars /\ UNCHANGED memory_vars
    BY <1>5, MemoryStays DEF IInv, vars
  <2>2. ParseSoFar' /\ KeysSoFar'
    <3>1. /\ UNCHANGED <<list, tags, cmdline, info, pc>>
          /\ UNCHANGED <<line, key, i, base, result, loop>>
      BY <2>1 DEF atags_vars, parse_vars
    <3> QED BY <3>1 DEF IInv, ParseSoFar, DigitsSoFar, DigitsOnLine, KeysSoFar
  <2>3. WalkSoFar'
    BY <2>1, WalkStays DEF atags_vars, IInv, WalkSoFar
  <2>4. MemoryTypeOK'
    BY <2>1, MemoryTyped, PTL
  <2> QED BY <2>1, <2>3, <2>4, <2>2
          DEF IInv, TypeOK, DetectTypeOK, ParseTypeOK, Texts, Handover, atags_vars, parse_vars, memory_vars
<1> QED BY <1>1, <1>2, <1>3, <1>4, <1>5 DEF Next

(* Types: the walk stays within the list, the index of parse_cmdline_int   *)
(* at most one behind the line's end, and every entry of the table is a    *)
(* section of its own or unused.                                           *)
THEOREM TypeCorrect == Spec => []TypeOK
<1>1. IInv => TypeOK
  BY DEF IInv
<1> QED BY <1>1, InitIInv, Inductive, PTL DEF Spec

-----------------------------------------------------------------------------
(* What the walk has found, once it is at the end. *)
LEMMA ReportedIsRamsize ==
  ASSUME IInv, list[tags].tag = "NONE"
  PROVE  Reported = ramsize
<1>1. /\ Len(list) \in Nat /\ DOMAIN list = 1 .. Len(list) /\ tags \in 1 .. Len(list)
  BY ListFacts DEF IInv, Texts, TypeOK, DetectTypeOK
<1>2. Min({n \in DOMAIN list : list[n].tag = "NONE"}) = tags
  <2> DEFINE S == {n \in DOMAIN list : list[n].tag = "NONE"}
  <2>1. tags \in S /\ \A m \in S : tags <= m
    BY <1>1 DEF IInv, WalkSoFar
  <2>2. \A x \in S : (\A m \in S : x <= m) => x = tags
    BY <2>1, <1>1
  <2> QED BY <2>1, <2>2 DEF Min
<1>3. PICK n \in 0 .. Len(list) : IsLast("MEM", n) /\ ramsize = Memory(n)
  BY DEF IInv, WalkSoFar, Stuck
<1>4. Latest("MEM", 1 .. tags) = n
  <2> DEFINE S == {m \in 1 .. tags : list[m].tag = "MEM"} \cup {0}
  <2>1. n \in S /\ \A m \in S : n >= m
    BY <1>1, <1>3 DEF IsLast
  <2>2. \A x \in S : (\A m \in S : x >= m) => x = n
    BY <2>1, <1>1
  <2> QED BY <2>1, <2>2 DEF Latest, Max
<1> QED BY <1>2, <1>3, <1>4 DEF Reported, Walk

(* What the loops and the steps have done when translation is on. *)
LEMMA ReadyWhileInv ==
  ASSUME IInv
  PROVE  MmuIsReady
<1> SUFFICES ASSUME MmuIsOn
             PROVE  /\ cp15["ttbr0"] = "page_table" /\ cp15["tlb"] = "invalid"
                    /\ cp15["dacr"] = "client" /\ cp15["afe"] = "off"
                    /\ page_table = [e \in Section |-> IF e \in Reachable THEN e ELSE Unused]
  BY DEF MmuIsReady
<1>1. MemoryInv /\ step = 12 /\ fill = 6
  BY LoopsByNumber DEF IInv, MemoryInv, RegistersSoFar
<1>2. /\ cp15["ttbr0"] = "page_table" /\ cp15["tlb"] = "invalid"
      /\ cp15["dacr"] = "client" /\ cp15["afe"] = "off"
  BY <1>1 DEF MemoryInv, RegistersSoFar
<1>3. mem_end \in Nat /\ mem_end = ramsize /\ list[tags].tag = "NONE"
  BY <1>1 DEF IInv, MemoryInv, Handover, TypeOK, WalkSoFar
<1>4. Reported = mem_end
  BY <1>3, ReportedIsRamsize
<1>5. ASSUME NEW e \in Section
      PROVE  e \in MappedBefore(6) <=> e \in Reachable
  <2>1. e \in Nat
    BY PageTableAssumption DEF Section
  <2>2. e < Limit <=> (e + 1) * SectionSize <= Reported
    BY <2>1, <1>3, <1>4, LimitIsNat
  <2> QED BY <2>2 DEF MappedBefore, Reachable
<1>6. page_table = [e \in Section |-> IF e \in MappedBefore(6) THEN e ELSE Unused]
  BY <1>1 DEF MemoryInv, TableSoFar
<1> QED BY <1>2, <1>5, <1>6

(* When translation is on, TTBR0, TLB and access control are the kernel's, *)
(* and the table maps one to one exactly what the last memory tag reports, *)
(* the peripherals and the Quad-A7 registers, whatever the boot loader's   *)
(* list says and wherever the memory ends.                                 *)
THEOREM TranslationIsExact == Spec => []MmuIsReady
<1>1. IInv => MmuIsReady
  BY ReadyWhileInv
<1> QED BY <1>1, InitIInv, Inductive, PTL DEF Spec

-----------------------------------------------------------------------------
(* What the walk has seen. *)
LEMMA LatestSeen ==
  ASSUME NEW kind, NEW n \in Nat, NEW to \in Nat, n <= to,
         n = 0 \/ list[n].tag = kind,
         \A m \in n + 1 .. to : list[m].tag # kind
  PROVE  Latest(kind, 1 .. to) = n
<1> DEFINE S == {m \in 1 .. to : list[m].tag = kind} \cup {0}
<1>1. S \subseteq Int /\ n \in S /\ \A m \in S : m <= n
  OBVIOUS
<1>2. Max(S) = n
  <2> HIDE DEF S
  <2> QED BY <1>1, MaxIs
<1> QED BY <1>2 DEF Latest

(* The three numbers of atag_info, its memory and its command line are     *)
(* those of the last memory tag and of the last command line the walk has  *)
(* passed: parse_cmdline_int computes what Expected says of every line and *)
(* every key, however long, and nothing of an earlier line is left over.   *)
THEOREM LastLineCounts == Spec => []LastCounts
<1>1. ASSUME IInv PROVE LastCounts
  <2>1. tags \in 1 .. Len(list) /\ Len(list) \in Nat
    BY <1>1, ListFacts DEF IInv, Texts, TypeOK, DetectTypeOK
  <2>2. ASSUME ~Stuck, pc # "parse"
        PROVE  ramsize = Memory(Latest("MEM", Seen)) /\ cmdline = Latest("CMDLINE", Seen)
    <3>1. PICK n \in 0 .. Len(list) : IsLast("MEM", n) /\ ramsize = Memory(n)
      BY <1>1, <2>2 DEF IInv, WalkSoFar
    <3>2. Latest("MEM", 1 .. tags - 1) = n
      BY <3>1, <2>1, LatestSeen DEF IsLast
    <3>3. Latest("CMDLINE", 1 .. tags - 1) = cmdline
      <4>1. IsLast("CMDLINE", cmdline)
        BY <1>1, <2>2 DEF IInv, WalkSoFar
      <4> QED BY <4>1, <2>1, LatestSeen DEF IsLast
    <3> QED BY <2>2, <3>1, <3>2, <3>3 DEF Seen
  <2>3. ASSUME ~Stuck, pc = "parse"
        PROVE  ramsize = Memory(Latest("MEM", Seen)) /\ cmdline = Latest("CMDLINE", Seen)
    <3>1. list[tags].tag = "CMDLINE" /\ cmdline = tags
      BY <1>1, <2>3 DEF IInv, WalkSoFar, KeysSoFar
    <3>2. PICK n \in 0 .. Len(list) : IsLast("MEM", n) /\ ramsize = Memory(n)
      BY <1>1, <2>3 DEF IInv, WalkSoFar
    <3>3. Latest("MEM", 1 .. tags) = n
      <4>1. \A m \in n + 1 .. tags : list[m].tag # "MEM"
        BY <3>1, <3>2, <2>1 DEF IsLast
      <4> QED BY <4>1, <3>2, <2>1, LatestSeen DEF IsLast
    <3>4. Latest("CMDLINE", 1 .. tags) = tags
      BY <3>1, <2>1, LatestSeen
    <3> QED BY <2>3, <3>1, <3>2, <3>3, <3>4 DEF Seen
  <2>4. pc # "parse" =>
          \A n \in DOMAIN Keys :
            info[n] = IF cmdline = 0 THEN 0 ELSE Expected(list[cmdline].line, Keys[n])
    BY <1>1 DEF IInv, KeysSoFar
  <2> QED BY <2>2, <2>3, <2>4 DEF LastCounts
<1> QED BY <1>1, InitIInv, Inductive, PTL DEF Spec

(* A value that a blank or the line's end stands behind, with room for the *)
(* rest of a key, is read to its last character.                           *)
LEMMA ExpectedIsWhole ==
  ASSUME NEW l \in Seq(DOMAIN Ascii), NEW k \in Seq(DOMAIN Ascii), k # <<>>,
         Occurrences(l, k) # {},
         Min(Blanks(l, k) \cup {Len(l)}) + Len(k) - 1 <= Len(l)
  PROVE  Expected(l, k) = Value(l, k, Min(Blanks(l, k) \cup {Len(l)}))
<1> DEFINE end == Min(Blanks(l, k) \cup {Len(l)})
           S == Blanks(l, k) \cup {Len(l) - Len(k) + 1}
<1>1. /\ Len(l) \in Nat /\ Len(k) \in Nat \ {0} /\ Len(k) <= Len(l)
      /\ \A n \in Blanks(l, k) : n \in Nat
  <2>1. Len(k) \in Nat \ {0}
    OBVIOUS
  <2>2. ValueStart(l, k) \in Nat /\ Len(k) <= Len(l) /\ Len(l) \in Nat
    BY ValueStartIsNat
  <2>3. \A n \in Blanks(l, k) : n \in ValueStart(l, k) .. Len(l) - 1
    BY DEF Blanks
  <2> QED BY <2>1, <2>2, <2>3
<1>2. /\ end \in Blanks(l, k) \cup {Len(l)}
      /\ \A n \in Blanks(l, k) \cup {Len(l)} : end <= n
  <2>1. Blanks(l, k) \cup {Len(l)} \subseteq Nat /\ Blanks(l, k) \cup {Len(l)} # {}
    BY <1>1
  <2> QED BY <2>1, MinOfNats
<1>3. end + Len(k) - 1 <= Len(l)
  OBVIOUS
<1> HIDE DEF end
<1>4. end \in Nat /\ end <= Len(l) - Len(k) + 1
  BY <1>1, <1>2, <1>3
<1>5. end \in S
  BY <1>1, <1>2, <1>4
<1>6. S \subseteq Int /\ \A n \in S : end <= n
  <2>1. \A n \in Blanks(l, k) : end <= n
    BY <1>2
  <2>2. Len(l) - Len(k) + 1 \in Int
    BY <1>1
  <2>3. \A n \in S : n \in Blanks(l, k) \/ n = Len(l) - Len(k) + 1
    OBVIOUS
  <2> QED BY <2>1, <2>2, <2>3, <1>1, <1>4
<1>7. Min(S) = end
  <2> HIDE DEF S
  <2> QED BY <1>5, <1>6, MinIs
<1> QED BY <1>7 DEF Expected, end

(* A value with key_len - 1 characters behind it is read whole.            *)
THEOREM WholeValuesAreRead == Spec => []ReadsWholeValue
<1>1. ASSUME IInv PROVE ReadsWholeValue
  <2> SUFFICES ASSUME pc # "parse", cmdline # 0, NEW n \in DOMAIN Keys,
                      Occurrences(list[cmdline].line, Keys[n]) # {},
                      Min(Blanks(list[cmdline].line, Keys[n]) \cup {Len(list[cmdline].line)})
                        + Len(Keys[n]) - 1 <= Len(list[cmdline].line)
               PROVE  info[n] = Value(list[cmdline].line, Keys[n],
                          Min(Blanks(list[cmdline].line, Keys[n]) \cup {Len(list[cmdline].line)}))
    BY DEF ReadsWholeValue
  <2>1. list[cmdline].line \in Seq(DOMAIN Ascii)
    <3>1. cmdline \in DOMAIN list
      BY <1>1, ListFacts DEF IInv, Texts, TypeOK, DetectTypeOK
    <3> QED BY <1>1, <3>1, ListFacts DEF IInv, Texts, TypeOK, DetectTypeOK
  <2>2. Keys[n] \in Seq(DOMAIN Ascii) /\ Keys[n] # <<>>
    BY AtagsAssumption
  <2>3. info[n] = Expected(list[cmdline].line, Keys[n])
    BY <1>1 DEF IInv, KeysSoFar
  <2> QED BY <2>1, <2>2, <2>3, ExpectedIsWhole
<1> QED BY <1>1, InitIInv, Inductive, PTL DEF Spec
-----------------------------------------------------------------------------
(* How the boot ends, and that it does. *)

(* The walk is done only when no tag stood in its way; and the kernel is   *)
(* lost when the MMU is on if and only if the last memory tag reports less *)
(* than one section.                                                       *)
Outcome ==
  /\ pc \in {"done", "booted", "fault"} => \A n \in Walk : ~Obstacle(list[n])
  /\ pc = "booted" => SectionSize <= Reported
  /\ pc = "fault" => Reported < SectionSize

(* What is left of the boot: the loops and steps behind the walk, *)
Later ==
  IF pc \in {"detect", "parse"} THEN 20
  ELSE IF pc = "done" THEN 1 + (6 - fill) + (12 - step) ELSE 0

(* the tags behind the one the walk is at, *)
TagsLeft == Len(list) - tags

(* the keys that were not looked for yet, *)
KeyNumber == CHOOSE n \in DOMAIN Keys : key = Keys[n]

KeysLeft == IF pc = "parse" THEN Len(Keys) - KeyNumber ELSE Len(Keys)

(* and the characters of the line, to be searched and then to be read. *)
CharsLeft ==
  CASE pc # "parse" \/ loop = "none" -> 0
    [] pc = "parse" /\ loop = "digits" -> 1 + (Len(line) + 3 - i)
    [] pc = "parse" /\ loop = "search" -> Len(line) + 5 + (Len(line) + 3 - i)

Ranked == Later \in Nat /\ TagsLeft \in Nat /\ KeysLeft \in Nat /\ CharsLeft \in Nat

(* The first of the four that changes is lowered. *)
Closer ==
  \/ Later' < Later
  \/ Later' = Later /\ TagsLeft' < TagsLeft
  \/ Later' = Later /\ TagsLeft' = TagsLeft /\ KeysLeft' < KeysLeft
  \/ /\ Later' = Later /\ TagsLeft' = TagsLeft /\ KeysLeft' = KeysLeft
     /\ CharsLeft' < CharsLeft

(* No tag that the walk has passed is an obstacle, and nothing of the boot *)
(* is left when it has ended. *)
PassedSoFar ==
  /\ \A m \in 1 .. tags - 1 : ~Obstacle(list[m])
  /\ pc \in {"booted", "fault"} => fill = 6 /\ step = 12

NoObstacle == \A n \in Walk : ~Obstacle(list[n])

LEMMA WalkEnds ==
  ASSUME IInv
  PROVE  /\ Walk \subseteq Nat /\ 1 .. tags \subseteq Walk
         /\ list[tags].tag = "NONE" => Walk = 1 .. tags
<1> DEFINE S == {n \in DOMAIN list : list[n].tag = "NONE"}
<1>1. /\ Len(list) \in Nat /\ DOMAIN list = 1 .. Len(list) /\ tags \in 1 .. Len(list)
      /\ \E n \in DOMAIN list : list[n].tag = "NONE"
  BY ListFacts DEF IInv, Texts, TypeOK, DetectTypeOK
<1>2. Min(S) \in S /\ \A n \in S : Min(S) <= n
  <2>1. S \subseteq Nat /\ S # {}
    BY <1>1
  <2> QED BY <2>1, MinOfNats
<1>3. /\ Min(S) \in 1 .. Len(list) /\ list[Min(S)].tag = "NONE"
      /\ list[tags].tag = "NONE" => Min(S) <= tags
  <2>1. list[tags].tag = "NONE" => tags \in S
    BY <1>1
  <2> QED BY <1>1, <1>2, <2>1
<1> HIDE DEF S
<1>4. tags <= Min(S)
  <2>1. \A m \in 1 .. tags - 1 : list[m].tag # "NONE"
    BY DEF IInv, WalkSoFar
  <2> QED BY <1>1, <1>3, <2>1
<1>5. Min(S) \in Nat /\ (list[tags].tag = "NONE" => Min(S) = tags)
  BY <1>1, <1>3, <1>4
<1>6. Walk = 1 .. Min(S)
  BY DEF Walk, S
<1> QED BY <1>1, <1>4, <1>5, <1>6

(* A step that passes a tag, if none stands in the way. *)
LEMMA AdvanceFacts ==
  ASSUME IInv, Advance
  PROVE  tags' = tags \/ (~list[tags].empty /\ tags' = tags + 1)
BY DEF Advance

LEMMA PassedKeeps ==
  ASSUME IInv, PassedSoFar, [Next]_vars
  PROVE  PassedSoFar'
<1>1. tags \in Nat
  BY ListFacts DEF IInv, Texts, TypeOK, DetectTypeOK
<1>2. fill \in 0 .. 6 /\ step \in 1 .. 12 /\ (step > 1 => fill = 6)
  BY LoopsByNumber DEF IInv, MemoryInv, RegistersSoFar
<1>3. ASSUME UNCHANGED <<list, tags>>
      PROVE  \A m \in 1 .. tags' - 1 : ~Obstacle(list'[m])
  BY <1>3 DEF PassedSoFar
<1>4. ASSUME list' = list, Advance, list[tags].tag # "unknown"
      PROVE  \A m \in 1 .. tags' - 1 : ~Obstacle(list'[m])
  <2>1. CASE tags' = tags
    BY <2>1, <1>3, <1>4
  <2>2. CASE ~list[tags].empty /\ tags' = tags + 1
    <3>1. ~Obstacle(list[tags])
      BY <2>2, <1>4 DEF Obstacle
    <3>2. \A m \in 1 .. tags : m = tags \/ m \in 1 .. tags - 1
      BY <1>1
    <3>3. tags' - 1 = tags
      BY <2>2, <1>1
    <3> QED BY <3>1, <3>2, <3>3, <1>4 DEF PassedSoFar
  <2> QED BY <2>1, <2>2, <1>4, AdvanceFacts
<1>5. CASE Detecting
  <2>1. CASE Mem
    BY <2>1, <1>4 DEF Mem, At, PassedSoFar
  <2>2. CASE Cmdline
    BY <2>2, <1>3 DEF Cmdline, PassedSoFar
  <2>3. CASE Parsing
    BY <2>3, <1>3 DEF Parsing, PassedSoFar
  <2>4. ASSUME NEW n \in DOMAIN Keys, Parsed(n)
        PROVE  PassedSoFar'
    <3>1. /\ list[tags].tag = "CMDLINE" /\ list' = list /\ pc' \in {"parse", "detect"}
          /\ UNCHANGED tags \/ Advance
      BY <2>4 DEF Parsed, IInv, WalkSoFar
    <3>2. \A m \in 1 .. tags' - 1 : ~Obstacle(list'[m])
      BY <3>1, <1>3, <1>4
    <3> QED BY <3>1, <3>2 DEF PassedSoFar
  <2>5. CASE Skip
    BY <2>5, <1>4 DEF Skip, At, Skipped, PassedSoFar
  <2>6. CASE None
    BY <2>6, <1>3 DEF None, PassedSoFar
  <2>7. CASE Unknown
    BY <2>7, <1>3 DEF Unknown, At, atags_vars, PassedSoFar
  <2> QED BY <1>5, <2>1, <2>2, <2>3, <2>4, <2>5, <2>6, <2>7 DEF Detecting, Detect
<1>6. CASE MemoryInitCall
  BY <1>6, <1>3 DEF MemoryInitCall, atags_vars, PassedSoFar
<1>7. CASE Virtual
  <2>1. UNCHANGED <<list, tags, pc>> /\ (fill \in 1 .. 5 \/ step \in 1 .. 11)
    BY <1>7, LoopsByNumber, StepsByNumber DEF Virtual, Fill, MmuInit, atags_vars
  <2> QED BY <2>1, <1>2, <1>3 DEF PassedSoFar
<1>8. CASE Continue
  <2>1. UNCHANGED <<list, tags, fill, step>> /\ step = 12
    BY <1>8, <1>2, StepsByNumber DEF Continue, memory_vars
  <2> QED BY <2>1, <1>2, <1>3 DEF PassedSoFar
<1>9. CASE UNCHANGED vars
  BY <1>9, <1>3 DEF vars, atags_vars, memory_vars, PassedSoFar
<1> QED BY <1>5, <1>6, <1>7, <1>8, <1>9 DEF Next

LEMMA OutcomeKeeps ==
  ASSUME IInv, PassedSoFar, Outcome, [Next]_vars
  PROVE  Outcome'
<1>1. list' = list
  BY DEF Next, Detecting, Detect, Mem, Cmdline, Parsing, Parsed, Skip, None, Unknown,
         MemoryInitCall, Virtual, Continue, atags_vars, vars
<1>2. Walk' = Walk /\ Reported' = Reported
  BY <1>1 DEF Walk, Reported, Latest, Memory
<1>3. CASE pc' = pc
  BY <1>1, <1>2, <1>3 DEF Outcome
<1>4. CASE pc' \in {"detect", "parse"}
  BY <1>4 DEF Outcome
<1>5. CASE None
  <2>1. list[tags].tag = "NONE" /\ pc' = "done"
    BY <1>5 DEF None, At
  <2>2. Walk = 1 .. tags /\ tags \in Nat
    BY <2>1, WalkEnds, ListFacts DEF IInv, Texts, TypeOK, DetectTypeOK
  <2>3. \A n \in 1 .. tags : n = tags \/ n \in 1 .. tags - 1
    BY <2>2
  <2>4. \A n \in Walk : ~Obstacle(list[n])
    BY <2>1, <2>2, <2>3 DEF PassedSoFar, Obstacle
  <2> QED BY <2>1, <2>4, <1>1, <1>2 DEF Outcome
<1>6. CASE Continue
  <2>1. /\ MmuIsOn /\ pc = "done"
        /\ pc' = IF page_table[0] = 0 THEN "booted" ELSE "fault"
    BY <1>6 DEF Continue
  <2>2. page_table = [e \in Section |-> IF e \in Reachable THEN e ELSE Unused]
    BY <2>1, ReadyWhileInv DEF MmuIsReady
  <2>3. 0 \in Section /\ 0 \notin PeripheralBase .. PeripheralEnd - 1 /\ 0 # QuadA7
    BY PageTableAssumption DEF Section
  <2>4. page_table[0] = 0 <=> SectionSize <= Reported
    <3>1. (0 + 1) * SectionSize = SectionSize
      BY PageTableAssumption
    <3> QED BY <2>2, <2>3, <3>1 DEF Reachable, Unused
  <2>5. Reported \in Int /\ SectionSize \in Int
    BY <2>1, ReportedIsRamsize, PageTableAssumption
       DEF IInv, WalkSoFar, TypeOK, DetectTypeOK
  <2> QED BY <2>1, <2>4, <2>5, <1>1, <1>2 DEF Outcome
<1>7. pc' = pc \/ pc' \in {"detect", "parse"} \/ None \/ Continue
  BY DEF Next, Detecting, Detect, Mem, Cmdline, Parsing, Parsed, Skip, Unknown,
         MemoryInitCall, Virtual, atags_vars, vars
<1> QED BY <1>3, <1>4, <1>5, <1>6, <1>7

LEMMA InitOutcome == Init => PassedSoFar /\ Outcome
BY DEF Init, DetectInit, PassedSoFar, Outcome

(* The boot gets past the boot loader's list only when no tag stands in    *)
(* its way.  The kernel survives turning the MMU on if the last memory tag *)
(* reports at least the section the kernel is in, and is lost if it        *)
(* reports less.                                                           *)
THEOREM BootEndsAsItShould == Spec => []Outcome
<1> QED BY InitIInv, Inductive, InitOutcome, PassedKeeps, OutcomeKeeps, PTL DEF Spec

LEMMA KeyNumberAt ==
  ASSUME NEW k, NEW n \in DOMAIN Keys, k = Keys[n]
  PROVE  (CHOOSE m \in DOMAIN Keys : k = Keys[m]) = n
BY AtagsAssumption

(* The four numbers are natural numbers. *)
LEMMA RankedWhileInv ==
  ASSUME IInv
  PROVE  Ranked
<1>1. ParseTypeOK /\ line \in Seq(DOMAIN Ascii) /\ Len(line) \in Nat
  BY DEF IInv, TypeOK, DetectTypeOK, Texts
<1>2. Later \in Nat
  BY DEF IInv, MemoryInv, Later
<1>3. TagsLeft \in Nat
  BY ListFacts DEF IInv, Texts, TypeOK, DetectTypeOK, TagsLeft
<1>4. KeysLeft \in Nat
  <2>1. Len(Keys) \in Nat /\ DOMAIN Keys = 1 .. Len(Keys)
    BY AtagsAssumption
  <2>2. CASE pc = "parse"
    <3>1. PICK n \in DOMAIN Keys : key = Keys[n]
      BY <2>2 DEF IInv, KeysSoFar
    <3>2. KeyNumber = n
      BY <3>1, KeyNumberAt DEF KeyNumber
    <3> QED BY <2>1, <2>2, <3>2 DEF KeysLeft
  <2>3. CASE pc # "parse"
    BY <2>1, <2>3 DEF KeysLeft
  <2> QED BY <2>2, <2>3
<1>5. CharsLeft \in Nat
  <2>1. CASE pc # "parse" \/ loop = "none"
    BY <2>1 DEF CharsLeft
  <2>2. CASE pc = "parse" /\ loop = "digits"
    BY <2>2, <1>1 DEF CharsLeft, ParseTypeOK
  <2>3. CASE pc = "parse" /\ loop = "search"
    BY <2>3, <1>1 DEF CharsLeft, ParseTypeOK
  <2> QED BY <1>1, <2>1, <2>2, <2>3 DEF ParseTypeOK
<1> QED BY <1>2, <1>3, <1>4, <1>5 DEF Ranked

(* Within parse_cmdline_int every step is closer to its end. *)
LEMMA ParseIsCloser ==
  ASSUME IInv, Parsing, ParseTypeOK'
  PROVE  CharsLeft' < CharsLeft
<1>1. ParseTypeOK /\ Len(line) \in Nat /\ Len(key) \in Nat /\ pc = "parse" /\ pc' = "parse"
  BY DEF IInv, TypeOK, DetectTypeOK, Texts, Parsing
<1>2. i \in 0 .. Len(line) + 3 /\ i' \in Nat
  BY <1>1 DEF ParseTypeOK
<1>3. CASE loop = "search"
  <2>1. CharsLeft = Len(line) + 5 + (Len(line) + 3 - i)
    BY <1>1, <1>3 DEF CharsLeft
  <2>2. CASE NotFound
    <3>1. CharsLeft' = 0
      BY <2>2 DEF NotFound, CharsLeft
    <3> QED BY <1>1, <1>2, <2>1, <3>1
  <2>3. CASE SearchOn
    <3>1. loop' = "search" /\ i' = i + 1 /\ line' = line
      BY <2>3, <1>3 DEF SearchOn
    <3>2. CharsLeft' = Len(line) + 5 + (Len(line) + 3 - (i + 1))
      BY <1>1, <3>1 DEF CharsLeft
    <3> QED BY <1>1, <1>2, <2>1, <3>2
  <2>4. CASE Found
    <3>1. loop' = "digits" /\ line' = line
      BY <2>4 DEF Found
    <3>2. CharsLeft' = 1 + (Len(line) + 3 - i')
      BY <1>1, <3>1 DEF CharsLeft
    <3> QED BY <1>1, <1>2, <2>1, <3>2
  <2> QED BY <1>3, <2>2, <2>3, <2>4 DEF Parsing, Parse, ReadDigit, ReadEnd
<1>4. CASE loop = "digits"
  <2>1. CharsLeft = 1 + (Len(line) + 3 - i)
    BY <1>1, <1>4 DEF CharsLeft
  <2>2. CASE ReadDigit
    <3>1. loop' = "digits" /\ i' = i + 1 /\ line' = line
      BY <2>2, <1>4 DEF ReadDigit
    <3>2. CharsLeft' = 1 + (Len(line) + 3 - (i + 1))
      BY <1>1, <3>1 DEF CharsLeft
    <3> QED BY <1>1, <1>2, <2>1, <3>2
  <2>3. CASE ReadEnd
    <3>1. CharsLeft' = 0
      BY <2>3 DEF ReadEnd, CharsLeft
    <3> QED BY <1>1, <1>2, <2>1, <3>1
  <2> QED BY <1>4, <2>2, <2>3 DEF Parsing, Parse, NotFound, SearchOn, Found
<1> QED BY <1>3, <1>4 DEF Parsing, Parse, NotFound, SearchOn, Found, ReadDigit, ReadEnd

(* The next key is one less to look for. *)
LEMMA NextKeyIsCloser ==
  ASSUME NEW n \in DOMAIN Keys, Parsed(n), n < Len(Keys)
  PROVE  UNCHANGED <<list, tags, pc>> /\ pc = "parse" /\ KeysLeft' < KeysLeft
<1>1. /\ pc = "parse" /\ pc' = "parse" /\ UNCHANGED <<list, tags>>
      /\ key = Keys[n] /\ key' = Keys[n + 1]
  BY DEF Parsed, ParseCall
<1>2. Len(Keys) \in Nat /\ n \in Nat /\ n + 1 \in DOMAIN Keys
  BY AtagsAssumption
<1>3. KeysLeft = Len(Keys) - n
  BY <1>1, KeyNumberAt DEF KeysLeft, KeyNumber
<1>4. KeysLeft' = Len(Keys) - (n + 1)
  BY <1>1, <1>2, KeyNumberAt DEF KeysLeft, KeyNumber
<1> QED BY <1>1, <1>2, <1>3, <1>4

(* Every step of the boot lowers the first of the four that it changes, if *)
(* it is not held up by a tag. *)
LEMMA StepIsCloser ==
  ASSUME IInv, PassedSoFar, Next, IInv', NoObstacle, vars' # vars
  PROVE  Closer
<1>1. ~Obstacle(list[tags]) /\ tags \in Nat /\ Len(list) \in Nat
  BY WalkEnds, ListFacts, SMTT(30) DEF IInv, Texts, TypeOK, DetectTypeOK, NoObstacle
<1>2. fill \in 0 .. 6 /\ step \in 1 .. 12 /\ (fill > 0 => pc \notin {"detect", "parse"})
  BY DEF IInv, MemoryInv, Handover
<1>3. ASSUME pc \in {"detect", "parse"}, pc' \in {"detect", "parse"}
      PROVE  Later' = Later
  BY <1>3 DEF Later
<1>4. ASSUME Advance, list' = list, list[tags].tag # "NONE",
             pc \in {"detect", "parse"}, pc' = "detect"
      PROVE  Closer
  <2>1. tags' = tags + 1
    BY <1>1, <1>4 DEF Advance, Obstacle
  <2>2. TagsLeft' < TagsLeft
    BY <1>1, <1>4, <2>1 DEF TagsLeft
  <2> QED BY <2>2, <1>3, <1>4 DEF Closer
<1>5. CASE Detecting
  <2>1. CASE Mem
    BY <2>1, <1>4 DEF Mem, At
  <2>2. CASE Cmdline
    <3>1. /\ pc = "detect" /\ pc' = "parse" /\ UNCHANGED <<list, tags>>
          /\ key' = Keys[1]
      BY <2>2 DEF Cmdline, At, ParseCall
    <3>2. 1 \in DOMAIN Keys /\ Len(Keys) \in Nat
      BY AtagsAssumption
    <3>3. KeysLeft' = Len(Keys) - 1 /\ KeysLeft = Len(Keys)
      BY <3>1, <3>2, KeyNumberAt DEF KeysLeft, KeyNumber
    <3>4. KeysLeft' < KeysLeft /\ TagsLeft' = TagsLeft
      BY <3>1, <3>2, <3>3 DEF TagsLeft
    <3> QED BY <3>1, <3>4, <1>3 DEF Closer
  <2>3. CASE Parsing
    <3>1. UNCHANGED <<list, tags, pc, key>> /\ pc = "parse"
      BY <2>3 DEF Parsing, Parse, NotFound, SearchOn, Found, ReadDigit, ReadEnd
    <3>2. CharsLeft' < CharsLeft
      BY <2>3, ParseIsCloser DEF IInv, TypeOK, DetectTypeOK
    <3>3. TagsLeft' = TagsLeft /\ KeysLeft' = KeysLeft
      BY <3>1 DEF TagsLeft, KeysLeft, KeyNumber
    <3> QED BY <3>1, <3>2, <3>3, <1>3 DEF Closer
  <2>4. ASSUME NEW n \in DOMAIN Keys, Parsed(n)
        PROVE  Closer
    <3>1. CASE n < Len(Keys)
      <4>1. UNCHANGED <<list, tags, pc>> /\ pc = "parse" /\ KeysLeft' < KeysLeft
        BY <2>4, <3>1, NextKeyIsCloser
      <4>2. TagsLeft' = TagsLeft
        BY <4>1 DEF TagsLeft
      <4> QED BY <4>1, <4>2, <1>3 DEF Closer
    <3>2. CASE ~(n < Len(Keys))
      BY <2>4, <3>2, <1>4 DEF Parsed, IInv, WalkSoFar
    <3> QED BY <3>1, <3>2
  <2>5. CASE Skip
    BY <2>5, <1>4 DEF Skip, At, Skipped
  <2>6. CASE None
    <3>1. pc = "detect" /\ pc' = "done" /\ UNCHANGED <<fill, step>>
      BY <1>5, <2>6 DEF Detecting, None, At, memory_vars
    <3>2. Later = 20 /\ Later' = 1 + (6 - fill) + (12 - step)
      BY <3>1 DEF Later
    <3> QED BY <1>2, <3>2 DEF Closer
  <2>7. CASE Unknown
    BY <2>7, <1>1 DEF Unknown, At, Obstacle
  <2> QED BY <1>5, <2>1, <2>2, <2>3, <2>4, <2>5, <2>6, <2>7 DEF Detecting, Detect
<1>6. CASE MemoryInitCall
  <2>1. pc = "done" /\ pc' = "done" /\ fill = 0 /\ fill' = 1 /\ step' = step
    BY <1>6 DEF MemoryInitCall, PageTableCall, atags_vars
  <2>2. Later = 1 + (6 - fill) + (12 - step) /\ Later' = 1 + (6 - 1) + (12 - step)
    BY <2>1 DEF Later
  <2> QED BY <1>2, <2>1, <2>2 DEF Closer
<1>7. CASE Virtual
  <2>1. /\ pc' = pc
        /\ \/ fill \in 1 .. 5 /\ fill' = fill + 1 /\ step' = step
           \/ fill = 6 /\ step \in 1 .. 11 /\ fill' = fill /\ step' = step + 1
    BY <1>7, LoopsByNumber, StepsByNumber DEF Virtual, Fill, MmuInit, atags_vars
  <2>2. pc = "done"
    BY <2>1, <1>2 DEF PassedSoFar, IInv, TypeOK
  <2>3. Later = 1 + (6 - fill) + (12 - step) /\ Later' = 1 + (6 - fill') + (12 - step')
    BY <2>1, <2>2 DEF Later
  <2> QED BY <1>2, <2>1, <2>3 DEF Closer
<1>8. CASE Continue
  <2>1. pc = "done" /\ pc' \in {"booted", "fault"}
    BY <1>8 DEF Continue
  <2>2. Later = 1 + (6 - fill) + (12 - step) /\ Later' = 0
    BY <2>1 DEF Later
  <2> QED BY <1>2, <2>2 DEF Closer
<1> QED BY <1>5, <1>6, <1>7, <1>8 DEF Next

(* The boot comes to an end: when no tag stands in its way, every step     *)
(* lowers the first of the four natural numbers that it changes, so there  *)
(* are only finitely many, for every list, command line and memory.  Where *)
(* it ends is what Outcome says.                                           *)
THEOREM EveryBootEnds == Spec => []Ranked /\ [][NoObstacle => Closer]_vars
<1>1. IInv => Ranked
  BY RankedWhileInv
<1>2. IInv /\ PassedSoFar /\ [Next]_vars /\ IInv' => [NoObstacle => Closer]_vars
  BY StepIsCloser
<1> QED BY <1>1, <1>2, InitIInv, Inductive, InitOutcome, PassedKeeps, PTL DEF Spec
=============================================================================
