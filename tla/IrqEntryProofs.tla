---------------------------- MODULE IrqEntryProofs --------------------------
(***************************************************************************)
(* Proofs about IrqEntry, for all code that is interrupted and all values  *)
(* its registers may hold.                                                 *)
(***************************************************************************)
EXTENDS IrqEntry, TLAPS

Snapshot == [pc : Code, regs : [Reg -> Value], flags : Value]
Frame == [regs : [Saved -> Value], pc : Code, spsr : Value]

(* What was interrupted, and its frame, while the handler runs. *)
Task == interrupted[1]
Saving == stack[1]

(* One interrupt at a time: no frame outside of the handler, one within.   *)
OneAtATime ==
  /\ pc \in Code => interrupted = <<>> /\ stack = <<>>
  /\ pc \in Entry => interrupted = <<Task>> /\ Task \in Snapshot
  /\ pc = "save" => stack = <<>>
  /\ pc \in Entry \ {"save"} => stack = <<Saving>> /\ Saving \in Frame

(* Between the interrupt and the frame the return address and the spsr are *)
(* in the save slot, and the registers are those of the interrupted code.  *)
SlotIsFresh ==
  pc = "save" =>
    /\ irq_stack = [lr |-> Task.pc, spsr |-> Task.flags]
    /\ regs = Task.regs

(* The frame holds what Return needs, and Restore has loaded it. *)
FrameHolds ==
  /\ pc \in Entry \ {"save"} =>
       Saving = [regs |-> [r \in Saved |-> Task.regs[r]], pc |-> Task.pc, spsr |-> Task.flags]
  /\ pc \in Entry => regs["r4"] = Task.regs["r4"]
  /\ pc = "return" => regs["lr"] = Task.pc /\ regs["r0"] = Task.regs["r0"]

(* The invariant that is inductive: the properties and what they rest on. *)
IInv == TypeOK /\ OneAtATime /\ SlotIsFresh /\ FrameHolds

LEMMA Singleton ==
  ASSUME NEW x
  PROVE  /\ Append(<<>>, x) = <<x>> /\ Len(<<x>>) = 1 /\ <<x>>[1] = x
         /\ Pop(<<x>>) = <<>> /\ Last(<<x>>) = x
BY DEF Pop, Last

(* Within the handler the last frame is the only one. *)
LEMMA TopIsSaving ==
  ASSUME IInv, pc \in Entry \ {"save"}
  PROVE  Top = Saving /\ Last(interrupted) = Task /\ Pop(stack) = <<>> /\ Pop(interrupted) = <<>>
<1>1. stack = <<Saving>> /\ interrupted = <<Task>>
  BY DEF IInv, OneAtATime
<1>2. ASSUME NEW x PROVE Len(<<x>>) = 1 /\ <<x>>[1] = x /\ Pop(<<x>>) = <<>> /\ Last(<<x>>) = x
  BY Singleton
<1>3. Pop(stack) = <<>> /\ Pop(interrupted) = <<>> /\ Last(interrupted) = Task /\ Len(stack) = 1
  BY <1>1, <1>2
<1> QED BY <1>3 DEF Top, Saving

LEMMA InitIInv == Init => IInv
<1> SUFFICES ASSUME Init PROVE IInv
  OBVIOUS
<1>1. pc \in Code /\ pc \notin Entry /\ stack = <<>> /\ interrupted = <<>>
  BY CodeAssumption DEF Init
<1>2. masked \in BOOLEAN /\ (masked <=> pc \in Entry)
  BY <1>1 DEF Init
<1>3. Len(stack) <= 1 /\ Len(interrupted) <= 1
  BY <1>1
<1>4. TypeOK
  BY <1>1, <1>2, <1>3 DEF Init, TypeOK
<1>5. OneAtATime /\ SlotIsFresh /\ FrameHolds
  BY <1>1 DEF OneAtATime, SlotIsFresh, FrameHolds, Entry
<1> QED BY <1>4, <1>5 DEF IInv

LEMMA StepTakeIrq == IInv /\ TakeIrq => IInv'
<1> SUFFICES ASSUME IInv, TakeIrq PROVE IInv'
  OBVIOUS
<1> DEFINE i == [pc |-> pc, regs |-> regs, flags |-> flags]
<1>1. pc \in Code /\ interrupted = <<>> /\ stack = <<>>
  BY DEF IInv, TypeOK, OneAtATime, TakeIrq
<1>2. i \in Snapshot
  BY <1>1 DEF IInv, TypeOK, Snapshot
<1>3. interrupted' = <<i>> /\ Task' = i
  BY <1>1 DEF TakeIrq, Task
<1>4. i.pc = pc /\ i.regs = regs /\ i.flags = flags
  OBVIOUS
<1> HIDE DEF i
<1>5. pc' = "save" /\ pc' \in Entry /\ pc' \notin Code
  BY CodeAssumption DEF TakeIrq, Entry
<1>6. TypeOK'
  <2>1. masked' \in BOOLEAN /\ (masked' <=> pc' \in Entry)
    BY <1>5 DEF TakeIrq
  <2>2. Len(stack') <= 1 /\ Len(interrupted') <= 1
    BY <1>1, <1>3 DEF TakeIrq
  <2> QED BY <1>5, <2>1, <2>2 DEF IInv, TypeOK, TakeIrq
<1>7. OneAtATime' /\ SlotIsFresh' /\ FrameHolds'
  BY <1>1, <1>2, <1>3, <1>4, <1>5 DEF OneAtATime, SlotIsFresh, FrameHolds, TakeIrq
<1> QED BY <1>6, <1>7 DEF IInv

LEMMA StepSaveSvc == IInv /\ SaveSvc => IInv'
<1> SUFFICES ASSUME IInv, SaveSvc PROVE IInv'
  OBVIOUS
<1> DEFINE f == [regs |-> [r \in Saved |-> regs[r]], pc |-> irq_stack.lr,
                 spsr |-> irq_stack.spsr]
<1>1. /\ pc = "save" /\ pc \in Entry /\ stack = <<>> /\ interrupted = <<Task>>
      /\ Task \in Snapshot /\ regs = Task.regs
      /\ irq_stack = [lr |-> Task.pc, spsr |-> Task.flags]
  BY DEF IInv, OneAtATime, SlotIsFresh, SaveSvc, Entry
<1>2. f = [regs |-> [r \in Saved |-> Task.regs[r]], pc |-> Task.pc, spsr |-> Task.flags]
  BY <1>1
<1>3. f \in Frame
  BY <1>1, <1>2 DEF Frame, Snapshot, Saved
<1>4. stack' = <<f>> /\ Saving' = f
  BY <1>1 DEF SaveSvc, Saving
<1> HIDE DEF f
<1>5. pc' = "handler" /\ pc' \in Entry /\ pc' \notin Code /\ Task' = Task
  BY CodeAssumption DEF SaveSvc, Entry, Task
<1>6. TypeOK'
  BY <1>1, <1>4, <1>5 DEF IInv, TypeOK, SaveSvc
<1>7. OneAtATime' /\ SlotIsFresh' /\ FrameHolds'
  BY <1>1, <1>2, <1>3, <1>4, <1>5 DEF OneAtATime, SlotIsFresh, FrameHolds, SaveSvc
<1> QED BY <1>6, <1>7 DEF IInv

(* The steps between the frame and the return: the frame stays. *)
LEMMA StepInside == IInv /\ (Handler \/ Restore \/ Error) => IInv'
<1> SUFFICES ASSUME IInv, Handler \/ Restore \/ Error PROVE IInv'
  OBVIOUS
<1>1. /\ pc \in Entry \ {"save"} /\ pc' \in Entry \ {"save"} /\ pc' \notin Code
      /\ UNCHANGED <<masked, irq_stack, stack, interrupted>>
      /\ Saving' = Saving /\ Task' = Task
  BY CodeAssumption DEF Handler, Restore, Error, Entry, Saving, Task
<1>2. OneAtATime'
  BY <1>1 DEF IInv, OneAtATime
<1>3. Task \in Snapshot /\ Saving \in Frame
  BY <1>1 DEF IInv, OneAtATime
<1>4. Saving = [regs |-> [r \in Saved |-> Task.regs[r]], pc |-> Task.pc, spsr |-> Task.flags]
  BY <1>1 DEF IInv, FrameHolds
<1>5. /\ regs' \in [Reg -> Value] /\ flags' \in Value /\ regs'["r4"] = regs["r4"]
      /\ pc' = "return" => regs'["lr"] = Task.pc /\ regs'["r0"] = Task.regs["r0"]
  <2>1. CASE Handler
    BY <2>1 DEF Handler, Scratch, Reg, IInv, TypeOK
  <2>2. CASE Restore
    <3>1. PICK sp \in Value :
            regs' = [regs EXCEPT !["r1"] = Saving.spsr, !["lr"] = Saving.pc, !["r3"] = sp,
                                 !["r0"] = Saving.regs["r0"], !["r12"] = Saving.regs["r1"]]
      BY <1>1, <2>2, TopIsSaving DEF Restore
    <3>2. /\ Saving.pc = Task.pc /\ Saving.regs["r0"] = Task.regs["r0"]
          /\ Saving.pc \in Value /\ Saving.spsr \in Value
          /\ Saving.regs["r0"] \in Value /\ Saving.regs["r1"] \in Value
      BY <1>3, <1>4 DEF Frame, Saved, Reg, Value
    <3>3. regs \in [Reg -> Value] /\ flags \in Value /\ flags' = flags
      BY <2>2 DEF IInv, TypeOK, Restore
    <3> QED BY <3>1, <3>2, <3>3 DEF Reg
  <2>3. CASE Error
    BY <2>3 DEF Error, IInv, TypeOK
  <2> QED BY <2>1, <2>2, <2>3
<1>6. TypeOK'
  BY <1>1, <1>5 DEF IInv, TypeOK
<1>7. SlotIsFresh' /\ FrameHolds'
  BY <1>1, <1>4, <1>5 DEF IInv, SlotIsFresh, FrameHolds
<1> QED BY <1>2, <1>6, <1>7 DEF IInv

LEMMA StepReturn == IInv /\ Return => IInv'
<1> SUFFICES ASSUME IInv, Return PROVE IInv'
  OBVIOUS
<1>1. pc = "return" /\ pc \in Entry \ {"save"}
  BY DEF Return, Entry
<1>2. /\ stack' = <<>> /\ interrupted' = <<>> /\ flags' = Saving.spsr
      /\ masked' = FALSE /\ regs' = regs
  BY <1>1, TopIsSaving DEF Return
<1>3. pc' = Task.pc /\ Task \in Snapshot /\ Saving \in Frame
  BY <1>1 DEF Return, IInv, FrameHolds, OneAtATime
<1>4. pc' \in Code /\ pc' \notin Entry /\ flags' \in Value
  BY <1>2, <1>3, CodeAssumption DEF Snapshot, Frame
<1>5. TypeOK'
  <2>1. masked' \in BOOLEAN /\ (masked' <=> pc' \in Entry)
    BY <1>2, <1>4
  <2>2. Len(stack') <= 1 /\ Len(interrupted') <= 1
    BY <1>2
  <2> QED BY <1>2, <1>4, <2>1, <2>2 DEF IInv, TypeOK
<1>6. OneAtATime' /\ SlotIsFresh' /\ FrameHolds'
  BY <1>2, <1>4 DEF OneAtATime, SlotIsFresh, FrameHolds, Entry
<1> QED BY <1>5, <1>6 DEF IInv

LEMMA StepIInv == IInv /\ [Next]_vars => IInv'
<1> SUFFICES ASSUME IInv, [Next]_vars PROVE IInv'
  OBVIOUS
<1>1. CASE Execute
  <2>1. pc' \in Code /\ pc' \notin Entry /\ pc \in Code
    BY <1>1, CodeAssumption DEF Execute
  <2> QED BY <1>1, <2>1
        DEF Execute, IInv, TypeOK, OneAtATime, SlotIsFresh, FrameHolds, Task, Saving, Entry
<1>2. CASE UNCHANGED vars
  BY <1>2 DEF vars, IInv, TypeOK, OneAtATime, SlotIsFresh, FrameHolds, Task, Saving
<1> QED BY <1>1, <1>2, StepTakeIrq, StepSaveSvc, StepInside, StepReturn DEF Next

-----------------------------------------------------------------------------
(* Whatever code is interrupted wherever, the inductive invariant holds:   *)
(* it follows the return address and the spsr from the slot to the frame.  *)
THEOREM Inductive == Spec => []IInv
BY InitIInv, StepIInv, PTL DEF Spec

(* The variables keep their types: interrupts do not nest. *)
THEOREM TypeCorrect == Spec => []TypeOK
<1>1. IInv => TypeOK
  BY DEF IInv
<1> QED BY <1>1, Inductive, PTL

(* The frame is complete: nothing is lost on the way through the slot. *)
THEOREM FramesAreComplete == Spec => []FrameIsComplete
<1>1. IInv => FrameIsComplete
  <2> SUFFICES ASSUME IInv, pc \in Entry \ {"save"}
               PROVE  /\ Top.pc = Last(interrupted).pc /\ Top.spsr = Last(interrupted).flags
                      /\ Top.regs = [r \in Saved |-> Last(interrupted).regs[r]]
    BY DEF FrameIsComplete
  <2>1. Saving = [regs |-> [r \in Saved |-> Task.regs[r]], pc |-> Task.pc, spsr |-> Task.flags]
    BY DEF IInv, FrameHolds
  <2> QED BY <2>1, TopIsSaving
<1> QED BY <1>1, Inductive, PTL

(* The interrupted code goes on where it was, with its flags, its stack,   *)
(* r0 and r4 to r11.                                                       *)
THEOREM CodeResumes == Spec => Resumes
<1>1. IInv /\ [Next]_vars => [Return => LET i == Last(interrupted)
                                        IN  /\ pc' = i.pc /\ flags' = i.flags
                                            /\ Len(stack') = Len(interrupted')
                                            /\ \A r \in {"r0", "r4"} : regs'[r] = i.regs[r]]_vars
  <2> SUFFICES ASSUME IInv, Return
               PROVE  /\ pc' = Last(interrupted).pc /\ flags' = Last(interrupted).flags
                      /\ Len(stack') = Len(interrupted')
                      /\ \A r \in {"r0", "r4"} : regs'[r] = Last(interrupted).regs[r]
    OBVIOUS
  <2>1. pc = "return" /\ pc \in Entry \ {"save"}
    BY DEF Return, Entry
  <2>2. /\ Last(interrupted) = Task /\ stack' = <<>> /\ interrupted' = <<>>
        /\ flags' = Saving.spsr /\ pc' = regs["lr"] /\ regs' = regs
    BY <2>1, TopIsSaving DEF Return
  <2>3. /\ Saving.spsr = Task.flags /\ regs["lr"] = Task.pc
        /\ regs["r0"] = Task.regs["r0"] /\ regs["r4"] = Task.regs["r4"]
    BY <2>1 DEF IInv, FrameHolds
  <2> QED BY <2>2, <2>3
<1> QED BY <1>1, Inductive, PTL DEF Spec, Resumes
=============================================================================
