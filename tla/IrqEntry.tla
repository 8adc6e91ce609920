------------------------------- MODULE IrqEntry -----------------------------
(***************************************************************************)
(* The way into the interrupt handler and back, _irq_handler_asm and       *)
(* _irq_handler_svc of arch/arm/interrupt.S: what becomes of the registers *)
(* of the interrupted code.  All code of the kernel runs in SVC mode, so   *)
(* _irq_handler_usr is never reached.                                      *)
(*                                                                         *)
(* The handler uses the stack of the interrupted code and one save slot,   *)
(* _irq_stack, shared by all interrupts.                                   *)
(***************************************************************************)
EXTENDS Naturals, Sequences

CONSTANTS
  Code,       \* addresses of instructions of the interrupted code
  MaxDepth    \* bound: interrupts being handled at the same time

ASSUME IrqEntryAssumption == Code # {} /\ MaxDepth \in Nat \ {0}

VARIABLES
  pc,           \* the next instruction: in Code, or a place in interrupt.S
  regs,         \* the registers of SVC mode
  flags,        \* the condition flags of cpsr
  masked,       \* its I bit: no interrupt is taken
  irq_stack,    \* _irq_stack: lr_irq and spsr_irq
  stack,        \* the kernel_task_registers_t frames on the SVC stack
  interrupted   \* what was interrupted, for the properties only

vars == <<pc, regs, flags, masked, irq_stack, stack, interrupted>>

Reg == {"r0", "r1", "r2", "r3", "r4", "r12", "lr"}  \* "r4" for r4 to r11
Saved == Reg \ {"lr"}                               \* stmia sp, {r0-r12}
Scratch == Reg \ {"r4"}      \* what a C function may leave changed (AAPCS)

Entry == {"save", "handler", "restore", "return", "error"}

(* The places in interrupt.S are no addresses of the interrupted code. *)
ASSUME CodeAssumption == Code \cap Entry = {}

Value == Code    \* the words a register may hold: some of them addresses

Top == stack[Len(stack)]
Pop(s) == SubSeq(s, 1, Len(s) - 1)
Last(s) == s[Len(s)]

Init ==
  /\ pc \in Code
  /\ regs \in [Reg -> Value]
  /\ flags \in Value
  /\ masked = FALSE
  /\ irq_stack = [lr |-> 0, spsr |-> 0]
  /\ stack = <<>> /\ interrupted = <<>>

(* The code of the kernel goes on. *)
Execute ==
  /\ pc \in Code
  /\ pc' \in Code
  /\ regs' \in [Reg -> Value]
  /\ flags' \in Value
  /\ UNCHANGED <<masked, irq_stack, stack, interrupted>>

(* A faulty TakeIrq: the mode is switched with interrupts on. *)
TakeIrqUnmasked ==
  /\ ~masked
  /\ Len(interrupted) < MaxDepth
  /\ irq_stack' = [lr |-> pc, spsr |-> flags]
  /\ pc' = "save"
  /\ interrupted' =
       Append(interrupted, [pc |-> pc, regs |-> regs, flags |-> flags])
  /\ UNCHANGED <<regs, flags, masked, stack>>

(* An interrupt, and _irq_handler_asm: the return address and the spsr go  *)
(* to _irq_stack; the mode becomes SVC, interrupts stay masked.            *)
TakeIrq ==
  /\ ~masked
  /\ Len(interrupted) < MaxDepth
  /\ irq_stack' = [lr |-> pc, spsr |-> flags]
  /\ masked' = TRUE
  /\ pc' = "save"
  /\ interrupted' =
       Append(interrupted, [pc |-> pc, regs |-> regs, flags |-> flags])
  /\ UNCHANGED <<regs, flags, stack>>

(* A faulty SaveSvc: r0 and r1 are used before they are on the stack. *)
SaveSvcLate ==
  /\ pc = "save"
  /\ stack' = Append(stack, [regs |-> [r \in Saved |->
                                        IF r = "r0" THEN irq_stack.lr ELSE regs[r]],
                             pc |-> irq_stack.lr, spsr |-> irq_stack.spsr])
  /\ pc' = "handler"
  /\ UNCHANGED <<regs, flags, masked, irq_stack, interrupted>>

(* _irq_handler_svc builds the frame and calls arch_kernel_irq_handler. *)
SaveSvc ==
  /\ pc = "save"
  /\ stack' = Append(stack, [regs |-> [r \in Saved |-> regs[r]],
                             pc |-> irq_stack.lr, spsr |-> irq_stack.spsr])
  /\ pc' = "handler"
  /\ UNCHANGED <<regs, flags, masked, irq_stack, interrupted>>

(* The C handler returns. *)
Handler ==
  /\ pc = "handler"
  /\ \E c \in [Scratch -> Value] :
       regs' = [r \in Reg |-> IF r \in Scratch THEN c[r] ELSE regs[r]]
  /\ flags' \in Value
  /\ pc' = "restore"
  /\ UNCHANGED <<masked, irq_stack, stack, interrupted>>

(* A faulty Restore: the frame is read one word too far. *)
RestoreShifted ==
  /\ pc = "restore"
  /\ \E sp \in Value :
       regs' = [regs EXCEPT !["r1"] = Top.spsr, !["lr"] = Top.pc, !["r3"] = sp,
                            !["r0"] = Top.regs["r1"], !["r12"] = Top.regs["r2"]]
  /\ pc' = "return"
  /\ UNCHANGED <<flags, masked, irq_stack, stack, interrupted>>

(* lr and spsr from the frame, with r0 and r1 in passing (r3 points into   *)
(* it); then ldmia sp, {r0, r12}: two registers, the first two words.      *)
Restore ==
  /\ pc = "restore"
  /\ \E sp \in Value :
       regs' = [regs EXCEPT !["r1"] = Top.spsr, !["lr"] = Top.pc, !["r3"] = sp,
                            !["r0"] = Top.regs["r0"], !["r12"] = Top.regs["r1"]]
  /\ pc' = "return"
  /\ UNCHANGED <<flags, masked, irq_stack, stack, interrupted>>

(* cmp r0, lr differ; movs pc, lr: back, with cpsr from spsr. *)
Return ==
  /\ pc = "return"
  /\ regs["r0"] # regs["lr"]
  /\ pc' = regs["lr"]
  /\ flags' = Top.spsr
  /\ masked' = FALSE
  /\ stack' = Pop(stack) /\ interrupted' = Pop(interrupted)
  /\ UNCHANGED <<regs, irq_stack>>

(* r0 is the return address: _error hangs. *)
Error ==
  /\ pc = "return"
  /\ regs["r0"] = regs["lr"]
  /\ pc' = "error"
  /\ UNCHANGED <<regs, flags, masked, irq_stack, stack, interrupted>>

Next == Execute \/ TakeIrq \/ SaveSvc \/ Handler \/ Restore \/ Return \/ Error

Spec == Init /\ [][Next]_vars

-----------------------------------------------------------------------------
(* Types of the variables; one interrupt at a time. *)
TypeOK ==
  /\ pc \in Code \cup Entry
  /\ regs \in [Reg -> Value]
  /\ flags \in Value
  /\ masked \in BOOLEAN /\ (masked <=> pc \in Entry)
  /\ Len(stack) <= 1 /\ Len(interrupted) <= 1

(* The frame on the stack is what kernel_task_registers_t says: r0 to r12, *)
(* the return address and the spsr of the interrupted code, although they  *)
(* took their way through one save slot.                                   *)
FrameIsComplete ==
  pc \in Entry \ {"save"} =>
    LET i == Last(interrupted)
    IN  /\ Top.pc = i.pc /\ Top.spsr = i.flags
        /\ Top.regs = [r \in Saved |-> i.regs[r]]

(* What the interrupted code can rely on: it goes on where it was, with    *)
(* the same flags and stack, and with r0 and r4 to r11 unchanged.          *)
Resumes ==
  [][Return => LET i == Last(interrupted)
               IN  /\ pc' = i.pc /\ flags' = i.flags
                   /\ Len(stack') = Len(interrupted')
                   /\ \A r \in {"r0", "r4"} : regs'[r] = i.regs[r]]_vars

(* "Restore r0-r12": all of them are unchanged. *)
RestoresR0ToR12 ==
  [][Return => \A r \in Saved : regs'[r] = Last(interrupted).regs[r]]_vars
=============================================================================
