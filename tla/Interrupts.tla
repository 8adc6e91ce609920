----------------------------- MODULE Interrupts -----------------------------
(***************************************************************************)
(* The start of the kernel and the interrupts that may arrive during and   *)
(* after it: arch_kernel_main and arch_kernel_irq_handler (arch/arm/       *)
(* main.c), interrupt.c, the two interrupt controllers, the timer and the  *)
(* UART drivers, kernel_main and idle_task.  Both the main flow and the    *)
(* handlers print (module Console), and uart_init sets pins up (module     *)
(* Gpio).  The main flow makes one step per write that an interrupt        *)
(* handler can notice; an interrupt may be taken between any two of them   *)
(* once interrupts are enabled, and runs with interrupts masked.           *)
(*                                                                         *)
(* The devices are modelled from how the drivers use them: a line stays    *)
(* asserted until the handler clears its cause, and the controller shows   *)
(* the asserted lines that are enabled.                                    *)
(***************************************************************************)
EXTENDS Console, Gpio

CONSTANTS
  EarlyInput,    \* whether somebody types before init_printk
  StaleMatch,    \* whether the timer may show a match from before the kernel
  RxTrigger,     \* bytes in the receive FIFO that assert the UART interrupt
  RxSize,        \* size of the receive FIFO
  TaskString,    \* characters of a string that the main flow prints
  TickString,    \* characters of the timer handler's string
  RxWindow,      \* bound: bytes received during printk("\n") of the handler
  RxBytes,       \* bound: bytes received in all
  Ticks          \* bound: matches of the timer in all

ASSUME InterruptsAssumption ==
  /\ EarlyInput \in BOOLEAN /\ StaleMatch \in BOOLEAN
  /\ RxTrigger \in Nat \ {0} /\ RxSize \in Nat /\ RxTrigger <= RxSize
  /\ TaskString \in Nat \ {0} /\ TickString \in Nat \ {0}
  /\ RxWindow \in Nat /\ RxBytes \in Nat /\ Ticks \in Nat
  /\ {14, 15} \subseteq Pins

(* What comes in while one character goes out does not reach the trigger.  *)
ASSUME WindowAssumption == RxWindow < RxTrigger

VARIABLES
  boot,          \* the next step of the main flow
  irqs_on,       \* interrupts are not masked in the main flow's cpsr
  pointers,      \* the pointers to devices that are set
  handlers,      \* handlers[irq] of interrupt.c
  enabled,       \* the lines enabled in the controller
  putf,          \* stdout_putf is set
  match,         \* timer3_matched
  armed,         \* the counter has not yet reached the timer's compare value
  rx,            \* bytes in the receive FIFO
  rxint,         \* the UART's raw receive interrupt
  rxim,          \* the UART's receive interrupt mask
  uart_on,       \* the UART is enabled
  irq,           \* where the interrupt handler is, or "none"
  fault,         \* which NULL pointer was called through: "device", "printk"
  taken,         \* interrupts taken
  window, total, \* bytes received during the window, and in all
  ticks          \* matches of the timer, in all

controller == <<irqs_on, pointers, handlers, enabled>>
timer == <<match, armed>>
uart == <<rx, rxint, rxim, uart_on>>
input == <<window, total, ticks>>

vars == <<boot, controller, putf, timer, uart, irq, fault, taken, input,
          console_vars, gpio_vars>>

Timer == 3     \* INTERRUPT_TIMER3
Uart == 57     \* INTERRUPT_UART0
Irq == {Timer, Uart}
Handler == {"NULL", "timer", "uart"}

BootStep == {"bcm2836", "manager2", "bcm2835", "mask_all", "manager", "gpio_init",
             "timer_set", "timer_unmask", "timer_next", "uart_off", "pull14", "pull15",
             "input14", "input15", "uart_flush", "uart_go", "serial_init", "uart_set",
             "uart_unmask", "init_printk", "welcome", "idle", "wfi", "asleep"}

IrqStep == {"none", "first", "next", "timer", "uart", "newline", "clear"}

Line(i) == IF i = Timer THEN match ELSE rxint /\ rxim

(* What get_irq finds in pending_1 and pending_2. *)
Pending == {i \in enabled : Line(i)}

(* Interrupts are masked out of reset.  The firmware may have left lines   *)
(* enabled in the controller, but none that is asserted: it would be       *)
(* served at the first cpsie, where the pointers are not set.              *)
Init ==
  /\ boot = "bcm2836"
  /\ irqs_on = FALSE
  /\ pointers = {}
  /\ handlers = [i \in Irq |-> "NULL"]
  /\ enabled \in SUBSET Irq
  /\ putf = FALSE
  /\ match \in {FALSE, StaleMatch} /\ armed = FALSE
  /\ rx = 0 /\ rxint = FALSE /\ rxim = FALSE
  /\ uart_on \in BOOLEAN
  /\ Pending = {}
  /\ irq = "none"
  /\ fault = "none"
  /\ taken = 0
  /\ window = 0 /\ total = 0 /\ ticks = 0
  /\ ConsoleInit /\ GpioInit

(* A call through a pointer faults unless the pointer is set. *)
Needs(needed) ==
  fault' = IF needed \subseteq pointers THEN "none" ELSE "device"

(* printk calls stdout_putf, and that is kernel_write, which calls the     *)
(* serial device.                                                          *)
Prints(c, n) ==
  IF putf
  THEN Needs({"serial"}) /\ PrintkCall(c, n)
  ELSE fault' = "printk" /\ UNCHANGED console_vars

-----------------------------------------------------------------------------
(* The main flow goes from one step to the next, unless it is interrupted  *)
(* or still printing.                                                      *)
Boot(from, to) ==
  /\ irq = "none" /\ fault = "none" /\ pc["task"] = "out"
  /\ boot = from
  /\ boot' = to
  /\ UNCHANGED <<irq, input, taken>>

(* A step that calls through no pointer and prints nothing. *)
Quiet == UNCHANGED <<fault, console_vars>>

(* set_kernel_interrupt_device(2836): its init enables interrupts. *)
InitBcm2836 ==
  /\ Boot("bcm2836", "manager2") /\ Quiet
  /\ pointers' = pointers \cup {"interrupt_manager"}
  /\ irqs_on' = TRUE
  /\ UNCHANGED <<handlers, enabled, putf, timer, uart, gpio_vars>>

(* A pointer is set. *)
SetPointer(name, from, to) ==
  /\ Boot(from, to) /\ Quiet
  /\ pointers' = pointers \cup {name}
  /\ UNCHANGED <<irqs_on, handlers, enabled, putf, timer, uart, gpio_vars>>

(* A faulty SetManager2: the device is made known, but its pointer lost. *)
SetManager2Forgotten ==
  /\ Boot("manager2", "bcm2835") /\ Quiet
  /\ UNCHANGED <<controller, putf, timer, uart, gpio_vars>>

(* interrupt_manager2 = init_bcm_2836_interrupt(...) *)
SetManager2 == SetPointer("arch_manager2", "manager2", "bcm2835")

(* set_kernel_interrupt_device(2835) stores the manager ... *)
InitBcm2835 == SetPointer("interrupt_manager", "bcm2835", "mask_all")

(* ... and bcm2835_interrupt_init masks every line and enables interrupts. *)
MaskAll ==
  /\ Boot("mask_all", "manager") /\ Quiet
  /\ enabled' = {}
  /\ irqs_on' = TRUE
  /\ UNCHANGED <<pointers, handlers, putf, timer, uart, gpio_vars>>

(* interrupt_manager = init_bcm_2835_interrupt(...) *)
SetManager == SetPointer("arch_manager", "manager", "gpio_init")

(* init_bcm_2835_gpio, and serial_init in init_bcm_2835_uart. *)
InitGpio == SetPointer("gpio", "gpio_init", "timer_set")
InitSerial == SetPointer("serial", "serial_init", "uart_set")

(* set_interrupt_handler: first the handler ... *)
SetHandler(i, h, from, to) ==
  /\ Boot(from, to) /\ Quiet
  /\ handlers' = [handlers EXCEPT ![i] = h]
  /\ UNCHANGED <<irqs_on, pointers, enabled, putf, timer, uart, gpio_vars>>

(* ... then the line. *)
Unmask(i, from, to) ==
  /\ Boot(from, to)
  /\ enabled' = enabled \cup {i}
  /\ Needs({"interrupt_manager"})
  /\ UNCHANGED <<irqs_on, pointers, handlers, putf, timer, uart, gpio_vars, console_vars>>

(* The first schedule_next_timer. *)
FirstTimer ==
  /\ Boot("timer_next", "uart_off") /\ Quiet
  /\ armed' = TRUE
  /\ UNCHANGED <<controller, putf, match, uart, gpio_vars>>

(* uart_init: the UART is off, ... *)
UartOff ==
  /\ Boot("uart_off", "pull14") /\ Quiet
  /\ uart_on' = FALSE
  /\ UNCHANGED <<controller, putf, timer, rx, rxint, rxim, gpio_vars>>

(* ... gpio_set_pull(pin, GPIO_PULL_DISABLE), write by write, ... *)
UartPull(pin, from, to) ==
  /\ \/ Boot(from, from) /\ (WriteControl("disable") \/ WriteClock(pin) \/ ReleaseControl)
     \/ Boot(from, to) /\ ReleaseClock
  /\ Needs({"gpio"})
  /\ UNCHANGED <<controller, putf, timer, uart, console_vars>>

(* ... gpio_set_direction(pin, GPIO_INPUT), ... *)
UartInput(pin, from, to) ==
  /\ Boot(from, to)
  /\ SetDirection(pin, GPIO_INPUT)
  /\ Needs({"gpio"})
  /\ UNCHANGED <<controller, putf, timer, uart, console_vars>>

(* ... its interrupts are cleared and, when it is no longer busy sending,  *)
(* its FIFO is flushed, ...                                                *)
UartFlush ==
  /\ Boot("uart_flush", "uart_go") /\ Quiet
  /\ tx = <<>>
  /\ rx' = 0 /\ rxint' = FALSE
  /\ UNCHANGED <<controller, putf, timer, rxim, uart_on, gpio_vars>>

(* ... the receive interrupt is let through and the UART is on. *)
UartGo ==
  /\ Boot("uart_go", "serial_init") /\ Quiet
  /\ rxim' = TRUE /\ uart_on' = TRUE
  /\ UNCHANGED <<controller, putf, timer, rx, rxint, gpio_vars>>

InitPrintk ==
  /\ Boot("init_printk", "welcome") /\ Quiet
  /\ putf' = TRUE
  /\ UNCHANGED <<controller, timer, uart, gpio_vars>>

(* kernel_main prints, and after memory_init, create_kernel_task and       *)
(* schedule idle_task prints.                                              *)
MainPrints(from, to) ==
  /\ Boot(from, to)
  /\ Prints("task", TaskString)
  /\ UNCHANGED <<controller, putf, timer, uart, gpio_vars>>

(* wfi sleeps until an interrupt is taken: one that is pending, at once. *)
Wfi ==
  /\ Boot("wfi", "asleep") /\ Quiet
  /\ UNCHANGED <<controller, putf, timer, uart, gpio_vars>>

(* A faulty Main: set_interrupt_handler unmasks the line first. *)
MainUnmasksFirst ==
  \/ InitBcm2836 \/ SetManager2 \/ InitBcm2835 \/ MaskAll \/ SetManager \/ InitGpio
  \/ Unmask(Timer, "timer_set", "timer_unmask")
  \/ SetHandler(Timer, "timer", "timer_unmask", "timer_next")
  \/ FirstTimer \/ UartOff
  \/ UartPull(14, "pull14", "pull15") \/ UartPull(15, "pull15", "input14")
  \/ UartInput(14, "input14", "input15") \/ UartInput(15, "input15", "uart_flush")
  \/ UartFlush \/ UartGo \/ InitSerial
  \/ Unmask(Uart, "uart_set", "uart_unmask")
  \/ SetHandler(Uart, "uart", "uart_unmask", "init_printk")
  \/ InitPrintk \/ MainPrints("welcome", "idle") \/ MainPrints("idle", "wfi") \/ Wfi

(* arch_kernel_main, kernel_main and idle_task. *)
Main ==
  \/ InitBcm2836 \/ SetManager2 \/ InitBcm2835 \/ MaskAll \/ SetManager \/ InitGpio
  \/ SetHandler(Timer, "timer", "timer_set", "timer_unmask")
  \/ Unmask(Timer, "timer_unmask", "timer_next")
  \/ FirstTimer \/ UartOff
  \/ UartPull(14, "pull14", "pull15") \/ UartPull(15, "pull15", "input14")
  \/ UartInput(14, "input14", "input15") \/ UartInput(15, "input15", "uart_flush")
  \/ UartFlush \/ UartGo \/ InitSerial
  \/ SetHandler(Uart, "uart", "uart_set", "uart_unmask")
  \/ Unmask(Uart, "uart_unmask", "init_printk")
  \/ InitPrintk \/ MainPrints("welcome", "idle") \/ MainPrints("idle", "wfi") \/ Wfi

(* The main flow is within printk. *)
TaskProceeds ==
  /\ irq = "none" /\ fault = "none"
  /\ Proceed("task")
  /\ UNCHANGED <<boot, controller, putf, timer, uart, irq, fault, taken, input, gpio_vars>>

-----------------------------------------------------------------------------
(* The handler goes on; the main flow is interrupted. *)
Handle(from, to) ==
  /\ irq = from /\ fault = "none" /\ pc["irq"] = "out"
  /\ irq' = to
  /\ UNCHANGED <<controller, putf, rxim, uart_on, total, ticks, gpio_vars>>

(* The processor takes an interrupt, which wakes it up. *)
TakeIrq ==
  /\ irqs_on
  /\ Pending # {}
  /\ Handle("none", "first") /\ Quiet
  /\ boot' = IF boot = "asleep" THEN "idle" ELSE boot
  /\ taken' = taken + 1
  /\ UNCHANGED <<timer, rx, rxint, window>>

(* arch_kernel_irq_handler asks interrupt_manager2, which knows nothing. *)
AskManager2 ==
  /\ Handle("first", "next")
  /\ Needs({"arch_manager2"})
  /\ UNCHANGED <<boot, taken, timer, rx, rxint, window, console_vars>>

(* interrupt_manager->get_irq finds a line: kernel_irq_handler calls its   *)
(* handler, or nothing if there is none.                                   *)
Dispatch ==
  /\ Pending # {}
  /\ LET i == CHOOSE i \in Pending : \A k \in Pending : i <= k
     IN  Handle("next", IF handlers[i] = "NULL" THEN "next" ELSE handlers[i])
  /\ Needs({"interrupt_manager", "arch_manager"})
  /\ UNCHANGED <<boot, taken, timer, rx, rxint, window, console_vars>>

(* get_irq returns 0: the interrupted code goes on.  That it does so with  *)
(* all its registers is an assumption of this module: interrupt.S:123      *)
(* restores only two of them (module IrqEntry).                            *)
ReturnFromIrq ==
  /\ Pending = {}
  /\ Handle("next", "none")
  /\ Needs({"arch_manager"})
  /\ UNCHANGED <<boot, taken, timer, rx, rxint, window, console_vars>>

(* A faulty TimerHandler: it does not set the next match. *)
TimerHandlerOnce ==
  /\ Handle("timer", "next")
  /\ match' = FALSE
  /\ IF match THEN Prints("irq", TickString) ELSE Quiet
  /\ UNCHANGED <<boot, taken, armed, rx, rxint, window>>

(* timer_interrupt_handler clears the match, sets the next one and prints. *)
TimerHandler ==
  /\ Handle("timer", "next")
  /\ match' = FALSE
  /\ armed' = (armed \/ match)
  /\ IF match THEN Prints("irq", TickString) ELSE Quiet
  /\ UNCHANGED <<boot, taken, rx, rxint, window>>

(* Faulty variants of UartGetc: it does not look at RXFE, or the handler   *)
(* reads one byte per interrupt.                                           *)
UartGetcBlind ==
  /\ Handle("uart", "uart")
  /\ rx' = rx - 1
  /\ rxint' = (rxint /\ rx' >= RxTrigger)
  /\ Prints("irq", 1)
  /\ UNCHANGED <<boot, taken, timer, window>>

UartGetcOnce ==
  /\ rx > 0
  /\ Handle("uart", "newline")
  /\ rx' = rx - 1
  /\ rxint' = (rxint /\ rx' >= RxTrigger)
  /\ Prints("irq", 1)
  /\ UNCHANGED <<boot, taken, timer, window>>

(* uart0_interrupt_handler reads a byte and prints it.  Below the trigger  *)
(* level the FIFO no longer asserts the interrupt.                         *)
UartGetc ==
  /\ rx > 0
  /\ Handle("uart", "uart")
  /\ rx' = rx - 1
  /\ rxint' = (rxint /\ rx' >= RxTrigger)
  /\ Prints("irq", 1)
  /\ UNCHANGED <<boot, taken, timer, window>>

(* It finds the FIFO empty ... *)
UartEmpty ==
  /\ rx = 0
  /\ Handle("uart", "newline") /\ Quiet
  /\ UNCHANGED <<boot, taken, timer, rx, rxint, window>>

(* ... prints a newline ... *)
UartNewline ==
  /\ Handle("newline", "clear")
  /\ Prints("irq", 1)
  /\ UNCHANGED <<boot, taken, timer, rx, rxint, window>>

(* ... and clears the UART's interrupts. *)
UartClear ==
  /\ Handle("clear", "next") /\ Quiet
  /\ rxint' = FALSE
  /\ window' = 0
  /\ UNCHANGED <<boot, taken, timer, rx>>

(* The handler is within printk. *)
IrqProceeds ==
  /\ fault = "none"
  /\ Proceed("irq")
  /\ UNCHANGED <<boot, controller, putf, timer, uart, irq, fault, taken, input, gpio_vars>>

Handling ==
  \/ AskManager2 \/ Dispatch \/ ReturnFromIrq \/ TimerHandler
  \/ UartGetc \/ UartEmpty \/ UartNewline \/ UartClear \/ IrqProceeds

-----------------------------------------------------------------------------
(* A TICK has passed: a second, far longer than the boot. *)
TimerMatches ==
  /\ boot \in {"idle", "wfi", "asleep"} /\ fault = "none"
  /\ armed /\ ticks < Ticks
  /\ match' = TRUE /\ armed' = FALSE
  /\ ticks' = ticks + 1
  /\ UNCHANGED <<boot, controller, putf, uart, irq, fault, taken, window, total,
                 console_vars, gpio_vars>>

(* A byte is received.  Input and output have the same rate, so few bytes  *)
(* come in while the handler waits for the room to print one.              *)
Receive ==
  /\ fault = "none"
  /\ uart_on /\ (putf \/ EarlyInput)
  /\ total < RxBytes /\ rx < RxSize
  /\ irq \in {"newline", "clear"} => window < RxWindow
  /\ total' = total + 1
  /\ window' = IF irq \in {"newline", "clear"} THEN window + 1 ELSE window
  /\ rx' = rx + 1
  /\ rxint' = (rxint \/ rx' = RxTrigger)
  /\ UNCHANGED <<boot, controller, putf, timer, rxim, uart_on, irq, fault, taken, ticks,
                 console_vars, gpio_vars>>

(* A byte is sent. *)
Send ==
  /\ uart_on /\ Transmit
  /\ UNCHANGED <<boot, controller, putf, timer, uart, irq, fault, taken, input, gpio_vars>>

Next ==
  Main \/ TaskProceeds \/ TakeIrq \/ Handling \/ TimerMatches \/ Receive \/ Send

Spec == Init /\ [][Next]_vars

(* The processor executes instructions and takes pending interrupts, and   *)
(* the UART sends.                                                         *)
FairSpec ==
  /\ Spec
  /\ WF_vars(Main \/ TaskProceeds) /\ WF_vars(Handling) /\ WF_vars(TakeIrq)
  /\ WF_vars(Send)

-----------------------------------------------------------------------------
(* Types of the variables. *)
TypeOK ==
  /\ boot \in BootStep /\ irq \in IrqStep
  /\ irqs_on \in BOOLEAN /\ putf \in BOOLEAN
  /\ fault \in {"none", "device", "printk"}
  /\ pointers \subseteq {"interrupt_manager", "arch_manager", "arch_manager2", "gpio", "serial"}
  /\ handlers \in [Irq -> Handler]
  /\ enabled \subseteq Irq
  /\ match \in BOOLEAN /\ armed \in BOOLEAN
  /\ rxint \in BOOLEAN /\ rxim \in BOOLEAN /\ uart_on \in BOOLEAN
  /\ rx \in 0 .. RxSize
  /\ taken \in Nat
  /\ window \in 0 .. RxWindow /\ total \in 0 .. RxBytes /\ ticks \in 0 .. Ticks
  /\ ConsoleTypeOK /\ GpioTypeOK

(* Interrupts are enabled long before the pointers their handling goes     *)
(* through are set (bcm_2836_interrupt.c:9), perhaps with lines enabled    *)
(* that nobody handles yet; whenever in the boot one comes, it finds both  *)
(* interrupt managers, and printing finds the serial device; uart_init     *)
(* finds the GPIO device.                                                  *)
PointersAreSet == fault # "device"

(* No receive interrupt is lost: when the handler clears the UART's        *)
(* interrupts, bytes that arrived since its last look at the FIFO do not   *)
(* go unnoticed; a FIFO filled to the trigger level asserts the interrupt, *)
(* or the handler is still going to read it.                               *)
NoLostRxInterrupt ==
  rx >= RxTrigger => rxint \/ irq = "uart"

(* Once the first match of the timer is set, there is always one to come   *)
(* or one to be handled: ticks never stop.                                 *)
TimerGoesOn ==
  boot \notin {"bcm2836", "manager2", "bcm2835", "mask_all", "manager", "gpio_init",
               "timer_set", "timer_unmask", "timer_next"}
  => armed \/ match

(* "it is safe to call it from interupts too" (printk.h:87) if putc is     *)
(* re-entrant, which uart_putc is not: what the interrupt handler prints   *)
(* is complete, but the task loses the character in its hands when the     *)
(* handler fills the FIFO -- one to each interrupt, at most.               *)
LossIsBounded == lost["irq"] = 0 /\ lost["task"] <= taken

(* The interrupt handler comes to an end: every line is enabled only when  *)
(* it has a handler, and every handler takes away what asserts its line.   *)
IrqEnds == irq # "none" ~> (irq = "none" \/ fault = "printk")

(* "Before you can call printk you need to initialize it": an interrupt    *)
(* handler that prints runs only after init_printk.                        *)
PrintkIsReady == irq \in {"timer", "uart", "newline", "clear"} => putf

(* uart_init disables the pull of "the UART Pins" (bcm_2835_uart.c:64),    *)
(* 14 and 15: of these, and no other pins.                                 *)
PullReachesPins == boot = "input14" => PullIsOffAt({14, 15})
=============================================================================
