--------------------------- MODULE InterruptsProofs -------------------------
(***************************************************************************)
(* Proofs about Interrupts, for all sizes of the FIFOs and lengths of the  *)
(* strings, all input and any number of interrupts and ticks.              *)
(***************************************************************************)
EXTENDS Interrupts, TLAPS

-----------------------------------------------------------------------------
(* The console: what each of its actions does to the types and to the      *)
(* order of the characters, for every size of the FIFO.                    *)

(* Characters are numbered as they are written: no number on its way is    *)
(* greater than the number of characters written.                          *)
Numbered ==
  /\ \A c \in Context : latest[c] <= written[c]
  /\ \A k \in DOMAIN tx : tx[k].nr <= written[tx[k].by]

OrderInv == OrderIsKept /\ Numbered

(* A context in front of a write has something to write. *)
LEMMA WriterHasSomething ==
  ASSUME ConsoleTypeOK, NEW c \in Context, pc[c] = "write"
  PROVE  left[c] \in Nat \ {0}
BY DEF ConsoleTypeOK

LEMMA InitConsole == ConsoleInit => ConsoleTypeOK /\ OrderInv
BY ConsoleAssumption DEF ConsoleInit, ConsoleTypeOK, OrderInv, OrderIsKept, Numbered

LEMMA PrintkCallKeeps ==
  ASSUME ConsoleTypeOK, OrderInv, NEW c \in Context, NEW n \in Nat \ {0},
         PrintkCall(c, n)
  PROVE  ConsoleTypeOK' /\ OrderInv'
<1>1. ConsoleTypeOK'
  BY DEF ConsoleTypeOK, PrintkCall
<1>2. OrderInv'
  BY DEF OrderInv, OrderIsKept, Numbered, PrintkCall
<1> QED BY <1>1, <1>2

LEMMA CheckTxffKeeps ==
  ASSUME ConsoleTypeOK, OrderInv, NEW c \in Context, CheckTxff(c)
  PROVE  ConsoleTypeOK' /\ OrderInv'
<1>1. ConsoleTypeOK'
  BY DEF ConsoleTypeOK, CheckTxff
<1>2. OrderInv'
  BY DEF OrderInv, OrderIsKept, Numbered, CheckTxff
<1> QED BY <1>1, <1>2

LEMMA ElementOf ==
  ASSUME NEW S, NEW s \in Seq(S)
  PROVE  DOMAIN s = 1 .. Len(s) /\ Len(s) \in Nat /\ \A k \in DOMAIN s : s[k] \in S
OBVIOUS

LEMMA TailShape ==
  ASSUME NEW S, NEW s \in Seq(S), s # <<>>
  PROVE  /\ Tail(s) \in Seq(S) /\ Len(s) \in Nat \ {0} /\ Head(s) = s[1]
         /\ Len(Tail(s)) = Len(s) - 1 /\ DOMAIN Tail(s) = 1 .. Len(s) - 1
         /\ \A k \in DOMAIN Tail(s) : Tail(s)[k] = s[k + 1]
OBVIOUS

(* The characters in the FIFO are characters. *)
LEMMA InFifo ==
  ASSUME ConsoleTypeOK
  PROVE  /\ DOMAIN tx = 1 .. Len(tx) /\ Len(tx) \in Nat
         /\ \A k \in DOMAIN tx : tx[k].by \in Context /\ tx[k].nr \in Nat
<1> DEFINE Char == [by : Context, nr : Nat]
<1>1. tx \in Seq(Char)
  BY DEF ConsoleTypeOK
<1>2. \A e \in Char : e.by \in Context /\ e.nr \in Nat
  OBVIOUS
<1> HIDE DEF Char
<1> QED BY <1>1, <1>2, ElementOf

LEMMA AppendShape ==
  ASSUME NEW S, NEW s \in Seq(S), NEW e \in S
  PROVE  /\ Append(s, e) \in Seq(S) /\ Len(Append(s, e)) = Len(s) + 1
         /\ DOMAIN Append(s, e) = 1 .. Len(s) + 1 /\ DOMAIN s = 1 .. Len(s)
         /\ \A k \in DOMAIN s : Append(s, e)[k] = s[k]
         /\ Append(s, e)[Len(s) + 1] = e
OBVIOUS

(* The character written has a number greater than all before it. *)
LEMMA WriteDrKeeps ==
  ASSUME ConsoleTypeOK, OrderInv, NEW c \in Context, WriteDr(c)
  PROVE  ConsoleTypeOK' /\ OrderInv'
<1> DEFINE ch == Character(c, written[c] + 1)
<1>1. /\ left[c] \in Nat \ {0} /\ written[c] \in Nat
      /\ written' = [written EXCEPT ![c] = written[c] + 1]
      /\ left' = [left EXCEPT ![c] = left[c] - 1]
      /\ latest' = latest
  BY WriterHasSomething DEF WriteDr, ConsoleTypeOK
<1>2. ch \in [by : Context, nr : Nat] /\ ch.by = c /\ ch.nr = written[c] + 1
  BY <1>1 DEF Character
<1>3. CASE Len(tx) < TxSize
  <2>1. tx' = Append(tx, ch) /\ lost' = lost
    BY <1>1, <1>3 DEF WriteDr, ConsoleTypeOK
  <2>2. /\ tx' \in Seq([by : Context, nr : Nat]) /\ Len(tx') = Len(tx) + 1
        /\ DOMAIN tx' = 1 .. Len(tx) + 1 /\ DOMAIN tx = 1 .. Len(tx)
        /\ \A k \in DOMAIN tx : tx'[k] = tx[k]
        /\ tx'[Len(tx) + 1] = ch
    <3> tx \in Seq([by : Context, nr : Nat])
      BY DEF ConsoleTypeOK
    <3> HIDE DEF ch
    <3> QED BY <1>2, <2>1, AppendShape
  <2> HIDE DEF ch
  <2>3. ConsoleTypeOK'
    <3>1. left' \in [Context -> Nat] /\ written' \in [Context -> Nat]
      BY <1>1 DEF ConsoleTypeOK
    <3>2. Len(tx') <= TxSize
      BY <1>3, <2>2, ConsoleAssumption DEF ConsoleTypeOK
    <3>3. /\ pc' \in [Context -> {"out", "check", "write"}]
          /\ \A e \in Context : left'[e] = 0 <=> pc'[e] = "out"
      BY <1>1 DEF ConsoleTypeOK, WriteDr
    <3> QED BY <1>1, <2>1, <2>2, <3>1, <3>2, <3>3 DEF ConsoleTypeOK
  <2>4. Numbered'
    <3>1. \A e \in Context : latest'[e] <= written'[e]
      BY <1>1 DEF OrderInv, Numbered, ConsoleTypeOK
    <3>2. ASSUME NEW k \in DOMAIN tx' PROVE tx'[k].nr <= written'[tx'[k].by]
      <4>1. CASE k \in DOMAIN tx
        <5>1. tx[k].nr <= written[tx[k].by] /\ tx[k].by \in Context /\ tx[k].nr \in Nat
          BY <4>1, InFifo DEF OrderInv, Numbered
        <5>2. \A e \in Context : written[e] \in Nat /\ written'[e] \in Nat /\ written[e] <= written'[e]
          BY <1>1 DEF ConsoleTypeOK
        <5>3. tx'[k] = tx[k]
          BY <2>2, <4>1
        <5> QED BY <5>1, <5>2, <5>3
      <4>2. CASE k = Len(tx) + 1
        BY <1>1, <1>2, <2>2, <4>2 DEF ConsoleTypeOK
      <4> QED BY <2>2, <4>1, <4>2
    <3> QED BY <3>1, <3>2 DEF Numbered
  <2>5. OrderIsKept'
    <3> SUFFICES ASSUME NEW k \in DOMAIN tx'
                 PROVE  /\ latest'[tx'[k].by] < tx'[k].nr
                        /\ \A i \in 1 .. k - 1 : tx'[i].by = tx'[k].by => tx'[i].nr < tx'[k].nr
      BY DEF OrderIsKept
    <3>1. CASE k \in DOMAIN tx
      <4>1. k \in 1 .. Len(tx) /\ \A i \in 1 .. k - 1 : i \in DOMAIN tx
        BY <2>2, <3>1 DEF ConsoleTypeOK
      <4> QED BY <1>1, <2>2, <3>1, <4>1 DEF OrderInv, OrderIsKept
    <3>2. CASE k = Len(tx) + 1
      <4>1. \A i \in 1 .. k - 1 : i \in DOMAIN tx /\ tx[i].nr \in Nat /\ tx'[i] = tx[i]
        BY <2>2, <3>2, InFifo
      <4>2. \A i \in 1 .. k - 1 : tx[i].by = c => tx[i].nr <= written[c]
        BY <4>1 DEF OrderInv, Numbered
      <4>3. latest[c] \in Nat /\ latest[c] <= written[c]
        BY DEF OrderInv, Numbered, ConsoleTypeOK
      <4>4. tx'[k] = ch
        BY <2>2, <3>2
      <4> QED BY <1>1, <1>2, <4>1, <4>2, <4>3, <4>4
    <3> QED BY <2>2, <3>1, <3>2
  <2> QED BY <2>3, <2>4, <2>5 DEF OrderInv
<1>4. CASE ~ (Len(tx) < TxSize)
  <2>1. tx' = tx /\ lost' = [lost EXCEPT ![c] = lost[c] + 1]
    BY <1>4 DEF WriteDr, ConsoleTypeOK
  <2>2. ConsoleTypeOK'
    BY <1>1, <2>1 DEF ConsoleTypeOK, WriteDr
  <2>3. Numbered'
    <3>1. \A e \in Context : /\ written[e] \in Nat /\ written'[e] \in Nat
                             /\ latest[e] \in Nat /\ written[e] <= written'[e]
      BY <1>1 DEF ConsoleTypeOK
    <3>2. \A k \in DOMAIN tx : tx[k].nr <= written'[tx[k].by]
      <4> SUFFICES ASSUME NEW k \in DOMAIN tx PROVE tx[k].nr <= written'[tx[k].by]
        OBVIOUS
      <4>1. tx[k].nr <= written[tx[k].by] /\ tx[k].by \in Context /\ tx[k].nr \in Nat
        BY InFifo DEF OrderInv, Numbered
      <4> QED BY <3>1, <4>1
    <3>3. \A e \in Context : latest[e] <= written'[e]
      BY <3>1 DEF OrderInv, Numbered
    <3> QED BY <1>1, <2>1, <3>2, <3>3 DEF Numbered
  <2>4. OrderIsKept'
    BY <1>1, <2>1 DEF OrderInv, OrderIsKept
  <2> QED BY <2>2, <2>3, <2>4 DEF OrderInv
<1> QED BY <1>3, <1>4

(* What leaves the FIFO is behind no other character of its context. *)
LEMMA TransmitKeeps ==
  ASSUME ConsoleTypeOK, OrderInv, Transmit
  PROVE  ConsoleTypeOK' /\ OrderInv'
<1> DEFINE h == tx[1]
           Char == [by : Context, nr : Nat]
<1>1. /\ tx' \in Seq(Char) /\ Len(tx) \in Nat \ {0} /\ Len(tx') = Len(tx) - 1
      /\ DOMAIN tx = 1 .. Len(tx) /\ DOMAIN tx' = 1 .. Len(tx) - 1
      /\ \A k \in DOMAIN tx' : tx'[k] = tx[k + 1]
      /\ Head(tx) = h
  <2>1. tx \in Seq(Char) /\ tx # <<>> /\ tx' = Tail(tx)
    BY DEF ConsoleTypeOK, Transmit
  <2> HIDE DEF Char
  <2> QED BY <2>1, TailShape, ElementOf
<1>2. h.by \in Context /\ h.nr \in Nat /\ h.nr <= written[h.by]
  BY <1>1, InFifo DEF OrderInv, Numbered
<1> HIDE DEF h
<1>3. /\ latest' = [latest EXCEPT ![h.by] = h.nr]
      /\ UNCHANGED <<pc, left, written, lost>>
  BY <1>1 DEF Transmit
<1>4. ConsoleTypeOK'
  <2>1. latest' \in [Context -> Nat]
    BY <1>2, <1>3 DEF ConsoleTypeOK
  <2>2. Len(tx') <= TxSize
    BY <1>1, ConsoleAssumption DEF ConsoleTypeOK
  <2> QED BY <1>1, <1>3, <2>1, <2>2 DEF ConsoleTypeOK
<1>5. \A k \in DOMAIN tx' : /\ k \in Nat \ {0} /\ k + 1 \in DOMAIN tx /\ tx'[k] = tx[k + 1]
                            /\ tx[k + 1].by \in Context /\ tx[k + 1].nr \in Nat
  BY <1>1, InFifo
<1>6. Numbered'
  <2>1. \A k \in DOMAIN tx' : tx'[k].nr <= written'[tx'[k].by]
    BY <1>3, <1>5 DEF OrderInv, Numbered
  <2>2. \A c \in Context : latest'[c] <= written'[c]
    BY <1>2, <1>3 DEF OrderInv, Numbered, ConsoleTypeOK
  <2> QED BY <2>1, <2>2 DEF Numbered
<1>7. OrderIsKept'
  <2> SUFFICES ASSUME NEW k \in DOMAIN tx'
               PROVE  /\ latest'[tx'[k].by] < tx'[k].nr
                      /\ \A i \in 1 .. k - 1 : tx'[i].by = tx'[k].by => tx'[i].nr < tx'[k].nr
    BY DEF OrderIsKept
  <2>1. /\ latest[tx[k + 1].by] < tx[k + 1].nr
        /\ \A i \in 1 .. k : tx[i].by = tx[k + 1].by => tx[i].nr < tx[k + 1].nr
    <3>1. PICK m \in DOMAIN tx : m = k + 1
      BY <1>5
    <3>2. m - 1 = k
      BY <1>5, <3>1
    <3>3. /\ latest[tx[m].by] < tx[m].nr
          /\ \A i \in 1 .. m - 1 : tx[i].by = tx[m].by => tx[i].nr < tx[m].nr
      BY DEF OrderInv, OrderIsKept
    <3> QED BY <3>1, <3>2, <3>3
  <2>2. latest'[tx[k + 1].by] < tx[k + 1].nr
    <3>1. h.by = tx[k + 1].by => h.nr < tx[k + 1].nr
      BY <1>5, <2>1 DEF h
    <3> QED BY <1>2, <1>3, <1>5, <2>1, <3>1 DEF ConsoleTypeOK
  <2>3. \A i \in 1 .. k - 1 : i \in DOMAIN tx' /\ i + 1 \in 1 .. k
    BY <1>1, <1>5
  <2> QED BY <1>5, <2>1, <2>2, <2>3
<1> QED BY <1>4, <1>6, <1>7 DEF OrderInv

-----------------------------------------------------------------------------
(* The boot and the interrupts. *)

(* The steps of the boot before which a pointer is set, or something is on. *)
BeforeManager == {"bcm2836", "manager2", "bcm2835", "mask_all", "manager"}
BeforeTimer == BeforeManager \cup {"gpio_init", "timer_set", "timer_unmask"}
BeforeSerial ==
  BeforeTimer \cup {"timer_next", "uart_off", "pull14", "pull15", "input14", "input15",
                    "uart_flush", "uart_go", "serial_init"}
BeforePrintk == BeforeSerial \cup {"uart_set", "uart_unmask", "init_printk"}

(* How far the boot is says which pointers are set. *)
BootSets ==
  /\ boot = "bcm2836" \/ "interrupt_manager" \in pointers
  /\ boot \in {"bcm2836", "manager2"} \/ "arch_manager2" \in pointers
  /\ boot \in BeforeManager \/ "arch_manager" \in pointers
  /\ boot \in BeforeManager \cup {"gpio_init"} \/ "gpio" \in pointers
  /\ boot \in BeforeSerial \/ "serial" \in pointers

(* Interrupts come only when the timer's line is unmasked, although they   *)
(* are enabled much earlier: no line is asserted until every line is       *)
(* masked, and none is enabled then.  Printing is possible at the end.     *)
InterruptsComeLate ==
  /\ boot \in BeforeTimer => irq = "none" /\ ~rxim /\ ~(Timer \in enabled /\ match)
  /\ boot \in {"manager", "gpio_init", "timer_set", "timer_unmask"} => enabled = {}
  /\ boot \in BeforePrintk => ~putf

PointersInv == PointersAreSet /\ BootSets /\ InterruptsComeLate

(* What has come in since the handler's last look at the FIFO. *)
WindowCounts ==
  IF irq \in {"newline", "clear"} THEN rx <= window ELSE window = 0

RxInv == NoLostRxInterrupt /\ WindowCounts

(* The handler prints only while it runs, and then nobody takes the room   *)
(* it has found; the room the task has found is taken at most once for     *)
(* each interrupt.                                                         *)
RoomIsTakenOnce ==
  /\ irq = "none" => pc["irq"] = "out"
  /\ pc["irq"] = "write" => Len(tx) < TxSize
  /\ pc["task"] = "write" /\ (irq # "none" \/ Len(tx) = TxSize) => lost["task"] < taken

LossInv == LossIsBounded /\ RoomIsTakenOnce

(* The invariant that is inductive: the properties and what they rest on. *)
IInv ==
  TypeOK /\ PointersInv /\ RxInv /\ TimerGoesOn /\ OrderInv /\ LossInv

(* The actions of the main flow, of the handlers, and of the devices. *)
LEMMA Steps ==
  ASSUME [Next]_vars
  PROVE  \/ Main \/ TaskProceeds \/ TakeIrq \/ Handling
         \/ TimerMatches \/ Receive \/ Send \/ UNCHANGED vars
BY DEF Next

LEMMA InitIInv == Init => IInv
<1> SUFFICES ASSUME Init PROVE IInv
  OBVIOUS
<1> USE DEF Init
<1>1. ConsoleTypeOK /\ OrderInv
  BY InitConsole
<1>2. GpioTypeOK
  BY GpioAssumption DEF GpioInit, GpioTypeOK, Pull
<1>3. TypeOK
  <2>1. boot \in BootStep /\ irq \in IrqStep /\ handlers \in [Irq -> Handler]
    BY DEF BootStep, IrqStep, Irq, Handler
  <2>2. match \in BOOLEAN /\ armed \in BOOLEAN /\ uart_on \in BOOLEAN
    BY InterruptsAssumption
  <2>3. /\ rx \in 0 .. RxSize /\ window \in 0 .. RxWindow
        /\ total \in 0 .. RxBytes /\ ticks \in 0 .. Ticks
    BY InterruptsAssumption
  <2> QED BY <1>1, <1>2, <2>1, <2>2, <2>3 DEF TypeOK
<1>4. PointersInv
  <2>1. ~(Timer \in enabled /\ match)
    BY DEF Pending, Line
  <2> QED
    BY <2>1 DEF PointersInv, PointersAreSet, BootSets, InterruptsComeLate, BeforeManager,
       BeforeTimer, BeforeSerial, BeforePrintk
<1>5. RxInv /\ TimerGoesOn
  BY InterruptsAssumption DEF RxInv, NoLostRxInterrupt, WindowCounts, TimerGoesOn
<1>6. LossInv
  BY DEF LossInv, LossIsBounded, RoomIsTakenOnce, ConsoleInit, Context
<1> QED BY <1>1, <1>2, <1>3, <1>4, <1>5, <1>6 DEF IInv

(* Every step of the kernel is at most one step of the console ... *)
LEMMA AtMostOneConsoleStep ==
  ASSUME [Next]_vars
  PROVE  \/ \E c \in Context, n \in Nat \ {0} : PrintkCall(c, n)
         \/ \E c \in Context : CheckTxff(c) \/ WriteDr(c)
         \/ Transmit
         \/ UNCHANGED console_vars
<1> DEFINE Goal == \/ \E c \in Context, n \in Nat \ {0} : PrintkCall(c, n)
                   \/ \E c \in Context : CheckTxff(c) \/ WriteDr(c)
                   \/ Transmit
                   \/ UNCHANGED console_vars
<1>1. ASSUME UNCHANGED console_vars PROVE Goal
  BY <1>1
<1>2. ASSUME NEW c \in Context, Proceed(c) PROVE Goal
  BY <1>2 DEF Proceed
<1>3. ASSUME NEW c \in Context, NEW n \in Nat \ {0}, Prints(c, n) PROVE Goal
  BY <1>3 DEF Prints
<1>4. ASSUME Transmit PROVE Goal
  BY <1>4
<1>5. /\ "task" \in Context /\ "irq" \in Context /\ 1 \in Nat \ {0}
      /\ TaskString \in Nat \ {0} /\ TickString \in Nat \ {0}
  BY InterruptsAssumption DEF Context
<1> SUFFICES Goal
  OBVIOUS
<1> HIDE DEF Goal
<1>6. CASE Main
  <2>1. CASE MainPrints("welcome", "idle") \/ MainPrints("idle", "wfi")
    BY <1>3, <1>5, <2>1 DEF MainPrints
  <2>2. CASE ~(MainPrints("welcome", "idle") \/ MainPrints("idle", "wfi"))
    BY <1>1, <1>6, <2>2
       DEF Main, InitBcm2836, SetManager2, InitBcm2835, MaskAll, SetManager, InitGpio,
           InitSerial, SetPointer, SetHandler, Unmask, FirstTimer, UartOff, UartPull,
           UartInput, UartFlush, UartGo, InitPrintk, Wfi, Quiet
  <2> QED BY <2>1, <2>2
<1>7. CASE Handling
  <2>1. CASE TimerHandler
    BY <1>1, <1>3, <1>5, <2>1 DEF TimerHandler, Quiet
  <2>2. CASE UartGetc \/ UartNewline
    BY <1>3, <1>5, <2>2 DEF UartGetc, UartNewline
  <2>3. CASE IrqProceeds
    BY <1>2, <1>5, <2>3 DEF IrqProceeds
  <2>4. CASE AskManager2 \/ Dispatch \/ ReturnFromIrq \/ UartEmpty \/ UartClear
    BY <1>1, <2>4 DEF AskManager2, Dispatch, ReturnFromIrq, UartEmpty, UartClear, Quiet
  <2> QED BY <1>7, <2>1, <2>2, <2>3, <2>4 DEF Handling
<1>8. CASE TaskProceeds
  BY <1>2, <1>5, <1>8 DEF TaskProceeds
<1>9. CASE TakeIrq \/ TimerMatches \/ Receive \/ UNCHANGED vars
  BY <1>1, <1>9 DEF TakeIrq, Quiet, TimerMatches, Receive, vars
<1>10. CASE Send
  BY <1>4, <1>10 DEF Send
<1> QED BY <1>6, <1>7, <1>8, <1>9, <1>10, Steps

LEMMA ConsoleKeeps ==
  ASSUME ConsoleTypeOK, OrderInv, [Next]_vars
  PROVE  ConsoleTypeOK' /\ OrderInv'
<1>1. CASE UNCHANGED console_vars
  BY <1>1 DEF console_vars, ConsoleTypeOK, OrderInv, OrderIsKept, Numbered
<1> QED BY <1>1, AtMostOneConsoleStep, PrintkCallKeeps, CheckTxffKeeps, WriteDrKeeps,
       TransmitKeeps

(* ... and at most one step of the GPIO driver. *)
LEMMA AtMostOneGpioStep ==
  ASSUME [Next]_vars
  PROVE  \/ \E pin \in {14, 15} : SetDirection(pin, GPIO_INPUT)
         \/ WriteControl("disable")
         \/ \E pin \in {14, 15} : WriteClock(pin)
         \/ ReleaseControl \/ ReleaseClock
         \/ UNCHANGED gpio_vars
<1> DEFINE Goal == \/ \E pin \in {14, 15} : SetDirection(pin, GPIO_INPUT)
                   \/ WriteControl("disable")
                   \/ \E pin \in {14, 15} : WriteClock(pin)
                   \/ ReleaseControl \/ ReleaseClock
                   \/ UNCHANGED gpio_vars
<1>1. ASSUME UNCHANGED gpio_vars PROVE Goal
  BY <1>1
<1>2. ASSUME NEW pin \in {14, 15}, NEW from, NEW to,
             UartPull(pin, from, to) \/ UartInput(pin, from, to)
      PROVE  Goal
  BY <1>2 DEF UartPull, UartInput
<1> SUFFICES Goal
  OBVIOUS
<1> HIDE DEF Goal
<1>3. CASE Main
  <2>1. CASE \/ UartPull(14, "pull14", "pull15") \/ UartPull(15, "pull15", "input14")
             \/ UartInput(14, "input14", "input15") \/ UartInput(15, "input15", "uart_flush")
    BY <1>2, <2>1
  <2>2. CASE ~ \/ UartPull(14, "pull14", "pull15") \/ UartPull(15, "pull15", "input14")
               \/ UartInput(14, "input14", "input15") \/ UartInput(15, "input15", "uart_flush")
    BY <1>1, <1>3, <2>2
       DEF Main, InitBcm2836, SetManager2, InitBcm2835, MaskAll, SetManager, InitGpio,
           InitSerial, SetPointer, SetHandler, Unmask, FirstTimer, UartOff, UartFlush,
           UartGo, InitPrintk, MainPrints, Wfi
  <2> QED BY <2>1, <2>2
<1>4. CASE Handling
  BY <1>1, <1>4
     DEF Handling, Handle, AskManager2, Dispatch, ReturnFromIrq, TimerHandler, UartGetc,
         UartEmpty, UartNewline, UartClear, IrqProceeds
<1>5. CASE TaskProceeds \/ TakeIrq \/ TimerMatches \/ Receive \/ Send \/ UNCHANGED vars
  BY <1>1, <1>5 DEF TaskProceeds, TakeIrq, Handle, TimerMatches, Receive, Send, vars
<1> QED BY <1>3, <1>4, <1>5, Steps

LEMMA GpioKeeps ==
  ASSUME GpioTypeOK, [Next]_vars
  PROVE  GpioTypeOK'
<1> USE DEF GpioTypeOK
<1>1. ASSUME NEW pin \in {14, 15}, SetDirection(pin, GPIO_INPUT)
      PROVE  GpioTypeOK'
  <2>1. gpfsel[pin] \in Nat /\ pin \in Pins
    BY InterruptsAssumption
  <2>2. (IF gpfsel[pin] % 2 < GPIO_INPUT THEN 1 ELSE 0) = 0
    BY <2>1 DEF GPIO_INPUT
  <2>3. gpfsel' = [gpfsel EXCEPT ![pin] = gpfsel[pin] + 0]
    BY <1>1, <2>2 DEF SetDirection
  <2>4. gpfsel' = gpfsel
    BY <2>1, <2>3
  <2>5. UNCHANGED gpio_vars
    BY <1>1, <2>4 DEF SetDirection, gpio_vars
  <2> QED BY <2>5 DEF gpio_vars
<1>2. ASSUME NEW pin \in {14, 15}, WriteClock(pin)
      PROVE  GpioTypeOK'
  BY <1>2 DEF WriteClock, Clocked
<1>3. CASE WriteControl("disable") \/ ReleaseControl \/ ReleaseClock
  BY <1>3 DEF WriteControl, ReleaseControl, ReleaseClock, Pull
<1>4. CASE UNCHANGED gpio_vars
  BY <1>4 DEF gpio_vars
<1> QED BY <1>1, <1>2, <1>3, <1>4, AtMostOneGpioStep

-----------------------------------------------------------------------------
(* What a step of the main flow does, whichever it is. *)
LEMMA MainSteps ==
  ASSUME Main
  PROVE  /\ irq = "none" /\ fault = "none" /\ pc["task"] = "out"
         /\ UNCHANGED <<irq, window, total, ticks, taken>>
BY DEF Main, InitBcm2836, SetManager2, InitBcm2835, MaskAll, SetManager, InitGpio,
       InitSerial, SetPointer, SetHandler, Unmask, FirstTimer, UartOff, UartPull,
       UartInput, UartFlush, UartGo, InitPrintk, MainPrints, Wfi, Boot, input

(* get_irq returns the lowest of the lines that are pending. *)
LEMMA DispatchFindsALine ==
  ASSUME TypeOK, Dispatch
  PROVE  \E i \in Pending : i \in Irq /\ irq' = IF handlers[i] = "NULL" THEN "next" ELSE handlers[i]
<1>1. Pending # {} /\ Pending \subseteq {3, 57}
  BY DEF Dispatch, Pending, TypeOK, Irq, Timer, Uart
<1>2. \E i \in Pending : \A k \in Pending : i <= k
  <2>1. CASE 3 \in Pending
    BY <1>1, <2>1
  <2>2. CASE 3 \notin Pending
    <3>1. Pending = {57}
      BY <1>1, <2>2
    <3> QED BY <3>1
  <2> QED BY <2>1, <2>2
<1> DEFINE i == CHOOSE i \in Pending : \A k \in Pending : i <= k
<1>3. i \in Pending
  BY <1>2
<1>4. irq' = IF handlers[i] = "NULL" THEN "next" ELSE handlers[i]
  BY DEF Dispatch, Handle
<1> HIDE DEF i
<1> QED BY <1>1, <1>3, <1>4 DEF Irq, Timer, Uart

LEMMA TypesOfControl ==
  ASSUME TypeOK, [Next]_vars
  PROVE  /\ boot' \in BootStep /\ irq' \in IrqStep
         /\ fault' \in {"none", "device", "printk"}
         /\ pointers' \subseteq {"interrupt_manager", "arch_manager", "arch_manager2",
                                "gpio", "serial"}
         /\ handlers' \in [Irq -> Handler] /\ enabled' \subseteq Irq
<1> USE DEF TypeOK, Irq
<1>1. CASE Main
  <2>1. boot' \in BootStep /\ irq' \in IrqStep
    BY <1>1, MainSteps
       DEF Main, InitBcm2836, SetManager2, InitBcm2835, MaskAll, SetManager, InitGpio,
           InitSerial, SetPointer, SetHandler, Unmask, FirstTimer, UartOff, UartPull,
           UartInput, UartFlush, UartGo, InitPrintk, MainPrints, Wfi, Boot, BootStep
  <2>2. fault' \in {"none", "device", "printk"}
    BY <1>1
       DEF Main, InitBcm2836, SetManager2, InitBcm2835, MaskAll, SetManager, InitGpio,
           InitSerial, SetPointer, SetHandler, Unmask, FirstTimer, UartOff, UartPull,
           UartInput, UartFlush, UartGo, InitPrintk, MainPrints, Wfi, Quiet, Needs, Prints
  <2>3. /\ \/ UNCHANGED pointers
           \/ \E name \in {"interrupt_manager", "arch_manager", "arch_manager2", "gpio",
                          "serial"} : pointers' = pointers \cup {name}
        /\ \/ UNCHANGED handlers
           \/ \E i \in Irq, h \in Handler : handlers' = [handlers EXCEPT ![i] = h]
        /\ \/ UNCHANGED enabled
           \/ enabled' = {}
           \/ \E i \in Irq : enabled' = enabled \cup {i}
    BY <1>1
       DEF Main, InitBcm2836, SetManager2, InitBcm2835, MaskAll, SetManager, InitGpio,
           InitSerial, SetPointer, SetHandler, Unmask, FirstTimer, UartOff, UartPull,
           UartInput, UartFlush, UartGo, InitPrintk, MainPrints, Wfi, Handler, controller
  <2>4. pointers' \subseteq {"interrupt_manager", "arch_manager", "arch_manager2", "gpio",
                            "serial"}
    BY <2>3
  <2>5. handlers' \in [Irq -> Handler]
    BY <2>3
  <2>6. enabled' \subseteq Irq
    BY <2>3
  <2> QED BY <2>1, <2>2, <2>4, <2>5, <2>6
<1>2. CASE TakeIrq
  <2>1. /\ boot' \in {boot, "idle"} /\ irq' = "first"
        /\ UNCHANGED <<fault, pointers, handlers, enabled>>
    BY <1>2 DEF TakeIrq, Handle, Quiet, controller
  <2>2. boot \in BootStep /\ "idle" \in BootStep /\ "first" \in IrqStep
    BY DEF BootStep, IrqStep
  <2> QED BY <2>1, <2>2
<1>3. CASE Handling
  <2>1. UNCHANGED <<boot, controller>>
    BY <1>3 DEF Handling, AskManager2, Dispatch, ReturnFromIrq, TimerHandler, UartGetc,
       UartEmpty, UartNewline, UartClear, IrqProceeds, Handle
  <2>2. irq' \in IrqStep /\ fault' \in {"none", "device", "printk"}
    <3>1. CASE Dispatch
      <4>1. irq' \in {"next", "timer", "uart"}
        BY <3>1, DispatchFindsALine DEF Handler
      <4> QED BY <3>1, <4>1 DEF Dispatch, IrqStep, Needs
    <3>2. CASE ~Dispatch
      BY <1>3, <3>2 DEF Handling, AskManager2, ReturnFromIrq, TimerHandler, UartGetc,
         UartEmpty, UartNewline, UartClear, IrqProceeds, Handle, IrqStep, Needs, Quiet,
         Prints
    <3> QED BY <3>1, <3>2
  <2> QED BY <2>1, <2>2 DEF controller
<1>4. CASE TaskProceeds \/ TimerMatches \/ Receive \/ Send \/ UNCHANGED vars
  BY <1>4 DEF TaskProceeds, TimerMatches, Receive, Send, vars, controller
<1> QED BY <1>1, <1>2, <1>3, <1>4, Steps

LEMMA TypesOfFlags ==
  ASSUME TypeOK, [Next]_vars
  PROVE  /\ irqs_on' \in BOOLEAN /\ putf' \in BOOLEAN
         /\ match' \in BOOLEAN /\ armed' \in BOOLEAN
         /\ rxint' \in BOOLEAN /\ rxim' \in BOOLEAN /\ uart_on' \in BOOLEAN
<1> USE DEF TypeOK, controller, timer, uart
<1>1. CASE Main
  BY <1>1, ZenonT(30)
     DEF Main, InitBcm2836, SetManager2, InitBcm2835, MaskAll, SetManager, InitGpio,
         InitSerial, SetPointer, SetHandler, Unmask, FirstTimer, UartOff, UartPull,
         UartInput, UartFlush, UartGo, InitPrintk, MainPrints, Wfi
<1>2. CASE Handling
  BY <1>2, ZenonT(30) DEF Handling, AskManager2, Dispatch, ReturnFromIrq, TimerHandler, UartGetc,
     UartEmpty, UartNewline, UartClear, IrqProceeds, Handle
<1>3. CASE TaskProceeds \/ TakeIrq \/ TimerMatches \/ Receive \/ Send \/ UNCHANGED vars
  BY <1>3 DEF TaskProceeds, TakeIrq, Handle, TimerMatches, Receive, Send, vars
<1> QED BY <1>1, <1>2, <1>3, Steps

LEMMA TypesOfCounts ==
  ASSUME TypeOK, [Next]_vars
  PROVE  /\ rx' \in 0 .. RxSize /\ taken' \in Nat
         /\ window' \in 0 .. RxWindow /\ total' \in 0 .. RxBytes /\ ticks' \in 0 .. Ticks
<1> USE InterruptsAssumption DEF TypeOK, uart, input
<1>1. CASE Main
  <2>1. rx' \in {rx, 0}
    BY <1>1
       DEF Main, InitBcm2836, SetManager2, InitBcm2835, MaskAll, SetManager, InitGpio,
           InitSerial, SetPointer, SetHandler, Unmask, FirstTimer, UartOff, UartPull,
           UartInput, UartFlush, UartGo, InitPrintk, MainPrints, Wfi
  <2> QED BY <1>1, <2>1, MainSteps
<1>2. CASE Handling
  BY <1>2 DEF Handling, AskManager2, Dispatch, ReturnFromIrq, TimerHandler, UartGetc,
     UartEmpty, UartNewline, UartClear, IrqProceeds, Handle
<1>3. CASE TaskProceeds \/ TakeIrq \/ TimerMatches \/ Send \/ UNCHANGED vars
  BY <1>3 DEF TaskProceeds, TakeIrq, Handle, TimerMatches, Send, vars
<1>4. CASE Receive
  BY <1>4 DEF Receive
<1> QED BY <1>1, <1>2, <1>3, <1>4, Steps

LEMMA StepTypes ==
  ASSUME TypeOK, OrderInv, [Next]_vars
  PROVE  TypeOK'
<1>1. ConsoleTypeOK' /\ GpioTypeOK'
  BY ConsoleKeeps, GpioKeeps DEF TypeOK
<1> QED BY <1>1, TypesOfControl, TypesOfFlags, TypesOfCounts DEF TypeOK

-----------------------------------------------------------------------------
(* Whoever calls through a pointer finds it set: the boot has set it, or   *)
(* has gone on since.                                                      *)
LEMMA StepPointers ==
  ASSUME TypeOK, PointersInv, [Next]_vars
  PROVE  PointersInv'
<1> USE DEF PointersInv, PointersAreSet, BootSets, InterruptsComeLate, BeforeManager,
            BeforeTimer, BeforeSerial, BeforePrintk, controller, timer, uart
<1>1. CASE Main
  <2>1. CASE InitBcm2836 \/ SetManager2 \/ InitBcm2835 \/ MaskAll \/ SetManager
    <3>1. BootSets' /\ PointersAreSet'
      BY <1>1, <2>1 DEF InitBcm2836, SetManager2, InitBcm2835, SetPointer, MaskAll,
         SetManager, Boot, Quiet
    <3>2. InterruptsComeLate'
      BY <1>1, <2>1 DEF InitBcm2836, SetManager2, InitBcm2835, SetPointer, MaskAll,
         SetManager, Boot, Quiet
    <3> QED BY <3>1, <3>2
  <2>2. CASE InitGpio \/ InitSerial \/ FirstTimer \/ UartOff \/ UartFlush \/ UartGo \/ Wfi
             \/ InitPrintk
    BY <2>2 DEF InitGpio, InitSerial, SetPointer, FirstTimer, UartOff, UartFlush, UartGo,
       Wfi, InitPrintk, Boot, Quiet
  <2>3. CASE \/ SetHandler(Timer, "timer", "timer_set", "timer_unmask")
             \/ Unmask(Timer, "timer_unmask", "timer_next")
             \/ SetHandler(Uart, "uart", "uart_set", "uart_unmask")
             \/ Unmask(Uart, "uart_unmask", "init_printk")
    BY <2>3 DEF SetHandler, Unmask, Needs, Boot, Quiet
  <2>4. CASE \/ UartPull(14, "pull14", "pull15") \/ UartPull(15, "pull15", "input14")
             \/ UartInput(14, "input14", "input15") \/ UartInput(15, "input15", "uart_flush")
    BY <2>4 DEF UartPull, UartInput, Needs, Boot
  <2>5. CASE MainPrints("welcome", "idle") \/ MainPrints("idle", "wfi")
    BY <2>5 DEF MainPrints, Prints, Needs, Boot
  <2> QED BY <1>1, <2>1, <2>2, <2>3, <2>4, <2>5 DEF Main
<1>2. CASE TakeIrq
  <2>1. /\ Pending # {} /\ irq = "none" /\ boot' = (IF boot = "asleep" THEN "idle" ELSE boot)
        /\ UNCHANGED <<fault, pointers, enabled, putf, match, rxim>>
    BY <1>2 DEF TakeIrq, Handle, Quiet
  <2>2. boot \notin BeforeTimer
    BY <2>1 DEF Pending, Line, TypeOK, Irq
  <2> QED BY <2>1, <2>2
<1>3. CASE Handling
  <2>1. \/ irq # "none" /\ UNCHANGED <<boot, pointers, enabled, putf>>
        \/ IrqProceeds
    BY <1>3 DEF Handling, AskManager2, Dispatch, ReturnFromIrq, TimerHandler, UartGetc,
       UartEmpty, UartNewline, UartClear, Handle
  <2>2. CASE IrqProceeds
    BY <2>2 DEF IrqProceeds
  <2>3. CASE ~IrqProceeds
    <3>1. {"interrupt_manager", "arch_manager2", "arch_manager"} \subseteq pointers
      BY <2>1, <2>3
    <3>2. putf => "serial" \in pointers
      OBVIOUS
    <3>3. fault' # "device"
      BY <1>3, <2>3, <3>1, <3>2 DEF Handling, AskManager2, Dispatch, ReturnFromIrq,
         TimerHandler, UartGetc, UartEmpty, UartNewline, UartClear, Needs, Prints, Quiet
    <3> QED BY <2>1, <2>3, <3>3
  <2> QED BY <2>2, <2>3
<1>4. CASE TaskProceeds \/ TimerMatches \/ Receive \/ Send \/ UNCHANGED vars
  BY <1>4 DEF TaskProceeds, TimerMatches, Receive, Send, vars
<1> QED BY <1>1, <1>2, <1>3, <1>4, Steps

(* A byte that comes after the handler's last look at the FIFO is counted  *)
(* in the window, which is too short to reach the trigger.                 *)
LEMMA StepRx ==
  ASSUME TypeOK, RxInv, [Next]_vars
  PROVE  RxInv'
<1> USE InterruptsAssumption, WindowAssumption
    DEF RxInv, NoLostRxInterrupt, WindowCounts, TypeOK, uart, input
<1>1. CASE Main
  <2>1. UNCHANGED <<rx, rxint>> \/ rx' = 0
    BY <1>1
       DEF Main, InitBcm2836, SetManager2, InitBcm2835, MaskAll, SetManager, InitGpio,
           InitSerial, SetPointer, SetHandler, Unmask, FirstTimer, UartOff, UartPull,
           UartInput, UartFlush, UartGo, InitPrintk, MainPrints, Wfi
  <2> QED BY <1>1, <2>1, MainSteps
<1>2. CASE TakeIrq \/ AskManager2 \/ ReturnFromIrq \/ TimerHandler
  BY <1>2 DEF TakeIrq, AskManager2, ReturnFromIrq, TimerHandler, Handle
<1>3. CASE Dispatch
  <2>1. irq' \in {"next", "timer", "uart"}
    BY <1>3, DispatchFindsALine DEF Handler
  <2> QED BY <1>3, <2>1 DEF Dispatch, Handle
<1>4. CASE UartGetc \/ UartEmpty
  BY <1>4 DEF UartGetc, UartEmpty, Handle
<1>5. CASE UartNewline \/ UartClear
  BY <1>5 DEF UartNewline, UartClear, Handle
<1>6. CASE Receive
  <2>1. rx' = rx + 1 /\ irq' = irq /\ (rxint' <=> rxint \/ rx' = RxTrigger)
    BY <1>6 DEF Receive
  <2>2. window' = IF irq \in {"newline", "clear"} THEN window + 1 ELSE window
    BY <1>6 DEF Receive
  <2>3. WindowCounts'
    BY <2>1, <2>2
  <2>4. NoLostRxInterrupt'
    BY <2>1
  <2> QED BY <2>3, <2>4
<1>7. CASE IrqProceeds \/ TaskProceeds \/ TimerMatches \/ Send \/ UNCHANGED vars
  BY <1>7 DEF IrqProceeds, TaskProceeds, TimerMatches, Send, vars
<1> QED BY <1>1, <1>2, <1>3, <1>4, <1>5, <1>6, <1>7, Steps DEF Handling

(* The handler sets the next match whenever it clears one. *)
LEMMA StepTimer ==
  ASSUME TypeOK, TimerGoesOn, [Next]_vars
  PROVE  TimerGoesOn'
<1> USE DEF TimerGoesOn, timer
<1>1. CASE Main
  BY <1>1
     DEF Main, InitBcm2836, SetManager2, InitBcm2835, MaskAll, SetManager, InitGpio,
         InitSerial, SetPointer, SetHandler, Unmask, FirstTimer, UartOff, UartPull,
         UartInput, UartFlush, UartGo, InitPrintk, MainPrints, Wfi, Boot
<1>2. CASE TakeIrq
  BY <1>2 DEF TakeIrq
<1>3. CASE TimerHandler
  BY <1>3 DEF TimerHandler
<1>4. CASE Handling /\ ~TimerHandler
  BY <1>4 DEF Handling, AskManager2, Dispatch, ReturnFromIrq, UartGetc, UartEmpty,
     UartNewline, UartClear, IrqProceeds
<1>5. CASE TimerMatches
  BY <1>5 DEF TimerMatches
<1>6. CASE TaskProceeds \/ Receive \/ Send \/ UNCHANGED vars
  BY <1>6 DEF TaskProceeds, Receive, Send, vars
<1> QED BY <1>1, <1>2, <1>3, <1>4, <1>5, <1>6, Steps

(* The room that one context has found the other can take only while it    *)
(* runs: the handler always finds it again, the task unless interrupted.   *)
LEMMA StepLoss ==
  ASSUME TypeOK, LossInv, [Next]_vars
  PROVE  LossInv'
<1> USE DEF LossInv, LossIsBounded, RoomIsTakenOnce
<1>1. /\ taken \in Nat /\ lost["task"] \in Nat /\ Len(tx) \in Nat /\ Len(tx) <= TxSize
      /\ "task" \in Context /\ "irq" \in Context /\ TxSize \in Nat
      /\ pc \in [Context -> {"out", "check", "write"}] /\ lost \in [Context -> Nat]
  BY ConsoleAssumption, InFifo DEF TypeOK, ConsoleTypeOK, Context
<1>2. ASSUME NEW n, PrintkCall("irq", n), irq # "none", irq' # "none", UNCHANGED taken
      PROVE  LossInv'
  BY <1>1, <1>2 DEF PrintkCall
<1>3. ASSUME UNCHANGED console_vars, UNCHANGED <<irq, taken>>
      PROVE  LossInv'
  BY <1>3 DEF console_vars
<1>4. CASE Main
  <2>1. CASE MainPrints("welcome", "idle") \/ MainPrints("idle", "wfi")
    <3>1. UNCHANGED console_vars \/ PrintkCall("task", TaskString)
      BY <2>1 DEF MainPrints, Prints
    <3>2. CASE PrintkCall("task", TaskString)
      BY <1>1, <1>4, <3>2, MainSteps DEF PrintkCall
    <3> QED BY <1>3, <1>4, <3>1, <3>2, MainSteps
  <2>2. CASE ~(MainPrints("welcome", "idle") \/ MainPrints("idle", "wfi"))
    <3>1. UNCHANGED console_vars
      BY <1>4, <2>2
         DEF Main, InitBcm2836, SetManager2, InitBcm2835, MaskAll, SetManager, InitGpio,
             InitSerial, SetPointer, SetHandler, Unmask, FirstTimer, UartOff, UartPull,
             UartInput, UartFlush, UartGo, InitPrintk, Wfi, Quiet
    <3> QED BY <1>3, <1>4, <3>1, MainSteps
  <2> QED BY <2>1, <2>2
<1>5. CASE TaskProceeds
  <2>1. irq = "none" /\ UNCHANGED <<irq, taken>> /\ (CheckTxff("task") \/ WriteDr("task"))
    BY <1>5 DEF TaskProceeds, Proceed
  <2>2. CASE CheckTxff("task")
    BY <1>1, <2>1, <2>2 DEF CheckTxff
  <2>3. CASE WriteDr("task")
    <3>1. /\ pc["task"] = "write" /\ pc'["task"] # "write" /\ pc'["irq"] = pc["irq"]
          /\ lost' = IF Len(tx) < TxSize THEN lost ELSE [lost EXCEPT !["task"] = lost["task"] + 1]
      BY <1>1, <2>3 DEF WriteDr
    <3> QED BY <1>1, <2>1, <3>1
  <2> QED BY <2>1, <2>2, <2>3
<1>6. CASE TakeIrq
  <2>1. irq = "none" /\ irq' = "first" /\ taken' = taken + 1 /\ UNCHANGED console_vars
    BY <1>6 DEF TakeIrq, Handle, Quiet
  <2> QED BY <1>1, <2>1 DEF console_vars
<1>7. CASE IrqProceeds
  <2>1. UNCHANGED <<irq, taken>> /\ (CheckTxff("irq") \/ WriteDr("irq"))
    BY <1>7 DEF IrqProceeds, Proceed
  <2>2. CASE CheckTxff("irq")
    BY <1>1, <2>1, <2>2 DEF CheckTxff
  <2>3. CASE WriteDr("irq")
    <3>1. pc["irq"] = "write" /\ Len(tx) < TxSize
      BY <2>3 DEF WriteDr
    <3>2. lost' = lost /\ pc'["irq"] # "write" /\ pc'["task"] = pc["task"]
      BY <1>1, <2>3, <3>1 DEF WriteDr
    <3> QED BY <1>1, <2>1, <3>1, <3>2
  <2> QED BY <2>1, <2>2, <2>3
<1>8. CASE TimerHandler \/ UartGetc \/ UartNewline
  <2>1. /\ irq # "none" /\ irq' # "none" /\ UNCHANGED taken
        /\ UNCHANGED console_vars \/ \E n \in {TickString, 1} : PrintkCall("irq", n)
    BY <1>8 DEF TimerHandler, UartGetc, UartNewline, Handle, Prints, Quiet
  <2>2. CASE UNCHANGED console_vars
    BY <2>1, <2>2 DEF console_vars
  <2> QED BY <1>2, <2>1, <2>2
<1>9. CASE AskManager2 \/ Dispatch \/ ReturnFromIrq \/ UartEmpty \/ UartClear
  <2>1. irq # "none" /\ pc["irq"] = "out" /\ UNCHANGED taken /\ UNCHANGED console_vars
    BY <1>9 DEF AskManager2, Dispatch, ReturnFromIrq, UartEmpty, UartClear, Handle, Quiet
  <2> QED BY <2>1 DEF console_vars
<1>10. CASE Send
  <2>1. /\ UNCHANGED <<pc, lost, irq, taken>>
        /\ tx # <<>> /\ tx' = Tail(tx) /\ tx \in Seq([by : Context, nr : Nat])
    BY <1>10 DEF Send, Transmit, TypeOK, ConsoleTypeOK
  <2>2. Len(tx') < Len(tx) /\ Len(tx') \in Nat
    <3> DEFINE Char == [by : Context, nr : Nat]
    <3>1. tx \in Seq(Char)
      BY <2>1
    <3> HIDE DEF Char
    <3> QED BY <2>1, <3>1, TailShape, ElementOf
  <2> QED BY <1>1, <2>1, <2>2
<1>11. CASE TimerMatches \/ Receive \/ UNCHANGED vars
  BY <1>3, <1>11 DEF TimerMatches, Receive, vars
<1> QED BY <1>4, <1>5, <1>6, <1>7, <1>8, <1>9, <1>10, <1>11, Steps DEF Handling

LEMMA StepIInv == IInv /\ [Next]_vars => IInv'
BY StepTypes, StepPointers, StepRx, StepTimer, ConsoleKeeps, StepLoss
   DEF IInv, TypeOK

-----------------------------------------------------------------------------
(* Whatever comes in and whenever interrupts are taken, the inductive      *)
(* invariant holds: it ties the progress of the boot to the pointers, and  *)
(* the room each context has found to who may run.                         *)
THEOREM Inductive == Spec => []IInv
BY InitIInv, StepIInv, PTL DEF Spec

(* The variables keep their types: the FIFOs hold no more than they can. *)
THEOREM TypeCorrect == Spec => []TypeOK
<1>1. IInv => TypeOK
  BY DEF IInv
<1> QED BY <1>1, Inductive, PTL

(* No call goes through a pointer to a device that is not set yet. *)
THEOREM BootIsInOrder == Spec => []PointersAreSet
<1>1. IInv => PointersAreSet
  BY DEF IInv, PointersInv
<1> QED BY <1>1, Inductive, PTL

(* uart0_interrupt_handler never clears the interrupt of bytes that it has *)
(* not read.                                                               *)
THEOREM RxInterruptsSurvive == Spec => []NoLostRxInterrupt
<1>1. IInv => NoLostRxInterrupt
  BY DEF IInv, RxInv
<1> QED BY <1>1, Inductive, PTL

(* Once started, the timer always has a match to come or to be handled. *)
THEOREM TicksGoOn == Spec => []TimerGoesOn
<1>1. IInv => TimerGoesOn
  BY DEF IInv
<1> QED BY <1>1, Inductive, PTL

(* Characters of one context leave the UART in the order printed. *)
THEOREM OutputIsOrdered == Spec => []OrderIsKept
<1>1. IInv => OrderIsKept
  BY DEF IInv, OrderInv
<1> QED BY <1>1, Inductive, PTL

(* uart_putc loses no character of a handler, and of the task at most one  *)
(* for each interrupt.                                                     *)
THEOREM LossesAreBounded == Spec => []LossIsBounded
<1>1. IInv => LossIsBounded
  BY DEF IInv, LossInv
<1> QED BY <1>1, Inductive, PTL

=============================================================================
