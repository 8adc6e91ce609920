--------------------------------- MODULE Gpio -------------------------------
(***************************************************************************)
(* The GPIO driver, drivers/gpio/bcm_2835_gpio.c: set_direction, and       *)
(* set_pull with an action for each of its writes.  uart_init calls them   *)
(* (module Interrupts).  set_edge does nothing and is called by nobody.    *)
(*                                                                         *)
(* The pads are modelled from the order of set_pull's writes: a pad takes  *)
(* the value of the control register when its clock is asserted.           *)
(***************************************************************************)
EXTENDS Integers

CONSTANTS
  Pins,          \* the pins there are
  FirmwareFsel,  \* function and pull of each pin when the kernel starts
  FirmwarePull

Pull == {"disable", "down", "up"}    \* gpio_pull_t; disable is 0

(* Fields of GPFSEL: gpio_direction_t, and the UART for pins 14 and 15. *)
GPIO_INPUT == 0
GPIO_OUTPUT == 1
Alt0 == 4

ASSUME GpioAssumption ==
  /\ Pins \subseteq 0 .. 53
  /\ FirmwareFsel \in [Pins -> 0 .. 7]
  /\ FirmwarePull \in [Pins -> Pull]

VARIABLES
  gpfsel,      \* the field of each pin in GPFSEL0 to GPFSEL5
  gppud,       \* the control register GPPUD
  gppudclk0,   \* the pins whose bit in GPPUDCLK0 is set
  pull,        \* the pull of each pad
  gpio_pc      \* the next write of set_pull

gpio_vars == <<gpfsel, gppud, gppudclk0, pull, gpio_pc>>

GpioInit ==
  /\ gpfsel = FirmwareFsel /\ pull = FirmwarePull
  /\ gppud = "disable" /\ gppudclk0 = {}
  /\ gpio_pc = "control"

(* set_direction ors the direction into the field: GPIO_INPUT changes      *)
(* nothing, and GPIO_OUTPUT sets its lowest bit.                           *)
SetDirection(pin, direction) ==
  /\ gpfsel' = [gpfsel EXCEPT ![pin] = @ + (IF @ % 2 < direction THEN 1 ELSE 0)]
  /\ UNCHANGED <<gppud, gppudclk0, pull, gpio_pc>>

(* The bits of a number below 32. *)
BitsOf(n) == {i \in 0 .. 4 : (n \div 2 ^ i) % 2 = 1}

(* What set_pull ors into the clock register: the number of the pin. *)
ClockMask(pin) == BitsOf(pin % 32)

(* get_gppudclk gives GPPUDCLK0 for every pin: these pads are clocked. *)
Clocked(pin) == Pins \cap ClockMask(pin)

(* set_pull: the control register is set, *)
WriteControl(value) ==
  /\ gpio_pc = "control"
  /\ gppud' = value
  /\ gpio_pc' = "clock"
  /\ UNCHANGED <<gpfsel, gppudclk0, pull>>

(* the clock is asserted, and pads that were not clocked take the control, *)
WriteClock(pin) ==
  /\ gpio_pc = "clock"
  /\ gppudclk0' = gppudclk0 \cup Clocked(pin)
  /\ pull' = [n \in Pins |-> IF n \in gppudclk0' \ gppudclk0 THEN gppud ELSE pull[n]]
  /\ gpio_pc' = "release"
  /\ UNCHANGED <<gpfsel, gppud>>

(* the control register is released, *)
ReleaseControl ==
  /\ gpio_pc = "release"
  /\ gppud' = "disable"
  /\ gpio_pc' = "unclock"
  /\ UNCHANGED <<gpfsel, gppudclk0, pull>>

(* and the clock. *)
ReleaseClock ==
  /\ gpio_pc = "unclock"
  /\ gppudclk0' = {}
  /\ gpio_pc' = "control"
  /\ UNCHANGED <<gpfsel, gppud, pull>>

-----------------------------------------------------------------------------
(* Types of the variables. *)
GpioTypeOK ==
  /\ gpfsel \in [Pins -> 0 .. 7] /\ pull \in [Pins -> Pull]
  /\ gppud \in Pull /\ gppudclk0 \subseteq Pins
  /\ gpio_pc \in {"control", "clock", "release", "unclock"}

(* What set_pull is called for is what it does: the pull of these pins is  *)
(* off, and that of the others is the firmware's.                          *)
PullIsOffAt(pins) ==
  pull = [n \in Pins |-> IF n \in pins THEN "disable" ELSE FirmwarePull[n]]
=============================================================================
