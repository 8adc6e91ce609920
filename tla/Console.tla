------------------------------- MODULE Console ------------------------------
(***************************************************************************)
(* Printing from a task and from the interrupt handler that interrupts it, *)
(* at every instruction that matters: printk's calls of putf (utils/       *)
(* printk.c), kernel_write (drivers/serial/serial.c), uart_write and       *)
(* uart_putc (drivers/serial/bcm_2835_uart.c).  A string is a number of    *)
(* characters; which ones is the matter of module Printk.  Who prints what *)
(* and when is in module Interrupts.                                       *)
(*                                                                         *)
(* The UART is modelled from how uart_putc uses it: it sends what is in    *)
(* its transmit FIFO, and loses what is written into a full one.           *)
(***************************************************************************)
EXTENDS Naturals, Sequences

CONSTANT TxSize      \* size of the transmit FIFO

ASSUME ConsoleAssumption == TxSize \in Nat \ {0}

Context == {"task", "irq"}

VARIABLES
  pc,        \* pc[c]: where context c is in uart_putc, or "out"
  left,      \* left[c]: characters of its string that c has yet to write
  written,   \* written[c]: characters c has written to DR, in all
  lost,      \* lost[c]: how many of these found no room
  tx,        \* the transmit FIFO: characters, by context and number
  latest     \* latest[c]: the number of the last character of c on the line

console_vars == <<pc, left, written, lost, tx, latest>>

ConsoleInit ==
  /\ pc = [c \in Context |-> "out"]
  /\ left = [c \in Context |-> 0]
  /\ written = [c \in Context |-> 0]
  /\ lost = [c \in Context |-> 0]
  /\ tx = <<>>
  /\ latest = [c \in Context |-> 0]

(* The n-th character that context c writes. *)
Character(c, n) == [by |-> c, nr |-> n]

(* printk is called with a string of n characters. *)
PrintkCall(c, n) ==
  /\ pc[c] = "out"
  /\ left' = [left EXCEPT ![c] = n]
  /\ pc' = [pc EXCEPT ![c] = "check"]
  /\ UNCHANGED <<written, lost, tx, latest>>

(* A faulty CheckTxff: the loop ends on the wrong value of the bit. *)
CheckTxffInverted(c) ==
  /\ pc[c] = "check"
  /\ Len(tx) > 0
  /\ pc' = [pc EXCEPT ![c] = "write"]
  /\ UNCHANGED <<left, written, lost, tx, latest>>

(* A faulty CheckTxff: it does not wait. *)
CheckTxffOnce(c) ==
  /\ pc[c] = "check"
  /\ pc' = [pc EXCEPT ![c] = "write"]
  /\ UNCHANGED <<left, written, lost, tx, latest>>

(* while (uart_reg->FR & UART0_FR_TXFF): it finds room. *)
CheckTxff(c) ==
  /\ pc[c] = "check"
  /\ Len(tx) < TxSize
  /\ pc' = [pc EXCEPT ![c] = "write"]
  /\ UNCHANGED <<left, written, lost, tx, latest>>

(* A faulty WriteDr: uart_write sends the last character all the time. *)
WriteDrLast(c) ==
  /\ pc[c] = "write"
  /\ written' = [written EXCEPT ![c] = @ + 1]
  /\ IF Len(tx) < TxSize
     THEN tx' = Append(tx, Character(c, written[c] + left[c])) /\ UNCHANGED lost
     ELSE lost' = [lost EXCEPT ![c] = @ + 1] /\ UNCHANGED tx
  /\ left' = [left EXCEPT ![c] = @ - 1]
  /\ pc' = [pc EXCEPT ![c] = IF left'[c] = 0 THEN "out" ELSE "check"]
  /\ UNCHANGED latest

(* uart_reg->DR = byte, and on to the next character of the string. *)
WriteDr(c) ==
  /\ pc[c] = "write"
  /\ written' = [written EXCEPT ![c] = @ + 1]
  /\ IF Len(tx) < TxSize
     THEN tx' = Append(tx, Character(c, written'[c])) /\ UNCHANGED lost
     ELSE lost' = [lost EXCEPT ![c] = @ + 1] /\ UNCHANGED tx
  /\ left' = [left EXCEPT ![c] = @ - 1]
  /\ pc' = [pc EXCEPT ![c] = IF left'[c] = 0 THEN "out" ELSE "check"]
  /\ UNCHANGED latest

Proceed(c) == CheckTxff(c) \/ WriteDr(c)

(* The UART sends a character. *)
Transmit ==
  /\ tx # <<>>
  /\ tx' = Tail(tx)
  /\ latest' = [latest EXCEPT ![Head(tx).by] = Head(tx).nr]
  /\ UNCHANGED <<pc, left, written, lost>>

-----------------------------------------------------------------------------
(* Types of the variables; left is 0 between two strings. *)
ConsoleTypeOK ==
  /\ pc \in [Context -> {"out", "check", "write"}]
  /\ left \in [Context -> Nat]
  /\ \A c \in Context : left[c] = 0 <=> pc[c] = "out"
  /\ written \in [Context -> Nat] /\ lost \in [Context -> Nat]
  /\ latest \in [Context -> Nat]
  /\ tx \in Seq([by : Context, nr : Nat]) /\ Len(tx) <= TxSize

(* "mixed output" is all that printing from an interrupt does to the order *)
(* of characters: those of one context leave the UART in order, and none   *)
(* comes twice.                                                            *)
OrderIsKept ==
  \A k \in DOMAIN tx :
    /\ latest[tx[k].by] < tx[k].nr
    /\ \A i \in 1 .. k - 1 : tx[i].by = tx[k].by => tx[i].nr < tx[k].nr

(* Every call of printk returns: the handler may wait for the FIFO with    *)
(* interrupts masked, since the UART sends by itself.                      *)
PrintkReturns == \A c \in Context : pc[c] # "out" ~> pc[c] = "out"
=============================================================================
