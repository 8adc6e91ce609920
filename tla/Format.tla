-------------------------------- MODULE Format ------------------------------
(***************************************************************************)
(* How printk.c turns a value into characters: ui2a and i2a, with one      *)
(* action per round of their loops, putbin, and putchw, which puts out     *)
(* what they leave in a buffer.  Arithmetic is that of unsigned int.  A    *)
(* character is its code.                                                  *)
(***************************************************************************)
EXTENDS Integers, Sequences, FiniteSetsExt

CONSTANTS
  Bits,         \* bits of an unsigned int, and sizeof(buf) in tfp_format
  BufSize,      \* sizeof(bf) in tfp_format
  BehindBuf     \* the characters that follow buf on the stack, up to a NUL

(* b to the power of n. *)
Powers(b) == LET power[n \in Nat] == IF n = 0 THEN 1 ELSE b * power[n - 1] IN power

Pow(b, n) == Powers(b)[n]

(* bf has room for a sign, the decimal digits of an unsigned int and a NUL *)
(* (12 for 32 bits).                                                       *)
ASSUME FormatAssumption ==
  /\ Bits \in Nat \ {0} /\ BufSize \in Nat \ {0, 1}
  /\ Pow(2, Bits) <= Pow(10, BufSize - 2)
  /\ BehindBuf \in Seq(Nat \ {0})

Blank == 32
Minus == 45
Zero == 48

(* Where unsigned int wraps around; an int; an unsigned int. *)
Word == Pow(2, Bits)
Signed == - (Word \div 2) .. Word \div 2 - 1
Unsigned == 0 .. Word - 1

(* The digits '0' to '9' and 'a' to 'f', or 'A' to 'F'. *)
Digit(dgt, upper) == dgt + (IF dgt < 10 THEN Zero ELSE (IF upper THEN 65 ELSE 97) - 10)

VARIABLES
  num, base, uc, d,  \* arguments and locals of ui2a
  bf,                \* the characters written into bf, without the NUL
  loop               \* the loop of ui2a that runs, "none" or "ready"

format_vars == <<num, base, uc, d, bf, loop>>

FormatInit ==
  /\ num = 0 /\ base = 10 /\ uc = FALSE /\ d = 1
  /\ bf = <<>> /\ loop = "none"

(* ui2a is called, with this in front of its part of bf. *)
Ui2aCall(n, b, upper, sign) ==
  /\ num' = n /\ base' = b /\ uc' = upper /\ d' = 1
  /\ bf' = sign /\ loop' = "grow"

(* i2a writes the sign (-num of the smallest int is itself again), and     *)
(* ui2a takes it unsigned.                                                 *)
I2aCall(n) ==
  IF n < 0 THEN Ui2aCall((- n) % Word, 10, FALSE, <<Minus>>)
           ELSE Ui2aCall(n, 10, FALSE, <<>>)

(* A faulty Grow: one power of the base too many. *)
GrowTooFar ==
  /\ loop = "grow"
  /\ IF num >= d THEN d' = (d * base) % Word /\ UNCHANGED loop
                 ELSE loop' = "digits" /\ UNCHANGED d
  /\ UNCHANGED <<num, base, uc, bf>>

(* while (num / d >= base) d *= base *)
Grow ==
  /\ loop = "grow"
  /\ IF num \div d >= base THEN d' = (d * base) % Word /\ UNCHANGED loop
                           ELSE loop' = "digits" /\ UNCHANGED d
  /\ UNCHANGED <<num, base, uc, bf>>

(* A faulty Digits: the rest is not taken. *)
DigitsKeepNum ==
  /\ loop = "digits"
  /\ IF d = 0 THEN loop' = "ready" /\ UNCHANGED <<d, bf>>
     ELSE /\ d' = d \div base
          /\ bf' = Append(bf, Digit(num \div d, uc))
          /\ UNCHANGED loop
  /\ UNCHANGED <<num, base, uc>>

(* while (d != 0): a digit, unless it is a leading 0 and not the last. *)
Digits ==
  /\ loop = "digits"
  /\ IF d = 0 THEN loop' = "ready" /\ UNCHANGED <<num, d, bf>>
     ELSE LET dgt == num \div d
              n == {k \in DOMAIN bf : bf[k] # Minus}   \* the digits so far
          IN  /\ num' = num % d
              /\ d' = d \div base
              /\ bf' = IF n # {} \/ dgt > 0 \/ d' = 0
                       THEN Append(bf, Digit(dgt, uc)) ELSE bf
              /\ UNCHANGED loop
  /\ UNCHANGED <<base, uc>>

(* putbin: a single 0, or a digit for every bit.  These fill all of buf    *)
(* and no NUL ends them.                                                   *)
Putbin(val) ==
  IF val = 0 THEN <<Zero>>
  ELSE [i \in 1 .. Bits |-> Digit((val \div Pow(2, Bits - i)) % 2, FALSE)] \o BehindBuf

(* putchw pads the text to n characters, with zeros or blanks. *)
Putchw(n, z, text) ==
  [i \in 1 .. n - Len(text) |-> IF z THEN Zero ELSE Blank] \o text

-----------------------------------------------------------------------------
(* Types of the variables; the digits are digits of the base. *)
FormatTypeOK ==
  /\ num \in Unsigned /\ d \in Unsigned
  /\ base \in {10, 16} /\ uc \in BOOLEAN
  /\ \A i \in DOMAIN bf : bf[i] \in {Digit(k, uc) : k \in 0 .. base - 1} \cup {Minus}
  /\ loop \in {"none", "grow", "digits", "ready"}
=============================================================================
