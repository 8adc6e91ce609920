-------------------------------- MODULE Printk ------------------------------
(***************************************************************************)
(* tfp_format of utils/printk.c: the scan of a format, its directives, and *)
(* the conversions of their arguments (module Format).  The characters it  *)
(* gives to putf are out; where they go is in module Console.              *)
(*                                                                         *)
(* A format is made of pieces, so that what it is meant to print is known  *)
(* without scanning it: single characters, and directives with or without  *)
(* zero padding, a field width, and a conversion, which is missing (NUL)   *)
(* when the format ends within the directive.  A piece also has the        *)
(* argument its directive is called with.                                  *)
(***************************************************************************)
EXTENDS Format

CONSTANTS
  Formats,       \* the formats: sequences of pieces
  BehindFormat   \* the characters that follow a format in memory, up to a NUL

NUL == 0
Percent == 37

(* Codes of the letters b, c, d, s, u, x and X. *)
Letter == [b |-> 98, c |-> 99, d |-> 100, s |-> 115, u |-> 117, x |-> 120, X |-> 88]

Numeric == {Letter.u, Letter.d, Letter.x, Letter.X}
Decimal == Zero .. Zero + 9

(* a2d: what a character counts as a digit, -1 if it is none. *)
A2d(c) ==
  CASE c \in Decimal -> c - Zero
    [] c \in 97 .. 102 -> c - 97 + 10
    [] c \in 65 .. 70 -> c - 65 + 10
    [] OTHER -> -1

(* What a2i takes for a digit of base 10: digit > base ends the number, so *)
(* that the letter a is one.                                               *)
IsDigit(c) == A2d(c) \in 0 .. 10

(* str is the argument of %s, val that of the others. *)
Piece == [lit : BOOLEAN, zero : BOOLEAN, width : Seq(Nat), ch : Nat, val : Int,
          str : Seq(Nat \ {NUL})]

(* A format, in which no piece is taken for part of the one before. *)
IsPiece(x) ==
  IF x.lit THEN x.ch \in Nat \ {NUL, Percent}
  ELSE /\ \A n \in DOMAIN x.width : x.width[n] \in Decimal \cup {65, 97}
       /\ x.width # <<>> => x.width[1] \in Decimal /\ (x.zero \/ x.width[1] # Zero)
       /\ x.ch \notin Decimal
       /\ x.width # <<>> => x.ch \notin {65, 97}
       /\ x.val \in (IF x.ch = Letter.d THEN Signed ELSE Unsigned)

ASSUME PrintkAssumption ==
  /\ \A f \in Formats :
       /\ f \in Seq(Piece)
       /\ \A n \in DOMAIN f : IsPiece(f[n]) /\ (f[n].ch = NUL => n = Len(f))
  /\ BehindFormat \in Seq(Nat \ {NUL, Percent})

VARIABLES
  pieces,       \* the format, as pieces
  fmt,          \* the format and what follows it in memory
  p,            \* index of the next character of fmt
  ch, lz, w,    \* locals of tfp_format
  va,           \* arguments taken
  out,          \* the characters given to putf
  pc            \* where it is

scan_vars == <<pieces, fmt, p, ch, lz, w, va, out, pc>>
vars == <<scan_vars, format_vars>>

Text(x) ==
  IF x.lit THEN <<x.ch>>
  ELSE <<Percent>> \o (IF x.zero THEN <<Zero>> ELSE <<>>) \o x.width
         \o (IF x.ch = NUL THEN <<>> ELSE <<x.ch>>)

(* The first n of the texts, one after the other; all of them. *)
Joins(texts) ==
  LET join[n \in 0 .. Len(texts)] == IF n = 0 THEN <<>> ELSE join[n - 1] \o texts[n]
  IN  join

Joined(texts) == Joins(texts)[Len(texts)]

Format == Joined([n \in DOMAIN pieces |-> Text(pieces[n])])

Init ==
  /\ pieces \in Formats
  /\ fmt = Format \o <<NUL>> \o BehindFormat \o <<NUL>>
  /\ p = 1 /\ ch = NUL /\ lz = FALSE /\ w = 0
  /\ va = 0 /\ out = <<>>
  /\ pc = "scan"
  /\ FormatInit

(* The arguments of the call: those of the directives that take one. *)
TakesArg(x) ==
  ~x.lit /\ x.ch \in Numeric \cup {Letter.b, Letter.c, Letter.s}

Args == {n \in DOMAIN pieces : TakesArg(pieces[n])}

Arg == pieces[CHOOSE n \in Args : Cardinality({m \in Args : m < n}) = va]

-----------------------------------------------------------------------------
(* The loop ends at a NUL. *)
End ==
  /\ pc = "scan" /\ fmt[p] = NUL
  /\ p' = p + 1 /\ pc' = "done"
  /\ UNCHANGED <<pieces, fmt, ch, lz, w, va, out, format_vars>>

Char ==
  /\ pc = "scan" /\ fmt[p] \notin {NUL, Percent}
  /\ out' = Append(out, fmt[p])
  /\ p' = p + 1
  /\ UNCHANGED <<pieces, fmt, ch, lz, w, va, pc, format_vars>>

(* A directive begins: a 0 directly behind the % asks for zero padding. *)
Directive ==
  /\ pc = "scan" /\ fmt[p] = Percent
  /\ lz' = (fmt[p + 1] = Zero)
  /\ w' = 0
  /\ p' = p + (IF lz' THEN 3 ELSE 2)
  /\ ch' = fmt[p' - 1]
  /\ pc' = IF ch' \in Decimal THEN "width" ELSE "convert"
  /\ UNCHANGED <<pieces, fmt, va, out, format_vars>>

(* a2i, a round of its loop. *)
Width ==
  /\ pc = "width"
  /\ IF IsDigit(ch)
     THEN w' = w * 10 + A2d(ch) /\ ch' = fmt[p] /\ p' = p + 1 /\ UNCHANGED pc
     ELSE pc' = "convert" /\ UNCHANGED <<w, ch, p>>
  /\ UNCHANGED <<pieces, fmt, lz, va, out, format_vars>>

(* u, d, x, X: the argument is converted ... *)
Number ==
  /\ pc = "convert" /\ ch \in Numeric
  /\ IF ch = Letter.d THEN I2aCall(Arg.val)
     ELSE Ui2aCall(Arg.val, IF ch = Letter.u THEN 10 ELSE 16, ch = Letter.X, <<>>)
  /\ va' = va + 1
  /\ pc' = "number"
  /\ UNCHANGED <<pieces, fmt, p, ch, lz, w, out>>

Converting == pc = "number" /\ (Grow \/ Digits) /\ UNCHANGED scan_vars

(* ... and put out. *)
PutNumber ==
  /\ pc = "number" /\ loop = "ready"
  /\ out' = out \o Putchw(w, lz, bf)
  /\ loop' = "none" /\ pc' = "scan"
  /\ UNCHANGED <<pieces, fmt, p, ch, lz, w, va, num, base, uc, d, bf>>

(* b and s are padded with blanks only, c is not padded. *)
PutText ==
  /\ pc = "convert" /\ ch \in {Letter.b, Letter.c, Letter.s}
  /\ out' = out \o (CASE ch = Letter.b -> Putchw(w, FALSE, Putbin(Arg.val))
                      [] ch = Letter.s -> Putchw(w, FALSE, Arg.str)
                      [] ch = Letter.c -> <<Arg.val>>)
  /\ va' = va + 1
  /\ pc' = "scan"
  /\ UNCHANGED <<pieces, fmt, p, ch, lz, w, format_vars>>

(* A faulty Other: a character that is no conversion is read again, as     *)
(* part of the text.                                                       *)
OtherReadAgain ==
  /\ pc = "convert" /\ ch \notin Numeric \cup {Letter.b, Letter.c, Letter.s}
  /\ out' = IF ch = Percent THEN Append(out, ch) ELSE out
  /\ p' = IF ch = Percent THEN p ELSE p - 1
  /\ pc' = "scan"
  /\ UNCHANGED <<pieces, fmt, ch, lz, w, va, format_vars>>

(* %%, and a character that is no conversion, which prints nothing.  A NUL *)
(* is one of these: the break ends the switch and not the loop.            *)
Other ==
  /\ pc = "convert" /\ ch \notin Numeric \cup {Letter.b, Letter.c, Letter.s}
  /\ out' = IF ch = Percent THEN Append(out, ch) ELSE out
  /\ pc' = "scan"
  /\ UNCHANGED <<pieces, fmt, p, ch, lz, w, va, format_vars>>

Next ==
  End \/ Char \/ Directive \/ Width \/ Number \/ Converting \/ PutNumber
    \/ PutText \/ Other

Spec == Init /\ [][Next]_vars

-----------------------------------------------------------------------------
(* Types of the variables. *)
TypeOK ==
  /\ pc \in {"scan", "width", "convert", "number", "done"}
  /\ p \in 1 .. Len(fmt) + 1 /\ ch \in {fmt[n] : n \in DOMAIN fmt} \cup {NUL}
  /\ lz \in BOOLEAN /\ w \in Nat
  /\ va \in 0 .. Cardinality(Args)
  /\ FormatTypeOK

(* The format ends within a directive. *)
Unfinished == pieces # <<>> /\ pieces[Len(pieces)].ch = NUL

(* Nothing outside is touched: the longest number and its NUL fit into bf; *)
(* the power of the base never wraps around, which would make it 0 (a      *)
(* division by 0) or too small; and the scan stops at the format's NUL --  *)
(* but a format that ends within a directive is read on behind it.         *)
StaysInBounds ==
  /\ Len(bf) + 1 <= BufSize
  /\ loop = "grow" => d # 0 /\ d <= num + 1
  /\ p - 1 <= Len(Format) + 1 \/ Unfinished

(* A number without leading zeros, by its places. *)
Numeral(v, b, upper) ==
  LET n == Min({k \in 1 .. BufSize : Pow(b, k) > v})
  IN  [i \in 1 .. n |-> Digit((v \div Pow(b, n - i)) % b, upper)]

(* The number that the first n characters of a width say. *)
Widths(x) ==
  LET value[n \in 0 .. Len(x.width)] ==
        IF n = 0 THEN 0 ELSE value[n - 1] * 10 + A2d(x.width[n])
  IN  value

(* A text at the right of a field. *)
Field(x, fill, text) ==
  LET m == Max({Widths(x)[Len(x.width)], Len(text)})
  IN  [i \in 1 .. m |-> IF i <= m - Len(text) THEN fill ELSE text[i - (m - Len(text))]]

(* What a piece is to print. *)
Meant(x) ==
  LET fill == IF x.zero THEN Zero ELSE Blank
  IN  IF x.lit THEN <<x.ch>>
      ELSE CASE x.ch = Percent -> <<x.ch>>
             [] x.ch = Letter.u -> Field(x, fill, Numeral(x.val, 10, FALSE))
             [] x.ch = Letter.x -> Field(x, fill, Numeral(x.val, 16, FALSE))
             [] x.ch = Letter.X -> Field(x, fill, Numeral(x.val, 16, TRUE))
             [] x.ch = Letter.d ->
                  Field(x, fill, IF x.val < 0 THEN <<Minus>> \o Numeral(- x.val, 10, FALSE)
                                              ELSE Numeral(x.val, 10, FALSE))
             [] x.ch = Letter.b ->
                  Field(x, Blank, IF x.val = 0 THEN <<Zero>>
                                  ELSE [i \in 1 .. Bits |->
                                          Zero + ((x.val \div Pow(2, Bits - i)) % 2)]
                                         \o BehindBuf)
             [] x.ch = Letter.s -> Field(x, Blank, x.str)
             [] x.ch = Letter.c -> <<x.val>>
             [] OTHER -> <<>>

(* What is printed is what the pieces mean, one after the other: every     *)
(* argument, also 0 and the smallest int, is printed in full, as wide as   *)
(* its field asks, and goes to its own directive.  Where the code is       *)
(* surprising, this is what it prints: zeros stand in front of a minus;    *)
(* the letter a counts as ten in a width; a %b of anything but 0 is        *)
(* followed by what stands behind buf, and a format that ends within a     *)
(* directive by what stands behind the format.                             *)
PrintsFormat ==
  pc = "done" =>
    out = Joined([n \in DOMAIN pieces |-> Meant(pieces[n])])
            \o (IF Unfinished THEN BehindFormat ELSE <<>>)
=============================================================================
