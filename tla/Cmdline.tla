------------------------------- MODULE Cmdline ------------------------------
(***************************************************************************)
(* parse_cmdline_int of arch/arm/atags/atags.c: the number behind a key on *)
(* the kernel's command line, one action per round of its loops.  Values   *)
(* are short enough for int32_t.                                           *)
(***************************************************************************)
EXTENDS Integers, Sequences, FiniteSetsExt

CONSTANT Ascii    \* Ascii[c]: the code of a character

ASSUME CmdlineAssumption ==
  /\ \A c \in DOMAIN Ascii : Ascii[c] \in Nat
  /\ "NUL" \notin DOMAIN Ascii   \* a NUL ends a line and is not on it

VARIABLES
  line, key,        \* the arguments: sequences of characters
  i, base, result,  \* locals; i counts from 0
  loop              \* the loop it is in; "none" when it is not running

parse_vars == <<line, key, i, base, result, loop>>

(* cmdline[n]: the line ends with a NUL. *)
CharAt(l, n) == IF n < Len(l) THEN l[n + 1] ELSE "NUL"

(* strncmp finds the key at cmdline + n. *)
Matches(l, k, n) == SubSeq(l, n + 1, n + Len(k)) = k

IsHex(l, n) == CharAt(l, n) = "0" /\ CharAt(l, n + 1) = "x"

(* What the code may find: behind the NUL there is padding, or the next    *)
(* tag, which may look like 0x.                                            *)
MayBeHex(l, n) == IF n <= Len(l) THEN {IsHex(l, n)} ELSE BOOLEAN

(* What a character counts, a digit or not. *)
Digit(c) == IF Ascii[c] <= 57 THEN Ascii[c] - 48 ELSE Ascii[c] - 97 + 10

ParseInit ==
  /\ line = <<>> /\ key = <<>>
  /\ i = 0 /\ base = 10 /\ result = 0
  /\ loop = "none"

(* parse_cmdline_int(l, k) is called. *)
ParseCall(l, k) ==
  /\ line' = l /\ key' = k
  /\ i' = 0 /\ base' = 10 /\ result' = 0
  /\ loop' = "search"

(* There is no room for the key from i on. *)
NoRoom == i + Len(key) > Len(line)

(* The line ends before the key could. *)
NotFound ==
  /\ loop = "search"
  /\ CharAt(line, i) = "NUL" \/ NoRoom
  /\ loop' = "none"
  /\ UNCHANGED <<line, key, i, base, result>>

(* A faulty SearchOn: it goes on behind where the key would end. *)
SearchOnBehind ==
  /\ loop = "search"
  /\ ~NoRoom /\ ~Matches(line, key, i)
  /\ i' = i + Len(key)
  /\ UNCHANGED <<line, key, base, result, loop>>

(* The key is not here. *)
SearchOn ==
  /\ loop = "search"
  /\ ~NoRoom /\ ~Matches(line, key, i)
  /\ i' = i + 1
  /\ UNCHANGED <<line, key, base, result, loop>>

(* The key, the character behind it and 0x are skipped. *)
Found ==
  /\ loop = "search"
  /\ ~NoRoom /\ Matches(line, key, i)
  /\ LET n == i + Len(key) + 1
     IN  \E hex \in MayBeHex(line, n) :
           IF hex THEN base' = 16 /\ i' = n + 2 ELSE base' = 10 /\ i' = n
  /\ loop' = "digits"
  /\ UNCHANGED <<line, key, result>>

(* A faulty AtEnd: one character too early. *)
AtEndEarly == i + Len(key) >= Len(line) \/ CharAt(line, i) \in {" ", "NUL"}

(* The value ends, or there is no room for the key any more. *)
AtEnd == NoRoom \/ CharAt(line, i) \in {" ", "NUL"}

ReadDigit ==
  /\ loop = "digits" /\ ~AtEnd
  /\ result' = result * base + Digit(CharAt(line, i))
  /\ i' = i + 1
  /\ UNCHANGED <<line, key, base, loop>>

ReadEnd ==
  /\ loop = "digits" /\ AtEnd
  /\ loop' = "none"
  /\ UNCHANGED <<line, key, i, base, result>>

Parse == NotFound \/ SearchOn \/ Found \/ ReadDigit \/ ReadEnd

-----------------------------------------------------------------------------
(* What the function computes, without its loops: the characters behind    *)
(* the first occurrence of the key up to a blank, the ones among the last  *)
(* key_len - 1 of the line left out, as a number.                          *)
Occurrences(l, k) == {n \in 0 .. Len(l) - Len(k) : Matches(l, k, n)}

Behind(l, k) == Min(Occurrences(l, k)) + Len(k) + 1

ValueStart(l, k) == Behind(l, k) + IF IsHex(l, Behind(l, k)) THEN 2 ELSE 0

Blanks(l, k) == {n \in ValueStart(l, k) .. Len(l) - 1 : CharAt(l, n) = " "}

Base(l, k) == IF IsHex(l, Behind(l, k)) THEN 16 ELSE 10

(* The number that the characters of the value before stop say. *)
Values(l, k) ==
  LET value[n \in 0 .. Len(l)] ==
        IF n <= ValueStart(l, k) THEN 0
        ELSE value[n - 1] * Base(l, k) + Digit(CharAt(l, n - 1))
  IN  value

Value(l, k, stop) == Values(l, k)[stop]

Expected(l, k) ==
  IF Occurrences(l, k) = {} THEN 0
  ELSE Value(l, k, Min(Blanks(l, k) \cup {Len(l) - Len(k) + 1}))

(* Types of the variables: the index never runs away from the line.  When  *)
(* the key ends the line it is one behind its NUL, and three when what     *)
(* stands there looks like 0x.                                             *)
ParseTypeOK ==
  /\ i \in 0 .. Len(line) + 3
  /\ base \in {10, 16}
  /\ result \in Int
  /\ loop \in {"none", "search", "digits"}
=============================================================================
