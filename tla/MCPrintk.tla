------------------------------ MODULE MCPrintk ------------------------------
(***************************************************************************)
(* The instance of Printk for TLC: every number of nine bits in a single   *)
(* directive; and all formats of up to three pieces out of a few.          *)
(***************************************************************************)
EXTENDS Printk

MCBehindBuf == <<107>>
MCBehindFormat == <<107, 107>>

Lit(c) == [lit |-> TRUE, zero |-> FALSE, width |-> <<>>, ch |-> c, val |-> 0, str |-> <<>>]

Dir(zero, width, c, val) ==
  [lit |-> FALSE, zero |-> zero, width |-> width, ch |-> c, val |-> val, str |-> <<104, 105>>]

AnyNumber ==
  {Dir(z, f, c, v) :
     z \in BOOLEAN, f \in {<<>>, <<49>>, <<51>>, <<53>>}, c \in Numeric \ {Letter.d}, v \in Unsigned}
    \cup {Dir(z, f, Letter.d, v) : z \in BOOLEAN, f \in {<<>>, <<49>>, <<51>>, <<53>>}, v \in Signed}
    \cup {Dir(z, f, Letter.b, v) : z \in BOOLEAN, f \in {<<>>, <<53>>}, v \in Unsigned}

FewPieces ==
  {Lit(104), Lit(Zero), Lit(97), Lit(Letter.d), Lit(Letter.X),
   Dir(FALSE, <<>>, Percent, 0), Dir(FALSE, <<>>, 107, 0), Dir(FALSE, <<>>, 97, 0),
   Dir(FALSE, <<>>, Letter.d, -1), Dir(TRUE, <<52>>, Letter.d, -3),
   Dir(FALSE, <<49, 48>>, Letter.s, 0), Dir(TRUE, <<51, 97>>, Letter.s, 0),
   Dir(FALSE, <<49>>, Letter.s, 0), Dir(FALSE, <<>>, Letter.c, 120),
   Dir(TRUE, <<48, 51>>, Letter.X, 171), Dir(FALSE, <<50, 65>>, Letter.x, 26)}

Endings == {Dir(z, f, NUL, 0) : z \in BOOLEAN, f \in {<<>>, <<53>>, <<53, 97>>}}

MCFormats ==
  {<<x>> : x \in AnyNumber}
    \cup {f \o e : f \in UNION {[1 .. n -> FewPieces] : n \in 0 .. 2},
                   e \in {<<>>} \cup {<<x>> : x \in FewPieces \cup Endings}}
=============================================================================
