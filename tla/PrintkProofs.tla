----------------------------- MODULE PrintkProofs ---------------------------
(***************************************************************************)
(* Proofs about Format and Printk, for every width of an unsigned int,     *)
(* every format and every argument.                                        *)
(***************************************************************************)
EXTENDS Printk, NatFacts, SequenceTheorems, FiniteSetTheorems

-----------------------------------------------------------------------------
(* Powers. *)

LEMMA PowFacts ==
  ASSUME NEW b \in Nat
  PROVE  /\ Pow(b, 0) = 1
         /\ \A n \in Nat : Pow(b, n) \in Nat
         /\ \A n \in Nat : Pow(b, n + 1) = b * Pow(b, n)
<1> DEFINE step == [x \in Nat \X Nat |-> b * x[1]]
<1>1. PICK f \in [Nat -> Nat] : Recurs(f, 1, step, Nat \ {0})
  <2>1. 1 \in Nat /\ step \in [Nat \X Nat -> Nat]
    OBVIOUS
  <2> HIDE DEF step
  <2> QED BY <2>1, RecursionOnNat
<1>2. f[0] = 1 /\ \A n \in Nat \ {0} : f[n] = b * f[n - 1]
  <2>1. \A n \in Nat \ {0} : f[n - 1] \in Nat
    OBVIOUS
  <2> QED BY <1>1, <2>1 DEF Recurs
<1>3. f = [n \in Nat |-> IF n = 0 THEN 1 ELSE b * f[n - 1]]
  BY <1>2
<1>4. Powers(b) = CHOOSE g : g = [n \in Nat |-> IF n = 0 THEN 1 ELSE b * g[n - 1]]
  BY DEF Powers
<1>5. Powers(b) = [n \in Nat |-> IF n = 0 THEN 1 ELSE b * Powers(b)[n - 1]]
  BY <1>3, <1>4
<1>6. Pow(b, 0) = 1 /\ \A n \in Nat : Pow(b, n + 1) = b * Pow(b, n)
  <2>1. \A n \in Nat : n + 1 \in Nat /\ n + 1 # 0 /\ (n + 1) - 1 = n
    OBVIOUS
  <2> QED BY <1>5, <2>1 DEF Pow
<1> DEFINE T == {n \in Nat : Pow(b, n) \in Nat}
<1>7. 0 \in T /\ \A n \in Nat : n \in T => n + 1 \in T
  BY <1>6
<1>8. \A n \in Nat : n \in T
  <2> HIDE DEF T
  <2> QED BY <1>7, Induction
<1> QED BY <1>6, <1>8

LEMMA PowPositive ==
  ASSUME NEW b \in Nat \ {0}
  PROVE  \A n \in Nat : Pow(b, n) \in Nat \ {0}
<1> DEFINE T == {n \in Nat : Pow(b, n) \in Nat \ {0}}
<1>1. 0 \in T
  BY PowFacts
<1>2. ASSUME NEW n \in Nat, n \in T
      PROVE  n + 1 \in T
  <2>1. \A v \in Nat \ {0} : b * v \in Nat \ {0}
    OBVIOUS
  <2> QED BY <1>2, <2>1, PowFacts
<1>3. \A n \in Nat : n \in T
  <2> HIDE DEF T
  <2> QED BY <1>1, <1>2, Induction
<1> QED BY <1>3

LEMMA PowMonotone ==
  ASSUME NEW b \in Nat \ {0}, NEW m \in Nat, NEW n \in Nat, m <= n
  PROVE  Pow(b, m) <= Pow(b, n)
<1> DEFINE T == {k \in Nat : Pow(b, m) <= Pow(b, m + k)}
<1>1. 0 \in T
  BY PowFacts
<1>2. ASSUME NEW k \in Nat, k \in T
      PROVE  k + 1 \in T
  <2>1. \A v \in Nat : v <= b * v /\ b * v \in Nat
    OBVIOUS
  <2>2. m + (k + 1) = (m + k) + 1 /\ m + k \in Nat
    OBVIOUS
  <2>3. Pow(b, (m + k) + 1) = b * Pow(b, m + k) /\ Pow(b, m) \in Nat /\ Pow(b, m + k) \in Nat
    BY <2>2, PowFacts
  <2>4. Pow(b, m + k) <= Pow(b, m + (k + 1)) /\ Pow(b, m + (k + 1)) \in Nat
    BY <2>1, <2>2, <2>3
  <2> QED BY <1>2, <2>3, <2>4
<1>3. \A k \in Nat : k \in T
  <2> HIDE DEF T
  <2> QED BY <1>1, <1>2, Induction
<1>4. n - m \in T /\ m + (n - m) = n
  BY <1>3
<1> QED BY <1>4

LEMMA PowOfLargerBase == \A n \in Nat : Pow(10, n) <= Pow(16, n)
<1> DEFINE T == {n \in Nat : Pow(10, n) <= Pow(16, n)}
<1>1. 0 \in T
  BY PowFacts
<1>2. ASSUME NEW n \in Nat, n \in T
      PROVE  n + 1 \in T
  <2>1. Pow(10, n + 1) = 10 * Pow(10, n) /\ Pow(16, n + 1) = 16 * Pow(16, n)
    BY PowFacts
  <2>2. Pow(10, n) \in Nat /\ Pow(16, n) \in Nat
    BY PowFacts
  <2> QED BY <1>2, <2>1, <2>2
<1>3. \A n \in Nat : n \in T
  <2> HIDE DEF T
  <2> QED BY <1>1, <1>2, Induction
<1> QED BY <1>3

-----------------------------------------------------------------------------
(* Texts in a row. *)

LEMMA ConcatFacts ==
  ASSUME NEW S, NEW a \in Seq(S), NEW b \in Seq(S)
  PROVE  /\ a \o b \in Seq(S) /\ Len(a) \in Nat /\ Len(b) \in Nat
         /\ Len(a \o b) = Len(a) + Len(b)
         /\ \A i \in 1 .. Len(a) : (a \o b)[i] = a[i]
         /\ \A i \in 1 .. Len(b) : (a \o b)[Len(a) + i] = b[i]
OBVIOUS

LEMMA JoinsFacts ==
  ASSUME NEW S, NEW texts \in Seq(Seq(S))
  PROVE  /\ Joins(texts) \in [0 .. Len(texts) -> Seq(S)]
         /\ \A n \in 0 .. Len(texts) : Joins(texts)[n] \in Seq(S) /\ Len(Joins(texts)[n]) \in Nat
         /\ Joins(texts)[0] = <<>>
         /\ \A n \in 1 .. Len(texts) : Joins(texts)[n] = Joins(texts)[n - 1] \o texts[n]
<1> DEFINE N == Len(texts)
           step == [x \in Seq(S) \X Nat |-> IF x[2] \in 1 .. N THEN x[1] \o texts[x[2]] ELSE <<>>]
<1>1. N \in Nat /\ \A n \in 1 .. N : texts[n] \in Seq(S)
  OBVIOUS
<1>2. step \in [Seq(S) \X Nat -> Seq(S)]
  <2>1. ASSUME NEW x \in Seq(S) \X Nat
        PROVE  (IF x[2] \in 1 .. N THEN x[1] \o texts[x[2]] ELSE <<>>) \in Seq(S)
    <3>1. x[1] \in Seq(S) /\ <<>> \in Seq(S)
      OBVIOUS
    <3>2. x[2] \in 1 .. N => texts[x[2]] \in Seq(S)
      BY <1>1
    <3> HIDE DEF N
    <3> QED BY <3>1, <3>2
  <2> QED BY <2>1
<1>3. PICK f \in [0 .. N -> Seq(S)] : Recurs(f, <<>>, step, 1 .. N)
  <2>1. <<>> \in Seq(S)
    OBVIOUS
  <2> HIDE DEF step, N
  <2> QED BY <1>1, <1>2, <2>1, RecursionUpTo
<1>4. f[0] = <<>> /\ \A n \in 1 .. N : f[n] = f[n - 1] \o texts[n]
  <2>1. ASSUME NEW n \in 1 .. N
        PROVE  f[n] = f[n - 1] \o texts[n]
    <3>1. n - 1 \in 0 .. N /\ n \in Nat
      BY <1>1
    <3>2. f[n] = step[<<f[n - 1], n>>] /\ f[n - 1] \in Seq(S)
      <4> HIDE DEF step
      <4> QED BY <3>1, <1>3 DEF Recurs
    <3>3. step[<<f[n - 1], n>>] = f[n - 1] \o texts[n]
      BY <3>1, <3>2
    <3> QED BY <3>2, <3>3
  <2> QED BY <2>1, <1>3 DEF Recurs
<1>5. f = [n \in 0 .. N |-> IF n = 0 THEN <<>> ELSE f[n - 1] \o texts[n]]
  <2>1. \A n \in 0 .. N : n = 0 \/ n \in 1 .. N
    BY <1>1
  <2>2. \A n \in 0 .. N : f[n] = IF n = 0 THEN <<>> ELSE f[n - 1] \o texts[n]
    BY <2>1, <1>4, Zenon
  <2> HIDE DEF N
  <2> QED BY <2>2, Zenon
<1>6. Joins(texts) =
        CHOOSE g : g = [n \in 0 .. N |-> IF n = 0 THEN <<>> ELSE g[n - 1] \o texts[n]]
  BY DEF Joins
<1>7. Joins(texts) = f
  <2>1. ASSUME NEW g, g = [n \in 0 .. N |-> IF n = 0 THEN <<>> ELSE g[n - 1] \o texts[n]]
        PROVE  g = f
    <3> DEFINE T == {n \in 0 .. N : g[n] = f[n]}
    <3>1. 0 \in T
      BY <2>1, <1>1, <1>4
    <3>2. ASSUME NEW n \in 0 .. N - 1, n \in T
          PROVE  n + 1 \in T
      <4>1. n + 1 \in 0 .. N /\ n + 1 # 0 /\ (n + 1) - 1 = n /\ n + 1 \in 1 .. N
        BY <1>1
      <4>2. g[n + 1] = g[n] \o texts[n + 1] /\ f[n + 1] = f[n] \o texts[n + 1]
        BY <4>1, <2>1, <1>4
      <4> QED BY <4>1, <4>2, <3>2
    <3>3. \A n \in 0 .. N : n \in T
      <4> HIDE DEF T, N
      <4> QED BY <1>1, <3>1, <3>2, InductionUpTo
    <3> QED BY <2>1, <3>3
  <2> HIDE DEF N
  <2> QED BY <2>1, <1>5, <1>6
<1>8. \A n \in 0 .. N : f[n] \in Seq(S)
  OBVIOUS
<1>9. \A n \in 0 .. N : Len(f[n]) \in Nat
  BY <1>8, LenProperties
<1> QED BY <1>4, <1>7, <1>8, <1>9

LEMMA TextConcat ==
  ASSUME NEW a \in Seq(Nat), NEW b \in Seq(Nat)
  PROVE  /\ a \o b \in Seq(Nat) /\ Len(a) \in Nat /\ Len(b) \in Nat
         /\ Len(a \o b) = Len(a) + Len(b)
         /\ \A i \in 1 .. Len(a) : (a \o b)[i] = a[i]
         /\ \A i \in 1 .. Len(b) : (a \o b)[Len(a) + i] = b[i]
OBVIOUS

(* What is joined first stands in front. *)
LEMMA JoinsPrefix ==
  ASSUME NEW S, NEW texts \in Seq(Seq(S)), NEW k \in 0 .. Len(texts), NEW m \in k .. Len(texts)
  PROVE  /\ Len(Joins(texts)[k]) <= Len(Joins(texts)[m])
         /\ \A i \in 1 .. Len(Joins(texts)[k]) : Joins(texts)[m][i] = Joins(texts)[k][i]
<1> DEFINE N == Len(texts)
           J == Joins(texts)
           T == {n \in Nat : k + n <= N =>
                   /\ Len(J[k]) <= Len(J[k + n])
                   /\ \A i \in 1 .. Len(J[k]) : J[k + n][i] = J[k][i]}
<1>1. N \in Nat /\ k \in Nat /\ m \in k .. N /\ \A n \in 1 .. N : texts[n] \in Seq(S)
  OBVIOUS
<1>2. /\ \A n \in 0 .. N : J[n] \in Seq(S) /\ Len(J[n]) \in Nat
      /\ \A n \in 1 .. N : J[n] = J[n - 1] \o texts[n]
  BY JoinsFacts, Zenon
<1> HIDE DEF J, N
<1>3. 0 \in T
  BY <1>1, <1>2
<1>4. ASSUME NEW n \in Nat, n \in T
      PROVE  n + 1 \in T
  <2> SUFFICES ASSUME k + (n + 1) <= N
               PROVE  /\ Len(J[k]) <= Len(J[k + (n + 1)])
                      /\ \A i \in 1 .. Len(J[k]) : J[k + (n + 1)][i] = J[k][i]
    BY <1>1
  <2>1. k + n \in 0 .. N /\ k + n + 1 \in 1 .. N /\ k + (n + 1) = k + n + 1 /\ (k + n + 1) - 1 = k + n
    BY <1>1
  <2>2. J[k + n + 1] = J[k + n] \o texts[k + n + 1]
    BY <2>1, <1>2
  <2>3. texts[k + n + 1] \in Seq(S) /\ J[k + n] \in Seq(S) /\ J[k] \in Seq(S)
    BY <2>1, <1>1, <1>2
  <2>4. /\ Len(J[k + n + 1]) >= Len(J[k + n])
        /\ \A i \in 1 .. Len(J[k + n]) : J[k + n + 1][i] = J[k + n][i]
    <3> DEFINE a == J[k + n]
               b == texts[k + n + 1]
    <3>1. a \in Seq(S) /\ b \in Seq(S) /\ J[k + n + 1] = a \o b
      BY <2>2, <2>3
    <3> HIDE DEF a, b
    <3>2. /\ Len(a \o b) = Len(a) + Len(b) /\ Len(a) \in Nat /\ Len(b) \in Nat
          /\ \A i \in 1 .. Len(a) : (a \o b)[i] = a[i]
      BY <3>1, ConcatFacts, ZenonT(30)
    <3>3. /\ Len(J[k + n + 1]) >= Len(a)
          /\ \A i \in 1 .. Len(a) : J[k + n + 1][i] = a[i]
      BY <3>1, <3>2
    <3> QED BY <3>3 DEF a
  <2>5. /\ Len(J[k]) <= Len(J[k + n])
        /\ \A i \in 1 .. Len(J[k]) : J[k + n][i] = J[k][i]
    BY <1>4, <2>1
  <2>6. /\ Len(J[k]) \in Nat /\ Len(J[k + n]) \in Nat /\ Len(J[k + n + 1]) \in Nat
        /\ \A i \in 1 .. Len(J[k]) : i \in 1 .. Len(J[k + n])
    BY <2>1, <2>5, <1>1, <1>2
  <2> QED BY <2>1, <2>4, <2>5, <2>6
<1>5. \A n \in Nat : n \in T
  <2> HIDE DEF T
  <2> QED BY <1>3, <1>4, Induction
<1>6. m - k \in Nat /\ k + (m - k) = m /\ m <= N
  BY <1>1
<1>7. J[k + (m - k)] = J[m] /\ m - k \in T
  BY <1>5, <1>6
<1>8. /\ Len(J[k]) <= Len(J[m])
      /\ \A i \in 1 .. Len(J[k]) : J[m][i] = J[k][i]
  BY <1>6, <1>7
<1> QED BY <1>8 DEF J

(* The characters of the n-th text. *)
LEMMA JoinsElement ==
  ASSUME NEW S, NEW texts \in Seq(Seq(S)), NEW n \in 1 .. Len(texts), NEW i \in 1 .. Len(texts[n])
  PROVE  /\ Len(Joins(texts)[n - 1]) + i \in 1 .. Len(Joins(texts)[n])
         /\ Len(Joins(texts)[n]) = Len(Joins(texts)[n - 1]) + Len(texts[n])
         /\ Len(Joins(texts)[n]) <= Len(Joined(texts))
         /\ Joined(texts)[Len(Joins(texts)[n - 1]) + i] = texts[n][i]
<1> DEFINE J == Joins(texts)
           N == Len(texts)
<1>1. N \in Nat /\ n - 1 \in 0 .. N /\ n \in 0 .. N /\ N \in n .. N /\ texts[n] \in Seq(S)
  OBVIOUS
<1>2. J[n] = J[n - 1] \o texts[n] /\ J[n - 1] \in Seq(S) /\ J[n] \in Seq(S)
  BY <1>1, JoinsFacts, Zenon
<1>3. /\ Len(J[n]) <= Len(J[N])
      /\ \A k \in 1 .. Len(J[n]) : J[N][k] = J[n][k]
  BY <1>1, JoinsPrefix, Zenon
<1>4. i \in 1 .. Len(texts[n])
  OBVIOUS
<1> HIDE DEF J, N
<1>5. /\ Len(J[n - 1]) \in Nat /\ Len(J[n]) = Len(J[n - 1]) + Len(texts[n])
      /\ Len(J[n - 1]) + i \in 1 .. Len(J[n])
      /\ J[n][Len(J[n - 1]) + i] = texts[n][i]
  <2> DEFINE a == J[n - 1]
             b == texts[n]
  <2>1. a \in Seq(S) /\ b \in Seq(S) /\ J[n] = a \o b /\ i \in 1 .. Len(b)
    BY <1>1, <1>2, <1>4
  <2> HIDE DEF a, b
  <2>2. /\ Len(a \o b) = Len(a) + Len(b) /\ Len(a) \in Nat /\ Len(b) \in Nat
        /\ \A k \in 1 .. Len(b) : (a \o b)[Len(a) + k] = b[k]
    BY <2>1
  <2>3. Len(a) + i \in 1 .. Len(a \o b) /\ (a \o b)[Len(a) + i] = b[i]
    BY <2>1, <2>2
  <2> QED BY <2>1, <2>2, <2>3 DEF a, b
<1>6. J[N][Len(J[n - 1]) + i] = texts[n][i]
  BY <1>3, <1>5
<1> QED BY <1>3, <1>5, <1>6 DEF J, N, Joined

LEMMA JoinsLength ==
  ASSUME NEW texts \in Seq(Seq(Nat)), NEW n \in 1 .. Len(texts)
  PROVE  /\ Len(Joins(texts)[n]) = Len(Joins(texts)[n - 1]) + Len(texts[n])
         /\ Len(Joins(texts)[n]) <= Len(Joined(texts))
<1> DEFINE J == Joins(texts)
           N == Len(texts)
<1>1. N \in Nat /\ n - 1 \in 0 .. N /\ n \in 0 .. N /\ N \in n .. N /\ texts[n] \in Seq(Nat)
  OBVIOUS
<1>2. J[n] = J[n - 1] \o texts[n] /\ J[n - 1] \in Seq(Nat)
  BY <1>1, JoinsFacts
<1>3. Len(J[n]) <= Len(J[N])
  BY <1>1, JoinsPrefix
<1> HIDE DEF J
<1>4. Len(J[n]) = Len(J[n - 1]) + Len(texts[n])
  BY <1>1, <1>2
<1> QED BY <1>3, <1>4 DEF J, Joined

-----------------------------------------------------------------------------
(* Characters that count. *)

LEMMA A2dFacts ==
  /\ \A c \in Decimal \cup {65, 97} : A2d(c) \in 0 .. 10
  /\ \A c \in Nat : IsDigit(c) <=> c \in Decimal \cup {65, 97}
<1>1. Decimal = 48 .. 57 /\ Zero = 48
  BY DEF Decimal, Zero
<1>2. ASSUME NEW c \in Nat
      PROVE  A2d(c) \in 0 .. 10 <=> c \in Decimal \cup {65, 97}
  <2>1. CASE c \in 48 .. 57
    BY <1>1, <2>1 DEF A2d
  <2>2. CASE c \in 97 .. 102
    BY <1>1, <2>2 DEF A2d
  <2>3. CASE c \in 65 .. 70
    BY <1>1, <2>3 DEF A2d
  <2>4. CASE c \notin 48 .. 57 /\ c \notin 97 .. 102 /\ c \notin 65 .. 70
    BY <1>1, <2>4 DEF A2d
  <2> QED BY <2>1, <2>2, <2>3, <2>4
<1>3. \A c \in Decimal \cup {65, 97} : c \in Nat
  BY <1>1
<1> QED BY <1>2, <1>3 DEF IsDigit

LEMMA WidthsFacts ==
  ASSUME NEW x, x.width \in Seq(Decimal \cup {65, 97})
  PROVE  /\ Widths(x)[0] = 0
         /\ \A n \in 0 .. Len(x.width) : Widths(x)[n] \in Nat
         /\ \A n \in 1 .. Len(x.width) :
              Widths(x)[n] = Widths(x)[n - 1] * 10 + A2d(x.width[n])
<1> DEFINE N == Len(x.width)
           dgt(n) == A2d(x.width[n])
           step == [y \in Nat \X Nat |-> IF y[2] \in 1 .. N THEN y[1] * 10 + dgt(y[2]) ELSE 0]
<1>1. N \in Nat /\ \A n \in 1 .. N : dgt(n) \in Nat
  BY A2dFacts, SMTT(30)
<1>2. Widths(x) = CHOOSE g : g = [n \in 0 .. N |-> IF n = 0 THEN 0 ELSE g[n - 1] * 10 + dgt(n)]
  BY DEF Widths
<1> HIDE DEF dgt, N
<1>3. step \in [Nat \X Nat -> Nat]
  <2>1. ASSUME NEW y \in Nat \X Nat
        PROVE  (IF y[2] \in 1 .. N THEN y[1] * 10 + dgt(y[2]) ELSE 0) \in Nat
    <3>1. y[1] \in Nat
      OBVIOUS
    <3> QED BY <3>1, <1>1
  <2> QED BY <2>1
<1>4. PICK f \in [0 .. N -> Nat] : Recurs(f, 0, step, 1 .. N)
  <2> HIDE DEF step
  <2>1. 0 \in Nat
    OBVIOUS
  <2> QED BY <2>1, <1>1, <1>3, RecursionUpTo
<1>5. ASSUME NEW n \in 0 .. N
      PROVE  f[n] = IF n = 0 THEN 0 ELSE f[n - 1] * 10 + dgt(n)
  <2>1. CASE n = 0
    BY <2>1, <1>4 DEF Recurs
  <2>2. CASE n \in 1 .. N
    <3>1. n - 1 \in 0 .. N /\ n \in Nat
      BY <2>2, <1>1
    <3>2. f[n] = step[<<f[n - 1], n>>] /\ f[n - 1] \in Nat
      <4> HIDE DEF step
      <4> QED BY <2>2, <3>1, <1>4 DEF Recurs
    <3>3. step[<<f[n - 1], n>>] = f[n - 1] * 10 + dgt(n)
      BY <3>1, <3>2, <2>2
    <3> QED BY <2>2, <3>2, <3>3
  <2> QED BY <2>1, <2>2, <1>1
<1>6. f = [n \in 0 .. N |-> IF n = 0 THEN 0 ELSE f[n - 1] * 10 + dgt(n)]
  BY <1>5
<1>7. Widths(x) = [n \in 0 .. N |-> IF n = 0 THEN 0 ELSE Widths(x)[n - 1] * 10 + dgt(n)]
  BY <1>2, <1>6
<1> DEFINE T == {n \in 0 .. N : Widths(x)[n] \in Nat}
<1>8. 0 \in T
  BY <1>7, <1>1
<1>9. ASSUME NEW n \in 0 .. N - 1, n \in T
      PROVE  n + 1 \in T
  <2>1. n + 1 \in 0 .. N /\ n + 1 # 0 /\ (n + 1) - 1 = n /\ n + 1 \in 1 .. N
    BY <1>1
  <2>2. Widths(x)[n + 1] = Widths(x)[n] * 10 + dgt(n + 1)
    BY <1>7, <2>1
  <2> QED BY <2>1, <2>2, <1>1, <1>9, SMTT(30)
<1>10. \A n \in 0 .. N : n \in T
  <2> HIDE DEF T
  <2> QED BY <1>1, <1>8, <1>9, InductionUpTo
<1>11. \A n \in 1 .. N : n \in 0 .. N /\ n # 0
  BY <1>1
<1>12. \A n \in 1 .. N : Widths(x)[n] = Widths(x)[n - 1] * 10 + dgt(n)
  BY <1>7, <1>11
<1>13. Widths(x)[0] = 0
  BY <1>7, <1>1
<1> QED BY <1>10, <1>12, <1>13 DEF N, dgt

-----------------------------------------------------------------------------
(* Numbers. *)

LEMMA WordFacts ==
  /\ Word \in Nat /\ Word >= 2
  /\ BufSize - 2 \in Nat \ {0} /\ Word <= Pow(10, BufSize - 2)
  /\ Unsigned = 0 .. Word - 1
  /\ \A v \in Signed : v < 0 => - v \in Unsigned /\ (- v) % Word = - v
  /\ \A v \in Signed : v >= 0 => v \in Unsigned
<1>1. Bits \in Nat \ {0} /\ BufSize \in Nat /\ BufSize >= 2 /\ Pow(2, Bits) <= Pow(10, BufSize - 2)
  BY FormatAssumption
<1>2. Word = 2 * Pow(2, Bits - 1) /\ Pow(2, Bits - 1) \in Nat \ {0}
  <2>1. Bits - 1 \in Nat /\ (Bits - 1) + 1 = Bits
    BY <1>1
  <2>2. Pow(2, (Bits - 1) + 1) = 2 * Pow(2, Bits - 1)
    BY <2>1, PowFacts
  <2>3. Pow(2, Bits - 1) \in Nat \ {0}
    BY <2>1, PowPositive
  <2> QED BY <2>1, <2>2, <2>3 DEF Word
<1>3. Word \in Nat /\ Word >= 2
  BY <1>2
<1>4. BufSize # 2
  <2> SUFFICES ASSUME BufSize = 2 PROVE FALSE
    OBVIOUS
  <2>1. BufSize - 2 = 0
    OBVIOUS
  <2>2. Pow(10, BufSize - 2) = 1
    BY <2>1, PowFacts
  <2> QED BY <2>2, <1>1, <1>3 DEF Word
<1>5. ASSUME NEW v \in Signed, v < 0
      PROVE  - v \in 0 .. Word - 1 /\ (- v) % Word = - v
  BY <1>3, <1>5 DEF Signed
<1>6. ASSUME NEW v \in Signed, v >= 0
      PROVE  v \in 0 .. Word - 1
  BY <1>3, <1>6 DEF Signed
<1> QED BY <1>1, <1>3, <1>4, <1>5, <1>6 DEF Word, Unsigned

(* The places of a number. *)
Places(v, b) == Min({k \in 1 .. BufSize : Pow(b, k) > v})

LEMMA PlacesFacts ==
  ASSUME NEW v \in Unsigned, NEW b \in {10, 16}
  PROVE  /\ Places(v, b) \in 1 .. BufSize - 2
         /\ v < Pow(b, Places(v, b))
         /\ Places(v, b) = 1 \/ Pow(b, Places(v, b) - 1) <= v
<1> DEFINE S == {k \in 1 .. BufSize : Pow(b, k) > v}
<1>1. v \in Nat /\ v < Word /\ BufSize - 2 \in Nat \ {0} /\ BufSize \in Nat
  BY WordFacts, FormatAssumption
<1>2. \A k \in Nat : Pow(b, k) \in Nat
  BY PowFacts
<1>3. BufSize - 2 \in S
  <2>1. Pow(10, BufSize - 2) <= Pow(b, BufSize - 2)
    BY <1>1, <1>2, PowOfLargerBase
  <2>2. Pow(10, BufSize - 2) \in Nat /\ Pow(b, BufSize - 2) \in Nat /\ Word \in Nat
    BY <1>1, <1>2, PowFacts, WordFacts
  <2>3. v < Pow(b, BufSize - 2)
    BY <1>1, <2>1, <2>2, WordFacts
  <2> QED BY <1>1, <2>3
<1>4. S \subseteq Nat /\ S # {}
  BY <1>3
<1> DEFINE n == Places(v, b)
<1>5. n \in S /\ \A k \in S : n <= k
  <2>1. n = Min(S)
    BY DEF Places
  <2> HIDE DEF S, n
  <2> QED BY <1>4, <2>1, MinOfNats
<1> HIDE DEF n
<1>6. n \in 1 .. BufSize - 2 /\ v < Pow(b, n)
  BY <1>1, <1>3, <1>5
<1>7. ASSUME n # 1
      PROVE  Pow(b, n - 1) <= v
  <2>1. n - 1 \in 1 .. BufSize /\ ~(n <= n - 1)
    BY <1>1, <1>6, <1>7
  <2>2. n - 1 \notin S
    BY <1>5, <2>1
  <2>3. Pow(b, n - 1) \in Nat
    BY <2>1, <1>2
  <2> QED BY <1>1, <2>1, <2>2, <2>3
<1> QED BY <1>6, <1>7 DEF n

LEMMA PlacesIs ==
  ASSUME NEW v \in Unsigned, NEW b \in {10, 16}, NEW k \in Nat,
         k = 0 \/ Pow(b, k) <= v, v < Pow(b, k + 1)
  PROVE  Places(v, b) = k + 1
<1> DEFINE n == Places(v, b)
<1>1. n \in Nat \ {0} /\ v < Pow(b, n) /\ (n = 1 \/ Pow(b, n - 1) <= v)
  BY PlacesFacts
<1>2. v \in Nat /\ b \in Nat \ {0} /\ \A i \in Nat : Pow(b, i) \in Nat
  <2>1. v \in Nat /\ b \in Nat \ {0}
    BY WordFacts
  <2> QED BY <2>1, PowFacts
<1> HIDE DEF n
<1>3. ~(n < k + 1)
  <2> SUFFICES ASSUME n < k + 1 PROVE FALSE
    OBVIOUS
  <2>1. n <= k /\ k # 0
    BY <1>1
  <2>2. Pow(b, n) <= Pow(b, k)
    BY <1>1, <1>2, <2>1, PowMonotone
  <2> QED BY <1>1, <1>2, <2>1, <2>2
<1>4. ~(k + 1 < n)
  <2> SUFFICES ASSUME k + 1 < n PROVE FALSE
    OBVIOUS
  <2>1. n # 1 /\ n - 1 \in Nat /\ k + 1 <= n - 1
    BY <1>1
  <2>2. Pow(b, k + 1) <= Pow(b, n - 1)
    BY <1>2, <2>1, PowMonotone
  <2> QED BY <1>1, <1>2, <2>1, <2>2
<1> QED BY <1>1, <1>3, <1>4 DEF n

(* The conversion of v into base, with sign in front: d is a power of the  *)
(* base that does not exceed v, then the one of the next digit, and num is *)
(* what the digits in bf leave of v.                                       *)
Converts(v, sign) ==
  /\ loop \in {"grow", "digits", "ready"}
  /\ loop = "grow" =>
       /\ num = v /\ bf = sign
       /\ \E k \in Nat : d = Pow(base, k) /\ (k = 0 \/ Pow(base, k) <= v)
  /\ loop = "digits" =>
       \E j \in 0 .. Places(v, base) :
         /\ num = v % Pow(base, Places(v, base) - j)
         /\ d = IF j = Places(v, base) THEN 0 ELSE Pow(base, Places(v, base) - j - 1)
         /\ bf = sign \o [i \in 1 .. j |-> Numeral(v, base, uc)[i]]
  /\ loop = "ready" => bf = sign \o Numeral(v, base, uc)

LEMMA NumeralFacts ==
  ASSUME NEW v \in Unsigned, NEW b \in {10, 16}, NEW u \in BOOLEAN
  PROVE  /\ Numeral(v, b, u) \in Seq(Nat)
         /\ Len(Numeral(v, b, u)) = Places(v, b)
         /\ \A i \in 1 .. Places(v, b) :
              /\ Numeral(v, b, u)[i] = Digit((v \div Pow(b, Places(v, b) - i)) % b, u)
              /\ (v \div Pow(b, Places(v, b) - i)) % b \in 0 .. b - 1
<1> DEFINE n == Places(v, b)
           dgt(i) == (v \div Pow(b, n - i)) % b
<1>1. n \in Nat /\ v \in Nat /\ b \in Nat \ {0}
  <2>1. v \in Nat /\ b \in Nat \ {0}
    BY WordFacts
  <2>2. n \in 1 .. BufSize - 2 /\ BufSize \in Nat
    BY PlacesFacts, FormatAssumption
  <2> QED BY <2>1, <2>2
<1>2. Numeral(v, b, u) = [i \in 1 .. n |-> Digit(dgt(i), u)]
  BY DEF Numeral, Places
<1> HIDE DEF n
<1>3. ASSUME NEW i \in 1 .. n
      PROVE  dgt(i) \in 0 .. b - 1
  <2>1. n - i \in Nat
    BY <1>1
  <2>2. Pow(b, n - i) \in Nat \ {0}
    BY <1>1, <2>1, PowPositive
  <2>3. v \div Pow(b, n - i) \in Nat
    BY <1>1, <2>2, QuotientAndRest
  <2> QED BY <1>1, <2>3, QuotientAndRest
<1>4. \A k \in 0 .. b - 1 : Digit(k, u) \in Nat
  BY DEF Digit, Zero
<1> HIDE DEF dgt
<1>5. \A i \in 1 .. n : Digit(dgt(i), u) \in Nat
  BY <1>3, <1>4
<1>6. /\ [i \in 1 .. n |-> Digit(dgt(i), u)] \in Seq(Nat)
      /\ Len([i \in 1 .. n |-> Digit(dgt(i), u)]) = n
  BY <1>1, <1>5
<1> QED BY <1>2, <1>3, <1>6 DEF n, dgt

LEMMA SignIsText == \A sign \in {<<>>, <<Minus>>} : sign \in Seq(Nat)
<1>1. Minus \in Nat
  BY DEF Minus
<1>2. <<>> \in Seq(Nat) /\ <<Minus>> \in Seq(Nat)
  BY <1>1
<1> QED BY <1>2, Zenon

LEMMA AppendToBoth ==
  ASSUME NEW a \in Seq(Nat), NEW b \in Seq(Nat), NEW e \in Nat
  PROVE  Append(a \o b, e) = a \o Append(b, e)
<1>1. a \o b \in Seq(Nat) /\ Append(b, e) = b \o <<e>> /\ <<e>> \in Seq(Nat)
  BY AppendIsConcat
<1>2. Append(a \o b, e) = (a \o b) \o <<e>>
  BY <1>1, AppendIsConcat
<1>3. (a \o b) \o <<e>> = a \o (b \o <<e>>)
  <2> DEFINE u == <<e>>
  <2>1. u \in Seq(Nat)
    OBVIOUS
  <2> HIDE DEF u
  <2>2. (a \o b) \o u = a \o (b \o u)
    BY <2>1, ConcatAssociative, SMTT(30)
  <2> QED BY <2>2 DEF u
<1> QED BY <1>1, <1>2, <1>3

LEMMA RestOfLess ==
  ASSUME NEW v \in Nat, NEW m \in Nat, v < m
  PROVE  v % m = v
OBVIOUS

LEMMA GrowStep ==
  ASSUME NEW v \in Unsigned, NEW sign \in Seq(Nat), base \in {10, 16}, uc \in BOOLEAN,
         Converts(v, sign), Grow
  PROVE  /\ Converts(v, sign)'
         /\ d' \in Unsigned
         /\ IF loop' = "grow" THEN d < d' ELSE loop' = "digits" /\ d' = d
<1>1. PICK k \in Nat : /\ d = Pow(base, k) /\ (k = 0 \/ Pow(base, k) <= v)
                       /\ loop = "grow" /\ num = v /\ bf = sign
  BY DEF Converts, Grow
<1>2. v \in Nat /\ v < Word /\ Word \in Nat /\ Word >= 2 /\ Unsigned = 0 .. Word - 1
      /\ base \in Nat \ {0}
  BY WordFacts
<1>3. Pow(base, k) \in Nat \ {0} /\ Pow(base, k + 1) \in Nat \ {0}
      /\ Pow(base, k + 1) = base * Pow(base, k)
  <2>1. k + 1 \in Nat
    OBVIOUS
  <2>2. \A i \in Nat : Pow(base, i) \in Nat \ {0}
    BY <1>2, PowPositive
  <2>3. Pow(base, k + 1) = base * Pow(base, k)
    BY <1>2, PowFacts
  <2> QED BY <2>1, <2>2, <2>3
<1>4. UNCHANGED <<num, base, uc, bf>>
  BY DEF Grow
<1>5. v \div d \in Nat /\ (v \div d) * d <= v /\ v < (v \div d + 1) * d
  BY <1>1, <1>2, <1>3, Quotient
<1>6. CASE v \div d >= base
  <2>1. d' = (d * base) % Word /\ loop' = "grow"
    BY <1>1, <1>6 DEF Grow
  <2>2. base * d <= (v \div d) * d
    BY <1>1, <1>2, <1>3, <1>5, <1>6, TimesMonotone
  <2>3. base * d = Pow(base, k + 1) /\ d * base = base * d /\ (v \div d) * d \in Nat
    BY <1>1, <1>2, <1>3, <1>5, SMTT(30)
  <2>4. Pow(base, k + 1) <= v
    BY <1>2, <1>3, <1>5, <2>2, <2>3
  <2>5. d' = Pow(base, k + 1)
    <3>1. Pow(base, k + 1) \in Nat /\ Pow(base, k + 1) < Word
      BY <1>2, <1>3, <2>4
    <3>2. Pow(base, k + 1) % Word = Pow(base, k + 1)
      BY <1>2, <3>1, RestOfLess
    <3> QED BY <2>1, <2>3, <3>2
  <2>6. d' \in Unsigned
    BY <1>2, <1>3, <2>4, <2>5
  <2>7. \E i \in Nat : d' = Pow(base', i) /\ (i = 0 \/ Pow(base', i) <= v)
    <3>1. k + 1 \in Nat
      OBVIOUS
    <3> QED BY <3>1, <1>4, <2>4, <2>5
  <2>8. d < d'
    <3>1. d \in Nat /\ d' = base * d /\ base \in {10, 16} /\ d # 0
      BY <1>1, <1>3, <2>5
    <3> QED BY <3>1
  <2> QED BY <1>1, <1>4, <2>1, <2>6, <2>7, <2>8 DEF Converts
<1>7. CASE ~(v \div d >= base)
  <2>1. loop' = "digits" /\ d' = d
    BY <1>1, <1>7 DEF Grow
  <2>2. (v \div d + 1) * d <= base * d
    BY <1>1, <1>2, <1>3, <1>5, <1>7, TimesMonotone, SMTT(30)
  <2>3. v < Pow(base, k + 1)
    BY <1>1, <1>2, <1>3, <1>5, <2>2
  <2>4. Places(v, base) = k + 1
    BY <1>1, <2>3, PlacesIs
  <2>5. d' \in Unsigned
    <3>1. CASE k = 0
      <4>1. Pow(base, 0) = 1
        BY <1>2, PowFacts
      <4> QED BY <3>1, <4>1, <1>1, <1>2, <2>1
    <3>2. CASE Pow(base, k) <= v
      BY <3>2, <1>1, <1>2, <1>3, <2>1
    <3> QED BY <3>1, <3>2, <1>1
  <2> DEFINE first == [i \in 1 .. 0 |-> Numeral(v, base, uc)[i]]
  <2>6. bf' = sign \o first
    BY <1>1, <1>4
  <2>7. v % Pow(base, k + 1) = v
    <3>1. Pow(base, k + 1) \in Nat
      BY <1>3
    <3> QED BY <1>2, <2>3, <3>1, RestOfLess
  <2>8. (k + 1) - 0 = k + 1 /\ (k + 1) - 0 - 1 = k /\ 0 \in 0 .. k + 1 /\ 0 # k + 1
    OBVIOUS
  <2>9. \E j \in 0 .. k + 1 :
           /\ num' = v % Pow(base, (k + 1) - j)
           /\ d' = IF j = k + 1 THEN 0 ELSE Pow(base, (k + 1) - j - 1)
           /\ bf' = sign \o [i \in 1 .. j |-> Numeral(v, base, uc)[i]]
    <3> WITNESS 0 \in 0 .. k + 1
    <3> QED BY <1>1, <1>4, <2>1, <2>6, <2>7, <2>8
  <2> QED BY <1>4, <2>1, <2>4, <2>5, <2>9 DEF Converts
<1> QED BY <1>6, <1>7

LEMMA DigitsStep ==
  ASSUME NEW v \in Unsigned, NEW sign \in {<<>>, <<Minus>>}, base \in {10, 16}, uc \in BOOLEAN,
         Converts(v, sign), Digits
  PROVE  /\ Converts(v, sign)'
         /\ num' \in Unsigned /\ d' \in Unsigned
         /\ \/ bf' = bf
            \/ /\ \E k \in 0 .. base - 1 : bf' = Append(bf, Digit(k, uc))
               /\ bf' \in Seq(Nat) /\ Len(bf') + 1 <= BufSize
<1> DEFINE n == Places(v, base)
           Num == Numeral(v, base, uc)
<1>1. PICK j \in 0 .. n :
           /\ num = v % Pow(base, n - j)
           /\ d = IF j = n THEN 0 ELSE Pow(base, n - j - 1)
           /\ bf = sign \o [i \in 1 .. j |-> Num[i]]
  BY DEF Converts, Digits
<1>2. /\ v \in Nat /\ v < Word /\ Word \in Nat /\ Word >= 2 /\ Unsigned = 0 .. Word - 1
      /\ base \in Nat \ {0} /\ base > 1
  BY WordFacts
<1>3. n \in Nat \ {0} /\ v < Pow(base, n) /\ (n = 1 \/ Pow(base, n - 1) <= v)
  <2>1. n \in 1 .. BufSize - 2 /\ BufSize \in Nat
    BY PlacesFacts, FormatAssumption
  <2> QED BY <2>1, PlacesFacts
<1>4. loop = "digits" /\ UNCHANGED <<base, uc>>
  BY DEF Digits
<1>5. /\ Num \in Seq(Nat) /\ Len(Num) = n
      /\ \A i \in 1 .. n : /\ Num[i] = Digit((v \div Pow(base, n - i)) % base, uc)
                           /\ (v \div Pow(base, n - i)) % base \in 0 .. base - 1
  BY NumeralFacts
<1>6. \A k \in Nat : Pow(base, k) \in Nat \ {0}
  BY <1>2, PowPositive
<1> HIDE DEF n, Num
<1>7. CASE j = n
  <2>1. d = 0
    BY <1>1, <1>7
  <2>2. loop' = "ready" /\ UNCHANGED <<num, d, bf>>
    BY <2>1 DEF Digits
  <2>3. [i \in 1 .. j |-> Num[i]] = Num
    BY <1>5, <1>7
  <2>4. bf' = sign \o Num
    BY <1>1, <2>2, <2>3
  <2>5. Num' = Num
    BY <1>4 DEF Num
  <2>6. num \in Unsigned /\ 0 \in Unsigned
    <3>1. n - j = 0 /\ Pow(base, 0) = 1
      BY <1>3, <1>7, <1>2, PowFacts
    <3>2. num \in 0 .. 0
      BY <1>1, <1>2, <3>1, QuotientAndRest
    <3> QED BY <3>2, <1>2
  <2>7. Converts(v, sign)'
    BY <1>4, <2>2, <2>4 DEF Converts, Num
  <2> QED BY <2>1, <2>2, <2>6, <2>7
<1>8. CASE j # n
  <2> DEFINE m == Pow(base, n - j - 1)
             dgt == num \div d
  <2>1. n - j - 1 \in Nat /\ n - j = (n - j - 1) + 1 /\ j + 1 \in 1 .. n /\ n - (j + 1) = n - j - 1
    BY <1>3, <1>8
  <2>2. d = m /\ m \in Nat \ {0} /\ Pow(base, n - j) = base * m
    <3>1. Pow(base, (n - j - 1) + 1) = base * Pow(base, n - j - 1)
      BY <1>2, <2>1, PowFacts
    <3> QED BY <3>1, <1>1, <1>6, <1>8, <2>1
  <2> HIDE DEF m
  <2>3. num = v % (m * base)
    <3>1. base * m = m * base
      BY <1>2, <2>2
    <3> QED BY <1>1, <2>2, <3>1
  <2>4. dgt = (v \div m) % base /\ num % d = v % m
    BY <1>2, <2>2, <2>3, RestOfRest
  <2>5. Num[j + 1] = Digit(dgt, uc) /\ dgt \in 0 .. base - 1
    BY <1>5, <2>1, <2>4 DEF m
  <2>6. d' = d \div base /\ num' = num % d /\ loop' = "digits"
    BY <1>4, <2>2 DEF Digits
  <2>7. d' = IF j + 1 = n THEN 0 ELSE Pow(base, n - (j + 1) - 1)
    <3>1. CASE j + 1 = n
      <4>1. m = 1
        <5>1. n - j - 1 = 0
          BY <3>1, <2>1
        <5> QED BY <5>1, <1>2, PowFacts DEF m
      <4>2. 1 \div base = 0
        OBVIOUS
      <4> QED BY <3>1, <4>1, <4>2, <2>2, <2>6
    <3>2. CASE j + 1 # n
      <4> DEFINE l == Pow(base, n - (j + 1) - 1)
      <4>1. n - (j + 1) - 1 \in Nat /\ n - j - 1 = (n - (j + 1) - 1) + 1
        BY <3>2, <2>1, <1>3
      <4>2. m = base * l /\ l \in Nat \ {0}
        BY <4>1, <1>2, <1>6, PowFacts DEF m
      <4> HIDE DEF l
      <4>3. m \div base = l
        <5>1. (l * base + 0) \div base = l
          <6>1. 0 \in 0 .. base - 1 /\ base \in Nat \ {0}
            BY <1>2
          <6> QED BY <6>1, <4>2, QuotientIs
        <5>2. l * base + 0 = base * l
          BY <4>2, <1>2
        <5> QED BY <5>1, <5>2, <4>2
      <4> QED BY <3>2, <4>3, <2>2, <2>6 DEF l
    <3> QED BY <3>1, <3>2
  <2> DEFINE done == {k \in DOMAIN bf : bf[k] # Minus}
  <2>8. done # {} \/ dgt > 0 \/ d' = 0
    <3>1. CASE j = 0 /\ n = 1
      BY <3>1, <2>7
    <3>2. CASE j = 0 /\ n # 1
      <4>1. m <= v
        BY <3>2, <1>3, <2>1 DEF m
      <4>2. v \div m # 0
        <5>1. v = (v \div m) * m + (v % m) /\ v % m \in 0 .. m - 1 /\ v \div m \in Nat
          BY <1>2, <2>2, QuotientAndRest
        <5> SUFFICES ASSUME v \div m = 0 PROVE FALSE
          OBVIOUS
        <5>2. (v \div m) * m = 0
          BY <2>2
        <5> QED BY <5>1, <5>2, <4>1, <2>2
      <4>3. v \div m < base
        <5>1. v \div m \in Nat /\ (v \div m) * m <= v
          BY <1>2, <2>2, Quotient
        <5>2. v < base * m
          BY <3>2, <1>3, <2>2
        <5> SUFFICES ASSUME base <= v \div m PROVE FALSE
          BY <5>1, <1>2
        <5>3. base * m <= (v \div m) * m
          BY <5>1, <1>2, <2>2, TimesMonotone
        <5>4. base * m \in Nat /\ (v \div m) * m \in Nat
          BY <5>1, <1>2, <2>2
        <5> QED BY <5>1, <5>2, <5>3, <5>4, <1>2
      <4>4. v \div m \in Nat
        BY <1>2, <2>2, QuotientAndRest
      <4>5. (v \div m) % base = v \div m
        BY <4>3, <4>4, <1>2, RestOfLess
      <4> QED BY <4>2, <4>4, <4>5, <2>4
    <3>3. CASE j # 0
      <4> DEFINE first == [i \in 1 .. j |-> Num[i]]
      <4>1. first \in Seq(Nat) /\ Len(first) = j /\ j \in Nat /\ first[1] = Num[1] /\ 1 \in 1 .. j
        <5>1. j \in Nat /\ 1 \in 1 .. j /\ \A i \in 1 .. j : i \in 1 .. n
          BY <1>3, <3>3
        <5>2. \A i \in 1 .. j : Num[i] \in Nat
          BY <5>1, <1>5, SMTT(30)
        <5> QED BY <5>1, <5>2
      <4>2. first[1] # Minus
        <5>1. 1 \in 1 .. n
          BY <1>3
        <5>2. PICK k \in 0 .. base - 1 : Num[1] = Digit(k, uc)
          BY <5>1, <1>5
        <5>3. Digit(k, uc) # Minus
          BY <1>2 DEF Digit, Zero, Minus
        <5> QED BY <4>1, <5>2, <5>3
      <4> HIDE DEF first
      <4>3. bf = sign \o first
        BY <1>1 DEF first
      <4>4. Len(sign) + 1 \in DOMAIN bf /\ bf[Len(sign) + 1] = first[1]
        <5>1. sign \in Seq(Nat)
          BY SignIsText
        <5> QED BY <4>1, <4>3, <5>1
      <4> QED BY <4>2, <4>4
    <3> QED BY <3>1, <3>2, <3>3
  <2>9. bf' = Append(bf, Digit(dgt, uc))
    BY <1>4, <2>2, <2>6, <2>8 DEF Digits
  <2>10. bf' = sign \o [i \in 1 .. j + 1 |-> Num[i]]
    <3> DEFINE first == [i \in 1 .. j |-> Num[i]]
               more == [i \in 1 .. j + 1 |-> Num[i]]
    <3>1. first \in Seq(Nat) /\ Num[j + 1] \in Nat /\ more = Append(first, Num[j + 1])
      <4>1. j \in Nat /\ \A i \in 1 .. j + 1 : i \in 1 .. n
        BY <1>3, <2>1
      <4>2. \A i \in 1 .. j + 1 : Num[i] \in Nat
        BY <4>1, <1>5
      <4>3. first \in Seq(Nat) /\ Len(first) = j /\ more \in Seq(Nat) /\ Len(more) = j + 1
        BY <4>1, <4>2
      <4>4. Num[j + 1] \in Nat
        BY <4>1, <4>2
      <4>5. \A i \in 1 .. j + 1 : more[i] = Append(first, Num[j + 1])[i]
        BY <4>1, <4>2, <4>3
      <4>6. Append(first, Num[j + 1]) \in Seq(Nat) /\ Len(Append(first, Num[j + 1])) = j + 1
        BY <4>1, <4>3, <4>4
      <4>7. more = Append(first, Num[j + 1])
        <5> HIDE DEF more, first
        <5> QED BY <4>3, <4>5, <4>6, SeqEqual
      <4> QED BY <4>3, <4>4, <4>7
    <3>2. sign \in Seq(Nat) /\ bf = sign \o first
      BY <1>1, SignIsText
    <3> HIDE DEF first, more
    <3>3. Append(sign \o first, Num[j + 1]) = sign \o Append(first, Num[j + 1])
      <4> DEFINE e == Num[j + 1]
      <4>1. e \in Nat
        BY <3>1
      <4> HIDE DEF e
      <4>2. Append(sign \o first, e) = sign \o Append(first, e)
        BY <3>1, <3>2, <4>1, AppendToBoth
      <4> QED BY <4>2 DEF e
    <3> QED BY <2>5, <2>9, <3>1, <3>2, <3>3 DEF more
  <2>11. num' = v % Pow(base, n - (j + 1)) /\ num' \in Unsigned
    <3>1. num' = v % m
      BY <2>4, <2>6
    <3>2. v % m \in Nat /\ v % m <= v
      <4>1. v = (v \div m) * m + (v % m) /\ v % m \in 0 .. m - 1 /\ v \div m \in Nat
        BY <1>2, <2>2, QuotientAndRest
      <4>2. (v \div m) * m \in Nat
        <5>1. \A a, b \in Nat : a * b \in Nat
          OBVIOUS
        <5>2. m \in Nat
          BY <2>2
        <5> QED BY <4>1, <5>1, <5>2
      <4> DEFINE x == (v \div m) * m
                 y == v % m
      <4>3. y \in Nat /\ x \in Nat /\ v = x + y
        BY <4>1, <4>2, <2>2
      <4> HIDE DEF x, y
      <4>4. y <= v
        BY <4>3
      <4> QED BY <4>3, <4>4 DEF y
    <3> QED BY <3>1, <3>2, <1>2, <2>1 DEF m
  <2>12. d' \in Unsigned
    <3>1. CASE j + 1 = n
      BY <3>1, <2>7, <1>2
    <3>2. CASE j + 1 # n
      <4>1. n # 1 /\ n - (j + 1) - 1 \in Nat /\ n - (j + 1) - 1 <= n - 1 /\ n - 1 \in Nat
        BY <3>2, <2>1, <1>3
      <4>2. Pow(base, n - (j + 1) - 1) <= Pow(base, n - 1)
        BY <4>1, <1>2, PowMonotone
      <4>3. Pow(base, n - (j + 1) - 1) \in Nat /\ Pow(base, n - 1) \in Nat /\ Pow(base, n - 1) <= v
        BY <4>1, <1>3, <1>6
      <4>4. Pow(base, n - (j + 1) - 1) \in 0 .. Word - 1
        <5> HIDE DEF m
        <5> QED BY <4>2, <4>3, <1>2
      <4> QED BY <3>2, <2>7, <4>4, <1>2
    <3> QED BY <3>1, <3>2
  <2>13. \E i \in 0 .. n :
           /\ num' = v % Pow(base, n - i)
           /\ d' = IF i = n THEN 0 ELSE Pow(base, n - i - 1)
           /\ bf' = sign \o [l \in 1 .. i |-> Num[l]]
    <3>1. j + 1 \in 0 .. n
      BY <2>1
    <3> QED BY <3>1, <2>7, <2>10, <2>11
  <2>14. Converts(v, sign)'
    BY <1>4, <2>6, <2>13 DEF Converts, Num, n
  <2>15. bf' \in Seq(Nat) /\ Len(bf') + 1 <= BufSize
    <3> DEFINE more == [i \in 1 .. j + 1 |-> Num[i]]
    <3>1. more \in Seq(Nat) /\ Len(more) = j + 1
      <4>1. j \in Nat /\ \A i \in 1 .. j + 1 : i \in 1 .. n
        BY <1>3, <2>1
      <4>2. \A i \in 1 .. j + 1 : Num[i] \in Nat
        BY <4>1, <1>5
      <4> QED BY <4>1, <4>2
    <3>2. sign \in Seq(Nat) /\ Len(sign) \in 0 .. 1
      <4>1. CASE sign = <<>>
        BY <4>1, SignIsText
      <4>2. CASE sign = <<Minus>>
        BY <4>2, SignIsText
      <4> QED BY <4>1, <4>2
    <3>3. n <= BufSize - 2 /\ BufSize \in Nat
      BY PlacesFacts, FormatAssumption DEF n
    <3> HIDE DEF more
    <3>4. sign \o more \in Seq(Nat) /\ Len(sign \o more) = Len(sign) + Len(more)
      BY <3>1, <3>2, TextConcat
    <3>5. bf' = sign \o more
      BY <2>10 DEF more
    <3> DEFINE t == sign \o more
    <3>6. t \in Seq(Nat) /\ Len(t) <= 1 + (j + 1)
      <4> DEFINE a == Len(sign)
                 b == Len(more)
      <4>1. a \in 0 .. 1 /\ b = j + 1 /\ Len(t) = a + b /\ j \in Nat
        BY <3>1, <3>2, <3>4, <1>3, <2>1
      <4> HIDE DEF a, b, t
      <4>2. Len(t) <= 1 + (j + 1)
        BY <4>1
      <4> QED BY <3>4, <4>2 DEF t
    <3>7. Len(t) \in Nat
      BY <3>4
    <3> HIDE DEF t
    <3>8. Len(t) + 1 <= BufSize
      BY <3>3, <3>6, <3>7, <2>1, <1>3
    <3> QED BY <3>5, <3>6, <3>8 DEF t
  <2> QED BY <2>5, <2>9, <2>11, <2>12, <2>14, <2>15
<1> QED BY <1>7, <1>8

LEMMA CallConverts ==
  ASSUME NEW v \in Unsigned, NEW sign \in Seq(Nat), NEW b \in {10, 16}, NEW u \in BOOLEAN,
         Ui2aCall(v, b, u, sign)
  PROVE  Converts(v, sign)' /\ num' \in Unsigned /\ d' \in Unsigned
<1>1. num' = v /\ base' = b /\ d' = 1 /\ bf' = sign /\ loop' = "grow"
  BY DEF Ui2aCall
<1>2. Pow(b, 0) = 1
  <2>1. b \in Nat
    OBVIOUS
  <2> QED BY <2>1, PowFacts
<1>3. \E k \in Nat : d' = Pow(base', k) /\ (k = 0 \/ Pow(base', k) <= v)
  <2>1. 0 \in Nat
    OBVIOUS
  <2> QED BY <1>1, <1>2, <2>1
<1>4. 1 \in Unsigned
  BY WordFacts
<1> QED BY <1>1, <1>3, <1>4 DEF Converts

-----------------------------------------------------------------------------
(* Fields. *)

LEMMA PutchwFacts ==
  ASSUME NEW n \in Nat, NEW z \in BOOLEAN, NEW text \in Seq(Nat)
  PROVE  LET m == Max({n, Len(text)})
             fill == IF z THEN Zero ELSE Blank
         IN  /\ Putchw(n, z, text) \in Seq(Nat)
             /\ Putchw(n, z, text) =
                  [i \in 1 .. m |-> IF i <= m - Len(text) THEN fill
                                    ELSE text[i - (m - Len(text))]]
<1> DEFINE l == Len(text)
           m == Max({n, l})
           fill == IF z THEN Zero ELSE Blank
           pad == [i \in 1 .. n - l |-> fill]
           field == [i \in 1 .. m |-> IF i <= m - l THEN fill ELSE text[i - (m - l)]]
<1>1. l \in Nat /\ fill \in Nat
  BY DEF Zero, Blank
<1>2. Putchw(n, z, text) = pad \o text
  BY DEF Putchw
<1>3. CASE n <= l
  <2>1. m = l
    <3>1. {n, l} \subseteq Int /\ l \in {n, l} /\ \A i \in {n, l} : i <= l
      BY <1>1, <1>3
    <3> HIDE DEF l
    <3> QED BY <3>1, MaxIs
  <2>2. pad = <<>>
    <3>1. \A i \in 1 .. n - l : FALSE
      BY <1>1, <1>3
    <3> HIDE DEF l, fill
    <3> QED BY <3>1
  <2>3. pad \o text = text
    <3> HIDE DEF pad
    <3> QED BY <2>2, ConcatEmptySeq
  <2>4. m - l = 0 /\ \A i \in 1 .. m : ~(i <= m - l) /\ i - (m - l) = i
    <3> HIDE DEF m, l
    <3> QED BY <1>1, <2>1
  <2>5. field = [i \in 1 .. l |-> text[i]]
    <3> HIDE DEF m, l, fill
    <3> QED BY <2>1, <2>4
  <2>6. field = text
    <3> HIDE DEF field
    <3>1. field \in Seq(Nat) /\ Len(field) = l
      BY <2>5, <1>1
    <3> QED BY <2>5, <3>1, SeqEqual
  <2> QED BY <1>2, <2>3, <2>6
<1>4. CASE n > l
  <2>1. m = n
    <3>1. {n, l} \subseteq Int /\ n \in {n, l} /\ \A i \in {n, l} : i <= n
      BY <1>1, <1>4
    <3> HIDE DEF l
    <3> QED BY <3>1, MaxIs
  <2> HIDE DEF m, fill
  <2>2. pad \in Seq(Nat) /\ Len(pad) = n - l /\ \A i \in 1 .. n - l : pad[i] = fill
    BY <1>1, <1>4
  <2>3. \A i \in 1 .. m : (IF i <= m - l THEN fill ELSE text[i - (m - l)]) \in Nat
    <3> SUFFICES ASSUME NEW i \in 1 .. m, ~(i <= m - l)
                 PROVE  text[i - (m - l)] \in Nat
      BY <1>1
    <3>1. i - (m - l) \in 1 .. Len(text)
      BY <1>1, <1>4, <2>1
    <3> QED BY <3>1
  <2>4. field \in Seq(Nat) /\ Len(field) = n
    BY <2>1, <2>3
  <2> HIDE DEF pad
  <2>5. pad \o text \in Seq(Nat) /\ Len(pad \o text) = n
    BY <1>1, <2>2
  <2>6. ASSUME NEW i \in 1 .. n
        PROVE  (pad \o text)[i] = field[i]
    <3>1. CASE i <= n - l
      BY <3>1, <1>1, <2>1, <2>2
    <3>2. CASE ~(i <= n - l)
      <4>1. i - (n - l) \in 1 .. l
        BY <3>2, <1>1, <1>4
      <4>2. (pad \o text)[Len(pad) + (i - (n - l))] = text[i - (n - l)]
        BY <4>1, <2>2
      <4>3. Len(pad) + (i - (n - l)) = i
        BY <1>1, <2>2
      <4> QED BY <3>2, <4>2, <4>3, <2>1
    <3> QED BY <3>1, <3>2
  <2> HIDE DEF field
  <2>7. pad \o text = field
    BY <2>4, <2>5, <2>6, SeqEqual
  <2> QED BY <1>2, <2>5, <2>7 DEF m, fill, field
<1>5. n <= l \/ n > l
  BY <1>1
<1> QED BY <1>3, <1>4, <1>5, Zenon

LEMMA PutbinFacts ==
  ASSUME NEW val \in Unsigned
  PROVE  /\ Putbin(val) \in Seq(Nat)
         /\ Putbin(val) = IF val = 0 THEN <<Zero>>
                          ELSE [i \in 1 .. Bits |-> Zero + ((val \div Pow(2, Bits - i)) % 2)]
                                 \o BehindBuf
<1> DEFINE bit(i) == (val \div Pow(2, Bits - i)) % 2
<1>1. ASSUME NEW i \in 1 .. Bits
      PROVE  bit(i) \in 0 .. 1
  <2>1. Bits - i \in Nat /\ val \in Nat
    BY WordFacts, FormatAssumption
  <2>2. Pow(2, Bits - i) \in Nat \ {0}
    BY <2>1, PowPositive
  <2>3. val \div Pow(2, Bits - i) \in Nat
    BY <2>1, <2>2, QuotientAndRest
  <2> QED BY <2>3, QuotientAndRest
<1> HIDE DEF bit
<1>2. \A i \in 1 .. Bits : Digit(bit(i), FALSE) = Zero + bit(i) /\ Zero + bit(i) \in Nat
  BY <1>1 DEF Digit, Zero
<1>3. [i \in 1 .. Bits |-> Digit(bit(i), FALSE)] = [i \in 1 .. Bits |-> Zero + bit(i)]
  BY <1>2
<1>4. [i \in 1 .. Bits |-> Zero + bit(i)] \in Seq(Nat) /\ BehindBuf \in Seq(Nat)
  <2>1. BehindBuf \in Seq(Nat)
    BY FormatAssumption
  <2>2. Bits \in Nat
    BY FormatAssumption
  <2> DEFINE c(i) == Zero + bit(i)
  <2>3. \A i \in 1 .. Bits : c(i) \in Nat
    BY <1>2
  <2> HIDE DEF c
  <2>4. [i \in 1 .. Bits |-> c(i)] \in Seq(Nat)
    BY <2>2, <2>3
  <2> QED BY <2>1, <2>4 DEF c
<1>5. [i \in 1 .. Bits |-> Zero + bit(i)] \o BehindBuf \in Seq(Nat) /\ <<Zero>> \in Seq(Nat)
  BY <1>4 DEF Zero
<1> QED BY <1>3, <1>5 DEF Putbin, bit

-----------------------------------------------------------------------------
(* Pieces. *)

LEMMA Letters ==
  /\ Letter.b = 98 /\ Letter.c = 99 /\ Letter.d = 100 /\ Letter.s = 115
  /\ Letter.u = 117 /\ Letter.x = 120 /\ Letter.X = 88
  /\ Numeric = {117, 100, 120, 88}
  /\ NUL = 0 /\ Percent = 37 /\ Zero = 48 /\ Decimal = 48 .. 57
BY DEF Letter, Numeric, NUL, Percent, Zero, Decimal

LEMMA LettersDiffer ==
  /\ Percent \notin {Letter.u, Letter.d, Letter.x, Letter.X, Letter.b, Letter.c, Letter.s}
  /\ Letter.u \notin {Percent, Letter.d, Letter.x, Letter.X, Letter.b, Letter.c, Letter.s}
  /\ Letter.d \notin {Percent, Letter.u, Letter.x, Letter.X, Letter.b, Letter.c, Letter.s}
  /\ Letter.x \notin {Percent, Letter.u, Letter.d, Letter.X, Letter.b, Letter.c, Letter.s}
  /\ Letter.X \notin {Percent, Letter.u, Letter.d, Letter.x, Letter.b, Letter.c, Letter.s}
  /\ Letter.b \notin {Percent, Letter.u, Letter.d, Letter.x, Letter.X, Letter.c, Letter.s}
  /\ Letter.c \notin {Percent, Letter.u, Letter.d, Letter.x, Letter.X, Letter.b, Letter.s}
  /\ Letter.s \notin {Percent, Letter.u, Letter.d, Letter.x, Letter.X, Letter.b, Letter.c}
BY DEF Letter, Percent

LEMMA SeqOfElements ==
  ASSUME NEW S, NEW T, NEW s \in Seq(T), \A n \in DOMAIN s : s[n] \in S
  PROVE  s \in Seq(S)
<1>1. Len(s) \in Nat /\ DOMAIN s = 1 .. Len(s) /\ s = [n \in 1 .. Len(s) |-> s[n]]
  BY LenProperties
<1>2. [n \in 1 .. Len(s) |-> s[n]] \in Seq(S)
  BY <1>1
<1> QED BY <1>1, <1>2

(* A piece that IsPiece describes. *)
GoodPiece(x) ==
  /\ x.lit \in BOOLEAN /\ x.zero \in BOOLEAN
  /\ x.ch \in Nat /\ x.str \in Seq(Nat)
  /\ x.lit => x.ch \notin {NUL, Percent}
  /\ ~x.lit => /\ x.width \in Seq(Decimal \cup {65, 97})
               /\ x.width # <<>> => /\ x.width[1] \in Decimal
                                    /\ x.zero \/ x.width[1] # Zero
                                    /\ ~IsDigit(x.ch)
               /\ x.ch \notin Decimal
               /\ x.ch = Letter.d => x.val \in Signed
               /\ x.ch # Letter.d => x.val \in Unsigned

LEMMA PiecesAreGood ==
  ASSUME NEW f \in Formats
  PROVE  /\ f \in Seq(Piece) /\ Len(f) \in Nat
         /\ \A k \in 1 .. Len(f) : GoodPiece(f[k]) /\ (f[k].ch = NUL => k = Len(f))
<1>1. f \in Seq(Piece) /\ \A n \in DOMAIN f : IsPiece(f[n]) /\ (f[n].ch = NUL => n = Len(f))
  BY PrintkAssumption
<1>2. Len(f) \in Nat /\ DOMAIN f = 1 .. Len(f)
  BY <1>1
<1>3. ASSUME NEW k \in 1 .. Len(f)
      PROVE  GoodPiece(f[k])
  <2> DEFINE x == f[k]
  <2>1. x \in Piece /\ IsPiece(x)
    BY <1>1, <1>2
  <2> HIDE DEF x
  <2>2. /\ x.lit \in BOOLEAN /\ x.zero \in BOOLEAN /\ x.ch \in Nat
        /\ x.width \in Seq(Nat) /\ x.str \in Seq(Nat \ {NUL})
    BY <2>1 DEF Piece
  <2>3. x.str \in Seq(Nat)
    BY <2>2
  <2>4. CASE x.lit
    BY <2>1, <2>2, <2>3, <2>4 DEF GoodPiece, IsPiece, x
  <2>5. CASE ~x.lit
    <3>1. /\ \A n \in DOMAIN x.width : x.width[n] \in Decimal \cup {65, 97}
          /\ x.width # <<>> => x.width[1] \in Decimal /\ (x.zero \/ x.width[1] # Zero)
          /\ x.ch \notin Decimal
          /\ x.width # <<>> => x.ch \notin {65, 97}
          /\ x.val \in (IF x.ch = Letter.d THEN Signed ELSE Unsigned)
      BY <2>1, <2>5 DEF IsPiece
    <3>2. x.width \in Seq(Decimal \cup {65, 97})
      <4> DEFINE s == x.width
      <4>1. s \in Seq(Nat) /\ \A n \in DOMAIN s : s[n] \in Decimal \cup {65, 97}
        BY <2>2, <3>1
      <4> HIDE DEF s
      <4>2. s \in Seq(Decimal \cup {65, 97})
        BY <4>1, SeqOfElements
      <4> QED BY <4>2 DEF s
    <3>3. x.width # <<>> => ~IsDigit(x.ch)
      BY <2>2, <3>1, A2dFacts
    <3> QED BY <2>2, <2>3, <2>5, <3>1, <3>2, <3>3 DEF GoodPiece, x
  <2> QED BY <2>4, <2>5
<1> QED BY <1>1, <1>2, <1>3

(* The magnitude, sign, base and case of a piece's number. *)
Magnitude(x) == IF x.val < 0 THEN - x.val ELSE x.val
Sign(x) == IF x.val < 0 THEN <<Minus>> ELSE <<>>
Base(x) == IF x.ch \in {Letter.u, Letter.d} THEN 10 ELSE 16
Upper(x) == x.ch = Letter.X

LEMMA NumberFacts ==
  ASSUME NEW x, GoodPiece(x), ~x.lit, x.ch \in Numeric
  PROVE  /\ Magnitude(x) \in Unsigned /\ Sign(x) \in {<<>>, <<Minus>>}
         /\ Base(x) \in {10, 16} /\ Upper(x) \in BOOLEAN
<1>1. CASE x.ch = Letter.d
  <2>1. x.val \in Signed
    BY <1>1 DEF GoodPiece
  <2>2. Magnitude(x) \in Unsigned
    <3>1. x.val \in Int
      BY <2>1, WordFacts DEF Signed
    <3>2. CASE x.val < 0
      BY <3>2, <2>1, WordFacts DEF Magnitude
    <3>3. CASE ~(x.val < 0)
      <4>1. x.val >= 0
        BY <3>1, <3>3
      <4> QED BY <4>1, <3>3, <2>1, WordFacts DEF Magnitude
    <3> QED BY <3>2, <3>3
  <2> QED BY <2>2 DEF Sign, Base, Upper
<1>2. CASE x.ch # Letter.d
  <2>1. x.val \in Unsigned
    BY <1>2 DEF GoodPiece
  <2>2. ~(x.val < 0)
    BY <2>1, WordFacts
  <2> QED BY <2>1, <2>2 DEF Magnitude, Sign, Base, Upper
<1> QED BY <1>1, <1>2

LEMMA MeantByLetter ==
  ASSUME NEW x, ~x.lit
  PROVE  LET fill == IF x.zero THEN Zero ELSE Blank
         IN  /\ x.ch = Percent => Meant(x) = <<x.ch>>
             /\ x.ch = Letter.u => Meant(x) = Field(x, fill, Numeral(x.val, 10, FALSE))
             /\ x.ch = Letter.x => Meant(x) = Field(x, fill, Numeral(x.val, 16, FALSE))
             /\ x.ch = Letter.X => Meant(x) = Field(x, fill, Numeral(x.val, 16, TRUE))
             /\ x.ch = Letter.d =>
                  /\ x.val < 0 =>
                       Meant(x) = Field(x, fill, <<Minus>> \o Numeral(- x.val, 10, FALSE))
                  /\ ~(x.val < 0) => Meant(x) = Field(x, fill, Numeral(x.val, 10, FALSE))
             /\ x.ch = Letter.b =>
                  Meant(x) = Field(x, Blank,
                    IF x.val = 0 THEN <<Zero>>
                    ELSE [i \in 1 .. Bits |-> Zero + ((x.val \div Pow(2, Bits - i)) % 2)]
                           \o BehindBuf)
             /\ x.ch = Letter.s => Meant(x) = Field(x, Blank, x.str)
             /\ x.ch = Letter.c => Meant(x) = <<x.val>>
             /\ x.ch \notin Numeric \cup {Letter.b, Letter.c, Letter.s, Percent} =>
                  Meant(x) = <<>>
<1>1. CASE x.ch = Percent
  BY <1>1, LettersDiffer, Zenon DEF Meant, Numeric
<1>2. CASE x.ch = Letter.u
  BY <1>2, LettersDiffer, Zenon DEF Meant, Numeric
<1>3. CASE x.ch = Letter.x
  BY <1>3, LettersDiffer, Zenon DEF Meant, Numeric
<1>4. CASE x.ch = Letter.X
  BY <1>4, LettersDiffer, Zenon DEF Meant, Numeric
<1>5. CASE x.ch = Letter.d
  BY <1>5, LettersDiffer, Zenon DEF Meant, Numeric
<1>6. CASE x.ch = Letter.b
  BY <1>6, LettersDiffer, Zenon DEF Meant, Numeric
<1>7. CASE x.ch = Letter.s
  BY <1>7, LettersDiffer, Zenon DEF Meant, Numeric
<1>8. CASE x.ch = Letter.c
  BY <1>8, LettersDiffer, Zenon DEF Meant, Numeric
<1>9. CASE x.ch \notin Numeric \cup {Letter.b, Letter.c, Letter.s, Percent}
  BY <1>9, Zenon DEF Meant, Numeric
<1> QED
  BY <1>1, <1>2, <1>3, <1>4, <1>5, <1>6, <1>7, <1>8, <1>9, Zenon DEF Numeric

(* What a piece means, in terms of what the code puts out for it. *)
LEMMA MeantIs ==
  ASSUME NEW x, GoodPiece(x)
  PROVE  LET n == Widths(x)[Len(x.width)]
         IN  /\ Meant(x) \in Seq(Nat)
             /\ x.lit => Meant(x) = <<x.ch>>
             /\ ~x.lit =>
                  /\ n \in Nat
                  /\ x.ch = Percent => Meant(x) = <<x.ch>>
                  /\ x.ch \in Numeric =>
                       Meant(x) = Putchw(n, x.zero,
                                         Sign(x) \o Numeral(Magnitude(x), Base(x), Upper(x)))
                  /\ x.ch = Letter.b => Meant(x) = Putchw(n, FALSE, Putbin(x.val))
                  /\ x.ch = Letter.s => Meant(x) = Putchw(n, FALSE, x.str)
                  /\ x.ch = Letter.c => Meant(x) = <<x.val>>
                  /\ x.ch \notin Numeric \cup {Letter.b, Letter.c, Letter.s, Percent} =>
                       Meant(x) = <<>>
<1> DEFINE n == Widths(x)[Len(x.width)]
           fill == IF x.zero THEN Zero ELSE Blank
<1>1. CASE x.lit
  <2>1. Meant(x) = <<x.ch>> /\ x.ch \in Nat
    BY <1>1 DEF Meant, GoodPiece
  <2> QED BY <1>1, <2>1
<1>2. CASE ~x.lit
  <2>1. x.width \in Seq(Decimal \cup {65, 97}) /\ x.zero \in BOOLEAN /\ x.ch \in Nat
        /\ x.str \in Seq(Nat)
    BY <1>2 DEF GoodPiece
  <2>2. n \in Nat
    <3>1. Len(x.width) \in Nat /\ Len(x.width) \in 0 .. Len(x.width)
      BY <2>1
    <3> QED BY <2>1, <3>1, WidthsFacts
  <2>3. ASSUME NEW z \in BOOLEAN, NEW text \in Seq(Nat)
        PROVE  /\ Field(x, IF z THEN Zero ELSE Blank, text) = Putchw(n, z, text)
               /\ Putchw(n, z, text) \in Seq(Nat)
    BY <2>2, PutchwFacts DEF Field
  <2>4. CASE x.ch = Percent
    <3>1. Meant(x) = <<x.ch>>
      BY <1>2, <2>4, MeantByLetter
    <3> QED BY <1>2, <2>1, <2>2, <2>4, <3>1, Letters
  <2>5. CASE x.ch \in Numeric
    <3> DEFINE text == Sign(x) \o Numeral(Magnitude(x), Base(x), Upper(x))
    <3>1. text \in Seq(Nat)
      <4>1. Sign(x) \in Seq(Nat)
        BY <1>2, <2>5, NumberFacts, SignIsText
      <4>2. Numeral(Magnitude(x), Base(x), Upper(x)) \in Seq(Nat)
        BY <1>2, <2>5, NumberFacts, NumeralFacts
      <4> QED BY <4>1, <4>2
    <3>2. Meant(x) = Field(x, fill, text)
      <4>1. CASE x.ch = Letter.d
        <5>1. Base(x) = 10 /\ Upper(x) = FALSE
          BY <4>1, Letters DEF Base, Upper
        <5>2. CASE x.val < 0
          BY <1>2, <4>1, <5>1, <5>2, MeantByLetter DEF Sign, Magnitude
        <5>3. CASE ~(x.val < 0)
          <6>1. Meant(x) = Field(x, fill, Numeral(x.val, 10, FALSE))
            BY <1>2, <4>1, <5>3, MeantByLetter
          <6>2. text = Numeral(x.val, 10, FALSE)
            <7>1. text = <<>> \o Numeral(x.val, 10, FALSE)
              BY <5>1, <5>3 DEF Sign, Magnitude
            <7>2. Numeral(x.val, 10, FALSE) \in Seq(Nat)
              BY <1>2, <2>5, <5>1, <5>3, NumberFacts, NumeralFacts DEF Magnitude
            <7> QED BY <7>1, <7>2, ConcatEmptySeq
          <6> QED BY <6>1, <6>2
        <5> QED BY <5>2, <5>3
      <4>2. CASE x.ch # Letter.d
        <5>1. ~(x.val < 0) /\ x.val \in Unsigned
          <6>1. x.val \in Unsigned
            BY <1>2, <4>2 DEF GoodPiece
          <6> QED BY <6>1, WordFacts
        <5>2. text = Numeral(x.val, Base(x), Upper(x))
          <6>1. text = <<>> \o Numeral(x.val, Base(x), Upper(x))
            BY <5>1 DEF Sign, Magnitude
          <6>2. Numeral(x.val, Base(x), Upper(x)) \in Seq(Nat)
            BY <1>2, <2>5, <5>1, NumberFacts, NumeralFacts
          <6> QED BY <6>1, <6>2, ConcatEmptySeq
        <5> HIDE DEF text
        <5>3. CASE x.ch = Letter.u
          <6>1. Base(x) = 10 /\ Upper(x) = FALSE
            BY <5>3, Letters DEF Base, Upper
          <6> QED BY <1>2, <5>2, <5>3, <6>1, MeantByLetter
        <5>4. CASE x.ch = Letter.x
          <6>1. Base(x) = 16 /\ Upper(x) = FALSE
            BY <5>4, Letters DEF Base, Upper
          <6> QED BY <1>2, <5>2, <5>4, <6>1, MeantByLetter
        <5>5. CASE x.ch = Letter.X
          <6>1. Base(x) = 16 /\ Upper(x) = TRUE
            BY <5>5, Letters DEF Base, Upper
          <6> QED BY <1>2, <5>2, <5>5, <6>1, MeantByLetter
        <5> QED BY <4>2, <2>5, <5>3, <5>4, <5>5 DEF Numeric
      <4> QED BY <4>1, <4>2
    <3> HIDE DEF text, n
    <3>3. Meant(x) = Putchw(n, x.zero, text) /\ Meant(x) \in Seq(Nat)
      BY <2>1, <2>3, <3>1, <3>2, SMTT(30)
    <3>4. x.ch \notin {Percent, Letter.b, Letter.c, Letter.s}
      BY <2>5, LettersDiffer DEF Numeric
    <3> QED BY <1>2, <2>2, <2>5, <3>3, <3>4, Zenon DEF text, n
  <2>6. CASE x.ch = Letter.b
    <3>1. x.val \in Unsigned
      BY <1>2, <2>6, Letters DEF GoodPiece
    <3>2. Meant(x) = Field(x, Blank, Putbin(x.val)) /\ Putbin(x.val) \in Seq(Nat)
      <4> DEFINE text == IF x.val = 0 THEN <<Zero>>
                         ELSE [i \in 1 .. Bits |-> Zero + ((x.val \div Pow(2, Bits - i)) % 2)]
                                \o BehindBuf
      <4>1. Meant(x) = Field(x, Blank, text)
        BY <1>2, <2>6, MeantByLetter, Zenon
      <4>2. Putbin(x.val) = text /\ Putbin(x.val) \in Seq(Nat)
        BY <3>1, PutbinFacts, Zenon
      <4> QED BY <4>1, <4>2, Zenon
    <3>3. x.ch \notin Numeric \cup {Percent, Letter.c, Letter.s}
      BY <2>6, LettersDiffer DEF Numeric
    <3>4. Meant(x) = Putchw(n, FALSE, Putbin(x.val)) /\ Meant(x) \in Seq(Nat)
      <4> HIDE DEF n
      <4>1. Field(x, IF FALSE THEN Zero ELSE Blank, Putbin(x.val))
              = Putchw(n, FALSE, Putbin(x.val))
            /\ Putchw(n, FALSE, Putbin(x.val)) \in Seq(Nat)
        BY <2>3, <3>2
      <4> QED BY <3>2, <4>1
    <3> QED BY <1>2, <2>2, <2>6, <3>4, <3>3, Zenon
  <2>7. CASE x.ch = Letter.s
    <3>1. Meant(x) = Field(x, Blank, x.str)
      BY <1>2, <2>7, MeantByLetter
    <3>2. x.ch \notin Numeric \cup {Percent, Letter.c, Letter.b}
      BY <2>7, LettersDiffer DEF Numeric
    <3>3. Meant(x) = Putchw(n, FALSE, x.str) /\ Meant(x) \in Seq(Nat)
      <4> HIDE DEF n
      <4>1. Field(x, IF FALSE THEN Zero ELSE Blank, x.str) = Putchw(n, FALSE, x.str)
            /\ Putchw(n, FALSE, x.str) \in Seq(Nat)
        BY <2>1, <2>3
      <4> QED BY <3>1, <4>1
    <3> QED BY <1>2, <2>2, <2>7, <3>3, <3>2, Zenon
  <2>8. CASE x.ch = Letter.c
    <3>1. x.val \in Nat
      <4>1. x.val \in Unsigned
        BY <1>2, <2>8, Letters DEF GoodPiece
      <4> QED BY <4>1, WordFacts
    <3>2. Meant(x) = <<x.val>>
      BY <1>2, <2>8, MeantByLetter
    <3>3. x.ch \notin Numeric \cup {Percent, Letter.s, Letter.b}
      BY <2>8, LettersDiffer DEF Numeric
    <3>4. Meant(x) \in Seq(Nat)
      BY <3>1, <3>2
    <3> QED BY <1>2, <2>2, <2>8, <3>2, <3>3, <3>4, Zenon
  <2>9. CASE x.ch \notin Numeric \cup {Letter.b, Letter.c, Letter.s, Percent}
    <3>1. Meant(x) = <<>>
      BY <1>2, <2>9, MeantByLetter
    <3>2. Meant(x) \in Seq(Nat)
      BY <3>1
    <3> QED BY <1>2, <2>2, <2>9, <3>1, <3>2, Zenon
  <2> QED BY <2>4, <2>5, <2>6, <2>7, <2>8, <2>9
<1> QED BY <1>1, <1>2

-----------------------------------------------------------------------------
(* Where the pieces of a format are in memory. *)

Texts(f) == [n \in DOMAIN f |-> Text(f[n])]

Meanings(f) == [n \in DOMAIN f |-> Meant(f[n])]

Memory(f) == Joined(Texts(f)) \o <<NUL>> \o BehindFormat \o <<NUL>>

(* Its first character, that of its field width, and the one behind its conversion. *)
Start(f, k) == Len(Joins(Texts(f))[k - 1]) + 1

WidthStart(f, k) == Start(f, k) + (IF f[k].zero THEN 2 ELSE 1)

Behind(f, k) == WidthStart(f, k) + Len(f[k].width) + 1

LEMMA TextIs ==
  ASSUME NEW x, GoodPiece(x)
  PROVE  LET skip == IF x.zero THEN 2 ELSE 1
         IN  /\ Text(x) \in Seq(Nat)
             /\ x.lit => Text(x) = <<x.ch>>
             /\ ~x.lit =>
                  /\ Len(x.width) \in Nat
                  /\ Len(Text(x)) = skip + Len(x.width) + (IF x.ch = NUL THEN 0 ELSE 1)
                  /\ Text(x)[1] = Percent
                  /\ x.zero => Text(x)[2] = Zero
                  /\ \A j \in 1 .. Len(x.width) : Text(x)[skip + j] = x.width[j]
                  /\ x.ch # NUL => Text(x)[skip + Len(x.width) + 1] = x.ch
<1>1. CASE x.lit
  <2>1. Text(x) = <<x.ch>> /\ x.ch \in Nat
    BY <1>1 DEF Text, GoodPiece
  <2> QED BY <1>1, <2>1
<1>2. CASE ~x.lit
  <2> DEFINE skip == IF x.zero THEN 2 ELSE 1
             a == <<Percent>> \o (IF x.zero THEN <<Zero>> ELSE <<>>)
             b == x.width
             c == IF x.ch = NUL THEN <<>> ELSE <<x.ch>>
  <2>1. Text(x) = (a \o b) \o c
    BY <1>2 DEF Text
  <2>2. /\ a \in Seq(Nat) /\ Len(a) = skip /\ a[1] = Percent /\ (x.zero => a[2] = Zero)
        /\ skip \in 1 .. 2 /\ (x.zero => skip = 2)
    <3>1. x.zero \in BOOLEAN
      BY DEF GoodPiece
    <3>2. CASE x.zero
      <4> DEFINE u == <<Percent>>
                 z == <<Zero>>
      <4>1. a = u \o z
        BY <3>2
      <4>2. /\ u \in Seq(Nat) /\ Len(u) = 1 /\ u[1] = Percent
            /\ z \in Seq(Nat) /\ Len(z) = 1 /\ z[1] = Zero
        BY DEF Percent, Zero
      <4> HIDE DEF a, u, z
      <4>3. /\ u \o z \in Seq(Nat) /\ Len(u \o z) = Len(u) + Len(z)
            /\ \A i \in 1 .. Len(u) : (u \o z)[i] = u[i]
            /\ \A i \in 1 .. Len(z) : (u \o z)[Len(u) + i] = z[i]
        BY <4>2, TextConcat
      <4> QED BY <3>2, <4>1, <4>2, <4>3
    <3>3. CASE ~x.zero
      <4>1. a = <<Percent>>
        BY <3>3
      <4> QED BY <3>3, <4>1 DEF Percent
    <3> QED BY <3>1, <3>2, <3>3
  <2>3. b \in Seq(Nat)
    <3>1. b \in Seq(Decimal \cup {65, 97})
      BY <1>2 DEF GoodPiece
    <3>2. Decimal \cup {65, 97} \subseteq Nat
      BY Letters
    <3> HIDE DEF b
    <3> QED BY <3>1, <3>2
  <2>4. c \in Seq(Nat) /\ Len(c) = (IF x.ch = NUL THEN 0 ELSE 1) /\ (x.ch # NUL => c[1] = x.ch)
    <3>1. x.ch \in Nat
      BY DEF GoodPiece
    <3> QED BY <3>1
  <2> HIDE DEF a, b, c, skip
  <2>5. Len(b) \in Nat /\ \A j \in 1 .. Len(b) : b[j] \in Nat
    BY <2>3
  <2>6. /\ a \o b \in Seq(Nat) /\ Len(a \o b) = skip + Len(b)
        /\ \A j \in 1 .. skip : (a \o b)[j] = a[j]
        /\ \A j \in 1 .. Len(b) : (a \o b)[skip + j] = b[j]
    BY <2>2, <2>3
  <2> DEFINE ab == a \o b
  <2>7. ab \in Seq(Nat) /\ Len(ab) = skip + Len(b)
    BY <2>6
  <2> HIDE DEF ab
  <2>8. /\ ab \o c \in Seq(Nat) /\ Len(ab \o c) = skip + Len(b) + Len(c)
        /\ \A j \in 1 .. skip + Len(b) : (ab \o c)[j] = ab[j]
        /\ \A j \in 1 .. Len(c) : (ab \o c)[skip + Len(b) + j] = c[j]
    <3>1. /\ ab \o c \in Seq(Nat) /\ Len(ab \o c) = Len(ab) + Len(c)
          /\ \A j \in 1 .. Len(ab) : (ab \o c)[j] = ab[j]
          /\ \A j \in 1 .. Len(c) : (ab \o c)[Len(ab) + j] = c[j]
      BY <2>4, <2>7, TextConcat
    <3> QED BY <2>7, <3>1
  <2>9. /\ Text(x) = ab \o c
        /\ \A j \in 1 .. skip : ab[j] = a[j]
        /\ \A j \in 1 .. Len(b) : ab[skip + j] = b[j]
    BY <2>1, <2>6 DEF ab
  <2> DEFINE t == Text(x)
             tt == ab \o c
  <2>10. t = tt /\ tt \in Seq(Nat)
    BY <2>8, <2>9
  <2> HIDE DEF t
  <2>11. t[1] = Percent /\ (x.zero => t[2] = Zero)
    <3>1. \A j \in 1 .. skip : j \in 1 .. skip + Len(b)
      BY <2>2, <2>5
    <3>2. \A j \in 1 .. skip : tt[j] = a[j]
      BY <3>1, <2>8, <2>9
    <3>3. 1 \in 1 .. skip /\ (x.zero => 2 \in 1 .. skip)
      BY <2>2
    <3> HIDE DEF tt
    <3> QED BY <3>2, <3>3, <2>2, <2>10
  <2>12. \A j \in 1 .. Len(b) : t[skip + j] = b[j]
    <3>1. ASSUME NEW j \in 1 .. Len(b)
          PROVE  t[skip + j] = b[j]
      <4>1. skip + j \in 1 .. skip + Len(b)
        BY <2>2, <2>5
      <4>2. tt[skip + j] = ab[skip + j]
        BY <4>1, <2>8
      <4>3. ab[skip + j] = b[j]
        BY <2>9, Zenon
      <4> HIDE DEF tt
      <4> QED BY <4>2, <4>3, <2>10
    <3> QED BY <3>1
  <2>13. x.ch # NUL => t[skip + Len(b) + 1] = x.ch
    <3> SUFFICES ASSUME x.ch # NUL PROVE t[skip + Len(b) + 1] = x.ch
      OBVIOUS
    <3>1. 1 \in 1 .. Len(c) /\ c[1] = x.ch
      BY <2>4
    <3>2. tt[skip + Len(b) + 1] = c[1]
      BY <3>1, <2>8
    <3> QED BY <3>1, <3>2, <2>10
  <2>14. t \in Seq(Nat) /\ Len(t) = skip + Len(b) + (IF x.ch = NUL THEN 0 ELSE 1)
    BY <2>4, <2>8, <2>10
  <2> QED BY <1>2, <2>5, <2>11, <2>12, <2>13, <2>14, Zenon DEF t, b, skip
<1> QED BY <1>1, <1>2

LEMMA MemoryFacts ==
  ASSUME NEW a \in Seq(Nat)
  PROVE  LET mem == a \o <<NUL>> \o BehindFormat \o <<NUL>>
         IN  /\ mem \in Seq(Nat)
             /\ Len(BehindFormat) \in Nat
             /\ Len(mem) = Len(a) + Len(BehindFormat) + 2
             /\ \A i \in 1 .. Len(a) : mem[i] = a[i]
             /\ mem[Len(a) + 1] = NUL
             /\ \A i \in 1 .. Len(BehindFormat) :
                  /\ mem[Len(a) + 1 + i] = BehindFormat[i]
                  /\ BehindFormat[i] \notin {NUL, Percent}
             /\ mem[Len(a) + 1 + Len(BehindFormat) + 1] = NUL
<1> DEFINE n == <<NUL>>
           b == BehindFormat
           an == a \o n
           anb == an \o b
           mem == anb \o n
<1>1. n \in Seq(Nat) /\ Len(n) = 1 /\ n[1] = NUL
  BY DEF NUL
<1>2. b \in Seq(Nat) /\ Len(b) \in Nat /\ \A i \in 1 .. Len(b) : b[i] \notin {NUL, Percent}
  <2>1. b \in Seq(Nat \ {NUL, Percent})
    BY PrintkAssumption
  <2> HIDE DEF b
  <2> QED BY <2>1
<1> HIDE DEF n, b
<1>3. /\ an \in Seq(Nat) /\ Len(an) = Len(a) + 1 /\ Len(a) \in Nat
      /\ \A i \in 1 .. Len(a) : an[i] = a[i]
      /\ an[Len(a) + 1] = NUL
  <2>1. /\ an \in Seq(Nat) /\ Len(an) = Len(a) + Len(n) /\ Len(a) \in Nat
        /\ \A i \in 1 .. Len(a) : an[i] = a[i]
        /\ \A i \in 1 .. Len(n) : an[Len(a) + i] = n[i]
    BY <1>1, TextConcat
  <2> HIDE DEF an
  <2> QED BY <2>1, <1>1
<1> HIDE DEF an
<1>4. /\ anb \in Seq(Nat) /\ Len(anb) = Len(a) + 1 + Len(b)
      /\ \A i \in 1 .. Len(a) + 1 : anb[i] = an[i]
      /\ \A i \in 1 .. Len(b) : anb[Len(a) + 1 + i] = b[i]
  <2>1. /\ anb \in Seq(Nat) /\ Len(anb) = Len(an) + Len(b)
        /\ \A i \in 1 .. Len(an) : anb[i] = an[i]
        /\ \A i \in 1 .. Len(b) : anb[Len(an) + i] = b[i]
    BY <1>2, <1>3, TextConcat
  <2> HIDE DEF anb
  <2> QED BY <2>1, <1>3
<1> HIDE DEF anb
<1>5. /\ mem \in Seq(Nat) /\ Len(mem) = Len(a) + 1 + Len(b) + 1
      /\ \A i \in 1 .. Len(a) + 1 + Len(b) : mem[i] = anb[i]
      /\ mem[Len(a) + 1 + Len(b) + 1] = NUL
  <2>1. /\ mem \in Seq(Nat) /\ Len(mem) = Len(anb) + Len(n)
        /\ \A i \in 1 .. Len(anb) : mem[i] = anb[i]
        /\ \A i \in 1 .. Len(n) : mem[Len(anb) + i] = n[i]
    BY <1>1, <1>4, TextConcat
  <2> HIDE DEF mem
  <2> QED BY <2>1, <1>1, <1>4
<1> HIDE DEF mem
<1>6. \A i \in 1 .. Len(a) : mem[i] = a[i]
  BY <1>2, <1>3, <1>4, <1>5
<1>7. mem[Len(a) + 1] = NUL
  <2>1. Len(a) + 1 \in 1 .. Len(a) + 1 /\ Len(a) + 1 \in 1 .. Len(a) + 1 + Len(b)
    BY <1>2, <1>3
  <2>2. mem[Len(a) + 1] = anb[Len(a) + 1]
    BY <2>1, <1>5
  <2>3. anb[Len(a) + 1] = an[Len(a) + 1]
    BY <2>1, <1>4
  <2> QED BY <2>2, <2>3, <1>3
<1>8. ASSUME NEW i \in 1 .. Len(b)
      PROVE  mem[Len(a) + 1 + i] = b[i]
  <2>1. Len(a) + 1 + i \in 1 .. Len(a) + 1 + Len(b)
    BY <1>2, <1>3
  <2> QED BY <2>1, <1>4, <1>5
<1>9. mem[Len(a) + 1 + Len(b) + 1] = NUL /\ Len(mem) = Len(a) + Len(b) + 2
  BY <1>2, <1>3, <1>5
<1> QED BY <1>2, <1>5, <1>6, <1>7, <1>8, <1>9 DEF mem, anb, an, n, b

LEMMA FormatFacts ==
  ASSUME NEW f \in Formats
  PROVE  /\ Len(f) \in Nat /\ DOMAIN f = 1 .. Len(f)
         /\ Texts(f) \in Seq(Seq(Nat)) /\ Len(Texts(f)) = Len(f)
         /\ \A k \in 1 .. Len(f) : Texts(f)[k] = Text(f[k])
         /\ Meanings(f) \in Seq(Seq(Nat)) /\ Len(Meanings(f)) = Len(f)
         /\ \A k \in 1 .. Len(f) : Meanings(f)[k] = Meant(f[k])
<1>1. Len(f) \in Nat /\ DOMAIN f = 1 .. Len(f)
  BY PiecesAreGood
<1>2. \A k \in 1 .. Len(f) : Text(f[k]) \in Seq(Nat) /\ Meant(f[k]) \in Seq(Nat)
  <2>1. \A k \in 1 .. Len(f) : GoodPiece(f[k])
    BY PiecesAreGood
  <2> QED BY <2>1, TextIs, MeantIs
<1>3. Texts(f) = [k \in 1 .. Len(f) |-> Text(f[k])]
      /\ Meanings(f) = [k \in 1 .. Len(f) |-> Meant(f[k])]
  BY <1>1 DEF Texts, Meanings
<1>4. [k \in 1 .. Len(f) |-> Text(f[k])] \in Seq(Seq(Nat))
      /\ [k \in 1 .. Len(f) |-> Meant(f[k])] \in Seq(Seq(Nat))
  BY <1>1, <1>2
<1>5. Len([k \in 1 .. Len(f) |-> Text(f[k])]) = Len(f)
      /\ Len([k \in 1 .. Len(f) |-> Meant(f[k])]) = Len(f)
  BY <1>1
<1> QED BY <1>1, <1>3, <1>4, <1>5

LEMMA StartFacts ==
  ASSUME NEW f \in Formats
  PROVE  LET l == Len(Joined(Texts(f)))
         IN  /\ Joined(Texts(f)) \in Seq(Nat) /\ l \in Nat
             /\ Start(f, 1) = 1 /\ Start(f, Len(f) + 1) = l + 1
             /\ \A k \in 1 .. Len(f) + 1 : Start(f, k) \in 1 .. l + 1
<1> DEFINE J == Joins(Texts(f))
           N == Len(f)
<1>1. N \in Nat /\ Texts(f) \in Seq(Seq(Nat)) /\ Len(Texts(f)) = N
  BY FormatFacts
<1>2. /\ \A n \in 0 .. N : J[n] \in Seq(Nat) /\ Len(J[n]) \in Nat
      /\ J[0] = <<>>
  <2>1. /\ \A n \in 0 .. Len(Texts(f)) : J[n] \in Seq(Nat) /\ Len(J[n]) \in Nat
        /\ J[0] = <<>>
    <3> DEFINE t == Texts(f)
    <3>1. t \in Seq(Seq(Nat))
      BY <1>1
    <3> HIDE DEF t
    <3>2. /\ \A n \in 0 .. Len(t) : Joins(t)[n] \in Seq(Nat) /\ Len(Joins(t)[n]) \in Nat
          /\ Joins(t)[0] = <<>>
      BY <3>1, JoinsFacts
    <3> QED BY <3>2 DEF t
  <2> QED BY <2>1, <1>1
<1>3. Joined(Texts(f)) = J[N] /\ N \in 0 .. N /\ (N + 1) - 1 = N /\ 1 - 1 = 0
  BY <1>1 DEF Joined
<1>4. ASSUME NEW k \in 1 .. N + 1
      PROVE  Start(f, k) = Len(J[k - 1]) + 1 /\ Start(f, k) \in Nat \ {0}
  <2>1. Start(f, k) = Len(J[k - 1]) + 1
    BY DEF Start
  <2>2. k - 1 \in 0 .. N
    BY <1>1
  <2> HIDE DEF J
  <2> QED BY <2>1, <2>2, <1>2
<1>5. 1 \in 1 .. N + 1 /\ N + 1 \in 1 .. N + 1
  BY <1>1
<1>6. Len(J[0]) = 0
  BY <1>2
<1>7. \A n \in 0 .. N : Len(J[n]) <= Len(J[N])
  <2> DEFINE t == Texts(f)
  <2>1. t \in Seq(Seq(Nat)) /\ Len(t) = N
    BY <1>1
  <2> HIDE DEF t
  <2>2. \A n \in 0 .. Len(t) : Len(Joins(t)[n]) <= Len(Joins(t)[Len(t)])
    <3> SUFFICES ASSUME NEW n \in 0 .. Len(t)
                 PROVE  Len(Joins(t)[n]) <= Len(Joins(t)[Len(t)])
      OBVIOUS
    <3>1. Len(t) \in n .. Len(t)
      BY <2>1, <1>1
    <3> QED BY <2>1, <3>1, JoinsPrefix
  <2> QED BY <2>1, <2>2 DEF t
<1>8. \A k \in 1 .. N + 1 : Start(f, k) \in 1 .. Len(J[N]) + 1
  <2> SUFFICES ASSUME NEW k \in 1 .. N + 1
               PROVE  Start(f, k) \in 1 .. Len(J[N]) + 1
    OBVIOUS
  <2>1. k - 1 \in 0 .. N /\ N \in 0 .. N
    BY <1>1
  <2> HIDE DEF J
  <2>2. Len(J[k - 1]) \in Nat /\ Len(J[N]) \in Nat /\ Len(J[k - 1]) <= Len(J[N])
    BY <2>1, <1>2, <1>7
  <2> QED BY <2>2, <1>4
<1> HIDE DEF J, N
<1>9. Start(f, 1) = 1 /\ Start(f, N + 1) = Len(J[N]) + 1
  <2>1. Start(f, 1) = Len(J[1 - 1]) + 1
    BY <1>4, <1>5, Zenon
  <2>2. Start(f, N + 1) = Len(J[(N + 1) - 1]) + 1
    BY <1>4, <1>5, Zenon
  <2>3. (N + 1) - 1 = N /\ 1 - 1 = 0
    BY <1>3
  <2>4. Start(f, 1) = Len(J[0]) + 1 /\ Start(f, N + 1) = Len(J[N]) + 1
    BY <2>1, <2>2, <2>3, Zenon
  <2> QED BY <2>4, <1>6
<1> QED BY <1>2, <1>3, <1>9, <1>8 DEF N

(* The characters of the k-th piece. *)
LEMMA PieceAt ==
  ASSUME NEW f \in Formats, NEW k \in 1 .. Len(f)
  PROVE  LET x == f[k]
             mem == Memory(f)
             s == Start(f, k)
             ws == WidthStart(f, k)
         IN  /\ x.lit => mem[s] = x.ch /\ Start(f, k + 1) = s + 1
             /\ ~x.lit =>
                  /\ mem[s] = Percent
                  /\ x.zero => mem[s + 1] = Zero
                  /\ \A j \in 1 .. Len(x.width) : mem[ws + j - 1] = x.width[j]
                  /\ mem[ws + Len(x.width)] = x.ch
                  /\ x.ch # NUL => Start(f, k + 1) = Behind(f, k)
                  /\ x.ch = NUL => Behind(f, k) = Len(Joined(Texts(f))) + 2
<1> DEFINE x == f[k]
           mem == Memory(f)
           s == Start(f, k)
           text == Text(x)
           l == Len(Joined(Texts(f)))
<1>1. GoodPiece(x) /\ (x.ch = NUL => k = Len(f)) /\ Len(f) \in Nat
  BY PiecesAreGood
<1>2. Joined(Texts(f)) \in Seq(Nat) /\ l \in Nat /\ s \in Nat \ {0} /\ Start(f, Len(f) + 1) = l + 1
  <2>1. k \in 1 .. Len(f) + 1
    BY <1>1
  <2> QED BY <2>1, StartFacts
<1>3. (\A i \in 1 .. l : mem[i] = Joined(Texts(f))[i]) /\ mem[l + 1] = NUL
  <2> DEFINE a == Joined(Texts(f))
  <2>1. a \in Seq(Nat)
    BY <1>2
  <2> HIDE DEF a
  <2>2. LET m == a \o <<NUL>> \o BehindFormat \o <<NUL>>
        IN  (\A i \in 1 .. Len(a) : m[i] = a[i]) /\ m[Len(a) + 1] = NUL
    BY <2>1, MemoryFacts
  <2> QED BY <2>2 DEF a, Memory
<1>4. text \in Seq(Nat) /\ Len(text) \in Nat
  <2> HIDE DEF x
  <2>1. text \in Seq(Nat)
    BY <1>1, TextIs, Zenon
  <2> HIDE DEF text
  <2> QED BY <2>1
<1>5. /\ Start(f, k + 1) = s + Len(text)
      /\ s - 1 + Len(text) <= l
      /\ \A i \in 1 .. Len(text) : mem[s - 1 + i] = text[i]
  <2> DEFINE t == Texts(f)
             J == Joins(t)
  <2>1. t \in Seq(Seq(Nat)) /\ k \in 1 .. Len(t) /\ t[k] = text
    BY FormatFacts
  <2>2. Len(J[k - 1]) = s - 1 /\ Start(f, k + 1) = Len(J[k]) + 1
    <3>1. s = Len(J[k - 1]) + 1 /\ (k + 1) - 1 = k
      BY <1>1 DEF Start
    <3>2. Len(J[k - 1]) \in Nat
      <4> HIDE DEF t
      <4>1. k - 1 \in 0 .. Len(t)
        BY <2>1
      <4> QED BY <2>1, <4>1, JoinsFacts
    <3>3. Start(f, k + 1) = Len(J[(k + 1) - 1]) + 1
      BY DEF Start
    <3> HIDE DEF J, s, t
    <3> QED BY <3>1, <3>2, <3>3
  <2> HIDE DEF t, text
  <2>3. Len(J[k]) = Len(J[k - 1]) + Len(t[k]) /\ Len(J[k]) <= Len(Joined(t))
    BY <2>1, JoinsLength
  <2>4. ASSUME NEW i \in 1 .. Len(text)
        PROVE  mem[s - 1 + i] = text[i]
    <3>1. /\ Len(J[k - 1]) + i \in 1 .. Len(J[k])
          /\ Joined(t)[Len(J[k - 1]) + i] = t[k][i]
      <4>1. i \in 1 .. Len(t[k])
        BY <2>1
      <4> QED BY <2>1, <4>1, JoinsElement
    <3>2. s - 1 + i \in 1 .. l
      <4>1. Len(Joined(t)) = l
        BY DEF t
      <4> HIDE DEF s, l, J
      <4>2. Len(J[k - 1]) = s - 1 /\ Len(J[k - 1]) + i \in 1 .. Len(J[k]) /\ Len(J[k]) <= l
        BY <2>2, <2>3, <3>1, <4>1
      <4>3. Len(J[k]) \in Nat
        <5>1. k \in 0 .. Len(t)
          BY <2>1
        <5> QED BY <2>1, <5>1, JoinsFacts DEF J
      <4>4. s - 1 + i \in 1 .. Len(J[k])
        BY <4>2
      <4>5. s - 1 + i \in Int /\ 1 <= s - 1 + i /\ s - 1 + i <= Len(J[k])
        BY <4>4
      <4>6. l \in Nat
        BY <1>2
      <4> QED BY <4>2, <4>3, <4>5, <4>6
    <3> QED BY <2>1, <2>2, <3>1, <3>2, <1>3 DEF t
  <2> HIDE DEF J, s, l, mem
  <2>5. Len(Joined(t)) = l
    BY DEF t, l
  <2>6. s \in Nat
    BY <1>2
  <2>7. Start(f, k + 1) = s + Len(text) /\ s - 1 + Len(text) <= l
    BY <2>1, <2>2, <2>3, <2>5, <2>6, <1>2, <1>4
  <2> QED BY <2>4, <2>7
<1>6. CASE x.lit
  <2>1. text = <<x.ch>>
    BY <1>1, <1>6, TextIs
  <2>2. Len(text) = 1 /\ text[1] = x.ch
    BY <2>1
  <2>3. mem[s - 1 + 1] = text[1] /\ s - 1 + 1 = s
    <3>1. 1 \in 1 .. Len(text)
      BY <2>2
    <3> HIDE DEF mem, s, text
    <3> QED BY <3>1, <1>2, <1>5
  <2> HIDE DEF mem, s, text
  <2>4. mem[s] = x.ch /\ Start(f, k + 1) = s + 1
    BY <2>2, <2>3, <1>5
  <2> QED BY <1>6, <2>4 DEF mem, s
<1>7. CASE ~x.lit
  <2> DEFINE skip == IF x.zero THEN 2 ELSE 1
             n == Len(x.width)
             ws == WidthStart(f, k)
  <2>1. /\ n \in Nat
        /\ Len(text) = skip + n + (IF x.ch = NUL THEN 0 ELSE 1)
        /\ text[1] = Percent
        /\ x.zero => text[2] = Zero
        /\ \A j \in 1 .. n : text[skip + j] = x.width[j]
        /\ x.ch # NUL => text[skip + n + 1] = x.ch
    BY <1>1, <1>7, TextIs, Zenon
  <2>2. ws = s + skip /\ Behind(f, k) = ws + n + 1
    BY DEF WidthStart, Behind
  <2>3. skip \in 1 .. 2 /\ (x.zero => skip = 2)
    OBVIOUS
  <2> HIDE DEF x, mem, s, text, l, n, ws, skip
  <2>4. mem[s] = Percent
    <3>1. 1 \in 1 .. Len(text) /\ s - 1 + 1 = s
      BY <2>1, <2>3, <1>2
    <3> QED BY <3>1, <1>5, <2>1
  <2>5. x.zero => mem[s + 1] = Zero
    <3> SUFFICES ASSUME x.zero PROVE mem[s + 1] = Zero
      OBVIOUS
    <3>1. 2 \in 1 .. Len(text) /\ s - 1 + 2 = s + 1
      BY <2>1, <2>3, <1>2
    <3> QED BY <3>1, <1>5, <2>1
  <2>6. ASSUME NEW j \in 1 .. n
        PROVE  mem[ws + j - 1] = x.width[j]
    <3>1. skip + j \in 1 .. Len(text) /\ s - 1 + (skip + j) = ws + j - 1
      BY <2>1, <2>2, <2>3, <1>2
    <3> QED BY <3>1, <1>5, <2>1
  <2>7. CASE x.ch # NUL
    <3>1. skip + n + 1 \in 1 .. Len(text) /\ s - 1 + (skip + n + 1) = ws + n
      <4>1. Len(text) = skip + n + 1 /\ n \in Nat
        BY <2>1, <2>7
      <4>2. skip + n + 1 \in 1 .. Len(text)
        BY <4>1, <2>3
      <4>3. s \in Nat /\ skip \in Nat /\ ws = s + skip
        BY <1>2, <2>2, <2>3
      <4> QED BY <4>1, <4>2, <4>3
    <3>2. mem[ws + n] = x.ch
      BY <3>1, <1>5, <2>1, <2>7
    <3>3. Start(f, k + 1) = Behind(f, k)
      BY <1>2, <1>5, <2>1, <2>2, <2>3, <2>7
    <3> QED BY <1>7, <2>4, <2>5, <2>6, <2>7, <3>2, <3>3 DEF x, mem, s, ws, n
  <2>8. CASE x.ch = NUL
    <3>1. Start(f, k + 1) = l + 1
      BY <1>1, <1>2, <2>8 DEF x
    <3>2. ws + n = l + 1 /\ Behind(f, k) = l + 2
      <4>1. Len(text) = skip + n /\ n \in Nat
        BY <2>1, <2>3, <2>8
      <4>2. s \in Nat /\ skip \in Nat /\ ws = s + skip /\ Behind(f, k) = ws + n + 1
        BY <1>2, <2>2, <2>3
      <4>3. s + Len(text) = l + 1 /\ l \in Nat
        BY <1>2, <1>5, <3>1
      <4> QED BY <4>1, <4>2, <4>3
    <3>3. mem[ws + n] = x.ch
      BY <3>2, <1>3, <2>8
    <3> QED BY <1>7, <2>4, <2>5, <2>6, <2>8, <3>2, <3>3 DEF x, mem, s, ws, n, l
  <2> QED BY <2>7, <2>8
<1> QED BY <1>6, <1>7

-----------------------------------------------------------------------------
(* The arguments: which directives take one, and how many are taken before *)
(* the k-th piece.                                                         *)

Takers(f) == {n \in DOMAIN f : TakesArg(f[n])}

TakersBefore(f, k) == {m \in Takers(f) : m < k}

Taken(f, k) == Cardinality(TakersBefore(f, k))

LEMMA TakenFacts ==
  ASSUME NEW f \in Formats
  PROVE  /\ Taken(f, 1) = 0
         /\ \A k \in 1 .. Len(f) + 1 : Taken(f, k) \in 0 .. Cardinality(Takers(f))
         /\ \A k \in 1 .. Len(f) :
              Taken(f, k + 1) = Taken(f, k) + (IF TakesArg(f[k]) THEN 1 ELSE 0)
         /\ \A k, n \in Takers(f) : Taken(f, n) = Taken(f, k) => n = k
<1>1. Len(f) \in Nat /\ DOMAIN f = 1 .. Len(f)
  BY FormatFacts
<1>2. Takers(f) \subseteq 1 .. Len(f) /\ IsFiniteSet(Takers(f)) /\ Cardinality(Takers(f)) \in Nat
  <2>1. Takers(f) \subseteq 1 .. Len(f)
    BY <1>1 DEF Takers
  <2>2. IsFiniteSet(1 .. Len(f))
    BY <1>1, FS_Interval
  <2>3. IsFiniteSet(Takers(f))
    BY <2>1, <2>2, FS_Subset
  <2> QED BY <2>1, <2>3, FS_CardinalityType
<1>3. ASSUME NEW k
      PROVE  /\ IsFiniteSet(TakersBefore(f, k)) /\ Taken(f, k) \in Nat
             /\ Taken(f, k) <= Cardinality(Takers(f))
  <2>1. TakersBefore(f, k) \subseteq Takers(f)
    BY DEF TakersBefore
  <2>2. IsFiniteSet(TakersBefore(f, k)) /\ Cardinality(TakersBefore(f, k)) <= Cardinality(Takers(f))
    BY <1>2, <2>1, FS_Subset
  <2> QED BY <2>2, FS_CardinalityType DEF Taken
<1>4. \A k \in 1 .. Len(f) + 1 : Taken(f, k) \in 0 .. Cardinality(Takers(f))
  BY <1>2, <1>3
<1>5. Taken(f, 1) = 0
  <2>1. TakersBefore(f, 1) = {}
    BY <1>1, <1>2 DEF TakersBefore
  <2> QED BY <2>1, FS_EmptySet DEF Taken
<1>6. ASSUME NEW k \in Takers(f)
      PROVE  Taken(f, k + 1) = Taken(f, k) + 1
  <2>1. TakersBefore(f, k + 1) = TakersBefore(f, k) \cup {k} /\ k \notin TakersBefore(f, k)
    BY <1>1, <1>2 DEF TakersBefore
  <2>2. IsFiniteSet(TakersBefore(f, k))
    BY <1>3
  <2> QED BY <2>1, <2>2, FS_AddElement DEF Taken
<1>7. ASSUME NEW k \in 1 .. Len(f)
      PROVE  Taken(f, k + 1) = Taken(f, k) + (IF TakesArg(f[k]) THEN 1 ELSE 0)
  <2>1. CASE TakesArg(f[k])
    <3>1. k \in Takers(f)
      BY <1>1, <2>1 DEF Takers
    <3> QED BY <2>1, <3>1, <1>6
  <2>2. CASE ~TakesArg(f[k])
    <3>1. k \notin Takers(f)
      BY <2>2 DEF Takers
    <3>2. TakersBefore(f, k + 1) = TakersBefore(f, k)
      BY <1>1, <1>2, <3>1 DEF TakersBefore
    <3>3. Taken(f, k + 1) = Taken(f, k) /\ Taken(f, k) \in Nat
      BY <3>2, <1>3 DEF Taken
    <3> QED BY <2>2, <3>3
  <2> QED BY <2>1, <2>2
<1>8. ASSUME NEW k \in Takers(f), NEW n \in Takers(f), n < k
      PROVE  Taken(f, n) # Taken(f, k)
  <2>1. TakersBefore(f, n + 1) \subseteq TakersBefore(f, k)
    BY <1>1, <1>2, <1>8 DEF TakersBefore
  <2>2. IsFiniteSet(TakersBefore(f, k))
    BY <1>3
  <2>3. Taken(f, n + 1) <= Taken(f, k)
    BY <2>1, <2>2, FS_Subset DEF Taken
  <2>4. Taken(f, n + 1) = Taken(f, n) + 1 /\ Taken(f, n) \in Nat /\ Taken(f, k) \in Nat
    BY <1>3, <1>6
  <2> QED BY <2>3, <2>4
<1>9. \A k, n \in Takers(f) : Taken(f, n) = Taken(f, k) => n = k
  <2> SUFFICES ASSUME NEW k \in Takers(f), NEW n \in Takers(f), Taken(f, n) = Taken(f, k), n # k
               PROVE  FALSE
    OBVIOUS
  <2>1. n < k \/ k < n
    BY <1>1, <1>2
  <2> QED BY <2>1, <1>8
<1> QED BY <1>4, <1>5, <1>7, <1>9

-----------------------------------------------------------------------------
(* The inductive invariant. *)

FormatInMemory == pieces \in Formats /\ fmt = Memory(pieces)

(* The pieces before the k-th are printed, and their arguments are taken. *)
AtPiece(k) ==
  /\ p = Start(pieces, k)
  /\ out = Joins(Meanings(pieces))[k - 1]
  /\ va = Taken(pieces, k)

(* The format ended within a directive; all its pieces and m characters of *)
(* those behind it are printed.                                            *)
AtBehind(m) ==
  /\ Unfinished
  /\ p = Len(Format) + 2 + m
  /\ out = Joined(Meanings(pieces)) \o [i \in 1 .. m |-> BehindFormat[i]]

(* In the directive that is the k-th piece, j characters of its field      *)
(* width are read, and ch is the next.                                     *)
InDirective(k, j) ==
  /\ ~pieces[k].lit
  /\ out = Joins(Meanings(pieces))[k - 1]
  /\ p = WidthStart(pieces, k) + j + 1 /\ ch = fmt[p - 1]
  /\ lz = pieces[k].zero
  /\ w = Widths(pieces[k])[j]

AllRead(k) == InDirective(k, Len(pieces[k].width))

Scans ==
  pc = "scan" =>
    \/ \E k \in 1 .. Len(pieces) + 1 :
         AtPiece(k) /\ (k = Len(pieces) + 1 => ~Unfinished)
    \/ \E m \in 0 .. Len(BehindFormat) : AtBehind(m)

ReadsWidth ==
  pc = "width" =>
    \E k \in 1 .. Len(pieces) :
      /\ pieces[k].width # <<>> /\ va = Taken(pieces, k)
      /\ \E j \in 0 .. Len(pieces[k].width) : InDirective(k, j)

ReadsConversion ==
  pc = "convert" => \E k \in 1 .. Len(pieces) : AllRead(k) /\ va = Taken(pieces, k)

ConvertsNumber ==
  IF pc = "number"
  THEN \E k \in 1 .. Len(pieces) :
         /\ AllRead(k) /\ va = Taken(pieces, k + 1)
         /\ pieces[k].ch \in Numeric
         /\ base = Base(pieces[k]) /\ uc = Upper(pieces[k])
         /\ Converts(Magnitude(pieces[k]), Sign(pieces[k]))
  ELSE loop = "none"

(* The scan's place, *)
Position ==
  /\ p \in 1 .. Len(fmt) + 1 /\ va \in 0 .. Cardinality(Args)
  /\ p - 1 <= Len(Format) + 1 \/ Unfinished
  /\ FormatInMemory /\ PrintsFormat /\ Scans /\ ReadsWidth /\ ReadsConversion

(* and the other variables. *)
Locals ==
  /\ pc \in {"scan", "width", "convert", "number", "done"}
  /\ ch \in {fmt[n] : n \in DOMAIN fmt} \cup {NUL}
  /\ lz \in BOOLEAN /\ w \in Nat
  /\ FormatTypeOK
  /\ bf \in Seq(Nat) /\ Len(bf) + 1 <= BufSize
  /\ loop = "grow" => d # 0 /\ d <= num + 1
  /\ ConvertsNumber

IInv == Position /\ Locals

LEMMA Implied == IInv => TypeOK /\ StaysInBounds /\ PrintsFormat
BY DEF IInv, Position, Locals, TypeOK, StaysInBounds

-----------------------------------------------------------------------------
(* What the format in memory looks like from where the scan is. *)

LEMMA InMemory ==
  ASSUME FormatInMemory
  PROVE  LET l == Len(Format)
             b == Len(BehindFormat)
         IN  /\ Format = Joined(Texts(pieces)) /\ Args = Takers(pieces)
             /\ l \in Nat /\ b \in Nat
             /\ fmt \in Seq(Nat) /\ Len(fmt) = l + b + 2
             /\ fmt[l + 1] = NUL /\ fmt[l + 1 + b + 1] = NUL
             /\ \A i \in 1 .. b : /\ fmt[l + 1 + i] = BehindFormat[i]
                                  /\ BehindFormat[i] \notin {NUL, Percent}
<1> DEFINE a == Joined(Texts(pieces))
<1>1. pieces \in Formats /\ fmt = a \o <<NUL>> \o BehindFormat \o <<NUL>>
  BY DEF FormatInMemory, Memory
<1>2. Format = a /\ Args = Takers(pieces)
  BY DEF Format, Texts, Args, Takers
<1>3. a \in Seq(Nat)
  BY <1>1, StartFacts
<1> HIDE DEF a
<1> DEFINE mem == a \o <<NUL>> \o BehindFormat \o <<NUL>>
<1>4. /\ mem \in Seq(Nat) /\ Len(a) \in Nat /\ Len(BehindFormat) \in Nat
      /\ Len(mem) = Len(a) + Len(BehindFormat) + 2
      /\ mem[Len(a) + 1] = NUL
      /\ \A i \in 1 .. Len(BehindFormat) :
           /\ mem[Len(a) + 1 + i] = BehindFormat[i]
           /\ BehindFormat[i] \notin {NUL, Percent}
      /\ mem[Len(a) + 1 + Len(BehindFormat) + 1] = NUL
  <2>1. Len(a) \in Nat
    BY <1>3
  <2> QED BY <1>3, <2>1, MemoryFacts, Zenon
<1> HIDE DEF mem
<1>5. fmt = mem
  BY <1>1 DEF mem
<1> QED BY <1>2, <1>4, <1>5 DEF a

LEMMA BehindFacts ==
  ASSUME NEW f \in Formats, NEW k \in 1 .. Len(f), ~f[k].lit
  PROVE  LET l == Len(Joined(Texts(f)))
         IN  /\ WidthStart(f, k) \in Nat \ {0} /\ Len(f[k].width) \in Nat
             /\ Behind(f, k) \in 2 .. l + 2
<1> DEFINE x == f[k]
           l == Len(Joined(Texts(f)))
<1>1. GoodPiece(x) /\ (x.ch = NUL => k = Len(f)) /\ Len(f) \in Nat
  BY PiecesAreGood
<1>2. k \in 1 .. Len(f) + 1 /\ k + 1 \in 1 .. Len(f) + 1
  BY <1>1
<1>3. Start(f, k) \in 1 .. l + 1 /\ Start(f, k + 1) \in 1 .. l + 1 /\ l \in Nat
  BY <1>2, StartFacts
<1>4. Len(x.width) \in Nat
  BY <1>1 DEF GoodPiece
<1>5. WidthStart(f, k) \in Nat \ {0}
  BY <1>3 DEF WidthStart
<1>6. CASE x.ch # NUL
  <2>1. Start(f, k + 1) = Behind(f, k)
    BY <1>6, PieceAt, Zenon
  <2>2. Behind(f, k) = WidthStart(f, k) + Len(x.width) + 1
    BY DEF Behind
  <2> HIDE DEF x, l
  <2>3. Behind(f, k) \in 2 .. l + 2
    BY <1>3, <1>4, <1>5, <2>1, <2>2
  <2> QED BY <1>4, <1>5, <2>3 DEF x, l
<1>7. CASE x.ch = NUL
  <2>1. Behind(f, k) = l + 2
    BY <1>7, PieceAt, Zenon
  <2> HIDE DEF x, l
  <2>2. Behind(f, k) \in 2 .. l + 2
    BY <1>3, <2>1
  <2> QED BY <1>4, <1>5, <2>2 DEF x, l
<1> QED BY <1>6, <1>7

LEMMA MeaningsJoin ==
  ASSUME NEW f \in Formats
  PROVE  /\ Joins(Meanings(f))[0] = <<>>
         /\ \A k \in 0 .. Len(f) : Joins(Meanings(f))[k] \in Seq(Nat)
         /\ \A k \in 1 .. Len(f) :
              Joins(Meanings(f))[k] = Joins(Meanings(f))[k - 1] \o Meant(f[k])
         /\ Joined(Meanings(f)) = Joins(Meanings(f))[Len(f)]
<1> DEFINE t == Meanings(f)
<1>1. t \in Seq(Seq(Nat)) /\ Len(t) = Len(f) /\ \A k \in 1 .. Len(f) : t[k] = Meant(f[k])
  BY FormatFacts
<1> HIDE DEF t
<1>2. /\ Joins(t)[0] = <<>>
      /\ \A k \in 0 .. Len(t) : Joins(t)[k] \in Seq(Nat)
      /\ \A k \in 1 .. Len(t) : Joins(t)[k] = Joins(t)[k - 1] \o t[k]
  BY <1>1, JoinsFacts
<1>3. Joined(t) = Joins(t)[Len(t)]
  BY DEF Joined
<1>4. \A k \in 1 .. Len(f) : Joins(t)[k] = Joins(t)[k - 1] \o Meant(f[k])
  BY <1>1, <1>2, Zenon
<1> QED BY <1>1, <1>2, <1>3, <1>4, Zenon DEF t

-----------------------------------------------------------------------------
(* Where a step can lead the scan. *)

LEMMA Stays ==
  ASSUME FormatInMemory, UNCHANGED <<pieces, fmt>>
  PROVE  FormatInMemory' /\ Format' = Format /\ Args' = Args /\ Unfinished' = Unfinished
BY DEF FormatInMemory, Format, Args, Unfinished

LEMMA LandsAtPiece ==
  ASSUME FormatInMemory, UNCHANGED <<pieces, fmt>>, pc' = "scan",
         NEW k \in 1 .. Len(pieces) + 1,
         p' = Start(pieces, k), out' = Joins(Meanings(pieces))[k - 1], va' = Taken(pieces, k),
         k = Len(pieces) + 1 => ~Unfinished
  PROVE  Position'
<1>1. FormatInMemory' /\ Format' = Format /\ Args' = Args /\ Unfinished' = Unfinished
  BY Stays
<1>2. pieces' = pieces /\ fmt' = fmt
  OBVIOUS
<1>3. pieces \in Formats
  BY DEF FormatInMemory
<1>4. p' \in 1 .. Len(Format) + 1 /\ Len(Format) \in Nat /\ Len(BehindFormat) \in Nat
      /\ Len(fmt) = Len(Format) + Len(BehindFormat) + 2
  BY <1>3, StartFacts, InMemory
<1>5. p' \in 1 .. Len(fmt') + 1 /\ p' - 1 <= Len(Format') + 1
  BY <1>1, <1>2, <1>4
<1>6. va' \in 0 .. Cardinality(Args')
  BY <1>1, <1>3, TakenFacts, InMemory
<1>7. AtPiece(k)' /\ (k = Len(pieces') + 1 => ~Unfinished')
  BY <1>1, <1>2 DEF AtPiece
<1>8. Scans'
  BY <1>2, <1>7, Zenon DEF Scans
<1>9. ReadsWidth' /\ ReadsConversion' /\ PrintsFormat'
  BY DEF ReadsWidth, ReadsConversion, PrintsFormat
<1> QED BY <1>1, <1>5, <1>6, <1>8, <1>9 DEF Position

LEMMA LandsBehind ==
  ASSUME FormatInMemory, UNCHANGED <<pieces, fmt>>, pc' = "scan", Unfinished,
         NEW m \in 0 .. Len(BehindFormat),
         p' = Len(Format) + 2 + m,
         out' = Joined(Meanings(pieces)) \o [i \in 1 .. m |-> BehindFormat[i]],
         va' \in 0 .. Cardinality(Args)
  PROVE  Position'
<1>1. FormatInMemory' /\ Format' = Format /\ Args' = Args /\ Unfinished' = Unfinished
  BY Stays
<1>2. pieces' = pieces /\ fmt' = fmt
  OBVIOUS
<1>3. Len(Format) \in Nat /\ Len(BehindFormat) \in Nat
      /\ Len(fmt) = Len(Format) + Len(BehindFormat) + 2
  BY InMemory
<1>4. p' \in 1 .. Len(fmt') + 1
  BY <1>2, <1>3
<1>5. AtBehind(m)'
  BY <1>1, <1>2 DEF AtBehind
<1>6. Scans'
  BY <1>5, Zenon DEF Scans
<1>7. ReadsWidth' /\ ReadsConversion' /\ PrintsFormat'
  BY DEF ReadsWidth, ReadsConversion, PrintsFormat
<1>8. va' \in 0 .. Cardinality(Args')
  BY <1>1
<1> QED BY <1>1, <1>4, <1>6, <1>7, <1>8 DEF Position

LEMMA LandsInDirective ==
  ASSUME FormatInMemory, UNCHANGED <<pieces, fmt>>, NEW k \in 1 .. Len(pieces),
         NEW j \in 0 .. Len(pieces[k].width), InDirective(k, j)',
         \/ pc' = "width" /\ va' = Taken(pieces, k) /\ pieces[k].width # <<>>
         \/ pc' = "convert" /\ va' = Taken(pieces, k) /\ j = Len(pieces[k].width)
         \/ pc' = "number" /\ va' = Taken(pieces, k + 1)
  PROVE  Position'
<1>1. FormatInMemory' /\ Format' = Format /\ Args' = Args /\ Unfinished' = Unfinished
  BY Stays
<1>2. pieces' = pieces /\ fmt' = fmt
  OBVIOUS
<1>3. pieces \in Formats
  BY DEF FormatInMemory
<1>4. ~pieces[k].lit /\ p' = WidthStart(pieces, k) + j + 1
  BY <1>2 DEF InDirective
<1>5. /\ WidthStart(pieces, k) \in Nat \ {0} /\ Len(pieces[k].width) \in Nat
      /\ Behind(pieces, k) \in 2 .. Len(Format) + 2
      /\ Len(Format) \in Nat /\ Len(BehindFormat) \in Nat
      /\ Len(fmt) = Len(Format) + Len(BehindFormat) + 2
  BY <1>3, <1>4, BehindFacts, InMemory
<1>6. Behind(pieces, k) = WidthStart(pieces, k) + Len(pieces[k].width) + 1
  BY DEF Behind
<1>7. p' \in 1 .. Len(Format) + 2
  <2> DEFINE n == Len(pieces[k].width)
             ws == WidthStart(pieces, k)
             q == p'
  <2>1. j \in 0 .. n /\ n \in Nat /\ ws \in Nat /\ ws + n + 1 <= Len(Format) + 2
        /\ q = ws + j + 1 /\ Len(Format) \in Nat
    BY <1>4, <1>5, <1>6
  <2> HIDE DEF n, ws, q
  <2>2. q \in 1 .. Len(Format) + 2
    BY <2>1
  <2> QED BY <2>2 DEF q
<1>8. p' \in 1 .. Len(fmt') + 1 /\ p' - 1 <= Len(Format') + 1
  BY <1>1, <1>2, <1>5, <1>7
<1>9. va' \in 0 .. Cardinality(Args')
  <2>1. Len(pieces) \in Nat
    BY <1>3, FormatFacts
  <2>2. k \in 1 .. Len(pieces) + 1 /\ k + 1 \in 1 .. Len(pieces) + 1
    BY <2>1
  <2> QED BY <1>1, <1>3, <2>2, TakenFacts, InMemory
<1>10. Scans' /\ PrintsFormat'
  BY DEF Scans, PrintsFormat
<1>11. ReadsWidth'
  BY <1>2, Zenon DEF ReadsWidth
<1>12. ReadsConversion'
  <2>1. CASE pc' = "convert"
    <3>1. AllRead(k)' /\ va' = Taken(pieces', k)
      BY <1>2, <2>1 DEF AllRead
    <3> QED BY <1>2, <3>1, Zenon DEF ReadsConversion
  <2>2. CASE pc' # "convert"
    BY <2>2 DEF ReadsConversion
  <2> QED BY <2>1, <2>2
<1> QED BY <1>1, <1>8, <1>9, <1>10, <1>11, <1>12 DEF Position

(* Behind a directive, when what it means is printed. *)
LEMMA LandsBehindDirective ==
  ASSUME FormatInMemory, UNCHANGED <<pieces, fmt>>, pc' = "scan",
         NEW k \in 1 .. Len(pieces), AllRead(k), p' = p,
         out' = out \o Meant(pieces[k]), va' = Taken(pieces, k + 1)
  PROVE  Position'
<1> DEFINE x == pieces[k]
<1>1. pieces \in Formats
  BY DEF FormatInMemory
<1>2. GoodPiece(x) /\ Len(pieces) \in Nat /\ (x.ch = NUL => k = Len(pieces))
  BY <1>1, PiecesAreGood
<1>3. ~x.lit /\ p' = Behind(pieces, k) /\ out = Joins(Meanings(pieces))[k - 1]
  BY DEF AllRead, InDirective, Behind
<1>4. out' = Joins(Meanings(pieces))[k]
  BY <1>1, <1>3, MeaningsJoin
<1>5. CASE x.ch # NUL
  <2>1. p' = Start(pieces, k + 1)
    BY <1>1, <1>3, <1>5, PieceAt, Zenon
  <2>2. k + 1 \in 1 .. Len(pieces) + 1 /\ (k + 1) - 1 = k
    BY <1>2
  <2>3. k + 1 = Len(pieces) + 1 => ~Unfinished
    BY <1>2, <1>5 DEF Unfinished
  <2>4. out' = Joins(Meanings(pieces))[(k + 1) - 1]
    BY <1>4, <2>2
  <2> QED BY <2>1, <2>2, <2>3, <2>4, LandsAtPiece
<1>6. CASE x.ch = NUL
  <2>1. p' = Len(Format) + 2 + 0
    <3>1. Behind(pieces, k) = Len(Joined(Texts(pieces))) + 2
      BY <1>1, <1>3, <1>6, PieceAt, Zenon
    <3> QED BY <1>3, <3>1, InMemory
  <2>2. k = Len(pieces) /\ Unfinished
    BY <1>2, <1>6, <1>1, FormatFacts DEF Unfinished
  <2> DEFINE a == Joined(Meanings(pieces))
  <2>3. a \in Seq(Nat) /\ out' = a
    <3>1. a = Joins(Meanings(pieces))[k]
      BY <1>1, <2>2, MeaningsJoin
    <3>2. k \in 0 .. Len(pieces)
      BY <1>2
    <3> HIDE DEF a
    <3> QED BY <1>1, <1>4, <3>1, <3>2, MeaningsJoin
  <2> HIDE DEF a
  <2>4. [i \in 1 .. 0 |-> BehindFormat[i]] = <<>>
    OBVIOUS
  <2>5. out' = a \o [i \in 1 .. 0 |-> BehindFormat[i]]
    BY <2>3, <2>4, ConcatEmptySeq
  <2>6. 0 \in 0 .. Len(BehindFormat)
    BY InMemory
  <2>7. va' \in 0 .. Cardinality(Args)
    <3>1. k + 1 \in 1 .. Len(pieces) + 1
      BY <1>2
    <3> QED BY <1>1, <3>1, TakenFacts, InMemory
  <2> QED BY <2>1, <2>2, <2>5, <2>6, <2>7, LandsBehind DEF a
<1> QED BY <1>5, <1>6

-----------------------------------------------------------------------------
(* The steps. *)

LEMMA AtPieceChar ==
  ASSUME FormatInMemory, NEW k \in 1 .. Len(pieces) + 1, AtPiece(k)
  PROVE  /\ fmt[p] = NUL => k = Len(pieces) + 1
         /\ fmt[p] = Percent => k \in 1 .. Len(pieces) /\ ~pieces[k].lit
         /\ fmt[p] \notin {NUL, Percent} =>
              k \in 1 .. Len(pieces) /\ pieces[k].lit /\ fmt[p] = pieces[k].ch
<1> DEFINE x == pieces[k]
           c == fmt[p]
<1>1. pieces \in Formats /\ fmt = Memory(pieces) /\ p = Start(pieces, k)
  BY DEF FormatInMemory, AtPiece
<1>2. Len(pieces) \in Nat
  BY <1>1, FormatFacts
<1>3. NUL # Percent
  BY Letters
<1>4. CASE k = Len(pieces) + 1
  <2>1. p = Len(Format) + 1
    <3>1. Start(pieces, Len(pieces) + 1) = Len(Joined(Texts(pieces))) + 1
      BY <1>1, StartFacts
    <3> QED BY <1>1, <1>4, <3>1, InMemory
  <2>2. c = NUL
    BY <2>1, InMemory
  <2> QED BY <1>3, <1>4, <2>2
<1>5. CASE k # Len(pieces) + 1
  <2>1. k \in 1 .. Len(pieces)
    BY <1>2, <1>5
  <2>2. x.lit \in BOOLEAN /\ (x.lit => x.ch \notin {NUL, Percent})
    <3>1. GoodPiece(x)
      BY <1>1, <2>1, PiecesAreGood
    <3> QED BY <3>1 DEF GoodPiece
  <2>3. (x.lit => c = x.ch) /\ (~x.lit => c = Percent)
    BY <1>1, <2>1, PieceAt, Zenon
  <2> HIDE DEF x, c
  <2>4. /\ c # NUL
        /\ c = Percent => ~x.lit
        /\ c \notin {NUL, Percent} => x.lit /\ c = x.ch
    BY <1>3, <2>2, <2>3
  <2> QED BY <2>1, <2>4, Zenon DEF x, c
<1> QED BY <1>4, <1>5

LEMMA AtBehindChar ==
  ASSUME FormatInMemory, NEW m \in 0 .. Len(BehindFormat), AtBehind(m)
  PROVE  /\ fmt[p] # Percent
         /\ fmt[p] = NUL => m = Len(BehindFormat)
         /\ fmt[p] # NUL => m + 1 \in 1 .. Len(BehindFormat) /\ fmt[p] = BehindFormat[m + 1]
<1> DEFINE l == Len(Format)
           b == Len(BehindFormat)
<1>1. p = l + 2 + m /\ l \in Nat /\ b \in Nat
  BY InMemory DEF AtBehind
<1>2. NUL # Percent
  BY Letters
<1>3. CASE m = b
  <2>1. p = l + 1 + b + 1
    BY <1>1, <1>3
  <2>2. fmt[p] = NUL
    BY <2>1, InMemory
  <2> QED BY <1>2, <1>3, <2>2
<1>4. CASE m # b
  <2>1. m + 1 \in 1 .. b /\ p = l + 1 + (m + 1)
    BY <1>1, <1>4
  <2>2. fmt[l + 1 + (m + 1)] = BehindFormat[m + 1] /\ BehindFormat[m + 1] \notin {NUL, Percent}
    BY <2>1, InMemory
  <2> QED BY <2>1, <2>2
<1> QED BY <1>3, <1>4

LEMMA LocalsStay ==
  ASSUME Locals, UNCHANGED <<fmt, format_vars>>, pc # "number",
         pc' \in {"scan", "width", "convert", "done"},
         ch' \in {fmt[n] : n \in DOMAIN fmt} \cup {NUL}, lz' \in BOOLEAN, w' \in Nat
  PROVE  Locals'
<1>1. UNCHANGED <<num, base, uc, d, bf, loop>> /\ fmt' = fmt
  BY DEF format_vars
<1>2. ConvertsNumber'
  BY <1>1 DEF Locals, ConvertsNumber
<1>3. FormatTypeOK'
  BY <1>1 DEF Locals, FormatTypeOK
<1>4. ch' \in {fmt'[n] : n \in DOMAIN fmt'} \cup {NUL}
  BY <1>1
<1>5. bf' \in Seq(Nat) /\ Len(bf') + 1 <= BufSize /\ (loop' = "grow" => d' # 0 /\ d' <= num' + 1)
  BY <1>1 DEF Locals
<1> QED BY <1>2, <1>3, <1>4, <1>5 DEF Locals

LEMMA EndStep ==
  ASSUME IInv, End
  PROVE  IInv'
<1>1. /\ pc = "scan" /\ fmt[p] = NUL /\ p' = p + 1 /\ pc' = "done"
      /\ UNCHANGED <<pieces, fmt, ch, lz, w, va, out, format_vars>>
  BY DEF End
<1>2. FormatInMemory /\ Scans /\ Locals /\ va \in 0 .. Cardinality(Args)
  BY DEF IInv, Position
<1>3. Locals'
  BY <1>1, <1>2, LocalsStay DEF Locals
<1>4. FormatInMemory' /\ Format' = Format /\ Args' = Args /\ Unfinished' = Unfinished
  BY <1>1, <1>2, Stays
<1>5. pieces \in Formats
  BY <1>2 DEF FormatInMemory
<1> DEFINE a == Joined(Meanings(pieces))
           l == Len(Format)
           b == Len(BehindFormat)
<1>6. a \in Seq(Nat) /\ BehindFormat \in Seq(Nat) /\ l \in Nat /\ b \in Nat /\ Len(fmt) = l + b + 2
  <2>1. Len(pieces) \in 0 .. Len(pieces)
    BY <1>5, FormatFacts
  <2>2. a \in Seq(Nat)
    BY <1>5, <2>1, MeaningsJoin
  <2>3. BehindFormat \in Seq(Nat)
    BY PrintkAssumption
  <2> QED BY <1>2, <2>2, <2>3, InMemory
<1>7. /\ p + 1 \in 1 .. l + b + 3
      /\ p <= l + 1 \/ Unfinished
      /\ out = a \o (IF Unfinished THEN BehindFormat ELSE <<>>)
  <2>1. CASE \E k \in 1 .. Len(pieces) + 1 :
               AtPiece(k) /\ (k = Len(pieces) + 1 => ~Unfinished)
    <3>1. PICK k \in 1 .. Len(pieces) + 1 :
                 AtPiece(k) /\ (k = Len(pieces) + 1 => ~Unfinished)
      BY <2>1
    <3>2. k = Len(pieces) + 1 /\ ~Unfinished
      BY <1>1, <1>2, <3>1, AtPieceChar
    <3>3. p = l + 1
      <4>1. Start(pieces, Len(pieces) + 1) = Len(Joined(Texts(pieces))) + 1
        BY <1>5, StartFacts
      <4> QED BY <1>2, <3>1, <3>2, <4>1, InMemory DEF AtPiece
    <3>4. out = a
      <4>1. k - 1 = Len(pieces)
        BY <3>2, <1>5, FormatFacts
      <4> QED BY <1>5, <3>1, <4>1, MeaningsJoin DEF AtPiece
    <3> HIDE DEF a, l, b
    <3>5. a \o <<>> = a
      BY <1>6, ConcatEmptySeq
    <3> QED BY <1>6, <3>2, <3>3, <3>4, <3>5
  <2>2. CASE \E m \in 0 .. Len(BehindFormat) : AtBehind(m)
    <3>1. PICK m \in 0 .. Len(BehindFormat) : AtBehind(m)
      BY <2>2
    <3>2. m = b
      BY <1>1, <1>2, <3>1, AtBehindChar
    <3>3. /\ Unfinished /\ p = l + 2 + b
          /\ out = a \o [i \in 1 .. b |-> BehindFormat[i]]
      BY <3>1, <3>2 DEF AtBehind
    <3>4. [i \in 1 .. b |-> BehindFormat[i]] = BehindFormat
      BY <1>6
    <3>5. out = a \o (IF Unfinished THEN BehindFormat ELSE <<>>)
      BY <3>3, <3>4, Zenon
    <3>6. p + 1 \in 1 .. l + b + 3
      <4> HIDE DEF l, b
      <4> QED BY <1>6, <3>3
    <3> QED BY <3>3, <3>5, <3>6
  <2> QED BY <1>1, <1>2, <2>1, <2>2 DEF Scans
<1>8. PrintsFormat'
  <2>1. out' = Joined(Meanings(pieces')) \o (IF Unfinished' THEN BehindFormat ELSE <<>>)
    BY <1>1, <1>4, <1>7
  <2> QED BY <2>1 DEF PrintsFormat, Meanings
<1>9. Scans' /\ ReadsWidth' /\ ReadsConversion'
  BY <1>1 DEF Scans, ReadsWidth, ReadsConversion
<1>10. p' \in 1 .. Len(fmt') + 1 /\ (p' - 1 <= Len(Format') + 1 \/ Unfinished')
  <2> DEFINE q == p'
  <2>1. q = p + 1 /\ p \in Int
    BY <1>1 DEF IInv, Position
  <2>2. fmt' = fmt /\ Len(fmt) + 1 = l + b + 3
    BY <1>1, <1>6
  <2> HIDE DEF l, b, q
  <2>3. q \in 1 .. l + b + 3 /\ (q - 1 <= l + 1 \/ Unfinished)
    BY <2>1, <1>7
  <2> QED BY <1>4, <2>2, <2>3 DEF q, l
<1>11. va' \in 0 .. Cardinality(Args')
  BY <1>1, <1>2, <1>4
<1> QED BY <1>3, <1>4, <1>8, <1>9, <1>10, <1>11 DEF IInv, Position

LEMMA CharStep ==
  ASSUME IInv, Char
  PROVE  IInv'
<1>1. /\ pc = "scan" /\ fmt[p] \notin {NUL, Percent} /\ p' = p + 1 /\ pc' = "scan"
      /\ out' = Append(out, fmt[p])
      /\ UNCHANGED <<pieces, fmt, ch, lz, w, va, format_vars>>
  BY DEF Char
<1>2. FormatInMemory /\ Scans /\ Locals /\ va \in 0 .. Cardinality(Args)
  BY DEF IInv, Position
<1>3. Locals'
  BY <1>1, <1>2, LocalsStay DEF Locals
<1>4. pieces \in Formats /\ Len(pieces) \in Nat
  BY <1>2, FormatFacts DEF FormatInMemory
<1>5. Position'
  <2>1. CASE \E k \in 1 .. Len(pieces) + 1 :
               AtPiece(k) /\ (k = Len(pieces) + 1 => ~Unfinished)
    <3>1. PICK k \in 1 .. Len(pieces) + 1 :
                 AtPiece(k) /\ (k = Len(pieces) + 1 => ~Unfinished)
      BY <2>1
    <3> DEFINE x == pieces[k]
               J == Joins(Meanings(pieces))
    <3>2. k \in 1 .. Len(pieces) /\ x.lit /\ fmt[p] = x.ch
      BY <1>1, <1>2, <3>1, AtPieceChar, Zenon
    <3>3. GoodPiece(x)
      BY <1>4, <3>2, PiecesAreGood
    <3>4. x.ch \in Nat /\ x.ch # NUL /\ Meant(x) = <<x.ch>>
      BY <3>2, <3>3, MeantIs DEF GoodPiece
    <3>5. ~TakesArg(x)
      BY <3>2 DEF TakesArg
    <3>6. p' = Start(pieces, k + 1)
      <4>1. Start(pieces, k + 1) = Start(pieces, k) + 1
        BY <1>4, <3>2, PieceAt, Zenon
      <4> QED BY <1>1, <3>1, <4>1 DEF AtPiece
    <3>7. va' = Taken(pieces, k + 1)
      <4>1. Taken(pieces, k + 1) = Taken(pieces, k) + 0
        BY <1>4, <3>2, <3>5, TakenFacts
      <4>2. va \in Int /\ va = Taken(pieces, k) /\ va' = va
        BY <1>1, <1>2, <3>1 DEF AtPiece
      <4> QED BY <4>1, <4>2
    <3>8. out' = J[k]
      <4> DEFINE c == x.ch
                 a == J[k - 1]
      <4>1. c \in Nat /\ a \in Seq(Nat) /\ J[k] = a \o <<c>>
        <5>1. k - 1 \in 0 .. Len(pieces)
          BY <1>4, <3>2
        <5>2. a \in Seq(Nat)
          BY <1>4, <5>1, MeaningsJoin
        <5>3. J[k] = a \o Meant(x)
          BY <1>4, <3>2, MeaningsJoin
        <5> QED BY <3>4, <5>2, <5>3
      <4>2. out' = Append(a, c)
        BY <1>1, <3>1, <3>2 DEF AtPiece
      <4> HIDE DEF a, c, J
      <4>3. Append(a, c) = a \o <<c>>
        BY <4>1, AppendIsConcat
      <4> QED BY <4>1, <4>2, <4>3
    <3>9. k + 1 = Len(pieces) + 1 => ~Unfinished
      BY <1>4, <3>2, <3>4 DEF Unfinished
    <3>10. k + 1 \in 1 .. Len(pieces) + 1 /\ (k + 1) - 1 = k
      BY <1>4, <3>2
    <3>11. out' = J[(k + 1) - 1]
      BY <3>8, <3>10
    <3> QED BY <1>1, <1>2, <3>6, <3>7, <3>9, <3>10, <3>11, LandsAtPiece
  <2>2. CASE \E m \in 0 .. Len(BehindFormat) : AtBehind(m)
    <3>1. PICK m \in 0 .. Len(BehindFormat) : AtBehind(m)
      BY <2>2
    <3>2. m + 1 \in 1 .. Len(BehindFormat) /\ fmt[p] = BehindFormat[m + 1]
      BY <1>1, <1>2, <3>1, AtBehindChar
    <3> DEFINE a == Joined(Meanings(pieces))
               bm == [i \in 1 .. m |-> BehindFormat[i]]
               bm1 == [i \in 1 .. m + 1 |-> BehindFormat[i]]
               c == BehindFormat[m + 1]
    <3>3. Unfinished /\ p = Len(Format) + 2 + m /\ out = a \o bm
      BY <3>1 DEF AtBehind
    <3>4. a \in Seq(Nat)
      <4>1. Len(pieces) \in 0 .. Len(pieces)
        BY <1>4
      <4> QED BY <1>4, <4>1, MeaningsJoin
    <3>5. bm \in Seq(Nat) /\ c \in Nat /\ bm1 = Append(bm, c)
      <4> DEFINE B == BehindFormat
      <4>1. B \in Seq(Nat)
        BY PrintkAssumption
      <4> HIDE DEF B
      <4>2. m \in Nat /\ \A i \in 1 .. m + 1 : i \in 1 .. Len(B)
        BY <3>2, <4>1 DEF B
      <4>3. \A i \in 1 .. m + 1 : B[i] \in Nat
        BY <4>1, <4>2
      <4> DEFINE f == [i \in 1 .. m |-> B[i]]
                 g == [i \in 1 .. m + 1 |-> B[i]]
                 e == B[m + 1]
      <4>4. f \in Seq(Nat) /\ Len(f) = m /\ g \in Seq(Nat) /\ Len(g) = m + 1 /\ e \in Nat
        BY <4>2, <4>3
      <4>5. Append(f, e) \in Seq(Nat) /\ Len(Append(f, e)) = m + 1
        BY <4>2, <4>4
      <4>6. \A i \in 1 .. m + 1 : g[i] = Append(f, e)[i]
        BY <4>2, <4>3, <4>4
      <4>7. g = Append(f, e)
        <5> HIDE DEF f, g, e
        <5> QED BY <4>4, <4>5, <4>6, SeqEqual
      <4> QED BY <4>4, <4>7 DEF B
    <3>6. out' = a \o bm1
      <4> HIDE DEF a, bm, bm1, c
      <4>1. out' = Append(a \o bm, c)
        BY <1>1, <3>2, <3>3 DEF c
      <4>2. Append(a \o bm, c) = a \o Append(bm, c)
        BY <3>4, <3>5, AppendToBoth
      <4> QED BY <4>1, <4>2, <3>5
    <3>7. p' = Len(Format) + 2 + (m + 1) /\ m + 1 \in 0 .. Len(BehindFormat)
      BY <1>1, <1>2, <3>2, <3>3, InMemory
    <3>8. va' \in 0 .. Cardinality(Args)
      BY <1>1, <1>2
    <3> QED BY <1>1, <1>2, <3>3, <3>6, <3>7, <3>8, LandsBehind
  <2> QED BY <1>1, <1>2, <2>1, <2>2 DEF Scans
<1> QED BY <1>3, <1>5 DEF IInv

LEMMA DirectiveStep ==
  ASSUME IInv, Directive
  PROVE  IInv'
<1>1. /\ pc = "scan" /\ fmt[p] = Percent
      /\ lz' = (fmt[p + 1] = Zero) /\ w' = 0
      /\ p' = p + (IF lz' THEN 3 ELSE 2)
      /\ ch' = fmt[p' - 1]
      /\ pc' = IF ch' \in Decimal THEN "width" ELSE "convert"
      /\ UNCHANGED <<pieces, fmt, va, out, format_vars>>
  BY DEF Directive
<1>2. FormatInMemory /\ Scans /\ Locals /\ va \in 0 .. Cardinality(Args)
  BY DEF IInv, Position
<1>3. pieces \in Formats /\ Len(pieces) \in Nat /\ fmt = Memory(pieces)
  BY <1>2, FormatFacts DEF FormatInMemory
<1>4. PICK k \in 1 .. Len(pieces) : AtPiece(k) /\ ~pieces[k].lit
  <2>1. CASE \E k \in 1 .. Len(pieces) + 1 :
               AtPiece(k) /\ (k = Len(pieces) + 1 => ~Unfinished)
    BY <1>1, <1>2, <2>1, AtPieceChar
  <2>2. CASE \E m \in 0 .. Len(BehindFormat) : AtBehind(m)
    BY <1>1, <1>2, <2>2, AtBehindChar
  <2> QED BY <1>1, <1>2, <2>1, <2>2 DEF Scans
<1> DEFINE x == pieces[k]
           s == Start(pieces, k)
           ws == WidthStart(pieces, k)
           n == Len(x.width)
<1>5. /\ p = s /\ out = Joins(Meanings(pieces))[k - 1] /\ va = Taken(pieces, k)
      /\ s \in Nat
  <2>1. k \in 1 .. Len(pieces) + 1
    BY <1>3
  <2> QED BY <1>3, <1>4, <2>1, StartFacts DEF AtPiece
<1>6. /\ x.zero => fmt[s + 1] = Zero
      /\ \A j \in 1 .. n : fmt[ws + j - 1] = x.width[j]
      /\ fmt[ws + n] = x.ch
  BY <1>3, <1>4, PieceAt, Zenon
<1>7. GoodPiece(x)
  BY <1>3, PiecesAreGood
<1>8. /\ x.zero \in BOOLEAN /\ x.ch \in Nat \ Decimal /\ n \in Nat
      /\ x.width # <<>> => n >= 1 /\ x.width[1] \in Decimal /\ (x.zero \/ x.width[1] # Zero)
      /\ x.width = <<>> => n = 0
  BY <1>4, <1>7 DEF GoodPiece
<1>9. ws = s + (IF x.zero THEN 2 ELSE 1)
  BY DEF WidthStart
<1> HIDE DEF x, s, ws, n
<1>10. fmt[ws] = IF x.width = <<>> THEN x.ch ELSE x.width[1]
  <2>1. ws \in Nat
    BY <1>5, <1>9
  <2>2. CASE x.width = <<>>
    BY <1>6, <1>8, <2>1, <2>2
  <2>3. CASE x.width # <<>>
    <3>1. 1 \in 1 .. n /\ ws + 1 - 1 = ws
      BY <1>8, <2>1, <2>3
    <3> QED BY <1>6, <2>3, <3>1
  <2> QED BY <2>2, <2>3
<1>11. lz' = x.zero
  <2>1. CASE x.zero
    BY <1>1, <1>5, <1>6, <1>8, <2>1
  <2>2. CASE ~x.zero
    <3>1. fmt[s + 1] # Zero
      <4>1. Zero \in Decimal
        BY Letters
      <4> QED BY <1>8, <1>9, <1>10, <2>2, <4>1
    <3> QED BY <1>1, <1>5, <1>8, <2>2, <3>1
  <2> QED BY <2>1, <2>2
<1>12. p' = ws + 1 /\ ch' = fmt[ws]
  <2>1. p' = ws + 1
    BY <1>1, <1>5, <1>8, <1>9, <1>11
  <2>2. p' - 1 = ws
    BY <1>5, <1>8, <1>9, <2>1
  <2> QED BY <1>1, <2>1, <2>2
<1>13. InDirective(k, 0)'
  <2>1. Widths(x)[0] = 0
    BY <1>4, <1>7, WidthsFacts DEF GoodPiece, x
  <2>2. p' = ws + 0 + 1
    BY <1>5, <1>8, <1>9, <1>12
  <2> QED BY <1>1, <1>4, <1>5, <1>11, <2>1, <2>2 DEF InDirective, x, ws
<1>14. \/ pc' = "width" /\ x.width # <<>>
       \/ pc' = "convert" /\ n = 0
  <2>1. CASE x.width = <<>>
    BY <1>1, <1>8, <1>10, <1>12, <2>1
  <2>2. CASE x.width # <<>>
    BY <1>1, <1>8, <1>10, <1>12, <2>2
  <2> QED BY <2>1, <2>2
<1>15. Position'
  <2>1. 0 \in 0 .. n /\ va' = Taken(pieces, k)
    BY <1>1, <1>5, <1>8
  <2> QED BY <1>1, <1>2, <1>13, <1>14, <2>1, LandsInDirective DEF x, n
<1>16. Locals'
  <2>1. ch' \in {fmt[i] : i \in DOMAIN fmt} \cup {NUL}
    <3>1. ws \in DOMAIN fmt
      <4>1. ws + n + 1 <= Len(Format) + 2 /\ ws \in Nat \ {0}
        BY <1>2, <1>3, <1>4, BehindFacts, InMemory DEF Behind, ws, n, x
      <4>2. Len(Format) \in Nat /\ Len(BehindFormat) \in Nat
            /\ Len(fmt) = Len(Format) + Len(BehindFormat) + 2 /\ fmt \in Seq(Nat)
        BY <1>2, InMemory
      <4>3. ws \in 1 .. Len(fmt)
        BY <1>8, <4>1, <4>2
      <4> QED BY <4>2, <4>3
    <3> QED BY <1>12, <3>1
  <2>2. pc # "number" /\ pc' \in {"scan", "width", "convert", "done"}
    BY <1>1
  <2>3. lz' \in BOOLEAN /\ w' \in Nat
    BY <1>1, <1>8, <1>11
  <2> QED BY <1>1, <1>2, <2>1, <2>2, <2>3, LocalsStay
<1> QED BY <1>15, <1>16 DEF IInv

LEMMA WidthStep ==
  ASSUME IInv, Width
  PROVE  IInv'
<1>1. /\ pc = "width" /\ UNCHANGED <<pieces, fmt, lz, va, out, format_vars>>
      /\ IF IsDigit(ch)
         THEN w' = w * 10 + A2d(ch) /\ ch' = fmt[p] /\ p' = p + 1 /\ pc' = pc
         ELSE pc' = "convert" /\ UNCHANGED <<w, ch, p>>
  BY DEF Width
<1>2. FormatInMemory /\ ReadsWidth /\ Locals /\ p \in 1 .. Len(fmt) + 1
  BY DEF IInv, Position
<1>3. pieces \in Formats /\ Len(pieces) \in Nat /\ fmt = Memory(pieces)
  BY <1>2, FormatFacts DEF FormatInMemory
<1>4. PICK k \in 1 .. Len(pieces) :
           \E j \in 0 .. Len(pieces[k].width) :
             pieces[k].width # <<>> /\ va = Taken(pieces, k) /\ InDirective(k, j)
  BY <1>1, <1>2 DEF ReadsWidth
<1>5. PICK j \in 0 .. Len(pieces[k].width) :
            pieces[k].width # <<>> /\ va = Taken(pieces, k) /\ InDirective(k, j)
  BY <1>4
<1> DEFINE x == pieces[k]
           ws == WidthStart(pieces, k)
           n == Len(x.width)
<1>6. /\ ~x.lit /\ out = Joins(Meanings(pieces))[k - 1]
      /\ p = ws + j + 1 /\ ch = fmt[p - 1] /\ lz = x.zero /\ w = Widths(x)[j]
  BY <1>5 DEF InDirective
<1>7. /\ \A i \in 1 .. n : fmt[ws + i - 1] = x.width[i]
      /\ fmt[ws + n] = x.ch
  BY <1>3, <1>6, PieceAt, Zenon
<1>8. GoodPiece(x)
  BY <1>3, PiecesAreGood
<1>9. x.width \in Seq(Decimal \cup {65, 97}) /\ ~IsDigit(x.ch) /\ n \in Nat
  BY <1>5, <1>6, <1>8 DEF GoodPiece
<1>10. /\ ws \in Nat \ {0} /\ ws + n + 1 <= Len(Format) + 2
      /\ Len(Format) \in Nat /\ Len(BehindFormat) \in Nat
      /\ Len(fmt) = Len(Format) + Len(BehindFormat) + 2 /\ fmt \in Seq(Nat)
  BY <1>2, <1>3, <1>6, BehindFacts, InMemory, SMTT(30) DEF Behind
<1>11. p - 1 = ws + j /\ j \in 0 .. n
  BY <1>6, <1>9, <1>10
<1> HIDE DEF x, ws, n
<1>12. CASE j = n
  <2>1. ~IsDigit(ch)
    BY <1>6, <1>7, <1>9, <1>11, <1>12
  <2>2. pc' = "convert" /\ UNCHANGED <<pieces, fmt, lz, va, out, w, ch, p>>
    BY <1>1, <2>1
  <2>3. InDirective(k, j)'
    BY <2>2, <1>5 DEF InDirective
  <2>4. Position'
    BY <1>2, <1>5, <1>12, <2>2, <2>3, LandsInDirective DEF n, x
  <2>5. Locals'
    <3>1. pc # "number" /\ pc' \in {"scan", "width", "convert", "done"}
      BY <1>1, <2>2
    <3>2. /\ ch' \in {fmt[i] : i \in DOMAIN fmt} \cup {NUL} /\ lz' \in BOOLEAN /\ w' \in Nat
      BY <1>2, <2>2 DEF Locals
    <3> QED BY <1>1, <1>2, <3>1, <3>2, LocalsStay
  <2> QED BY <2>4, <2>5 DEF IInv
<1>13. CASE j # n
  <2>1. j + 1 \in 1 .. n /\ ws + (j + 1) - 1 = ws + j
    BY <1>9, <1>10, <1>11, <1>13
  <2>2. ch = x.width[j + 1] /\ x.width[j + 1] \in Decimal \cup {65, 97}
    <3>1. ch = fmt[ws + j]
      BY <1>6, <1>11
    <3>2. fmt[ws + (j + 1) - 1] = x.width[j + 1]
      BY <1>7, <2>1
    <3>3. x.width[j + 1] \in Decimal \cup {65, 97}
      <4> DEFINE t == x.width
      <4>1. t \in Seq(Decimal \cup {65, 97}) /\ j + 1 \in 1 .. Len(t)
        BY <1>9, <2>1 DEF n
      <4> HIDE DEF t
      <4>2. t[j + 1] \in Decimal \cup {65, 97}
        BY <4>1
      <4> QED BY <4>2 DEF t
    <3> QED BY <3>1, <3>2, <3>3, <2>1
  <2>3. IsDigit(ch)
    <3>1. \A c \in Decimal \cup {65, 97} : c \in Nat
      BY Letters
    <3> QED BY <2>2, <3>1, A2dFacts
  <2>4. w' = w * 10 + A2d(ch) /\ ch' = fmt[p] /\ p' = p + 1 /\ pc' = "width"
    BY <1>1, <2>3
  <2>5. Widths(x)[j + 1] = Widths(x)[j] * 10 + A2d(x.width[j + 1])
        /\ Widths(x)[j + 1] \in Nat
    <3>1. /\ \A i \in 0 .. n : Widths(x)[i] \in Nat
          /\ \A i \in 1 .. n : Widths(x)[i] = Widths(x)[i - 1] * 10 + A2d(x.width[i])
      BY <1>9, WidthsFacts, Zenon DEF n
    <3>2. (j + 1) - 1 = j /\ j + 1 \in 0 .. n
      BY <1>9, <2>1
    <3>3. Widths(x)[j + 1] = Widths(x)[(j + 1) - 1] * 10 + A2d(x.width[j + 1])
      BY <3>1, <2>1, Zenon
    <3> QED BY <3>1, <3>2, <3>3
  <2>6. w' = Widths(x)[j + 1] /\ w' \in Nat
    BY <1>6, <2>2, <2>4, <2>5
  <2>7. p' = ws + (j + 1) + 1 /\ p' - 1 = p
    BY <1>6, <1>10, <1>11, <2>4
  <2>8. InDirective(k, j + 1)'
    <3>1. ch' = fmt'[p' - 1]
      BY <1>1, <2>4, <2>7
    <3> QED BY <1>1, <1>6, <2>6, <2>7, <3>1 DEF InDirective, x, ws
  <2>9. Position'
    <3>1. j + 1 \in 0 .. n /\ va' = Taken(pieces, k)
      BY <1>1, <1>5, <2>1
    <3> QED BY <1>1, <1>2, <1>5, <2>4, <2>8, <3>1, LandsInDirective DEF n, x
  <2>10. Locals'
    <3>1. p \in DOMAIN fmt
      <4>1. p = ws + j + 1 /\ j + 1 <= n
        BY <1>6, <2>1
      <4>2. p \in 1 .. Len(fmt)
        BY <1>9, <1>10, <1>11, <4>1
      <4> QED BY <1>10, <4>2
    <3>2. ch' \in {fmt[i] : i \in DOMAIN fmt} \cup {NUL}
      BY <2>4, <3>1
    <3>3. pc # "number" /\ pc' \in {"scan", "width", "convert", "done"} /\ lz' \in BOOLEAN
      BY <1>1, <1>2, <2>4 DEF Locals
    <3> QED BY <1>1, <1>2, <2>6, <3>2, <3>3, LocalsStay
  <2> QED BY <2>9, <2>10 DEF IInv
<1> QED BY <1>12, <1>13

(* The argument that is taken is that of the directive. *)
LEMMA ArgIs ==
  ASSUME FormatInMemory, NEW k \in 1 .. Len(pieces), TakesArg(pieces[k]), va = Taken(pieces, k)
  PROVE  Arg = pieces[k]
<1>1. pieces \in Formats
  BY DEF FormatInMemory
<1>2. k \in Takers(pieces)
  BY <1>1, FormatFacts DEF Takers
<1>3. Args = Takers(pieces)
  BY InMemory
<1>4. Arg = pieces[CHOOSE n \in Takers(pieces) : Taken(pieces, n) = va]
  BY <1>3 DEF Arg, Taken, TakersBefore
<1>5. \A n \in Takers(pieces) : Taken(pieces, n) = va => n = k
  BY <1>1, <1>2, TakenFacts
<1>6. (CHOOSE n \in Takers(pieces) : Taken(pieces, n) = va) = k
  BY <1>2, <1>5
<1> QED BY <1>4, <1>6

(* What is known when a directive is read. *)
LEMMA AllReadFacts ==
  ASSUME FormatInMemory, NEW k \in 1 .. Len(pieces), AllRead(k), Locals
  PROVE  /\ GoodPiece(pieces[k]) /\ ~pieces[k].lit
         /\ ch = pieces[k].ch /\ lz = pieces[k].zero
         /\ w = Widths(pieces[k])[Len(pieces[k].width)]
         /\ out \in Seq(Nat) /\ Len(pieces[k].width) \in Nat
<1>1. pieces \in Formats /\ fmt = Memory(pieces)
  BY DEF FormatInMemory
<1>2. /\ ~pieces[k].lit /\ out = Joins(Meanings(pieces))[k - 1]
      /\ p = WidthStart(pieces, k) + Len(pieces[k].width) + 1 /\ ch = fmt[p - 1]
      /\ lz = pieces[k].zero
      /\ w = Widths(pieces[k])[Len(pieces[k].width)]
  BY DEF AllRead, InDirective
<1>3. fmt[WidthStart(pieces, k) + Len(pieces[k].width)] = pieces[k].ch
  BY <1>1, <1>2, PieceAt, Zenon
<1>4. WidthStart(pieces, k) \in Nat \ {0} /\ Len(pieces[k].width) \in Nat
  BY <1>1, <1>2, BehindFacts
<1>5. p - 1 = WidthStart(pieces, k) + Len(pieces[k].width)
  BY <1>2, <1>4
<1>6. GoodPiece(pieces[k])
  BY <1>1, PiecesAreGood
<1>7. k - 1 \in 0 .. Len(pieces)
  BY <1>1, FormatFacts
<1>8. out \in Seq(Nat)
  BY <1>1, <1>2, <1>7, MeaningsJoin
<1> QED BY <1>2, <1>3, <1>4, <1>5, <1>6, <1>8

(* i2a and ui2a are called for the number of the directive. *)
LEMMA CallIs ==
  ASSUME NEW x, GoodPiece(x), ~x.lit, x.ch \in Numeric,
         IF x.ch = Letter.d THEN I2aCall(x.val)
         ELSE Ui2aCall(x.val, IF x.ch = Letter.u THEN 10 ELSE 16, x.ch = Letter.X, <<>>)
  PROVE  Ui2aCall(Magnitude(x), Base(x), Upper(x), Sign(x))
<1>1. CASE x.ch = Letter.d
  <2>1. x.val \in Signed /\ I2aCall(x.val)
    BY <1>1 DEF GoodPiece
  <2>2. Base(x) = 10 /\ Upper(x) = FALSE
    <3>1. Letter.d # Letter.X
      BY Letters
    <3> QED BY <1>1, <3>1 DEF Base, Upper
  <2>3. CASE x.val < 0
    <3>1. Ui2aCall((- x.val) % Word, 10, FALSE, <<Minus>>)
      BY <2>1, <2>3 DEF I2aCall
    <3>2. (- x.val) % Word = - x.val
      BY <2>1, <2>3, WordFacts
    <3>3. Magnitude(x) = - x.val /\ Sign(x) = <<Minus>>
      BY <2>3 DEF Magnitude, Sign
    <3> QED BY <2>2, <3>1, <3>2, <3>3
  <2>4. CASE ~(x.val < 0)
    <3>1. Ui2aCall(x.val, 10, FALSE, <<>>)
      BY <2>1, <2>4 DEF I2aCall
    <3>2. Magnitude(x) = x.val /\ Sign(x) = <<>>
      BY <2>4 DEF Magnitude, Sign
    <3> QED BY <2>2, <3>1, <3>2
  <2> QED BY <2>3, <2>4
<1>2. CASE x.ch # Letter.d
  <2>1. ~(x.val < 0)
    <3>1. x.val \in Unsigned
      BY <1>2 DEF GoodPiece
    <3> QED BY <3>1, WordFacts
  <2>2. Magnitude(x) = x.val /\ Sign(x) = <<>>
    BY <2>1 DEF Magnitude, Sign
  <2>3. Base(x) = (IF x.ch = Letter.u THEN 10 ELSE 16) /\ Upper(x) = (x.ch = Letter.X)
    BY <1>2 DEF Base, Upper
  <2> QED BY <1>2, <2>2, <2>3
<1> QED BY <1>1, <1>2

LEMMA GrowBound ==
  ASSUME NEW v \in Nat, NEW b \in {10, 16}, NEW k \in Nat, k = 0 \/ Pow(b, k) <= v
  PROVE  Pow(b, k) # 0 /\ Pow(b, k) <= v + 1
<1>1. b \in Nat \ {0}
  OBVIOUS
<1>2. Pow(b, k) \in Nat \ {0} /\ Pow(b, 0) = 1
  BY <1>1, PowPositive, PowFacts
<1>3. CASE k = 0
  BY <1>2, <1>3
<1>4. CASE k # 0
  BY <1>2, <1>4
<1> QED BY <1>3, <1>4

(* While the number of the k-th piece is converted. *)
LEMMA NumberLocals ==
  ASSUME pc' = "number", UNCHANGED <<pieces, fmt>>,
         NEW k \in 1 .. Len(pieces), NEW x, x = pieces[k], x.ch \in Numeric,
         AllRead(k)', va' = Taken(pieces, k + 1),
         base' = Base(x), uc' = Upper(x), Base(x) \in {10, 16}, Upper(x) \in BOOLEAN,
         NEW v \in Unsigned, v = Magnitude(x), NEW sign, sign = Sign(x),
         Converts(v, sign)',
         num' \in Unsigned, d' \in Unsigned,
         \A i \in DOMAIN bf' : bf'[i] \in {Digit(c, uc') : c \in 0 .. base' - 1} \cup {Minus},
         bf' \in Seq(Nat), Len(bf') + 1 <= BufSize,
         ch' \in {fmt[n] : n \in DOMAIN fmt} \cup {NUL}, lz' \in BOOLEAN, w' \in Nat
  PROVE  Locals'
<1>1. pieces' = pieces /\ fmt' = fmt
  OBVIOUS
<1>2. loop' \in {"grow", "digits", "ready"}
  BY DEF Converts
<1>3. FormatTypeOK'
  BY <1>2 DEF FormatTypeOK
<1>4. ConvertsNumber'
  <2>1. /\ k \in 1 .. Len(pieces') /\ va' = Taken(pieces', k + 1)
        /\ pieces'[k].ch \in Numeric
        /\ base' = Base(pieces'[k]) /\ uc' = Upper(pieces'[k])
        /\ v = Magnitude(pieces'[k]) /\ sign = Sign(pieces'[k])
    BY <1>1
  <2>2. Converts(Magnitude(pieces[k]), Sign(pieces[k]))'
    BY <2>1 DEF Converts
  <2> QED BY <2>1, <2>2 DEF ConvertsNumber
<1>5. loop' = "grow" => d' # 0 /\ d' <= num' + 1
  <2> SUFFICES ASSUME loop' = "grow" PROVE d' # 0 /\ d' <= num' + 1
    OBVIOUS
  <2>1. PICK i \in Nat : d' = Pow(base', i) /\ (i = 0 \/ Pow(base', i) <= v) /\ num' = v
    BY DEF Converts
  <2>2. v \in Nat /\ base' \in {10, 16}
    BY WordFacts
  <2> QED BY <2>1, <2>2, GrowBound
<1>6. ch' \in {fmt'[n] : n \in DOMAIN fmt'} \cup {NUL}
  BY <1>1
<1> QED BY <1>3, <1>4, <1>5, <1>6 DEF Locals

LEMMA NumberStep ==
  ASSUME IInv, Number
  PROVE  IInv'
<1>1. /\ pc = "convert" /\ ch \in Numeric
      /\ IF ch = Letter.d THEN I2aCall(Arg.val)
         ELSE Ui2aCall(Arg.val, IF ch = Letter.u THEN 10 ELSE 16, ch = Letter.X, <<>>)
      /\ va' = va + 1 /\ pc' = "number"
      /\ UNCHANGED <<pieces, fmt, p, ch, lz, w, out>>
  BY DEF Number
<1>2. FormatInMemory /\ ReadsConversion /\ Locals
  BY DEF IInv, Position
<1>3. PICK k \in 1 .. Len(pieces) : AllRead(k) /\ va = Taken(pieces, k)
  BY <1>1, <1>2 DEF ReadsConversion
<1>4. PICK x : x = pieces[k]
  OBVIOUS
<1>5. PICK j : j = Len(x.width)
  OBVIOUS
<1>6. GoodPiece(x) /\ ~x.lit /\ ch = x.ch /\ j \in Nat
  BY <1>2, <1>3, <1>4, <1>5, AllReadFacts
<1>7. x.ch \in Numeric /\ TakesArg(x)
  BY <1>1, <1>6 DEF TakesArg
<1>8. Arg = x
  BY <1>2, <1>3, <1>4, <1>7, ArgIs
<1>9. Ui2aCall(Magnitude(x), Base(x), Upper(x), Sign(x))
  BY <1>1, <1>6, <1>7, <1>8, CallIs
<1>10. PICK v : v = Magnitude(x)
  OBVIOUS
<1>11. PICK sign : sign = Sign(x)
  OBVIOUS
<1>12. /\ v \in Unsigned /\ sign \in {<<>>, <<Minus>>} /\ sign \in Seq(Nat)
       /\ Base(x) \in {10, 16} /\ Upper(x) \in BOOLEAN
  BY <1>6, <1>7, <1>10, <1>11, NumberFacts, SignIsText
<1>13. Converts(v, sign)' /\ num' \in Unsigned /\ d' \in Unsigned
  BY <1>9, <1>10, <1>11, <1>12, CallConverts
<1>14. bf' = sign /\ base' = Base(x) /\ uc' = Upper(x)
  BY <1>9, <1>11 DEF Ui2aCall
<1>15. va' = Taken(pieces, k + 1)
  <2>1. pieces \in Formats
    BY <1>2 DEF FormatInMemory
  <2>2. Taken(pieces, k + 1) = Taken(pieces, k) + 1
    BY <1>3, <1>4, <1>7, <2>1, TakenFacts
  <2> QED BY <1>1, <1>3, <2>2
<1>16. InDirective(k, j)' /\ AllRead(k)'
  BY <1>1, <1>3, <1>4, <1>5 DEF AllRead, InDirective
<1>17. Position'
  <2>1. j \in 0 .. Len(pieces[k].width)
    BY <1>4, <1>5, <1>6
  <2> QED BY <1>1, <1>2, <1>3, <1>15, <1>16, <2>1, LandsInDirective
<1>18. \A i \in DOMAIN sign : sign[i] \in {Digit(c, uc') : c \in 0 .. base' - 1} \cup {Minus}
  <2>1. CASE sign = <<>>
    BY <2>1
  <2>2. CASE sign = <<Minus>>
    BY <2>2
  <2> QED BY <1>12, <2>1, <2>2
<1>19. Len(sign) + 1 <= BufSize
  <2>1. BufSize - 2 \in Nat \ {0} /\ BufSize \in Nat
    BY WordFacts, FormatAssumption
  <2>2. CASE sign = <<>>
    BY <2>1, <2>2
  <2>3. CASE sign = <<Minus>>
    BY <2>1, <2>3
  <2> QED BY <1>12, <2>2, <2>3
<1>20. ch' \in {fmt[n] : n \in DOMAIN fmt} \cup {NUL} /\ lz' \in BOOLEAN /\ w' \in Nat
  BY <1>1, <1>2 DEF Locals
<1>21. Locals'
  BY <1>1, <1>3, <1>4, <1>7, <1>10, <1>11, <1>12, <1>13, <1>14, <1>15, <1>16, <1>18, <1>19,
     <1>20, NumberLocals
<1> QED BY <1>17, <1>21 DEF IInv

(* A digit is added to the others. *)
LEMMA AppendDigit ==
  ASSUME NEW s \in Seq(Nat), NEW C, NEW e \in Nat, e \in C, \A i \in DOMAIN s : s[i] \in C
  PROVE  \A i \in DOMAIN Append(s, e) : Append(s, e)[i] \in C
OBVIOUS

LEMMA ConvertingStep ==
  ASSUME IInv, Converting
  PROVE  IInv'
<1>1. pc = "number" /\ (Grow \/ Digits) /\ UNCHANGED scan_vars
  BY DEF Converting
<1>2. UNCHANGED <<pieces, fmt, p, ch, lz, w, va, out, pc>>
  BY <1>1 DEF scan_vars
<1>3. FormatInMemory /\ Locals
  BY DEF IInv, Position
<1>4. PICK k \in 1 .. Len(pieces) :
           /\ AllRead(k) /\ va = Taken(pieces, k + 1)
           /\ pieces[k].ch \in Numeric
           /\ base = Base(pieces[k]) /\ uc = Upper(pieces[k])
           /\ Converts(Magnitude(pieces[k]), Sign(pieces[k]))
  BY <1>1, <1>3 DEF Locals, ConvertsNumber
<1>5. PICK x : x = pieces[k]
  OBVIOUS
<1>6. PICK j : j = Len(x.width)
  OBVIOUS
<1>7. PICK v : v = Magnitude(x)
  OBVIOUS
<1>8. PICK sign : sign = Sign(x)
  OBVIOUS
<1>9. GoodPiece(x) /\ ~x.lit /\ x.ch \in Numeric /\ j \in Nat
  BY <1>3, <1>4, <1>5, <1>6, AllReadFacts
<1>10. /\ v \in Unsigned /\ sign \in {<<>>, <<Minus>>} /\ sign \in Seq(Nat)
       /\ Base(x) \in {10, 16} /\ Upper(x) \in BOOLEAN
       /\ base = Base(x) /\ uc = Upper(x)
  BY <1>4, <1>5, <1>7, <1>8, <1>9, NumberFacts, SignIsText
<1>11. Converts(v, sign)
  BY <1>4, <1>5, <1>7, <1>8
<1>12. /\ \A i \in DOMAIN bf : bf[i] \in {Digit(c, uc) : c \in 0 .. base - 1} \cup {Minus}
       /\ bf \in Seq(Nat) /\ Len(bf) + 1 <= BufSize /\ num \in Unsigned
  BY <1>3 DEF Locals, FormatTypeOK
<1>13. base' = base /\ uc' = uc
  BY <1>1 DEF Grow, Digits
<1>14. /\ Converts(v, sign)' /\ num' \in Unsigned /\ d' \in Unsigned
       /\ \A i \in DOMAIN bf' : bf'[i] \in {Digit(c, uc) : c \in 0 .. base - 1} \cup {Minus}
       /\ bf' \in Seq(Nat) /\ Len(bf') + 1 <= BufSize
  <2>1. CASE Grow
    <3>1. Converts(v, sign)' /\ d' \in Unsigned
      BY <1>10, <1>11, <2>1, GrowStep
    <3>2. num' = num /\ bf' = bf
      BY <2>1 DEF Grow
    <3> QED BY <1>12, <3>1, <3>2
  <2>2. CASE Digits
    <3>1. /\ Converts(v, sign)' /\ num' \in Unsigned /\ d' \in Unsigned
          /\ \/ bf' = bf
             \/ /\ \E c \in 0 .. base - 1 : bf' = Append(bf, Digit(c, uc))
                /\ bf' \in Seq(Nat) /\ Len(bf') + 1 <= BufSize
      BY <1>10, <1>11, <2>2, DigitsStep
    <3>2. CASE bf' = bf
      BY <1>12, <3>1, <3>2
    <3>3. CASE /\ \E c \in 0 .. base - 1 : bf' = Append(bf, Digit(c, uc))
               /\ bf' \in Seq(Nat) /\ Len(bf') + 1 <= BufSize
      <4>1. PICK c \in 0 .. base - 1 : bf' = Append(bf, Digit(c, uc))
        BY <3>3
      <4> DEFINE C == {Digit(i, uc) : i \in 0 .. base - 1} \cup {Minus}
                 e == Digit(c, uc)
      <4>2. e \in C /\ e \in Nat
        <5>1. c \in Nat
          BY <1>10
        <5>2. e \in Nat
          BY <5>1 DEF Digit, Zero
        <5>3. e \in C
          BY <4>1
        <5> QED BY <5>2, <5>3
      <4>3. \A i \in DOMAIN bf : bf[i] \in C
        BY <1>12
      <4> HIDE DEF C, e
      <4>4. \A i \in DOMAIN Append(bf, e) : Append(bf, e)[i] \in C
        BY <1>12, <4>2, <4>3, AppendDigit
      <4>5. bf' = Append(bf, e)
        BY <4>1 DEF e
      <4>6. \A i \in DOMAIN bf' : bf'[i] \in C
        BY <4>4, <4>5
      <4> QED BY <3>1, <3>3, <4>6 DEF C
    <3> QED BY <3>1, <3>2, <3>3
  <2> QED BY <1>1, <2>1, <2>2
<1>15. InDirective(k, j)' /\ AllRead(k)'
  BY <1>2, <1>4, <1>5, <1>6 DEF AllRead, InDirective
<1>16. Position'
  <2>1. j \in 0 .. Len(pieces[k].width)
    BY <1>5, <1>6, <1>9
  <2>2. pc' = "number" /\ va' = Taken(pieces, k + 1)
    BY <1>1, <1>2, <1>4
  <2> QED BY <1>2, <1>3, <1>15, <2>1, <2>2, LandsInDirective
<1>17. Locals'
  <2>1. ch' \in {fmt[n] : n \in DOMAIN fmt} \cup {NUL} /\ lz' \in BOOLEAN /\ w' \in Nat
    BY <1>2, <1>3 DEF Locals
  <2>2. pc' = "number" /\ va' = Taken(pieces, k + 1) /\ base' = Base(x) /\ uc' = Upper(x)
    BY <1>1, <1>2, <1>4, <1>10, <1>13
  <2>3. \A i \in DOMAIN bf' : bf'[i] \in {Digit(c, uc') : c \in 0 .. base' - 1} \cup {Minus}
    BY <1>13, <1>14
  <2> QED BY <1>2, <1>5, <1>7, <1>8, <1>9, <1>10, <1>14, <1>15, <2>1, <2>2, <2>3, NumberLocals
<1> QED BY <1>16, <1>17 DEF IInv

(* What a directive takes and leaves behind, whatever it prints. *)
LEMMA PrintStep ==
  ASSUME FormatInMemory, Locals, pc' = "scan", UNCHANGED <<pieces, fmt, p, ch, lz, w>>,
         NEW k \in 1 .. Len(pieces), AllRead(k),
         out' = out \o Meant(pieces[k]), va' = Taken(pieces, k + 1),
         UNCHANGED <<num, base, uc, d, bf>>, loop' = "none"
  PROVE  IInv'
<1>1. Position'
  BY LandsBehindDirective
<1>2. ConvertsNumber'
  BY DEF ConvertsNumber
<1>3. FormatTypeOK'
  BY DEF Locals, FormatTypeOK
<1>4. Locals'
  <2>1. ch' \in {fmt'[n] : n \in DOMAIN fmt'} \cup {NUL}
    BY DEF Locals
  <2>2. lz' \in BOOLEAN /\ w' \in Nat /\ bf' \in Seq(Nat) /\ Len(bf') + 1 <= BufSize
    BY DEF Locals
  <2> QED BY <1>2, <1>3, <2>1, <2>2 DEF Locals
<1> QED BY <1>1, <1>4 DEF IInv

LEMMA PutNumberStep ==
  ASSUME IInv, PutNumber
  PROVE  IInv'
<1>1. /\ pc = "number" /\ loop = "ready"
      /\ out' = out \o Putchw(w, lz, bf)
      /\ loop' = "none" /\ pc' = "scan"
      /\ UNCHANGED <<pieces, fmt, p, ch, lz, w, va, num, base, uc, d, bf>>
  BY DEF PutNumber
<1>2. FormatInMemory /\ Locals
  BY DEF IInv, Position
<1>3. PICK k \in 1 .. Len(pieces) :
           /\ AllRead(k) /\ va = Taken(pieces, k + 1)
           /\ pieces[k].ch \in Numeric
           /\ base = Base(pieces[k]) /\ uc = Upper(pieces[k])
           /\ Converts(Magnitude(pieces[k]), Sign(pieces[k]))
  BY <1>1, <1>2 DEF Locals, ConvertsNumber
<1>4. PICK x : x = pieces[k]
  OBVIOUS
<1>5. /\ GoodPiece(x) /\ ~x.lit /\ x.ch \in Numeric
      /\ lz = x.zero /\ w = Widths(x)[Len(x.width)]
  BY <1>2, <1>3, <1>4, AllReadFacts
<1>6. bf = Sign(x) \o Numeral(Magnitude(x), Base(x), Upper(x))
  BY <1>1, <1>3, <1>4 DEF Converts
<1>7. Meant(x) = Putchw(w, lz, bf)
  BY <1>5, <1>6, MeantIs
<1> QED BY <1>1, <1>2, <1>3, <1>4, <1>7, PrintStep

LEMMA PutTextStep ==
  ASSUME IInv, PutText
  PROVE  IInv'
<1>1. /\ pc = "convert" /\ ch \in {Letter.b, Letter.c, Letter.s}
      /\ out' = out \o (CASE ch = Letter.b -> Putchw(w, FALSE, Putbin(Arg.val))
                          [] ch = Letter.s -> Putchw(w, FALSE, Arg.str)
                          [] ch = Letter.c -> <<Arg.val>>)
      /\ va' = va + 1 /\ pc' = "scan"
      /\ UNCHANGED <<pieces, fmt, p, ch, lz, w, num, base, uc, d, bf, loop>>
  BY DEF PutText, format_vars
<1>2. FormatInMemory /\ ReadsConversion /\ Locals
  BY DEF IInv, Position
<1>3. PICK k \in 1 .. Len(pieces) : AllRead(k) /\ va = Taken(pieces, k)
  BY <1>1, <1>2 DEF ReadsConversion
<1>4. PICK x : x = pieces[k]
  OBVIOUS
<1>5. GoodPiece(x) /\ ~x.lit /\ ch = x.ch /\ w = Widths(x)[Len(x.width)]
  BY <1>2, <1>3, <1>4, AllReadFacts
<1>6. TakesArg(x)
  BY <1>1, <1>5 DEF TakesArg
<1>7. Arg = x
  BY <1>2, <1>3, <1>4, <1>6, ArgIs
<1>8. out' = out \o Meant(x)
  <2>1. CASE ch = Letter.b
    <3>1. out' = out \o Putchw(w, FALSE, Putbin(x.val))
      BY <1>1, <1>7, <2>1, LettersDiffer, Zenon
    <3> QED BY <1>5, <2>1, <3>1, MeantIs
  <2>2. CASE ch = Letter.s
    <3>1. out' = out \o Putchw(w, FALSE, x.str)
      BY <1>1, <1>7, <2>2, LettersDiffer, Zenon
    <3> QED BY <1>5, <2>2, <3>1, MeantIs
  <2>3. CASE ch = Letter.c
    <3>1. out' = out \o <<x.val>>
      BY <1>1, <1>7, <2>3, LettersDiffer, Zenon
    <3> QED BY <1>5, <2>3, <3>1, MeantIs
  <2> QED BY <1>1, <2>1, <2>2, <2>3
<1>9. va' = Taken(pieces, k + 1)
  <2>1. pieces \in Formats
    BY <1>2 DEF FormatInMemory
  <2>2. Taken(pieces, k + 1) = Taken(pieces, k) + 1
    BY <1>3, <1>4, <1>6, <2>1, TakenFacts
  <2> QED BY <1>1, <1>3, <2>2
<1>10. loop = "none"
  BY <1>1, <1>2 DEF Locals, ConvertsNumber
<1> QED BY <1>1, <1>2, <1>3, <1>4, <1>8, <1>9, <1>10, PrintStep

LEMMA OtherStep ==
  ASSUME IInv, Other
  PROVE  IInv'
<1>1. /\ pc = "convert" /\ ch \notin Numeric \cup {Letter.b, Letter.c, Letter.s}
      /\ out' = IF ch = Percent THEN Append(out, ch) ELSE out
      /\ pc' = "scan"
      /\ UNCHANGED <<pieces, fmt, p, ch, lz, w, va, num, base, uc, d, bf, loop>>
  BY DEF Other, format_vars
<1>2. FormatInMemory /\ ReadsConversion /\ Locals
  BY DEF IInv, Position
<1>3. PICK k \in 1 .. Len(pieces) : AllRead(k) /\ va = Taken(pieces, k)
  BY <1>1, <1>2 DEF ReadsConversion
<1>4. PICK x : x = pieces[k]
  OBVIOUS
<1>5. GoodPiece(x) /\ ~x.lit /\ ch = x.ch /\ out \in Seq(Nat) /\ x.ch \in Nat
  BY <1>2, <1>3, <1>4, AllReadFacts DEF GoodPiece
<1>6. out' = out \o Meant(x)
  <2>1. CASE ch = Percent
    <3>1. Meant(x) = <<ch>> /\ out' = Append(out, ch)
      BY <1>1, <1>5, <2>1, MeantIs
    <3> QED BY <1>5, <3>1, AppendIsConcat
  <2>2. CASE ch # Percent
    <3>1. x.ch \notin Numeric \cup {Letter.b, Letter.c, Letter.s, Percent}
      BY <1>1, <1>5, <2>2
    <3>2. Meant(x) = <<>> /\ out' = out
      BY <1>1, <1>5, <2>2, <3>1, MeantIs
    <3> QED BY <1>5, <3>2, ConcatEmptySeq
  <2> QED BY <2>1, <2>2
<1>7. va' = Taken(pieces, k + 1)
  <2>1. pieces \in Formats
    BY <1>2 DEF FormatInMemory
  <2>2. ~TakesArg(x)
    BY <1>1, <1>5 DEF TakesArg
  <2>3. Taken(pieces, k + 1) = Taken(pieces, k) + 0 /\ Taken(pieces, k) \in Nat
    <3>1. Len(pieces) \in Nat
      BY <2>1, FormatFacts
    <3>2. k \in 1 .. Len(pieces) + 1
      BY <1>3, <3>1
    <3>3. Taken(pieces, k) \in 0 .. Cardinality(Takers(pieces))
      BY <2>1, <3>2, TakenFacts
    <3>4. Taken(pieces, k + 1) = Taken(pieces, k) + 0
      BY <1>3, <1>4, <2>1, <2>2, TakenFacts
    <3> QED BY <3>3, <3>4
  <2> QED BY <1>1, <1>3, <2>3
<1>8. loop = "none"
  BY <1>1, <1>2 DEF Locals, ConvertsNumber
<1> QED BY <1>1, <1>2, <1>3, <1>4, <1>6, <1>7, <1>8, PrintStep

LEMMA Initially == Init => IInv
<1> SUFFICES ASSUME Init PROVE IInv
  OBVIOUS
<1>1. /\ pieces \in Formats
      /\ fmt = Format \o <<NUL>> \o BehindFormat \o <<NUL>>
      /\ p = 1 /\ ch = NUL /\ lz = FALSE /\ w = 0 /\ va = 0 /\ out = <<>> /\ pc = "scan"
      /\ num = 0 /\ base = 10 /\ uc = FALSE /\ d = 1 /\ bf = <<>> /\ loop = "none"
  BY DEF Init, FormatInit
<1>2. FormatInMemory
  BY <1>1 DEF FormatInMemory, Format, Memory, Texts
<1>3. /\ Len(pieces) \in Nat
      /\ Len(Format) \in Nat /\ Len(BehindFormat) \in Nat
      /\ Len(fmt) = Len(Format) + Len(BehindFormat) + 2
      /\ Args = Takers(pieces)
  BY <1>1, <1>2, FormatFacts, InMemory
<1>4. 1 \in 1 .. Len(pieces) + 1 /\ 1 - 1 = 0
  BY <1>3
<1>5. AtPiece(1)
  <2>1. Start(pieces, 1) = 1 /\ Taken(pieces, 1) = 0 /\ Joins(Meanings(pieces))[0] = <<>>
    BY <1>1, StartFacts, TakenFacts, MeaningsJoin
  <2> QED BY <1>1, <1>4, <2>1 DEF AtPiece
<1>6. 1 = Len(pieces) + 1 => ~Unfinished
  <2> SUFFICES ASSUME 1 = Len(pieces) + 1 PROVE pieces = <<>>
    BY DEF Unfinished
  <2>1. Len(pieces) = 0
    BY <1>3
  <2>2. pieces \in Seq(Piece)
    BY <1>1, PiecesAreGood
  <2> QED BY <2>1, <2>2
<1>7. Scans
  BY <1>4, <1>5, <1>6 DEF Scans
<1>8. va \in 0 .. Cardinality(Args)
  BY <1>1, <1>3, <1>4, <1>5, TakenFacts DEF AtPiece
<1>9. p \in 1 .. Len(fmt) + 1 /\ p - 1 <= Len(Format) + 1
  BY <1>1, <1>3
<1>10. Position
  BY <1>1, <1>2, <1>7, <1>8, <1>9 DEF Position, PrintsFormat, ReadsWidth, ReadsConversion
<1>11. FormatTypeOK
  <2>1. 0 \in Unsigned /\ 1 \in Unsigned
    BY WordFacts
  <2>2. \A i \in DOMAIN <<>> : bf[i] \in {Digit(c, uc) : c \in 0 .. base - 1} \cup {Minus}
    OBVIOUS
  <2> QED BY <1>1, <2>1, <2>2 DEF FormatTypeOK
<1>12. Len(bf) + 1 <= BufSize /\ bf \in Seq(Nat)
  BY <1>1, FormatAssumption
<1>13. Locals
  BY <1>1, <1>11, <1>12 DEF Locals, ConvertsNumber
<1> QED BY <1>10, <1>13 DEF IInv

LEMMA NothingChanges ==
  ASSUME IInv, UNCHANGED vars
  PROVE  IInv'
<1>1. UNCHANGED <<pieces, fmt, p, ch, lz, w, va, out, pc, num, base, uc, d, bf, loop>>
  BY DEF vars, scan_vars, format_vars
<1>2. /\ FormatInMemory' = FormatInMemory /\ Format' = Format /\ Args' = Args
      /\ Unfinished' = Unfinished
  BY <1>1 DEF FormatInMemory, Format, Args, Unfinished
<1>3. Scans'
  <2>1. \A k : AtPiece(k)' = AtPiece(k)
    BY <1>1 DEF AtPiece
  <2>2. \A m : AtBehind(m)' = AtBehind(m)
    BY <1>1, <1>2 DEF AtBehind
  <2> QED BY <1>1, <1>2, <2>1, <2>2 DEF IInv, Position, Scans
<1>4. \A k, j : InDirective(k, j)' = InDirective(k, j)
  BY <1>1 DEF InDirective
<1>5. \A k : AllRead(k)' = AllRead(k)
  BY <1>1, <1>4 DEF AllRead, InDirective
<1>6. ReadsWidth' /\ ReadsConversion'
  BY <1>1, <1>4, <1>5 DEF IInv, Position, ReadsWidth, ReadsConversion
<1>7. PrintsFormat'
  BY <1>1, <1>2 DEF IInv, Position, PrintsFormat
<1>8. Position'
  BY <1>1, <1>2, <1>3, <1>6, <1>7 DEF IInv, Position
<1>9. ConvertsNumber'
  BY <1>1, <1>5 DEF IInv, Locals, ConvertsNumber, Converts
<1>10. FormatTypeOK'
  BY <1>1 DEF IInv, Locals, FormatTypeOK
<1>11. Locals'
  BY <1>1, <1>9, <1>10 DEF IInv, Locals
<1> QED BY <1>8, <1>11 DEF IInv

LEMMA Inductive == IInv /\ [Next]_vars => IInv'
<1> SUFFICES ASSUME IInv, [Next]_vars PROVE IInv'
  OBVIOUS
<1>1. CASE End
  BY <1>1, EndStep
<1>2. CASE Char
  BY <1>2, CharStep
<1>3. CASE Directive
  BY <1>3, DirectiveStep
<1>4. CASE Width
  BY <1>4, WidthStep
<1>5. CASE Number
  BY <1>5, NumberStep
<1>6. CASE Converting
  BY <1>6, ConvertingStep
<1>7. CASE PutNumber
  BY <1>7, PutNumberStep
<1>8. CASE PutText
  BY <1>8, PutTextStep
<1>9. CASE Other
  BY <1>9, OtherStep
<1>10. CASE UNCHANGED vars
  BY <1>10, NothingChanges
<1> QED
  BY <1>1, <1>2, <1>3, <1>4, <1>5, <1>6, <1>7, <1>8, <1>9, <1>10 DEF Next

(* In every reachable state the scan is where the invariant says: before a *)
(* piece, in a directive, behind an unfinished format or at the end, with  *)
(* what it has passed printed and no more.                                 *)
THEOREM Invariant == Spec => []IInv
<1>1. Init => IInv
  BY Initially
<1>2. IInv /\ [Next]_vars => IInv'
  BY Inductive
<1> QED BY <1>1, <1>2, PTL DEF Spec

(* The variables of tfp_format and of ui2a keep their types; what is in bf *)
(* are digits of the base and a sign, and no more arguments are taken from *)
(* va than the call has.                                                   *)
THEOREM TypeCorrect == Spec => []TypeOK
<1>1. IInv => TypeOK
  BY Implied
<1> QED BY <1>1, Invariant, PTL

(* Whatever the format and its arguments, and for every width of an        *)
(* unsigned int for which bf has room for a sign, the decimal digits and   *)
(* the NUL: no digit is written behind bf, d is never 0 when ui2a divides  *)
(* by it, and a format that does not end within a directive is not read    *)
(* behind its NUL.                                                         *)
THEOREM NothingOutsideIsTouched == Spec => []StaysInBounds
<1>1. IInv => StaysInBounds
  BY Implied
<1> QED BY <1>1, Invariant, PTL

(* A call of printk prints what the pieces of its format mean, in their    *)
(* order, every directive with its own argument -- with whatever stands    *)
(* behind a format that ends within a directive.                           *)
THEOREM WhatIsMeantIsPrinted == Spec => []PrintsFormat
<1>1. IInv => PrintsFormat
  BY Implied
<1> QED BY <1>1, Invariant, PTL

-----------------------------------------------------------------------------
(* A call comes to an end: every step lowers a measure. *)

(* How many steps are left at most before p moves on, from where the code  *)
(* is: d grows towards num and is then divided down to 0.                  *)
StepsAt(place, phase, n, power) ==
  CASE place = "width" -> 2 * Word + 3
    [] place = "convert" -> 2 * Word + 2
    [] place = "number" /\ phase = "grow" -> Word + 2 + (n + 1 - power)
    [] place = "number" /\ phase = "digits" -> power + 2
    [] place = "number" /\ phase = "ready" -> 1
    [] OTHER -> 0

Steps == StepsAt(pc, loop, num, d)

Measure == (Len(fmt) + 1 - p) * (2 * Word + 4) + Steps

LEMMA StepsAre ==
  ASSUME NEW place, NEW phase, NEW n \in Unsigned, NEW power \in Unsigned,
         place = "number" /\ phase = "grow" => power # 0 /\ power <= n + 1
  PROVE  /\ StepsAt(place, phase, n, power) \in 0 .. 2 * Word + 3
         /\ place = "width" => StepsAt(place, phase, n, power) = 2 * Word + 3
         /\ place = "convert" => StepsAt(place, phase, n, power) = 2 * Word + 2
         /\ place = "number" =>
              /\ phase = "grow" =>
                   /\ StepsAt(place, phase, n, power) = Word + 2 + (n + 1 - power)
                   /\ StepsAt(place, phase, n, power) \in Word + 2 .. 2 * Word + 1
              /\ phase = "digits" =>
                   /\ StepsAt(place, phase, n, power) = power + 2
                   /\ StepsAt(place, phase, n, power) <= Word + 1
              /\ phase = "ready" => StepsAt(place, phase, n, power) = 1
         /\ place \in {"scan", "done"} => StepsAt(place, phase, n, power) = 0
<1>1. /\ Word \in Nat /\ Word >= 2
      /\ n \in Nat /\ n <= Word - 1 /\ power \in Nat /\ power <= Word - 1
  BY WordFacts
<1>2. CASE place = "width"
  BY <1>1, <1>2 DEF StepsAt
<1>3. CASE place = "convert"
  BY <1>1, <1>3 DEF StepsAt
<1>4. CASE place = "number" /\ phase = "grow"
  BY <1>1, <1>4 DEF StepsAt
<1>5. CASE place = "number" /\ phase = "digits"
  BY <1>1, <1>5 DEF StepsAt
<1>6. CASE place = "number" /\ phase = "ready"
  BY <1>1, <1>6 DEF StepsAt
<1>7. CASE /\ place \notin {"width", "convert"}
           /\ ~(place = "number" /\ phase \in {"grow", "digits", "ready"})
  BY <1>1, <1>7 DEF StepsAt
<1> QED BY <1>2, <1>3, <1>4, <1>5, <1>6, <1>7

(* A character further, whatever is left there. *)
LEMMA FurtherIsLess ==
  ASSUME NEW k \in Nat, NEW m \in Nat, NEW n \in Nat, m + 1 <= n,
         NEW r \in 0 .. k, NEW t \in 0 .. k
  PROVE  m * (k + 1) + r < n * (k + 1) + t
<1>1. (m + 1) * (k + 1) <= n * (k + 1)
  BY TimesMonotone
<1>2. (m + 1) * (k + 1) = m * (k + 1) + (k + 1)
  OBVIOUS
<1>3. m * (k + 1) \in Nat /\ n * (k + 1) \in Nat
  OBVIOUS
<1> DEFINE a == m * (k + 1)
           b == n * (k + 1)
<1>4. a + (k + 1) <= b /\ a \in Nat /\ b \in Nat
  BY <1>1, <1>2, <1>3
<1> HIDE DEF a, b
<1>5. a + r < b + t
  BY <1>4
<1> QED BY <1>5 DEF a, b

(* What makes the measure a natural number. *)
Measurable ==
  /\ p \in Nat /\ Len(fmt) \in Nat /\ Len(fmt) + 1 - p \in Nat
  /\ num \in Unsigned /\ d \in Unsigned
  /\ loop = "grow" => d # 0 /\ d <= num + 1

LEMMA MeasurableWhileInv == IInv => Measurable
<1> SUFFICES ASSUME IInv PROVE Measurable
  OBVIOUS
<1>1. FormatInMemory /\ p \in 1 .. Len(fmt) + 1 /\ Locals
  BY DEF IInv, Position
<1>2. Len(fmt) \in Nat
  BY <1>1, InMemory
<1>3. num \in Unsigned /\ d \in Unsigned /\ (loop = "grow" => d # 0 /\ d <= num + 1)
  BY <1>1 DEF Locals, FormatTypeOK
<1> QED BY <1>1, <1>2, <1>3 DEF Measurable

LEMMA MeasureIsNat == Measurable => Measure \in Nat
<1> SUFFICES ASSUME Measurable PROVE Measure \in Nat
  OBVIOUS
<1>1. Len(fmt) + 1 - p \in Nat /\ Word \in Nat
  BY WordFacts DEF Measurable
<1>2. Steps \in Nat
  <2>1. Steps \in 0 .. 2 * Word + 3
    BY StepsAre DEF Steps, Measurable
  <2> QED BY <2>1, <1>1
<1> DEFINE m == Len(fmt) + 1 - p
           t == Steps
<1> HIDE DEF m, t
<1>3. m * (2 * Word + 4) + t \in Nat
  BY <1>1, <1>2 DEF m, t
<1> QED BY <1>3 DEF Measure, m, t

LEMMA ScanStepsLower ==
  ASSUME Measurable, Measurable', UNCHANGED fmt, p' >= p + 1
  PROVE  Measure' < Measure
<1>1. /\ p \in Nat /\ Len(fmt) \in Nat /\ Len(fmt) + 1 - p \in Nat
      /\ Steps \in 0 .. 2 * Word + 3 /\ Word \in Nat
  BY StepsAre, WordFacts DEF Steps, Measurable
<1>2. /\ p' \in Nat /\ Len(fmt') + 1 - p' \in Nat
      /\ num' \in Unsigned /\ d' \in Unsigned
      /\ loop' = "grow" => d' # 0 /\ d' <= num' + 1
  BY DEF Measurable
<1>3. Steps' \in 0 .. 2 * Word + 3
  BY <1>2, StepsAre DEF Steps
<1> DEFINE m == Len(fmt) + 1 - p'
           n == Len(fmt) + 1 - p
           k == 2 * Word + 3
           r == Steps'
           t == Steps
<1>4. /\ m \in Nat /\ n \in Nat /\ m + 1 <= n /\ k \in Nat /\ k + 1 = 2 * Word + 4
      /\ r \in 0 .. k /\ t \in 0 .. k
  BY <1>1, <1>2, <1>3
<1>5. Measure = n * (2 * Word + 4) + t /\ Measure' = m * (2 * Word + 4) + r
  BY DEF Measure
<1> HIDE DEF m, n, k, r, t
<1>6. m * (k + 1) + r < n * (k + 1) + t
  BY <1>4, FurtherIsLess
<1> QED BY <1>4, <1>5, <1>6

LEMMA OtherStepsLower ==
  ASSUME Measurable, Measurable', UNCHANGED <<fmt, p>>, Steps' < Steps
  PROVE  Measure' < Measure
<1>1. Len(fmt) + 1 - p \in Nat /\ Steps \in 0 .. 2 * Word + 3 /\ Word \in Nat
  BY StepsAre, WordFacts DEF Steps, Measurable
<1>2. /\ num' \in Unsigned /\ d' \in Unsigned
      /\ loop' = "grow" => d' # 0 /\ d' <= num' + 1
  BY DEF Measurable
<1>3. Steps' \in 0 .. 2 * Word + 3
  BY <1>2, StepsAre DEF Steps
<1> DEFINE m == (Len(fmt) + 1 - p) * (2 * Word + 4)
           r == Steps'
           t == Steps
<1>4. Measure = m + t /\ Measure' = m + r
  BY DEF Measure
<1>5. m \in Nat /\ r \in Nat /\ t \in Nat
  BY <1>1, <1>3
<1>6. r < t
  OBVIOUS
<1> HIDE DEF m, r, t
<1> QED BY <1>4, <1>5, <1>6

LEMMA ConversionLowers ==
  ASSUME IInv, Measurable, Measurable', Converting
  PROVE  Steps' < Steps
<1>1. /\ pc = "number" /\ (Grow \/ Digits) /\ UNCHANGED <<pc, p, fmt>>
  BY DEF Converting, scan_vars
<1>2. /\ num \in Unsigned /\ d \in Unsigned
      /\ loop = "grow" => d # 0 /\ d <= num + 1
  BY DEF Measurable
<1>3. /\ num' \in Unsigned /\ d' \in Unsigned
      /\ loop' = "grow" => d' # 0 /\ d' <= num' + 1
  BY DEF Measurable
<1>4. Word \in Nat /\ num \in Nat /\ d \in Nat /\ num' \in Nat /\ d' \in Nat
  BY <1>2, <1>3, WordFacts
<1>5. CASE Grow
  <2>1. loop = "grow" /\ num' = num
    BY <1>5 DEF Grow
  <2>2. IF loop' = "grow" THEN d < d' ELSE loop' = "digits" /\ d' = d
    <3>1. PICK k \in 1 .. Len(pieces) :
               /\ AllRead(k) /\ pieces[k].ch \in Numeric
               /\ base = Base(pieces[k]) /\ uc = Upper(pieces[k])
               /\ Converts(Magnitude(pieces[k]), Sign(pieces[k]))
      BY <1>1 DEF IInv, Locals, ConvertsNumber
    <3>2. PICK x : x = pieces[k]
      OBVIOUS
    <3>3. PICK v : v = Magnitude(x)
      OBVIOUS
    <3>4. PICK sign : sign = Sign(x)
      OBVIOUS
    <3>5. FormatInMemory /\ Locals
      BY DEF IInv, Position
    <3>6. GoodPiece(x) /\ ~x.lit /\ x.ch \in Numeric
      BY <3>1, <3>2, <3>5, AllReadFacts
    <3>7. v \in Unsigned /\ sign \in Seq(Nat) /\ base \in {10, 16} /\ uc \in BOOLEAN
      BY <3>1, <3>2, <3>3, <3>4, <3>6, NumberFacts, SignIsText
    <3>8. Converts(v, sign)
      BY <3>1, <3>2, <3>3, <3>4
    <3> QED BY <1>5, <3>7, <3>8, GrowStep
  <2>3. Steps = Word + 2 + (num + 1 - d) /\ Steps >= Word + 2
    BY <1>1, <1>2, <1>4, <2>1, StepsAre DEF Steps
  <2>4. CASE loop' = "grow"
    <3>1. Steps' = Word + 2 + (num' + 1 - d')
      BY <1>1, <1>3, <2>4, StepsAre DEF Steps
    <3> DEFINE a == num
               b == d
               e == d'
               r == Steps'
               u == Steps
    <3>2. /\ a \in Nat /\ b \in Nat /\ e \in Nat /\ b < e
          /\ r = Word + 2 + (a + 1 - e) /\ u = Word + 2 + (a + 1 - b)
      BY <1>4, <2>1, <2>2, <2>3, <2>4, <3>1
    <3> HIDE DEF a, b, e, r, u
    <3>3. r < u
      BY <1>4, <3>2
    <3> QED BY <3>3 DEF r, u
  <2>5. CASE loop' # "grow"
    <3>1. Steps' <= Word + 1 /\ Steps' = d' + 2
      BY <1>1, <1>3, <2>2, <2>5, StepsAre DEF Steps
    <3> DEFINE r == Steps'
               u == Steps
               a == num
               b == d
               e == d'
    <3>2. r <= Word + 1 /\ r = e + 2 /\ u >= Word + 2 /\ u = Word + 2 + (a + 1 - b)
      BY <2>3, <3>1
    <3>3. a \in Nat /\ b \in Nat /\ e \in Nat
      BY <1>4
    <3> HIDE DEF r, u, a, b, e
    <3>4. r < u
      BY <1>4, <3>2, <3>3
    <3> QED BY <3>4 DEF r, u
  <2> QED BY <2>4, <2>5
<1>6. CASE Digits
  <2>1. loop = "digits" /\ base \in {10, 16}
    BY <1>6 DEF Digits, IInv, Locals, FormatTypeOK
  <2>2. Steps = d + 2
    BY <1>1, <1>2, <2>1, StepsAre DEF Steps
  <2>3. CASE d = 0
    <3>1. loop' = "ready"
      BY <1>6, <2>3 DEF Digits
    <3>2. Steps' = 1
      BY <1>1, <1>3, <3>1, StepsAre DEF Steps
    <3> QED BY <2>2, <2>3, <3>2
  <2>4. CASE d # 0
    <3>1. loop' = "digits" /\ d' = d \div base
      BY <1>6, <2>1, <2>4 DEF Digits
    <3>2. Steps' = d' + 2
      BY <1>1, <1>3, <3>1, StepsAre DEF Steps
    <3> DEFINE a == d
               e == d'
               r == Steps'
               u == Steps
    <3>3. /\ a \in Nat \ {0} /\ e \in Nat /\ base \in {10, 16} /\ e = a \div base
          /\ r = e + 2 /\ u = a + 2
      BY <1>4, <2>1, <2>2, <2>4, <3>1, <3>2
    <3> HIDE DEF a, e, r, u
    <3>4. e < a
      BY <3>3
    <3>5. r < u
      BY <3>3, <3>4
    <3> QED BY <3>5 DEF r, u
  <2> QED BY <2>3, <2>4
<1> QED BY <1>1, <1>5, <1>6

LEMMA EveryStepLowers ==
  ASSUME IInv, Measurable, Measurable', Next
  PROVE  Measure' < Measure
<1>1. /\ p \in Nat /\ Word \in Nat /\ num \in Unsigned /\ d \in Unsigned
      /\ loop = "grow" => d # 0 /\ d <= num + 1
  BY WordFacts DEF Measurable
<1>2. /\ num' \in Unsigned /\ d' \in Unsigned
      /\ loop' = "grow" => d' # 0 /\ d' <= num' + 1
  BY DEF Measurable
<1>3. CASE End \/ Char
  BY <1>1, <1>3, ScanStepsLower DEF End, Char
<1>4. CASE Directive
  BY <1>1, <1>4, ScanStepsLower DEF Directive
<1>5. CASE Width
  <2>1. CASE IsDigit(ch)
    BY <1>1, <1>5, <2>1, ScanStepsLower DEF Width
  <2>2. CASE ~IsDigit(ch)
    <3>1. pc = "width" /\ pc' = "convert" /\ UNCHANGED <<fmt, p>>
      BY <1>5, <2>2 DEF Width
    <3>2. Steps = 2 * Word + 3 /\ Steps' = 2 * Word + 2
      BY <1>1, <1>2, <3>1, StepsAre DEF Steps
    <3> QED BY <1>1, <3>1, <3>2, OtherStepsLower
  <2> QED BY <2>1, <2>2
<1>6. CASE Number
  <2>1. pc = "convert" /\ pc' = "number" /\ UNCHANGED <<fmt, p>> /\ loop' = "grow"
    BY <1>6 DEF Number, I2aCall, Ui2aCall
  <2>2. Steps = 2 * Word + 2 /\ Steps' \in Word + 2 .. 2 * Word + 1
    BY <1>1, <1>2, <2>1, StepsAre DEF Steps
  <2> QED BY <1>1, <2>1, <2>2, OtherStepsLower
<1>7. CASE Converting
  <2>1. UNCHANGED <<fmt, p>>
    BY <1>7 DEF Converting, scan_vars
  <2> QED BY <1>7, <2>1, ConversionLowers, OtherStepsLower
<1>8. CASE PutNumber
  <2>1. pc = "number" /\ loop = "ready" /\ pc' = "scan" /\ UNCHANGED <<fmt, p>>
    BY <1>8 DEF PutNumber
  <2>2. Steps = 1 /\ Steps' = 0
    BY <1>1, <1>2, <2>1, StepsAre DEF Steps
  <2> QED BY <2>1, <2>2, OtherStepsLower
<1>9. CASE PutText \/ Other
  <2>1. pc = "convert" /\ pc' = "scan" /\ UNCHANGED <<fmt, p>>
    BY <1>9 DEF PutText, Other
  <2>2. Steps = 2 * Word + 2 /\ Steps' = 0
    BY <1>1, <1>2, <2>1, StepsAre DEF Steps
  <2> QED BY <1>1, <2>1, <2>2, OtherStepsLower
<1> QED BY <1>3, <1>4, <1>5, <1>6, <1>7, <1>8, <1>9 DEF Next

(* A call of printk comes to an end, whatever its format: every step       *)
(* lowers a natural number, so that no loop of tfp_format, a2i or ui2a can *)
(* go on for ever -- d, which grows before it falls, included.             *)
THEOREM EveryCallEnds == Spec => [](Measure \in Nat) /\ [][Measure' < Measure]_vars
<1>1. IInv => Measurable
  BY MeasurableWhileInv
<1>2. Measurable => Measure \in Nat
  BY MeasureIsNat
<1>3. IInv /\ Measurable /\ Measurable' /\ [Next]_vars => [Measure' < Measure]_vars
  BY EveryStepLowers
<1> QED BY <1>1, <1>2, <1>3, Invariant, PTL DEF Spec
=============================================================================
