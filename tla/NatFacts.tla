------------------------------- MODULE NatFacts ------------------------------
(***************************************************************************)
(* Induction and recursion over natural numbers, as facts about sets and   *)
(* functions: what a proof needs to know of a function that is defined in  *)
(* terms of its value for n - 1.  And least elements, and quotients.       *)
(***************************************************************************)
EXTENDS Integers, FiniteSetsExt, WellFoundedInduction, TLAPS

LEMMA LessThanPairs ==
  OpToRel(<, Nat) = {ss \in Nat \X Nat : ss[1] < ss[2]}
BY DEF OpToRel

(* A set of natural numbers that is not empty has a least element. *)
LEMMA LeastElement ==
  ASSUME NEW T, T \subseteq Nat, T # {}
  PROVE  \E m \in T : \A n \in T : m <= n
<1> DEFINE R == {ss \in Nat \X Nat : ss[1] < ss[2]}
<1>1. IsWellFoundedOn(R, Nat)
  BY NatLessThanWellFounded, LessThanPairs
<1>2. \E m \in T : \A n \in T : ~(<<n, m>> \in R)
  <2> HIDE DEF R
  <2> QED BY <1>1, WFMin
<1>3. PICK m \in T : \A n \in T : ~(<<n, m>> \in R)
  BY <1>2
<1>4. ASSUME NEW n \in T
      PROVE  m <= n
  <2>1. ~(<<n, m>> \in R) /\ n \in Nat /\ m \in Nat
    BY <1>3
  <2> QED BY <2>1
<1> QED BY <1>4

(* The induction principle. *)
LEMMA Induction ==
  ASSUME NEW T, 0 \in T, \A n \in Nat : n \in T => n + 1 \in T
  PROVE  \A n \in Nat : n \in T
<1> SUFFICES ASSUME NEW k \in Nat, k \notin T
             PROVE  FALSE
  OBVIOUS
<1>1. PICK m \in Nat \ T : \A n \in Nat \ T : m <= n
  <2> DEFINE U == Nat \ T
  <2>1. U \subseteq Nat /\ U # {}
    OBVIOUS
  <2> HIDE DEF U
  <2>2. \E m \in U : \A n \in U : m <= n
    BY <2>1, LeastElement
  <2> QED BY <2>2 DEF U
<1>2. m # 0 /\ m - 1 \in Nat
  BY <1>1
<1>3. m - 1 \in T
  BY <1>1, <1>2
<1> QED BY <1>1, <1>2, <1>3

(* The same, up to a number. *)
LEMMA InductionUpTo ==
  ASSUME NEW N \in Nat, NEW T, 0 \in T, \A n \in 0 .. N - 1 : n \in T => n + 1 \in T
  PROVE  \A n \in 0 .. N : n \in T
<1> DEFINE U == {n \in Nat : n \in 0 .. N => n \in T}
<1>1. 0 \in U
  OBVIOUS
<1>2. \A n \in Nat : n \in U => n + 1 \in U
  OBVIOUS
<1>3. \A n \in Nat : n \in U
  <2> HIDE DEF U
  <2> QED BY <1>1, <1>2, Induction
<1> QED BY <1>3

(* f starts at base, and its value for n comes from the one for n - 1, as  *)
(* step says, for every n in where.                                        *)
Recurs(f, base, step, where) ==
  f[0] = base /\ \A n \in where : f[n] = step[<<f[n - 1], n>>]

(* Steps compose to such a function, up to a number, *)
LEMMA RecursionUpTo ==
  ASSUME NEW S, NEW base, NEW step, NEW N,
         base \in S, step \in [S \X Nat -> S], N \in Nat
  PROVE  \E f \in [0 .. N -> S] : Recurs(f, base, step, 1 .. N)
<1> USE DEF Recurs
<1> DEFINE T == {k \in Nat : \E f \in [0 .. k -> S] : Recurs(f, base, step, 1 .. k)}
<1>1. 0 \in T
  <2>1. [n \in 0 .. 0 |-> base] \in [0 .. 0 -> S]
    OBVIOUS
  <2>2. Recurs([n \in 0 .. 0 |-> base], base, step, 1 .. 0)
    OBVIOUS
  <2> QED BY <2>1, <2>2
<1>2. ASSUME NEW k \in Nat, k \in T
      PROVE  k + 1 \in T
  <2>1. PICK f \in [0 .. k -> S] : Recurs(f, base, step, 1 .. k)
    BY <1>2
  <2> DEFINE h == [n \in 0 .. k + 1 |-> IF n \in 0 .. k THEN f[n] ELSE step[<<f[k], k + 1>>]]
  <2>2. step[<<f[k], k + 1>>] \in S
    OBVIOUS
  <2>3. h \in [0 .. k + 1 -> S]
    BY <2>2
  <2>4. h[0] = base
    BY <2>1
  <2>5. ASSUME NEW n \in 1 .. k + 1
        PROVE  h[n] = step[<<h[n - 1], n>>]
    <3>1. CASE n \in 1 .. k
      BY <3>1, <2>1
    <3>2. CASE n = k + 1
      BY <3>2
    <3> QED BY <3>1, <3>2
  <2>6. Recurs(h, base, step, 1 .. k + 1)
    BY <2>4, <2>5
  <2> HIDE DEF h, Recurs
  <2> QED BY <2>3, <2>6
<1>3. N \in T
  <2> HIDE DEF T
  <2> QED BY <1>1, <1>2, Induction
<1> QED BY <1>3

(* and for all natural numbers. *)
LEMMA RecursionOnNat ==
  ASSUME NEW S, NEW base, NEW step, base \in S, step \in [S \X Nat -> S]
  PROVE  \E f \in [Nat -> S] : Recurs(f, base, step, Nat \ {0})
<1> DEFINE F == [k \in Nat |-> CHOOSE f \in [0 .. k -> S] : Recurs(f, base, step, 1 .. k)]
           h == [n \in Nat |-> F[n][n]]
<1>1. ASSUME NEW k \in Nat
      PROVE  F[k] \in [0 .. k -> S] /\ Recurs(F[k], base, step, 1 .. k)
  <2>1. \E f \in [0 .. k -> S] : Recurs(f, base, step, 1 .. k)
    BY RecursionUpTo
  <2>2. F[k] = CHOOSE f \in [0 .. k -> S] : Recurs(f, base, step, 1 .. k)
    OBVIOUS
  <2> HIDE DEF F
  <2> QED BY <2>1, <2>2
<1> HIDE DEF F
<1>2. ASSUME NEW k \in Nat
      PROVE  \A n \in 0 .. k : F[k + 1][n] = F[k][n]
  <2> DEFINE T == {n \in 0 .. k : F[k + 1][n] = F[k][n]}
  <2>1. Recurs(F[k], base, step, 1 .. k) /\ Recurs(F[k + 1], base, step, 1 .. k + 1)
    BY <1>1
  <2>2. 0 \in T
    BY <2>1 DEF Recurs
  <2>3. ASSUME NEW n \in 0 .. k - 1, n \in T
        PROVE  n + 1 \in T
    <3>1. n + 1 \in 0 .. k /\ n + 1 \in 1 .. k /\ n + 1 \in 1 .. k + 1 /\ (n + 1) - 1 = n
      OBVIOUS
    <3>2. F[k + 1][n + 1] = step[<<F[k + 1][n], n + 1>>]
      BY <3>1, <2>1 DEF Recurs
    <3>3. F[k][n + 1] = step[<<F[k][n], n + 1>>]
      BY <3>1, <2>1 DEF Recurs
    <3> QED BY <3>1, <3>2, <3>3, <2>3
  <2> HIDE DEF T
  <2>4. \A n \in 0 .. k : n \in T
    BY <2>2, <2>3, InductionUpTo
  <2> QED BY <2>4 DEF T
<1>3. h \in [Nat -> S]
  BY <1>1
<1>4. h[0] = base
  BY <1>1 DEF Recurs
<1>5. ASSUME NEW n \in Nat \ {0}
      PROVE  h[n] = step[<<h[n - 1], n>>]
  <2>1. n - 1 \in Nat /\ n \in 1 .. n /\ n - 1 \in 0 .. n - 1 /\ (n - 1) + 1 = n
    OBVIOUS
  <2>2. F[n][n] = step[<<F[n][n - 1], n>>]
    BY <1>1, <2>1 DEF Recurs
  <2>3. F[n][n - 1] = F[n - 1][n - 1]
    BY <1>2, <2>1
  <2> QED BY <2>1, <2>2, <2>3
<1> HIDE DEF h
<1>6. Recurs(h, base, step, Nat \ {0})
  BY <1>4, <1>5 DEF Recurs
<1> QED BY <1>3, <1>6

-----------------------------------------------------------------------------
(* Least and greatest elements. *)

LEMMA MinIs ==
  ASSUME NEW S, S \subseteq Int, NEW m \in S, \A n \in S : m <= n
  PROVE  Min(S) = m
<1>1. \A x \in S : (\A n \in S : x <= n) => x = m
  OBVIOUS
<1> QED BY <1>1 DEF Min

LEMMA MaxIs ==
  ASSUME NEW S, S \subseteq Int, NEW m \in S, \A n \in S : n <= m
  PROVE  Max(S) = m
<1>1. \A x \in S : (\A n \in S : n <= x) => x = m
  OBVIOUS
<1> QED BY <1>1 DEF Max

LEMMA MinOfNats ==
  ASSUME NEW S, S \subseteq Nat, S # {}
  PROVE  Min(S) \in S /\ \A n \in S : Min(S) <= n
<1>1. PICK m \in S : \A n \in S : m <= n
  BY LeastElement
<1>2. S \subseteq Int
  OBVIOUS
<1>3. Min(S) = m
  BY <1>1, <1>2, MinIs
<1> QED BY <1>1, <1>3

-----------------------------------------------------------------------------
(* Quotients and remainders. *)

LEMMA TimesMonotone ==
  ASSUME NEW a \in Nat, NEW b \in Nat, NEW d \in Nat, a <= b
  PROVE  a * d <= b * d
<1>1. b - a \in Nat /\ b = a + (b - a)
  OBVIOUS
<1>2. (b - a) * d \in Nat /\ b * d = a * d + (b - a) * d
  BY <1>1
<1> QED BY <1>2

LEMMA Quotient ==
  ASSUME NEW n \in Nat, NEW d \in Nat \ {0}
  PROVE  /\ n \div d \in Nat
         /\ (n \div d) * d <= n /\ n < (n \div d + 1) * d
<1>1. n \div d \in Nat
  OBVIOUS
<1>2. n < (n \div d + 1) * d
  OBVIOUS
<1>3. (n \div d) * d <= n
  OBVIOUS
<1> QED BY <1>1, <1>2, <1>3

LEMMA QuotientAndRest ==
  ASSUME NEW v \in Nat, NEW m \in Nat \ {0}
  PROVE  v \div m \in Nat /\ v % m \in 0 .. m - 1 /\ v = (v \div m) * m + (v % m)
<1>1. v \div m \in Nat /\ v % m \in 0 .. m - 1
  OBVIOUS
<1>2. v = m * (v \div m) + (v % m)
  OBVIOUS
<1>3. m * (v \div m) = (v \div m) * m
  <2>1. \A d \in Nat : m * d = d * m
    OBVIOUS
  <2> QED BY <2>1, <1>1
<1> QED BY <1>1, <1>2, <1>3

(* There is only one quotient and one remainder. *)
LEMMA QuotientIs ==
  ASSUME NEW q \in Nat, NEW m \in Nat \ {0}, NEW r \in 0 .. m - 1
  PROVE  (q * m + r) \div m = q /\ (q * m + r) % m = r
<1> DEFINE v == q * m + r
           Q == v \div m
<1>1. v \in Nat /\ q * m \in Nat /\ q * m <= v /\ v < q * m + m
  OBVIOUS
<1>2. Q \in Nat /\ Q * m <= v /\ v < (Q + 1) * m
  <2> HIDE DEF v
  <2> QED BY <1>1, Quotient
<1>3. (q + 1) * m = q * m + m
  OBVIOUS
<1>4. Q * m \in Nat /\ (Q + 1) * m \in Nat
  <2> HIDE DEF Q
  <2> QED BY <1>2
<1> HIDE DEF Q, v
<1>5. ~(Q < q)
  <2> SUFFICES ASSUME Q < q PROVE FALSE
    OBVIOUS
  <2>1. (Q + 1) * m <= q * m
    BY <1>2, TimesMonotone
  <2> QED BY <2>1, <1>1, <1>2, <1>4
<1>6. ~(q < Q)
  <2> SUFFICES ASSUME q < Q PROVE FALSE
    OBVIOUS
  <2>1. (q + 1) * m <= Q * m
    BY <1>2, TimesMonotone
  <2> QED BY <2>1, <1>1, <1>2, <1>3, <1>4
<1>7. Q = q
  BY <1>2, <1>5, <1>6
<1>8. v % m = r
  <2>1. v = (v \div m) * m + (v % m) /\ v % m \in 0 .. m - 1
    BY <1>1, QuotientAndRest
  <2>2. (v \div m) * m = q * m
    BY <1>7 DEF Q
  <2> QED BY <2>1, <2>2, <1>1 DEF v
<1> QED BY <1>7, <1>8 DEF Q, v

(* The rest of a division by m * b, divided by m. *)
LEMMA RestOfRest ==
  ASSUME NEW v \in Nat, NEW m \in Nat \ {0}, NEW b \in Nat \ {0}
  PROVE  /\ (v % (m * b)) \div m = (v \div m) % b
         /\ (v % (m * b)) % m = v % m
<1>1. m * b \in Nat \ {0}
  OBVIOUS
<1>2. PICK q \in Nat, r \in 0 .. m * b - 1 : v = q * (m * b) + r /\ r = v % (m * b)
  <2>1. v \div (m * b) \in Nat /\ v % (m * b) \in 0 .. m * b - 1
        /\ v = (v \div (m * b)) * (m * b) + (v % (m * b))
    BY <1>1, QuotientAndRest
  <2> QED BY <2>1
<1>3. PICK q1 \in Nat, r1 \in 0 .. m - 1 : r = q1 * m + r1 /\ q1 = r \div m /\ r1 = r % m
  <2>1. r \in Nat
    BY <1>1
  <2>2. r \div m \in Nat /\ r % m \in 0 .. m - 1 /\ r = (r \div m) * m + (r % m)
    BY <2>1, QuotientAndRest
  <2> QED BY <2>2
<1>4. q1 \in 0 .. b - 1
  <2> SUFFICES ASSUME b <= q1 PROVE FALSE
    BY <1>3
  <2>1. b * m <= q1 * m
    BY TimesMonotone
  <2>2. q1 * m \in Nat /\ b * m = m * b
    OBVIOUS
  <2> QED BY <2>1, <2>2, <1>1, <1>3
<1>5. v = (q * b + q1) * m + r1 /\ q * b + q1 \in Nat
  <2>1. q * b \in Nat
    OBVIOUS
  <2>2. q * (m * b) = (q * b) * m
    OBVIOUS
  <2>3. (q * b + q1) * m = (q * b) * m + q1 * m
    BY <2>1
  <2>4. q * (m * b) \in Nat /\ q1 * m \in Nat
    BY <1>1
  <2>5. v = q * (m * b) + (q1 * m + r1)
    BY <1>2, <1>3
  <2>6. (q * b) * m \in Nat
    BY <2>1
  <2>7. v = ((q * b) * m + q1 * m) + r1
    BY <2>2, <2>4, <2>5, <2>6
  <2>8. q * b + q1 \in Nat
    BY <2>1
  <2> QED BY <2>3, <2>7, <2>8
<1>6. v \div m = q * b + q1 /\ v % m = r1
  <2>1. \A t \in Nat : (t * m + r1) \div m = t /\ (t * m + r1) % m = r1
    BY QuotientIs
  <2> QED BY <2>1, <1>5
<1>7. (q * b + q1) % b = q1
  BY <1>4, QuotientIs
<1> QED BY <1>2, <1>3, <1>6, <1>7
=============================================================================
