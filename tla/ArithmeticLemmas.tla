-------------------------- MODULE ArithmeticLemmas --------------------------
(***************************************************************************)
(* Facts about the natural numbers that the proofs of the allocators, the  *)
(* rings and the power accounting share: multiplication is monotone, and   *)
(* division with remainder is unique.                                      *)
(***************************************************************************)
EXTENDS Integers, TLAPS

\* Multiplication by a natural number is monotone.
LEMMA TimesMonotone ==
  ASSUME NEW a \in Int, NEW b \in Int, NEW s \in Nat, a <= b
  PROVE  a * s <= b * s
OBVIOUS

\* The defining equation of division with remainder.
LEMMA DivisionWithRemainder ==
  ASSUME NEW p \in Nat, NEW s \in Nat \ {0}
  PROVE  /\ p \div s \in Nat
         /\ p % s \in 0 .. (s - 1)
         /\ p = ((p \div s) * s) + (p % s)
OBVIOUS

\* Quotient and remainder are determined by that equation.
LEMMA DivisionUnique ==
  ASSUME NEW p \in Nat, NEW s \in Nat \ {0}, NEW q \in Nat, NEW r \in 0 .. (s - 1),
         p = (q * s) + r
  PROVE  p \div s = q /\ p % s = r
<1> DEFINE d == p \div s
           m == p % s
<1>1. d \in Nat /\ m \in 0 .. (s - 1) /\ p = (d * s) + m
  BY DivisionWithRemainder
<1> HIDE DEF d, m
<1>2. q * s \in Int /\ d * s \in Int  BY <1>1
<1>3. CASE d >= q + 1
  <2>1. (q + 1) * s <= d * s  BY <1>3, <1>1, TimesMonotone
  <2>2. (q + 1) * s = (q * s) + s  OBVIOUS
  <2>3. QED  BY <2>1, <2>2, <1>2, <1>1
<1>4. CASE d <= q - 1
  <2>1. (d + 1) * s <= q * s  BY <1>4, <1>1, TimesMonotone
  <2>2. (d + 1) * s = (d * s) + s  BY <1>1
  <2>3. QED  BY <2>1, <2>2, <1>2, <1>1
<1>5. CASE d = q
  BY <1>5, <1>1 DEF d, m
<1>6. QED  BY <1>1, <1>3, <1>4, <1>5

\* Rounding down to a multiple of 2s drops s more than rounding down to a
\* multiple of s exactly when the quotient by s is odd.
LEMMA RoundDownTwice ==
  ASSUME NEW p \in Nat, NEW s \in Nat \ {0}
  PROVE  p - (p % (2 * s)) = IF (p \div s) % 2 = 0 THEN p - (p % s)
                                                   ELSE p - (p % s) - s
<1> DEFINE q == p \div s
           r == p % s
           h == q \div 2
<1>1. q \in Nat /\ r \in 0 .. (s - 1) /\ p = (q * s) + r
  BY DivisionWithRemainder
<1>2. 2 * s \in Nat \ {0}  OBVIOUS
<1> HIDE DEF q, r
<1>3. h \in Nat /\ (q % 2 = 0 \/ q % 2 = 1) /\ q = (h * 2) + (q % 2)
  BY <1>1, DivisionWithRemainder
<1> HIDE DEF h
<1>4. CASE q % 2 = 0
  <2>1. q = h * 2  BY <1>3, <1>4
  <2>2. q * s = h * (2 * s)  BY <2>1, <1>3
  <2>3. r \in 0 .. ((2 * s) - 1)  BY <1>1
  <2>4. p % (2 * s) = r  BY <2>2, <2>3, <1>1, <1>2, <1>3, DivisionUnique
  <2>5. QED  BY <2>4, <1>4 DEF q, r
<1>5. CASE q % 2 = 1
  <2>1. q = (h * 2) + 1  BY <1>3, <1>5
  <2>2. q * s = (h * (2 * s)) + s  BY <2>1, <1>3
  <2>3. r + s \in 0 .. ((2 * s) - 1)  BY <1>1
  <2>4. h * (2 * s) \in Nat  BY <1>3
  <2>5. p = (h * (2 * s)) + (r + s)  BY <2>2, <2>4, <1>1
  <2>6. p % (2 * s) = r + s  BY <2>5, <2>3, <1>2, <1>3, DivisionUnique
  <2>7. p \in Nat /\ r \in Nat  BY <1>1
  <2>8. QED  BY <2>6, <2>7, <1>5 DEF q, r
<1>6. QED  BY <1>3, <1>4, <1>5
=============================================================================
