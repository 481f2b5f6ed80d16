------------------------- MODULE Utf16StreambufProofs -------------------------
(***************************************************************************)
(* What is proved about the growing buffer, for every capacity, width of   *)
(* a size_t and length of the text: smallest_pow2() is the least power of  *)
(* two, so that the buffer grows as it should, and no character is lost.   *)
(*                                                                         *)
(* The first part is about numbers: a function that is defined by          *)
(* recursion exists, and then what Pow2, Or and Smeared are, each by       *)
(* induction from the least number of a set.                               *)
(***************************************************************************)
EXTENDS Utf16Streambuf, FiniteSetTheorems, SequenceTheorems, WellFoundedInduction, TLAPS

\* Every nonempty set of naturals has a least element.
LEMMA LeastNat ==
  ASSUME NEW T, T \subseteq Nat, T # {}
  PROVE  \E m \in T : \A n \in T : m <= n
<1> DEFINE R == {ss \in Nat \X Nat : ss[1] < ss[2]}
<1>1. IsWellFoundedOn(R, Nat)
  BY NatLessThanWellFounded DEF OpToRel
<1>2. \E x \in T : \A y \in T : ~(<<y, x>> \in R)
  <2> HIDE DEF R
  <2>1. QED
    BY <1>1, WFMin, Zenon
<1>3. PICK m \in T : \A n \in T : ~(<<n, m>> \in R)
  BY <1>2
<1>4. ASSUME NEW n \in T PROVE m <= n
  <2>1. n \in Nat /\ m \in Nat
    OBVIOUS
  <2>2. <<n, m>> \in Nat \X Nat
    BY <2>1
  <2>3. ~(n < m)
    BY <1>3, <2>2
  <2>4. QED
    BY <2>1, <2>3
<1>5. QED
  BY <1>4

\* Induction, for a property that is given as the set of the numbers that have it.
LEMMA AllNats ==
  ASSUME NEW P, 0 \in P, \A n \in Nat : n \in P => n + 1 \in P
  PROVE  Nat \subseteq P
<1> DEFINE T == {n \in Nat : n \notin P}
<1>1. SUFFICES ASSUME T # {} PROVE FALSE
  OBVIOUS
<1>2. PICK m \in T : \A n \in T : m <= n
  BY <1>1, LeastNat
<1>3. m \in Nat /\ m # 0 /\ m \notin P
  OBVIOUS
<1>4. m - 1 \in Nat /\ ~(m <= m - 1) /\ (m - 1) + 1 = m
  BY <1>3
<1>5. m - 1 \in P
  BY <1>2, <1>4
<1>6. QED
  BY <1>3, <1>4, <1>5

\* Is f, on the numbers up to n, what c and the steps make?
RecursionUpTo(f, n, S, c, step) ==
  /\ f \in [0 .. n -> S]
  /\ f[0] = c
  /\ \A k \in 0 .. n : k + 1 <= n => f[k + 1] = step[k][f[k]]

\* Is f, on all numbers, what c and the steps make?
Recursive(f, S, c, step) ==
  /\ f \in [Nat -> S]
  /\ f[0] = c
  /\ \A n \in Nat : f[n + 1] = step[n][f[n]]

\* What is defined by recursion over the numbers exists.
LEMMA Recursion ==
  ASSUME NEW S, NEW c \in S, NEW step \in [Nat -> [S -> S]]
  PROVE  \E f : Recursive(f, S, c, step)
<1> DEFINE Exists == {n \in Nat : \E f : RecursionUpTo(f, n, S, c, step)}
<1>1. 0 \in Exists
  <2>1. RecursionUpTo([k \in 0 .. 0 |-> c], 0, S, c, step)
    BY DEF RecursionUpTo
  <2>2. QED
    BY <2>1
<1>2. ASSUME NEW n \in Nat, n \in Exists PROVE n + 1 \in Exists
  <2>1. PICK f : RecursionUpTo(f, n, S, c, step)
    BY <1>2
  <2> DEFINE g == [k \in 0 .. n + 1 |-> IF k = n + 1 THEN step[n][f[n]] ELSE f[k]]
  <2>2. f[n] \in S /\ step[n][f[n]] \in S
    BY <2>1 DEF RecursionUpTo
  <2>3. g \in [0 .. n + 1 -> S]
    BY <2>1, <2>2 DEF RecursionUpTo
  <2>4. \A k \in 0 .. n : g[k] = f[k]
    OBVIOUS
  <2>5. g[n + 1] = step[n][f[n]]
    OBVIOUS
  <2> HIDE DEF g
  <2>6. ASSUME NEW k \in 0 .. n + 1, k + 1 <= n + 1 PROVE g[k + 1] = step[k][g[k]]
    <3>1. CASE k = n
      BY <2>4, <2>5, <3>1
    <3>2. CASE k # n
      <4>1. k \in 0 .. n /\ k + 1 \in 0 .. n /\ k + 1 <= n
        BY <2>6, <3>2
      <4>2. QED
        BY <2>1, <2>4, <4>1 DEF RecursionUpTo
    <3>3. QED
      BY <3>1, <3>2
  <2>7. g[0] = c
    BY <2>1, <2>4 DEF RecursionUpTo
  <2>8. RecursionUpTo(g, n + 1, S, c, step)
    BY <2>3, <2>6, <2>7 DEF RecursionUpTo
  <2>9. QED
    BY <2>8
<1>3. Nat \subseteq Exists
  <2> HIDE DEF Exists
  <2>1. QED
    BY <1>1, <1>2, AllNats
<1>4. ASSUME NEW n \in Nat, NEW f, RecursionUpTo(f, n, S, c, step),
             NEW g, RecursionUpTo(g, n + 1, S, c, step)
      PROVE  f[n] = g[n]
  <2> DEFINE Same == {k \in Nat : k <= n => f[k] = g[k]}
  <2>1. 0 \in Same
    BY <1>4 DEF RecursionUpTo
  <2>2. ASSUME NEW k \in Nat, k \in Same PROVE k + 1 \in Same
    <3>1. CASE k + 1 <= n
      <4>1. k \in 0 .. n /\ k \in 0 .. n + 1 /\ k + 1 <= n + 1 /\ k <= n
        BY <3>1
      <4>2. f[k + 1] = g[k + 1]
        BY <1>4, <2>2, <3>1, <4>1 DEF RecursionUpTo
      <4>3. QED
        BY <4>2
    <3>2. QED
      BY <3>1
  <2>3. Nat \subseteq Same
    <3> HIDE DEF Same
    <3>1. QED
      BY <2>1, <2>2, AllNats
  <2>4. QED
    BY <2>3
<1> DEFINE G(n) == CHOOSE f : RecursionUpTo(f, n, S, c, step)
           F == [n \in Nat |-> G(n)[n]]
<1>5. ASSUME NEW n \in Nat PROVE RecursionUpTo(G(n), n, S, c, step)
  <2>1. \E f : RecursionUpTo(f, n, S, c, step)
    BY <1>3
  <2>2. QED
    BY <2>1
<1> HIDE DEF G
<1>6. \A n \in Nat : G(n)[n] \in S
  BY <1>5 DEF RecursionUpTo
<1>7. F \in [Nat -> S]
  BY <1>6
<1>8. F[0] = c
  BY <1>5 DEF RecursionUpTo
<1>9. ASSUME NEW n \in Nat PROVE F[n + 1] = step[n][F[n]]
  <2>1. n + 1 \in Nat /\ RecursionUpTo(G(n), n, S, c, step)
        /\ RecursionUpTo(G(n + 1), n + 1, S, c, step)
    BY <1>5
  <2>2. G(n)[n] = G(n + 1)[n]
    BY <1>4, <2>1
  <2>3. n \in 0 .. n + 1 /\ n + 1 <= n + 1
    OBVIOUS
  <2>4. G(n + 1)[n + 1] = step[n][G(n + 1)[n]]
    BY <2>1, <2>3 DEF RecursionUpTo
  <2>5. QED
    BY <2>1, <2>2, <2>4
<1>10. QED
  BY <1>7, <1>8, <1>9 DEF Recursive

-------------------------------------------------------------------------------
(* Powers of two.                                                          *)

\* Pow2 is what its recursion says.
LEMMA Pow2Defined ==
  /\ Pow2 \in [Nat -> Nat]
  /\ Pow2[0] = 1
  /\ \A n \in Nat : Pow2[n + 1] = 2 * Pow2[n]
<1> DEFINE step == [n \in Nat |-> [x \in Nat |-> 2 * x]]
           Eq(f) == f = [n \in Nat |-> IF n = 0 THEN 1 ELSE 2 * f[n - 1]]
<1>1. step \in [Nat -> [Nat -> Nat]]
  OBVIOUS
<1>2. PICK f : Recursive(f, Nat, 1, step)
  <2> HIDE DEF step
  <2>1. QED
    BY <1>1, Recursion
<1>3. f \in [Nat -> Nat] /\ f[0] = 1 /\ \A n \in Nat : f[n + 1] = 2 * f[n]
  BY <1>2 DEF Recursive
<1>4. ASSUME NEW n \in Nat PROVE f[n] = IF n = 0 THEN 1 ELSE 2 * f[n - 1]
  <2>1. CASE n = 0
    BY <1>3, <2>1
  <2>2. CASE n # 0
    <3>1. n - 1 \in Nat /\ (n - 1) + 1 = n
      BY <2>2
    <3>2. QED
      BY <1>3, <2>2, <3>1
  <2>3. QED
    BY <2>1, <2>2
<1>5. Eq(f)
  BY <1>3, <1>4
<1>6. Pow2 = CHOOSE g : Eq(g)
  BY DEF Pow2
<1>7. Eq(Pow2)
  <2> HIDE DEF Eq
  <2>1. QED
    BY <1>5, <1>6
<1>8. \A n \in Nat : Pow2[n] = IF n = 0 THEN 1 ELSE 2 * Pow2[n - 1]
  BY <1>7
<1> HIDE DEF Eq
<1>9. Pow2[0] = 1
  BY <1>8
<1>10. ASSUME NEW n \in Nat PROVE Pow2[n + 1] = 2 * Pow2[n]
  <2>1. n + 1 \in Nat /\ n + 1 # 0 /\ (n + 1) - 1 = n
    OBVIOUS
  <2>2. QED
    BY <1>8, <2>1
<1>11. \A n \in Nat : Pow2[n] \in Nat
  <2> DEFINE P == {n \in Nat : Pow2[n] \in Nat}
  <2>1. 0 \in P
    BY <1>9
  <2>2. \A n \in Nat : n \in P => n + 1 \in P
    BY <1>10
  <2> HIDE DEF P
  <2>3. Nat \subseteq P
    BY <2>1, <2>2, AllNats
  <2>4. QED
    BY <2>3 DEF P
<1>12. Pow2 = [n \in Nat |-> Pow2[n]]
  BY <1>7 DEF Eq
<1>13. QED
  BY <1>9, <1>10, <1>11, <1>12

\* Powers of two are positive.
LEMMA Pow2Positive ==
  \A n \in Nat : Pow2[n] \in Nat /\ Pow2[n] >= 1 /\ Pow2[n] > n
<1> DEFINE P == {n \in Nat : Pow2[n] \in Nat /\ Pow2[n] >= 1 /\ Pow2[n] > n}
<1>1. 0 \in P
  BY Pow2Defined
<1>2. ASSUME NEW n \in Nat, n \in P PROVE n + 1 \in P
  <2>1. Pow2[n + 1] = 2 * Pow2[n] /\ Pow2[n] \in Nat /\ Pow2[n] >= n + 1
    BY <1>2, Pow2Defined
  <2>2. QED
    BY <2>1
<1> HIDE DEF P
<1>3. Nat \subseteq P
  BY <1>1, <1>2, AllNats
<1>4. QED
  BY <1>3 DEF P

\* Of two powers of two, the next one is the least that is larger.
LEMMA Pow2Grows ==
  ASSUME NEW m \in Nat, NEW n \in Nat, m < n
  PROVE  2 * Pow2[m] <= Pow2[n]
<1> DEFINE P == {d \in Nat : 2 * Pow2[m] <= Pow2[m + 1 + d]}
<1>1. 0 \in P
  BY Pow2Positive, Pow2Defined
<1>2. ASSUME NEW d \in Nat, d \in P PROVE d + 1 \in P
  <2>1. /\ m + 1 + (d + 1) = (m + 1 + d) + 1 /\ m + 1 + d \in Nat
        /\ Pow2[m + 1 + d] \in Nat /\ Pow2[m] \in Nat
    BY Pow2Positive
  <2>2. Pow2[m + 1 + (d + 1)] = 2 * Pow2[m + 1 + d]
    BY <2>1, Pow2Defined
  <2>3. QED
    BY <1>2, <2>1, <2>2
<1> HIDE DEF P
<1>3. Nat \subseteq P
  BY <1>1, <1>2, AllNats
<1>4. n - m - 1 \in Nat /\ m + 1 + (n - m - 1) = n
  OBVIOUS
<1>5. QED
  BY <1>3, <1>4 DEF P

\* Powers are added to multiply.
LEMMA Pow2Sum ==
  ASSUME NEW m \in Nat, NEW n \in Nat
  PROVE  Pow2[m + n] = Pow2[m] * Pow2[n]
<1> DEFINE P == {d \in Nat : Pow2[m + d] = Pow2[m] * Pow2[d]}
<1>1. 0 \in P
  BY Pow2Positive, Pow2Defined
<1>2. ASSUME NEW d \in Nat, d \in P PROVE d + 1 \in P
  <2>1. /\ m + (d + 1) = (m + d) + 1 /\ m + d \in Nat
        /\ Pow2[m + d] \in Nat /\ Pow2[m] \in Nat /\ Pow2[d] \in Nat
    BY Pow2Positive
  <2>2. Pow2[m + (d + 1)] = 2 * Pow2[m + d] /\ Pow2[d + 1] = 2 * Pow2[d]
    BY <2>1, Pow2Defined
  <2>3. Pow2[m + (d + 1)] = 2 * (Pow2[m] * Pow2[d])
    BY <1>2, <2>2
  <2>4. \A a, b \in Nat : 2 * (a * b) = a * (2 * b)
    OBVIOUS
  <2>5. QED
    BY <2>1, <2>2, <2>3, <2>4
<1> HIDE DEF P
<1>3. Nat \subseteq P
  BY <1>1, <1>2, AllNats
<1>4. QED
  BY <1>3 DEF P

\* What lies between two powers of two; k is the number of its highest bit.
LEMMA HighestBit ==
  ASSUME NEW y \in Nat \ {0}
  PROVE  \E k \in Nat : Pow2[k] <= y /\ y < Pow2[k + 1]
<1> DEFINE T == {k \in Nat : y < Pow2[k]}
<1>1. y \in T
  BY Pow2Positive
<1>2. PICK m \in T : \A n \in T : m <= n
  <2>1. T \subseteq Nat /\ T # {}
    BY <1>1
  <2> HIDE DEF T
  <2>2. QED
    BY <2>1, LeastNat
<1>3. m \in Nat /\ y < Pow2[m] /\ m # 0
  BY Pow2Defined
<1>4. m - 1 \in Nat /\ ~(m <= m - 1) /\ (m - 1) + 1 = m
  BY <1>3
<1>5. ~(y < Pow2[m - 1]) /\ Pow2[m - 1] \in Nat
  BY <1>2, <1>4, Pow2Positive
<1>6. Pow2[m - 1] <= y
  BY <1>5
<1>7. QED
  BY <1>3, <1>4, <1>6

-------------------------------------------------------------------------------
(* The bits of x | y.                                                      *)

\* Or is what its recursion says.
LEMMA OrDefined ==
  \A x, y \in Nat :
     /\ Or[0][x][y] = 0
     /\ \A w \in Nat : /\ Or[w][x][y] \in Nat
                       /\ Or[w + 1][x][y] = 2 * Or[w][x \div 2][y \div 2]
                            + (IF x % 2 = 0 /\ y % 2 = 0 THEN 0 ELSE 1)
<1> DEFINE S == [Nat -> [Nat -> Nat]]
           bit(x, y) == IF x % 2 = 0 /\ y % 2 = 0 THEN 0 ELSE 1
           zero == [x \in Nat |-> [y \in Nat |-> 0]]
           step == [w \in Nat |-> [g \in S |-> [x \in Nat |-> [y \in Nat |->
                       2 * g[x \div 2][y \div 2] + bit(x, y)]]]]
           Eq(f) == f = [w \in Nat |->
                           [x \in Nat |-> [y \in Nat |-> IF w = 0 THEN 0
                              ELSE 2 * f[w - 1][x \div 2][y \div 2] + bit(x, y)]]]
<1>1. zero \in S
  OBVIOUS
<1>2. ASSUME NEW g \in S
      PROVE  [x \in Nat |-> [y \in Nat |-> 2 * g[x \div 2][y \div 2] + bit(x, y)]] \in S
  <2>1. ASSUME NEW x \in Nat, NEW y \in Nat
        PROVE  2 * g[x \div 2][y \div 2] + bit(x, y) \in Nat
    <3>1. x \div 2 \in Nat /\ y \div 2 \in Nat /\ bit(x, y) \in Nat
      OBVIOUS
    <3>2. g[x \div 2][y \div 2] \in Nat
      BY <3>1
    <3>3. \A a, b \in Nat : 2 * a + b \in Nat
      OBVIOUS
    <3> HIDE DEF bit
    <3>4. QED
      BY <3>1, <3>2, <3>3, Zenon
  <2> HIDE DEF bit
  <2>2. QED
    BY <2>1
<1>3. step \in [Nat -> [S -> S]]
  <2> HIDE DEF S, bit
  <2>1. QED
    BY <1>2
<1>4. PICK f : Recursive(f, S, zero, step)
  <2> HIDE DEF S, zero, step
  <2>1. QED
    BY <1>1, <1>3, Recursion
<1>5. /\ f \in [Nat -> S]
      /\ f[0] = zero
      /\ \A w \in Nat : f[w + 1] = [x \in Nat |-> [y \in Nat |-> 2 * f[w][x \div 2][y \div 2] + bit(x, y)]]
  <2>1. f \in [Nat -> S] /\ f[0] = zero /\ \A w \in Nat : f[w + 1] = step[w][f[w]]
    BY <1>4 DEF Recursive
  <2> HIDE DEF S, zero, bit
  <2>2. QED
    BY <2>1
<1>6. Eq(f)
  <2>1. ASSUME NEW w \in Nat
        PROVE  f[w] = [x \in Nat |-> [y \in Nat |-> IF w = 0 THEN 0
                         ELSE 2 * f[w - 1][x \div 2][y \div 2] + bit(x, y)]]
    <3> HIDE DEF bit
    <3>1. CASE w = 0
      BY <1>5, <3>1
    <3>2. CASE w # 0
      <4>1. w - 1 \in Nat /\ (w - 1) + 1 = w
        BY <3>2
      <4>2. f[w] = [x \in Nat |-> [y \in Nat |-> 2 * f[w - 1][x \div 2][y \div 2] + bit(x, y)]]
        BY <1>5, <4>1
      <4>3. QED
        BY <3>2, <4>2
    <3>3. QED
      BY <3>1, <3>2
  <2>2. f = [w \in Nat |-> f[w]]
    BY <1>5
  <2> HIDE DEF bit
  <2>3. QED
    BY <2>1, <2>2
<1>7. Or = CHOOSE g : Eq(g)
  BY DEF Or
<1>8. Eq(Or)
  <2> HIDE DEF Eq
  <2>1. QED
    BY <1>6, <1>7
<1>9. ASSUME NEW w \in Nat, NEW x \in Nat, NEW y \in Nat
      PROVE  Or[w][x][y] = IF w = 0 THEN 0
                           ELSE 2 * Or[w - 1][x \div 2][y \div 2] + bit(x, y)
  <2> HIDE DEF bit
  <2>1. QED
    BY <1>8
<1> HIDE DEF Eq
<1>10. \A x, y \in Nat : Or[0][x][y] = 0
  BY <1>9
<1>11. ASSUME NEW w \in Nat, NEW x \in Nat, NEW y \in Nat
       PROVE  Or[w + 1][x][y] = 2 * Or[w][x \div 2][y \div 2] + bit(x, y)
  <2> DEFINE v == w + 1
  <2>1. v \in Nat /\ v # 0 /\ v - 1 = w
    OBVIOUS
  <2> HIDE DEF bit, v
  <2>2. Or[v][x][y] = IF v = 0 THEN 0 ELSE 2 * Or[v - 1][x \div 2][y \div 2] + bit(x, y)
    BY <1>9, <2>1, Zenon
  <2>3. Or[v][x][y] = 2 * Or[w][x \div 2][y \div 2] + bit(x, y)
    BY <2>1, <2>2, Zenon
  <2>4. QED
    BY <2>3 DEF v
<1>12. \A w \in Nat : \A x, y \in Nat : Or[w][x][y] \in Nat
  <2> DEFINE P == {w \in Nat : \A x, y \in Nat : Or[w][x][y] \in Nat}
  <2>1. 0 \in P
    BY <1>10
  <2>2. ASSUME NEW w \in Nat, w \in P PROVE w + 1 \in P
    <3>1. ASSUME NEW x \in Nat, NEW y \in Nat PROVE Or[w + 1][x][y] \in Nat
      <4>1. x \div 2 \in Nat /\ y \div 2 \in Nat /\ bit(x, y) \in Nat
        OBVIOUS
      <4>2. Or[w][x \div 2][y \div 2] \in Nat
        BY <2>2, <4>1
      <4>3. \A a, b \in Nat : 2 * a + b \in Nat
        OBVIOUS
      <4> HIDE DEF bit
      <4>4. 2 * Or[w][x \div 2][y \div 2] + bit(x, y) \in Nat
        BY <4>1, <4>2, <4>3, Zenon
      <4>5. Or[w + 1][x][y] = 2 * Or[w][x \div 2][y \div 2] + bit(x, y)
        BY <1>11, Zenon
      <4>6. QED
        BY <4>4, <4>5, Zenon
    <3>2. QED
      BY <3>1
  <2> HIDE DEF P
  <2>3. Nat \subseteq P
    BY <2>1, <2>2, AllNats
  <2>4. QED
    BY <2>3 DEF P
<1>13. QED
  BY <1>10, <1>11, <1>12

\* One more bit, whatever bit it is.
LEMMA OrStep ==
  ASSUME NEW w \in Nat, NEW x \in Nat, NEW y \in Nat
  PROVE  /\ x \div 2 \in Nat /\ y \div 2 \in Nat /\ Or[w][x \div 2][y \div 2] \in Nat
         /\ Or[w + 1][x][y] \in Nat
         /\ Or[w + 1][x][y] <= 2 * Or[w][x \div 2][y \div 2] + 1
         /\ Or[w + 1][x][y] >= 2 * Or[w][x \div 2][y \div 2] + (x % 2)
         /\ Or[w + 1][x][y] >= 2 * Or[w][x \div 2][y \div 2] + (y % 2)
<1> DEFINE bit == IF x % 2 = 0 /\ y % 2 = 0 THEN 0 ELSE 1
           half == Or[w][x \div 2][y \div 2]
<1>1. x \div 2 \in Nat /\ y \div 2 \in Nat /\ x % 2 \in {0, 1} /\ y % 2 \in {0, 1}
  OBVIOUS
<1>2. half \in Nat
  BY <1>1, OrDefined
<1>3. Or[w + 1][x][y] = 2 * half + bit
  BY OrDefined
<1>4. bit \in {0, 1} /\ bit >= x % 2 /\ bit >= y % 2
  BY <1>1
<1> HIDE DEF half, bit
<1>5. /\ 2 * half + bit \in Nat /\ 2 * half + bit <= 2 * half + 1
      /\ 2 * half + bit >= 2 * half + (x % 2) /\ 2 * half + bit >= 2 * half + (y % 2)
  BY <1>1, <1>2, <1>4
<1>6. QED
  BY <1>1, <1>2, <1>3, <1>5 DEF half

\* No bit of x is lost.
LEMMA OrAtLeast ==
  ASSUME NEW w \in Nat, NEW x \in Nat, NEW y \in Nat, x < Pow2[w]
  PROVE  Or[w][x][y] >= x
<1> DEFINE P == {v \in Nat : \A a, b \in Nat : a < Pow2[v] => Or[v][a][b] >= a}
<1>1. 0 \in P
  <2>1. ASSUME NEW a \in Nat, NEW b \in Nat, a < Pow2[0] PROVE Or[0][a][b] >= a
    <3>1. Pow2[0] = 1 /\ Or[0][a][b] = 0
      BY OrDefined, Pow2Defined
    <3>2. a = 0
      BY <2>1, <3>1
    <3>3. QED
      BY <3>1, <3>2
  <2>2. QED
    BY <2>1
<1>2. ASSUME NEW v \in Nat, v \in P PROVE v + 1 \in P
  <2>1. ASSUME NEW a \in Nat, NEW b \in Nat, a < Pow2[v + 1] PROVE Or[v + 1][a][b] >= a
    <3>1. Pow2[v + 1] = 2 * Pow2[v] /\ Pow2[v] \in Nat
      BY Pow2Defined, Pow2Positive
    <3>2. a \div 2 \in Nat /\ b \div 2 \in Nat /\ a \div 2 < Pow2[v] /\ a = 2 * (a \div 2) + (a % 2)
      BY <2>1, <3>1
    <3>3. Or[v][a \div 2][b \div 2] >= a \div 2
      BY <1>2, <3>2
    <3>4. /\ Or[v][a \div 2][b \div 2] \in Nat /\ Or[v + 1][a][b] \in Nat
          /\ Or[v + 1][a][b] >= 2 * Or[v][a \div 2][b \div 2] + (a % 2)
      BY OrStep
    <3>5. QED
      BY <3>2, <3>3, <3>4
  <2>2. QED
    BY <2>1
<1> HIDE DEF P
<1>3. Nat \subseteq P
  BY <1>1, <1>2, AllNats
<1>4. QED
  BY <1>3 DEF P

\* No bit is above those of x and y.
LEMMA OrBelow ==
  ASSUME NEW w \in Nat, NEW n \in Nat, NEW x \in Nat, NEW y \in Nat,
         x < Pow2[n], y < Pow2[n]
  PROVE  Or[w][x][y] < Pow2[n]
<1> DEFINE P == {v \in Nat : \A m, a, b \in Nat :
                   a < Pow2[m] /\ b < Pow2[m] => Or[v][a][b] < Pow2[m]}
<1>1. 0 \in P
  <2>1. ASSUME NEW m \in Nat, NEW a \in Nat, NEW b \in Nat PROVE Or[0][a][b] < Pow2[m]
    <3>1. Or[0][a][b] = 0 /\ Pow2[m] \in Nat /\ Pow2[m] >= 1
      BY OrDefined, Pow2Positive
    <3>2. QED
      BY <3>1
  <2>2. QED
    BY <2>1
<1>2. ASSUME NEW v \in Nat, v \in P PROVE v + 1 \in P
  <2>1. ASSUME NEW m \in Nat, NEW a \in Nat, NEW b \in Nat, a < Pow2[m], b < Pow2[m]
        PROVE  Or[v + 1][a][b] < Pow2[m]
    <3> DEFINE half == Or[v][a \div 2][b \div 2]
    <3>1. /\ a \div 2 \in Nat /\ b \div 2 \in Nat /\ half \in Nat
          /\ Or[v + 1][a][b] \in Nat /\ Or[v + 1][a][b] <= 2 * half + 1
      BY OrStep
    <3>2. CASE m = 0
      <4>1. a = 0 /\ b = 0 /\ Pow2[0] = 1
        BY <2>1, <3>2, Pow2Defined
      <4>2. a \div 2 = 0 /\ b \div 2 = 0 /\ a % 2 = 0 /\ b % 2 = 0
        BY <4>1
      <4>3. half < 1
        BY <1>2, <4>1, <4>2
      <4>4. Or[v + 1][a][b] = 2 * half + (IF a % 2 = 0 /\ b % 2 = 0 THEN 0 ELSE 1)
        BY OrDefined
      <4> HIDE DEF half
      <4>5. Or[v + 1][a][b] = 2 * half + 0
        BY <4>2, <4>4, Zenon
      <4>6. QED
        BY <3>1, <3>2, <4>1, <4>3, <4>5
    <3>3. CASE m # 0
      <4>1. /\ m - 1 \in Nat /\ (m - 1) + 1 = m /\ Pow2[m - 1] \in Nat
            /\ Pow2[m] = 2 * Pow2[m - 1]
        BY <3>3, Pow2Defined, Pow2Positive
      <4>2. a \div 2 < Pow2[m - 1] /\ b \div 2 < Pow2[m - 1]
        BY <2>1, <4>1
      <4>3. half < Pow2[m - 1]
        BY <1>2, <3>1, <4>1, <4>2
      <4> HIDE DEF half
      <4>4. QED
        BY <3>1, <4>1, <4>3
    <3>4. QED
      BY <3>2, <3>3
  <2>2. QED
    BY <2>1
<1> HIDE DEF P
<1>3. Nat \subseteq P
  BY <1>1, <1>2, AllNats
<1>4. QED
  BY <1>3 DEF P

\* Where x has all bits from m to k - 1, the bits of y below m are added to them.
LEMMA OrFills ==
  ASSUME NEW w \in Nat, NEW k \in Nat, NEW m \in Nat, NEW x \in Nat, NEW y \in Nat,
         m <= k, k <= w, x < Pow2[w], x >= Pow2[k] - Pow2[m], y < Pow2[m]
  PROVE  Or[w][x][y] >= Pow2[k] - Pow2[m] + y
<1> DEFINE P == {v \in Nat : \A i, j, a, b \in Nat :
                   j <= i /\ i <= v /\ a < Pow2[v] /\ a >= Pow2[i] - Pow2[j] /\ b < Pow2[j]
                   => Or[v][a][b] >= Pow2[i] - Pow2[j] + b}
<1>1. 0 \in P
  <2>1. ASSUME NEW i \in Nat, NEW j \in Nat, NEW b \in Nat, j <= i, i <= 0, b < Pow2[j]
        PROVE  0 >= Pow2[i] - Pow2[j] + b
    <3>1. i = 0 /\ j = 0 /\ Pow2[0] = 1
      BY <2>1, Pow2Defined
    <3>2. b = 0
      BY <2>1, <3>1
    <3>3. QED
      BY <3>1, <3>2
  <2>2. ASSUME NEW a \in Nat, NEW b \in Nat PROVE Or[0][a][b] = 0
    BY OrDefined
  <2>3. QED
    BY <2>1, <2>2
<1>2. ASSUME NEW v \in Nat, v \in P PROVE v + 1 \in P
  <2>1. ASSUME NEW i \in Nat, NEW j \in Nat, NEW a \in Nat, NEW b \in Nat,
               j <= i, i <= v + 1, a < Pow2[v + 1], a >= Pow2[i] - Pow2[j], b < Pow2[j]
        PROVE  Or[v + 1][a][b] >= Pow2[i] - Pow2[j] + b
    <3> DEFINE half == Or[v][a \div 2][b \div 2]
    <3>1. /\ a \div 2 \in Nat /\ b \div 2 \in Nat /\ half \in Nat
          /\ Or[v + 1][a][b] \in Nat /\ Or[v + 1][a][b] >= 2 * half + (b % 2)
      BY OrStep
    <3>2. CASE j = 0
      <4>1. Pow2[j] = 1
        BY <3>2, Pow2Defined
      <4>2. b = 0
        BY <2>1, <4>1
      <4>3. v + 1 \in Nat
        OBVIOUS
      <4>4. Or[v + 1][a][b] >= a
        BY <2>1, <4>3, OrAtLeast
      <4>5. Pow2[i] \in Nat
        BY Pow2Positive
      <4>6. QED
        BY <2>1, <3>1, <4>1, <4>2, <4>4, <4>5
    <3>3. CASE j # 0
      <4>1. /\ i - 1 \in Nat /\ j - 1 \in Nat /\ (i - 1) + 1 = i /\ (j - 1) + 1 = j
            /\ j - 1 <= i - 1 /\ i - 1 <= v
        BY <2>1, <3>3
      <4>2. /\ Pow2[i] = 2 * Pow2[i - 1] /\ Pow2[j] = 2 * Pow2[j - 1]
            /\ Pow2[v + 1] = 2 * Pow2[v]
            /\ Pow2[i - 1] \in Nat /\ Pow2[j - 1] \in Nat /\ Pow2[v] \in Nat
        BY <4>1, Pow2Defined, Pow2Positive
      <4>3. /\ a \div 2 < Pow2[v] /\ b \div 2 < Pow2[j - 1]
            /\ a \div 2 >= Pow2[i - 1] - Pow2[j - 1]
        BY <2>1, <4>2
      <4>4. half >= Pow2[i - 1] - Pow2[j - 1] + b \div 2
        BY <1>2, <3>1, <4>1, <4>3
      <4>5. b = 2 * (b \div 2) + (b % 2)
        OBVIOUS
      <4> HIDE DEF half
      <4>6. QED
        BY <3>1, <4>2, <4>4, <4>5
    <3>4. QED
      BY <3>2, <3>3
  <2>2. QED
    BY <2>1
<1> HIDE DEF P
<1>3. Nat \subseteq P
  BY <1>1, <1>2, AllNats
<1>4. QED
  BY <1>3 DEF P

-------------------------------------------------------------------------------
(* smallest_pow2().                                                        *)

\* What the assumption says of each number.
LEMMA Sizes ==
  /\ Width \in Nat /\ Shifts \in Nat /\ MaxSize \in Nat /\ MaxText \in Nat
  /\ MaxWrite \in Nat /\ MaxWrite >= 1 /\ MaxInt \in Nat /\ IntWidth \in Nat
  /\ Pow2[IntWidth] = 2 * (MaxInt + 1)
  /\ Width <= Pow2[Shifts] /\ MaxSize + MaxWrite < Pow2[Width]
<1>1. IntWidth - 1 \in Nat /\ (IntWidth - 1) + 1 = IntWidth
  BY Utf16Assumption
<1>2. Pow2[IntWidth - 1] \in Nat /\ Pow2[IntWidth - 1] >= 1
  BY <1>1, Pow2Positive
<1>3. Pow2[IntWidth] = 2 * Pow2[IntWidth - 1]
  BY <1>1, Pow2Defined
<1>4. MaxInt \in Nat /\ Pow2[IntWidth] = 2 * (MaxInt + 1)
  BY <1>2, <1>3 DEF MaxInt
<1>5. MaxWrite \in Nat /\ MaxWrite >= 1
  BY <1>4, Utf16Assumption
<1>6. QED
  BY <1>1, <1>4, <1>5, Utf16Assumption

\* A number that is shifted right.
LEMMA Shifted ==
  ASSUME NEW s \in Nat, NEW d \in Nat, d >= 1
  PROVE  s \div d \in Nat /\ d * (s \div d) <= s /\ s < d * (s \div d) + d
<1>1. d # 0 /\ d \in Int /\ s \in Int
  OBVIOUS
<1>2. s \div d \in Int /\ s = d * (s \div d) + (s % d) /\ s % d \in 0 .. d - 1
  BY <1>1, Z3
<1>3. QED
  BY <1>2, Z3

\* Smeared is what its recursion says.
LEMMA SmearedDefined ==
  \A x \in Nat :
     /\ Smeared[0][x] = x
     /\ \A n \in Nat :
          /\ Smeared[n][x] \in Nat
          /\ Smeared[n + 1][x] =
               Or[Width][Smeared[n][x]][Smeared[n][x] \div Pow2[Pow2[n]]]
<1> DEFINE S == [Nat -> Nat]
           or(s, n) == Or[Width][s][s \div Pow2[Pow2[n]]]
           step == [n \in Nat |-> [g \in S |-> [x \in Nat |-> or(g[x], n)]]]
           same == [x \in Nat |-> x]
           Eq(f) == f = [n \in Nat |-> [x \in Nat |-> IF n = 0 THEN x
                                                      ELSE or(f[n - 1][x], n - 1)]]
<1>1. ASSUME NEW s \in Nat, NEW n \in Nat PROVE or(s, n) \in Nat
  <2>1. Pow2[Pow2[n]] \in Nat /\ Pow2[Pow2[n]] >= 1
    BY Pow2Positive
  <2>2. s \div Pow2[Pow2[n]] \in Nat
    BY <2>1, Shifted
  <2>3. QED
    BY <2>2, OrDefined, Sizes
<1> HIDE DEF or
<1>2. same \in S
  OBVIOUS
<1>3. step \in [Nat -> [S -> S]]
  BY <1>1
<1>4. PICK f : Recursive(f, S, same, step)
  <2> HIDE DEF S, same, step
  <2>1. QED
    BY <1>2, <1>3, Recursion
<1>5. /\ f \in [Nat -> S]
      /\ f[0] = same
      /\ \A n \in Nat : f[n + 1] = [x \in Nat |-> or(f[n][x], n)]
  <2>1. f \in [Nat -> S] /\ f[0] = same /\ \A n \in Nat : f[n + 1] = step[n][f[n]]
    BY <1>4 DEF Recursive
  <2> HIDE DEF S, same
  <2>2. QED
    BY <2>1
<1>6. Eq(f)
  <2>1. ASSUME NEW n \in Nat
        PROVE  f[n] = [x \in Nat |-> IF n = 0 THEN x ELSE or(f[n - 1][x], n - 1)]
    <3>1. CASE n = 0
      BY <1>5, <3>1
    <3>2. CASE n # 0
      <4>1. n - 1 \in Nat /\ (n - 1) + 1 = n
        BY <3>2
      <4>2. f[n] = [x \in Nat |-> or(f[n - 1][x], n - 1)]
        BY <1>5, <4>1
      <4>3. QED
        BY <3>2, <4>2
    <3>3. QED
      BY <3>1, <3>2
  <2>2. f = [n \in Nat |-> f[n]]
    BY <1>5
  <2>3. QED
    BY <2>1, <2>2
<1>7. Smeared = CHOOSE g : Eq(g)
  BY DEF Smeared, or
<1>8. Eq(Smeared)
  <2> HIDE DEF Eq
  <2>1. QED
    BY <1>6, <1>7
<1>9. ASSUME NEW n \in Nat, NEW x \in Nat
      PROVE  Smeared[n][x] = IF n = 0 THEN x ELSE or(Smeared[n - 1][x], n - 1)
  BY <1>8
<1> HIDE DEF Eq
<1>10. \A x \in Nat : Smeared[0][x] = x
  BY <1>9
<1>11. ASSUME NEW n \in Nat, NEW x \in Nat PROVE Smeared[n + 1][x] = or(Smeared[n][x], n)
  <2>1. n + 1 \in Nat /\ n + 1 # 0 /\ (n + 1) - 1 = n
    OBVIOUS
  <2>2. QED
    BY <1>9, <2>1
<1>12. \A n \in Nat : \A x \in Nat : Smeared[n][x] \in Nat
  <2> DEFINE P == {n \in Nat : \A x \in Nat : Smeared[n][x] \in Nat}
  <2>1. 0 \in P
    BY <1>10
  <2>2. ASSUME NEW n \in Nat, n \in P PROVE n + 1 \in P
    <3>1. ASSUME NEW x \in Nat PROVE Smeared[n + 1][x] \in Nat
      BY <1>1, <1>11, <2>2
    <3>2. QED
      BY <3>1
  <2> HIDE DEF P
  <2>3. Nat \subseteq P
    BY <2>1, <2>2, AllNats
  <2>4. QED
    BY <2>3 DEF P
<1>13. QED
  BY <1>10, <1>11, <1>12 DEF or

\* A larger exponent makes no smaller number.
LEMMA Pow2Monotone ==
  ASSUME NEW m \in Nat, NEW n \in Nat, m <= n
  PROVE  Pow2[m] <= Pow2[n]
<1>1. Pow2[m] \in Nat /\ Pow2[n] \in Nat
  BY Pow2Positive
<1>2. CASE m = n
  BY <1>1, <1>2
<1>3. CASE m # n
  <2>1. 2 * Pow2[m] <= Pow2[n]
    BY <1>3, Pow2Grows
  <2>2. QED
    BY <1>1, <2>1
<1>4. QED
  BY <1>2, <1>3

\* How much is left of a number that is shifted right.
LEMMA ShiftedBounds ==
  ASSUME NEW s \in Nat, NEW d \in Nat, d >= 1, NEW q \in Nat
  PROVE  /\ s < d * q => s \div d < q
         /\ d * q <= s => q <= s \div d
<1> DEFINE t == s \div d
<1>1. t \in Nat /\ d * t <= s /\ s < d * t + d
  BY Shifted
<1>2. \A a, b \in Nat : a <= b => d * a <= d * b
  OBVIOUS
<1>3. d * (t + 1) = d * t + d /\ t + 1 \in Nat
  BY <1>1
<1>4. d * t \in Nat /\ d * q \in Nat /\ d * (t + 1) \in Nat
  BY <1>1
<1> HIDE DEF t
<1>5. ASSUME s < d * q PROVE t < q
  <2>1. CASE q <= t
    BY <1>1, <1>2, <1>4, <1>5, <2>1
  <2>2. QED
    BY <1>1, <2>1
<1>6. ASSUME d * q <= s PROVE q <= t
  <2>1. CASE t + 1 <= q
    BY <1>1, <1>2, <1>3, <1>4, <1>6, <2>1
  <2>2. QED
    BY <1>1, <2>1
<1>7. QED
  BY <1>5, <1>6 DEF t

\* After n shifts the 2^n bits below the highest one, and that one, are set; k is
\* the highest bit, m any bit from which all are set.
LEMMA SmearFills ==
  ASSUME NEW y \in Nat, NEW k \in Nat, k < Width, Pow2[k] <= y, y < Pow2[k + 1],
         NEW n \in Nat
  PROVE  /\ Smeared[n][y] < Pow2[k + 1]
         /\ \A m \in Nat : m <= k + 1 /\ k + 1 <= m + Pow2[n]
                           => Smeared[n][y] >= Pow2[k + 1] - Pow2[m]
<1> DEFINE Filled(i) == /\ Smeared[i][y] < Pow2[k + 1]
                        /\ \A m \in Nat : m <= k + 1 /\ k + 1 <= m + Pow2[i]
                                          => Smeared[i][y] >= Pow2[k + 1] - Pow2[m]
           P == {i \in Nat : Filled(i)}
<1>0. /\ k + 1 \in Nat /\ k + 1 <= Width /\ Width \in Nat
      /\ Pow2[k + 1] \in Nat /\ Pow2[k + 1] = 2 * Pow2[k] /\ Pow2[k] \in Nat
      /\ Pow2[Width] \in Nat /\ Pow2[k + 1] <= Pow2[Width]
  BY Sizes, Pow2Positive, Pow2Defined, Pow2Monotone
<1>1. Filled(0)
  <2>1. Smeared[0][y] = y /\ Pow2[0] = 1
    BY SmearedDefined, Pow2Defined
  <2>2. ASSUME NEW m \in Nat, m <= k + 1, k + 1 <= m + 1 PROVE y >= Pow2[k + 1] - Pow2[m]
    <3>1. m = k \/ m = k + 1
      BY <2>2
    <3>2. QED
      BY <1>0, <3>1
  <2>3. QED
    BY <2>1, <2>2
<1>2. ASSUME NEW i \in Nat, Filled(i) PROVE Filled(i + 1)
  <2> DEFINE s == Smeared[i][y]
             p == Pow2[i]
             sh == s \div Pow2[p]
             or == Or[Width][s][sh]
  <2>1. s \in Nat /\ p \in Nat /\ Pow2[p] \in Nat /\ Pow2[p] >= 1 /\ Pow2[i + 1] = 2 * p
    BY SmearedDefined, Pow2Positive, Pow2Defined
  <2>2. /\ sh \in Nat
        /\ \A q \in Nat : (s < Pow2[p] * q => sh < q) /\ (Pow2[p] * q <= s => q <= sh)
    BY <2>1, Shifted, ShiftedBounds
  <2>3. Smeared[i + 1][y] = or
    BY SmearedDefined
  <2>4. s < Pow2[k + 1] /\ s < Pow2[Width]
    BY <1>0, <1>2, <2>1
  <2>5. \A m \in Nat : m <= k + 1 /\ k + 1 <= m + p => s >= Pow2[k + 1] - Pow2[m]
    BY <1>2
  <2> HIDE DEF s, p, sh
  <2>6. or \in Nat /\ or >= s
    BY <1>0, <2>1, <2>2, <2>4, OrDefined, OrAtLeast
  <2>7. sh < Pow2[k + 1]
    <3>1. \A a, b \in Nat : b >= 1 => a <= b * a
      OBVIOUS
    <3>2. Pow2[k + 1] <= Pow2[p] * Pow2[k + 1] /\ Pow2[p] * Pow2[k + 1] \in Nat
      BY <1>0, <2>1, <3>1
    <3>3. s < Pow2[p] * Pow2[k + 1]
      BY <1>0, <2>1, <2>4, <3>2
    <3>4. QED
      BY <1>0, <2>2, <3>3
  <2>8. or < Pow2[k + 1]
    BY <1>0, <2>1, <2>2, <2>4, <2>7, OrBelow
  <2> HIDE DEF or
  <2>9. ASSUME NEW m \in Nat, m <= k + 1, k + 1 <= m + 2 * p
        PROVE  or >= Pow2[k + 1] - Pow2[m]
    <3>1. Pow2[m] \in Nat /\ Pow2[m] >= 1
      BY Pow2Positive
    <3>2. CASE k + 1 <= p
      <4>1. s >= Pow2[k + 1] - Pow2[0] /\ Pow2[0] = 1
        BY <1>0, <2>1, <2>5, <3>2, Pow2Defined
      <4>2. QED
        BY <1>0, <2>1, <2>6, <3>1, <4>1
    <3>3. CASE ~(k + 1 <= p)
      <4> DEFINE j == k + 1 - p
      <4>1. j \in Nat /\ j <= k + 1 /\ p + j = k + 1 /\ j <= m + p
        BY <1>0, <2>1, <2>9, <3>3
      <4> HIDE DEF j
      <4>2. s >= Pow2[k + 1] - Pow2[j] /\ Pow2[j] \in Nat
        BY <2>1, <2>5, <4>1, Pow2Positive
      <4>3. CASE j <= m
        <5>1. Pow2[j] <= Pow2[m]
          BY <4>1, <4>3, Pow2Monotone
        <5>2. QED
          BY <1>0, <2>1, <2>6, <3>1, <4>2, <5>1
      <4>4. CASE ~(j <= m)
        <5>1. Pow2[p] * Pow2[j] = Pow2[k + 1]
          BY <2>1, <4>1, Pow2Sum
        <5>2. sh < Pow2[j]
          BY <2>2, <2>4, <4>2, <5>1
        <5>3. or >= Pow2[k + 1] - Pow2[j] + sh
          BY <1>0, <2>1, <2>2, <2>4, <4>1, <4>2, <5>2, OrFills DEF or
        <5>4. Pow2[m] <= Pow2[j] /\ Pow2[j] - Pow2[m] \in Nat
          <6>1. Pow2[m] <= Pow2[j]
            BY <4>1, <4>4, Pow2Monotone
          <6>2. QED
            BY <3>1, <4>2, <6>1
        <5>5. Pow2[j] <= Pow2[p] * Pow2[m]
          <6>1. p + m \in Nat /\ j <= p + m
            BY <2>1, <4>1
          <6>2. Pow2[j] <= Pow2[p + m] /\ Pow2[p + m] = Pow2[p] * Pow2[m]
            BY <2>1, <4>1, <6>1, Pow2Monotone, Pow2Sum
          <6>3. QED
            BY <6>2
        <5>6. Pow2[p] * (Pow2[j] - Pow2[m]) <= s
          <6>1. Pow2[p] * (Pow2[j] - Pow2[m]) = Pow2[p] * Pow2[j] - Pow2[p] * Pow2[m]
            BY <2>1, <3>1, <4>2
          <6>2. Pow2[p] * Pow2[m] \in Nat
            BY <2>1, <3>1
          <6>3. QED
            BY <1>0, <2>1, <4>2, <5>1, <5>5, <6>1, <6>2
        <5>7. Pow2[j] - Pow2[m] <= sh
          BY <2>2, <5>4, <5>6
        <5>8. QED
          BY <1>0, <2>2, <2>6, <3>1, <4>2, <5>3, <5>7
      <4>5. QED
        BY <4>3, <4>4
    <3>4. QED
      BY <3>2, <3>3
  <2>10. QED
    BY <2>1, <2>3, <2>8, <2>9
<1> HIDE DEF Filled
<1>3. Nat \subseteq P
  <2>1. 0 \in P
    BY <1>1
  <2>2. \A i \in Nat : i \in P => i + 1 \in P
    BY <1>2
  <2> HIDE DEF P
  <2>3. QED
    BY <2>1, <2>2, AllNats
<1>4. Filled(n)
  BY <1>3
<1>5. QED
  BY <1>4 DEF Filled

\* Zero has no bits to copy.
LEMMA SmearZero ==
  ASSUME NEW n \in Nat
  PROVE  Smeared[n][0] = 0
<1> DEFINE P == {i \in Nat : Smeared[i][0] = 0}
<1>1. 0 \in P
  BY SmearedDefined
<1>2. ASSUME NEW i \in Nat, i \in P PROVE i + 1 \in P
  <2>1. Pow2[0] = 1 /\ Pow2[Pow2[i]] \in Nat /\ Pow2[Pow2[i]] >= 1
    BY Pow2Positive, Pow2Defined
  <2> DEFINE sh == 0 \div Pow2[Pow2[i]]
  <2>2. sh \in Nat /\ sh < 1
    BY <2>1, Shifted, ShiftedBounds
  <2>3. Smeared[i + 1][0] = Or[Width][0][sh]
    BY <1>2, SmearedDefined
  <2> HIDE DEF sh
  <2>4. Or[Width][0][sh] < Pow2[0] /\ Or[Width][0][sh] \in Nat
    <3>1. Width \in Nat /\ 0 \in Nat /\ 0 < Pow2[0] /\ sh < Pow2[0]
      BY <2>1, <2>2, Sizes
    <3>2. Or[Width][0][sh] < Pow2[0]
      BY <2>2, <3>1, OrBelow
    <3>3. QED
      BY <2>2, <3>1, <3>2, OrDefined
  <2>5. Or[Width][0][sh] = 0
    BY <2>1, <2>4
  <2>6. QED
    BY <2>3, <2>5
<1> HIDE DEF P
<1>3. Nat \subseteq P
  BY <1>1, <1>2, AllNats
<1>4. QED
  BY <1>3 DEF P

\* What wraps around.
LEMMA Wrapped ==
  ASSUME NEW d \in Nat, d >= 1
  PROVE  /\ \A a \in Nat : a < d => a % d = a /\ (a + d) % d = a
         /\ d % d = 0
<1>1. d \in Int /\ d > 0
  OBVIOUS
<1>2. ASSUME NEW a \in Nat, a < d PROVE a % d = a
  BY <1>1, <1>2, Z3
<1>3. ASSUME NEW a \in Nat, a < d PROVE (a + d) % d = a
  BY <1>1, <1>3, Z3
<1>4. d % d = 0
  BY <1>1, Z3
<1>5. QED
  BY <1>2, <1>3, <1>4

\* A cast to int is exact up to the largest int.
LEMMA AsIntExact ==
  ASSUME NEW n \in Nat
  PROVE  AsInt(n) \in Int /\ (n <= MaxInt => AsInt(n) = n)
<1> DEFINE d == Pow2[IntWidth]
           m == n % d
<1>1. d \in Nat /\ d >= 1 /\ MaxInt \in Nat /\ MaxInt < d
  BY Sizes
<1>2. AsInt(n) = IF m <= MaxInt THEN m ELSE m - d
  BY DEF AsInt
<1> HIDE DEF d
<1>3. m \in Nat
  BY <1>1, Z3
<1>4. n < d => m = n
  BY <1>1, Wrapped
<1> HIDE DEF m
<1>5. AsInt(n) \in Int
  BY <1>1, <1>2, <1>3
<1>6. n <= MaxInt => n < d
  BY <1>1
<1>7. n <= MaxInt => AsInt(n) = n
  BY <1>2, <1>4, <1>6
<1>8. QED
  BY <1>5, <1>7

\* smallest_pow2() returns the least power of two that is no less than x, whatever
\* the width of the type, and 0 if the type has no such number (util.h:198-222).
THEOREM SmallestPow2Least ==
  ASSUME NEW x \in Nat, x >= 1, x < Pow2[Width]
  PROVE  /\ SmallestPow2(x) \in Nat
         /\ SmallestPow2(x) # 0 =>
              /\ \E k \in 0 .. Width - 1 : SmallestPow2(x) = Pow2[k]
              /\ x <= SmallestPow2(x) /\ SmallestPow2(x) <= 2 * x - 1
         /\ SmallestPow2(x) = 0 => \A k \in 0 .. Width - 1 : Pow2[k] < x
<1> DEFINE y == x - 1
           sm == Smeared[Shifts][y]
<1>1. /\ Width \in Nat /\ Shifts \in Nat /\ Width <= Pow2[Shifts]
      /\ Pow2[Width] \in Nat /\ Pow2[Width] >= 1 /\ Pow2[0] = 1 /\ Pow2[Shifts] \in Nat
      /\ y \in Nat /\ y < Pow2[Width] /\ y + 1 = x
  BY Sizes, Pow2Positive, Pow2Defined
<1>2. Width >= 1
  BY <1>1
<1>3. SmallestPow2(x) = (sm + 1) % Pow2[Width]
  <2>1. x + Pow2[Width] - 1 = y + Pow2[Width]
    BY <1>1
  <2>2. (y + Pow2[Width]) % Pow2[Width] = y
    BY <1>1, Wrapped
  <2>3. QED
    BY <2>1, <2>2 DEF SmallestPow2
<1>4. CASE y = 0
  <2>1. sm = 0
    BY <1>1, <1>4, SmearZero
  <2>2. 1 < Pow2[Width]
    BY <1>1, <1>4
  <2>3. SmallestPow2(x) = 1
    BY <1>1, <1>3, <2>1, <2>2, Wrapped
  <2>4. 0 \in 0 .. Width - 1 /\ x = 1
    BY <1>1, <1>2, <1>4
  <2>5. QED
    BY <1>1, <2>3, <2>4
<1>5. CASE y # 0
  <2>1. PICK k \in Nat : Pow2[k] <= y /\ y < Pow2[k + 1]
    BY <1>1, <1>5, HighestBit
  <2>2. /\ Pow2[k] \in Nat /\ Pow2[k + 1] \in Nat /\ Pow2[k + 1] = 2 * Pow2[k]
        /\ k + 1 \in Nat
    BY Pow2Positive, Pow2Defined
  <2>3. k < Width
    <3>1. CASE Width <= k
      <4>1. Pow2[Width] <= Pow2[k]
        BY <1>1, <3>1, Pow2Monotone
      <4>2. QED
        BY <1>1, <2>1, <2>2, <4>1
    <3>2. QED
      BY <1>1, <3>1
  <2>4. sm < Pow2[k + 1] /\ sm >= Pow2[k + 1] - Pow2[0] /\ sm \in Nat
    <3>1. 0 <= k + 1 /\ k + 1 <= 0 + Pow2[Shifts]
      BY <1>1, <2>3
    <3> HIDE DEF y
    <3>2. QED
      BY <1>1, <2>1, <2>3, <3>1, SmearFills, SmearedDefined
  <2> HIDE DEF sm
  <2>5. sm + 1 = Pow2[k + 1]
    BY <1>1, <2>2, <2>4
  <2>6. CASE k + 1 < Width
    <3>1. Pow2[k + 1] < Pow2[Width]
      <4>1. 2 * Pow2[k + 1] <= Pow2[Width] /\ Pow2[k + 1] >= 1
        BY <1>1, <2>2, <2>6, Pow2Grows, Pow2Positive
      <4>2. QED
        BY <1>1, <2>2, <4>1
    <3>2. SmallestPow2(x) = Pow2[k + 1]
      BY <1>1, <1>3, <2>2, <2>5, <3>1, Wrapped
    <3>3. k + 1 \in 0 .. Width - 1 /\ Pow2[k + 1] >= 1
      BY <1>1, <2>2, <2>6, Pow2Positive
    <3>4. x <= Pow2[k + 1] /\ Pow2[k + 1] <= 2 * x - 1
      BY <1>1, <2>1, <2>2
    <3>5. QED
      BY <2>2, <3>2, <3>3, <3>4
  <2>7. CASE ~(k + 1 < Width)
    <3>1. k + 1 = Width
      BY <1>1, <2>3, <2>7
    <3>2. SmallestPow2(x) = 0
      BY <1>1, <1>3, <2>5, <3>1, Wrapped
    <3>3. ASSUME NEW j \in 0 .. Width - 1 PROVE Pow2[j] < x
      <4>1. j \in Nat /\ j <= k /\ Pow2[j] \in Nat
        BY <1>1, <3>1, Pow2Positive
      <4>2. Pow2[j] <= Pow2[k]
        BY <4>1, Pow2Monotone
      <4>3. QED
        BY <1>1, <2>1, <2>2, <4>1, <4>2
    <3>4. QED
      BY <3>2, <3>3
  <2>8. QED
    BY <2>6, <2>7
<1>6. QED
  BY <1>4, <1>5

-------------------------------------------------------------------------------
(* The text in the buffer.                                                 *)

Kept(b, p) == {i \in 1 .. p : b[i] # Nul}

\* The first p characters of b are t, with null characters in between.
TextOf(b, p, t) ==
  /\ Cardinality(Kept(b, p)) = Len(t)
  /\ \A i \in Kept(b, p) : b[i] = t[Cardinality({j \in Kept(b, p) : j <= i})]

\* What was there stays, nothing but null characters follows it up to q, then comes
\* s: the text goes on with s.
LEMMA TextPut ==
  ASSUME NEW b, NEW c, NEW p \in Nat, NEW q \in Nat, p <= q,
         NEW t \in Seq(Chars), NEW s \in Seq(Chars),
         TextOf(b, p, t),
         \A i \in 1 .. p : c[i] = b[i],
         \A i \in p + 1 .. q : c[i] = Nul,
         \A i \in q + 1 .. q + Len(s) : c[i] = s[i - q]
  PROVE  TextOf(c, q + Len(s), t \o s)
<1> DEFINE n == Len(s)
           old == Kept(b, p)
           new == Kept(c, q + n)
<1>1. n \in Nat /\ Len(t) \in Nat
  BY LenProperties
<1>2. \A i \in q + 1 .. q + n : s[i - q] \in Chars /\ s[i - q] # Nul
  <2>1. ASSUME NEW i \in q + 1 .. q + n PROVE s[i - q] \in Chars
    <3>1. i - q \in 1 .. n
      BY <1>1
    <3>2. QED
      BY <3>1, ElementOfSeq
  <2>2. QED
    BY <2>1, Utf16Assumption
<1>3. new = old \cup (q + 1 .. q + n)
  <2>1. ASSUME NEW i \in 1 .. q + n
        PROVE  c[i] # Nul <=> i \in old \cup (q + 1 .. q + n)
    <3>1. CASE i <= p
      BY <1>1, <3>1 DEF Kept
    <3>2. CASE p < i /\ i <= q
      BY <1>1, <3>2 DEF Kept
    <3>3. CASE q < i
      <4>1. i \in q + 1 .. q + n
        BY <1>1, <3>3
      <4>2. QED
        BY <1>2, <4>1
    <3>4. QED
      BY <3>1, <3>2, <3>3
  <2>2. old \cup (q + 1 .. q + n) \subseteq 1 .. q + n
    BY <1>1 DEF Kept
  <2>3. QED
    BY <2>1, <2>2 DEF Kept
<1>4. /\ IsFiniteSet(old) /\ Cardinality(old) = Len(t) /\ old \subseteq 1 .. p
      /\ \A i \in old : b[i] = t[Cardinality({j \in old : j <= i})]
  <2>1. old \subseteq 1 .. p /\ IsFiniteSet(1 .. p)
    BY FS_Interval DEF Kept
  <2>2. IsFiniteSet(old)
    BY <2>1, FS_Subset
  <2>3. QED
    BY <2>1, <2>2 DEF TextOf
<1>5. ASSUME NEW m \in 0 .. n
      PROVE  Cardinality(old \cup (q + 1 .. q + m)) = Len(t) + m
  <2>1. IsFiniteSet(q + 1 .. q + m) /\ Cardinality(q + 1 .. q + m) = m
    <3> DEFINE lo == q + 1
               hi == q + m
    <3>1. lo \in Int /\ hi \in Int /\ m \in Nat
      BY <1>1
    <3>2. (IF lo > hi THEN 0 ELSE hi - lo + 1) = m
      BY <1>1, <3>1
    <3> HIDE DEF lo, hi
    <3>3. IsFiniteSet(lo .. hi) /\ Cardinality(lo .. hi) = IF lo > hi THEN 0 ELSE hi - lo + 1
      BY <3>1, FS_Interval
    <3>4. IsFiniteSet(lo .. hi) /\ Cardinality(lo .. hi) = m
      BY <3>2, <3>3
    <3>5. QED
      BY <3>4 DEF lo, hi
  <2>2. old \cap (q + 1 .. q + m) = {} /\ Cardinality({}) = 0
    BY <1>1, <1>4, FS_EmptySet
  <2> DEFINE added == q + 1 .. q + m
  <2> HIDE DEF added, old, n
  <2>3. IsFiniteSet(added) /\ Cardinality(added) = m /\ Cardinality(old \cap added) = 0
    BY <2>1, <2>2 DEF added
  <2>4. Cardinality(old \cup added)
          = Cardinality(old) + Cardinality(added) - Cardinality(old \cap added)
    BY <1>4, <2>3, FS_Union
  <2>5. Cardinality(old \cup added) = Len(t) + m
    BY <1>1, <1>4, <2>3, <2>4
  <2>6. QED
    BY <2>5 DEF added
<1>6. Len(t \o s) = Len(t) + n
      /\ \A i \in 1 .. Len(t) + n : (t \o s)[i] = IF i <= Len(t) THEN t[i] ELSE s[i - Len(t)]
  BY ConcatProperties
<1>7. Cardinality(new) = Len(t \o s)
  BY <1>1, <1>3, <1>5, <1>6
<1> HIDE DEF old, new, n
<1>8. ASSUME NEW i \in new PROVE c[i] = (t \o s)[Cardinality({j \in new : j <= i})]
  <2>1. CASE i \in old
    <3>1. {j \in new : j <= i} = {j \in old : j <= i} /\ i \in 1 .. p
      BY <1>1, <1>3, <1>4, <2>1
    <3> DEFINE u == {j \in old : j <= i}
    <3>2. u \subseteq old /\ u # {}
      BY <1>4, <2>1
    <3>3. IsFiniteSet(u) /\ Cardinality(u) \in Nat /\ Cardinality(u) <= Len(t)
      BY <1>4, <3>2, FS_Subset, FS_CardinalityType
    <3>4. Cardinality(u) # 0
      BY <3>2, <3>3, FS_EmptySet
    <3> HIDE DEF u
    <3>5. Cardinality(u) \in 1 .. Len(t) + n /\ Cardinality(u) <= Len(t)
      BY <1>1, <3>3, <3>4
    <3>6. (t \o s)[Cardinality(u)] = t[Cardinality(u)]
      BY <1>6, <3>5
    <3>7. b[i] = t[Cardinality(u)]
      BY <1>4, <2>1 DEF u
    <3>8. QED
      BY <3>1, <3>6, <3>7 DEF u
  <2>2. CASE i \notin old
    <3>1. i \in q + 1 .. q + n
      BY <1>3, <2>2
    <3> DEFINE m == i - q
    <3>2. m \in 1 .. n /\ m \in 0 .. n /\ q + m = i /\ i \in Nat
      <4>1. i \in Int /\ q + 1 <= i /\ i <= q + n
        BY <1>1, <3>1
      <4>2. QED
        BY <1>1, <4>1
    <3> HIDE DEF m
    <3>3. {j \in new : j <= i} = old \cup (q + 1 .. q + m)
      <4>1. \A j \in old : j <= i
        BY <1>1, <1>4, <3>1
      <4>2. \A j \in q + 1 .. q + n : j <= i <=> j \in q + 1 .. q + m
        BY <1>1, <3>2
      <4>3. q + 1 .. q + m \subseteq q + 1 .. q + n
        BY <1>1, <3>2
      <4>4. QED
        BY <1>3, <4>1, <4>2, <4>3
    <3>4. Cardinality({j \in new : j <= i}) = Len(t) + m
      BY <1>5, <3>2, <3>3
    <3>5. (t \o s)[Len(t) + m] = s[m]
      <4> DEFINE x == Len(t) + m
      <4>1. x \in 1 .. Len(t) + n /\ ~(x <= Len(t)) /\ x - Len(t) = m
        BY <1>1, <3>2
      <4> HIDE DEF x
      <4>2. (t \o s)[x] = s[x - Len(t)]
        BY <1>6, <4>1
      <4>3. QED
        BY <4>1, <4>2 DEF x
    <3>6. c[i] = s[m]
      BY <3>1 DEF n, m
    <3>7. QED
      BY <3>4, <3>5, <3>6
  <2>3. QED
    BY <2>1, <2>2
<1>9. QED
  BY <1>7, <1>8 DEF TextOf, new, n

\* The beginning of a buffer is a text when its characters are.
LEMMA PrefixIs ==
  ASSUME NEW b \in Seq(Chars \cup {Nul}), NEW p \in 0 .. Len(b), NEW t \in Seq(Chars)
  PROVE  SubSeq(b, 1, p) = t <=> p = Len(t) /\ \A i \in 1 .. p : b[i] = t[i]
<1> DEFINE V == Chars \cup {Nul}
           sub == SubSeq(b, 1, p)
<1>1. Len(b) \in Nat /\ p \in Nat /\ Len(t) \in Nat
  BY LenProperties
<1>2. \A i \in 1 .. p : b[i] \in V
  BY <1>1, ElementOfSeq
<1>3. /\ sub \in Seq(V) /\ Len(sub) = IF 1 <= p THEN p - 1 + 1 ELSE 0
      /\ \A i \in 1 .. p - 1 + 1 : sub[i] = b[1 + i - 1]
  <2> HIDE DEF V
  <2>1. QED
    BY <1>1, <1>2, SubSeqProperties
<1>4. Len(sub) = p
  BY <1>1, <1>3
<1>5. \A i \in 1 .. p : sub[i] = b[i]
  BY <1>1, <1>3
<1>6. t \in Seq(V)
  BY SeqMonotonic
<1> HIDE DEF sub, V
<1>7. ASSUME sub = t PROVE p = Len(t) /\ \A i \in 1 .. p : b[i] = t[i]
  BY <1>4, <1>5, <1>7
<1>8. ASSUME p = Len(t), \A i \in 1 .. p : b[i] = t[i] PROVE sub = t
  <2>1. Len(sub) = Len(t) /\ \A i \in 1 .. Len(sub) : sub[i] = t[i]
    BY <1>4, <1>5, <1>8
  <2>2. QED
    BY <1>3, <1>6, <2>1, SeqEqual
<1>9. QED
  BY <1>7, <1>8 DEF sub

-------------------------------------------------------------------------------
(* The steps.                                                              *)

\* Nothing but null characters follows the put pointer.
NulBeyond == ~cut => \A i \in pptr + 1 .. Len(d_buf) : d_buf[i] = Nul

StreamInv == TypeOK /\ TextKept /\ GapOnlyOfSplitWrite /\ NulBeyond

\* What GrowsLeast says of one step.
Growth ==
  LET need == pptr + Len(text') - Len(text)
      size == Len(d_buf')
  IN  /\ size # Len(d_buf) => /\ \E k \in 0 .. Width - 1 : size = Pow2[k]
                              /\ size \in need .. 2 * need - 1
      /\ status' = "length_error" =>
           \E n \in 1 .. MaxWrite : \A k \in 0 .. Width - 1 :
              Pow2[k] \notin pptr + n .. MaxSize
      /\ status' = "bad_alloc" => Len(d_buf) < pptr + MaxWrite

\* What the type invariant says of each length.
LEMMA Lengths ==
  ASSUME TypeOK
  PROVE  /\ Len(d_buf) \in Nat /\ Len(d_buf) >= 1 /\ Len(d_buf) <= MaxSize
         /\ pptr \in Nat /\ pptr <= Len(d_buf) /\ Len(text) \in Nat
         /\ d_buf \in Seq(Chars \cup {Nul}) /\ text \in Seq(Chars)
         /\ DOMAIN d_buf = 1 .. Len(d_buf) /\ MaxSize \in Nat
BY LenProperties, Sizes DEF TypeOK

\* What the buffer is after expand(), and why expand() throws.
LEMMA Expanded ==
  ASSUME TypeOK, NEW need \in Nat, Len(d_buf) < need, need <= MaxSize + MaxWrite
  PROVE  LET e == Expand(need % Pow2[Width]) IN
         /\ e.ok \in BOOLEAN /\ e.pptr = AsInt(Len(d_buf))
         /\ e.ok => /\ e.buf \in Seq(Chars \cup {Nul})
                    /\ \E k \in 0 .. Width - 1 : Len(e.buf) = Pow2[k]
                    /\ Len(e.buf) \in 1 .. MaxSize
                    /\ need <= Len(e.buf) /\ Len(e.buf) <= 2 * need - 1
                    /\ \A i \in 1 .. Len(d_buf) : e.buf[i] = d_buf[i]
                    /\ \A i \in Len(d_buf) + 1 .. Len(e.buf) : e.buf[i] = Nul
         /\ ~e.ok => \A k \in 0 .. Width - 1 : Pow2[k] \notin need .. MaxSize
<1> DEFINE e == Expand(need % Pow2[Width])
           size == SmallestPow2(need)
<1>1. /\ Len(d_buf) \in Nat /\ Len(d_buf) >= 1 /\ Len(d_buf) <= MaxSize /\ MaxSize \in Nat
      /\ d_buf \in Seq(Chars \cup {Nul}) /\ DOMAIN d_buf = 1 .. Len(d_buf)
  BY Lengths
<1>2. need < Pow2[Width] /\ need >= 1 /\ Pow2[Width] \in Nat /\ Pow2[Width] >= 1
  BY <1>1, Sizes, Pow2Positive
<1>3. need % Pow2[Width] = need
  BY <1>2, Wrapped
<1>4. /\ e.ok <=> (Len(d_buf) <= size /\ size <= MaxSize)
      /\ e.buf = [i \in 1 .. size |-> IF i \in 1 .. Len(d_buf) THEN d_buf[i] ELSE Nul]
      /\ e.ok \in BOOLEAN /\ e.pptr = AsInt(Len(d_buf))
  BY <1>1, <1>3 DEF Expand
<1>5. /\ size \in Nat
      /\ size # 0 => /\ \E k \in 0 .. Width - 1 : size = Pow2[k]
                     /\ need <= size /\ size <= 2 * need - 1
      /\ size = 0 => \A k \in 0 .. Width - 1 : Pow2[k] < need
  BY <1>2, SmallestPow2Least
<1> HIDE DEF e, size
<1>6. ASSUME e.ok
      PROVE  /\ e.buf \in Seq(Chars \cup {Nul})
             /\ \E k \in 0 .. Width - 1 : Len(e.buf) = Pow2[k]
             /\ Len(e.buf) \in 1 .. MaxSize
             /\ need <= Len(e.buf) /\ Len(e.buf) <= 2 * need - 1
             /\ \A i \in 1 .. Len(d_buf) : e.buf[i] = d_buf[i]
             /\ \A i \in Len(d_buf) + 1 .. Len(e.buf) : e.buf[i] = Nul
  <2>1. size # 0 /\ Len(d_buf) <= size /\ size <= MaxSize
    BY <1>1, <1>4, <1>5, <1>6
  <2> DEFINE V == Chars \cup {Nul}
  <2>2. \A i \in 1 .. size : (IF i \in 1 .. Len(d_buf) THEN d_buf[i] ELSE Nul) \in V
    BY <1>1, ElementOfSeq
  <2> HIDE DEF V
  <2>3. e.buf \in [1 .. size -> V]
    BY <1>4, <2>2
  <2>4. e.buf \in Seq(V) /\ Len(e.buf) = size
    BY <1>5, <2>3
  <2>5. \A i \in 1 .. Len(d_buf) : i \in 1 .. size
    BY <1>1, <1>5, <2>1
  <2>6. \A i \in Len(d_buf) + 1 .. size : i \in 1 .. size /\ i \notin 1 .. Len(d_buf)
    BY <1>1, <1>5, <2>1
  <2>7. /\ \A i \in 1 .. Len(d_buf) : e.buf[i] = d_buf[i]
        /\ \A i \in Len(d_buf) + 1 .. size : e.buf[i] = Nul
    BY <1>4, <2>5, <2>6
  <2>8. size \in 1 .. MaxSize
    BY <1>1, <1>5, <2>1
  <2>9. QED
    BY <1>5, <2>1, <2>4, <2>7, <2>8 DEF V
<1>7. ASSUME ~e.ok, NEW k \in 0 .. Width - 1 PROVE Pow2[k] \notin need .. MaxSize
  <2>1. k \in Nat /\ Pow2[k] \in Nat
    BY Sizes, Pow2Positive
  <2>2. CASE size = 0
    BY <1>1, <1>5, <2>1, <2>2
  <2>3. CASE size # 0
    <3>1. need <= size /\ size <= 2 * need - 1 /\ size > MaxSize
      BY <1>1, <1>4, <1>5, <1>7, <2>3
    <3>2. PICK j \in 0 .. Width - 1 : size = Pow2[j]
      BY <1>5, <2>3
    <3>3. j \in Nat
      BY Sizes
    <3>4. CASE j <= k
      <4>1. Pow2[j] <= Pow2[k]
        BY <2>1, <3>3, <3>4, Pow2Monotone
      <4>2. QED
        BY <1>1, <1>5, <2>1, <3>1, <3>2, <4>1
    <3>5. CASE k < j
      <4>1. 2 * Pow2[k] <= Pow2[j]
        BY <2>1, <3>3, <3>5, Pow2Grows
      <4>2. QED
        BY <1>1, <1>5, <2>1, <3>1, <3>2, <4>1
    <3>6. QED
      BY <2>1, <3>3, <3>4, <3>5
  <2>4. QED
    BY <2>2, <2>3
<1>8. QED
  BY <1>4, <1>6, <1>7 DEF e

\* What Put makes of the variables, wherever it is to put s.
LEMMA PutTypes ==
  ASSUME TypeOK, status = "ok",
         NEW b \in Seq(Chars \cup {Nul}), Len(b) \in 1 .. MaxSize,
         NEW q \in Int,
         NEW s \in Seq(Chars), Len(s) >= 1, Len(text) + Len(s) <= MaxText,
         Put(b, q, s)
  PROVE  /\ d_buf' \in Seq(Chars \cup {Nul}) /\ Len(d_buf') \in 1 .. MaxSize
         /\ pptr' \in 0 .. Len(d_buf')
         /\ text' \in Seq(Chars) /\ Len(text') <= MaxText
         /\ status' \in {"ok", "overrun"}
         /\ \/ status' = "ok" /\ Len(d_buf') = Len(b) /\ Len(text') = Len(text) + Len(s)
            \/ UNCHANGED <<d_buf, pptr, text>>
<1> DEFINE n == Len(s)
           V == Chars \cup {Nul}
<1>1. /\ Len(text) \in Nat /\ text \in Seq(Chars)
      /\ Len(b) \in Nat /\ n \in Nat /\ DOMAIN b = 1 .. Len(b)
      /\ b \in [1 .. Len(b) -> V]
  BY Lengths, LenProperties DEF TypeOK
<1>2. CASE q < 0 \/ q + n > Len(b)
  <2>1. status' = "overrun" /\ d_buf' = d_buf /\ pptr' = pptr /\ text' = text
    BY <1>2 DEF Put
  <2>2. QED
    BY <2>1 DEF TypeOK
<1>3. CASE ~(q < 0 \/ q + n > Len(b))
  <2>1. /\ d_buf' = [i \in 1 .. Len(b) |-> IF i \in q + 1 .. q + n THEN s[i - q] ELSE b[i]]
        /\ pptr' = q + n /\ text' = text \o s /\ status' = "ok"
    BY <1>1, <1>3 DEF Put
  <2>2. \A i \in q + 1 .. q + n : i - q \in 1 .. n
    BY <1>1, <1>3
  <2>3. \A i \in q + 1 .. q + n : s[i - q] \in Chars
    BY <2>2, ElementOfSeq
  <2>4. d_buf' \in [1 .. Len(b) -> V]
    <3>1. ASSUME NEW i \in 1 .. Len(b)
          PROVE  (IF i \in q + 1 .. q + n THEN s[i - q] ELSE b[i]) \in V
      BY <1>1, <2>3
    <3> HIDE DEF V
    <3>2. QED
      BY <2>1, <3>1
  <2>5. d_buf' \in Seq(V) /\ Len(d_buf') = Len(b)
    <3> HIDE DEF V
    <3>1. QED
      BY <1>1, <2>4
  <2>6. text' \in Seq(Chars) /\ Len(text') = Len(text) + n
    BY <1>1, <2>1, ConcatProperties
  <2>7. pptr' \in 0 .. Len(d_buf')
    BY <1>1, <1>3, <2>1, <2>5
  <2>8. QED
    BY <2>1, <2>5, <2>6, <2>7
<1>4. QED
  BY <1>2, <1>3

\* What Put makes of the text, with the buffer b as it was or as expand() has left it,
\* and the put pointer where it was or after more null characters.
LEMMA PutKeeps ==
  ASSUME TypeOK, TextKept, NulBeyond, ~cut, status = "ok",
         NEW b \in Seq(Chars \cup {Nul}), Len(b) \in 1 .. MaxSize,
         NEW q \in Nat, pptr <= q,
         \A i \in 1 .. pptr : b[i] = d_buf[i],
         \A i \in pptr + 1 .. Len(b) : b[i] = Nul,
         NEW s \in Seq(Chars), Len(s) >= 1, Len(text) + Len(s) <= MaxText,
         Put(b, q, s)
  PROVE  /\ TextKept' /\ NulBeyond'
         /\ q + Len(s) <= Len(b) => status' = "ok"
         /\ q + Len(s) <= Len(b) /\ q = pptr /\ Contents = text => Contents' = text'
<1> DEFINE n == Len(s)
           V == Chars \cup {Nul}
<1>1. /\ Len(d_buf) \in Nat /\ Len(d_buf) >= 1 /\ Len(d_buf) <= MaxSize
      /\ pptr \in Nat /\ pptr <= Len(d_buf) /\ Len(text) \in Nat
      /\ d_buf \in Seq(V) /\ text \in Seq(Chars)
      /\ Len(b) \in Nat /\ n \in Nat /\ DOMAIN b = 1 .. Len(b) /\ Len(text) <= MaxText
      /\ b \in [1 .. Len(b) -> V]
  BY Lengths, LenProperties DEF TypeOK
<1>2. CASE q < 0 \/ q + n > Len(b)
  <2>1. status' = "overrun" /\ d_buf' = d_buf /\ pptr' = pptr /\ text' = text
    BY <1>2 DEF Put
  <2>2. TextKept' /\ NulBeyond'
    BY <2>1 DEF TextKept, NulBeyond
  <2>3. ~(q + Len(s) <= Len(b))
    BY <1>1, <1>2
  <2>4. QED
    BY <2>1, <2>2, <2>3
<1>3. CASE ~(q < 0 \/ q + n > Len(b))
  <2>1. /\ d_buf' = [i \in 1 .. Len(b) |-> IF i \in q + 1 .. q + n THEN s[i - q] ELSE b[i]]
        /\ pptr' = q + n /\ text' = text \o s /\ status' = "ok"
    BY <1>1, <1>3 DEF Put
  <2>2. /\ q + n <= Len(b) /\ q + n \in Nat
        /\ \A i \in q + 1 .. q + n : i \in 1 .. Len(b) /\ i - q \in 1 .. n
        /\ \A i \in 1 .. q : i \in 1 .. Len(b) /\ i \notin q + 1 .. q + n
        /\ \A i \in q + n + 1 .. Len(b) : i \in 1 .. Len(b) /\ i \notin q + 1 .. q + n
    BY <1>1, <1>3
  <2>3. \A i \in q + 1 .. q + n : s[i - q] \in Chars
    BY <2>2, ElementOfSeq
  <2>4. d_buf' \in [1 .. Len(b) -> V]
    <3>1. ASSUME NEW i \in 1 .. Len(b)
          PROVE  (IF i \in q + 1 .. q + n THEN s[i - q] ELSE b[i]) \in V
      BY <1>1, <2>3
    <3> HIDE DEF V
    <3>2. QED
      BY <2>1, <3>1
  <2>5. d_buf' \in Seq(V) /\ Len(d_buf') = Len(b)
    <3> HIDE DEF V
    <3>1. QED
      BY <1>1, <2>4
  <2>6. /\ \A i \in q + 1 .. q + n : d_buf'[i] = s[i - q]
        /\ \A i \in 1 .. q : d_buf'[i] = b[i]
        /\ \A i \in q + n + 1 .. Len(b) : d_buf'[i] = b[i]
    BY <2>1, <2>2
  <2>7. /\ \A i \in 1 .. pptr : i \in 1 .. q
        /\ \A i \in pptr + 1 .. q : i \in 1 .. q /\ i \in pptr + 1 .. Len(b)
        /\ \A i \in q + n + 1 .. Len(b) : i \in pptr + 1 .. Len(b)
    BY <1>1, <2>2
  <2>8. /\ \A i \in 1 .. pptr : d_buf'[i] = d_buf[i]
        /\ \A i \in pptr + 1 .. q : d_buf'[i] = Nul
        /\ \A i \in q + n + 1 .. Len(b) : d_buf'[i] = Nul
    BY <2>6, <2>7
  <2>9. TextKept'
    <3>1. TextOf(d_buf, pptr, text)
      BY DEF TextKept, TextOf, Kept
    <3>2. TextOf(d_buf', q + n, text \o s)
      BY <1>1, <2>6, <2>8, <3>1, TextPut
    <3>3. TextOf(d_buf', pptr', text')
      BY <2>1, <3>2
    <3>4. QED
      BY <3>3 DEF TextKept, TextOf, Kept
  <2>10. NulBeyond'
    BY <2>1, <2>5, <2>8 DEF NulBeyond
  <2>11. text' \in Seq(Chars) /\ Len(text') = Len(text) + n
    BY <1>1, <2>1, ConcatProperties
  <2>12. ASSUME q = pptr, Contents = text PROVE Contents' = text'
    <3>1. pptr = Len(text) /\ \A i \in 1 .. pptr : d_buf[i] = text[i]
      <4>1. pptr \in 0 .. Len(d_buf)
        BY <1>1
      <4>2. QED
        BY <1>1, <2>12, <4>1, PrefixIs DEF Contents
    <3>2. \A i \in 1 .. Len(text) + n :
             (text \o s)[i] = IF i <= Len(text) THEN text[i] ELSE s[i - Len(text)]
      BY <1>1, ConcatProperties
    <3>3. ASSUME NEW i \in 1 .. q + n PROVE d_buf'[i] = text'[i]
      <4>1. i \in 1 .. Len(text) + n
        BY <2>12, <3>1
      <4>2. CASE i <= q
        <5>1. i \in 1 .. pptr /\ i <= Len(text)
          BY <1>1, <2>12, <3>1, <4>2
        <5>2. QED
          BY <2>1, <2>8, <3>1, <3>2, <4>1, <5>1
      <4>3. CASE ~(i <= q)
        <5>1. i \in q + 1 .. q + n /\ ~(i <= Len(text)) /\ i - q = i - Len(text)
          BY <1>1, <2>12, <3>1, <4>3
        <5>2. (text \o s)[i] = s[i - Len(text)]
          BY <3>2, <4>1, <5>1
        <5>3. QED
          BY <2>1, <2>6, <5>1, <5>2
      <4>4. QED
        BY <4>2, <4>3
    <3>4. q + n = Len(text')
      BY <2>11, <2>12, <3>1
    <3>5. SubSeq(d_buf', 1, q + n) = text'
      <4>1. q + n \in 0 .. Len(d_buf')
        BY <2>2, <2>5
      <4>2. QED
        BY <2>5, <2>11, <3>3, <3>4, <4>1, PrefixIs
    <3>6. QED
      BY <2>1, <3>5 DEF Contents
  <2>13. QED
    BY <2>1, <2>9, <2>10, <2>12
<1>4. QED
  BY <1>2, <1>3

\* Each way of writing s: to the buffer b at q, where, unless a size was cut, nothing
\* but null characters lies between the text and q, and where q is the end of the text
\* and there is room unless the step is known to have split the text.
LEMMA Written ==
  ASSUME StreamInv, status = "ok",
         NEW b \in Seq(Chars \cup {Nul}), Len(b) \in 1 .. MaxSize,
         NEW q \in Int,
         NEW s \in Seq(Chars), Len(s) >= 1, Len(text) + Len(s) <= MaxText,
         Put(b, q, s),
         split' \in BOOLEAN, cut' \in BOOLEAN,
         ~cut' => ~cut /\ pptr <= q,
         ~cut' => \A i \in 1 .. pptr : b[i] = d_buf[i],
         ~cut' => \A i \in pptr + 1 .. Len(b) : b[i] = Nul,
         ~split' => ~split,
         ~split' /\ ~cut' => q = pptr /\ q + Len(s) <= Len(b),
         Len(b) # Len(d_buf) => /\ \E k \in 0 .. Width - 1 : Len(b) = Pow2[k]
                                /\ pptr + Len(s) <= Len(b)
                                /\ Len(b) <= 2 * (pptr + Len(s)) - 1
  PROVE  StreamInv' /\ Growth
<1>1. /\ TypeOK /\ TextKept /\ NulBeyond
      /\ GapOnlyOfSplitWrite
  BY DEF StreamInv
<1>2. /\ pptr \in Nat /\ Len(text) \in Nat /\ Len(s) \in Nat /\ Len(b) \in Nat
      /\ Len(d_buf) \in Nat
  BY <1>1, Lengths, LenProperties
<1>3. /\ d_buf' \in Seq(Chars \cup {Nul}) /\ Len(d_buf') \in 1 .. MaxSize
      /\ pptr' \in 0 .. Len(d_buf')
      /\ text' \in Seq(Chars) /\ Len(text') <= MaxText
      /\ status' \in {"ok", "overrun"}
      /\ \/ status' = "ok" /\ Len(d_buf') = Len(b) /\ Len(text') = Len(text) + Len(s)
         \/ UNCHANGED <<d_buf, pptr, text>>
  BY <1>1, PutTypes
<1>4. TypeOK'
  BY <1>3 DEF TypeOK
<1>5. ASSUME ~cut'
      PROVE  /\ TextKept' /\ NulBeyond'
             /\ q + Len(s) <= Len(b) => status' = "ok"
             /\ q + Len(s) <= Len(b) /\ q = pptr /\ Contents = text => Contents' = text'
  <2>1. q \in Nat /\ pptr <= q /\ ~cut
    BY <1>2, <1>5
  <2>2. /\ \A i \in 1 .. pptr : b[i] = d_buf[i]
        /\ \A i \in pptr + 1 .. Len(b) : b[i] = Nul
    BY <1>5
  <2>3. QED
    BY <1>1, <2>1, <2>2, PutKeeps
<1>6. TextKept' /\ NulBeyond'
  <2>1. CASE ~cut'
    BY <1>5, <2>1
  <2>2. CASE cut'
    BY <2>2 DEF TextKept, NulBeyond
  <2>3. QED
    BY <2>1, <2>2
<1>7. GapOnlyOfSplitWrite'
  <2>1. ASSUME ~split', ~cut' PROVE Contents' = text' /\ status' # "overrun"
    <3>1. ~split /\ ~cut /\ q = pptr /\ q + Len(s) <= Len(b)
      BY <2>1
    <3>2. Contents = text
      BY <1>1, <3>1 DEF GapOnlyOfSplitWrite
    <3>3. QED
      BY <1>5, <2>1, <3>1, <3>2
  <2>2. QED
    BY <2>1 DEF GapOnlyOfSplitWrite
<1>8. Growth
  <2>1. status' # "length_error" /\ status' # "bad_alloc"
    BY <1>3
  <2>2. CASE Len(d_buf') = Len(d_buf)
    BY <2>1, <2>2 DEF Growth
  <2>3. CASE Len(d_buf') # Len(d_buf)
    <3>1. Len(d_buf') = Len(b) /\ Len(text') = Len(text) + Len(s)
      BY <1>3, <2>3
    <3>2. pptr + Len(text') - Len(text) = pptr + Len(s)
      BY <1>2, <3>1
    <3>3. /\ \E k \in 0 .. Width - 1 : Len(b) = Pow2[k]
          /\ pptr + Len(s) <= Len(b)
          /\ Len(b) <= 2 * (pptr + Len(s)) - 1
      BY <2>3, <3>1
    <3>4. Len(b) \in pptr + Len(s) .. 2 * (pptr + Len(s)) - 1
      BY <1>2, <3>3
    <3>5. QED
      BY <2>1, <3>1, <3>2, <3>3, <3>4 DEF Growth
  <2>4. QED
    BY <2>2, <2>3
<1>9. QED
  BY <1>4, <1>6, <1>7, <1>8 DEF StreamInv

\* A write that expand() refuses, as too long or for want of memory, changes nothing
\* but the status.
LEMMA Refused ==
  ASSUME StreamInv, NEW error \in {"length_error", "bad_alloc"}, Fails(error),
         NEW n \in 1 .. MaxWrite, Len(d_buf) < pptr + n,
         error = "length_error" => \A k \in 0 .. Width - 1 : Pow2[k] \notin pptr + n .. MaxSize
  PROVE  StreamInv' /\ Growth
<1>1. /\ d_buf' = d_buf /\ pptr' = pptr /\ text' = text /\ split' = split /\ cut' = cut
      /\ status' = error
  BY DEF Fails
<1>2. StreamInv'
  BY <1>1 DEF StreamInv, TypeOK, TextKept, GapOnlyOfSplitWrite, Contents, NulBeyond
<1>3. Len(d_buf) < pptr + MaxWrite
  <2>1. Len(d_buf) \in Nat /\ pptr \in Nat /\ n \in Nat /\ n <= MaxWrite /\ MaxWrite \in Nat
    BY Lengths, Sizes DEF StreamInv
  <2>2. QED
    BY <2>1
<1>4. status' = "length_error" =>
        \E m \in 1 .. MaxWrite : \A k \in 0 .. Width - 1 : Pow2[k] \notin pptr + m .. MaxSize
  BY <1>1
<1>5. Growth
  BY <1>1, <1>3, <1>4 DEF Growth
<1>6. QED
  BY <1>2, <1>5

\* A write where there is room.
LEMMA WrittenInPlace ==
  ASSUME StreamInv, status = "ok",
         NEW s \in Seq(Chars), Len(s) >= 1, Len(text) + Len(s) <= MaxText,
         pptr + Len(s) <= Len(d_buf),
         Put(d_buf, pptr, s), split' = split, cut' = cut
  PROVE  StreamInv' /\ Growth
<1>1. /\ Len(d_buf) \in 1 .. MaxSize /\ d_buf \in Seq(Chars \cup {Nul})
      /\ ~cut => \A i \in pptr + 1 .. Len(d_buf) : d_buf[i] = Nul
      /\ split \in BOOLEAN /\ cut \in BOOLEAN
  BY DEF StreamInv, TypeOK, NulBeyond
<1>2. pptr \in Nat /\ Len(text) \in Nat /\ Len(d_buf) \in Nat
  BY Lengths DEF StreamInv
<1>3. QED
  BY <1>1, <1>2, Written

\* sputc() keeps the invariant.
LEMMA SputcStep ==
  ASSUME StreamInv, status = "ok", NEW c \in Chars, Len(text) < MaxText, Sputc(c)
  PROVE  StreamInv' /\ Growth
<1> DEFINE s == <<c>>
<1>1. pptr \in Nat /\ Len(text) \in Nat /\ Len(d_buf) \in Nat
  BY Lengths DEF StreamInv
<1>2. s \in Seq(Chars) /\ Len(s) = 1
  OBVIOUS
<1>3. Put(d_buf, pptr, s) /\ split' = split /\ cut' = cut /\ pptr < Len(d_buf)
  BY DEF Sputc
<1> HIDE DEF s
<1>4. Len(s) >= 1 /\ Len(text) + Len(s) <= MaxText /\ pptr + Len(s) <= Len(d_buf)
  BY <1>1, <1>2, <1>3, Sizes
<1>5. QED
  BY <1>2, <1>3, <1>4, WrittenInPlace

\* The buffer that is written to after expand(), at its old size.
LEMMA WrittenAfterExpand ==
  ASSUME StreamInv, status = "ok",
         NEW s \in Seq(Chars), Len(s) \in 1 .. MaxWrite, Len(text) + Len(s) <= MaxText,
         NEW e, e = Expand((pptr + Len(s)) % Pow2[Width]),
         Len(d_buf) < pptr + Len(s),
         \/ Refuses(e)
         \/ /\ e.ok /\ Put(e.buf, e.pptr, s)
            /\ split' = (split \/ pptr < Len(d_buf))
            /\ cut' = (cut \/ Len(d_buf) > MaxInt)
  PROVE  StreamInv' /\ Growth
<1> DEFINE need == pptr + Len(s)
           b == e.buf
           q == AsInt(Len(d_buf))
<1>1. /\ pptr \in Nat /\ Len(text) \in Nat /\ Len(d_buf) \in Nat /\ Len(s) \in Nat
      /\ pptr <= Len(d_buf) /\ Len(d_buf) <= MaxSize /\ TypeOK /\ split \in BOOLEAN
      /\ cut \in BOOLEAN /\ q \in Int /\ MaxInt \in Nat
      /\ Len(d_buf) <= MaxInt => q = Len(d_buf)
  BY AsIntExact, Sizes, Lengths, LenProperties DEF StreamInv, TypeOK
<1>2. need \in Nat /\ Len(d_buf) < need /\ need <= MaxSize + MaxWrite
  BY <1>1, Sizes
<1>3. /\ e.ok \in BOOLEAN /\ e.pptr = q
      /\ e.ok => /\ b \in Seq(Chars \cup {Nul})
                 /\ \E k \in 0 .. Width - 1 : Len(b) = Pow2[k]
                 /\ Len(b) \in 1 .. MaxSize
                 /\ need <= Len(b) /\ Len(b) <= 2 * need - 1
                 /\ \A i \in 1 .. Len(d_buf) : b[i] = d_buf[i]
                 /\ \A i \in Len(d_buf) + 1 .. Len(b) : b[i] = Nul
      /\ ~e.ok => \A k \in 0 .. Width - 1 : Pow2[k] \notin need .. MaxSize
  <2> HIDE DEF need
  <2>1. e = Expand(need % Pow2[Width])
    BY DEF need
  <2>2. QED
    BY <1>1, <1>2, <2>1, Expanded
<1> HIDE DEF q
<1>4. CASE Refuses(e)
  <2>1. CASE ~e.ok /\ Fails("length_error")
    <3>1. \A k \in 0 .. Width - 1 : Pow2[k] \notin pptr + Len(s) .. MaxSize
      BY <1>3, <2>1
    <3>2. QED
      BY <1>2, <2>1, <3>1, Refused
  <2>2. CASE e.ok /\ Fails("bad_alloc")
    BY <1>2, <2>2, Refused
  <2>3. QED
    BY <1>4, <2>1, <2>2 DEF Refuses
<1>5. CASE /\ e.ok /\ Put(e.buf, e.pptr, s)
           /\ split' = (split \/ pptr < Len(d_buf))
           /\ cut' = (cut \/ Len(d_buf) > MaxInt)
  <2>1. Put(b, q, s)
    BY <1>3, <1>5
  <2>cut. /\ cut' \in BOOLEAN
          /\ ~cut' => ~cut
          /\ ~cut' => q = Len(d_buf)
    <3>1. cut' = (cut \/ Len(d_buf) > MaxInt)
      BY <1>5
    <3>2. cut' \in BOOLEAN /\ (cut' <=> cut \/ Len(d_buf) > MaxInt)
      BY <1>1, <3>1
    <3>3. Len(d_buf) > MaxInt \/ Len(d_buf) <= MaxInt
      BY <1>1
    <3>4. QED
      BY <1>1, <3>2, <3>3
  <2>2. /\ split' \in BOOLEAN
        /\ ~split' => ~split
        /\ ~split' => Len(d_buf) = pptr
    <3>1. pptr < Len(d_buf) \/ Len(d_buf) = pptr
      BY <1>1
    <3>2. split' = (split \/ pptr < Len(d_buf))
      BY <1>5
    <3>3. split' \in BOOLEAN /\ (split' <=> split \/ pptr < Len(d_buf))
      BY <1>1, <3>2
    <3>4. QED
      BY <3>1, <3>3
  <2>3. ASSUME NEW i \in 1 .. pptr PROVE b[i] = d_buf[i]
    <3>1. i \in 1 .. Len(d_buf)
      BY <1>1
    <3>2. QED
      BY <1>3, <1>5, <3>1
  <2>4. ASSUME ~cut', NEW i \in pptr + 1 .. Len(b) PROVE b[i] = Nul
    <3>1. Len(b) \in Nat
      BY <1>3, <1>5
    <3>2. CASE i <= Len(d_buf)
      <4>1. i \in 1 .. Len(d_buf) /\ i \in pptr + 1 .. Len(d_buf)
        BY <1>1, <3>1, <3>2
      <4>2. d_buf[i] = Nul
        BY <2>cut, <2>4, <4>1 DEF StreamInv, NulBeyond
      <4>3. QED
        BY <1>3, <1>5, <4>1, <4>2
    <3>3. CASE i > Len(d_buf)
      <4>1. i \in Len(d_buf) + 1 .. Len(b)
        BY <1>1, <3>1, <3>3
      <4>2. QED
        BY <1>3, <1>5, <4>1
    <3>4. QED
      BY <1>1, <3>2, <3>3
  <2>5. /\ b \in Seq(Chars \cup {Nul}) /\ Len(b) \in 1 .. MaxSize
        /\ \E k \in 0 .. Width - 1 : Len(b) = Pow2[k]
        /\ pptr + Len(s) <= Len(b) /\ Len(b) <= 2 * (pptr + Len(s)) - 1
    BY <1>3, <1>5
  <2>6. ~split' /\ ~cut' => q = pptr /\ q + Len(s) <= Len(b)
    BY <2>cut, <2>2, <2>5
  <2>9. ~cut' => ~cut /\ pptr <= q
    BY <1>1, <2>cut
  <2>7. Len(s) >= 1
    BY <1>1
  <2> HIDE DEF b
  <2>8. QED
    BY <1>1, <2>1, <2>cut, <2>2, <2>3, <2>4, <2>5, <2>6, <2>7, <2>9, Written
<1>6. QED
  BY <1>4, <1>5

\* overflow() keeps the invariant.
LEMMA OverflowStep ==
  ASSUME StreamInv, status = "ok", NEW c \in Chars, Len(text) < MaxText, Overflow(c)
  PROVE  StreamInv' /\ Growth
<1> DEFINE s == <<c>>
           e == Expand((Len(d_buf) + 1) % Pow2[Width])
<1>1. /\ pptr \in Nat /\ Len(text) \in Nat /\ Len(d_buf) \in Nat
      /\ split \in BOOLEAN
  BY Lengths DEF StreamInv, TypeOK
<1>2. s \in Seq(Chars) /\ Len(s) = 1
  OBVIOUS
<1>3. /\ pptr = Len(d_buf)
      /\ \/ Refuses(e)
         \/ /\ e.ok /\ Put(e.buf, e.pptr, s) /\ split' = split
            /\ cut' = (cut \/ Len(d_buf) > MaxInt)
  BY DEF Overflow
<1>4. /\ Len(s) \in 1 .. MaxWrite /\ Len(text) + Len(s) <= MaxText
      /\ Len(d_buf) < pptr + Len(s)
  BY <1>1, <1>2, <1>3, Sizes
<1>5. e = Expand((pptr + Len(s)) % Pow2[Width])
  BY <1>2, <1>3
<1>6. split = (split \/ pptr < Len(d_buf))
  BY <1>1, <1>3
<1> HIDE DEF s, e
<1>7. \/ Refuses(e)
      \/ /\ e.ok /\ Put(e.buf, e.pptr, s)
         /\ split' = (split \/ pptr < Len(d_buf))
         /\ cut' = (cut \/ Len(d_buf) > MaxInt)
  BY <1>3, <1>6
<1>8. QED
  BY <1>2, <1>4, <1>5, <1>7, WrittenAfterExpand

\* xsputn() keeps the invariant, with room and without.
LEMMA XsputnStep ==
  ASSUME StreamInv, status = "ok", NEW n \in 1 .. MaxWrite, Len(text) + n <= MaxText,
         NEW s \in [1 .. n -> Chars], Xsputn(s)
  PROVE  StreamInv' /\ Growth
<1> DEFINE e == Expand((pptr + Len(s)) % Pow2[Width])
<1>1. /\ pptr \in Nat /\ Len(text) \in Nat /\ Len(d_buf) \in Nat /\ split \in BOOLEAN
      /\ TypeOK /\ pptr <= Len(d_buf)
  BY Lengths DEF StreamInv, TypeOK
<1>2. n \in Nat /\ n >= 1
  BY Sizes
<1>3. s \in Seq(Chars) /\ Len(s) = n
  BY <1>2
<1>4. CASE /\ Len(d_buf) - pptr >= Len(s) /\ Put(d_buf, pptr, s)
           /\ split' = split /\ cut' = cut
  <2>1. pptr + Len(s) <= Len(d_buf) /\ Len(s) >= 1
    BY <1>1, <1>2, <1>3, <1>4
  <2>2. QED
    BY <1>3, <1>4, <2>1, WrittenInPlace
<1>5. CASE /\ Len(d_buf) - pptr < Len(s)
           /\ \/ Refuses(e)
              \/ /\ e.ok /\ Put(e.buf, e.pptr, s)
                 /\ split' = (split \/ pptr < Len(d_buf))
                 /\ cut' = (cut \/ Len(d_buf) > MaxInt)
  <2>1. Len(d_buf) < pptr + Len(s)
    BY <1>1, <1>2, <1>3, <1>5
  <2> HIDE DEF e
  <2>2. e = Expand((pptr + Len(s)) % Pow2[Width])
    BY DEF e
  <2>3. QED
    BY <1>3, <1>5, <2>1, <2>2, WrittenAfterExpand
<1>6. QED
  BY <1>4, <1>5 DEF Xsputn

\* The buffer is empty when it is made.
LEMMA StreamStart == Init => StreamInv
<1> SUFFICES ASSUME Init PROVE StreamInv
  OBVIOUS
<1> DEFINE V == Chars \cup {Nul}
<1>1. /\ pptr = 0 /\ text = <<>>
      /\ status = "ok" /\ split = FALSE /\ cut = FALSE
  BY DEF Init
<1> PICK c \in Capacities : d_buf = [i \in 1 .. c |-> Nul]
  BY DEF Init
<1>2. c \in Nat /\ c \in 1 .. MaxSize
  BY Utf16Assumption, Sizes
<1>3. d_buf \in [1 .. c -> V]
  BY <1>1
<1>4. d_buf \in Seq(V) /\ Len(d_buf) = c
  <2> HIDE DEF V
  <2>1. QED
    BY <1>2, <1>3
<1>5. text \in Seq(Chars) /\ Len(text) = 0
  BY <1>1
<1>6. TypeOK
  <2>1. pptr \in 0 .. Len(d_buf) /\ Len(text) <= MaxText /\ Len(d_buf) \in 1 .. MaxSize
    BY <1>1, <1>2, <1>4, <1>5, Sizes
  <2>2. /\ split \in BOOLEAN /\ cut \in BOOLEAN
        /\ status \in {"ok", "length_error", "bad_alloc", "overrun"}
    BY <1>1
  <2>3. QED
    BY <1>4, <1>5, <2>1, <2>2 DEF TypeOK
<1>7. TextKept
  <2>1. {i \in 1 .. pptr : d_buf[i] # Nul} = {}
    BY <1>1
  <2>2. Cardinality({}) = 0
    BY FS_EmptySet
  <2>3. QED
    BY <1>5, <2>1, <2>2 DEF TextKept
<1>8. GapOnlyOfSplitWrite
  <2>1. 0 \in 0 .. Len(d_buf) /\ \A i \in 1 .. 0 : d_buf[i] = text[i]
    BY <1>2, <1>4
  <2>2. SubSeq(d_buf, 1, 0) = text
    BY <1>4, <1>5, <2>1, PrefixIs
  <2>3. QED
    BY <1>1, <2>2 DEF GapOnlyOfSplitWrite, Contents
<1>9. NulBeyond
  <2>1. \A i \in pptr + 1 .. Len(d_buf) : i \in 1 .. c
    BY <1>1, <1>2, <1>4
  <2>2. QED
    BY <1>1, <2>1 DEF NulBeyond
<1>10. QED
  BY <1>6, <1>7, <1>8, <1>9 DEF StreamInv

\* Every step keeps the invariant, and none but a needed one grows the buffer.
LEMMA StreamStep == StreamInv /\ [Next]_vars => StreamInv' /\ [Growth]_vars
<1> SUFFICES ASSUME StreamInv, [Next]_vars PROVE StreamInv' /\ [Growth]_vars
  OBVIOUS
<1>1. CASE Next
  <2>1. status = "ok"
    BY <1>1 DEF Next
  <2>2. ASSUME Len(text) < MaxText, NEW c \in Chars, Sputc(c) \/ Overflow(c)
        PROVE  StreamInv' /\ Growth
    BY <2>1, <2>2, SputcStep, OverflowStep
  <2>3. ASSUME NEW n \in 1 .. MaxWrite, Len(text) + n <= MaxText,
               NEW s \in [1 .. n -> Chars], Xsputn(s)
        PROVE  StreamInv' /\ Growth
    BY <2>1, <2>3, XsputnStep
  <2>4. QED
    BY <1>1, <2>2, <2>3 DEF Next
<1>2. CASE UNCHANGED vars
  <2>1. StreamInv'
    BY <1>2 DEF vars, StreamInv, TypeOK, TextKept, GapOnlyOfSplitWrite, Contents, NulBeyond
  <2>2. QED
    BY <1>2, <2>1
<1>3. QED
  BY <1>1, <1>2

-------------------------------------------------------------------------------
(* The theorems.                                                           *)

\* What every behaviour keeps.
LEMMA StreamInvariant == Spec => []StreamInv
<1>1. StreamInv /\ [Next]_vars => StreamInv'
  BY StreamStep
<1>2. QED
  BY <1>1, StreamStart, PTL DEF Spec

\* The put pointer stays inside the buffer, for every capacity and every max_size(),
\* until a copy goes outside of it, which the status records (jni_util.cpp:43-77).
THEOREM StreamTypeCorrect == Spec => []TypeOK
<1>1. StreamInv => TypeOK
  BY DEF StreamInv
<1>2. QED
  BY <1>1, StreamInvariant, PTL

\* No character is lost, overwritten or out of order, however it is cut into writes
\* and whichever of them fail, until a buffer is outgrown whose size is no int
\* (jni_util.cpp:43-77).
THEOREM StreamTextKept == Spec => []TextKept
<1>1. StreamInv => TextKept
  BY DEF StreamInv
<1>2. QED
  BY <1>1, StreamInvariant, PTL

\* The contents are the text, and nothing is written outside of the buffer, until
\* xsputn() expands a buffer that is not full, or a size is cut to an int
\* (jni_util.cpp:50, 72-75).
THEOREM StreamGapOnlyOfSplitWrite == Spec => []GapOnlyOfSplitWrite
<1>1. StreamInv => GapOnlyOfSplitWrite
  BY DEF StreamInv
<1>2. QED
  BY <1>1, StreamInvariant, PTL

\* Every growth is to the least power of two that is enough; length_error is thrown
\* only where max_size() leaves none, and bad_alloc only for a write that has no room,
\* whatever the widths of a size_t and an int (util.h:198-222, jni_util.cpp:43-50).
THEOREM StreamGrowsLeast == Spec => GrowsLeast
<1>1. StreamInv /\ [Next]_vars => [Growth]_vars
  BY StreamStep
<1>2. Spec => [][Growth]_vars
  BY <1>1, StreamInvariant, PTL DEF Spec
<1>3. QED
  BY <1>2 DEF GrowsLeast, Growth

===============================================================================
