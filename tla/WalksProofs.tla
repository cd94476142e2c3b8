----------------------------- MODULE WalksProofs -----------------------------
(***************************************************************************)
(* Proofs about the walks through memory, for every page and line size,    *)
(* every length of memory and every order of pages.                        *)
(***************************************************************************)
EXTENDS Walks, FiniteSetTheorems, WellFoundedInduction, TLAPS

----------------------------------------------------------------------------
(* Numbers                                                                 *)

\* The pairs that the well-founded order of the numbers consists of.
Below == {p \in Nat \X Nat : p[1] < p[2]}

\* A set of numbers that is not empty has a least element.
LEMMA LeastOne ==
  ASSUME NEW S \in SUBSET Nat, S # {}
  PROVE  \E k \in S : \A l \in S : k <= l
<1>1. IsWellFoundedOn(Below, Nat)
  BY NatLessThanWellFounded DEF OpToRel, Below
<1>2. PICK k \in S : \A l \in S : <<l, k>> \notin Below
  BY <1>1, WFMin
<1>3. ASSUME NEW l \in S PROVE k <= l
  <2> DEFINE p == <<l, k>>
  <2>1. p \in Nat \X Nat /\ p[1] = l /\ p[2] = k
    OBVIOUS
  <2>2. p \notin Below
    BY <1>2
  <2> HIDE DEF p
  <2>3. ~(p[1] < p[2])
    BY <2>1, <2>2 DEF Below
  <2> QED
    BY <2>1, <2>3
<1> QED
  BY <1>3

\* A set with 0 that has n + 1 with n has all numbers.
LEMMA Inductive ==
  ASSUME NEW S, 0 \in S, \A n \in Nat : n \in S => n + 1 \in S
  PROVE  \A n \in Nat : n \in S
<1> SUFFICES ASSUME Nat \ S # {} PROVE FALSE
  OBVIOUS
<1>1. PICK k \in Nat \ S : \A l \in Nat \ S : k <= l
  BY LeastOne
<1>2. k # 0 /\ k - 1 \in Nat /\ k = (k - 1) + 1
  BY <1>1
<1>3. k - 1 \in S
  BY <1>1, <1>2
<1> QED
  BY <1>1, <1>2, <1>3

\* A number of two digits.
LEMMA DivModOf ==
  ASSUME NEW p \in Nat, NEW q \in Nat, NEW r \in 0..p-1
  PROVE  (p * q + r) \div p = q /\ (p * q + r) % p = r
OBVIOUS

\* Quotient and remainder.
LEMMA DivMod ==
  ASSUME NEW a \in Nat, NEW p \in Nat, p > 0
  PROVE  /\ a \div p \in Nat /\ a % p \in 0..p-1
         /\ a = p * (a \div p) + (a % p)
<1> DEFINE q == a \div p
           r == a - p * q
<1>1. q \in Nat /\ p * q <= a /\ a < p * (q + 1)
  OBVIOUS
<1>2. p * q \in Nat /\ p * (q + 1) = p * q + p
  BY <1>1
<1> HIDE DEF q
<1>3. r \in 0..p-1 /\ a = p * q + r
  BY <1>1, <1>2
<1> HIDE DEF r
<1>4. (p * q + r) % p = r
  BY <1>1, <1>3, DivModOf
<1> QED
  BY <1>1, <1>3, <1>4 DEF q

\* Two digits determine a number and the number its digits.
LEMMA Digits ==
  ASSUME NEW p \in Nat, NEW q \in Nat, NEW s \in Nat, NEW r \in 0..p-1, NEW t \in 0..p-1,
         p * q + r = p * s + t
  PROVE  q = s /\ r = t
<1>1. (p * q + r) \div p = q /\ (p * q + r) % p = r
  BY DivModOf
<1>2. (p * s + t) \div p = s /\ (p * s + t) % p = t
  BY DivModOf
<1> QED
  BY <1>1, <1>2

\* A number with two digits is below the product.
LEMMA DigitsBelow ==
  ASSUME NEW p \in Nat, NEW n \in Nat, NEW q \in 0..n-1, NEW r \in 0..p-1
  PROVE  p * q + r \in 0..p*n-1
<1>1. p * q \in Nat /\ p * n \in Nat /\ p * (q + 1) = p * q + p
  OBVIOUS
<1>2. p * (q + 1) <= p * n
  OBVIOUS
<1> QED
  BY <1>1, <1>2

----------------------------------------------------------------------------
(* Powers of two, and bits                                                 *)

\* What Pow2 is up to n.
IsPow2To(f, n) == f = [m \in 0..n |-> IF m = 0 THEN 1 ELSE 2 * f[m - 1]]
Pow2To(n) == CHOOSE f : IsPow2To(f, n)

\* There is such a function for every n.
LEMMA Pow2ToExists == \A n \in Nat : IsPow2To(Pow2To(n), n)
<1> DEFINE S == {n \in Nat : \E f : IsPow2To(f, n)}
<1>1. 0 \in S
  <2>1. IsPow2To([m \in 0..0 |-> 1], 0)
    BY DEF IsPow2To
  <2> QED
    BY <2>1
<1>2. ASSUME NEW n \in Nat, n \in S
      PROVE  n + 1 \in S
  <2>1. PICK f : IsPow2To(f, n)
    BY <1>2
  <2> DEFINE g == [m \in 0..n + 1 |-> IF m = n + 1 THEN 2 * f[n] ELSE f[m]]
  <2>2. \A m \in 0..n : f[m] = IF m = 0 THEN 1 ELSE 2 * f[m - 1]
    BY <2>1 DEF IsPow2To
  <2>3. \A m \in 0..n : g[m] = f[m]
    OBVIOUS
  <2>4. g[n + 1] = 2 * f[n]
    OBVIOUS
  <2>5. DOMAIN g = 0..n + 1 /\ g = [m \in 0..n + 1 |-> g[m]]
    OBVIOUS
  <2> HIDE DEF g
  <2>6. ASSUME NEW m \in 0..n + 1
        PROVE  g[m] = IF m = 0 THEN 1 ELSE 2 * g[m - 1]
    <3>1. CASE m = n + 1
      BY <2>3, <2>4, <3>1
    <3>2. CASE m \in 0..n
      <4>1. m # 0 => m - 1 \in 0..n
        BY <3>2
      <4> QED
        BY <2>2, <2>3, <3>2, <4>1
    <3> QED
      BY <3>1, <3>2
  <2>7. IsPow2To(g, n + 1)
    BY <2>5, <2>6 DEF IsPow2To
  <2> QED
    BY <2>7
<1> HIDE DEF S
<1>3. \A n \in Nat : n \in S
  BY <1>1, <1>2, Inductive
<1> QED
  BY <1>3 DEF S, Pow2To

\* They agree where both are defined.
LEMMA Pow2ToAgrees ==
  ASSUME NEW n \in Nat
  PROVE  Pow2To(n + 1)[n] = Pow2To(n)[n]
<1> DEFINE f == Pow2To(n)
           g == Pow2To(n + 1)
           S == {m \in Nat : m <= n => g[m] = f[m]}
<1>1. IsPow2To(f, n) /\ IsPow2To(g, n + 1)
  BY Pow2ToExists
<1> HIDE DEF f, g
<1>2. \A m \in 0..n : f[m] = IF m = 0 THEN 1 ELSE 2 * f[m - 1]
  BY <1>1 DEF IsPow2To
<1>3. \A m \in 0..n + 1 : g[m] = IF m = 0 THEN 1 ELSE 2 * g[m - 1]
  BY <1>1 DEF IsPow2To
<1>4. 0 \in S
  BY <1>2, <1>3
<1>5. ASSUME NEW m \in Nat, m \in S
      PROVE  m + 1 \in S
  <2>1. m + 1 <= n => m + 1 \in 0..n /\ m + 1 \in 0..n + 1 /\ m + 1 # 0 /\ (m + 1) - 1 = m
    OBVIOUS
  <2> QED
    BY <1>2, <1>3, <1>5, <2>1
<1> HIDE DEF S
<1>6. n \in S
  BY <1>4, <1>5, Inductive
<1> QED
  BY <1>6 DEF S, f, g

\* The powers of two double.
LEMMA Pow2Facts ==
  /\ Pow2[0] = 1
  /\ \A n \in Nat : Pow2[n + 1] = 2 * Pow2[n]
  /\ \A n \in Nat : Pow2[n] \in Nat /\ Pow2[n] > 0
<1> DEFINE g == [n \in Nat |-> Pow2To(n)[n]]
<1>1. \A n \in Nat : g[n] = IF n = 0 THEN 1 ELSE 2 * g[n - 1]
  <2> TAKE n \in Nat
  <2>1. Pow2To(n)[n] = IF n = 0 THEN 1 ELSE 2 * Pow2To(n)[n - 1]
    BY Pow2ToExists DEF IsPow2To
  <2>2. CASE n = 0
    BY <2>1, <2>2
  <2>3. CASE n # 0
    <3>1. n - 1 \in Nat /\ (n - 1) + 1 = n
      BY <2>3
    <3>2. Pow2To(n)[n - 1] = Pow2To(n - 1)[n - 1]
      BY <3>1, Pow2ToAgrees
    <3> QED
      BY <2>1, <2>3, <3>1, <3>2
  <2> QED
    BY <2>2, <2>3
<1>2. g = [n \in Nat |-> g[n]]
  OBVIOUS
<1> HIDE DEF g
<1>3. g = [n \in Nat |-> IF n = 0 THEN 1 ELSE 2 * g[n - 1]]
  BY <1>1, <1>2
<1>4. Pow2 = [n \in Nat |-> IF n = 0 THEN 1 ELSE 2 * Pow2[n - 1]]
  BY <1>3 DEF Pow2
<1>5. Pow2[0] = 1
  BY <1>4
<1>6. \A n \in Nat : Pow2[n + 1] = 2 * Pow2[n]
  <2> TAKE n \in Nat
  <2>1. n + 1 \in Nat /\ n + 1 # 0 /\ (n + 1) - 1 = n
    OBVIOUS
  <2> QED
    BY <1>4, <2>1
<1> DEFINE S == {n \in Nat : Pow2[n] \in Nat /\ Pow2[n] > 0}
<1>7. 0 \in S
  BY <1>5
<1>8. \A n \in Nat : n \in S => n + 1 \in S
  BY <1>6
<1> HIDE DEF S
<1>9. \A n \in Nat : n \in S
  BY <1>7, <1>8, Inductive
<1> QED
  BY <1>5, <1>6, <1>9 DEF S

\* They grow, and one divides the next.
LEMMA Pow2Grows ==
  ASSUME NEW a \in Nat, NEW b \in Nat, a < b
  PROVE  /\ Pow2[a] < Pow2[b]
         /\ Pow2[b] = Pow2[a] * Pow2[b - a]
<1> DEFINE S == {n \in Nat : Pow2[a + n] = Pow2[a] * Pow2[n] /\ (n > 0 => Pow2[n] > 1)}
<1>1. 0 \in S
  BY Pow2Facts
<1>2. ASSUME NEW n \in Nat, n \in S
      PROVE  n + 1 \in S
  <2>1. Pow2[n + 1] = 2 * Pow2[n] /\ Pow2[a + (n + 1)] = 2 * Pow2[a + n]
    <3>1. a + n \in Nat /\ a + (n + 1) = (a + n) + 1
      OBVIOUS
    <3> QED
      BY <3>1, Pow2Facts
  <2>2. Pow2[n] \in Nat /\ Pow2[n] > 0 /\ Pow2[a] \in Nat
    BY Pow2Facts
  <2>3. 2 * (Pow2[a] * Pow2[n]) = Pow2[a] * (2 * Pow2[n])
    BY <2>2
  <2> QED
    BY <1>2, <2>1, <2>2, <2>3
<1> HIDE DEF S
<1>3. b - a \in S
  BY <1>1, <1>2, Inductive
<1>4. Pow2[b] = Pow2[a] * Pow2[b - a] /\ Pow2[b - a] > 1
  <2>1. a + (b - a) = b /\ b - a > 0
    OBVIOUS
  <2> QED
    BY <1>3, <2>1 DEF S
<1>5. Pow2[a] \in Nat /\ Pow2[a] > 0 /\ Pow2[b - a] \in Nat
  BY Pow2Facts
<1> DEFINE x == Pow2[a]
           y == Pow2[b - a]
<1>6. x \in Nat /\ x > 0 /\ y \in Nat /\ y > 1
  BY <1>4, <1>5
<1> HIDE DEF x, y
<1>7. x < x * y
  BY <1>6
<1> QED
  BY <1>4, <1>7 DEF x, y

\* The lowest bit, and the others.
LEMMA BitFacts ==
  ASSUME NEW i \in Nat
  PROVE  /\ Bit(i, 0) = i % 2
         /\ \A j \in Nat : Bit(i, j + 1) = Bit(i \div 2, j)
         /\ \A j \in Nat : Bit(i, j) \in 0..1
         /\ i \div 2 \in Nat /\ i % 2 \in 0..1 /\ i = 2 * (i \div 2) + (i % 2)
<1>1. i \div 1 = i
  OBVIOUS
<1>2. Bit(i, 0) = i % 2
  BY <1>1, Pow2Facts DEF Bit
<1>3. ASSUME NEW j \in Nat
      PROVE  Bit(i, j + 1) = Bit(i \div 2, j)
  <2>1. Pow2[j] \in Nat \ {0} /\ Pow2[j + 1] = 2 * Pow2[j]
    BY Pow2Facts
  <2>2. \A p \in Nat \ {0} : (i \div 2) \div p = i \div (2 * p)
    OBVIOUS
  <2> QED
    BY <2>1, <2>2 DEF Bit
<1>4. ASSUME NEW j \in Nat
      PROVE  Bit(i, j) \in 0..1
  <2>1. i \div Pow2[j] \in Nat
    BY Pow2Facts, DivMod
  <2> QED
    BY <2>1, DivMod DEF Bit
<1> QED
  BY <1>2, <1>3, <1>4, DivMod

\* A number of n bits is determined by them.
LEMMA BitsDetermine ==
  ASSUME NEW n \in Nat, NEW r \in 0..Pow2[n]-1, NEW s \in 0..Pow2[n]-1,
         \A j \in 0..n-1 : Bit(r, j) = Bit(s, j)
  PROVE  r = s
<1> DEFINE S == {m \in Nat : \A x, y \in 0..Pow2[m]-1 :
                   (\A j \in 0..m-1 : Bit(x, j) = Bit(y, j)) => x = y}
<1>1. 0 \in S
  BY Pow2Facts
<1>2. ASSUME NEW m \in Nat, m \in S
      PROVE  m + 1 \in S
  <2>1. ASSUME NEW x \in 0..Pow2[m + 1]-1, NEW y \in 0..Pow2[m + 1]-1,
               \A j \in 0..(m + 1)-1 : Bit(x, j) = Bit(y, j)
        PROVE  x = y
    <3>1. Pow2[m + 1] = 2 * Pow2[m] /\ Pow2[m] \in Nat
      BY Pow2Facts
    <3>2. x \in Nat /\ y \in Nat
      BY <3>1
    <3>3. /\ x \div 2 \in Nat /\ x % 2 \in 0..1 /\ x = 2 * (x \div 2) + (x % 2)
          /\ y \div 2 \in Nat /\ y % 2 \in 0..1 /\ y = 2 * (y \div 2) + (y % 2)
      BY <3>2, BitFacts
    <3>4. x \div 2 \in 0..Pow2[m]-1 /\ y \div 2 \in 0..Pow2[m]-1
      BY <3>1, <3>3
    <3>5. x % 2 = y % 2
      <4>1. 0 \in 0..(m + 1)-1
        OBVIOUS
      <4>2. Bit(x, 0) = Bit(y, 0)
        BY ONLY <2>1, <4>1
      <4>3. Bit(x, 0) = x % 2 /\ Bit(y, 0) = y % 2
        BY ONLY <3>2, BitFacts
      <4> QED
        BY ONLY <4>2, <4>3
    <3>6. ASSUME NEW j \in 0..m-1
          PROVE  Bit(x \div 2, j) = Bit(y \div 2, j)
      <4>1. j \in Nat /\ j + 1 \in 0..(m + 1)-1
        OBVIOUS
      <4> QED
        BY <2>1, <3>2, <4>1, BitFacts
    <3>7. x \div 2 = y \div 2
      BY <1>2, <3>4, <3>6
    <3> QED
      BY <3>3, <3>5, <3>7
  <2> QED
    BY <2>1
<1> HIDE DEF S
<1>3. n \in S
  BY <1>1, <1>2, Inductive
<1> QED
  BY <1>3 DEF S

\* Any bits are those of a number.
LEMMA BitsExist ==
  ASSUME NEW n \in Nat, NEW f \in [0..n-1 -> 0..1]
  PROVE  \E r \in 0..Pow2[n]-1 : \A j \in 0..n-1 : Bit(r, j) = f[j]
<1> DEFINE S == {m \in Nat : \A g \in [0..m-1 -> 0..1] :
                   \E x \in 0..Pow2[m]-1 : \A j \in 0..m-1 : Bit(x, j) = g[j]}
<1>1. 0 \in S
  <2>1. 0 \in 0..Pow2[0]-1 /\ 0..0-1 = {}
    BY Pow2Facts
  <2> QED
    BY <2>1
<1>2. ASSUME NEW m \in Nat, m \in S
      PROVE  m + 1 \in S
  <2>1. ASSUME NEW g \in [0..(m + 1)-1 -> 0..1]
        PROVE  \E x \in 0..Pow2[m + 1]-1 : \A j \in 0..(m + 1)-1 : Bit(x, j) = g[j]
    <3> DEFINE h == [j \in 0..m-1 |-> g[j + 1]]
    <3>1. h \in [0..m-1 -> 0..1]
      OBVIOUS
    <3>2. \A j \in 0..m-1 : h[j] = g[j + 1]
      OBVIOUS
    <3> HIDE DEF h
    <3>3. PICK y \in 0..Pow2[m]-1 : \A j \in 0..m-1 : Bit(y, j) = h[j]
      BY <1>2, <3>1
    <3>4. Pow2[m + 1] = 2 * Pow2[m] /\ Pow2[m] \in Nat
      BY Pow2Facts
    <3>5. g[0] \in 0..1 /\ y \in Nat
      BY <3>4
    <3> DEFINE x == 2 * y + g[0]
    <3>6. x \in 0..Pow2[m + 1]-1 /\ x \in Nat
      BY <3>4, <3>5
    <3>7. x \div 2 = y /\ x % 2 = g[0]
      BY <3>5, DivModOf
    <3> HIDE DEF x
    <3>8. ASSUME NEW j \in 0..(m + 1)-1
          PROVE  Bit(x, j) = g[j]
      <4>1. CASE j = 0
        BY <3>6, <3>7, <4>1, BitFacts
      <4>2. CASE j # 0
        <5>1. j - 1 \in 0..m-1 /\ j - 1 \in Nat /\ (j - 1) + 1 = j
          BY <4>2
        <5>2. Bit(x, (j - 1) + 1) = Bit(x \div 2, j - 1)
          BY <3>6, <5>1, BitFacts
        <5> QED
          BY <3>2, <3>3, <3>7, <5>1, <5>2
      <4> QED
        BY <4>1, <4>2
    <3> QED
      BY <3>6, <3>8
  <2> QED
    BY <2>1
<1> HIDE DEF S
<1>3. n \in S
  BY <1>1, <1>2, Inductive
<1> QED
  BY <1>3 DEF S

\* The bits below n are 0 in the multiples of 2 to the n.
LEMMA LowBits ==
  ASSUME NEW n \in Nat, NEW r \in Nat
  PROVE  (\A j \in 0..n-1 : Bit(r, j) = 0) <=> \E q \in Nat : r = Pow2[n] * q
<1> DEFINE S == {m \in Nat : \A x \in Nat :
                   (\A j \in 0..m-1 : Bit(x, j) = 0) <=> \E q \in Nat : x = Pow2[m] * q}
<1>1. 0 \in S
  BY Pow2Facts
<1>2. ASSUME NEW m \in Nat, m \in S
      PROVE  m + 1 \in S
  <2>1. ASSUME NEW x \in Nat
        PROVE  (\A j \in 0..(m + 1)-1 : Bit(x, j) = 0) <=> \E q \in Nat : x = Pow2[m + 1] * q
    <3>1. Pow2[m + 1] = 2 * Pow2[m] /\ Pow2[m] \in Nat
      BY Pow2Facts
    <3>2. x \div 2 \in Nat /\ x % 2 \in 0..1 /\ x = 2 * (x \div 2) + (x % 2)
      BY BitFacts
    <3>3. (\A j \in 0..m-1 : Bit(x \div 2, j) = 0) <=> \E q \in Nat : x \div 2 = Pow2[m] * q
      BY <1>2, <3>2
    <3>4. (\A j \in 0..(m + 1)-1 : Bit(x, j) = 0)
             <=> x % 2 = 0 /\ \A j \in 0..m-1 : Bit(x \div 2, j) = 0
      <4>1. Bit(x, 0) = x % 2 /\ \A j \in Nat : Bit(x, j + 1) = Bit(x \div 2, j)
        BY BitFacts
      <4>2. \A j \in 0..m-1 : j \in Nat /\ j + 1 \in 0..(m + 1)-1
        OBVIOUS
      <4>3. \A j \in 0..(m + 1)-1 : j = 0 \/ (j - 1 \in 0..m-1 /\ j - 1 \in Nat /\ (j - 1) + 1 = j)
        OBVIOUS
      <4>4. ASSUME \A j \in 0..(m + 1)-1 : Bit(x, j) = 0
            PROVE  x % 2 = 0 /\ \A j \in 0..m-1 : Bit(x \div 2, j) = 0
        BY <4>1, <4>2, <4>4
      <4>5. ASSUME x % 2 = 0, \A j \in 0..m-1 : Bit(x \div 2, j) = 0,
                   NEW j \in 0..(m + 1)-1
            PROVE  Bit(x, j) = 0
        <5>1. CASE j = 0
          BY <4>1, <4>5, <5>1
        <5>2. CASE j - 1 \in 0..m-1 /\ j - 1 \in Nat /\ (j - 1) + 1 = j
          <6>1. Bit(x, (j - 1) + 1) = Bit(x \div 2, j - 1)
            BY <4>1, <5>2
          <6> QED
            BY <4>5, <5>2, <6>1
        <5> QED
          BY <4>3, <5>1, <5>2
      <4> QED
        BY <4>4, <4>5
    <3>5. ASSUME x % 2 = 0, NEW q \in Nat, x \div 2 = Pow2[m] * q
          PROVE  x = Pow2[m + 1] * q
      BY <3>1, <3>2, <3>5
    <3>6. ASSUME NEW q \in Nat, x = Pow2[m + 1] * q
          PROVE  x % 2 = 0 /\ x \div 2 = Pow2[m] * q
      <4>1. Pow2[m] * q \in Nat /\ x = 2 * (Pow2[m] * q) + 0 /\ 0 \in 0..2-1
        BY <3>1, <3>6
      <4> QED
        BY <4>1, DivModOf
    <3> QED
      BY <3>3, <3>4, <3>5, <3>6
  <2> QED
    BY <2>1
<1> HIDE DEF S
<1>3. n \in S
  BY <1>1, <1>2, Inductive
<1> QED
  BY <1>3 DEF S

\* The bits from n on are 0 in the numbers below 2 to the n.
LEMMA HighBits ==
  ASSUME NEW b \in Nat, NEW n \in 0..b, NEW r \in 0..Pow2[b]-1
  PROVE  r < Pow2[n] <=> \A j \in n..b-1 : Bit(r, j) = 0
<1>1. \A k \in Nat : Pow2[k] \in Nat /\ Pow2[k] > 0
  BY Pow2Facts
<1>2. \A x \in 0..Pow2[n]-1 : \A j \in n..b-1 : Bit(x, j) = 0
  <2> TAKE x \in 0..Pow2[n]-1
  <2> TAKE j \in n..b-1
  <2>1. Pow2[n] <= Pow2[j]
    <3>1. CASE n = j
      BY <1>1, <3>1
    <3>2. CASE n < j
      BY <1>1, <3>2, Pow2Grows
    <3> QED
      BY <3>1, <3>2
  <2>2. x \in 0..Pow2[j]-1 /\ Pow2[j] \in Nat /\ x = Pow2[j] * 0 + x
    BY <1>1, <2>1
  <2>3. x \div Pow2[j] = 0
    BY <2>2, DivModOf
  <2> QED
    BY <2>3 DEF Bit
<1>3. ASSUME \A j \in n..b-1 : Bit(r, j) = 0
      PROVE  r < Pow2[n]
  <2>1. r \in Nat
    BY <1>1
  <2> DEFINE f == [j \in 0..n-1 |-> Bit(r, j)]
  <2>2. f \in [0..n-1 -> 0..1] /\ \A j \in 0..n-1 : f[j] = Bit(r, j)
    BY <2>1, BitFacts
  <2> HIDE DEF f
  <2>3. PICK s \in 0..Pow2[n]-1 : \A j \in 0..n-1 : Bit(s, j) = f[j]
    BY <2>2, BitsExist
  <2>4. Pow2[n] <= Pow2[b]
    <3>1. CASE n = b
      BY <1>1, <3>1
    <3>2. CASE n < b
      BY <1>1, <3>2, Pow2Grows
    <3> QED
      BY <3>1, <3>2
  <2>5. s \in 0..Pow2[b]-1
    BY <1>1, <2>4
  <2>6. \A j \in 0..b-1 : j \in 0..n-1 \/ j \in n..b-1
    OBVIOUS
  <2>7. \A j \in 0..b-1 : Bit(r, j) = Bit(s, j)
    BY <1>2, <1>3, <2>2, <2>3, <2>6
  <2>8. r = s
    BY <2>5, <2>7, BitsDetermine
  <2> QED
    BY <1>1, <2>8
<1> QED
  BY <1>1, <1>2, <1>3

\* Reversing the bits.
LEMMA ReversedFacts ==
  ASSUME NEW i \in Nat, NEW b \in Nat
  PROVE  /\ Reversed(i, b) \in 0..Pow2[b]-1
         /\ \A j \in 0..b-1 : Bit(Reversed(i, b), b - j - 1) = Bit(i, j)
<1> DEFINE f == [j \in 0..b-1 |-> Bit(i, b - j - 1)]
<1>1. f \in [0..b-1 -> 0..1]
  <2>1. \A j \in 0..b-1 : b - j - 1 \in Nat
    OBVIOUS
  <2> QED
    BY <2>1, BitFacts
<1>2. \A j \in 0..b-1 : f[b - j - 1] = Bit(i, j)
  <2> TAKE j \in 0..b-1
  <2>1. b - j - 1 \in 0..b-1 /\ b - (b - j - 1) - 1 = j
    OBVIOUS
  <2> QED
    BY <2>1
<1> HIDE DEF f
<1>3. PICK r \in 0..Pow2[b]-1 : \A j \in 0..b-1 : Bit(r, j) = f[j]
  BY <1>1, BitsExist
<1>4. \A j \in 0..b-1 : b - j - 1 \in 0..b-1
  OBVIOUS
<1>5. \A j \in 0..b-1 : Bit(r, b - j - 1) = Bit(i, j)
  BY <1>2, <1>3, <1>4
<1> QED
  BY <1>5 DEF Reversed

\* The reversal is its own inverse: a permutation of the numbers of b bits.
LEMMA ReversedTwice ==
  ASSUME NEW b \in Nat, NEW i \in 0..Pow2[b]-1
  PROVE  Reversed(Reversed(i, b), b) = i
<1> DEFINE r == Reversed(i, b)
<1>1. i \in Nat /\ Pow2[b] \in Nat
  BY Pow2Facts
<1>2. r \in 0..Pow2[b]-1 /\ \A j \in 0..b-1 : Bit(r, b - j - 1) = Bit(i, j)
  BY <1>1, ReversedFacts
<1>r. r \in Nat
  BY <1>1, <1>2
<1> HIDE DEF r
<1> DEFINE s == Reversed(r, b)
<1>3. s \in 0..Pow2[b]-1 /\ \A j \in 0..b-1 : Bit(s, b - j - 1) = Bit(r, j)
  BY <1>1, <1>r, ReversedFacts
<1> HIDE DEF s
<1>4. \A j \in 0..b-1 : Bit(s, j) = Bit(i, j)
  <2> TAKE j \in 0..b-1
  <2>1. b - j - 1 \in 0..b-1 /\ b - (b - j - 1) - 1 = j
    OBVIOUS
  <2>2. Bit(s, b - (b - j - 1) - 1) = Bit(r, b - j - 1)
    BY <1>3, <2>1
  <2> QED
    BY <1>2, <2>1, <2>2
<1>5. s = i
  BY <1>3, <1>4, BitsDetermine
<1> QED
  BY <1>5 DEF r, s

\* The first 2 to the a numbers become the multiples of 2 to the b - a.
LEMMA ReversedPrefix ==
  ASSUME NEW b \in Nat, NEW a \in 0..b, NEW i \in 0..Pow2[b]-1
  PROVE  i < Pow2[a] <=> \E q \in Nat : Reversed(i, b) = Pow2[b - a] * q
<1> DEFINE r == Reversed(i, b)
<1>1. i \in Nat /\ Pow2[b] \in Nat
  BY Pow2Facts
<1>2. r \in 0..Pow2[b]-1 /\ \A j \in 0..b-1 : Bit(r, b - j - 1) = Bit(i, j)
  BY <1>1, ReversedFacts
<1> HIDE DEF r
<1>3. i < Pow2[a] <=> \A j \in a..b-1 : Bit(i, j) = 0
  BY HighBits
<1>4. (\A j \in 0..(b - a)-1 : Bit(r, j) = 0) <=> \E q \in Nat : r = Pow2[b - a] * q
  BY <1>1, <1>2, LowBits
<1>5. ASSUME \A j \in a..b-1 : Bit(i, j) = 0, NEW j \in 0..(b - a)-1
      PROVE  Bit(r, j) = 0
  <2>1. b - j - 1 \in a..b-1 /\ b - j - 1 \in 0..b-1 /\ b - (b - j - 1) - 1 = j
    OBVIOUS
  <2>2. Bit(r, b - (b - j - 1) - 1) = Bit(i, b - j - 1)
    BY <1>2, <2>1
  <2> QED
    BY <1>5, <2>1, <2>2
<1>6. ASSUME \A j \in 0..(b - a)-1 : Bit(r, j) = 0, NEW j \in a..b-1
      PROVE  Bit(i, j) = 0
  <2>1. b - j - 1 \in 0..(b - a)-1 /\ j \in 0..b-1
    OBVIOUS
  <2> QED
    BY <1>2, <1>6, <2>1
<1> QED
  BY <1>3, <1>4, <1>5, <1>6 DEF r

----------------------------------------------------------------------------
(* The order of the words                                                  *)

\* How many bits the numbers below a power of two have.
LEMMA BitsOfPower ==
  ASSUME NEW b \in Nat
  PROVE  Bits(Pow2[b]) = b
<1> DEFINE n == Pow2[b]
<1>1. n \in Nat /\ b < n
  <2> DEFINE S == {m \in Nat : m < Pow2[m]}
  <2>1. 0 \in S
    BY Pow2Facts
  <2>2. \A m \in Nat : m \in S => m + 1 \in S
    BY Pow2Facts
  <2> HIDE DEF S
  <2>3. b \in S
    BY <2>1, <2>2, Inductive
  <2> QED
    BY <2>3, Pow2Facts DEF S
<1>2. Pow2[b] <= n /\ n < Pow2[b + 1]
  BY Pow2Facts
<1>3. ASSUME NEW x \in 0..n, Pow2[x] <= n, n < Pow2[x + 1]
      PROVE  x = b
  <2>1. x \in Nat /\ x + 1 \in Nat /\ Pow2[x] \in Nat /\ Pow2[x + 1] \in Nat
    BY <1>1, Pow2Facts
  <2>2. ~(b < x)
    BY <1>1, <1>3, <2>1, Pow2Grows
  <2>3. ~(x + 1 < b)
    BY <1>1, <1>3, <2>1, Pow2Grows
  <2>4. x + 1 # b
    BY <1>1, <1>3, <2>1
  <2> QED
    BY <2>1, <2>2, <2>3, <2>4
<1>4. b \in 0..n
  BY <1>1
<1> HIDE DEF n
<1>5. b = CHOOSE x \in 0..n : Pow2[x] <= n /\ n < Pow2[x + 1]
  BY <1>2, <1>3, <1>4
<1> QED
  BY <1>5 DEF Bits, n

\* Each multiple of scale below n * scale once, and 0 first.
InOrder(w, n, scale) ==
  /\ w = [i \in 0..n-1 |-> w[i]]
  /\ w[0] = 0
  /\ \A i \in 0..n-1 : \E q \in 0..n-1 : w[i] = scale * q
  /\ \A q \in 0..n-1 : \E i \in 0..n-1 : w[i] = scale * q
  /\ \A i, j \in 0..n-1 : w[i] = w[j] => i = j

\* words_initialize() writes the numbers below a power of two with their bits
\* reversed: each of them once.
LEMMA WordsInOrder ==
  ASSUME NEW b \in Nat, NEW scale \in Nat \ {0}
  PROVE  InOrder(words_initialize(Pow2[b], scale), Pow2[b], scale)
<1> DEFINE n == Pow2[b]
           w == words_initialize(n, scale)
<1>1. n \in Nat /\ n > 0
  BY Pow2Facts
<1>2. w = [i \in 0..n-1 |-> scale * Reversed(i, b)]
  BY BitsOfPower DEF words_initialize
<1>3. \A i \in 0..n-1 : Reversed(i, b) \in 0..n-1
  <2> TAKE i \in 0..n-1
  <2>1. i \in Nat
    BY <1>1
  <2> QED
    BY <2>1, ReversedFacts
<1>4. \A i \in 0..n-1 : Reversed(Reversed(i, b), b) = i
  BY ReversedTwice
<1>5. Reversed(0, b) = 0
  <2>1. 0 \in 0..n-1 /\ 0 \in 0..b /\ 0 < Pow2[0]
    BY <1>1, Pow2Facts
  <2>2. PICK q \in Nat : Reversed(0, b) = Pow2[b - 0] * q
    BY <2>1, ReversedPrefix
  <2>3. b - 0 = b /\ Reversed(0, b) \in 0..n-1
    BY <1>3, <2>1
  <2> DEFINE r == Reversed(0, b)
  <2> HIDE DEF r
  <2>4. r = n * q /\ r \in 0..n-1
    BY <2>2, <2>3 DEF r
  <2> HIDE DEF n
  <2>5. q = 0 \/ n * q >= n
    BY <1>1
  <2> QED
    BY <1>1, <2>4, <2>5 DEF r
<1> HIDE DEF n, w
<1>6. w[0] = 0
  <2>1. 0 \in 0..n-1 /\ scale * 0 = 0
    BY <1>1
  <2> QED
    BY <1>2, <1>5, <2>1
<1>7. \A i \in 0..n-1 : w[i] = scale * Reversed(i, b)
  BY <1>2
<1>8. \A i \in 0..n-1 : \E q \in 0..n-1 : w[i] = scale * q
  BY <1>3, <1>7
<1>9. \A q \in 0..n-1 : \E i \in 0..n-1 : w[i] = scale * q
  <2> TAKE q \in 0..n-1
  <2>1. Reversed(q, b) \in 0..n-1 /\ w[Reversed(q, b)] = scale * q
    BY <1>3, <1>4, <1>7
  <2> QED
    BY <2>1
<1>10. ASSUME NEW i \in 0..n-1, NEW j \in 0..n-1, w[i] = w[j]
       PROVE  i = j
  <2> DEFINE x == Reversed(i, b)
             y == Reversed(j, b)
  <2>1. x \in Nat /\ y \in Nat /\ scale * x = scale * y
    BY <1>1, <1>3, <1>7, <1>10
  <2> HIDE DEF x, y
  <2>2. x = y
    BY <2>1
  <2> QED
    BY <1>4, <2>2 DEF x, y
<1>11. w = [i \in 0..n-1 |-> w[i]]
  BY <1>2
<1>12. InOrder(w, n, scale)
  BY <1>6, <1>8, <1>9, <1>10, <1>11 DEF InOrder
<1> QED
  BY <1>12 DEF w, n

----------------------------------------------------------------------------
(* What is written                                                         *)

\* A loop that writes to each place once.
LEMMA StoreFacts ==
  ASSUME NEW m, NEW writes,
         \A s, t \in DOMAIN writes : writes[s][1] = writes[t][1] => s = t
  PROVE  /\ DOMAIN Store(m, writes) = DOMAIN m \union {writes[s][1] : s \in DOMAIN writes}
         /\ \A s \in DOMAIN writes : Store(m, writes)[writes[s][1]] = writes[s][2]
         /\ \A a \in DOMAIN m : (\A s \in DOMAIN writes : writes[s][1] # a)
                                => Store(m, writes)[a] = m[a]
<1> DEFINE all == {<<s, writes[s]>> : s \in DOMAIN writes}
           To(a) == {w \in all : w[2][1] = a}
           Last(S) == CHOOSE w \in S : \A v \in S : v = w \/ After(w[1], v[1])
           sources == {w[2][1] : w \in all}
           made == [a \in DOMAIN m \union sources |->
                      IF To(a) = {} THEN m[a] ELSE Last(To(a))[2][2]]
<1>1. Store(m, writes) = made
  BY DEF Store
<1>2. sources = {writes[s][1] : s \in DOMAIN writes}
  <2>1. \A s \in DOMAIN writes : <<s, writes[s]>> \in all /\ <<s, writes[s]>>[2][1] = writes[s][1]
    OBVIOUS
  <2>2. \A w \in all : \E s \in DOMAIN writes : w[2][1] = writes[s][1]
    OBVIOUS
  <2> HIDE DEF all
  <2>3. ASSUME NEW s \in DOMAIN writes PROVE writes[s][1] \in sources
    <3> DEFINE w == <<s, writes[s]>>
    <3>1. w \in all /\ w[2][1] = writes[s][1]
      BY <2>1
    <3> HIDE DEF w
    <3> QED
      BY <3>1
  <2>4. ASSUME NEW a \in sources PROVE \E s \in DOMAIN writes : a = writes[s][1]
    BY <2>2
  <2> HIDE DEF sources
  <2> QED
    BY <2>3, <2>4
<1>3. ASSUME NEW s \in DOMAIN writes
      PROVE  made[writes[s][1]] = writes[s][2]
  <2> DEFINE w == <<s, writes[s]>>
             a == writes[s][1]
  <2>1. To(a) = {w}
    OBVIOUS
  <2>2. Last({w}) = w
    OBVIOUS
  <2>3. a \in DOMAIN m \union sources
    BY <1>2
  <2>4. w[2][2] = writes[s][2]
    OBVIOUS
  <2> HIDE DEF all, w, a, sources, Last
  <2>5. To(a) # {} /\ Last(To(a))[2][2] = writes[s][2]
    BY <2>1, <2>2, <2>4
  <2> HIDE DEF To
  <2>6. made[a] = writes[s][2]
    BY <2>3, <2>5
  <2> QED
    BY <2>6 DEF a
<1>4. ASSUME NEW a \in DOMAIN m, \A s \in DOMAIN writes : writes[s][1] # a
      PROVE  made[a] = m[a]
  <2>1. To(a) = {}
    BY <1>4
  <2> HIDE DEF To, all
  <2> QED
    BY <2>1
<1> QED
  BY <1>1, <1>2, <1>3, <1>4

\* A page is as far from the next as it has words.
LEMMA PageAndOffset ==
  ASSUME PageSize \in Nat, NEW p \in Nat, NEW q \in Nat,
         NEW o \in 0..PageSize-1, NEW u \in 0..PageSize-1
  PROVE  /\ p * PageSize + o \in Nat
         /\ (p * PageSize + o) \div PageSize = p
         /\ p * PageSize + o = q * PageSize + u => p = q /\ o = u
<1>1. p * PageSize = PageSize * p /\ q * PageSize = PageSize * q
  OBVIOUS
<1>2. p * PageSize \in Nat /\ o \in Nat
  OBVIOUS
<1> QED
  BY <1>1, <1>2, DivModOf, Digits

----------------------------------------------------------------------------
(* Going round                                                             *)

\* The place after r of N places in a round.
Succ(r, N) == IF r + 1 = N THEN 0 ELSE r + 1

\* m leads round the N places of t.
Round(m, t, N) ==
  /\ t = [r \in 0..N-1 |-> t[r]]
  /\ \A r, s \in 0..N-1 : t[r] = t[s] => r = s
  /\ \A r \in 0..N-1 : m[t[r]] = t[Succ(r, N)]

\* The place i steps after s.
Ahead(s, i, N) == IF s + i < N THEN s + i ELSE s + i - N

\* What Walk says of the function it defines.
IsWalk(f, n) == f = [i \in 0..n |-> IF i = 0 THEN start ELSE mem[f[i - 1]]]

\* The walk exists: whatever memory holds.
LEMMA WalkGoes ==
  ASSUME NEW N \in Nat \ {0}, NEW t, Round(mem, t, N), NEW s \in 0..N-1, start = t[s]
  PROVE  Walk(N) = [i \in 0..N |-> t[Ahead(s, i, N)]]
<1> DEFINE g == [i \in 0..N |-> t[Ahead(s, i, N)]]
<1>1. \A i \in 0..N : g[i] = t[Ahead(s, i, N)]
  OBVIOUS
<1>2. g = [i \in 0..N |-> g[i]]
  OBVIOUS
<1> HIDE DEF g
<1>3. ASSUME NEW i \in 0..N
      PROVE  g[i] = IF i = 0 THEN start ELSE mem[g[i - 1]]
  <2>1. CASE i = 0
    <3>1. Ahead(s, 0, N) = s
      BY DEF Ahead
    <3> QED
      BY <1>1, <2>1, <3>1
  <2>2. CASE i # 0
    <3> DEFINE r == Ahead(s, i - 1, N)
    <3>1. i - 1 \in 0..N /\ r \in 0..N-1 /\ Ahead(s, i, N) = Succ(r, N)
      BY <2>2 DEF Ahead, Succ
    <3>2. g[i - 1] = t[r]
      BY <1>1, <3>1
    <3> HIDE DEF r
    <3>3. mem[t[r]] = t[Succ(r, N)]
      BY <3>1 DEF Round
    <3> QED
      BY <1>1, <2>2, <3>1, <3>2, <3>3
  <2> QED
    BY <2>1, <2>2
<1>4. IsWalk(g, N)
  BY <1>2, <1>3 DEF IsWalk
<1>5. ASSUME NEW f, IsWalk(f, N)
      PROVE  f = g
  <2>1. f = [i \in 0..N |-> f[i]] /\ \A i \in 0..N : f[i] = IF i = 0 THEN start ELSE mem[f[i - 1]]
    <3> DEFINE h == [i \in 0..N |-> IF i = 0 THEN start ELSE mem[f[i - 1]]]
    <3>1. f = h
      BY <1>5 DEF IsWalk
    <3>2. h = [i \in 0..N |-> h[i]]
      OBVIOUS
    <3>3. \A i \in 0..N : h[i] = IF i = 0 THEN start ELSE mem[f[i - 1]]
      OBVIOUS
    <3> HIDE DEF h
    <3> QED
      BY <3>1, <3>2, <3>3
  <2> DEFINE S == {i \in Nat : i <= N => f[i] = g[i]}
  <2>2. 0 \in S
    BY <1>3, <2>1
  <2>3. ASSUME NEW i \in Nat, i \in S
        PROVE  i + 1 \in S
    <3>1. ASSUME i + 1 <= N
          PROVE  f[i + 1] = g[i + 1]
      <4>1. i \in 0..N /\ i + 1 \in 0..N /\ i + 1 # 0 /\ (i + 1) - 1 = i
        BY <3>1
      <4>2. f[i] = g[i]
        BY <2>3, <4>1
      <4>3. f[i + 1] = mem[f[i]] /\ g[i + 1] = mem[g[i]]
        BY <1>3, <2>1, <4>1
      <4> QED
        BY <4>2, <4>3
    <3> QED
      BY <3>1
  <2> HIDE DEF S
  <2>4. \A i \in Nat : i \in S
    BY <2>2, <2>3, Inductive
  <2>5. \A i \in 0..N : f[i] = g[i]
    BY <2>4 DEF S
  <2> QED
    BY <1>2, <2>1, <2>5
<1>6. Walk(N) = CHOOSE f : IsWalk(f, N)
  BY DEF Walk, IsWalk
<1> QED
  BY <1>4, <1>5, <1>6 DEF g

\* All of them, and no more, before it is back.
LEMMA WalkReturns ==
  ASSUME NEW N \in Nat \ {0}, NEW t, Round(mem, t, N), NEW s \in 0..N-1, start = t[s]
  PROVE  /\ Walk(N)[N] = start
         /\ {Walk(N)[i] : i \in 0..N-1} = {t[r] : r \in 0..N-1}
<1> DEFINE w == Walk(N)
<1>1. \A i \in 0..N : w[i] = t[Ahead(s, i, N)]
  BY WalkGoes
<1> HIDE DEF w
<1>2. w[N] = start
  <2>1. N \in 0..N /\ Ahead(s, N, N) = s
    BY DEF Ahead
  <2> QED
    BY <1>1, <2>1
<1>3. \A i \in 0..N-1 : \E r \in 0..N-1 : w[i] = t[r]
  <2> TAKE i \in 0..N-1
  <2>1. i \in 0..N /\ Ahead(s, i, N) \in 0..N-1
    BY DEF Ahead
  <2> QED
    BY <1>1, <2>1
<1>4. \A r \in 0..N-1 : \E i \in 0..N-1 : w[i] = t[r]
  <2> TAKE r \in 0..N-1
  <2> DEFINE i == IF r >= s THEN r - s ELSE r - s + N
  <2>1. i \in 0..N-1 /\ i \in 0..N /\ Ahead(s, i, N) = r
    BY DEF Ahead
  <2> HIDE DEF i
  <2>2. w[i] = t[r]
    BY ONLY <1>1, <2>1
  <2> QED
    BY <2>1, <2>2
<1> QED
  BY <1>2, <1>3, <1>4 DEF w

\* As many places as there are.
LEMMA RoundCounts ==
  ASSUME NEW N \in Nat \ {0}, NEW t, \A r, s \in 0..N-1 : t[r] = t[s] => r = s
  PROVE  Cardinality({t[r] : r \in 0..N-1}) = N
<1> DEFINE A == 0..N-1
           T == {t[r] : r \in A}
           h == [r \in A |-> t[r]]
<1>1. IsFiniteSet(A) /\ Cardinality(A) = N
  <2>1. 0 \in Int /\ N - 1 \in Int /\ ~(0 > N - 1) /\ (N - 1) - 0 + 1 = N
    OBVIOUS
  <2> QED
    BY <2>1, FS_Interval
<1>2. h \in Bijection(A, T)
  BY DEF Bijection, Injection, Surjection, IsInjective
<1>3. ExistsBijection(A, T)
  BY <1>2 DEF ExistsBijection
<1> HIDE DEF A, T, h
<1>4. Cardinality(T) = Cardinality(A)
  BY <1>1, <1>3, FS_Bijection
<1> QED
  BY <1>1, <1>4 DEF A, T

\* What WalksThroughAll asks for.
LEMMA RoundWalksThroughAll ==
  ASSUME NEW N \in Nat \ {0}, NEW t, Round(mem, t, N), NEW s \in 0..N-1, start = t[s],
         Promised = {t[r] : r \in 0..N-1}
  PROVE  WalksThroughAll
<1>1. Cardinality(Promised) = N
  BY RoundCounts DEF Round
<1> DEFINE P == Promised
<1>2. P = {t[r] : r \in 0..N-1} /\ Cardinality(P) = N
  BY <1>1
<1> HIDE DEF P
<1>3. /\ Walk(N)[N] = start
      /\ {Walk(N)[i] : i \in 0..N-1} = {t[r] : r \in 0..N-1}
  BY WalkReturns
<1>4. LET n == Cardinality(P)
          at == Walk(n)
      IN  at[n] = start /\ {at[i] : i \in 0..n-1} = P
  BY <1>2, <1>3
<1> QED
  BY <1>4 DEF WalksThroughAll, P

\* The counters of a loop.
LEMMA LoopFacts ==
  ASSUME NEW a, NEW b, NEW c
  PROVE  /\ \A i \in 0..a-1, j \in 0..b-1, k \in 0..c-1 :
              /\ <<i, j, k>> \in Loop(a, b, c)
              /\ <<i, j, k>>[1] = i /\ <<i, j, k>>[2] = j /\ <<i, j, k>>[3] = k
         /\ \A s \in Loop(a, b, c) :
              /\ s[1] \in 0..a-1 /\ s[2] \in 0..b-1 /\ s[3] \in 0..c-1
              /\ s = <<s[1], s[2], s[3]>>
  BY DEF Loop

\* A loop of one counter.
LEMMA OneCounter ==
  ASSUME NEW a
  PROVE  /\ \A i \in 0..a-1 : <<i, 0, 0>> \in Loop(a, 1, 1) /\ <<i, 0, 0>>[1] = i
         /\ \A s \in Loop(a, 1, 1) : s[1] \in 0..a-1 /\ s = <<s[1], 0, 0>>
<1>1. 0 \in 0..1-1 /\ \A x \in 0..1-1 : x = 0
  OBVIOUS
<1> QED
  BY <1>1, LoopFacts

\* No two of the pointers are written to the same place.
Once(writes) == \A s, t \in DOMAIN writes : writes[s][1] = writes[t][1] => s = t

\* made is m with what has been written.
Wrote(made, m, writes) ==
  /\ DOMAIN made = DOMAIN m \union {writes[s][1] : s \in DOMAIN writes}
  /\ \A s \in DOMAIN writes : made[writes[s][1]] = writes[s][2]
  /\ \A a \in DOMAIN m : (\A s \in DOMAIN writes : writes[s][1] # a) => made[a] = m[a]

LEMMA StoreWrites ==
  ASSUME NEW m, NEW writes, Once(writes)
  PROVE  Wrote(Store(m, writes), m, writes)
<1> DEFINE f == Store(m, writes)
<1>1. \A s, t \in DOMAIN writes : writes[s][1] = writes[t][1] => s = t
  BY DEF Once
<1>2. /\ DOMAIN f = DOMAIN m \union {writes[s][1] : s \in DOMAIN writes}
      /\ \A s \in DOMAIN writes : f[writes[s][1]] = writes[s][2]
      /\ \A a \in DOMAIN m : (\A s \in DOMAIN writes : writes[s][1] # a) => f[a] = m[a]
  BY <1>1, StoreFacts, Zenon
<1> QED
  BY <1>2, Zenon DEF Wrote

\* What such a loop has written is there.
LEMMA Stored ==
  ASSUME NEW m, NEW writes,
         \A s, t \in DOMAIN writes : writes[s][1] = writes[t][1] => s = t
  PROVE  \A s \in DOMAIN writes : Store(m, writes)[writes[s][1]] = writes[s][2]
<1>1. Once(writes)
  BY Zenon DEF Once
<1>2. Wrote(Store(m, writes), m, writes)
  BY <1>1, StoreWrites
<1> QED
  BY <1>2, Zenon DEF Wrote

\* A loop that writes to each place of a round the address of the next.
LEMMA StoredRound ==
  ASSUME NEW N \in Nat \ {0}, NEW t, t = [r \in 0..N-1 |-> t[r]],
         \A r, s \in 0..N-1 : t[r] = t[s] => r = s,
         NEW m, NEW writes,
         \A s, u \in DOMAIN writes : writes[s][1] = writes[u][1] => s = u,
         \A r \in 0..N-1 : \E s \in DOMAIN writes : writes[s] = <<t[r], t[Succ(r, N)]>>
  PROVE  Round(Store(m, writes), t, N)
<1> DEFINE made == Store(m, writes)
<1>1. \A s \in DOMAIN writes : made[writes[s][1]] = writes[s][2]
  BY Stored
<1> HIDE DEF made
<1>2. ASSUME NEW r \in 0..N-1
      PROVE  made[t[r]] = t[Succ(r, N)]
  <2>1. PICK s \in DOMAIN writes : writes[s] = <<t[r], t[Succ(r, N)]>>
    OBVIOUS
  <2>2. writes[s][1] = t[r] /\ writes[s][2] = t[Succ(r, N)]
    BY <2>1
  <2> QED
    BY <1>1, <2>2
<1>3. Round(made, t, N)
  BY <1>2 DEF Round
<1> QED
  BY <1>3 DEF made

----------------------------------------------------------------------------
(* The memory that the programs ask for                                    *)

USE WalksAssumption

\* What Init leaves in the inputs; only the order of the pages changes later.
Shape ==
  /\ layout \in Layouts /\ line \in LineSizes /\ len \in Nat \ {0} /\ group \in 1..3
  /\ nwords = line /\ nlines = PageSize \div line /\ npages = Ceil(len, PageSize)
  /\ pages \in [1..npages -> Nat] /\ IsInjective(pages)
  /\ len >= line
  /\ layout = "dram" => Range(pages) = 0..npages-1

\* Lines fill a page, and their numbers are powers of two.
LEMMA Sizes ==
  ASSUME Shape
  PROVE  /\ PageSize \in Nat \ {0} /\ line \in Nat \ {0} /\ nlines \in Nat \ {0}
         /\ npages \in Nat \ {0} /\ len \in Nat \ {0}
         /\ PageSize = line * nlines
         /\ \E b \in Nat : PageSize = Pow2[b]
         /\ \E b \in Nat : line = Pow2[b]
         /\ \E b \in Nat : nlines = Pow2[b]
<1>1. PICK p \in Nat : PageSize = Pow2[p]
  BY DEF WalksAssumption, IsPowerOfTwo
<1>l. line \in LineSizes
  BY DEF Shape
<1>m. IsPowerOfTwo(line) /\ line <= PageSize
  BY <1>l DEF WalksAssumption
<1>2. PICK c \in Nat : line = Pow2[c]
  BY <1>m DEF IsPowerOfTwo
<1>3. PageSize \in Nat \ {0} /\ line \in Nat \ {0} /\ line <= PageSize
  <2>1. Pow2[p] \in Nat /\ Pow2[p] > 0 /\ Pow2[c] \in Nat /\ Pow2[c] > 0
    BY Pow2Facts
  <2> QED
    BY <1>1, <1>2, <1>m, <2>1
<1>4. c <= p
  <2>1. ~(p < c)
    BY <1>1, <1>2, <1>3, Pow2Grows
  <2> QED
    BY <2>1
<1>5. \E b \in Nat : b <= p /\ PageSize = line * Pow2[b]
  <2>1. CASE c = p
    <3>1. PageSize = line * Pow2[0]
      BY <1>1, <1>2, <1>3, <2>1, Pow2Facts
    <3> QED
      BY <3>1
  <2>2. CASE c < p
    <3>1. p - c \in Nat /\ p - c <= p
      BY <2>2
    <3> QED
      BY <1>1, <1>2, <2>2, <3>1, Pow2Grows
  <2> QED
    BY <1>4, <2>1, <2>2
<1>6. PICK b \in Nat : PageSize = line * Pow2[b]
  BY <1>5
<1>7. Pow2[b] \in Nat /\ Pow2[b] > 0
  BY Pow2Facts
<1>8. nlines = Pow2[b]
  <2> DEFINE n == Pow2[b]
  <2>1. n \in Nat /\ line * n + 0 = line * n /\ 0 \in 0..line-1
    BY <1>3, <1>7
  <2> HIDE DEF n
  <2>2. (line * n + 0) \div line = n
    BY <1>3, <2>1, DivModOf
  <2> QED
    BY <1>6, <2>1, <2>2 DEF Shape, n
<1>9. npages \in Nat \ {0} /\ len \in Nat \ {0}
  <2> DEFINE x == len + PageSize - 1
             q == x \div PageSize
  <2>1. len \in Nat \ {0} /\ x \in Nat /\ x >= PageSize
    BY <1>3 DEF Shape
  <2> HIDE DEF x
  <2>2. q \in Nat /\ x = PageSize * q + (x % PageSize) /\ x % PageSize \in 0..PageSize-1
    BY <1>3, <2>1, DivMod
  <2>3. npages = q
    BY DEF Shape, Ceil, x
  <2> HIDE DEF q
  <2>4. q # 0
    BY <1>3, <2>1, <2>2
  <2> QED
    BY <2>1, <2>2, <2>3, <2>4
<1>10. nlines \in Nat \ {0} /\ PageSize = line * nlines
  BY <1>6, <1>7, <1>8
<1>11. /\ \E x \in Nat : PageSize = Pow2[x]
       /\ \E x \in Nat : line = Pow2[x]
       /\ \E x \in Nat : nlines = Pow2[x]
  BY <1>1, <1>2, <1>8
<1> QED
  BY <1>3, <1>9, <1>10, <1>11

\* No word is on two pages.
LEMMA PageWords ==
  ASSUME Shape, NEW i \in 0..npages-1, NEW o \in 0..PageSize-1
  PROVE  /\ Page(i) \in Nat /\ Page(i) + o \in Nat /\ pages[i + 1] \in Nat
         /\ (Page(i) + o) \div PageSize = pages[i + 1]
         /\ \A k \in 0..npages-1, u \in 0..PageSize-1 :
              Page(i) + o = Page(k) + u => i = k /\ o = u
<1>1. PageSize \in Nat \ {0} /\ npages \in Nat \ {0}
  BY Sizes
<1>2. \A k \in 0..npages-1 : k + 1 \in 1..npages /\ pages[k + 1] \in Nat
  BY <1>1 DEF Shape
<1>3. DOMAIN pages = 1..npages /\ IsInjective(pages)
  BY DEF Shape
<1>4. \A k \in 0..npages-1 : pages[i + 1] = pages[k + 1] => i = k
  BY <1>1, <1>2, <1>3 DEF IsInjective
<1>5. Page(i) \in Nat
  BY <1>1, <1>2 DEF Page
<1>6. (pages[i + 1] * PageSize + o) \div PageSize = pages[i + 1]
  BY <1>1, <1>2, PageAndOffset
<1>7. ASSUME NEW k \in 0..npages-1, NEW u \in 0..PageSize-1, Page(i) + o = Page(k) + u
      PROVE  i = k /\ o = u
  <2>1. pages[i + 1] * PageSize + o = pages[k + 1] * PageSize + u
    BY <1>7 DEF Page
  <2> DEFINE p == pages[i + 1]
             q == pages[k + 1]
  <2>p. p \in Nat /\ q \in Nat
    BY <1>2
  <2> HIDE DEF p, q
  <2>q. p = q /\ o = u
    <3>1. p * PageSize + o = q * PageSize + u
      BY <2>1 DEF p, q
    <3>2. PageSize \in Nat
      BY <1>1
    <3> QED
      BY <2>p, <3>1, <3>2, PageAndOffset
  <2>2. pages[i + 1] = pages[k + 1] /\ o = u
    BY <2>q DEF p, q
  <2> QED
    BY <1>4, <2>2
<1>8. (Page(i) + o) \div PageSize = pages[i + 1]
  BY <1>6 DEF Page
<1>9. Page(i) + o \in Nat /\ pages[i + 1] \in Nat
  BY <1>1, <1>2, <1>5
<1> QED
  BY <1>5, <1>7, <1>8, <1>9

----------------------------------------------------------------------------
(* find_tlb                                                                *)

\* The words of a page, in the order of words_initialize().
PageOrder == words_initialize(PageSize, 1)

LEMMA PageOrderFacts ==
  ASSUME PageSize \in Nat \ {0}
  PROVE  /\ PageOrder[0] = 0
         /\ \A i \in Nat : i % PageSize \in 0..PageSize-1 /\ PageOrder[i % PageSize] \in 0..PageSize-1
<1>1. PICK b \in Nat : PageSize = Pow2[b]
  BY DEF WalksAssumption, IsPowerOfTwo
<1>2. InOrder(PageOrder, PageSize, 1)
  BY <1>1, WordsInOrder DEF PageOrder
<1>3. \A i \in 0..PageSize-1 : PageOrder[i] \in 0..PageSize-1
  BY <1>2 DEF InOrder
<1>4. \A i \in Nat : i % PageSize \in 0..PageSize-1
  BY DivMod
<1> QED
  BY <1>2, <1>3, <1>4 DEF InOrder

TlbTour == [r \in 0..npages-1 |-> Page(r) + PageOrder[r % PageSize]]

\* A word of each page, in the order of the pages.
LEMMA TlbRound ==
  ASSUME Shape, mem = Store(NoMemory, Tlb)
  PROVE  Round(mem, TlbTour, npages) /\ TlbTour[0] = Page(0)
<1> DEFINE t == TlbTour
           w == PageOrder
           N == npages
<1>1. PageSize \in Nat \ {0} /\ N \in Nat \ {0}
  BY Sizes
<1>2. w[0] = 0 /\ \A r \in Nat : r % PageSize \in 0..PageSize-1 /\ w[r % PageSize] \in 0..PageSize-1
  BY <1>1, PageOrderFacts
<1>3. 0 % PageSize = 0
  BY <1>1
<1> HIDE DEF w
<1>4. t = [r \in 0..N-1 |-> t[r]] /\ \A r \in 0..N-1 : t[r] = Page(r) + w[r % PageSize]
  BY DEF TlbTour, w
<1>5. Tlb = [s \in Loop(N, 1, 1) |->
               <<Page(s[1]) + w[s[1] % PageSize],
                 IF s[1] < N - 1 THEN Page(s[1] + 1) + w[(s[1] + 1) % PageSize]
                 ELSE Page(0) + w[0]>>]
  BY DEF Tlb, w, PageOrder
<1> HIDE DEF t, N
<1>6. ASSUME NEW r \in 0..N-1, NEW s \in 0..N-1, t[r] = t[s]
      PROVE  r = s
  <2>1. Page(r) + w[r % PageSize] = Page(s) + w[s % PageSize]
    BY <1>4, <1>6
  <2>2. r \in Nat /\ s \in Nat
    OBVIOUS
  <2> QED
    BY <1>2, <2>1, <2>2, PageWords DEF N
<1>7. \A s \in DOMAIN Tlb : Tlb[s][1] = t[s[1]] /\ s[1] \in 0..N-1 /\ s = <<s[1], 0, 0>>
  BY <1>4, <1>5, OneCounter
<1>8. \A s, u \in DOMAIN Tlb : Tlb[s][1] = Tlb[u][1] => s = u
  <2> TAKE s, u \in DOMAIN Tlb
  <2> HAVE Tlb[s][1] = Tlb[u][1]
  <2>1. s[1] = u[1]
    BY <1>6, <1>7
  <2> QED
    BY <1>7, <2>1
<1>9. ASSUME NEW r \in 0..N-1
      PROVE  \E s \in DOMAIN Tlb : Tlb[s] = <<t[r], t[Succ(r, N)]>>
  <2> DEFINE s == <<r, 0, 0>>
  <2>1. s \in Loop(N, 1, 1) /\ s[1] = r
    BY OneCounter
  <2> HIDE DEF s
  <2>2. s \in DOMAIN Tlb
    BY <1>5, <2>1
  <2>3. t[Succ(r, N)] = IF r < N - 1 THEN Page(r + 1) + w[(r + 1) % PageSize] ELSE Page(0) + w[0]
    <3>1. Succ(r, N) \in 0..N-1 /\ Succ(r, N) = IF r < N - 1 THEN r + 1 ELSE 0
      BY <1>1 DEF Succ
    <3> QED
      BY <1>3, <1>4, <3>1
  <2>4. Tlb[s] = <<t[r], t[Succ(r, N)]>>
    BY <1>4, <1>5, <2>1, <2>3
  <2> QED
    BY <2>2, <2>4
<1>10. Round(mem, t, N)
  <2> DEFINE writes == Tlb
  <2>1. /\ \A s, u \in DOMAIN writes : writes[s][1] = writes[u][1] => s = u
        /\ \A r \in 0..N-1 : \E s \in DOMAIN writes : writes[s] = <<t[r], t[Succ(r, N)]>>
    BY <1>8, <1>9
  <2> HIDE DEF writes
  <2>2. Round(Store(NoMemory, writes), t, N)
    BY <1>1, <1>4, <1>6, <2>1, StoredRound
  <2> QED
    BY <2>2 DEF writes
<1>11. t[0] = Page(0)
  <2>1. 0 \in 0..N-1 /\ Page(0) \in Nat /\ 0 \in 0..PageSize-1
    <3>1. 0 \in 0..npages-1 /\ 0 \in 0..PageSize-1
      BY <1>1 DEF N
    <3> QED
      BY <3>1, PageWords DEF N
  <2> QED
    BY <1>2, <1>3, <1>4, <2>1
<1> QED
  BY <1>10, <1>11 DEF t, N

----------------------------------------------------------------------------
(* Rounds by rank                                                          *)

\* The places C, of which each has a rank and a word, and leads to the next in rank.
Ranked(m, C, rank, word, N) ==
  /\ \A c \in C : rank[c] \in 0..N-1
  /\ \A c, d \in C : rank[c] = rank[d] => c = d
  /\ \A c, d \in C : word[c] = word[d] => c = d
  /\ \E c \in C : rank[c] = 0
  /\ \A c \in C : \E d \in C : rank[d] = Succ(rank[c], N) /\ m[word[c]] = word[d]

\* m leads round these places in the order of their ranks.
Rounds(m, C, rank, word, N) ==
  \E t : /\ Round(m, t, N)
         /\ {t[r] : r \in 0..N-1} = {word[c] : c \in C}
         /\ \A c \in C : t[rank[c]] = word[c]

\* Such places are a round.
LEMMA RankedRound ==
  ASSUME NEW N \in Nat \ {0}, NEW m, NEW C, NEW rank, NEW word, Ranked(m, C, rank, word, N)
  PROVE  Rounds(m, C, rank, word, N)
<1> DEFINE at(r) == CHOOSE c \in C : rank[c] = r
           t == [r \in 0..N-1 |-> word[at(r)]]
           S == {r \in Nat : r < N => \E c \in C : rank[c] = r}
<1>1. \A r \in 0..N-1 : \E c \in C : rank[c] = r
  <2>1. 0 \in S
    BY DEF Ranked
  <2>2. ASSUME NEW r \in Nat, r \in S
        PROVE  r + 1 \in S
    <3>1. ASSUME r + 1 < N
          PROVE  \E c \in C : rank[c] = r + 1
      <4>1. PICK c \in C : rank[c] = r
        BY <2>2, <3>1
      <4>2. PICK d \in C : rank[d] = Succ(rank[c], N)
        BY DEF Ranked
      <4> QED
        BY <3>1, <4>1, <4>2 DEF Succ
    <3> QED
      BY <3>1
  <2> HIDE DEF S
  <2>3. \A r \in Nat : r \in S
    BY <2>1, <2>2, Inductive
  <2> QED
    BY <2>3 DEF S
<1>2. \A r \in 0..N-1 : at(r) \in C /\ rank[at(r)] = r
  BY <1>1
<1>3. \A c \in C : at(rank[c]) = c
  BY <1>2 DEF Ranked
<1> HIDE DEF at
<1>4. t = [r \in 0..N-1 |-> t[r]] /\ \A r \in 0..N-1 : t[r] = word[at(r)]
  OBVIOUS
<1> HIDE DEF t
<1>5. \A r, s \in 0..N-1 : t[r] = t[s] => r = s
  BY <1>2, <1>4 DEF Ranked
<1>6. ASSUME NEW r \in 0..N-1
      PROVE  m[t[r]] = t[Succ(r, N)]
  <2>1. PICK d \in C : rank[d] = Succ(rank[at(r)], N) /\ m[word[at(r)]] = word[d]
    BY <1>2 DEF Ranked
  <2>2. rank[d] = Succ(r, N) /\ m[t[r]] = word[d]
    BY <1>2, <1>4, <2>1
  <2>3. Succ(r, N) \in 0..N-1
    BY DEF Succ
  <2>4. at(Succ(r, N)) = d
    BY <1>3, <2>2
  <2> QED
    BY <1>4, <2>2, <2>3, <2>4
<1>7. \A c \in C : rank[c] \in 0..N-1 /\ t[rank[c]] = word[c]
  BY <1>3, <1>4 DEF Ranked
<1>8. {t[r] : r \in 0..N-1} = {word[c] : c \in C}
  BY <1>2, <1>4, <1>7
<1>9. Round(m, t, N)
  BY <1>4, <1>5, <1>6 DEF Round
<1> QED
  BY <1>7, <1>8, <1>9 DEF Rounds

\* What WalksThroughAll asks for, where the walk starts at one of the places.
LEMMA RankedWalksThroughAll ==
  ASSUME NEW N \in Nat \ {0}, NEW C, NEW rank, NEW word, Ranked(mem, C, rank, word, N),
         NEW c \in C, start = word[c], Promised = {word[d] : d \in C}
  PROVE  WalksThroughAll
<1>0. Rounds(mem, C, rank, word, N)
  BY RankedRound
<1>1. PICK t : /\ Round(mem, t, N)
               /\ {t[r] : r \in 0..N-1} = {word[d] : d \in C}
               /\ \A d \in C : t[rank[d]] = word[d]
  BY <1>0 DEF Rounds
<1> DEFINE s == rank[c]
<1>2. s \in 0..N-1 /\ start = t[s]
  BY <1>1 DEF Ranked
<1> HIDE DEF s
<1>3. Promised = {t[r] : r \in 0..N-1}
  BY <1>1
<1> QED
  BY <1>1, <1>2, <1>3, RoundWalksThroughAll

----------------------------------------------------------------------------
(* Strides                                                                 *)

\* A loop of one counter that goes from each place to the next.
LEMMA LoopRound ==
  ASSUME NEW N \in Nat \ {0}, NEW m, NEW t, NEW writes,
         t = [r \in 0..N-1 |-> t[r]],
         \A r, s \in 0..N-1 : t[r] = t[s] => r = s,
         DOMAIN writes = Loop(N, 1, 1),
         \A s \in Loop(N, 1, 1) : writes[s] = <<t[s[1]], t[Succ(s[1], N)]>>
  PROVE  Round(Store(m, writes), t, N)
<1>1. \A s \in DOMAIN writes : s[1] \in 0..N-1 /\ s = <<s[1], 0, 0>> /\ writes[s][1] = t[s[1]]
  BY OneCounter
<1>2. \A s, u \in DOMAIN writes : writes[s][1] = writes[u][1] => s = u
  <2> TAKE s, u \in DOMAIN writes
  <2> HAVE writes[s][1] = writes[u][1]
  <2>1. s[1] = u[1]
    BY <1>1
  <2> QED
    BY <1>1, <2>1
<1>3. \A r \in 0..N-1 : \E s \in DOMAIN writes : writes[s] = <<t[r], t[Succ(r, N)]>>
  <2> TAKE r \in 0..N-1
  <2> DEFINE s == <<r, 0, 0>>
  <2>1. s \in Loop(N, 1, 1) /\ s[1] = r
    BY OneCounter
  <2> HIDE DEF s
  <2> QED
    BY <2>1
<1> QED
  BY <1>2, <1>3, StoredRound

\* The strides of stride_initialize() are a round.
LEMMA StrideRound ==
  ASSUME Shape, layout = "stride", phase # "cut",
         mem = Store(NoMemory, Stride), start = 0
  PROVE  WalksThroughAll
<1> DEFINE N == Ceil(len, line)
           t == [r \in 0..N-1 |-> r * line]
           writes == Stride
<1>1. line \in Nat \ {0} /\ len \in Nat \ {0} /\ len >= line
  BY Sizes DEF Shape
<1>2. N \in Nat \ {0}
  <2> DEFINE x == len + line - 1
  <2>1. x \in Nat /\ x >= line
    BY <1>1
  <2> HIDE DEF x
  <2> DEFINE q == x \div line
  <2>2. q \in Nat /\ x = line * q + (x % line) /\ x % line \in 0..line-1
    BY <1>1, <2>1, DivMod
  <2>3. N = q
    BY DEF Ceil, x
  <2> HIDE DEF q, N
  <2>4. q # 0
    BY <1>1, <2>1, <2>2
  <2> QED
    BY <2>2, <2>3, <2>4
<1>3. Stride = [s \in Loop(N, 1, 1) |-> <<s[1] * line, IF s[1] < N - 1 THEN (s[1] + 1) * line ELSE 0>>]
  BY DEF Stride
<1>p. Promised = {i * line : i \in 0..N-1}
  BY DEF Promised
<1> HIDE DEF N
<1>4. t = [r \in 0..N-1 |-> t[r]] /\ \A r \in 0..N-1 : t[r] = r * line
  OBVIOUS
<1>5. {t[r] : r \in 0..N-1} = {i * line : i \in 0..N-1}
  OBVIOUS
<1> HIDE DEF t
<1>6. ASSUME NEW r \in 0..N-1, NEW s \in 0..N-1, t[r] = t[s]
      PROVE  r = s
  <2>1. r * line = s * line /\ r \in Nat /\ s \in Nat
    BY <1>4, <1>6
  <2> QED
    BY <1>1, <2>1
<1>7. DOMAIN writes = Loop(N, 1, 1)
  BY <1>3
<1>8. ASSUME NEW s \in Loop(N, 1, 1)
      PROVE  writes[s] = <<t[s[1]], t[Succ(s[1], N)]>>
  <2>1. s[1] \in 0..N-1
    BY OneCounter
  <2>2. t[Succ(s[1], N)] = IF s[1] < N - 1 THEN (s[1] + 1) * line ELSE 0
    <3>1. Succ(s[1], N) \in 0..N-1 /\ Succ(s[1], N) = IF s[1] < N - 1 THEN s[1] + 1 ELSE 0
      BY <1>2, <2>1 DEF Succ
    <3>2. 0 * line = 0
      BY <1>1
    <3> QED
      BY <1>4, <3>1, <3>2
  <2> QED
    BY <1>3, <1>4, <2>1, <2>2
<1> HIDE DEF writes
<1>9. Round(Store(NoMemory, writes), t, N)
  BY <1>2, <1>4, <1>6, <1>7, <1>8, LoopRound
<1>10. Round(mem, t, N)
  BY <1>9 DEF writes
<1>11. 0 \in 0..N-1 /\ start = t[0]
  BY <1>1, <1>2, <1>4
<1>12. Promised = {t[r] : r \in 0..N-1}
  BY <1>5, <1>p
<1> QED
  BY <1>2, <1>10, <1>11, <1>12, RoundWalksThroughAll

\* Lines and words, as words_initialize() makes them.
LEMMA LineWords ==
  ASSUME Shape
  PROVE  /\ InOrder(Lines, nlines, line) /\ InOrder(Words, line, 1)
         /\ \A j \in 0..nlines-1 : Lines[j] \in Nat
         /\ \A k \in 0..line-1 : Words[k] \in 0..line-1
         /\ \A j \in 0..nlines-1, k \in 0..line-1 : Lines[j] + k \in 0..PageSize-1
         /\ \A j, x \in 0..nlines-1, k, y \in 0..line-1 :
              Lines[j] + k = Lines[x] + y => j = x /\ k = y
         /\ \A o \in 0..PageSize-1 :
              \E j \in 0..nlines-1, k \in 0..line-1 : o = Lines[j] + k
<1>1. /\ PageSize \in Nat \ {0} /\ line \in Nat \ {0} /\ nlines \in Nat \ {0}
      /\ PageSize = line * nlines
  BY Sizes
<1>2. InOrder(Lines, nlines, line)
  <2>1. PICK b \in Nat : nlines = Pow2[b]
    BY Sizes
  <2> QED
    BY <1>1, <2>1, WordsInOrder DEF Lines
<1>3. InOrder(Words, line, 1)
  <2>1. PICK b \in Nat : line = Pow2[b]
    BY Sizes
  <2>2. nwords = line
    BY DEF Shape
  <2> QED
    BY <2>1, <2>2, WordsInOrder DEF Words
<1> DEFINE lines == Lines
           words == Words
<1> HIDE DEF lines, words
<1>4. \A j \in 0..nlines-1 : \E q \in 0..nlines-1 : lines[j] = line * q
  BY <1>2 DEF InOrder, lines
<1>5. \A q \in 0..nlines-1 : \E j \in 0..nlines-1 : lines[j] = line * q
  BY <1>2 DEF InOrder, lines
<1>6. \A j, x \in 0..nlines-1 : lines[j] = lines[x] => j = x
  BY <1>2 DEF InOrder, lines
<1>7. ASSUME NEW j \in 0..nlines-1
      PROVE  lines[j] \in Nat
  BY <1>1, <1>4
<1>8. ASSUME NEW k \in 0..line-1
      PROVE  words[k] \in 0..line-1
  <2>1. PICK q \in 0..line-1 : words[k] = 1 * q
    BY <1>3 DEF InOrder, words
  <2> QED
    BY <2>1
<1>9. ASSUME NEW j \in 0..nlines-1, NEW k \in 0..line-1
      PROVE  lines[j] + k \in 0..PageSize-1
  <2>1. PICK q \in 0..nlines-1 : lines[j] = line * q
    BY <1>4
  <2>2. line * q + k \in 0..line*nlines-1
    BY <1>1, DigitsBelow
  <2> QED
    BY <1>1, <2>1, <2>2
<1>10. ASSUME NEW j \in 0..nlines-1, NEW x \in 0..nlines-1, NEW k \in 0..line-1, NEW y \in 0..line-1,
              lines[j] + k = lines[x] + y
       PROVE  j = x /\ k = y
  <2>1. PICK q \in 0..nlines-1 : lines[j] = line * q
    BY <1>4
  <2>2. PICK p \in 0..nlines-1 : lines[x] = line * p
    BY <1>4
  <2>3. q \in Nat /\ p \in Nat /\ line \in Nat /\ line * q + k = line * p + y
    BY <1>1, <1>10, <2>1, <2>2
  <2>4. q = p /\ k = y
    BY <2>3, Digits
  <2> QED
    BY <1>6, <2>1, <2>2, <2>4
<1>11. ASSUME NEW o \in 0..PageSize-1
       PROVE  \E j \in 0..nlines-1, k \in 0..line-1 : o = lines[j] + k
  <2> DEFINE q == o \div line
             k == o % line
  <2>1. q \in Nat /\ k \in 0..line-1 /\ o = line * q + k
    BY <1>1, DivMod
  <2> HIDE DEF q, k
  <2>2. q < nlines
    <3>1. ASSUME q >= nlines PROVE FALSE
      <4>1. line * q >= line * nlines
        BY <1>1, <2>1, <3>1
      <4>2. line * q \in Nat
        BY <1>1, <2>1
      <4> QED
        BY <1>1, <2>1, <4>1, <4>2
    <3> QED
      BY <1>1, <2>1, <3>1
  <2>3. q \in 0..nlines-1
    BY <1>1, <2>1, <2>2
  <2>4. PICK j \in 0..nlines-1 : lines[j] = line * q
    BY <1>5, <2>3
  <2> QED
    BY <2>1, <2>4
<1> QED
  BY <1>2, <1>3, <1>7, <1>8, <1>9, <1>10, <1>11 DEF lines, words

\* The words of thrash_initialize() within a page are a round.
LEMMA ThrashWordsRound ==
  ASSUME Shape, layout = "thrash", phase # "cut", len % PageSize # 0, IsPowerOfTwo(len \div line),
         mem = Store(NoMemory, Thrash), start = 0
  PROVE  WalksThroughAll
<1> DEFINE N == len \div line
           t == words_initialize(N, line)
           writes == ThrashWords
<1>1. line \in Nat \ {0} /\ len \in Nat \ {0} /\ len >= line
  BY Sizes DEF Shape
<1>2. PICK b \in Nat : N = Pow2[b]
  BY DEF IsPowerOfTwo
<1>3. InOrder(t, N, line)
  BY <1>1, <1>2, WordsInOrder
<1>4. ThrashWords = [s \in Loop(N, 1, 1) |-> <<t[s[1]], IF s[1] < N - 1 THEN t[s[1] + 1] ELSE 0>>]
  BY DEF ThrashWords
<1>5. Promised = {i * line : i \in 0..N-1}
  BY DEF Promised, Multiples
<1>6. mem = Store(NoMemory, writes)
  BY DEF Thrash
<1>7. N \in Nat \ {0}
  BY <1>2, Pow2Facts
<1> HIDE DEF N, t
<1>8. t = [r \in 0..N-1 |-> t[r]] /\ t[0] = 0 /\ \A r, s \in 0..N-1 : t[r] = t[s] => r = s
  BY <1>3 DEF InOrder
<1>9. DOMAIN writes = Loop(N, 1, 1)
  BY <1>4
<1>10. ASSUME NEW s \in Loop(N, 1, 1)
       PROVE  writes[s] = <<t[s[1]], t[Succ(s[1], N)]>>
  <2>1. s[1] \in 0..N-1
    BY OneCounter
  <2>2. t[Succ(s[1], N)] = IF s[1] < N - 1 THEN t[s[1] + 1] ELSE 0
    <3>1. Succ(s[1], N) = IF s[1] < N - 1 THEN s[1] + 1 ELSE 0
      BY <1>7, <2>1 DEF Succ
    <3> QED
      BY <1>8, <3>1
  <2> QED
    BY <1>4, <2>2
<1> HIDE DEF writes
<1>11. Round(mem, t, N)
  BY <1>6, <1>7, <1>8, <1>9, <1>10, LoopRound
<1>12. 0 \in 0..N-1 /\ start = t[0]
  BY <1>7, <1>8
<1>13. Promised = {t[r] : r \in 0..N-1}
  <2>1. \A r \in 0..N-1 : \E q \in 0..N-1 : t[r] = q * line
    <3> TAKE r \in 0..N-1
    <3>1. PICK q \in 0..N-1 : t[r] = line * q
      BY <1>3 DEF InOrder
    <3>2. line * q = q * line
      BY <1>1
    <3> QED
      BY <3>1, <3>2
  <2>2. \A q \in 0..N-1 : \E r \in 0..N-1 : t[r] = q * line
    <3> TAKE q \in 0..N-1
    <3>1. PICK r \in 0..N-1 : t[r] = line * q
      BY <1>3 DEF InOrder
    <3>2. line * q = q * line
      BY <1>1
    <3> QED
      BY <3>1, <3>2
  <2> QED
    BY <1>5, <2>1, <2>2
<1> QED
  BY <1>7, <1>11, <1>12, <1>13, RoundWalksThroughAll

\* What is written where the counters are in an order of places.
LEMMA StoredRanked ==
  ASSUME NEW N \in Nat \ {0}, NEW m, NEW writes, NEW C, NEW rank, NEW word,
         \A c \in C : rank[c] \in 0..N-1,
         \A c, d \in C : rank[c] = rank[d] => c = d,
         \A c, d \in C : word[c] = word[d] => c = d,
         \E c \in C : rank[c] = 0,
         DOMAIN writes = C,
         \A c \in C : \E d \in C : rank[d] = Succ(rank[c], N) /\ writes[c] = <<word[c], word[d]>>
  PROVE  Ranked(Store(m, writes), C, rank, word, N)
<1> DEFINE made == Store(m, writes)
<1>1. \A c \in C : writes[c][1] = word[c]
  <2> TAKE c \in C
  <2>1. PICK d \in C : writes[c] = <<word[c], word[d]>>
    OBVIOUS
  <2> QED
    BY <2>1
<1>2. \A c, d \in DOMAIN writes : writes[c][1] = writes[d][1] => c = d
  BY <1>1
<1>3. \A c \in DOMAIN writes : made[writes[c][1]] = writes[c][2]
  BY <1>2, Stored
<1> HIDE DEF made
<1>4. \A c \in C : \E d \in C : rank[d] = Succ(rank[c], N) /\ made[word[c]] = word[d]
  <2> TAKE c \in C
  <2>1. PICK d \in C : rank[d] = Succ(rank[c], N) /\ writes[c] = <<word[c], word[d]>>
    OBVIOUS
  <2>2. made[word[c]] = word[d]
    BY <1>1, <1>3, <2>1
  <2> QED
    BY <2>1, <2>2
<1> QED
  BY <1>4 DEF Ranked, made

\* Two numbers of a row of n have different remainders.
LEMMA RemaindersDiffer ==
  ASSUME NEW n \in Nat \ {0}, NEW i \in Nat, NEW j \in 0..n-1, NEW k \in 0..n-1,
         (i + j) % n = (i + k) % n
  PROVE  j = k
<1> DEFINE a == (i + j) \div n
           b == (i + k) \div n
           x == (i + j) % n
<1>1. /\ a \in Nat /\ b \in Nat /\ x \in 0..n-1
      /\ i + j = n * a + x /\ i + k = n * b + x
  BY DivMod
<1> HIDE DEF a, b, x
<1>2. ~(a < b)
  <2> SUFFICES ASSUME a + 1 <= b PROVE FALSE
    BY <1>1
  <2>1. n * (a + 1) <= n * b /\ n * (a + 1) = n * a + n /\ n * a \in Nat /\ n * b \in Nat
    BY <1>1
  <2> QED
    BY <1>1, <2>1
<1>3. ~(b < a)
  <2> SUFFICES ASSUME b + 1 <= a PROVE FALSE
    BY <1>1
  <2>1. n * (b + 1) <= n * a /\ n * (b + 1) = n * b + n /\ n * a \in Nat /\ n * b \in Nat
    BY <1>1
  <2> QED
    BY <1>1, <2>1
<1>4. a = b
  BY <1>1, <1>2, <1>3
<1> QED
  BY <1>1, <1>4

\* And a row of n has all remainders.
LEMMA RemainderFound ==
  ASSUME NEW n \in Nat \ {0}, NEW i \in Nat, NEW x \in 0..n-1
  PROVE  \E j \in 0..n-1 : (i + j) % n = x
<1> DEFINE a == i \div n
           k == i % n
<1>1. a \in Nat /\ k \in 0..n-1 /\ i = n * a + k
  BY DivMod
<1> HIDE DEF a, k
<1>2. CASE x >= k
  <2>1. x - k \in 0..n-1 /\ i + (x - k) = n * a + x
    BY <1>1, <1>2
  <2>2. (n * a + x) % n = x
    BY <1>1, DivModOf
  <2> QED
    BY <2>1, <2>2
<1>3. CASE x < k
  <2>1. n * (a + 1) = n * a + n /\ n * a \in Nat
    BY <1>1
  <2>2. (x - k) + n \in 0..n-1 /\ i + ((x - k) + n) = n * (a + 1) + x
    BY <1>1, <1>3, <2>1
  <2>3. (n * (a + 1) + x) % n = x
    BY <1>1, DivModOf
  <2> QED
    BY <2>2, <2>3
<1> QED
  BY <1>1, <1>2, <1>3

ThrashWord == [s \in Loop(npages, nlines, 1) |-> Page(s[1]) + Lines[(s[1] + s[2]) % nlines]]
ThrashRank == [s \in Loop(npages, nlines, 1) |-> npages * s[2] + s[1]]

\* The words of thrash_initialize() on pages are a round: each time another page.
LEMMA ThrashPagesRound ==
  ASSUME Shape, layout = "thrash", phase # "cut", len % PageSize = 0,
         mem = Store(NoMemory, Thrash), start = Page(0)
  PROVE  WalksThroughAll
<1> DEFINE n == nlines
           w == Lines
           C == Loop(npages, nlines, 1)
           N == npages * nlines
           word == ThrashWord
           rank == ThrashRank
           writes == ThrashPages
<1>1. /\ PageSize \in Nat \ {0} /\ line \in Nat \ {0} /\ n \in Nat \ {0} /\ npages \in Nat \ {0}
      /\ PageSize = line * n /\ N \in Nat \ {0}
  BY Sizes
<1>2. InOrder(w, n, line) /\ \A x \in 0..n-1 : w[x] \in 0..PageSize-1
  <2>1. 0 \in 0..line-1
    BY <1>1
  <2>2. \A x \in 0..n-1 : w[x] + 0 \in 0..PageSize-1 /\ w[x] \in Nat
    BY <2>1, LineWords
  <2> QED
    BY <2>2, LineWords
<1>3. mem = Store(NoMemory, writes)
  BY DEF Thrash
<1>4. writes = [s \in C |->
        <<Page(s[1]) + w[(s[1] + s[2]) % n],
          IF s[1] < npages - 1 THEN Page(s[1] + 1) + w[(s[1] + s[2] + 1) % n]
                               ELSE Page(0) + w[(s[2] + 1) % n]>>]
  BY DEF ThrashPages, Lines, Shape
<1>5. \A x \in Nat : x % n \in 0..n-1
  BY <1>1, DivMod
<1> HIDE DEF n, w
<1>6. \A s \in C : /\ s[1] \in 0..npages-1 /\ s[2] \in 0..n-1 /\ s = <<s[1], s[2], 0>>
                   /\ word[s] = Page(s[1]) + w[(s[1] + s[2]) % n] /\ rank[s] = npages * s[2] + s[1]
  <2>1. \A s \in C : s[3] = 0
    BY LoopFacts
  <2> QED
    BY <2>1, LoopFacts DEF ThrashWord, ThrashRank, n, w
<1>7. \A i \in 0..npages-1, j \in 0..n-1 :
        /\ <<i, j, 0>> \in C /\ <<i, j, 0>>[1] = i /\ <<i, j, 0>>[2] = j
        /\ word[<<i, j, 0>>] = Page(i) + w[(i + j) % n] /\ rank[<<i, j, 0>>] = npages * j + i
  <2>1. 0 \in 0..1-1
    OBVIOUS
  <2>2. \A i \in 0..npages-1, j \in 0..n-1 :
          <<i, j, 0>> \in C /\ <<i, j, 0>>[1] = i /\ <<i, j, 0>>[2] = j
    BY <2>1, LoopFacts DEF n
  <2> TAKE i \in 0..npages-1, j \in 0..n-1
  <2> DEFINE s == <<i, j, 0>>
  <2>3. s \in C /\ s[1] = i /\ s[2] = j
    BY <2>2
  <2> HIDE DEF s, C, word, rank
  <2>4. word[s] = Page(i) + w[(i + j) % n] /\ rank[s] = npages * j + i
    BY <1>6, <2>3
  <2> QED
    BY <2>3, <2>4 DEF s
<1>0. npages \in Nat \ {0} /\ n \in Nat \ {0}
  BY <1>1
<1>c. 0 \in 0..npages-1 /\ 0 \in 0..n-1 /\ 0 % n = 0 /\ n % n = 0
  <2>1. 0 % n = 0
    BY <1>1
  <2>2. n * 1 + 0 = n /\ 1 \in Nat /\ 0 \in 0..n-1
    BY <1>1
  <2>3. (n * 1 + 0) % n = 0
    BY <1>1, <2>2, DivModOf
  <2> QED
    BY <1>1, <2>1, <2>2, <2>3
<1> HIDE DEF C, word, rank, writes
<1>8. ASSUME NEW s \in C PROVE rank[s] \in 0..N-1
  <2>1. npages * s[2] + s[1] \in 0..npages*n-1
    BY <1>1, <1>6, DigitsBelow
  <2> QED
    BY <1>6, <2>1 DEF n
<1>9. ASSUME NEW s \in C, NEW u \in C, rank[s] = rank[u] PROVE s = u
  <2>1. s[2] \in Nat /\ u[2] \in Nat /\ npages * s[2] + s[1] = npages * u[2] + u[1]
    BY <1>1, <1>6, <1>9
  <2>2. s[2] = u[2] /\ s[1] = u[1]
    BY <1>1, <1>6, <2>1, Digits, SMTT(60)
  <2> QED
    BY <1>6, <2>2
<1>10. ASSUME NEW s \in C, NEW u \in C, word[s] = word[u] PROVE s = u
  <2> DEFINE x == (s[1] + s[2]) % n
             y == (u[1] + u[2]) % n
  <2>1. x \in 0..n-1 /\ y \in 0..n-1
    <3>1. s[1] + s[2] \in Nat /\ u[1] + u[2] \in Nat
      BY <1>6
    <3> QED
      BY <1>5, <3>1
  <2>2. Page(s[1]) + w[x] = Page(u[1]) + w[y]
    BY <1>6, <1>10
  <2>3. s[1] = u[1] /\ w[x] = w[y]
    <3> DEFINE i == s[1]
               k == u[1]
               o == w[x]
               v == w[y]
    <3>1. i \in 0..npages-1 /\ k \in 0..npages-1 /\ o \in 0..PageSize-1 /\ v \in 0..PageSize-1
      BY <1>2, <1>6, <2>1
    <3>2. Page(i) + o = Page(k) + v
      BY <2>2
    <3> HIDE DEF i, k, o, v
    <3>3. i = k /\ o = v
      BY <3>1, <3>2, PageWords
    <3> QED
      BY <3>3 DEF i, k, o, v
  <2>4. x = y
    <3> HIDE DEF x, y
    <3> QED
      BY <1>2, <2>1, <2>3 DEF InOrder
  <2>5. s[2] = u[2]
    <3>1. s[1] \in Nat /\ s[2] \in 0..n-1 /\ u[2] \in 0..n-1 /\ (s[1] + s[2]) % n = (s[1] + u[2]) % n
      BY <1>6, <2>3, <2>4
    <3> DEFINE i == s[1]
               j == s[2]
               k == u[2]
    <3>2. i \in Nat /\ j \in 0..n-1 /\ k \in 0..n-1 /\ (i + j) % n = (i + k) % n
      BY <3>1
    <3> HIDE DEF i, j, k
    <3>3. j = k
      BY <1>0, <3>2, RemaindersDiffer
    <3> QED
      BY <3>3 DEF j, k
  <2> QED
    BY <1>6, <2>3, <2>5
<1>11. ASSUME NEW s \in C
       PROVE  \E u \in C : rank[u] = Succ(rank[s], N) /\ writes[s] = <<word[s], word[u]>>
  <2> DEFINE i == s[1]
             j == s[2]
  <2>1. /\ i \in 0..npages-1 /\ j \in 0..n-1 /\ rank[s] = npages * j + i
        /\ word[s] = Page(i) + w[(i + j) % n]
        /\ writes[s] = <<word[s], IF i < npages - 1 THEN Page(i + 1) + w[(i + j + 1) % n]
                                  ELSE Page(0) + w[(j + 1) % n]>>
    BY <1>4, <1>6
  <2> HIDE DEF i, j
  <2>2. npages * j \in Nat /\ npages * n \in Nat /\ npages * (j + 1) = npages * j + npages /\ N = npages * n
    BY <1>1, <2>1 DEF n
  <2>3. npages * (j + 1) <= npages * n
    BY <1>1, <2>1
  <2>4. CASE i < npages - 1
    <3> DEFINE u == <<i + 1, j, 0>>
    <3>1. i + 1 \in 0..npages-1 /\ (i + 1) + j = i + j + 1
      <4>1. i \in 0..npages-1 /\ j \in 0..n-1
        BY <2>1
      <4> QED
        BY <1>0, <2>4, <4>1
    <3>2. u \in C /\ rank[u] = npages * j + (i + 1) /\ word[u] = Page(i + 1) + w[(i + j + 1) % n]
      BY <1>7, <2>1, <3>1
    <3>3. rank[u] = Succ(rank[s], N)
      BY <1>1, <2>1, <2>2, <2>3, <2>4, <3>2, SMTT(60) DEF Succ
    <3> HIDE DEF u
    <3> QED
      BY <2>1, <2>4, <3>2, <3>3
  <2>5. CASE i = npages - 1 /\ j < n - 1
    <3> DEFINE u == <<0, j + 1, 0>>
    <3>1. j + 1 \in 0..n-1 /\ 0 + (j + 1) = j + 1
      <4>1. j \in 0..n-1
        BY <2>1
      <4> QED
        BY <1>0, <2>5, <4>1
    <3>2. u \in C /\ rank[u] = npages * (j + 1) + 0 /\ word[u] = Page(0) + w[(j + 1) % n]
      BY <1>7, <1>c, <3>1
    <3>3. rank[u] = Succ(rank[s], N)
      <4>1. npages * (j + 1 + 1) <= npages * n /\ npages * (j + 1 + 1) = npages * (j + 1) + npages
        BY <1>1, <2>1, <2>5
      <4> QED
        BY <1>1, <2>1, <2>2, <2>5, <3>2, <4>1 DEF Succ
    <3> HIDE DEF u
    <3> QED
      BY <2>1, <2>5, <3>2, <3>3
  <2>6. CASE i = npages - 1 /\ j = n - 1
    <3> DEFINE u == <<0, 0, 0>>
    <3>1. 0 + 0 = 0 /\ npages * 0 + 0 = 0 /\ j + 1 = n
      BY <1>1, <2>1, <2>6
    <3>2. u \in C /\ rank[u] = 0 /\ word[u] = Page(0) + w[0]
      BY <1>7, <1>c, <3>1
    <3>3. rank[u] = Succ(rank[s], N)
      BY <1>1, <2>1, <2>2, <2>6, <3>2 DEF Succ
    <3>4. w[(j + 1) % n] = w[0]
      BY <1>c, <3>1
    <3> HIDE DEF u
    <3> QED
      BY <2>1, <2>6, <3>2, <3>3, <3>4
  <2> QED
    BY <1>1, <2>1, <2>4, <2>5, <2>6
<1> DEFINE first == <<0, 0, 0>>
<1>12. first \in C /\ rank[first] = 0 /\ word[first] = start
  <2>1. 0 + 0 = 0 /\ npages * 0 + 0 = 0
    BY <1>1
  <2>2. first \in C /\ rank[first] = 0 /\ word[first] = Page(0) + w[0]
    BY <1>7, <1>c, <2>1
  <2>3. w[0] = 0
    BY <1>2 DEF InOrder
  <2>4. Page(0) + 0 = Page(0)
    <3>1. 0 \in 0..PageSize-1
      BY <1>1
    <3>2. Page(0) \in Nat
      BY <1>c, <3>1, PageWords
    <3> QED
      BY <3>2
  <2> QED
    BY <2>2, <2>3, <2>4
<1> HIDE DEF first
<1>13. DOMAIN writes = C
  BY <1>4
<1> HIDE DEF N
<1>14. Ranked(mem, C, rank, word, N)
  <2>1. Ranked(Store(NoMemory, writes), C, rank, word, N)
    BY <1>1, <1>8, <1>9, <1>10, <1>11, <1>12, <1>13, StoredRanked
  <2> QED
    BY <1>3, <2>1
<1>15. Promised = {word[s] : s \in C}
  <2>1. Promised = {Page(i) + o : i \in 0..npages-1, o \in {q * line : q \in 0..n-1}}
    <3>1. PageSize \div line = n
      BY DEF Shape, n
    <3> QED
      BY <3>1 DEF Promised, OnPages, Multiples
  <2>2. ASSUME NEW i \in 0..npages-1, NEW q \in 0..n-1
        PROVE  \E s \in C : word[s] = Page(i) + q * line
    <3>1. PICK x \in 0..n-1 : w[x] = line * q
      BY <1>2 DEF InOrder
    <3>2. i \in Nat /\ line * q = q * line
      BY <1>1
    <3>i. i \in Nat /\ n \in Nat \ {0} /\ x \in 0..n-1
      BY <1>0
    <3>j. \E j \in 0..n-1 : (i + j) % n = x
      BY ONLY <3>i, RemainderFound
    <3>3. PICK j \in 0..n-1 : (i + j) % n = x
      BY <3>j
    <3> DEFINE s == <<i, j, 0>>
    <3>4. s \in C /\ word[s] = Page(i) + w[(i + j) % n]
      BY <1>7
    <3> HIDE DEF s
    <3> QED
      BY <3>1, <3>2, <3>3, <3>4
  <2>3. ASSUME NEW s \in C
        PROVE  \E i \in 0..npages-1, q \in 0..n-1 : word[s] = Page(i) + q * line
    <3>1. s[1] + s[2] \in Nat
      BY <1>6
    <3>2. (s[1] + s[2]) % n \in 0..n-1
      BY <1>5, <3>1
    <3>3. PICK q \in 0..n-1 : w[(s[1] + s[2]) % n] = line * q
      BY <1>2, <3>2 DEF InOrder
    <3>4. line * q = q * line
      BY <1>1
    <3> QED
      BY <1>6, <3>3, <3>4
  <2> DEFINE P == Promised
             W == {word[s] : s \in C}
  <2>4. \A x : x \in P <=> \E i \in 0..npages-1, q \in 0..n-1 : x = Page(i) + q * line
    BY <2>1
  <2>5. \A x : x \in W <=> \E s \in C : x = word[s]
    OBVIOUS
  <2> HIDE DEF P, W
  <2>6. \A x : x \in P => x \in W
    BY <2>2, <2>4, <2>5
  <2>7. \A x : x \in W => x \in P
    BY <2>3, <2>4, <2>5
  <2>8. P = W
    BY <2>6, <2>7
  <2> QED
    BY <2>8 DEF P, W
<1> QED
  BY <1>1, <1>12, <1>14, <1>15, RankedWalksThroughAll

----------------------------------------------------------------------------
(* Lines                                                                   *)

NextPage(i) == IF i < npages - 1 THEN i + 1 ELSE 0

\* Memory has a pointer in each line; each leads to the next line of its page,
\* but for those of the last line of a page and of the n-th, which lead to
\* the next page.
LineLinks(m, n) ==
  /\ \A i \in 0..npages-1, j \in 0..nlines-1 : Page(i) + Lines[j] \in DOMAIN m
  /\ \A i \in 0..npages-1, j \in 0..nlines-1 :
       j # n - 1 /\ j < nlines - 1 => m[Page(i) + Lines[j]] = Page(i) + Lines[j + 1]
  /\ \A i \in 0..npages-1, j \in 0..nlines-1 :
       j = n - 1 \/ j = nlines - 1 => m[Page(i) + Lines[j]] = Page(NextPage(i)) + Lines[0]

LineWord(n) == [s \in Loop(npages, n, 1) |-> Page(s[1]) + Lines[s[2]]]
LineRank(n) == [s \in Loop(npages, n, 1) |-> n * s[1] + s[2]]

\* The first words of lines are different.
LEMMA FirstWords ==
  ASSUME Shape, NEW i \in 0..npages-1, NEW k \in 0..npages-1,
         NEW j \in 0..nlines-1, NEW x \in 0..nlines-1
  PROVE  /\ Lines[j] \in 0..PageSize-1
         /\ Page(i) + Lines[j] = Page(k) + Lines[x] => i = k /\ j = x
<1>1. 0 \in 0..line-1
  BY Sizes
<1> DEFINE o == Lines[j]
           u == Lines[x]
<1>2. o \in Nat /\ u \in Nat /\ o + 0 \in 0..PageSize-1 /\ u + 0 \in 0..PageSize-1
  BY <1>1, LineWords
<1>3. o = u => j = x
  <2>1. InOrder(Lines, nlines, line)
    BY LineWords
  <2> QED
    BY <2>1 DEF InOrder
<1> HIDE DEF o, u
<1>4. o \in 0..PageSize-1 /\ u \in 0..PageSize-1
  BY <1>2
<1>5. Page(i) + o = Page(k) + u => i = k /\ o = u
  BY <1>4, PageWords
<1> QED
  BY <1>3, <1>4, <1>5 DEF o, u

\* The first n lines of every page are a round.
LEMMA LineRanked ==
  ASSUME Shape, NEW n \in 1..nlines, LineLinks(mem, n)
  PROVE  Ranked(mem, Loop(npages, n, 1), LineRank(n), LineWord(n), npages * n)
<1> DEFINE C == Loop(npages, n, 1)
           N == npages * n
           word == LineWord(n)
           rank == LineRank(n)
           w == Lines
<1>1. n \in Nat \ {0} /\ npages \in Nat \ {0} /\ nlines \in Nat \ {0}
  BY Sizes
<1>2. \A s \in C : /\ s[1] \in 0..npages-1 /\ s[2] \in 0..n-1 /\ s = <<s[1], s[2], 0>>
                   /\ word[s] = Page(s[1]) + w[s[2]] /\ rank[s] = n * s[1] + s[2]
  <2>1. \A s \in C : s[3] = 0
    BY LoopFacts
  <2> QED
    BY <2>1, LoopFacts DEF LineWord, LineRank
<1>3. \A i \in 0..npages-1, j \in 0..n-1 :
        /\ <<i, j, 0>> \in C
        /\ word[<<i, j, 0>>] = Page(i) + w[j] /\ rank[<<i, j, 0>>] = n * i + j
  <2> TAKE i \in 0..npages-1, j \in 0..n-1
  <2> DEFINE s == <<i, j, 0>>
  <2>1. 0 \in 0..1-1
    OBVIOUS
  <2>2. s \in C /\ s[1] = i /\ s[2] = j
    BY <2>1, LoopFacts
  <2> HIDE DEF s, C, word, rank
  <2>3. word[s] = Page(i) + w[j] /\ rank[s] = n * i + j
    BY <1>2, <2>2
  <2> QED
    BY <2>2, <2>3 DEF s
<1>4. \A j \in 0..n-1 : j \in 0..nlines-1
  BY <1>1
<1>5. /\ \A i \in 0..npages-1, j \in 0..n-1 : j < n - 1 => mem[Page(i) + w[j]] = Page(i) + w[j + 1]
      /\ \A i \in 0..npages-1, j \in 0..n-1 : j = n - 1 => mem[Page(i) + w[j]] = Page(NextPage(i)) + w[0]
  <2>1. \A j \in 0..n-1 : j < n - 1 => j # n - 1 /\ j < nlines - 1
    BY <1>1
  <2> QED
    BY <1>4, <2>1 DEF LineLinks
<1> HIDE DEF C, word, rank
<1>6. \A s \in C : rank[s] \in 0..N-1
  <2> TAKE s \in C
  <2> DEFINE i == s[1]
             j == s[2]
  <2>1. i \in 0..npages-1 /\ j \in 0..n-1 /\ rank[s] = n * i + j
    BY <1>2
  <2> HIDE DEF i, j
  <2>2. n * i + j \in 0..n*npages-1
    BY <1>1, <2>1, DigitsBelow
  <2>3. n * npages = N
    BY <1>1
  <2> QED
    BY <2>1, <2>2, <2>3
<1>7. \A s, u \in C : rank[s] = rank[u] => s = u
  <2> TAKE s, u \in C
  <2> HAVE rank[s] = rank[u]
  <2> DEFINE i == s[1]
             j == s[2]
             k == u[1]
             x == u[2]
  <2>1. i \in Nat /\ k \in Nat /\ j \in 0..n-1 /\ x \in 0..n-1 /\ n * i + j = n * k + x
    BY <1>2
  <2> HIDE DEF i, j, k, x
  <2>2. i = k /\ j = x
    BY <1>1, <2>1, Digits
  <2> QED
    BY <1>2, <2>2 DEF i, j, k, x
<1>8. \A s, u \in C : word[s] = word[u] => s = u
  <2> TAKE s, u \in C
  <2> HAVE word[s] = word[u]
  <2> DEFINE i == s[1]
             j == s[2]
             k == u[1]
             x == u[2]
  <2>1. i \in 0..npages-1 /\ k \in 0..npages-1 /\ j \in 0..n-1 /\ x \in 0..n-1
        /\ Page(i) + w[j] = Page(k) + w[x]
    BY <1>2
  <2> HIDE DEF i, j, k, x
  <2>2. i = k /\ j = x
    BY <1>4, <2>1, FirstWords
  <2> QED
    BY <1>2, <2>2 DEF i, j, k, x
<1>9. \E s \in C : rank[s] = 0
  <2>1. 0 \in 0..npages-1 /\ 0 \in 0..n-1 /\ n * 0 + 0 = 0
    BY <1>1
  <2>2. <<0, 0, 0>> \in C /\ rank[<<0, 0, 0>>] = n * 0 + 0
    BY <1>3, <2>1
  <2> QED
    BY <2>1, <2>2
<1>10. ASSUME NEW s \in C
       PROVE  \E u \in C : rank[u] = Succ(rank[s], N) /\ mem[word[s]] = word[u]
  <2> DEFINE i == s[1]
             j == s[2]
  <2>1. i \in 0..npages-1 /\ j \in 0..n-1 /\ rank[s] = n * i + j /\ word[s] = Page(i) + w[j]
    BY <1>2
  <2> HIDE DEF i, j
  <2>2. n * i \in Nat /\ N = n * npages /\ n * (i + 1) = n * i + n /\ n * (i + 1) <= n * npages
    BY <1>1, <2>1
  <2>3. CASE j < n - 1
    <3> DEFINE u == <<i, j + 1, 0>>
    <3>1. j + 1 \in 0..n-1
      BY <1>1, <2>1, <2>3
    <3>2. u \in C /\ rank[u] = n * i + (j + 1) /\ word[u] = Page(i) + w[j + 1]
      BY <1>3, <2>1, <3>1
    <3>3. rank[u] = Succ(rank[s], N)
      BY <1>1, <2>1, <2>2, <2>3, <3>2 DEF Succ
    <3>4. mem[word[s]] = word[u]
      BY <1>5, <2>1, <2>3, <3>2
    <3> HIDE DEF u
    <3> QED
      BY <3>2, <3>3, <3>4
  <2>4. CASE j = n - 1
    <3> DEFINE k == NextPage(i)
               u == <<k, 0, 0>>
    <3>1. k \in 0..npages-1 /\ 0 \in 0..n-1 /\ k = IF i < npages - 1 THEN i + 1 ELSE 0
      BY <1>1, <2>1 DEF NextPage
    <3>2. u \in C /\ rank[u] = n * k + 0 /\ word[u] = Page(k) + w[0]
      BY <1>3, <3>1
    <3>3. rank[u] = Succ(rank[s], N)
      <4> HIDE DEF u
      <4>1. CASE i < npages - 1
        <5>1. n * (i + 2) <= n * npages /\ n * (i + 2) = n * (i + 1) + n
          BY <1>1, <2>1, <4>1
        <5>2. k = i + 1
          BY <3>1, <4>1
        <5>3. rank[u] = n * (i + 1)
          BY <1>1, <2>1, <3>2, <5>2
        <5>4. rank[s] = n * i + n - 1 /\ n * (i + 1) < N
          BY <1>1, <2>1, <2>2, <2>4, <5>1
        <5> QED
          BY <1>1, <2>1, <2>2, <5>3, <5>4 DEF Succ
      <4>2. CASE i = npages - 1
        <5>1. k = 0 /\ n * 0 + 0 = 0 /\ i + 1 = npages
          BY <1>1, <3>1, <4>2
        <5>2. rank[u] = 0
          BY <3>2, <5>1
        <5>3. rank[s] + 1 = N
          BY <1>1, <2>1, <2>2, <2>4, <5>1
        <5> QED
          BY <5>2, <5>3 DEF Succ
      <4> QED
        BY <1>1, <2>1, <4>1, <4>2
    <3>4. mem[word[s]] = word[u]
      BY <1>5, <2>1, <2>4, <3>2
    <3> HIDE DEF u
    <3> QED
      BY <3>2, <3>3, <3>4
  <2> QED
    BY <1>1, <2>1, <2>3, <2>4
<1> QED
  BY <1>6, <1>7, <1>8, <1>9, <1>10 DEF Ranked, C, word, rank

\* The first words of the lines that the walk goes through.
LEMMA LineWalks ==
  ASSUME Shape, NEW n \in 1..nlines, LineLinks(mem, n), start = Page(0), NEW step \in Nat,
         \A j \in 0..n-1 : \E q \in 0..n-1 : Lines[j] = q * step,
         \A q \in 0..n-1 : \E j \in 0..n-1 : Lines[j] = q * step,
         \A a : a \in Promised <=> \E i \in 0..npages-1, q \in 0..n-1 : a = Page(i) + q * step
  PROVE  WalksThroughAll
<1> DEFINE C == Loop(npages, n, 1)
           N == npages * n
           word == LineWord(n)
           rank == LineRank(n)
           w == Lines
           P == Promised
           W == {word[s] : s \in C}
           c == <<0, 0, 0>>
<1>1. Ranked(mem, C, rank, word, N)
  BY LineRanked
<1>2. n \in Nat \ {0} /\ npages \in Nat \ {0} /\ PageSize \in Nat \ {0} /\ nlines \in Nat \ {0}
  BY Sizes
<1>3. N \in Nat \ {0}
  BY <1>2
<1>4. \A s \in C : s[1] \in 0..npages-1 /\ s[2] \in 0..n-1 /\ word[s] = Page(s[1]) + w[s[2]]
  BY LoopFacts DEF LineWord
<1>5. \A i \in 0..npages-1, j \in 0..n-1 : \E s \in C : word[s] = Page(i) + w[j]
  <2> TAKE i \in 0..npages-1, j \in 0..n-1
  <2> DEFINE s == <<i, j, 0>>
  <2>1. 0 \in 0..1-1
    OBVIOUS
  <2>2. s \in C /\ s[1] = i /\ s[2] = j
    BY <2>1, LoopFacts
  <2> HIDE DEF s, C, word
  <2> QED
    BY <1>4, <2>2
<1>6. c \in C /\ start = word[c]
  <2>1. 0 \in 0..npages-1 /\ 0 \in 0..n-1 /\ 0 \in 0..1-1 /\ 0 \in 0..PageSize-1
    BY <1>2
  <2>2. c \in C /\ c[1] = 0 /\ c[2] = 0
    BY <2>1, LoopFacts
  <2> HIDE DEF c, C, word
  <2>3. word[c] = Page(0) + w[0]
    BY <1>4, <2>2
  <2>4. w[0] = 0
    <3>1. InOrder(Lines, nlines, line)
      BY LineWords
    <3> QED
      BY <3>1 DEF InOrder
  <2>5. Page(0) \in Nat
    BY <2>1, PageWords
  <2> QED
    BY <2>2, <2>3, <2>4, <2>5
<1>7. \A a : a \in W <=> \E s \in C : a = word[s]
  OBVIOUS
<1>8. P = W
  <2>1. ASSUME NEW a \in P PROVE a \in W
    <3>1. PICK i \in 0..npages-1, q \in 0..n-1 : a = Page(i) + q * step
      OBVIOUS
    <3>2. PICK j \in 0..n-1 : w[j] = q * step
      OBVIOUS
    <3>3. PICK s \in C : word[s] = Page(i) + w[j]
      BY <1>5
    <3> QED
      BY <1>7, <3>1, <3>2, <3>3
  <2>2. ASSUME NEW a \in W PROVE a \in P
    <3>1. PICK s \in C : a = word[s]
      BY <1>7
    <3> DEFINE i == s[1]
               j == s[2]
    <3>2. i \in 0..npages-1 /\ j \in 0..n-1 /\ a = Page(i) + w[j]
      BY <1>4, <3>1
    <3> HIDE DEF i, j
    <3>3. PICK q \in 0..n-1 : w[j] = q * step
      BY <3>2
    <3> QED
      BY <3>2, <3>3
  <2> QED
    BY <2>1, <2>2
<1> HIDE DEF C, N, word, rank, c
<1> QED
  BY <1>1, <1>3, <1>6, <1>8, RankedWalksThroughAll

\* line_initialize() links all lines.
LEMMA LineLaid ==
  ASSUME Shape
  PROVE  LineLinks(Store(NoMemory, Line), nlines)
<1> DEFINE writes == Line
           C == Loop(npages, nlines, 1)
           w == Lines
           made == Store(NoMemory, writes)
<1>1. nlines \in Nat \ {0} /\ npages \in Nat \ {0}
  BY Sizes
<1>2. writes = [s \in C |->
        <<Page(s[1]) + w[s[2]],
          IF s[2] < nlines - 1 THEN Page(s[1]) + w[s[2] + 1] ELSE Page(NextPage(s[1])) + w[0]>>]
  BY DEF Line, NextPage
<1>3. \A s \in C : s[1] \in 0..npages-1 /\ s[2] \in 0..nlines-1 /\ s = <<s[1], s[2], 0>>
  <2>1. \A s \in C : s[3] = 0
    BY LoopFacts
  <2> QED
    BY <2>1, LoopFacts
<1>4. \A i \in 0..npages-1, j \in 0..nlines-1 :
        <<i, j, 0>> \in C /\ <<i, j, 0>>[1] = i /\ <<i, j, 0>>[2] = j
  <2>1. 0 \in 0..1-1
    OBVIOUS
  <2> QED
    BY <2>1, LoopFacts
<1> HIDE DEF writes, C, made, w
<1>5. \A s, u \in DOMAIN writes : writes[s][1] = writes[u][1] => s = u
  <2> TAKE s, u \in DOMAIN writes
  <2> HAVE writes[s][1] = writes[u][1]
  <2> DEFINE i == s[1]
             j == s[2]
             k == u[1]
             x == u[2]
  <2>1. i \in 0..npages-1 /\ k \in 0..npages-1 /\ j \in 0..nlines-1 /\ x \in 0..nlines-1
        /\ Page(i) + w[j] = Page(k) + w[x]
    BY <1>2, <1>3
  <2> HIDE DEF i, j, k, x
  <2>2. i = k /\ j = x
    BY <2>1, FirstWords DEF w
  <2> QED
    BY <1>2, <1>3, <2>2 DEF i, j, k, x
<1>6. /\ DOMAIN made = DOMAIN NoMemory \union {writes[s][1] : s \in DOMAIN writes}
      /\ \A s \in DOMAIN writes : made[writes[s][1]] = writes[s][2]
      /\ \A a \in DOMAIN NoMemory : (\A s \in DOMAIN writes : writes[s][1] # a)
                                    => made[a] = NoMemory[a]
  BY <1>5, StoreFacts DEF made
<1>7. ASSUME NEW i \in 0..npages-1, NEW j \in 0..nlines-1
      PROVE  /\ Page(i) + w[j] \in DOMAIN made
             /\ made[Page(i) + w[j]] = IF j < nlines - 1 THEN Page(i) + w[j + 1]
                                       ELSE Page(NextPage(i)) + w[0]
  <2> DEFINE s == <<i, j, 0>>
  <2>1. s \in C /\ s[1] = i /\ s[2] = j
    BY <1>4
  <2> HIDE DEF s
  <2>2. s \in DOMAIN writes /\ writes[s][1] = Page(i) + w[j]
        /\ writes[s][2] = IF j < nlines - 1 THEN Page(i) + w[j + 1] ELSE Page(NextPage(i)) + w[0]
    BY <1>2, <2>1
  <2> QED
    BY <1>6, <2>2
<1> QED
  BY <1>7 DEF LineLinks, w, made, writes

\* made is m but for the n-th line of each page.
LineMoved(made, m, n, to) ==
  /\ DOMAIN m \subseteq DOMAIN made
  /\ \A i \in 0..npages-1 : made[Page(i) + Lines[n - 1]] = to[i]
  /\ \A i \in 0..npages-1, j \in 0..nlines-1 :
       j # n - 1 => made[Page(i) + Lines[j]] = m[Page(i) + Lines[j]]

\* Writing to one line of every page.
LEMMA OneLineOfEach ==
  ASSUME Shape, NEW m, NEW n \in 1..nlines-1, NEW to,
         \A i \in 0..npages-1, j \in 0..nlines-1 : Page(i) + Lines[j] \in DOMAIN m,
         NEW writes, writes = [s \in Loop(npages, 1, 1) |-> <<Page(s[1]) + Lines[n - 1], to[s[1]]>>]
  PROVE  LineMoved(Store(m, writes), m, n, to)
<1> DEFINE C == Loop(npages, 1, 1)
           w == Lines
           made == Store(m, writes)
<1>1. n - 1 \in 0..nlines-1
  BY Sizes
<1>2. writes = [s \in C |-> <<Page(s[1]) + w[n - 1], to[s[1]]>>]
  OBVIOUS
<1>3. \A s \in C : s[1] \in 0..npages-1 /\ s = <<s[1], 0, 0>>
  BY OneCounter
<1>4. \A i \in 0..npages-1 : <<i, 0, 0>> \in C /\ <<i, 0, 0>>[1] = i
  BY OneCounter
<1> HIDE DEF C, made, w
<1>5. Once(writes)
  <2> SUFFICES ASSUME NEW s \in DOMAIN writes, NEW u \in DOMAIN writes, writes[s][1] = writes[u][1]
               PROVE  s = u
    BY DEF Once
  <2> DEFINE i == s[1]
             k == u[1]
  <2>1. i \in 0..npages-1 /\ k \in 0..npages-1 /\ Page(i) + w[n - 1] = Page(k) + w[n - 1]
    BY <1>2, <1>3
  <2> HIDE DEF i, k
  <2>2. i = k
    BY <1>1, <2>1, FirstWords DEF w
  <2> QED
    BY <1>2, <1>3, <2>2 DEF i, k
<1>w. Wrote(made, m, writes)
  BY <1>5, StoreWrites DEF made
<1>6. /\ DOMAIN made = DOMAIN m \union {writes[s][1] : s \in DOMAIN writes}
      /\ \A s \in DOMAIN writes : made[writes[s][1]] = writes[s][2]
      /\ \A a \in DOMAIN m : (\A s \in DOMAIN writes : writes[s][1] # a) => made[a] = m[a]
  BY <1>w DEF Wrote
<1>7. ASSUME NEW i \in 0..npages-1
      PROVE  made[Page(i) + w[n - 1]] = to[i]
  <2> DEFINE s == <<i, 0, 0>>
  <2>1. s \in C /\ s[1] = i
    BY <1>4
  <2> HIDE DEF s
  <2>2. s \in DOMAIN writes /\ writes[s][1] = Page(i) + w[n - 1] /\ writes[s][2] = to[i]
    BY <1>2, <2>1
  <2> QED
    BY <1>6, <2>2
<1>8. ASSUME NEW i \in 0..npages-1, NEW j \in 0..nlines-1, j # n - 1
      PROVE  made[Page(i) + w[j]] = m[Page(i) + w[j]]
  <2> DEFINE a == Page(i) + w[j]
  <2>1. a \in DOMAIN m
    BY DEF w
  <2>2. ASSUME NEW s \in DOMAIN writes, writes[s][1] = a
        PROVE  FALSE
    <3> DEFINE k == s[1]
    <3>1. k \in 0..npages-1 /\ Page(k) + w[n - 1] = Page(i) + w[j]
      BY <1>2, <1>3, <2>2
    <3> HIDE DEF k
    <3> QED
      BY <1>1, <1>8, <3>1, FirstWords DEF w
  <2> HIDE DEF a
  <2>3. made[a] = m[a]
    BY <1>6, <2>1, <2>2
  <2> QED
    BY <2>3 DEF a
<1> QED
  BY <1>6, <1>7, <1>8 DEF LineMoved, made, w

\* line_test() cuts the walk to n lines of each page.
LEMMA LineCut ==
  ASSUME Shape, NEW m, NEW n \in 1..nlines-1, LineLinks(m, nlines)
  PROVE  LineLinks(Store(m, CutLines(n)), n)
<1> DEFINE made == Store(m, CutLines(n))
           to == [i \in 0..npages-1 |-> Page(NextPage(i)) + Lines[0]]
           writes == CutLines(n)
<1>1. writes = [s \in Loop(npages, 1, 1) |-> <<Page(s[1]) + Lines[n - 1], to[s[1]]>>]
  <2>1. \A s \in Loop(npages, 1, 1) : to[s[1]] = Page(NextPage(s[1])) + Lines[0]
    BY OneCounter
  <2> HIDE DEF to
  <2>2. writes = [s \in Loop(npages, 1, 1) |-> <<Page(s[1]) + Lines[n - 1], Page(NextPage(s[1])) + Lines[0]>>]
    BY DEF CutLines, NextPage
  <2> HIDE DEF writes
  <2> QED
    BY <2>1, <2>2
<1>2. \A i \in 0..npages-1, j \in 0..nlines-1 : Page(i) + Lines[j] \in DOMAIN m
  BY DEF LineLinks
<1>t. \A i \in 0..npages-1 : to[i] = Page(NextPage(i)) + Lines[0]
  OBVIOUS
<1> HIDE DEF writes, to
<1>3. LineMoved(Store(m, writes), m, n, to)
  BY <1>1, <1>2, OneLineOfEach
<1>4. /\ DOMAIN m \subseteq DOMAIN made
      /\ \A i \in 0..npages-1 : made[Page(i) + Lines[n - 1]] = to[i]
      /\ \A i \in 0..npages-1, j \in 0..nlines-1 :
           j # n - 1 => made[Page(i) + Lines[j]] = m[Page(i) + Lines[j]]
  BY <1>3 DEF writes, LineMoved
<1> HIDE DEF made
<1>5. \A j \in 0..nlines-1 : j < nlines - 1 => j # nlines - 1
  BY Sizes
<1>6. LineLinks(made, n)
  BY <1>2, <1>4, <1>5, <1>t DEF LineLinks
<1> QED
  BY <1>6 DEF made

\* fixup_path() sets back the only pointers that line_test() has changed.
LEMMA LineMend ==
  ASSUME Shape, NEW m, NEW n \in 1..nlines-1, LineLinks(m, n)
  PROVE  LineLinks(Store(m, MendLines(n)), nlines)
<1> DEFINE made == Store(m, MendLines(n))
           to == [i \in 0..npages-1 |-> Page(i) + Lines[n]]
           writes == MendLines(n)
<1>1. writes = [s \in Loop(npages, 1, 1) |-> <<Page(s[1]) + Lines[n - 1], to[s[1]]>>]
  <2>1. \A s \in Loop(npages, 1, 1) : to[s[1]] = Page(s[1]) + Lines[n]
    BY OneCounter
  <2> HIDE DEF to
  <2>2. writes = [s \in Loop(npages, 1, 1) |-> <<Page(s[1]) + Lines[n - 1], Page(s[1]) + Lines[n]>>]
    BY DEF MendLines
  <2> HIDE DEF writes
  <2> QED
    BY <2>1, <2>2
<1>2. \A i \in 0..npages-1, j \in 0..nlines-1 : Page(i) + Lines[j] \in DOMAIN m
  BY DEF LineLinks
<1>t. \A i \in 0..npages-1 : to[i] = Page(i) + Lines[n]
  OBVIOUS
<1> HIDE DEF writes, to
<1>3. LineMoved(Store(m, writes), m, n, to)
  BY <1>1, <1>2, OneLineOfEach
<1>4. /\ DOMAIN m \subseteq DOMAIN made
      /\ \A i \in 0..npages-1 : made[Page(i) + Lines[n - 1]] = to[i]
      /\ \A i \in 0..npages-1, j \in 0..nlines-1 :
           j # n - 1 => made[Page(i) + Lines[j]] = m[Page(i) + Lines[j]]
  BY <1>3 DEF writes, LineMoved
<1> HIDE DEF made
<1>5. /\ \A j \in 0..nlines-1 : j < nlines - 1 => j # nlines - 1
      /\ (n - 1) + 1 = n /\ n - 1 # nlines - 1
  BY Sizes
<1>6. \A i \in 0..npages-1, j \in 0..nlines-1 :
        j < nlines - 1 => made[Page(i) + Lines[j]] = Page(i) + Lines[j + 1]
  BY <1>4, <1>5, <1>t DEF LineLinks
<1>7. \A i \in 0..npages-1, j \in 0..nlines-1 :
        j = nlines - 1 => made[Page(i) + Lines[j]] = Page(NextPage(i)) + Lines[0]
  BY <1>4, <1>5 DEF LineLinks
<1>8. LineLinks(made, nlines)
  BY <1>2, <1>4, <1>6, <1>7 DEF LineLinks
<1> QED
  BY <1>8 DEF made

----------------------------------------------------------------------------
(* Lines of another length                                                 *)

\* Powers of a sum.
LEMMA Pow2Sum ==
  ASSUME NEW a \in Nat, NEW b \in Nat
  PROVE  Pow2[a + b] = Pow2[a] * Pow2[b]
<1>1. CASE b = 0
  <2>1. Pow2[0] = 1 /\ a + 0 = a /\ Pow2[a] \in Nat
    BY Pow2Facts
  <2> QED
    BY <1>1, <2>1
<1>2. CASE b # 0
  <2>1. a < a + b /\ a + b \in Nat /\ (a + b) - a = b
    BY <1>2
  <2> QED
    BY <2>1, Pow2Grows
<1> QED
  BY <1>1, <1>2

\* The exponents of powers in order are in order.
LEMMA Pow2Order ==
  ASSUME NEW a \in Nat, NEW b \in Nat, Pow2[a] <= Pow2[b]
  PROVE  a <= b
<1>1. ~(b < a)
  <2>1. Pow2[a] \in Nat /\ Pow2[b] \in Nat
    BY Pow2Facts
  <2> QED
    BY <2>1, Pow2Grows
<1> QED
  BY <1>1

\* A product divided by a factor.
LEMMA DivFactor ==
  ASSUME NEW x \in Nat \ {0}, NEW y \in Nat
  PROVE  (x * y) \div x = y
<1>1. x * y + 0 = x * y /\ 0 \in 0..x-1
  OBVIOUS
<1>2. (x * y + 0) \div x = y
  BY <1>1, DivModOf
<1> QED
  BY <1>1, <1>2

\* The first lines of a page, as many as it has lines of a longer length, begin
\* one longer line each.
LEMMA LinePrefix ==
  ASSUME Shape, NEW l \in LineSizes, l >= line, NEW n, n = PageSize \div l
  PROVE  /\ n \in 1..nlines /\ PageSize \div n = l /\ l \in Nat
         /\ \A j \in 0..n-1 : \E q \in 0..n-1 : Lines[j] = q * l
         /\ \A q \in 0..n-1 : \E j \in 0..n-1 : Lines[j] = q * l
<1>1. /\ PageSize \in Nat \ {0} /\ line \in Nat \ {0} /\ nlines \in Nat \ {0}
      /\ PageSize = line * nlines
  BY Sizes
<1>2. PICK p \in Nat : PageSize = Pow2[p]
  BY Sizes
<1>3. PICK c \in Nat : line = Pow2[c]
  BY Sizes
<1>4. PICK b \in Nat : nlines = Pow2[b]
  BY Sizes
<1>5. IsPowerOfTwo(l) /\ l <= PageSize
  BY DEF WalksAssumption
<1>6. PICK d \in Nat : l = Pow2[d]
  BY <1>5 DEF IsPowerOfTwo
<1>7. l \in Nat \ {0}
  BY <1>6, Pow2Facts
<1>8. c <= d /\ d <= p
  BY <1>2, <1>3, <1>5, <1>6, Pow2Order
<1> DEFINE a == p - d
           e == d - c
<1>9. a \in Nat /\ e \in Nat /\ d + a = p /\ c + e = d
  BY <1>8
<1> HIDE DEF a, e
<1>10. PageSize = l * Pow2[a] /\ l = line * Pow2[e]
  BY <1>2, <1>3, <1>6, <1>9, Pow2Sum
<1>11. Pow2[a] \in Nat \ {0} /\ Pow2[e] \in Nat \ {0}
  <2>1. Pow2[a] \in Nat /\ Pow2[a] > 0
    BY <1>9, Pow2Facts
  <2>2. Pow2[e] \in Nat /\ Pow2[e] > 0
    BY <1>9, Pow2Facts
  <2> QED
    BY <2>1, <2>2
<1> DEFINE A == Pow2[a]
           E == Pow2[e]
<1>12. n = A
  <2>1. A \in Nat /\ PageSize = l * A
    BY <1>10, <1>11
  <2> HIDE DEF A
  <2> QED
    BY <1>7, <2>1, DivFactor
<1>13. n \in Nat \ {0} /\ E \in Nat \ {0} /\ PageSize = l * n /\ l = line * E
  BY <1>10, <1>11, <1>12
<1> HIDE DEF A, E
<1>14. PageSize \div n = l
  <2>1. PageSize = n * l
    BY <1>7, <1>13
  <2> QED
    BY <1>7, <1>13, <2>1, DivFactor
<1>15. nlines = E * n
  <2>1. line * nlines = line * (E * n)
    <3>1. (line * E) * n = line * (E * n)
      BY <1>1, <1>13
    <3> QED
      BY <1>1, <1>13, <3>1
  <2>2. E * n \in Nat
    BY <1>13
  <2> DEFINE x == E * n
  <2> HIDE DEF x
  <2>3. nlines = x
    <3>1. line * nlines = line * x /\ x \in Nat
      BY <2>1, <2>2 DEF x
    <3> QED
      BY <1>1, <3>1
  <2> QED
    BY <2>3 DEF x
<1>16. n \in 1..nlines
  <2>1. E \in Nat \ {0} /\ n \in Nat \ {0}
    BY <1>13
  <2>2. 1 * n <= E * n /\ E * n \in Nat
    BY <2>1
  <2>3. n <= nlines
    BY <1>15, <2>1, <2>2
  <2> QED
    BY <1>1, <2>1, <2>3
<1>17. b = e + a
  <2>1. Pow2[b] = Pow2[e + a]
    BY <1>4, <1>9, <1>12, <1>15, Pow2Sum DEF A, E
  <2>2. e + a \in Nat
    BY <1>9
  <2>3. Pow2[b] \in Nat /\ b <= e + a /\ e + a <= b
    <3>1. Pow2[b] \in Nat /\ Pow2[e + a] \in Nat
      BY <2>2, Pow2Facts
    <3>2. Pow2[b] <= Pow2[e + a] /\ Pow2[e + a] <= Pow2[b]
      BY <2>1, <3>1
    <3> DEFINE x == e + a
    <3> HIDE DEF x
    <3>3. x \in Nat /\ Pow2[b] <= Pow2[x] /\ Pow2[x] <= Pow2[b]
      BY <2>2, <3>2 DEF x
    <3>4. b <= x /\ x <= b
      BY <3>3, Pow2Order
    <3> QED
      BY <3>1, <3>4 DEF x
  <2> QED
    BY <2>2, <2>3
<1>18. a \in 0..b /\ b - a = e
  BY <1>9, <1>17
<1>19. \A i \in 0..nlines-1 : Lines[i] = line * Reversed(i, b)
  BY <1>4, BitsOfPower DEF Lines, words_initialize
<1>20. \A i \in 0..nlines-1 : Reversed(i, b) \in 0..nlines-1 /\ Reversed(Reversed(i, b), b) = i
  <2> TAKE i \in 0..nlines-1
  <2>1. i \in Nat /\ i \in 0..Pow2[b]-1
    BY <1>1, <1>4
  <2> QED
    BY <1>4, <2>1, ReversedFacts, ReversedTwice
<1>21. \A i \in 0..nlines-1 : i < n <=> \E q \in Nat : Reversed(i, b) = E * q
  <2> TAKE i \in 0..nlines-1
  <2>1. i \in 0..Pow2[b]-1
    BY <1>4
  <2>2. i < Pow2[a] <=> \E q \in Nat : Reversed(i, b) = Pow2[b - a] * q
    BY <1>18, <2>1, ReversedPrefix
  <2> QED
    BY <1>12, <1>18, <2>2 DEF A, E
<1>22. ASSUME NEW q \in Nat PROVE line * (E * q) = q * l
  <2>1. (line * E) * q = line * (E * q)
    BY <1>1, <1>13
  <2> QED
    BY <1>13, <2>1
<1>23. ASSUME NEW j \in 0..n-1
       PROVE  \E q \in 0..n-1 : Lines[j] = q * l
  <2>1. j \in 0..nlines-1 /\ j < n
    BY <1>1, <1>16
  <2>2. PICK q \in Nat : Reversed(j, b) = E * q
    BY <1>21, <2>1
  <2>3. Lines[j] = q * l
    BY <1>19, <1>22, <2>1, <2>2
  <2>4. E * q < E * n
    <3>1. Reversed(j, b) \in 0..nlines-1
      BY <1>20, <2>1
    <3> QED
      BY <1>1, <1>15, <2>2, <3>1
  <2>5. q < n
    <3>1. ASSUME n <= q PROVE FALSE
      <4>1. E * n <= E * q
        BY <1>13, <3>1
      <4>2. E * n \in Nat /\ E * q \in Nat
        BY <1>13
      <4> QED
        BY <2>4, <4>1, <4>2
    <3> QED
      BY <1>13, <3>1
  <2>6. q \in 0..n-1
    BY <1>13, <2>5
  <2> QED
    BY <2>3, <2>6
<1>24. ASSUME NEW q \in 0..n-1
       PROVE  \E j \in 0..n-1 : Lines[j] = q * l
  <2> DEFINE x == E * q
             j == Reversed(x, b)
  <2>1. q \in Nat /\ q + 1 <= n
    BY <1>13
  <2>2. x \in 0..nlines-1
    <3>0. E \in Nat \ {0} /\ n \in Nat
      BY <1>13
    <3>1. E * (q + 1) <= E * n /\ E * (q + 1) = E * q + E /\ E * q \in Nat
      BY <2>1, <3>0
    <3> QED
      BY <1>1, <1>13, <1>15, <3>1
  <2>3. j \in 0..nlines-1 /\ Reversed(j, b) = x
    <3> HIDE DEF x
    <3> QED
      BY <1>20, <2>2
  <2> HIDE DEF j
  <2>4. j < n
    BY <1>21, <2>1, <2>3
  <2>5. j \in 0..n-1
    BY <1>1, <1>13, <2>3, <2>4
  <2>6. Lines[j] = q * l
    BY <1>19, <1>22, <2>1, <2>3
  <2> QED
    BY <2>5, <2>6
<1> QED
  BY <1>7, <1>14, <1>16, <1>23, <1>24

\* Multiples on pages.
LEMMA OnPagesMultiples ==
  ASSUME NEW n \in Nat, NEW step, PageSize \div step = n
  PROVE  \A a : a \in OnPages(npages, Multiples(PageSize, step)) <=>
                \E i \in 0..npages-1, q \in 0..n-1 : a = Page(i) + q * step
<1> DEFINE M == Multiples(PageSize, step)
<1>1. M = {q * step : q \in 0..n-1}
  BY DEF Multiples
<1>2. \A o : o \in M <=> \E q \in 0..n-1 : o = q * step
  BY <1>1
<1> HIDE DEF M
<1>3. \A a : a \in OnPages(npages, M) <=> \E i \in 0..npages-1, o \in M : a = Page(i) + o
  BY DEF OnPages
<1>4. \A a : a \in OnPages(npages, M) <=> \E i \in 0..npages-1, q \in 0..n-1 : a = Page(i) + q * step
  BY <1>2, <1>3
<1> QED
  BY <1>4 DEF M

\* The walk of line_initialize().
LEMMA LineLaidWalks ==
  ASSUME Shape, layout = "line", phase = "laid", LineLinks(mem, nlines), start = Page(0)
  PROVE  WalksThroughAll
<1>1. nlines \in 1..nlines /\ nlines \in Nat /\ line \in Nat /\ PageSize \div line = nlines
  BY Sizes DEF Shape
<1>2. InOrder(Lines, nlines, line)
  BY LineWords
<1> DEFINE w == Lines
<1> HIDE DEF w
<1>3. /\ \A j \in 0..nlines-1 : \E q \in 0..nlines-1 : w[j] = line * q
      /\ \A q \in 0..nlines-1 : \E j \in 0..nlines-1 : w[j] = line * q
  BY <1>2 DEF InOrder, w
<1>4. \A q \in 0..nlines-1 : line * q = q * line
  BY <1>1
<1>5. /\ \A j \in 0..nlines-1 : \E q \in 0..nlines-1 : Lines[j] = q * line
      /\ \A q \in 0..nlines-1 : \E j \in 0..nlines-1 : Lines[j] = q * line
  BY <1>3, <1>4 DEF w
<1> DEFINE P == Promised
           n == nlines
<1>6. P = OnPages(npages, Multiples(PageSize, line))
  BY DEF Promised
<1> HIDE DEF P, n
<1>7. n \in Nat /\ PageSize \div line = n
  BY <1>1 DEF n
<1>8. \A a : a \in P <=> \E i \in 0..npages-1, q \in 0..n-1 : a = Page(i) + q * line
  BY <1>6, <1>7, OnPagesMultiples
<1> QED
  BY <1>1, <1>5, <1>8, LineWalks DEF P, n

\* The walk that line_test() has cut.
LEMMA LineCutWalks ==
  ASSUME Shape, layout = "line", phase = "cut", start = Page(0),
         NEW l \in LineSizes, l >= line, cut[1] = PageSize \div l, LineLinks(mem, cut[1])
  PROVE  WalksThroughAll
<1> DEFINE n == cut[1]
           P == Promised
<1>1. n = PageSize \div l
  OBVIOUS
<1>2. P = OnPages(npages, Multiples(PageSize, PageSize \div n))
  BY DEF Promised
<1>3. LineLinks(mem, n)
  OBVIOUS
<1> HIDE DEF n, P
<1>4. /\ n \in 1..nlines /\ PageSize \div n = l /\ l \in Nat
      /\ \A j \in 0..n-1 : \E q \in 0..n-1 : Lines[j] = q * l
      /\ \A q \in 0..n-1 : \E j \in 0..n-1 : Lines[j] = q * l
  BY <1>1, LinePrefix
<1>5. n \in Nat /\ PageSize \div l = n
  BY <1>1, <1>4, Sizes
<1>6. P = OnPages(npages, Multiples(PageSize, l))
  BY <1>2, <1>4
<1>7. \A a : a \in P <=> \E i \in 0..npages-1, q \in 0..n-1 : a = Page(i) + q * l
  BY <1>5, <1>6, OnPagesMultiples
<1> QED
  BY <1>3, <1>4, <1>7, LineWalks DEF P

----------------------------------------------------------------------------
(* Laps: a walk that goes through lines, another word of each in every lap *)

Base(d) == Page(d[1]) + Lines[d[2]]

\* D are R lines; each leads to the next, word by word, and the last to the
\* first, from each word to the next of Words.
Laps(m, D, pos, R) ==
  /\ D \subseteq (0..npages-1) \X (0..nlines-1)
  /\ \A d \in D : pos[d] \in 0..R-1
  /\ \A d, e \in D : pos[d] = pos[e] => d = e
  /\ \E d \in D : pos[d] = 0
  /\ \A d \in D : pos[d] # R - 1 =>
       \E e \in D : pos[e] = pos[d] + 1 /\ \A o \in 0..line-1 : m[Base(d) + o] = Base(e) + o
  /\ \A d \in D : pos[d] = R - 1 =>
       \E e \in D : pos[e] = 0 /\ \A k \in 0..line-1 : m[Base(d) + Words[k]] = Base(e) + Words[(k + 1) % line]

LapWord(D) == [s \in D \X (0..line-1) |-> Base(s[1]) + Words[s[2]]]
LapRank(D, pos, R) == [s \in D \X (0..line-1) |-> R * s[2] + pos[s[1]]]

\* No two lines share a word.
LEMMA Bases ==
  ASSUME Shape, NEW D, D \subseteq (0..npages-1) \X (0..nlines-1), NEW d \in D, NEW e \in D,
         NEW o \in 0..line-1, NEW u \in 0..line-1, Base(d) + o = Base(e) + u
  PROVE  d = e /\ o = u
<1> DEFINE i == d[1]
           j == d[2]
           k == e[1]
           x == e[2]
           v == Lines[j] + o
           w == Lines[x] + u
<1>1. i \in 0..npages-1 /\ j \in 0..nlines-1 /\ k \in 0..npages-1 /\ x \in 0..nlines-1
      /\ d = <<i, j>> /\ e = <<k, x>>
  OBVIOUS
<1>2. Base(d) = Page(i) + Lines[j] /\ Base(e) = Page(k) + Lines[x]
  BY DEF Base
<1> HIDE DEF i, j, k, x
<1>3. /\ Lines[j] \in Nat /\ Lines[x] \in Nat
      /\ v \in 0..PageSize-1 /\ w \in 0..PageSize-1
      /\ Lines[j] + o = Lines[x] + u => j = x /\ o = u
  BY <1>1, LineWords
<1>4. Page(i) \in Nat /\ Page(k) \in Nat
  <2>1. 0 \in 0..PageSize-1
    BY Sizes, SMTT(60)
  <2> QED
    BY <1>1, <2>1, PageWords
<1>5. Page(i) + v = Page(k) + w
  BY <1>2, <1>3, <1>4, SMTT(60)
<1> HIDE DEF v, w
<1>6. i = k /\ v = w
  BY <1>1, <1>3, <1>5, PageWords
<1> QED
  BY <1>1, <1>3, <1>6 DEF v, w

\* Laps are a round.
LEMMA LapsRanked ==
  ASSUME Shape, NEW m, NEW D, NEW pos, NEW R \in Nat \ {0}, Laps(m, D, pos, R)
  PROVE  Ranked(m, D \X (0..line-1), LapRank(D, pos, R), LapWord(D), R * line)
<1> DEFINE C == D \X (0..line-1)
           K == line
           N == R * line
           rank == LapRank(D, pos, R)
           word == LapWord(D)
           w == Words
<1>1. K \in Nat \ {0} /\ N = R * K /\ N \in Nat \ {0}
  <2>1. line \in Nat \ {0}
    BY Sizes
  <2> QED
    BY <2>1
<1>2. /\ w[0] = 0 /\ \A k \in 0..K-1 : w[k] \in 0..K-1
      /\ \A k, x \in 0..K-1 : w[k] = w[x] => k = x
  <2>1. InOrder(Words, line, 1) /\ \A k \in 0..line-1 : Words[k] \in 0..line-1
    BY LineWords
  <2> QED
    BY <2>1 DEF InOrder
<1>3. \A s \in C : /\ s[1] \in D /\ s[2] \in 0..K-1 /\ s = <<s[1], s[2]>>
                   /\ word[s] = Base(s[1]) + w[s[2]] /\ rank[s] = R * s[2] + pos[s[1]]
  BY DEF LapWord, LapRank
<1>4. ASSUME NEW d \in D, NEW k \in 0..K-1
      PROVE  /\ <<d, k>> \in C
             /\ word[<<d, k>>] = Base(d) + w[k] /\ rank[<<d, k>>] = R * k + pos[d]
  <2> DEFINE s == <<d, k>>
  <2>1. s \in C /\ s[1] = d /\ s[2] = k
    OBVIOUS
  <2> HIDE DEF s, C, word, rank, w
  <2>2. word[s] = Base(d) + w[k] /\ rank[s] = R * k + pos[d]
    BY <1>3, <2>1
  <2> QED
    BY <2>1, <2>2 DEF s
<1>5. /\ \A d \in D : pos[d] \in 0..R-1
      /\ \A d, e \in D : pos[d] = pos[e] => d = e
      /\ \E d \in D : pos[d] = 0
      /\ \A d \in D : pos[d] # R - 1 =>
           \E e \in D : pos[e] = pos[d] + 1 /\ \A o \in 0..K-1 : m[Base(d) + o] = Base(e) + o
      /\ \A d \in D : pos[d] = R - 1 =>
           \E e \in D : pos[e] = 0 /\ \A k \in 0..K-1 : m[Base(d) + w[k]] = Base(e) + w[(k + 1) % K]
  BY DEF Laps
<1>6. D \subseteq (0..npages-1) \X (0..nlines-1)
  BY DEF Laps
<1>d. \A d, e \in D : \A o, u \in 0..K-1 : Base(d) + o = Base(e) + u => d = e /\ o = u
  BY <1>6, Bases
<1> HIDE DEF C, K, N, rank, word, w
<1>7. \A s \in C : rank[s] \in 0..N-1
  <2> TAKE s \in C
  <2> DEFINE k == s[2]
             p == pos[s[1]]
  <2>1. k \in 0..K-1 /\ p \in 0..R-1 /\ rank[s] = R * k + p
    BY <1>3, <1>5
  <2> HIDE DEF k, p
  <2>2. R * k + p \in 0..R*K-1
    BY <1>1, <2>1, DigitsBelow
  <2> QED
    BY <1>1, <2>1, <2>2
<1>8. \A s, u \in C : rank[s] = rank[u] => s = u
  <2> TAKE s, u \in C
  <2> HAVE rank[s] = rank[u]
  <2> DEFINE k == s[2]
             p == pos[s[1]]
             x == u[2]
             q == pos[u[1]]
  <2>1. k \in Nat /\ p \in 0..R-1 /\ x \in Nat /\ q \in 0..R-1 /\ R * k + p = R * x + q
    BY <1>3, <1>5
  <2> HIDE DEF k, p, x, q
  <2>2. k = x /\ p = q
    BY <2>1, Digits
  <2>3. s[2] = u[2] /\ s[1] = u[1]
    BY <1>3, <1>5, <2>2 DEF k, p, x, q
  <2> QED
    BY <1>3, <2>3
<1>9. \A s, u \in C : word[s] = word[u] => s = u
  <2> TAKE s, u \in C
  <2> HAVE word[s] = word[u]
  <2>1. Base(s[1]) + w[s[2]] = Base(u[1]) + w[u[2]] /\ s[1] \in D /\ u[1] \in D
        /\ s[2] \in 0..K-1 /\ u[2] \in 0..K-1
    BY <1>3
  <2>2. s[1] = u[1] /\ w[s[2]] = w[u[2]]
    BY <1>2, <1>d, <2>1
  <2>3. s[1] = u[1] /\ s[2] = u[2]
    BY <1>2, <2>1, <2>2
  <2> QED
    BY <1>3, <2>3
<1>10. \E s \in C : rank[s] = 0
  <2>1. PICK d \in D : pos[d] = 0
    BY <1>5
  <2>2. 0 \in 0..K-1 /\ R * 0 + 0 = 0
    BY <1>1
  <2>3. <<d, 0>> \in C /\ rank[<<d, 0>>] = R * 0 + 0
    BY <1>4, <2>1, <2>2
  <2> QED
    BY <2>2, <2>3
<1>11. ASSUME NEW s \in C
       PROVE  \E u \in C : rank[u] = Succ(rank[s], N) /\ m[word[s]] = word[u]
  <2> DEFINE d == s[1]
             k == s[2]
             p == pos[d]
  <2>1. d \in D /\ k \in 0..K-1 /\ rank[s] = R * k + p /\ word[s] = Base(d) + w[k] /\ p \in 0..R-1
    BY <1>3, <1>5
  <2>d. p = pos[d]
    OBVIOUS
  <2> HIDE DEF d, k, p
  <2>2. R * k \in Nat /\ R * (k + 1) = R * k + R /\ R * (k + 1) <= R * K
    BY <1>1, <2>1
  <2>3. CASE p # R - 1
    <3>1. PICK e \in D : pos[e] = p + 1 /\ \A o \in 0..K-1 : m[Base(d) + o] = Base(e) + o
      BY <1>5, <2>1, <2>3, <2>d
    <3> DEFINE u == <<e, k>>
    <3>2. u \in C /\ rank[u] = R * k + (p + 1) /\ word[u] = Base(e) + w[k]
      BY <1>4, <2>1, <3>1
    <3> HIDE DEF u
    <3>3. rank[u] = Succ(rank[s], N)
      <4>1. rank[s] + 1 = rank[u] /\ rank[u] # N
        BY <1>1, <2>1, <2>2, <2>3, <3>2
      <4> QED
        BY <4>1 DEF Succ
    <3>4. m[word[s]] = word[u]
      BY <1>2, <2>1, <3>1, <3>2
    <3> QED
      BY <3>2, <3>3, <3>4
  <2>4. CASE p = R - 1
    <3>1. PICK e \in D : pos[e] = 0 /\ \A x \in 0..K-1 : m[Base(d) + w[x]] = Base(e) + w[(x + 1) % K]
      BY <1>5, <2>1, <2>4, <2>d
    <3> DEFINE y == (k + 1) % K
               u == <<e, y>>
    <3>2. y \in 0..K-1 /\ y = IF k = K - 1 THEN 0 ELSE k + 1
      <4>1. CASE k = K - 1
        <5>1. k + 1 = K * 1 + 0 /\ 0 \in 0..K-1
          BY <1>1, <4>1
        <5>2. (K * 1 + 0) % K = 0
          BY <1>1, <5>1, DivModOf
        <5> QED
          BY <4>1, <5>1, <5>2
      <4>2. CASE k # K - 1
        <5>1. k + 1 = K * 0 + (k + 1) /\ k + 1 \in 0..K-1
          BY <1>1, <2>1, <4>2
        <5>2. (K * 0 + (k + 1)) % K = k + 1
          BY <1>1, <5>1, DivModOf
        <5> QED
          BY <4>2, <5>1, <5>2
      <4> QED
        BY <4>1, <4>2
    <3> HIDE DEF y
    <3>3. u \in C /\ rank[u] = R * y + 0 /\ word[u] = Base(e) + w[y]
      BY <1>4, <3>1, <3>2
    <3> HIDE DEF u
    <3>4. rank[u] = Succ(rank[s], N)
      <4>1. rank[s] + 1 = R * (k + 1)
        BY <1>1, <2>1, <2>2, <2>4
      <4>2. CASE k = K - 1
        <5>1. rank[s] + 1 = N /\ R * 0 + 0 = 0 /\ y = 0
          BY <1>1, <3>2, <4>1, <4>2
        <5>2. rank[u] = 0
          BY <3>3, <5>1
        <5> QED
          BY <5>1, <5>2 DEF Succ
      <4>3. CASE k # K - 1
        <5>k. k \in Nat /\ k + 2 <= K
          BY <1>1, <2>1, <4>3
        <5>1. R * (k + 2) <= R * K /\ R * (k + 2) = R * (k + 1) + R /\ R * (k + 1) \in Nat
          <6>1. R \in Nat /\ K \in Nat
            BY <1>1
          <6> QED
            BY <5>k, <6>1
        <5>y. y = k + 1
          BY <3>2, <4>3
        <5>u. rank[u] = R * (k + 1) + 0
          BY <3>3, <5>y
        <5>2. y = k + 1 /\ rank[u] = R * (k + 1)
          BY <5>1, <5>y, <5>u
        <5>3. rank[s] + 1 # N
          BY <1>1, <4>1, <5>1
        <5> QED
          BY <4>1, <5>2, <5>3 DEF Succ
      <4> QED
        BY <4>2, <4>3
    <3>5. m[word[s]] = word[u]
      <4>1. m[Base(d) + w[k]] = Base(e) + w[(k + 1) % K]
        BY <2>1, <3>1
      <4>2. word[u] = Base(e) + w[(k + 1) % K]
        BY <3>3 DEF y
      <4> QED
        BY <2>1, <4>1, <4>2
    <3> QED
      BY <3>3, <3>4, <3>5
  <2> QED
    BY <2>3, <2>4
<1>12. Ranked(m, C, rank, word, N)
  BY <1>7, <1>8, <1>9, <1>10, <1>11 DEF Ranked
<1> QED
  BY <1>12 DEF C, N, rank, word

\* All words of the lines.
LEMMA LapsWalk ==
  ASSUME Shape, NEW D, NEW pos, NEW R \in Nat \ {0}, Laps(mem, D, pos, R),
         NEW d \in D, NEW k \in 0..line-1, start = Base(d) + Words[k],
         \A a : a \in Promised <=> \E e \in D, o \in 0..line-1 : a = Base(e) + o
  PROVE  WalksThroughAll
<1> DEFINE C == D \X (0..line-1)
           N == R * line
           rank == LapRank(D, pos, R)
           word == LapWord(D)
           w == Words
           P == Promised
           W == {word[s] : s \in C}
           c == <<d, k>>
<1>1. Ranked(mem, C, rank, word, N)
  BY LapsRanked
<1>2. N \in Nat \ {0}
  <2>1. line \in Nat \ {0}
    BY Sizes
  <2> QED
    BY <2>1
<1>3. InOrder(w, line, 1) /\ \A x \in 0..line-1 : w[x] \in 0..line-1
  BY LineWords
<1> HIDE DEF w
<1>4. \A o \in 0..line-1 : \E x \in 0..line-1 : w[x] = o
  <2> TAKE o \in 0..line-1
  <2>1. PICK x \in 0..line-1 : w[x] = 1 * o
    BY <1>3 DEF InOrder
  <2> QED
    BY <2>1
<1>5. \A s \in C : s[1] \in D /\ s[2] \in 0..line-1 /\ word[s] = Base(s[1]) + w[s[2]]
  BY DEF LapWord, w
<1>6. ASSUME NEW e \in D, NEW x \in 0..line-1
      PROVE  <<e, x>> \in C /\ word[<<e, x>>] = Base(e) + w[x]
  <2> DEFINE s == <<e, x>>
  <2>1. s \in C /\ s[1] = e /\ s[2] = x
    OBVIOUS
  <2> HIDE DEF s, C, word
  <2> QED
    BY <1>5, <2>1 DEF s
<1>7. c \in C /\ start = word[c]
  BY <1>6 DEF w
<1>8. \A a : a \in W <=> \E s \in C : a = word[s]
  OBVIOUS
<1> HIDE DEF C, word, P, W
<1>9. P = W
  <2>1. ASSUME NEW a \in P PROVE a \in W
    <3>1. PICK e \in D, o \in 0..line-1 : a = Base(e) + o
      BY DEF P
    <3>2. PICK x \in 0..line-1 : w[x] = o
      BY <1>4
    <3>3. <<e, x>> \in C /\ word[<<e, x>>] = a
      BY <1>6, <3>1, <3>2
    <3> QED
      BY <1>8, <3>3
  <2>2. ASSUME NEW a \in W PROVE a \in P
    <3>1. PICK s \in C : a = word[s]
      BY <1>8
    <3>2. s[1] \in D /\ w[s[2]] \in 0..line-1 /\ a = Base(s[1]) + w[s[2]]
      BY <1>3, <1>5, <3>1
    <3> QED
      BY <3>2 DEF P
  <2> QED
    BY <2>1, <2>2
<1> HIDE DEF c, N, rank
<1>10. Promised = {word[s] : s \in C}
  BY <1>9 DEF P, W
<1> QED
  BY <1>1, <1>2, <1>7, <1>10, RankedWalksThroughAll

----------------------------------------------------------------------------
(* mem_initialize and measure()                                            *)

\* The lines of np pages, but of the last of them n only.
MemPlaces(np, n) == {d \in (0..np-1) \X (0..nlines-1) : d[1] = np - 1 => d[2] < n}
MemPos(np, n) == [d \in MemPlaces(np, n) |-> nlines * d[1] + d[2]]

\* The words of a line lead to those of the next line of the page, those of
\* the last line to the next page, and those of the n-th line of page np to
\* the beginning, each to the next of Words.
MemRound(m, np, n) ==
  /\ \A i \in 0..np-1, j \in 0..nlines-1 :
       j < nlines - 1 /\ (i = np - 1 => j < n - 1) =>
         \A o \in 0..line-1 : m[Page(i) + Lines[j] + o] = Page(i) + Lines[j + 1] + o
  /\ \A i \in 0..np-1 :
       i < np - 1 => \A o \in 0..line-1 : m[Page(i) + Lines[nlines - 1] + o] = Page(i + 1) + Lines[0] + o
  /\ \A k \in 0..line-1 :
       m[Page(np - 1) + Lines[n - 1] + Words[k]] = Page(0) + Lines[0] + Words[(k + 1) % line]

\* The lines are in the order of the pages.
LEMMA MemLaps ==
  ASSUME Shape, NEW m, NEW np \in 1..npages, NEW n \in 1..nlines, MemRound(m, np, n)
  PROVE  Laps(m, MemPlaces(np, n), MemPos(np, n), (np - 1) * nlines + n)
<1> DEFINE D == MemPlaces(np, n)
           pos == MemPos(np, n)
           R == (np - 1) * nlines + n
           L == nlines
           w == Lines
<1>1. /\ np \in Nat \ {0} /\ n \in Nat \ {0} /\ n <= L /\ L \in Nat \ {0} /\ np <= npages
      /\ npages \in Nat
  BY Sizes
<1>2. R = L * (np - 1) + n /\ L * (np - 1) \in Nat /\ R \in Nat
  <2>1. np - 1 \in Nat /\ L \in Nat /\ n \in Nat
    BY <1>1
  <2> QED
    BY <2>1
<1>3. \A d \in D : /\ d[1] \in 0..np-1 /\ d[2] \in 0..L-1 /\ d = <<d[1], d[2]>>
                   /\ (d[1] = np - 1 => d[2] < n) /\ pos[d] = L * d[1] + d[2]
                   /\ Base(d) = Page(d[1]) + w[d[2]]
  BY DEF MemPlaces, MemPos, Base
<1>4. ASSUME NEW i \in 0..np-1, NEW j \in 0..L-1, i = np - 1 => j < n
      PROVE  /\ <<i, j>> \in D /\ pos[<<i, j>>] = L * i + j /\ Base(<<i, j>>) = Page(i) + w[j]
  <2> DEFINE d == <<i, j>>
  <2>1. d \in D /\ d[1] = i /\ d[2] = j
    BY <1>4 DEF MemPlaces
  <2> HIDE DEF d, D, pos, w
  <2>2. pos[d] = L * i + j /\ Base(d) = Page(i) + w[j]
    BY <1>3, <2>1
  <2> QED
    BY <2>1, <2>2 DEF d
<1>5. /\ \A i \in 0..np-1, j \in 0..L-1 :
           j < L - 1 /\ (i = np - 1 => j < n - 1) =>
             \A o \in 0..line-1 : m[Page(i) + w[j] + o] = Page(i) + w[j + 1] + o
      /\ \A i \in 0..np-1 :
           i < np - 1 => \A o \in 0..line-1 : m[Page(i) + w[L - 1] + o] = Page(i + 1) + w[0] + o
      /\ \A k \in 0..line-1 :
           m[Page(np - 1) + w[n - 1] + Words[k]] = Page(0) + w[0] + Words[(k + 1) % line]
  BY DEF MemRound
<1>6. D \subseteq (0..npages-1) \X (0..L-1)
  <2>1. \A i \in 0..np-1 : i \in 0..npages-1
    BY <1>1
  <2> QED
    BY <2>1 DEF MemPlaces
<1> HIDE DEF D, pos, R, w, L
<1>7. ASSUME NEW i \in 0..np-1, i # np - 1
      PROVE  L * i \in Nat /\ L * (i + 1) = L * i + L /\ L * (i + 1) <= L * (np - 1)
  <2>1. i \in Nat /\ i + 1 <= np - 1 /\ np - 1 \in Nat /\ L \in Nat
    BY <1>1, <1>7
  <2> QED
    BY <2>1
<1>8. ASSUME NEW d \in D
      PROVE  pos[d] \in 0..R-1 /\ (pos[d] = R - 1 <=> d[1] = np - 1 /\ d[2] = n - 1)
  <2> DEFINE i == d[1]
             j == d[2]
  <2>1. i \in 0..np-1 /\ j \in 0..L-1 /\ (i = np - 1 => j < n) /\ pos[d] = L * i + j
    BY <1>3
  <2> HIDE DEF i, j
  <2>2. CASE i = np - 1
    <3>1. pos[d] = L * (np - 1) + j /\ j < n /\ j \in Nat
      BY <2>1, <2>2
    <3> DEFINE x == L * (np - 1)
    <3>2. x \in Nat /\ R = x + n /\ pos[d] = x + j
      BY <1>2, <3>1
    <3> HIDE DEF x
    <3>3. pos[d] \in 0..R-1 /\ (pos[d] = R - 1 <=> j = n - 1)
      BY <1>1, <3>1, <3>2
    <3> QED
      BY <2>2, <3>3 DEF i, j
  <2>3. CASE i # np - 1
    <3> DEFINE x == L * (np - 1)
               y == L * i
    <3>1. x \in Nat /\ y \in Nat /\ y + L <= x /\ R = x + n /\ pos[d] = y + j
      BY <1>2, <1>7, <2>1, <2>3
    <3> HIDE DEF x, y
    <3>2. pos[d] \in 0..R-1 /\ pos[d] # R - 1
      BY <1>1, <2>1, <3>1
    <3> QED
      BY <2>3, <3>2 DEF i
  <2> QED
    BY <2>2, <2>3
<1>9. \A d, e \in D : pos[d] = pos[e] => d = e
  <2> TAKE d, e \in D
  <2> HAVE pos[d] = pos[e]
  <2> DEFINE i == d[1]
             j == d[2]
             k == e[1]
             x == e[2]
  <2>1. i \in Nat /\ k \in Nat /\ j \in 0..L-1 /\ x \in 0..L-1 /\ L * i + j = L * k + x
    BY <1>3
  <2> HIDE DEF i, j, k, x
  <2>2. i = k /\ j = x
    BY <1>1, <2>1, Digits
  <2> QED
    BY <1>3, <2>2 DEF i, j, k, x
<1>10. <<0, 0>> \in D /\ pos[<<0, 0>>] = 0 /\ Base(<<0, 0>>) = Page(0) + w[0]
  <2>1. 0 \in 0..np-1 /\ 0 \in 0..L-1 /\ (0 = np - 1 => 0 < n) /\ L * 0 + 0 = 0
    BY <1>1
  <2> QED
    BY <1>4, <2>1
<1>11. ASSUME NEW d \in D, pos[d] # R - 1
       PROVE  \E e \in D : pos[e] = pos[d] + 1 /\ \A o \in 0..line-1 : m[Base(d) + o] = Base(e) + o
  <2> DEFINE i == d[1]
             j == d[2]
  <2>1. i \in 0..np-1 /\ j \in 0..L-1 /\ (i = np - 1 => j < n) /\ pos[d] = L * i + j
        /\ Base(d) = Page(i) + w[j]
    BY <1>3
  <2>2. ~(i = np - 1 /\ j = n - 1)
    BY <1>8, <1>11
  <2> HIDE DEF i, j
  <2>3. CASE j < L - 1 /\ (i = np - 1 => j < n - 1)
    <3> DEFINE e == <<i, j + 1>>
    <3>1. j + 1 \in 0..L-1 /\ (i = np - 1 => j + 1 < n)
      BY <1>1, <2>1, <2>3
    <3>2. e \in D /\ pos[e] = L * i + (j + 1) /\ Base(e) = Page(i) + w[j + 1]
      BY <1>4, <2>1, <3>1
    <3> HIDE DEF e
    <3>3. pos[e] = pos[d] + 1
      <4>1. L * i \in Nat /\ j \in Nat
        BY <1>1, <2>1
      <4> QED
        BY <2>1, <3>2, <4>1
    <3>4. \A o \in 0..line-1 : m[Base(d) + o] = Base(e) + o
      BY <1>5, <2>1, <2>3, <3>2
    <3> QED
      BY <3>2, <3>3, <3>4
  <2>4. CASE j = L - 1 /\ i < np - 1
    <3> DEFINE e == <<i + 1, 0>>
    <3>1. i + 1 \in 0..np-1 /\ 0 \in 0..L-1 /\ (i + 1 = np - 1 => 0 < n)
      BY <1>1, <2>1, <2>4
    <3>2. e \in D /\ pos[e] = L * (i + 1) + 0 /\ Base(e) = Page(i + 1) + w[0]
      BY <1>4, <3>1
    <3> HIDE DEF e
    <3>3. pos[e] = pos[d] + 1
      <4>1. L * i \in Nat /\ L * (i + 1) = L * i + L
        BY <1>7, <2>1, <2>4
      <4> QED
        BY <1>1, <2>1, <2>4, <3>2, <4>1
    <3>4. \A o \in 0..line-1 : m[Base(d) + o] = Base(e) + o
      BY <1>5, <2>1, <2>4, <3>2
    <3> QED
      BY <3>2, <3>3, <3>4
  <2> QED
    BY <1>1, <2>1, <2>2, <2>3, <2>4
<1>12. ASSUME NEW d \in D, pos[d] = R - 1
       PROVE  \E e \in D : pos[e] = 0 /\ \A k \in 0..line-1 : m[Base(d) + Words[k]] = Base(e) + Words[(k + 1) % line]
  <2>1. d[1] = np - 1 /\ d[2] = n - 1
    BY <1>8, <1>12
  <2>2. Base(d) = Page(np - 1) + w[n - 1]
    BY <1>3, <2>1
  <2> QED
    BY <1>5, <1>10, <2>2
<1> QED
  BY <1>6, <1>8, <1>9, <1>10, <1>11, <1>12 DEF Laps, D, pos, R, L

\* What Promised says, line by line.
MemPromised(np, n) ==
  \A a : a \in Promised <=>
           \E i \in 0..np-1, j \in 0..nlines-1, o \in 0..line-1 :
             (i = np - 1 => j < n) /\ a = Page(i) + Lines[j] + o

\* The first n lines of page np and the pages before it.
LEMMA MemWalks ==
  ASSUME Shape, NEW np \in 1..npages, NEW n \in 1..nlines, MemRound(mem, np, n),
         start = Page(0), MemPromised(np, n)
  PROVE  WalksThroughAll
<1> DEFINE D == MemPlaces(np, n)
           pos == MemPos(np, n)
           R == (np - 1) * nlines + n
           d == <<0, 0>>
           P == Promised
<1>1. Laps(mem, D, pos, R)
  BY MemLaps
<1>2. /\ np \in Nat \ {0} /\ n \in Nat \ {0} /\ nlines \in Nat \ {0} /\ line \in Nat \ {0}
      /\ npages \in Nat \ {0} /\ PageSize \in Nat \ {0}
  BY Sizes
<1>3. R \in Nat \ {0}
  <2>1. np - 1 \in Nat /\ nlines \in Nat /\ n \in Nat \ {0}
    BY <1>2
  <2>2. (np - 1) * nlines \in Nat
    BY <2>1
  <2> QED
    BY <2>1, <2>2
<1>4. Lines[0] = 0 /\ Words[0] = 0
  <2>1. InOrder(Lines, nlines, line) /\ InOrder(Words, line, 1)
    BY LineWords
  <2> QED
    BY <2>1 DEF InOrder
<1>5. d \in D /\ 0 \in 0..line-1 /\ start = Base(d) + Words[0]
  <2>1. 0 \in 0..np-1 /\ 0 \in 0..nlines-1 /\ 0 < n /\ 0 \in 0..line-1
        /\ 0 \in 0..npages-1 /\ 0 \in 0..PageSize-1
    BY <1>2
  <2>2. d \in D /\ d[1] = 0 /\ d[2] = 0
    BY <2>1 DEF MemPlaces
  <2> HIDE DEF d
  <2>3. Page(0) \in Nat
    BY <2>1, PageWords
  <2> QED
    BY <1>4, <2>1, <2>2, <2>3 DEF Base
<1>6. \A a : a \in P <=> \E i \in 0..np-1, j \in 0..nlines-1, o \in 0..line-1 :
                          (i = np - 1 => j < n) /\ a = Page(i) + Lines[j] + o
  BY DEF MemPromised
<1> HIDE DEF P
<1>7. ASSUME NEW i \in 0..np-1, NEW j \in 0..nlines-1, i = np - 1 => j < n
      PROVE  <<i, j>> \in D /\ Base(<<i, j>>) = Page(i) + Lines[j]
  BY <1>7 DEF MemPlaces, Base
<1>8. \A e \in D : /\ e[1] \in 0..np-1 /\ e[2] \in 0..nlines-1 /\ (e[1] = np - 1 => e[2] < n)
                   /\ Base(e) = Page(e[1]) + Lines[e[2]]
  BY DEF MemPlaces, Base
<1> HIDE DEF D, pos, R, d
<1>9. \A a : a \in P <=> \E e \in D, o \in 0..line-1 : a = Base(e) + o
  <2>1. ASSUME NEW a \in P PROVE \E e \in D, o \in 0..line-1 : a = Base(e) + o
    <3>1. PICK i \in 0..np-1, j \in 0..nlines-1, o \in 0..line-1 :
                 (i = np - 1 => j < n) /\ a = Page(i) + Lines[j] + o
      BY <1>6
    <3>2. <<i, j>> \in D /\ Base(<<i, j>>) = Page(i) + Lines[j]
      BY <1>7, <3>1
    <3> QED
      BY <3>1, <3>2
  <2>2. ASSUME NEW e \in D, NEW o \in 0..line-1 PROVE Base(e) + o \in P
    BY <1>6, <1>8
  <2> QED
    BY <2>1, <2>2
<1> QED
  BY <1>1, <1>3, <1>5, <1>9, LapsWalk DEF P

\* How many lines mem_initialize() links on a page.
MemLines == IF len % PageSize = 0 THEN nlines ELSE len \div line

\* Whole pages.
LEMMA WholePages ==
  ASSUME Shape, len % PageSize = 0
  PROVE  len = PageSize * npages /\ len \div line = npages * nlines
<1>1. /\ PageSize \in Nat \ {0} /\ line \in Nat \ {0} /\ nlines \in Nat \ {0}
      /\ len \in Nat \ {0} /\ PageSize = line * nlines /\ npages \in Nat \ {0}
  BY Sizes
<1> DEFINE q == len \div PageSize
<1>2. q \in Nat /\ len = PageSize * q
  <2>1. q \in Nat /\ len = PageSize * q + (len % PageSize)
    BY <1>1, DivMod
  <2>2. PageSize * q \in Nat
    BY <1>1, <2>1
  <2> QED
    BY <2>1, <2>2
<1> HIDE DEF q
<1>3. npages = q
  <2>1. PageSize - 1 \in 0..PageSize-1 /\ PageSize * q \in Nat
    BY <1>1, <1>2
  <2>2. (PageSize * q + (PageSize - 1)) \div PageSize = q
    BY <1>1, <1>2, <2>1, DivModOf
  <2>3. len + PageSize - 1 = PageSize * q + (PageSize - 1)
    BY <1>1, <1>2, <2>1
  <2>4. npages = (len + PageSize - 1) \div PageSize
    BY DEF Shape, Ceil
  <2> QED
    BY <2>2, <2>3, <2>4
<1>4. len = line * (npages * nlines)
  <2>1. (line * nlines) * npages = line * (npages * nlines)
    BY <1>1
  <2> QED
    BY <1>1, <1>2, <1>3, <2>1
<1>5. npages * nlines \in Nat
  BY <1>1
<1> DEFINE x == npages * nlines
<1> HIDE DEF x
<1>6. (line * x) \div line = x
  BY <1>1, <1>5, DivFactor DEF x
<1> QED
  BY <1>2, <1>3, <1>4, <1>6 DEF x

\* Less than a page.
LEMMA PartOfPage ==
  ASSUME Shape, len >= line, npages = 1, len % PageSize # 0
  PROVE  len \div line \in 1..nlines
<1>1. /\ PageSize \in Nat \ {0} /\ line \in Nat \ {0} /\ nlines \in Nat \ {0}
      /\ len \in Nat \ {0} /\ PageSize = line * nlines
  BY Sizes
<1>2. len < PageSize
  <2> DEFINE x == len + PageSize - 1
  <2>1. x \in Nat
    BY <1>1
  <2>2. x \div PageSize = 1
    BY DEF Shape, Ceil
  <2> HIDE DEF x
  <2>3. x = PageSize * 1 + (x % PageSize) /\ x % PageSize \in 0..PageSize-1
    BY <1>1, <2>1, <2>2, DivMod
  <2>4. x < 2 * PageSize
    BY <1>1, <2>1, <2>3
  <2>5. len # PageSize
    <3>1. (PageSize * 1 + 0) % PageSize = 0 /\ PageSize * 1 + 0 = PageSize
      <4>1. 0 \in 0..PageSize-1
        BY <1>1
      <4> QED
        BY <1>1, <4>1, DivModOf
    <3> QED
      BY <3>1
  <2> QED
    BY <1>1, <2>4, <2>5 DEF x
<1> DEFINE q == len \div line
           r == len % line
<1>3. q \in Nat /\ r \in 0..line-1 /\ len = line * q + r
  BY <1>1, DivMod
<1> HIDE DEF q, r
<1>4. q # 0
  BY <1>1, <1>3
<1>5. q <= nlines
  <2>1. ASSUME nlines + 1 <= q PROVE FALSE
    <3>1. nlines \in Nat /\ line \in Nat
      BY <1>1
    <3>2. line * (nlines + 1) <= line * q /\ line * (nlines + 1) = line * nlines + line
      BY <1>3, <2>1, <3>1
    <3>3. line * q \in Nat
      BY <1>3, <3>1
    <3> QED
      BY <1>1, <1>2, <1>3, <3>2, <3>3
  <2> QED
    BY <1>1, <1>3, <2>1
<1>6. q \in 1..nlines
  BY <1>1, <1>3, <1>4, <1>5
<1> QED
  BY <1>6 DEF q

\* mem_initialize() goes on to the next page on the last line of each.
LEMMA LastLines ==
  ASSUME Shape, len >= line, len % PageSize = 0 \/ npages = 1
  PROVE  /\ MemLines \in 1..nlines
         /\ \A i \in 0..npages-1 : LastLine(i) = MemLines - 1
         /\ npages = 1 => MemLines = len \div line
<1>1. /\ nlines \in Nat \ {0} /\ npages \in Nat \ {0}
  BY Sizes
<1>2. CASE len % PageSize = 0
  <2> DEFINE A == npages * nlines
             all == Minus(len \div line, 1)
  <2>1. len \div line = A
    BY <1>2, WholePages
  <2>2. A \in Nat /\ A >= nlines
    <3>1. 1 * nlines <= npages * nlines /\ npages * nlines \in Nat
      BY <1>1
    <3> QED
      BY <1>1, <3>1
  <2>m. MemLines = nlines
    BY <1>2 DEF MemLines
  <2>3. ASSUME NEW i \in 0..npages-1
        PROVE  LastLine(i) = nlines - 1
    <3> DEFINE y == i * (nlines - 1)
    <3>1. y \in Nat /\ y <= A - nlines
      <4>1. i \in Nat /\ i + 1 <= npages /\ nlines \in Nat /\ nlines - 1 \in Nat /\ npages \in Nat
        BY <1>1
      <4>2. (i + 1) * nlines <= npages * nlines /\ (i + 1) * nlines = i * nlines + nlines
        BY <4>1
      <4>3. i * (nlines - 1) = i * nlines - i /\ i * nlines \in Nat /\ i * (nlines - 1) \in Nat
        BY <4>1
      <4> DEFINE x == i * nlines
      <4>4. x \in Nat /\ x + nlines <= A /\ y = x - i /\ y \in Nat
        BY <4>2, <4>3
      <4> HIDE DEF x, y, A
      <4> QED
        BY <2>2, <4>1, <4>4
    <3>2. LastLine(i) = Less(nlines - 1, all - Less(y, all))
      BY DEF LastLine
    <3> HIDE DEF y, A
    <3>3. all = A - 1
      BY <1>1, <2>1, <2>2 DEF Minus
    <3> HIDE DEF all
    <3>4. Less(y, all) = y
      BY <1>1, <2>2, <3>1, <3>3 DEF Less
    <3> QED
      BY <1>1, <2>2, <3>1, <3>2, <3>3, <3>4 DEF Less
  <2>4. npages = 1 => nlines = len \div line
    BY <1>1, <2>1
  <2> QED
    BY <1>1, <2>m, <2>3, <2>4
<1>3. CASE len % PageSize # 0
  <2> DEFINE n == len \div line
             all == Minus(n, 1)
  <2>1. npages = 1 /\ MemLines = n
    BY <1>3 DEF MemLines
  <2>2. n \in 1..nlines
    BY <1>3, <2>1, PartOfPage
  <2>3. ASSUME NEW i \in 0..npages-1
        PROVE  LastLine(i) = n - 1
    <3>1. i = 0 /\ i * (nlines - 1) = 0
      BY <1>1, <2>1
    <3>2. LastLine(i) = Less(nlines - 1, all - Less(0, all))
      BY <3>1 DEF LastLine
    <3> HIDE DEF n
    <3>3. all = n - 1
      BY <1>1, <2>2 DEF Minus
    <3> HIDE DEF all
    <3> QED
      BY <1>1, <2>2, <3>2, <3>3 DEF Less
  <2> QED
    BY <2>1, <2>2, <2>3
<1> QED
  BY <1>2, <1>3

\* The words of whole pages.
LEMMA PagesWords ==
  ASSUME Shape, NEW x \in 0..npages
  PROVE  \A a : a \in OnPages(x, 0..PageSize-1) <=>
           \E i \in 0..x-1, j \in 0..nlines-1, o \in 0..line-1 : a = Page(i) + Lines[j] + o
<1>1. \A i \in 0..x-1 : Page(i) \in Nat
  <2>1. npages \in Nat \ {0} /\ 0 \in 0..PageSize-1
    BY Sizes
  <2>2. \A i \in 0..x-1 : i \in 0..npages-1
    BY <2>1
  <2> QED
    BY <2>1, <2>2, PageWords
<1>2. /\ \A j \in 0..nlines-1 : Lines[j] \in Nat
      /\ \A j \in 0..nlines-1, o \in 0..line-1 : Lines[j] + o \in 0..PageSize-1
      /\ \A u \in 0..PageSize-1 : \E j \in 0..nlines-1, o \in 0..line-1 : u = Lines[j] + o
  BY LineWords
<1> DEFINE w == Lines
           O == OnPages(x, 0..PageSize-1)
<1>3. \A a : a \in O <=> \E i \in 0..x-1, u \in 0..PageSize-1 : a = Page(i) + u
  BY DEF OnPages
<1> HIDE DEF w, O
<1>4. \A i \in 0..x-1, j \in 0..nlines-1, o \in 0..line-1 : Page(i) + w[j] + o = Page(i) + (w[j] + o)
  BY <1>1, <1>2 DEF w
<1>5. ASSUME NEW a \in O
      PROVE  \E i \in 0..x-1, j \in 0..nlines-1, o \in 0..line-1 : a = Page(i) + w[j] + o
  <2>1. PICK i \in 0..x-1, u \in 0..PageSize-1 : a = Page(i) + u
    BY <1>3
  <2>2. PICK j \in 0..nlines-1, o \in 0..line-1 : u = w[j] + o
    BY <1>2 DEF w
  <2> QED
    BY <1>4, <2>1, <2>2
<1>6. ASSUME NEW i \in 0..x-1, NEW j \in 0..nlines-1, NEW o \in 0..line-1
      PROVE  Page(i) + w[j] + o \in O
  <2>1. Page(i) + w[j] + o = Page(i) + (w[j] + o) /\ w[j] + o \in 0..PageSize-1
    BY <1>2, <1>4 DEF w
  <2> QED
    BY <1>3, <2>1
<1>7. \A a : a \in O <=> \E i \in 0..x-1, j \in 0..nlines-1, o \in 0..line-1 : a = Page(i) + w[j] + o
  BY <1>5, <1>6
<1> QED
  BY <1>7 DEF w, O

\* What mem_initialize() promises.
LEMMA MemLaidPromised ==
  ASSUME Shape, layout = "mem", phase = "laid", len >= line, len % PageSize = 0 \/ npages = 1
  PROVE  MemPromised(npages, MemLines)
<1> DEFINE P == Promised
           n == MemLines
<1>1. npages \in Nat \ {0} /\ nlines \in Nat \ {0} /\ n \in 1..nlines
      /\ (npages = 1 => n = len \div line)
  BY Sizes, LastLines
<1>2. CASE npages = 1
  <2> DEFINE W == {Page(0) + Lines[j] + k : j \in 0..n-1, k \in 0..line-1}
  <2>1. P = W
    BY <1>1, <1>2 DEF Promised
  <2>2. \A a : a \in W <=> \E j \in 0..n-1, k \in 0..line-1 : a = Page(0) + Lines[j] + k
    OBVIOUS
  <2> HIDE DEF P, W, n
  <2>3. \A j \in 0..nlines-1 : j < n <=> j \in 0..n-1
    BY <1>1
  <2>4. \A j \in 0..n-1 : j \in 0..nlines-1
    BY <1>1
  <2>5. \A i : i \in 0..npages-1 <=> i = 0
    BY <1>2
  <2>6. 0 = npages - 1
    BY <1>2
  <2>7. \A a : a \in P <=> \E i \in 0..npages-1, j \in 0..nlines-1, o \in 0..line-1 :
                            (i = npages - 1 => j < n) /\ a = Page(i) + Lines[j] + o
    BY <2>1, <2>2, <2>3, <2>4, <2>5, <2>6
  <2> QED
    BY <2>7 DEF MemPromised, P, n
<1>3. CASE npages # 1
  <2>1. n = nlines
    BY <1>3 DEF MemLines
  <2>2. P = OnPages(npages, 0..PageSize-1)
    BY <1>3 DEF Promised
  <2> HIDE DEF P, n
  <2>3. npages \in 0..npages
    BY <1>1
  <2>4. \A a : a \in P <=> \E i \in 0..npages-1, j \in 0..nlines-1, o \in 0..line-1 : a = Page(i) + Lines[j] + o
    BY <2>2, <2>3, PagesWords
  <2>5. \A j \in 0..nlines-1 : j < n
    BY <1>1, <2>1
  <2> QED
    BY <2>4, <2>5 DEF MemPromised, P, n
<1> QED
  BY <1>2, <1>3

\* What measure() leaves of it.
LEMMA MemCutPromised ==
  ASSUME Shape, layout = "mem", phase = "cut", cut[2] \in 1..npages, cut[1] \in 1..nlines
  PROVE  MemPromised(cut[2], cut[1])
<1> DEFINE P == Promised
           n == cut[1]
           np == cut[2]
           O == OnPages(np - 1, 0..PageSize-1)
           W == {Page(np - 1) + Lines[j] + k : j \in 0..n-1, k \in 0..line-1}
<1>1. P = O \union W
  BY DEF Promised
<1>2. \A a : a \in W <=> \E j \in 0..n-1, k \in 0..line-1 : a = Page(np - 1) + Lines[j] + k
  OBVIOUS
<1>3. np \in 1..npages /\ n \in 1..nlines /\ npages \in Nat \ {0} /\ nlines \in Nat \ {0}
  BY Sizes
<1> HIDE DEF P, W, n, np, O
<1>4. np - 1 \in 0..npages
  BY <1>3
<1>5. \A a : a \in O <=> \E i \in 0..(np - 1)-1, j \in 0..nlines-1, o \in 0..line-1 : a = Page(i) + Lines[j] + o
  BY <1>4, PagesWords DEF O
<1>6. ASSUME NEW a \in P
      PROVE  \E i \in 0..np-1, j \in 0..nlines-1, o \in 0..line-1 :
               (i = np - 1 => j < n) /\ a = Page(i) + Lines[j] + o
  <2>1. CASE a \in O
    <3>1. PICK i \in 0..(np - 1)-1, j \in 0..nlines-1, o \in 0..line-1 : a = Page(i) + Lines[j] + o
      BY <1>5, <2>1
    <3>2. i \in 0..np-1 /\ i # np - 1
      BY <1>3
    <3> QED
      BY <3>1, <3>2
  <2>2. CASE a \in W
    <3>1. PICK j \in 0..n-1, o \in 0..line-1 : a = Page(np - 1) + Lines[j] + o
      BY <1>2, <2>2
    <3>2. np - 1 \in 0..np-1 /\ j \in 0..nlines-1 /\ j < n
      BY <1>3
    <3> QED
      BY <3>1, <3>2
  <2> QED
    BY <1>1, <2>1, <2>2
<1>7. ASSUME NEW i \in 0..np-1, NEW j \in 0..nlines-1, NEW o \in 0..line-1, i = np - 1 => j < n
      PROVE  Page(i) + Lines[j] + o \in P
  <2>1. CASE i = np - 1
    <3>1. j \in 0..n-1
      BY <1>3, <1>7, <2>1
    <3> QED
      BY <1>1, <1>2, <2>1, <3>1
  <2>2. CASE i # np - 1
    <3>1. i \in 0..(np - 1)-1
      BY <1>3, <2>2
    <3> QED
      BY <1>1, <1>5, <3>1
  <2> QED
    BY <2>1, <2>2
<1>8. MemPromised(np, n)
  BY <1>6, <1>7 DEF MemPromised, P
<1> QED
  BY <1>8 DEF np, n

\* No word is on two lines.
LEMMA WordsDiffer ==
  ASSUME Shape, NEW i \in 0..npages-1, NEW j \in 0..nlines-1, NEW o \in 0..line-1,
         NEW k \in 0..npages-1, NEW x \in 0..nlines-1, NEW u \in 0..line-1,
         Page(i) + Lines[j] + o = Page(k) + Lines[x] + u
  PROVE  i = k /\ j = x /\ o = u
<1> DEFINE D == (0..npages-1) \X (0..nlines-1)
           d == <<i, j>>
           e == <<k, x>>
<1>1. d \in D /\ e \in D /\ Base(d) = Page(i) + Lines[j] /\ Base(e) = Page(k) + Lines[x]
  BY DEF Base
<1>2. D \subseteq (0..npages-1) \X (0..nlines-1) /\ (d = e => i = k /\ j = x)
  OBVIOUS
<1> HIDE DEF D, d, e
<1>3. Base(d) + o = Base(e) + u
  BY <1>1
<1>4. d = e /\ o = u
  BY <1>1, <1>2, <1>3, Bases
<1> QED
  BY <1>2, <1>4

\* Every word is written.
MemFilled(m) ==
  \A i \in 0..npages-1, j \in 0..nlines-1, o \in 0..line-1 : Page(i) + Lines[j] + o \in DOMAIN m

\* The pointers of mem_initialize() are a round.
LEMMA MemStored ==
  ASSUME Shape, len >= line, len % PageSize = 0 \/ npages = 1
  PROVE  /\ MemRound(Store(NoMemory, Mem), npages, MemLines)
         /\ MemLines = nlines => MemFilled(Store(NoMemory, Mem))
<1> DEFINE n == MemLines
           w == Lines
           v == Words
           C == {t \in Loop(npages, nlines, line) : t[2] <= n - 1}
           writes == Mem
           made == Store(NoMemory, writes)
           Next1(i, k) == IF i < npages - 1 THEN Page(i + 1) + w[0] + v[k]
                          ELSE Page(0) + w[0] + v[(k + 1) % line]
           from == [s \in C |-> Page(s[1]) + w[s[2]] + (IF s[2] < n - 1 THEN s[3] ELSE v[s[3]])]
           to == [s \in C |-> IF s[2] < n - 1 THEN Page(s[1]) + w[s[2] + 1] + s[3] ELSE Next1(s[1], s[3])]
<1>1. /\ npages \in Nat \ {0} /\ nlines \in Nat \ {0} /\ line \in Nat \ {0}
      /\ n \in 1..nlines /\ nwords = line
      /\ \A i \in 0..npages-1 : LastLine(i) = n - 1
  BY Sizes, LastLines DEF Shape
<1>2. /\ \A k \in 0..line-1 : v[k] \in 0..line-1
      /\ \A k, x \in 0..line-1 : v[k] = v[x] => k = x
      /\ \A o \in 0..line-1 : \E k \in 0..line-1 : v[k] = o
  <2>1. InOrder(v, line, 1) /\ \A k \in 0..line-1 : v[k] \in 0..line-1
    BY LineWords
  <2> HIDE DEF v
  <2>2. \A o \in 0..line-1 : \E k \in 0..line-1 : v[k] = o
    <3> TAKE o \in 0..line-1
    <3>1. PICK k \in 0..line-1 : v[k] = 1 * o
      BY <2>1 DEF InOrder
    <3> QED
      BY <3>1
  <2> QED
    BY <2>1, <2>2 DEF InOrder
<1>3. {t \in Loop(npages, nlines, nwords) : t[2] <= LastLine(t[1])} = C
  <2>1. \A t \in Loop(npages, nlines, line) : LastLine(t[1]) = n - 1
    BY <1>1, LoopFacts
  <2> HIDE DEF n
  <2> QED
    BY <1>1, <2>1
<1>4. /\ DOMAIN writes = C
      /\ \A s \in C : writes[s] =
           IF s[2] < LastLine(s[1])
           THEN <<Page(s[1]) + w[s[2]] + s[3], Page(s[1]) + w[s[2] + 1] + s[3]>>
           ELSE <<Page(s[1]) + w[s[2]] + v[s[3]],
                  IF s[1] < npages - 1 THEN Page(s[1] + 1) + w[0] + v[s[3]]
                  ELSE Page(0) + w[0] + v[(s[3] + 1) % nwords]>>
  <2> HIDE DEF C
  <2> QED
    BY <1>3 DEF Mem
<1>5. \A s \in C : /\ s[1] \in 0..npages-1 /\ s[2] \in 0..nlines-1 /\ s[3] \in 0..line-1
                   /\ s = <<s[1], s[2], s[3]>> /\ LastLine(s[1]) = n - 1
                   /\ s[2] <= n - 1
  BY <1>1, LoopFacts
<1>6. \A i \in 0..npages-1, j \in 0..nlines-1, k \in 0..line-1 :
        j <= n - 1 => <<i, j, k>> \in C /\ <<i, j, k>>[1] = i /\ <<i, j, k>>[2] = j /\ <<i, j, k>>[3] = k
  BY LoopFacts
<1> HIDE DEF n, w, v, C, writes, made
<1>7. \A s \in C : writes[s] = <<from[s], to[s]>>
  <2> TAKE s \in C
  <2>1. LastLine(s[1]) = n - 1 /\ nwords = line
    BY <1>1, <1>5
  <2>2. CASE s[2] < n - 1
    BY <1>4, <2>1, <2>2
  <2>3. CASE ~(s[2] < n - 1)
    <3>1. from[s] = Page(s[1]) + w[s[2]] + v[s[3]] /\ to[s] = Next1(s[1], s[3])
      BY <2>3
    <3>2. writes[s] = <<Page(s[1]) + w[s[2]] + v[s[3]],
                  IF s[1] < npages - 1 THEN Page(s[1] + 1) + w[0] + v[s[3]]
                  ELSE Page(0) + w[0] + v[(s[3] + 1) % line]>>
      BY <1>4, <2>1, <2>3
    <3> QED
      BY <3>1, <3>2
  <2> QED
    BY <2>2, <2>3
<1>8. \A s \in DOMAIN writes : writes[s][1] = from[s] /\ writes[s][2] = to[s]
  <2> HIDE DEF from, to
  <2> QED
    BY <1>4, <1>7
<1>9. \A s, t \in C : from[s] = from[t] => s = t
  <2> TAKE s, t \in C
  <2> HAVE from[s] = from[t]
  <2> DEFINE i == s[1]
             j == s[2]
             k == s[3]
             a == t[1]
             b == t[2]
             c == t[3]
             o == IF j < n - 1 THEN k ELSE v[k]
             u == IF b < n - 1 THEN c ELSE v[c]
  <2>1. /\ i \in 0..npages-1 /\ j \in 0..nlines-1 /\ k \in 0..line-1
        /\ a \in 0..npages-1 /\ b \in 0..nlines-1 /\ c \in 0..line-1
        /\ s = <<i, j, k>> /\ t = <<a, b, c>>
    BY <1>5
  <2>2. Page(i) + w[j] + o = Page(a) + w[b] + u
    OBVIOUS
  <2> HIDE DEF i, j, k, a, b, c
  <2>3. o \in 0..line-1 /\ u \in 0..line-1
    BY <1>2, <2>1
  <2>4. i = a /\ j = b /\ o = u
    <3> HIDE DEF o, u
    <3> QED
      BY <2>1, <2>2, <2>3, WordsDiffer DEF w
  <2>5. k = c
    BY <1>2, <2>1, <2>4
  <2> QED
    BY <2>1, <2>4, <2>5
<1>10. Wrote(made, NoMemory, writes)
  <2> HIDE DEF from, to
  <2>1. Once(writes)
    BY <1>4, <1>8, <1>9 DEF Once
  <2> QED
    BY <2>1, StoreWrites DEF made
<1>11. \A s \in C : from[s] \in DOMAIN made /\ made[from[s]] = to[s]
  <2> HIDE DEF from, to
  <2> QED
    BY <1>4, <1>8, <1>10 DEF Wrote
<1>12. ASSUME NEW i \in 0..npages-1, NEW j \in 0..nlines-1, NEW o \in 0..line-1, j < n - 1
       PROVE  /\ Page(i) + w[j] + o \in DOMAIN made
              /\ made[Page(i) + w[j] + o] = Page(i) + w[j + 1] + o
  <2> DEFINE s == <<i, j, o>>
  <2>1. s \in C /\ s[1] = i /\ s[2] = j /\ s[3] = o
    BY <1>1, <1>6, <1>12
  <2> HIDE DEF s
  <2>2. from[s] = Page(i) + w[j] + o /\ to[s] = Page(i) + w[j + 1] + o
    BY <1>12, <2>1
  <2> QED
    BY <1>11, <2>1, <2>2
<1>13. ASSUME NEW i \in 0..npages-1, NEW k \in 0..line-1
       PROVE  /\ Page(i) + w[n - 1] + v[k] \in DOMAIN made
              /\ made[Page(i) + w[n - 1] + v[k]] = Next1(i, k)
  <2> DEFINE s == <<i, n - 1, k>>
  <2>0. n - 1 \in 0..nlines-1 /\ n - 1 <= n - 1 /\ ~(n - 1 < n - 1)
    BY <1>1
  <2>1. s \in C /\ s[1] = i /\ s[2] = n - 1 /\ s[3] = k
    BY <1>6, <2>0
  <2> HIDE DEF s
  <2>2. from[s] = Page(i) + w[n - 1] + v[k] /\ to[s] = Next1(i, k)
    BY <2>0, <2>1
  <2> HIDE DEF Next1
  <2> QED
    BY <1>11, <2>1, <2>2
<1>14. \A i \in 0..npages-1 : i < npages - 1 => n = nlines
  BY <1>1 DEF n, MemLines
<1>15. \A i \in 0..npages-1, j \in 0..nlines-1 :
         j < nlines - 1 /\ (i = npages - 1 => j < n - 1) =>
           \A o \in 0..line-1 : made[Page(i) + w[j] + o] = Page(i) + w[j + 1] + o
  <2> TAKE i \in 0..npages-1, j \in 0..nlines-1
  <2> HAVE j < nlines - 1 /\ (i = npages - 1 => j < n - 1)
  <2>1. j < n - 1
    BY <1>1, <1>14
  <2> QED
    BY <1>12, <2>1
<1>16. \A i \in 0..npages-1 :
         i < npages - 1 => \A o \in 0..line-1 : made[Page(i) + w[nlines - 1] + o] = Page(i + 1) + w[0] + o
  <2> TAKE i \in 0..npages-1
  <2> HAVE i < npages - 1
  <2> TAKE o \in 0..line-1
  <2>1. PICK k \in 0..line-1 : v[k] = o
    BY <1>2
  <2>2. n = nlines
    BY <1>14
  <2>3. made[Page(i) + w[n - 1] + v[k]] = Next1(i, k)
    BY <1>13
  <2> QED
    BY <2>1, <2>2, <2>3
<1>17. \A k \in 0..line-1 : made[Page(npages - 1) + w[n - 1] + v[k]] = Page(0) + w[0] + v[(k + 1) % line]
  <2> TAKE k \in 0..line-1
  <2>1. npages - 1 \in 0..npages-1 /\ ~(npages - 1 < npages - 1)
    BY <1>1
  <2>2. made[Page(npages - 1) + w[n - 1] + v[k]] = Next1(npages - 1, k)
    BY <1>13, <2>1
  <2>3. Next1(npages - 1, k) = Page(0) + w[0] + v[(k + 1) % line]
    BY <2>1
  <2> QED
    BY <2>2, <2>3
<1>18. ASSUME n = nlines, NEW i \in 0..npages-1, NEW j \in 0..nlines-1, NEW o \in 0..line-1
       PROVE  Page(i) + w[j] + o \in DOMAIN made
  <2>1. CASE j < n - 1
    BY <1>12, <2>1
  <2>2. CASE j = n - 1
    <3>1. PICK k \in 0..line-1 : v[k] = o
      BY <1>2
    <3> QED
      BY <1>13, <2>2, <3>1
  <2> QED
    BY <1>1, <1>18, <2>1, <2>2
<1>19. MemRound(made, npages, n)
  BY <1>15, <1>16, <1>17 DEF MemRound, w, v
<1>20. n = nlines => MemFilled(made)
  BY <1>18 DEF MemFilled, w
<1> QED
  BY <1>19, <1>20 DEF made, writes, n

\* The pointers from line to line within the pages, but for those of the n-th
\* line of page np.
InPage(m, np, n) ==
  \A i \in 0..npages-1, j \in 0..nlines-1 :
    j < nlines - 1 /\ ~(i = np - 1 /\ j = n - 1) =>
      \A o \in 0..line-1 : m[Page(i) + Lines[j] + o] = Page(i) + Lines[j + 1] + o

\* What Words is.
LEMMA WordFacts ==
  ASSUME Shape
  PROVE  /\ \A k \in 0..line-1 : Words[k] \in 0..line-1
         /\ \A k, x \in 0..line-1 : Words[k] = Words[x] => k = x
         /\ \A o \in 0..line-1 : \E k \in 0..line-1 : Words[k] = o
<1> DEFINE v == Words
<1>1. InOrder(v, line, 1) /\ \A k \in 0..line-1 : v[k] \in 0..line-1
  BY LineWords
<1> HIDE DEF v
<1>2. \A o \in 0..line-1 : \E k \in 0..line-1 : v[k] = o
  <2> TAKE o \in 0..line-1
  <2>1. PICK k \in 0..line-1 : v[k] = 1 * o
    BY <1>1 DEF InOrder
  <2> QED
    BY <2>1
<1>3. \A k, x \in 0..line-1 : v[k] = v[x] => k = x
  BY <1>1 DEF InOrder
<1> QED
  BY <1>1, <1>2, <1>3 DEF v

\* Whole pages are linked within.
LEMMA RoundInPage ==
  ASSUME Shape, NEW m, MemRound(m, npages, nlines)
  PROVE  InPage(m, npages, nlines)
<1>1. npages \in Nat \ {0} /\ nlines \in Nat \ {0}
  BY Sizes
<1> QED
  BY <1>1 DEF MemRound, InPage

\* A loop that writes to other words than those of a line leaves that line.
LEMMA OtherLines ==
  ASSUME Shape, NEW m, NEW made, NEW writes, Wrote(made, m, writes), MemFilled(m),
         NEW i \in 0..npages-1, NEW j \in 0..nlines-1,
         \A s \in DOMAIN writes :
           \E k \in 0..npages-1, x \in 0..nlines-1, u \in 0..line-1 :
             writes[s][1] = Page(k) + Lines[x] + u /\ ~(k = i /\ x = j)
  PROVE  \A o \in 0..line-1 : made[Page(i) + Lines[j] + o] = m[Page(i) + Lines[j] + o]
<1> TAKE o \in 0..line-1
<1> DEFINE a == Page(i) + Lines[j] + o
<1>1. a \in DOMAIN m
  BY DEF MemFilled
<1>2. ASSUME NEW s \in DOMAIN writes, writes[s][1] = a
      PROVE  FALSE
  <2>1. PICK k \in 0..npages-1, x \in 0..nlines-1, u \in 0..line-1 :
               writes[s][1] = Page(k) + Lines[x] + u /\ ~(k = i /\ x = j)
    OBVIOUS
  <2>2. Page(k) + Lines[x] + u = Page(i) + Lines[j] + o
    BY <1>2, <2>1
  <2>3. k = i /\ x = j
    BY <2>2, WordsDiffer
  <2> QED
    BY <2>1, <2>3
<1> HIDE DEF a
<1>3. made[a] = m[a]
  BY <1>1, <1>2 DEF Wrote
<1> QED
  BY <1>3 DEF a

\* measure() cuts the walk to np pages, and n lines of the last of them.
LEMMA MemCut ==
  ASSUME Shape, NEW np \in 1..npages, NEW n \in 1..nlines, NEW m,
         MemFilled(m), InPage(m, npages, nlines)
  PROVE  /\ MemFilled(Store(m, CutSize(np, n))) /\ InPage(Store(m, CutSize(np, n)), np, n)
         /\ MemRound(Store(m, CutSize(np, n)), np, n)
<1> DEFINE w == Lines
           v == Words
           C == Loop(np, line, 1)
           writes == CutSize(np, n)
           made == Store(m, writes)
           lineOf(i) == IF i < np - 1 THEN nlines - 1 ELSE n - 1
           from == [s \in C |-> Page(s[1]) + w[lineOf(s[1])] + v[s[2]]]
           to == [s \in C |-> IF s[1] < np - 1 THEN Page(s[1] + 1) + w[0] + v[s[2]]
                              ELSE Page(0) + w[0] + v[(s[2] + 1) % line]]
<1>1. /\ npages \in Nat \ {0} /\ nlines \in Nat \ {0} /\ line \in Nat \ {0} /\ nwords = line
  BY Sizes DEF Shape
<1>2. /\ \A k \in 0..line-1 : v[k] \in 0..line-1
      /\ \A k, x \in 0..line-1 : v[k] = v[x] => k = x
      /\ \A o \in 0..line-1 : \E k \in 0..line-1 : v[k] = o
  BY WordFacts
<1>3. /\ DOMAIN writes = C
      /\ \A s \in C : writes[s] =
           IF s[1] < np - 1
           THEN <<Page(s[1]) + w[nlines - 1] + v[s[2]], Page(s[1] + 1) + w[0] + v[s[2]]>>
           ELSE <<Page(np - 1) + w[n - 1] + v[s[2]], Page(0) + w[0] + v[(s[2] + 1) % line]>>
  <2> HIDE DEF C, w, v
  <2> QED
    BY <1>1 DEF CutSize, C, w, v
<1>4. \A s \in C : /\ s[1] \in 0..np-1 /\ s[1] \in 0..npages-1 /\ s[2] \in 0..line-1
                   /\ s = <<s[1], s[2], 0>> /\ (~(s[1] < np - 1) => s[1] = np - 1)
  <2>1. \A s \in C : s[3] = 0
    BY LoopFacts
  <2>2. \A i \in 0..np-1 : i \in 0..npages-1 /\ (~(i < np - 1) => i = np - 1)
    BY <1>1
  <2> QED
    BY <2>1, <2>2, LoopFacts
<1>5. ASSUME NEW i \in 0..np-1, NEW k \in 0..line-1
      PROVE  <<i, k, 0>> \in C /\ <<i, k, 0>>[1] = i /\ <<i, k, 0>>[2] = k
  <2>1. 0 \in 0..1-1
    OBVIOUS
  <2> QED
    BY <2>1, LoopFacts
<1>6. \A i \in 0..np-1 : lineOf(i) \in 0..nlines-1
  BY <1>1
<1> HIDE DEF w, v, C, writes, made
<1>7. \A s \in C : writes[s] = <<from[s], to[s]>>
  <2> TAKE s \in C
  <2>1. CASE s[1] < np - 1
    BY <1>3, <2>1
  <2>2. CASE ~(s[1] < np - 1)
    <3>1. from[s] = Page(np - 1) + w[n - 1] + v[s[2]] /\ to[s] = Page(0) + w[0] + v[(s[2] + 1) % line]
      BY <1>4, <2>2
    <3> HIDE DEF from, to
    <3> QED
      BY <1>3, <2>2, <3>1
  <2> QED
    BY <2>1, <2>2
<1>8. \A s \in C : from[s] = Page(s[1]) + w[lineOf(s[1])] + v[s[2]]
  OBVIOUS
<1>9. \A s \in DOMAIN writes : writes[s][1] = from[s] /\ writes[s][2] = to[s]
  <2> HIDE DEF from, to
  <2> QED
    BY <1>3, <1>7
<1>10. \A s, t \in C : from[s] = from[t] => s = t
  <2> TAKE s, t \in C
  <2> HAVE from[s] = from[t]
  <2> DEFINE i == s[1]
             k == s[2]
             a == t[1]
             c == t[2]
             j == lineOf(i)
             b == lineOf(a)
             o == v[k]
             u == v[c]
  <2>1. /\ i \in 0..npages-1 /\ k \in 0..line-1 /\ a \in 0..npages-1 /\ c \in 0..line-1
        /\ s = <<i, k, 0>> /\ t = <<a, c, 0>> /\ i \in 0..np-1 /\ a \in 0..np-1
    BY <1>4
  <2>2. Page(i) + w[j] + o = Page(a) + w[b] + u
    BY <1>8
  <2> HIDE DEF i, k, a, c
  <2>3. j \in 0..nlines-1 /\ b \in 0..nlines-1 /\ o \in 0..line-1 /\ u \in 0..line-1
    BY <1>2, <1>6, <2>1
  <2>4. i = a /\ o = u
    <3> HIDE DEF j, b, o, u
    <3> QED
      BY <2>1, <2>2, <2>3, WordsDiffer DEF w
  <2>5. k = c
    BY <1>2, <2>1, <2>4
  <2> QED
    BY <2>1, <2>4, <2>5
<1>11. Wrote(made, m, writes)
  <2> HIDE DEF from, to
  <2>1. Once(writes)
    BY <1>3, <1>9, <1>10 DEF Once
  <2> QED
    BY <2>1, StoreWrites DEF made
<1>12. \A s \in C : made[from[s]] = to[s]
  <2> HIDE DEF from, to
  <2> QED
    BY <1>3, <1>9, <1>11 DEF Wrote
<1>13. MemFilled(made)
  BY <1>11 DEF MemFilled, Wrote
<1>14. ASSUME NEW i \in 0..npages-1, NEW j \in 0..nlines-1, j < nlines - 1, ~(i = np - 1 /\ j = n - 1)
       PROVE  \A o \in 0..line-1 : made[Page(i) + w[j] + o] = Page(i) + w[j + 1] + o
  <2>1. ASSUME NEW s \in DOMAIN writes
        PROVE  \E k \in 0..npages-1, x \in 0..nlines-1, u \in 0..line-1 :
                 writes[s][1] = Page(k) + w[x] + u /\ ~(k = i /\ x = j)
    <3> DEFINE k == s[1]
               x == lineOf(k)
               u == v[s[2]]
    <3>1. k \in 0..npages-1 /\ k \in 0..np-1 /\ u \in 0..line-1 /\ (~(k < np - 1) => k = np - 1)
      BY <1>2, <1>3, <1>4
    <3>2. writes[s][1] = Page(k) + w[x] + u
      BY <1>3, <1>8, <1>9
    <3> HIDE DEF k, u
    <3>3. x \in 0..nlines-1 /\ ~(k = i /\ x = j)
      BY <1>1, <1>14, <3>1
    <3> HIDE DEF x
    <3> QED
      BY <3>1, <3>2, <3>3
  <2>2. \A o \in 0..line-1 : made[Page(i) + w[j] + o] = m[Page(i) + w[j] + o]
    BY <1>11, <2>1, OtherLines DEF w
  <2>3. ~(i = npages - 1 /\ j = nlines - 1)
    BY <1>1, <1>14
  <2>4. \A o \in 0..line-1 : m[Page(i) + w[j] + o] = Page(i) + w[j + 1] + o
    BY <1>14, <2>3 DEF InPage, w
  <2> QED
    BY <2>2, <2>4
<1>15. InPage(made, np, n)
  BY <1>14 DEF InPage, w
<1>16. ASSUME NEW i \in 0..np-1, NEW k \in 0..line-1
       PROVE  made[Page(i) + w[lineOf(i)] + v[k]] =
                IF i < np - 1 THEN Page(i + 1) + w[0] + v[k] ELSE Page(0) + w[0] + v[(k + 1) % line]
  <2> DEFINE s == <<i, k, 0>>
  <2>1. s \in C /\ s[1] = i /\ s[2] = k
    BY <1>5
  <2> HIDE DEF s
  <2>2. from[s] = Page(i) + w[lineOf(i)] + v[k]
    BY <1>8, <2>1
  <2>3. to[s] = IF i < np - 1 THEN Page(i + 1) + w[0] + v[k] ELSE Page(0) + w[0] + v[(k + 1) % line]
    BY <2>1
  <2> HIDE DEF from, to
  <2> QED
    BY <1>12, <2>1, <2>2, <2>3
<1>17. \A i \in 0..np-1, j \in 0..nlines-1 :
         j < nlines - 1 /\ (i = np - 1 => j < n - 1) =>
           \A o \in 0..line-1 : made[Page(i) + w[j] + o] = Page(i) + w[j + 1] + o
  <2> TAKE i \in 0..np-1, j \in 0..nlines-1
  <2> HAVE j < nlines - 1 /\ (i = np - 1 => j < n - 1)
  <2>1. i \in 0..npages-1 /\ ~(i = np - 1 /\ j = n - 1)
    BY <1>1
  <2> QED
    BY <1>14, <2>1
<1>18. \A i \in 0..np-1 :
         i < np - 1 => \A o \in 0..line-1 : made[Page(i) + w[nlines - 1] + o] = Page(i + 1) + w[0] + o
  <2> TAKE i \in 0..np-1
  <2> HAVE i < np - 1
  <2> TAKE o \in 0..line-1
  <2>1. PICK k \in 0..line-1 : v[k] = o
    BY <1>2
  <2>2. made[Page(i) + w[nlines - 1] + v[k]] = Page(i + 1) + w[0] + v[k]
    BY <1>16
  <2> QED
    BY <2>1, <2>2
<1>19. \A k \in 0..line-1 : made[Page(np - 1) + w[n - 1] + v[k]] = Page(0) + w[0] + v[(k + 1) % line]
  <2> TAKE k \in 0..line-1
  <2>1. np - 1 \in 0..np-1 /\ ~(np - 1 < np - 1)
    BY <1>1
  <2> QED
    BY <1>16, <2>1
<1>20. MemRound(made, np, n)
  BY <1>17, <1>18, <1>19 DEF MemRound, w, v
<1> QED
  BY <1>13, <1>15, <1>20 DEF made, writes

\* And puts the page that it has cut together again.
LEMMA MemMend ==
  ASSUME Shape, NEW np \in 1..npages, NEW n \in 1..nlines, NEW m,
         MemFilled(m), InPage(m, np, n)
  PROVE  /\ MemFilled(Store(m, MendSize(np, n)))
         /\ InPage(Store(m, MendSize(np, n)), npages, nlines)
<1> DEFINE w == Lines
           v == Words
           C == {t \in Loop(1, line, 1) : n < nlines}
           writes == MendSize(np, n)
           made == Store(m, writes)
<1>1. /\ npages \in Nat \ {0} /\ nlines \in Nat \ {0} /\ line \in Nat \ {0} /\ nwords = line
      /\ np - 1 \in 0..npages-1 /\ n - 1 \in 0..nlines-1
  BY Sizes, SMTT(60) DEF Shape
<1>2. /\ \A k \in 0..line-1 : v[k] \in 0..line-1
      /\ \A k, x \in 0..line-1 : v[k] = v[x] => k = x
      /\ \A o \in 0..line-1 : \E k \in 0..line-1 : v[k] = o
  BY WordFacts
<1>3. /\ DOMAIN writes = C
      /\ \A s \in C : writes[s] = <<Page(np - 1) + w[n - 1] + v[s[2]], Page(np - 1) + w[n] + v[s[2]]>>
  <2>1. \A s \in C : s \in {t \in Loop(1, nwords, 1) : n < nlines}
    BY <1>1
  <2> QED
    BY <1>1, <2>1 DEF MendSize
<1>4. \A s \in C : s[2] \in 0..line-1 /\ s = <<0, s[2], 0>> /\ n < nlines
  <2>1. \A s \in Loop(1, line, 1) : s[1] = 0 /\ s[3] = 0
    BY LoopFacts
  <2> QED
    BY <2>1, LoopFacts
<1>5. \A k \in 0..line-1 : n < nlines => <<0, k, 0>> \in C /\ <<0, k, 0>>[2] = k
  <2>1. 0 \in 0..1-1
    OBVIOUS
  <2> QED
    BY <2>1, LoopFacts
<1> HIDE DEF w, v, C, writes, made
<1>6. \A s \in DOMAIN writes : /\ writes[s][1] = Page(np - 1) + w[n - 1] + v[s[2]]
                               /\ writes[s][2] = Page(np - 1) + w[n] + v[s[2]]
  BY <1>3
<1>7. Wrote(made, m, writes)
  <2>1. ASSUME NEW s \in DOMAIN writes, NEW t \in DOMAIN writes, writes[s][1] = writes[t][1]
        PROVE  s = t
    <3> DEFINE k == s[2]
               c == t[2]
               o == v[k]
               u == v[c]
    <3>1. k \in 0..line-1 /\ c \in 0..line-1 /\ s = <<0, k, 0>> /\ t = <<0, c, 0>>
      BY <1>3, <1>4
    <3>2. Page(np - 1) + w[n - 1] + o = Page(np - 1) + w[n - 1] + u
      BY <1>6, <2>1
    <3> HIDE DEF k, c
    <3>3. o \in 0..line-1 /\ u \in 0..line-1
      BY <1>2, <3>1
    <3>4. o = u
      <4> HIDE DEF o, u
      <4> QED
        BY <1>1, <3>2, <3>3, WordsDiffer DEF w
    <3> QED
      BY <1>2, <3>1, <3>4
  <2>2. Once(writes)
    BY <2>1 DEF Once
  <2> QED
    BY <2>2, StoreWrites DEF made
<1>8. MemFilled(made)
  BY <1>7 DEF MemFilled, Wrote
<1>9. ASSUME NEW i \in 0..npages-1, NEW j \in 0..nlines-1, j < nlines - 1
      PROVE  \A o \in 0..line-1 : made[Page(i) + w[j] + o] = Page(i) + w[j + 1] + o
  <2>1. CASE i = np - 1 /\ j = n - 1
    <3>1. n < nlines /\ j + 1 = n
      BY <1>1, <1>9, <2>1
    <3> TAKE o \in 0..line-1
    <3>2. PICK k \in 0..line-1 : v[k] = o
      BY <1>2
    <3> DEFINE s == <<0, k, 0>>
    <3>3. s \in DOMAIN writes /\ s[2] = k
      BY <1>3, <1>5, <3>1
    <3> HIDE DEF s
    <3>4. made[writes[s][1]] = writes[s][2]
      BY <1>7, <3>3 DEF Wrote
    <3> QED
      BY <1>6, <2>1, <3>1, <3>2, <3>3, <3>4
  <2>2. CASE ~(i = np - 1 /\ j = n - 1)
    <3>1. ASSUME NEW s \in DOMAIN writes
          PROVE  \E k \in 0..npages-1, x \in 0..nlines-1, u \in 0..line-1 :
                   writes[s][1] = Page(k) + w[x] + u /\ ~(k = i /\ x = j)
      <4>1. v[s[2]] \in 0..line-1
        BY <1>2, <1>3, <1>4
      <4> QED
        BY <1>1, <1>6, <2>2, <4>1
    <3>2. \A o \in 0..line-1 : made[Page(i) + w[j] + o] = m[Page(i) + w[j] + o]
      BY <1>7, <3>1, OtherLines DEF w
    <3>3. \A o \in 0..line-1 : m[Page(i) + w[j] + o] = Page(i) + w[j + 1] + o
      BY <1>9, <2>2 DEF InPage, w
    <3> QED
      BY <3>2, <3>3
  <2> QED
    BY <2>1, <2>2
<1>10. InPage(made, npages, nlines)
  BY <1>9 DEF InPage, w
<1> QED
  BY <1>8, <1>10 DEF made, writes

----------------------------------------------------------------------------
(* dram_page_initialize                                                    *)

\* The groups of pages are rows of pages, one after the other.
LEMMA Groups ==
  ASSUME Shape, NEW i \in 0..npages-1
  PROVE  /\ GroupFirst(i) \in 0..i /\ GroupLast(i) \in i..npages-1
         /\ i < GroupLast(i) => GroupFirst(i + 1) = GroupFirst(i)
         /\ GroupFirst(GroupFirst(i)) = GroupFirst(i)
         /\ i = GroupLast(i) /\ i < npages - 1 => GroupFirst(i + 1) = i + 1
         /\ \A k \in 0..npages-1 : \/ GroupFirst(i) = GroupFirst(k)
                                   \/ GroupLast(i) < GroupFirst(k)
                                   \/ GroupLast(k) < GroupFirst(i)
<1> DEFINE g == group
           q == i \div g
           r == i % g
           f == q * g
<1>1. g \in Nat \ {0} /\ npages \in Nat \ {0} /\ i \in Nat /\ i <= npages - 1
  BY Sizes DEF Shape
<1>2. q \in Nat /\ r \in 0..g-1 /\ i = g * q + r
  BY <1>1, DivMod
<1>f. \A x : GroupFirst(x) = (x \div g) * g
  BY DEF GroupFirst
<1>l. \A x : GroupLast(x) = Less(GroupFirst(x) + g, npages) - 1
  BY DEF GroupLast
<1>3. GroupFirst(i) = f
  BY <1>f
<1>4. \A p \in Nat, u \in 0..g-1 : (g * p + u) \div g = p
  BY <1>1, DivModOf
<1>5. \A p \in Nat : p * g = g * p /\ g * p \in Nat /\ g * (p + 1) = g * p + g
  BY <1>1
<1> HIDE DEF g, q, r
<1>6. f = g * q /\ f \in Nat /\ i = f + r
  BY <1>2, <1>5
<1>7. \A p \in Nat, u \in 0..g-1 : GroupFirst(g * p + u) = p * g
  BY <1>4, <1>f
<1> HIDE DEF f
<1>8. f \in 0..i /\ GroupLast(i) = IF f + g < npages THEN f + g - 1 ELSE npages - 1
  BY <1>1, <1>2, <1>3, <1>6, <1>l DEF Less
<1>9. GroupLast(i) \in i..npages-1 /\ GroupLast(i) <= f + g - 1
  BY <1>1, <1>2, <1>6, <1>8
<1>10. ASSUME i < GroupLast(i)
       PROVE  GroupFirst(i + 1) = f
  <2>1. r + 1 \in 0..g-1
    BY <1>1, <1>2, <1>6, <1>9, <1>10
  <2>2. i + 1 = g * q + (r + 1)
    BY <1>1, <1>2, <1>6
  <2>3. GroupFirst(g * q + (r + 1)) = q * g
    BY <1>2, <1>7, <2>1
  <2> QED
    BY <1>2, <1>5, <1>6, <2>2, <2>3
<1>11. GroupFirst(f) = f
  <2>1. 0 \in 0..g-1 /\ g * q + 0 = f
    BY <1>1, <1>6
  <2> QED
    BY <1>2, <1>5, <1>6, <1>7, <2>1
<1>12. ASSUME i = GroupLast(i), i < npages - 1
       PROVE  GroupFirst(i + 1) = i + 1
  <2>1. i = f + g - 1
    BY <1>1, <1>6, <1>8, <1>12
  <2>2. i + 1 = g * (q + 1) + 0 /\ 0 \in 0..g-1 /\ q + 1 \in Nat
    BY <1>1, <1>2, <1>5, <1>6, <2>1
  <2>3. GroupFirst(g * (q + 1) + 0) = (q + 1) * g
    BY <1>7, <2>2
  <2>4. (q + 1) * g = g * (q + 1) /\ g * (q + 1) \in Nat
    BY <1>5, <2>2
  <2>5. g * (q + 1) + 0 = g * (q + 1)
    BY <2>4
  <2> QED
    BY <2>2, <2>3, <2>4, <2>5
<1>13. ASSUME NEW k \in 0..npages-1
       PROVE  \/ f = GroupFirst(k)
              \/ GroupLast(i) < GroupFirst(k)
              \/ GroupLast(k) < f
  <2> DEFINE p == k \div g
             u == GroupFirst(k)
  <2>1. p \in Nat
    <3>1. k \in Nat
      BY <1>1
    <3> QED
      BY <1>1, <3>1, DivMod
  <2>2. u = p * g
    BY <1>f
  <2> HIDE DEF p, u
  <2>3. u = g * p /\ u \in Nat
    BY <1>5, <2>1, <2>2
  <2>4. GroupLast(k) <= u + g - 1
    BY <1>1, <1>l, <2>3 DEF Less, u
  <2>5. CASE p = q
    BY <1>6, <2>3, <2>5 DEF u
  <2>6. CASE p < q
    <3>1. g * (p + 1) <= g * q
      <4>1. p + 1 <= q /\ p + 1 \in Nat /\ g \in Nat
        BY <1>1, <1>2, <2>1, <2>6
      <4> QED
        BY <1>2, <4>1
    <3>2. u + g <= f
      BY <1>5, <1>6, <2>1, <2>3, <3>1
    <3>3. GroupLast(k) \in Int
      BY <1>1, <1>l, <2>3 DEF Less, u
    <3> QED
      BY <1>1, <1>6, <2>3, <2>4, <3>2, <3>3
  <2>7. CASE q < p
    <3>1. g * (q + 1) <= g * p
      <4>1. q + 1 <= p /\ q + 1 \in Nat /\ g \in Nat
        BY <1>1, <1>2, <2>1, <2>7
      <4> QED
        BY <2>1, <4>1
    <3>2. f + g <= u
      BY <1>2, <1>5, <1>6, <2>3, <3>1
    <3>3. GroupLast(i) \in Int
      BY <1>1, <1>9
    <3>4. GroupLast(i) < u
      BY <1>1, <1>6, <1>9, <2>3, <3>2, <3>3
    <3> QED
      BY <3>4 DEF u
  <2> QED
    BY <1>2, <2>1, <2>5, <2>6, <2>7
<1> QED
  BY <1>3, <1>8, <1>9, <1>10, <1>11, <1>12, <1>13

\* What regroup() has written, given what mem_initialize() wrote.
Regrouped(made) ==
  /\ \A i \in 0..npages-1, j \in 0..nlines-1 : i < GroupLast(i) =>
       \A o \in 0..line-1 : made[Page(i) + Lines[j] + o] = Page(i + 1) + Lines[j] + o
  /\ \A i \in 0..npages-1, j \in 0..nlines-1 : i = GroupLast(i) /\ j < nlines - 1 =>
       \A o \in 0..line-1 : made[Page(i) + Lines[j] + o] = Page(GroupFirst(i)) + Lines[j + 1] + o
  /\ \A i \in 0..npages-1 : i = GroupLast(i) /\ i < npages - 1 =>
       \A o \in 0..line-1 : made[Page(i) + Lines[nlines - 1] + o] = Page(i + 1) + Lines[0] + o
  /\ \A k \in 0..line-1 :
       made[Page(npages - 1) + Lines[nlines - 1] + Words[k]] = Page(0) + Lines[0] + Words[(k + 1) % line]

\* A word of a page, by its line or by its place on the page.
LEMMA LineOffset ==
  ASSUME Shape, NEW i \in 0..npages-1, NEW j \in 0..nlines-1, NEW o \in 0..line-1
  PROVE  /\ Lines[j] + o \in 0..PageSize-1
         /\ Page(i) + Lines[j] + o = Page(i) + (Lines[j] + o)
         /\ Page(i) \in Nat
<1>1. Lines[j] \in Nat /\ Lines[j] + o \in 0..PageSize-1
  BY LineWords
<1>2. Page(i) \in Nat
  <2>1. 0 \in 0..PageSize-1
    BY Sizes
  <2> QED
    BY <2>1, PageWords
<1> QED
  BY <1>1, <1>2

\* No two pages share a word.
LEMMA OtherPage ==
  ASSUME Shape, NEW i \in 0..npages-1, NEW k \in 0..npages-1, NEW u \in 0..PageSize-1, i # k
  PROVE  Page(k) + u \notin Page(i)..Page(i)+PageSize-1
<1>1. PageSize \in Nat \ {0} /\ 0 \in 0..PageSize-1
  BY Sizes
<1>2. Page(i) \in Nat /\ Page(k) \in Nat
  BY <1>1, PageWords
<1> SUFFICES ASSUME Page(k) + u \in Page(i)..Page(i)+PageSize-1 PROVE FALSE
  OBVIOUS
<1> DEFINE a == Page(i)
           b == Page(k)
           x == b + u - a
<1>3. x \in 0..PageSize-1 /\ a + x = b + u
  <2> HIDE DEF a, b
  <2>1. a \in Nat /\ b \in Nat /\ u \in Nat /\ b + u >= a /\ b + u <= a + PageSize - 1
    BY <1>1, <1>2 DEF a, b
  <2> QED
    BY <1>1, <2>1
<1> HIDE DEF x
<1> QED
  BY <1>3, PageWords

\* regroup() leads from page to page within a group, and else as before.
LEMMA RegroupWrites ==
  ASSUME Shape, NEW m, MemFilled(m), MemRound(m, npages, nlines)
  PROVE  Regrouped(Store(m, Regroup(m)))
<1> DEFINE writes == Regroup(m)
           made == Store(m, writes)
           w == Lines
           v == Words
           C == {t \in Loop(npages, PageSize, 1) :
                   \/ t[1] < GroupLast(t[1])
                   \/ t[1] > GroupFirst(t[1]) /\ Stays(m, t[1], t[2])}
<1>1. /\ npages \in Nat \ {0} /\ nlines \in Nat \ {0} /\ line \in Nat \ {0} /\ PageSize \in Nat \ {0}
  BY Sizes
<1>2. /\ DOMAIN writes = C
      /\ \A s \in C : writes[s] =
           <<Page(s[1]) + s[2],
             IF s[1] < GroupLast(s[1]) THEN Page(s[1] + 1) + s[2]
             ELSE Page(GroupFirst(s[1])) + m[Page(s[1]) + s[2]] - Page(s[1])>>
  <2>1. writes = [s \in C |->
     <<Page(s[1]) + s[2],
       IF s[1] < GroupLast(s[1]) THEN Page(s[1] + 1) + s[2]
       ELSE Page(GroupFirst(s[1])) + m[Page(s[1]) + s[2]] - Page(s[1])>>]
    BY DEF Regroup
  <2> HIDE DEF C, writes
  <2> QED
    BY <2>1
<1>3. \A s \in C : s[1] \in 0..npages-1 /\ s[2] \in 0..PageSize-1 /\ s = <<s[1], s[2], 0>>
  <2>1. \A s \in C : s[3] = 0
    BY LoopFacts
  <2> QED
    BY <2>1, LoopFacts
<1>4. \A i \in 0..npages-1, u \in 0..PageSize-1 :
        /\ <<i, u, 0>>[1] = i /\ <<i, u, 0>>[2] = u
        /\ <<i, u, 0>> \in C <=> (i < GroupLast(i) \/ (i > GroupFirst(i) /\ Stays(m, i, u)))
  <2> TAKE i \in 0..npages-1, u \in 0..PageSize-1
  <2> DEFINE s == <<i, u, 0>>
  <2>1. 0 \in 0..1-1
    OBVIOUS
  <2>2. s \in Loop(npages, PageSize, 1) /\ s[1] = i /\ s[2] = u
    BY <2>1, LoopFacts
  <2> HIDE DEF s
  <2>3. s \in C <=> (i < GroupLast(i) \/ (i > GroupFirst(i) /\ Stays(m, i, u)))
    BY <2>2
  <2> QED
    BY <2>2, <2>3 DEF s
<1> HIDE DEF writes, made, w, v, C
<1>5. \A s \in C : writes[s][1] = Page(s[1]) + s[2]
  BY <1>2
<1>6. Wrote(made, m, writes)
  <2>1. ASSUME NEW s \in DOMAIN writes, NEW t \in DOMAIN writes, writes[s][1] = writes[t][1]
        PROVE  s = t
    <3> DEFINE i == s[1]
               k == t[1]
               o == s[2]
               u == t[2]
    <3>1. i \in 0..npages-1 /\ k \in 0..npages-1 /\ o \in 0..PageSize-1 /\ u \in 0..PageSize-1
          /\ s = <<i, o, 0>> /\ t = <<k, u, 0>> /\ Page(i) + o = Page(k) + u
      BY <1>2, <1>3, <1>5, <2>1
    <3> HIDE DEF i, k, o, u
    <3>2. i = k /\ o = u
      BY <3>1, PageWords
    <3> QED
      BY <3>1, <3>2
  <2>2. Once(writes)
    BY <2>1 DEF Once
  <2> QED
    BY <2>2, StoreWrites DEF made
<1>7. \A s \in DOMAIN writes : made[writes[s][1]] = writes[s][2]
  BY <1>6 DEF Wrote
\* Not the last page of a group.
<1>8. ASSUME NEW i \in 0..npages-1, NEW u \in 0..PageSize-1, i < GroupLast(i)
      PROVE  made[Page(i) + u] = Page(i + 1) + u
  <2> DEFINE s == <<i, u, 0>>
  <2>1. s \in C /\ s[1] = i /\ s[2] = u
    BY <1>4, <1>8
  <2> HIDE DEF s
  <2>2. writes[s] = <<Page(i) + u, Page(i + 1) + u>>
    BY <1>2, <1>8, <2>1
  <2>3. writes[s][1] = Page(i) + u /\ writes[s][2] = Page(i + 1) + u
    BY <2>2
  <2> QED
    BY <1>2, <1>7, <2>1, <2>3
\* The last page, where the pointer stays on it.
<1>9. ASSUME NEW i \in 0..npages-1, NEW u \in 0..PageSize-1, i = GroupLast(i), i > GroupFirst(i),
             Stays(m, i, u)
      PROVE  made[Page(i) + u] = Page(GroupFirst(i)) + m[Page(i) + u] - Page(i)
  <2> DEFINE s == <<i, u, 0>>
  <2>1. s \in C /\ s[1] = i /\ s[2] = u
    BY <1>4, <1>9
  <2> HIDE DEF s
  <2>2. ~(i < GroupLast(i))
    BY <1>1, <1>9
  <2>3. writes[s] = <<Page(i) + u, Page(GroupFirst(i)) + m[Page(i) + u] - Page(i)>>
    BY <1>2, <2>1, <2>2
  <2>4. writes[s][1] = Page(i) + u /\ writes[s][2] = Page(GroupFirst(i)) + m[Page(i) + u] - Page(i)
    BY <2>3
  <2> QED
    BY <1>2, <1>7, <2>1, <2>4
\* And where it does not.
<1>10. ASSUME NEW i \in 0..npages-1, NEW u \in 0..PageSize-1, i = GroupLast(i),
              ~(i > GroupFirst(i) /\ Stays(m, i, u)), Page(i) + u \in DOMAIN m
       PROVE  made[Page(i) + u] = m[Page(i) + u]
  <2>1. ASSUME NEW s \in DOMAIN writes, writes[s][1] = Page(i) + u
        PROVE  FALSE
    <3> DEFINE k == s[1]
               x == s[2]
    <3>1. k \in 0..npages-1 /\ x \in 0..PageSize-1 /\ s = <<k, x, 0>> /\ Page(k) + x = Page(i) + u /\ s \in C
      BY <1>2, <1>3, <1>5, <2>1
    <3> HIDE DEF k, x
    <3>2. k = i /\ x = u
      BY <3>1, PageWords
    <3>3. i < GroupLast(i) \/ (i > GroupFirst(i) /\ Stays(m, i, u))
      BY <1>4, <3>1, <3>2
    <3> QED
      BY <1>1, <1>10, <3>3
  <2> DEFINE a == Page(i) + u
  <2>2. a \in DOMAIN m /\ \A s \in DOMAIN writes : writes[s][1] # a
    BY <1>10, <2>1
  <2> HIDE DEF a
  <2>3. made[a] = m[a]
    BY <1>6, <2>2 DEF Wrote
  <2> QED
    BY <2>3 DEF a
\* By lines.
<1>11. ASSUME NEW i \in 0..npages-1, NEW j \in 0..nlines-1, i < GroupLast(i), NEW o \in 0..line-1
       PROVE  made[Page(i) + w[j] + o] = Page(i + 1) + w[j] + o
  <2>1. i + 1 \in 0..npages-1
    <3>1. GroupLast(i) \in i..npages-1
      BY Groups
    <3> QED
      BY <1>1, <1>11, <3>1
  <2>2. /\ w[j] + o \in 0..PageSize-1
        /\ Page(i) + w[j] + o = Page(i) + (w[j] + o)
        /\ Page(i + 1) + w[j] + o = Page(i + 1) + (w[j] + o)
    BY <2>1, LineOffset DEF w
  <2>3. made[Page(i) + (w[j] + o)] = Page(i + 1) + (w[j] + o)
    BY <1>8, <1>11, <2>2
  <2> QED
    BY <2>2, <2>3
<1>12. ASSUME NEW i \in 0..npages-1, NEW j \in 0..nlines-1, i = GroupLast(i), j < nlines - 1,
              NEW o \in 0..line-1
       PROVE  made[Page(i) + w[j] + o] = Page(GroupFirst(i)) + w[j + 1] + o
  <2> DEFINE f == GroupFirst(i)
             u == w[j] + o
             y == w[j + 1] + o
  <2>1. f \in 0..npages-1 /\ f <= i
    <3>1. GroupFirst(i) \in 0..i
      BY Groups
    <3> QED
      BY <1>1, <3>1
  <2>2. j + 1 \in 0..nlines-1
    BY <1>1, <1>12
  <2>3. /\ u \in 0..PageSize-1 /\ y \in 0..PageSize-1
        /\ Page(i) + w[j] + o = Page(i) + u
        /\ Page(i) + w[j + 1] + o = Page(i) + y
        /\ Page(f) + w[j + 1] + o = Page(f) + y
        /\ Page(i) \in Nat /\ Page(f) \in Nat
    BY <2>1, <2>2, LineOffset DEF w
  <2>4. m[Page(i) + w[j] + o] = Page(i) + w[j + 1] + o
    <3>1. i = npages - 1 => j < nlines - 1
      BY <1>12
    <3> QED
      BY <1>12, <3>1 DEF MemRound, w
  <2>5. Page(i) + w[j] + o \in DOMAIN m
    BY DEF MemFilled, w
  <2>f. f = GroupFirst(i)
    OBVIOUS
  <2> HIDE DEF u, y, f
  <2>6. m[Page(i) + u] = Page(i) + y /\ Page(i) + u \in DOMAIN m
    BY <2>3, <2>4, <2>5
  <2>7. CASE f < i
    <3>1. Stays(m, i, u)
      <4>1. Page(i) + y \in Page(i)..Page(i)+PageSize-1
        BY <1>1, <2>3
      <4> QED
        BY <2>6, <4>1 DEF Stays
    <3>2. made[Page(i) + u] = Page(f) + m[Page(i) + u] - Page(i)
      <4>1. i > GroupFirst(i)
        BY <2>7, <2>f, <2>1, <1>1
      <4> QED
        BY <1>9, <1>12, <2>3, <2>f, <3>1, <4>1
    <3>3. Page(f) + (Page(i) + y) - Page(i) = Page(f) + y
      <4> DEFINE a == Page(f)
                 b == Page(i)
      <4> HIDE DEF a, b
      <4>1. a \in Nat /\ b \in Nat /\ y \in Nat
        BY <1>1, <2>3 DEF a, b
      <4>2. a + (b + y) - b = a + y
        BY <4>1
      <4> QED
        BY <4>2 DEF a, b
    <3> QED
      BY <2>3, <2>6, <3>2, <3>3, <2>f
  <2>8. CASE f = i
    <3>0. ~(i > GroupFirst(i))
      <4>1. i \in Int
        BY <1>1
      <4>g. GroupFirst(i) = i
        BY <2>8, <2>f, Zenon
      <4>2. ~(i > i)
        BY <4>1
      <4> QED
        BY <4>g, <4>2, Zenon
    <3>1. ~(i > GroupFirst(i) /\ Stays(m, i, u))
      BY <3>0
    <3>2. made[Page(i) + u] = m[Page(i) + u]
      BY <1>10, <1>12, <2>3, <2>6, <3>1
    <3> QED
      BY <2>3, <2>6, <2>8, <2>f, <3>2
  <2> QED
    BY <1>1, <2>1, <2>7, <2>8
<1>13. ASSUME NEW i \in 0..npages-1, i = GroupLast(i), NEW o \in 0..line-1, NEW k \in 0..npages-1,
              NEW x \in 0..line-1, m[Page(i) + w[nlines - 1] + o] = Page(k) + w[0] + x, k # i \/ i = 0
       PROVE  made[Page(i) + w[nlines - 1] + o] = Page(k) + w[0] + x
  <2> DEFINE u == w[nlines - 1] + o
             y == w[0] + x
  <2>1. nlines - 1 \in 0..nlines-1 /\ 0 \in 0..nlines-1
    BY <1>1
  <2>2. /\ u \in 0..PageSize-1 /\ y \in 0..PageSize-1
        /\ Page(i) + w[nlines - 1] + o = Page(i) + u
        /\ Page(k) + w[0] + x = Page(k) + y
    BY <2>1, LineOffset DEF w
  <2>3. Page(i) + w[nlines - 1] + o \in DOMAIN m
    BY <2>1 DEF MemFilled, w
  <2>4. m[Page(i) + u] = Page(k) + y /\ Page(i) + u \in DOMAIN m
    BY <1>13, <2>2, <2>3
  <2> HIDE DEF u, y
  <2>5. ~(i > GroupFirst(i) /\ Stays(m, i, u))
    <3>1. CASE i = 0
      <4>1. GroupFirst(i) \in 0..i
        BY Groups
      <4> QED
        BY <3>1, <4>1
    <3>2. CASE k # i
      <4>1. Page(k) + y \notin Page(i)..Page(i)+PageSize-1
        BY <2>2, <3>2, OtherPage
      <4> QED
        BY <2>4, <4>1 DEF Stays
    <3> QED
      BY <1>13, <3>1, <3>2
  <2>6. made[Page(i) + u] = m[Page(i) + u]
    BY <1>10, <1>13, <2>2, <2>4, <2>5
  <2> QED
    BY <2>2, <2>4, <2>6
<1>14. ASSUME NEW i \in 0..npages-1, i = GroupLast(i), i < npages - 1, NEW o \in 0..line-1
       PROVE  made[Page(i) + w[nlines - 1] + o] = Page(i + 1) + w[0] + o
  <2>1. i + 1 \in 0..npages-1 /\ i + 1 # i
    BY <1>1, <1>14
  <2>2. m[Page(i) + w[nlines - 1] + o] = Page(i + 1) + w[0] + o
    BY <1>14 DEF MemRound, w
  <2> QED
    BY <1>13, <1>14, <2>1, <2>2
<1>15. ASSUME NEW k \in 0..line-1
       PROVE  made[Page(npages - 1) + w[nlines - 1] + v[k]] = Page(0) + w[0] + v[(k + 1) % line]
  <2> DEFINE i == npages - 1
             x == v[(k + 1) % line]
             o == v[k]
  <2>1. i \in 0..npages-1 /\ 0 \in 0..npages-1 /\ (0 # i \/ i = 0)
    BY <1>1
  <2>2. i = GroupLast(i)
    <3>1. GroupLast(i) \in i..npages-1
      BY <2>1, Groups
    <3> QED
      BY <1>1, <3>1
  <2>3. m[Page(i) + w[nlines - 1] + v[k]] = Page(0) + w[0] + x
    BY DEF MemRound, w, v
  <2>4. o \in 0..line-1 /\ x \in 0..line-1
    <3>1. (k + 1) % line \in 0..line-1
      <4>1. k + 1 \in Nat
        OBVIOUS
      <4> QED
        BY <1>1, <4>1, DivMod
    <3> QED
      BY <3>1, WordFacts DEF v
  <2>5. m[Page(i) + w[nlines - 1] + o] = Page(0) + w[0] + x
    BY <2>3
  <2> HIDE DEF i, x, o
  <2>6. made[Page(i) + w[nlines - 1] + o] = Page(0) + w[0] + x
    BY <1>13, <2>1, <2>2, <2>4, <2>5
  <2> QED
    BY <2>6 DEF i, x, o
<1>16. Regrouped(made)
  BY <1>11, <1>12, <1>14, <1>15 DEF Regrouped, w, v
<1> QED
  BY <1>16 DEF made, writes

\* Where the walk has a line: the groups before it, the lines before it of the
\* pages of its group, and the pages before it.
GroupSize(i) == GroupLast(i) + 1 - GroupFirst(i)
DramPos ==
  [d \in (0..npages-1) \X (0..nlines-1) |->
     nlines * GroupFirst(d[1]) + (GroupSize(d[1]) * d[2] + (d[1] - GroupFirst(d[1])))]

\* A place within what a group takes.
LEMMA GroupPos ==
  ASSUME Shape, NEW i \in 0..npages-1, NEW j \in 0..nlines-1
  PROVE  /\ GroupSize(i) \in Nat \ {0} /\ GroupFirst(i) \in Nat /\ i - GroupFirst(i) \in 0..GroupSize(i)-1
         /\ GroupFirst(i) + GroupSize(i) = GroupLast(i) + 1
         /\ GroupSize(i) * j \in Nat
         /\ GroupSize(i) * j + (i - GroupFirst(i)) \in 0..GroupSize(i)*nlines-1
         /\ nlines * GroupFirst(i) \in Nat
         /\ nlines * GroupFirst(i) + GroupSize(i) * nlines = nlines * (GroupLast(i) + 1)
<1> DEFINE f == GroupFirst(i)
           l == GroupLast(i)
           h == GroupSize(i)
<1>1. npages \in Nat \ {0} /\ nlines \in Nat \ {0}
  BY Sizes
<1>2. f \in 0..i /\ l \in i..npages-1
  BY Groups
<1>3. h = l + 1 - f
  BY DEF GroupSize
<1> HIDE DEF f, l, h
<1>4. f \in Nat /\ l \in Nat /\ h \in Nat \ {0} /\ f + h = l + 1 /\ i - f \in 0..h-1 /\ j \in Nat
  BY <1>1, <1>2, <1>3
<1>5. h * j \in Nat /\ nlines * f \in Nat
  BY <1>1, <1>4
<1>6. h * j + (i - f) \in 0..h*nlines-1
  BY <1>1, <1>4, DigitsBelow
<1>7. nlines * f + h * nlines = nlines * (l + 1)
  <2>1. nlines * (f + h) = nlines * f + h * nlines
    BY <1>1, <1>4
  <2> QED
    BY <1>4, <2>1
<1> QED
  BY <1>4, <1>5, <1>6, <1>7 DEF f, l, h

\* Within a group line by line, and group after group.
LEMMA DramLaps ==
  ASSUME Shape, NEW m, Regrouped(m)
  PROVE  Laps(m, (0..npages-1) \X (0..nlines-1), DramPos, npages * nlines)
<1> DEFINE D == (0..npages-1) \X (0..nlines-1)
           pos == DramPos
           R == npages * nlines
           L == nlines
           w == Lines
           f(i) == GroupFirst(i)
           h(i) == GroupSize(i)
           l(i) == GroupLast(i)
<1>1. npages \in Nat \ {0} /\ L \in Nat \ {0}
  BY Sizes
<1>2. R = L * npages /\ R \in Nat \ {0}
  BY <1>1
<1>3. \A d \in D : /\ d[1] \in 0..npages-1 /\ d[2] \in 0..L-1 /\ d = <<d[1], d[2]>>
                   /\ pos[d] = L * f(d[1]) + (h(d[1]) * d[2] + (d[1] - f(d[1])))
                   /\ Base(d) = Page(d[1]) + w[d[2]]
  BY DEF DramPos, Base
<1>4. ASSUME NEW i \in 0..npages-1, NEW j \in 0..L-1
      PROVE  /\ <<i, j>> \in D /\ Base(<<i, j>>) = Page(i) + w[j]
             /\ pos[<<i, j>>] = L * f(i) + (h(i) * j + (i - f(i)))
  <2> DEFINE d == <<i, j>>
  <2>1. d \in D /\ d[1] = i /\ d[2] = j
    OBVIOUS
  <2> HIDE DEF d, D, pos, w, f, h
  <2>2. pos[d] = L * f(i) + (h(i) * j + (i - f(i))) /\ Base(d) = Page(i) + w[j]
    BY <1>3, <2>1
  <2> QED
    BY <2>1, <2>2 DEF d
<1>5. ASSUME NEW i \in 0..npages-1, NEW j \in 0..L-1
      PROVE  /\ h(i) \in Nat \ {0} /\ f(i) \in Nat /\ i - f(i) \in 0..h(i)-1
             /\ f(i) + h(i) = l(i) + 1
             /\ h(i) * j \in Nat
             /\ h(i) * j + (i - f(i)) \in 0..h(i)*L-1
             /\ L * f(i) \in Nat
             /\ L * f(i) + h(i) * L = L * (l(i) + 1)
  BY GroupPos
<1>6. ASSUME NEW i \in 0..npages-1
      PROVE  /\ f(i) \in 0..i /\ f(i) \in 0..npages-1 /\ l(i) \in i..npages-1
             /\ (i < l(i) => f(i + 1) = f(i))
             /\ f(f(i)) = f(i)
             /\ (i = l(i) /\ i < npages - 1 => f(i + 1) = i + 1)
             /\ \A k \in 0..npages-1 : f(i) = f(k) \/ l(i) < f(k) \/ l(k) < f(i)
  <2>1. /\ f(i) \in 0..i /\ l(i) \in i..npages-1
        /\ (i < l(i) => f(i + 1) = f(i))
        /\ f(f(i)) = f(i)
        /\ (i = l(i) /\ i < npages - 1 => f(i + 1) = i + 1)
        /\ \A k \in 0..npages-1 : f(i) = f(k) \/ l(i) < f(k) \/ l(k) < f(i)
    BY Groups
  <2> HIDE DEF f, l
  <2>2. f(i) \in 0..npages-1
    BY <1>1, <2>1
  <2> QED
    BY <2>1, <2>2
<1>7. \A i, k \in 0..npages-1 : f(i) = f(k) => l(i) = l(k) /\ h(i) = h(k)
  BY DEF GroupLast, GroupSize
<1>8. /\ \A i \in 0..npages-1, j \in 0..L-1 : i < l(i) =>
           \A o \in 0..line-1 : m[Page(i) + w[j] + o] = Page(i + 1) + w[j] + o
      /\ \A i \in 0..npages-1, j \in 0..L-1 : i = l(i) /\ j < L - 1 =>
           \A o \in 0..line-1 : m[Page(i) + w[j] + o] = Page(f(i)) + w[j + 1] + o
      /\ \A i \in 0..npages-1 : i = l(i) /\ i < npages - 1 =>
           \A o \in 0..line-1 : m[Page(i) + w[L - 1] + o] = Page(i + 1) + w[0] + o
      /\ \A k \in 0..line-1 :
           m[Page(npages - 1) + w[L - 1] + Words[k]] = Page(0) + w[0] + Words[(k + 1) % line]
  BY DEF Regrouped
<1> HIDE DEF D, pos, R, L, w, f, h, l
<1>t. ASSUME NEW i \in 0..npages-1
      PROVE  /\ i \in Nat /\ f(i) \in Nat /\ l(i) \in Nat /\ h(i) \in Nat
             /\ f(i) + h(i) = l(i) + 1 /\ i <= l(i) /\ l(i) <= npages - 1
  <2>1. 0 \in 0..L-1
    BY <1>1
  <2>2. h(i) \in Nat /\ f(i) \in Nat /\ f(i) + h(i) = l(i) + 1
    BY <1>5, <2>1
  <2>3. l(i) \in i..npages-1
    BY <1>6
  <2> QED
    BY <1>1, <2>2, <2>3
\* Nothing of a group is where another one is.
<1>9. ASSUME NEW i \in 0..npages-1, NEW k \in 0..npages-1, NEW j \in 0..L-1, NEW x \in 0..L-1, l(i) < f(k)
      PROVE  L * f(i) + (h(i) * j + (i - f(i))) < L * f(k) + (h(k) * x + (k - f(k)))
  <2>1. L * (l(i) + 1) <= L * f(k)
    <3>1. l(i) + 1 \in Nat /\ f(k) \in Nat /\ l(i) + 1 <= f(k) /\ L \in Nat
      <4>1. l(i) \in Nat /\ f(k) \in Nat /\ l(i) < f(k) /\ L \in Nat
        BY <1>1, <1>t, <1>9
      <4> QED
        BY <4>1
    <3> QED
      BY <3>1
  <2> DEFINE a == L * f(i)
             b == h(i) * j + (i - f(i))
             c == L * f(k)
             d == h(k) * x + (k - f(k))
             y == L * (l(i) + 1)
             z == h(i) * L
  <2>2. a \in Nat /\ c \in Nat /\ a + z = y /\ y <= c
    BY <1>5, <2>1
  <2>3. b \in 0..z-1
    BY <1>5
  <2>4. d \in Nat
    <3>1. d \in 0..h(k)*L-1
      BY <1>5
    <3> QED
      BY <3>1
  <2>5. z \in Nat
    <3>1. h(i) \in Nat /\ L \in Nat
      BY <1>1, <1>5
    <3> QED
      BY <3>1
  <2> HIDE DEF a, b, c, d, y, z
  <2>6. a + b < c + d
    BY <2>2, <2>3, <2>4, <2>5
  <2> QED
    BY <2>6 DEF a, b, c, d
<1>10. \A d, e \in D : pos[d] = pos[e] => d = e
  <2> TAKE d, e \in D
  <2> HAVE pos[d] = pos[e]
  <2> DEFINE i == d[1]
             j == d[2]
             k == e[1]
             x == e[2]
             p == L * f(i) + (h(i) * j + (i - f(i)))
             q == L * f(k) + (h(k) * x + (k - f(k)))
  <2>1. i \in 0..npages-1 /\ j \in 0..L-1 /\ k \in 0..npages-1 /\ x \in 0..L-1
        /\ d = <<i, j>> /\ e = <<k, x>> /\ p = q
    BY <1>3
  <2> HIDE DEF i, j, k, x
  <2>2. p \in Int /\ q \in Int
    <3>1. L * f(i) \in Nat /\ h(i) * j \in Nat /\ i - f(i) \in Int
      BY <1>5, <2>1
    <3>2. L * f(k) \in Nat /\ h(k) * x \in Nat /\ k - f(k) \in Int
      BY <1>5, <2>1
    <3> QED
      BY <3>1, <3>2
  <2>3. ~(p < q) /\ ~(q < p)
    <3> HIDE DEF p, q
    <3> QED
      BY <2>1, <2>2
  <2>4. f(i) = f(k)
    <3> HIDE DEF p, q
    <3>1. ~(l(i) < f(k))
      BY <1>9, <2>1, <2>3 DEF p, q
    <3>2. ~(l(k) < f(i))
      BY <1>9, <2>1, <2>3 DEF p, q
    <3> QED
      BY <1>6, <2>1, <3>1, <3>2
  <2>5. h(i) = h(k)
    BY <1>7, <2>1, <2>4
  <2> DEFINE a == L * f(i)
             y == h(i)
             r == i - f(i)
             s == k - f(i)
  <2>6. /\ a \in Nat /\ y \in Nat \ {0} /\ r \in 0..y-1 /\ s \in 0..y-1
        /\ y * j \in Nat /\ y * x \in Nat /\ j \in Nat /\ x \in Nat
    <3>1. /\ a \in Nat /\ y \in Nat \ {0} /\ r \in 0..y-1 /\ y * j \in Nat
      BY <1>5, <2>1
    <3>2. s \in 0..y-1 /\ y * x \in Nat
      <4>1. k - f(k) \in 0..h(k)-1 /\ h(k) * x \in Nat
        BY <1>5, <2>1
      <4> QED
        BY <2>4, <2>5, <4>1
    <3>3. j \in Nat /\ x \in Nat
      BY <1>1, <2>1
    <3> QED
      BY <3>1, <3>2, <3>3
  <2>7. a + (y * j + r) = a + (y * x + s)
    BY <2>1, <2>4, <2>5
  <2>8. y * j + r = y * x + s
    <3> DEFINE u == y * j
               v == y * x
    <3>1. u \in Nat /\ v \in Nat /\ a + (u + r) = a + (v + s)
      BY <2>6, <2>7
    <3> HIDE DEF u, v, a, y, r, s
    <3>2. u + r = v + s
      BY <2>6, <3>1
    <3> QED
      BY <3>2 DEF u, v
  <2>9. j = x /\ r = s
    <3> HIDE DEF a, y, r, s
    <3> QED
      BY <2>6, <2>8, Digits
  <2>10. i = k
    <3>1. i \in Nat /\ k \in Nat /\ f(i) \in Nat
      BY <1>t, <2>1
    <3>2. i - f(i) = k - f(i)
      BY <2>9
    <3> QED
      BY <3>1, <3>2
  <2> QED
    BY <2>1, <2>9, <2>10
<1>11. ASSUME NEW d \in D PROVE pos[d] \in 0..R-1
  <2> DEFINE i == d[1]
             j == d[2]
             a == L * f(i)
             b == h(i) * j + (i - f(i))
             y == L * (l(i) + 1)
             z == h(i) * L
  <2>1. i \in 0..npages-1 /\ j \in 0..L-1 /\ pos[d] = a + b
    BY <1>3
  <2> HIDE DEF i, j
  <2>2. a \in Nat /\ a + z = y /\ b \in 0..z-1
    BY <1>5, <2>1
  <2>3. y <= L * npages
    <3>1. l(i) + 1 \in Nat /\ l(i) + 1 <= npages /\ L \in Nat /\ npages \in Nat
      <4>1. l(i) \in Nat /\ l(i) <= npages - 1 /\ L \in Nat /\ npages \in Nat
        BY <1>1, <1>t, <2>1
      <4> QED
        BY <4>1
    <3> QED
      BY <3>1
  <2>4. z \in Nat
    <3>1. h(i) \in Nat /\ L \in Nat
      BY <1>1, <1>5, <2>1
    <3> QED
      BY <3>1
  <2> HIDE DEF a, b, y, z
  <2>5. a + b \in 0..R-1
    BY <1>2, <2>2, <2>3, <2>4
  <2> QED
    BY <2>1, <2>5
<1>12. <<0, 0>> \in D /\ pos[<<0, 0>>] = 0 /\ Base(<<0, 0>>) = Page(0) + w[0]
  <2>1. 0 \in 0..npages-1 /\ 0 \in 0..L-1
    BY <1>1
  <2>2. f(0) = 0
    BY <1>6, <2>1
  <2>3. L * f(0) = 0 /\ h(0) * 0 = 0
    <3>1. h(0) \in Nat /\ L \in Nat
      BY <1>1, <1>5, <2>1
    <3> QED
      BY <2>2, <3>1
  <2>4. pos[<<0, 0>>] = L * f(0) + (h(0) * 0 + (0 - f(0)))
    BY <1>4, <2>1
  <2> QED
    BY <1>4, <2>1, <2>2, <2>3, <2>4
<1>13. ASSUME NEW i \in 0..npages-1, NEW j \in 0..L-1, i = npages - 1, j = L - 1
       PROVE  pos[<<i, j>>] = R - 1
  <2>1. l(i) = npages - 1
    <3>1. l(i) \in Nat /\ i <= l(i) /\ l(i) <= npages - 1 /\ npages \in Nat /\ i \in Nat
      BY <1>1, <1>t
    <3> QED
      BY <1>13, <3>1
  <2> DEFINE a == L * f(i)
             b == h(i) * j
             c == i - f(i)
             z == h(i) * L
  <2>2. pos[<<i, j>>] = a + (b + c)
    BY <1>4
  <2>3. a \in Nat /\ b \in Nat /\ c \in 0..h(i)-1 /\ f(i) + h(i) = l(i) + 1 /\ a + z = L * (l(i) + 1)
        /\ h(i) \in Nat /\ f(i) \in Nat
    BY <1>5
  <2>4. z = b + h(i)
    <3>1. h(i) \in Nat /\ L \in Nat
      BY <1>1, <2>3
    <3>2. h(i) * (L - 1) = h(i) * L - h(i) /\ h(i) * L \in Nat
      BY <3>1
    <3> QED
      BY <1>13, <3>1, <3>2
  <2>5. c = h(i) - 1
    BY <1>1, <1>13, <2>1, <2>3, SMTT(60)
  <2>6. L * (l(i) + 1) = R
    <3>1. l(i) + 1 = npages
      BY <1>1, <2>1
    <3> QED
      BY <1>2, <3>1
  <2>7. a + z = R
    BY <2>3, <2>6
  <2>8. h(i) \in Nat /\ a \in Nat /\ b \in Nat /\ R \in Nat
    BY <1>2, <2>3
  <2> DEFINE y == h(i)
             p == pos[<<i, j>>]
  <2> HIDE DEF a, b, c, z, y, p
  <2>9. p = R - 1
    <3>1. y \in Nat /\ c = y - 1 /\ z = b + y /\ p = a + (b + c)
      BY <2>2, <2>4, <2>5, <2>8 DEF y, p
    <3> QED
      BY <2>7, <2>8, <3>1
  <2> QED
    BY <2>9 DEF p
<1>14. ASSUME NEW d \in D, pos[d] # R - 1
       PROVE  \E e \in D : pos[e] = pos[d] + 1 /\ \A o \in 0..line-1 : m[Base(d) + o] = Base(e) + o
  <2> DEFINE i == d[1]
             j == d[2]
             a == L * f(i)
             b == h(i) * j
             c == i - f(i)
  <2>1. i \in 0..npages-1 /\ j \in 0..L-1 /\ d = <<i, j>> /\ pos[d] = a + (b + c) /\ Base(d) = Page(i) + w[j]
    BY <1>3
  <2>2. ~(i = npages - 1 /\ j = L - 1)
    BY <1>13, <1>14, <2>1
  <2> HIDE DEF i, j
  <2>3. a \in Nat /\ b \in Nat /\ c \in 0..h(i)-1 /\ f(i) + h(i) = l(i) + 1 /\ h(i) \in Nat \ {0}
        /\ f(i) \in Nat
    BY <1>5, <2>1
  <2>4. f(i) \in 0..npages-1 /\ l(i) \in i..npages-1
    BY <1>6, <2>1
  <2>5. CASE i < l(i)
    <3> DEFINE e == <<i + 1, j>>
    <3>1. i + 1 \in 0..npages-1
      BY <1>1, <2>1, <2>4, <2>5
    <3>2. f(i + 1) = f(i)
      BY <1>6, <2>1, <2>5
    <3>3. h(i + 1) = h(i)
      BY <1>7, <2>1, <3>1, <3>2
    <3>4. e \in D /\ pos[e] = L * f(i + 1) + (h(i + 1) * j + ((i + 1) - f(i + 1))) /\ Base(e) = Page(i + 1) + w[j]
      BY <1>4, <2>1, <3>1
    <3>5. pos[e] = a + (b + ((i + 1) - f(i)))
      BY <3>2, <3>3, <3>4
    <3>6. pos[e] = pos[d] + 1
      <4>1. (i + 1) - f(i) = c + 1
        BY <1>1, <2>1, <2>3
      <4> HIDE DEF e, a, b, c
      <4> QED
        BY <2>1, <2>3, <3>5, <4>1
    <3>7. \A o \in 0..line-1 : m[Base(d) + o] = Base(e) + o
      BY <1>8, <2>1, <2>5, <3>4
    <3> HIDE DEF e
    <3> QED
      BY <3>4, <3>6, <3>7
  <2>6. CASE i = l(i) /\ j < L - 1
    <3> DEFINE k == f(i)
               e == <<k, j + 1>>
    <3>1. j + 1 \in 0..L-1 /\ k \in 0..npages-1
      BY <1>1, <2>1, <2>4, <2>6
    <3>2. f(k) = f(i)
      BY <1>6, <2>1
    <3>3. h(k) = h(i)
      BY <1>7, <2>1, <3>1, <3>2
    <3>4. e \in D /\ pos[e] = L * f(k) + (h(k) * (j + 1) + (k - f(k))) /\ Base(e) = Page(k) + w[j + 1]
      BY <1>4, <3>1
    <3>5. pos[e] = a + (h(i) * (j + 1) + (k - k))
      BY <3>2, <3>3, <3>4
    <3>6. k - k = 0 /\ h(i) * (j + 1) = b + h(i)
      <4>1. j \in Nat /\ h(i) \in Nat
        BY <1>1, <2>1, <2>3
      <4> QED
        BY <2>3, <4>1
    <3>7. c = h(i) - 1
      <4>1. i \in Nat /\ f(i) \in Nat /\ h(i) \in Nat /\ f(i) + h(i) = i + 1
        BY <1>t, <2>1, <2>6
      <4> QED
        BY <4>1
    <3>8. pos[e] = pos[d] + 1
      <4> HIDE DEF e, a, b, c, k
      <4> QED
        BY <2>1, <2>3, <3>5, <3>6, <3>7, SMTT(60)
    <3>9. \A o \in 0..line-1 : m[Base(d) + o] = Base(e) + o
      BY <1>8, <2>1, <2>6, <3>4
    <3> HIDE DEF e
    <3> QED
      BY <3>4, <3>8, <3>9
  <2>7. CASE i = l(i) /\ j = L - 1 /\ i < npages - 1
    <3> DEFINE e == <<i + 1, 0>>
    <3>1. i + 1 \in 0..npages-1 /\ 0 \in 0..L-1
      BY <1>1, <2>1, <2>7
    <3>2. f(i + 1) = i + 1
      BY <1>6, <2>1, <2>7
    <3>3. e \in D /\ pos[e] = L * f(i + 1) + (h(i + 1) * 0 + ((i + 1) - f(i + 1))) /\ Base(e) = Page(i + 1) + w[0]
      BY <1>4, <3>1
    <3>4. h(i + 1) * 0 = 0 /\ (i + 1) - (i + 1) = 0
      <4>1. h(i + 1) \in Nat /\ i + 1 \in Nat
        BY <1>1, <1>5, <3>1, SMTT(60)
      <4> QED
        BY <4>1
    <3>5. pos[e] = L * (l(i) + 1) + (0 + 0)
      BY <2>7, <3>2, <3>3, <3>4
    <3> DEFINE z == h(i) * L
               y == L * (l(i) + 1)
    <3>6. a + z = y
      BY <1>5, <2>1
    <3>7. z = b + h(i)
      <4>1. h(i) \in Nat /\ L \in Nat
        BY <1>1, <2>3
      <4>2. h(i) * (L - 1) = h(i) * L - h(i) /\ h(i) * L \in Nat
        BY <4>1
      <4> QED
        BY <2>7, <4>1, <4>2
    <3>8. c = h(i) - 1
      <4>1. i \in Nat /\ f(i) \in Nat /\ h(i) \in Nat /\ f(i) + h(i) = i + 1
        BY <1>t, <2>1, <2>7
      <4> QED
        BY <4>1
    <3>9. pos[e] = pos[d] + 1
      <4> HIDE DEF e, a, b, c, y, z
      <4>1. pos[e] = y + (0 + 0)
        BY <3>5 DEF y
      <4> QED
        BY <2>1, <2>3, <3>6, <3>7, <3>8, <4>1, SMTT(90)
    <3>10. \A o \in 0..line-1 : m[Base(d) + o] = Base(e) + o
      BY <1>8, <2>1, <2>7, <3>3
    <3> HIDE DEF e
    <3> QED
      BY <3>3, <3>9, <3>10
  <2> QED
    BY <1>1, <2>1, <2>2, <2>4, <2>5, <2>6, <2>7
<1>15. ASSUME NEW d \in D, pos[d] = R - 1
       PROVE  \E e \in D : pos[e] = 0 /\ \A k \in 0..line-1 : m[Base(d) + Words[k]] = Base(e) + Words[(k + 1) % line]
  <2> DEFINE e == <<npages - 1, L - 1>>
  <2>1. npages - 1 \in 0..npages-1 /\ L - 1 \in 0..L-1
    BY <1>1
  <2>2. e \in D /\ pos[e] = R - 1 /\ Base(e) = Page(npages - 1) + w[L - 1]
    BY <1>4, <1>13, <2>1
  <2> HIDE DEF e
  <2>3. d = e
    BY <1>10, <1>15, <2>2
  <2> QED
    BY <1>8, <1>12, <2>2, <2>3
<1>16. D \subseteq (0..npages-1) \X (0..nlines-1)
  BY DEF D
<1> QED
  BY <1>10, <1>11, <1>12, <1>14, <1>15, <1>16 DEF Laps, D, pos, R, L

\* The walk of dram_page_initialize().
LEMMA DramWalks ==
  ASSUME Shape, layout = "dram", phase = "laid", len >= line, len % PageSize = 0,
         mem = DramPage, start = 0
  PROVE  WalksThroughAll
<1> DEFINE m == Store(NoMemory, Mem)
           D == (0..npages-1) \X (0..nlines-1)
           R == npages * nlines
           P == Promised
<1>1. /\ npages \in Nat \ {0} /\ nlines \in Nat \ {0} /\ line \in Nat \ {0} /\ PageSize \in Nat \ {0}
  BY Sizes
<1>2. MemLines = nlines
  BY DEF MemLines
<1>3. MemRound(m, npages, nlines) /\ MemFilled(m)
  BY <1>2, MemStored
<1>4. mem = Store(m, Regroup(m))
  BY DEF DramPage
<1> HIDE DEF m
<1>5. Regrouped(mem)
  BY <1>3, <1>4, RegroupWrites
<1>6. Laps(mem, D, DramPos, R)
  BY <1>5, DramLaps
<1>7. R \in Nat \ {0}
  BY <1>1
<1>8. P = OnPages(npages, 0..PageSize-1)
  BY DEF Promised
<1> HIDE DEF P, R
<1>9. npages \in 0..npages
  BY <1>1
<1>10. \A a : a \in P <=> \E i \in 0..npages-1, j \in 0..nlines-1, o \in 0..line-1 : a = Page(i) + Lines[j] + o
  BY <1>8, <1>9, PagesWords
<1>11. ASSUME NEW i \in 0..npages-1, NEW j \in 0..nlines-1
       PROVE  <<i, j>> \in D /\ Base(<<i, j>>) = Page(i) + Lines[j]
  BY DEF Base
<1>12. \A e \in D : e[1] \in 0..npages-1 /\ e[2] \in 0..nlines-1 /\ Base(e) = Page(e[1]) + Lines[e[2]]
  BY DEF Base
<1>z. 0 \in Range(pages)
  BY <1>1 DEF Shape
<1> HIDE DEF D
<1>13. \A a : a \in P <=> \E e \in D, o \in 0..line-1 : a = Base(e) + o
  <2>1. ASSUME NEW a \in P PROVE \E e \in D, o \in 0..line-1 : a = Base(e) + o
    <3>1. PICK i \in 0..npages-1, j \in 0..nlines-1, o \in 0..line-1 : a = Page(i) + Lines[j] + o
      BY <1>10
    <3>2. <<i, j>> \in D /\ Base(<<i, j>>) = Page(i) + Lines[j]
      BY <1>11
    <3> QED
      BY <3>1, <3>2
  <2>2. ASSUME NEW e \in D, NEW o \in 0..line-1 PROVE Base(e) + o \in P
    BY <1>10, <1>12
  <2> QED
    BY <2>1, <2>2
<1>14. \E d \in D : start = Base(d) + Words[0]
  <2>1. PICK x \in DOMAIN pages : pages[x] = 0
    BY <1>z DEF Range
  <2> DEFINE i == x - 1
             d == <<i, 0>>
  <2>2. i \in 0..npages-1 /\ i + 1 = x
    BY <1>1, <2>1 DEF Shape
  <2>3. Page(i) = 0
    BY <1>1, <2>1, <2>2 DEF Page
  <2>4. Lines[0] = 0 /\ Words[0] = 0
    <3>1. InOrder(Lines, nlines, line) /\ InOrder(Words, line, 1)
      BY LineWords
    <3> QED
      BY <3>1 DEF InOrder
  <2>5. 0 \in 0..nlines-1
    BY <1>1
  <2>6. d \in D /\ Base(d) = Page(i) + Lines[0]
    BY <1>11, <2>2, <2>5
  <2>7. start = Base(d) + Words[0]
    BY <2>3, <2>4, <2>6
  <2> QED
    BY <2>6, <2>7
<1>15. PICK d \in D : start = Base(d) + Words[0]
  BY <1>14
<1>16. 0 \in 0..line-1
  BY <1>1
<1> QED
  BY <1>6, <1>7, <1>13, <1>15, <1>16, LapsWalk DEF P

----------------------------------------------------------------------------
(* The walks, from layout to measure                                       *)

\* line_initialize, line_test and fixup_path: the first pointers of all lines
\* are there, and those that are cut are set back.
LineInv ==
  /\ start = Page(0)
  /\ phase = "laid" => LineLinks(mem, nlines)
  /\ phase = "cut" =>
       \E l \in LineSizes : /\ l >= line /\ cut = <<PageSize \div l, npages>>
                            /\ LineLinks(mem, PageSize \div l)

\* mem_initialize and measure(): whatever pages have been swapped, the lines
\* are linked within them, but on the page that is cut.
MemInv ==
  IF len % PageSize = 0
  THEN /\ MemFilled(mem)
       /\ phase = "laid" => InPage(mem, npages, nlines)
       /\ phase = "laid" /\ cut = <<0, 0>> => MemRound(mem, npages, nlines) /\ start = Page(0)
       /\ phase = "cut" =>
            \E np \in 1..npages, n \in 1..nlines :
              /\ cut = <<n, np>> /\ start = Page(0)
              /\ InPage(mem, np, n) /\ MemRound(mem, np, n)
  ELSE phase = "laid" /\ cut = <<0, 0>> /\ mem = Laid("mem") /\ start = Page(0)

WalksInv ==
  /\ Shape
  /\ phase \in {"new", "laid", "cut"}
  /\ phase = "cut" => layout \in {"line", "mem"}
  /\ phase = "new" => cut = <<0, 0>>
  /\ phase = "laid" /\ layout \notin {"line", "mem"} =>
       cut = <<0, 0>> /\ mem = Laid(layout) /\ start = First(layout)
  /\ phase # "new" /\ layout = "line" => LineInv
  /\ phase # "new" /\ layout = "mem" => MemInv

\* What depends on the inputs only stays with them.
LEMMA SameLines ==
  ASSUME UNCHANGED inputs
  PROVE  Lines' = Lines /\ Words' = Words
BY DEF inputs, Lines, Words

LEMMA SameLayouts ==
  ASSUME UNCHANGED inputs
  PROVE  /\ Stride' = Stride /\ Thrash' = Thrash /\ Mem' = Mem /\ Line' = Line /\ Tlb' = Tlb
         /\ DramPage' = DramPage
<1>1. Stride' = Stride
  BY DEF inputs, Stride, Ceil
<1>2. ThrashWords' = ThrashWords
  BY DEF inputs, ThrashWords
<1>3. ThrashPages' = ThrashPages
  BY DEF inputs, ThrashPages, Page
<1>4. Thrash' = Thrash
  BY <1>2, <1>3 DEF inputs, Thrash
<1>5. Mem' = Mem
  BY SameLines DEF inputs, Mem, Page, LastLine
<1>6. Line' = Line
  BY SameLines DEF inputs, Line, Page
<1>7. Tlb' = Tlb
  BY DEF inputs, Tlb, Page
<1>8. DramPage' = DramPage
  BY <1>5 DEF inputs, DramPage, Regroup, Page, GroupFirst, GroupLast, Stays
<1> QED
  BY <1>1, <1>4, <1>5, <1>6, <1>7, <1>8

\* And so do the shape of the memory and the links of its lines.
LEMMA SameLinks ==
  ASSUME UNCHANGED inputs
  PROVE  /\ Laid(layout)' = Laid(layout) /\ First(layout)' = First(layout) /\ Page(0)' = Page(0)
         /\ Shape' <=> Shape
<1>1. Laid(layout)' = Laid(layout)
  BY SameLayouts DEF Laid, inputs
<1>2. First(layout)' = First(layout) /\ Page(0)' = Page(0)
  BY DEF First, Page, inputs
<1>3. Shape' <=> Shape
  BY DEF Shape, inputs, Ceil
<1> QED
  BY <1>1, <1>2, <1>3

\* The invariant holds before a layout is made.
LEMMA InitShape ==
  ASSUME Init
  PROVE  WalksInv
<1>1. /\ layout \in Layouts /\ line \in LineSizes /\ nwords = line /\ nlines = PageSize \div line
      /\ npages = Ceil(len, PageSize) /\ phase = "new" /\ cut = <<0, 0>>
  BY DEF Init
<1>2. PageSize \in Nat \ {0}
  <2>1. PICK b \in Nat : PageSize = Pow2[b]
    BY DEF WalksAssumption, IsPowerOfTwo
  <2> QED
    BY <2>1, Pow2Facts
<1>3. line \in Nat \ {0}
  <2>1. IsPowerOfTwo(line)
    BY <1>1 DEF WalksAssumption
  <2>2. PICK b \in Nat : line = Pow2[b]
    BY <2>1 DEF IsPowerOfTwo
  <2> QED
    BY <2>2, Pow2Facts
<1>4. len \in Nat \ {0} /\ len >= line
  <2>1. CASE layout = "tlb"
    <3>1. line = 1 /\ len \in {n * PageSize : n \in TlbPages}
      BY <2>1 DEF Init
    <3>2. PICK n \in TlbPages : len = n * PageSize
      BY <3>1
    <3>3. n \in Nat \ {0}
      BY <3>2 DEF WalksAssumption
    <3>4. n * PageSize \in Nat \ {0}
      BY <1>2, <3>3
    <3> QED
      BY <3>1, <3>2, <3>4
  <2>2. CASE layout # "tlb"
    <3>1. len \in 1..MaxLen /\ MaxLen \in Nat
      BY <2>2 DEF Init, WalksAssumption
    <3>2. layout \in {"stride", "thrash"} \/ layout \in {"mem", "dram", "line"}
      BY <1>1, <2>2 DEF Layouts
    <3>3. len >= line \/ len >= 2 * line
      BY <3>2 DEF Init
    <3> QED
      BY <1>3, <3>1, <3>3
  <2> QED
    BY <2>1, <2>2
<1>5. group \in 1..3
  BY DEF Init
<1>6. pages \in PageOrders /\ Len(pages) = npages /\ (layout = "dram" => Range(pages) = 0..npages-1)
  BY DEF Init
<1>7. pages \in [1..npages -> Nat] /\ IsInjective(pages)
  <2>1. pages \in Seq(Nat) /\ IsInjective(pages)
    BY <1>6 DEF WalksAssumption
  <2> QED
    BY <1>6, <2>1
<1>8. Shape
  BY <1>1, <1>4, <1>5, <1>6, <1>7 DEF Shape
<1> QED
  BY <1>1, <1>8 DEF WalksInv

\* The layout is made.
LEMMA InitializeInv ==
  ASSUME WalksInv, Initialize
  PROVE  WalksInv'
<1>1. /\ phase = "new" /\ phase' = "laid" /\ UNCHANGED inputs /\ cut' = cut /\ cut = <<0, 0>>
      /\ mem' = Laid(layout) /\ start' = First(layout) /\ Shape
  BY DEF WalksInv, Initialize
<1>2. layout' = layout /\ len' = len /\ npages' = npages /\ nlines' = nlines
  BY <1>1 DEF inputs
<1>3. Shape' /\ mem' = Laid(layout)' /\ start' = First(layout)' /\ Page(0)' = Page(0)
  BY <1>1, SameLinks
<1>4. ASSUME layout' = "line"
      PROVE  LineInv'
  <2> DEFINE m == Store(NoMemory, Line)
  <2>1. mem' = m /\ start' = Page(0)
    BY <1>1, <1>2, <1>4 DEF Laid, First
  <2>2. LineLinks(m, nlines)
    BY <1>1, LineLaid
  <2> HIDE DEF m
  <2>3. LineLinks(mem, nlines)'
    BY <1>1, <2>1, <2>2, SameLines DEF LineLinks, inputs, Page, NextPage
  <2> QED
    BY <1>1, <1>3, <2>1, <2>3 DEF LineInv
<1>5. ASSUME layout' = "mem"
      PROVE  MemInv'
  <2> DEFINE m == Store(NoMemory, Mem)
  <2>1. mem' = m /\ start' = Page(0) /\ mem' = Laid("mem")'
    BY <1>1, <1>2, <1>3, <1>5 DEF Laid, First
  <2>2. CASE len % PageSize = 0
    <3>1. MemLines = nlines /\ len >= line
      BY <1>1, <2>2 DEF MemLines, Shape
    <3>2. MemRound(m, npages, nlines) /\ MemFilled(m)
      BY <1>1, <2>2, <3>1, MemStored
    <3>3. InPage(m, npages, nlines)
      BY <1>1, <3>2, RoundInPage
    <3> HIDE DEF m
    <3>4. MemFilled(mem)'
      BY <1>1, <2>1, <3>2, SameLines DEF MemFilled, inputs, Page
    <3>5. InPage(mem, npages, nlines)'
      BY <1>1, <2>1, <3>3, SameLines DEF InPage, inputs, Page
    <3>6. MemRound(mem, npages, nlines)'
      BY <1>1, <2>1, <3>2, SameLines DEF MemRound, inputs, Page
    <3>7. start' = Page(0)'
      BY <1>3, <2>1
    <3> QED
      BY <1>1, <1>2, <2>2, <3>4, <3>5, <3>6, <3>7 DEF MemInv
  <2>3. CASE len % PageSize # 0
    BY <1>1, <1>2, <1>3, <2>1, <2>3 DEF MemInv
  <2> QED
    BY <2>2, <2>3
<1> QED
  BY <1>1, <1>2, <1>3, <1>4, <1>5 DEF WalksInv

\* line_test()
LEMMA LineTestInv ==
  ASSUME WalksInv, LineTest
  PROVE  WalksInv'
<1>1. /\ phase = "laid" /\ layout = "line" /\ phase' = "cut" /\ UNCHANGED <<inputs, start>>
      /\ Shape /\ LineInv
  BY DEF WalksInv, LineTest
<1>2. PICK l \in LineSizes :
        /\ l >= line
        /\ cut' = <<PageSize \div l, npages>>
        /\ mem' = IF PageSize \div l < nlines THEN Store(mem, CutLines(PageSize \div l)) ELSE mem
  BY DEF LineTest
<1> DEFINE n == PageSize \div l
<1>3. n \in 1..nlines /\ nlines \in Nat
  BY <1>1, <1>2, LinePrefix, Sizes
<1>n. n = PageSize \div l
  OBVIOUS
<1> HIDE DEF n
<1>4. LineLinks(mem, nlines) /\ start = Page(0)
  BY <1>1 DEF LineInv
<1>5. LineLinks(mem', n)
  <2>1. CASE n < nlines
    <3> DEFINE made == Store(mem, CutLines(n))
    <3>1. n \in 1..nlines-1
      BY <1>3, <2>1
    <3>2. LineLinks(made, n)
      BY <1>1, <1>4, <3>1, LineCut
    <3>3. mem' = made
      BY <1>2, <1>n, <2>1
    <3> HIDE DEF made
    <3> QED
      BY <3>2, <3>3 DEF LineLinks
  <2>2. CASE ~(n < nlines)
    <3>1. n = nlines /\ mem' = mem
      BY <1>2, <1>3, <1>n, <2>2
    <3> QED
      BY <1>4, <3>1 DEF LineLinks
  <2> QED
    BY <2>1, <2>2
<1>6. LineLinks(mem, PageSize \div l)'
  BY <1>1, <1>5, <1>n, SameLines DEF LineLinks, inputs, Page, NextPage
<1>7. start' = Page(0)'
  BY <1>1, <1>4, SameLinks
<1>8. cut' = <<PageSize \div l, npages'>> /\ l >= line'
  BY <1>1, <1>2 DEF inputs
<1>9. LineInv'
  BY <1>1, <1>6, <1>7, <1>8 DEF LineInv
<1>10. Shape' /\ layout' = "line"
  BY <1>1, SameLinks DEF inputs
<1> QED
  BY <1>1, <1>9, <1>10 DEF WalksInv

\* fixup_path() for line_test()
LEMMA FixupPathInv ==
  ASSUME WalksInv, FixupPath
  PROVE  WalksInv'
<1>1. /\ phase = "cut" /\ layout = "line" /\ phase' = "laid" /\ UNCHANGED <<inputs, start>>
      /\ cut' = <<0, 0>> /\ Shape /\ LineInv
      /\ mem' = IF cut[1] < nlines THEN Store(mem, MendLines(cut[1])) ELSE mem
  BY DEF WalksInv, FixupPath
<1>2. PICK l \in LineSizes :
        l >= line /\ cut = <<PageSize \div l, npages>> /\ LineLinks(mem, PageSize \div l)
  BY <1>1 DEF LineInv
<1> DEFINE n == PageSize \div l
<1>3. n \in 1..nlines /\ nlines \in Nat
  BY <1>1, <1>2, LinePrefix, Sizes
<1>n. n = cut[1] /\ LineLinks(mem, n)
  BY <1>2
<1> HIDE DEF n
<1>4. LineLinks(mem', nlines)
  <2>1. CASE n < nlines
    <3> DEFINE made == Store(mem, MendLines(n))
    <3>1. n \in 1..nlines-1
      BY <1>3, <2>1
    <3>2. LineLinks(made, nlines)
      BY <1>1, <1>n, <3>1, LineMend
    <3>3. mem' = made
      BY <1>1, <1>n, <2>1
    <3> HIDE DEF made
    <3> QED
      BY <3>2, <3>3 DEF LineLinks
  <2>2. CASE ~(n < nlines)
    <3>1. n = nlines /\ mem' = mem
      BY <1>1, <1>3, <1>n, <2>2
    <3> QED
      BY <1>n, <3>1 DEF LineLinks
  <2> QED
    BY <2>1, <2>2
<1>5. LineLinks(mem, nlines)'
  BY <1>1, <1>4, SameLines DEF LineLinks, inputs, Page, NextPage
<1>6. start' = Page(0)'
  BY <1>1, SameLinks DEF LineInv
<1>7. LineInv'
  BY <1>1, <1>5, <1>6 DEF LineInv
<1>8. Shape' /\ layout' = "line"
  BY <1>1, SameLinks DEF inputs
<1> QED
  BY <1>1, <1>7, <1>8 DEF WalksInv

\* remove_chunk() and fixup_chunk() swap pages; the lines of each stay linked.
LEMMA SwapPagesInv ==
  ASSUME WalksInv, SwapPages
  PROVE  WalksInv'
<1>1. /\ phase = "laid" /\ layout = "mem" /\ len % PageSize = 0 /\ Shape /\ MemInv
      /\ UNCHANGED <<layout, len, line, group, npages, nlines, nwords, mem, start, phase>>
      /\ cut' = <<nlines, npages>>
  BY DEF WalksInv, SwapPages
<1>2. PICK i \in 1..npages, j \in 1..npages :
        i < j /\ pages' = [pages EXCEPT ![i] = pages[j], ![j] = pages[i]]
  BY DEF SwapPages
<1>3. npages \in Nat \ {0} /\ nlines \in Nat \ {0}
  BY <1>1, Sizes
<1>4. pages \in [1..npages -> Nat] /\ \A x, y \in 1..npages : pages[x] = pages[y] => x = y
  BY <1>1 DEF Shape, IsInjective
<1>5. \A x \in 1..npages : pages'[x] = IF x = i THEN pages[j] ELSE IF x = j THEN pages[i] ELSE pages[x]
  BY <1>2, <1>4
<1>6. pages' \in [1..npages -> Nat]
  BY <1>2, <1>4
<1>7. IsInjective(pages')
  <2>1. \A x, y \in 1..npages : pages'[x] = pages'[y] => x = y
    BY <1>4, <1>5
  <2> QED
    BY <1>6, <2>1 DEF IsInjective
<1>8. Shape'
  BY <1>1, <1>6, <1>7 DEF Shape, Ceil, Layouts
<1>9. ASSUME NEW x \in 0..npages-1
      PROVE  \E y \in 0..npages-1 : pages'[x + 1] * PageSize = Page(y)
  <2>1. x + 1 \in 1..npages
    BY <1>3
  <2>2. PICK z \in 1..npages : pages'[x + 1] = pages[z]
    BY <1>5, <2>1
  <2>3. z - 1 \in 0..npages-1 /\ (z - 1) + 1 = z
    BY <1>3
  <2> QED
    BY <2>2, <2>3 DEF Page
<1>10. Lines' = Lines
  BY <1>1 DEF Lines
<1>11. MemFilled(mem) /\ InPage(mem, npages, nlines)
  BY <1>1 DEF MemInv
<1>12. MemFilled(mem)'
  <2>1. ASSUME NEW x \in 0..npages-1, NEW k \in 0..nlines-1, NEW o \in 0..line-1
        PROVE  pages'[x + 1] * PageSize + Lines[k] + o \in DOMAIN mem
    <3>1. PICK y \in 0..npages-1 : pages'[x + 1] * PageSize = Page(y)
      BY <1>9
    <3>2. Page(y) + Lines[k] + o \in DOMAIN mem
      BY <1>11 DEF MemFilled
    <3> QED
      BY <3>1, <3>2
  <2> QED
    BY <1>1, <1>10, <2>1 DEF MemFilled, Page
<1>13. InPage(mem, npages, nlines)'
  <2>1. ASSUME NEW x \in 0..npages-1, NEW k \in 0..nlines-1, k < nlines - 1, NEW o \in 0..line-1
        PROVE  mem[pages'[x + 1] * PageSize + Lines[k] + o] = pages'[x + 1] * PageSize + Lines[k + 1] + o
    <3>1. PICK y \in 0..npages-1 : pages'[x + 1] * PageSize = Page(y)
      BY <1>9
    <3>2. ~(y = npages - 1 /\ k = nlines - 1)
      BY <1>3, <2>1
    <3>3. mem[Page(y) + Lines[k] + o] = Page(y) + Lines[k + 1] + o
      BY <1>11, <2>1, <3>2 DEF InPage
    <3> QED
      BY <3>1, <3>3
  <2> QED
    BY <1>1, <1>10, <2>1 DEF InPage, Page
<1>14. cut' # <<0, 0>>
  BY <1>1, <1>3
<1>15. MemInv'
  BY <1>1, <1>12, <1>13, <1>14 DEF MemInv
<1> QED
  BY <1>1, <1>8, <1>15 DEF WalksInv

\* A size that measure() is asked for ends on some line of some page.
LEMMA MeasureSize ==
  ASSUME Shape, len % PageSize = 0, NEW size \in 1..len, size % line = 0
  PROVE  /\ Ceil(size, PageSize) \in 1..npages
         /\ size % PageSize # 0 => (size % PageSize) \div line \in 1..nlines
<1>1. /\ PageSize \in Nat \ {0} /\ line \in Nat \ {0} /\ nlines \in Nat \ {0}
      /\ len \in Nat \ {0} /\ PageSize = line * nlines /\ npages \in Nat \ {0}
  BY Sizes
<1>2. len = PageSize * npages
  BY WholePages
<1>3. Ceil(size, PageSize) \in 1..npages
  <2> DEFINE x == size + PageSize - 1
             q == x \div PageSize
  <2>1. x \in Nat /\ x >= PageSize /\ x <= len + PageSize - 1
    BY <1>1
  <2>2. Ceil(size, PageSize) = q
    BY DEF Ceil
  <2> HIDE DEF x
  <2>3. q \in Nat /\ x = PageSize * q + (x % PageSize) /\ x % PageSize \in 0..PageSize-1
    BY <1>1, <2>1, DivMod
  <2> HIDE DEF q
  <2>4. q # 0
    BY <1>1, <2>1, <2>3
  <2>5. q <= npages
    <3>1. ASSUME npages + 1 <= q PROVE FALSE
      <4>1. npages + 1 \in Nat /\ npages \in Nat /\ PageSize \in Nat
        BY <1>1
      <4>2. PageSize * (npages + 1) <= PageSize * q /\ PageSize * (npages + 1) = PageSize * npages + PageSize
        BY <2>3, <3>1, <4>1
      <4>3. PageSize * q \in Nat
        BY <2>3, <4>1
      <4> DEFINE y == PageSize * q
                 z == PageSize * npages
      <4>4. y \in Nat /\ z + PageSize <= y /\ len = z /\ x = y + (x % PageSize)
        BY <1>2, <2>3, <4>2, <4>3
      <4> HIDE DEF y, z
      <4> QED
        BY <1>1, <2>1, <2>3, <4>4
    <3> QED
      BY <1>1, <2>3, <3>1
  <2> QED
    BY <1>1, <2>2, <2>3, <2>4, <2>5
<1>4. ASSUME size % PageSize # 0
      PROVE  (size % PageSize) \div line \in 1..nlines
  <2> DEFINE r == size % PageSize
             q == size \div PageSize
             s == size \div line
             n == r \div line
             u == r % line
  <2>0. size \in Nat
    BY <1>1
  <2>1. q \in Nat /\ r \in 0..PageSize-1 /\ size = PageSize * q + r
    BY <1>1, <2>0, DivMod
  <2>2. s \in Nat /\ size = line * s + 0
    BY <1>1, <2>0, DivMod
  <2>3. r # 0
    BY <1>4
  <2> HIDE DEF r, q, s
  <2>4. n \in Nat /\ u \in 0..line-1 /\ r = line * n + u
    <3>1. r \in Nat
      BY <1>1, <2>1
    <3> QED
      BY <1>1, <3>1, DivMod
  <2> HIDE DEF n, u
  <2>5. PageSize * q = line * (nlines * q) /\ nlines * q \in Nat
    <3>1. (line * nlines) * q = line * (nlines * q)
      BY <1>1, <2>1
    <3>2. nlines * q \in Nat
      BY <1>1, <2>1
    <3> QED
      BY <1>1, <3>1, <3>2
  <2>6. u = 0
    <3> DEFINE y == nlines * q
    <3>1. y \in Nat /\ line * y + (line * n + u) = line * s + 0
      BY <2>1, <2>2, <2>4, <2>5
    <3> HIDE DEF y
    <3>2. line * y + (line * n + u) = line * (y + n) + u
      <4>1. line \in Nat /\ n \in Nat /\ u \in Nat
        BY <1>1, <2>4
      <4>2. line * (y + n) = line * y + line * n /\ line * y \in Nat /\ line * n \in Nat
        BY <3>1, <4>1
      <4> QED
        BY <4>1, <4>2
    <3>3. y + n \in Nat /\ 0 \in 0..line-1 /\ line \in Nat /\ line * (y + n) + u = line * s + 0
      BY <1>1, <2>4, <3>1, <3>2
    <3> QED
      BY <2>2, <2>4, <3>3, Digits
  <2>7. n # 0
    BY <1>1, <2>3, <2>4, <2>6
  <2>8. n <= nlines
    <3>1. ASSUME nlines + 1 <= n PROVE FALSE
      <4>1. nlines \in Nat /\ line \in Nat
        BY <1>1
      <4>2. line * (nlines + 1) <= line * n /\ line * (nlines + 1) = line * nlines + line
        BY <2>4, <3>1, <4>1
      <4>3. line * n \in Nat
        BY <2>4, <4>1
      <4> QED
        BY <1>1, <2>1, <2>4, <4>2, <4>3
    <3> QED
      BY <1>1, <2>4, <3>1
  <2>9. n \in 1..nlines
    BY <1>1, <2>4, <2>7, <2>8
  <2> QED
    BY <2>9 DEF n, r
<1> QED
  BY <1>3, <1>4

\* measure() begins: the walk is cut.
LEMMA MeasureInv ==
  ASSUME WalksInv, Measure
  PROVE  WalksInv'
<1>1. /\ phase = "laid" /\ layout = "mem" /\ len % PageSize = 0 /\ phase' = "cut"
      /\ Shape /\ MemInv /\ UNCHANGED inputs
  BY DEF WalksInv, Measure
<1>2. PICK size \in {s \in 1..len : s % line = 0} :
        LET np == Ceil(size, PageSize)
            n == IF size % PageSize = 0 THEN nlines ELSE (size % PageSize) \div line
        IN  cut' = <<n, np>> /\ mem' = Store(mem, CutSize(np, n)) /\ start' = Page(0)
  BY DEF Measure
<1> DEFINE np == Ceil(size, PageSize)
           n == IF size % PageSize = 0 THEN nlines ELSE (size % PageSize) \div line
           made == Store(mem, CutSize(np, n))
<1>3. np \in 1..npages /\ n \in 1..nlines
  <2>1. nlines \in 1..nlines
    BY <1>1, Sizes
  <2>2. /\ np \in 1..npages
        /\ size % PageSize # 0 => (size % PageSize) \div line \in 1..nlines
    BY <1>1, MeasureSize
  <2> QED
    BY <2>1, <2>2
<1>4. cut' = <<n, np>> /\ mem' = made /\ start' = Page(0)
  BY <1>2
<1> HIDE DEF np, n
<1>5. MemFilled(mem) /\ InPage(mem, npages, nlines)
  BY <1>1 DEF MemInv
<1>6. MemFilled(made) /\ InPage(made, np, n) /\ MemRound(made, np, n)
  BY <1>1, <1>3, <1>5, MemCut
<1> HIDE DEF made
<1>7. Shape' /\ Page(0)' = Page(0) /\ Lines' = Lines /\ Words' = Words
  BY <1>1, SameLinks, SameLines
<1>8. MemFilled(mem)'
  BY <1>1, <1>4, <1>6, <1>7 DEF MemFilled, inputs, Page
<1>9. InPage(mem', np, n) /\ MemRound(mem', np, n)
  BY <1>4, <1>6 DEF InPage, MemRound
<1>10. \E p \in 1..npages', x \in 1..nlines' :
         cut' = <<x, p>> /\ start' = Page(0)' /\ InPage(mem, p, x)' /\ MemRound(mem, p, x)'
  <2>1. PICK p \in 1..npages, x \in 1..nlines :
          cut' = <<x, p>> /\ InPage(mem', p, x) /\ MemRound(mem', p, x)
    BY <1>3, <1>4, <1>9
  <2>2. InPage(mem, p, x)'
    BY <1>1, <1>7, <2>1 DEF InPage, inputs, Page
  <2>3. MemRound(mem, p, x)'
    BY <1>1, <1>7, <2>1 DEF MemRound, inputs, Page
  <2>4. p \in 1..npages' /\ x \in 1..nlines'
    BY <1>1, <2>1 DEF inputs
  <2> QED
    BY <1>4, <1>7, <2>1, <2>2, <2>3, <2>4
<1>11. len' % PageSize = 0 /\ layout' = "mem"
  BY <1>1 DEF inputs
<1>12. MemInv'
  BY <1>1, <1>8, <1>10, <1>11 DEF MemInv
<1> QED
  BY <1>1, <1>7, <1>11, <1>12 DEF WalksInv

\* And ends: it is put together.
LEMMA MeasureEndsInv ==
  ASSUME WalksInv, MeasureEnds
  PROVE  WalksInv'
<1>1. /\ phase = "cut" /\ layout = "mem" /\ phase' = "laid" /\ cut' = cut
      /\ Shape /\ MemInv /\ UNCHANGED inputs
      /\ mem' = Store(mem, MendSize(cut[2], cut[1]))
  BY DEF WalksInv, MeasureEnds
<1>2. len % PageSize = 0
  BY <1>1 DEF MemInv
<1>3. MemFilled(mem) /\
      \E np \in 1..npages, n \in 1..nlines : cut = <<n, np>> /\ InPage(mem, np, n)
  BY <1>1, <1>2 DEF MemInv
<1>4. PICK np \in 1..npages, n \in 1..nlines : cut = <<n, np>> /\ InPage(mem, np, n)
  BY <1>3
<1> DEFINE made == Store(mem, MendSize(np, n))
<1>5. mem' = made
  BY <1>1, <1>4
<1>6. MemFilled(made) /\ InPage(made, npages, nlines)
  BY <1>1, <1>3, <1>4, MemMend
<1> HIDE DEF made
<1>7. Shape' /\ Lines' = Lines
  BY <1>1, SameLinks, SameLines
<1>8. MemFilled(mem)' /\ InPage(mem, npages, nlines)'
  BY <1>1, <1>5, <1>6, <1>7 DEF MemFilled, InPage, inputs, Page
<1>9. cut' # <<0, 0>>
  <2>1. n # 0
    BY <1>1, Sizes
  <2> QED
    BY <1>1, <1>4, <2>1
<1>10. len' % PageSize = 0 /\ layout' = "mem"
  BY <1>1, <1>2 DEF inputs
<1>11. MemInv'
  BY <1>1, <1>8, <1>9, <1>10 DEF MemInv
<1> QED
  BY <1>1, <1>7, <1>10, <1>11 DEF WalksInv

\* WalksInv is an invariant of the walks.
LEMMA WalksStep ==
  ASSUME WalksInv, [Next]_vars
  PROVE  WalksInv'
<1>1. CASE UNCHANGED vars
  <2>1. UNCHANGED inputs /\ UNCHANGED <<mem, start, cut, phase>>
    BY <1>1 DEF vars, inputs
  <2>2. /\ Laid(layout)' = Laid(layout) /\ First(layout)' = First(layout) /\ Page(0)' = Page(0)
        /\ (Shape' <=> Shape) /\ Lines' = Lines /\ Words' = Words
    BY <2>1, SameLinks, SameLines
  <2>3. LineInv => LineInv'
    BY <2>1, <2>2 DEF LineInv, LineLinks, inputs, Page, NextPage
  <2>4. layout = "mem" /\ MemInv => MemInv'
    <3> SUFFICES ASSUME layout = "mem", MemInv PROVE MemInv'
      OBVIOUS
    <3>1. CASE len % PageSize = 0
      BY <2>1, <2>2, <3>1 DEF MemInv, MemFilled, InPage, MemRound, inputs, Page
    <3>2. CASE len % PageSize # 0
      BY <2>1, <2>2, <3>2 DEF MemInv, inputs
    <3> QED
      BY <3>1, <3>2
  <2> QED
    BY <2>1, <2>2, <2>3, <2>4 DEF WalksInv, inputs
<1> QED
  BY <1>1, InitializeInv, LineTestInv, FixupPathInv, SwapPagesInv, MeasureInv, MeasureEndsInv DEF Next

\* Pages of distinct words stay pages of distinct words, and the links within them lead from
\* line to line, while mem_initialize(), line_initialize(), line_test(), remove_chunk(),
\* fixup_chunk() and measure() write to them.
THEOREM WalksInvariant == Spec => []WalksInv
<1>1. Init => WalksInv
  BY InitShape
<1>2. WalksInv /\ [Next]_vars => WalksInv'
  BY WalksStep
<1> QED
  BY <1>1, <1>2, PTL DEF Spec

\* What the walk of mem_initialize() needs, whether whole or cut by measure().
LEMMA MemWalksThroughAll ==
  ASSUME WalksInv, layout = "mem", phase \in {"laid", "cut"}, Suits,
         ~(phase = "laid" /\ cut # <<0, 0>>)
  PROVE  WalksThroughAll
<1>1. Shape /\ MemInv /\ len >= line
  BY DEF WalksInv, Shape
<1>2. len % PageSize = 0 \/ npages = 1
  BY DEF Suits
<1>3. CASE phase = "laid" /\ len % PageSize = 0
  <2>1. MemRound(mem, npages, nlines) /\ start = Page(0) /\ MemLines = nlines
    BY <1>1, <1>3 DEF MemInv, MemLines
  <2>2. MemPromised(npages, nlines)
    BY <1>1, <1>2, <1>3, <2>1, MemLaidPromised
  <2>3. npages \in 1..npages /\ nlines \in 1..nlines
    BY <1>1, Sizes
  <2> QED
    BY <1>1, <2>1, <2>2, <2>3, MemWalks
<1>4. CASE phase = "laid" /\ len % PageSize # 0
  <2>1. mem = Store(NoMemory, Mem) /\ start = Page(0)
    BY <1>1, <1>4 DEF MemInv, Laid
  <2>2. MemRound(mem, npages, MemLines)
    BY <1>1, <1>2, <2>1, MemStored
  <2>3. MemPromised(npages, MemLines)
    BY <1>1, <1>2, <1>4, MemLaidPromised
  <2>4. npages \in 1..npages /\ MemLines \in 1..nlines
    BY <1>1, <1>2, Sizes, LastLines
  <2> QED
    BY <1>1, <2>1, <2>2, <2>3, <2>4, MemWalks
<1>5. CASE phase = "cut"
  <2>1. PICK np \in 1..npages, n \in 1..nlines :
          cut = <<n, np>> /\ start = Page(0) /\ MemRound(mem, np, n)
    BY <1>1, <1>5 DEF MemInv
  <2>2. cut[2] = np /\ cut[1] = n
    BY <2>1
  <2>3. MemPromised(cut[2], cut[1])
    BY <1>1, <1>5, <2>2, MemCutPromised
  <2>4. MemPromised(np, n)
    BY <2>2, <2>3
  <2> QED
    BY <1>1, <2>1, <2>4, MemWalks
<1> QED
  BY <1>3, <1>4, <1>5

\* And the walk of line_initialize(), whole or cut by line_test().
LEMMA LineWalksThroughAll ==
  ASSUME WalksInv, layout = "line", phase \in {"laid", "cut"}
  PROVE  WalksThroughAll
<1>1. Shape /\ LineInv /\ start = Page(0)
  BY DEF WalksInv, LineInv
<1>2. CASE phase = "laid"
  <2>1. LineLinks(mem, nlines)
    BY <1>1, <1>2 DEF LineInv
  <2> QED
    BY <1>1, <1>2, <2>1, LineLaidWalks
<1>3. CASE phase = "cut"
  <2>1. PICK l \in LineSizes : /\ l >= line /\ cut = <<PageSize \div l, npages>>
                               /\ LineLinks(mem, PageSize \div l)
    BY <1>1, <1>3 DEF LineInv
  <2>2. cut[1] = PageSize \div l /\ LineLinks(mem, cut[1])
    BY <2>1
  <2> QED
    BY <1>1, <1>3, <2>1, <2>2, LineCutWalks
<1> QED
  BY <1>2, <1>3

\* The layouts that nothing changes afterwards.
LEMMA InvWalksThroughAll ==
  ASSUME WalksInv
  PROVE  WalksThroughAll
<1>1. SUFFICES ASSUME phase \in {"laid", "cut"}, Suits, layout # "tlb",
                      ~(phase = "laid" /\ cut # <<0, 0>>)
               PROVE  WalksThroughAll
  BY DEF WalksThroughAll
<1>2. Shape /\ layout \in Layouts
  BY DEF WalksInv, Shape
<1>3. layout \notin {"line", "mem"} =>
        phase = "laid" /\ phase # "cut" /\ mem = Laid(layout) /\ start = First(layout)
  BY <1>1 DEF WalksInv
<1>4. CASE layout = "stride"
  <2>1. mem = Store(NoMemory, Stride) /\ start = 0
    BY <1>3, <1>4 DEF Laid, First
  <2> QED
    BY <1>2, <1>3, <1>4, <2>1, StrideRound
<1>5. CASE layout = "thrash" /\ len % PageSize # 0
  <2>1. mem = Store(NoMemory, Thrash) /\ start = 0
    BY <1>3, <1>5 DEF Laid, First
  <2>2. IsPowerOfTwo(len \div line)
    BY <1>1, <1>5 DEF Suits
  <2> QED
    BY <1>2, <1>3, <1>5, <2>1, <2>2, ThrashWordsRound
<1>6. CASE layout = "thrash" /\ len % PageSize = 0
  <2>1. mem = Store(NoMemory, Thrash) /\ start = Page(0)
    BY <1>3, <1>6 DEF Laid, First
  <2> QED
    BY <1>2, <1>3, <1>6, <2>1, ThrashPagesRound
<1>7. CASE layout = "dram"
  <2>1. mem = DramPage /\ start = 0
    BY <1>3, <1>7 DEF Laid, First
  <2>2. len % PageSize = 0 /\ len >= line
    BY <1>1, <1>2, <1>7 DEF Suits, Shape
  <2> QED
    BY <1>2, <1>3, <1>7, <2>1, <2>2, DramWalks
<1> QED
  BY <1>1, <1>2, <1>4, <1>5, <1>6, <1>7, MemWalksThroughAll, LineWalksThroughAll DEF Layouts

\* The walks that lat_mem_rd, lat_dram_page, cache and line time go through all they promise,
\* once, and come back, for every page size, order of the pages and line size.
THEOREM WalksGoThroughAll == Spec => []WalksThroughAll
<1>1. WalksInv => WalksThroughAll
  BY InvWalksThroughAll
<1> QED
  BY <1>1, WalksInvariant, PTL

\* The walk of tlb_initialize() is on another page at every load.
LEMMA InvOnePagePerLoad ==
  ASSUME WalksInv, phase = "laid", layout = "tlb"
  PROVE  /\ Walk(npages)[npages] = start
         /\ {Walk(npages)[i] \div PageSize : i \in 0..npages-1} = Range(pages)
<1>1. Shape /\ mem = Store(NoMemory, Tlb) /\ start = Page(0)
  BY DEF WalksInv, Laid, First
<1>2. npages \in Nat \ {0} /\ PageSize \in Nat \ {0} /\ 0 \in 0..npages-1
  BY <1>1, Sizes
<1>3. Round(mem, TlbTour, npages) /\ start = TlbTour[0]
  BY <1>1, TlbRound
<1> DEFINE w == Walk(npages)
<1>4. w[npages] = start /\ {w[i] : i \in 0..npages-1} = {TlbTour[r] : r \in 0..npages-1}
  BY <1>2, <1>3, WalkReturns
<1> HIDE DEF w
<1>5. \A r \in 0..npages-1 : TlbTour[r] \div PageSize = pages[r + 1]
  <2> SUFFICES ASSUME NEW r \in 0..npages-1 PROVE TlbTour[r] \div PageSize = pages[r + 1]
    OBVIOUS
  <2>1. r \in Nat
    BY <1>2
  <2>2. PageOrder[r % PageSize] \in 0..PageSize-1
    BY <1>2, <2>1, PageOrderFacts
  <2>3. TlbTour[r] = Page(r) + PageOrder[r % PageSize]
    BY DEF TlbTour
  <2> QED
    BY <1>1, <2>2, <2>3, PageWords
<1>6. {w[i] \div PageSize : i \in 0..npages-1} = {TlbTour[r] \div PageSize : r \in 0..npages-1}
  BY <1>4
<1>7. {TlbTour[r] \div PageSize : r \in 0..npages-1} = {pages[r + 1] : r \in 0..npages-1}
  BY <1>5
<1>8. {pages[r + 1] : r \in 0..npages-1} = Range(pages)
  <2>1. DOMAIN pages = 1..npages
    BY <1>1 DEF Shape
  <2>2. \A x \in 1..npages : x - 1 \in 0..npages-1 /\ (x - 1) + 1 = x
    BY <1>2
  <2>3. \A r \in 0..npages-1 : r + 1 \in 1..npages
    BY <1>2
  <2>4. {pages[r + 1] : r \in 0..npages-1} = {pages[x] : x \in 1..npages}
    BY <2>2, <2>3
  <2> QED
    BY <2>1, <2>4 DEF Range
<1> QED
  BY <1>4, <1>6, <1>7, <1>8 DEF w

\* find_tlb() times one page per load, whatever pages it asks for: tlb_initialize()'s walk.
THEOREM OnePageEachLoad == Spec => []OnePagePerLoad
<1>1. WalksInv => OnePagePerLoad
  BY InvOnePagePerLoad DEF OnePagePerLoad
<1> QED
  BY <1>1, WalksInvariant, PTL
=============================================================================
