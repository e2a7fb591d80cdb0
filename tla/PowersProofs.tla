----------------------------- MODULE PowersProofs -----------------------------
(***************************************************************************)
(* What the other proofs need of powers of two, remainders and bits.       *)
(* Induction is by least counterexample, over sets: the library's theorem  *)
(* that < is well-founded on Nat needs no instance of an operator.         *)
(***************************************************************************)
EXTENDS Powers, WellFoundedInduction, TLAPS

\* Every non-empty set of naturals has a least element.
LEMMA LeastElement ==
    ASSUME NEW T \in SUBSET Nat, T # {}
    PROVE  \E m \in T : \A k \in T : m <= k
<1> DEFINE R == OpToRel(<, Nat)
<1>1. IsWellFoundedOn(R, Nat)
  BY NatLessThanWellFounded
<1>2. \A x, y \in Nat : x < y => <<x, y>> \in R
  BY DEF OpToRel
<1> HIDE DEF R
<1>3. PICK m \in T : \A k \in T : ~(<<k, m>> \in R)
  BY <1>1, WFMin
<1>4. ASSUME NEW k \in T PROVE m <= k
  <2>1. k \in Nat /\ m \in Nat /\ ~(<<k, m>> \in R)
    BY <1>3
  <2>2. ~(k < m)
    BY <2>1, <1>2
  <2> QED BY <2>1, <2>2
<1> QED BY <1>4

\* Induction: a set with 0 and every successor holds the naturals.
LEMMA Induction ==
    ASSUME NEW S, 0 \in S, \A n \in Nat : n \in S => n + 1 \in S
    PROVE  \A n \in Nat : n \in S
<1> SUFFICES ASSUME Nat \ S # {} PROVE FALSE
  OBVIOUS
<1>1. PICK m \in Nat \ S : \A k \in Nat \ S : m <= k
  BY LeastElement
<1>2. m - 1 \in Nat
  BY <1>1
<1> QED BY <1>1, <1>2

-----------------------------------------------------------------------------
\* A table of the powers below n.
LEMMA PowersTable ==
    \A n \in Nat : \E f \in [0..n -> Nat \ {0}] :
        f[0] = 1 /\ \A i \in 1..n : f[i] = 2 * f[i - 1]
<1> DEFINE Table(n, f) == f \in [0..n -> Nat \ {0}] /\ f[0] = 1 /\ \A i \in 1..n : f[i] = 2 * f[i - 1]
           S == {n \in Nat : \E f : Table(n, f)}
<1>1. 0 \in S
  <2>1. Table(0, [i \in 0..0 |-> 1])
    OBVIOUS
  <2> QED BY <2>1
<1>2. ASSUME NEW n \in Nat, n \in S PROVE n + 1 \in S
  <2>1. PICK f : Table(n, f)
    BY <1>2
  <2> DEFINE g == [i \in 0..(n + 1) |-> IF i <= n THEN f[i] ELSE 2 * f[n]]
  <2>2. g \in [0..(n + 1) -> Nat \ {0}] /\ g[0] = 1
    <3>1. \A i \in 0..(n + 1) : i <= n => f[i] \in Nat \ {0}
      BY <2>1
    <3>2. f[n] \in Nat \ {0}
      BY <2>1
    <3> QED BY <3>1, <3>2, <2>1
  <2>3. \A i \in 1..(n + 1) : g[i] = 2 * g[i - 1]
    <3> TAKE i \in 1..(n + 1)
    <3>1. CASE i <= n
      BY <3>1, <2>1
    <3>2. CASE i = n + 1
      BY <3>2
    <3> QED BY <3>1, <3>2
  <2>4. Table(n + 1, g)
    BY <2>2, <2>3
  <2> HIDE DEF Table
  <2> QED BY <2>4
<1>3. \A n \in Nat : n \in S
  <2> HIDE DEF S
  <2> QED BY <1>1, <1>2, Induction
<1> QED BY <1>3

\* What Pow2's recursion says: there is a function it describes.
LEMMA Pow2Recursion ==
    Pow2 = [n \in Nat |-> IF n = 0 THEN 1 ELSE 2 * Pow2[n - 1]]
<1> DEFINE Table(n, f) == f \in [0..n -> Nat \ {0}] /\ f[0] = 1 /\ \A i \in 1..n : f[i] = 2 * f[i - 1]
           T(n) == CHOOSE f : Table(n, f)
           F == [n \in Nat |-> T(n)[n]]
           Rec(f) == [n \in Nat |-> IF n = 0 THEN 1 ELSE 2 * f[n - 1]]
<1>1. ASSUME NEW n \in Nat PROVE Table(n, T(n))
  <2>1. \E f : Table(n, f)
    BY PowersTable
  <2> HIDE DEF Table
  <2> QED BY <2>1
<1>2. ASSUME NEW n \in Nat PROVE T(n + 1)[n] = T(n)[n]
  <2> DEFINE f == T(n)
             g == T(n + 1)
             S == {i \in Nat : i <= n => f[i] = g[i]}
  <2>1. Table(n, f) /\ Table(n + 1, g)
    <3>1. n + 1 \in Nat
      OBVIOUS
    <3> HIDE DEF Table, T
    <3> QED BY <3>1, <1>1
  <2>2. T(n)[n] = f[n] /\ T(n + 1)[n] = g[n]
    OBVIOUS
  <2> HIDE DEF f, g
  <2>3. 0 \in S
    BY <2>1
  <2>4. ASSUME NEW i \in Nat, i \in S PROVE i + 1 \in S
    <3>1. CASE i + 1 <= n
      <4>1. i + 1 \in 1..n /\ i + 1 \in 1..(n + 1) /\ (i + 1) - 1 = i
        BY <3>1
      <4>2. f[i + 1] = 2 * f[i] /\ g[i + 1] = 2 * g[i]
        BY <4>1, <2>1
      <4>3. f[i] = g[i]
        BY <2>4, <3>1
      <4> QED BY <4>2, <4>3
    <3>2. CASE ~(i + 1 <= n)
      BY <3>2
    <3> QED BY <3>1, <3>2
  <2>5. f[n] = g[n]
    <3>1. \A i \in Nat : i \in S
      <4> HIDE DEF S
      <4> QED BY <2>3, <2>4, Induction
    <3> HIDE DEF T
    <3> QED BY <3>1
  <2> HIDE DEF T
  <2> QED BY <2>2, <2>5
<1>3. F = Rec(F)
  <2>1. ASSUME NEW n \in Nat PROVE F[n] = Rec(F)[n]
    <3>1. CASE n = 0
      <4>1. Table(0, T(0))
        BY <1>1
      <4>2. T(0)[0] = 1
        BY <4>1
      <4> HIDE DEF T
      <4> QED BY <4>2, <3>1
    <3>2. CASE n # 0
      <4>1. n - 1 \in Nat /\ (n - 1) + 1 = n /\ n \in 1..n
        BY <3>2
      <4>2. Table(n, T(n))
        BY <1>1
      <4>3. T(n)[n] = 2 * T(n)[n - 1]
        BY <4>1, <4>2
      <4>4. T(n)[n - 1] = T(n - 1)[n - 1]
        <5> HIDE DEF T
        <5> QED BY <4>1, <1>2
      <4> HIDE DEF T
      <4> QED BY <4>1, <4>3, <4>4, <3>2
    <3> QED BY <3>1, <3>2
  <2> HIDE DEF T
  <2> QED BY <2>1
<1> HIDE DEF F
<1>4. Pow2 = CHOOSE f : f = Rec(f)
  BY DEF Pow2
<1> HIDE DEF Rec
<1>5. Pow2 = Rec(Pow2)
  BY <1>3, <1>4
<1> QED BY <1>5 DEF Rec

LEMMA Pow2Steps ==
    Pow2[0] = 1 /\ \A n \in Nat : Pow2[n + 1] = 2 * Pow2[n]
<1>1. ASSUME NEW n \in Nat PROVE Pow2[n + 1] = 2 * Pow2[n]
  <2>1. n + 1 \in Nat /\ n + 1 # 0 /\ (n + 1) - 1 = n
    OBVIOUS
  <2> QED BY <2>1, Pow2Recursion
<1>2. Pow2[0] = 1
  BY Pow2Recursion
<1> QED BY <1>1, <1>2

LEMMA Pow2Type == \A n \in Nat : Pow2[n] \in Nat \ {0}
<1> DEFINE S == {n \in Nat : Pow2[n] \in Nat \ {0}}
<1>1. 0 \in S
  BY Pow2Steps
<1>2. ASSUME NEW n \in Nat, n \in S PROVE n + 1 \in S
  BY <1>2, Pow2Steps
<1>3. \A n \in Nat : n \in S
  <2> HIDE DEF S
  <2> QED BY <1>1, <1>2, Induction
<1> QED BY <1>3

LEMMA Pow2Sum == \A a, b \in Nat : Pow2[a + b] = Pow2[a] * Pow2[b]
<1> SUFFICES ASSUME NEW a \in Nat PROVE \A b \in Nat : Pow2[a + b] = Pow2[a] * Pow2[b]
  OBVIOUS
<1> DEFINE S == {b \in Nat : Pow2[a + b] = Pow2[a] * Pow2[b]}
<1>1. 0 \in S
  BY Pow2Steps, Pow2Type
<1>2. ASSUME NEW b \in Nat, b \in S PROVE b + 1 \in S
  <2>1. Pow2[b + 1] = 2 * Pow2[b] /\ Pow2[(a + b) + 1] = 2 * Pow2[a + b]
    BY Pow2Steps
  <2>2. Pow2[a] \in Nat /\ Pow2[b] \in Nat /\ Pow2[a + b] = Pow2[a] * Pow2[b]
    BY <1>2, Pow2Type
  <2>3. a + (b + 1) = (a + b) + 1
    OBVIOUS
  <2>4. Pow2[a + (b + 1)] = Pow2[a] * Pow2[b + 1]
    BY <2>1, <2>2, <2>3
  <2> QED BY <2>4
<1>3. \A b \in Nat : b \in S
  <2> HIDE DEF S
  <2> QED BY <1>1, <1>2, Induction
<1> QED BY <1>3

-----------------------------------------------------------------------------
\* Quotient and remainder are the only ones.
LEMMA Division ==
    ASSUME NEW a \in Int, NEW m \in Nat \ {0}
    PROVE  /\ a \div m \in Int /\ a % m \in 0..(m - 1)
           /\ a = m * (a \div m) + (a % m)
           /\ a \in Nat => a \div m \in Nat
  OBVIOUS

LEMMA DivisionUnique ==
    ASSUME NEW m \in Nat \ {0}, NEW q \in Int, NEW r \in 0..(m - 1)
    PROVE  (m * q + r) \div m = q /\ (m * q + r) % m = r
<1> DEFINE a == m * q + r
           p == a \div m
           s == a % m
<1>1. a \in Int
  OBVIOUS
<1>2. p \in Int /\ s \in 0..(m - 1) /\ a = m * p + s
  <2> HIDE DEF a
  <2> QED BY <1>1, Division
<1>3. m * (q - p) = s - r
  <2> HIDE DEF p, s
  <2> QED BY <1>2
<1>4. q - p = 0
  <2> HIDE DEF p, s
  <2> SUFFICES ASSUME q - p # 0 PROVE FALSE
    OBVIOUS
  <2> DEFINE d == q - p
  <2>1. d \in Int /\ m * d < m /\ m * d > 0 - m
    BY <1>2, <1>3
  <2>2. CASE d >= 1
    <3> HIDE DEF d
    <3>1. m * d >= m
      BY <2>1, <2>2
    <3> QED BY <3>1, <2>1
  <2>3. CASE d <= -1
    <3> HIDE DEF d
    <3>1. m * d <= 0 - m
      BY <2>1, <2>3
    <3> QED BY <3>1, <2>1
  <2>4. d >= 1 \/ d <= -1
    BY <2>1, <1>2
  <2> QED BY <2>2, <2>3, <2>4
<1>5. p = q /\ s = r
  <2> HIDE DEF p, s
  <2> QED BY <1>2, <1>3, <1>4
<1> QED BY <1>5

\* A remainder may be taken early in a sum.
LEMMA RemainderOfSum ==
    ASSUME NEW a \in Int, NEW b \in Int, NEW m \in Nat \ {0}
    PROVE  ((a % m) + b) % m = (a + b) % m
<1> DEFINE q == a \div m
           p == (a + b) \div m
           r == (a + b) % m
<1>1. q \in Int /\ a = m * q + (a % m) /\ a % m \in Int
  BY Division
<1>2. p \in Int /\ r \in 0..(m - 1) /\ a + b = m * p + r
  <2>1. a + b \in Int
    OBVIOUS
  <2> QED BY <2>1, Division
<1> HIDE DEF q, p, r
<1> DEFINE d == p - q
<1>3. (a % m) + b = m * d + r /\ d \in Int
  BY <1>1, <1>2
<1> HIDE DEF d
<1>4. ((a % m) + b) % m = r
  BY <1>2, <1>3, DivisionUnique
<1> QED BY <1>4 DEF r

\* A remainder by a multiple keeps the remainder.
LEMMA RemainderOfRemainder ==
    ASSUME NEW a \in Int, NEW m \in Nat \ {0}, NEW n \in Nat \ {0}
    PROVE  (a % (m * n)) % m = a % m
<1> DEFINE q == a \div (m * n)
           s == a % (m * n)
           r == a % m
           p == a \div m
<1>1. m * n \in Nat \ {0}
  OBVIOUS
<1>2. q \in Int /\ s \in Int /\ a = (m * n) * q + s
  <2> DEFINE mn == m * n
  <2>1. mn \in Nat \ {0}
    BY <1>1
  <2> HIDE DEF mn
  <2>2. a \div mn \in Int /\ a % mn \in Int /\ a = mn * (a \div mn) + (a % mn)
    BY <2>1, Division
  <2> QED BY <2>2 DEF mn
<1>3. p \in Int /\ r \in 0..(m - 1) /\ a = m * p + r
  BY Division
<1> HIDE DEF q, s, r, p
<1>4. s = m * (p - n * q) + r /\ p - n * q \in Int
  <2>1. (m * n) * q = m * (n * q) /\ n * q \in Int
    BY <1>2
  <2> DEFINE x == n * q
  <2>2. s = m * p + r - m * x
    BY <1>2, <1>3, <2>1
  <2>3. x \in Int
    BY <2>1
  <2> HIDE DEF x
  <2>4. m * (p - x) = m * p - m * x
    BY <1>3, <2>3
  <2>5. s = m * (p - x) + r
    BY <2>2, <2>4, <1>2, <1>3, <2>3
  <2> QED BY <2>5, <1>3, <2>3 DEF x
<1>5. s % m = r
  BY <1>3, <1>4, DivisionUnique
<1> QED BY <1>5 DEF s, r

\* One more bit.
LEMMA OneMoreBit ==
    ASSUME NEW a \in Nat, NEW k \in Nat
    PROVE  a % Pow2[k + 1] = (a % Pow2[k]) + Pow2[k] * Bit(a, k)
<1> DEFINE m == Pow2[k]
           q == a \div m
           r == a % m
           p == q \div 2
           b == q % 2
<1>1. m \in Nat \ {0} /\ Pow2[k + 1] = 2 * m
  BY Pow2Type, Pow2Steps
<1>2. q \in Nat /\ r \in 0..(m - 1) /\ a = m * q + r
  <2> HIDE DEF m
  <2>1. q \in Nat
    BY <1>1
  <2>2. r \in 0..(m - 1)
    BY <1>1
  <2>3. a = m * q + r
    BY <1>1
  <2> QED BY <2>1, <2>2, <2>3
<1>3. p \in Int /\ b \in 0..1 /\ q = 2 * p + b
  <2> HIDE DEF q
  <2> QED BY <1>2, Division
<1>4. b = Bit(a, k)
  BY DEF Bit
<1> HIDE DEF m, q, r, p, b
<1>5. a = (2 * m) * p + (m * b + r)
  BY <1>1, <1>2, <1>3
<1>6. m * b + r \in 0..(2 * m - 1) /\ 2 * m \in Nat \ {0}
  BY <1>1, <1>2, <1>3
<1>7. a % (2 * m) = m * b + r
  <2> DEFINE n == 2 * m
             t == m * b + r
  <2>1. n \in Nat \ {0} /\ t \in 0..(n - 1) /\ a = n * p + t
    BY <1>5, <1>6
  <2> HIDE DEF n, t
  <2>2. a % n = t
    BY <2>1, <1>3, DivisionUnique
  <2> QED BY <2>2 DEF n, t
<1>8. r + m * b = m * b + r
  BY <1>1, <1>2, <1>3
<1>9. a % (2 * m) = r + m * b
  BY <1>7, <1>8
<1> QED BY <1>1, <1>4, <1>9 DEF m, r

LEMMA BitType == ASSUME NEW a \in Nat, NEW k \in Nat PROVE Bit(a, k) \in {0, 1}
<1> DEFINE q == a \div Pow2[k]
<1>1. q \in Nat
  <2> DEFINE m == Pow2[k]
  <2>1. m \in Nat \ {0}
    BY Pow2Type
  <2> HIDE DEF m
  <2>2. a \div m \in Nat
    BY <2>1, Division
  <2> QED BY <2>2 DEF m
<1>2. q % 2 \in 0..1
  <2> HIDE DEF q
  <2> QED BY <1>1, Division
<1> QED BY <1>2 DEF Bit

\* Two numbers agree modulo a power of two when they agree in the bits below it.
LEMMA BitsDetermine ==
    \A k \in Nat : \A a, b \in Nat :
        a % Pow2[k] = b % Pow2[k] <=> \A i \in 0..(k - 1) : Bit(a, i) = Bit(b, i)
<1> SUFFICES ASSUME NEW a \in Nat, NEW b \in Nat
             PROVE  \A k \in Nat : a % Pow2[k] = b % Pow2[k]
                                   <=> \A i \in 0..(k - 1) : Bit(a, i) = Bit(b, i)
  OBVIOUS
<1> DEFINE Agree(k) == \A i \in 0..(k - 1) : Bit(a, i) = Bit(b, i)
           S == {k \in Nat : a % Pow2[k] = b % Pow2[k] <=> Agree(k)}
<1>1. 0 \in S
  <2>1. a % 1 = 0 /\ b % 1 = 0
    OBVIOUS
  <2>2. Agree(0)
    OBVIOUS
  <2> HIDE DEF Agree
  <2> QED BY <2>1, <2>2, Pow2Steps
<1>2. ASSUME NEW k \in Nat, k \in S PROVE k + 1 \in S
  <2> DEFINE m == Pow2[k]
             x == Bit(a, k)
             y == Bit(b, k)
             r == a % m
             s == b % m
  <2>1. /\ a % Pow2[k + 1] = r + m * x
        /\ b % Pow2[k + 1] = s + m * y
    BY OneMoreBit
  <2>2. x \in {0, 1} /\ y \in {0, 1}
    BY BitType
  <2>3. m \in Nat \ {0} /\ r \in 0..(m - 1) /\ s \in 0..(m - 1)
    <3>1. m \in Nat \ {0}
      BY Pow2Type
    <3> HIDE DEF m
    <3> QED BY <3>1, Division
  <2>4. Agree(k + 1) <=> Agree(k) /\ x = y
    <3>1. \A i : i \in 0..((k + 1) - 1) <=> i \in 0..(k - 1) \/ i = k
      OBVIOUS
    <3> QED BY <3>1
  <2>5. r = s <=> Agree(k)
    BY <1>2
  <2> HIDE DEF m, x, y, r, s, Agree
  <2>6. r + m * x = s + m * y <=> r = s /\ x = y
    <3>1. CASE x = y
      BY <3>1, <2>2, <2>3
    <3>2. CASE x = 0 /\ y = 1
      BY <3>2, <2>3
    <3>3. CASE x = 1 /\ y = 0
      BY <3>3, <2>3
    <3> QED BY <2>2, <3>1, <3>2, <3>3
  <2> QED BY <2>1, <2>4, <2>5, <2>6
<1>3. \A k \in Nat : k \in S
  <2> HIDE DEF S
  <2> QED BY <1>1, <1>2, Induction
<1> QED BY <1>3

\* Every choice of k bits is that of a number below 2^k.
LEMMA NumberOfBits ==
    \A k \in Nat : \A f \in [0..(k - 1) -> {0, 1}] :
        \E r \in 0..(Pow2[k] - 1) : \A i \in 0..(k - 1) : Bit(r, i) = f[i]
<1> DEFINE Has(k, f) == \E r \in 0..(Pow2[k] - 1) : \A i \in 0..(k - 1) : Bit(r, i) = f[i]
           S == {k \in Nat : \A f \in [0..(k - 1) -> {0, 1}] : Has(k, f)}
<1>1. 0 \in S
  <2> SUFFICES ASSUME NEW f PROVE Has(0, f)
    OBVIOUS
  <2>1. 0 \in 0..(Pow2[0] - 1)
    BY Pow2Steps
  <2> QED BY <2>1
<1>2. ASSUME NEW k \in Nat, k \in S PROVE k + 1 \in S
  <2> SUFFICES ASSUME NEW f \in [0..((k + 1) - 1) -> {0, 1}] PROVE Has(k + 1, f)
    OBVIOUS
  <2> DEFINE g == [i \in 0..(k - 1) |-> f[i]]
             m == Pow2[k]
  <2>1. g \in [0..(k - 1) -> {0, 1}] /\ f[k] \in {0, 1}
    OBVIOUS
  <2>2. PICK r \in 0..(m - 1) : \A i \in 0..(k - 1) : Bit(r, i) = g[i]
    BY <2>1, <1>2
  <2>3. m \in Nat \ {0} /\ Pow2[k + 1] = 2 * m
    BY Pow2Type, Pow2Steps
  <2> DEFINE n == m * f[k] + r
  <2>4. n \in 0..(2 * m - 1) /\ n \in Nat
    <3> HIDE DEF m
    <3> QED BY <2>1, <2>2, <2>3
  <2>5. n \div m = f[k] /\ n % m = r
    <3>1. f[k] \in Int
      BY <2>1
    <3> HIDE DEF m
    <3> QED BY <3>1, <2>2, <2>3, DivisionUnique
  <2>6. Bit(n, k) = f[k]
    <3>1. f[k] % 2 = f[k]
      BY <2>1
    <3> QED BY <2>5, <3>1 DEF Bit
  <2>7. ASSUME NEW i \in 0..(k - 1) PROVE Bit(n, i) = f[i]
    <3>1. r \in Nat /\ r % m = r
      <4> HIDE DEF m
      <4> QED BY <2>2, <2>3
    <3>2. n % m = r % m
      BY <2>5, <3>1
    <3> HIDE DEF n
    <3>3. Bit(n, i) = Bit(r, i)
      BY <2>4, <3>1, <3>2, BitsDetermine
    <3> QED BY <3>3, <2>2
  <2>8. \A i \in 0..((k + 1) - 1) : Bit(n, i) = f[i]
    <3>1. \A i \in 0..((k + 1) - 1) : i \in 0..(k - 1) \/ i = k
      OBVIOUS
    <3> HIDE DEF n
    <3> QED BY <3>1, <2>6, <2>7
  <2> HIDE DEF n
  <2> QED BY <2>3, <2>4, <2>8
<1>3. \A k \in Nat : k \in S
  <2> HIDE DEF S
  <2> QED BY <1>1, <1>2, Induction
<1> QED BY <1>3

\* An odd factor has no part in a power of two.
LEMMA OddFactor ==
    ASSUME NEW s \in Nat, s % 2 = 1
    PROVE  \A k \in Nat : \A d \in Nat : (d * s) % Pow2[k] = 0 => d % Pow2[k] = 0
<1> DEFINE S == {k \in Nat : \A d \in Nat : (d * s) % Pow2[k] = 0 => d % Pow2[k] = 0}
<1>1. 0 \in S
  <2>1. \A d \in Nat : d % 1 = 0
    OBVIOUS
  <2> QED BY <2>1, Pow2Steps
<1>2. ASSUME NEW k \in Nat, k \in S PROVE k + 1 \in S
  <2> SUFFICES ASSUME NEW d \in Nat, (d * s) % Pow2[k + 1] = 0 PROVE d % Pow2[k + 1] = 0
    OBVIOUS
  <2> DEFINE m == Pow2[k]
             t == s \div 2
             x == d * s
             q == x \div (2 * m)
             e == d \div 2
             b == d % 2
  <2>1. m \in Nat \ {0} /\ 2 * m \in Nat \ {0} /\ Pow2[k + 1] = 2 * m
    BY Pow2Type, Pow2Steps
  <2>2. t \in Nat /\ s = 2 * t + 1
    BY Division
  <2>3. e \in Nat /\ b \in 0..1 /\ d = 2 * e + b
    BY Division
  <2>4. x \in Nat /\ q \in Nat /\ x = (2 * m) * q
    <3> DEFINE n == 2 * m
    <3>1. x \in Nat /\ x % n = 0 /\ n \in Nat \ {0}
      BY <2>1
    <3> HIDE DEF x, n
    <3>2. x \div n \in Nat
      BY <3>1
    <3>3. x = n * (x \div n)
      BY <3>1
    <3> QED BY <3>1, <3>2, <3>3 DEF n
  <2>5. x = d * s
    OBVIOUS
  <2> HIDE DEF m, t, x, q, e, b
  <2>6. b = 0
    <3> SUFFICES ASSUME b = 1 PROVE FALSE
      BY <2>3
    <3>1. d * s = 2 * (e * s + t) + 1 /\ e * s + t \in Nat
      BY <2>2, <2>3
    <3>2. d * s = 2 * (m * q) /\ m * q \in Nat
      BY <2>1, <2>4, <2>5
    <3> DEFINE u == e * s + t
               v == m * q
    <3> HIDE DEF u, v
    <3>3. 2 * u + 1 = 2 * v /\ u \in Nat /\ v \in Nat
      BY <3>1, <3>2 DEF u, v
    <3> QED BY <3>3
  <2>7. e * s = m * q
    <3>1. d * s = 2 * (e * s)
      BY <2>3, <2>6
    <3>2. d * s = 2 * (m * q)
      BY <2>1, <2>4, <2>5
    <3> DEFINE u == e * s
               v == m * q
    <3>3. u \in Nat /\ v \in Nat
      BY <2>1, <2>3, <2>4
    <3> HIDE DEF u, v
    <3>4. 2 * u = 2 * v
      BY <3>1, <3>2 DEF u, v
    <3>5. u = v
      BY <3>3, <3>4
    <3> QED BY <3>5 DEF u, v
  <2>8. (e * s) % m = 0
    <3>1. (m * q + 0) % m = 0
      BY <2>1, <2>4, DivisionUnique
    <3>2. m * q + 0 = m * q
      BY <2>1, <2>4
    <3> QED BY <3>1, <3>2, <2>7
  <2>9. e % m = 0
    BY <1>2, <2>3, <2>8 DEF m
  <2>10. PICK p \in Nat : e = m * p
    <3>1. e \div m \in Nat
      BY <2>1, <2>3
    <3>2. e = m * (e \div m)
      BY <2>1, <2>3, <2>9
    <3> QED BY <3>1, <3>2
  <2>11. d = (2 * m) * p + 0
    BY <2>1, <2>3, <2>6, <2>10
  <2>12. d % (2 * m) = 0
    <3> DEFINE n == 2 * m
    <3>1. n \in Nat \ {0} /\ d = n * p + 0 /\ 0 \in 0..(n - 1)
      BY <2>1, <2>11
    <3> HIDE DEF n
    <3>2. d % n = 0
      BY <3>1, DivisionUnique
    <3> QED BY <3>2 DEF n
  <2> QED BY <2>1, <2>12
<1>3. \A k \in Nat : k \in S
  <2> HIDE DEF S
  <2> QED BY <1>1, <1>2, Induction
<1> QED BY <1>3

\* The bits of a quotient by a power of two are the upper bits of the dividend.
LEMMA ShiftedBit ==
    ASSUME NEW a \in Nat, NEW w \in Nat, NEW j \in Nat
    PROVE  Bit(a, w + j) = Bit(a \div Pow2[w], j)
<1> DEFINE m == Pow2[w]
           n == Pow2[j]
           q == a \div m
           r == a % m
           u == q \div n
           v == q % n
<1>1. m \in Nat \ {0} /\ n \in Nat \ {0} /\ Pow2[w + j] = m * n
  BY Pow2Type, Pow2Sum
<1>2. q \in Nat /\ r \in 0..(m - 1) /\ a = m * q + r
  <2> HIDE DEF m
  <2>1. q \in Nat
    BY <1>1
  <2>2. r \in 0..(m - 1)
    BY <1>1
  <2>3. a = m * q + r
    BY <1>1
  <2> QED BY <2>1, <2>2, <2>3
<1>3. u \in Nat /\ v \in 0..(n - 1) /\ q = n * u + v
  <2> HIDE DEF n, q
  <2>1. u \in Nat
    BY <1>1, <1>2
  <2>2. v \in 0..(n - 1)
    BY <1>1, <1>2
  <2>3. q = n * u + v
    BY <1>1, <1>2
  <2> QED BY <2>1, <2>2, <2>3
<1>4. a = (m * n) * u + (m * v + r) /\ m * v + r \in 0..(m * n - 1)
  <2> HIDE DEF m, n, q, r, u, v
  <2>1. a = (m * n) * u + (m * v + r)
    BY <1>1, <1>2, <1>3
  <2>2. m * v <= m * (n - 1) /\ m * v >= 0
    BY <1>1, <1>3
  <2> QED BY <2>1, <2>2, <1>1, <1>2, <1>3
<1>5. a \div (m * n) = u
  <2> DEFINE w2 == m * n
             l == m * v + r
  <2>1. w2 \in Nat \ {0} /\ u \in Int
    <3> HIDE DEF m, n, u
    <3> QED BY <1>1, <1>3
  <2>2. a = w2 * u + l /\ l \in 0..(w2 - 1)
    BY <1>4
  <2> HIDE DEF w2, l, u
  <2>3. a \div w2 = u
    BY <2>1, <2>2, DivisionUnique
  <2> QED BY <2>3 DEF w2
<1> QED BY <1>1, <1>5 DEF Bit

\* Two numbers whose bits w .. w + n - 1 agree are less than 2^w apart modulo 2^(w + n).
LEMMA SameField ==
    ASSUME NEW a \in Nat, NEW b \in Nat, NEW w \in Nat, NEW n \in Nat,
           \A j \in 0..(n - 1) : Bit(a, w + j) = Bit(b, w + j)
    PROVE  (a % Pow2[w + n]) - (b % Pow2[w + n]) \in (1 - Pow2[w])..(Pow2[w] - 1)
<1> DEFINE m == Pow2[w]
           p == Pow2[n]
<1>1. m \in Nat \ {0} /\ p \in Nat \ {0} /\ Pow2[w + n] = m * p
  BY Pow2Type, Pow2Sum
<1>2. ASSUME NEW c \in Nat
      PROVE  c \div m \in Nat /\ \E r \in 0..(m - 1) : c % (m * p) = m * ((c \div m) % p) + r
  <2> DEFINE q == c \div m
             r == c % m
             u == q \div p
             v == q % p
  <2> HIDE DEF m, p
  <2>1. q \in Nat
    BY <1>1
  <2>2. r \in 0..(m - 1)
    BY <1>1
  <2>3. c = m * q + r
    BY <1>1
  <2> HIDE DEF q, r
  <2>4. u \in Nat
    BY <1>1, <2>1
  <2>5. v \in 0..(p - 1)
    BY <1>1, <2>1
  <2>6. q = p * u + v
    BY <1>1, <2>1
  <2> HIDE DEF u, v
  <2>7. c = (m * p) * u + (m * v + r)
    BY <2>1, <2>2, <2>3, <2>4, <2>5, <2>6, <1>1
  <2>8. m * v + r \in 0..(m * p - 1)
    <3>1. m * v <= m * (p - 1) /\ m * v >= 0
      BY <2>5, <1>1
    <3> QED BY <3>1, <2>2, <2>5, <1>1
  <2>9. c % (m * p) = m * v + r
    <3> DEFINE k == m * p
               l == m * v + r
    <3>1. k \in Nat \ {0} /\ u \in Int /\ c = k * u + l /\ l \in 0..(k - 1)
      BY <2>4, <2>7, <2>8, <1>1
    <3> HIDE DEF k, l
    <3>2. c % k = l
      BY <3>1, DivisionUnique
    <3> QED BY <3>2 DEF k, l
  <2> QED BY <2>1, <2>2, <2>9 DEF q, v
<1> DEFINE qa == a \div m
           qb == b \div m
<1>3. qa \in Nat /\ qb \in Nat
  BY <1>2
<1>4. qa % p = qb % p
  <2>1. \A j \in 0..(n - 1) : Bit(a, w + j) = Bit(qa, j) /\ Bit(b, w + j) = Bit(qb, j)
    BY ShiftedBit
  <2>2. \A j \in 0..(n - 1) : Bit(qa, j) = Bit(qb, j)
    BY <2>1
  <2> HIDE DEF qa, qb
  <2> QED BY <2>2, <1>3, BitsDetermine
<1>5. PICK ra \in 0..(m - 1) : a % (m * p) = m * (qa % p) + ra
  BY <1>2
<1>6. PICK rb \in 0..(m - 1) : b % (m * p) = m * (qb % p) + rb
  BY <1>2
<1>7. (a % (m * p)) - (b % (m * p)) = ra - rb
  <2> DEFINE t == qa % p
             z == m * t
             x == a % (m * p)
             y == b % (m * p)
  <2>1. t \in Nat
    <3> HIDE DEF qa, p
    <3> QED BY <1>1, <1>3
  <2>2. x = z + ra /\ y = z + rb
    BY <1>4, <1>5, <1>6
  <2>3. z \in Nat
    <3> HIDE DEF t, m
    <3> QED BY <2>1, <1>1
  <2> HIDE DEF x, y, z, t, m
  <2>4. x - y = ra - rb
    BY <2>2, <2>3, <1>5, <1>6, <1>1
  <2> QED BY <2>4 DEF x, y
<1>8. (a % Pow2[w + n]) - (b % Pow2[w + n]) = ra - rb
  <2> HIDE DEF m, p
  <2> QED BY <1>1, <1>7
<1>9. ra - rb \in (1 - m)..(m - 1)
  <2> HIDE DEF m
  <2> QED BY <1>1
<1> QED BY <1>8, <1>9
=============================================================================
