----------------------------- MODULE StreamProofs -----------------------------
(* What holds of a rotation stream for every width and word size. *)
EXTENDS StreamCycle, PowersProofs, FiniteSetTheorems, TLAPS

\* A double-word addition with a carry is addition modulo the square of the word
\* (advance, pool.go:243-252): the carry test `lo < s.posLo` loses nothing.
LEMMA CarryAddition ==
    ASSUME NEW w \in Nat, w > 1,
           NEW h \in 0..(w - 1), NEW a \in 0..(w - 1),
           NEW t \in 0..(w - 1), NEW s \in 0..(w - 1),
           NEW lo \in Int, lo = (a + s) % w,
           NEW hi \in Int, hi = (h + t + (IF lo < a THEN 1 ELSE 0)) % w
    PROVE  hi * w + lo = (h * w + a + (t * w + s)) % (w * w)
<1> DEFINE c == IF lo < a THEN 1 ELSE 0
           x == h * w + a + (t * w + s)
           m == w * w
<1>1. lo = a + s - c * w /\ lo \in 0..(w - 1)
  <2>1. CASE a + s < w
    BY <2>1
  <2>2. CASE a + s >= w
    <3>1. a + s - w \in 0..(w - 1)
      BY <2>2
    <3>2. (a + s) % w = a + s - w
      BY <3>1
    <3> QED BY <3>1, <3>2
  <2> QED BY <2>1, <2>2
<1>2. PICK d \in {0, 1} : hi = h + t + c - d * w /\ hi \in 0..(w - 1)
  <2>1. CASE h + t + c < w
    BY <2>1
  <2>2. CASE h + t + c >= w
    <3>1. h + t + c - w \in 0..(w - 1)
      BY <2>2
    <3>2. (h + t + c) % w = h + t + c - w
      BY <3>1
    <3> QED BY <3>1, <3>2
  <2> QED BY <2>1, <2>2
<1>3. hi * w + lo = x - d * m
  BY <1>1, <1>2
<1>4. hi * w + lo \in 0..(m - 1)
  <2>1. hi * w <= (w - 1) * w /\ hi * w >= 0
    BY <1>2
  <2> QED BY <2>1, <1>1
<1>5. m \in Nat /\ m > 0 /\ x \in Nat
  OBVIOUS
<1>6. x % m = x - d * m
  <2> HIDE DEF x, m
  <2> QED BY <1>3, <1>4, <1>5
<1> QED BY <1>3, <1>6

LEMMA WordsAreWords == Words = 0..(Word - 1) /\ Word \in Nat /\ Word > 1 /\ Word % 2 = 0
<1>1. WordBits - 1 \in Nat /\ WordBits = (WordBits - 1) + 1
  BY StreamAssumption
<1>2. Word = 2 * Pow2[WordBits - 1] /\ Pow2[WordBits - 1] \in Nat \ {0}
  BY <1>1, Pow2Steps, Pow2Type DEF Word
<1> QED BY <1>2 DEF Words

\* Doubling a halved word and adding one sets the low bit and stays in the word.
LEMMA OddWord ==
    ASSUME NEW v \in Words
    PROVE  2 * (v \div 2) + 1 \in Words /\ (2 * (v \div 2) + 1) % 2 = 1
  BY WordsAreWords

\* The words stay words, the stride stays odd and Next's loop stays within
\* maxCycleSkips, for every width, word size and seed.
THEOREM StreamWordsOK == StreamSpec => []WordsOK
<1>1. InitStream => WordsOK
  <2> SUFFICES ASSUME InitStream PROVE WordsOK
    OBVIOUS
  <2>1. PICK s \in Seeds :
          /\ posHi = s[1] /\ posLo = s[2]
          /\ strHi = s[3] /\ strLo = 2 * (s[4] \div 2) + 1
          /\ mskHi = IF Width > WordBits THEN s[5] % Pow2[Width - WordBits] ELSE 0
          /\ mskLo = s[6]
          /\ ip = NoAddr /\ skipped = 0
    BY DEF InitStream
  <2>2. s \in Words \X Words \X Words \X Words \X Words \X Words
    BY <2>1, StreamAssumption
  <2>3. strLo \in Words /\ strLo % 2 = 1
    BY <2>1, <2>2, OddWord
  <2>4. mskHi \in Words
    <3>1. CASE Width > WordBits
      <4> DEFINE n == Pow2[Width - WordBits]
      <4>1. n \in Nat \ {0} /\ mskHi = s[5] % n /\ s[5] \in 0..(Word - 1)
        BY <2>1, <2>2, <3>1, StreamAssumption, WordsAreWords, Pow2Type
      <4> HIDE DEF n
      <4>2. s[5] % n \in 0..s[5]
        BY <4>1
      <4> QED BY <4>1, <4>2, WordsAreWords
    <3>2. CASE ~(Width > WordBits)
      BY <2>1, <3>2, WordsAreWords
    <3> QED BY <3>1, <3>2
  <2>5. skipped \in 0..MaxSkips
    BY <2>1, StreamAssumption
  <2> QED BY <2>1, <2>2, <2>3, <2>4, <2>5 DEF WordsOK
<1>2. WordsOK /\ [NextStream]_streamVars => WordsOK'
  <2> SUFFICES ASSUME WordsOK, [NextStream]_streamVars PROVE WordsOK'
    OBVIOUS
  <2>1. CASE Skip
    BY <2>1, WordsAreWords, StreamAssumption DEF WordsOK, Skip, Advance, keys
  <2>2. CASE Emit
    BY <2>2, WordsAreWords, StreamAssumption DEF WordsOK, Emit, Advance, keys
  <2>3. CASE UNCHANGED streamVars
    BY <2>3 DEF WordsOK, streamVars
  <2> QED BY <2>1, <2>2, <2>3 DEF NextStream
<1> QED BY <1>1, <1>2, PTL DEF StreamSpec

LEMMA AdvanceWalks ==
    ASSUME WordsOK, Advance, UNCHANGED keys
    PROVE  Counter' = (Counter + Stride) % Period
<1>1. /\ posLo' = (posLo + strLo) % Word
      /\ posHi' = (posHi + strHi + (IF posLo' < posLo THEN 1 ELSE 0)) % Word
  BY DEF Advance
<1>2. posHi' * Word + posLo' = (posHi * Word + posLo + (strHi * Word + strLo)) % (Word * Word)
  BY <1>1, CarryAddition, WordsAreWords DEF WordsOK
<1> QED BY <1>2 DEF Counter, Stride, Period

\* Every turn of Next's loop moves the two-word counter by exactly one stride modulo
\* 2^128 and nothing else moves it, for every width, word size, seed and mask.
THEOREM StreamCounterWalks == StreamSpec => CounterWalks
<1>1. WordsOK /\ [NextStream]_streamVars
        => [Counter' = (Counter + Stride) % Period]_<<posHi, posLo, skipped, ip>>
  <2> SUFFICES ASSUME WordsOK, [NextStream]_streamVars
               PROVE [Counter' = (Counter + Stride) % Period]_<<posHi, posLo, skipped, ip>>
    OBVIOUS
  <2>1. CASE Skip
    <3>1. Advance /\ UNCHANGED keys
      BY <2>1 DEF Skip, keys
    <3> QED BY <3>1, AdvanceWalks
  <2>2. CASE Emit
    <3>1. Advance /\ UNCHANGED keys
      BY <2>2 DEF Emit
    <3> QED BY <3>1, AdvanceWalks
  <2>3. CASE UNCHANGED streamVars
    BY <2>3 DEF streamVars
  <2> QED BY <2>1, <2>2, <2>3 DEF NextStream
<1> QED BY <1>1, StreamWordsOK, PTL DEF StreamSpec, CounterWalks

-----------------------------------------------------------------------------
\* The two words read as one number: its bit k is the bit `at` picks (pool.go:269-274).
LEMMA PairBitIsBit ==
    ASSUME NEW hi \in Words, NEW lo \in Words, NEW k \in Nat
    PROVE  PairBit(hi, lo, k) = Bit(hi * Word + lo, k)
<1> DEFINE x == hi * Word + lo
<1>1. x \in Nat /\ hi \in Nat /\ lo \in Nat /\ lo \in 0..(Word - 1) /\ Word \in Nat \ {0}
  BY WordsAreWords
<1>2. CASE k < WordBits
  <2> DEFINE m == Pow2[k]
             n == Pow2[WordBits - k - 1]
             q == lo \div m
             r == lo % m
  <2>1. m \in Nat \ {0} /\ n \in Nat \ {0}
    BY <1>2, StreamAssumption, Pow2Type
  <2>2. Word = m * (2 * n)
    <3>1. Pow2[(WordBits - k - 1) + 1] = 2 * n /\ (WordBits - k - 1) + 1 = WordBits - k
      BY <1>2, StreamAssumption, Pow2Steps
    <3>2. Pow2[k + (WordBits - k)] = m * Pow2[WordBits - k] /\ k + (WordBits - k) = WordBits
      BY <1>2, StreamAssumption, Pow2Sum
    <3> HIDE DEF m, n
    <3> QED BY <3>1, <3>2 DEF Word
  <2>3. q \in Nat /\ r \in 0..(m - 1) /\ lo = m * q + r
    <3> HIDE DEF m
    <3>1. q \in Nat
      BY <2>1, <1>1
    <3>2. r \in 0..(m - 1)
      BY <2>1, <1>1
    <3>3. lo = m * q + r
      BY <2>1, <1>1
    <3> QED BY <3>1, <3>2, <3>3
  <2>4. x = m * (hi * (2 * n) + q) + r
    <3> HIDE DEF m, n, q, r
    <3> QED BY <2>1, <2>2, <2>3, <1>1
  <2>5. x \div m = hi * (2 * n) + q
    <3> DEFINE p == hi * (2 * n) + q
    <3> HIDE DEF m, n, q, r, x
    <3>1. p \in Int
      BY <2>1, <2>3, <1>1
    <3>2. x = m * p + r
      BY <2>4
    <3> HIDE DEF p
    <3>3. x \div m = p
      BY <3>1, <3>2, <2>1, <2>3, DivisionUnique
    <3> QED BY <3>3 DEF p
  <2>6. (x \div m) % 2 = q % 2
    <3> HIDE DEF m, n, q, r, x
    <3>1. x \div m = q + 2 * (hi * n)
      BY <2>5, <2>1, <2>3, <1>1
    <3> DEFINE t == hi * n
    <3>2. t \in Nat
      BY <2>1, <1>1
    <3> HIDE DEF t
    <3>3. x \div m = q + 2 * t
      BY <3>1 DEF t
    <3> QED BY <3>2, <3>3, <2>3
  <2> QED BY <2>6, <1>2 DEF PairBit, Bit
<1>3. CASE ~(k < WordBits)
  <2> DEFINE j == k - WordBits
             m == Pow2[j]
             q == hi \div m
             r == hi % m
  <2>1. j \in Nat /\ m \in Nat \ {0}
    BY <1>3, StreamAssumption, Pow2Type
  <2>2. Pow2[k] = Word * m
    <3>1. Pow2[WordBits + j] = Pow2[WordBits] * m /\ WordBits + j = k
      BY <2>1, StreamAssumption, Pow2Sum
    <3> QED BY <3>1 DEF Word
  <2>3. q \in Nat /\ r \in 0..(m - 1) /\ hi = m * q + r
    <3> HIDE DEF m
    <3>1. q \in Nat
      BY <2>1, <1>1
    <3>2. r \in 0..(m - 1)
      BY <2>1, <1>1
    <3>3. hi = m * q + r
      BY <2>1, <1>1
    <3> QED BY <3>1, <3>2, <3>3
  <2>4. x = (Word * m) * q + (Word * r + lo) /\ Word * r + lo \in 0..(Word * m - 1)
    <3> HIDE DEF m, q, r
    <3>1. x = (Word * m) * q + (Word * r + lo)
      BY <2>1, <2>3, <1>1
    <3>2. Word * r <= Word * (m - 1)
      BY <2>1, <2>3, <1>1
    <3> QED BY <3>1, <3>2, <2>1, <2>3, <1>1
  <2>5. x \div (Word * m) = q
    <3> DEFINE w == Word * m
               l == Word * r + lo
    <3>1. w \in Nat \ {0}
      <4> HIDE DEF m
      <4> QED BY <2>1, <1>1
    <3>2. x = w * q + l /\ l \in 0..(w - 1) /\ q \in Int
      BY <2>3, <2>4
    <3> HIDE DEF w, l, x, q
    <3>3. x \div w = q
      BY <3>1, <3>2, DivisionUnique
    <3> QED BY <3>3 DEF w
  <2> QED BY <2>5, <2>2, <1>3 DEF PairBit, Bit
<1> QED BY <1>2, <1>3

LEMMA SpaceDividesPeriod ==
    /\ Space \in Nat \ {0} /\ Period \in Nat \ {0}
    /\ \E n \in Nat \ {0} : Period = Space * n
<1>1. Width \in Nat /\ 2 * WordBits - Width \in Nat /\ WordBits \in Nat
  BY StreamAssumption
<1>2. Pow2[Width + (2 * WordBits - Width)] = Space * Pow2[2 * WordBits - Width]
  BY <1>1, Pow2Sum DEF Space
<1>3. Pow2[WordBits + WordBits] = Period
  BY <1>1, Pow2Sum DEF Word, Period
<1>4. Width + (2 * WordBits - Width) = WordBits + WordBits
  BY <1>1
<1>5. Period = Space * Pow2[2 * WordBits - Width]
  BY <1>2, <1>3, <1>4
<1> QED BY <1>5, <1>1, <1>3, Pow2Type DEF Space

-----------------------------------------------------------------------------
(* The address at a counter value, and how many coarsest bits of two of them agree. *)
HostOf(x) == [k \in Bits |-> (Bit(x, k) + PairBit(mskHi, mskLo, Width - 1 - k)) % 2]

LEMMA MaskBits ==
    ASSUME WordsOK, NEW k \in Bits
    PROVE  PairBit(mskHi, mskLo, Width - 1 - k) \in {0, 1}
<1> DEFINE j == Width - 1 - k
           x == mskHi * Word + mskLo
<1>1. j \in Nat /\ mskHi \in Words /\ mskLo \in Words
  BY StreamAssumption DEF Bits, WordsOK
<1>2. x \in Nat
  BY <1>1, WordsAreWords
<1> HIDE DEF j, x
<1>3. Bit(x, j) \in {0, 1}
  BY <1>1, <1>2, BitType
<1>4. PairBit(mskHi, mskLo, j) = Bit(x, j)
  BY <1>1, PairBitIsBit DEF x
<1> QED BY <1>3, <1>4 DEF j

\* `at` reads the counter's low Width bits, coarsest address bit first.
LEMMA HereIsHost ==
    ASSUME WordsOK
    PROVE  Counter \in Nat /\ Stride \in Nat /\ Stride % 2 = 1 /\ Here = HostOf(Counter)
<1>1. posHi \in Words /\ posLo \in Words /\ strHi \in Words /\ strLo \in Words /\ strLo % 2 = 1
  BY DEF WordsOK
<1>2. Counter \in Nat /\ Stride \in Nat
  BY <1>1, WordsAreWords DEF Counter, Stride
<1>3. Stride % 2 = 1
  <2>1. PICK v \in Nat : Word = 2 * v
    BY WordsAreWords
  <2>2. Stride = strLo + 2 * (strHi * v)
    BY <1>1, <2>1, WordsAreWords DEF Stride
  <2> DEFINE t == strHi * v
  <2>3. t \in Nat /\ strLo \in Nat
    BY <1>1, <2>1, WordsAreWords
  <2>4. Stride = strLo + 2 * t
    BY <2>2
  <2> HIDE DEF t
  <2> QED BY <2>3, <2>4, <1>1
<1>4. \A k \in Bits : PairBit(posHi, posLo, k) = Bit(Counter, k)
  BY <1>1, PairBitIsBit DEF Counter, Bits
<1> QED BY <1>2, <1>3, <1>4 DEF Here, At, HostOf

LEMMA HostType == ASSUME WordsOK, NEW x \in Nat PROVE HostOf(x) \in Hosts
<1>1. ASSUME NEW k \in Bits
      PROVE  (Bit(x, k) + PairBit(mskHi, mskLo, Width - 1 - k)) % 2 \in {0, 1}
  <2>1. Bit(x, k) \in {0, 1}
    BY BitType, StreamAssumption DEF Bits
  <2> QED BY <2>1, MaskBits
<1> QED BY <1>1 DEF HostOf, Hosts

\* The mask flips a bit of every address or of none.
LEMMA SameBit ==
    ASSUME WordsOK, NEW x \in Nat, NEW y \in Nat, NEW i \in Bits
    PROVE  HostOf(x)[i] = HostOf(y)[i] <=> Bit(x, i) = Bit(y, i)
<1> DEFINE b == Bit(x, i)
           c == Bit(y, i)
           m == PairBit(mskHi, mskLo, Width - 1 - i)
<1>1. b \in {0, 1} /\ c \in {0, 1} /\ m \in {0, 1}
  BY BitType, MaskBits, StreamAssumption DEF Bits
<1>2. HostOf(x)[i] = (b + m) % 2 /\ HostOf(y)[i] = (c + m) % 2
  BY DEF HostOf
<1>3. (b + m) % 2 = (c + m) % 2 <=> b = c
  <2> HIDE DEF b, c, m
  <2> QED BY <1>1
<1> HIDE DEF b, c, m
<1>4. HostOf(x)[i] = HostOf(y)[i] <=> b = c
  BY <1>2, <1>3
<1> QED BY <1>4 DEF b, c

\* The k coarsest bits of two addresses agree exactly when their counter values are
\* equal modulo 2^k: the mask relocates values and disturbs nothing.
LEMMA SameGroup ==
    ASSUME WordsOK, NEW x \in Nat, NEW y \in Nat, NEW k \in 0..Width
    PROVE  (\A i \in 0..(k - 1) : HostOf(x)[i] = HostOf(y)[i]) <=> x % Pow2[k] = y % Pow2[k]
<1>1. 0..(k - 1) \subseteq Bits /\ k \in Nat
  BY StreamAssumption DEF Bits
<1>2. \A i \in 0..(k - 1) : HostOf(x)[i] = HostOf(y)[i] <=> Bit(x, i) = Bit(y, i)
  BY <1>1, SameBit
<1> QED BY <1>1, <1>2, BitsDetermine

LEMMA SameHost ==
    ASSUME WordsOK, NEW x \in Nat, NEW y \in Nat
    PROVE  HostOf(x) = HostOf(y) <=> x % Space = y % Space
<1>1. Width \in 0..Width /\ Bits = 0..(Width - 1)
  BY StreamAssumption DEF Bits
<1>2. HostOf(x) = HostOf(y) <=> \A i \in Bits : HostOf(x)[i] = HostOf(y)[i]
  BY DEF HostOf
<1> QED BY <1>1, <1>2, SameGroup DEF Space

\* An odd stride comes back to the same residue modulo 2^k after 2^k steps at the earliest.
LEMMA Apart ==
    ASSUME NEW s \in Nat, s % 2 = 1, NEW x \in Nat, NEW i \in Nat, NEW j \in Nat, i < j,
           NEW k \in Nat, (x + i * s) % Pow2[k] = (x + j * s) % Pow2[k]
    PROVE  j - i >= Pow2[k]
<1> DEFINE m == Pow2[k]
           d == j - i
           a == x + i * s
           b == x + j * s
           q == a \div m
           p == b \div m
           r == a % m
<1>1. m \in Nat \ {0} /\ d \in Nat \ {0}
  BY Pow2Type
<1>2. a \in Nat /\ b \in Nat /\ b = a + d * s /\ a % m = b % m /\ d * s \in Nat
  OBVIOUS
<1>3. q \in Int /\ a = m * q + r
  <2> HIDE DEF a, m
  <2> QED BY <1>1, <1>2
<1>4. p \in Int /\ b = m * p + r
  <2> HIDE DEF a, b, m
  <2> QED BY <1>1, <1>2
<1>5. r \in Int
  <2> HIDE DEF a, m
  <2> QED BY <1>1, <1>2
<1>6. (d * s) % m = 0
  <2> DEFINE e == d * s
             t == p - q
  <2>1. t \in Int /\ e \in Nat
    <3> HIDE DEF p, q
    <3> QED BY <1>2, <1>3, <1>4
  <2>2. e = m * t + 0
    <3>1. b = a + e
      BY <1>2
    <3> HIDE DEF a, b, e, m, p, q, r
    <3>2. m * t = m * p - m * q
      BY <1>1, <1>3, <1>4
    <3> QED BY <3>1, <3>2, <1>1, <1>3, <1>4, <1>5, <2>1
  <2> HIDE DEF e, t, m
  <2>3. 0 \in 0..(m - 1)
    BY <1>1
  <2>4. (m * t + 0) % m = 0
    BY <2>1, <2>3, <1>1, DivisionUnique
  <2>5. e % m = 0
    BY <2>2, <2>4
  <2> QED BY <2>5 DEF e
<1>7. d % m = 0
  <2> HIDE DEF d
  <2> QED BY <1>6, <1>1, OddFactor
<1>8. d >= m
  <2> HIDE DEF d, m
  <2>1. d < m => d % m = d
    BY <1>1
  <2> QED BY <2>1, <1>1, <1>7
<1> QED BY <1>8

-----------------------------------------------------------------------------
\* One turn of the loop seen modulo the pool: the counter that stood m strides after x
\* stands m + 1 strides after it.
LEMMA StepModulo ==
    ASSUME WordsOK, NEW x \in Nat, NEW m \in Nat,
           (x + m * Stride) % Space = Counter % Space,
           Advance, UNCHANGED keys
    PROVE  /\ (x + (m + 1) * Stride) % Space = Counter' % Space
           /\ Here = HostOf(x + m * Stride)
<1> DEFINE a == x + m * Stride
           c == Counter
           s == Stride
<1>1. a \in Nat /\ c \in Nat /\ s \in Nat /\ Here = HostOf(c)
  BY HereIsHost
<1>2. PICK n \in Nat \ {0} : Period = Space * n
  BY SpaceDividesPeriod
<1>3. Counter' = (c + s) % Period
  BY AdvanceWalks
<1>4. x + (m + 1) * s = a + s
  BY HereIsHost
<1> HIDE DEF c, s
<1>5. (a + s) % Space = (c + s) % Space
  <2>0. a \in Int /\ c \in Int /\ s \in Int /\ Space \in Nat \ {0}
    BY <1>1, SpaceDividesPeriod
  <2> HIDE DEF a
  <2>1. ((a % Space) + s) % Space = (a + s) % Space
    BY <2>0, RemainderOfSum, Zenon
  <2>2. ((c % Space) + s) % Space = (c + s) % Space
    BY <2>0, RemainderOfSum, Zenon
  <2>3. a % Space = c % Space
    BY DEF a, c
  <2> QED BY <2>1, <2>2, <2>3
<1>6. ((c + s) % (Space * n)) % Space = (c + s) % Space
  <2>1. c + s \in Int /\ Space \in Nat \ {0} /\ n \in Nat \ {0}
    BY <1>1, <1>2, SpaceDividesPeriod
  <2> QED BY <2>1, RemainderOfRemainder, Zenon
<1>7. Here = HostOf(a)
  <2>1. a % Space = c % Space
    BY DEF c
  <2> HIDE DEF a
  <2> QED BY <1>1, <2>1, SameHost
<1> QED BY <1>2, <1>3, <1>4, <1>5, <1>6, <1>7 DEF s

LEMMA KeysKeepHosts ==
    ASSUME UNCHANGED keys
    PROVE  Stride' = Stride /\ \A x : HostOf(x)' = HostOf(x)
  BY DEF keys, Stride, HostOf, PairBit

-----------------------------------------------------------------------------
\* The walk is a run of consecutive positions that ends before the counter.
WalkInv ==
    /\ walk \in Seq(Hosts) /\ Len(walk) <= Space
    /\ \E x \in Nat :
          /\ (x + Len(walk) * Stride) % Space = Counter % Space
          /\ \A i \in 1..Len(walk) : walk[i] = HostOf(x + (i - 1) * Stride)

LEMMA WalkInit == ASSUME Init, WordsOK PROVE WalkInv
<1>1. walk = <<>> /\ Len(walk) = 0 /\ walk \in Seq(Hosts)
  BY DEF Init
<1>2. Counter \in Nat /\ Stride \in Nat
  BY HereIsHost
<1>3. Counter + Len(walk) * Stride = Counter
  BY <1>1, <1>2
<1>4. \A i \in 1..Len(walk) : walk[i] = HostOf(Counter + (i - 1) * Stride)
  BY <1>1
<1>5. Len(walk) <= Space
  BY <1>1, SpaceDividesPeriod
<1> QED BY <1>1, <1>2, <1>3, <1>4, <1>5 DEF WalkInv

LEMMA WalkStep ==
    ASSUME WordsOK, WordsOK', WalkInv, Advance, UNCHANGED keys, walk' = Remember(walk, Here)
    PROVE  WalkInv'
<1> DEFINE L == Len(walk)
<1>1. PICK x \in Nat :
        /\ (x + L * Stride) % Space = Counter % Space
        /\ \A i \in 1..L : walk[i] = HostOf(x + (i - 1) * Stride)
  BY DEF WalkInv
<1>2. L \in 0..Space /\ walk \in Seq(Hosts) /\ Space \in Nat \ {0}
  BY SpaceDividesPeriod DEF WalkInv
<1>3. /\ (x + (L + 1) * Stride) % Space = Counter' % Space
      /\ Here = HostOf(x + L * Stride)
  BY <1>1, <1>2, StepModulo
<1>4. Stride \in Nat /\ Counter \in Nat
  BY HereIsHost
<1>5. Here \in Hosts
  BY <1>2, <1>3, <1>4, HostType
<1>6. Stride' = Stride /\ \A n : HostOf(n)' = HostOf(n)
  BY KeysKeepHosts
<1>7. CASE L < Space
  <2>1. walk' = Append(walk, Here)
    BY <1>7 DEF Remember
  <2>2. /\ walk' \in Seq(Hosts) /\ Len(walk') = L + 1
        /\ \A i \in 1..(L + 1) : walk'[i] = IF i <= L THEN walk[i] ELSE Here
    BY <2>1, <1>2, <1>5
  <2>3. \A i \in 1..(L + 1) : walk'[i] = HostOf(x + (i - 1) * Stride)
    BY <2>2, <1>1, <1>2, <1>3
  <2> QED BY <2>2, <2>3, <1>1, <1>2, <1>3, <1>6, <1>7 DEF WalkInv
<1>8. CASE ~(L < Space)
  <2>1. walk' = Append(Tail(walk), Here) /\ L = Space
    BY <1>8, <1>2 DEF Remember
  <2>2. /\ walk' \in Seq(Hosts) /\ Len(walk') = L
        /\ \A i \in 1..L : walk'[i] = IF i < L THEN walk[i + 1] ELSE Here
    BY <2>1, <1>2, <1>5
  <2>3. x + Stride \in Nat /\ (x + Stride) + L * Stride = x + (L + 1) * Stride
    BY <1>2, <1>4
  <2>4. ASSUME NEW i \in 1..L PROVE walk'[i] = HostOf((x + Stride) + (i - 1) * Stride)
    <3>1. (x + Stride) + (i - 1) * Stride = x + i * Stride
      BY <1>4
    <3>2. CASE i < L
      <4>1. i + 1 \in 1..L /\ (i + 1) - 1 = i
        BY <3>2, <1>2
      <4> QED BY <4>1, <2>2, <3>1, <3>2, <1>1
    <3>3. CASE i = L
      BY <3>3, <2>2, <3>1, <1>3
    <3> QED BY <3>2, <3>3, <1>2
  <2> QED BY <2>1, <2>2, <2>3, <2>4, <1>2, <1>3, <1>6 DEF WalkInv
<1> QED BY <1>7, <1>8

\* Two of 2^k consecutive positions never fall in one aggregate at depth k.
LEMMA GroupsDiffer ==
    ASSUME WordsOK, NEW x \in Nat, NEW k \in 0..Width, NEW i \in Nat, NEW j \in Nat,
           i < j, j - i < Pow2[k]
    PROVE  Group(HostOf(x + i * Stride), k) # Group(HostOf(x + j * Stride), k)
<1> DEFINE a == x + i * Stride
           b == x + j * Stride
<1>1. a \in Nat /\ b \in Nat /\ Stride \in Nat /\ Stride % 2 = 1 /\ k \in Nat
  BY HereIsHost
<1>2. a % Pow2[k] # b % Pow2[k]
  <2> SUFFICES ASSUME a % Pow2[k] = b % Pow2[k] PROVE FALSE
    OBVIOUS
  <2>1. j - i >= Pow2[k]
    BY <1>1, Apart
  <2> QED BY <2>1, <1>1, Pow2Type
<1> HIDE DEF a, b
<1>3. PICK n \in 0..(k - 1) : HostOf(a)[n] # HostOf(b)[n]
  BY <1>1, <1>2, SameGroup
<1>4. Group(HostOf(a), k)[n] # Group(HostOf(b), k)[n]
  BY <1>3 DEF Group
<1> QED BY <1>4 DEF a, b

LEMMA WalkCascades == ASSUME WordsOK, WalkInv PROVE CascadeExact
<1> SUFFICES ASSUME NEW k \in 1..Width, Len(walk) >= Pow2[k]
             PROVE  Cardinality({Group(walk[i], k) : i \in (Len(walk) - Pow2[k] + 1)..Len(walk)})
                      = Pow2[k]
  BY DEF CascadeExact
<1> DEFINE L == Len(walk)
           m == Pow2[k]
           I == (L - m + 1)..L
           T == {Group(walk[i], k) : i \in I}
           f == [i \in I |-> Group(walk[i], k)]
<1>1. L \in Nat /\ m \in Nat \ {0} /\ I \subseteq 1..L /\ k \in 0..Width
  BY Pow2Type, StreamAssumption DEF WalkInv
<1>2. PICK x \in Nat : \A i \in 1..L : walk[i] = HostOf(x + (i - 1) * Stride)
  BY DEF WalkInv
<1>3. ASSUME NEW i \in I, NEW j \in I, i < j
      PROVE  f[i] # f[j]
  <2>1. i - 1 \in Nat /\ j - 1 \in Nat /\ i - 1 < j - 1 /\ (j - 1) - (i - 1) < m
    BY <1>1, <1>3
  <2>2. Group(HostOf(x + (i - 1) * Stride), k) # Group(HostOf(x + (j - 1) * Stride), k)
    <3>1. k \in 0..Width
      BY <1>1
    <3> QED BY <2>1, <3>1, GroupsDiffer
  <2>3. walk[i] = HostOf(x + (i - 1) * Stride) /\ walk[j] = HostOf(x + (j - 1) * Stride)
    BY <1>1, <1>2
  <2> QED BY <2>2, <2>3
<1>4. f \in Bijection(I, T)
  <2>1. \A i, j \in I : f[i] = f[j] => i = j
    <3> SUFFICES ASSUME NEW i \in I, NEW j \in I, f[i] = f[j] PROVE i = j
      OBVIOUS
    <3>1. ~(i < j) /\ ~(j < i)
      BY <1>3
    <3>2. i \in Int /\ j \in Int
      BY <1>1
    <3> QED BY <3>1, <3>2
  <2>2. f \in [I -> T] /\ \A t \in T : \E i \in I : f[i] = t
    OBVIOUS
  <2> HIDE DEF f, I, T
  <2>3. f \in Injection(I, T)
    BY <2>1, <2>2 DEF Injection, IsInjective
  <2>4. f \in Surjection(I, T)
    BY <2>2 DEF Surjection
  <2> QED BY <2>3, <2>4 DEF Bijection
<1>5. IsFiniteSet(I) /\ Cardinality(I) = m
  <2>1. L - m + 1 \in Int /\ L \in Int /\ ~(L - m + 1 > L) /\ L - (L - m + 1) + 1 = m
    BY <1>1
  <2> QED BY <2>1, FS_Interval
<1>6. Cardinality(T) = Cardinality(I)
  <2>1. ExistsBijection(I, T)
    BY <1>4 DEF ExistsBijection
  <2> HIDE DEF I, T
  <2> QED BY <2>1, <1>5, FS_Bijection
<1> QED BY <1>5, <1>6

LEMMA HistoryFollowsStream ==
    /\ Init => InitStream
    /\ [Next]_vars => [NextStream]_streamVars
  BY DEF Init, Next, SkipOne, EmitOne, NextStream, vars, streamVars

LEMMA CycleWordsOK == Spec => []WordsOK
<1>1. Spec => StreamSpec
  BY HistoryFollowsStream, PTL DEF Spec, StreamSpec
<1> QED BY <1>1, StreamWordsOK, PTL

\* Breadth-first coverage of the counter (the comment on type Stream, pool.go:182-189), for
\* every width, word size, seed, stride and mask: any 2^k consecutive positions visit each
\* of the 2^k aggregates at depth k exactly once.
THEOREM StreamCascadeExact == Spec => []CascadeExact
<1>1. Init /\ WordsOK => WalkInv
  BY WalkInit
<1>2. WalkInv /\ WordsOK /\ WordsOK' /\ [Next]_vars => WalkInv'
  <2> SUFFICES ASSUME WalkInv, WordsOK, WordsOK', [Next]_vars PROVE WalkInv'
    OBVIOUS
  <2>1. CASE Next
    <3>1. Advance /\ UNCHANGED keys /\ walk' = Remember(walk, Here)
      BY <2>1 DEF Next, SkipOne, EmitOne, Skip, Emit
    <3> QED BY <3>1, WalkStep
  <2>2. CASE UNCHANGED vars
    <3>1. UNCHANGED keys /\ walk' = walk /\ Counter' = Counter
      BY <2>2 DEF vars, streamVars, cycleHistory, keys, Counter
    <3>2. Stride' = Stride /\ \A n : HostOf(n)' = HostOf(n)
      BY <3>1, KeysKeepHosts
    <3> QED BY <3>1, <3>2 DEF WalkInv
  <2> QED BY <2>1, <2>2
<1>3. WordsOK /\ WalkInv => CascadeExact
  BY WalkCascades
<1> QED BY <1>1, <1>2, <1>3, CycleWordsOK, PTL DEF Spec

-----------------------------------------------------------------------------
\* Space strides from anywhere visit every residue modulo Space.
LEMMA EveryResidue ==
    ASSUME NEW s \in Nat, s % 2 = 1, NEW y \in Nat, NEW r \in 0..(Space - 1)
    PROVE  \E i \in 0..(Space - 1) : (y + i * s) % Space = r
<1> DEFINE I == 0..(Space - 1)
           f == [i \in I |-> (y + i * s) % Space]
<1>1. Space \in Nat \ {0} /\ Width \in Nat
  BY SpaceDividesPeriod, StreamAssumption
<1>2. ASSUME NEW i \in I PROVE f[i] \in I
  <2> DEFINE a == y + i * s
  <2>1. a \in Nat
    OBVIOUS
  <2>2. a % Space \in I
    <3> HIDE DEF a
    <3> QED BY <2>1, <1>1
  <2> QED BY <2>2
<1>3. ASSUME NEW i \in I, NEW j \in I, i < j PROVE f[i] # f[j]
  <2> SUFFICES ASSUME (y + i * s) % Space = (y + j * s) % Space PROVE FALSE
    OBVIOUS
  <2>1. i \in Nat /\ j \in Nat
    BY <1>1
  <2>2. j - i >= Space
    BY <2>1, <1>1, <1>3, Apart DEF Space
  <2> QED BY <2>1, <2>2, <1>1
<1>4. f \in Injection(I, I)
  <2>1. \A i, j \in I : f[i] = f[j] => i = j
    <3> SUFFICES ASSUME NEW i \in I, NEW j \in I, f[i] = f[j] PROVE i = j
      OBVIOUS
    <3>1. ~(i < j) /\ ~(j < i)
      BY <1>3
    <3>2. i \in Int /\ j \in Int
      BY <1>1
    <3> HIDE DEF f
    <3> QED BY <3>1, <3>2
  <2>2. f \in [I -> I] /\ DOMAIN f = I
    BY <1>2
  <2> HIDE DEF f, I
  <2> QED BY <2>1, <2>2 DEF Injection, IsInjective
<1>5. IsFiniteSet(I)
  <2>1. 0 \in Int /\ Space - 1 \in Int
    BY <1>1
  <2> QED BY <2>1, FS_Interval
<1>6. f \in Surjection(I, I)
  <2> HIDE DEF f, I
  <2> QED BY <1>4, <1>5, FS_Injection
<1>7. \A t \in I : \E i \in I : f[i] = t
  <2> HIDE DEF f, I
  <2> QED BY <1>6 DEF Surjection
<1> QED BY <1>7

\* So they visit every address of the pool.
LEMMA LapCovers ==
    ASSUME WordsOK, NEW y \in Nat, NEW h \in Hosts
    PROVE  \E i \in 0..(Space - 1) : HostOf(y + i * Stride) = h
<1> DEFINE g == [k \in 0..(Width - 1) |-> (h[k] + PairBit(mskHi, mskLo, Width - 1 - k)) % 2]
<1>1. Width \in Nat /\ Space \in Nat \ {0} /\ Stride \in Nat /\ Stride % 2 = 1
  BY StreamAssumption, SpaceDividesPeriod, HereIsHost
<1>2. ASSUME NEW k \in Bits
      PROVE  /\ h[k] \in {0, 1} /\ PairBit(mskHi, mskLo, Width - 1 - k) \in {0, 1}
             /\ g[k] \in {0, 1} /\ (g[k] + PairBit(mskHi, mskLo, Width - 1 - k)) % 2 = h[k]
  <2> DEFINE m == PairBit(mskHi, mskLo, Width - 1 - k)
             b == h[k]
  <2>1. b \in {0, 1} /\ m \in {0, 1}
    BY MaskBits DEF Hosts
  <2>2. g[k] = (b + m) % 2
    BY DEF Bits
  <2>3. (b + m) % 2 \in {0, 1} /\ (((b + m) % 2) + m) % 2 = b
    <3> HIDE DEF b, m
    <3> QED BY <2>1
  <2> QED BY <2>1, <2>2, <2>3
<1>3. g \in [0..(Width - 1) -> {0, 1}]
  BY <1>2 DEF Bits
<1>4. PICK r \in 0..(Pow2[Width] - 1) : \A k \in 0..(Width - 1) : Bit(r, k) = g[k]
  <2> HIDE DEF g
  <2> QED BY <1>1, <1>3, NumberOfBits
<1>5. r \in 0..(Space - 1) /\ r \in Nat
  BY <1>1, <1>4 DEF Space
<1>6. HostOf(r) = h
  <2>1. \A k \in Bits : (Bit(r, k) + PairBit(mskHi, mskLo, Width - 1 - k)) % 2 = h[k]
    <3> HIDE DEF g
    <3> QED BY <1>2, <1>4 DEF Bits
  <2> QED BY <2>1 DEF HostOf, Hosts
<1>7. PICK i \in 0..(Space - 1) : (y + i * Stride) % Space = r
  BY <1>1, <1>5, EveryResidue
<1> DEFINE a == y + i * Stride
<1>8. a \in Nat
  BY <1>1
<1>9. r % Space = r
  BY <1>1, <1>5
<1>10. HostOf(a) = HostOf(r)
  <2>1. a % Space = r
    BY <1>7
  <2> HIDE DEF a
  <2> QED BY <1>5, <1>8, <1>9, <2>1, SameHost
<1> QED BY <1>6, <1>10

-----------------------------------------------------------------------------
(* The laps.  ShortRuns is what the bound on Next's loop needs: the stride and the mask  *)
(* leave no run of more than maxCycleSkips consecutive positions that need hygiene.      *)
ShortRuns == \A x \in Nat : \E i \in 0..MaxSkips : ~NeedsHygiene(HostOf(x + i * Stride))

\* What the current call has skipped, and the positions of the current lap: it started at
\* a clean one, or nothing has been given yet.
SkipInv ==
    \E z \in Nat :
        /\ (z + skipped * Stride) % Space = Counter % Space
        /\ \A i \in 0..(skipped - 1) : NeedsHygiene(HostOf(z + i * Stride))
LapOf(y, m) == {a \in CleanHosts : \E i \in 0..(m - 1) : a = HostOf(y + i * Stride)}
LapInv ==
    \E y \in Nat, m \in 0..Space :
        /\ (y + m * Stride) % Space = Counter % Space
        /\ given = LapOf(y, m)
        /\ m > 0 => ~NeedsHygiene(HostOf(y))
CycleInv == WordsOK /\ ShortRuns /\ SkipInv /\ LapInv

LEMMA CycleStarts == ASSUME Init, WordsOK, ShortRuns PROVE CycleInv
<1>1. given = {} /\ skipped = 0
  BY DEF Init, InitStream
<1>2. Counter \in Nat /\ Stride \in Nat /\ 0 \in 0..Space
  BY HereIsHost, SpaceDividesPeriod
<1>3. Counter + 0 * Stride = Counter
  BY <1>2
<1>4. SkipInv
  BY <1>1, <1>2, <1>3 DEF SkipInv
<1>5. LapOf(Counter, 0) = {}
  BY DEF LapOf
<1>6. LapInv
  BY <1>1, <1>2, <1>3, <1>5 DEF LapInv
<1> QED BY <1>4, <1>6 DEF CycleInv

\* An address is returned clean: the loop stops at a clean one before its bound.
LEMMA EmitsClean == ASSUME CycleInv, Emit PROVE Here \in CleanHosts
<1>1. WordsOK /\ ShortRuns /\ SkipInv /\ MaxSkips \in Nat
  BY StreamAssumption DEF CycleInv
<1>2. Here \in Hosts
  BY <1>1, HereIsHost, HostType
<1>3. ~NeedsHygiene(Here)
  <2>1. CASE ~NeedsHygiene(Here)
    BY <2>1
  <2>2. CASE skipped = MaxSkips
    <3>1. PICK z \in Nat :
            /\ (z + skipped * Stride) % Space = Counter % Space
            /\ \A i \in 0..(skipped - 1) : NeedsHygiene(HostOf(z + i * Stride))
      BY <1>1 DEF SkipInv
    <3>2. PICK i \in 0..MaxSkips : ~NeedsHygiene(HostOf(z + i * Stride))
      BY <1>1 DEF ShortRuns
    <3>3. i = skipped
      BY <3>1, <3>2, <2>2, <1>1
    <3> DEFINE a == z + skipped * Stride
    <3>4. a \in Nat /\ Counter \in Nat /\ a % Space = Counter % Space
      BY <3>1, <2>2, <1>1, HereIsHost
    <3>5. ~NeedsHygiene(HostOf(a))
      BY <3>2, <3>3
    <3> HIDE DEF a
    <3>6. Here = HostOf(a)
      BY <3>4, <1>1, SameHost, HereIsHost
    <3> QED BY <3>5, <3>6
  <2> QED BY <2>1, <2>2 DEF Emit
<1> QED BY <1>2, <1>3 DEF CleanHosts

LEMMA SkipStep ==
    ASSUME CycleInv, WordsOK', Skip \/ Emit
    PROVE  SkipInv'
<1>1. WordsOK /\ Advance /\ UNCHANGED keys /\ SkipInv /\ skipped \in Nat
  BY StreamAssumption DEF CycleInv, Skip, Emit, WordsOK
<1>2. Stride' = Stride /\ Stride \in Nat /\ \A n : HostOf(n)' = HostOf(n)
  BY <1>1, KeysKeepHosts, HereIsHost
<1>3. CASE Emit
  <2>1. skipped' = 0
    BY <1>3 DEF Emit
  <2>2. Counter' \in Nat
    <3> DEFINE c == Counter + Stride
    <3>1. c \in Nat /\ Period \in Nat \ {0} /\ Counter' = c % Period
      BY <1>1, HereIsHost, SpaceDividesPeriod, AdvanceWalks
    <3> HIDE DEF c
    <3>2. c % Period \in Nat
      BY <3>1
    <3> QED BY <3>1, <3>2
  <2>3. \A c \in Nat : c + 0 * Stride = c
    BY <1>2
  <2> QED BY <2>1, <2>2, <2>3, <1>2 DEF SkipInv
<1>4. CASE Skip
  <2>1. PICK z \in Nat :
          /\ (z + skipped * Stride) % Space = Counter % Space
          /\ \A i \in 0..(skipped - 1) : NeedsHygiene(HostOf(z + i * Stride))
    BY <1>1 DEF SkipInv
  <2>2. skipped' = skipped + 1 /\ NeedsHygiene(Here)
    BY <1>4 DEF Skip
  <2>3. /\ (z + (skipped + 1) * Stride) % Space = Counter' % Space
        /\ Here = HostOf(z + skipped * Stride)
    BY <1>1, <2>1, StepModulo
  <2>4. \A i \in 0..skipped : NeedsHygiene(HostOf(z + i * Stride))
    BY <1>1, <2>1, <2>2, <2>3
  <2>5. skipped' - 1 = skipped
    BY <1>1, <2>2
  <2> QED BY <2>1, <2>2, <2>3, <2>4, <2>5, <1>2 DEF SkipInv
<1> QED BY <1>3, <1>4

\* One more position extends the lap; the lap is over only when it has seen every address.
LEMMA LapGrows ==
    ASSUME WordsOK, NEW y \in Nat, NEW m \in Nat
    PROVE  LapOf(y, m + 1) = LapOf(y, m) \union ({HostOf(y + m * Stride)} \intersect CleanHosts)
<1>1. 0..((m + 1) - 1) = 0..(m - 1) \union {m}
  OBVIOUS
<1> QED BY <1>1 DEF LapOf

LEMMA WholeLap ==
    ASSUME WordsOK, NEW y \in Nat
    PROVE  LapOf(y, Space) = CleanHosts
  BY LapCovers DEF LapOf, CleanHosts

\* Less than a whole lap apart, two positions have different addresses.
LEMMA HostsDiffer ==
    ASSUME WordsOK, NEW x \in Nat, NEW i \in Nat, NEW j \in Nat, i < j, j - i < Space
    PROVE  HostOf(x + i * Stride) # HostOf(x + j * Stride)
<1> SUFFICES ASSUME HostOf(x + i * Stride) = HostOf(x + j * Stride) PROVE FALSE
  OBVIOUS
<1> DEFINE a == x + i * Stride
           b == x + j * Stride
<1>1. /\ Space \in Nat \ {0} /\ Stride \in Nat /\ Stride % 2 = 1 /\ Width \in Nat
      /\ a \in Nat /\ b \in Nat
  BY SpaceDividesPeriod, HereIsHost, StreamAssumption
<1>2. a % Space = b % Space
  <2>1. HostOf(a) = HostOf(b)
    OBVIOUS
  <2> HIDE DEF a, b
  <2> QED BY <1>1, <2>1, SameHost
<1>3. j - i >= Space
  BY <1>1, <1>2, Apart DEF Space
<1> QED BY <1>1, <1>3

LEMMA NotYetGiven ==
    ASSUME WordsOK, NEW y \in Nat, NEW m \in 0..(Space - 1)
    PROVE  HostOf(y + m * Stride) \notin LapOf(y, m)
<1> SUFFICES ASSUME NEW i \in 0..(m - 1), HostOf(y + i * Stride) = HostOf(y + m * Stride)
             PROVE  FALSE
  BY DEF LapOf
<1>1. i \in Nat /\ m \in Nat /\ i < m /\ m - i < Space
  BY SpaceDividesPeriod
<1> QED BY <1>1, HostsDiffer

LEMMA SkipKeepsLap == ASSUME CycleInv, Skip, UNCHANGED given PROVE LapInv'
<1>1. WordsOK /\ Advance /\ UNCHANGED keys /\ LapInv /\ NeedsHygiene(Here)
  BY DEF CycleInv, Skip
<1>2. PICK y \in Nat, m \in 0..Space :
        /\ (y + m * Stride) % Space = Counter % Space
        /\ given = LapOf(y, m)
        /\ m > 0 => ~NeedsHygiene(HostOf(y))
  BY <1>1 DEF LapInv
<1>3. /\ Space \in Nat \ {0} /\ Stride \in Nat /\ m \in Nat /\ Stride' = Stride
      /\ \A n : HostOf(n)' = HostOf(n)
  BY <1>1, HereIsHost, SpaceDividesPeriod, KeysKeepHosts
<1>4. /\ (y + (m + 1) * Stride) % Space = Counter' % Space
      /\ Here = HostOf(y + m * Stride)
  BY <1>1, <1>2, <1>3, StepModulo
<1>5. \A z \in Nat, n \in Nat : LapOf(z, n)' = LapOf(z, n)
  BY <1>3 DEF LapOf
<1>6. Here \notin CleanHosts
  BY <1>1 DEF CleanHosts
<1>7. CASE m = 0
  <2> DEFINE z == y + Stride
  <2>1. z \in Nat /\ z + 0 * Stride = y + (m + 1) * Stride
    BY <1>3, <1>7
  <2>2. (z + 0 * Stride) % Space = Counter' % Space
    BY <2>1, <1>4
  <2>3. given' = LapOf(z, 0)
    <3>1. LapOf(y, 0) = {} /\ LapOf(z, 0) = {}
      BY DEF LapOf
    <3> QED BY <3>1, <1>1, <1>2, <1>7
  <2>4. 0 \in 0..Space /\ 0 \in Nat
    BY <1>3
  <2> HIDE DEF z
  <2> QED BY <2>1, <2>2, <2>3, <2>4, <1>3, <1>5 DEF LapInv
<1>8. CASE m # 0 /\ m < Space
  <2>1. given' = LapOf(y, m + 1)
    <3>1. LapOf(y, m + 1) = LapOf(y, m) \union ({Here} \intersect CleanHosts)
      BY <1>1, <1>3, <1>4, LapGrows
    <3> QED BY <3>1, <1>2, <1>6
  <2>2. m + 1 \in 0..Space /\ m + 1 \in Nat
    BY <1>3, <1>8
  <2> QED BY <2>1, <2>2, <1>2, <1>3, <1>4, <1>5, <1>8 DEF LapInv
<1>9. CASE m = Space
  \* The lap came round to where it started, a clean address.
  <2> DEFINE a == y + m * Stride
  <2>1. a \in Nat /\ a % Space = y % Space
    <3>1. a = y + Space * Stride /\ y \in Int
      BY <1>9
    <3>2. (y + Space * Stride) % Space = y % Space
      <4> DEFINE q == y \div Space
                 r == y % Space
                 t == q + Stride
      <4>1. q \in Int /\ r \in 0..(Space - 1) /\ y = Space * q + r
        BY <1>3
      <4>2. t \in Int /\ y + Space * Stride = Space * t + r
        <5> HIDE DEF q, r
        <5>1. Space * (q + Stride) = Space * q + Space * Stride
          BY <4>1, <1>3
        <5> QED BY <5>1, <4>1, <1>3
      <4> HIDE DEF q, r, t
      <4>3. (Space * t + r) % Space = r
        BY <4>1, <4>2, <1>3, DivisionUnique
      <4> QED BY <4>2, <4>3 DEF r
    <3>3. y + Space * Stride \in Nat
      BY <1>3
    <3> HIDE DEF a
    <3> QED BY <3>1, <3>2, <3>3
  <2>2. Here = HostOf(a)
    BY <1>4
  <2> HIDE DEF a
  <2>3. HostOf(a) = HostOf(y)
    BY <1>1, <2>1, SameHost
  <2> QED BY <2>2, <2>3, <1>1, <1>2, <1>3, <1>9
<1> QED BY <1>3, <1>7, <1>8, <1>9

\* A return gives a clean address that the current lap has not given, or opens a lap.
LEMMA EmitGivesOut ==
    ASSUME CycleInv, EmitOne
    PROVE  C!GiveOut /\ LapInv'
<1>1. /\ WordsOK /\ Advance /\ UNCHANGED keys /\ LapInv /\ Here \in CleanHosts /\ ip' = Here
      /\ given' = IF given = CleanHosts THEN {Here} ELSE given \union {Here}
  BY EmitsClean DEF CycleInv, EmitOne, Emit
<1>2. PICK y \in Nat, m \in 0..Space :
        /\ (y + m * Stride) % Space = Counter % Space
        /\ given = LapOf(y, m)
        /\ m > 0 => ~NeedsHygiene(HostOf(y))
  BY <1>1 DEF LapInv
<1>3. /\ Space \in Nat \ {0} /\ Stride \in Nat /\ m \in Nat /\ Stride' = Stride
      /\ Counter \in Nat /\ \A n : HostOf(n)' = HostOf(n) /\ Here = HostOf(Counter)
  BY <1>1, HereIsHost, SpaceDividesPeriod, KeysKeepHosts
<1>4. /\ (y + (m + 1) * Stride) % Space = Counter' % Space
      /\ Here = HostOf(y + m * Stride)
  BY <1>1, <1>2, <1>3, StepModulo
<1>5. \A z \in Nat, n \in Nat : LapOf(z, n)' = LapOf(z, n)
  BY <1>3 DEF LapOf
<1>6. ~NeedsHygiene(Here)
  BY <1>1 DEF CleanHosts
<1>7. CASE given = CleanHosts
  <2>1. Counter + 0 * Stride = Counter /\ 0 \in Nat /\ 1 \in Nat /\ 1 \in 0..Space
    BY <1>3
  <2>2. (Counter + (0 + 1) * Stride) % Space = Counter' % Space
    BY <2>1, <1>1, <1>3, StepModulo
  <2>3. LapOf(Counter, 1) = {Here}
    <3>1. 0..(1 - 1) = {0}
      OBVIOUS
    <3> QED BY <3>1, <2>1, <1>1, <1>3 DEF LapOf
  <2>4. given' = LapOf(Counter, 1)
    BY <2>3, <1>1, <1>7
  <2>5. LapInv'
    BY <2>1, <2>2, <2>4, <1>3, <1>5, <1>6 DEF LapInv
  <2> QED BY <2>5, <1>1, <1>7 DEF C!GiveOut, C!LapDone
<1>8. CASE given # CleanHosts
  <2>1. m # Space
    BY <1>1, <1>2, <1>8, WholeLap
  <2>2. m \in 0..(Space - 1) /\ m + 1 \in 0..Space /\ m + 1 \in Nat
    BY <2>1, <1>3
  <2>3. Here \notin given
    BY <2>2, <1>1, <1>2, <1>4, NotYetGiven
  <2>4. given' = LapOf(y, m + 1)
    BY <1>1, <1>2, <1>3, <1>4, <1>8, LapGrows
  <2>5. ~NeedsHygiene(HostOf(y))
    <3>1. CASE m = 0
      <4>1. y + m * Stride = y
        BY <3>1, <1>3
      <4> QED BY <4>1, <1>4, <1>6
    <3> QED BY <3>1, <1>2, <1>3
  <2>6. LapInv'
    BY <2>2, <2>4, <2>5, <1>3, <1>4, <1>5 DEF LapInv
  <2> QED BY <2>3, <2>6, <1>1, <1>8 DEF C!GiveOut, C!LapDone
<1> QED BY <1>7, <1>8

\* A stream whose stride and mask leave no run of more than maxCycleSkips positions that
\* need hygiene keeps the promise of Next (pool.go:227-230, README.md:21-22): in each lap
\* every clean address exactly once, and nothing else.
THEOREM StreamImplementsCycle == Spec /\ ShortRuns => ImplementsCycle
<1>1. Init /\ WordsOK /\ ShortRuns => CycleInv /\ C!CycleInit
  BY CycleStarts DEF Init, InitStream, C!CycleInit
<1>2. CycleInv /\ WordsOK' /\ [Next]_vars => CycleInv' /\ [C!GiveOut]_(C!cycleVars)
  <2> SUFFICES ASSUME CycleInv, WordsOK', [Next]_vars
               PROVE  CycleInv' /\ [C!GiveOut]_(C!cycleVars)
    OBVIOUS
  <2>0. UNCHANGED keys => ShortRuns'
    BY KeysKeepHosts DEF CycleInv, ShortRuns
  <2>1. CASE SkipOne
    <3>1. Skip /\ UNCHANGED given /\ UNCHANGED keys /\ ip' = ip
      BY <2>1 DEF SkipOne, Skip
    <3>2. CycleInv'
      BY <3>1, <2>0, SkipStep, SkipKeepsLap DEF CycleInv
    <3> QED BY <3>1, <3>2 DEF C!cycleVars
  <2>2. CASE EmitOne
    <3>1. Emit /\ UNCHANGED keys
      BY <2>2 DEF EmitOne, Emit
    <3> QED BY <3>1, <2>2, <2>0, SkipStep, EmitGivesOut DEF CycleInv
  <2>3. CASE UNCHANGED vars
    <3>1. UNCHANGED keys /\ given' = given /\ ip' = ip /\ skipped' = skipped /\ Counter' = Counter
      BY <2>3 DEF vars, streamVars, cycleHistory, keys, Counter
    <3>2. Stride' = Stride /\ \A n : HostOf(n)' = HostOf(n)
      BY <3>1, KeysKeepHosts
    <3>3. \A z, n : LapOf(z, n)' = LapOf(z, n)
      BY <3>2 DEF LapOf
    <3>4. SkipInv' /\ LapInv'
      BY <3>1, <3>2, <3>3 DEF CycleInv, SkipInv, LapInv
    <3> QED BY <3>1, <3>4, <2>0 DEF CycleInv, C!cycleVars
  <2> QED BY <2>1, <2>2, <2>3 DEF Next
<1> QED BY <1>1, <1>2, CycleWordsOK, PTL DEF Spec, ImplementsCycle, C!CycleSpec

-----------------------------------------------------------------------------
(* Which strides leave only short runs.  The marker's bits are counter bits; an odd      *)
(* stride that moves those bits by at least one at every step, as it does unless it is   *)
(* within 2^(Width - MarkLow - MarkBits) of a multiple of 2^(Width - MarkLow), never      *)
(* goes from one marked position to another.                                             *)
LeavesMarker ==
    Width >= MarkWidth =>
        Stride % Pow2[Width - MarkLow] \in
            Pow2[Width - MarkLow - MarkBits]..(Pow2[Width - MarkLow] - Pow2[Width - MarkLow - MarkBits])

LEMMA MarkedApart ==
    ASSUME WordsOK, LeavesMarker, NEW x \in Nat
    PROVE  ~(Marked(HostOf(x)) /\ Marked(HostOf(x + Stride)))
<1> SUFFICES ASSUME Marked(HostOf(x)), Marked(HostOf(x + Stride)) PROVE FALSE
  OBVIOUS
<1> DEFINE y == x + Stride
           w == Width - MarkLow - MarkBits
           m == Pow2[w]
           M == Pow2[w + MarkBits]
           s == Stride % M
           u == x % M
           v == y % M
           q == x \div M
           t == Stride \div M
<1>1. /\ Width >= MarkWidth /\ w \in Nat /\ MarkBits \in Nat /\ MarkLow \in Nat
      /\ w + MarkBits = Width - MarkLow
  BY StreamAssumption DEF Marked
<1>2. x \in Nat /\ y \in Nat /\ Stride \in Nat
  BY HereIsHost
<1>3. \A i \in 0..(MarkBits - 1) : Bit(x, w + i) = Bit(y, w + i)
  <2> SUFFICES ASSUME NEW i \in 0..(MarkBits - 1) PROVE Bit(x, w + i) = Bit(y, w + i)
    OBVIOUS
  <2> DEFINE j == MarkBits - 1 - i
  <2>1. j \in 0..(MarkBits - 1) /\ Width - 1 - (MarkLow + j) = w + i /\ w + i \in Bits
    BY <1>1, StreamAssumption DEF Bits
  <2>2. \A n \in 0..(MarkBits - 1) :
           HostOf(x)[Width - 1 - (MarkLow + n)] = HostOf(y)[Width - 1 - (MarkLow + n)]
    BY DEF Marked
  <2>3. HostOf(x)[w + i] = HostOf(y)[w + i]
    <3> HIDE DEF j, w, y
    <3> QED BY <2>1, <2>2
  <2> HIDE DEF w, y
  <2> QED BY <2>1, <2>3, <1>2, SameBit
<1>4. m \in Nat \ {0} /\ M \in Nat \ {0}
  BY <1>1, Pow2Type
<1>5. u - v \in (1 - m)..(m - 1)
  <2> HIDE DEF w, y
  <2> QED BY <1>1, <1>2, <1>3, SameField
<1>6. s \in m..(M - m)
  <2>1. Stride % Pow2[Width - MarkLow] \in
            Pow2[Width - MarkLow - MarkBits]..(Pow2[Width - MarkLow] - Pow2[Width - MarkLow - MarkBits])
    BY <1>1 DEF LeavesMarker
  <2> QED BY <2>1, <1>1
<1>7. u \in 0..(M - 1) /\ x = M * q + u /\ q \in Nat
  <2> HIDE DEF M
  <2>1. u \in 0..(M - 1)
    BY <1>2, <1>4
  <2>2. x = M * q + u
    BY <1>2, <1>4
  <2>3. q \in Nat
    BY <1>2, <1>4
  <2> QED BY <2>1, <2>2, <2>3
<1>8. s \in 0..(M - 1) /\ Stride = M * t + s /\ t \in Nat
  <2> HIDE DEF M
  <2>1. s \in 0..(M - 1)
    BY <1>2, <1>4
  <2>2. Stride = M * t + s
    BY <1>2, <1>4
  <2>3. t \in Nat
    BY <1>2, <1>4
  <2> QED BY <2>1, <2>2, <2>3
<1>9. v = IF u + s < M THEN u + s ELSE u + s - M
  <2>0. y = x + Stride /\ v = y % M
    OBVIOUS
  <2> DEFINE z == q + t
             z1 == q + t + 1
  <2>1. z \in Int /\ z1 \in Int
    <3> HIDE DEF q, t
    <3> QED BY <1>7, <1>8
  <2>2. y = M * z + (u + s)
    <3> HIDE DEF q, t, M, u, s, y
    <3> QED BY <1>4, <1>7, <1>8, <2>0
  <2>3. y = M * z1 + (u + s - M)
    <3> HIDE DEF q, t, M, u, s, y
    <3> QED BY <1>4, <1>7, <1>8, <2>0
  <2> HIDE DEF y, v, z, z1, u, s, M
  <2>4. CASE u + s < M
    <3>1. u + s \in 0..(M - 1)
      BY <2>4, <1>7, <1>8, <1>4
    <3> DEFINE l == u + s
    <3> HIDE DEF l
    <3>2. (M * z + l) % M = l
      BY <3>1, <2>1, <1>4, DivisionUnique DEF l
    <3>3. y = M * z + l
      BY <2>2 DEF l
    <3> QED BY <3>2, <3>3, <2>0, <2>4 DEF l
  <2>5. CASE ~(u + s < M)
    <3>1. u + s - M \in 0..(M - 1)
      BY <2>5, <1>7, <1>8, <1>4
    <3> DEFINE l == u + s - M
    <3> HIDE DEF l
    <3>2. (M * z1 + l) % M = l
      BY <3>1, <2>1, <1>4, DivisionUnique DEF l
    <3>3. y = M * z1 + l
      BY <2>3 DEF l
    <3> QED BY <3>2, <3>3, <2>0, <2>5 DEF l
  <2> QED BY <2>4, <2>5
<1> HIDE DEF u, v, s, M, m
<1> QED BY <1>4, <1>5, <1>6, <1>7, <1>8, <1>9

\* Three host numbers are reserved, so of four different positions one is not.
LEMMA FourNotReserved ==
    ASSUME WordsOK, NEW x \in Nat, NEW i \in Nat, NEW j \in Nat, NEW k \in Nat, NEW l \in Nat,
           i < j, j < k, k < l, l - i < 8
    PROVE  \E n \in {i, j, k, l} : ~Reserved(HostOf(x + n * Stride))
<1>1. CASE Width <= 2
  BY <1>1, StreamAssumption DEF Reserved
<1>2. CASE Width > 2
  <2> DEFINE A == [b \in Bits |-> 0]
             B == [b \in Bits |-> IF b = Width - 1 THEN 1 ELSE 0]
             D == [b \in Bits |-> 1]
  <2>1. ASSUME NEW h \in Hosts, Reserved(h) PROVE h \in {A, B, D}
    <3>1. h = [b \in Bits |-> h[b]] /\ h[Width - 1] \in {0, 1} /\ Width - 1 \in Bits
      BY <1>2, StreamAssumption DEF Hosts, Bits
    <3>2. CASE \A b \in Bits : h[b] = 1
      BY <3>1, <3>2
    <3>3. CASE \A b \in Bits \ {Width - 1} : h[b] = 0
      <4>1. CASE h[Width - 1] = 0
        <5>1. \A b \in Bits : h[b] = 0
          BY <3>3, <4>1
        <5> QED BY <3>1, <5>1
      <4>2. CASE h[Width - 1] = 1
        <5>1. \A b \in Bits : h[b] = IF b = Width - 1 THEN 1 ELSE 0
          BY <3>3, <4>2
        <5> QED BY <3>1, <5>1
      <4> QED BY <3>1, <4>1, <4>2
    <3> QED BY <2>1, <3>2, <3>3 DEF Reserved, AllOnes
  <2>2. Space >= 8
    <3>1. Width - 3 \in Nat /\ (Width - 3) + 3 = Width /\ 3 \in Nat
      BY <1>2, StreamAssumption
    <3>2. Pow2[0 + 1] = 2 * Pow2[0] /\ Pow2[1 + 1] = 2 * Pow2[1] /\ Pow2[2 + 1] = 2 * Pow2[2]
      BY Pow2Steps
    <3>3. Pow2[3] = 8
      BY <3>2, Pow2Steps
    <3>4. Pow2[(Width - 3) + 3] = Pow2[Width - 3] * Pow2[3]
      BY <3>1, Pow2Sum
    <3>5. Pow2[Width - 3] \in Nat \ {0}
      BY <3>1, Pow2Type
    <3>6. Space = Pow2[Width - 3] * 8
      BY <3>1, <3>3, <3>4 DEF Space
    <3> QED BY <3>5, <3>6
  <2> DEFINE H(n) == HostOf(x + n * Stride)
  <2>3. /\ H(i) # H(j) /\ H(i) # H(k) /\ H(i) # H(l)
        /\ H(j) # H(k) /\ H(j) # H(l) /\ H(k) # H(l)
    BY <2>2, HostsDiffer, SpaceDividesPeriod
  <2>4. \A n \in Nat : H(n) \in Hosts
    BY HostType, HereIsHost
  <2> HIDE DEF A, B, D, H
  <2>5. \E n \in {i, j, k, l} : ~Reserved(H(n))
    BY <2>1, <2>3, <2>4
  <2> QED BY <2>5 DEF H
<1> QED BY <1>1, <1>2, StreamAssumption

LEMMA RunsAreShort ==
    ASSUME WordsOK, LeavesMarker, MaxSkips >= 7
    PROVE  ShortRuns
<1> SUFFICES ASSUME NEW x \in Nat
             PROVE  \E i \in 0..MaxSkips : ~NeedsHygiene(HostOf(x + i * Stride))
  BY DEF ShortRuns
<1> DEFINE Free(n) == ~Marked(HostOf(x + n * Stride))
<1>1. Stride \in Nat /\ MaxSkips \in Nat
  BY HereIsHost, StreamAssumption
<1>2. ASSUME NEW p \in Nat PROVE \E i \in {p, p + 1} : Free(i)
  <2> DEFINE a == x + p * Stride
  <2>1. a \in Nat /\ a + Stride = x + (p + 1) * Stride
    BY <1>1
  <2>2. ~(Marked(HostOf(a)) /\ Marked(HostOf(a + Stride)))
    <3> HIDE DEF a
    <3> QED BY <2>1, MarkedApart
  <2> QED BY <2>1, <2>2
<1>3. PICK i \in {0, 1}, j \in {2, 3}, k \in {4, 5}, l \in {6, 7} :
        Free(i) /\ Free(j) /\ Free(k) /\ Free(l)
  <2>1. /\ \E i \in {0, 0 + 1} : Free(i) /\ \E j \in {2, 2 + 1} : Free(j)
        /\ \E k \in {4, 4 + 1} : Free(k) /\ \E l \in {6, 6 + 1} : Free(l)
    BY <1>2
  <2> HIDE DEF Free
  <2> QED BY <2>1
<1>4. PICK n \in {i, j, k, l} : ~Reserved(HostOf(x + n * Stride))
  BY FourNotReserved
<1>5. n \in 0..MaxSkips
  BY <1>1
<1>6. Free(n)
  <2> HIDE DEF Free
  <2> QED BY <1>3
<1> QED BY <1>4, <1>5, <1>6 DEF NeedsHygiene

\* So with the code's eight skips (seven are enough) a stream returns every clean address
\* of its pool exactly once a lap and nothing else: for every pool too narrow for the
\* EUI-64 marker, and in a wider one for every stride that moves the marker's bits.
THEOREM StreamLapsExact ==
    ASSUME MaxSkips >= 7
    PROVE  Spec /\ LeavesMarker => ImplementsCycle
<1>1. WordsOK /\ LeavesMarker => ShortRuns
  BY RunsAreShort
<1> QED BY <1>1, CycleWordsOK, StreamImplementsCycle, PTL

\* The address with every host bit set is one of those addresses in every pool narrower
\* than a word: isAllOnes (pool.go:330-341) compares the low word with a whole word of
\* ones, and hostValue has masked that word before.
THEOREM AllOnesIsGiven ==
    ASSUME Width < WordBits, Width > 0
    PROVE  [k \in Bits |-> 1] \in CleanHosts
<1> DEFINE h == [k \in Bits |-> 1]
<1>1. Width \in Nat /\ WordBits \in Nat /\ MarkLow \in Nat /\ MarkBits \in Nat \ {0}
      /\ MarkWidth \in Nat /\ MarkLow + MarkBits <= MarkWidth
  BY StreamAssumption
<1>2. h \in Hosts
  BY DEF Hosts
<1>3. ~Reserved(h)
  <2>1. ~AllOnes(h)
    BY <1>1 DEF AllOnes
  <2>2. ASSUME Width > 2 PROVE 0 \in Bits \ {Width - 1} /\ h[0] # 0
    BY <1>1, <2>2 DEF Bits
  <2> QED BY <2>1, <2>2 DEF Reserved
<1>4. ~Marked(h)
  <2> SUFFICES ASSUME Width >= MarkWidth, Marked(h) PROVE FALSE
    BY DEF Marked
  <2> DEFINE k == Width - 1 - (MarkLow + 0)
  <2>1. 0 \in 0..(MarkBits - 1) /\ k \in Bits
    BY <1>1 DEF Bits
  <2>2. h[k] = 0
    BY <2>1 DEF Marked
  <2> QED BY <2>1, <2>2
<1> QED BY <1>2, <1>3, <1>4 DEF CleanHosts, NeedsHygiene
=============================================================================
