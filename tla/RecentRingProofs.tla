--------------------------- MODULE RecentRingProofs ---------------------------
(* The recent-address guard is consistent for every set of addresses and every depth. *)
EXTENDS RecentRing, SequenceTheorems, TLAPS

RingInv == RingTypeOK /\ RingOK

LEMMA RingInitInv == RingInit => RingInv
  BY RingAssumption DEF RingInit, RingInv, RingTypeOK, RingOK, RingMapAgrees, RingDistinct,
                        RingBounded, Range

\* Appending a new address below the depth keeps the guard consistent.
LEMMA ExtendInv ==
    ASSUME RingInv, NEW a \in Addr, a \notin brMap, Extend(a)
    PROVE  RingInv'
<1> USE DEF RingInv, RingOK
<1> DEFINE n == Len(brRing)
<1>1. /\ brRing \in Seq(Addr) /\ brRing' = Append(brRing, a)
      /\ brIdx' = brIdx /\ brIdx = 0 /\ brMap' = brMap \union {a}
  BY DEF RingTypeOK, RingBounded, Extend
<1>2. /\ n \in Nat /\ Len(brRing') = n + 1 /\ brRing' \in Seq(Addr)
      /\ \A i \in 1..n : brRing'[i] = brRing[i]
      /\ brRing'[n + 1] = a
  BY <1>1
<1>3. RingTypeOK'
  BY <1>1, <1>2 DEF RingTypeOK
<1>4. \A i \in 1..n : brRing[i] \in brMap
  BY <1>1 DEF RingMapAgrees, Range
<1>5. RingDistinct'
  BY <1>2, <1>4 DEF RingDistinct
<1>6. Range(brRing') = Range(brRing) \union {a}
  <2>1. DOMAIN brRing' = 1..(n + 1) /\ DOMAIN brRing = 1..n
    BY <1>1, <1>2
  <2> QED BY <2>1, <1>2 DEF Range
<1>7. RingMapAgrees'
  BY <1>1, <1>6 DEF RingMapAgrees
<1>8. RingBounded'
  BY <1>1, <1>2, RingAssumption DEF RingBounded, Extend
<1> QED BY <1>3, <1>5, <1>7, <1>8

\* Overwriting the oldest address of a full ring keeps the guard consistent: the
\* overwritten address leaves the map because the ring held it only once.
LEMMA OverwriteInv ==
    ASSUME RingInv, NEW a \in Addr, a \notin brMap, BrCap # 0, Overwrite(a)
    PROVE  RingInv'
<1> USE DEF RingInv, RingOK
<1> DEFINE n == Len(brRing)
           k == brIdx + 1
<1>1. /\ brRing \in Seq(Addr) /\ brRing' = [brRing EXCEPT ![k] = a]
      /\ brIdx' = k % BrCap /\ brMap' = (brMap \ {brRing[k]}) \union {a}
  BY DEF RingTypeOK, Overwrite
<1>2. n = BrCap /\ n \in Nat \ {0} /\ brIdx \in 0..(n - 1) /\ k \in 1..n
  BY RingAssumption DEF RingTypeOK, RingBounded, Overwrite
<1>3. /\ DOMAIN brRing = 1..n /\ DOMAIN brRing' = 1..n
      /\ brRing' \in Seq(Addr) /\ Len(brRing') = n
      /\ brRing'[k] = a
      /\ \A i \in 1..n : i # k => brRing'[i] = brRing[i]
  BY <1>1, <1>2
<1>4. RingTypeOK'
  <2>1. brRing[k] \in Addr
    BY <1>1, <1>2
  <2>2. k % BrCap \in Nat
    BY <1>2
  <2> QED BY <1>1, <1>3, <2>1, <2>2 DEF RingTypeOK
<1>5. \A i \in 1..n : brRing[i] \in brMap
  BY <1>3 DEF RingMapAgrees, Range
<1>6. RingDistinct'
  BY <1>3, <1>5 DEF RingDistinct
<1>7. RingMapAgrees'
  <2>1. ASSUME NEW x \in Range(brRing') PROVE x \in brMap'
    <3>1. PICK i \in 1..n : x = brRing'[i]
      BY <2>1, <1>3 DEF Range
    <3>2. CASE i = k
      BY <3>1, <3>2, <1>3, <1>1
    <3>3. CASE i # k
      <4>1. x = brRing[i] /\ x \in brMap
        BY <3>1, <3>3, <1>3, <1>5
      <4>2. x # brRing[k]
        BY <4>1, <3>3, <1>2 DEF RingDistinct
      <4> QED BY <4>1, <4>2, <1>1
    <3> QED BY <3>2, <3>3
  <2>2. ASSUME NEW x \in brMap' PROVE x \in Range(brRing')
    <3>1. CASE x = a
      BY <3>1, <1>2, <1>3 DEF Range
    <3>2. CASE x # a
      <4>1. x \in brMap /\ x # brRing[k]
        BY <2>2, <3>2, <1>1
      <4>2. PICK i \in 1..n : x = brRing[i]
        BY <4>1, <1>3 DEF RingMapAgrees, Range
      <4>3. i # k /\ brRing'[i] = x
        BY <4>1, <4>2, <1>3
      <4> QED BY <4>3, <1>3 DEF Range
    <3> QED BY <3>1, <3>2
  <2> QED BY <2>1, <2>2 DEF RingMapAgrees
<1>8. RingBounded'
  <2>1. k % BrCap \in 0..(BrCap - 1)
    BY <1>2
  <2> QED BY <2>1, <1>1, <1>2, <1>3 DEF RingBounded
<1> QED BY <1>4, <1>6, <1>7, <1>8

\* Recording any address keeps the guard consistent, whoever holds the proxy's mutex.
LEMMA RecordInv ==
    ASSUME RingInv, NEW a \in Addr, Record(a)
    PROVE  RingInv'
<1>1. CASE UNCHANGED ringVars
  BY <1>1 DEF RingInv, RingTypeOK, RingOK, RingMapAgrees, RingDistinct, RingBounded, ringVars
<1>2. CASE BrCap # 0 /\ a \notin brMap /\ Extend(a)
  BY <1>2, ExtendInv
<1>3. CASE BrCap # 0 /\ a \notin brMap /\ Overwrite(a)
  BY <1>3, OverwriteInv
<1> QED BY <1>1, <1>2, <1>3 DEF Record, BrHit

\* The ring's map, its contents and its index agree after any sequence of picks, for
\* every set of addresses and every avoid_recent (backstopLocked, proxy.go:361-381).
THEOREM RingAlwaysOK == RingSpec => []RingOK
<1>1. RingInv /\ [RingNext]_ringVars => RingInv'
  <2> SUFFICES ASSUME RingInv, [RingNext]_ringVars PROVE RingInv'
    OBVIOUS
  <2>1. CASE RingNext
    BY <2>1, RecordInv DEF RingNext
  <2>2. CASE UNCHANGED ringVars
    BY <2>2 DEF RingInv, RingTypeOK, RingOK, RingMapAgrees, RingDistinct, RingBounded, ringVars
  <2> QED BY <2>1, <2>2
<1>2. RingInv => RingOK
  BY DEF RingInv
<1> QED BY <1>1, <1>2, RingInitInv, PTL DEF RingSpec
-----------------------------------------------------------------------------
(* The ring, read from its oldest entry, is the window of the last distinct addresses. *)

\* A sequence read from position i + 1 on and then from its start.
Rotate(r, i) == SubSeq(r, i + 1, Len(r)) \o SubSeq(r, 1, i)

LEMMA RotateEntries ==
    ASSUME NEW r \in Seq(Addr), NEW i \in 0..Len(r)
    PROVE  /\ Rotate(r, i) \in Seq(Addr) /\ Len(Rotate(r, i)) = Len(r)
           /\ \A j \in 1..Len(r) :
                 Rotate(r, i)[j] = IF j <= Len(r) - i THEN r[i + j] ELSE r[j - (Len(r) - i)]
<1> DEFINE n == Len(r)
           front == SubSeq(r, i + 1, n)
           back == SubSeq(r, 1, i)
<1>1. n \in Nat /\ i \in Nat /\ i <= n
  OBVIOUS
<1>2. /\ front \in Seq(Addr) /\ Len(front) = n - i
      /\ \A j \in 1..(n - i) : front[j] = r[i + j]
  <2>1. i + 1 \in 1..(n + 1) /\ n \in i..n
    BY <1>1
  <2> QED BY <1>1, <2>1
<1>3. back \in Seq(Addr) /\ Len(back) = i /\ \A j \in 1..i : back[j] = r[j]
  BY <1>1
<1>4. /\ front \o back \in Seq(Addr) /\ Len(front \o back) = n
      /\ \A j \in 1..n : (front \o back)[j] =
            IF j <= Len(front) THEN front[j] ELSE back[j - Len(front)]
  <2> HIDE DEF front, back, n
  <2>1. Len(front) + Len(back) = n
    BY <1>1, <1>2, <1>3
  <2> QED BY <2>1, <1>2, <1>3, ConcatProperties
<1>5. Rotate(r, i) = front \o back
  BY DEF Rotate
<1> HIDE DEF front, back
<1>6. ASSUME NEW j \in 1..n
      PROVE  Rotate(r, i)[j] = IF j <= n - i THEN r[i + j] ELSE r[j - (n - i)]
  <2>1. CASE j <= n - i
    BY <2>1, <1>1, <1>2, <1>4, <1>5
  <2>2. CASE ~(j <= n - i)
    BY <2>2, <1>1, <1>2, <1>3, <1>4, <1>5
  <2> QED BY <2>1, <2>2
<1> QED BY <1>4, <1>5, <1>6

LEMMA WindowRange ==
    ASSUME RingInv
    PROVE  /\ Window \in Seq(Addr) /\ Len(Window) = Len(brRing)
           /\ Window = Rotate(brRing, brIdx) /\ brIdx \in 0..Len(brRing)
           /\ Range(Window) \subseteq brMap
<1> DEFINE n == Len(brRing)
<1>1. brRing \in Seq(Addr) /\ n \in Nat /\ brIdx \in 0..n
  BY RingAssumption DEF RingInv, RingTypeOK, RingOK, RingBounded
<1>2. Window = Rotate(brRing, brIdx)
  BY DEF Window, Rotate
<1>3. /\ Window \in Seq(Addr) /\ Len(Window) = n
      /\ \A j \in 1..n :
            Window[j] = IF j <= n - brIdx THEN brRing[brIdx + j] ELSE brRing[j - (n - brIdx)]
  BY <1>1, <1>2, RotateEntries
<1>4. \A j \in 1..n : brRing[j] \in brMap
  BY <1>1 DEF RingInv, RingOK, RingMapAgrees, Range
<1>5. ASSUME NEW j \in 1..n PROVE Window[j] \in brMap
  BY <1>1, <1>3, <1>4
<1> QED BY <1>1, <1>2, <1>3, <1>5 DEF Range

LEMMA ExtendIsSee ==
    ASSUME RingInv, NEW a \in Addr, a \notin brMap, Extend(a)
    PROVE  W!See(a)
<1> DEFINE n == Len(brRing)
<1>1. /\ brRing \in Seq(Addr) /\ n \in Nat /\ n < BrCap /\ brIdx = 0
      /\ brRing' = Append(brRing, a) /\ brIdx' = 0
  BY DEF RingInv, RingTypeOK, RingOK, RingBounded, Extend
<1>2. Window = Rotate(brRing, 0) /\ Window' = Rotate(brRing', 0)
  BY <1>1 DEF Window, Rotate
<1>3. brRing' \in Seq(Addr) /\ Len(brRing') = n + 1
  BY <1>1
<1>4. /\ Window \in Seq(Addr) /\ Len(Window) = n /\ \A j \in 1..n : Window[j] = brRing[j]
  BY <1>1, <1>2, RotateEntries
<1>5. /\ Window' \in Seq(Addr) /\ Len(Window') = n + 1
      /\ \A j \in 1..(n + 1) : Window'[j] = brRing'[j]
  <2>1. 0 \in 0..Len(brRing')
    BY <1>1, <1>3
  <2>2. /\ Rotate(brRing', 0) \in Seq(Addr) /\ Len(Rotate(brRing', 0)) = Len(brRing')
        /\ \A j \in 1..Len(brRing') :
              Rotate(brRing', 0)[j] = IF j <= Len(brRing') - 0 THEN brRing'[0 + j]
                                      ELSE brRing'[j - (Len(brRing') - 0)]
    BY <1>3, <2>1, RotateEntries
  <2>3. \A j \in 1..Len(brRing') : Rotate(brRing', 0)[j] = brRing'[j]
    BY <1>1, <1>3, <2>2
  <2> QED BY <1>2, <1>3, <2>2, <2>3
<1>6. Window' = Append(Window, a)
  <2>1. \A j \in 1..(n + 1) : brRing'[j] = IF j <= n THEN brRing[j] ELSE a
    BY <1>1
  <2>2. /\ Append(Window, a) \in Seq(Addr) /\ Len(Append(Window, a)) = n + 1
        /\ \A j \in 1..(n + 1) : Append(Window, a)[j] = IF j <= n THEN Window[j] ELSE a
    BY <1>1, <1>4
  <2>3. \A j \in 1..(n + 1) : Window'[j] = Append(Window, a)[j]
    BY <1>1, <1>4, <1>5, <2>1, <2>2
  <2> QED BY <1>1, <1>5, <2>2, <2>3, SeqEqual
<1>7. a \notin Range(Window)
  BY WindowRange
<1>8. a \notin W!Range(Window)
  BY <1>7 DEF W!Range, Range
<1> QED BY <1>1, <1>4, <1>6, <1>8 DEF W!See

LEMMA TailEntries ==
    ASSUME NEW s \in Seq(Addr), Len(s) # 0, NEW a \in Addr
    PROVE  /\ Append(Tail(s), a) \in Seq(Addr) /\ Len(Append(Tail(s), a)) = Len(s)
           /\ \A j \in 1..Len(s) :
                 Append(Tail(s), a)[j] = IF j = Len(s) THEN a ELSE s[j + 1]
<1> DEFINE r == Tail(s)
<1>1. /\ r \in Seq(Addr) /\ Len(s) \in Nat \ {0} /\ Len(r) = Len(s) - 1
      /\ \A j \in 1..(Len(s) - 1) : r[j] = s[j + 1]
  OBVIOUS
<1> HIDE DEF r
<1>2. /\ Append(r, a) \in Seq(Addr) /\ Len(Append(r, a)) = Len(r) + 1
      /\ \A j \in 1..Len(r) : Append(r, a)[j] = r[j]
      /\ Append(r, a)[Len(r) + 1] = a
  BY <1>1, AppendProperties
<1>3. ASSUME NEW j \in 1..Len(s)
      PROVE  Append(r, a)[j] = IF j = Len(s) THEN a ELSE s[j + 1]
  <2>1. CASE j = Len(s)
    BY <2>1, <1>1, <1>2
  <2>2. CASE j # Len(s)
    <3>1. j \in 1..Len(r) /\ j \in 1..(Len(s) - 1)
      BY <2>2, <1>1
    <3> QED BY <3>1, <2>2, <1>1, <1>2
  <2> QED BY <2>1, <2>2
<1>4. /\ Append(r, a) \in Seq(Addr) /\ Len(Append(r, a)) = Len(s)
      /\ \A j \in 1..Len(s) : Append(r, a)[j] = IF j = Len(s) THEN a ELSE s[j + 1]
  BY <1>1, <1>2, <1>3
<1> QED BY <1>4, Zenon DEF r

LEMMA OverwriteIsSee ==
    ASSUME RingInv, NEW a \in Addr, a \notin brMap, BrCap # 0, Overwrite(a)
    PROVE  W!See(a)
<1> DEFINE n == Len(brRing)
           i == brIdx
           i1 == (i + 1) % n
<1>1. /\ brRing \in Seq(Addr) /\ n \in Nat \ {0} /\ n = BrCap /\ i \in 0..(n - 1)
      /\ brRing' = [brRing EXCEPT ![i + 1] = a] /\ brIdx' = i1
  BY RingAssumption DEF RingInv, RingTypeOK, RingOK, RingBounded, Overwrite
<1>2. i1 = IF i + 1 = n THEN 0 ELSE i + 1
  <2> HIDE DEF n, i
  <2> QED BY <1>1
<1>3. /\ brRing' \in Seq(Addr) /\ Len(brRing') = n
      /\ \A j \in 1..n : brRing'[j] = IF j = i + 1 THEN a ELSE brRing[j]
  BY <1>1
<1>4. Window = Rotate(brRing, i) /\ Window' = Rotate(brRing', i1)
  BY <1>1 DEF Window, Rotate
<1>5. /\ Window \in Seq(Addr) /\ Len(Window) = n
      /\ \A j \in 1..n : Window[j] = IF j <= n - i THEN brRing[i + j] ELSE brRing[j - (n - i)]
  <2>1. i \in 0..Len(brRing)
    BY <1>1
  <2> QED BY <1>1, <1>4, <2>1, RotateEntries
<1>6. /\ Window' \in Seq(Addr) /\ Len(Window') = n
      /\ \A j \in 1..n :
            Window'[j] = IF j <= n - i1 THEN brRing'[i1 + j] ELSE brRing'[j - (n - i1)]
  <2>1. i1 \in 0..Len(brRing')
    BY <1>1, <1>2, <1>3
  <2> HIDE DEF i1
  <2>2. /\ Rotate(brRing', i1) \in Seq(Addr) /\ Len(Rotate(brRing', i1)) = Len(brRing')
        /\ \A j \in 1..Len(brRing') :
              Rotate(brRing', i1)[j] = IF j <= Len(brRing') - i1 THEN brRing'[i1 + j]
                                       ELSE brRing'[j - (Len(brRing') - i1)]
    BY <1>3, <2>1, RotateEntries
  <2> QED BY <1>3, <1>4, <2>2
<1> DEFINE t == Append(Tail(Window), a)
<1>7. /\ t \in Seq(Addr) /\ Len(t) = n
      /\ \A j \in 1..n : t[j] = IF j = n THEN a ELSE Window[j + 1]
  <2> HIDE DEF Window
  <2> QED BY <1>1, <1>5, TailEntries
<1>8. ASSUME NEW j \in 1..n PROVE Window'[j] = t[j]
  <2> HIDE DEF t, i1, n, i
  <2>1. CASE j = n
    <3>1. Window'[j] = brRing'[i + 1]
      <4>1. CASE i + 1 = n
        BY <4>1, <2>1, <1>1, <1>2, <1>6
      <4>2. CASE i + 1 # n
        BY <4>2, <2>1, <1>1, <1>2, <1>6
      <4> QED BY <4>1, <4>2
    <3> QED BY <3>1, <2>1, <1>1, <1>3, <1>7
  <2>2. CASE j # n /\ i + 1 + j <= n
    <3>1. Window'[j] = brRing'[i + 1 + j] /\ t[j] = brRing[i + (j + 1)]
      BY <2>2, <1>1, <1>2, <1>5, <1>6, <1>7
    <3> QED BY <3>1, <2>2, <1>1, <1>3
  <2>3. CASE j # n /\ i + 1 + j > n
    <3>1. t[j] = brRing[j + 1 - (n - i)]
      <4>1. t[j] = Window[j + 1] /\ j + 1 \in 1..n /\ ~(j + 1 <= n - i)
        BY <2>3, <1>1, <1>7
      <4>2. (j + 1) - (n - i) = j + 1 - (n - i)
        BY <1>1
      <4> QED BY <4>1, <4>2, <1>5
    <3>2. Window'[j] = brRing'[j + 1 - (n - i)]
      <4>1. CASE i + 1 = n
        BY <4>1, <2>3, <1>1, <1>2, <1>6
      <4>2. CASE i + 1 # n
        BY <4>2, <2>3, <1>1, <1>2, <1>6
      <4> QED BY <4>1, <4>2
    <3> QED BY <3>1, <3>2, <2>3, <1>1, <1>3
  <2> QED BY <2>1, <2>2, <2>3, <1>1
<1>9. Window' = t
  <2> HIDE DEF t
  <2> QED BY <1>6, <1>7, <1>8, SeqEqual
<1>10. a \notin W!Range(Window)
  BY WindowRange DEF W!Range, Range
<1> QED BY <1>1, <1>5, <1>9, <1>10 DEF W!See

LEMMA RingStartsEmpty == RingInit => W!WindowInit
<1> SUFFICES ASSUME RingInit PROVE Window = <<>>
  BY DEF W!WindowInit
<1>1. brRing = <<>> /\ brIdx = 0 /\ Len(<<>>) = 0
  BY DEF RingInit
<1> QED BY <1>1 DEF Window

\* Recording an address is a step of the window, or none.
LEMMA RecordIsWindow ==
    ASSUME RingInv, NEW a \in Addr, Record(a)
    PROVE  [W!WindowNext]_Window
<1>1. CASE UNCHANGED ringVars
  BY <1>1 DEF ringVars, Window
<1>2. CASE ~(UNCHANGED ringVars)
  <2>1. W!See(a)
    BY <1>2, ExtendIsSee, OverwriteIsSee DEF Record, BrHit
  <2> QED BY <2>1 DEF W!WindowNext
<1> QED BY <1>1, <1>2

\* The guard implements the promise: it remembers the last avoid_recent distinct addresses
\* in order and forgets the oldest one first, for every depth (proxy.go:361-381).
THEOREM RingImplementsWindow == RingSpec => ImplementsWindow
<1>1. RingInv /\ [RingNext]_ringVars => [W!WindowNext]_Window
  <2>1. RingInv /\ UNCHANGED ringVars => UNCHANGED Window
    BY DEF ringVars, Window
  <2> QED BY <2>1, RecordIsWindow DEF RingNext
<1>2. RingInv /\ [RingNext]_ringVars => RingInv'
  <2> SUFFICES ASSUME RingInv, [RingNext]_ringVars PROVE RingInv'
    OBVIOUS
  <2>1. CASE RingNext
    BY <2>1, RecordInv DEF RingNext
  <2>2. CASE UNCHANGED ringVars
    BY <2>2 DEF RingInv, RingTypeOK, RingOK, RingMapAgrees, RingDistinct, RingBounded, ringVars
  <2> QED BY <2>1, <2>2
<1> QED BY RingStartsEmpty, <1>1, <1>2, RingInitInv, PTL DEF RingSpec, ImplementsWindow, W!WindowSpec
=============================================================================
