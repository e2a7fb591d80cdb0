------------------------------- MODULE Stream -------------------------------
(***************************************************************************)
(* internal/pool/pool.go: one rotation cycle (type Stream), the object that *)
(* gives a destination its sequence of source addresses.                   *)
(*                                                                         *)
(* An address is represented by its host bits, the coarsest first: `at`   *)
(* only writes address bits PoolBits .. 127, so the prefix never changes.  *)
(* The counter is kept as the code keeps it, in two words of WordBits bits *)
(* (64 in the code) with an explicit carry; Width ranges over small pools, *)
(* where each one is a real configuration (Width = 5 is pool_bits: 123).   *)
(* The EUI-64 marker is a field of MarkBits bits of the host number at its *)
(* bit MarkLow, considered from MarkWidth host bits up (16 bits at bit 24  *)
(* from 40 host bits in the code).                                         *)
(*                                                                         *)
(* Next (lines 231-241) is a loop: Skip is one turn of it, Emit the return.*)
(* A stream is used under the proxy's mutex only, so nothing comes between *)
(* the turns; they are separate actions because the loop is what matters.  *)
(***************************************************************************)
EXTENDS Powers

CONSTANTS Width,      \* host bits, 128 - pool_bits
          WordBits,   \* bits of a machine word
          MaxSkips,   \* maxCycleSkips
          MarkLow, MarkBits, MarkWidth,
          Seeds       \* the <<posHi, posLo, strHi, strLo, mskHi, mskLo>> that splitmix64 may yield

Word == Pow2[WordBits]
Space == Pow2[Width]
Words == 0..(Word - 1)

\* The host bits of an address, as `at` counts them: bit 0 is address bit PoolBits.
Bits == 0..(Width - 1)
Hosts == [Bits -> {0, 1}]

ASSUME StreamAssumption ==
    /\ Width \in Nat /\ WordBits \in Nat \ {0} /\ Width <= 2 * WordBits
    /\ MaxSkips \in Nat
    /\ MarkLow \in Nat /\ MarkBits \in Nat \ {0}
    /\ MarkWidth \in Nat /\ MarkLow + MarkBits <= MarkWidth
    /\ Seeds \subseteq Words \X Words \X Words \X Words \X Words \X Words

NoAddr == <<>>    \* Go's nil net.IP

VARIABLES posHi, posLo,   \* the counter
          strHi, strLo,   \* the odd stride
          mskHi, mskLo,   \* the XOR mask
          ip,             \* the address the last completed Next returned
          skipped         \* positions the current call of Next has skipped
pos == <<posHi, posLo>>
keys == <<strHi, strLo, mskHi, mskLo>>
streamVars == <<posHi, posLo, strHi, strLo, mskHi, mskLo, ip, skipped>>

PairBit(hi, lo, k) == IF k < WordBits THEN Bit(lo, k) ELSE Bit(hi, k - WordBits)

\* Faulty variant: the counter's bits are used in order, not reversed.
AtInOrder(hi, lo) ==
    [k \in Bits |-> (PairBit(hi, lo, Width - 1 - k) + PairBit(mskHi, mskLo, Width - 1 - k)) % 2]

\* Counter bit k drives address bit PoolBits + k, XOR bit Width - 1 - k of the mask.
At(hi, lo) ==
    [k \in Bits |-> (PairBit(hi, lo, k) + PairBit(mskHi, mskLo, Width - 1 - k)) % 2]

\* isAllOnes asks for a whole low word of ones, which no pool narrower than a word has.
AllOnes(h) == Width >= WordBits /\ \A k \in Bits : h[k] = 1

\* The host numbers 0 and 1 and, where isAllOnes sees it, the one with every bit set.
Reserved(h) ==
    /\ Width > 2
    /\ \/ \A k \in Bits \ {Width - 1} : h[k] = 0
       \/ AllOnes(h)
Marked(h) ==
    /\ Width >= MarkWidth
    /\ \A j \in 0..(MarkBits - 1) : h[Width - 1 - (MarkLow + j)] = IF j = 0 THEN 0 ELSE 1
NeedsHygiene(h) == Reserved(h) \/ Marked(h)
CleanHosts == {h \in Hosts : ~NeedsHygiene(h)}

\* NewStream: an odd stride; the mask's high word is cut to the bits the width uses.
InitStream ==
    \E s \in Seeds :
        /\ posHi = s[1] /\ posLo = s[2]
        /\ strHi = s[3] /\ strLo = 2 * (s[4] \div 2) + 1
        /\ mskHi = IF Width > WordBits THEN s[5] % Pow2[Width - WordBits] ELSE 0
        /\ mskLo = s[6]
        /\ ip = NoAddr /\ skipped = 0

\* Faulty variant: the carry between the words is lost.
AdvanceDropsCarry ==
    /\ posLo' = (posLo + strLo) % Word
    /\ posHi' = (posHi + strHi) % Word

\* One stride step, a double-word addition: the carry is `lo < s.posLo`.
Advance ==
    LET lo == (posLo + strLo) % Word
        carry == IF lo < posLo THEN 1 ELSE 0
    IN  /\ posLo' = lo
        /\ posHi' = (posHi + strHi + carry) % Word

Here == At(posHi, posLo)

Skip ==
    /\ skipped < MaxSkips /\ NeedsHygiene(Here)
    /\ Advance
    /\ skipped' = skipped + 1
    /\ UNCHANGED <<keys, ip>>

\* Faulty variant: one skip, then whatever comes.
EmitAfterOneSkip ==
    /\ skipped > 0 \/ ~NeedsHygiene(Here)
    /\ ip' = Here /\ Advance /\ skipped' = 0 /\ UNCHANGED keys

Emit ==
    /\ skipped = MaxSkips \/ ~NeedsHygiene(Here)
    /\ ip' = Here
    /\ Advance
    /\ skipped' = 0
    /\ UNCHANGED keys

NextStream == Skip \/ Emit
StreamSpec == InitStream /\ [][NextStream]_streamVars
-----------------------------------------------------------------------------
\* The words stay words and the stride stays odd, whatever the loop does (an odd
\* stride is what makes the cycle full-period, pool.go:213).
WordsOK ==
    /\ posHi \in Words /\ posLo \in Words
    /\ strHi \in Words /\ strLo \in Words /\ strLo % 2 = 1
    /\ mskHi \in Words /\ mskLo \in Words
    /\ skipped \in 0..MaxSkips

\* The two words and their carry are one counter modulo 2^128: every turn of Next's
\* loop, a skip or a return, moves it by exactly one stride (advance, pool.go:243-252),
\* and nothing moves it otherwise.
Counter == posHi * Word + posLo
Stride == strHi * Word + strLo
Period == Word * Word
CounterWalks == [][Counter' = (Counter + Stride) % Period]_<<posHi, posLo, skipped, ip>>
=============================================================================
