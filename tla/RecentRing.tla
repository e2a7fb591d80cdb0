------------------------------ MODULE RecentRing ------------------------------
(***************************************************************************)
(* internal/proxy/proxy.go: the global recent-address guard, a ring brRing *)
(* with its index brIdx and the lookup map brMap, written by              *)
(* backstopLocked under the proxy's mutex.  brIdx grows without bound in   *)
(* the code and is only ever read modulo len(brRing), which is brCap by    *)
(* then; the model keeps the remainder.                                    *)
(***************************************************************************)
EXTENDS Integers, Sequences, Functions

CONSTANTS Addr,     \* the source addresses picks may return
          BrCap     \* avoid_recent; 0 disables the guard

ASSUME RingAssumption == BrCap \in Nat

VARIABLES brRing, brIdx, brMap
ringVars == <<brRing, brIdx, brMap>>

RingInit == brRing = <<>> /\ brIdx = 0 /\ brMap = {}

BrHit(a) == a \in brMap

\* Faulty variants: the overwritten address stays in the map; the index does not move.
OverwriteWith(a, idx, gone) ==
    /\ Len(brRing) >= BrCap
    /\ brRing' = [brRing EXCEPT ![brIdx + 1] = a]
    /\ brIdx' = idx /\ brMap' = (brMap \ gone) \union {a}
OverwriteKeepsOld(a) == OverwriteWith(a, (brIdx + 1) % BrCap, {})
OverwriteInPlace(a) == OverwriteWith(a, brIdx, {brRing[brIdx + 1]})

\* The recording half of backstopLocked (lines 362-364 and 368-379): below the depth the
\* ring grows; at it the oldest address is overwritten.
Extend(a) ==
    /\ Len(brRing) < BrCap
    /\ brRing' = Append(brRing, a)
    /\ UNCHANGED brIdx
    /\ brMap' = brMap \union {a}

Overwrite(a) ==
    /\ Len(brRing) >= BrCap
    /\ brRing' = [brRing EXCEPT ![brIdx + 1] = a]
    /\ brIdx' = (brIdx + 1) % BrCap
    /\ brMap' = (brMap \ {brRing[brIdx + 1]}) \union {a}

Record(a) ==
    IF BrCap = 0 \/ BrHit(a)
    THEN UNCHANGED ringVars
    ELSE Extend(a) \/ Overwrite(a)

RingNext == \E a \in Addr : Record(a)
RingSpec == RingInit /\ [][RingNext]_ringVars
-----------------------------------------------------------------------------
RingTypeOK ==
    /\ brRing \in Seq(Addr)
    /\ brIdx \in Nat
    /\ brMap \subseteq Addr

\* The map is exactly the ring's contents, the ring holds no address twice and never
\* more than avoid_recent of them, and the index stays at 0 until the ring is full: a
\* stale map entry would make the guard reject an address for ever, a missing one
\* would let a recent address out (backstopLocked, proxy.go:361-381).
RingMapAgrees == brMap = Range(brRing)
RingDistinct == \A i, j \in 1..Len(brRing) : brRing[i] = brRing[j] => i = j
RingBounded ==
    /\ Len(brRing) <= BrCap
    /\ brIdx < BrCap \/ brIdx = 0
    /\ Len(brRing) < BrCap => brIdx = 0
RingOK == RingMapAgrees /\ RingDistinct /\ RingBounded

\* The ring read from its oldest entry: a window of the last BrCap distinct addresses.
Window == SubSeq(brRing, brIdx + 1, Len(brRing)) \o SubSeq(brRing, 1, brIdx)
W == INSTANCE RecentWindow WITH Depth <- BrCap, window <- Window
ImplementsWindow == W!WindowSpec
=============================================================================
