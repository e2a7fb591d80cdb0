--------------------------- MODULE SourcePickProofs ---------------------------
(***************************************************************************)
(* SourcePick is type-correct, its mutex is held exactly in the critical   *)
(* sections and its gauges bound what they count; a pin survives its       *)
(* owner's own requests and answers them; the guard is the window of the   *)
(* last addresses and keeps them out of the picks; no site sees an address *)
(* twice in a lap; and picks follow the prefix: for every set of handlers, *)
(* accounts, destinations and tokens, every configuration and every bound. *)
(***************************************************************************)
EXTENDS SourcePickHistory, RecentRingProofs, PowersProofs, FiniteSetTheorems

Inv == TypeOK /\ LockOK /\ RingOK /\ StreamsBounded /\ SessionGaugeCovers

\* The parts of Inv about the state the handlers share.
SharedOK == SessionsOK /\ StreamsOK /\ RingInv /\ StreamsBounded /\ SessionGaugeCovers

LEMMA InvParts ==
    Inv <=> WorldOK /\ SharedOK /\ ThreadsOK /\ SweeperOK /\ LockOK
  BY DEF Inv, TypeOK, SharedOK, RingInv

LEMMA InvPartsNext ==
    Inv' <=> WorldOK' /\ SharedOK' /\ ThreadsOK' /\ SweeperOK' /\ LockOK'
  BY DEF Inv, TypeOK, SharedOK, RingInv

LEMMA SessionsStutter ==
    ASSUME SessionsOK, SessionGaugeCovers, UNCHANGED sessionVars
    PROVE  SessionsOK' /\ SessionGaugeCovers'
  BY DEF SessionsOK, SessionGaugeCovers, PinnedTokens, sessionVars

LEMMA StreamsStutter ==
    ASSUME StreamsOK, StreamsBounded, UNCHANGED cycleVars, clock \in Nat, clock' \in Nat,
           clock <= clock'
    PROVE  StreamsOK' /\ StreamsBounded'
  BY DEF StreamsOK, StreamsBounded, cycleVars

LEMMA RingStutter ==
    ASSUME RingInv, UNCHANGED ringVars
    PROVE  RingInv'
  BY DEF RingInv, RingTypeOK, RingOK, RingMapAgrees, RingDistinct, RingBounded, ringVars

\* Only the clock moves, forward: the shared state keeps its types and its gauges.
LEMMA SharedStutter ==
    ASSUME SharedOK, UNCHANGED shared, clock \in Nat, clock' \in Nat, clock <= clock'
    PROVE  SharedOK'
  BY SessionsStutter, StreamsStutter, RingStutter DEF SharedOK, shared

\* A handler that gets or gives up the lock as it enters or leaves a critical section.
LEMMA LockMoves ==
    ASSUME LockOK, ThreadsOK, NEW t \in Threads, UNCHANGED spc,
           NEW place \in Places, Goto(t, place),
           \/ place \in Held /\ pc[t] \notin Held /\ Lock(t)
           \/ place \notin Held /\ pc[t] \in Held /\ Unlock(t)
           \/ place \notin Held /\ pc[t] \notin Held /\ UNCHANGED mu
    PROVE  LockOK' /\ mu' \in Procs \union {Free} /\ pc' \in [Threads -> Places]
  BY PickAssumption DEF LockOK, ThreadsOK, Goto, Lock, Unlock, Procs

LEMMA PickInit == Init => Inv
<1> SUFFICES ASSUME Init PROVE Inv
  OBVIOUS
<1>1. (CHOOSE r \in Requests : TRUE) \in Requests
  <2>1. PICK a \in Accounts, d \in Dests : TRUE
    BY PickAssumption
  <2>2. [acct |-> a, tok |-> NoTok, dest |-> d] \in Requests
    BY DEF Requests
  <2> QED BY <2>2
<1>2. WorldOK /\ SweeperOK
  BY PickAssumption DEF Init, WorldOK, SweeperOK, SweepPlaces, Pools
<1>3. SessionsOK /\ SessionGaugeCovers
  <2>1. PinnedTokens = {}
    BY DEF Init, PinnedTokens
  <2> QED BY <2>1, FS_EmptySet DEF Init, SessionsOK, SessionGaugeCovers
<1>4. StreamsOK /\ StreamsBounded
  <2>1. DOMAIN streams = {} /\ hostsCur = 0 /\ picksTotal = 0
    BY DEF Init
  <2> QED BY <2>1, FS_EmptySet, PickAssumption DEF StreamsOK, StreamsBounded
<1>5. ThreadsOK /\ LockOK
  BY <1>1, PickAssumption
  DEF Init, ThreadsOK, LockOK, Places, Held, SweepHeld, Procs, IPs, Pools, Sticky
<1>6. RingInv
  BY RingInitInv DEF Init
<1> QED BY <1>2, <1>3, <1>4, <1>5, <1>6, InvParts DEF SharedOK

-----------------------------------------------------------------------------
(* The actions that leave the shared state alone. *)

LEMMA AcquireInv ==
    ASSUME Inv, NEW t \in Threads, StickyLock(t) \/ StickyRelock(t) \/ DrawLock(t)
    PROVE  Inv'
<1> USE DEF Places, Held
<1>1. PICK place \in Places \ Held, held \in Held :
        /\ Acquire(t, place, held)
        /\ held \in {"lookupHeld", "storeHeld"} => place \in {"lookup", "store"}
  BY DEF StickyLock, StickyRelock, DrawLock
<1>2. UNCHANGED <<conf, live, clock, left, hostPick, spc, snow>> /\ UNCHANGED shared
  BY <1>1 DEF Acquire, world, shared, sweepVars
<1>3. WorldOK' /\ SweeperOK'
  BY <1>2 DEF Inv, TypeOK, WorldOK, SweeperOK
<1>4. SharedOK'
  BY <1>2, SharedStutter, InvParts DEF WorldOK
<1>5. LockOK' /\ mu' \in Procs \union {Free} /\ pc' \in [Threads -> Places]
  BY <1>1, <1>2, LockMoves, InvParts DEF Acquire, At
<1>6. ThreadsOK'
  BY <1>1, <1>5 DEF Inv, TypeOK, ThreadsOK, Acquire, At, Goto, Sticky
<1> QED BY <1>3, <1>4, <1>5, <1>6, InvPartsNext

LEMMA RequestInv ==
    ASSUME Inv, NEW t \in Threads, Request(t)
    PROVE  Inv'
<1> USE DEF Places, Held
<1>1. UNCHANGED <<conf, live, clock, hostPick, mu, spc, snow>> /\ UNCHANGED shared
  BY DEF Request, shared, sweepVars
<1>2. WorldOK' /\ SweeperOK'
  BY <1>1, PickAssumption DEF Inv, TypeOK, WorldOK, SweeperOK, Request
<1>3. SharedOK'
  BY <1>1, SharedStutter, InvParts DEF WorldOK
<1>4. LockOK' /\ mu' \in Procs \union {Free} /\ pc' \in [Threads -> Places]
  BY <1>1, LockMoves, InvParts DEF Request, At
<1>5. ThreadsOK'
  BY <1>4 DEF Inv, TypeOK, ThreadsOK, Request, At, Goto, Sticky
<1> QED BY <1>2, <1>3, <1>4, <1>5, InvPartsNext

LEMMA QuietStepInv ==
    ASSUME Inv, NEW t \in Threads,
           \/ PickFixed(t) \/ PickIface(t) \/ PickOn(t)
           \/ FreshNoPool(t) \/ FreshFromPool(t)
    PROVE  Inv'
<1> USE DEF Places, Held
<1>1. UNCHANGED <<conf, live, clock, left, hostPick, mu, req, spc, snow>> /\ UNCHANGED shared
  BY DEF PickFixed, PickIface, PickOn, FreshNoPool, FreshFromPool, world, shared,
         sweepVars
<1>2. WorldOK' /\ SweeperOK'
  BY <1>1 DEF Inv, TypeOK, WorldOK, SweeperOK
<1>3. SharedOK'
  BY <1>1, SharedStutter, InvParts DEF WorldOK
<1>4. PICK place \in Places \ Held :
        /\ Goto(t, place) /\ pc[t] \notin Held
        /\ place \in {"lookup", "store"} => Sticky(t)
  BY DEF PickFixed, PickIface, PickOn, FreshNoPool, FreshFromPool, Answer,
         FreshDone, At
<1>5. LockOK' /\ mu' \in Procs \union {Free} /\ pc' \in [Threads -> Places]
  BY <1>1, <1>4, LockMoves, InvParts
<1>6. ip' \in [Threads -> IPs]
  <2>1. PICK a \in IPs : ip' = [ip EXCEPT ![t] = a]
    <3>1. conf \in ConfigType /\ ip \in [Threads -> IPs] /\ req \in [Threads -> Requests]
          /\ pl \in [Threads -> Pools] /\ live \in Pools
      BY PickAssumption DEF Inv, TypeOK, WorldOK, ThreadsOK
    <3>2. CASE PickFixed(t)
      BY <3>1, <3>2 DEF PickFixed, Answer, ConfigType, IPs
    <3>3. CASE PickIface(t)
      <4>1. IfaceAddr[live] \in Addr
        BY <3>1, <3>3, PickAssumption DEF PickIface, Pools
      <4> QED BY <3>3, <4>1 DEF PickIface, Answer, IPs
    <3>4. CASE PickOn(t) \/ FreshFromPool(t)
      BY <3>1, <3>4 DEF PickOn, FreshFromPool
    <3>5. CASE FreshNoPool(t)
      BY <3>5 DEF FreshNoPool, FreshDone, IPs
    <3> QED BY <3>2, <3>3, <3>4, <3>5
  <2> QED BY <2>1 DEF Inv, TypeOK, ThreadsOK
<1>7. pl' \in [Threads -> Pools]
  BY DEF Inv, TypeOK, WorldOK, ThreadsOK, PickFixed, PickIface, PickOn, FreshNoPool, FreshFromPool,
         Pools
<1>8. ThreadsOK'
  BY <1>1, <1>4, <1>5, <1>6, <1>7 DEF Inv, TypeOK, ThreadsOK, Goto, Sticky
<1> QED BY <1>2, <1>3, <1>5, <1>8, InvPartsNext

LEMMA WorldStepInv ==
    ASSUME Inv, Tick \/ Roam \/ SweepBegin \/ SweepLock
    PROVE  Inv'
<1>1. UNCHANGED <<conf, left, hostPick, pc, req, ip, pl>> /\ UNCHANGED shared
  BY DEF Tick, Roam, SweepBegin, SweepLock, world, shared, threadVars
<1>2. WorldOK' /\ clock <= clock' /\ clock \in Nat /\ clock' \in Nat
  BY <1>1, PickAssumption
  DEF Inv, TypeOK, WorldOK, Tick, Roam, SweepBegin, SweepLock, world
<1>3. SharedOK'
  BY <1>1, <1>2, SharedStutter, InvParts
<1>4. SweeperOK'
  <2>1. CASE Tick \/ Roam
    BY <2>1, <1>2 DEF Inv, TypeOK, SweeperOK, Tick, Roam, sweepVars
  <2>2. CASE SweepBegin
    BY <2>2, <1>2 DEF Inv, TypeOK, SweeperOK, SweepBegin, world, SweepPlaces
  <2>3. CASE SweepLock
    BY <2>3, <1>2 DEF Inv, TypeOK, SweeperOK, SweepLock, world, SweepPlaces, SweepHeld
  <2> QED BY <2>1, <2>2, <2>3
<1>5. LockOK' /\ mu' \in Procs \union {Free}
  <2>1. CASE Tick \/ Roam
    BY <2>1, <1>1 DEF Inv, TypeOK, ThreadsOK, LockOK, Tick, Roam, sweepVars
  <2>2. CASE SweepBegin
    BY <2>2, <1>1 DEF Inv, TypeOK, ThreadsOK, LockOK, SweepBegin, SweepHeld
  <2>3. CASE SweepLock
    BY <2>3, <1>1, PickAssumption
    DEF Inv, TypeOK, ThreadsOK, LockOK, SweepLock, SweepHeld, Lock, Procs
  <2> QED BY <2>1, <2>2, <2>3
<1>6. ThreadsOK'
  BY <1>1, <1>5 DEF Inv, TypeOK, ThreadsOK, Sticky
<1> QED BY <1>2, <1>3, <1>4, <1>5, <1>6, InvPartsNext

-----------------------------------------------------------------------------
(* The critical sections over the sessions. *)

\* Removing an expired session lowers the gauge by exactly the one session it removes.
LEMMA DropInv ==
    ASSUME SessionsOK, SessionGaugeCovers, NEW k \in Tokens, sessions[k] # NoSession,
           sessions' = [sessions EXCEPT ![k] = NoSession],
           sessionsCur' = sessionsCur - 1, sessionsTot' = sessionsTot
    PROVE  SessionsOK' /\ SessionGaugeCovers'
<1>1. PinnedTokens' = PinnedTokens \ {k} /\ k \in PinnedTokens
  BY DEF PinnedTokens, SessionsOK
<1>2. IsFiniteSet(PinnedTokens') /\ Cardinality(PinnedTokens') = Cardinality(PinnedTokens) - 1
  BY <1>1, FS_RemoveElement DEF SessionsOK
<1>3. Cardinality(PinnedTokens) \in Nat
  BY FS_CardinalityType DEF SessionsOK
<1> QED BY <1>2, <1>3 DEF SessionsOK, SessionGaugeCovers

\* Storing a session raises the gauge by one and the sessions by at most one.
LEMMA StoreInv ==
    ASSUME SessionsOK, SessionGaugeCovers, NEW k \in Tokens, NEW s \in Sessions,
           sessions' = [sessions EXCEPT ![k] = s],
           sessionsCur' = sessionsCur + 1, sessionsTot' = sessionsTot + 1
    PROVE  SessionsOK' /\ SessionGaugeCovers'
<1>1. PinnedTokens' = PinnedTokens \union {k}
  BY PickAssumption DEF PinnedTokens, SessionsOK
<1>2. IsFiniteSet(PinnedTokens') /\ Cardinality(PinnedTokens') <= Cardinality(PinnedTokens) + 1
  <2>1. IsFiniteSet(PinnedTokens) /\ Cardinality(PinnedTokens) \in Nat
    BY FS_CardinalityType DEF SessionsOK
  <2>2. /\ IsFiniteSet(PinnedTokens \union {k})
        /\ \/ Cardinality(PinnedTokens \union {k}) = Cardinality(PinnedTokens)
           \/ Cardinality(PinnedTokens \union {k}) = Cardinality(PinnedTokens) + 1
    BY <2>1, FS_AddElement
  <2> QED BY <2>1, <2>2, <1>1
<1>3. Cardinality(PinnedTokens) \in Nat /\ Cardinality(PinnedTokens') \in Nat
  BY <1>2, FS_CardinalityType DEF SessionsOK
<1> QED BY <1>2, <1>3 DEF SessionsOK, SessionGaugeCovers

LEMMA StickyStepInv ==
    ASSUME Inv, NEW t \in Threads, StickyLookup(t) \/ StickyStore(t)
    PROVE  Inv'
<1> USE DEF Places, Held
<1> DEFINE k == req[t].tok
<1>1. UNCHANGED <<conf, live, clock, left, hostPick, req, pl, spc, snow>>
      /\ UNCHANGED cycleVars /\ UNCHANGED ringVars
  BY DEF StickyLookup, StickyStore, PinFresh, world, sweepVars
<1>2. k \in Tokens /\ req[t] \in Requests /\ ip[t] \in IPs /\ clock \in Nat
  BY PickAssumption
  DEF Inv, TypeOK, WorldOK, ThreadsOK, StickyLookup, StickyStore, PinFresh, At, Sticky, Requests
<1>3. WorldOK' /\ SweeperOK'
  BY <1>1 DEF Inv, TypeOK, WorldOK, SweeperOK
<1>4. SessionsOK /\ SessionGaugeCovers
  BY DEF Inv, TypeOK
<1>5. SessionsOK' /\ SessionGaugeCovers'
  <2>1. CASE UNCHANGED sessionVars
    BY <2>1, <1>4, SessionsStutter
  <2>2. CASE StickyLookup(t) /\ ~(UNCHANGED sessionVars)
    BY <2>2, <1>2, <1>4, DropInv DEF StickyLookup, Expired
  <2>3. CASE StickyStore(t) /\ ~(UNCHANGED sessionVars)
    <3>1. [ip |-> ip[t], acct |-> req[t].acct, expire |-> clock + StickyTTL] \in Sessions
      BY <1>2, PickAssumption DEF Sessions, Requests
    <3> QED BY <2>3, <3>1, <1>2, <1>4, StoreInv DEF StickyStore, PinFresh
  <2> QED BY <2>1, <2>2, <2>3
<1>6. SharedOK'
  BY <1>1, <1>2, <1>5, StreamsStutter, RingStutter, InvParts DEF SharedOK
<1>7. PICK place \in {"idle", "fresh"} : Goto(t, place) /\ pc[t] \in Held /\ Unlock(t)
  BY DEF StickyLookup, StickyStore, PinFresh, Answer, At
<1>8. LockOK' /\ mu' \in Procs \union {Free} /\ pc' \in [Threads -> Places]
  BY <1>1, <1>7, LockMoves, InvParts
<1>9. ip' \in [Threads -> IPs]
  <2>1. sessions[k] # NoSession => sessions[k].ip \in IPs
    BY <1>2, <1>4 DEF SessionsOK, Sessions
  <2> QED BY <2>1, <1>2
      DEF Inv, TypeOK, ThreadsOK, StickyLookup, StickyStore, PinFresh, Answer, Owns, Pinned
<1>10. ThreadsOK'
  BY <1>1, <1>7, <1>8, <1>9 DEF Inv, TypeOK, ThreadsOK, Goto, Sticky
<1> QED BY <1>3, <1>6, <1>8, <1>10, InvPartsNext

LEMMA SweepSessionsInv ==
    ASSUME Inv, SweepSessions
    PROVE  Inv'
<1> DEFINE gone == {k \in Tokens : Expired(k, snow)}
<1>1. UNCHANGED <<conf, live, clock, left, hostPick, pc, req, ip, pl, snow>>
      /\ UNCHANGED cycleVars /\ UNCHANGED ringVars
  BY DEF SweepSessions, world, threadVars
<1>2. WorldOK' /\ SweeperOK' /\ clock \in Nat
  BY <1>1, PickAssumption DEF Inv, TypeOK, WorldOK, SweeperOK, SweepSessions, SweepPlaces
<1>3. PinnedTokens' = PinnedTokens \ gone /\ gone \subseteq PinnedTokens
  BY DEF Inv, TypeOK, SessionsOK, SweepSessions, PinnedTokens, Expired
<1>4. /\ IsFiniteSet(gone) /\ IsFiniteSet(PinnedTokens')
      /\ Cardinality(PinnedTokens) = Cardinality(PinnedTokens') + Cardinality(gone)
      /\ Cardinality(gone) \in Nat /\ Cardinality(PinnedTokens') \in Nat
  <2>1. IsFiniteSet(PinnedTokens)
    BY DEF Inv, TypeOK, SessionsOK
  <2>2. IsFiniteSet(gone) /\ IsFiniteSet(PinnedTokens')
    BY <2>1, <1>3, FS_Subset
  <2>3. PinnedTokens = PinnedTokens' \union gone /\ PinnedTokens' \cap gone = {}
    BY <1>3
  <2>4. /\ Cardinality(PinnedTokens' \union gone) =
             Cardinality(PinnedTokens') + Cardinality(gone) - Cardinality(PinnedTokens' \cap gone)
        /\ Cardinality({}) = 0
    BY <2>2, FS_Union, FS_EmptySet
  <2>5. Cardinality(gone) \in Nat /\ Cardinality(PinnedTokens') \in Nat
    BY <2>2, FS_CardinalityType
  <2>6. Cardinality(PinnedTokens) = Cardinality(PinnedTokens' \union gone)
    BY <2>3
  <2>7. Cardinality(PinnedTokens' \cap gone) = 0
    BY <2>3, <2>4
  <2> HIDE DEF gone
  <2> QED BY <2>2, <2>4, <2>5, <2>6, <2>7
<1>5. SessionsOK' /\ SessionGaugeCovers'
  <2>1. sessions' \in [Tokens -> Sessions \union {NoSession}]
    BY DEF Inv, TypeOK, SessionsOK, SweepSessions
  <2> QED BY <2>1, <1>4 DEF Inv, TypeOK, SessionsOK, SessionGaugeCovers, SweepSessions
<1>6. SharedOK'
  BY <1>1, <1>2, <1>5, StreamsStutter, RingStutter, InvParts DEF SharedOK
<1>7. ThreadsOK' /\ LockOK'
  BY <1>1, PickAssumption
  DEF Inv, TypeOK, ThreadsOK, LockOK, Sticky, SweepSessions, SweepHeld, Unlock, Procs
<1> QED BY <1>2, <1>6, <1>7, InvPartsNext

-----------------------------------------------------------------------------
(* Fresh picks and the cycles they draw from. *)

LEMMA RemainderBelow ==
    ASSUME NEW a \in Nat, NEW n \in Nat \ {0}
    PROVE  a % n \in 0..(n - 1)
  OBVIOUS

\* freshIP ends outside any critical section, with an address of the right type.
LEMMA FreshDoneInv ==
    ASSUME ThreadsOK, NEW t \in Threads, NEW a \in IPs, FreshDone(t, a), UNCHANGED <<req, pl>>,
           mu' \in Procs \union {Free}
    PROVE  /\ ThreadsOK'
           /\ \E place \in {"idle", "store"} : Goto(t, place)
  BY DEF ThreadsOK, FreshDone, Goto, Sticky, Places, Held

LEMMA FreshFromListInv ==
    ASSUME Inv, NEW t \in Threads, FreshFromList(t)
    PROVE  Inv'
<1> USE DEF Places, Held
<1> DEFINE n == Len(conf.hosts)
<1>1. UNCHANGED <<conf, live, clock, left, mu, req, pl, spc, snow>>
      /\ UNCHANGED sessionVars /\ UNCHANGED cycleVars /\ UNCHANGED ringVars
  BY DEF FreshFromList, world, sweepVars
<1>2. conf.hosts \in Seq(Addr) /\ n \in Nat \ {0} /\ hostPick \in Nat /\ clock \in Nat
  BY PickAssumption DEF Inv, TypeOK, WorldOK, ConfigType, FreshFromList
<1>3. hostPick' \in 0..(n - 1) /\ conf.hosts[hostPick' + 1] \in IPs
  <2>1. hostPick' \in 0..(n - 1)
    <3>1. hostPick' = (hostPick + 1) % n /\ hostPick + 1 \in Nat
      BY <1>2 DEF FreshFromList
    <3> HIDE DEF n
    <3> QED BY <3>1, <1>2, RemainderBelow
  <2> QED BY <2>1, <1>2 DEF IPs
<1>4. WorldOK' /\ SweeperOK'
  BY <1>1, <1>2, <1>3 DEF Inv, TypeOK, WorldOK, SweeperOK
<1>5. SharedOK'
  BY <1>1, <1>2, SessionsStutter, StreamsStutter, RingStutter, InvParts DEF SharedOK
<1>6. ThreadsOK' /\ \E place \in {"idle", "store"} : Goto(t, place)
  BY <1>1, <1>3, FreshDoneInv DEF FreshFromList, Inv, TypeOK, ThreadsOK
<1>7. LockOK'
  BY <1>1, <1>6, LockMoves, InvParts DEF FreshFromList, At
<1> QED BY <1>4, <1>5, <1>6, <1>7, InvPartsNext

LEMMA DrawSlicedInv ==
    ASSUME Inv, NEW t \in Threads, DrawSliced(t)
    PROVE  Inv'
<1> USE DEF Places, Held
<1>1. UNCHANGED <<conf, live, clock, left, hostPick, req, pl, spc, snow>>
      /\ UNCHANGED sessionVars /\ UNCHANGED cycleVars
  BY DEF DrawSliced, world, sweepVars
<1>2. PICK a \in Addr : FreshDone(t, a) /\ Record(a)
  BY PickAssumption DEF DrawSliced, Slice, Sliced, Inv, TypeOK, ThreadsOK
<1>3. WorldOK' /\ SweeperOK' /\ clock \in Nat
  BY <1>1, PickAssumption DEF Inv, TypeOK, WorldOK, SweeperOK
<1>4. RingInv'
  BY <1>2, RecordInv DEF Inv, TypeOK, RingInv
<1>5. SharedOK'
  BY <1>1, <1>3, <1>4, SessionsStutter, StreamsStutter, InvParts DEF SharedOK
<1>6. \/ pc[t] \in Held /\ Unlock(t)
      \/ pc[t] \notin Held /\ UNCHANGED mu
  BY DEF DrawSliced, At
<1>7. ThreadsOK' /\ \E place \in {"idle", "store"} : Goto(t, place)
  <2>1. mu' \in Procs \union {Free}
    BY <1>6 DEF Inv, TypeOK, ThreadsOK, Unlock
  <2> QED BY <1>1, <1>2, <2>1, FreshDoneInv DEF Inv, TypeOK, IPs
<1>8. LockOK'
  BY <1>1, <1>6, <1>7, LockMoves, InvParts
<1> QED BY <1>3, <1>5, <1>7, <1>8, InvPartsNext

\* backstopLocked's loop stops after at most MaxRedraws draws: at an address that is not in
\* the guard, or past the last draw; what it gives up is in the guard.
LEMMA RedrawsStop ==
    ASSUME NEW key, NEW p
    PROVE  LET r == Redraws(key, p)
           IN  /\ r \in 0..MaxRedraws
               /\ r = MaxRedraws \/ ~BrHit(Ahead(key, p, r))
               /\ \A i \in 0..(r - 1) : BrHit(Ahead(key, p, i))
<1> DEFINE Stops(r) == /\ r = MaxRedraws \/ ~BrHit(Ahead(key, p, r))
                       /\ \A i \in 0..(r - 1) : BrHit(Ahead(key, p, i))
<1>1. \E r \in 0..MaxRedraws : Stops(r)
  <2>1. CASE ~BrHit(Ahead(key, p, 0))
    BY <2>1 DEF MaxRedraws
  <2>2. CASE BrHit(Ahead(key, p, 0)) /\ ~BrHit(Ahead(key, p, 1))
    <3>1. Stops(1)
      BY <2>2
    <3> QED BY <3>1 DEF MaxRedraws
  <2>3. CASE BrHit(Ahead(key, p, 0)) /\ BrHit(Ahead(key, p, 1)) /\ ~BrHit(Ahead(key, p, 2))
    <3>1. Stops(2)
      <4>1. \A i \in 0..(2 - 1) : i = 0 \/ i = 1
        OBVIOUS
      <4> QED BY <2>3, <4>1
    <3> QED BY <3>1 DEF MaxRedraws
  <2>4. CASE BrHit(Ahead(key, p, 0)) /\ BrHit(Ahead(key, p, 1)) /\ BrHit(Ahead(key, p, 2))
    <3>1. Stops(3)
      <4>1. \A i \in 0..(3 - 1) : i = 0 \/ i = 1 \/ i = 2
        OBVIOUS
      <4> QED BY <2>4, <4>1 DEF MaxRedraws
    <3> QED BY <3>1 DEF MaxRedraws
  <2> QED BY <2>1, <2>2, <2>3, <2>4
<1>2. Redraws(key, p) = CHOOSE r \in 0..MaxRedraws : Stops(r)
  BY DEF Redraws
<1> HIDE DEF Stops
<1>3. Redraws(key, p) \in 0..MaxRedraws /\ Stops(Redraws(key, p))
  BY <1>1, <1>2
<1> QED BY <1>3 DEF Stops

\* An address of a cycle is an address.
LEMMA AheadIsAddr ==
    ASSUME NEW key \in Keys, NEW p \in Nat, NEW i \in Nat
    PROVE  Ahead(key, p, i) \in Addr
<1>1. CycleOf[key] \in Seq(Addr) /\ CycleOf[key] # <<>>
  BY PickAssumption
<1>2. Len(CycleOf[key]) \in Nat \ {0}
  BY <1>1
<1>3. (p + i) % Len(CycleOf[key]) \in 0..(Len(CycleOf[key]) - 1)
  <2> DEFINE n == Len(CycleOf[key])
  <2>1. n \in Nat \ {0} /\ p + i \in Nat
    BY <1>2
  <2>2. (p + i) % n \in 0..(n - 1)
    <3> HIDE DEF n
    <3> QED BY <2>1, RemainderBelow
  <2> QED BY <2>2
<1> QED BY <1>1, <1>2, <1>3 DEF Ahead

\* Making room for a cycle leaves at most StreamMax tracked ones, the new one among them.
LEMMA TrackedBounded ==
    ASSUME StreamsOK, StreamsBounded, NEW key \in Keys, NEW K \in TrackedFor(key)
    PROVE  /\ K \subseteq Keys /\ key \in K /\ K \subseteq DOMAIN streams \union {key}
           /\ IsFiniteSet(K) /\ Cardinality(K) \in 0..StreamMax
           /\ key \in DOMAIN streams => K = DOMAIN streams
<1> DEFINE D == DOMAIN streams
<1>1. IsFiniteSet(D) /\ D \subseteq Keys /\ Cardinality(D) <= StreamMax /\ Cardinality(D) \in Nat
  BY FS_CardinalityType DEF StreamsOK, StreamsBounded
<1>2. CASE key \in D
  BY <1>1, <1>2 DEF TrackedFor
<1>3. CASE key \notin D
  <2>1. PICK kept : /\ K = kept \union {key}
                    /\ kept \in IF Cardinality(D) >= StreamMax
                                THEN LeftAfterEviction(D, StreamMax - 1) ELSE {D}
    BY <1>3 DEF TrackedFor
  <2>2. kept \subseteq D /\ Cardinality(kept) <= StreamMax - 1
    BY <2>1, <1>1, PickAssumption DEF LeftAfterEviction
  <2>3. IsFiniteSet(kept) /\ Cardinality(kept) \in Nat
    BY <2>2, <1>1, FS_Subset, FS_CardinalityType
  <2>4. IsFiniteSet(K) /\ Cardinality(K) = Cardinality(kept) + 1
    BY <2>1, <2>2, <2>3, <1>3, FS_AddElement
  <2> QED BY <1>1, <1>3, <2>1, <2>2, <2>3, <2>4, PickAssumption
<1> QED BY <1>2, <1>3

LEMMA DrawCycleInv ==
    ASSUME Inv, NEW t \in Threads, DrawCycle(t)
    PROVE  Inv'
<1> USE DEF Places, Held
<1> DEFINE key == <<req[t].acct, req[t].dest, pl[t]>>
           p == IF key \in DOMAIN streams THEN streams[key].pos ELSE 0
           r == Redraws(key, p)
           n == Len(CycleOf[key])
<1>1. UNCHANGED <<conf, live, clock, left, hostPick, req, pl, spc, snow>>
      /\ UNCHANGED sessionVars
  BY DEF DrawCycle, world, sweepVars
<1>2. key \in Keys
  BY DEF Inv, TypeOK, ThreadsOK, Requests, Keys
<1>3. n \in Nat \ {0} /\ p \in Nat /\ r \in 0..MaxRedraws
  BY <1>2, RedrawsStop, PickAssumption DEF Inv, TypeOK, StreamsOK
<1>4. Ahead(key, p, r) \in Addr
  BY <1>2, <1>3, AheadIsAddr DEF MaxRedraws
<1>5. PICK K \in TrackedFor(key) :
        /\ streams' = [k \in K |->
             IF k = key THEN [pos |-> (p + r + 1) % n, lastSeen |-> clock] ELSE streams[k]]
        /\ hostsCur' = IF key \in DOMAIN streams THEN hostsCur ELSE Cardinality(K)
  BY DEF DrawCycle
<1>6. Record(Ahead(key, p, r)) /\ FreshDone(t, Ahead(key, p, r)) /\ picksTotal' = picksTotal + 1
      /\ pc[t] \in Held /\ Unlock(t)
  BY DEF DrawCycle, At
<1> HIDE DEF key, p, r, n
<1>7. WorldOK' /\ SweeperOK' /\ clock \in Nat
  BY <1>1, PickAssumption DEF Inv, TypeOK, WorldOK, SweeperOK
<1>8. StreamsOK' /\ StreamsBounded'
  <2>1. StreamsOK /\ StreamsBounded
    BY DEF Inv, TypeOK
  <2>2. /\ K \subseteq Keys /\ key \in K /\ K \subseteq DOMAIN streams \union {key}
        /\ IsFiniteSet(K) /\ Cardinality(K) \in 0..StreamMax
        /\ key \in DOMAIN streams => K = DOMAIN streams
    BY <2>1, <1>2, TrackedBounded
  <2>3. DOMAIN streams' = K
    BY <1>5
  <2>4. hostsCur' = Cardinality(K)
    BY <1>5, <2>1, <2>2 DEF StreamsBounded
  <2>5. ASSUME NEW k \in K
        PROVE  streams'[k] \in [pos : 0..(Len(CycleOf[k]) - 1), lastSeen : 0..clock]
    <3>1. CASE k = key
      <4>1. (p + r + 1) % n \in 0..(n - 1)
        BY <1>3 DEF MaxRedraws
      <4>2. streams'[k] = [pos |-> (p + r + 1) % n, lastSeen |-> clock]
        BY <1>5, <3>1
      <4> QED BY <4>1, <4>2, <3>1, <1>7 DEF n
    <3>2. CASE k # key
      BY <3>2, <2>1, <2>2, <1>5 DEF StreamsOK
    <3> QED BY <3>1, <3>2
  <2>6. hostsCur' \in Nat /\ hostsCur' <= StreamMax /\ picksTotal' \in Nat
    BY <2>1, <2>2, <2>4, <1>6, PickAssumption DEF StreamsOK
  <2> QED BY <2>2, <2>3, <2>4, <2>5, <2>6, <1>1 DEF StreamsOK, StreamsBounded
<1>9. RingInv'
  BY <1>4, <1>6, RecordInv DEF Inv, TypeOK, RingInv
<1>10. SharedOK'
  BY <1>1, <1>8, <1>9, SessionsStutter, InvParts DEF SharedOK
<1>11. ThreadsOK' /\ \E place \in {"idle", "store"} : Goto(t, place)
  BY <1>1, <1>4, <1>6, FreshDoneInv DEF Inv, TypeOK, IPs, Unlock
<1>12. LockOK'
  BY <1>1, <1>6, <1>11, LockMoves, InvParts
<1> QED BY <1>7, <1>10, <1>11, <1>12, InvPartsNext

LEMMA SweepStreamsInv ==
    ASSUME Inv, SweepStreams
    PROVE  Inv'
<1> DEFINE fresh == {k \in DOMAIN streams : clock - streams[k].lastSeen <= HostIdleTTL}
<1>1. UNCHANGED <<conf, live, clock, left, hostPick, pc, req, ip, pl, snow, picksTotal>>
      /\ UNCHANGED sessionVars /\ UNCHANGED ringVars
  BY DEF SweepStreams, world, threadVars
<1>2. WorldOK' /\ SweeperOK'
  BY <1>1 DEF Inv, TypeOK, WorldOK, SweeperOK, SweepStreams, SweepPlaces
<1>3. PICK K : /\ K \in IF Cardinality(fresh) > StreamMax
                        THEN LeftAfterEviction(fresh, StreamMax) ELSE {fresh}
               /\ streams' = [k \in K |-> streams[k]]
               /\ hostsCur' = Cardinality(K)
  BY DEF SweepStreams
<1>4. K \subseteq DOMAIN streams
  BY <1>3 DEF LeftAfterEviction
<1>5. IsFiniteSet(K) /\ Cardinality(K) \in Nat /\ Cardinality(K) <= StreamMax
  <2>1. IsFiniteSet(DOMAIN streams) /\ Cardinality(DOMAIN streams) <= StreamMax
        /\ Cardinality(DOMAIN streams) \in Nat
    BY FS_CardinalityType DEF Inv, TypeOK, StreamsOK, StreamsBounded
  <2>2. IsFiniteSet(K) /\ Cardinality(K) <= Cardinality(DOMAIN streams) /\ Cardinality(K) \in Nat
    BY <2>1, <1>4, FS_Subset, FS_CardinalityType
  <2> QED BY <2>1, <2>2, PickAssumption
<1>6. StreamsOK' /\ StreamsBounded'
  BY <1>1, <1>3, <1>4, <1>5 DEF Inv, TypeOK, StreamsOK, StreamsBounded
<1>7. SharedOK'
  BY <1>1, <1>6, SessionsStutter, RingStutter, InvParts DEF SharedOK
<1>8. ThreadsOK' /\ LockOK'
  BY <1>1, PickAssumption
  DEF Inv, TypeOK, ThreadsOK, LockOK, Sticky, SweepStreams, SweepHeld, Unlock, Procs
<1> QED BY <1>2, <1>7, <1>8, InvPartsNext

LEMMA PickStep == Inv /\ [Next]_vars => Inv'
<1> SUFFICES ASSUME Inv, [Next]_vars PROVE Inv'
  OBVIOUS
<1>1. ASSUME NEW t \in Threads, Request(t) PROVE Inv'
  BY <1>1, RequestInv
<1>2. ASSUME NEW t \in Threads, Step(t) PROVE Inv'
  BY <1>2, QuietStepInv, StickyStepInv, FreshFromListInv, DrawSlicedInv, DrawCycleInv DEF Step
<1>3. ASSUME NEW t \in Threads, GetLock(t) PROVE Inv'
  BY <1>3, AcquireInv DEF GetLock
<1>4. CASE Sweep \/ SweepLock \/ Tick \/ Roam
  BY <1>4, WorldStepInv, SweepSessionsInv, SweepStreamsInv DEF Sweep
<1>5. CASE UNCHANGED vars
  <2>1. /\ UNCHANGED <<conf, live, clock, left, hostPick, mu, pc, req, ip, pl, spc, snow>>
        /\ UNCHANGED shared
    BY <1>5 DEF vars, world, shared, threadVars, sweepVars
  <2>2. WorldOK' /\ ThreadsOK' /\ SweeperOK' /\ LockOK' /\ clock \in Nat
    BY <2>1, PickAssumption DEF Inv, TypeOK, WorldOK, ThreadsOK, SweeperOK, LockOK, Sticky
  <2>3. SharedOK'
    BY <2>1, <2>2, SharedStutter, InvParts
  <2> QED BY <2>2, <2>3, InvPartsNext
<1> QED BY <1>1, <1>2, <1>3, <1>4, <1>5 DEF Next

\* SourcePick is type-correct, for every value of the constants.
THEOREM PickTypeCorrect == Spec => []TypeOK
<1>1. Inv => TypeOK
  BY DEF Inv
<1> QED BY <1>1, PickInit, PickStep, PTL DEF Spec

\* mu is held exactly by the process inside a critical section: stickyIP releases it
\* before freshIP takes it, and every section gives it back (proxy.go:407-436).
THEOREM PickLockDiscipline == Spec => []LockOK
<1>1. Inv => LockOK
  BY DEF Inv
<1> QED BY <1>1, PickInit, PickStep, PTL DEF Spec

\* At most one process is inside a critical section.
THEOREM PickMutualExclusion ==
    Spec => [](\A t, u \in Threads : pc[t] \in Held /\ pc[u] \in Held => t = u)
<1>1. Inv => \A t, u \in Threads : pc[t] \in Held /\ pc[u] \in Held => t = u
  BY DEF Inv, LockOK
<1> QED BY <1>1, PickInit, PickStep, PTL DEF Spec

\* The guard's map and ring agree whichever handlers record into it, under whatever
\* interleaving (proxy.go:361-381).
THEOREM PickRingOK == Spec => []RingOK
<1>1. Inv => RingOK
  BY DEF Inv
<1> QED BY <1>1, PickInit, PickStep, PTL DEF Spec

\* avoid_hosts_max bounds the tracked cycles and the gauge counts them (proxy.go:319-346,
\* 462-477), for every cap and any number of handlers.
THEOREM PickStreamsBounded == Spec => []StreamsBounded
<1>1. Inv => StreamsBounded
  BY DEF Inv
<1> QED BY <1>1, PickInit, PickStep, PTL DEF Spec

\* The session gauge is never below the number of sessions (proxy.go:407-455).
THEOREM PickGaugeCovers == Spec => []SessionGaugeCovers
<1>1. Inv => SessionGaugeCovers
  BY DEF Inv
<1> QED BY <1>1, PickInit, PickStep, PTL DEF Spec

\* No request of the account that pinned a token, and no sweep, changes the pin before it
\* expires: stickyIP looks again after its unlocked pick (proxy.go:422-426), and a sweep
\* compares with a time that is not later than now (proxy.go:447-451).
THEOREM PickPinKeptByOwner == Spec => PinKeptByOwner
<1> DEFINE Kept == \A k \in Tokens :
             Pinned(k) /\ sessions'[k] # sessions[k] =>
                 sessions'[k] # NoSession /\ sessions'[k].acct # sessions[k].acct
<1>1. Inv /\ [Next]_vars => [Kept]_vars
  <2> SUFFICES ASSUME Inv, Next, NEW k \in Tokens, Pinned(k), sessions'[k] # sessions[k]
               PROVE  sessions'[k] # NoSession /\ sessions'[k].acct # sessions[k].acct
    BY DEF Kept
  <2>1. sessions \in [Tokens -> Sessions \union {NoSession}] /\ clock \in Nat /\ snow \in Nat
        /\ snow <= clock /\ sessions[k] \in Sessions
    BY PickAssumption DEF Inv, TypeOK, SessionsOK, SweeperOK, WorldOK, Pinned
  <2>2. ~Expired(k, clock) /\ ~Expired(k, snow)
    BY <2>1 DEF Pinned, Expired, Sessions
  <2>3. ASSUME NEW t \in Threads, StickyStore(t)
        PROVE  sessions'[k] # NoSession /\ sessions'[k].acct # sessions[k].acct
    <3>1. req[t].tok = k /\ ~Owns(t, k) /\ req[t] \in Requests /\ ip[t] \in IPs
      BY <2>1, <2>3 DEF StickyStore, PinFresh, Inv, TypeOK, ThreadsOK, sessionVars
    <3>2. sessions'[k] = [ip |-> ip[t], acct |-> req[t].acct, expire |-> clock + StickyTTL]
      BY <2>1, <2>3, <3>1 DEF StickyStore, PinFresh
    <3>3. sessions'[k] \in Sessions
      BY <3>1, <3>2, <2>1, PickAssumption DEF Sessions, Requests
    <3> QED BY <3>1, <3>2, <3>3, PickAssumption DEF Owns
  <2>4. ASSUME NEW t \in Threads, StickyLookup(t) PROVE FALSE
    BY <2>1, <2>2, <2>4 DEF StickyLookup, sessionVars
  <2>5. CASE SweepSessions
    BY <2>1, <2>2, <2>5 DEF SweepSessions
  <2>6. ASSUME NEW t \in Threads, Request(t) \/ GetLock(t) PROVE FALSE
    BY <2>6 DEF Request, GetLock, StickyLock, StickyRelock, DrawLock, Acquire, shared, sessionVars
  <2>7. ASSUME NEW t \in Threads, Step(t), ~StickyStore(t), ~StickyLookup(t) PROVE FALSE
    BY <2>7 DEF Step, PickFixed, PickIface, PickOn, FreshFromList, FreshNoPool, FreshFromPool,
                DrawSliced, DrawCycle, shared, sessionVars
  <2>8. CASE Tick \/ Roam \/ SweepBegin \/ SweepLock \/ SweepStreams
    BY <2>8 DEF Tick, Roam, SweepBegin, SweepLock, SweepStreams, shared, sessionVars
  <2> QED BY <2>3, <2>4, <2>5, <2>6, <2>7, <2>8 DEF Next, Sweep
<1> QED BY <1>1, PickInit, PickStep, PTL DEF Spec, PinKeptByOwner

-----------------------------------------------------------------------------
(* What the steps do to one thread and to the guard. *)

\* What a full-pool pick draws and where it leaves its cycle.
LEMMA DrawnFrom ==
    ASSUME Inv, NEW t \in Threads, DrawCycle(t)
    PROVE  LET key == <<req[t].acct, req[t].dest, pl[t]>>
               p == IF key \in DOMAIN streams THEN streams[key].pos ELSE 0
               r == Redraws(key, p)
           IN  /\ key \in Keys /\ p \in 0..(Len(CycleOf[key]) - 1) /\ r \in 0..MaxRedraws
               /\ Ahead(key, p, r) \in Addr /\ ip'[t] = Ahead(key, p, r) /\ Record(ip'[t])
<1> DEFINE key == <<req[t].acct, req[t].dest, pl[t]>>
           p == IF key \in DOMAIN streams THEN streams[key].pos ELSE 0
           r == Redraws(key, p)
<1>1. key \in Keys
  BY DEF Inv, TypeOK, ThreadsOK, Requests, Keys
<1>2. Len(CycleOf[key]) \in Nat \ {0} /\ p \in 0..(Len(CycleOf[key]) - 1)
  BY <1>1, PickAssumption DEF Inv, TypeOK, StreamsOK
<1>3. r \in 0..MaxRedraws /\ p \in Nat /\ r \in Nat
  BY <1>2, RedrawsStop DEF MaxRedraws
<1>4. Ahead(key, p, r) \in Addr
  BY <1>1, <1>3, AheadIsAddr
<1>5. ip' = [ip EXCEPT ![t] = Ahead(key, p, r)] /\ Record(Ahead(key, p, r))
  BY DEF DrawCycle, FreshDone
<1>6. ip'[t] = Ahead(key, p, r)
  BY <1>5 DEF Inv, TypeOK, ThreadsOK
<1> HIDE DEF key, p, r
<1>7. key \in Keys /\ p \in 0..(Len(CycleOf[key]) - 1) /\ r \in 0..MaxRedraws
      /\ Ahead(key, p, r) \in Addr /\ ip'[t] = Ahead(key, p, r) /\ Record(ip'[t])
  BY <1>1, <1>2, <1>3, <1>4, <1>5, <1>6
<1> QED BY <1>7 DEF key, p, r

\* Only its own step moves a thread.
LEMMA OnlyOwnStep ==
    ASSUME Inv, [Next]_vars, NEW t \in Threads, pc'[t] # pc[t]
    PROVE  Request(t) \/ Step(t) \/ GetLock(t)
<1> SUFFICES ASSUME Next PROVE Request(t) \/ Step(t) \/ GetLock(t)
  BY DEF vars, threadVars
<1>1. pc \in [Threads -> Places]
  BY DEF Inv, TypeOK, ThreadsOK
<1>2. ASSUME NEW u \in Threads, Request(u) \/ GetLock(u) PROVE u = t
  BY <1>1, <1>2 DEF Request, GetLock, StickyLock, StickyRelock, DrawLock, Acquire, Goto
<1>3. ASSUME NEW u \in Threads, Step(u) PROVE u = t
  <2>1. \E place : Goto(u, place)
    BY <1>3 DEF Step, PickFixed, PickIface, PickOn, StickyLookup, StickyStore, PinFresh, FreshFromList,
                FreshNoPool, FreshFromPool, DrawSliced, DrawCycle, Answer, FreshDone
  <2> QED BY <1>1, <2>1 DEF Goto
<1>4. CASE Sweep \/ SweepLock \/ Tick \/ Roam
  BY <1>4 DEF Sweep, SweepBegin, SweepSessions, SweepStreams, SweepLock, Tick, Roam, threadVars
<1> QED BY <1>2, <1>3, <1>4 DEF Next

\* A thread that leaves drawHeld for a full-pool pick has done DrawCycle.
LEMMA DrawIsDrawCycle ==
    ASSUME Inv, [Next]_vars, NEW t \in Threads, At(t, "drawHeld"), ~Sliced(t), pc'[t] # "drawHeld"
    PROVE  DrawCycle(t)
<1>1. Request(t) \/ Step(t) \/ GetLock(t)
  BY OnlyOwnStep DEF At
<1> QED BY <1>1 DEF Request, GetLock, StickyLock, StickyRelock, DrawLock, Acquire, Step, At,
                    PickFixed, PickIface, PickOn, StickyLookup, StickyStore, FreshFromList,
                    FreshNoPool, FreshFromPool, DrawSliced

\* A sticky request that leaves a section of stickyIP is answered with its token's pin
\* (proxy.go:407-436), for any number of racing requests and tokens.
THEOREM PickAnswerIsThePin == Spec => AnswerIsThePin
<1> DEFINE IsPin == \A t \in Threads :
             pc[t] \in {"lookupHeld", "storeHeld"} /\ pc'[t] = "idle" =>
                 /\ sessions'[req[t].tok].ip = ip'[t]
                 /\ sessions'[req[t].tok].acct = req[t].acct
<1>1. Inv /\ [Next]_vars => [IsPin]_vars
  <2> SUFFICES ASSUME Inv, [Next]_vars, NEW t \in Threads,
                      pc[t] \in {"lookupHeld", "storeHeld"}, pc'[t] = "idle"
               PROVE  /\ sessions'[req[t].tok].ip = ip'[t]
                      /\ sessions'[req[t].tok].acct = req[t].acct
    BY DEF IsPin
  <2> DEFINE k == req[t].tok
  <2>1. Request(t) \/ Step(t) \/ GetLock(t)
    BY OnlyOwnStep
  <2>2. StickyLookup(t) \/ StickyStore(t)
    BY <2>1 DEF Request, GetLock, StickyLock, StickyRelock, DrawLock, Acquire, Step, At,
                PickFixed, PickIface, PickOn, FreshFromList, FreshNoPool, FreshFromPool,
                DrawSliced, DrawCycle
  <2>3. /\ sessions \in [Tokens -> Sessions \union {NoSession}] /\ pc \in [Threads -> Places]
        /\ ip \in [Threads -> IPs] /\ k \in Tokens
    BY DEF Inv, TypeOK, SessionsOK, ThreadsOK, Sticky, Requests
  <2>4. CASE Owns(t, k) /\ Answer(t, sessions[k].ip) /\ sessions' = sessions
    BY <2>3, <2>4 DEF Owns, Answer
  <2>5. CASE PinFresh(t, k)
    BY <2>3, <2>5 DEF PinFresh, Answer
  <2>6. CASE StickyLookup(t) /\ ~Owns(t, k)
    BY <2>3, <2>6 DEF StickyLookup, Goto
  <2> QED BY <2>2, <2>4, <2>5, <2>6 DEF StickyLookup, StickyStore, sessionVars
<1> QED BY <1>1, PickInit, PickStep, PTL DEF Spec, AnswerIsThePin

\* A step leaves the guard as it is or records one address in it.
LEMMA StepRecords ==
    ASSUME Inv, [Next]_vars
    PROVE  UNCHANGED ringVars \/ \E a \in Addr : Record(a)
<1>1. CASE UNCHANGED vars \/ Sweep \/ SweepLock \/ Tick \/ Roam
  BY <1>1 DEF vars, shared, Sweep, SweepBegin, SweepSessions, SweepStreams, SweepLock, Tick, Roam
<1>2. ASSUME NEW t \in Threads, Request(t) \/ GetLock(t) PROVE UNCHANGED ringVars
  BY <1>2 DEF Request, GetLock, StickyLock, StickyRelock, DrawLock, Acquire, shared
<1>3. ASSUME NEW t \in Threads, DrawSliced(t) PROVE \E a \in Addr : Record(a)
  BY <1>3, PickAssumption DEF DrawSliced, Slice, Sliced, Inv, TypeOK, ThreadsOK
<1>4. ASSUME NEW t \in Threads, DrawCycle(t) PROVE \E a \in Addr : Record(a)
  BY <1>4, DrawnFrom
<1>5. ASSUME NEW t \in Threads, Step(t), ~DrawSliced(t), ~DrawCycle(t) PROVE UNCHANGED ringVars
  BY <1>5 DEF Step, PickFixed, PickIface, PickOn, StickyLookup, StickyStore, FreshFromList,
              FreshNoPool, FreshFromPool, shared
<1> QED BY <1>1, <1>2, <1>3, <1>4, <1>5 DEF Next

\* Whatever handlers, redraws and sweeps do, the guard they share is the window of the last
\* avoid_recent distinct addresses (proxy.go:361-381).
THEOREM PickImplementsWindow == Spec => ImplementsWindow
<1>1. Init => W!WindowInit
  BY RingStartsEmpty DEF Init
<1>2. Inv /\ [Next]_vars => [W!WindowNext]_Window
  <2>1. UNCHANGED ringVars => UNCHANGED Window
    BY DEF ringVars, Window
  <2>2. Inv => RingInv
    BY DEF Inv, TypeOK, RingInv
  <2> QED BY <2>1, <2>2, StepRecords, RecordIsWindow
<1> QED BY <1>1, <1>2, PickInit, PickStep, PTL DEF Spec, ImplementsWindow, W!WindowSpec

-----------------------------------------------------------------------------
(* Positions of a cycle less than a lap apart hold different addresses. *)
LEMMA WithinALap ==
    ASSUME NEW n \in Nat \ {0}, NEW x \in Int, NEW y \in Int, x % n = y % n, x < y
    PROVE  y - x >= n
<1> DEFINE p == x \div n
           q == y \div n
           e == x % n
<1>1. p \in Int /\ q \in Int /\ e \in Int
  OBVIOUS
<1>2. x = n * p + e
  OBVIOUS
<1>3. y = n * q + (y % n)
  OBVIOUS
<1>4. y = n * q + e
  BY <1>3
<1> HIDE DEF p, q, e
<1>5. y - x = n * (q - p)
  BY <1>1, <1>2, <1>4
<1>6. q - p > 0
  BY <1>1, <1>2, <1>4
<1> QED BY <1>1, <1>5, <1>6

\* The place of the address i positions ahead of p on the cycle of key.
PlaceAhead(key, p, i) == (p + i) % Len(CycleOf[key])

LEMMA CycleRepeats ==
    ASSUME NEW key \in Keys, NEW p \in Nat, NEW i \in Nat, NEW q \in Nat, NEW j \in Nat,
           Ahead(key, p, i) = Ahead(key, q, j)
    PROVE  PlaceAhead(key, p, i) = PlaceAhead(key, q, j)
<1> DEFINE n == Len(CycleOf[key])
           x == (p + i) % n
           y == (q + j) % n
<1>1. n \in Nat \ {0} /\ DOMAIN CycleOf[key] = 1..n
  BY PickAssumption
<1>2. x \in 0..(n - 1) /\ y \in 0..(n - 1)
  <2>1. p + i \in Nat /\ q + j \in Nat
    OBVIOUS
  <2> HIDE DEF n
  <2> QED BY <1>1, <2>1, RemainderBelow
<1>3. CycleOf[key][x + 1] = CycleOf[key][y + 1]
  BY DEF Ahead
<1> HIDE DEF x, y
<1>4. x + 1 \in DOMAIN CycleOf[key] /\ y + 1 \in DOMAIN CycleOf[key]
  <2> HIDE DEF n
  <2> QED BY <1>1, <1>2
<1>5. x + 1 = y + 1
  BY <1>3, <1>4, PickAssumption
<1>6. x = y
  BY <1>2, <1>5
<1> QED BY <1>6 DEF x, y, PlaceAhead

LEMMA DifferentAhead ==
    ASSUME NEW key \in Keys, NEW p \in Nat, NEW i \in Nat, NEW j \in Nat, i < j,
           j < Len(CycleOf[key])
    PROVE  Ahead(key, p, i) # Ahead(key, p, j)
<1> SUFFICES ASSUME Ahead(key, p, i) = Ahead(key, p, j) PROVE FALSE
  OBVIOUS
<1>0. PlaceAhead(key, p, i) = PlaceAhead(key, p, j)
  BY CycleRepeats
<1> DEFINE n == Len(CycleOf[key])
<1>1. n \in Nat \ {0}
  BY PickAssumption
<1>2. (p + i) % n = (p + j) % n
  BY <1>0 DEF PlaceAhead
<1>3. (p + j) - (p + i) >= n
  <2>1. p + i \in Int /\ p + j \in Int /\ p + i < p + j
    OBVIOUS
  <2> HIDE DEF n
  <2> QED BY <1>1, <1>2, <2>1, WithinALap
<1> QED BY <1>1, <1>3

\* The addresses of a cycle.
LEMMA CycleAddresses ==
    ASSUME NEW key \in Keys
    PROVE  /\ IsFiniteSet(Range(CycleOf[key]))
           /\ \A a \in Range(CycleOf[key]) : \E j \in 1..Len(CycleOf[key]) : a = CycleOf[key][j]
           /\ \A p, i \in Nat : Ahead(key, p, i) \in Range(CycleOf[key])
<1> DEFINE n == Len(CycleOf[key])
<1>1. n \in Nat \ {0} /\ DOMAIN CycleOf[key] = 1..n
  BY PickAssumption
<1>2. CycleOf[key] \in Surjection(1..n, Range(CycleOf[key]))
  BY <1>1, PickAssumption DEF Surjection, Range
<1>3. IsFiniteSet(Range(CycleOf[key]))
  <2>1. IsFiniteSet(1..n)
    BY <1>1, FS_Interval
  <2> QED BY <1>2, <2>1, FS_Surjection
<1>4. ASSUME NEW p \in Nat, NEW i \in Nat PROVE Ahead(key, p, i) \in Range(CycleOf[key])
  <2>1. p + i \in Nat
    OBVIOUS
  <2> HIDE DEF n
  <2>2. (p + i) % n \in 0..(n - 1)
    BY <1>1, <2>1, RemainderBelow
  <2>3. ((p + i) % n) + 1 \in DOMAIN CycleOf[key]
    BY <1>1, <2>2
  <2> QED BY <2>3 DEF Ahead, Range, n
<1> QED BY <1>1, <1>3, <1>4 DEF Range

\* Four draws reach all of a cycle of no more than three addresses.
LEMMA ReachAll ==
    ASSUME NEW key \in Keys, NEW p \in 0..(Len(CycleOf[key]) - 1), Len(CycleOf[key]) <= 3,
           NEW a \in Range(CycleOf[key])
    PROVE  \E i \in 0..3 : a = Ahead(key, p, i)
<1> DEFINE n == Len(CycleOf[key])
<1>1. n \in {1, 2, 3} /\ p \in {0, 1, 2} /\ p < n
  <2>1. n \in Nat \ {0} /\ n <= 3 /\ p \in 0..(n - 1)
    BY PickAssumption
  <2> HIDE DEF n
  <2> QED BY <2>1
<1>2. PICK j \in 1..n : a = CycleOf[key][j]
  BY CycleAddresses
<1> HIDE DEF n
<1>3. \E i \in 0..3 : ((p + i) % n) + 1 = j
  <2>1. j \in {1, 2, 3} /\ j <= n
    BY <1>1
  <2>2. CASE n = 1
    <3>1. ((p + 0) % n) + 1 = j
      BY <1>1, <2>1, <2>2
    <3> QED BY <3>1
  <2>3. CASE n = 2
    <3>1. ((p + 0) % n) + 1 = j \/ ((p + 1) % n) + 1 = j
      BY <1>1, <2>1, <2>3
    <3> QED BY <3>1
  <2>4. CASE n = 3
    <3>1. ((p + 0) % n) + 1 = j \/ ((p + 1) % n) + 1 = j \/ ((p + 2) % n) + 1 = j
      BY <1>1, <2>1, <2>4
    <3> QED BY <3>1
  <2> QED BY <1>1, <2>2, <2>3, <2>4
<1> QED BY <1>2, <1>3 DEF Ahead, n

\* Four different addresses are more than three.
LEMMA FourAreMore ==
    ASSUME NEW S, IsFiniteSet(S), NEW a \in S, NEW b \in S, NEW c \in S, NEW d \in S,
           a # b, a # c, a # d, b # c, b # d, c # d
    PROVE  Cardinality(S) > 3
<1>1. IsFiniteSet({a}) /\ Cardinality({a}) = 1
  BY FS_Singleton
<1>2. IsFiniteSet({a} \union {b}) /\ Cardinality({a} \union {b}) = 2
  BY <1>1, FS_AddElement
<1> DEFINE T == {a} \union {b} \union {c}
<1>3. IsFiniteSet(T) /\ Cardinality(T) = 3
  BY <1>2, FS_AddElement
<1>4. IsFiniteSet(T \union {d}) /\ Cardinality(T \union {d}) = 4
  BY <1>3, FS_AddElement
<1>5. Cardinality(T \union {d}) <= Cardinality(S) /\ Cardinality(S) \in Nat
  BY FS_Subset, FS_CardinalityType
<1> QED BY <1>4, <1>5

\* For any depth of the guard and any cycles, whatever other handlers' picks put into it:
\* a pick from a cycle repeats a recent address only where four draws could not avoid it
\* (proxy.go:361-381).
THEOREM PickCrossStreamFresh == Spec => CrossStreamFresh
<1> DEFINE Fresh == \A t \in Threads :
             At(t, "drawHeld") /\ ~Sliced(t) /\ pc'[t] # "drawHeld" /\ ip'[t] \in brMap =>
                 LET cycle == Range(CycleOf[<<req[t].acct, req[t].dest, pl[t]>>])
                 IN  \/ cycle \subseteq brMap
                     \/ Cardinality(cycle \intersect brMap) > MaxRedraws
<1>1. Inv /\ [Next]_vars => [Fresh]_vars
  <2> SUFFICES ASSUME Inv, [Next]_vars, NEW t \in Threads,
                      At(t, "drawHeld"), ~Sliced(t), pc'[t] # "drawHeld", ip'[t] \in brMap
               PROVE  LET cycle == Range(CycleOf[<<req[t].acct, req[t].dest, pl[t]>>])
                      IN  \/ cycle \subseteq brMap
                          \/ Cardinality(cycle \intersect brMap) > MaxRedraws
    BY DEF Fresh
  <2> DEFINE key == <<req[t].acct, req[t].dest, pl[t]>>
             p == IF key \in DOMAIN streams THEN streams[key].pos ELSE 0
             r == Redraws(key, p)
             cycle == Range(CycleOf[key])
  <2>1. DrawCycle(t)
    BY DrawIsDrawCycle
  <2>2. key \in Keys /\ p \in 0..(Len(CycleOf[key]) - 1) /\ ip'[t] = Ahead(key, p, r)
    BY <2>1, DrawnFrom
  <2>3. p \in Nat /\ Len(CycleOf[key]) \in Nat
    BY <2>2, PickAssumption
  <2>4. /\ r \in 0..MaxRedraws
        /\ r = MaxRedraws \/ ~BrHit(Ahead(key, p, r))
        /\ \A i \in 0..(r - 1) : BrHit(Ahead(key, p, i))
    BY RedrawsStop
  <2> SUFFICES cycle \subseteq brMap \/ Cardinality(cycle \intersect brMap) > MaxRedraws
    OBVIOUS
  <2> HIDE DEF key, p, r, cycle
  <2>5. r = 3
    BY <2>2, <2>4 DEF BrHit, MaxRedraws
  <2>6. ASSUME NEW i \in 0..3 PROVE Ahead(key, p, i) \in brMap
    <3>1. i = r \/ i \in 0..(r - 1)
      BY <2>5
    <3> QED BY <3>1, <2>2, <2>4 DEF BrHit
  <2>7. CASE Len(CycleOf[key]) <= 3
    <3>1. \A a \in cycle : \E i \in 0..3 : a = Ahead(key, p, i)
      BY <2>2, <2>7, ReachAll DEF cycle
    <3> QED BY <2>6, <3>1
  <2>8. CASE Len(CycleOf[key]) > 3
    <3> DEFINE S == cycle \intersect brMap
    <3>1. \A i \in 0..3 : Ahead(key, p, i) \in S
      BY <2>2, <2>3, <2>6, CycleAddresses DEF cycle
    <3>2. \A i, j \in 0..3 : i < j => Ahead(key, p, i) # Ahead(key, p, j)
      BY <2>2, <2>3, <2>8, DifferentAhead
    <3>3. IsFiniteSet(S)
      BY <2>2, CycleAddresses, FS_Subset DEF cycle
    <3> HIDE DEF S
    <3>4. Cardinality(S) > 3
      BY <3>1, <3>2, <3>3, FourAreMore
    <3> QED BY <3>4 DEF S, MaxRedraws
  <2> QED BY <2>3, <2>7, <2>8
<1> QED BY <1>1, PickInit, PickStep, PTL DEF Spec, CrossStreamFresh

-----------------------------------------------------------------------------
(* The history of the cycles and of the prefixes (SourcePickHistory). *)

\* A cycle stands where its walk since it was made has brought it, a cycle nobody tracks
\* has no past, and an address was shown where the walk then stood.
SiteOf(k) ==
    /\ walked[k] \in Nat /\ Position(k) = PlaceAhead(k, 0, walked[k])
    /\ k \notin DOMAIN streams => walked[k] = 0 /\ shown[k] = {}
    /\ \A s \in shown[k] : s[2] \in 1..walked[k] /\ s[1] = Ahead(k, 0, s[2] - 1)
SiteInv == \A k \in Keys : SiteOf(k)

\* The prefix a handler read for its pick was live while it served its request.
DuringInv ==
    \A t \in Threads :
        /\ live \in during[t]
        /\ conf.auto /\ pc[t] \in {"draw", "drawHeld"} =>
               pl[t] \in during[t] /\ pl[t] \in Prefixes

\* Walking on from where a walk of w positions ended.
LEMMA WalkOn ==
    ASSUME NEW k \in Keys, NEW w \in Nat, NEW i \in Nat
    PROVE  PlaceAhead(k, PlaceAhead(k, 0, w), i) = PlaceAhead(k, 0, w + i)
<1> DEFINE n == Len(CycleOf[k])
<1>1. n \in Nat \ {0}
  BY PickAssumption
<1> HIDE DEF n
<1>2. ((w % n) + i) % n = (w + i) % n
  <2>1. w \in Int /\ i \in Int
    OBVIOUS
  <2> QED BY <1>1, <2>1, RemainderOfSum
<1>3. 0 + w = w /\ 0 + (w + i) = w + i
  OBVIOUS
<1> QED BY <1>2, <1>3 DEF PlaceAhead, n

LEMMA AheadByPlace ==
    ASSUME NEW k, NEW p, NEW i
    PROVE  Ahead(k, p, i) = CycleOf[k][PlaceAhead(k, p, i) + 1]
  BY DEF Ahead, PlaceAhead

\* A walk of less than a lap does not come back to an address it has given.
LEMMA LapBetween ==
    ASSUME NEW k \in Keys, NEW i \in Nat, NEW j \in Nat, i < j, Ahead(k, 0, i) = Ahead(k, 0, j)
    PROVE  j - i >= Len(CycleOf[k])
<1>1. PlaceAhead(k, 0, i) = PlaceAhead(k, 0, j)
  BY CycleRepeats
<1> DEFINE n == Len(CycleOf[k])
<1>2. n \in Nat \ {0}
  BY PickAssumption
<1>3. 0 + i = i /\ 0 + j = j /\ i \in Int /\ j \in Int
  OBVIOUS
<1>4. i % n = j % n
  BY <1>1, <1>3 DEF PlaceAhead
<1> HIDE DEF n
<1>5. j - i >= n
  BY <1>2, <1>3, <1>4, WithinALap
<1> QED BY <1>5 DEF n

\* What a full-pool pick does to its cycle's walk.
LEMMA DrawWalks ==
    ASSUME Inv, SiteInv, NEW t \in Threads, DrawCycle(t)
    PROVE  LET k == KeyOf(t)
               r == Redraws(k, Position(k))
           IN  /\ k \in Keys /\ r \in Nat
               /\ ip'[t] = Ahead(k, 0, walked[k] + r)
               /\ k \in DOMAIN streams'
               /\ streams'[k].pos = PlaceAhead(k, 0, walked[k] + r + 1)
<1> DEFINE k == KeyOf(t)
           p == Position(k)
           r == Redraws(k, p)
           w == walked[k]
<1>1. k \in Keys /\ p \in 0..(Len(CycleOf[k]) - 1) /\ r \in 0..MaxRedraws
      /\ ip'[t] = Ahead(k, p, r)
  BY DrawnFrom DEF KeyOf, Position
<1>2. p \in Nat /\ r \in Nat /\ w \in Nat /\ p = PlaceAhead(k, 0, w)
  BY <1>1, PickAssumption DEF SiteInv, SiteOf, MaxRedraws
<1>3. PICK K \in TrackedFor(k) :
         streams' = [j \in K |-> IF j = k
                        THEN [pos |-> (p + r + 1) % Len(CycleOf[k]), lastSeen |-> clock]
                        ELSE streams[j]]
  BY DEF DrawCycle, KeyOf, Position
<1>4. k \in K
  BY <1>1, TrackedBounded DEF Inv, TypeOK
<1>6. k \in DOMAIN streams' /\ streams'[k].pos = (p + r + 1) % Len(CycleOf[k])
  BY <1>3, <1>4
<1> HIDE DEF k, p, r, w
<1>8. streams'[k].pos = PlaceAhead(k, p, r + 1)
  <2>1. p + (r + 1) = p + r + 1
    BY <1>2
  <2> QED BY <1>6, <2>1 DEF PlaceAhead
<1>9. PlaceAhead(k, p, r) = PlaceAhead(k, 0, w + r)
      /\ PlaceAhead(k, p, r + 1) = PlaceAhead(k, 0, w + (r + 1))
  BY <1>1, <1>2, WalkOn
<1>10. w + (r + 1) = w + r + 1
  BY <1>2
<1>11. ip'[t] = Ahead(k, 0, w + r)
  BY <1>1, <1>9, AheadByPlace
<1> QED BY <1>1, <1>2, <1>6, <1>8, <1>9, <1>10, <1>11 DEF k, p, r, w

\* A step is one thread's full-pool pick, or nobody's.
LEMMA OneDraws ==
    ASSUME Inv, [Next]_vars, NEW t \in Threads
    PROVE  /\ Draws(t) <=> DrawCycle(t)
           /\ \A u \in Threads : Draws(t) /\ Draws(u) => t = u
<1>1. ASSUME NEW u \in Threads, Draws(u) PROVE DrawCycle(u)
  BY <1>1, DrawIsDrawCycle DEF Draws
<1>2. ASSUME DrawCycle(t) PROVE Draws(t)
  BY <1>2 DEF DrawCycle, Draws, At, FreshDone, Goto, Inv, TypeOK, ThreadsOK
<1>3. ASSUME NEW u \in Threads, DrawCycle(t), DrawCycle(u) PROVE t = u
  BY <1>3 DEF DrawCycle, Unlock
<1> QED BY <1>1, <1>2, <1>3

\* What a full-pool pick leaves of the other cycles (streamLocked, evictStreamLocked).
LEMMA DrawKeeps ==
    ASSUME Inv, NEW t \in Threads, DrawCycle(t), NEW k \in Keys, k # KeyOf(t)
    PROVE  /\ k \in DOMAIN streams' => k \in DOMAIN streams /\ streams'[k] = streams[k]
           /\ k \in DOMAIN streams \ DOMAIN streams' =>
                 /\ Cardinality(DOMAIN streams) >= StreamMax
                 /\ KeyOf(t) \notin DOMAIN streams
                 /\ \A j \in DOMAIN streams \cap DOMAIN streams' :
                       streams[k].lastSeen <= streams[j].lastSeen
<1> DEFINE key == KeyOf(t)
           D == DOMAIN streams
<1>0. key \in Keys
  BY DrawnFrom DEF KeyOf
<1>1. PICK K \in TrackedFor(key) :
         /\ DOMAIN streams' = K
         /\ \A j \in K : j # key => streams'[j] = streams[j]
  <2>1. \E K \in TrackedFor(key) :
          streams' = [j \in K |-> IF j = key
             THEN [pos |-> (Position(key) + Redraws(key, Position(key)) + 1) % Len(CycleOf[key]),
                   lastSeen |-> clock]
             ELSE streams[j]]
    BY DEF DrawCycle, KeyOf, Position
  <2> QED BY <2>1
<1>2. K \subseteq D \union {key} /\ (key \in D => K = D)
  BY <1>0, TrackedBounded DEF Inv, TypeOK
<1>3. ASSUME k \in D \ K
      PROVE  /\ Cardinality(D) >= StreamMax /\ key \notin D
             /\ \A j \in D \cap K : streams[k].lastSeen <= streams[j].lastSeen
  <2>1. key \notin D
    BY <1>2, <1>3
  <2>2. PICK kept : /\ K = kept \union {key}
                    /\ kept \in IF Cardinality(D) >= StreamMax
                                 THEN LeftAfterEviction(D, StreamMax - 1) ELSE {D}
    BY <2>1 DEF TrackedFor
  <2>3. Cardinality(D) >= StreamMax /\ kept \in LeftAfterEviction(D, StreamMax - 1)
    BY <2>2, <1>3
  <2>4. kept \subseteq D /\ \A j \in kept, gone \in D \ kept :
                              streams[gone].lastSeen <= streams[j].lastSeen
    BY <2>3 DEF LeftAfterEviction
  <2>5. k \in D \ kept /\ D \cap K = kept
    BY <1>3, <2>1, <2>2, <2>4
  <2> QED BY <2>1, <2>3, <2>4, <2>5
<1> QED BY <1>1, <1>2, <1>3

\* What a sweep leaves of the cycles: with the gauge under the cap it evicts none.
LEMMA SweepKeeps ==
    ASSUME Inv, SweepStreams, NEW k \in Keys
    PROVE  /\ k \in DOMAIN streams' => k \in DOMAIN streams /\ streams'[k] = streams[k]
           /\ k \in DOMAIN streams \ DOMAIN streams' => clock - streams[k].lastSeen > HostIdleTTL
<1> DEFINE D == DOMAIN streams
           fresh == {j \in D : clock - streams[j].lastSeen <= HostIdleTTL}
<1>1. IsFiniteSet(D) /\ Cardinality(D) <= StreamMax /\ fresh \subseteq D
  BY DEF Inv, TypeOK, StreamsOK, StreamsBounded
<1>2. Cardinality(fresh) <= Cardinality(D)
      /\ Cardinality(fresh) \in Nat /\ Cardinality(D) \in Nat
  BY <1>1, FS_Subset, FS_CardinalityType
<1>3. ~(Cardinality(fresh) > StreamMax)
  BY <1>1, <1>2, PickAssumption
<1>4. streams' = [j \in fresh |-> streams[j]]
  BY <1>3 DEF SweepStreams
<1>5. k \in D => clock \in Nat /\ streams[k].lastSeen \in Int /\ HostIdleTTL \in Nat
  BY PickAssumption DEF Inv, TypeOK, StreamsOK, WorldOK
<1> QED BY <1>4, <1>5

\* Every step: the cycles that stay are where they were, unless a pick walked them, and the
\* cycles that go may go.
LEMMA CyclesStep ==
    ASSUME Inv, [Next]_vars, NEW k \in Keys, \A t \in Threads : ~DrawsFrom(t, k)
    PROVE  /\ k \in DOMAIN streams' => k \in DOMAIN streams /\ streams'[k] = streams[k]
           /\ k \in DOMAIN streams \ DOMAIN streams' => MayGo(k)
<1>1. ASSUME NEW t \in Threads, DrawCycle(t)
      PROVE  /\ k \in DOMAIN streams' => k \in DOMAIN streams /\ streams'[k] = streams[k]
             /\ k \in DOMAIN streams \ DOMAIN streams' => MayGo(k)
  <2>1. Draws(t) /\ k # KeyOf(t)
    BY <1>1, OneDraws DEF DrawsFrom
  <2> QED BY <1>1, <2>1, DrawKeeps DEF MayGo
<1>2. CASE SweepStreams
  BY <1>2, SweepKeeps DEF MayGo
<1>3. CASE UNCHANGED streams
  BY <1>3
<1>4. ASSUME NEW t \in Threads, Request(t) \/ GetLock(t) PROVE UNCHANGED streams
  BY <1>4 DEF Request, GetLock, StickyLock, StickyRelock, DrawLock, Acquire, shared, cycleVars
<1>5. ASSUME NEW t \in Threads, Step(t), ~DrawCycle(t) PROVE UNCHANGED streams
  BY <1>5 DEF Step, PickFixed, PickIface, PickOn, StickyLookup, StickyStore, FreshFromList,
              FreshNoPool, FreshFromPool, DrawSliced, shared, cycleVars
<1>6. CASE SweepBegin \/ SweepSessions \/ SweepLock \/ Tick \/ Roam \/ UNCHANGED vars
  BY <1>3, <1>6 DEF SweepBegin, SweepSessions, SweepLock, Tick, Roam, vars, shared, cycleVars
<1> QED BY <1>1, <1>2, <1>3, <1>4, <1>5, <1>6 DEF Next, Sweep

\* What the history notes of a full-pool pick.
LEMMA DrawIsNoted ==
    ASSUME Inv, SiteInv, HNext, NEW t \in Threads, Draws(t)
    PROVE  LET k == KeyOf(t)
               r == Redraws(k, Position(k))
           IN  /\ k \in Keys /\ r \in Nat /\ DrawsFrom(t, k)
               /\ walked'[k] = walked[k] + r + 1
               /\ shown'[k] = shown[k] \union {<<ip'[t], walked'[k]>>}
               /\ ip'[t] = Ahead(k, 0, walked[k] + r)
               /\ k \in DOMAIN streams'
               /\ streams'[k].pos = PlaceAhead(k, 0, walked[k] + r + 1)
<1> DEFINE k == KeyOf(t)
           r == Redraws(k, Position(k))
<1>1. Next /\ DrawCycle(t)
  BY OneDraws DEF HNext
<1>2. /\ k \in Keys /\ r \in Nat /\ ip'[t] = Ahead(k, 0, walked[k] + r)
      /\ k \in DOMAIN streams' /\ streams'[k].pos = PlaceAhead(k, 0, walked[k] + r + 1)
  BY <1>1, DrawWalks
<1>3. DrawsFrom(t, k) /\ \A u \in Threads : DrawsFrom(u, k) => u = t
  BY <1>1, OneDraws DEF DrawsFrom
<1>4. ~Forgotten(k)
  BY <1>2 DEF Forgotten
<1>5. walked'[k] = walked[k] + r + 1
  BY <1>2, <1>3, <1>4 DEF HNext
<1>6. shown'[k] = shown[k] \union {<<ip'[u], walked'[k]>> : u \in {v \in Threads : DrawsFrom(v, k)}}
  BY <1>2, <1>4 DEF HNext
<1>7. {v \in Threads : DrawsFrom(v, k)} = {t}
  BY <1>3
<1> HIDE DEF k, r
<1>8. shown'[k] = shown[k] \union {<<ip'[t], walked'[k]>>}
  BY <1>6, <1>7
<1> QED BY <1>2, <1>3, <1>5, <1>8 DEF k, r

LEMMA PlaceType ==
    ASSUME NEW k \in Keys PROVE PlaceAhead(k, 0, 0) = 0
<1> DEFINE n == Len(CycleOf[k])
<1>1. n \in Nat \ {0}
  BY PickAssumption
<1> HIDE DEF n
<1>2. 0 % n = 0 /\ 0 + 0 = 0
  BY <1>1
<1> QED BY <1>2 DEF PlaceAhead, n

LEMMA SiteInit == HInit => SiteInv
  BY PlaceType DEF HInit, Init, SiteInv, SiteOf, Position

LEMMA SiteStep ==
    ASSUME Inv, SiteInv, HNext
    PROVE  SiteInv'
<1> SUFFICES ASSUME NEW k \in Keys PROVE SiteOf(k)'
  BY DEF SiteInv
<1>1. [Next]_vars
  BY DEF HNext
<1>2. SiteOf(k)
  BY DEF SiteInv
<1>3. CASE Forgotten(k)
  <2>1. walked'[k] = 0 /\ shown'[k] = {} /\ k \notin DOMAIN streams'
    BY <1>3 DEF HNext, Forgotten
  <2> QED BY <2>1, PlaceType DEF SiteOf, Position
<1>4. ASSUME NEW t \in Threads, DrawsFrom(t, k) PROVE SiteOf(k)'
  <2> DEFINE r == Redraws(k, Position(k))
             w == walked[k]
  <2>1. Draws(t) /\ KeyOf(t) = k
    BY <1>4 DEF DrawsFrom
  <2>2. /\ r \in Nat /\ walked'[k] = w + r + 1
        /\ shown'[k] = shown[k] \union {<<ip'[t], walked'[k]>>}
        /\ ip'[t] = Ahead(k, 0, w + r)
        /\ k \in DOMAIN streams' /\ streams'[k].pos = PlaceAhead(k, 0, w + r + 1)
    BY <2>1, DrawIsNoted
  <2>3. w \in Nat /\ \A s \in shown[k] : s[2] \in 1..w /\ s[1] = Ahead(k, 0, s[2] - 1)
    BY <1>2 DEF SiteOf
  <2> HIDE DEF r, w
  <2>4. walked'[k] \in Nat /\ (w + r + 1) - 1 = w + r /\ w + r + 1 \in 1..(w + r + 1)
        /\ 1..w \subseteq 1..(w + r + 1)
    BY <2>2, <2>3
  <2>5. ASSUME NEW s \in shown'[k]
        PROVE  s[2] \in 1..walked'[k] /\ s[1] = Ahead(k, 0, s[2] - 1)
    <3>1. CASE s \in shown[k]
      BY <3>1, <2>2, <2>3, <2>4
    <3>2. CASE s = <<ip'[t], w + r + 1>>
      BY <3>2, <2>2, <2>4
    <3> QED BY <3>1, <3>2, <2>2, <2>5
  <2> QED BY <2>2, <2>4, <2>5 DEF SiteOf, Position, Ahead, PlaceAhead
<1>5. CASE ~Forgotten(k) /\ \A t \in Threads : ~DrawsFrom(t, k)
  <2>1. /\ k \in DOMAIN streams' => k \in DOMAIN streams /\ streams'[k] = streams[k]
        /\ k \in DOMAIN streams \ DOMAIN streams' => MayGo(k)
    BY <1>1, <1>5, CyclesStep
  <2>2. k \in DOMAIN streams' <=> k \in DOMAIN streams
    BY <1>5, <2>1 DEF Forgotten
  <2>3. walked'[k] = walked[k]
    BY <1>5 DEF HNext
  <2>4. shown'[k] = shown[k] \union {<<ip'[t], walked'[k]>> : t \in {u \in Threads : DrawsFrom(u, k)}}
    BY <1>5 DEF HNext
  <2>5. {u \in Threads : DrawsFrom(u, k)} = {}
    BY <1>5
  <2>6. shown'[k] = shown[k]
    BY <2>4, <2>5
  <2>7. (IF k \in DOMAIN streams' THEN streams'[k].pos ELSE 0) = Position(k)
    BY <2>1, <2>2 DEF Position
  <2> QED BY <1>2, <2>2, <2>3, <2>6, <2>7 DEF SiteOf, Position, Ahead, PlaceAhead
<1> QED BY <1>3, <1>4, <1>5

\* Until its cycle is dropped for being idle or the least recently seen, an account is given
\* an address for a destination again only after a whole lap (proxy.go:287-297, 319-346,
\* 462-477): for any number of handlers, accounts and destinations, any cycles and caps and
\* any depth of the recent-address guard.
THEOREM PickFreshPerSite == HSpec => FreshPerSite
<1> DEFINE Fresh == \A t \in Threads : Draws(t) =>
             \A s \in shown[KeyOf(t)] :
                 s[1] = ip'[t] => walked'[KeyOf(t)] - s[2] >= Len(CycleOf[KeyOf(t)])
<1>1. Inv /\ SiteInv /\ [HNext]_<<vars, history>> => [Fresh]_vars
  <2> SUFFICES ASSUME Inv, SiteInv, HNext, NEW t \in Threads, Draws(t),
                      NEW s \in shown[KeyOf(t)], s[1] = ip'[t]
               PROVE  walked'[KeyOf(t)] - s[2] >= Len(CycleOf[KeyOf(t)])
    BY DEF Fresh
  <2> DEFINE k == KeyOf(t)
             r == Redraws(k, Position(k))
             w == walked[k]
             q == s[2]
  <2>1. /\ k \in Keys /\ r \in Nat /\ walked'[k] = w + r + 1 /\ ip'[t] = Ahead(k, 0, w + r)
    BY DrawIsNoted
  <2>2. w \in Nat /\ q \in 1..w /\ s[1] = Ahead(k, 0, q - 1)
    BY <2>1 DEF SiteInv, SiteOf
  <2> HIDE DEF k, r, w, q
  <2>3. q - 1 \in Nat /\ w + r \in Nat /\ q - 1 < w + r /\ q \in Nat
    BY <2>1, <2>2
  <2>4. Ahead(k, 0, q - 1) = Ahead(k, 0, w + r)
    BY <2>1, <2>2
  <2>5. (w + r) - (q - 1) >= Len(CycleOf[k])
    BY <2>1, <2>3, <2>4, LapBetween
  <2>6. Len(CycleOf[k]) \in Nat
    BY <2>1, PickAssumption
  <2>7. walked'[k] - q = (w + r) - (q - 1)
    BY <2>1, <2>2, <2>3
  <2>8. walked'[k] - q >= Len(CycleOf[k])
    BY <2>5, <2>7
  <2> QED BY <2>8 DEF k, q
<1>2. HInit => Inv /\ SiteInv
  BY PickInit, SiteInit DEF HInit
<1>3. Inv /\ SiteInv /\ [HNext]_<<vars, history>> => Inv' /\ SiteInv'
  <2>1. ASSUME Inv, SiteInv, HNext PROVE Inv' /\ SiteInv'
    BY <2>1, PickStep, SiteStep DEF HNext
  <2>2. ASSUME Inv, SiteInv, UNCHANGED <<vars, history>> PROVE Inv' /\ SiteInv'
    <3>1. Inv'
      BY <2>2, PickStep
    <3>2. SiteInv'
      BY <2>2 DEF SiteInv, SiteOf, Position, Ahead, history, vars, shared, cycleVars
    <3> QED BY <3>1, <3>2
  <2> QED BY <2>1, <2>2
<1> QED BY <1>1, <1>2, <1>3, PTL DEF HSpec, FreshPerSite

\* A thread about to draw holds the prefix it read, or has just read the live one.
LEMMA PrefixStep ==
    ASSUME Inv, Next, NEW t \in Threads, conf.auto, pc'[t] \in {"draw", "drawHeld"}
    PROVE  \/ pc[t] \in {"draw", "drawHeld"} /\ pl'[t] = pl[t]
           \/ pl'[t] = live /\ live \in Prefixes
<1>1. pc \in [Threads -> Places] /\ pl \in [Threads -> Pools] /\ live \in Pools
  BY DEF Inv, TypeOK, ThreadsOK, WorldOK
<1>2. ASSUME NEW u \in Threads, FreshFromPool(u)
      PROVE  IF u = t THEN pl'[t] = live /\ live \in Prefixes ELSE pc'[t] = pc[t] /\ pl'[t] = pl[t]
  BY <1>1, <1>2 DEF FreshFromPool, Goto, NoPool, Pools
<1>3. ASSUME NEW u \in Threads, Request(u) \/ Step(u) \/ GetLock(u), ~FreshFromPool(u)
      PROVE  pl' = pl
  BY <1>3 DEF Request, GetLock, StickyLock, StickyRelock, DrawLock, Acquire, Step, PickFixed,
              PickIface, PickOn, StickyLookup, StickyStore, FreshFromList, FreshNoPool,
              DrawSliced, DrawCycle
<1>4. CASE Sweep \/ SweepLock \/ Tick \/ Roam
  BY <1>4 DEF Sweep, SweepBegin, SweepSessions, SweepStreams, SweepLock, Tick, Roam, threadVars
<1>5. CASE pc'[t] # pc[t] /\ pl' = pl
  <2>1. Request(t) \/ Step(t) \/ GetLock(t)
    BY <1>5, OnlyOwnStep
  <2>2. CASE DrawLock(t)
    BY <2>2, <1>5 DEF DrawLock, Acquire, At
  <2>3. CASE FreshFromPool(t)
    BY <2>3, <1>2
  <2>4. ASSUME Step(t), ~FreshFromPool(t)
        PROVE  \E place \in {"lookup", "fresh", "store", "idle"} : Goto(t, place)
    BY <2>4 DEF Step, PickFixed, PickIface, PickOn, StickyLookup, StickyStore, PinFresh,
                FreshFromList, FreshNoPool, DrawSliced, DrawCycle, Answer, FreshDone
  <2>5. ASSUME Request(t) \/ StickyLock(t) \/ StickyRelock(t)
        PROVE  \E place \in {"pick", "lookupHeld", "storeHeld"} : Goto(t, place)
    BY <2>5 DEF Request, StickyLock, StickyRelock, Acquire
  <2> QED BY <1>1, <2>1, <2>2, <2>3, <2>4, <2>5 DEF GetLock, Goto
<1> QED BY <1>2, <1>3, <1>4, <1>5 DEF Next

LEMMA ConfStays == ASSUME Next PROVE conf' = conf
<1>1. ASSUME NEW t \in Threads, Request(t) \/ GetLock(t) \/ Step(t) PROVE conf' = conf
  BY <1>1 DEF Request, GetLock, StickyLock, StickyRelock, DrawLock, Acquire, Step, PickFixed,
              PickIface, PickOn, StickyLookup, StickyStore, FreshFromList, FreshNoPool,
              FreshFromPool, DrawSliced, DrawCycle, world
<1>2. CASE Sweep \/ SweepLock \/ Tick \/ Roam
  BY <1>2 DEF Sweep, SweepBegin, SweepSessions, SweepStreams, SweepLock, Tick, Roam, world
<1> QED BY <1>1, <1>2 DEF Next

LEMMA DuringStep ==
    ASSUME Inv, DuringInv, HNext
    PROVE  DuringInv'
<1> SUFFICES ASSUME NEW t \in Threads
             PROVE  /\ live' \in during'[t]
                    /\ conf'.auto /\ pc'[t] \in {"draw", "drawHeld"} =>
                           pl'[t] \in during'[t] /\ pl'[t] \in Prefixes
  BY DEF DuringInv
<1>1. during'[t] = IF pc'[t] = "idle" THEN {live'} ELSE during[t] \union {live'}
  BY DEF HNext
<1>2. ASSUME conf'.auto, pc'[t] \in {"draw", "drawHeld"}
      PROVE  pl'[t] \in during'[t] /\ pl'[t] \in Prefixes
  <2>1. conf.auto
    BY <1>2, ConfStays DEF HNext
  <2>2. \/ pc[t] \in {"draw", "drawHeld"} /\ pl'[t] = pl[t]
        \/ pl'[t] = live /\ live \in Prefixes
    BY <1>2, <2>1, PrefixStep DEF HNext
  <2>3. during'[t] = during[t] \union {live'}
    BY <1>1, <1>2
  <2> QED BY <2>1, <2>2, <2>3 DEF DuringInv
<1> QED BY <1>1, <1>2

\* auto_pool: a full-pool pick lies in a prefix the interface had during the request, for
\* any prefixes and however often the interface roams (proxy.go:258-304).
THEOREM PickFollowsPrefix == HSpec => FollowsPrefix
<1> DEFINE Follows == \A t \in Threads : conf.auto /\ Draws(t) => PrefixOf[ip'[t]] \in during[t]
<1>1. Inv /\ DuringInv /\ [HNext]_<<vars, history>> => [Follows]_vars
  <2> SUFFICES ASSUME Inv, DuringInv, HNext, NEW t \in Threads, conf.auto, Draws(t)
               PROVE  PrefixOf[ip'[t]] \in during[t]
    BY DEF Follows
  <2> DEFINE k == KeyOf(t)
             p == Position(k)
             r == Redraws(k, p)
  <2>1. k \in Keys /\ p \in 0..(Len(CycleOf[k]) - 1) /\ r \in 0..MaxRedraws
        /\ ip'[t] = Ahead(k, p, r)
    BY OneDraws, DrawnFrom DEF HNext, KeyOf, Position
  <2>2. k[3] = pl[t] /\ pl[t] \in during[t] /\ pl[t] \in Prefixes
    BY DEF Draws, At, KeyOf, DuringInv
  <2> HIDE DEF k, p, r
  <2>3. Len(CycleOf[k]) \in Nat \ {0} /\ DOMAIN CycleOf[k] = 1..Len(CycleOf[k])
    BY <2>1, PickAssumption
  <2>4. PlaceAhead(k, p, r) \in 0..(Len(CycleOf[k]) - 1)
    <3> DEFINE n == Len(CycleOf[k])
    <3>1. p + r \in Nat /\ n \in Nat \ {0}
      BY <2>1, <2>3 DEF MaxRedraws
    <3> HIDE DEF n
    <3>2. (p + r) % n \in 0..(n - 1)
      BY <3>1, RemainderBelow
    <3> QED BY <3>2 DEF n, PlaceAhead
  <2>5. PlaceAhead(k, p, r) + 1 \in DOMAIN CycleOf[k]
    BY <2>3, <2>4
  <2> QED BY <2>1, <2>2, <2>5, AheadByPlace, PrefixAssumption
<1>2. HInit => Inv /\ DuringInv
  BY PickInit DEF HInit, Init, DuringInv
<1>3. Inv /\ DuringInv /\ [HNext]_<<vars, history>> => Inv' /\ DuringInv'
  <2>1. ASSUME Inv, DuringInv, HNext PROVE Inv' /\ DuringInv'
    BY <2>1, PickStep, DuringStep DEF HNext
  <2>2. ASSUME Inv, DuringInv, UNCHANGED <<vars, history>> PROVE Inv' /\ DuringInv'
    <3>1. Inv'
      BY <2>2, PickStep
    <3>2. DuringInv'
      BY <2>2 DEF DuringInv, history, vars, world, threadVars
    <3> QED BY <3>1, <3>2
  <2> QED BY <2>1, <2>2
<1> QED BY <1>1, <1>2, <1>3, PTL DEF HSpec, FollowsPrefix
=============================================================================
