------------------------------ MODULE SourcePick ------------------------------
(***************************************************************************)
(* internal/proxy/proxy.go: how a request gets its source address          *)
(* (pickSource, stickyIP, freshIP, streamLocked) and the sweeper that      *)
(* main.go:110-123 runs beside the request handlers.                       *)
(*                                                                         *)
(* Threads are the handler goroutines; each serves one request at a time.  *)
(* mu is Proxy.mu: a critical section is an action that takes it and an    *)
(* action that does the section's work and releases it, so everything      *)
(* outside the sections interleaves.  A section reads the clock once; the  *)
(* code may read it twice, and the later reading gives the same outcomes.  *)
(*                                                                         *)
(* A rotation cycle is CycleOf[key], the order in which Stream.tla's       *)
(* stream returns its clean addresses; a stream created again for the same *)
(* key starts at the same place, all its words being derived from the seed *)
(* and the key (NewStream).  A sliced account's keyed hash (IPForAcct) is  *)
(* a choice from its slice.  `live` is the prefix of the interface's       *)
(* current global address, which the world changes.                        *)
(***************************************************************************)
EXTENDS RecentRing, FiniteSets

CONSTANTS Threads, Sweeper, Free,       \* who may hold mu
          Accounts, Dests, Tokens, NoTok,
          Prefixes, NoPrefix, NoAddr,   \* NoAddr is Go's nil net.IP
          Configs,                      \* source-selection configurations
          CycleOf,                      \* [Keys -> the cycle's addresses in order]
          SlicedAccounts,               \* the accounts with Size > 0
          SliceOf,                      \* [account, prefix -> the slice's addresses]
          IfaceAddr,                    \* [Prefixes -> the interface's own address]
          StreamMax, StickyTTL, HostIdleTTL,
          NoSession,
          MaxClock, MaxRequests         \* bounds of the model

Pools == Prefixes \union {NoPrefix}    \* NoPrefix stands for the static pool
Keys == Accounts \X Dests \X Pools
Procs == Threads \union {Sweeper}

Requests == [acct : Accounts, tok : Tokens \union {NoTok}, dest : Dests]
IPs == Addr \union {NoAddr}
Sessions == [ip : IPs, acct : Accounts, expire : Nat]

\* What pickSource and poolForPick read of the configuration.
ConfigType == [fixed : Addr \union {NoAddr}, iface : BOOLEAN, auto : BOOLEAN,
               hosts : Seq(Addr), pool : BOOLEAN]

ASSUME PickAssumption ==
    /\ Sweeper \notin Threads /\ Free \notin Procs
    /\ NoAddr \notin Addr /\ NoPrefix \notin Prefixes /\ NoTok \notin Tokens
    /\ Configs \subseteq ConfigType
    /\ CycleOf \in [Keys -> Seq(Addr) \ {<<>>}]
    /\ \A k \in Keys : \A i, j \in DOMAIN CycleOf[k] : CycleOf[k][i] = CycleOf[k][j] => i = j
    /\ SlicedAccounts \subseteq Accounts
    /\ SliceOf \in [SlicedAccounts \X Pools -> SUBSET Addr]
    /\ IfaceAddr \in [Prefixes -> Addr]
    /\ Accounts # {} /\ Dests # {} /\ NoSession \notin Sessions
    /\ StreamMax \in Nat \ {0} /\ StickyTTL \in Nat /\ HostIdleTTL \in Nat
    /\ MaxClock \in Nat /\ MaxRequests \in Nat

VARIABLES conf, live, clock, left,     \* configuration, interface, time, requests to come
          mu,
          sessions,                    \* token -> [ip, acct, expire] or NoSession
          streams,                     \* key -> [pos, lastSeen], for the tracked keys
          hostPick, sessionsCur, sessionsTot, hostsCur, picksTotal,
          pc, req, ip, pl,             \* per thread: place, request, picked address, pool prefix
          spc, snow                    \* the sweeper's place and the time it read
world == <<conf, live, clock, left>>
sessionVars == <<sessions, sessionsCur, sessionsTot>>
cycleVars == <<streams, hostsCur, picksTotal>>
threadVars == <<pc, req, ip, pl>>
shared == <<sessionVars, cycleVars, hostPick, ringVars>>
sweepVars == <<spc, snow>>
vars == <<world, mu, shared, threadVars, sweepVars>>

Held == {"lookupHeld", "drawHeld", "storeHeld"}
Places == Held \union {"idle", "pick", "lookup", "fresh", "draw", "store"}
SweepHeld == {"sessionsHeld", "streamsHeld"}
SweepPlaces == SweepHeld \union {"rest", "sessions", "streams"}

\* New (proxy.go:89-126); conf is what config.Load accepted.
Init ==
    /\ conf \in Configs /\ live \in Pools
    /\ clock = 0 /\ left = MaxRequests
    /\ mu = Free
    /\ sessions = [k \in Tokens |-> NoSession]
    /\ streams = [k \in {} |-> [pos |-> 0, lastSeen |-> 0]]
    /\ hostPick = 0 /\ sessionsCur = 0 /\ sessionsTot = 0 /\ hostsCur = 0 /\ picksTotal = 0
    /\ RingInit
    /\ pc = [t \in Threads |-> "idle"]
    /\ req = [t \in Threads |-> CHOOSE r \in Requests : TRUE]
    /\ ip = [t \in Threads |-> NoAddr] /\ pl = [t \in Threads |-> NoPrefix]
    /\ spc = "rest" /\ snow = 0
-----------------------------------------------------------------------------
\* Control helpers: where a thread stands and goes, what it answers.
At(t, place) == pc[t] = place
Goto(t, place) == pc' = [pc EXCEPT ![t] = place]
Sticky(t) == req[t].tok # NoTok

\* pickSource returns a.
Answer(t, a) == ip' = [ip EXCEPT ![t] = a] /\ Goto(t, "idle")

\* Faulty variant: every fresh pick is pinned.
FreshDoneToStore(t, a) == ip' = [ip EXCEPT ![t] = a] /\ Goto(t, "store")

\* freshIP returns a, to stickyIP or to pickSource.
FreshDone(t, a) ==
    ip' = [ip EXCEPT ![t] = a] /\ Goto(t, IF Sticky(t) THEN "store" ELSE "idle")

Lock(p) == mu = Free /\ mu' = p
Unlock(p) == mu = p /\ mu' = Free

Acquire(t, place, held) ==
    /\ At(t, place) /\ Lock(t) /\ Goto(t, held)
    /\ UNCHANGED <<world, shared, req, ip, pl, sweepVars>>

\* A request reaches dialTarget, which calls pickSource (proxy.go:510).
Request(t) ==
    /\ At(t, "idle") /\ left > 0
    /\ left' = left - 1
    /\ \E r \in Requests : req' = [req EXCEPT ![t] = r]
    /\ Goto(t, "pick")
    /\ UNCHANGED <<conf, live, clock, mu, shared, ip, pl, sweepVars>>

\* pickSource's priorities (proxy.go:229-244).
IfaceMode == conf.iface /\ ~conf.auto

PickFixed(t) ==
    /\ At(t, "pick") /\ conf.fixed # NoAddr
    /\ Answer(t, conf.fixed)
    /\ UNCHANGED <<world, mu, shared, req, pl, sweepVars>>

PickIface(t) ==
    /\ At(t, "pick") /\ conf.fixed = NoAddr
    /\ IfaceMode /\ live # NoPrefix
    /\ Answer(t, IfaceAddr[live])
    /\ UNCHANGED <<world, mu, shared, req, pl, sweepVars>>

PickOn(t) ==
    /\ At(t, "pick") /\ conf.fixed = NoAddr
    /\ IfaceMode => live = NoPrefix
    /\ Goto(t, IF Sticky(t) THEN "lookup" ELSE "fresh")
    /\ UNCHANGED <<world, mu, shared, req, ip, pl, sweepVars>>
-----------------------------------------------------------------------------
\* A session is usable before its expiry and removable after it (not at it).
Pinned(k) == sessions[k] # NoSession /\ clock < sessions[k].expire
Expired(k, now) == sessions[k] # NoSession /\ now > sessions[k].expire
Owns(t, k) == Pinned(k) /\ sessions[k].acct = req[t].acct

StickyLock(t) == Acquire(t, "lookup", "lookupHeld")

\* Faulty variants: the section is left with the lock held where the pin is used (line
\* 410), or where a fresh address is needed (line 416), for which freshIP takes it again.
StickyLookupLocked(t, kept) ==
    LET k == req[t].tok IN
    /\ At(t, "lookupHeld")
    /\ IF kept THEN mu = t /\ UNCHANGED mu ELSE Unlock(t)
    /\ IF Owns(t, k)
       THEN Answer(t, sessions[k].ip) /\ UNCHANGED sessionVars
       ELSE /\ Goto(t, "fresh") /\ UNCHANGED ip
            /\ IF Expired(k, clock)
               THEN /\ sessions' = [sessions EXCEPT ![k] = NoSession]
                    /\ sessionsCur' = sessionsCur - 1
                    /\ UNCHANGED sessionsTot
               ELSE UNCHANGED sessionVars
    /\ UNCHANGED <<world, cycleVars, hostPick, ringVars, req, pl, sweepVars>>
StickyLookupHitLocked(t) == StickyLookupLocked(t, Owns(t, req[t].tok))
StickyLookupMissLocked(t) == StickyLookupLocked(t, ~Owns(t, req[t].tok))

\* The first critical section of stickyIP (lines 408-416): use the pin, or drop an
\* expired session and release the lock for the fresh pick.
StickyLookup(t) ==
    LET k == req[t].tok IN
    /\ At(t, "lookupHeld") /\ Unlock(t)
    /\ IF Owns(t, k)
       THEN Answer(t, sessions[k].ip) /\ UNCHANGED sessionVars
       ELSE /\ Goto(t, "fresh") /\ UNCHANGED ip
            /\ IF Expired(k, clock)
               THEN /\ sessions' = [sessions EXCEPT ![k] = NoSession]
                    /\ sessionsCur' = sessionsCur - 1
                    /\ UNCHANGED sessionsTot
               ELSE UNCHANGED sessionVars
    /\ UNCHANGED <<world, cycleVars, hostPick, ringVars, req, pl, sweepVars>>

StickyRelock(t) == Acquire(t, "store", "storeHeld")

\* The fresh address is pinned over whatever the token holds (lines 427-434).
PinFresh(t, k) ==
    /\ Answer(t, ip[t])
    /\ sessions' = [sessions EXCEPT ![k] =
          [ip |-> ip[t], acct |-> req[t].acct, expire |-> clock + StickyTTL]]
    /\ sessionsCur' = sessionsCur + 1
    /\ sessionsTot' = sessionsTot + 1

\* Faulty variants: no second lookup; a second lookup whose pin is not returned.
StickyStoreUnchecked(t) ==
    /\ At(t, "storeHeld") /\ Unlock(t) /\ PinFresh(t, req[t].tok)
    /\ UNCHANGED <<world, cycleVars, hostPick, ringVars, req, pl, sweepVars>>
StickyStoreOwnAddress(t) ==
    /\ At(t, "storeHeld") /\ Unlock(t)
    /\ IF Owns(t, req[t].tok) THEN Answer(t, ip[t]) /\ UNCHANGED sessionVars
       ELSE PinFresh(t, req[t].tok)
    /\ UNCHANGED <<world, cycleVars, hostPick, ringVars, req, pl, sweepVars>>

\* The second critical section (lines 422-435): another request of the account may have
\* pinned the token meanwhile.
StickyStore(t) ==
    LET k == req[t].tok IN
    /\ At(t, "storeHeld") /\ Unlock(t)
    /\ IF Owns(t, k)
       THEN Answer(t, sessions[k].ip) /\ UNCHANGED sessionVars
       ELSE PinFresh(t, k)
    /\ UNCHANGED <<world, cycleVars, hostPick, ringVars, req, pl, sweepVars>>
-----------------------------------------------------------------------------
\* freshIP outside the lock (lines 271-286): the address list, no pool, or a pool.
NoPool == IF conf.auto THEN live = NoPrefix ELSE ~conf.pool
Sliced(t) == req[t].acct \in SlicedAccounts
Slice(t) == SliceOf[req[t].acct, pl[t]]

FreshFromList(t) ==
    /\ At(t, "fresh") /\ conf.hosts # <<>>
    /\ hostPick' = (hostPick + 1) % Len(conf.hosts)
    /\ FreshDone(t, conf.hosts[hostPick' + 1])
    /\ UNCHANGED <<world, mu, sessionVars, cycleVars, ringVars, req, pl, sweepVars>>

FreshNoPool(t) ==
    /\ At(t, "fresh") /\ conf.hosts = <<>> /\ NoPool
    /\ FreshDone(t, NoAddr)
    /\ UNCHANGED <<world, mu, shared, req, pl, sweepVars>>

\* Faulty variant: a handler goes on using the first prefix it read.
FreshFromPoolOnce(t) ==
    /\ At(t, "fresh") /\ conf.hosts = <<>> /\ ~NoPool
    /\ pl' = [pl EXCEPT ![t] = IF conf.auto /\ @ = NoPrefix THEN live ELSE @]
    /\ Goto(t, "draw")
    /\ UNCHANGED <<world, mu, shared, req, ip, sweepVars>>

\* poolForPick: in auto_pool mode the pick's prefix is read here, before the lock.
FreshFromPool(t) ==
    /\ At(t, "fresh") /\ conf.hosts = <<>> /\ ~NoPool
    /\ pl' = [pl EXCEPT ![t] = IF conf.auto THEN live ELSE NoPrefix]
    /\ Goto(t, "draw")
    /\ UNCHANGED <<world, mu, shared, req, ip, sweepVars>>

\* backstopGuard takes the lock only when the guard is on.
NeedsLock(t) == ~Sliced(t) \/ BrCap > 0

DrawLock(t) == NeedsLock(t) /\ Acquire(t, "draw", "drawHeld")

\* A sliced pick, through backstopGuard: whatever number of redraws, any address of the
\* slice may be the last draw.  Without a guard nothing is locked and nothing recorded.
DrawSliced(t) ==
    /\ Sliced(t)
    /\ IF NeedsLock(t) THEN At(t, "drawHeld") /\ Unlock(t) ELSE At(t, "draw") /\ UNCHANGED mu
    /\ \E a \in Slice(t) : FreshDone(t, a) /\ Record(a)
    /\ UNCHANGED <<world, sessionVars, cycleVars, hostPick, req, pl, sweepVars>>

\* What evicting the least recently seen cycles down to n may leave of the keys K
\* (evictStreamLocked; equal times are evicted in map order, i.e. any).
LeftAfterEviction(K, n) ==
    {kept \in SUBSET K :
        /\ Cardinality(kept) = n
        /\ \A k \in kept, gone \in K \ kept : streams[gone].lastSeen <= streams[k].lastSeen}

\* Faulty variants: nothing is evicted for a new cycle; one cycle too many is.
TrackedForever(key) == {DOMAIN streams \union {key}}
TrackedOneShort(key) ==
    LET K == DOMAIN streams IN
    IF key \in K THEN {K}
    ELSE {kept \union {key} :
            kept \in IF Cardinality(K) >= StreamMax - 1
                     THEN LeftAfterEviction(K, StreamMax - 2) ELSE {K}}

\* streamLocked: the keys tracked once the pick's own cycle is among them.
TrackedFor(key) ==
    LET K == DOMAIN streams IN
    IF key \in K THEN {K}
    ELSE {kept \union {key} :
            kept \in IF Cardinality(K) >= StreamMax
                     THEN LeftAfterEviction(K, StreamMax - 1) ELSE {K}}

MaxRedraws == 3

\* The address i positions further on a cycle, and how many positions backstopLocked
\* gives up because their addresses were returned recently.
Ahead(key, p, i) == CycleOf[key][((p + i) % Len(CycleOf[key])) + 1]
\* Faulty variant: the guard is never asked.
NoRedraws(key, p) == 0

Redraws(key, p) ==
    CHOOSE r \in 0..MaxRedraws :
        /\ r = MaxRedraws \/ ~BrHit(Ahead(key, p, r))
        /\ \A i \in 0..(r - 1) : BrHit(Ahead(key, p, i))

\* A full-pool pick (lines 287-298).
DrawCycle(t) ==
    LET key == <<req[t].acct, req[t].dest, pl[t]>>
        p == IF key \in DOMAIN streams THEN streams[key].pos ELSE 0
        r == Redraws(key, p)
    IN
    /\ At(t, "drawHeld") /\ ~Sliced(t) /\ Unlock(t)
    /\ \E K \in TrackedFor(key) :
          /\ streams' = [k \in K |->
                IF k = key
                THEN [pos |-> (p + r + 1) % Len(CycleOf[key]), lastSeen |-> clock]
                ELSE streams[k]]
          /\ hostsCur' = IF key \in DOMAIN streams THEN hostsCur ELSE Cardinality(K)
    /\ Record(Ahead(key, p, r))
    /\ FreshDone(t, Ahead(key, p, r))
    /\ picksTotal' = picksTotal + 1
    /\ UNCHANGED <<world, sessionVars, hostPick, req, pl, sweepVars>>
-----------------------------------------------------------------------------
\* Faulty variants: the time is not read again; sessions are counted out that were not
\* there.
SweepBeginOldTime ==
    /\ spc = "rest" /\ spc' = "sessions" /\ UNCHANGED snow
    /\ UNCHANGED <<world, mu, shared, threadVars>>
SweepSessionsMiscounted ==
    /\ spc = "sessionsHeld" /\ spc' = "streams" /\ Unlock(Sweeper)
    /\ sessions' = [k \in Tokens |-> IF Expired(k, snow) THEN NoSession ELSE sessions[k]]
    /\ sessionsCur' = sessionsCur - Cardinality(Tokens)
    /\ UNCHANGED <<world, sessionsTot, cycleVars, hostPick, ringVars, threadVars, snow>>

\* The sweeper: SweepSessions reads the time before it takes the lock (line 447).
SweepBegin ==
    /\ spc = "rest" /\ spc' = "sessions" /\ snow' = clock
    /\ UNCHANGED <<world, mu, shared, threadVars>>

SweepLock ==
    /\ \/ spc = "sessions" /\ spc' = "sessionsHeld"
       \/ spc = "streams" /\ spc' = "streamsHeld"
    /\ Lock(Sweeper)
    /\ UNCHANGED <<world, shared, threadVars, snow>>

SweepSessions ==
    LET gone == {k \in Tokens : Expired(k, snow)} IN
    /\ spc = "sessionsHeld" /\ spc' = "streams" /\ Unlock(Sweeper)
    /\ sessions' = [k \in Tokens |-> IF k \in gone THEN NoSession ELSE sessions[k]]
    /\ sessionsCur' = sessionsCur - Cardinality(gone)
    /\ UNCHANGED <<world, sessionsTot, cycleVars, hostPick, ringVars, threadVars, snow>>

SweepStreams ==
    LET fresh == {k \in DOMAIN streams : clock - streams[k].lastSeen <= HostIdleTTL} IN
    /\ spc = "streamsHeld" /\ spc' = "rest" /\ Unlock(Sweeper)
    /\ \E K \in IF Cardinality(fresh) > StreamMax
                THEN LeftAfterEviction(fresh, StreamMax) ELSE {fresh} :
          /\ streams' = [k \in K |-> streams[k]]
          /\ hostsCur' = Cardinality(K)
    /\ UNCHANGED <<world, sessionVars, hostPick, picksTotal, ringVars, threadVars, snow>>
-----------------------------------------------------------------------------
\* The world: time passes; the interface gains, loses or changes its prefix.
Tick ==
    /\ clock < MaxClock /\ clock' = clock + 1
    /\ UNCHANGED <<conf, live, left, mu, shared, threadVars, sweepVars>>

Roam ==
    /\ conf.auto \/ conf.iface
    /\ live' \in Pools \ {live}
    /\ UNCHANGED <<conf, clock, left, mu, shared, threadVars, sweepVars>>

\* What a handler does on its own, and what it does when it gets the lock.
Step(t) ==
    \/ PickFixed(t) \/ PickIface(t) \/ PickOn(t)
    \/ StickyLookup(t) \/ StickyStore(t)
    \/ FreshFromList(t) \/ FreshNoPool(t) \/ FreshFromPool(t)
    \/ DrawSliced(t) \/ DrawCycle(t)
GetLock(t) == StickyLock(t) \/ StickyRelock(t) \/ DrawLock(t)
Sweep == SweepBegin \/ SweepSessions \/ SweepStreams

Next ==
    \/ \E t \in Threads : Request(t) \/ Step(t) \/ GetLock(t)
    \/ Sweep \/ SweepLock
    \/ Tick \/ Roam

Spec == Init /\ [][Next]_vars

\* A runnable goroutine runs; sync.Mutex does not starve a waiter (its starvation mode
\* hands the lock over after 1 ms); the ticker keeps firing.
Fairness ==
    /\ \A t \in Threads : WF_vars(Step(t)) /\ SF_vars(GetLock(t))
    /\ WF_vars(Sweep) /\ SF_vars(SweepLock)
FairSpec == Spec /\ Fairness
-----------------------------------------------------------------------------
PinnedTokens == {k \in Tokens : sessions[k] # NoSession}

WorldOK ==
    /\ conf \in Configs /\ live \in Pools
    /\ clock \in 0..MaxClock /\ left \in 0..MaxRequests
    /\ hostPick \in Nat
SessionsOK ==
    /\ sessions \in [Tokens -> Sessions \union {NoSession}]
    /\ IsFiniteSet(PinnedTokens)
    /\ sessionsCur \in Int /\ sessionsTot \in Nat
StreamsOK ==
    /\ DOMAIN streams \subseteq Keys /\ IsFiniteSet(DOMAIN streams)
    /\ \A k \in DOMAIN streams :
          streams[k] \in [pos : 0..(Len(CycleOf[k]) - 1), lastSeen : 0..clock]
    /\ hostsCur \in Nat /\ picksTotal \in Nat
ThreadsOK ==
    /\ mu \in Procs \union {Free}
    /\ pc \in [Threads -> Places] /\ req \in [Threads -> Requests]
    /\ ip \in [Threads -> IPs] /\ pl \in [Threads -> Pools]
    /\ \A t \in Threads : pc[t] \in {"lookup", "lookupHeld", "store", "storeHeld"} => Sticky(t)
SweeperOK == spc \in SweepPlaces /\ snow \in 0..clock

\* Every variable has its type, and only sticky requests reach stickyIP's sections.
TypeOK == WorldOK /\ SessionsOK /\ StreamsOK /\ RingTypeOK /\ ThreadsOK /\ SweeperOK

\* Whoever is inside a critical section holds mu, and only they do: no section is left
\* with the lock held or entered without it (proxy.go:408-434, 287-297, 447-476).
LockOK ==
    /\ \A t \in Threads : pc[t] \in Held <=> mu = t
    /\ spc \in SweepHeld <=> mu = Sweeper

\* The destination gauge is the number of tracked cycles and never passes the cap,
\* whatever eviction, recreation and sweeping do to each other (proxy.go:319-346, 462-477).
StreamsBounded == hostsCur = Cardinality(DOMAIN streams) /\ hostsCur <= StreamMax

\* The session gauge never shows fewer sessions than there are, nor a negative number:
\* no session is dropped twice or stored without being counted (proxy.go:407-455).
SessionGaugeCovers == sessionsCur >= Cardinality(PinnedTokens)

\* Once an account's request has pinned a token, no request of that account and no sweep
\* changes the pin before it expires: the second lookup of stickyIP keeps the pin of the
\* request that was first (proxy.go:422-426), and a sweep that read the time long before
\* it got the lock removes nothing that is still usable (proxy.go:446-455).
PinKeptByOwner ==
    [][\A k \in Tokens :
          Pinned(k) /\ sessions'[k] # sessions[k] =>
              sessions'[k] # NoSession /\ sessions'[k].acct # sessions[k].acct]_vars

\* A sticky request is answered with the address its token is pinned to at that moment,
\* so requests that raced for a token leave with the same address (proxy.go:407-436).
AnswerIsThePin ==
    [][\A t \in Threads :
          pc[t] \in {"lookupHeld", "storeHeld"} /\ pc'[t] = "idle" =>
              /\ sessions'[req[t].tok].ip = ip'[t]
              /\ sessions'[req[t].tok].acct = req[t].acct]_vars

\* A pick from a cycle repeats one of the last BrCap distinct addresses any handler was
\* given only if nothing better was in reach: all of the cycle is among them, or more of it
\* than there are redraws (backstopLocked, proxy.go:361-381).
CrossStreamFresh ==
    [][\A t \in Threads :
          At(t, "drawHeld") /\ ~Sliced(t) /\ pc'[t] # "drawHeld" /\ ip'[t] \in brMap =>
              LET cycle == Range(CycleOf[<<req[t].acct, req[t].dest, pl[t]>>])
              IN  \/ cycle \subseteq brMap
                  \/ Cardinality(cycle \intersect brMap) > MaxRedraws]_vars

\* Every request gets an answer: no handler waits for the lock for ever, not even behind
\* its own sticky lookup (proxy.go:418-420; CHANGELOG.md, "mutex re-lock while held").
EveryRequestAnswered == \A t \in Threads : At(t, "pick") ~> At(t, "idle")

\* An expired session does not stay: a request replaces it or the sweeper drops it.
ExpiredSessionsGo == \A k \in Tokens : Expired(k, clock) ~> ~Expired(k, clock)
=============================================================================
