--------------------------------- MODULE Claim ---------------------------------
(***************************************************************************)
(* internal/claim/claim.go: picked source addresses are added to an        *)
(* interface before the dial (EnsureClaimed) and removed when idle (Sweep),*)
(* with the addresses the kernel holds, which both ends only reach through *)
(* the `ip` command, and with the one reader of them outside the package:  *)
(* auto_pool takes its prefix from the interface's addresses               *)
(* (ifaceutil.GlobalIP, proxy.livePrefix).                                 *)
(*                                                                         *)
(* Claimer.mu guards single assignments and short loops only, so each of   *)
(* its sections is one action.  Everything between them interleaves: the   *)
(* reads of the interface, the `ip` commands, the sweeper and the world.   *)
(***************************************************************************)
EXTENDS Integers, FiniteSets

CONSTANTS Handlers, Ifaces, NoIface,
          Addr, NoAddr,                \* NoAddr is Go's nil net.IP
          Prefixes, PrefixOf, OwnAddr, \* each prefix with the host's own address in it
          Configured,                  \* claim_iface, or NoIface to detect it
          AutoPool,                    \* picks follow the first interface's prefix ...
          SourceIface,                 \* ... source_iface; otherwise any address is picked
          TTL, Never,
          MaxClock, MaxRequests, MaxChanges, MaxRestarts   \* bounds of the model

Sources == Addr \union {NoAddr}
Times == 0..MaxClock

ASSUME ClaimAssumption ==
    /\ NoAddr \notin Addr /\ NoIface \notin Ifaces /\ Never \notin Times
    /\ PrefixOf \in [Addr -> Prefixes] /\ OwnAddr \in [Prefixes -> Addr]
    /\ Configured \in Ifaces \union {NoIface} /\ SourceIface \in Ifaces
    /\ AutoPool \in BOOLEAN
    /\ TTL \in Nat \ {0} /\ MaxClock \in Nat /\ MaxRequests \in Nat
    /\ MaxChanges \in Nat /\ MaxRestarts \in Nat

VARIABLES clock, left, changes, restarts,
          present,              \* the interfaces that exist
          kernel,               \* interface -> address -> how it is assigned
          claims, cached,       \* the Claimer: last-seen times, detected interface
          pc, src, name,        \* per handler: place, picked address, interface name
          spc, stale, sname, sip       \* the sweeper
bounds == <<clock, left, changes, restarts>>
world == <<present, kernel>>
claimer == <<claims, cached>>
handlers == <<pc, src, name>>
sweeper == <<spc, stale, sname, sip>>
vars == <<bounds, world, claimer, handlers, sweeper>>

\* An address is on an interface with its network's prefix length (the host's own) or
\* as a /128 (a claimed one).
Kinds == {"none", "subnet", "host"}
Places == {"idle", "name", "detect", "cache", "look", "track", "add", "use"}

Init ==
    /\ clock = 0 /\ left = MaxRequests /\ changes = MaxChanges /\ restarts = MaxRestarts
    /\ present = Ifaces
    /\ kernel \in [Ifaces -> {[a \in Addr |-> IF a \in own THEN "subnet" ELSE "none"] :
                                  own \in {{}} \union {{OwnAddr[p]} : p \in Prefixes}}]
    /\ claims = [a \in Sources |-> Never] /\ cached = NoIface
    /\ pc = [h \in Handlers |-> "idle"] /\ src = [h \in Handlers |-> NoAddr]
    /\ name = [h \in Handlers |-> NoIface]
    /\ spc = "rest" /\ stale = {} /\ sname = NoIface /\ sip = NoAddr
-----------------------------------------------------------------------------
Assigned(i, a) == i \in present /\ a \in Addr /\ kernel[i][a] # "none"

\* ifaceutil.GlobalIP: an address of the longest prefix length on the interface.
GlobalIP(i) ==
    LET hosts == {a \in Addr : Assigned(i, a) /\ kernel[i][a] = "host"} IN
    IF hosts # {} THEN hosts ELSE {a \in Addr : Assigned(i, a)}

\* What a pick may return (proxy.livePrefix and poolForPick, freshIP).
Pickable ==
    IF ~AutoPool THEN Addr
    ELSE IF GlobalIP(SourceIface) = {} THEN {NoAddr}
    ELSE {a \in Addr : \E g \in GlobalIP(SourceIface) : PrefixOf[a] = PrefixOf[g]}

Goto(h, place) == pc' = [pc EXCEPT ![h] = place]

\* dialTarget picks a source (proxy.go:510) and calls ensureClaimed.
Request(h) ==
    /\ pc[h] = "idle" /\ left > 0 /\ left' = left - 1
    /\ \E a \in Pickable : src' = [src EXCEPT ![h] = a]
    /\ Goto(h, "name")
    /\ UNCHANGED <<clock, changes, restarts, world, claimer, name, sweeper>>

\* claimIface, lines 98-103: the configured or the cached name.
KnownName == IF Configured # NoIface THEN Configured ELSE cached

ReadName(h) ==
    /\ pc[h] = "name"
    /\ name' = [name EXCEPT ![h] = KnownName]
    /\ Goto(h, IF KnownName = NoIface THEN "detect" ELSE "look")
    /\ UNCHANGED <<bounds, world, claimer, src, sweeper>>

\* ifaceHasAddrInPrefix: some network on the interface contains the address.
OnLink(i, a) ==
    \E b \in Addr : /\ a \in Addr /\ Assigned(i, b)
                    /\ b = a \/ (kernel[i][b] = "subnet" /\ PrefixOf[b] = PrefixOf[a])

\* Lines 104-117: no interface owns the prefix, or one does; its name is cached after.
DetectNone(h) ==
    /\ pc[h] = "detect" /\ ~\E i \in Ifaces : OnLink(i, src[h])
    /\ Goto(h, "use")
    /\ UNCHANGED <<bounds, world, claimer, src, name, sweeper>>

Detect(h) ==
    /\ pc[h] = "detect"
    /\ \E i \in Ifaces : OnLink(i, src[h]) /\ name' = [name EXCEPT ![h] = i]
    /\ Goto(h, "cache")
    /\ UNCHANGED <<bounds, world, claimer, src, sweeper>>

Cache(h) ==
    /\ pc[h] = "cache" /\ cached' = name[h] /\ Goto(h, "look")
    /\ UNCHANGED <<bounds, world, claims, src, name, sweeper>>

\* Lines 122-132: ParseCIDR's network is compared with the address, so only a /128 is
\* found to be on the interface; EnsureClaimed is then done, as it is when the interface
\* is gone (lines 48-51).
OnIface(i, a) == Assigned(i, a) /\ kernel[i][a] = "host"

Look(h) ==
    /\ pc[h] = "look"
    /\ Goto(h, IF name[h] \in present /\ ~OnIface(name[h], src[h]) THEN "track" ELSE "use")
    /\ UNCHANGED <<bounds, world, claimer, src, name, sweeper>>

\* Faulty variant: the entry holds the expiry.
TrackExpiry(h) ==
    /\ pc[h] = "track" /\ claims' = [claims EXCEPT ![src[h]] = clock + TTL] /\ Goto(h, "add")
    /\ UNCHANGED <<bounds, world, cached, src, name, sweeper>>

\* The entry in claims (lines 52-54).
Track(h) ==
    /\ pc[h] = "track" /\ claims' = [claims EXCEPT ![src[h]] = clock] /\ Goto(h, "add")
    /\ UNCHANGED <<bounds, world, cached, src, name, sweeper>>

\* claimAddr: `ip addr add` assigns the address unless it is assigned or the command
\* fails (no such interface, no address); the request goes on in every case.
Add(h) ==
    LET i == name[h]
        a == src[h]
    IN
    /\ pc[h] = "add" /\ Goto(h, "use")
    /\ kernel' = IF i \in present /\ a \in Addr /\ kernel[i][a] = "none"
                 THEN [kernel EXCEPT ![i][a] = "host"] ELSE kernel
    /\ UNCHANGED <<bounds, present, claimer, src, name, sweeper>>

\* The dial and the relay are over.
Finish(h) ==
    /\ pc[h] = "use" /\ Goto(h, "idle")
    /\ UNCHANGED <<bounds, world, claimer, src, name, sweeper>>
-----------------------------------------------------------------------------
Stale(a) == claims[a] # Never /\ clock - claims[a] > TTL

\* Faulty variant: a claim is collected at its TTL, not after it.
SweepCollectEarly ==
    LET old == {a \in Sources : claims[a] # Never /\ clock - claims[a] >= TTL} IN
    /\ spc = "rest" /\ old # {}
    /\ stale' = old /\ sname' = KnownName /\ spc' = "delete"
    /\ UNCHANGED <<bounds, world, claimer, handlers, sip>>

\* Sweep, lines 61-72: the stale claims and the interface are read under the lock.
SweepCollect ==
    /\ spc = "rest" /\ \E a \in Sources : Stale(a)
    /\ stale' = {a \in Sources : Stale(a)} /\ sname' = KnownName /\ spc' = "delete"
    /\ UNCHANGED <<bounds, world, claimer, handlers, sip>>

\* Lines 75-80: an entry that is no address is skipped; `ip addr del` removes a /128,
\* takes a missing one for removed, and fails when the interface is gone.
SweepSkip ==
    /\ spc = "delete"
    /\ \E a \in stale : (a = NoAddr \/ sname \notin present) /\ stale' = stale \ {a}
    /\ spc' = IF stale' = {} THEN "rest" ELSE "delete"
    /\ UNCHANGED <<bounds, world, claimer, handlers, sname, sip>>

\* Faulty variant: the address is removed whatever length it was assigned with.
SweepDeleteAny ==
    /\ spc = "delete" /\ sname \in present
    /\ \E a \in stale \ {NoAddr} :
          /\ kernel' = [kernel EXCEPT ![sname][a] = "none"]
          /\ stale' = stale \ {a} /\ sip' = a
    /\ spc' = "forget"
    /\ UNCHANGED <<bounds, present, claimer, handlers, sname>>

SweepDelete ==
    /\ spc = "delete" /\ sname \in present
    /\ \E a \in stale \ {NoAddr} :
          /\ kernel' = IF kernel[sname][a] = "host"
                       THEN [kernel EXCEPT ![sname][a] = "none"] ELSE kernel
          /\ stale' = stale \ {a} /\ sip' = a
    /\ spc' = "forget"
    /\ UNCHANGED <<bounds, present, claimer, handlers, sname>>

\* Faulty variants: the entry goes although a request refreshed it; only then.
ForgetWhen(cond) ==
    /\ spc = "forget"
    /\ claims' = IF cond THEN [claims EXCEPT ![sip] = Never] ELSE claims
    /\ spc' = IF stale = {} THEN "rest" ELSE "delete"
    /\ UNCHANGED <<bounds, world, cached, handlers, stale, sname, sip>>
SweepForgetUnchecked == ForgetWhen(TRUE)
SweepForgetFresh == ForgetWhen(~Stale(sip))

\* Lines 81-85: the entry goes unless a request refreshed it meanwhile.
SweepForget ==
    /\ spc = "forget"
    /\ claims' = IF Stale(sip) THEN [claims EXCEPT ![sip] = Never] ELSE claims
    /\ spc' = IF stale = {} THEN "rest" ELSE "delete"
    /\ UNCHANGED <<bounds, world, cached, handlers, stale, sname, sip>>
-----------------------------------------------------------------------------
\* Time, in units much longer than the instructions between the look at the interface and
\* the entry, or between the removal of an address and of its entry, and a TTL (minutes)
\* longer than any `ip addr add`.
Prompt ==
    /\ spc # "forget"
    /\ \A h \in Handlers :
          /\ pc[h] # "track"
          /\ pc[h] = "add" /\ claims[src[h]] # Never => clock - claims[src[h]] < TTL

Tick ==
    /\ clock < MaxClock /\ Prompt /\ clock' = clock + 1
    /\ UNCHANGED <<left, changes, restarts, world, claimer, handlers, sweeper>>

Change == changes > 0 /\ changes' = changes - 1

\* The router announces another prefix on the link: the host's own address changes.
Renumber(i, p) ==
    /\ Change /\ i \in present /\ kernel[i][OwnAddr[p]] = "none"
    /\ kernel' = [kernel EXCEPT ![i] = [a \in Addr |->
          IF a = OwnAddr[p] THEN "subnet" ELSE IF @[a] = "subnet" THEN "none" ELSE @[a]]]
    /\ UNCHANGED <<clock, left, restarts, present, claimer, handlers, sweeper>>

\* The interface disappears with every address it has, and comes back with one of its own.
Unplug(i) ==
    /\ Change /\ i \in present /\ present' = present \ {i}
    /\ kernel' = [kernel EXCEPT ![i] = [a \in Addr |-> "none"]]
    /\ UNCHANGED <<clock, left, restarts, claimer, handlers, sweeper>>

Plug(i, p) ==
    /\ i \notin present /\ present' = present \union {i}
    /\ kernel' = [kernel EXCEPT ![i][OwnAddr[p]] = "subnet"]
    /\ UNCHANGED <<bounds, claimer, handlers, sweeper>>

\* The process stops and starts again: nothing of the Claimer is kept (claim.New).
Restart ==
    /\ restarts > 0 /\ restarts' = restarts - 1
    /\ claims' = [a \in Sources |-> Never] /\ cached' = NoIface
    /\ pc' = [h \in Handlers |-> "idle"] /\ src' = [h \in Handlers |-> NoAddr]
    /\ name' = [h \in Handlers |-> NoIface]
    /\ spc' = "rest" /\ stale' = {} /\ sname' = NoIface /\ sip' = NoAddr
    /\ UNCHANGED <<clock, left, changes, world>>

Handle(h) ==
    \/ ReadName(h) \/ DetectNone(h) \/ Detect(h) \/ Cache(h) \/ Look(h) \/ Track(h) \/ Add(h)
Sweep == SweepCollect \/ SweepSkip \/ SweepDelete \/ SweepForget
World ==
    \/ \E i \in Ifaces : Unplug(i) \/ \E p \in Prefixes : Renumber(i, p) \/ Plug(i, p)
    \/ Restart

Next ==
    \/ \E h \in Handlers : Request(h) \/ Handle(h) \/ Finish(h)
    \/ Sweep \/ Tick \/ World

Spec == Init /\ [][Next]_vars

\* The handlers and the ticker's sweeps run; the interface comes back.
Fairness ==
    /\ \A h \in Handlers : WF_vars(Handle(h))
    /\ WF_vars(Sweep)
    /\ WF_vars(\E i \in Ifaces, p \in Prefixes : Plug(i, p))
FairSpec == Spec /\ Fairness
-----------------------------------------------------------------------------
ClaimTypeOK ==
    /\ clock \in Times /\ left \in 0..MaxRequests
    /\ changes \in 0..MaxChanges /\ restarts \in 0..MaxRestarts
    /\ present \subseteq Ifaces /\ kernel \in [Ifaces -> [Addr -> Kinds]]
    /\ claims \in [Sources -> Times \union {Never}] /\ cached \in Ifaces \union {NoIface}
    /\ pc \in [Handlers -> Places] /\ src \in [Handlers -> Sources]
    /\ name \in [Handlers -> Ifaces \union {NoIface}]
    /\ spc \in {"rest", "delete", "forget"} /\ stale \subseteq Sources
    /\ sname \in Ifaces \union {NoIface} /\ sip \in Sources

Claimed(a) == \E i \in Ifaces : Assigned(i, a) /\ kernel[i][a] = "host"

\* README.md:167, idle addresses are removed: every address the running process claimed
\* still has an entry that will expire, although a sweep deletes the address and its entry
\* in two steps and a request may claim the address again in between (claim.go:74-88).
\* After a restart this is lost: the entries are in memory only.
ClaimsAreTracked ==
    restarts = MaxRestarts => \A a \in Addr : Claimed(a) => claims[a] # Never

\* EnsureClaimed's promise kept for the TTL: on a link that has not changed, an address
\* entered no longer than the TTL ago is on an interface once the command that adds it
\* has run, whatever a sweep that collected its earlier entry still does
\* (claim.go:47-56, 60-89).
FreshClaimStays ==
    changes = MaxChanges =>
        \A a \in Addr :
            /\ claims[a] # Never /\ ~Stale(a)
            /\ ~\E h \in Handlers : src[h] = a /\ pc[h] = "add"
            => \E i \in Ifaces : Assigned(i, a)

\* An idle claim is forgotten and its address removed in the end, even when the interface
\* was gone at the first sweeps (claim.go:79, a failed removal keeps the entry).
StaleClaimsGo == \A a \in Addr : Stale(a) ~> ~Stale(a)

\* The host's own addresses survive the sweeper.  EnsureClaimed may track one (it takes an
\* address with its network's length for unassigned, claim.go:122-132), and may have added
\* one before the host had it; the sweep's `ip addr del` names a /128, so it takes back
\* only what was added (claim.go:152-156).
SweepsKeepOwn ==
    [][spc' # spc =>
          \A i \in Ifaces, a \in Addr : kernel[i][a] = "subnet" => kernel'[i][a] = "subnet"]_vars

\* README.md:176-179: the prefix of a pick is the one the interface has its own address in.
PicksLivePrefix ==
    [][\A h \in Handlers :
          AutoPool /\ pc[h] = "idle" /\ pc'[h] = "name" /\ src'[h] # NoAddr =>
              Assigned(SourceIface, OwnAddr[PrefixOf[src'[h]]])]_vars
=============================================================================
