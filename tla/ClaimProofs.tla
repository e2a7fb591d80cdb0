------------------------------ MODULE ClaimProofs ------------------------------
(***************************************************************************)
(* Theorems about Claim: types, the interface a sweep works on, the host's *)
(* own addresses, and that no claim is lost where claims are on one        *)
(* interface (claim_iface is configured, or there is only one).            *)
(***************************************************************************)
EXTENDS Claim, TLAPS

USE ClaimAssumption DEF Sources, Times, Kinds, Places, bounds, world, claimer, handlers, sweeper

\* The proofs follow the groups of Next.
LEMMA ClaimTypeInit == Init => ClaimTypeOK
  BY DEF Init, ClaimTypeOK

LEMMA PickableIsSource == Pickable \subseteq Sources
  BY DEF Pickable

LEMMA KnownNameType == ClaimTypeOK => KnownName \in Ifaces \union {NoIface}
  BY DEF ClaimTypeOK, KnownName

\* A handler's steps keep the types.
LEMMA HandlerType ==
  ASSUME ClaimTypeOK, NEW h \in Handlers, Request(h) \/ Handle(h) \/ Finish(h)
  PROVE  ClaimTypeOK'
<1> USE DEF ClaimTypeOK, Goto
<1>1. CASE Request(h) BY <1>1, PickableIsSource DEF Request
<1>2. CASE ReadName(h) BY <1>2, KnownNameType DEF ReadName
<1>3. CASE DetectNone(h) BY <1>3 DEF DetectNone
<1>4. CASE Detect(h) BY <1>4 DEF Detect
<1>5. CASE Cache(h) BY <1>5 DEF Cache
<1>6. CASE Look(h) BY <1>6 DEF Look
<1>7. CASE Track(h) BY <1>7 DEF Track
<1>8. CASE Add(h)
  <2>1. kernel' \in [Ifaces -> [Addr -> Kinds]] BY <1>8 DEF Add
  <2> QED BY <1>8, <2>1 DEF Add
<1>9. CASE Finish(h) BY <1>9 DEF Finish
<1> QED BY <1>1, <1>2, <1>3, <1>4, <1>5, <1>6, <1>7, <1>8, <1>9 DEF Handle

\* So do the sweeper's.
LEMMA SweepType ==
  ASSUME ClaimTypeOK, Sweep PROVE ClaimTypeOK'
<1> USE DEF ClaimTypeOK
<1>1. CASE SweepCollect BY <1>1, KnownNameType DEF SweepCollect
<1>2. CASE SweepSkip BY <1>2 DEF SweepSkip
<1>3. CASE SweepDelete
  <2>1. kernel' \in [Ifaces -> [Addr -> Kinds]] BY <1>3 DEF SweepDelete
  <2> QED BY <1>3, <2>1 DEF SweepDelete
<1>4. CASE SweepForget BY <1>4 DEF SweepForget
<1> QED BY <1>1, <1>2, <1>3, <1>4 DEF Sweep

\* So do time, the world and a restart.
LEMMA WorldType ==
  ASSUME ClaimTypeOK, Tick \/ World \/ UNCHANGED vars PROVE ClaimTypeOK'
<1> USE DEF ClaimTypeOK
<1>1. CASE Tick BY <1>1 DEF Tick
<1>2. CASE Restart BY <1>2 DEF Restart
<1>3. ASSUME NEW i \in Ifaces, Unplug(i) PROVE ClaimTypeOK'
  BY <1>3 DEF Unplug, Change
<1>4. ASSUME NEW i \in Ifaces, NEW p \in Prefixes, Renumber(i, p) PROVE ClaimTypeOK'
  <2>1. kernel' \in [Ifaces -> [Addr -> Kinds]] BY <1>4 DEF Renumber
  <2> QED BY <1>4, <2>1 DEF Renumber, Change
<1>5. ASSUME NEW i \in Ifaces, NEW p \in Prefixes, Plug(i, p) PROVE ClaimTypeOK'
  BY <1>5 DEF Plug
<1>6. CASE UNCHANGED vars BY <1>6 DEF vars
<1> QED BY <1>1, <1>2, <1>3, <1>4, <1>5, <1>6 DEF World

LEMMA ClaimTypeStep ==
  ASSUME ClaimTypeOK, [Next]_vars PROVE ClaimTypeOK'
  BY HandlerType, SweepType, WorldType DEF Next

\* The types of Claim are right in every state, for any interfaces, addresses and bounds.
THEOREM ClaimTypeCorrect == Spec => []ClaimTypeOK
<1>1. Init => ClaimTypeOK BY ClaimTypeInit
<1>2. ClaimTypeOK /\ [Next]_vars => ClaimTypeOK' BY ClaimTypeStep
<1> QED BY <1>1, <1>2, PTL DEF Spec
-----------------------------------------------------------------------------
\* A handler that looks at an interface knows it, and so does the Claimer; whoever has
\* claims knows their interface; a sweep was begun with it.
SweepKnowsIface == spc # "rest" => sname # NoIface
Looking == {"look", "track", "add"}
NamesInv ==
    /\ \A h \in Handlers : pc[h] \in Looking \union {"cache"} => name[h] # NoIface
    /\ \A h \in Handlers : pc[h] \in Looking => KnownName # NoIface
    /\ (\E a \in Sources : claims[a] # Never) => KnownName # NoIface
    /\ SweepKnowsIface

LEMMA NamesInit == Init => NamesInv
  BY DEF Init, NamesInv, Looking, SweepKnowsIface

LEMMA NamesHandler ==
  ASSUME ClaimTypeOK, NamesInv, NEW h \in Handlers, Request(h) \/ Handle(h) \/ Finish(h)
  PROVE  NamesInv'
<1> USE DEF ClaimTypeOK, NamesInv, Goto, KnownName, SweepKnowsIface, Looking
<1>1. CASE Request(h) BY <1>1 DEF Request
<1>2. CASE ReadName(h) BY <1>2 DEF ReadName
<1>3. CASE DetectNone(h) BY <1>3 DEF DetectNone
<1>4. CASE Detect(h) BY <1>4 DEF Detect
<1>5. CASE Cache(h) BY <1>5 DEF Cache
<1>6. CASE Look(h) BY <1>6 DEF Look
<1>7. CASE Track(h) BY <1>7 DEF Track
<1>8. CASE Add(h) BY <1>8 DEF Add
<1>9. CASE Finish(h) BY <1>9 DEF Finish
<1> QED BY <1>1, <1>2, <1>3, <1>4, <1>5, <1>6, <1>7, <1>8, <1>9 DEF Handle

LEMMA NamesOther ==
  ASSUME ClaimTypeOK, NamesInv, Sweep \/ Tick \/ World \/ UNCHANGED vars PROVE NamesInv'
<1> USE DEF ClaimTypeOK, NamesInv, KnownName, SweepKnowsIface, Looking
<1>1. CASE SweepCollect BY <1>1 DEF SweepCollect, Stale
<1>2. CASE SweepSkip BY <1>2 DEF SweepSkip
<1>3. CASE SweepDelete BY <1>3 DEF SweepDelete
<1>4. CASE SweepForget BY <1>4 DEF SweepForget
<1>5. CASE Tick BY <1>5 DEF Tick
<1>6. CASE Restart BY <1>6 DEF Restart
<1>7. ASSUME NEW i \in Ifaces, Unplug(i) \/ \E p \in Prefixes : Renumber(i, p) \/ Plug(i, p)
      PROVE  NamesInv'
  BY <1>7 DEF Unplug, Renumber, Plug, Change
<1>8. CASE UNCHANGED vars BY <1>8 DEF vars
<1> QED BY <1>1, <1>2, <1>3, <1>4, <1>5, <1>6, <1>7, <1>8 DEF Sweep, World

LEMMA NamesStep ==
  ASSUME ClaimTypeOK, NamesInv, [Next]_vars PROVE NamesInv'
  BY NamesHandler, NamesOther DEF Next

\* Names are in order in every state.
THEOREM NamesAlways == Spec => []NamesInv
<1>1. ClaimTypeOK /\ NamesInv /\ [Next]_vars => NamesInv' BY NamesStep
<1> QED BY <1>1, NamesInit, ClaimTypeCorrect, PTL DEF Spec

\* A sweep always works on an interface: no entry is older than the name it was made for.
THEOREM ClaimSweepKnowsIface == Spec => []SweepKnowsIface
<1>1. NamesInv => SweepKnowsIface BY DEF NamesInv
<1> QED BY <1>1, NamesAlways, PTL

\* No step of the sweeper takes an address of the host's own away.
THEOREM ClaimSweepsKeepOwn == Spec => SweepsKeepOwn
<1> DEFINE Kept == spc' # spc => \A i \in Ifaces, a \in Addr :
                                    kernel[i][a] = "subnet" => kernel'[i][a] = "subnet"
<1>1. ASSUME ClaimTypeOK, [Next]_vars PROVE [Kept]_vars
  <2> SUFFICES ASSUME spc' # spc PROVE Kept OBVIOUS
  <2>1. SweepCollect \/ SweepSkip \/ SweepForget \/ Restart => UNCHANGED kernel
    BY DEF SweepCollect, SweepSkip, SweepForget, Restart
  <2>2. CASE SweepDelete BY <2>2 DEF SweepDelete, ClaimTypeOK
  <2>3. ASSUME NEW h \in Handlers PROVE ~(Request(h) \/ Handle(h) \/ Finish(h))
    BY DEF Request, Handle, Finish, ReadName, DetectNone, Detect, Cache, Look, Track, Add
  <2>4. ~Tick /\ ~UNCHANGED vars BY DEF Tick, vars
  <2>5. ASSUME NEW i \in Ifaces PROVE ~(Unplug(i) \/ \E p \in Prefixes : Renumber(i, p) \/ Plug(i, p))
    BY DEF Unplug, Renumber, Plug
  <2> QED BY <1>1, <2>1, <2>2, <2>3, <2>4, <2>5 DEF Next, Sweep, World
<1>2. [][Kept]_vars => SweepsKeepOwn BY PTL DEF SweepsKeepOwn
<1> QED BY <1>1, <1>2, ClaimTypeCorrect, PTL DEF Spec
-----------------------------------------------------------------------------
\* The interfaces claims may be on, and that it is one.
Usable == IF Configured # NoIface THEN {Configured} ELSE Ifaces
SingleIface == \A i, j \in Usable : i = j

\* Every name in use is the configured one, or one that was detected.
PlaceInv ==
    /\ \A h \in Handlers : name[h] \in Usable \union {NoIface}
    /\ \A h \in Handlers : pc[h] = "detect" => Configured = NoIface
    /\ cached \in Usable \union {NoIface} /\ sname \in Usable \union {NoIface}
    /\ \A i \in Ifaces, a \in Addr : kernel[i][a] = "host" => i \in Usable

\* What ClaimsAreTracked needs in between: the entry of an address about to be added is
\* fresh, so no sweep forgets it; and, before a restart, an address whose entry is about to
\* be forgotten is gone.
Entered == \A i \in Ifaces, a \in Addr : kernel[i][a] = "host" => claims[a] # Never
AddFresh == \A h \in Handlers : pc[h] = "add" => claims[src[h]] # Never /\ ~Stale(src[h])
ForgetGone == spc = "forget" /\ Stale(sip) =>
                 \A i \in Ifaces : sip \in Addr => kernel[i][sip] # "host"
TrackInv == AddFresh /\ (restarts = MaxRestarts => Entered /\ ForgetGone)

IInv == ClaimTypeOK /\ NamesInv /\ PlaceInv

LEMMA PlaceInit == Init => PlaceInv
  BY DEF Init, PlaceInv, Usable

LEMMA PlaceHandler ==
  ASSUME IInv, NEW h \in Handlers, Request(h) \/ Handle(h) \/ Finish(h)
  PROVE  PlaceInv'
<1> USE DEF IInv, ClaimTypeOK, PlaceInv, Goto, KnownName, Usable
<1>1. CASE Request(h) BY <1>1 DEF Request
<1>2. CASE ReadName(h) BY <1>2 DEF ReadName
<1>3. CASE DetectNone(h) BY <1>3 DEF DetectNone
<1>4. CASE Detect(h) BY <1>4 DEF Detect
<1>5. CASE Cache(h) BY <1>5 DEF Cache
<1>6. CASE Look(h) BY <1>6 DEF Look
<1>7. CASE Track(h) BY <1>7 DEF Track
<1>8. CASE Add(h)
  <2>1. name[h] \in Usable BY <1>8 DEF Add, NamesInv, Looking
  <2>2. \A i \in Ifaces, a \in Addr : kernel'[i][a] = "host" => i \in Usable
    BY <1>8, <2>1 DEF Add
  <2> QED BY <1>8, <2>2 DEF Add
<1>9. CASE Finish(h) BY <1>9 DEF Finish
<1> QED BY <1>1, <1>2, <1>3, <1>4, <1>5, <1>6, <1>7, <1>8, <1>9 DEF Handle

LEMMA PlaceOther ==
  ASSUME IInv, Sweep \/ Tick \/ World \/ UNCHANGED vars PROVE PlaceInv'
<1> USE DEF IInv, ClaimTypeOK, PlaceInv, KnownName, Usable
<1>1. CASE SweepCollect BY <1>1 DEF SweepCollect
<1>2. CASE SweepSkip BY <1>2 DEF SweepSkip
<1>3. CASE SweepDelete BY <1>3 DEF SweepDelete
<1>4. CASE SweepForget BY <1>4 DEF SweepForget
<1>5. CASE Tick BY <1>5 DEF Tick
<1>6. CASE Restart BY <1>6 DEF Restart
<1>7. ASSUME NEW i \in Ifaces, Unplug(i) PROVE PlaceInv' BY <1>7 DEF Unplug, Change
<1>8. ASSUME NEW i \in Ifaces, NEW p \in Prefixes, Renumber(i, p) PROVE PlaceInv'
  BY <1>8 DEF Renumber, Change
<1>9. ASSUME NEW i \in Ifaces, NEW p \in Prefixes, Plug(i, p) PROVE PlaceInv' BY <1>9 DEF Plug
<1>10. CASE UNCHANGED vars BY <1>10 DEF vars
<1> QED BY <1>1, <1>2, <1>3, <1>4, <1>5, <1>6, <1>7, <1>8, <1>9, <1>10 DEF Sweep, World

LEMMA IInvStep ==
  ASSUME IInv, [Next]_vars PROVE IInv'
  BY ClaimTypeStep, NamesStep, PlaceHandler, PlaceOther DEF IInv, Next

LEMMA TrackInit == Init => TrackInv
  BY DEF Init, TrackInv, Entered, AddFresh, ForgetGone, Stale

\* A handler enters an address before it adds it, and adds to the one interface.
LEMMA TrackHandler ==
  ASSUME IInv, TrackInv, SingleIface,
         NEW h \in Handlers, Request(h) \/ Handle(h) \/ Finish(h)
  PROVE  TrackInv'
<1> USE DEF IInv, ClaimTypeOK, TrackInv, Entered, AddFresh, ForgetGone, Stale, Goto
<1>1. CASE Request(h) BY <1>1 DEF Request
<1>2. CASE ReadName(h) BY <1>2 DEF ReadName
<1>3. CASE DetectNone(h) BY <1>3 DEF DetectNone
<1>4. CASE Detect(h) BY <1>4 DEF Detect
<1>5. CASE Cache(h) BY <1>5 DEF Cache
<1>6. CASE Look(h) BY <1>6 DEF Look
<1>7. CASE Track(h)
  <2>1. claims' = [claims EXCEPT ![src[h]] = clock] /\ UNCHANGED <<clock, restarts, kernel, src, spc, sip>>
    BY <1>7 DEF Track
  <2>2. Entered => Entered' BY <2>1
  <2>3. \A a \in Sources : Stale(a)' => Stale(a) BY <2>1
  <2>4. AddFresh' BY <1>7, <2>1, <2>3 DEF Track
  <2>5. ForgetGone => ForgetGone' BY <2>1, <2>3
  <2> QED BY <2>1, <2>2, <2>4, <2>5
<1>8. CASE Add(h)
  <2>1. UNCHANGED <<clock, restarts, claims, src, spc, sip>> BY <1>8 DEF Add
  <2>2. claims[src[h]] # Never /\ ~Stale(src[h]) BY <1>8, <2>1 DEF Add
  <2>3. \A i \in Ifaces, a \in Addr :
           kernel'[i][a] = "host" => kernel[i][a] = "host" \/ a = src[h]
    BY <1>8 DEF Add
  <2> QED BY <1>8, <2>1, <2>2, <2>3 DEF Add
<1>9. CASE Finish(h) BY <1>9 DEF Finish
<1> QED BY <1>1, <1>2, <1>3, <1>4, <1>5, <1>6, <1>7, <1>8, <1>9 DEF Handle

\* The sweeper removes from the one interface before it forgets, and forgets what is gone.
LEMMA TrackSweep ==
  ASSUME IInv, TrackInv, SingleIface, Sweep PROVE TrackInv'
<1> USE DEF IInv, ClaimTypeOK, TrackInv, Entered, AddFresh, ForgetGone, Stale
<1>1. CASE SweepCollect BY <1>1 DEF SweepCollect
<1>2. CASE SweepSkip BY <1>2 DEF SweepSkip
<1>3. CASE SweepDelete
  <2>1. sname \in Usable /\ sname \in Ifaces
    BY <1>3 DEF SweepDelete, NamesInv, SweepKnowsIface, PlaceInv
  <2>2. UNCHANGED <<clock, restarts, claims, src, pc>> BY <1>3 DEF SweepDelete
  <2>3. \A i \in Ifaces, a \in Addr : kernel'[i][a] = "host" => kernel[i][a] = "host"
    BY <1>3 DEF SweepDelete
  <2>4. sip' \in Addr => kernel'[sname][sip'] # "host" BY <1>3, <2>1 DEF SweepDelete
  <2>5. \A i \in Ifaces : sip' \in Addr => kernel'[i][sip'] # "host"
    BY <2>1, <2>3, <2>4 DEF SingleIface, PlaceInv
  <2> QED BY <2>2, <2>3, <2>5
<1>4. CASE SweepForget BY <1>4 DEF SweepForget
<1> QED BY <1>1, <1>2, <1>3, <1>4 DEF Sweep

\* Time ages entries, but an address being added not past the TTL, and none is between its
\* removal and its forgetting then (Prompt).
LEMMA TrackWorld ==
  ASSUME IInv, TrackInv, Tick \/ World \/ UNCHANGED vars PROVE TrackInv'
<1> USE DEF IInv, ClaimTypeOK, TrackInv, Entered, AddFresh, ForgetGone, Stale
<1>1. CASE Tick
  <2>1. UNCHANGED <<restarts, kernel, claims, src, pc, spc, sip>> /\ spc # "forget"
    BY <1>1 DEF Tick, Prompt
  <2>2. AddFresh => AddFresh'
    <3> SUFFICES ASSUME AddFresh, NEW h \in Handlers, pc[h] = "add" PROVE ~Stale(src[h])'
      BY <2>1
    <3>1. clock - claims[src[h]] < TTL /\ clock' = clock + 1 BY <1>1 DEF Tick, Prompt
    <3>2. claims[src[h]] \in Nat /\ clock \in Nat /\ TTL \in Nat OBVIOUS
    <3> QED BY <2>1, <3>1, <3>2
  <2> QED BY <2>1, <2>2
<1>2. CASE Restart BY <1>2 DEF Restart
<1>3. ASSUME NEW i \in Ifaces, Unplug(i) PROVE TrackInv' BY <1>3 DEF Unplug, Change
<1>4. ASSUME NEW i \in Ifaces, NEW p \in Prefixes, Renumber(i, p) PROVE TrackInv'
  <2>1. \A j \in Ifaces, a \in Addr : kernel'[j][a] = "host" => kernel[j][a] = "host"
    BY <1>4 DEF Renumber
  <2> QED BY <1>4, <2>1 DEF Renumber, Change
<1>5. ASSUME NEW i \in Ifaces, NEW p \in Prefixes, Plug(i, p) PROVE TrackInv'
  <2>1. \A j \in Ifaces, a \in Addr : kernel'[j][a] = "host" => kernel[j][a] = "host"
    BY <1>5 DEF Plug
  <2> QED BY <1>5, <2>1 DEF Plug, bounds
<1>6. CASE UNCHANGED vars BY <1>6 DEF vars
<1> QED BY <1>1, <1>2, <1>3, <1>4, <1>5, <1>6 DEF World

\* Until a restart, and where claims are on one interface, every claimed address keeps an
\* entry that will expire, whatever the sweeper's two steps race with.
THEOREM ClaimNeverLost ==
  ASSUME SingleIface PROVE Spec => []ClaimsAreTracked
<1>1. Init => IInv /\ TrackInv BY ClaimTypeInit, NamesInit, PlaceInit, TrackInit DEF IInv
<1>2. IInv /\ TrackInv /\ [Next]_vars => (IInv /\ TrackInv)'
  BY IInvStep, TrackHandler, TrackSweep, TrackWorld DEF Next
<1>3. IInv /\ TrackInv => ClaimsAreTracked
  BY DEF TrackInv, Entered, ClaimsAreTracked, Claimed, Assigned
<1> QED BY <1>1, <1>2, <1>3, PTL DEF Spec
-----------------------------------------------------------------------------
\* What FreshClaimStays needs in between, on a link that has not changed.  An address a
\* sweep has collected is on the interface until that sweep removes it; if it is a claimed
\* one its entry is still stale, because a handler enters only what it did not find, and
\* what it did not find was not there to be collected.
On(a) == \A i \in Usable : kernel[i][a] # "none"
Adding(a) == \E h \in Handlers : src[h] = a /\ pc[h] = "add"

EnteredOn ==
    \A a \in Addr : claims[a] # Never /\ ~Adding(a) =>
        On(a) \/ (spc = "forget" /\ sip = a /\ Stale(a))
CollectedOn ==
    \A a \in Addr : a \in stale =>
        /\ On(a)
        /\ \A i \in Usable : kernel[i][a] = "host" => Stale(a)
TrackFresh ==
    \A h \in Handlers : \A i \in Usable :
        pc[h] = "track" /\ src[h] \in Addr =>
            (kernel[i][src[h]] = "host" => claims[src[h]] # Never /\ ~Stale(src[h]))
ForgetOut == (spc = "forget" => sip \notin stale) /\ (spc = "rest" => stale = {})
StayInv ==
    /\ ForgetOut
    /\ changes = MaxChanges =>
          present = Ifaces /\ EnteredOn /\ CollectedOn /\ TrackFresh

LEMMA StayInit == Init => StayInv
  BY DEF Init, StayInv, ForgetOut, EnteredOn, CollectedOn, TrackFresh

LEMMA StayHandler ==
  ASSUME IInv, TrackInv, StayInv, SingleIface,
         NEW h \in Handlers, Request(h) \/ Handle(h) \/ Finish(h)
  PROVE  StayInv'
<1> USE DEF IInv, ClaimTypeOK, StayInv, ForgetOut, EnteredOn, CollectedOn, TrackFresh, On, Adding,
            Stale, Goto
<1>1. CASE Request(h) BY <1>1 DEF Request
<1>2. CASE ReadName(h) BY <1>2 DEF ReadName
<1>3. CASE DetectNone(h) BY <1>3 DEF DetectNone
<1>4. CASE Detect(h) BY <1>4 DEF Detect
<1>5. CASE Cache(h) BY <1>5 DEF Cache
<1>6. CASE Look(h)
  <2>1. name[h] \in Usable BY <1>6 DEF Look, NamesInv, Looking, PlaceInv
  <2>2. UNCHANGED <<clock, changes, present, kernel, claims, src, spc, sip, stale>>
    BY <1>6 DEF Look
  <2>3. ASSUME changes = MaxChanges, pc'[h] = "track", src[h] \in Addr, NEW i \in Usable
        PROVE  kernel[i][src[h]] # "host"
    BY <1>6, <2>1, <2>3 DEF Look, OnIface, Assigned, SingleIface
  <2>4. changes = MaxChanges => TrackFresh' BY <1>6, <2>2, <2>3 DEF Look
  <2>5. \A a : Adding(a)' <=> Adding(a) BY <1>6, <2>2 DEF Look
  <2> QED BY <2>2, <2>4, <2>5
<1>7. CASE Track(h)
  <2>1. /\ claims' = [claims EXCEPT ![src[h]] = clock]
        /\ pc' = [pc EXCEPT ![h] = "add"]
        /\ UNCHANGED <<clock, changes, present, kernel, src, spc, sip, stale>>
    BY <1>7 DEF Track
  <2>2. \A a \in Sources : a # src[h] => claims'[a] = claims[a] BY <2>1
  <2>3. ~Stale(src[h])' /\ claims'[src[h]] # Never BY <2>1
  <2>4. \A a \in Addr : (Adding(a) => Adding(a)') /\ (a = src[h] => Adding(a)')
    BY <1>7, <2>1 DEF Track
  <2>5. changes = MaxChanges => EnteredOn' BY <2>1, <2>2, <2>4
  <2>6. changes = MaxChanges => CollectedOn'
    <3> SUFFICES ASSUME changes = MaxChanges, NEW a \in Addr, a \in stale
        PROVE  On(a)' /\ \A i \in Usable : kernel'[i][a] = "host" => Stale(a)'
      BY <2>1
    <3>1. a = src[h] => \A i \in Usable : kernel[i][a] # "host" BY <1>7 DEF Track
    <3> QED BY <2>1, <2>2, <3>1
  <2>7. changes = MaxChanges => TrackFresh' BY <2>1, <2>2, <2>3
  <2> QED BY <2>1, <2>5, <2>6, <2>7
<1>8. CASE Add(h)
  <2>1. name[h] \in Usable BY <1>8 DEF Add, NamesInv, Looking, PlaceInv
  <2>2. UNCHANGED <<clock, changes, present, claims, src, spc, sip, stale>>
    BY <1>8 DEF Add
  <2>3. \A i \in Ifaces, a \in Addr :
           /\ kernel'[i][a] # kernel[i][a] => a = src[h] /\ kernel[i][a] = "none" /\ kernel'[i][a] = "host"
    BY <1>8 DEF Add
  <2>4. ASSUME changes = MaxChanges, src[h] \in Addr, NEW i \in Usable
        PROVE  kernel'[i][src[h]] # "none"
    <3>1. i = name[h] /\ i \in present /\ i \in Ifaces BY <2>1, <2>4 DEF SingleIface, Usable
    <3>2. CASE kernel[i][src[h]] = "none"
      <4>1. kernel' = [kernel EXCEPT ![i][src[h]] = "host"] BY <1>8, <2>4, <3>1, <3>2 DEF Add
      <4> QED BY <2>4, <3>1, <4>1
    <3>3. CASE kernel[i][src[h]] # "none" BY <2>3, <2>4, <3>1, <3>3
    <3> QED BY <3>2, <3>3
  <2>5. claims[src[h]] # Never /\ ~Stale(src[h]) BY <1>8 DEF TrackInv, AddFresh, Add
  <2>6. \A a \in Addr : Adding(a) => Adding(a)' \/ a = src[h] BY <1>8, <2>2 DEF Add
  <2>7. Usable \subseteq Ifaces BY DEF Usable
  <2>8. changes = MaxChanges => EnteredOn' BY <2>2, <2>3, <2>4, <2>6, <2>7
  <2>9. changes = MaxChanges => CollectedOn' BY <2>2, <2>3, <2>7
  <2>10. changes = MaxChanges => TrackFresh' BY <1>8, <2>2, <2>3, <2>5, <2>7 DEF Add
  <2> QED BY <2>2, <2>8, <2>9, <2>10
<1>9. CASE Finish(h) BY <1>9 DEF Finish
<1> QED BY <1>1, <1>2, <1>3, <1>4, <1>5, <1>6, <1>7, <1>8, <1>9 DEF Handle

LEMMA StaySweep ==
  ASSUME IInv, TrackInv, StayInv, SingleIface, Sweep PROVE StayInv'
<1> USE DEF IInv, ClaimTypeOK, StayInv, ForgetOut, EnteredOn, CollectedOn, TrackFresh, On, Adding, Stale
<1>1. CASE SweepCollect
  <2>1. \A a \in Addr : Stale(a) => ~Adding(a) BY DEF TrackInv, AddFresh
  <2> QED BY <1>1, <2>1 DEF SweepCollect
<1>2. CASE SweepSkip BY <1>2 DEF SweepSkip
<1>3. CASE SweepDelete
  <2>1. sname \in Usable /\ sname \in Ifaces
    BY <1>3 DEF SweepDelete, NamesInv, SweepKnowsIface, PlaceInv
  <2>2. /\ UNCHANGED <<clock, changes, present, claims, src, pc>>
        /\ spc = "delete" /\ spc' = "forget" /\ sip' \in Addr /\ sip' \in stale
        /\ stale' = stale \ {sip'}
    BY <1>3 DEF SweepDelete
  <2>3. \A i \in Ifaces, a \in Addr :
           kernel'[i][a] # kernel[i][a] => a = sip' /\ kernel[i][a] = "host" /\ kernel'[i][a] = "none"
    BY <1>3 DEF SweepDelete
  <2>4. Usable \subseteq Ifaces BY DEF Usable
  <2>5. changes = MaxChanges => EnteredOn' BY <2>2, <2>3, <2>4
  <2>6. changes = MaxChanges => CollectedOn' BY <2>2, <2>3, <2>4
  <2>7. changes = MaxChanges => TrackFresh' BY <2>2, <2>3, <2>4
  <2> QED BY <2>2, <2>5, <2>6, <2>7
<1>4. CASE SweepForget
  <2>1. /\ UNCHANGED <<clock, changes, present, kernel, src, pc, stale, sip>>
        /\ spc = "forget" /\ spc' \in {"rest", "delete"}
        /\ spc' = "rest" => stale = {}
    BY <1>4 DEF SweepForget
  <2>2. \A a \in Sources : a # sip => claims'[a] = claims[a] BY <1>4 DEF SweepForget
  <2>3. IF Stale(sip) THEN claims'[sip] = Never ELSE claims' = claims BY <1>4 DEF SweepForget
  <2>4. sip \notin stale BY <2>1
  <2>5. changes = MaxChanges => EnteredOn' BY <2>1, <2>2, <2>3
  <2>6. changes = MaxChanges => CollectedOn' BY <2>1, <2>2, <2>4
  <2>7. changes = MaxChanges => TrackFresh' BY <2>1, <2>2, <2>3
  <2> QED BY <2>1, <2>4, <2>5, <2>6, <2>7
<1> QED BY <1>1, <1>2, <1>3, <1>4 DEF Sweep

LEMMA StayWorld ==
  ASSUME IInv, StayInv, Tick \/ World \/ UNCHANGED vars PROVE StayInv'
<1> USE DEF IInv, ClaimTypeOK, StayInv, ForgetOut, EnteredOn, CollectedOn, TrackFresh, On, Adding, Stale
<1>1. CASE Tick
  <2>1. /\ UNCHANGED <<changes, present, kernel, claims, src, pc, spc, sip, stale>>
        /\ spc # "forget" /\ \A h \in Handlers : pc[h] # "track"
        /\ clock' = clock + 1
    BY <1>1 DEF Tick, Prompt
  <2>2. \A a \in Sources : Stale(a) => Stale(a)' BY <2>1
  <2> QED BY <2>1, <2>2
<1>2. CASE Restart BY <1>2 DEF Restart
<1>3. ASSUME NEW i \in Ifaces, Unplug(i) \/ \E p \in Prefixes : Renumber(i, p) PROVE StayInv'
  BY <1>3 DEF Unplug, Renumber, Change
<1>4. ASSUME NEW i \in Ifaces, NEW p \in Prefixes, Plug(i, p) PROVE StayInv'
  BY <1>4 DEF Plug
<1>5. CASE UNCHANGED vars BY <1>5 DEF vars
<1> QED BY <1>1, <1>2, <1>3, <1>4, <1>5 DEF World

\* On a link that has not changed, an address entered no longer than the TTL ago is on the
\* interface once it has been added, whatever sweep is under way.
THEOREM ClaimFreshStays ==
  ASSUME SingleIface PROVE Spec => []FreshClaimStays
<1> DEFINE Whole == IInv /\ TrackInv /\ StayInv
<1>1. Init => Whole
  BY ClaimTypeInit, NamesInit, PlaceInit, TrackInit, StayInit DEF IInv
<1>2. Whole /\ [Next]_vars => Whole'
  BY IInvStep, TrackHandler, TrackSweep, TrackWorld, StayHandler, StaySweep, StayWorld DEF Next
<1>3. Whole => FreshClaimStays
  <2>1. \E i \in Usable : i \in Ifaces BY DEF Usable
  <2> QED BY <2>1 DEF StayInv, EnteredOn, On, Adding, FreshClaimStays, Assigned
<1> QED BY <1>1, <1>2, <1>3, PTL DEF Spec
===============================================================================
