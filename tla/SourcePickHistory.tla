-------------------------- MODULE SourcePickHistory --------------------------
(***************************************************************************)
(* SourcePick with what its promises to one site and about one prefix are  *)
(* stated over: the addresses each tracked cycle has given and how far it  *)
(* had walked by then, and the prefixes the interface had while a request  *)
(* was served.  The history is never read by the code's actions.           *)
(***************************************************************************)
EXTENDS SourcePick

CONSTANT PrefixOf       \* [Addr -> the prefix the address lies in]

ASSUME PrefixAssumption ==
    \A k \in Keys : k[3] \in Prefixes =>
        \A i \in DOMAIN CycleOf[k] : PrefixOf[CycleOf[k][i]] = k[3]

VARIABLES walked,       \* [key -> positions its cycle has walked since it was made]
          shown,        \* [key -> the <<address, position>> it has given since then]
          during        \* [thread -> prefixes that were live during its request]
history == <<walked, shown, during>>

KeyOf(t) == <<req[t].acct, req[t].dest, pl[t]>>
Position(k) == IF k \in DOMAIN streams THEN streams[k].pos ELSE 0

\* Thread t ends a full-pool pick in this step; it is from the cycle of k.
Draws(t) == At(t, "drawHeld") /\ ~Sliced(t) /\ pc'[t] # "drawHeld"
DrawsFrom(t, k) == Draws(t) /\ KeyOf(t) = k

\* What memory hygiene may drop: a cycle idle for longer than hostIdleTTL, or one seen no
\* later than those that stay when the cap makes room for a new cycle.
MayGo(k) ==
    \/ clock - streams[k].lastSeen > HostIdleTTL
    \/ /\ Cardinality(DOMAIN streams) >= StreamMax
       /\ \E t \in Threads : Draws(t) /\ KeyOf(t) \notin DOMAIN streams
       /\ \A j \in DOMAIN streams \cap DOMAIN streams' : streams[k].lastSeen <= streams[j].lastSeen
Forgotten(k) == k \in DOMAIN streams \ DOMAIN streams' /\ MayGo(k)

HInit == /\ Init
         /\ walked = [k \in Keys |-> 0] /\ shown = [k \in Keys |-> {}]
         /\ during = [t \in Threads |-> {live}]

HNext ==
    /\ Next
    /\ walked' = [k \in Keys |->
                    IF Forgotten(k) THEN 0
                    ELSE IF \E t \in Threads : DrawsFrom(t, k)
                    THEN walked[k] + Redraws(k, Position(k)) + 1 ELSE walked[k]]
    /\ shown' = [k \in Keys |->
                    IF Forgotten(k) THEN {}
                    ELSE shown[k] \union
                           {<<ip'[t], walked'[k]>> : t \in {u \in Threads : DrawsFrom(u, k)}}]
    /\ during' = [t \in Threads |->
                    IF pc'[t] = "idle" THEN {live'} ELSE during[t] \union {live'}]

HSpec == HInit /\ [][HNext]_<<vars, history>>
-----------------------------------------------------------------------------
\* README.md:17-19, "hammering one site never reuses an aggregate recently shown to that
\* site": an account is given an address for a destination again only after the cycle has
\* walked a whole lap, whatever other handlers pick in between and however many positions
\* the recent-address guard gives up, as long as the cycle has not been dropped for being
\* idle or the least recently seen (proxy.go:287-297, 319-346, 462-477).
FreshPerSite ==
    [][\A t \in Threads : Draws(t) =>
          \A s \in shown[KeyOf(t)] :
              s[1] = ip'[t] => walked'[KeyOf(t)] - s[2] >= Len(CycleOf[KeyOf(t)])]_vars

\* auto_pool: a roam starts a fresh cycle instead of reusing stale positions
\* (proxy.go:301-304): a pick lies in a prefix the interface had during the request,
\* although the prefix is read before the lock and the cycle used after it.
FollowsPrefix ==
    [][\A t \in Threads : conf.auto /\ Draws(t) => PrefixOf[ip'[t]] \in during[t]]_vars
=============================================================================
