----------------------------- MODULE ClaimHistory -----------------------------
(* Claim with the time each address was last asked for; no action reads it. *)
EXTENDS Claim

VARIABLE seen       \* address -> when EnsureClaimed last returned for it

HInit == Init /\ seen = [a \in Sources |-> Never]

HNext ==
    /\ Next
    /\ seen' = [a \in Sources |->
          IF \E h \in Handlers : src[h] = a /\ pc[h] # "use" /\ pc'[h] = "use"
          THEN clock ELSE seen[a]]

HSpec == HInit /\ [][HNext]_<<vars, seen>>
-----------------------------------------------------------------------------
\* "removes claimed addresses that have been idle for the TTL" (claim.go:58, and "last-seen
\* time per claimed address", claim.go:25): the sweeper removes no address that was asked
\* for within the TTL.
SweptAreIdle ==
    [][\A a \in Addr :
          spc = "delete" /\ spc' = "forget" /\ sip' = a /\ Claimed(a) /\ ~Claimed(a)' =>
              seen[a] = Never \/ clock - seen[a] > TTL]_vars
=============================================================================
