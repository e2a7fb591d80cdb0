------------------------------- MODULE MCClaim -------------------------------
(* Two prefixes, each with the host's own address and one address to claim. *)
EXTENDS Claim, TLC

CONSTANTS p1, p2

MCAddr == Prefixes \X {"own", "pool"}
MCPrefixOf == [a \in MCAddr |-> a[1]]
MCOwnAddr == [p \in Prefixes |-> <<p, "own">>]
MCHandlers == Permutations(Handlers)
=============================================================================
