-------------------------------- MODULE MCPick --------------------------------
(* Small worlds for SourcePick: the cycles of one prefix walk the same addresses, each
   from its own place, as the keyed streams of one pool do. *)
EXTENDS SourcePick, TLC

CONSTANTS p1, p2, a1, a2, a3, d1, d2, CycleLen, SliceLen

MCAddr == (Prefixes \union {NoPrefix}) \X (0..(CycleLen + 1))

\* Where the cycle of a key starts: the accounts' cycles meet.
StartAt(key) == (IF key[1] = a1 THEN 0 ELSE 1) + (IF key[2] = d1 THEN 0 ELSE 2)
MCCycleOf == [key \in Keys |-> [i \in 1..CycleLen |-> <<key[3], (StartAt(key) + i) % CycleLen>>]]

\* The handler goroutines are interchangeable, and so are the prefixes: every prefix has
\* the same cycles, slices and own address.
Handlers == Permutations(Threads)
HandlersAndPrefixes == Handlers \union Permutations(Prefixes)

MCSliceOf == [s \in SlicedAccounts \X Pools |-> {s[2]} \X (1..SliceLen)]
MCIfaceAddr == [p \in Prefixes |-> <<p, CycleLen>>]

StaticPool == [fixed |-> NoAddr, iface |-> FALSE, auto |-> FALSE, hosts |-> <<>>, pool |-> TRUE]
AutoPool == [StaticPool EXCEPT !.auto = TRUE, !.pool = FALSE]
ListBehindIface == [StaticPool EXCEPT !.iface = TRUE, !.pool = FALSE,
                                      !.hosts = << <<NoPrefix, 0>>, <<NoPrefix, 1>> >>]
Fixed == [StaticPool EXCEPT !.fixed = <<NoPrefix, CycleLen + 1>>, !.pool = FALSE]

OnlyStaticPool == {StaticPool}
OnlyAutoPool == {AutoPool}
EveryMode == {AutoPool, ListBehindIface, Fixed, StaticPool}
PoolOrFixed == {StaticPool, Fixed}
=============================================================================
