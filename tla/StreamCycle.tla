----------------------------- MODULE StreamCycle -----------------------------
(***************************************************************************)
(* The stream of Stream.tla with the history its promises are about: the   *)
(* addresses of the current lap and of the last Space positions it walked. *)
(* The stream never reads the history.                                     *)
(***************************************************************************)
EXTENDS Stream, Sequences, FiniteSets

VARIABLES given,   \* addresses returned in the current lap
          walk     \* addresses at the positions walked, skipped ones included
cycleHistory == <<given, walk>>
vars == <<streamVars, cycleHistory>>

\* A sequence that remembers its last Space entries.
Remember(seq, a) == IF Len(seq) < Space THEN Append(seq, a) ELSE Append(Tail(seq), a)

Init == InitStream /\ given = {} /\ walk = <<>>

SkipOne == Skip /\ walk' = Remember(walk, Here) /\ UNCHANGED given

EmitOne ==
    /\ Emit
    /\ given' = IF given = CleanHosts THEN {Here} ELSE given \union {Here}
    /\ walk' = Remember(walk, Here)

Next == SkipOne \/ EmitOne
Spec == Init /\ [][Next]_vars
-----------------------------------------------------------------------------
\* The aggregate an address falls in at depth k: its k coarsest bits.
Group(h, k) == [i \in 0..(k - 1) |-> h[i]]

\* Breadth-first coverage of the counter (the comment on type Stream, pool.go:182-189):
\* any 2^k consecutive positions, skipped ones included, visit every aggregate at depth k
\* exactly once, whatever the start, stride and mask, for each level at once.  Every run
\* of positions is the latest one of some state.
CascadeExact ==
    \A k \in 1..Width :
        Len(walk) >= Pow2[k] =>
            Cardinality({Group(walk[i], k) : i \in (Len(walk) - Pow2[k] + 1)..Len(walk)}) = Pow2[k]

\* Stream implements the promise: each lap returns every clean address exactly once
\* (pool.go:227-230, "Skips consume positions, so no address is ever repeated") and none
\* that needsHygiene rejects, a reserved identifier or an EUI-64 marker (README.md:21-22).
C == INSTANCE Cycle WITH Usable <- CleanHosts
ImplementsCycle == C!CycleSpec
=============================================================================
