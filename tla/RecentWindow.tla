----------------------------- MODULE RecentWindow -----------------------------
(***************************************************************************)
(* What the recent-address guard promises: it remembers the last Depth     *)
(* distinct addresses in the order they were first seen, and forgets the   *)
(* oldest one when a new one does not fit.                                 *)
(***************************************************************************)
EXTENDS Naturals, Sequences, Functions

CONSTANTS Addr, Depth

VARIABLE window

WindowInit == window = <<>>

See(a) ==
    /\ a \notin Range(window)
    /\ window' = Append(IF Len(window) < Depth THEN window ELSE Tail(window), a)

WindowNext == \E a \in Addr : See(a)
WindowSpec == WindowInit /\ [][WindowNext]_window
=============================================================================
