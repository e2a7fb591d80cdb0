-------------------------------- MODULE Cycle --------------------------------
(***************************************************************************)
(* What a rotation cycle promises to its user: in every lap each usable    *)
(* address is given out exactly once, in an order the user cannot choose,  *)
(* and nothing else is ever given out.                                     *)
(***************************************************************************)
CONSTANTS Usable, NoAddr

VARIABLES ip,     \* the address given out last
          given   \* the addresses given out in the current lap
cycleVars == <<ip, given>>

CycleInit == ip = NoAddr /\ given = {}

LapDone == given = Usable

GiveOut ==
    \E a \in Usable :
        /\ LapDone \/ a \notin given
        /\ ip' = a
        /\ given' = IF LapDone THEN {a} ELSE given \union {a}

CycleSpec == CycleInit /\ [][GiveOut]_cycleVars
=============================================================================
