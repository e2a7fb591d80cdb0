-------------------------------- MODULE Powers --------------------------------
(***************************************************************************)
(* The powers of two and the bits of a number, as the shifts of            *)
(* internal/pool/pool.go make them.                                        *)
(***************************************************************************)
EXTENDS Integers

\* 1 << n.
Pow2[n \in Nat] == IF n = 0 THEN 1 ELSE 2 * Pow2[n - 1]

\* (n >> k) & 1.
Bit(n, k) == (n \div Pow2[k]) % 2
===============================================================================
