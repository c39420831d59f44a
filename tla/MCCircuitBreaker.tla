-------------------------- MODULE MCCircuitBreaker --------------------------
(* Small instances of CircuitBreaker. *)
EXTENDS CircuitBreaker, TLC

CONSTANTS c1, c2, g1

MCGated == {g1}
MCCallers == {c1, c2} \cup MCGated

Symmetry == Permutations({c1, c2})

=============================================================================
