-------------------------- MODULE MCCircuitBreaker --------------------------
(* Small instances of CircuitBreaker.                                       *)
EXTENDS CircuitBreaker, TLC

Symmetry == Permutations(Calls)
=============================================================================
