-------------------------- MODULE MCCircuitBreaker --------------------------
(***************************************************************************)
(* Small instances of CircuitBreaker.                                      *)
(***************************************************************************)
EXTENDS CircuitBreaker, TLC

CallerSymmetry == Permutations(Callers)
=============================================================================
