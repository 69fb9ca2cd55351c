-------------------------- MODULE MCCircuitBreaker --------------------------
(* Instances of CircuitBreaker for TLC: the values are in the cfg files.    *)
EXTENDS CircuitBreaker, TLC
=============================================================================
