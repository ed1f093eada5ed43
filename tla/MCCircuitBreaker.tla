-------------------------- MODULE MCCircuitBreaker --------------------------
(* Four callers are enough to have a stale one, two probes and no slot    *)
(* left for the next.                                                      *)
EXTENDS CircuitBreaker
=============================================================================
