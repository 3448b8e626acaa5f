-------------------------- MODULE MCCircuitBreaker --------------------------
(* The instance is given by breaker.cfg: the constants are plain numbers and *)
(* a set of calls.                                                           *)
EXTENDS CircuitBreaker
=============================================================================
