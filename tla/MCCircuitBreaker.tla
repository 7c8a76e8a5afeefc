--------------------------- MODULE MCCircuitBreaker ---------------------------
(* Three concurrent callers, so that two late outcomes can race one trial call. *)
EXTENDS CircuitBreaker

CONSTANTS c1, c2, c3
===============================================================================
