--------------------------- MODULE MCCircuitBreaker ---------------------------
(* Two plain callers and two token streams.                                *)
EXTENDS CircuitBreaker

CONSTANTS c1, c2, s1, s2

MCCalls == {c1, c2, s1, s2}
MCStreams == {s1, s2}

===============================================================================
