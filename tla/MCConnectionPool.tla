--------------------------- MODULE MCConnectionPool ---------------------------
(* Two callers over a pool of one connection.                              *)
EXTENDS ConnectionPool

CONSTANTS t1, t2, k1, k2

MCPair == {t1, t2}
MCConns == {k1, k2}

===============================================================================
