\* Two callers, four checkouts with a retry on a pool of one connection, close_all at
\* any time; a second identity lets a replacement open before its predecessor closes.
SPECIFICATION FairSpec
CONSTANTS
    t1 = t1
    t2 = t2
    k1 = k1
    k2 = k2
    Threads <- MCPair
    Conns <- MCConns
    MaxSize = 1
    MaxAttempts = 2
    NoConn = NoConn
    MaxCheckouts = 4
    Closes = TRUE
CHECK_DEADLOCK FALSE
INVARIANTS
    CountIsExact
    EveryConnectionHasOnePlace
PROPERTIES
    NoInheritedTransaction
    EveryCheckoutEnds
