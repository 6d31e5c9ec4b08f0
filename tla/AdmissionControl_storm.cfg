\* Cancellation anywhere, another process, an outage and shutdown.
SPECIFICATION Spec
CONSTANTS
    c1 = c1
    b1 = b1
    b2 = b2
    h = h
    Requests = {c1, b1}
    ClassOf <- MCPair
    Remotes = {h}
    Budget = 1
    QueueMax = 3
    Deadlined = {c1}
    Cancellable <- MCAll
    ShutsDown = TRUE
    Nobody = Nobody
    MaxOutages = 1
CHECK_DEADLOCK FALSE
INVARIANTS
    Inv
    WaitersAreQueued
