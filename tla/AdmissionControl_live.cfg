\* Waiters, but no lease holders, are cancelled.
SPECIFICATION FairSpec
CONSTANTS
    c1 = c1
    b1 = b1
    b2 = b2
    h = h
    Requests = {c1, b1, b2}
    ClassOf <- MCClassOf
    Remotes = {}
    Budget = 1
    QueueMax = 5
    Deadlined = {b1}
    Cancellable <- MCWaiters
    ShutsDown = FALSE
    Nobody = Nobody
    MaxOutages = 0
CHECK_DEADLOCK FALSE
INVARIANTS
    SlotsHaveOwners
PROPERTIES
    QueuedRequestsAreAnswered
