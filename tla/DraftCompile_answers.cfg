\* Owner requests, two processors, a changing vault, one crash or late heartbeat.
SPECIFICATION FairSpec
CONSTANTS
    w1 = w1
    w2 = w2
    Workers = {w1, w2}
    Nobody = Nobody
    MaxAttempts = 1
    RetryLimit = 1
    MaxJobs = 2
    MaxFaults = 1
CHECK_DEADLOCK FALSE
INVARIANTS
    Inv
    PublishedIsComplete
    ReadyIsApproved
    ReadyIsFresh
PROPERTIES
    NoTextIsLost
    CompilesAreAnswered
