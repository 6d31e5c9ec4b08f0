\* Every kind of queue: put-backs past the cap, cancels, retries, stops, crashes.
SPECIFICATION FairSpec
CONSTANTS
    w1 = w1
    w2 = w2
    Jobs <- MCOneJob
    Workers <- MCTwoWorkers
    NoWorker = NoWorker
    Idle = Idle
    MaxAttempts = 2
    Kinds <- MCKinds
    MaxContention = 1
    MaxHandbacks = 1
    MaxRetries = 1
    MaxCrashes = 1
INVARIANTS
    ClaimsAreHandovers
    AttemptsBounded
PROPERTIES
    StaleAttemptIsVoid
    TerminalIsFinal
    ImplementsContract
    JobsSettleBetweenPutBacks
CHECK_DEADLOCK FALSE
