\* Upload, cancel and retry, without faults.
SPECIFICATION FairSpec
CONSTANTS
    w1 = w1
    w2 = w2
    Nobody = Nobody
    Workers <- MCWorkers
    Requests <- MCCancelRetry
    MaxAttempts = 1
    MaxJobs = 2
    MaxFaults = 0
PROPERTIES
    RetryAfterCancelWorks
CHECK_DEADLOCK FALSE
