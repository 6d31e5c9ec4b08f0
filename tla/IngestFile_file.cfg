\* Upload, cancel, and a retry or a delete, with one attempt per job and one fault.
SPECIFICATION FairSpec
CONSTANTS
    w1 = w1
    w2 = w2
    Nobody = Nobody
    Workers <- MCWorkers
    Requests <- MCRoutes
    MaxAttempts = 1
    MaxJobs = 1
    MaxFaults = 1
CONSTRAINT OneRoute
INVARIANTS
    Inv
    AcceptedCancelHolds
    IndexedHasChunks
PROPERTIES
    FilesSettle
    CancelledWorkEnds
CHECK_DEADLOCK FALSE
