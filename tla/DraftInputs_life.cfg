\* A delete of the input beside one of its draft; two crashes and a late heartbeat.
SPECIFICATION FairSpec
CONSTANTS
    d1 = d1
    d2 = d2
    InputDeletes = {d1}
    DraftDeletes = {d2}
    MaxAttempts = 2
    MaxJobs = 2
    MaxCrashes = 2
    MaxLate = 1
CHECK_DEADLOCK FALSE
INVARIANTS
    Inv
    RowsKeepTheirBytes
    CancelledNeverCompletes
PROPERTIES
    ReadyIsFinal
    InputsSettle
