\* Two setters and a request in one process, a request in the other, a crash.
SPECIFICATION FairSpec
CONSTANTS
    p1 = p1
    p2 = p2
    s1 = s1
    s2 = s2
    r1 = r1
    r2 = r2
    Procs <- MCProcs
    Setters <- MCSetters
    Requests <- MCRequests
    ProcOf <- MCOneHome
    NoFlag = NoFlag
    NoSetter = NoSetter
    MaxMisses = 1
    MaxToggles = 3
    MaxCrashes = 1
INVARIANTS
    Inv
    TogglesAreImmediateAtHome
    AuditIsTheHistory
PROPERTIES
    TogglesReachEveryProcess
