\* One save, one request, one cancelled document, no fault.
SPECIFICATION Spec
CONSTANTS
    f1 = f1
    f2 = f2
    m1 = m1
    m1p = m1p
    m2 = m2
    Files <- MCFiles
    Vault <- MCVault
    Models = {m1, m1p, m2}
    Name <- MCName
    None = None
    NoTable = NoTable
    MaxAttempts = 2
    MaxJobs = 1
    MaxSaves = 1
    MaxFaults = 0
CHECK_DEADLOCK FALSE
INVARIANT
    SkippedFilesKeepTheirChunks
