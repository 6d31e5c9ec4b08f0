\* Two documents and three identities: one saved and saved back, or two in turn, one full or
\* vault-scoped request of two attempts, one fault anywhere.
SPECIFICATION FairSpec
CONSTANTS
    f1 = f1
    f2 = f2
    m1 = m1
    m1p = m1p
    m2 = m2
    Files <- MCFiles
    Vault <- MCVault
    Models = {m1, m1p, m2}
    Name <- MCName
    None = None
    NoTable = NoTable
    MaxAttempts = 2
    MaxJobs = 1
    MaxSaves = 2
    MaxFaults = 1
CHECK_DEADLOCK FALSE
INVARIANTS
    Inv
    IndexedStaysSearchable
PROPERTY
    RebuildsEnd
