\* One monitor at a time, with everything around it that may go wrong.
SPECIFICATION Spec
CONSTANTS
    Pids = {p1}
    MaxLives = 3
    MaxMisreads = 1
    Conns = {c1, c2}
    MaxOpens = 1
    MaxFailures = 1
    MaxRollbacks = 1
    PoolSize = 1
    MaxCache = 1
    Places = {l1, l2}
    BackendOf <- BackendMC
    Removable = {l1}
    Commands = {k1}
    None = None
    MaxInstalls = 2
    MaxBadReads = 1
    Channels = {ch}
    TicksPerSecond = 2
    MaxTime = 4
    MaxRecords = 3
    MaxReadErrors = 1
    MaxStarts = 2
INVARIANTS
    MonitorsTypeOK
    LivesAreTold
    ToldPerOpening
    CleanStopKeepsAll
    PersistenceIsTold
    LogIsComplete
PROPERTY LookUpsNeverStall
\* The worlds are bounded.
CHECK_DEADLOCK FALSE
