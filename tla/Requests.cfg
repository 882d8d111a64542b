\* One kind of request at a time, with everything around it that may go wrong.
SPECIFICATION Spec
CONSTANTS
    Pids = {own, other}
    MaxLives = 3
    MaxMisreads = 0
    Kills = {k1, k2}
    OwnPids = {own}
    Protected <- ProtectedMC
    Paths = {f1}
    Bad = {1}
    Reads = 3
    MaxWrites = 2
    MaxFailures = 1
    Handlers = {t1, t2}
    Second = t2
    AutoThread = monitor
    MaxNames = 2
    Callers = {r1, r2}
    MaxTokens = 4
    Pages = {a, b}
    Unwanted = {b}
    MaxNavigations = 3
    MaxClicks = 1
INVARIANTS
    RequestsTypeOK
    KillEndsItsTarget
    RecordsCatchUp
    NothingVanishes
    FilesMatchItems
    RotationHolds
    BlockedIsLeft
\* The worlds are bounded.
CHECK_DEADLOCK FALSE
