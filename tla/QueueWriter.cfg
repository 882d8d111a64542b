\* Everything that can go wrong may: failed writes, late joins, a dying process.
SPECIFICATION Spec
CONSTANTS
    BatchSize = 2
    MaxItems = 5
    WriteMayFail = TRUE
    JoinMayTimeOut = TRUE
    MayCrash = TRUE
INVARIANTS
    TypeOK
    InOrderOnce
    BatchBounded
    CleanStopSettlesAll
PROPERTIES
    QuietAfterCleanStop
    PipeSafe
    EverythingSettles
    ThreadsEnd
\* A process that has ended takes no further step.
CHECK_DEADLOCK FALSE
