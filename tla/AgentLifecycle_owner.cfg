\* One window, alone on the machine, whose agent always answers /health.
SPECIFICATION SafeSpec
CONSTANTS
    Guis = {g1}
    Servers = {}
    MaxAttempts = 2
    MayStall = FALSE
    MayLeave = TRUE
INVARIANT OwnsWhatItStarted
\* Every attempt may be used up with all processes gone.
CHECK_DEADLOCK FALSE
