\* A window and a --serve process; the agent may stall, everyone may leave.
SPECIFICATION SafeSpec
CONSTANTS
    Guis = {g1}
    Servers = {s1}
    MaxAttempts = 3
    MayStall = TRUE
    MayLeave = TRUE
INVARIANTS
    TypeOK
    AgentsAreOwned
PROPERTY NoZombie
\* Every attempt may be used up with all processes gone.
CHECK_DEADLOCK FALSE
