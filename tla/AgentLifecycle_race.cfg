\* Three processes start at once and stay.
SPECIFICATION Spec
CONSTANTS
    Guis = {g1, g2}
    Servers = {s1}
    MaxAttempts = 2
    MayStall = FALSE
    MayLeave = FALSE
PROPERTY RaceSettles
\* Every attempt may be used up with all processes gone.
CHECK_DEADLOCK FALSE
