\* Everything may raise; rows are pruned, and the agent restarts.
SPECIFICATION SafeSpec
CONSTANTS
    NoPid = NoPid
    MaxAncestryDepth = 1
    Kinds <- KindsMC
    LateKinds <- LateMC
    Matching <- MatchingMC
    Responding <- RespondingMC
    Scenarios <- ScenariosMC
    Outcomes = {"done", "refused", "error"}
    MaxIdle = 1
    MaxOff = 1
    MaxLag = 1
    Retention = 2
    MaxFailures = 1
    MaxRecords = 2
    MaxClock = 3
    MaxRuns = 2
INVARIANTS
    TypeOK
    CursorIsSound
    AlertedWhenCalm
    ActedOnce
    IncidentsAreSound
\* Every bound may be reached with the agent down.
CHECK_DEADLOCK FALSE
