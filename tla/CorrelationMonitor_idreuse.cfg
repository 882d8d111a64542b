\* The agent comes back after all its rows have passed their retention.
SPECIFICATION SafeSpec
CONSTANTS
    NoPid = NoPid
    MaxAncestryDepth = 1
    Kinds <- KindsMC
    LateKinds <- LateMC
    Matching <- MatchingMC
    Responding <- RespondingMC
    Scenarios <- ScenariosMC
    Outcomes = {"done"}
    MaxIdle = 1
    MaxOff = 2
    MaxLag = 0
    Retention = 1
    MaxFailures = 0
    MaxRecords = 2
    MaxClock = 2
    MaxRuns = 2
INVARIANT NoneSkipped
\* Every bound may be reached with the agent down.
CHECK_DEADLOCK FALSE
