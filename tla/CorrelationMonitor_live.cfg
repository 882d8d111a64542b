\* The database answers; the poll thread keeps being scheduled.
SPECIFICATION Spec
CONSTANTS
    NoPid = NoPid
    MaxAncestryDepth = 1
    Kinds <- KindsMC
    LateKinds <- LateMC
    Matching <- MatchingMC
    Responding <- RespondingMC
    Scenarios <- OneScenarioMC
    Outcomes = {"done"}
    MaxIdle = 1
    MaxOff = 1
    MaxLag = 0
    Retention = 1
    MaxFailures = 0
    MaxRecords = 2
    MaxClock = 2
    MaxRuns = 1
PROPERTY EventuallyAlerted
\* Every bound may be reached with the agent down.
CHECK_DEADLOCK FALSE
