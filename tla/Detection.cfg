\* Every log, in the order of insertion; every configuration the check accepts,
\* equal limits included.
SPECIFICATION DetectionSpec
CONSTANTS
    NoPid = NoPid
    MaxAncestryDepth = 3
    MaxEvents = 3
    MaxTs = 2
    MaxRisk = 5
    MaxStored = 2
INVARIANTS
    MatchesAreSound
    PlainChainsAreFound
    RiskCoversSeverity
    StrictBandsAgree
\* The log is full.
CHECK_DEADLOCK FALSE
