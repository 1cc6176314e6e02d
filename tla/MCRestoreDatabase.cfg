SPECIFICATION FairSpec
CONSTANTS
    a1 = a1
    a2 = a2
    Asides <- MCAsides
    Live = Live
    None = None
    MaxReplicas = 1
    MaxRuns = 2
    MaxFailures = 1
INVARIANTS
    TypeOK
    NothingIsLost
    LoadsAlone
    ReportIsTrue
PROPERTIES
    OneRefusalIsUndone
    SwapSpec
    RunReturns
CHECK_DEADLOCK FALSE
