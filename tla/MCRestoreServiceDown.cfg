SPECIFICATION Spec
CONSTANTS
    a1 = a1
    a2 = a2
    Asides <- MCAsides
    Live = Live
    None = None
    MaxReplicas = 2
    MaxRuns = 2
    MaxFailures = 1
PROPERTIES
    FailureLeavesServiceWanted
CHECK_DEADLOCK FALSE
