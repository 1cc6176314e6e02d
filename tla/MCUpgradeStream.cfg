SPECIFICATION FairSpec
CONSTANTS
    MaxConns = 2
    Attempts = 1
    Buffer = 1
    MaxTicks = 1
    MaxIntro = 1
    Outcomes = {"failed"}
    None = None
INVARIANTS
    GateIsExact
    WholeStory
    TheEndIsTrue
    HeartbeatNeverUnderneath
    NobodyLeaksAChannel
PROPERTIES
    EveryHandlerEnds
    EveryPageSettles
CHECK_DEADLOCK FALSE
