SPECIFICATION FairSpec
CONSTANTS
    Operators = {1, 2}
    Grants = {1, 2}
    Requests = {1, 2}
    maxSessions = 1
    MaxTokens = 2
    MaxTroubles = 1
    None = None
INVARIANTS
    StoreIsBounded
    HeldIsCurrent
    SignOutSticks
PROPERTIES
    NothingStaysOpen
CHECK_DEADLOCK FALSE
