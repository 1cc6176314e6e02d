SPECIFICATION Spec
CONSTANTS
    Operators = {1, 2}
    Grants = {1, 2}
    Requests = {1, 2}
    maxSessions = 1
    MaxTokens = 2
    MaxTroubles = 0
    None = None
INVARIANT SignedOutHoldsNothing
CHECK_DEADLOCK FALSE
