SPECIFICATION Spec
CONSTANTS
    MaxConns = 1
    Attempts = 0
    Buffer = 1
    MaxTicks = 1
    MaxIntro = 1
    Outcomes = {"failed"}
    None = None
INVARIANT LosesNothing
CHECK_DEADLOCK FALSE
