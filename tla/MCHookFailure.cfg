SPECIFICATION Spec
CONSTANTS
    Jobs <- MCTwo
    Kinds = {"upgrade"}
    MaxEdits = 1
    MaxTroubles = 1
    None = None
INVARIANT HookFailureIsReported
CHECK_DEADLOCK FALSE
