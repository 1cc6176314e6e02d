SPECIFICATION Spec
CONSTANTS
    Jobs <- MCTwo
    Kinds = {"apply", "revert"}
    MaxEdits = 1
    MaxTroubles = 1
    None = None
INVARIANT RevertIsNotARewrite
CHECK_DEADLOCK FALSE
