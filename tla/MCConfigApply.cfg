SPECIFICATION FairSpec
CONSTANTS
    Jobs <- MCTwo
    Kinds = {"apply", "upgrade", "commit", "rollback", "revert"}
    MaxEdits = 1
    MaxTroubles = 1
    None = None
INVARIANTS
    InFlightIsOwned
    RowIsTrue
    AppliedWhole
    RevertWaits
    RevertGoesBackWhole
    ClusterFirst
PROPERTIES
    RowsSettle
CHECK_DEADLOCK FALSE
