\* The bounds of each part are at its INSTANCE in MCParts.
SPECIFICATION Spec
CONSTANTS
    None = None
    m1 = m1
    m2 = m2
    p1 = p1
    p2 = p2
    n1 = n1
    n2 = n2
    s1 = s1
    s2 = s2
    d = d
    v = v
SYMMETRY Interchangeable
INVARIANTS
    GuessesAreBounded
    CredentialsAreGoodOnce
    HooksHold
    RestoresAreWhole
    ReadsAreTrue
    GreenMeansInEffect
    BackupIsOneMoment
    RolloutIsTold
    HistoryIsTrue
    SecretsAreRead
PROPERTIES
    SavedReadsBack
CHECK_DEADLOCK FALSE
