\* Two requests of every kind, two addresses, one trouble or death.
SPECIFICATION Spec
CONSTANTS
    Requests = {1, 2}
    Kinds = {"deploy", "connect", "account"}
    Hosts = {h1, h2}
    Home = h1
    MaxTroubles = 1
    Garbled = Garbled
    None = None
INVARIANTS
    LocalLoginStays
PROPERTIES
    SwitchIsConfirmed
    PersonWins
    RetryRecovers
CHECK_DEADLOCK FALSE
