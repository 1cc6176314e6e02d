\* One workload of each kind, one trouble.
SPECIFICATION Spec
CONSTANTS
    Deployments = {d1}
    HostNetwork = {}
    StatefulSets = {s1}
    MaxTroubles = 1
    None = None
PROPERTIES
    ReadyIsReady
CHECK_DEADLOCK FALSE
