SPECIFICATION FairSpec
CONSTANTS
    c1 = c1
    p1 = p1
    Clusters = {c1}
    Ports = {p1}
    NoPort = NoPort
    DefaultPort = DefaultPort
    MaxConcurrentReconciles = 1
    MirrorEditable = TRUE
    NameReuse = TRUE
    MaxFaults = 2
PROPERTY
    EventuallyHasPort
CHECK_DEADLOCK FALSE
