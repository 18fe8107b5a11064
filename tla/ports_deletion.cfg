SPECIFICATION FairSpec
CONSTANTS
    c1 = c1
    p1 = p1
    Clusters = {c1}
    Ports = {p1}
    NoPort = NoPort
    DefaultPort = DefaultPort
    MaxConcurrentReconciles = 1
    MirrorEditable = FALSE
    NameReuse = FALSE
    MaxFaults = 0
PROPERTY
    DeletionCompletes
CHECK_DEADLOCK FALSE
