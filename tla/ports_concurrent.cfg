SPECIFICATION Spec
CONSTANTS
    c1 = c1
    c2 = c2
    p1 = p1
    p2 = p2
    Clusters = {c1, c2}
    Ports = {p1, p2}
    NoPort = NoPort
    DefaultPort = DefaultPort
    MaxConcurrentReconciles = 2
    MirrorEditable = FALSE
    NameReuse = FALSE
    MaxFaults = 0
SYMMETRY Symmetry
INVARIANT
    AgentsHaveOwnPort
CHECK_DEADLOCK FALSE
