SPECIFICATION Spec
CONSTANTS
    c1 = c1
    c2 = c2
    p1 = p1
    Clusters = {c1, c2}
    Ports = {p1}
    NoPort = NoPort
    DefaultPort = DefaultPort
    MaxConcurrentReconciles = 1
    MirrorEditable = TRUE
    NameReuse = FALSE
    MaxFaults = 1
SYMMETRY Symmetry
INVARIANTS
    TypeOK
    BitmapMatchesMap
    StatusPortIsReserved
    AgentsHaveOwnPort
PROPERTIES
    ReservationKept
    ImplementsPool
CHECK_DEADLOCK FALSE
