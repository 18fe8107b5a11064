SPECIFICATION Spec
CONSTANTS
    c1 = c1
    r1 = r1
    r2 = r2
    t1 = t1
    t2 = t2
    v1 = v1
    v2 = v2
    Clusters = {c1}
    Roles = {r1, r2}
    Tokens = {t1, t2}
    Versions = {v1, v2}
    None = None
    Lagging = {}
    MaxConcurrentReconciles = 2
    Created = {"plain", "exposed", "invalid"}
    Edits = {"spec", "upgrade"}
    MaxFaults = 1
SYMMETRY Symmetry
INVARIANTS
    TypeOK
    ReadyIsProvisioned
    NothingBeforeFinalizer
    GoneIsUnbound
PROPERTIES
    ServersNotReconfigured
CHECK_DEADLOCK FALSE
