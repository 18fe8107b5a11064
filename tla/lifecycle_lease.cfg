SPECIFICATION FairSpec
CONSTANTS
    c1 = c1
    r1 = r1
    t1 = t1
    v1 = v1
    Clusters = {c1}
    Roles = {r1}
    Tokens = {t1}
    Versions = {v1}
    None = None
    Lagging = {}
    MaxConcurrentReconciles = 2
    Created = {"plain"}
    Edits = {}
    MaxFaults = 0
PROPERTIES
    LeaseIsCleanedUp
CHECK_DEADLOCK FALSE
