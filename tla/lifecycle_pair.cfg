SPECIFICATION Spec
CONSTANTS
    c1 = c1
    c2 = c2
    r1 = r1
    t1 = t1
    v1 = v1
    Clusters = {c1, c2}
    Roles = {r1}
    Tokens = {t1}
    Versions = {v1}
    None = None
    Lagging = {"roles"}
    MaxConcurrentReconciles = 1
    Created = {"plain"}
    Edits = {}
    MaxFaults = 0
SYMMETRY Symmetry
PROPERTIES
    SubjectsKept
CHECK_DEADLOCK FALSE
