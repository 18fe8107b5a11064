SPECIFICATION FairSpec
CONSTANTS
    c1 = c1
    r1 = r1
    t1 = t1
    v1 = v1
    Clusters = {c1}
    Roles = {r1}
    Tokens = {t1}
    Versions = {v1}
    None = None
    Lagging = {"token", "netpol"}
    MaxConcurrentReconciles = 1
    Created = {"exposed"}
    Edits = {"policy", "resync"}
    MaxFaults = 1
PROPERTIES
    EventuallyReady
    NetworkPolicyFollowsBinding
    DeletionCompletes
CHECK_DEADLOCK FALSE
