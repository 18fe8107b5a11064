SPECIFICATION FairSpec

CONSTANTS
    PodTraits <- MCPodTraits
    Worlds <- MCWorlds
    MaxPods = 2
    MaxDisrupted = 1
    MaxImages = 1
    MaxRetries = 1
    MaxTries = 2
    MaxPodFaults = 1
    Kinds = {"plain", "priorityclass", "ingress", "pvc"}
    MaxObjects = 2
    MaxEdits = 1
    MaxSyncFaults = 1
    Nodes = {1, 2}
    HostLists <- MCHostLists
    InitialHosts <- MCInitialHosts
    QuotaLists <- MCQuotaLists
    InitialQuotas <- MCInitialQuotas
    MaxCapacityChanges = 1
    MaxCapacityFaults = 1

INVARIANTS
    TypeOK
    CopyHasSource

PROPERTIES
    ObjectConverges
    ObjectDeletionCompletes
    PodIsBacked
    VirtualPodDeletionCompletes
    TokenSecretSettles
    CapacityConverges

\* Users need not create or edit anything, and the clusters may come to rest.
CHECK_DEADLOCK FALSE
