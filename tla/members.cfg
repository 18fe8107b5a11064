SPECIFICATION FairSpec
CONSTANTS
    a = a
    b = b
    i1 = i1
    i2 = i2
    i3 = i3
    Pods = {a, b}
    IPs = {i1, i2, i3}
    None = None
    Late = {}
    Established <- TwoServers
    MaxFaults = 1
INVARIANTS
    TypeOK
PROPERTIES
    RunningMemberStays
    MemberLeavesFirst
    PodDeletionCompletes
    StatefulSetDeletionCompletes
CHECK_DEADLOCK FALSE
