SPECIFICATION FairSpec
CONSTANTS
    p1 = p1
    p2 = p2
    n1 = n1
    c1 = c1
    v1 = v1
    v2 = v2
    Policies = {p1, p2}
    Namespaces = {n1}
    Clusters = {c1}
    NamespaceOf <- MCNamespaceOf
    Specs <- MCSpecs
    FirstSpec <- MCFirstSpec
    Values = {v1, v2}
    None = None
    Existing = {{p1}, {p1, p2}}
    ClusterCIDR = None
    MaxBindings = 1
    MaxChanges = 1
INVARIANTS
    TypeOK
PROPERTIES
    BindingIsUsers
    BoundNamespaceConverges
    
    PolicyDeletionCompletes
CHECK_DEADLOCK FALSE
