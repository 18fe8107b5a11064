---------------------------- MODULE NodeCapacity ----------------------------
(***************************************************************************)
(* The capacity of the virtual nodes, k3k-kubelet/provider/                *)
(* configure_capacity.go.  Without mirrored nodes the kubelet on each host *)
(* node registers a virtual node of the same name and every ten seconds    *)
(* writes its capacity: the host node's, cut down to this node's share of  *)
(* the namespace's ResourceQuotas.  The kubelets do not talk to each       *)
(* other: each computes all shares from its own caches and writes its own. *)
(*                                                                         *)
(* Nodes are numbers, in the order of their names.  A resource list is a   *)
(* function on the resources it has; quantities are integers, of milli     *)
(* units for the resources the code counts in these.                       *)
(***************************************************************************)
EXTENDS Naturals, FiniteSets, FiniteSetsExt

CONSTANTS
    Nodes,              \* the host nodes, by name
    HostLists,          \* what a host node may have allocatable
    QuotaLists,         \* what a ResourceQuota may have as status.hard
    InitialHosts,       \* what the host nodes may have at first
    InitialQuotas,      \* the sets of ResourceQuotas there may be at first
    MaxCapacityChanges, \* bound on changes of a host node or of the quotas
    MaxCapacityFaults   \* bound on failed calls

\* A quantity is not negative.
IsList(l) == \A r \in DOMAIN l : l[r] \in Nat

\* The names of quota entries. Requests of core resources are not reflected in
\* a node's capacity, limits are; a quota of an extended resource or of pods,
\* "gpu" here, has the resource's own name or the prefix "requests.".
coreResources == {"cpu", "requests.cpu"}
QuotaNames == coreResources \union {"limits.cpu", "gpu", "requests.gpu"}

\* The API server admits one of the names of an extended resource only.
ASSUME CapacityAssumption ==
    /\ Nodes \subseteq Nat /\ IsFiniteSet(Nodes)
    /\ \A l \in HostLists \union QuotaLists : IsList(l)
    /\ \A l \in QuotaLists : DOMAIN l \subseteq QuotaNames
    /\ \A k, l \in QuotaLists : ~("gpu" \in DOMAIN k /\ "requests.gpu" \in DOMAIN l)
    /\ InitialHosts \subseteq [Nodes -> HostLists]
    /\ InitialQuotas \subseteq SUBSET QuotaLists
    /\ MaxCapacityChanges \in Nat
    /\ MaxCapacityFaults \in Nat

VARIABLES
    hosts,              \* the allocatable resources of the host nodes
    quotas,             \* status.hard of the ResourceQuotas of the namespace
    nodes,              \* the registered virtual nodes
    capacity,           \* status.capacity and status.allocatable of a virtual node
    view,               \* what the caches of the kubelet of a virtual node hold
    updater,            \* the running updateNodeCapacity of a node's kubelet
    changes,
    capacityFaults

capacityVars == <<hosts, quotas, nodes, capacity, view, updater, changes, capacityFaults>>
capacityBounds == <<changes, capacityFaults>>

EmptyList == [r \in {} |-> 0]
Idle == [pc |-> "idle", allocatable |-> EmptyList]

Views == [hosts : [Nodes -> HostLists], quotas : SUBSET QuotaLists, nodes : SUBSET Nodes]

CapacityTypeOK ==
    /\ hosts \in [Nodes -> HostLists]
    /\ quotas \subseteq QuotaLists
    /\ nodes \subseteq Nodes
    /\ DOMAIN capacity = Nodes /\ \A n \in Nodes : IsList(capacity[n])
    /\ view \in [nodes -> Views]
    /\ DOMAIN updater = Nodes
    /\ \A n \in Nodes : updater[n].pc \in {"idle", "update"} /\ IsList(updater[n].allocatable)
    /\ changes \in 0 .. MaxCapacityChanges
    /\ capacityFaults \in 0 .. MaxCapacityFaults

CapacityInit ==
    /\ hosts \in InitialHosts
    /\ quotas \in InitialQuotas
    /\ nodes = {}
    /\ capacity = [n \in Nodes |-> EmptyList]
    /\ view = EmptyList
    /\ updater = [n \in Nodes |-> Idle]
    /\ changes = 0
    /\ capacityFaults = 0

-----------------------------------------------------------------------------
(* The quota of the namespace and its distribution.                         *)

\* mergeQuotas: the most restrictive value of each name.
MergeQuotas(lists) ==
    [name \in UNION {DOMAIN l : l \in lists} |->
        Min({l[name] : l \in {q \in lists : name \in DOMAIN q}})]

\* The prefixes "requests." and "limits." are stripped.
ResourceOf(name) == CASE name \in {"cpu", "requests.cpu", "limits.cpu"} -> "cpu"
                      [] name \in {"gpu", "requests.gpu"}               -> "gpu"

\* filterQuotas. At most one entry is left for a resource.
FilterQuotas(list) ==
    LET names == DOMAIN list \ coreResources
    IN [r \in {ResourceOf(name) : name \in names} |->
            list[CHOOSE name \in names : ResourceOf(name) = r]]

\* The sum of the values of f on S.
Sum(f, S) == MapThenSumSet(LAMBDA n : f[n], S)

\* One cycle of distributeQuotas over the eligible nodes, the domain of room: each
\* gets the same, the first ones in the order of names one more until the division
\* comes out, and none more than its host node has room for.
Pass(room, left) ==
    LET count == Cardinality(DOMAIN room)
        rank(n) == Cardinality({m \in DOMAIN room : m <= n})
    IN [n \in DOMAIN room |->
            Min({left \div count + (IF rank(n) <= left % count THEN 1 ELSE 0), room[n]})]

\* What distributeQuotas keeps between the cycles for one resource: cap is what the
\* nodes that have the resource have of it.
Distribution(cap) ==
    [given : [DOMAIN cap -> Nat], left : Nat, eligible : SUBSET DOMAIN cap]

Cycle(cap, d) ==
    LET more == Pass([n \in d.eligible |-> cap[n] - d.given[n]], d.left)
    IN [given    |-> [n \in DOMAIN cap |-> d.given[n] + (IF n \in d.eligible THEN more[n] ELSE 0)],
        left     |-> d.left - Sum(more, d.eligible),
        eligible |-> {n \in d.eligible : d.given[n] + more[n] < cap[n]}]

\* The loop: all nodes are eligible in the first cycle, and those with room in the
\* next ones, until nothing is left or nobody has room.
Shares(cap, total) ==
    LET loop[d \in Distribution(cap)] ==
            IF d.left = 0 \/ d.eligible = {} THEN d.given ELSE loop[Cycle(cap, d)]
    IN loop[[given    |-> [n \in DOMAIN cap |-> 0],
             left     |-> total,
             eligible |-> DOMAIN cap]]

\* Mutant: the quota is divided among all host nodes, registered or not.
HostResourceMapOfAll(hostList, virtual) == hostList

\* The maps updateNodeCapacity builds: what the host nodes of the virtual nodes have.
HostResourceMap(hostList, virtual) == [n \in virtual |-> hostList[n]]

\* distributeQuotas, the list of node n: what the quota does not name in full, and
\* of what it names the node's share. There is no entry for a share of nothing, and
\* none for a node that is not among the virtual nodes.
NodeShares(n, hostMap, quota) ==
    LET have(r)  == {m \in DOMAIN hostMap : r \in DOMAIN hostMap[m]}
        share(r) == Shares([m \in have(r) |-> hostMap[m][r]], quota[r])[n]
    IN IF n \notin DOMAIN hostMap THEN EmptyList
       ELSE [r \in {r \in DOMAIN hostMap[n] : r \in DOMAIN quota => share(r) > 0} |->
                IF r \in DOMAIN quota THEN share(r) ELSE hostMap[n][r]]

-----------------------------------------------------------------------------
(* The clusters around the kubelets.                                        *)

CapacityChange == changes < MaxCapacityChanges /\ changes' = changes + 1

\* The allocatable resources of a host node change, e.g. a device fails.
ChangeHost(n) ==
    /\ CapacityChange
    /\ \E l \in HostLists \ {hosts[n]} : hosts' = [hosts EXCEPT ![n] = l]
    /\ UNCHANGED <<quotas, nodes, capacity, view, updater, capacityFaults>>

\* A ResourceQuota is created or deleted, e.g. by the policy controller.
ChangeQuotas ==
    /\ CapacityChange
    /\ \/ \E q \in QuotaLists \ quotas : quotas' = quotas \union {q}
       \/ \E q \in quotas : quotas' = quotas \ {q}
    /\ UNCHANGED <<hosts, nodes, capacity, view, updater, capacityFaults>>

\* A kubelet starts with fresh caches and registers its node. The updater, which
\* ConfigureNode starts just before, finds no node to update until then.
RegisterNode(n) ==
    /\ n \notin nodes
    /\ nodes' = nodes \union {n}
    /\ view' = [m \in nodes' |-> IF m \in nodes THEN view[m]
                                 ELSE [hosts |-> hosts, quotas |-> quotas, nodes |-> nodes]]
    /\ UNCHANGED <<hosts, quotas, capacity, updater, capacityBounds>>

\* The caches of a kubelet, one for each kind of object.
SyncHosts(n) ==
    /\ n \in nodes /\ view[n].hosts # hosts
    /\ view' = [view EXCEPT ![n].hosts = hosts]
    /\ UNCHANGED <<hosts, quotas, nodes, capacity, updater, capacityBounds>>

SyncQuotas(n) ==
    /\ n \in nodes /\ view[n].quotas # quotas
    /\ view' = [view EXCEPT ![n].quotas = quotas]
    /\ UNCHANGED <<hosts, quotas, nodes, capacity, updater, capacityBounds>>

SyncNodes(n) ==
    /\ n \in nodes /\ view[n].nodes # nodes
    /\ view' = [view EXCEPT ![n].nodes = nodes]
    /\ UNCHANGED <<hosts, quotas, nodes, capacity, updater, capacityBounds>>

-----------------------------------------------------------------------------
(* updateNodeCapacity, of the kubelet of node n.                            *)

\* What node n gets of the quotas, if there are any and the caches of its kubelet
\* hold seen.
SharesSeen(n, seen) ==
    IF seen.quotas = {} THEN EmptyList
    ELSE NodeShares(n, HostResourceMap(seen.hosts, seen.nodes),
                    FilterQuotas(MergeQuotas(seen.quotas)))

\* What the host node has, with the shares in place of what they name.
Overlaid(own, shares) ==
    [r \in DOMAIN own \union DOMAIN shares |-> IF r \in DOMAIN shares THEN shares[r] ELSE own[r]]

\* The ticker fires: the host node, the quotas, the virtual nodes and the host nodes
\* are read, all from the kubelet's caches.
ComputeCapacity(n) ==
    /\ updater[n].pc = "idle"
    /\ \E shares \in {SharesSeen(n, view[n])} :
           updater' = [updater EXCEPT ![n] =
               [pc |-> "update", allocatable |-> Overlaid(view[n].hosts[n], shares)]]
    /\ UNCHANGED <<hosts, quotas, nodes, capacity, view, capacityBounds>>

\* The virtual node is read, and unless the kubelet does not see it yet its status
\* is written.
UpdateNodeStatus(n) ==
    /\ updater[n].pc = "update"
    /\ capacity' = [capacity EXCEPT ![n] = IF n \in view[n].nodes THEN updater[n].allocatable
                                                                  ELSE @]
    /\ updater' = [updater EXCEPT ![n] = Idle]
    /\ UNCHANGED <<hosts, quotas, nodes, view, capacityBounds>>

\* A call fails, the write for example because the node was written in between: the
\* error is logged and the next tick starts over.
UpdateFails(n) ==
    /\ capacityFaults < MaxCapacityFaults
    /\ capacityFaults' = capacityFaults + 1
    /\ updater[n].pc # "idle"
    /\ updater' = [updater EXCEPT ![n] = Idle]
    /\ UNCHANGED <<hosts, quotas, nodes, capacity, view, changes>>

UpdaterStep(n) == n \in nodes /\ (ComputeCapacity(n) \/ UpdateNodeStatus(n))
CapacitySync(n) == SyncHosts(n) \/ SyncQuotas(n) \/ SyncNodes(n)

CapacityNext ==
    \/ ChangeQuotas
    \/ \E n \in Nodes : \/ ChangeHost(n) \/ RegisterNode(n)
                        \/ CapacitySync(n)
                        \/ UpdaterStep(n) \/ UpdateFails(n)

\* Watches deliver, and the ticker of a running kubelet fires.
CapacityFairness ==
    \A n \in Nodes : WF_capacityVars(UpdaterStep(n)) /\ WF_capacityVars(CapacitySync(n))

-----------------------------------------------------------------------------
(* Properties.                                                              *)

\* The smallest of the quotas' limits of a resource, from the objects themselves.
LimitNames == [cpu |-> {"limits.cpu"}, gpu |-> {"gpu", "requests.gpu"}]
Limits(r) == UNION {{q[name] : q \in {q \in quotas : name \in DOMAIN q}} : name \in LimitNames[r]}

\* What "a fair share of the available resources without exceeding what its
\* underlying host node can provide" asks of the shares of nodes that have cap of a
\* resource: they add up to the limit or to all there is, a node that could take
\* more is behind no other by more than a unit for each cycle, and none that has
\* something to give is left out if there is a unit for each.
FairShares(share, cap, limit) ==
    LET have == DOMAIN cap
    IN /\ share \in [have -> Nat]
       /\ Sum(share, have) = Min({limit, Sum(cap, have)})
       /\ \A n \in have : share[n] <= cap[n]
       /\ \A n, m \in have :
              share[n] < cap[n] => share[m] <= share[n] + Cardinality(have)
       /\ limit >= Cardinality(have) => \A n \in have : cap[n] > 0 => share[n] > 0

\* The registered nodes report what their host nodes have, never more, and all of it
\* if no quota limits it; of a limited resource they report fair shares of the
\* smallest quota, provided that it has a unit for each of them. (It does not hold
\* of a smaller quota, zero for example: distributeQuotas leaves no entry for a node
\* without a share, which then reports all its host node has. See the README.)
CapacityAgrees ==
    \A r \in {"cpu", "gpu"} :
        LET have == {n \in nodes : r \in DOMAIN hosts[n]}
        IN /\ \A n \in nodes : r \in DOMAIN capacity[n] <=> n \in have
           /\ \A n \in have : capacity[n][r] <= hosts[n][r]
           /\ Limits(r) = {} => \A n \in have : capacity[n][r] = hosts[n][r]
           /\ Limits(r) # {} /\ Min(Limits(r)) >= Cardinality(have)
                => FairShares([n \in have |-> capacity[n][r]],
                              [n \in have |-> hosts[n][r]], Min(Limits(r)))

\* The kubelets of a cluster, each with its own caches and without a word between
\* them, agree in the end.
CapacityConverges == <>[]CapacityAgrees
=============================================================================
