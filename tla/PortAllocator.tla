--------------------------- MODULE PortAllocator ---------------------------
(***************************************************************************)
(* The kubelet port of a shared mode virtual cluster that mirrors host     *)
(* nodes: pkg/controller/cluster/agent/ports.go and the two places of the  *)
(* Cluster controller that use it, ensureAgent and finalizeCluster.        *)
(*                                                                         *)
(* One reconcile runs per cluster at a time, and at most                   *)
(* MaxConcurrentReconciles of them in all, so a reconcile is named by its  *)
(* cluster.  All of them share ONE in-memory ConfigMap, kubeletCM.  Reads  *)
(* go through the informer cache and may be stale; writes go to the API    *)
(* server, which refuses one whose resourceVersion is not the current one. *)
(* Versions are only ever compared with the current one, so each copy of   *)
(* an object carries a flag "is still the current version" instead of a    *)
(* number: a write to the object clears the flag of every other copy.      *)
(*                                                                         *)
(* Calls that touch the API server are steps of their own; the code        *)
(* between two of them that works on the shared ConfigMap is split where   *)
(* it reads it (parse) and where it writes it (save).                      *)
(***************************************************************************)
EXTENDS Integers, FiniteSets

CONSTANTS
    Clusters,                 \* namespace/name keys of shared mode Clusters
    Ports,                    \* the kubelet port range
    NoPort,                   \* Go's zero: no port in Status.KubeletPort
    DefaultPort,              \* 10250, the port of agents that do not mirror nodes
    MaxConcurrentReconciles,  \* --max-concurrent-reconciles
    MirrorEditable,           \* users edit spec.mirrorHostNodes of live clusters
    NameReuse,                \* users create a cluster under the name of a deleted one
    MaxFaults                 \* bound on failed API calls and controller restarts

ASSUME ConstantsAssumption ==
    /\ IsFiniteSet(Clusters)
    /\ NoPort \notin Ports
    /\ DefaultPort \notin Ports
    /\ NoPort # DefaultPort
    /\ MaxConcurrentReconciles \in Nat \ {0}
    /\ MirrorEditable \in BOOLEAN
    /\ NameReuse \in BOOLEAN
    /\ MaxFaults \in Nat

VARIABLES
    cluster,        \* the Cluster objects in the API server
    cached,         \* the Cluster objects in the informer cache
    cachedFresh,    \* cachedFresh[c]: cached[c] is the current version
    copy,           \* the object a running reconcile of c has read
    copyFresh,      \* copyFresh[c]: copy[c] is the current version
    queue,          \* the work queue of the controller
    pc,             \* where the reconcile of c stands
    local,          \* the local variables of the reconcile of c
    cm,             \* the port range ConfigMap in the API server
    cmCached,       \* the ConfigMap in the informer cache
    cmCachedFresh,
    kubeletCM,      \* PortAllocator.KubeletCM, shared by all reconciles
    kubeletCMFresh,
    agentPort,      \* agentPort[c]: the port the agent of c is deployed with
    faults          \* failed calls and restarts so far

objVars   == <<cluster, cached, cachedFresh>>
recVars   == <<copy, copyFresh, queue, pc, local>>
cmVars    == <<cm, cmCached, cmCachedFresh>>
memVars   == <<kubeletCM, kubeletCMFresh>>
vars      == <<cluster, cached, cachedFresh, copy, copyFresh, queue, pc, local,
               cm, cmCached, cmCachedFresh, kubeletCM, kubeletCMFresh,
               agentPort, faults>>

AnyPort  == Ports \cup {NoPort}
PortMaps == [Clusters -> AnyPort]
EmptyMap == [c \in Clusters |-> NoPort]

ClusterObjects == [life : {"absent", "live", "deleting", "gone"}, finalizer : BOOLEAN,
                   mirror : BOOLEAN, port : AnyPort]
Absent == [life |-> "absent", finalizer |-> FALSE, mirror |-> FALSE, port |-> NoPort]
Gone   == [Absent EXCEPT !.life = "gone"]
Exists(object) == object.life \in {"live", "deleting"}

\* made: the object exists and its Data holds the range key.
ConfigMaps == [made : BOOLEAN, alloc : PortMaps, used : SUBSET Ports]
NotMade    == [made |-> FALSE, alloc |-> EmptyMap, used |-> {}]
EmptyCM    == [made |-> TRUE, alloc |-> EmptyMap, used |-> {}]

Locals  == [alloc : PortMaps, used : SUBSET Ports, port : AnyPort, err : BOOLEAN]
NoLocal == [alloc |-> EmptyMap, used |-> {}, port |-> NoPort, err |-> FALSE]

AllocSteps   == {"allocGet", "allocParse", "allocSave", "allocUpdate"}
DeallocSteps == {"freeGet", "freeParse", "freeSave", "freeUpdate"}
Steps == {"idle", "addFinalizer", "reconcile", "agent", "status", "unbind",
          "removeFinalizer"} \cup AllocSteps \cup DeallocSteps

Busy == {c \in Clusters : pc[c] # "idle"}

TypeOK ==
    /\ cluster \in [Clusters -> ClusterObjects]
    /\ cached \in [Clusters -> ClusterObjects]
    /\ cachedFresh \in [Clusters -> BOOLEAN]
    /\ copy \in [Clusters -> ClusterObjects]
    /\ copyFresh \in [Clusters -> BOOLEAN]
    /\ queue \subseteq Clusters
    /\ pc \in [Clusters -> Steps]
    /\ local \in [Clusters -> Locals]
    /\ cm \in ConfigMaps
    /\ cmCached \in ConfigMaps
    /\ cmCachedFresh \in BOOLEAN
    /\ kubeletCM \in ConfigMaps
    /\ kubeletCMFresh \in BOOLEAN
    /\ agentPort \in [Clusters -> AnyPort \cup {DefaultPort}]
    /\ faults \in Nat

Init ==
    /\ cluster = [c \in Clusters |-> Absent]
    /\ cached = [c \in Clusters |-> Absent]
    /\ cachedFresh = [c \in Clusters |-> TRUE]
    /\ copy = [c \in Clusters |-> Absent]
    /\ copyFresh = [c \in Clusters |-> FALSE]
    /\ queue = {}
    /\ pc = [c \in Clusters |-> "idle"]
    /\ local = [c \in Clusters |-> NoLocal]
    /\ cm = NotMade
    /\ cmCached = NotMade
    /\ cmCachedFresh = TRUE
    /\ kubeletCM = NotMade
    /\ kubeletCMFresh = FALSE
    /\ agentPort = [c \in Clusters |-> NoPort]
    /\ faults = 0

-----------------------------------------------------------------------------
(* The API server: a write makes every other copy of the object outdated.  *)

Goto(c, step) == pc' = [pc EXCEPT ![c] = step]

StoreCluster(c, object) ==
    /\ cluster' = [cluster EXCEPT ![c] = object]
    /\ cachedFresh' = [cachedFresh EXCEPT ![c] = FALSE]
    /\ UNCHANGED cached

\* The reconcile of c returns; with an error the request goes back to the queue.
Return(c, requeue) ==
    /\ Goto(c, "idle")
    /\ copy' = [copy EXCEPT ![c] = Absent]
    /\ copyFresh' = [copyFresh EXCEPT ![c] = FALSE]
    /\ local' = [local EXCEPT ![c] = NoLocal]
    /\ queue' = IF requeue THEN queue \cup {c} ELSE queue

UserWrites(c, object) ==
    /\ StoreCluster(c, object)
    /\ copyFresh' = [copyFresh EXCEPT ![c] = FALSE]
    /\ UNCHANGED <<copy, queue, pc, local, cmVars, memVars, agentPort, faults>>

CreateCluster(c) ==
    /\ cluster[c].life = "absent" \/ (NameReuse /\ cluster[c].life = "gone")
    /\ \E m \in BOOLEAN :
          UserWrites(c, [Absent EXCEPT !.life = "live", !.mirror = m])

EditMirrorHostNodes(c) ==
    /\ MirrorEditable
    /\ cluster[c].life = "live"
    /\ UserWrites(c, [cluster[c] EXCEPT !.mirror = ~cluster[c].mirror])

DeleteCluster(c) ==
    /\ cluster[c].life = "live"
    /\ UserWrites(c, IF cluster[c].finalizer
                     THEN [cluster[c] EXCEPT !.life = "deleting"]
                     ELSE Gone)

\* The watch delivers the current Cluster, and the event enqueues it.
SyncCluster(c) ==
    /\ ~cachedFresh[c]
    /\ cached' = [cached EXCEPT ![c] = cluster[c]]
    /\ cachedFresh' = [cachedFresh EXCEPT ![c] = TRUE]
    /\ queue' = queue \cup {c}
    /\ UNCHANGED <<cluster, copy, copyFresh, pc, local, cmVars, memVars, agentPort, faults>>

\* An event of a Namespace, StorageClass, StatefulSet or Service enqueues c (one
\* that comes during a reconcile has the effect of one right after it).
OtherEvent(c) ==
    /\ pc[c] = "idle"
    /\ Exists(cached[c])
    /\ c \notin queue
    /\ queue' = queue \cup {c}
    /\ UNCHANGED <<objVars, copy, copyFresh, pc, local, cmVars, memVars, agentPort, faults>>

SyncConfigMap ==
    /\ ~cmCachedFresh
    /\ cmCached' = cm
    /\ cmCachedFresh' = TRUE
    /\ UNCHANGED <<objVars, recVars, cm, memVars, agentPort, faults>>

-----------------------------------------------------------------------------
(* PortAllocator.                                                           *)

\* InitPortAllocatorConfig: the manager's runnable, once per process, beside
\* the reconciles.
InitPortAllocatorConfig ==
    /\ ~kubeletCM.made
    /\ cmCached.made \/ ~cm.made
    /\ IF cmCached.made
       THEN /\ kubeletCM' = cmCached
            /\ kubeletCMFresh' = cmCachedFresh
            /\ UNCHANGED cmVars
       ELSE /\ kubeletCM' = EmptyCM
            /\ kubeletCMFresh' = TRUE
            /\ cm' = EmptyCM
            /\ cmCachedFresh' = FALSE
            /\ UNCHANGED cmCached
    /\ UNCHANGED <<objVars, recVars, agentPort, faults>>

\* Mutant: the error of the allocator is dropped.
AllocFailsSilently(c) ==
    /\ Goto(c, "status")
    /\ local' = [local EXCEPT ![c] = NoLocal]
    /\ UNCHANGED <<copy, copyFresh, queue>>

\* An error of the allocator. allocatePort's ends reconcile, whose status is
\* still written; deallocatePort's ends finalizeCluster.
AllocFails(c) ==
    /\ Goto(c, "status")
    /\ local' = [local EXCEPT ![c] = [NoLocal EXCEPT !.err = TRUE]]
    /\ UNCHANGED <<copy, copyFresh, queue>>

AllocatorFails(c) == IF pc[c] \in AllocSteps THEN AllocFails(c) ELSE Return(c, TRUE)

\* getOrCreate: when the cache has no ConfigMap the shared object is emptied
\* before Create, which fails because the API server already has one.
GetOrCreate(c, next) ==
    /\ IF kubeletCM.made /\ cmCached.made
       THEN /\ kubeletCM' = cmCached
            /\ kubeletCMFresh' = cmCachedFresh
            /\ Goto(c, next)
            /\ UNCHANGED <<copy, copyFresh, queue, local>>
       ELSE /\ kubeletCM' = IF kubeletCM.made THEN EmptyCM ELSE kubeletCM
            /\ UNCHANGED kubeletCMFresh
            /\ AllocatorFails(c)
    /\ UNCHANGED <<objVars, cmVars, agentPort, faults>>

AllocGet(c) == pc[c] = "allocGet" /\ GetOrCreate(c, "allocParse")

\* Mutant: AllocateNext on an empty bitmap.
AllPorts == Ports

\* The ports AllocateNext may choose from.
FreePorts == Ports \ kubeletCM.used

\* The map and bitmap after AllocateNext gave p to c.
Assigned(c, p) ==
    [alloc |-> [kubeletCM.alloc EXCEPT ![c] = p], used |-> kubeletCM.used \cup {p},
     port |-> p, err |-> FALSE]

\* parsePortMap, the early return for a cluster that has a port, AllocateNext.
AllocParse(c) ==
    /\ pc[c] = "allocParse"
    /\ \/ /\ kubeletCM.alloc[c] # NoPort
          /\ local' = [local EXCEPT ![c].port = kubeletCM.alloc[c]]
          /\ Goto(c, "agent")
          /\ UNCHANGED <<copy, copyFresh, queue>>
       \/ /\ kubeletCM.alloc[c] = NoPort
          /\ \E p \in FreePorts : local' = [local EXCEPT ![c] = Assigned(c, p)]
          /\ Goto(c, "allocSave")
          /\ UNCHANGED <<copy, copyFresh, queue>>
       \/ /\ kubeletCM.alloc[c] = NoPort
          /\ FreePorts = {}
          /\ AllocFails(c)
    /\ UNCHANGED <<objVars, cmVars, memVars, agentPort, faults>>

\* saveSnapshot writes the reconcile's map and bitmap into the shared object,
\* and leaves its resourceVersion alone.
SaveSnapshot(c, next) ==
    /\ kubeletCM' = [kubeletCM EXCEPT !.alloc = local[c].alloc, !.used = local[c].used]
    /\ Goto(c, next)
    /\ UNCHANGED <<objVars, copy, copyFresh, queue, local, cmVars, kubeletCMFresh,
                   agentPort, faults>>

AllocSave(c) == pc[c] = "allocSave" /\ SaveSnapshot(c, "allocUpdate")

\* The API server accepts the shared object's resourceVersion.
UpdateAccepted == kubeletCMFresh

\* Update of the ConfigMap: the reply is decoded into the shared object.
StoreConfigMap ==
    /\ cm' = kubeletCM
    /\ cmCachedFresh' = FALSE
    /\ UNCHANGED cmCached

\* Mutant: the object is sent without its resourceVersion, and overwrites
\* whatever is there.
UpdateConfigMapForced(c, next) ==
    /\ StoreConfigMap
    /\ Goto(c, next)
    /\ kubeletCMFresh' = TRUE
    /\ UNCHANGED <<copy, copyFresh, queue, local, kubeletCM, objVars, agentPort, faults>>

\* Mutant: the error of Update is not returned.
UpdateConfigMapUnchecked(c, next) ==
    /\ IF UpdateAccepted THEN StoreConfigMap ELSE UNCHANGED cmVars
    /\ Goto(c, next)
    /\ UNCHANGED <<copy, copyFresh, queue, local, objVars, memVars, agentPort, faults>>

UpdateConfigMap(c, next) ==
    /\ IF UpdateAccepted
       THEN /\ StoreConfigMap
            /\ Goto(c, next)
            /\ UNCHANGED <<copy, copyFresh, queue, local>>
       ELSE /\ AllocatorFails(c)
            /\ UNCHANGED cmVars
    /\ UNCHANGED <<objVars, memVars, agentPort, faults>>

AllocUpdate(c) == pc[c] = "allocUpdate" /\ UpdateConfigMap(c, "agent")

\* Mutant: the port leaves the map and stays in the bitmap.
ReleasedFromMapOnly(c) ==
    [alloc |-> [kubeletCM.alloc EXCEPT ![c] = NoPort], used |-> kubeletCM.used,
     port |-> NoPort, err |-> FALSE]

\* The map and bitmap after Release of c's port.
Released(c) ==
    [alloc |-> [kubeletCM.alloc EXCEPT ![c] = NoPort],
     used |-> kubeletCM.used \ {copy[c].port}, port |-> NoPort, err |-> FALSE]

FreeGet(c) == pc[c] = "freeGet" /\ GetOrCreate(c, "freeParse")

\* deallocatePort: the port to release is the one in the Cluster's status.
FreeParse(c) ==
    /\ pc[c] = "freeParse"
    /\ \/ /\ kubeletCM.alloc[c] = NoPort
          /\ Goto(c, "freeUpdate")
          /\ UNCHANGED <<copy, copyFresh, queue, local>>
       \/ /\ kubeletCM.alloc[c] # NoPort
          /\ kubeletCM.alloc[c] # copy[c].port
          /\ Return(c, TRUE)
       \/ /\ kubeletCM.alloc[c] # NoPort
          /\ kubeletCM.alloc[c] = copy[c].port
          /\ local' = [local EXCEPT ![c] = Released(c)]
          /\ Goto(c, "freeSave")
          /\ UNCHANGED <<copy, copyFresh, queue>>
    /\ UNCHANGED <<objVars, cmVars, memVars, agentPort, faults>>

FreeSave(c) == pc[c] = "freeSave" /\ SaveSnapshot(c, "freeUpdate")

FreeUpdate(c) == pc[c] = "freeUpdate" /\ UpdateConfigMap(c, "removeFinalizer")

-----------------------------------------------------------------------------
(* The Cluster controller.                                                  *)

\* Reconcile's early branches (the write of the initial phase, which no port
\* depends on, is ClusterLifecycle's).
FirstStep(object) ==
    CASE ~Exists(object)                               -> "idle"
      [] object.life = "deleting"                      -> "unbind"
      [] object.life = "live" /\ ~object.finalizer     -> "addFinalizer"
      [] object.life = "live" /\ object.finalizer      -> "reconcile"

StartReconcile(c) ==
    /\ pc[c] = "idle"
    /\ c \in queue
    /\ Cardinality(Busy) < MaxConcurrentReconciles
    /\ queue' = queue \ {c}
    /\ Goto(c, FirstStep(cached[c]))
    /\ copy' = [copy EXCEPT ![c] = IF Exists(cached[c]) THEN cached[c] ELSE Absent]
    /\ copyFresh' = [copyFresh EXCEPT ![c] = cachedFresh[c] /\ Exists(cached[c])]
    /\ UNCHANGED <<objVars, local, cmVars, memVars, agentPort, faults>>

\* A write of the Cluster that ends the reconcile; a conflict is an error.
UpdateCluster(c, object, requeue) ==
    /\ IF copyFresh[c]
       THEN StoreCluster(c, object) /\ Return(c, requeue)
       ELSE Return(c, TRUE) /\ UNCHANGED objVars
    /\ UNCHANGED <<cmVars, memVars, faults>>

AddFinalizer(c) ==
    /\ pc[c] = "addFinalizer"
    /\ UpdateCluster(c, [copy[c] EXCEPT !.finalizer = TRUE], FALSE)
    /\ UNCHANGED agentPort

\* The steps of reconcile up to ensureAgent; that one of them ends it early
\* (an invalid spec, a server that is not ready, ...) is CallFails.
ReconcileUpToAgent(c) ==
    /\ pc[c] = "reconcile"
    /\ Goto(c, IF copy[c].mirror THEN "allocGet" ELSE "agent")
    /\ UNCHANGED <<objVars, copy, copyFresh, queue, local, cmVars, memVars, agentPort, faults>>

\* EnsureResources of the shared agent, with the port it was given.
EnsureAgent(c) ==
    /\ pc[c] = "agent"
    /\ agentPort' = [agentPort EXCEPT ![c] = IF copy[c].mirror THEN local[c].port
                                                               ELSE DefaultPort]
    /\ Goto(c, "status")
    /\ UNCHANGED <<objVars, copy, copyFresh, queue, local, cmVars, memVars, faults>>

\* Mutant: the status also reports the default port.
StatusPortOrDefault(c) == IF local[c].port = NoPort THEN DefaultPort ELSE local[c].port

\* ensureAgent sets Status.KubeletPort before EnsureResources.
StatusPort(c) == IF local[c].port = NoPort THEN copy[c].port ELSE local[c].port

\* The Status().Update of Reconcile: due when the status differs, be it in the
\* port or in a condition or phase (a choice here).
UpdateStatus(c) ==
    /\ pc[c] = "status"
    /\ \/ UpdateCluster(c, [copy[c] EXCEPT !.port = StatusPort(c)], local[c].err)
       \/ /\ StatusPort(c) = copy[c].port
          /\ Return(c, local[c].err)
          /\ UNCHANGED <<objVars, cmVars, memVars, faults>>
    /\ UNCHANGED agentPort

\* finalizeCluster up to the ports.
UnbindClusterRoles(c) ==
    /\ pc[c] = "unbind"
    /\ Goto(c, IF copy[c].mirror THEN "freeGet" ELSE "removeFinalizer")
    /\ UNCHANGED <<objVars, copy, copyFresh, queue, local, cmVars, memVars, agentPort, faults>>

\* With its last finalizer removed the Cluster disappears, and so does the
\* agent it owns (garbage collection, taken as immediate).
RemoveFinalizer(c) ==
    /\ pc[c] = "removeFinalizer"
    /\ UpdateCluster(c, Gone, FALSE)
    /\ agentPort' = IF copyFresh[c] THEN [agentPort EXCEPT ![c] = NoPort] ELSE agentPort

-----------------------------------------------------------------------------
(* Failures.                                                                *)

CallFails(c) ==
    /\ pc[c] \in {"addFinalizer", "reconcile", "agent", "status", "unbind", "removeFinalizer",
                  "allocUpdate", "freeUpdate"}
    /\ faults < MaxFaults
    /\ faults' = faults + 1
    /\ \/ /\ pc[c] \in {"reconcile", "allocUpdate"}
          /\ AllocFails(c)
       \/ /\ pc[c] = "agent"       \* the port is in the status by now
          /\ Goto(c, "status")
          /\ local' = [local EXCEPT ![c].err = TRUE]
          /\ UNCHANGED <<copy, copyFresh, queue>>
       \/ /\ pc[c] \notin {"reconcile", "allocUpdate", "agent"}
          /\ Return(c, TRUE)
    /\ UNCHANGED <<objVars, cmVars, memVars, agentPort>>

\* The API server stores the ConfigMap and the reply is lost: the code sees an
\* error, and the shared object keeps the old resourceVersion.
ReplyLost(c) ==
    /\ pc[c] \in {"allocUpdate", "freeUpdate"}
    /\ UpdateAccepted
    /\ faults < MaxFaults
    /\ faults' = faults + 1
    /\ StoreConfigMap
    /\ kubeletCMFresh' = FALSE
    /\ AllocatorFails(c)
    /\ UNCHANGED <<objVars, kubeletCM, agentPort>>

\* The controller process dies and a new one starts with a full list.
Restart ==
    /\ faults < MaxFaults
    /\ faults' = faults + 1
    /\ cached' = cluster
    /\ cachedFresh' = [c \in Clusters |-> TRUE]
    /\ copy' = [c \in Clusters |-> Absent]
    /\ copyFresh' = [c \in Clusters |-> FALSE]
    /\ queue' = {c \in Clusters : Exists(cluster[c])}
    /\ pc' = [c \in Clusters |-> "idle"]
    /\ local' = [c \in Clusters |-> NoLocal]
    /\ cmCached' = cm
    /\ cmCachedFresh' = TRUE
    /\ kubeletCM' = NotMade
    /\ kubeletCMFresh' = FALSE
    /\ UNCHANGED <<cluster, cm, agentPort>>

-----------------------------------------------------------------------------
ReconcileStep(c) ==
    \/ AddFinalizer(c) \/ ReconcileUpToAgent(c) \/ EnsureAgent(c) \/ UpdateStatus(c)
    \/ AllocGet(c) \/ AllocParse(c) \/ AllocSave(c) \/ AllocUpdate(c)
    \/ UnbindClusterRoles(c) \/ RemoveFinalizer(c)
    \/ FreeGet(c) \/ FreeParse(c) \/ FreeSave(c) \/ FreeUpdate(c)

Environment(c) ==
    \/ CreateCluster(c) \/ EditMirrorHostNodes(c) \/ DeleteCluster(c)
    \/ OtherEvent(c) \/ CallFails(c) \/ ReplyLost(c)

Next ==
    \/ \E c \in Clusters : \/ SyncCluster(c) \/ StartReconcile(c)
                           \/ ReconcileStep(c) \/ Environment(c)
    \/ SyncConfigMap
    \/ InitPortAllocatorConfig
    \/ Restart

Spec == Init /\ [][Next]_vars

\* Watches deliver, the manager runs its runnables, a reconcile that has been
\* started goes on, and a queued request is not passed over for ever.
Fairness ==
    /\ WF_vars(SyncConfigMap)
    /\ WF_vars(InitPortAllocatorConfig)
    /\ \A c \in Clusters : /\ WF_vars(SyncCluster(c))
                           /\ WF_vars(ReconcileStep(c))
                           /\ SF_vars(StartReconcile(c))

FairSpec == Spec /\ Fairness

-----------------------------------------------------------------------------
(* Properties.                                                              *)

\* ports.go keeps the same fact twice, in the allocatedPorts map and in the
\* snapshot bitmap: the bitmap holds exactly the ports of the map, and no port
\* stands in the map twice.
BitmapMatchesMap ==
    /\ cm.used = {cm.alloc[c] : c \in Clusters} \ {NoPort}
    /\ \A c, d \in Clusters : cm.alloc[c] = cm.alloc[d] => c = d \/ cm.alloc[c] = NoPort

\* The KubeletPort in the status of a cluster that is not being deleted is the
\* port the ConfigMap reserves for it: the two objects are written by separate
\* calls, either of which can fail or find its copy outdated.
StatusPortIsReserved ==
    \A c \in Clusters :
        cluster[c].life = "live" /\ cluster[c].port # NoPort => cm.alloc[c] = cluster[c].port

\* The agents that mirror host nodes run on the host network, so two live
\* clusters whose agents are deployed with a port of the range never share it.
AgentsHaveOwnPort ==
    \A c, d \in Clusters :
        /\ c # d
        /\ cluster[c].life = "live" /\ agentPort[c] \in Ports
        /\ cluster[d].life = "live"
        => agentPort[c] # agentPort[d]

\* No step takes the port of a live cluster away or replaces it: whatever the
\* other reconciles, restarts and lost replies do, the reservation stays until
\* the cluster itself is finalized.
ReservationKept ==
    [][\A c \in Clusters :
          cluster[c].life = "live" /\ cm.alloc[c] # NoPort => cm'.alloc[c] = cm.alloc[c]]_vars

\* The ConfigMap's map implements the abstract pool of leases.
Pool == INSTANCE PortPool WITH lease <- cm.alloc
ImplementsPool == Pool!Spec

\* A cluster that stays live and keeps mirroring nodes has its port in its
\* status in the end, restarts, lost replies and conflicts notwithstanding.
EventuallyHasPort ==
    \A c \in Clusters :
        <>[](cluster[c].life = "live" /\ cluster[c].mirror) => <>[](cluster[c].port # NoPort)

\* A cluster being deleted disappears: its finalizer returns the port it was
\* allocated (DeallocateKubeletPort "returns a previously allocated kubelet
\* port to the pool") and is removed.
DeletionCompletes ==
    \A c \in Clusters : cluster[c].life = "deleting" ~> ~Exists(cluster[c])
=============================================================================
