------------------------- MODULE ClusterLifecycle -------------------------
(***************************************************************************)
(* The Cluster controller: pkg/controller/cluster/cluster.go (Reconcile,   *)
(* reconcile and the ensure... steps), status.go, token.go and             *)
(* cluster_finalize.go.  A Cluster is provisioned through a fixed chain of *)
(* steps, each of which can fail and end the reconcile, reports a phase in *)
(* its status, and is cleaned up by a finalizer.  The kubelet port, which  *)
(* ensureAgent and finalizeCluster also handle, is module PortAllocator's. *)
(*                                                                         *)
(* The objects that a step only creates or updates in place and no other   *)
(* part reads back (ingress, kubeconfig, bootstrap secret, HCP endpoints,  *)
(* storage classes) are calls that may fail; those that matter later are   *)
(* state: the token, what the servers were configured with, the network    *)
(* policy, the role bindings all clusters share, the agent and its leader  *)
(* election lease.                                                         *)
(*                                                                         *)
(* As in PortAllocator, a reconcile is named by its cluster, reads come    *)
(* from informer caches, and a write succeeds if and only if the copy it   *)
(* is based on is still the current version.                               *)
(***************************************************************************)
EXTENDS Integers, FiniteSets

CONSTANTS
    Clusters,       \* namespace/name keys; every cluster has its own namespace
    Roles,          \* the ClusterRoleBindings k3k-kubelet-node and k3k-priorityclass
    Tokens,         \* server tokens
    Versions,       \* Kubernetes versions of the host cluster
    None,           \* no token, no version
    Lagging,        \* informers that may lag behind: a subset of {"roles", "token", "netpol"}
    MaxConcurrentReconciles,  \* --max-concurrent-reconciles
    Created,        \* specs users create: a subset of {"plain", "exposed", "invalid"}
    Edits,          \* what happens later: a subset of {"spec", "policy", "upgrade", "resync"}
    MaxFaults       \* bound on failed calls and controller restarts

ASSUME LifecycleAssumption ==
    /\ None \notin Tokens \cup Versions
    /\ Lagging \subseteq {"roles", "token", "netpol"}
    /\ MaxConcurrentReconciles \in Nat \ {0}
    /\ Created \subseteq {"plain", "exposed", "invalid"}
    /\ Edits \subseteq {"spec", "policy", "upgrade", "resync"}
    /\ MaxFaults \in Nat

VARIABLES
    cluster,        \* the Cluster objects in the API server
    cached,         \* ... in the informer cache
    cachedFresh,    \* cachedFresh[c]: cached[c] is the current version
    rec,            \* the running reconciles
    queue,          \* the work queue
    boundNS,        \* the clusters whose namespace carries a policy label
    infra,          \* what has been deployed for each cluster
    subjects,       \* subjects[r]: the clusters ClusterRoleBinding r names
    subjectsSeen,   \* ... in the cache
    subjectsFresh,  \* subjectsFresh[r]: subjectsSeen[r] is the current version
    hostVersion,    \* the version of the host cluster
    faults

objVars  == <<cluster, cached, cachedFresh>>
roleVars == <<subjects, subjectsSeen, subjectsFresh>>
vars     == <<cluster, cached, cachedFresh, rec, queue, boundNS, infra,
              subjects, subjectsSeen, subjectsFresh, hostVersion, faults>>

Phases == {"Unknown", "Pending", "Provisioning", "Ready", "Failed", "Terminating"}
Errors == {"none", "validation", "notReady", "other"}

\* label: the provider label; spec: valid (validate accepts it), expose (through
\* a LoadBalancer); status: phase, version (HostVersion), bound (PolicyName set).
Objects == [life : {"absent", "live", "deleting", "gone"}, finalizer : BOOLEAN,
            label : BOOLEAN, valid : BOOLEAN, expose : BOOLEAN, phase : Phases,
            version : Versions \cup {None}, bound : BOOLEAN]
Absent == [life |-> "absent", finalizer |-> FALSE, label |-> FALSE, valid |-> FALSE,
           expose |-> FALSE, phase |-> "Unknown", version |-> None, bound |-> FALSE]
Gone   == [Absent EXCEPT !.life = "gone"]
Exists(object) == object.life \in {"live", "deleting"}
Status(object) == <<object.phase, object.version, object.bound>>

\* netpol and netpolSeen: the cluster's own NetworkPolicy in the API server and in
\* the cache; token and tokenSeen: the generated token secret, likewise; serverToken:
\* the token in the servers' config secrets; servers, image and sans: the StatefulSet,
\* the version its image is named after, and whether its pods carry the hash of the
\* load balancer's address; up: the k3s server answers; lease: the agents' leader
\* election Lease.
Infra == [netpol : BOOLEAN, netpolSeen : BOOLEAN,
          token : Tokens \cup {None}, tokenSeen : Tokens \cup {None},
          service : {"none", "made", "addressed"}, serverToken : Tokens \cup {None},
          servers : BOOLEAN, image : Versions \cup {None}, sans : BOOLEAN, up : BOOLEAN,
          agent : BOOLEAN, lease : BOOLEAN]
NoInfra == [netpol |-> FALSE, netpolSeen |-> FALSE, token |-> None, tokenSeen |-> None,
            service |-> "none", serverToken |-> None, servers |-> FALSE, image |-> None,
            sans |-> FALSE, up |-> FALSE, agent |-> FALSE, lease |-> FALSE]

\* The steps of reconcile, in order.
NextStep == [policy |-> "token", token |-> "tokenSave", tokenSave |-> "netpol",
             netpol |-> "service", service |-> "configs", configs |-> "server",
             server |-> "agent", agent |-> "ingress", ingress |-> "bootstrap",
             bootstrap |-> "bind", bind |-> "kubeconfig", kubeconfig |-> "virtual",
             virtual |-> "status"]
Steps == {"idle", "initPhase", "addFinalizer", "status", "update",
          "unbind", "lease", "removeFinalizer"} \cup DOMAIN NextStep

\* A running reconcile: the next step, the object as read and as changed in
\* memory, whether that is still the current version, the role bindings left
\* to handle, the error so far and the token in use.
Reconciles == [pc : Steps, orig : Objects, copy : Objects, fresh : BOOLEAN,
               todo : SUBSET Roles, err : Errors, token : Tokens \cup {None}]
Idle == [pc |-> "idle", orig |-> Absent, copy |-> Absent, fresh |-> FALSE,
         todo |-> {}, err |-> "none", token |-> None]

TypeOK ==
    /\ cluster \in [Clusters -> Objects]
    /\ cached \in [Clusters -> Objects]
    /\ cachedFresh \in [Clusters -> BOOLEAN]
    /\ rec \in [Clusters -> Reconciles]
    /\ queue \subseteq Clusters
    /\ boundNS \subseteq Clusters
    /\ infra \in [Clusters -> Infra]
    /\ subjects \in [Roles -> SUBSET Clusters]
    /\ subjectsSeen \in [Roles -> SUBSET Clusters]
    /\ subjectsFresh \in [Roles -> BOOLEAN]
    /\ hostVersion \in Versions
    /\ faults \in Nat

Init ==
    /\ cluster = [c \in Clusters |-> Absent]
    /\ cached = [c \in Clusters |-> Absent]
    /\ cachedFresh = [c \in Clusters |-> TRUE]
    /\ rec = [c \in Clusters |-> Idle]
    /\ queue = {}
    /\ boundNS = {}
    /\ infra = [c \in Clusters |-> NoInfra]
    /\ subjects = [r \in Roles |-> {}]
    /\ subjectsSeen = [r \in Roles |-> {}]
    /\ subjectsFresh = [r \in Roles |-> TRUE]
    /\ hostVersion \in Versions
    /\ faults = 0

-----------------------------------------------------------------------------
(* Users, the host cluster and the informers.                               *)

\* A write to Cluster c by anyone but its own reconcile.
UserWrites(c, object) ==
    /\ cluster' = [cluster EXCEPT ![c] = object]
    /\ cachedFresh' = [cachedFresh EXCEPT ![c] = FALSE]
    /\ rec' = [rec EXCEPT ![c].fresh = FALSE]
    /\ UNCHANGED <<cached, queue, boundNS, infra, roleVars, hostVersion, faults>>

CreateCluster(c) ==
    /\ cluster[c].life = "absent"
    /\ \E spec \in Created :
          UserWrites(c, [Absent EXCEPT !.life = "live", !.valid = spec # "invalid",
                                       !.expose = spec = "exposed"])

\* The user repairs, or breaks, what validate looks at.
EditSpec(c) ==
    /\ "spec" \in Edits
    /\ cluster[c].life = "live"
    /\ UserWrites(c, [cluster[c] EXCEPT !.valid = ~cluster[c].valid])

DeleteCluster(c) ==
    /\ cluster[c].life = "live"
    /\ UserWrites(c, IF cluster[c].finalizer
                     THEN [cluster[c] EXCEPT !.life = "deleting"] ELSE Gone)

\* The queue after a namespace event.
NamespaceEvent(c) == IF Exists(cached[c]) THEN queue \cup {c} ELSE queue

\* namespaceEventHandler: a changed policy label enqueues the namespace's cached
\* clusters, and the reconcile that follows reads the new label.
LabelNamespace(c) ==
    /\ "policy" \in Edits
    /\ boundNS' = IF c \in boundNS THEN boundNS \ {c} ELSE boundNS \cup {c}
    /\ queue' = NamespaceEvent(c)
    /\ UNCHANGED <<objVars, rec, infra, roleVars, hostVersion, faults>>

UpgradeHost ==
    /\ "upgrade" \in Edits
    /\ hostVersion' \in Versions \ {hostVersion}
    /\ UNCHANGED <<objVars, rec, queue, boundNS, infra, roleVars, faults>>

SyncCluster(c) ==
    /\ ~cachedFresh[c]
    /\ cached' = [cached EXCEPT ![c] = cluster[c]]
    /\ cachedFresh' = [cachedFresh EXCEPT ![c] = TRUE]
    /\ queue' = queue \cup {c}
    /\ UNCHANGED <<cluster, rec, boundNS, infra, roleVars, hostVersion, faults>>

SyncToken(c) ==
    /\ infra[c].tokenSeen # infra[c].token
    /\ infra' = [infra EXCEPT ![c].tokenSeen = infra[c].token]
    /\ UNCHANGED <<objVars, rec, queue, boundNS, roleVars, hostVersion, faults>>

SyncNetworkPolicy(c) ==
    /\ infra[c].netpolSeen # infra[c].netpol
    /\ infra' = [infra EXCEPT ![c].netpolSeen = infra[c].netpol]
    /\ UNCHANGED <<objVars, rec, queue, boundNS, roleVars, hostVersion, faults>>

\* Every ten hours the informer hands all Clusters to the controller again.
Resync(c) ==
    /\ "resync" \in Edits
    /\ Exists(cached[c]) /\ c \notin queue
    /\ queue' = queue \cup {c}
    /\ UNCHANGED <<objVars, rec, boundNS, infra, roleVars, hostVersion, faults>>

SyncSubjects(r) ==
    /\ ~subjectsFresh[r]
    /\ subjectsSeen' = [subjectsSeen EXCEPT ![r] = subjects[r]]
    /\ subjectsFresh' = [subjectsFresh EXCEPT ![r] = TRUE]
    /\ UNCHANGED <<objVars, rec, queue, boundNS, infra, subjects, hostVersion, faults>>

\* The host gives the LoadBalancer service an address, and the servers come up;
\* the controller owns the Service and the StatefulSet, so c is enqueued.
AssignAddress(c) ==
    /\ infra[c].service = "made" /\ cluster[c].expose
    /\ infra' = [infra EXCEPT ![c].service = "addressed"]
    /\ queue' = queue \cup {c}
    /\ UNCHANGED <<objVars, rec, boundNS, roleVars, hostVersion, faults>>

ServerComesUp(c) ==
    /\ infra[c].servers /\ ~infra[c].up
    /\ infra' = [infra EXCEPT ![c].up = TRUE]
    /\ queue' = queue \cup {c}
    /\ UNCHANGED <<objVars, rec, boundNS, roleVars, hostVersion, faults>>

\* The agents' host manager elects a leader (k3k-kubelet/kubelet.go): whoever
\* leads creates the Lease when it is missing, as long as an agent runs.
AgentRenewsLease(c) ==
    /\ infra[c].agent /\ ~infra[c].lease
    /\ infra' = [infra EXCEPT ![c].lease = TRUE]
    /\ UNCHANGED <<objVars, rec, queue, boundNS, roleVars, hostVersion, faults>>

\* Garbage collection of what a vanished Cluster owned; the Lease has no owner.
CollectGarbage(c) ==
    /\ cluster[c].life = "gone"
    /\ infra[c] # [NoInfra EXCEPT !.lease = infra[c].lease]
    /\ infra' = [infra EXCEPT ![c] = [NoInfra EXCEPT !.lease = infra[c].lease]]
    /\ UNCHANGED <<objVars, rec, queue, boundNS, roleVars, hostVersion, faults>>

-----------------------------------------------------------------------------
(* Reconcile.                                                               *)

\* Mutant: the finalizer is left for a later reconcile.
FirstStepWithoutFinalizer(object) ==
    CASE ~Exists(object)            -> "idle"
      [] object.life = "deleting"   -> "unbind"
      [] object.life = "live" /\ object.phase = "Unknown" -> "initPhase"
      [] object.life = "live" /\ object.phase # "Unknown" -> "policy"

FirstStep(object) ==
    CASE ~Exists(object)            -> "idle"
      [] object.life = "deleting"   -> "unbind"
      [] object.life = "live" /\ object.phase = "Unknown" -> "initPhase"
      [] object.life = "live" /\ object.phase # "Unknown" /\ ~object.finalizer -> "addFinalizer"
      [] object.life = "live" /\ object.phase # "Unknown" /\ object.finalizer -> "policy"

StartReconcile(c) ==
    /\ rec[c].pc = "idle"
    /\ c \in queue
    /\ Cardinality({d \in Clusters : rec[d].pc # "idle"}) < MaxConcurrentReconciles
    /\ queue' = queue \ {c}
    /\ rec' = [rec EXCEPT ![c] =
                 IF Exists(cached[c])
                 THEN [Idle EXCEPT !.pc = FirstStep(cached[c]), !.orig = cached[c],
                                   !.copy = cached[c], !.fresh = cachedFresh[c],
                                   !.todo = Roles]
                 ELSE Idle]
    /\ UNCHANGED <<objVars, boundNS, infra, roleVars, hostVersion, faults>>

Return(c, requeue) ==
    /\ rec' = [rec EXCEPT ![c] = Idle]
    /\ queue' = IF requeue THEN queue \cup {c} ELSE queue

StoreCluster(c, object) ==
    /\ cluster' = [cluster EXCEPT ![c] = object]
    /\ cachedFresh' = [cachedFresh EXCEPT ![c] = FALSE]
    /\ UNCHANGED cached

\* A write that ends the reconcile; a conflict is an error.
UpdateAndReturn(c, object) ==
    /\ IF rec[c].fresh
       THEN StoreCluster(c, object) /\ Return(c, FALSE)
       ELSE UNCHANGED objVars /\ Return(c, TRUE)
    /\ UNCHANGED <<boundNS, infra, roleVars, hostVersion, faults>>

InitPhase(c) ==
    /\ rec[c].pc = "initPhase"
    /\ UpdateAndReturn(c, [rec[c].copy EXCEPT !.phase = "Provisioning"])

AddFinalizer(c) ==
    /\ rec[c].pc = "addFinalizer"
    /\ UpdateAndReturn(c, [rec[c].copy EXCEPT !.finalizer = TRUE])

Advance(c) == rec' = [rec EXCEPT ![c].pc = NextStep[rec[c].pc]]

\* Mutant: a phase the API does not know.
PhaseOrError(err) == IF err = "none" THEN "Ready" ELSE "Error"

\* updateStatus: the phase an error of reconcile is reported as.
PhaseOf(err) ==
    CASE err = "validation" -> "Pending"
      [] err = "notReady"   -> "Provisioning"
      [] err = "other"      -> "Failed"
      [] err = "none"       -> "Ready"

\* reconcile returns err, or the last error it collected.
Fail(c, err) == rec' = [rec EXCEPT ![c].pc = "status", ![c].err = err]

\* Mutant: the host version is looked up by every reconcile.
HostVersionNow(object) == hostVersion

\* Status.HostVersion, looked up if it is not set.
HostVersion(object) == IF object.version = None THEN hostVersion ELSE object.version

\* The start of reconcile: the label, the namespace's policy, validate and,
\* if the status has none yet, the host version.
ReconcilePolicy(c) ==
    /\ rec[c].pc = "policy"
    /\ LET labelled == [rec[c].copy EXCEPT !.label = TRUE, !.bound = c \in boundNS]
       IN rec' = [rec EXCEPT ![c] =
             IF labelled.valid
             THEN [rec[c] EXCEPT !.pc = NextStep.policy,
                                 !.copy = [labelled EXCEPT !.version = HostVersion(labelled)]]
             ELSE [rec[c] EXCEPT !.pc = "status", !.err = "validation", !.copy = labelled]]
    /\ UNCHANGED <<objVars, queue, boundNS, infra, roleVars, hostVersion, faults>>

\* ensureTokenSecret: the secret's token if the cache has one, else a random one.
ReadToken(c) ==
    /\ rec[c].pc = "token"
    /\ \/ /\ infra[c].tokenSeen # None
          /\ rec' = [rec EXCEPT ![c].token = infra[c].tokenSeen, ![c].pc = "netpol"]
       \/ /\ infra[c].tokenSeen = None
          /\ \E t \in Tokens : rec' = [rec EXCEPT ![c].token = t, ![c].pc = "tokenSave"]
    /\ UNCHANGED <<objVars, queue, boundNS, infra, roleVars, hostVersion, faults>>

\* CreateOrUpdate reads the cache once more: a secret found by now is kept as it
\* is, one that is missing is created, and Create fails if the cache was late.
SaveToken(c) ==
    /\ rec[c].pc = "tokenSave"
    /\ IF infra[c].tokenSeen # None
       THEN Advance(c) /\ UNCHANGED infra
       ELSE IF infra[c].token # None
       THEN Fail(c, "other") /\ UNCHANGED infra
       ELSE /\ Advance(c)
            /\ infra' = [infra EXCEPT ![c].token = rec[c].token,
                          ![c].tokenSeen = IF "token" \in Lagging THEN None ELSE rec[c].token]
    /\ UNCHANGED <<objVars, queue, boundNS, roleVars, hostVersion, faults>>

\* Mutant: the policy of a bound cluster is left where it is.
WantedPolicyAnyway(c) == infra[c].netpolSeen => infra[c].netpol

\* Bound to a policy, the cluster's NetworkPolicy is deleted; otherwise CreateOrUpdate
\* reads the cache: a policy it finds there is as it should be and left alone, deleted
\* meanwhile or not, and one it does not find is created.
WantedPolicy(c) ==
    /\ ~rec[c].copy.bound
    /\ infra[c].netpolSeen => infra[c].netpol

\* Create fails if the cache was late. Nobody watches these policies.
EnsureNetworkPolicy(c) ==
    /\ rec[c].pc = "netpol"
    /\ IF ~rec[c].copy.bound /\ infra[c].netpol /\ ~infra[c].netpolSeen
       THEN Fail(c, "other") /\ UNCHANGED infra
       ELSE /\ Advance(c)
            /\ infra' = [infra EXCEPT ![c].netpol = WantedPolicy(c),
                          ![c].netpolSeen = IF "netpol" \in Lagging THEN @ ELSE WantedPolicy(c)]
    /\ UNCHANGED <<objVars, queue, boundNS, roleVars, hostVersion, faults>>

\* The service is a LoadBalancer without an address.
AddressMissing(c) == rec[c].copy.expose /\ infra[c].service # "addressed"

\* ensureClusterService, and the wait for the load balancer's address.
EnsureClusterService(c) ==
    /\ rec[c].pc = "service"
    /\ IF AddressMissing(c)
       THEN Fail(c, "notReady") ELSE Advance(c)
    /\ infra' = [infra EXCEPT ![c].service = IF @ = "none" THEN "made" ELSE @]
    /\ UNCHANGED <<objVars, queue, boundNS, roleVars, hostVersion, faults>>

\* The two config secrets, of the init server and of the others.
EnsureClusterConfigs(c) ==
    /\ rec[c].pc = "configs"
    /\ Advance(c)
    /\ infra' = [infra EXCEPT ![c].serverToken = rec[c].token]
    /\ UNCHANGED <<objVars, queue, boundNS, roleVars, hostVersion, faults>>

\* K3SImage of a Cluster that does not ask for a version of its own: the host version
\* of the status, as it is in memory, saved or not.
K3SImage(object) == object.version

\* The headless service and the StatefulSet, whose pods restart when the image or
\* the annotation with the hash of the address changes.
EnsureServer(c) ==
    /\ rec[c].pc = "server"
    /\ Advance(c)
    /\ infra' = [infra EXCEPT ![c].servers = TRUE, ![c].image = K3SImage(rec[c].copy),
                              ![c].sans = infra[c].service = "addressed"]
    /\ UNCHANGED <<objVars, queue, boundNS, roleVars, hostVersion, faults>>

EnsureAgent(c) ==
    /\ rec[c].pc = "agent"
    /\ Advance(c)
    /\ infra' = [infra EXCEPT ![c].agent = TRUE]
    /\ UNCHANGED <<objVars, queue, boundNS, roleVars, hostVersion, faults>>

EnsureIngress(c) ==
    /\ rec[c].pc = "ingress"
    /\ Advance(c)
    /\ UNCHANGED <<objVars, queue, boundNS, infra, roleVars, hostVersion, faults>>

\* ensureBootstrapSecret asks the k3s server, which may not answer yet.
EnsureBootstrap(c) ==
    /\ rec[c].pc = "bootstrap"
    /\ IF infra[c].up THEN Advance(c) ELSE Fail(c, "notReady")
    /\ UNCHANGED <<objVars, queue, boundNS, infra, roleVars, hostVersion, faults>>

-----------------------------------------------------------------------------
(* The role bindings shared by all clusters: a loop that goes on after an   *)
(* error and returns them joined.                                           *)

\* The subjects of r as the cache has them, changed to new and written back.
StoreSubjects(r, new) ==
    /\ subjects' = [subjects EXCEPT ![r] = new]
    /\ IF "roles" \in Lagging
       THEN subjectsFresh' = [subjectsFresh EXCEPT ![r] = FALSE] /\ UNCHANGED subjectsSeen
       ELSE subjectsSeen' = [subjectsSeen EXCEPT ![r] = new] /\ UNCHANGED subjectsFresh

\* Mutant: the errors of the loop are not collected.
RoleDoneAnyway(c, r, err) == rec' = [rec EXCEPT ![c].todo = @ \ {r}]

RoleDone(c, r, err) ==
    rec' = [rec EXCEPT ![c].todo = @ \ {r}, ![c].err = IF err THEN "other" ELSE @]

\* Mutant: the role binding is overwritten whatever its version.
OverwriteRole(c, r, new) == StoreSubjects(r, new) /\ RoleDone(c, r, FALSE)

UpdateRole(c, r, new) ==
    IF subjectsFresh[r]
    THEN StoreSubjects(r, new) /\ RoleDone(c, r, FALSE)
    ELSE UNCHANGED roleVars /\ RoleDone(c, r, TRUE)

BindClusterRole(c, r) ==
    /\ rec[c].pc = "bind"
    /\ r \in rec[c].todo
    /\ IF c \in subjectsSeen[r]
       THEN UNCHANGED roleVars /\ RoleDone(c, r, FALSE)
       ELSE UpdateRole(c, r, subjectsSeen[r] \cup {c})
    /\ UNCHANGED <<objVars, queue, boundNS, infra, hostVersion, faults>>

BindDone(c) ==
    /\ rec[c].pc = "bind"
    /\ rec[c].todo = {}
    /\ IF rec[c].err = "none" THEN Advance(c) ELSE Fail(c, rec[c].err)
    /\ UNCHANGED <<objVars, queue, boundNS, infra, roleVars, hostVersion, faults>>

UnbindClusterRole(c, r) ==
    /\ rec[c].pc = "unbind"
    /\ r \in rec[c].todo
    /\ IF c \notin subjectsSeen[r]
       THEN UNCHANGED roleVars /\ RoleDone(c, r, FALSE)
       ELSE UpdateRole(c, r, subjectsSeen[r] \ {c})
    /\ UNCHANGED <<objVars, queue, boundNS, infra, hostVersion, faults>>

\* Mutant: a failed clean-up is not tried again.
UnbindOnce(c) ==
    /\ rec[c].pc = "unbind"
    /\ rec[c].todo = {}
    /\ IF rec[c].err = "none"
       THEN rec' = [rec EXCEPT ![c].pc = "lease"] /\ UNCHANGED queue
       ELSE Return(c, FALSE)
    /\ UNCHANGED <<objVars, boundNS, infra, roleVars, hostVersion, faults>>

UnbindDone(c) ==
    /\ rec[c].pc = "unbind"
    /\ rec[c].todo = {}
    /\ IF rec[c].err = "none"
       THEN rec' = [rec EXCEPT ![c].pc = "lease"] /\ UNCHANGED queue
       ELSE Return(c, TRUE)
    /\ UNCHANGED <<objVars, boundNS, infra, roleVars, hostVersion, faults>>

-----------------------------------------------------------------------------
(* The end of a reconcile, and the rest of finalizeCluster.                 *)

EnsureKubeconfigSecret(c) ==
    /\ rec[c].pc = "kubeconfig"
    /\ Advance(c)
    /\ UNCHANGED <<objVars, queue, boundNS, infra, roleVars, hostVersion, faults>>

\* What is written in the virtual cluster itself: in hcp mode the endpoints of
\* the API server, and the storage classes copied from the host.
EnsureVirtual(c) ==
    /\ rec[c].pc = "virtual"
    /\ Advance(c)
    /\ UNCHANGED <<objVars, queue, boundNS, infra, roleVars, hostVersion, faults>>

\* Mutant: only the errors that have a phase of their own are retried.
RequeuesKnown(err) == err \in {"validation", "notReady"}

\* Reconcile returns an error, or asks to be called again in ten seconds.
Requeues(err) == err # "none"

\* updateStatus and the Status().Update that follows when the status differs.
\* Its reply brings the copy to the new version and keeps the new label.
UpdateStatus(c) ==
    /\ rec[c].pc = "status"
    /\ LET new    == [rec[c].copy EXCEPT !.phase = PhaseOf(rec[c].err)]
           stored == [new EXCEPT !.label = rec[c].orig.label]
           write  == Status(new) # Status(rec[c].orig)
       IN IF write /\ ~rec[c].fresh
          THEN UNCHANGED objVars /\ Return(c, TRUE)
          ELSE /\ IF write THEN StoreCluster(c, stored) ELSE UNCHANGED objVars
               /\ IF rec[c].err # "none"
                  THEN Return(c, Requeues(rec[c].err))
                  ELSE rec' = [rec EXCEPT ![c].pc = "update", ![c].copy = new] /\ UNCHANGED queue
    /\ UNCHANGED <<boundNS, infra, roleVars, hostVersion, faults>>

\* The Update for a changed label (reconcile leaves the spec alone).
UpdateLabels(c) ==
    /\ rec[c].pc = "update"
    /\ \/ /\ rec[c].copy.label = rec[c].orig.label
          /\ Return(c, FALSE)
          /\ UNCHANGED <<objVars, boundNS, infra, roleVars, hostVersion, faults>>
       \/ /\ rec[c].copy.label # rec[c].orig.label
          /\ UpdateAndReturn(c, rec[c].copy)

DeleteLease(c) ==
    /\ rec[c].pc = "lease"
    /\ rec' = [rec EXCEPT ![c].pc = "removeFinalizer"]
    /\ infra' = [infra EXCEPT ![c].lease = FALSE]
    /\ UNCHANGED <<objVars, queue, boundNS, roleVars, hostVersion, faults>>

\* The phase Terminating is in the copy only: Update does not write the status.
RemoveFinalizer(c) ==
    /\ rec[c].pc = "removeFinalizer"
    /\ UpdateAndReturn(c, Gone)

-----------------------------------------------------------------------------
(* Failures.                                                                *)

\* A call of the current step fails. In reconcile that ends it with an error,
\* in the loops over the role bindings it does not end the loop.
CallFails(c) ==
    /\ rec[c].pc # "idle"
    /\ faults < MaxFaults
    /\ faults' = faults + 1
    /\ \/ /\ rec[c].pc \in DOMAIN NextStep \ {"bind"}
          /\ Fail(c, "other")
          /\ UNCHANGED queue
       \/ /\ rec[c].pc \in {"bind", "unbind"}
          /\ \E r \in rec[c].todo : RoleDone(c, r, TRUE)
          /\ UNCHANGED queue
       \/ /\ rec[c].pc \notin DOMAIN NextStep \cup {"unbind"}
          /\ Return(c, TRUE)
    /\ UNCHANGED <<objVars, boundNS, infra, roleVars, hostVersion>>

\* The controller process dies; the next one lists everything afresh.
Restart ==
    /\ faults < MaxFaults
    /\ faults' = faults + 1
    /\ cached' = cluster
    /\ cachedFresh' = [c \in Clusters |-> TRUE]
    /\ rec' = [c \in Clusters |-> Idle]
    /\ queue' = {c \in Clusters : Exists(cluster[c])}
    /\ infra' = [c \in Clusters |-> [infra[c] EXCEPT !.tokenSeen = infra[c].token,
                                                     !.netpolSeen = infra[c].netpol]]
    /\ subjectsSeen' = subjects
    /\ subjectsFresh' = [r \in Roles |-> TRUE]
    /\ UNCHANGED <<cluster, boundNS, subjects, hostVersion>>

-----------------------------------------------------------------------------
ReconcileStep(c) ==
    \/ InitPhase(c) \/ AddFinalizer(c) \/ ReconcilePolicy(c) \/ ReadToken(c) \/ SaveToken(c)
    \/ EnsureNetworkPolicy(c) \/ EnsureClusterService(c) \/ EnsureClusterConfigs(c)
    \/ EnsureServer(c) \/ EnsureAgent(c) \/ EnsureIngress(c) \/ EnsureBootstrap(c)
    \/ BindDone(c) \/ EnsureKubeconfigSecret(c) \/ EnsureVirtual(c) \/ UpdateStatus(c)
    \/ UpdateLabels(c) \/ UnbindDone(c) \/ DeleteLease(c) \/ RemoveFinalizer(c)
    \/ \E r \in Roles : BindClusterRole(c, r) \/ UnbindClusterRole(c, r)

Host(c) ==
    \/ AssignAddress(c) \/ ServerComesUp(c) \/ AgentRenewsLease(c) \/ CollectGarbage(c)

Users(c) == CreateCluster(c) \/ EditSpec(c) \/ DeleteCluster(c) \/ LabelNamespace(c)

Next ==
    \/ \E c \in Clusters : \/ Users(c) \/ Host(c)
                           \/ SyncCluster(c) \/ SyncToken(c) \/ SyncNetworkPolicy(c) \/ Resync(c)
                           \/ StartReconcile(c) \/ ReconcileStep(c) \/ CallFails(c)
    \/ \E r \in Roles : SyncSubjects(r)
    \/ UpgradeHost
    \/ Restart

Spec == Init /\ [][Next]_vars

\* Watches deliver; queued requests are started and reconciles go on; the host
\* assigns addresses, starts servers, runs agents and collects garbage. The resync
\* is not among them: a property that has to wait for it says so.
Fairness ==
    /\ \A c \in Clusters :
          /\ WF_vars(SyncCluster(c)) /\ WF_vars(SyncToken(c)) /\ WF_vars(SyncNetworkPolicy(c))
          /\ SF_vars(StartReconcile(c)) /\ WF_vars(ReconcileStep(c))
          /\ WF_vars(AssignAddress(c)) /\ WF_vars(ServerComesUp(c))
          /\ WF_vars(AgentRenewsLease(c)) /\ WF_vars(CollectGarbage(c))
    /\ \A r \in Roles : WF_vars(SyncSubjects(r))

FairSpec == Spec /\ Fairness

-----------------------------------------------------------------------------
(* Properties.                                                              *)

\* The controller has seen the Cluster as it is and has nothing to do for it.
AtRest(c) == cachedFresh[c] /\ rec[c].pc = "idle" /\ c \notin queue

\* A Ready cluster really is provisioned: it has its finalizer, its servers and
\* agent, the token its servers use is the stored one, and both role bindings
\* name it. Ready is written by a later call than the ones that deploy these,
\* and outlives reconciles that fail, restarts and edits. And at rest its servers
\* run the version its status records, although a reconcile deploys the version
\* before it records it, and one that started from an old copy deploys another.
ReadyIsProvisioned ==
    \A c \in Clusters :
        cluster[c].phase = "Ready" /\ cluster[c].life = "live" =>
            /\ cluster[c].finalizer
            /\ infra[c].agent
            /\ infra[c].servers /\ infra[c].serverToken = infra[c].token
            /\ \A r \in Roles : c \in subjects[r]
            /\ AtRest(c) => infra[c].image = cluster[c].version

\* Whatever was ever deployed for a cluster is covered by its finalizer: a
\* cluster without one has no entry in a role binding, no servers, no agent and
\* no lease, so that deleting it at that point leaves nothing behind.
NothingBeforeFinalizer ==
    \A c \in Clusters :
        cluster[c].life \in {"absent", "live"} /\ ~cluster[c].finalizer =>
            infra[c] = NoInfra /\ \A r \in Roles : c \notin subjects[r]

\* finalizeCluster removes the finalizer only after the role bindings no longer
\* name the cluster, in spite of clusters that bind themselves meanwhile. It
\* needs an informer that has seen the cluster's own binding: with "roles" in
\* Lagging, unbindClusterRoles can read a list without it and do nothing.
GoneIsUnbound ==
    \A c \in Clusters, r \in Roles : cluster[c].life = "gone" => c \notin subjects[r]

\* Every cluster rewrites the whole subject list of the shared role bindings,
\* from a cached copy: that never drops a cluster that is still there.
SubjectsKept ==
    [][\A c \in Clusters, r \in Roles :
          cluster[c].life = "live" /\ c \in subjects[r] => c \in subjects'[r]]_vars

\* What running servers are restarted for. Exposed by a load balancer they have its
\* address from the start: the controller waits for it "to avoid restarting them (and
\* losing the data of ephemeral clusters) once assigned". The host version, once
\* recorded, "will not be updated if already set", whatever old copy a reconcile
\* started from. But the image is named after the version in memory: until the
\* version is recorded, and by a reconcile that read the Cluster before it was (a
\* late cache, a status write that failed), servers that run are given the version
\* the host has by then. Any other change of their image is to the recorded version.
ServersNotReconfigured ==
    [][\A c \in Clusters :
          /\ infra[c].servers /\ Exists(cluster[c]) =>
                /\ infra'[c].sans = infra[c].sans
                /\ infra'[c].image \in {infra[c].image, cluster[c].version}
                   \/ rec[c].orig.version = None
          /\ (/\ cluster[c].life = "live" /\ cluster[c].version # None
              /\ Exists(cluster'[c])) => cluster'[c].version = cluster[c].version]_vars

\* A valid cluster that stays, in a namespace that stays bound or unbound, is Ready
\* and labelled in the end. (Each new binding can fail a reconcile once more, while
\* the NetworkPolicy is in the API server and not in the cache.)
EventuallyReady ==
    \A c \in Clusters :
        <>[](cluster[c].life = "live" /\ cluster[c].valid) /\ <>[][UNCHANGED boundNS]_vars
        => <>[](cluster[c].phase = "Ready" /\ cluster[c].label)

\* The cluster's own NetworkPolicy follows the binding of its namespace: once the
\* binding is settled the status shows it, and the policy is removed or restored.
\* It is restored by the next resync at the latest: a reconcile that still finds the
\* deleted policy in the cache does nothing, and no event makes up for that.
NetworkPolicyFollowsBinding ==
    \A c \in Clusters :
        <>[](cluster[c].life = "live" /\ cluster[c].valid) /\ <>[][UNCHANGED boundNS]_vars
        => /\ <>[](/\ cluster[c].bound <=> c \in boundNS
                   /\ c \in boundNS => ~infra[c].netpol)
           /\ WF_vars(Resync(c)) => <>[](c \notin boundNS => infra[c].netpol)

\* A cluster that is deleted disappears.
DeletionCompletes ==
    \A c \in Clusters : cluster[c].life = "deleting" ~> cluster[c].life = "gone"

\* finalizeCluster deletes the Lease and removes the finalizer "only when all
\* resources are cleaned up": a deleted cluster leaves no Lease behind.
LeaseIsCleanedUp ==
    \A c \in Clusters : cluster[c].life = "gone" ~> [](~infra[c].lease)
=============================================================================
