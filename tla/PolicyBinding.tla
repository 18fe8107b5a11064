--------------------------- MODULE PolicyBinding ---------------------------
(***************************************************************************)
(* The policy controller, pkg/controller/policy: a VirtualClusterPolicy is *)
(* applied to the namespaces whose label names it.  There it owns a        *)
(* NetworkPolicy, a ResourceQuota and a LimitRange, sets the Pod Security  *)
(* labels of the namespace, and is copied into Status.Policy of the        *)
(* Clusters of the namespace.                                              *)
(*                                                                         *)
(* Policies, namespaces and Clusters are read from informer caches and     *)
(* written with optimistic locking: a write succeeds if and only if the    *)
(* copy it is based on is the current version.  Owned objects are written  *)
(* without a version.  Different policies are reconciled concurrently.     *)
(***************************************************************************)
EXTENDS Integers, FiniteSets

CONSTANTS
    Policies,
    Namespaces,
    Clusters,
    NamespaceOf,  \* NamespaceOf[c]: the namespace of the Cluster c
    Specs,        \* policy specs, see SpecRecords
    Existing,     \* sets of policies that may exist from the start
    FirstSpec,    \* FirstSpec[p]: the spec the policy p is created with
    Values,       \* contents of quotas, limits, defaults, PSA levels and pod CIDRs
    None,         \* no value: an unset field or label, an object that is not there
    ClusterCIDR,  \* the flag --cluster-cidr, or None
    MaxBindings,  \* bound on users' edits of namespaces
    MaxChanges    \* bound on users' other edits, on failed calls and on restarts

Kinds == {"networkpolicy", "quota", "limit"}

\* What a policy sets: isolated is the negation of DisableNetworkPolicy, psa the
\* Pod Security level, defaults what goes into Status.Policy.
SpecRecords == [isolated : BOOLEAN, quota : Values \cup {None}, limit : Values \cup {None},
                psa : Values \cup {None}, defaults : Values]

ASSUME PolicyAssumption ==
    /\ NamespaceOf \in [Clusters -> Namespaces]
    /\ Specs \subseteq SpecRecords /\ FirstSpec \in [Policies -> Specs] /\ Specs # {}
    /\ Existing \subseteq SUBSET Policies
    /\ None \notin Values \cup Policies
    /\ ClusterCIDR \in Values \cup {None}
    /\ MaxBindings \in Nat /\ MaxChanges \in Nat

VARIABLES
    policy, policyCached, policyFresh,          \* in the API server, in the cache, is it current?
    namespace, namespaceCached, namespaceFresh,
    applied, appliedCached,                     \* Status.Policy of the Clusters
    clusterEvent,                               \* what the Cluster watch has yet to deliver
    owned,                                      \* owned[n][p][k]: the content of p's k in n
    ownedEvents,                                \* policies with undelivered events of owned objects
    podCIDR,                                    \* the pod network, as the nodes tell it
    rec, queue,                                 \* running reconciles, work queue
    bindings, changes                           \* edits of namespaces, other changes and faults

policyVars    == <<policy, policyCached, policyFresh>>
namespaceVars == <<namespace, namespaceCached, namespaceFresh>>
clusterVars   == <<applied, appliedCached, clusterEvent>>
ownedVars     == <<owned, ownedEvents>>
boundVars     == <<podCIDR, bindings, changes>>
vars == <<policyVars, namespaceVars, clusterVars, ownedVars, boundVars, rec, queue>>

Life == {"absent", "live", "deleting", "gone"}
\* terminating: the condition finalizePolicy sets first.
PolicyObjects == [life : Life, finalizer : BOOLEAN, terminating : BOOLEAN, spec : Specs]
Exists(object) == object.life \in {"live", "deleting"}

NamespaceObjects == [label : Policies \cup {None}, psa : Values \cup {None}]

\* A namespace in a list, and whether it still is the current version.
ListedNamespaces == [object : NamespaceObjects, fresh : BOOLEAN]

\* A Cluster, and its Status.Policy.
ClusterObjects == [exists : BOOLEAN, name : Policies \cup {None}, defaults : Values \cup {None}]
NoCluster == [exists |-> FALSE, name |-> None, defaults |-> None]
Unset     == [NoCluster EXCEPT !.exists = TRUE]

Steps == {"idle", "addFinalizer", "objects", "clusters", "namespace", "cleanup", "update",
          "terminating", "release", "removeFinalizer"}

\* A running reconcile: the policy as read, whether that is the current version,
\* the listed namespaces it has yet to handle, and the one it is at.
Reconciles == [pc : Steps, copy : PolicyObjects, fresh : BOOLEAN,
               left : UNION {[S -> ListedNamespaces] : S \in SUBSET Namespaces},
               at : Namespaces \cup {None}]

NoNamespaces == [n \in {} |-> None]
Idle == [pc |-> "idle", copy |-> [life |-> "absent", finalizer |-> FALSE, terminating |-> FALSE,
                                  spec |-> CHOOSE s \in Specs : TRUE],
         fresh |-> FALSE, left |-> NoNamespaces, at |-> None]

TypeOK ==
    /\ policy \in [Policies -> PolicyObjects] /\ policyCached \in [Policies -> PolicyObjects]
    /\ policyFresh \in [Policies -> BOOLEAN]
    /\ namespace \in [Namespaces -> NamespaceObjects]
    /\ namespaceCached \in [Namespaces -> NamespaceObjects]
    /\ namespaceFresh \in [Namespaces -> BOOLEAN]
    /\ applied \in [Clusters -> ClusterObjects] /\ appliedCached \in [Clusters -> ClusterObjects]
    /\ clusterEvent \in [Clusters -> {"none", "status", "spec"}]
    /\ owned \in [Namespaces -> [Policies -> [Kinds -> Values \cup {None}]]]
    /\ ownedEvents \subseteq Policies
    /\ podCIDR \in Values
    /\ rec \in [Policies -> Reconciles]
    /\ queue \subseteq Policies
    /\ bindings \in 0 .. MaxBindings /\ changes \in 0 .. MaxChanges

Fresh(S) == [x \in S |-> TRUE]
Nothing  == [k \in Kinds |-> None]

\* FindPodCIDRs
PodCIDRs == IF ClusterCIDR # None THEN ClusterCIDR ELSE podCIDR

\* The content the spec asks for: the network policy excludes the pod network.
Wanted(spec) == [k \in Kinds |->
    CASE k = "networkpolicy" -> IF spec.isolated THEN PodCIDRs ELSE None
      [] k = "quota"         -> spec.quota
      [] k = "limit"         -> spec.limit]

\* Status.Policy, as reconcileClusters sets it.
StatusOf(p, spec) == [exists |-> TRUE, name |-> p, defaults |-> spec.defaults]

\* A system at rest: some policies and Clusters exist, namespaces are bound to some
\* of these policies, which have been applied.
Init ==
    /\ \E existing \in Existing :
          /\ policy = [p \in Policies |->
                         IF p \in existing
                         THEN [Idle.copy EXCEPT !.life = "live", !.finalizer = TRUE,
                                                !.spec = FirstSpec[p]]
                         ELSE Idle.copy]
          /\ namespace \in [Namespaces -> {[label |-> p, psa |-> FirstSpec[p].psa] : p \in existing}
                                          \cup {[label |-> None, psa |-> None]}]
    /\ podCIDR = CHOOSE v \in Values : TRUE
    /\ owned = [n \in Namespaces |-> [p \in Policies |->
                  IF namespace[n].label = p THEN Wanted(FirstSpec[p]) ELSE Nothing]]
    /\ \E existing \in SUBSET Clusters :
          applied = [c \in Clusters |->
             LET p == namespace[NamespaceOf[c]].label
             IN  CASE c \notin existing -> NoCluster
                   [] c \in existing /\ p = None -> Unset
                   [] OTHER -> StatusOf(p, FirstSpec[p])]
    /\ policyCached = policy /\ policyFresh = Fresh(Policies)
    /\ namespaceCached = namespace /\ namespaceFresh = Fresh(Namespaces)
    /\ appliedCached = applied /\ clusterEvent = [c \in Clusters |-> "none"]
    /\ ownedEvents = {}
    /\ rec = [p \in Policies |-> Idle] /\ queue = {}
    /\ bindings = 0 /\ changes = 0

-----------------------------------------------------------------------------
(* Writes to the API server: the cache, and every copy, becomes outdated.   *)

StorePolicy(p, object) ==
    /\ policy' = [policy EXCEPT ![p] = object]
    /\ policyFresh' = [policyFresh EXCEPT ![p] = @ /\ object = policy[p]]
    /\ UNCHANGED policyCached

StoreNamespace(n, object) ==
    /\ namespace' = [namespace EXCEPT ![n] = object]
    /\ namespaceFresh' = [namespaceFresh EXCEPT ![n] = FALSE]
    /\ UNCHANGED namespaceCached

\* The copies of n in the reconciles' lists are outdated.
Outdated(n, r) == [p \in Policies |-> IF n \notin DOMAIN r[p].left THEN r[p]
                                      ELSE [r[p] EXCEPT !.left[n].fresh = FALSE]]

\* Event of the kind e is due for the Cluster c: a change of the spec is not
\* hidden by a later change of the status.
Due(c, e) == IF clusterEvent[c] = "spec" THEN "spec" ELSE e

\* Status().Update of Status.Policy of every Cluster in the set S from its cached copy.
\* Only those succeed whose cached copy is current.
WriteStatuses(S, value) ==
    LET written == {c \in S : clusterEvent[c] = "none"} IN
    /\ applied' = [c \in Clusters |-> IF c \in written THEN value ELSE applied[c]]
    /\ clusterEvent' = [c \in Clusters |-> IF c \in written THEN "status" ELSE clusterEvent[c]]
    /\ UNCHANGED appliedCached
    
\* The objects of p in n become the given ones.
StoreOwned(n, p, objects) ==
    /\ owned' = [owned EXCEPT ![n][p] = objects]
    /\ ownedEvents' = IF owned[n][p] = objects THEN ownedEvents ELSE ownedEvents \cup {p}

-----------------------------------------------------------------------------
(* Users.                                                                    *)

Bind   == bindings < MaxBindings /\ bindings' = bindings + 1 /\ UNCHANGED <<podCIDR, changes>>
Change == changes < MaxChanges /\ changes' = changes + 1 /\ UNCHANGED <<podCIDR, bindings>>

UserWritesPolicy(p, object) ==
    /\ policy' = [policy EXCEPT ![p] = object]
    /\ policyFresh' = [policyFresh EXCEPT ![p] = FALSE]
    /\ rec' = [rec EXCEPT ![p].fresh = FALSE]
    /\ UNCHANGED <<policyCached, namespaceVars, clusterVars, ownedVars, queue>>

CreatePolicy(p) ==
    /\ Change
    /\ policy[p].life = "absent"
    /\ UserWritesPolicy(p, [Idle.copy EXCEPT !.life = "live", !.spec = FirstSpec[p]])

EditPolicy(p, spec) ==
    /\ Change
    /\ Exists(policy[p]) /\ policy[p].spec # spec
    /\ UserWritesPolicy(p, [policy[p] EXCEPT !.spec = spec])

DeletePolicy(p) ==
    /\ Change
    /\ policy[p].life = "live"
    /\ UserWritesPolicy(p, [policy[p] EXCEPT !.life = IF policy[p].finalizer
                                                      THEN "deleting" ELSE "gone"])

\* A user binds, rebinds or unbinds a namespace, or removes its Pod Security labels.
EditsOf(object) == {[object EXCEPT !.label = l] : l \in Policies \cup {None}}
                   \cup {[object EXCEPT !.psa = None]}

EditNamespace(n, object) ==
    /\ Bind
    /\ namespace[n] # object
    /\ StoreNamespace(n, object)
    /\ rec' = Outdated(n, rec)
    /\ UNCHANGED <<policyVars, clusterVars, ownedVars, queue>>

UserWritesCluster(c, status) ==
    /\ applied' = [applied EXCEPT ![c] = status]
    /\ clusterEvent' = [clusterEvent EXCEPT ![c] = "spec"]
    /\ UNCHANGED <<policyVars, namespaceVars, appliedCached, ownedVars, rec, queue>>

CreateCluster(c) ==
    /\ Change
    /\ ~applied[c].exists
    /\ UserWritesCluster(c, Unset)

\* A user changes the priority class or the node selector of a Cluster.
EditCluster(c) ==
    /\ Change
    /\ applied[c].exists
    /\ UserWritesCluster(c, applied[c])

\* The cluster controller writes its own fields of the status.
ClusterControllerWrites(c) ==
    /\ Change
    /\ applied[c].exists
    /\ clusterEvent' = [clusterEvent EXCEPT ![c] = Due(c, "status")]
    /\ UNCHANGED <<policyVars, namespaceVars, applied, appliedCached, ownedVars, rec, queue>>

\* A user deletes an object the controller made.
DeleteOwned(n, p, k) ==
    /\ Change
    /\ owned[n][p][k] # None
    /\ StoreOwned(n, p, [owned[n][p] EXCEPT ![k] = None])
    /\ UNCHANGED <<policyVars, namespaceVars, clusterVars, rec, queue>>

-----------------------------------------------------------------------------
(* The informers and their event handlers.                                  *)

\* Mutant: an unset label is taken for the name of a policy.
EnqueueLabels(S) == queue' = queue \cup S

\* The policies a handler finds; an unset label names none.
Enqueue(S) == queue' = queue \cup (S \ {None})

\* For has no predicate: every event of a policy enqueues it.
SyncPolicy(p) ==
    /\ ~policyFresh[p]
    /\ policyCached' = [policyCached EXCEPT ![p] = policy[p]]
    /\ policyFresh' = [policyFresh EXCEPT ![p] = TRUE]
    /\ Enqueue({p})
    /\ UNCHANGED <<policy, namespaceVars, clusterVars, ownedVars, boundVars, rec>>

\* namespaceEventHandler: nothing is enqueued when no label changed; otherwise the
\* policies of the old and of the new label.
NamespaceEvent(old, new) == IF old = new THEN {} ELSE {old.label, new.label}

SyncNamespace(n) ==
    /\ ~namespaceFresh[n]
    /\ namespaceCached' = [namespaceCached EXCEPT ![n] = namespace[n]]
    /\ namespaceFresh' = [namespaceFresh EXCEPT ![n] = TRUE]
    /\ Enqueue(NamespaceEvent(namespaceCached[n], namespace[n]))
    /\ UNCHANGED <<policyVars, namespace, clusterVars, ownedVars, boundVars, rec>>

\* clusterEventHandler: a new Cluster, or one whose priority class or node selector
\* changed, enqueues the policy its namespace has in the cache.
ClusterEvent(c) == IF clusterEvent[c] = "spec" THEN {namespaceCached[NamespaceOf[c]].label} ELSE {}

SyncCluster(c) ==
    /\ clusterEvent[c] # "none"
    /\ appliedCached' = [appliedCached EXCEPT ![c] = applied[c]]
    /\ clusterEvent' = [clusterEvent EXCEPT ![c] = "none"]
    /\ Enqueue(ClusterEvent(c))
    /\ UNCHANGED <<policyVars, namespaceVars, applied, ownedVars, boundVars, rec>>

\* nodeEventHandler: a change of the pod network enqueues all policies, unless the
\* flag sets it.  The handler and FindPodCIDRs read the same cache.
NodesChange(v) ==
    /\ changes < MaxChanges /\ changes' = changes + 1 /\ UNCHANGED bindings
    /\ podCIDR # v /\ podCIDR' = v
    /\ Enqueue(IF ClusterCIDR = None THEN {p \in Policies : Exists(policyCached[p])} ELSE {})
    /\ UNCHANGED <<policyVars, namespaceVars, clusterVars, ownedVars, rec>>

\* Owns: an event of an owned object enqueues its policy.
SyncOwned(p) ==
    /\ p \in ownedEvents
    /\ ownedEvents' = ownedEvents \ {p}
    /\ Enqueue({p})
    /\ UNCHANGED <<policyVars, namespaceVars, clusterVars, owned, boundVars, rec>>

\* The informer's resync, every ten hours: when everything else has come to rest.
AtRest == /\ queue = {} /\ \A p \in Policies : policyFresh[p] /\ rec[p].pc = "idle"
          /\ \A n \in Namespaces : namespaceFresh[n]
          /\ \A c \in Clusters : clusterEvent[c] = "none"
          /\ ownedEvents = {}

Resync ==
    /\ AtRest
    /\ \E p \in Policies : Exists(policyCached[p])
    /\ Enqueue({p \in Policies : Exists(policyCached[p])})
    /\ UNCHANGED <<policyVars, namespaceVars, clusterVars, ownedVars, boundVars, rec>>

\* Kubernetes deletes what a deleted policy owned.
CollectGarbage(n, p) ==
    /\ policy[p].life = "gone"
    /\ owned[n][p] # Nothing
    /\ StoreOwned(n, p, Nothing)
    /\ UNCHANGED <<policyVars, namespaceVars, clusterVars, boundVars, rec, queue>>

-----------------------------------------------------------------------------
(* Reconcile.                                                               *)

Fail(p) ==
    /\ rec' = [rec EXCEPT ![p] = Idle]
    /\ Enqueue({p})

Return(p) == rec' = [rec EXCEPT ![p] = Idle] /\ UNCHANGED queue

Goto(p, step) == rec' = [rec EXCEPT ![p].pc = step]

\* The reconcile r with the namespaces of the set S listed from the cache.
Listed(r, S) == [r EXCEPT !.left = [n \in S |-> [object |-> namespaceCached[n],
                                                 fresh |-> namespaceFresh[n]]]]

Bound(p) == {n \in Namespaces : namespaceCached[n].label = p}

\* The loop over the listed namespaces: r is at the start of the next one, whichever
\* that is, or past the loop.
Loop(r, first, after) ==
    IF DOMAIN r.left = {} THEN {[r EXCEPT !.pc = after, !.at = None]}
    ELSE {[r EXCEPT !.pc = first, !.at = n] : n \in DOMAIN r.left}

Handled(r) == [r EXCEPT !.left = [n \in DOMAIN r.left \ {r.at} |-> r.left[n]]]

\* The loop of cleanupNamespaces goes through all namespaces, that of
\* reconcileMatchingNamespaces comes before it.
CleanupLoop(r)  == Loop(r, "cleanup", "update")
MatchingLoop(r) == IF DOMAIN r.left = {} THEN CleanupLoop(Listed(r, Namespaces))
                   ELSE Loop(r, "objects", "update")
ReleaseLoop(r)  == Loop(r, "release", "removeFinalizer")

\* Mutant: the deletion timestamp is not looked at.
BeginAlways(p) ==
    LET r == [Idle EXCEPT !.copy = policyCached[p], !.fresh = policyFresh[p]]
    IN  IF ~Exists(policyCached[p]) THEN {Idle}
        ELSE IF policyCached[p].finalizer THEN MatchingLoop(Listed(r, Bound(p)))
        ELSE {[r EXCEPT !.pc = "addFinalizer"]}

\* Reconcile: a policy that is not there, is being deleted, lacks its finalizer, or
\* has its namespaces listed at once.
Begin(p) ==
    LET object == policyCached[p]
        r == [Idle EXCEPT !.copy = object, !.fresh = policyFresh[p]]
    IN  CASE object.life = "deleting"                  -> {[r EXCEPT !.pc = "terminating"]}
          [] object.life = "live" /\ object.finalizer  -> MatchingLoop(Listed(r, Bound(p)))
          [] object.life = "live" /\ ~object.finalizer -> {[r EXCEPT !.pc = "addFinalizer"]}
          [] OTHER                                     -> {Idle}

Continue(p, S) == \E r \in S : rec' = [rec EXCEPT ![p] = r]

StartReconcile(p) ==
    /\ p \in queue /\ rec[p].pc = "idle"
    /\ queue' = queue \ {p}
    /\ Continue(p, Begin(p))
    /\ UNCHANGED <<policyVars, namespaceVars, clusterVars, ownedVars, boundVars>>

AddFinalizer(p) ==
    /\ rec[p].pc = "addFinalizer"
    /\ IF rec[p].fresh
       THEN /\ StorePolicy(p, [policy[p] EXCEPT !.finalizer = TRUE])
            /\ Continue(p, MatchingLoop(Listed([rec[p] EXCEPT !.copy.finalizer = TRUE], Bound(p))))
            /\ UNCHANGED queue
       ELSE Fail(p) /\ UNCHANGED policyVars
    /\ UNCHANGED <<namespaceVars, clusterVars, ownedVars, boundVars>>

\* reconcileQuota and reconcileLimit look for an object they do not want in the cache,
\* whose answer may be old as long as an event is due.
FoundInCache(n, p, k) ==
    IF p \in ownedEvents THEN BOOLEAN ELSE {owned[n][p][k] # None}

\* The objects of p in n once the kinds in done are reconciled: what is wanted is
\* created or updated, what is not is deleted, but an unwanted quota or limit that the
\* cache does not show stays.
Reconciled(n, p, found, done) ==
    [k \in Kinds |->
       IF \/ k \notin done
          \/ k # "networkpolicy" /\ ~found[k] /\ Wanted(rec[p].copy.spec)[k] = None
       THEN owned[n][p][k] ELSE Wanted(rec[p].copy.spec)[k]]

\* Before(k): the kinds that are reconciled before k.
Before(k) == CASE k = "networkpolicy" -> {}
               [] k = "quota"         -> {"networkpolicy"}
               [] k = "limit"         -> {"networkpolicy", "quota"}

\* reconcileNetworkPolicy, reconcileQuota, reconcileLimit.  It is an error to delete
\* a quota or limit that only the cache still has.
ApplyObjects(p) ==
    /\ rec[p].pc = "objects"
    /\ \E found \in [Kinds -> BOOLEAN] :
          LET n == rec[p].at
              failing == {k \in {"quota", "limit"} :
                            /\ Wanted(rec[p].copy.spec)[k] = None
                            /\ found[k] /\ owned[n][p][k] = None}
          IN  /\ \A k \in Kinds : found[k] \in FoundInCache(n, p, k)
              /\ \/ /\ failing = {}
                    /\ StoreOwned(n, p, Reconciled(n, p, found, Kinds))
                    /\ Goto(p, "clusters") /\ UNCHANGED queue
                 \/ \E k \in failing :
                       /\ Before(k) \cap failing = {}
                       /\ StoreOwned(n, p, Reconciled(n, p, found, Before(k)))
                       /\ Fail(p)
    /\ UNCHANGED <<policyVars, namespaceVars, clusterVars, boundVars>>

ClustersIn(n) == {c \in Clusters : NamespaceOf[c] = n /\ appliedCached[c].exists}

\* reconcileClusters: every Cluster of the namespace is tried, then the errors count.
ReconcileClusters(p) ==
    /\ rec[p].pc = "clusters"
    /\ LET value  == StatusOf(p, rec[p].copy.spec)
           differ == {c \in ClustersIn(rec[p].at) : appliedCached[c] # value}
       IN  /\ WriteStatuses(differ, value)
           /\ IF \A c \in differ : clusterEvent[c] = "none"
              THEN Goto(p, "namespace") /\ UNCHANGED queue
              ELSE Fail(p)
    /\ UNCHANGED <<policyVars, namespaceVars, ownedVars, boundVars>>

\* reconcileNamespacePodSecurityLabels, and the update of the namespace it may need.
UpdateNamespace(p) ==
    /\ rec[p].pc = "namespace"
    /\ LET n == rec[p].at
           listed == rec[p].left[n]
           object == [listed.object EXCEPT !.psa = rec[p].copy.spec.psa]
       IN  \/ /\ object = listed.object
              /\ Continue(p, MatchingLoop(Handled(rec[p])))
              /\ UNCHANGED <<namespaceVars, queue>>
           \/ /\ object # listed.object /\ listed.fresh
              /\ StoreNamespace(n, object)
              /\ \E r \in MatchingLoop(Handled(rec[p])) :
                    rec' = Outdated(n, [rec EXCEPT ![p] = r])
              /\ UNCHANGED queue
           \/ /\ object # listed.object /\ ~listed.fresh
              /\ Fail(p) /\ UNCHANGED namespaceVars
    /\ UNCHANGED <<policyVars, clusterVars, ownedVars, boundVars>>

\* clearPolicyFieldsForClustersInNamespace: errors are of no consequence.
ClearStatuses(n) == WriteStatuses({c \in ClustersIn(n) : appliedCached[c] # Unset}, Unset)


\* The namespace has no policy, or its policy does not exist.
Unbound(label) == label = None \/ ~Exists(policyCached[label])

\* Mutant: the selector asks for the policy of the label.
DeleteOwn(n, label) ==
    IF label = None THEN UNCHANGED ownedVars ELSE StoreOwned(n, label, Nothing)

\* What the controller made in n, but what belongs to the policy of the label: the
\* selector of the three calls of DeleteAllOf.
DeleteOthers(n, label) ==
    LET others == Policies \ {label} IN
    /\ owned' = [owned EXCEPT ![n] = [q \in Policies |->
                                        IF q \in others THEN Nothing ELSE @[q]]]
    /\ ownedEvents' = ownedEvents \cup {q \in others : owned[n][q] # Nothing}

\* cleanupNamespaces, for one namespace.
CleanupNamespace(p) ==
    /\ rec[p].pc = "cleanup"
    /\ LET n == rec[p].at
           label == rec[p].left[n].object.label
       IN  /\ IF Unbound(label) THEN ClearStatuses(n) ELSE UNCHANGED clusterVars
           /\ DeleteOthers(n, label)
    /\ Continue(p, CleanupLoop(Handled(rec[p])))
    /\ UNCHANGED <<policyVars, namespaceVars, boundVars, queue>>

\* Reconcile compares a pointer with a value, so it always updates the policy: that
\* changes nothing, but it fails when the copy is old.
UpdatePolicy(p) ==
    /\ rec[p].pc = "update"
    /\ IF rec[p].fresh THEN Return(p) ELSE Fail(p)
    /\ UNCHANGED <<policyVars, namespaceVars, clusterVars, ownedVars, boundVars>>

-----------------------------------------------------------------------------
(* finalizePolicy: all but the removal of the finalizer is best effort.     *)

Terminating(p) ==
    /\ rec[p].pc = "terminating"
    /\ IF rec[p].fresh THEN StorePolicy(p, [policy[p] EXCEPT !.terminating = TRUE])
       ELSE UNCHANGED policyVars
    /\ Continue(p, ReleaseLoop(Listed(rec[p], Bound(p))))
    /\ UNCHANGED <<namespaceVars, clusterVars, ownedVars, boundVars, queue>>

\* The namespace without the label, and without the Pod Security labels if the policy
\* sets them.
Released(object, spec) == [label |-> None, psa |-> IF spec.psa # None THEN None ELSE object.psa]

\* Mutant: the label is removed from whatever the namespace is by now.
ReleaseNamespaceAnyway(p) ==
    /\ rec[p].pc = "release"
    /\ ClearStatuses(rec[p].at)
    /\ StoreNamespace(rec[p].at, Released(namespace[rec[p].at], rec[p].copy.spec))
    /\ \E r \in ReleaseLoop(Handled(rec[p])) :
          rec' = Outdated(rec[p].at, [rec EXCEPT ![p] = r])
    /\ UNCHANGED <<policyVars, ownedVars, boundVars, queue>>

\* cleanupPolicyResources, for one namespace: no error matters.
ReleaseNamespace(p) ==
    /\ rec[p].pc = "release"
    /\ LET n == rec[p].at
           listed == rec[p].left[n]
       IN  /\ ClearStatuses(n)
           /\ IF listed.fresh
              THEN StoreNamespace(n, Released(listed.object, rec[p].copy.spec))
              ELSE UNCHANGED namespaceVars
           /\ \E r \in ReleaseLoop(Handled(rec[p])) :
                 LET others == [rec EXCEPT ![p] = r]
                 IN  rec' = IF listed.fresh THEN Outdated(n, others) ELSE others
    /\ UNCHANGED <<policyVars, ownedVars, boundVars, queue>>

RemoveFinalizer(p) ==
    /\ rec[p].pc = "removeFinalizer"
    /\ IF rec[p].fresh
       THEN StorePolicy(p, [policy[p] EXCEPT !.finalizer = FALSE, !.life = "gone"]) /\ Return(p)
       ELSE Fail(p) /\ UNCHANGED policyVars
    /\ UNCHANGED <<namespaceVars, clusterVars, ownedVars, boundVars>>

-----------------------------------------------------------------------------
(* Faults.                                                                  *)

\* finalizePolicy goes on after an error, all other steps end with it.
AfterError(p) == CASE rec[p].pc = "terminating" -> ReleaseLoop(Listed(rec[p], Bound(p)))
                   [] rec[p].pc = "release"     -> ReleaseLoop(Handled(rec[p]))
                   [] OTHER                     -> {}

CallFails(p) ==
    /\ Change
    /\ rec[p].pc # "idle"
    /\ IF AfterError(p) = {} THEN Fail(p) ELSE Continue(p, AfterError(p)) /\ UNCHANGED queue
    /\ UNCHANGED <<policyVars, namespaceVars, clusterVars, ownedVars>>

\* The call for one of the objects fails after the ones before it were written.
ObjectCallFails(p, k) ==
    /\ Change
    /\ rec[p].pc = "objects"
    /\ LET n == rec[p].at IN
       StoreOwned(n, p, Reconciled(n, p, [j \in Kinds |-> owned[n][p][j] # None], Before(k)))
    /\ Fail(p)
    /\ UNCHANGED <<policyVars, namespaceVars, clusterVars>>

\* The controller restarts: it enqueues what the caches, filled anew, hold.
Restart ==
    /\ Change
    /\ rec' = [p \in Policies |-> Idle]
    /\ policyCached' = policy /\ policyFresh' = Fresh(Policies)
    /\ namespaceCached' = namespace /\ namespaceFresh' = Fresh(Namespaces)
    /\ appliedCached' = applied /\ clusterEvent' = [c \in Clusters |-> "none"]
    /\ ownedEvents' = {}
    /\ queue' = {p \in Policies : Exists(policy[p])}
    /\ UNCHANGED <<policy, namespace, applied, owned>>

-----------------------------------------------------------------------------
ReconcileStep(p) ==
    \/ AddFinalizer(p) \/ ApplyObjects(p) \/ ReconcileClusters(p) \/ UpdateNamespace(p)
    \/ CleanupNamespace(p) \/ UpdatePolicy(p)
    \/ Terminating(p) \/ ReleaseNamespace(p) \/ RemoveFinalizer(p)

UserStep ==
    \/ \E p \in Policies : CreatePolicy(p) \/ DeletePolicy(p)
    \/ \E p \in Policies, spec \in Specs : EditPolicy(p, spec)
    \/ \E n \in Namespaces : \E object \in EditsOf(namespace[n]) : EditNamespace(n, object)
    \/ \E c \in Clusters : CreateCluster(c) \/ EditCluster(c)

InformerStep ==
    \/ \E p \in Policies : SyncPolicy(p) \/ SyncOwned(p)
    \/ Resync
    \/ \E n \in Namespaces : SyncNamespace(n)
    \/ \E c \in Clusters : SyncCluster(c)
    \/ \E v \in Values : NodesChange(v)

FaultStep ==
    \/ \E c \in Clusters : ClusterControllerWrites(c)
    \/ \E n \in Namespaces, p \in Policies, k \in Kinds : DeleteOwned(n, p, k)
    \/ \E p \in Policies : CallFails(p)
    \/ \E p \in Policies, k \in Kinds \ {"networkpolicy"} : ObjectCallFails(p, k)
    \/ Restart

Next ==
    \/ UserStep
    \/ InformerStep
    \/ FaultStep
    \/ \E p \in Policies : StartReconcile(p) \/ ReconcileStep(p)
    \/ \E n \in Namespaces, p \in Policies : CollectGarbage(n, p)

Spec == Init /\ [][Next]_vars

\* Watches deliver, workers run, calls return, garbage is collected and the informers
\* resync; users and faults do what they like.
Delivery ==
    \/ \E p \in Policies : SyncPolicy(p) \/ SyncOwned(p)
    \/ \E n \in Namespaces : SyncNamespace(n)
    \/ \E c \in Clusters : SyncCluster(c)
    \/ \E n \in Namespaces, p \in Policies : CollectGarbage(n, p)

Fairness ==
    /\ \A p \in Policies : WF_vars(StartReconcile(p) \/ ReconcileStep(p))
    /\ WF_vars(Delivery)
    /\ WF_vars(Resync)

FairSpec == Spec /\ Fairness

-----------------------------------------------------------------------------
(* Properties.                                                              *)

\* What the namespace n holds when exactly the policy p is applied to it.
AppliedTo(n, p) ==
    /\ owned[n] = [q \in Policies |-> IF q = p THEN Wanted(policy[p].spec) ELSE Nothing]
    /\ namespace[n].psa = policy[p].spec.psa
    /\ \A c \in Clusters : NamespaceOf[c] = n /\ applied[c].exists =>
          applied[c] = StatusOf(p, policy[p].spec)

\* A namespace that stays bound to a policy that stays has, in the end and from
\* then on, exactly that policy applied, in its latest form: objects of former
\* policies are gone, and no late reconcile of one puts its marks back.
BoundNamespaceConverges ==
    \A n \in Namespaces, p \in Policies :
        <>[](namespace[n].label = p /\ policy[p].life = "live") => <>[]AppliedTo(n, p)


\* Deleting a policy completes although the clean-up before it is best effort, and
\* nothing it owned is left.
PolicyDeletionCompletes ==
    \A p \in Policies :
        policy[p].life \in {"deleting", "gone"} ~>
            (policy[p].life = "gone" /\ \A n \in Namespaces : owned[n][p] = Nothing)

\* Who is bound to what is the users' decision: the controller writes the whole
\* namespace from an old copy, and still only ever removes the label of a policy that
\* is being deleted.
BindingIsUsers ==
    [][\A n \in Namespaces :
         namespace'[n].label # namespace[n].label /\ bindings' = bindings =>
            /\ namespace'[n].label = None
            /\ policy[namespace[n].label].life \in {"deleting", "gone"}]_vars
=============================================================================
