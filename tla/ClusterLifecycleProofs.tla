---------------------- MODULE ClusterLifecycleProofs ----------------------
(***************************************************************************)
(* Proofs about ClusterLifecycle, for any number of clusters, role         *)
(* bindings, tokens and versions, any number of workers and any number of  *)
(* faults: type correctness, that a cluster without finalizer has nothing  *)
(* deployed, that the shared role bindings lose no live cluster, that the  *)
(* servers are reconfigured for no other reason than a version that was    *)
(* not recorded yet, and, where the caches of the role bindings or of the  *)
(* token do not lag, that a cluster that is gone is unbound and a Ready    *)
(* one is provisioned, with the recorded version.                          *)
(***************************************************************************)
EXTENDS ClusterLifecycle, TLAPS

-----------------------------------------------------------------------------
(* The inductive invariant, one cluster at a time.                          *)

Ending(object) == object.life \in {"deleting", "gone"}

\* What an earlier state of Cluster c tells about the present one. The last
\* conjunct is what the finalizer is for: a Cluster that was seen alive with it
\* cannot have disappeared, because only a reconcile that has read it under
\* deletion removes it, and neither the cache nor a reconcile goes back.
Foretells(c, seen) ==
    /\ Ending(seen) => Ending(cluster[c])
    /\ cluster[c].life = "absent" => seen.life = "absent"
    /\ Exists(seen) /\ Exists(cluster[c]) => seen.expose = cluster[c].expose
    /\ seen.life = "live" /\ seen.finalizer => Exists(cluster[c]) /\ cluster[c].finalizer

CacheInv(c) ==
    /\ cachedFresh[c] => cached[c] = cluster[c]
    /\ Foretells(c, cached[c])
    /\ cluster[c].life = "absent" => ~cluster[c].finalizer

Finalizing == {"unbind", "lease", "removeFinalizer"}

\* The steps of reconcile, and of the rest of Reconcile after it.
Provisioning == DOMAIN NextStep \cup {"status", "update"}

\* The way of a running reconcile is decided by the object as read, of which the
\* copy keeps all but label and status; of the status, a version that is set. A
\* copy that the API server would accept is of the present object, or, after the
\* write of the status, has its status.
RunInv(c) ==
    rec[c].pc # "idle" =>
        /\ Foretells(c, rec[c].orig)
        /\ rec[c].orig.life = IF rec[c].pc \in Finalizing THEN "deleting" ELSE "live"
        /\ rec[c].pc \in Finalizing => Ending(cached[c])
        /\ rec[c].pc \in Provisioning => rec[c].orig.finalizer
        /\ rec[c].copy.life = rec[c].orig.life
        /\ rec[c].copy.finalizer = rec[c].orig.finalizer
        /\ rec[c].copy.expose = rec[c].orig.expose
        /\ rec[c].orig.version # None => rec[c].copy.version = rec[c].orig.version
        /\ rec[c].pc \in {"initPhase", "addFinalizer"} => rec[c].copy = rec[c].orig
        /\ rec[c].fresh /\ rec[c].pc # "update" => cluster[c] = rec[c].orig
        /\ rec[c].fresh /\ rec[c].pc = "update" =>
               /\ cluster[c].life = rec[c].copy.life
               /\ cluster[c].finalizer = rec[c].copy.finalizer
               /\ cluster[c].expose = rec[c].copy.expose
               /\ Status(cluster[c]) = Status(rec[c].copy)

\* The address of an exposed cluster is there before its servers are.
ServersInv(c) ==
    /\ infra[c].servers /\ Exists(cluster[c]) =>
           /\ infra[c].sans = (infra[c].service = "addressed")
           /\ cluster[c].expose => infra[c].service = "addressed"
    /\ rec[c].pc \in {"configs", "server"} /\ rec[c].copy.expose => infra[c].service = "addressed"

\* NothingBeforeFinalizer for c; and only a reconcile that has read c under
\* deletion takes c out of a role binding, which the cache may show late.
BindingInv(c) ==
    /\ cluster[c].life \in {"absent", "live"} /\ ~cluster[c].finalizer =>
           infra[c] = NoInfra /\ \A r \in Roles : c \notin subjects[r]
    /\ \A r \in Roles :
           c \in subjectsSeen[r] /\ c \notin subjects[r] =>
               /\ Ending(cached[c])
               /\ rec[c].pc # "idle" => rec[c].orig.life = "deleting"

ClusterInv(c) == CacheInv(c) /\ RunInv(c) /\ ServersInv(c) /\ BindingInv(c)

\* The cache of the role bindings.
RolesInv ==
    \A r \in Roles : /\ subjectsFresh[r] => subjectsSeen[r] = subjects[r]
                     /\ "roles" \notin Lagging => subjectsFresh[r]

IInv == TypeOK /\ RolesInv /\ \A c \in Clusters : ClusterInv(c)

\* With a cache of the role bindings that does not lag: a role binding that the
\* clean-up has dealt with does not name c any more.
UnboundInv(c) ==
    /\ rec[c].pc = "unbind" /\ rec[c].err = "none" =>
           \A r \in Roles \ rec[c].todo : c \notin subjects[r]
    /\ rec[c].pc \in {"lease", "removeFinalizer"} => \A r \in Roles : c \notin subjects[r]
    /\ cluster[c].life = "gone" => \A r \in Roles : c \notin subjects[r]

\* With a cache of the token secret that does not lag: what a reconcile has
\* achieved so far, by the step it is at.
Provisioned(c) ==
    /\ infra[c].agent /\ infra[c].servers
    /\ infra[c].serverToken = infra[c].token /\ infra[c].token # None
    /\ \A r \in Roles : c \in subjects[r]

BeforeToken  == {"policy", "token"}
BeforeConfig == {"netpol", "service", "configs"}
BeforeBind   == {"server", "agent", "ingress", "bootstrap"}
AfterBind    == {"kubeconfig", "virtual"}

ProgressInv(c) ==
    /\ infra[c].tokenSeen = infra[c].token
    /\ rec[c].pc \in BeforeToken \cup {"tokenSave"} \cup BeforeConfig \cup BeforeBind =>
           rec[c].todo = Roles
    /\ rec[c].pc \in BeforeToken \cup {"tokenSave"} \cup BeforeConfig \cup BeforeBind \cup AfterBind =>
           rec[c].err = "none"
    /\ rec[c].pc = "tokenSave" => infra[c].token = None /\ rec[c].token # None
    /\ rec[c].pc \in BeforeConfig =>
           rec[c].token = infra[c].token /\ infra[c].token # None
    /\ rec[c].pc \in BeforeBind \cup {"bind"} =>
           infra[c].serverToken = infra[c].token /\ infra[c].token # None
    /\ rec[c].pc \in {"agent", "ingress", "bootstrap", "bind"} => infra[c].servers
    /\ rec[c].pc \in {"ingress", "bootstrap", "bind"} => infra[c].agent
    /\ rec[c].pc = "bind" /\ rec[c].err = "none" =>
           \A r \in Roles \ rec[c].todo : c \in subjects[r]
    /\ rec[c].pc \in AfterBind => Provisioned(c)
    /\ rec[c].pc = "status" /\ rec[c].err = "none" => Provisioned(c)
    /\ cluster[c].phase = "Ready" /\ cluster[c].life = "live" =>
           cluster[c].finalizer /\ Provisioned(c)

\* A version that was seen in the status of Cluster c is still there.
SeenVersion(c, seen) ==
    Exists(seen) /\ Exists(cluster[c]) /\ seen.version # None => cluster[c].version = seen.version

VersionInv(c) ==
    SeenVersion(c, cached[c]) /\ (rec[c].pc # "idle" => SeenVersion(c, rec[c].orig))

BeforeServer == {"token", "tokenSave", "netpol", "service", "configs", "server"}
AfterServer  == {"agent", "ingress", "bootstrap", "bind", "kubeconfig", "virtual"}

\* The version of the servers: that of the running reconcile once it has deployed
\* them, the recorded one once it has written the status, and the recorded one
\* when the controller has nothing left to do for the cluster.
ImageInv(c) ==
    /\ rec[c].pc \in BeforeServer => rec[c].copy.version # None
    /\ rec[c].pc \in AfterServer \/ (rec[c].pc = "status" /\ rec[c].err = "none") =>
           rec[c].copy.version # None /\ infra[c].image = rec[c].copy.version
    /\ rec[c].pc = "update" /\ cluster[c].life = "live" => infra[c].image = cluster[c].version
    /\ AtRest(c) /\ cluster[c].life = "live" /\ infra[c].servers =>
           infra[c].image = cluster[c].version

-----------------------------------------------------------------------------
(* Type correctness.                                                        *)

\* The chain of steps, spelled out.
LEMMA StepChain ==
    /\ DOMAIN NextStep = {"policy", "token", "tokenSave", "netpol", "service", "configs", "server",
                          "agent", "ingress", "bootstrap", "bind", "kubeconfig", "virtual"}
    /\ NextStep["policy"] = "token" /\ NextStep["token"] = "tokenSave"
    /\ NextStep["tokenSave"] = "netpol" /\ NextStep["netpol"] = "service"
    /\ NextStep["service"] = "configs" /\ NextStep["configs"] = "server"
    /\ NextStep["server"] = "agent" /\ NextStep["agent"] = "ingress"
    /\ NextStep["ingress"] = "bootstrap" /\ NextStep["bootstrap"] = "bind"
    /\ NextStep["bind"] = "kubeconfig" /\ NextStep["kubeconfig"] = "virtual"
    /\ NextStep["virtual"] = "status"
BY DEF NextStep

LEMMA StepsTyped ==
    /\ Provisioning \subseteq Steps /\ Finalizing \subseteq Steps
    /\ \A step \in DOMAIN NextStep : NextStep[step] \in Steps
    /\ "idle" \in Steps /\ "initPhase" \in Steps /\ "addFinalizer" \in Steps
    /\ "status" \in Steps /\ "update" \in Steps
BY StepChain DEF Provisioning, Finalizing, Steps

LEMMA ConstantsTyped ==
    Absent \in Objects /\ Gone \in Objects /\ NoInfra \in Infra /\ Idle \in Reconciles
<1>1. Absent \in Objects
  BY DEF Absent, Objects, Phases
<1>2. Gone \in Objects
  BY <1>1 DEF Gone, Objects
<1>3. NoInfra \in Infra
  BY DEF NoInfra, Infra
<1>4. Idle \in Reconciles
  BY <1>1, StepsTyped DEF Idle, Reconciles, Errors
<1>5. QED
  BY <1>1, <1>2, <1>3, <1>4

\* The reconcile of c changes, nothing else of the record of reconciles.
LEMMA RecTyped ==
    ASSUME TypeOK, NEW c \in Clusters, NEW new \in Reconciles, rec' = [rec EXCEPT ![c] = new]
    PROVE  rec' \in [Clusters -> Reconciles]
BY DEF TypeOK

LEMMA InfraTyped ==
    ASSUME TypeOK, NEW c \in Clusters, NEW new \in Infra, infra' = [infra EXCEPT ![c] = new]
    PROVE  infra' \in [Clusters -> Infra]
BY DEF TypeOK

LEMMA AdvanceTyped ==
    ASSUME TypeOK, NEW c \in Clusters, rec[c].pc \in DOMAIN NextStep, Advance(c)
    PROVE  rec' \in [Clusters -> Reconciles]
<1>1. rec[c] \in Reconciles /\ NextStep[rec[c].pc] \in Steps
  BY StepsTyped DEF TypeOK
<1>2. [rec[c] EXCEPT !.pc = NextStep[rec[c].pc]] \in Reconciles
  BY <1>1 DEF Reconciles
<1>3. QED
  BY <1>2 DEF TypeOK, Advance

LEMMA FailTyped ==
    ASSUME TypeOK, NEW c \in Clusters, NEW err \in Errors, Fail(c, err)
    PROVE  rec' \in [Clusters -> Reconciles]
<1>1. rec[c] \in Reconciles
  BY DEF TypeOK
<1>2. [rec[c] EXCEPT !.pc = "status", !.err = err] \in Reconciles
  BY <1>1, StepsTyped DEF Reconciles
<1>3. QED
  BY <1>2 DEF TypeOK, Fail

LEMMA ReturnTyped ==
    ASSUME TypeOK, NEW c \in Clusters, NEW requeue \in BOOLEAN, Return(c, requeue)
    PROVE  rec' \in [Clusters -> Reconciles] /\ queue' \subseteq Clusters
BY ConstantsTyped DEF TypeOK, Return

LEMMA StoreTyped ==
    ASSUME TypeOK, NEW c \in Clusters, NEW object \in Objects, StoreCluster(c, object)
    PROVE  /\ cluster' \in [Clusters -> Objects]
           /\ cached' \in [Clusters -> Objects]
           /\ cachedFresh' \in [Clusters -> BOOLEAN]
BY DEF TypeOK, StoreCluster

LEMMA ObjectsUnchanged ==
    ASSUME TypeOK, UNCHANGED objVars
    PROVE  /\ cluster' \in [Clusters -> Objects]
           /\ cached' \in [Clusters -> Objects]
           /\ cachedFresh' \in [Clusters -> BOOLEAN]
BY DEF TypeOK, objVars

LEMMA RolesUnchanged ==
    ASSUME TypeOK, UNCHANGED roleVars
    PROVE  /\ subjects' \in [Roles -> SUBSET Clusters]
           /\ subjectsSeen' \in [Roles -> SUBSET Clusters]
           /\ subjectsFresh' \in [Roles -> BOOLEAN]
BY DEF TypeOK, roleVars

LEMMA UserWritesTyped ==
    ASSUME TypeOK, NEW c \in Clusters, NEW object \in Objects, UserWrites(c, object)
    PROVE  TypeOK'
<1>1. rec' \in [Clusters -> Reconciles]
  BY DEF TypeOK, UserWrites, Reconciles
<1>2. cluster' \in [Clusters -> Objects] /\ cachedFresh' \in [Clusters -> BOOLEAN]
  BY DEF TypeOK, UserWrites
<1>3. QED
  BY <1>1, <1>2, RolesUnchanged DEF TypeOK, UserWrites

LEMMA UpdateTyped ==
    ASSUME TypeOK, NEW c \in Clusters, NEW object \in Objects, UpdateAndReturn(c, object)
    PROVE  TypeOK'
BY StoreTyped, ReturnTyped, ObjectsUnchanged, RolesUnchanged DEF UpdateAndReturn, TypeOK

LEMMA RoleDoneTyped ==
    ASSUME TypeOK, NEW c \in Clusters, NEW r \in Roles, NEW err \in BOOLEAN, RoleDone(c, r, err)
    PROVE  rec' \in [Clusters -> Reconciles]
<1>1. rec[c] \in Reconciles
  BY DEF TypeOK
<1>2. [rec[c] EXCEPT !.todo = @ \ {r}, !.err = IF err THEN "other" ELSE @] \in Reconciles
  BY <1>1 DEF Reconciles, Errors
<1>3. QED
  BY <1>2 DEF TypeOK, RoleDone

LEMMA UpdateRoleTyped ==
    ASSUME TypeOK, NEW c \in Clusters, NEW r \in Roles, NEW new \in SUBSET Clusters,
           UpdateRole(c, r, new)
    PROVE  /\ rec' \in [Clusters -> Reconciles]
           /\ subjects' \in [Roles -> SUBSET Clusters]
           /\ subjectsSeen' \in [Roles -> SUBSET Clusters]
           /\ subjectsFresh' \in [Roles -> BOOLEAN]
<1>1. CASE subjectsFresh[r]
  BY <1>1, RoleDoneTyped DEF TypeOK, UpdateRole, StoreSubjects
<1>2. CASE ~subjectsFresh[r]
  BY <1>2, RoleDoneTyped, RolesUnchanged DEF UpdateRole
<1>3. QED
  BY <1>1, <1>2

\* What comes from the informers, besides the Cluster itself.
OtherSync(c) == SyncToken(c) \/ SyncNetworkPolicy(c) \/ Resync(c)

LEMMA UsersTyped ==
    ASSUME TypeOK, NEW c \in Clusters, Users(c) \/ SyncCluster(c) \/ OtherSync(c) \/ Host(c)
    PROVE  TypeOK'
<1>0. cluster[c] \in Objects /\ infra[c] \in Infra
  BY DEF TypeOK
<1>1. CASE CreateCluster(c)
  <2>1. PICK spec \in Created :
           UserWrites(c, [Absent EXCEPT !.life = "live", !.valid = spec # "invalid",
                                        !.expose = spec = "exposed"])
    BY <1>1 DEF CreateCluster
  <2>2. [Absent EXCEPT !.life = "live", !.valid = spec # "invalid",
                       !.expose = spec = "exposed"] \in Objects
    BY ConstantsTyped DEF Objects
  <2>3. QED
    BY <2>1, <2>2, UserWritesTyped
<1>2. CASE EditSpec(c)
  <2>1. [cluster[c] EXCEPT !.valid = ~cluster[c].valid] \in Objects
    BY <1>0 DEF Objects
  <2>2. QED
    BY <1>2, <2>1, UserWritesTyped DEF EditSpec
<1>3. CASE DeleteCluster(c)
  <2>1. [cluster[c] EXCEPT !.life = "deleting"] \in Objects
    BY <1>0 DEF Objects
  <2>2. QED
    BY <1>3, <2>1, ConstantsTyped, UserWritesTyped DEF DeleteCluster
<1>4. CASE LabelNamespace(c)
  BY <1>4, ObjectsUnchanged, RolesUnchanged DEF LabelNamespace, NamespaceEvent, TypeOK
<1>5. CASE SyncCluster(c)
  BY <1>5, RolesUnchanged DEF SyncCluster, TypeOK
<1>6. CASE SyncToken(c)
  <2>1. [infra[c] EXCEPT !.tokenSeen = infra[c].token] \in Infra
    BY <1>0 DEF Infra
  <2>2. QED
    BY <1>6, <2>1, InfraTyped, ObjectsUnchanged, RolesUnchanged DEF SyncToken, TypeOK
<1>6a. CASE SyncNetworkPolicy(c)
  <2>1. [infra[c] EXCEPT !.netpolSeen = infra[c].netpol] \in Infra
    BY <1>0 DEF Infra
  <2>2. QED
    BY <1>6a, <2>1, InfraTyped, ObjectsUnchanged, RolesUnchanged DEF SyncNetworkPolicy, TypeOK
<1>6b. CASE Resync(c)
  BY <1>6b, ObjectsUnchanged, RolesUnchanged DEF Resync, TypeOK
<1>7. CASE AssignAddress(c) \/ ServerComesUp(c)
  <2>1. [infra[c] EXCEPT !.service = "addressed"] \in Infra /\ [infra[c] EXCEPT !.up = TRUE] \in Infra
    BY <1>0 DEF Infra
  <2>2. QED
    BY <1>7, <2>1, InfraTyped, ObjectsUnchanged, RolesUnchanged
       DEF AssignAddress, ServerComesUp, TypeOK
<1>8. CASE AgentRenewsLease(c) \/ CollectGarbage(c)
  <2>1. [infra[c] EXCEPT !.lease = TRUE] \in Infra
        /\ [NoInfra EXCEPT !.lease = infra[c].lease] \in Infra
    BY <1>0, ConstantsTyped DEF Infra
  <2>2. QED
    BY <1>8, <2>1, InfraTyped, ObjectsUnchanged, RolesUnchanged
       DEF AgentRenewsLease, CollectGarbage, TypeOK
<1>9. QED
  BY <1>1, <1>2, <1>3, <1>4, <1>5, <1>6, <1>6a, <1>6b, <1>7, <1>8 DEF Users, Host, OtherSync

\* The steps of reconcile that deploy something, and those that only go on.
DeployStep(c) ==
    \/ ReconcilePolicy(c) \/ ReadToken(c) \/ SaveToken(c) \/ EnsureNetworkPolicy(c)
    \/ EnsureClusterService(c) \/ EnsureClusterConfigs(c) \/ EnsureServer(c)
    \/ EnsureAgent(c) \/ EnsureIngress(c) \/ EnsureBootstrap(c) \/ BindDone(c)
    \/ EnsureKubeconfigSecret(c) \/ EnsureVirtual(c)

LEMMA DeployTyped ==
    ASSUME TypeOK, NEW c \in Clusters, DeployStep(c)
    PROVE  TypeOK'
<1>0. /\ rec[c] \in Reconciles /\ infra[c] \in Infra /\ rec[c].copy \in Objects
      /\ hostVersion \in Versions
  BY DEF TypeOK, Reconciles
<1>1. /\ UNCHANGED <<objVars, queue, boundNS, roleVars, hostVersion, faults>>
      /\ rec[c].pc \in DOMAIN NextStep
  BY StepChain
     DEF DeployStep, ReconcilePolicy, ReadToken, SaveToken, EnsureNetworkPolicy, EnsureClusterService,
         EnsureClusterConfigs, EnsureServer, EnsureAgent, EnsureIngress, EnsureBootstrap, BindDone,
         EnsureKubeconfigSecret, EnsureVirtual
<1>2. rec' \in [Clusters -> Reconciles]
  <2>1. CASE ReconcilePolicy(c)
    <3> DEFINE labelled == [rec[c].copy EXCEPT !.label = TRUE, !.bound = c \in boundNS]
    <3>1. labelled \in Objects
      <4>1. ASSUME NEW b \in BOOLEAN
            PROVE  [rec[c].copy EXCEPT !.label = TRUE, !.bound = b] \in Objects
        BY <1>0 DEF Objects
      <4>2. (c \in boundNS) \in BOOLEAN
        OBVIOUS
      <4>3. QED
        BY <4>1, <4>2, Zenon
    <3>2. [labelled EXCEPT !.version = HostVersion(labelled)] \in Objects
      BY <1>0, <3>1 DEF Objects, HostVersion
    <3> HIDE DEF labelled
    <3>3. /\ [rec[c] EXCEPT !.pc = NextStep.policy,
                            !.copy = [labelled EXCEPT !.version = HostVersion(labelled)]]
                \in Reconciles
          /\ [rec[c] EXCEPT !.pc = "status", !.err = "validation", !.copy = labelled] \in Reconciles
      <4>1. NextStep.policy \in Steps /\ "status" \in Steps /\ "validation" \in Errors
        BY StepsTyped DEF NextStep, Steps, Errors
      <4>2. QED
        BY <1>0, <3>1, <3>2, <4>1 DEF Reconciles
    <3>4. rec' = [rec EXCEPT ![c] =
                    IF labelled.valid
                    THEN [rec[c] EXCEPT !.pc = NextStep.policy,
                                        !.copy = [labelled EXCEPT !.version = HostVersion(labelled)]]
                    ELSE [rec[c] EXCEPT !.pc = "status", !.err = "validation", !.copy = labelled]]
      BY <2>1 DEF ReconcilePolicy, labelled
    <3>5. QED
      BY <3>3, <3>4 DEF TypeOK
  <2>2. CASE ReadToken(c)
    <3>1. ASSUME NEW t \in Tokens \cup {None}, NEW step \in Steps
          PROVE  [rec[c] EXCEPT !.token = t, !.pc = step] \in Reconciles
      BY <1>0 DEF Reconciles
    <3>2. infra[c].tokenSeen \in Tokens \cup {None} /\ "netpol" \in Steps /\ "tokenSave" \in Steps
      BY <1>0, StepChain DEF Infra, Steps
    <3>3. CASE rec' = [rec EXCEPT ![c].token = infra[c].tokenSeen, ![c].pc = "netpol"]
      BY <3>1, <3>2, <3>3 DEF TypeOK
    <3>4. ASSUME NEW t \in Tokens, rec' = [rec EXCEPT ![c].token = t, ![c].pc = "tokenSave"]
          PROVE  rec' \in [Clusters -> Reconciles]
      BY <3>1, <3>2, <3>4 DEF TypeOK
    <3>5. QED
      BY <2>2, <3>3, <3>4 DEF ReadToken
  <2>3. CASE BindDone(c)
    <3>1. rec[c].err \in Errors
      BY <1>0 DEF Reconciles
    <3>2. QED
      BY <1>1, <2>3, <3>1, AdvanceTyped, FailTyped DEF BindDone
  <2>4. CASE SaveToken(c) \/ EnsureNetworkPolicy(c) \/ EnsureClusterService(c) \/ EnsureBootstrap(c)
    BY <1>1, <2>4, AdvanceTyped, FailTyped
       DEF SaveToken, EnsureNetworkPolicy, EnsureClusterService, EnsureBootstrap, Errors
  <2>5. CASE \/ EnsureClusterConfigs(c) \/ EnsureServer(c)
             \/ EnsureAgent(c) \/ EnsureIngress(c) \/ EnsureKubeconfigSecret(c) \/ EnsureVirtual(c)
    BY <1>1, <2>5, AdvanceTyped
       DEF EnsureClusterConfigs, EnsureServer, EnsureAgent, EnsureIngress,
           EnsureKubeconfigSecret, EnsureVirtual
  <2>6. QED
    BY <2>1, <2>2, <2>3, <2>4, <2>5 DEF DeployStep
<1>3. infra' \in [Clusters -> Infra]
  <2>0. rec[c].token \in Tokens \cup {None} /\ rec[c].copy.bound \in BOOLEAN
    BY <1>0 DEF Reconciles, Objects
  <2>1. CASE SaveToken(c)
    <3>1. [infra[c] EXCEPT !.token = rec[c].token,
              !.tokenSeen = IF "token" \in Lagging THEN None ELSE rec[c].token] \in Infra
      BY <1>0, <2>0 DEF Infra
    <3>2. CASE infra' = [infra EXCEPT ![c].token = rec[c].token,
                          ![c].tokenSeen = IF "token" \in Lagging THEN None ELSE rec[c].token]
      BY <3>1, <3>2 DEF TypeOK
    <3>3. QED
      BY <2>1, <3>2 DEF SaveToken, TypeOK
  <2>2. CASE EnsureNetworkPolicy(c)
    <3>1. ASSUME NEW n \in BOOLEAN, NEW m \in BOOLEAN
          PROVE  [infra[c] EXCEPT !.netpol = n, !.netpolSeen = m] \in Infra
      BY <1>0 DEF Infra
    <3>2. infra[c].netpolSeen \in BOOLEAN /\ WantedPolicy(c) \in BOOLEAN
      BY <1>0, <2>0 DEF Infra, WantedPolicy
    <3>3. \/ infra' = infra
          \/ \E m \in BOOLEAN : infra' = [infra EXCEPT ![c].netpol = WantedPolicy(c), ![c].netpolSeen = m]
      BY <2>2, <3>2 DEF EnsureNetworkPolicy, TypeOK
    <3>4. QED
      <4>1. CASE infra' = infra
        BY <4>1 DEF TypeOK
      <4>2. ASSUME NEW m \in BOOLEAN,
                   infra' = [infra EXCEPT ![c].netpol = WantedPolicy(c), ![c].netpolSeen = m]
            PROVE  infra' \in [Clusters -> Infra]
        <5> DEFINE wanted == WantedPolicy(c)
        <5>1. [infra[c] EXCEPT !.netpol = wanted, !.netpolSeen = m] \in Infra
          BY <3>1, <3>2
        <5> HIDE DEF wanted
        <5>2. infra' = [infra EXCEPT ![c].netpol = wanted, ![c].netpolSeen = m]
          BY <4>2 DEF wanted
        <5>3. QED
          BY <5>1, <5>2 DEF TypeOK
      <4>3. QED
        BY <3>3, <4>1, <4>2
  <2>3. CASE EnsureClusterService(c)
    <3>1. [infra[c] EXCEPT !.service = IF @ = "none" THEN "made" ELSE @] \in Infra
      BY <1>0 DEF Infra
    <3>2. QED
      BY <2>3, <3>1 DEF EnsureClusterService, TypeOK
  <2>4. CASE EnsureClusterConfigs(c)
    <3>1. [infra[c] EXCEPT !.serverToken = rec[c].token] \in Infra
      BY <1>0, <2>0 DEF Infra
    <3>2. QED
      BY <2>4, <3>1 DEF EnsureClusterConfigs, TypeOK
  <2>5. CASE EnsureServer(c)
    <3>1. K3SImage(rec[c].copy) \in Versions \cup {None}
      BY <1>0 DEF K3SImage, Objects
    <3>2. [infra[c] EXCEPT !.servers = TRUE, !.image = K3SImage(rec[c].copy),
                           !.sans = infra[c].service = "addressed"] \in Infra
      BY <1>0, <3>1 DEF Infra
    <3>3. QED
      BY <2>5, <3>2 DEF EnsureServer, TypeOK
  <2>6. CASE EnsureAgent(c)
    <3>1. [infra[c] EXCEPT !.agent = TRUE] \in Infra
      BY <1>0 DEF Infra
    <3>2. QED
      BY <2>6, <3>1 DEF EnsureAgent, TypeOK
  <2>7. CASE \/ ReconcilePolicy(c) \/ ReadToken(c) \/ EnsureIngress(c) \/ EnsureBootstrap(c)
             \/ BindDone(c) \/ EnsureKubeconfigSecret(c) \/ EnsureVirtual(c)
    BY <2>7 DEF ReconcilePolicy, ReadToken, EnsureIngress, EnsureBootstrap, BindDone,
                EnsureKubeconfigSecret, EnsureVirtual, TypeOK
  <2>8. QED
    BY <2>1, <2>2, <2>3, <2>4, <2>5, <2>6, <2>7 DEF DeployStep
<1>4. QED
  BY <1>1, <1>2, <1>3, ObjectsUnchanged, RolesUnchanged DEF TypeOK

\* The other steps of Reconcile.
LEMMA OtherStepsTyped ==
    ASSUME TypeOK, NEW c \in Clusters,
           \/ InitPhase(c) \/ AddFinalizer(c) \/ UpdateStatus(c) \/ UpdateLabels(c)
           \/ UnbindDone(c) \/ DeleteLease(c) \/ RemoveFinalizer(c)
           \/ \E r \in Roles : BindClusterRole(c, r) \/ UnbindClusterRole(c, r)
    PROVE  TypeOK'
<1>0. /\ rec[c] \in Reconciles /\ infra[c] \in Infra /\ rec[c].copy \in Objects
      /\ rec[c].orig \in Objects /\ rec[c].err \in Errors
  BY DEF TypeOK, Reconciles
<1>1. CASE InitPhase(c) \/ AddFinalizer(c)
  <2>1. /\ [rec[c].copy EXCEPT !.phase = "Provisioning"] \in Objects
        /\ [rec[c].copy EXCEPT !.finalizer = TRUE] \in Objects
    BY <1>0 DEF Objects, Phases
  <2>2. QED
    BY <1>1, <2>1, UpdateTyped DEF InitPhase, AddFinalizer
<1>2. CASE UpdateStatus(c)
  <2> DEFINE new    == [rec[c].copy EXCEPT !.phase = PhaseOf(rec[c].err)]
             stored == [new EXCEPT !.label = rec[c].orig.label]
  <2>1. new \in Objects
    BY <1>0 DEF PhaseOf, Objects, Phases, Errors
  <2>2. stored \in Objects
    BY <1>0, <2>1 DEF Objects
  <2> HIDE DEF new, stored
  <2>3. [rec[c] EXCEPT !.pc = "update", !.copy = new] \in Reconciles
    BY <1>0, <2>1, StepsTyped DEF Reconciles
  <2>4. UNCHANGED <<boundNS, infra, roleVars, hostVersion, faults>>
    BY <1>2 DEF UpdateStatus
  <2>5. StoreCluster(c, stored) \/ UNCHANGED objVars
    BY <1>2 DEF UpdateStatus, new, stored
  <2>6. \/ \E requeue \in BOOLEAN : Return(c, requeue)
        \/ rec' = [rec EXCEPT ![c].pc = "update", ![c].copy = new] /\ UNCHANGED queue
    BY <1>2 DEF UpdateStatus, new, Requeues
  <2>7. rec' \in [Clusters -> Reconciles] /\ queue' \subseteq Clusters
    <3>1. CASE \E requeue \in BOOLEAN : Return(c, requeue)
      BY <3>1, ReturnTyped
    <3>2. CASE rec' = [rec EXCEPT ![c].pc = "update", ![c].copy = new] /\ UNCHANGED queue
      BY <2>3, <3>2 DEF TypeOK
    <3>3. QED
      BY <2>6, <3>1, <3>2
  <2>8. QED
    BY <2>2, <2>4, <2>5, <2>7, StoreTyped, ObjectsUnchanged, RolesUnchanged DEF TypeOK
<1>3. CASE UpdateLabels(c)
  BY <1>0, <1>3, UpdateTyped, ReturnTyped, ObjectsUnchanged, RolesUnchanged
     DEF UpdateLabels, TypeOK
<1>4. CASE UnbindDone(c)
  <2>1. [rec[c] EXCEPT !.pc = "lease"] \in Reconciles
    BY <1>0, StepsTyped DEF Reconciles, Finalizing
  <2>2. rec' \in [Clusters -> Reconciles] /\ queue' \subseteq Clusters
    BY <1>4, <2>1, ReturnTyped DEF UnbindDone, TypeOK
  <2>3. QED
    BY <1>4, <2>2, ObjectsUnchanged, RolesUnchanged DEF UnbindDone, TypeOK
<1>5. CASE DeleteLease(c)
  <2>1. [rec[c] EXCEPT !.pc = "removeFinalizer"] \in Reconciles
    BY <1>0, StepsTyped DEF Reconciles, Finalizing
  <2>2. [infra[c] EXCEPT !.lease = FALSE] \in Infra
    BY <1>0 DEF Infra
  <2>3. QED
    BY <1>5, <2>1, <2>2, ObjectsUnchanged, RolesUnchanged DEF DeleteLease, TypeOK
<1>6. CASE RemoveFinalizer(c)
  BY <1>6, ConstantsTyped, UpdateTyped DEF RemoveFinalizer
<1>7. ASSUME NEW r \in Roles, BindClusterRole(c, r) \/ UnbindClusterRole(c, r)
      PROVE  TypeOK'
  <2>1. subjectsSeen[r] \cup {c} \in SUBSET Clusters /\ subjectsSeen[r] \ {c} \in SUBSET Clusters
    BY DEF TypeOK
  <2>2. \/ RoleDone(c, r, FALSE) /\ UNCHANGED roleVars
        \/ UpdateRole(c, r, subjectsSeen[r] \cup {c})
        \/ UpdateRole(c, r, subjectsSeen[r] \ {c})
    BY <1>7 DEF BindClusterRole, UnbindClusterRole
  <2>3. /\ rec' \in [Clusters -> Reconciles]
        /\ subjects' \in [Roles -> SUBSET Clusters]
        /\ subjectsSeen' \in [Roles -> SUBSET Clusters]
        /\ subjectsFresh' \in [Roles -> BOOLEAN]
    BY <2>1, <2>2, RoleDoneTyped, UpdateRoleTyped, RolesUnchanged
  <2>4. UNCHANGED <<objVars, queue, boundNS, infra, hostVersion, faults>>
    BY <1>7 DEF BindClusterRole, UnbindClusterRole
  <2>5. QED
    BY <2>3, <2>4, ObjectsUnchanged DEF TypeOK
<1>8. QED
  BY <1>1, <1>2, <1>3, <1>4, <1>5, <1>6, <1>7

LEMMA StartTyped ==
    ASSUME TypeOK, NEW c \in Clusters, StartReconcile(c)
    PROVE  TypeOK'
<1> DEFINE started == [Idle EXCEPT !.pc = FirstStep(cached[c]), !.orig = cached[c],
                                   !.copy = cached[c], !.fresh = cachedFresh[c], !.todo = Roles]
<1>1. cached[c] \in Objects /\ cachedFresh[c] \in BOOLEAN
  BY DEF TypeOK
<1>2. ASSUME Exists(cached[c]) PROVE started \in Reconciles
  <2>1. FirstStep(cached[c]) \in Steps
    BY <1>1, <1>2, StepsTyped, StepChain DEF FirstStep, Exists, Objects, Finalizing, Steps
  <2>2. QED
    BY <1>1, <2>1, ConstantsTyped DEF Reconciles
<1>3. rec' = [rec EXCEPT ![c] = IF Exists(cached[c]) THEN started ELSE Idle]
  BY DEF StartReconcile
<1> HIDE DEF started
<1>4. rec' \in [Clusters -> Reconciles]
  BY <1>2, <1>3, ConstantsTyped DEF TypeOK
<1>5. QED
  BY <1>4, ObjectsUnchanged, RolesUnchanged DEF StartReconcile, TypeOK

LEMMA FailuresTyped ==
    ASSUME TypeOK, NEW c \in Clusters, CallFails(c)
    PROVE  TypeOK'
<1>1. rec' \in [Clusters -> Reconciles] /\ queue' \subseteq Clusters
  <2>1. CASE Fail(c, "other") /\ UNCHANGED queue
    BY <2>1, FailTyped DEF TypeOK, Errors
  <2>2. ASSUME NEW r \in rec[c].todo, RoleDone(c, r, TRUE), UNCHANGED queue
        PROVE  rec' \in [Clusters -> Reconciles] /\ queue' \subseteq Clusters
    <3>1. r \in Roles
      BY DEF TypeOK, Reconciles
    <3>2. QED
      BY <2>2, <3>1, RoleDoneTyped DEF TypeOK
  <2>3. CASE Return(c, TRUE)
    BY <2>3, ReturnTyped
  <2>4. QED
    BY <2>1, <2>2, <2>3 DEF CallFails
<1>2. QED
  BY <1>1, ObjectsUnchanged, RolesUnchanged DEF CallFails, TypeOK

LEMMA RestartTyped == TypeOK /\ Restart => TypeOK'
<1> SUFFICES ASSUME TypeOK, Restart PROVE TypeOK'
  OBVIOUS
<1>1. ASSUME NEW c \in Clusters
      PROVE  [infra[c] EXCEPT !.tokenSeen = infra[c].token, !.netpolSeen = infra[c].netpol] \in Infra
  <2>1. infra[c] \in Infra
    BY DEF TypeOK
  <2>2. QED
    BY <2>1 DEF Infra
<1>2. infra' \in [Clusters -> Infra]
  BY <1>1 DEF Restart
<1>3. rec' \in [Clusters -> Reconciles] /\ cached' \in [Clusters -> Objects]
  BY ConstantsTyped DEF Restart, TypeOK
<1>4. cachedFresh' \in [Clusters -> BOOLEAN] /\ subjectsFresh' \in [Roles -> BOOLEAN]
  BY DEF Restart
<1>5. queue' \subseteq Clusters /\ subjectsSeen' \in [Roles -> SUBSET Clusters]
  BY DEF Restart, TypeOK
<1>6. faults' \in Nat
  <2>1. faults' = faults + 1
    BY DEF Restart
  <2>2. QED
    BY <2>1 DEF TypeOK
<1>7. UNCHANGED <<cluster, boundNS, subjects, hostVersion>>
  BY DEF Restart
<1>8. QED
  BY <1>2, <1>3, <1>4, <1>5, <1>6, <1>7 DEF TypeOK

LEMMA InitTyped == Init => TypeOK
BY ConstantsTyped DEF Init, TypeOK

LEMMA NextTyped == TypeOK /\ [Next]_vars => TypeOK'
<1> SUFFICES ASSUME TypeOK, [Next]_vars PROVE TypeOK'
  OBVIOUS
<1>1. ASSUME NEW c \in Clusters, ReconcileStep(c) PROVE TypeOK'
  BY <1>1, DeployTyped, OtherStepsTyped DEF ReconcileStep, DeployStep
<1>2. ASSUME NEW r \in Roles, SyncSubjects(r) PROVE TypeOK'
  BY <1>2, ObjectsUnchanged DEF SyncSubjects, TypeOK
<1>3. CASE UpgradeHost
  BY <1>3, ObjectsUnchanged, RolesUnchanged DEF UpgradeHost, TypeOK
<1>4. CASE UNCHANGED vars
  BY <1>4 DEF vars, TypeOK
<1>5. QED
  BY <1>1, <1>2, <1>3, <1>4, UsersTyped, StartTyped, FailuresTyped, RestartTyped
     DEF Next, OtherSync

\* The values of all variables are those the structures of the code allow: in
\* particular every error of reconcile has a phase, and every step a successor.
THEOREM TypeCorrect == Spec => []TypeOK
BY InitTyped, NextTyped, PTL DEF Spec

-----------------------------------------------------------------------------
(* What concerns one cluster only.                                          *)

\* Everything the invariants say of cluster c is as before.
Same(c) ==
    /\ cluster'[c] = cluster[c] /\ cached'[c] = cached[c] /\ cachedFresh'[c] = cachedFresh[c]
    /\ rec'[c] = rec[c] /\ infra'[c] = infra[c]
    /\ \A r \in Roles : /\ c \in subjects'[r] <=> c \in subjects[r]
                        /\ c \in subjectsSeen'[r] <=> c \in subjectsSeen[r]

LEMMA SamePreserves ==
    ASSUME NEW c \in Clusters, ClusterInv(c), Same(c)
    PROVE  ClusterInv(c)'
<1>1. CacheInv(c)' /\ RunInv(c)' /\ ServersInv(c)'
  BY DEF ClusterInv, CacheInv, RunInv, ServersInv, Foretells, Same
<1>2. BindingInv(c)'
  BY DEF ClusterInv, BindingInv, Same
<1>3. QED
  BY <1>1, <1>2 DEF ClusterInv

\* The cache of the role bindings stays what it is, whoever writes them; and a
\* write changes the membership of the writing cluster only.
LEMMA UpdateRoleEffect ==
    ASSUME TypeOK, RolesInv, NEW c \in Clusters, NEW r \in Roles, NEW new,
           new \in {subjectsSeen[r] \cup {c}, subjectsSeen[r] \ {c}},
           UpdateRole(c, r, new)
    PROVE  /\ RolesInv'
           /\ \A d \in Clusters \ {c}, q \in Roles :
                 /\ d \in subjects'[q] <=> d \in subjects[q]
                 /\ d \in subjectsSeen'[q] <=> d \in subjectsSeen[q]
<1>1. CASE ~subjectsFresh[r]
  BY <1>1 DEF UpdateRole, roleVars, RolesInv
<1>2. CASE subjectsFresh[r]
  <2>1. subjectsSeen[r] = subjects[r] /\ StoreSubjects(r, new)
    BY <1>2 DEF RolesInv, UpdateRole
  <2>2. CASE "roles" \in Lagging
    BY <2>1, <2>2 DEF StoreSubjects, RolesInv, TypeOK
  <2>3. CASE "roles" \notin Lagging
    BY <2>1, <2>3 DEF StoreSubjects, RolesInv, TypeOK
  <2>4. QED
    BY <2>2, <2>3
<1>3. QED
  BY <1>1, <1>2

LEMMA OthersSame ==
    ASSUME TypeOK, RolesInv, NEW c \in Clusters, NEW d \in Clusters, c # d,
           \/ Users(c) \/ Host(c) \/ SyncCluster(c) \/ OtherSync(c)
           \/ StartReconcile(c) \/ ReconcileStep(c) \/ CallFails(c)
    PROVE  Same(d)
<1> USE DEF TypeOK, Same, objVars, roleVars
<1>1. CASE CreateCluster(c) \/ EditSpec(c) \/ DeleteCluster(c) \/ LabelNamespace(c)
  BY <1>1 DEF CreateCluster, EditSpec, DeleteCluster, LabelNamespace, UserWrites
<1>2. CASE Host(c)
  BY <1>2 DEF Host, AssignAddress, ServerComesUp, AgentRenewsLease, CollectGarbage
<1>3. CASE SyncCluster(c) \/ OtherSync(c) \/ StartReconcile(c)
  BY <1>3 DEF SyncCluster, OtherSync, SyncToken, SyncNetworkPolicy, Resync, StartReconcile
<1>4. CASE CallFails(c)
  BY <1>4 DEF CallFails, Fail, RoleDone, Return
<1>5. CASE InitPhase(c) \/ AddFinalizer(c) \/ RemoveFinalizer(c) \/ UpdateLabels(c)
  BY <1>5 DEF InitPhase, AddFinalizer, RemoveFinalizer, UpdateLabels, UpdateAndReturn,
              StoreCluster, Return
<1>6. CASE UpdateStatus(c)
  BY <1>6 DEF UpdateStatus, StoreCluster, Return
<1>7. CASE ReconcilePolicy(c) \/ ReadToken(c) \/ BindDone(c) \/ EnsureBootstrap(c)
  BY <1>7 DEF ReconcilePolicy, ReadToken, BindDone, EnsureBootstrap, Advance, Fail
<1>8. CASE SaveToken(c) \/ EnsureNetworkPolicy(c) \/ EnsureClusterService(c)
           \/ EnsureClusterConfigs(c)
  BY <1>8 DEF SaveToken, EnsureNetworkPolicy, EnsureClusterService, EnsureClusterConfigs, Advance,
              Fail
<1>9. CASE EnsureServer(c) \/ EnsureAgent(c) \/ EnsureIngress(c) \/ EnsureKubeconfigSecret(c)
           \/ EnsureVirtual(c)
  BY <1>9 DEF EnsureServer, EnsureAgent, EnsureIngress, EnsureKubeconfigSecret, EnsureVirtual, Advance
<1>10. CASE UnbindDone(c) \/ DeleteLease(c)
  BY <1>10 DEF UnbindDone, DeleteLease, Return
<1>11. ASSUME NEW r \in Roles, BindClusterRole(c, r) \/ UnbindClusterRole(c, r) PROVE Same(d)
  <2>1. /\ UNCHANGED <<objVars, infra>>
        /\ \E err \in BOOLEAN : RoleDone(c, r, err)
    BY <1>11 DEF BindClusterRole, UnbindClusterRole, UpdateRole
  <2>2. rec'[d] = rec[d]
    BY <2>1 DEF RoleDone
  <2>3. \A q \in Roles : /\ d \in subjects'[q] <=> d \in subjects[q]
                         /\ d \in subjectsSeen'[q] <=> d \in subjectsSeen[q]
    BY <1>11, UpdateRoleEffect DEF BindClusterRole, UnbindClusterRole
  <2>4. QED
    BY <2>1, <2>2, <2>3
<1>12. QED
  BY <1>1, <1>2, <1>3, <1>4, <1>5, <1>6, <1>7, <1>8, <1>9, <1>10, <1>11 DEF Users, ReconcileStep

\* A reconcile that is beyond the first steps works on a Cluster that has its
\* finalizer or is on its way out.
LEMMA Covered ==
    ASSUME NEW c \in Clusters, ClusterInv(c), rec[c].pc # "idle"
    PROVE  /\ rec[c].pc \in Provisioning /\ rec[c].pc \notin Finalizing =>
                  Exists(cluster[c]) /\ cluster[c].finalizer
                  /\ rec[c].copy.expose = cluster[c].expose
           /\ rec[c].pc \in Finalizing => Ending(cluster[c])
BY DEF ClusterInv, RunInv, Foretells, Ending, Exists

-----------------------------------------------------------------------------
(* The reconcile goes on, or it ends: two shapes nearly all steps have.     *)

\* The reconcile of c takes a step in memory; the class of its step stays.
GoesOn(c) ==
    /\ cluster'[c] = cluster[c] /\ cached'[c] = cached[c] /\ cachedFresh'[c] = cachedFresh[c]
    /\ rec[c].pc # "idle" /\ rec'[c].pc # "idle"
    /\ \/ rec[c].pc \in DOMAIN NextStep /\ rec'[c].pc \in DOMAIN NextStep \cup {"status"}
       \/ rec[c].pc \in Finalizing /\ rec'[c].pc \in Finalizing
    /\ rec'[c].orig = rec[c].orig /\ rec'[c].fresh = rec[c].fresh
    /\ rec'[c].copy.life = rec[c].copy.life /\ rec'[c].copy.finalizer = rec[c].copy.finalizer
    /\ rec'[c].copy.expose = rec[c].copy.expose
    /\ rec[c].copy.version # None => rec'[c].copy.version = rec[c].copy.version

\* The reconcile of c returns and has written nothing.
Returns(c) ==
    /\ cluster'[c] = cluster[c] /\ cached'[c] = cached[c] /\ cachedFresh'[c] = cachedFresh[c]
    /\ rec'[c] = Idle

LEMMA GoesOnPreserves ==
    ASSUME NEW c \in Clusters, ClusterInv(c), GoesOn(c)
    PROVE  CacheInv(c)' /\ RunInv(c)'
<1>1. CacheInv(c)'
  BY DEF ClusterInv, CacheInv, Foretells, GoesOn
<1>2. RunInv(c)'
  <2>1. RunInv(c) /\ Foretells(c, rec[c].orig)
    BY DEF ClusterInv, RunInv, GoesOn
  <2>2. Foretells(c, rec[c].orig)'
    BY <2>1 DEF Foretells, GoesOn
  <2>3. /\ rec'[c].pc \notin {"idle", "initPhase", "addFinalizer", "update"}
        /\ rec[c].pc \notin {"idle", "initPhase", "addFinalizer", "update"}
        /\ rec'[c].pc \in Finalizing <=> rec[c].pc \in Finalizing
        /\ rec'[c].pc \in Provisioning <=> rec[c].pc \in Provisioning
    BY StepChain DEF GoesOn, Finalizing, Provisioning
  <2>4. QED
    BY <2>1, <2>2, <2>3 DEF RunInv, GoesOn
<1>3. QED
  BY <1>1, <1>2

LEMMA ReturnsPreserves ==
    ASSUME NEW c \in Clusters, ClusterInv(c), Returns(c)
    PROVE  CacheInv(c)' /\ RunInv(c)'
BY DEF ClusterInv, CacheInv, RunInv, Foretells, Returns, Idle

\* Which steps have these shapes, and where they lead.
LEMMA AdvanceGoesOn ==
    ASSUME TypeOK, NEW c \in Clusters, rec[c].pc \in DOMAIN NextStep, Advance(c),
           UNCHANGED objVars
    PROVE  /\ GoesOn(c) /\ rec'[c].pc = NextStep[rec[c].pc]
           /\ rec'[c].todo = rec[c].todo /\ rec'[c].err = rec[c].err
           /\ rec'[c].token = rec[c].token /\ rec'[c].copy = rec[c].copy
<1>1. rec[c] \in Reconciles /\ rec'[c] = [rec[c] EXCEPT !.pc = NextStep[rec[c].pc]]
  BY DEF TypeOK, Advance
<1>2. /\ rec'[c].pc = NextStep[rec[c].pc] /\ rec'[c].orig = rec[c].orig
      /\ rec'[c].copy = rec[c].copy /\ rec'[c].fresh = rec[c].fresh
      /\ rec'[c].todo = rec[c].todo /\ rec'[c].err = rec[c].err /\ rec'[c].token = rec[c].token
  BY <1>1 DEF Reconciles
<1>3. rec'[c].pc \in DOMAIN NextStep \cup {"status"} /\ rec[c].pc # "idle" /\ rec'[c].pc # "idle"
  BY <1>2, StepChain
<1>4. QED
  BY <1>2, <1>3 DEF GoesOn, objVars

LEMMA FailGoesOn ==
    ASSUME TypeOK, NEW c \in Clusters, NEW err, rec[c].pc \in DOMAIN NextStep, Fail(c, err),
           UNCHANGED objVars
    PROVE  /\ GoesOn(c) /\ rec'[c].pc = "status" /\ rec'[c].err = err
           /\ rec'[c].copy = rec[c].copy
<1>1. rec[c] \in Reconciles /\ rec'[c] = [rec[c] EXCEPT !.pc = "status", !.err = err]
  BY DEF TypeOK, Fail
<1>2. /\ rec'[c].pc = "status" /\ rec'[c].orig = rec[c].orig /\ rec'[c].copy = rec[c].copy
      /\ rec'[c].fresh = rec[c].fresh /\ rec'[c].err = err
  BY <1>1 DEF Reconciles
<1>3. rec[c].pc # "idle"
  BY StepChain
<1>4. QED
  BY <1>2, <1>3 DEF GoesOn, objVars

LEMMA RoleDoneGoesOn ==
    ASSUME TypeOK, NEW c \in Clusters, NEW r, NEW err \in BOOLEAN,
           rec[c].pc \in {"bind", "unbind"}, RoleDone(c, r, err), UNCHANGED objVars
    PROVE  /\ GoesOn(c) /\ rec'[c].pc = rec[c].pc /\ rec'[c].todo = rec[c].todo \ {r}
           /\ rec'[c].err = IF err THEN "other" ELSE rec[c].err
           /\ rec'[c].copy = rec[c].copy
<1>1. /\ rec[c] \in Reconciles
      /\ rec'[c] = [rec[c] EXCEPT !.todo = @ \ {r}, !.err = IF err THEN "other" ELSE @]
  BY DEF TypeOK, RoleDone
<1>2. /\ rec'[c].pc = rec[c].pc /\ rec'[c].orig = rec[c].orig /\ rec'[c].copy = rec[c].copy
      /\ rec'[c].fresh = rec[c].fresh /\ rec'[c].todo = rec[c].todo \ {r}
      /\ rec'[c].err = IF err THEN "other" ELSE rec[c].err
  BY <1>1 DEF Reconciles
<1>3. QED
  BY <1>2, StepChain DEF GoesOn, objVars, Finalizing

LEMMA ReturnReturns ==
    ASSUME TypeOK, NEW c \in Clusters, NEW requeue, Return(c, requeue), UNCHANGED objVars
    PROVE  Returns(c)
BY DEF TypeOK, Return, Returns, objVars

LEMMA GoesOnBinding ==
    ASSUME NEW c \in Clusters, ClusterInv(c), GoesOn(c), UNCHANGED roleVars
    PROVE  BindingInv(c)'
<1>1. \/ Exists(cluster[c]) /\ cluster[c].finalizer
      \/ Ending(cluster[c])
  BY Covered, StepChain DEF GoesOn, Provisioning, Finalizing
<1>2. QED
  BY <1>1 DEF ClusterInv, BindingInv, GoesOn, roleVars, Ending, Exists

LEMMA ReturnsInv ==
    ASSUME NEW c \in Clusters, ClusterInv(c), Returns(c), UNCHANGED <<infra, roleVars>>
    PROVE  ClusterInv(c)'
<1>1. ServersInv(c)'
  BY DEF ClusterInv, ServersInv, Returns, Idle
<1>2. BindingInv(c)'
  BY DEF ClusterInv, BindingInv, Returns, roleVars, Idle
<1>3. QED
  BY <1>1, <1>2, ReturnsPreserves DEF ClusterInv

\* What ReconcilePolicy makes of the copy.
LEMMA PolicyGoesOn ==
    ASSUME TypeOK, NEW c \in Clusters, ReconcilePolicy(c)
    PROVE  /\ GoesOn(c) /\ rec'[c].todo = rec[c].todo
           /\ \/ /\ rec'[c].pc = "token" /\ rec'[c].err = rec[c].err
                 /\ rec'[c].copy.version # None
              \/ rec'[c].pc = "status" /\ rec'[c].err = "validation"
<1> DEFINE labelled == [rec[c].copy EXCEPT !.label = TRUE, !.bound = c \in boundNS]
           versioned == [labelled EXCEPT !.version = HostVersion(labelled)]
<1>0. rec[c] \in Reconciles /\ rec[c].copy \in Objects
  BY DEF TypeOK, Reconciles
<1>1. rec'[c] = IF labelled.valid
                THEN [rec[c] EXCEPT !.pc = NextStep.policy, !.copy = versioned]
                ELSE [rec[c] EXCEPT !.pc = "status", !.err = "validation", !.copy = labelled]
  BY DEF ReconcilePolicy, TypeOK
<1>2. \A copy \in {labelled, versioned} :
         /\ copy.life = rec[c].copy.life /\ copy.finalizer = rec[c].copy.finalizer
         /\ copy.expose = rec[c].copy.expose
         /\ rec[c].copy.version # None => copy.version = rec[c].copy.version
  BY <1>0 DEF Objects, HostVersion
<1>3. versioned.version # None
  <2>1. labelled.version = rec[c].copy.version
    BY <1>0 DEF Objects
  <2>2. versioned.version = HostVersion(labelled)
    BY <1>0 DEF Objects
  <2>3. hostVersion # None
    BY LifecycleAssumption DEF TypeOK
  <2>4. QED
    BY <2>2, <2>3 DEF HostVersion
<1> HIDE DEF labelled, versioned
<1>4. /\ rec'[c].orig = rec[c].orig /\ rec'[c].fresh = rec[c].fresh /\ rec'[c].todo = rec[c].todo
      /\ rec'[c].copy \in {labelled, versioned}
      /\ \/ /\ rec'[c].pc = NextStep.policy /\ rec'[c].err = rec[c].err
            /\ rec'[c].copy = versioned
         \/ rec'[c].pc = "status" /\ rec'[c].err = "validation"
  BY <1>0, <1>1 DEF Reconciles
<1>5. rec[c].pc = "policy" /\ UNCHANGED objVars
  BY DEF ReconcilePolicy
<1>6. NextStep.policy = "token"
  BY DEF NextStep
<1>7. GoesOn(c)
  BY <1>2, <1>4, <1>5, <1>6, StepChain DEF GoesOn, objVars
<1>8. QED
  BY <1>4, <1>6, <1>7, <1>3

LEMMA ReadTokenGoesOn ==
    ASSUME TypeOK, NEW c \in Clusters, ReadToken(c)
    PROVE  /\ GoesOn(c) /\ rec'[c].todo = rec[c].todo /\ rec'[c].err = rec[c].err
           /\ rec'[c].copy = rec[c].copy
           /\ \/ /\ rec'[c].pc = "netpol" /\ infra[c].tokenSeen # None
                 /\ rec'[c].token = infra[c].tokenSeen
              \/ /\ rec'[c].pc = "tokenSave" /\ infra[c].tokenSeen = None
                 /\ rec'[c].token \in Tokens
<1>0. rec[c] \in Reconciles
  BY DEF TypeOK
<1>1. PICK t, step :
         /\ rec' = [rec EXCEPT ![c].token = t, ![c].pc = step]
         /\ \/ step = "netpol" /\ infra[c].tokenSeen # None /\ t = infra[c].tokenSeen
            \/ step = "tokenSave" /\ infra[c].tokenSeen = None /\ t \in Tokens
  BY DEF ReadToken
<1>2. rec'[c] = [rec[c] EXCEPT !.token = t, !.pc = step]
  BY <1>1 DEF TypeOK
<1>3. /\ rec'[c].orig = rec[c].orig /\ rec'[c].fresh = rec[c].fresh /\ rec'[c].copy = rec[c].copy
      /\ rec'[c].todo = rec[c].todo /\ rec'[c].err = rec[c].err
      /\ rec'[c].pc = step /\ rec'[c].token = t
  BY <1>0, <1>2 DEF Reconciles
<1>4. rec[c].pc = "token" /\ UNCHANGED objVars
  BY DEF ReadToken
<1>5. GoesOn(c)
  BY <1>1, <1>3, <1>4, StepChain DEF GoesOn, objVars
<1>6. QED
  BY <1>1, <1>3, <1>5

\* A deploying step goes on; it leaves the roles, and what it does not deploy.
LEMMA DeployGoesOn ==
    ASSUME TypeOK, NEW c \in Clusters, DeployStep(c)
    PROVE  GoesOn(c) /\ rec[c].pc \in DOMAIN NextStep /\ UNCHANGED roleVars
<1>1. UNCHANGED objVars /\ UNCHANGED roleVars /\ rec[c].pc \in DOMAIN NextStep
  BY StepChain
     DEF DeployStep, ReconcilePolicy, ReadToken, SaveToken, EnsureNetworkPolicy,
         EnsureClusterService, EnsureClusterConfigs, EnsureServer, EnsureAgent, EnsureIngress,
         EnsureBootstrap, BindDone, EnsureKubeconfigSecret, EnsureVirtual
<1>2. CASE ReconcilePolicy(c) \/ ReadToken(c)
  BY <1>1, <1>2, PolicyGoesOn, ReadTokenGoesOn
<1>3. CASE Advance(c) \/ \E err : Fail(c, err)
  BY <1>1, <1>3, AdvanceGoesOn, FailGoesOn
<1>4. QED
  BY <1>1, <1>2, <1>3
     DEF DeployStep, SaveToken, EnsureNetworkPolicy, EnsureClusterService, EnsureClusterConfigs,
         EnsureServer, EnsureAgent, EnsureIngress, EnsureBootstrap, BindDone,
         EnsureKubeconfigSecret, EnsureVirtual

\* Steps that do not touch the service nor the StatefulSet.
LEMMA ServersKept ==
    ASSUME NEW c \in Clusters, ClusterInv(c), GoesOn(c),
           infra'[c].servers = infra[c].servers, infra'[c].sans = infra[c].sans,
           infra'[c].service = infra[c].service,
           \/ rec'[c].pc \notin {"configs", "server"}
           \/ rec[c].pc \in {"configs", "server"} /\ rec'[c].copy = rec[c].copy
    PROVE  ServersInv(c)'
BY DEF ClusterInv, ServersInv, GoesOn

LEMMA DeployInv ==
    ASSUME TypeOK, NEW c \in Clusters, ClusterInv(c), DeployStep(c)
    PROVE  ClusterInv(c)'
<1>0. /\ GoesOn(c) /\ UNCHANGED roleVars /\ infra[c] \in Infra
      /\ rec[c].copy.expose = cluster[c].expose
      /\ Exists(cluster[c])
  BY DeployGoesOn, Covered, StepChain DEF TypeOK, Provisioning, Finalizing, GoesOn
<1>1. CASE ReconcilePolicy(c) \/ ReadToken(c)
  <2>1. infra' = infra /\ rec'[c].pc \notin {"configs", "server"}
    BY <1>1, PolicyGoesOn, ReadTokenGoesOn DEF ReconcilePolicy, ReadToken
  <2>2. QED
    BY <1>0, <2>1, ServersKept, GoesOnPreserves, GoesOnBinding DEF ClusterInv
<1>2. CASE SaveToken(c) \/ EnsureNetworkPolicy(c)
  <2>1. /\ infra'[c].servers = infra[c].servers /\ infra'[c].sans = infra[c].sans
        /\ infra'[c].service = infra[c].service
    BY <1>0, <1>2 DEF SaveToken, EnsureNetworkPolicy, TypeOK, Infra
  <2>2. rec'[c].pc \in {"netpol", "service", "status"}
    BY <1>2, AdvanceGoesOn, FailGoesOn, StepChain DEF SaveToken, EnsureNetworkPolicy
  <2>3. QED
    BY <1>0, <2>1, <2>2, ServersKept, GoesOnPreserves, GoesOnBinding DEF ClusterInv
<1>3. CASE EnsureClusterService(c)
  <2>1. /\ infra'[c].servers = infra[c].servers /\ infra'[c].sans = infra[c].sans
        /\ infra'[c].service = IF infra[c].service = "none" THEN "made" ELSE infra[c].service
    BY <1>0, <1>3 DEF EnsureClusterService, TypeOK, Infra
  <2>2. \/ rec'[c].pc = "status"
        \/ /\ rec'[c].pc = "configs" /\ rec'[c].copy = rec[c].copy
           /\ ~AddressMissing(c)
    BY <1>3, AdvanceGoesOn, FailGoesOn, StepChain DEF EnsureClusterService
  <2>3. ServersInv(c)'
    BY <1>0, <2>1, <2>2 DEF ClusterInv, ServersInv, AddressMissing, GoesOn
  <2>4. QED
    BY <1>0, <2>3, GoesOnPreserves, GoesOnBinding DEF ClusterInv
<1>4. CASE EnsureClusterConfigs(c) \/ EnsureAgent(c)
  <2>1. /\ infra'[c].servers = infra[c].servers /\ infra'[c].sans = infra[c].sans
        /\ infra'[c].service = infra[c].service
    BY <1>0, <1>4 DEF EnsureClusterConfigs, EnsureAgent, TypeOK, Infra
  <2>2. \/ rec'[c].pc = "ingress"
        \/ rec[c].pc = "configs" /\ rec'[c].copy = rec[c].copy
    BY <1>4, AdvanceGoesOn, StepChain DEF EnsureClusterConfigs, EnsureAgent
  <2>3. QED
    BY <1>0, <2>1, <2>2, ServersKept, GoesOnPreserves, GoesOnBinding DEF ClusterInv
<1>5. CASE EnsureServer(c)
  <2>1. /\ infra'[c].sans = (infra[c].service = "addressed")
        /\ infra'[c].service = infra[c].service
    BY <1>0, <1>5 DEF EnsureServer, TypeOK, Infra
  <2>2. rec[c].pc = "server" /\ rec'[c].pc = "agent"
    BY <1>5, AdvanceGoesOn, StepChain DEF EnsureServer
  <2>3. ServersInv(c)'
    BY <1>0, <2>1, <2>2 DEF ClusterInv, ServersInv, GoesOn
  <2>4. QED
    BY <1>0, <2>3, GoesOnPreserves, GoesOnBinding DEF ClusterInv
<1>6. CASE \/ EnsureIngress(c) \/ EnsureBootstrap(c) \/ BindDone(c)
           \/ EnsureKubeconfigSecret(c) \/ EnsureVirtual(c)
  <2>1. infra' = infra /\ rec'[c].pc \in {"bootstrap", "bind", "kubeconfig", "virtual", "status"}
    BY <1>6, AdvanceGoesOn, FailGoesOn, StepChain
       DEF EnsureIngress, EnsureBootstrap, BindDone, EnsureKubeconfigSecret, EnsureVirtual
  <2>2. QED
    BY <1>0, <2>1, ServersKept, GoesOnPreserves, GoesOnBinding DEF ClusterInv
<1>7. QED
  BY <1>1, <1>2, <1>3, <1>4, <1>5, <1>6 DEF DeployStep

-----------------------------------------------------------------------------
(* Writes of the Cluster.                                                   *)

\* What every write but the removal of the finalizer has in common.
Follows(c) ==
    /\ cluster'[c].life # "absent"
    /\ Ending(cluster[c]) => Ending(cluster'[c])
    /\ Exists(cluster[c]) /\ Exists(cluster'[c]) => cluster'[c].expose = cluster[c].expose
    /\ Exists(cluster'[c]) => Exists(cluster[c]) \/ cluster[c].life = "absent"
    /\ Exists(cluster[c]) /\ cluster[c].finalizer => Exists(cluster'[c]) /\ cluster'[c].finalizer
    /\ cluster'[c].life = "live" /\ ~cluster'[c].finalizer =>
           cluster[c].life \in {"absent", "live"} /\ ~cluster[c].finalizer

LEMMA FollowsForetells ==
    ASSUME NEW c \in Clusters, NEW seen \in Objects, Follows(c), Foretells(c, seen)
    PROVE  Foretells(c, seen)'
<1>1. cluster[c].life = "absent" => seen.life = "absent"
  BY DEF Foretells
<1>2. QED
  BY <1>1 DEF Foretells, Follows, Ending, Exists, Objects

\* The object is replaced, the cache is late, what is deployed stays.
LEMMA WriteInv ==
    ASSUME TypeOK, NEW c \in Clusters, ClusterInv(c), Follows(c),
           UNCHANGED <<cached, infra, roleVars>>, cachedFresh'[c] = FALSE
    PROVE  /\ CacheInv(c)'
           /\ rec'[c] = Idle => ServersInv(c)' /\ BindingInv(c)'
           /\ rec'[c].pc = rec[c].pc /\ rec'[c].copy = rec[c].copy /\ rec'[c].orig = rec[c].orig =>
                 ServersInv(c)' /\ BindingInv(c)'
<1>0. cached[c] \in Objects /\ infra[c] \in Infra
  BY DEF TypeOK
<1>1. CacheInv(c)'
  <2>1. Foretells(c, cached[c])
    BY DEF ClusterInv, CacheInv
  <2>2. Foretells(c, cached[c])'
    BY <1>0, <2>1, FollowsForetells DEF Foretells
  <2>3. QED
    BY <2>2 DEF CacheInv, Follows
<1>2. cluster[c].life = "absent" => infra[c].servers = FALSE
  BY DEF ClusterInv, CacheInv, BindingInv, NoInfra
<1>3. infra'[c].servers /\ Exists(cluster'[c]) =>
           /\ infra'[c].sans = (infra'[c].service = "addressed")
           /\ cluster'[c].expose => infra'[c].service = "addressed"
  BY <1>0, <1>2 DEF ClusterInv, ServersInv, Follows, Exists, Infra
<1>4. cluster'[c].life \in {"absent", "live"} /\ ~cluster'[c].finalizer =>
           infra'[c] = NoInfra /\ \A r \in Roles : c \notin subjects'[r]
  BY DEF ClusterInv, BindingInv, Follows, roleVars
<1>5. QED
  BY <1>1, <1>3, <1>4 DEF ClusterInv, ServersInv, BindingInv, roleVars, Idle

LEMMA UserWriteInv ==
    ASSUME TypeOK, NEW c \in Clusters, ClusterInv(c), NEW object, UserWrites(c, object), Follows(c)
    PROVE  ClusterInv(c)'
<1>0. rec[c] \in Reconciles
  BY DEF TypeOK
<1>1. rec'[c] = [rec[c] EXCEPT !.fresh = FALSE]
  BY DEF UserWrites, TypeOK
<1>2. /\ rec'[c].pc = rec[c].pc /\ rec'[c].copy = rec[c].copy /\ rec'[c].orig = rec[c].orig
      /\ rec'[c].fresh = FALSE
  BY <1>0, <1>1 DEF Reconciles
<1>3. /\ UNCHANGED <<cached, infra, roleVars>> /\ cachedFresh'[c] = FALSE
  BY DEF UserWrites, TypeOK
<1>4. RunInv(c)'
  <2>1. rec[c].pc # "idle" => Foretells(c, rec[c].orig)
    BY DEF ClusterInv, RunInv
  <2>2. rec[c].pc # "idle" => Foretells(c, rec[c].orig)'
    <3>1. rec[c].orig \in Objects
      BY <1>0 DEF Reconciles
    <3>2. QED
      BY <1>2, <2>1, <3>1, FollowsForetells DEF Foretells
  <2>3. QED
    BY <1>2, <1>3, <2>2 DEF ClusterInv, RunInv
<1>5. QED
  BY <1>2, <1>3, <1>4, WriteInv DEF ClusterInv

LEMMA UsersInv ==
    ASSUME TypeOK, NEW c \in Clusters, ClusterInv(c), Users(c)
    PROVE  ClusterInv(c)'
<1>0. cluster[c] \in Objects
  BY DEF TypeOK
<1>1. CASE CreateCluster(c)
  <2>1. PICK spec \in Created :
           UserWrites(c, [Absent EXCEPT !.life = "live", !.valid = spec # "invalid",
                                        !.expose = spec = "exposed"])
    BY <1>1 DEF CreateCluster
  <2>2. cluster'[c] = [Absent EXCEPT !.life = "live", !.valid = spec # "invalid",
                                     !.expose = spec = "exposed"]
    BY <2>1 DEF UserWrites, TypeOK
  <2>3. cluster'[c].life = "live" /\ ~cluster'[c].finalizer
    BY <2>2 DEF Absent
  <2>4. cluster[c].life = "absent" /\ ~cluster[c].finalizer
    BY <1>1 DEF CreateCluster, ClusterInv, CacheInv
  <2>5. Follows(c)
    BY <2>3, <2>4 DEF Follows, Exists, Ending
  <2>6. QED
    BY <2>1, <2>5, UserWriteInv
<1>2. CASE EditSpec(c)
  <2>1. cluster'[c] = [cluster[c] EXCEPT !.valid = ~cluster[c].valid]
    BY <1>2 DEF EditSpec, UserWrites, TypeOK
  <2>2. Follows(c)
    BY <1>0, <1>2, <2>1 DEF EditSpec, Follows, Exists, Ending, Objects
  <2>3. QED
    BY <1>2, <2>2, UserWriteInv DEF EditSpec
<1>3. CASE DeleteCluster(c)
  <2>1. cluster'[c] = IF cluster[c].finalizer
                      THEN [cluster[c] EXCEPT !.life = "deleting"] ELSE Gone
    BY <1>3 DEF DeleteCluster, UserWrites, TypeOK
  <2>2. Gone.life = "gone"
    BY DEF Gone, Absent
  <2>3. Follows(c)
    BY <1>0, <1>3, <2>1, <2>2 DEF DeleteCluster, Follows, Exists, Ending, Objects
  <2>4. QED
    BY <1>3, <2>3, UserWriteInv DEF DeleteCluster
<1>4. CASE LabelNamespace(c)
  BY <1>4, SamePreserves DEF LabelNamespace, Same, objVars, roleVars
<1>5. QED
  BY <1>1, <1>2, <1>3, <1>4 DEF Users

LEMMA OwnWriteInv ==
    ASSUME TypeOK, NEW c \in Clusters, ClusterInv(c), NEW object, UpdateAndReturn(c, object),
           rec[c].fresh => (cluster'[c] = object => Follows(c))
    PROVE  ClusterInv(c)'
<1>1. CASE rec[c].fresh
  <2>1. /\ cluster'[c] = object /\ cachedFresh'[c] = FALSE /\ rec'[c] = Idle
        /\ UNCHANGED <<cached, infra, roleVars>>
    BY <1>1 DEF UpdateAndReturn, StoreCluster, Return, TypeOK
  <2>2. RunInv(c)'
    BY <2>1 DEF RunInv, Idle
  <2>3. QED
    BY <1>1, <2>1, <2>2, WriteInv DEF ClusterInv
<1>2. CASE ~rec[c].fresh
  BY <1>2, ReturnReturns, ReturnsInv DEF UpdateAndReturn
<1>3. QED
  BY <1>1, <1>2

LEMMA FirstWritesInv ==
    ASSUME TypeOK, NEW c \in Clusters, ClusterInv(c),
           InitPhase(c) \/ AddFinalizer(c) \/ UpdateLabels(c)
    PROVE  ClusterInv(c)'
<1>0. rec[c].copy \in Objects
  BY DEF TypeOK, Reconciles
<1>1. CASE InitPhase(c) \/ AddFinalizer(c)
  <2>1. /\ rec[c].copy.life = "live"
        /\ rec[c].fresh => cluster[c] = rec[c].copy
    BY <1>1 DEF InitPhase, AddFinalizer, ClusterInv, RunInv, Finalizing
  <2>2. PICK object : /\ UpdateAndReturn(c, object)
                      /\ \/ object = [rec[c].copy EXCEPT !.phase = "Provisioning"]
                         \/ object = [rec[c].copy EXCEPT !.finalizer = TRUE]
    BY <1>1 DEF InitPhase, AddFinalizer
  <2>3. /\ object.life = rec[c].copy.life /\ object.expose = rec[c].copy.expose
        /\ object.finalizer = rec[c].copy.finalizer \/ object.finalizer = TRUE
    BY <1>0, <2>2 DEF Objects
  <2>4. rec[c].fresh => (cluster'[c] = object => Follows(c))
    BY <2>1, <2>3 DEF Follows, Exists, Ending
  <2>5. QED
    BY <2>2, <2>4, OwnWriteInv
<1>2. CASE UpdateLabels(c)
  <2>1. CASE UpdateAndReturn(c, rec[c].copy)
    <3>1. /\ rec[c].copy.life = "live"
          /\ rec[c].fresh => /\ cluster[c].life = rec[c].copy.life
                             /\ cluster[c].finalizer = rec[c].copy.finalizer
                             /\ cluster[c].expose = rec[c].copy.expose
      BY <1>2 DEF UpdateLabels, ClusterInv, RunInv, Finalizing
    <3>2. rec[c].fresh => (cluster'[c] = rec[c].copy => Follows(c))
      BY <3>1 DEF Follows, Exists, Ending
    <3>3. QED
      BY <2>1, <3>2, OwnWriteInv
  <2>2. CASE Return(c, FALSE) /\ UNCHANGED <<objVars, boundNS, infra, roleVars, hostVersion, faults>>
    BY <2>2, ReturnReturns, ReturnsInv
  <2>3. QED
    BY <1>2, <2>1, <2>2 DEF UpdateLabels
<1>3. QED
  BY <1>1, <1>2

\* The removal of the finalizer: the cache and the reconcile have both seen the
\* cluster under deletion.
LEMMA RemoveFinalizerInv ==
    ASSUME TypeOK, NEW c \in Clusters, ClusterInv(c), RemoveFinalizer(c)
    PROVE  ClusterInv(c)'
<1>1. CASE rec[c].fresh
  <2>1. /\ cluster'[c] = Gone /\ cachedFresh'[c] = FALSE /\ rec'[c] = Idle
        /\ UNCHANGED <<cached, infra, roleVars>>
    BY <1>1 DEF RemoveFinalizer, UpdateAndReturn, StoreCluster, Return, TypeOK
  <2>2. Ending(cached[c])
    BY DEF RemoveFinalizer, ClusterInv, RunInv, Finalizing
  <2>3. cluster'[c].life = "gone"
    BY <2>1 DEF Gone, Absent
  <2>4. CacheInv(c)'
    BY <2>1, <2>2, <2>3 DEF CacheInv, Foretells, Ending, Exists
  <2>5. RunInv(c)' /\ ServersInv(c)'
    BY <2>1, <2>3 DEF RunInv, ServersInv, Exists, Idle
  <2>6. BindingInv(c)'
    BY <2>1, <2>3 DEF ClusterInv, BindingInv, Idle, roleVars
  <2>7. QED
    BY <2>4, <2>5, <2>6 DEF ClusterInv
<1>2. CASE ~rec[c].fresh
  BY <1>2, ReturnReturns, ReturnsInv DEF RemoveFinalizer, UpdateAndReturn
<1>3. QED
  BY <1>1, <1>2

\* What UpdateStatus does: it returns without a write, or it writes the status
\* over the present object or finds it up to date, and returns or goes on.
StatusEffect(c, new, stored) ==
    /\ new = [rec[c].copy EXCEPT !.phase = PhaseOf(rec[c].err)]
    /\ stored = [new EXCEPT !.label = rec[c].orig.label]
    /\ \/ UNCHANGED objVars /\ rec'[c] = Idle
       \/ /\ \/ /\ rec[c].fresh /\ cluster'[c] = stored
                /\ cached' = cached /\ cachedFresh'[c] = FALSE
             \/ UNCHANGED objVars /\ Status(new) = Status(rec[c].orig)
          /\ \/ rec'[c] = Idle
             \/ /\ rec[c].err = "none"
                /\ rec'[c] = [rec[c] EXCEPT !.pc = "update", !.copy = new]

LEMMA UpdateStatusEffect ==
    ASSUME TypeOK, NEW c \in Clusters, UpdateStatus(c)
    PROVE  \E new, stored \in Objects : StatusEffect(c, new, stored)
<1> DEFINE new    == [rec[c].copy EXCEPT !.phase = PhaseOf(rec[c].err)]
           stored == [new EXCEPT !.label = rec[c].orig.label]
           write  == Status(new) # Status(rec[c].orig)
<1>0. /\ rec[c].copy \in Objects /\ rec[c].orig \in Objects /\ rec[c].err \in Errors
  BY DEF TypeOK, Reconciles
<1>1. new \in Objects
  BY <1>0 DEF PhaseOf, Objects, Phases, Errors
<1>2. stored \in Objects
  BY <1>0, <1>1 DEF Objects
<1>3. IF write /\ ~rec[c].fresh
      THEN UNCHANGED objVars /\ Return(c, TRUE)
      ELSE /\ IF write THEN StoreCluster(c, stored) ELSE UNCHANGED objVars
           /\ IF rec[c].err # "none"
              THEN Return(c, Requeues(rec[c].err))
              ELSE rec' = [rec EXCEPT ![c].pc = "update", ![c].copy = new] /\ UNCHANGED queue
  BY DEF UpdateStatus
<1>4. new = [rec[c].copy EXCEPT !.phase = PhaseOf(rec[c].err)]
      /\ stored = [new EXCEPT !.label = rec[c].orig.label]
  OBVIOUS
<1> HIDE DEF new, stored
<1>5. CASE write /\ ~rec[c].fresh
  <2>1. UNCHANGED objVars /\ rec'[c] = Idle
    BY <1>3, <1>5 DEF Return, TypeOK
  <2>2. QED
    BY <1>1, <1>2, <1>4, <2>1 DEF StatusEffect
<1>6. CASE ~(write /\ ~rec[c].fresh)
  <2>1. \/ /\ rec[c].fresh /\ cluster'[c] = stored /\ cached' = cached /\ cachedFresh'[c] = FALSE
        \/ UNCHANGED objVars /\ Status(new) = Status(rec[c].orig)
    BY <1>3, <1>6 DEF StoreCluster, TypeOK
  <2>2. \/ rec'[c] = Idle
        \/ rec[c].err = "none" /\ rec'[c] = [rec[c] EXCEPT !.pc = "update", !.copy = new]
    BY <1>3, <1>6 DEF Return, TypeOK
  <2>3. QED
    BY <1>1, <1>2, <1>4, <2>1, <2>2 DEF StatusEffect
<1>7. QED
  BY <1>5, <1>6

LEMMA UpdateStatusInv ==
    ASSUME TypeOK, NEW c \in Clusters, ClusterInv(c), UpdateStatus(c)
    PROVE  ClusterInv(c)'
<1>0. /\ UNCHANGED <<infra, roleVars>> /\ rec[c].pc = "status" /\ rec[c] \in Reconciles
      /\ rec[c].orig \in Objects /\ rec[c].copy \in Objects
  BY DEF UpdateStatus, TypeOK, Reconciles
<1>1. PICK new, stored \in Objects : StatusEffect(c, new, stored)
  BY UpdateStatusEffect
<1>2. /\ RunInv(c) /\ Foretells(c, rec[c].orig)
      /\ rec[c].orig.life = "live" /\ rec[c].orig.finalizer
      /\ rec[c].fresh => cluster[c] = rec[c].orig
  BY <1>0 DEF ClusterInv, RunInv, Finalizing, Provisioning
<1>3. /\ new.life = rec[c].orig.life /\ new.finalizer = rec[c].orig.finalizer
      /\ new.expose = rec[c].orig.expose /\ new.version = rec[c].copy.version
      /\ stored.life = new.life /\ stored.finalizer = new.finalizer
      /\ stored.expose = new.expose /\ Status(stored) = Status(new)
  <2>1. /\ new.life = rec[c].copy.life /\ new.finalizer = rec[c].copy.finalizer
        /\ new.expose = rec[c].copy.expose /\ new.version = rec[c].copy.version
    BY <1>0, <1>1 DEF Objects, StatusEffect
  <2>2. /\ stored.life = new.life /\ stored.finalizer = new.finalizer
        /\ stored.expose = new.expose /\ Status(stored) = Status(new)
    BY <1>0, <1>1 DEF Objects, Status, StatusEffect
  <2>3. QED
    BY <1>0, <1>2, <2>1, <2>2 DEF RunInv
<1>4. CASE UNCHANGED objVars /\ rec'[c] = Idle
  BY <1>0, <1>4, ReturnsInv DEF Returns, objVars
<1>5. CASE rec[c].fresh /\ cluster'[c] = stored /\ cached' = cached /\ cachedFresh'[c] = FALSE
  <2>1. Follows(c)
    BY <1>2, <1>3, <1>5 DEF Follows, Exists, Ending
  <2>2. CASE rec'[c] = Idle
    <3>1. RunInv(c)'
      BY <2>2 DEF RunInv, Idle
    <3>2. QED
      BY <1>0, <1>5, <2>1, <2>2, <3>1, WriteInv DEF ClusterInv
  <2>3. CASE rec'[c] = [rec[c] EXCEPT !.pc = "update", !.copy = new]
    <3>1. /\ rec'[c].pc = "update" /\ rec'[c].orig = rec[c].orig /\ rec'[c].copy = new
          /\ rec'[c].fresh = rec[c].fresh
      BY <1>0, <2>3 DEF Reconciles
    <3>2. Foretells(c, rec[c].orig)'
      BY <1>0, <1>2, <2>1, <3>1, FollowsForetells DEF Foretells
    <3>3. RunInv(c)'
      BY <1>0, <1>2, <1>3, <1>5, <3>1, <3>2 DEF RunInv, Finalizing, Provisioning
    <3>4. CacheInv(c)'
      BY <1>0, <1>5, <2>1, WriteInv
    <3>5. ServersInv(c)'
      BY <1>0, <1>2, <1>3, <1>5, <3>1 DEF ClusterInv, ServersInv, Exists
    <3>6. BindingInv(c)'
      BY <1>0, <1>2, <1>3, <1>5, <3>1 DEF ClusterInv, BindingInv, roleVars
    <3>7. QED
      BY <3>3, <3>4, <3>5, <3>6 DEF ClusterInv
  <2>4. QED
    BY <1>1, <2>2, <2>3, <1>4 DEF StatusEffect
<1>6. CASE /\ UNCHANGED objVars /\ Status(new) = Status(rec[c].orig)
           /\ rec'[c] = [rec[c] EXCEPT !.pc = "update", !.copy = new]
  <2>1. /\ rec'[c].pc = "update" /\ rec'[c].orig = rec[c].orig /\ rec'[c].copy = new
        /\ rec'[c].fresh = rec[c].fresh
    BY <1>0, <1>6 DEF Reconciles
  <2>2. Foretells(c, rec[c].orig)' /\ CacheInv(c)'
    BY <1>2, <1>6, <2>1 DEF Foretells, ClusterInv, CacheInv, objVars
  <2>3. RunInv(c)'
    BY <1>0, <1>2, <1>3, <1>6, <2>1, <2>2 DEF RunInv, Finalizing, Provisioning, objVars
  <2>4. ServersInv(c)' /\ BindingInv(c)'
    BY <1>0, <1>6, <2>1 DEF ClusterInv, ServersInv, BindingInv, objVars, roleVars
  <2>5. QED
    BY <2>2, <2>3, <2>4 DEF ClusterInv
<1>7. QED
  BY <1>1, <1>4, <1>5, <1>6 DEF StatusEffect

-----------------------------------------------------------------------------
(* The role bindings and the rest of the clean-up.                          *)

LEMMA RoleStepGoesOn ==
    ASSUME TypeOK, NEW c \in Clusters, NEW r \in Roles,
           BindClusterRole(c, r) \/ UnbindClusterRole(c, r)
    PROVE  GoesOn(c) /\ infra' = infra /\ rec'[c].pc = rec[c].pc
<1>1. UNCHANGED objVars /\ infra' = infra /\ rec[c].pc \in {"bind", "unbind"}
      /\ \E err \in BOOLEAN : RoleDone(c, r, err)
  BY DEF BindClusterRole, UnbindClusterRole, UpdateRole
<1>2. QED
  BY <1>1, RoleDoneGoesOn

LEMMA RoleStepInv ==
    ASSUME TypeOK, RolesInv, NEW c \in Clusters, ClusterInv(c), NEW r \in Roles,
           BindClusterRole(c, r) \/ UnbindClusterRole(c, r)
    PROVE  RolesInv' /\ ClusterInv(c)'
<1>1. RolesInv'
  <2>1. CASE UNCHANGED roleVars
    BY <2>1 DEF RolesInv, roleVars
  <2>2. QED
    BY <2>1, UpdateRoleEffect DEF BindClusterRole, UnbindClusterRole
<1>2. GoesOn(c) /\ infra' = infra /\ rec'[c].pc = rec[c].pc /\ rec[c].pc \in {"bind", "unbind"}
  BY RoleStepGoesOn DEF BindClusterRole, UnbindClusterRole
<1>3. ServersInv(c)' /\ CacheInv(c)' /\ RunInv(c)'
  BY <1>2, ServersKept, GoesOnPreserves
<1>4. \/ Exists(cluster[c]) /\ cluster[c].finalizer
      \/ Ending(cluster[c])
  BY <1>2, Covered, StepChain DEF Provisioning, Finalizing
<1>5. BindingInv(c)'
  <2>1. CASE UnbindClusterRole(c, r)
    <3>1. Ending(cached[c]) /\ rec[c].orig.life = "deleting"
      BY <2>1 DEF UnbindClusterRole, ClusterInv, RunInv, Finalizing
    <3>2. QED
      BY <1>2, <1>4, <3>1 DEF BindingInv, GoesOn, Ending, Exists
  <2>2. CASE BindClusterRole(c, r)
    <3>1. \A q \in Roles : c \in subjectsSeen'[q] /\ c \notin subjects'[q] =>
                           c \in subjectsSeen[q] /\ c \notin subjects[q]
      <4>1. CASE UNCHANGED roleVars
        BY <4>1 DEF roleVars
      <4>2. CASE StoreSubjects(r, subjectsSeen[r] \cup {c})
        BY <4>2 DEF StoreSubjects, TypeOK
      <4>3. QED
        BY <2>2, <4>1, <4>2 DEF BindClusterRole, UpdateRole
    <3>2. QED
      BY <1>2, <1>4, <3>1 DEF ClusterInv, BindingInv, GoesOn, Ending, Exists
  <2>3. QED
    BY <2>1, <2>2
<1>6. QED
  BY <1>1, <1>3, <1>5 DEF ClusterInv

LEMMA CleanUpGoesOn ==
    ASSUME TypeOK, NEW c \in Clusters, UnbindDone(c) \/ DeleteLease(c)
    PROVE  /\ \/ Returns(c)
              \/ /\ GoesOn(c)
                 /\ \/ rec[c].pc = "unbind" /\ rec'[c].pc = "lease"
                    \/ rec[c].pc = "lease" /\ rec'[c].pc = "removeFinalizer"
           /\ UNCHANGED roleVars /\ infra'[c].servers = infra[c].servers
           /\ infra'[c].sans = infra[c].sans /\ infra'[c].service = infra[c].service
           /\ Returns(c) => infra' = infra
<1>0. rec[c] \in Reconciles /\ infra[c] \in Infra
  BY DEF TypeOK
<1>1. ASSUME NEW step \in Finalizing, rec[c].pc \in Finalizing, UNCHANGED objVars,
             rec' = [rec EXCEPT ![c].pc = step]
      PROVE  GoesOn(c) /\ rec'[c].pc = step
  <2>1. rec'[c] = [rec[c] EXCEPT !.pc = step]
    BY <1>1 DEF TypeOK
  <2>2. /\ rec'[c].pc = step /\ rec'[c].orig = rec[c].orig /\ rec'[c].copy = rec[c].copy
        /\ rec'[c].fresh = rec[c].fresh
    BY <1>0, <2>1 DEF Reconciles
  <2>3. QED
    BY <1>1, <2>2 DEF GoesOn, objVars, Finalizing
<1>2. CASE UnbindDone(c)
  BY <1>1, <1>2, ReturnReturns DEF UnbindDone, Finalizing
<1>3. CASE DeleteLease(c)
  <2>1. /\ infra'[c].servers = infra[c].servers /\ infra'[c].sans = infra[c].sans
        /\ infra'[c].service = infra[c].service
    BY <1>0, <1>3 DEF DeleteLease, TypeOK, Infra
  <2>2. GoesOn(c) /\ rec[c].pc = "lease" /\ rec'[c].pc = "removeFinalizer"
    BY <1>1, <1>3 DEF DeleteLease, Finalizing
  <2>3. QED
    BY <1>3, <2>1, <2>2 DEF DeleteLease, Returns, Idle
<1>4. QED
  BY <1>2, <1>3

LEMMA CleanUpInv ==
    ASSUME TypeOK, NEW c \in Clusters, ClusterInv(c), UnbindDone(c) \/ DeleteLease(c)
    PROVE  ClusterInv(c)'
<1>1. CASE Returns(c)
  BY <1>1, CleanUpGoesOn, ReturnsInv
<1>2. CASE GoesOn(c) /\ rec'[c].pc \in {"lease", "removeFinalizer"}
  <2>1. ServersInv(c)'
    BY <1>2, CleanUpGoesOn, ServersKept
  <2>2. QED
    BY <1>2, <2>1, CleanUpGoesOn, GoesOnPreserves, GoesOnBinding DEF ClusterInv
<1>3. QED
  BY <1>1, <1>2, CleanUpGoesOn

\* Every error ends the reconcile or is collected; nothing is written.
LEMMA CallFailsEffect ==
    ASSUME TypeOK, NEW c \in Clusters, CallFails(c)
    PROVE  /\ UNCHANGED <<objVars, infra, roleVars>>
           /\ \/ Returns(c)
              \/ GoesOn(c) /\ rec'[c].pc = "status" /\ rec'[c].err = "other"
              \/ /\ GoesOn(c) /\ rec[c].pc \in {"bind", "unbind"} /\ rec'[c].pc = rec[c].pc
                 /\ rec'[c].err = "other" /\ rec'[c].copy = rec[c].copy
<1>1. UNCHANGED objVars /\ UNCHANGED <<infra, roleVars>>
  BY DEF CallFails
<1>2. CASE rec[c].pc \in DOMAIN NextStep /\ Fail(c, "other")
  BY <1>1, <1>2, FailGoesOn
<1>3. CASE rec[c].pc \in {"bind", "unbind"} /\ \E r \in rec[c].todo : RoleDone(c, r, TRUE)
  <2>1. PICK r : RoleDone(c, r, TRUE)
    BY <1>3
  <2>2. /\ GoesOn(c) /\ rec'[c].pc = rec[c].pc /\ rec'[c].err = "other"
        /\ rec'[c].copy = rec[c].copy
    BY <1>1, <1>3, <2>1, RoleDoneGoesOn
  <2>3. QED
    BY <1>1, <1>3, <2>2
<1>4. CASE Return(c, TRUE)
  BY <1>1, <1>4, ReturnReturns
<1>5. \/ rec[c].pc \in DOMAIN NextStep /\ Fail(c, "other")
      \/ rec[c].pc \in {"bind", "unbind"} /\ \E r \in rec[c].todo : RoleDone(c, r, TRUE)
      \/ Return(c, TRUE)
  BY DEF CallFails
<1>6. QED
  BY <1>2, <1>3, <1>4, <1>5

LEMMA CallFailsInv ==
    ASSUME TypeOK, NEW c \in Clusters, ClusterInv(c), CallFails(c)
    PROVE  ClusterInv(c)'
<1>1. CASE Returns(c)
  BY <1>1, CallFailsEffect, ReturnsInv
<1>2. CASE GoesOn(c) /\ rec'[c].pc \in {"status", "bind", "unbind"}
  <2>1. ServersInv(c)'
    BY <1>2, CallFailsEffect, ServersKept
  <2>2. QED
    BY <1>2, <2>1, CallFailsEffect, GoesOnPreserves, GoesOnBinding DEF ClusterInv
<1>3. QED
  BY <1>1, <1>2, CallFailsEffect

-----------------------------------------------------------------------------
(* The host, the informers and the work queue.                              *)

\* Whatever the host does, it does to what is deployed for c. An address can come
\* only to a service whose servers do not exist yet.
LEMMA HostInv ==
    ASSUME TypeOK, NEW c \in Clusters, ClusterInv(c), Host(c) \/ OtherSync(c)
    PROVE  ClusterInv(c)'
<1>0. /\ UNCHANGED <<objVars, rec, roleVars>> /\ infra[c] \in Infra
  BY DEF Host, AssignAddress, ServerComesUp, AgentRenewsLease, CollectGarbage, OtherSync,
         SyncToken, SyncNetworkPolicy, Resync, TypeOK
<1>1. CacheInv(c)' /\ RunInv(c)'
  BY <1>0 DEF ClusterInv, CacheInv, RunInv, Foretells, objVars
<1>2. infra[c] = NoInfra => infra' = infra \/ cluster[c].life = "gone"
  BY DEF NoInfra, Host, AssignAddress, ServerComesUp, AgentRenewsLease, CollectGarbage, OtherSync,
         SyncToken, SyncNetworkPolicy, Resync
<1>3. BindingInv(c)'
  BY <1>0, <1>2 DEF ClusterInv, BindingInv, objVars, roleVars
<1>4. ServersInv(c)'
  <2>1. CASE AssignAddress(c)
    <3>1. infra'[c].servers = infra[c].servers /\ infra'[c].service = "addressed"
      BY <1>0, <2>1 DEF AssignAddress, TypeOK, Infra
    <3>2. ~(infra[c].servers /\ Exists(cluster[c]))
      BY <2>1 DEF AssignAddress, ClusterInv, ServersInv
    <3>3. QED
      BY <1>0, <3>1, <3>2 DEF ServersInv, objVars
  <2>2. CASE CollectGarbage(c)
    <3>1. cluster[c].life = "gone"
      BY <2>2 DEF CollectGarbage
    <3>2. rec[c].pc \notin {"configs", "server"}
      BY <3>1, Covered, StepChain DEF Provisioning, Finalizing, Exists
    <3>3. QED
      BY <1>0, <3>1, <3>2 DEF ServersInv, objVars, Exists
  <2>3. CASE ServerComesUp(c) \/ AgentRenewsLease(c) \/ OtherSync(c)
    <3>1. /\ infra'[c].servers = infra[c].servers /\ infra'[c].service = infra[c].service
          /\ infra'[c].sans = infra[c].sans
      BY <1>0, <2>3 DEF ServerComesUp, AgentRenewsLease, OtherSync, SyncToken, SyncNetworkPolicy,
                        Resync, TypeOK, Infra
    <3>2. QED
      BY <1>0, <3>1 DEF ClusterInv, ServersInv, objVars
  <2>4. QED
    BY <2>1, <2>2, <2>3 DEF Host
<1>5. QED
  BY <1>1, <1>3, <1>4 DEF ClusterInv

LEMMA ForetellsItself ==
    ASSUME NEW c \in Clusters, CacheInv(c)
    PROVE  Foretells(c, cluster[c])
BY DEF CacheInv, Foretells, Exists

LEMMA SyncClusterInv ==
    ASSUME TypeOK, NEW c \in Clusters, ClusterInv(c), SyncCluster(c)
    PROVE  ClusterInv(c)'
<1>1. /\ UNCHANGED <<cluster, rec, infra, roleVars>>
      /\ cached'[c] = cluster[c]
  BY DEF SyncCluster, TypeOK
<1>2. Ending(cached[c]) => Ending(cached'[c])
  BY <1>1 DEF ClusterInv, CacheInv, Foretells
<1>3. CacheInv(c)'
  BY <1>1, ForetellsItself DEF ClusterInv, CacheInv, Foretells
<1>4. RunInv(c)'
  BY <1>1, <1>2 DEF ClusterInv, RunInv, Foretells
<1>5. ServersInv(c)'
  BY <1>1 DEF ClusterInv, ServersInv
<1>6. BindingInv(c)'
  BY <1>1, <1>2 DEF ClusterInv, BindingInv, roleVars
<1>7. QED
  BY <1>3, <1>4, <1>5, <1>6 DEF ClusterInv

\* Reconcile reads the cache, and the way it takes depends on what it reads.
LEMMA StartInv ==
    ASSUME TypeOK, NEW c \in Clusters, ClusterInv(c), StartReconcile(c)
    PROVE  ClusterInv(c)'
<1>0. UNCHANGED <<objVars, infra, roleVars>> /\ cached[c] \in Objects
  BY DEF StartReconcile, TypeOK
<1>1. CacheInv(c)'
  BY <1>0 DEF ClusterInv, CacheInv, Foretells, objVars
<1>2. CASE ~Exists(cached[c])
  <2>1. rec'[c] = Idle
    BY <1>2 DEF StartReconcile, TypeOK
  <2>2. QED
    BY <1>0, <2>1, ReturnsInv DEF Returns, objVars
<1>3. CASE Exists(cached[c])
  <2>1. rec'[c] = [Idle EXCEPT !.pc = FirstStep(cached[c]), !.orig = cached[c],
                               !.copy = cached[c], !.fresh = cachedFresh[c], !.todo = Roles]
    BY <1>3 DEF StartReconcile, TypeOK
  <2>2. /\ rec'[c].pc = FirstStep(cached[c]) /\ rec'[c].orig = cached[c]
        /\ rec'[c].copy = cached[c] /\ rec'[c].fresh = cachedFresh[c]
    BY <2>1, ConstantsTyped DEF Reconciles
  <2>3. \/ rec'[c].pc = "unbind" /\ cached[c].life = "deleting"
        \/ rec'[c].pc \in {"initPhase", "addFinalizer"} /\ cached[c].life = "live"
        \/ rec'[c].pc = "policy" /\ cached[c].life = "live" /\ cached[c].finalizer
    BY <1>0, <1>3, <2>2 DEF FirstStep, Exists, Objects
  <2>4. Foretells(c, cached[c]) /\ (cachedFresh[c] => cached[c] = cluster[c])
    BY DEF ClusterInv, CacheInv
  <2>5. Foretells(c, rec[c].orig)'
    BY <1>0, <2>2, <2>4 DEF Foretells, objVars
  <2>6. RunInv(c)'
    <3>1. /\ rec'[c].pc \in Finalizing <=> cached[c].life = "deleting"
          /\ rec'[c].pc \in Provisioning => cached[c].finalizer
          /\ rec'[c].pc # "update"
          /\ cached[c].life = "live" \/ cached[c].life = "deleting"
      BY <2>3, StepChain DEF Finalizing, Provisioning
    <3>2. cached'[c] = cached[c] /\ cluster'[c] = cluster[c]
      BY <1>0 DEF objVars
    <3>3. QED
      BY <2>2, <2>4, <2>5, <3>1, <3>2 DEF RunInv, Ending
  <2>7. ServersInv(c)'
    BY <1>0, <2>3 DEF ClusterInv, ServersInv, objVars
  <2>8. BindingInv(c)'
    BY <1>0, <1>3, <2>2 DEF ClusterInv, BindingInv, objVars, roleVars, Ending, Exists
  <2>9. QED
    BY <1>1, <2>6, <2>7, <2>8 DEF ClusterInv
<1>4. QED
  BY <1>2, <1>3

LEMMA SyncSubjectsInv ==
    ASSUME TypeOK, RolesInv, NEW r \in Roles, SyncSubjects(r)
    PROVE  RolesInv' /\ \A c \in Clusters : ClusterInv(c) => ClusterInv(c)'
<1>1. RolesInv'
  BY DEF SyncSubjects, RolesInv, TypeOK
<1>2. ASSUME NEW c \in Clusters, ClusterInv(c) PROVE ClusterInv(c)'
  <2>1. UNCHANGED <<objVars, rec, infra, subjects>>
    BY DEF SyncSubjects
  <2>2. CacheInv(c)' /\ RunInv(c)' /\ ServersInv(c)'
    BY <1>2, <2>1 DEF ClusterInv, CacheInv, RunInv, ServersInv, Foretells, objVars
  <2>3. BindingInv(c)'
    BY <1>2, <2>1 DEF SyncSubjects, TypeOK, ClusterInv, BindingInv, objVars
  <2>4. QED
    BY <2>2, <2>3 DEF ClusterInv
<1>3. QED
  BY <1>1, <1>2

LEMMA RestartInv ==
    ASSUME TypeOK, Restart
    PROVE  RolesInv' /\ \A c \in Clusters : ClusterInv(c) => ClusterInv(c)'
<1>1. RolesInv'
  BY DEF Restart, RolesInv
<1>2. ASSUME NEW c \in Clusters, ClusterInv(c) PROVE ClusterInv(c)'
  <2>1. /\ cluster' = cluster /\ cached'[c] = cluster[c] /\ rec'[c] = Idle
        /\ infra'[c] = [infra[c] EXCEPT !.tokenSeen = infra[c].token,
                                        !.netpolSeen = infra[c].netpol]
        /\ subjects' = subjects /\ subjectsSeen' = subjects
    BY DEF Restart
  <2>2. /\ infra'[c].servers = infra[c].servers /\ infra'[c].sans = infra[c].sans
        /\ infra'[c].service = infra[c].service
        /\ infra[c] = NoInfra => infra'[c] = NoInfra
    <3>1. infra[c] \in Infra
      BY DEF TypeOK
    <3>2. infra[c] = NoInfra => infra[c].token = None /\ infra[c].netpol = FALSE
      BY DEF NoInfra
    <3>3. ASSUME infra[c] = NoInfra PROVE infra'[c] = NoInfra
      <4>1. infra'[c] = [NoInfra EXCEPT !.tokenSeen = None, !.netpolSeen = FALSE]
        BY <2>1, <3>2, <3>3
      <4>2. QED
        BY <4>1 DEF NoInfra
    <3>4. QED
      BY <2>1, <3>1, <3>3 DEF Infra
  <2>3. CacheInv(c)'
    BY <1>2, <2>1, ForetellsItself DEF ClusterInv, CacheInv, Foretells
  <2>4. RunInv(c)' /\ ServersInv(c)'
    BY <1>2, <2>1, <2>2 DEF ClusterInv, RunInv, ServersInv, Idle
  <2>5. BindingInv(c)'
    BY <1>2, <2>1, <2>2 DEF ClusterInv, BindingInv
  <2>6. QED
    BY <2>3, <2>4, <2>5 DEF ClusterInv
<1>3. QED
  BY <1>1, <1>2

-----------------------------------------------------------------------------
(* The invariant, and what follows from it.                                 *)

LEMMA InitInv == Init => IInv
<1> SUFFICES ASSUME Init PROVE IInv
  OBVIOUS
<1>1. TypeOK
  BY InitTyped
<1>2. ASSUME NEW c \in Clusters PROVE ClusterInv(c)
  <2>1. cluster[c] = Absent /\ cached[c] = Absent /\ rec[c] = Idle /\ infra[c] = NoInfra
    BY DEF Init
  <2>2. Absent.life = "absent" /\ ~Absent.finalizer /\ Idle.pc = "idle" /\ ~NoInfra.servers
    BY DEF Absent, Idle, NoInfra
  <2>3. CacheInv(c) /\ RunInv(c) /\ ServersInv(c)
    BY <2>1, <2>2 DEF CacheInv, RunInv, ServersInv, Foretells, Ending, Exists
  <2>4. BindingInv(c)
    BY <2>1, <2>2 DEF Init, BindingInv
  <2>5. QED
    BY <2>3, <2>4 DEF ClusterInv
<1>3. RolesInv
  BY DEF Init, RolesInv
<1>4. QED
  BY <1>1, <1>2, <1>3 DEF IInv

LEMMA ReconcileStepInv ==
    ASSUME TypeOK, RolesInv, NEW c \in Clusters, ClusterInv(c), ReconcileStep(c)
    PROVE  RolesInv' /\ ClusterInv(c)'
<1>1. CASE \E r \in Roles : BindClusterRole(c, r) \/ UnbindClusterRole(c, r)
  BY <1>1, RoleStepInv
<1>2. CASE DeployStep(c)
  BY <1>2, DeployGoesOn, DeployInv DEF RolesInv, roleVars
<1>3. CASE InitPhase(c) \/ AddFinalizer(c) \/ UpdateLabels(c) \/ RemoveFinalizer(c)
  <2>1. UNCHANGED roleVars
    BY <1>3 DEF InitPhase, AddFinalizer, UpdateLabels, RemoveFinalizer, UpdateAndReturn
  <2>2. QED
    BY <1>3, <2>1, FirstWritesInv, RemoveFinalizerInv DEF RolesInv, roleVars
<1>4. CASE UpdateStatus(c) \/ UnbindDone(c) \/ DeleteLease(c)
  <2>1. UNCHANGED roleVars
    BY <1>4 DEF UpdateStatus, UnbindDone, DeleteLease
  <2>2. QED
    BY <1>4, <2>1, UpdateStatusInv, CleanUpInv DEF RolesInv, roleVars
<1>5. QED
  BY <1>1, <1>2, <1>3, <1>4 DEF ReconcileStep, DeployStep

\* The steps of one cluster.
OwnStep(c) ==
    \/ Users(c) \/ Host(c) \/ SyncCluster(c) \/ OtherSync(c)
    \/ StartReconcile(c) \/ ReconcileStep(c) \/ CallFails(c)

LEMMA OwnStepInv ==
    ASSUME TypeOK, RolesInv, NEW c \in Clusters, ClusterInv(c), OwnStep(c)
    PROVE  RolesInv' /\ ClusterInv(c)'
<1>1. CASE ReconcileStep(c)
  BY <1>1, ReconcileStepInv
<1>2. CASE Users(c) \/ Host(c) \/ SyncCluster(c) \/ OtherSync(c) \/ StartReconcile(c) \/ CallFails(c)
  <2>1. UNCHANGED roleVars
    BY <1>2 DEF Users, CreateCluster, EditSpec, DeleteCluster, LabelNamespace, UserWrites, Host,
                AssignAddress, ServerComesUp, AgentRenewsLease, CollectGarbage, SyncCluster,
                OtherSync, SyncToken, SyncNetworkPolicy, Resync, StartReconcile, CallFails
  <2>2. ClusterInv(c)'
    BY <1>2, UsersInv, HostInv, SyncClusterInv, StartInv, CallFailsInv
  <2>3. QED
    BY <2>1, <2>2 DEF RolesInv, roleVars
<1>3. QED
  BY <1>1, <1>2 DEF OwnStep

LEMMA NextInv == IInv /\ [Next]_vars => IInv'
<1> SUFFICES ASSUME IInv, [Next]_vars PROVE IInv'
  OBVIOUS
<1>1. TypeOK /\ RolesInv /\ TypeOK'
  BY NextTyped DEF IInv
<1>2. ASSUME NEW c \in Clusters, OwnStep(c) PROVE IInv'
  <2>1. RolesInv' /\ ClusterInv(c)'
    BY <1>1, <1>2, OwnStepInv DEF IInv
  <2>2. ASSUME NEW d \in Clusters, c # d PROVE ClusterInv(d)'
    BY <1>1, <1>2, <2>2, OthersSame, SamePreserves DEF IInv, OwnStep
  <2>3. QED
    BY <1>1, <2>1, <2>2 DEF IInv
<1>3. ASSUME NEW r \in Roles, SyncSubjects(r) PROVE IInv'
  BY <1>1, <1>3, SyncSubjectsInv DEF IInv
<1>4. CASE Restart
  BY <1>1, <1>4, RestartInv DEF IInv
<1>5. CASE UpgradeHost \/ UNCHANGED vars
  <2>1. UNCHANGED <<cluster, cached, cachedFresh, rec, infra, subjects, subjectsSeen, subjectsFresh>>
    BY <1>5 DEF UpgradeHost, vars, objVars, roleVars
  <2>2. RolesInv' /\ \A c \in Clusters : Same(c)
    BY <1>1, <2>1 DEF RolesInv, Same
  <2>3. QED
    BY <1>1, <2>2, SamePreserves DEF IInv
<1>6. QED
  BY <1>2, <1>3, <1>4, <1>5 DEF Next, OwnStep, OtherSync

\* Whatever was ever deployed for a cluster is covered by its finalizer: Reconcile
\* adds it and returns before it deploys anything, and a stale cache cannot lead a
\* later reconcile around it, because only finalizeCluster takes it away.
THEOREM FinalizerFirst == Spec => []NothingBeforeFinalizer
<1>1. IInv => NothingBeforeFinalizer
  BY DEF IInv, ClusterInv, BindingInv, NothingBeforeFinalizer
<1>2. QED
  BY <1>1, InitInv, NextInv, PTL DEF Spec

\* What a step leaves of a role binding.
LEMMA SubjectsStep ==
    ASSUME IInv, [Next]_vars, NEW c \in Clusters, NEW r \in Roles,
           cluster[c].life = "live", c \in subjects[r]
    PROVE  c \in subjects'[r]
<1>1. TypeOK /\ RolesInv /\ ClusterInv(c)
  BY DEF IInv
<1>2. ASSUME NEW d \in Clusters, OwnStep(d), c # d PROVE c \in subjects'[r]
  BY <1>1, <1>2, OthersSame DEF OwnStep, Same
<1>3. CASE OwnStep(c)
  <2>1. ASSUME NEW q \in Roles, UnbindClusterRole(c, q) PROVE FALSE
    <3>1. Ending(cluster[c])
      BY <1>1, <2>1, Covered DEF UnbindClusterRole, Finalizing
    <3>2. QED
      BY <3>1 DEF Ending
  <2>2. ASSUME NEW q \in Roles, BindClusterRole(c, q) PROVE c \in subjects'[r]
    <3>1. \/ subjects' = subjects
          \/ subjects' = [subjects EXCEPT ![q] = subjectsSeen[q] \cup {c}]
      BY <2>2 DEF BindClusterRole, UpdateRole, StoreSubjects, roleVars
    <3>2. QED
      BY <1>1, <3>1 DEF TypeOK
  <2>3. CASE ReconcileStep(c) /\ ~\E q \in Roles : BindClusterRole(c, q) \/ UnbindClusterRole(c, q)
    <3>1. subjects' = subjects
      BY <2>3 DEF ReconcileStep, InitPhase, AddFinalizer, UpdateLabels, RemoveFinalizer,
                  UpdateAndReturn, ReconcilePolicy, ReadToken, SaveToken, EnsureNetworkPolicy,
                  EnsureClusterService, EnsureClusterConfigs, EnsureServer, EnsureAgent,
                  EnsureIngress, EnsureBootstrap, BindDone, EnsureKubeconfigSecret, EnsureVirtual,
                  UpdateStatus, UnbindDone, DeleteLease, roleVars
    <3>2. QED
      BY <3>1
  <2>4. CASE Users(c) \/ Host(c) \/ SyncCluster(c) \/ OtherSync(c) \/ StartReconcile(c) \/ CallFails(c)
    <3>1. subjects' = subjects
      BY <2>4 DEF Users, CreateCluster, EditSpec, DeleteCluster, LabelNamespace, UserWrites, Host,
                  AssignAddress, ServerComesUp, AgentRenewsLease, CollectGarbage, SyncCluster,
                  OtherSync, SyncToken, SyncNetworkPolicy, Resync, StartReconcile, CallFails, roleVars
    <3>2. QED
      BY <3>1
  <2>5. QED
    BY <1>3, <2>1, <2>2, <2>3, <2>4 DEF OwnStep
<1>4. CASE (\E q \in Roles : SyncSubjects(q)) \/ UpgradeHost \/ Restart \/ UNCHANGED vars
  BY <1>4 DEF SyncSubjects, UpgradeHost, Restart, vars, roleVars
<1>5. QED
  BY <1>2, <1>3, <1>4 DEF Next, OwnStep, OtherSync

\* Every cluster rewrites the whole subject list of the shared role bindings from
\* a cached copy, and a controller may run any number of reconciles: no write
\* drops a cluster that is live. A stale list is refused, and a list that is
\* written lacks only clusters whose own clean-up took them out.
THEOREM LiveClusterStaysBound == Spec => SubjectsKept
<1>1. IInv /\ [Next]_vars =>
          [\A c \in Clusters, r \in Roles :
              cluster[c].life = "live" /\ c \in subjects[r] => c \in subjects'[r]]_vars
  BY SubjectsStep
<1>2. QED
  BY <1>1, InitInv, NextInv, PTL DEF Spec, SubjectsKept

\* The annotation with the hash of the address stays as it is, and only EnsureServer
\* changes the image.
SansKept(c) ==
    /\ infra'[c].sans = infra[c].sans
    /\ \/ infra'[c].image = infra[c].image
       \/ rec[c].pc = "server" /\ infra'[c].image = rec[c].copy.version

LEMMA SansStep ==
    ASSUME IInv, [Next]_vars, NEW c \in Clusters, infra[c].servers, Exists(cluster[c])
    PROVE  SansKept(c)
<1>1. TypeOK /\ RolesInv /\ ClusterInv(c) /\ infra[c] \in Infra
  BY DEF IInv, TypeOK
<1>2. ASSUME NEW d \in Clusters, OwnStep(d), c # d PROVE SansKept(c)
  BY <1>1, <1>2, OthersSame DEF OwnStep, Same, SansKept
<1>3. CASE OwnStep(c)
  <2>1. CASE EnsureServer(c)
    <3>1. /\ infra'[c].sans = (infra[c].service = "addressed")
          /\ infra'[c].image = rec[c].copy.version
      BY <1>1, <2>1 DEF EnsureServer, K3SImage, TypeOK, Infra
    <3>2. QED
      BY <1>1, <2>1, <3>1 DEF ClusterInv, ServersInv, EnsureServer, SansKept
  <2>2. CASE CollectGarbage(c)
    BY <2>2 DEF CollectGarbage, Exists
  <2>3. CASE \/ SaveToken(c) \/ EnsureNetworkPolicy(c) \/ EnsureClusterService(c)
             \/ EnsureClusterConfigs(c) \/ EnsureAgent(c) \/ DeleteLease(c)
    BY <1>1, <2>3 DEF SaveToken, EnsureNetworkPolicy, EnsureClusterService, EnsureClusterConfigs,
                      EnsureAgent, DeleteLease, TypeOK, Infra, SansKept
  <2>4. CASE AssignAddress(c) \/ ServerComesUp(c) \/ AgentRenewsLease(c) \/ OtherSync(c)
    BY <1>1, <2>4 DEF AssignAddress, ServerComesUp, AgentRenewsLease, OtherSync, SyncToken,
                      SyncNetworkPolicy, Resync, TypeOK, Infra, SansKept
  <2>5. CASE \/ InitPhase(c) \/ AddFinalizer(c) \/ UpdateLabels(c) \/ RemoveFinalizer(c)
             \/ ReconcilePolicy(c) \/ ReadToken(c) \/ EnsureIngress(c) \/ EnsureBootstrap(c)
             \/ BindDone(c) \/ EnsureKubeconfigSecret(c) \/ EnsureVirtual(c) \/ UpdateStatus(c)
             \/ UnbindDone(c) \/ \E r \in Roles : BindClusterRole(c, r) \/ UnbindClusterRole(c, r)
    <3>1. infra' = infra
      BY <2>5 DEF InitPhase, AddFinalizer, UpdateLabels, RemoveFinalizer, UpdateAndReturn,
                  ReconcilePolicy, ReadToken, EnsureIngress, EnsureBootstrap, BindDone,
                  EnsureKubeconfigSecret, EnsureVirtual, UpdateStatus, UnbindDone, BindClusterRole,
                  UnbindClusterRole
    <3>2. QED
      BY <3>1 DEF SansKept
  <2>6. CASE Users(c) \/ SyncCluster(c) \/ StartReconcile(c) \/ CallFails(c)
    <3>1. infra' = infra
      BY <2>6 DEF Users, CreateCluster, EditSpec, DeleteCluster, LabelNamespace, UserWrites,
                  SyncCluster, StartReconcile, CallFails
    <3>2. QED
      BY <3>1 DEF SansKept
  <2>7. QED
    BY <1>3, <2>1, <2>2, <2>3, <2>4, <2>5, <2>6 DEF OwnStep, ReconcileStep, Host
<1>4. CASE Restart
  BY <1>1, <1>4 DEF Restart, Infra, SansKept
<1>5. CASE (\E q \in Roles : SyncSubjects(q)) \/ UpgradeHost \/ UNCHANGED vars
  BY <1>5 DEF SyncSubjects, UpgradeHost, vars, SansKept
<1>6. QED
  BY <1>2, <1>3, <1>4, <1>5 DEF Next, OwnStep, OtherSync

\* The host version in the status, once set, stays, and a Cluster that is gone
\* does not come back.
VersionKept(c) ==
    \/ cluster'[c] = cluster[c] \/ ~Exists(cluster'[c]) \/ cluster[c].life = "absent"
    \/ /\ cluster[c].life = "live"
       /\ cluster[c].version # None => cluster'[c].version = cluster[c].version

LEMMA VersionStep ==
    ASSUME IInv, [Next]_vars, NEW c \in Clusters
    PROVE  VersionKept(c)
<1>1. TypeOK /\ RolesInv /\ ClusterInv(c) /\ RunInv(c) /\ cluster[c] \in Objects
  BY DEF IInv, ClusterInv, TypeOK
<1>2. rec[c] \in Reconciles /\ rec[c].copy \in Objects /\ rec[c].orig \in Objects
  BY <1>1 DEF TypeOK, Reconciles
<1>3. ASSUME NEW d \in Clusters, OwnStep(d), c # d PROVE VersionKept(c)
  BY <1>1, <1>3, OthersSame DEF OwnStep, Same, VersionKept
<1>4. CASE OwnStep(c)
  <2>1. CASE CreateCluster(c) \/ EditSpec(c) \/ DeleteCluster(c)
    <3>1. CASE CreateCluster(c)
      BY <3>1 DEF CreateCluster, VersionKept
    <3>2. CASE EditSpec(c)
      BY <1>1, <3>2 DEF EditSpec, UserWrites, TypeOK, Objects, VersionKept
    <3>3. CASE DeleteCluster(c)
      <4>1. cluster'[c] = [cluster[c] EXCEPT !.life = "deleting"] \/ cluster'[c] = Gone
        BY <1>1, <3>3 DEF DeleteCluster, UserWrites, TypeOK
      <4>2. Gone.life = "gone"
        BY DEF Gone, Absent
      <4>3. QED
        BY <1>1, <3>3, <4>1, <4>2 DEF DeleteCluster, Exists, Objects, VersionKept
    <3>4. QED
      BY <2>1, <3>1, <3>2, <3>3
  <2>2. CASE InitPhase(c) \/ AddFinalizer(c)
    <3>1. rec[c].fresh => cluster[c] = rec[c].copy /\ cluster[c].life = "live"
      BY <1>1, <2>2 DEF InitPhase, AddFinalizer, RunInv, Finalizing
    <3>2. \/ cluster' = cluster
          \/ rec[c].fresh /\ cluster'[c] = [rec[c].copy EXCEPT !.phase = "Provisioning"]
          \/ rec[c].fresh /\ cluster'[c] = [rec[c].copy EXCEPT !.finalizer = TRUE]
      BY <1>1, <2>2 DEF InitPhase, AddFinalizer, UpdateAndReturn, StoreCluster, objVars, TypeOK
    <3>3. QED
      BY <1>2, <3>1, <3>2 DEF Objects, VersionKept
  <2>3. CASE UpdateLabels(c)
    <3>1. rec[c].fresh => Status(cluster[c]) = Status(rec[c].copy) /\ cluster[c].life = "live"
      BY <1>1, <2>3 DEF UpdateLabels, RunInv, Finalizing
    <3>2. \/ cluster' = cluster
          \/ rec[c].fresh /\ cluster'[c] = rec[c].copy
      BY <1>1, <2>3 DEF UpdateLabels, UpdateAndReturn, StoreCluster, objVars, TypeOK
    <3>3. QED
      BY <3>1, <3>2 DEF Status, VersionKept
  <2>4. CASE UpdateStatus(c)
    <3>1. /\ rec[c].fresh => cluster[c] = rec[c].orig /\ cluster[c].life = "live"
          /\ rec[c].orig.version # None => rec[c].copy.version = rec[c].orig.version
      BY <1>1, <2>4 DEF UpdateStatus, RunInv, Finalizing
    <3>2. PICK new, stored \in Objects : StatusEffect(c, new, stored)
      BY <1>1, <2>4, UpdateStatusEffect
    <3>3. stored.version = rec[c].copy.version
      <4>1. new.version = rec[c].copy.version
        BY <1>2, <3>2 DEF Objects, StatusEffect
      <4>2. stored.version = new.version
        BY <3>2 DEF Objects, StatusEffect
      <4>3. QED
        BY <4>1, <4>2
    <3>4. QED
      BY <3>1, <3>2, <3>3 DEF objVars, StatusEffect, VersionKept
  <2>5. CASE RemoveFinalizer(c)
    <3>1. cluster' = cluster \/ cluster'[c] = Gone
      BY <1>1, <2>5 DEF RemoveFinalizer, UpdateAndReturn, StoreCluster, objVars, TypeOK
    <3>2. QED
      BY <3>1 DEF Gone, Absent, Exists, VersionKept
  <2>6. CASE DeployStep(c) \/ \E r \in Roles : BindClusterRole(c, r) \/ UnbindClusterRole(c, r)
    BY <1>1, <2>6, DeployGoesOn, RoleStepGoesOn DEF GoesOn, VersionKept
  <2>7. CASE \/ UnbindDone(c) \/ DeleteLease(c) \/ CallFails(c) \/ StartReconcile(c)
             \/ SyncCluster(c) \/ OtherSync(c) \/ Host(c) \/ LabelNamespace(c)
    <3>1. cluster' = cluster
      BY <2>7 DEF UnbindDone, DeleteLease, CallFails, StartReconcile, SyncCluster, OtherSync,
                  SyncToken, SyncNetworkPolicy, Resync, Host, AssignAddress, ServerComesUp,
                  AgentRenewsLease, CollectGarbage, LabelNamespace, objVars
    <3>2. QED
      BY <3>1 DEF VersionKept
  <2>8. QED
    BY <1>4, <2>1, <2>2, <2>3, <2>4, <2>5, <2>6, <2>7
       DEF OwnStep, ReconcileStep, DeployStep, Users
<1>5. CASE (\E q \in Roles : SyncSubjects(q)) \/ UpgradeHost \/ Restart \/ UNCHANGED vars
  BY <1>5 DEF SyncSubjects, UpgradeHost, Restart, vars, objVars, VersionKept
<1>6. QED
  BY <1>3, <1>4, <1>5 DEF Next, OwnStep, OtherSync

\* What the cache and a running reconcile are based on was read from the API server.
SeenFrom(c) ==
    /\ cached'[c] = cached[c] \/ cached'[c] = cluster[c]
    /\ \/ rec'[c].pc = "idle" \/ rec'[c].orig = cached[c]
       \/ rec[c].pc # "idle" /\ rec'[c].orig = rec[c].orig

LEMMA SeenStep ==
    ASSUME IInv, [Next]_vars, NEW c \in Clusters
    PROVE  SeenFrom(c)
<1>1. TypeOK /\ RolesInv /\ ClusterInv(c) /\ rec[c] \in Reconciles
  BY DEF IInv, TypeOK
<1>2. Idle.pc = "idle"
  BY DEF Idle
<1>3. ASSUME NEW d \in Clusters, OwnStep(d), c # d PROVE SeenFrom(c)
  BY <1>1, <1>3, OthersSame DEF OwnStep, Same, SeenFrom
<1>4. CASE OwnStep(c)
  <2>1. CASE Users(c)
    <3>1. rec'[c] = rec[c] \/ rec'[c] = [rec[c] EXCEPT !.fresh = FALSE]
      BY <1>1, <2>1 DEF Users, CreateCluster, EditSpec, DeleteCluster, LabelNamespace, UserWrites,
                        TypeOK
    <3>2. rec'[c].pc = rec[c].pc /\ rec'[c].orig = rec[c].orig
      BY <1>1, <3>1 DEF Reconciles
    <3>3. cached' = cached
      BY <2>1 DEF Users, CreateCluster, EditSpec, DeleteCluster, LabelNamespace, UserWrites, objVars
    <3>4. QED
      BY <3>2, <3>3 DEF SeenFrom
  <2>2. CASE Host(c) \/ SyncCluster(c) \/ OtherSync(c)
    BY <1>1, <2>2 DEF Host, AssignAddress, ServerComesUp, AgentRenewsLease, CollectGarbage,
                      SyncCluster, OtherSync, SyncToken, SyncNetworkPolicy, Resync, objVars, TypeOK,
                      SeenFrom
  <2>3. CASE StartReconcile(c)
    <3>1. \/ rec'[c] = Idle
          \/ rec'[c] = [Idle EXCEPT !.pc = FirstStep(cached[c]), !.orig = cached[c],
                                    !.copy = cached[c], !.fresh = cachedFresh[c], !.todo = Roles]
      BY <1>1, <2>3 DEF StartReconcile, TypeOK
    <3>2. ASSUME rec'[c] = [Idle EXCEPT !.pc = FirstStep(cached[c]), !.orig = cached[c],
                                        !.copy = cached[c], !.fresh = cachedFresh[c], !.todo = Roles]
          PROVE  rec'[c].orig = cached[c]
      BY <3>2 DEF Idle
    <3>3. QED
      BY <1>2, <2>3, <3>1, <3>2 DEF StartReconcile, objVars, SeenFrom
  <2>4. CASE DeployStep(c) \/ \E r \in Roles : BindClusterRole(c, r) \/ UnbindClusterRole(c, r)
    BY <1>1, <2>4, DeployGoesOn, RoleStepGoesOn DEF GoesOn, SeenFrom
  <2>5. CASE UnbindDone(c) \/ DeleteLease(c) \/ CallFails(c)
    BY <1>1, <1>2, <2>5, CleanUpGoesOn, CallFailsEffect DEF GoesOn, Returns, SeenFrom
  <2>6. CASE InitPhase(c) \/ AddFinalizer(c) \/ UpdateLabels(c) \/ RemoveFinalizer(c)
    BY <1>1, <1>2, <2>6 DEF InitPhase, AddFinalizer, UpdateLabels, RemoveFinalizer, UpdateAndReturn,
                            StoreCluster, Return, objVars, TypeOK, SeenFrom
  <2>7. CASE UpdateStatus(c)
    <3>1. PICK new, stored \in Objects : StatusEffect(c, new, stored)
      BY <1>1, <2>7, UpdateStatusEffect
    <3>2. rec'[c] = Idle \/ rec'[c].orig = rec[c].orig
      BY <1>1, <3>1 DEF StatusEffect, Reconciles
    <3>3. QED
      BY <1>2, <2>7, <3>1, <3>2 DEF StatusEffect, objVars, UpdateStatus, SeenFrom
  <2>8. QED
    BY <1>4, <2>1, <2>2, <2>3, <2>4, <2>5, <2>6, <2>7 DEF OwnStep, ReconcileStep, DeployStep
<1>5. CASE Restart
  BY <1>2, <1>5 DEF Restart, SeenFrom
<1>6. CASE (\E q \in Roles : SyncSubjects(q)) \/ UpgradeHost \/ UNCHANGED vars
  BY <1>6 DEF SyncSubjects, UpgradeHost, vars, objVars, SeenFrom
<1>7. QED
  BY <1>3, <1>4, <1>5, <1>6 DEF Next, OwnStep, OtherSync

\* What was seen of the version holds of the Cluster after the step.
SeenStays(c, seen) ==
    Exists(seen) /\ Exists(cluster'[c]) /\ seen.version # None => cluster'[c].version = seen.version

LEMMA VersionInvStep ==
    ASSUME IInv, [Next]_vars, NEW c \in Clusters, VersionInv(c)
    PROVE  VersionInv(c)'
<1>1. ClusterInv(c) /\ VersionKept(c) /\ SeenFrom(c)
  BY VersionStep, SeenStep DEF IInv
<1>2. ASSUME NEW seen, Foretells(c, seen), SeenVersion(c, seen)
      PROVE  SeenStays(c, seen)
  BY <1>1, <1>2 DEF SeenVersion, SeenStays, VersionKept, Foretells, Exists
<1>3. SeenStays(c, cluster[c])
  BY <1>1 DEF SeenStays, VersionKept, Exists
<1>4. Foretells(c, cached[c]) /\ (rec[c].pc # "idle" => Foretells(c, rec[c].orig))
  BY <1>1 DEF ClusterInv, CacheInv, RunInv
<1>5. SeenStays(c, cached[c]) /\ (rec[c].pc # "idle" => SeenStays(c, rec[c].orig))
  BY <1>2, <1>4 DEF VersionInv
<1>6. SeenStays(c, cached'[c]) /\ (rec'[c].pc # "idle" => SeenStays(c, rec'[c].orig))
  BY <1>1, <1>3, <1>5 DEF SeenFrom
<1>7. QED
  BY <1>6 DEF VersionInv, SeenVersion, SeenStays

VInv == IInv /\ \A c \in Clusters : VersionInv(c)

LEMMA VersionInvInit == Init => VInv
<1>1. SUFFICES ASSUME Init, NEW c \in Clusters PROVE VersionInv(c)
  BY InitInv DEF VInv
<1>2. cached[c] = Absent /\ rec[c] = Idle
  BY <1>1 DEF Init
<1>3. QED
  BY <1>2 DEF VersionInv, SeenVersion, Exists, Absent, Idle

LEMMA VersionInvNext == VInv /\ [Next]_vars => VInv'
BY NextInv, VersionInvStep DEF VInv

\* Any image but the recorded one is that of a reconcile that read no version.
LEMMA ImageStep ==
    ASSUME VInv, [Next]_vars, NEW c \in Clusters, infra[c].servers, Exists(cluster[c])
    PROVE  /\ infra'[c].sans = infra[c].sans
           /\ infra'[c].image \in {infra[c].image, cluster[c].version} \/ rec[c].orig.version = None
<1>1. IInv /\ ClusterInv(c) /\ VersionInv(c)
  BY DEF VInv, IInv
<1>2. SansKept(c)
  BY <1>1, SansStep
<1>3. CASE rec[c].pc = "server" /\ rec[c].orig.version # None
  <2>1. rec[c].orig.life = "live" /\ rec[c].copy.version = rec[c].orig.version
    BY <1>1, <1>3 DEF ClusterInv, RunInv, Finalizing
  <2>2. cluster[c].version = rec[c].orig.version
    BY <1>1, <1>3, <2>1 DEF VersionInv, SeenVersion, Exists
  <2>3. QED
    BY <1>2, <2>1, <2>2 DEF SansKept
<1>4. QED
  BY <1>2, <1>3 DEF SansKept

\* What running servers are restarted for: not for the load balancer's address,
\* because the wait for it comes before the StatefulSet and no service that has
\* servers gets one later; and for another version only by a reconcile that read
\* the Cluster before the version was recorded. A version that is recorded is in
\* every copy a write is based on, whatever the host's version has become.
THEOREM ConfiguredOnce == Spec => ServersNotReconfigured
<1> DEFINE Step(c) ==
       /\ infra[c].servers /\ Exists(cluster[c]) =>
             /\ infra'[c].sans = infra[c].sans
             /\ infra'[c].image \in {infra[c].image, cluster[c].version}
                \/ rec[c].orig.version = None
       /\ (/\ cluster[c].life = "live" /\ cluster[c].version # None
           /\ Exists(cluster'[c])) => cluster'[c].version = cluster[c].version
<1>1. ASSUME VInv, [Next]_vars, NEW c \in Clusters PROVE Step(c)
  <2>1. VersionKept(c)
    BY <1>1, VersionStep DEF VInv
  <2>2. QED
    BY <1>1, <2>1, ImageStep DEF VersionKept
<1>2. VInv /\ [Next]_vars => [\A c \in Clusters : Step(c)]_vars
  BY <1>1
<1>3. QED
  BY <1>2, VersionInvInit, VersionInvNext, PTL DEF Spec, ServersNotReconfigured

-----------------------------------------------------------------------------
(* The version of the servers.                                              *)

\* Steps of one cluster leave the others' place in the queue alone.
LEMMA OthersQueued ==
    ASSUME NEW c \in Clusters, NEW d \in Clusters, c # d,
           \/ Users(c) \/ Host(c) \/ SyncCluster(c) \/ OtherSync(c)
           \/ StartReconcile(c) \/ ReconcileStep(c) \/ CallFails(c)
    PROVE  d \in queue' <=> d \in queue
<1>1. CASE Users(c) \/ Host(c) \/ SyncCluster(c) \/ OtherSync(c) \/ StartReconcile(c) \/ CallFails(c)
  BY <1>1 DEF Users, CreateCluster, EditSpec, DeleteCluster, LabelNamespace, NamespaceEvent,
              UserWrites, Host, AssignAddress, ServerComesUp, AgentRenewsLease, CollectGarbage, SyncCluster,
              OtherSync, SyncToken, SyncNetworkPolicy, Resync, StartReconcile, CallFails, Return
<1>2. CASE DeployStep(c) \/ \E r \in Roles : BindClusterRole(c, r) \/ UnbindClusterRole(c, r)
  BY <1>2 DEF DeployStep, ReconcilePolicy, ReadToken, SaveToken, EnsureNetworkPolicy,
              EnsureClusterService, EnsureClusterConfigs, EnsureServer, EnsureAgent, EnsureIngress,
              EnsureBootstrap, BindDone, EnsureKubeconfigSecret, EnsureVirtual, BindClusterRole,
              UnbindClusterRole
<1>3. CASE \/ InitPhase(c) \/ AddFinalizer(c) \/ UpdateLabels(c) \/ RemoveFinalizer(c)
           \/ UpdateStatus(c) \/ UnbindDone(c) \/ DeleteLease(c)
  BY <1>3 DEF InitPhase, AddFinalizer, UpdateLabels, RemoveFinalizer, UpdateAndReturn, UpdateStatus,
              UnbindDone, DeleteLease, Return
<1>4. QED
  BY <1>1, <1>2, <1>3 DEF ReconcileStep, DeployStep

\* The reconcile goes on without a new image.
LEMMA ImageGoesOn ==
    ASSUME NEW c \in Clusters, ImageInv(c), GoesOn(c), infra'[c].image = infra[c].image,
           \/ /\ rec'[c].copy = rec[c].copy
              /\ \/ rec'[c].pc \in BeforeServer /\ rec[c].pc \in BeforeServer
                 \/ rec'[c].pc \in AfterServer \cup {"status"} /\ rec[c].pc \in AfterServer
           \/ rec'[c].pc = "token" /\ rec'[c].copy.version # None
           \/ rec'[c].pc = "status" /\ rec'[c].err # "none"
           \/ rec'[c].pc \in Finalizing
    PROVE  ImageInv(c)'
<1>1. rec'[c].pc \notin {"idle", "update"}
  BY StepChain DEF GoesOn, Finalizing
<1>2. ~AtRest(c)'
  BY <1>1 DEF AtRest
<1>3. CASE rec'[c].copy = rec[c].copy /\ rec'[c].pc \in BeforeServer /\ rec[c].pc \in BeforeServer
  BY <1>2, <1>3 DEF ImageInv, BeforeServer, AfterServer
<1>4. CASE /\ rec'[c].copy = rec[c].copy
           /\ rec'[c].pc \in AfterServer \cup {"status"} /\ rec[c].pc \in AfterServer
  <2>1. infra'[c].image = rec'[c].copy.version /\ rec'[c].copy.version # None
    BY <1>4 DEF ImageInv
  <2>2. QED
    BY <1>1, <1>2, <1>4, <2>1 DEF ImageInv, BeforeServer, AfterServer
<1>5. CASE \/ rec'[c].pc = "token" /\ rec'[c].copy.version # None
           \/ rec'[c].pc = "status" /\ rec'[c].err # "none"
           \/ rec'[c].pc \in Finalizing
  BY <1>2, <1>5 DEF ImageInv, BeforeServer, AfterServer, Finalizing
<1>6. QED
  BY <1>3, <1>4, <1>5

LEMMA DeployImage ==
    ASSUME TypeOK, NEW c \in Clusters, ImageInv(c), DeployStep(c)
    PROVE  ImageInv(c)'
<1>0. GoesOn(c) /\ infra[c] \in Infra /\ rec[c].pc \in DOMAIN NextStep
  BY DeployGoesOn DEF TypeOK
<1>1. CASE ReconcilePolicy(c)
  BY <1>0, <1>1, PolicyGoesOn, ImageGoesOn DEF ReconcilePolicy
<1>2. CASE ReadToken(c)
  <2>1. rec[c].pc = "token" /\ infra' = infra
    BY <1>2 DEF ReadToken
  <2>2. rec'[c].copy = rec[c].copy /\ rec'[c].pc \in {"netpol", "tokenSave"}
    BY <1>2, ReadTokenGoesOn
  <2>3. QED
    BY <1>0, <2>1, <2>2, ImageGoesOn DEF BeforeServer
<1>3. CASE EnsureServer(c)
  <2>1. infra'[c].image = rec[c].copy.version
    BY <1>0, <1>3 DEF EnsureServer, K3SImage, TypeOK, Infra
  <2>2. /\ rec[c].pc = "server" /\ rec'[c].pc = "agent" /\ rec'[c].copy = rec[c].copy
    BY <1>0, <1>3, AdvanceGoesOn, StepChain DEF EnsureServer
  <2>3. QED
    BY <2>1, <2>2 DEF ImageInv, BeforeServer, AfterServer, AtRest
<1>4. CASE \/ SaveToken(c) \/ EnsureNetworkPolicy(c) \/ EnsureClusterService(c)
           \/ EnsureClusterConfigs(c) \/ EnsureAgent(c) \/ EnsureIngress(c) \/ EnsureBootstrap(c)
           \/ BindDone(c) \/ EnsureKubeconfigSecret(c) \/ EnsureVirtual(c)
  <2>1. infra'[c].image = infra[c].image /\ UNCHANGED objVars
    BY <1>0, <1>4
       DEF SaveToken, EnsureNetworkPolicy, EnsureClusterService, EnsureClusterConfigs, EnsureAgent,
           EnsureIngress, EnsureBootstrap, BindDone, EnsureKubeconfigSecret, EnsureVirtual, TypeOK,
           Infra
  <2>2. rec[c].pc \in {"tokenSave", "netpol", "service", "configs"} \cup AfterServer
    BY <1>4
       DEF SaveToken, EnsureNetworkPolicy, EnsureClusterService, EnsureClusterConfigs, EnsureAgent,
           EnsureIngress, EnsureBootstrap, BindDone, EnsureKubeconfigSecret, EnsureVirtual,
           AfterServer
  <2>3. Advance(c) \/ \E err : err # "none" /\ Fail(c, err)
    BY <1>4
       DEF SaveToken, EnsureNetworkPolicy, EnsureClusterService, EnsureClusterConfigs, EnsureAgent,
           EnsureIngress, EnsureBootstrap, BindDone, EnsureKubeconfigSecret, EnsureVirtual
  <2>4. CASE Advance(c)
    <3>1. rec'[c].pc = NextStep[rec[c].pc] /\ rec'[c].copy = rec[c].copy
      BY <1>0, <2>1, <2>4, AdvanceGoesOn
    <3>2. \/ rec'[c].pc \in BeforeServer /\ rec[c].pc \in BeforeServer
          \/ rec'[c].pc \in AfterServer \cup {"status"} /\ rec[c].pc \in AfterServer
      BY <2>2, <3>1, StepChain DEF BeforeServer, AfterServer
    <3>3. QED
      BY <1>0, <2>1, <3>1, <3>2, ImageGoesOn
  <2>5. ASSUME NEW err, err # "none", Fail(c, err) PROVE ImageInv(c)'
    <3>1. rec'[c].pc = "status" /\ rec'[c].err # "none"
      BY <1>0, <2>1, <2>5, FailGoesOn
    <3>2. QED
      BY <1>0, <2>1, <3>1, ImageGoesOn
  <2>6. QED
    BY <2>3, <2>4, <2>5
<1>5. QED
  BY <1>1, <1>2, <1>3, <1>4 DEF DeployStep

\* A reconcile that ends is tried again, has changed the Cluster, or has found or
\* recorded the version of the servers it deployed.
LEMMA WritesImage ==
    ASSUME VInv, NEW c \in Clusters, ImageInv(c),
           \/ InitPhase(c) \/ AddFinalizer(c) \/ UpdateLabels(c) \/ UpdateStatus(c)
           \/ RemoveFinalizer(c)
    PROVE  ImageInv(c)'
<1>0. /\ TypeOK /\ ClusterInv(c) /\ VersionInv(c) /\ infra' = infra /\ Idle.pc = "idle"
      /\ rec[c] \in Reconciles /\ rec[c].copy \in Objects /\ rec[c].orig \in Objects
  BY DEF VInv, IInv, TypeOK, Reconciles, Idle, InitPhase, AddFinalizer, UpdateLabels,
         UpdateStatus, RemoveFinalizer, UpdateAndReturn
<1>1. ASSUME rec'[c] = Idle,
             \/ cachedFresh'[c] = FALSE \/ c \in queue' \/ cluster'[c].life # "live"
             \/ infra[c].image = cluster'[c].version
      PROVE  ImageInv(c)'
  BY <1>0, <1>1 DEF ImageInv, AtRest, BeforeServer, AfterServer
<1>2. ASSUME NEW object, UpdateAndReturn(c, object) PROVE ImageInv(c)'
  <2>1. rec'[c] = Idle /\ (cachedFresh'[c] = FALSE \/ c \in queue')
    BY <1>0, <1>2 DEF UpdateAndReturn, StoreCluster, Return, TypeOK
  <2>2. QED
    BY <1>1, <2>1
<1>3. CASE InitPhase(c) \/ AddFinalizer(c) \/ RemoveFinalizer(c)
  BY <1>2, <1>3 DEF InitPhase, AddFinalizer, RemoveFinalizer
<1>4. CASE UpdateLabels(c)
  <2>1. CASE Return(c, FALSE) /\ UNCHANGED objVars
    <3>1. rec'[c] = Idle /\ cluster' = cluster
      BY <1>0, <2>1 DEF Return, TypeOK, objVars
    <3>2. cluster[c].life = "live" => infra[c].image = cluster[c].version
      BY <1>4 DEF ImageInv, UpdateLabels
    <3>3. QED
      BY <1>1, <3>1, <3>2
  <2>2. QED
    BY <1>2, <1>4, <2>1 DEF UpdateLabels
<1>5. CASE UpdateStatus(c)
  <2>0. rec[c].pc = "status" /\ rec[c].orig.life = "live"
    BY <1>0, <1>5 DEF UpdateStatus, ClusterInv, RunInv, Finalizing
  <2>1. PICK new, stored \in Objects : StatusEffect(c, new, stored)
    BY <1>0, <1>5, UpdateStatusEffect
  <2>2. c \in queue' \/ (rec[c].err = "none" /\ rec'[c].pc = "update")
    <3>1. CASE Return(c, TRUE)
      BY <3>1 DEF Return
    <3>2. CASE rec[c].err # "none" /\ Return(c, Requeues(rec[c].err))
      <4>1. Requeues(rec[c].err) = TRUE
        BY <3>2 DEF Requeues
      <4>2. QED
        BY <3>2, <4>1 DEF Return
    <3>3. ASSUME NEW copy, rec[c].err = "none",
                 rec' = [rec EXCEPT ![c].pc = "update", ![c].copy = copy]
          PROVE  rec[c].err = "none" /\ rec'[c].pc = "update"
      <4>1. rec'[c] = [rec[c] EXCEPT !.pc = "update", !.copy = copy]
        BY <1>0, <3>3 DEF TypeOK
      <4>2. QED
        BY <1>0, <3>3, <4>1 DEF Reconciles
    <3>4. QED
      BY <1>5, <3>1, <3>3, <3>2, Zenon DEF UpdateStatus
  <2>3. CASE rec'[c] = Idle
    BY <1>0, <1>1, <2>2, <2>3
  <2>4. CASE rec[c].err = "none" /\ rec'[c] = [rec[c] EXCEPT !.pc = "update", !.copy = new]
    <3>1. rec'[c].pc = "update"
      BY <1>0, <2>4 DEF Reconciles
    <3>2. infra[c].image = rec[c].copy.version /\ rec[c].copy.version # None
      BY <2>0, <2>4 DEF ImageInv
    <3>3. new.version = rec[c].copy.version
      BY <1>0, <2>1 DEF StatusEffect, Objects
    <3>4. stored.version = new.version
      BY <2>1 DEF StatusEffect, Objects
    <3>5. CASE cluster'[c] = stored
      BY <1>0, <3>1, <3>2, <3>3, <3>4, <3>5 DEF ImageInv, AtRest, BeforeServer, AfterServer
    <3>6. CASE UNCHANGED objVars /\ Status(new) = Status(rec[c].orig)
      <4>1. new.version = rec[c].orig.version
        BY <3>6 DEF Status
      <4>2. cluster[c].life = "live" => cluster[c].version = rec[c].orig.version
        BY <1>0, <2>0, <3>2, <3>3, <4>1 DEF VersionInv, SeenVersion, Exists
      <4>3. cluster' = cluster
        BY <3>6 DEF objVars
      <4>4. QED
        BY <1>0, <3>1, <3>2, <3>3, <4>1, <4>2, <4>3
           DEF ImageInv, AtRest, BeforeServer, AfterServer
    <3>7. QED
      BY <1>0, <2>1, <2>4, <3>1, <3>5, <3>6 DEF StatusEffect
  <2>5. QED
    BY <2>1, <2>3, <2>4 DEF StatusEffect
<1>6. QED
  BY <1>3, <1>4, <1>5

LEMMA UserImage ==
    ASSUME TypeOK, NEW c \in Clusters, ClusterInv(c), ImageInv(c), Users(c)
    PROVE  ImageInv(c)'
<1>0. rec[c] \in Reconciles /\ cluster[c] \in Objects /\ infra' = infra
  BY DEF TypeOK, Users, CreateCluster, EditSpec, DeleteCluster, LabelNamespace, UserWrites
<1>1. rec'[c].pc = rec[c].pc /\ rec'[c].copy = rec[c].copy /\ rec'[c].err = rec[c].err
  <2>1. rec'[c] = rec[c] \/ rec'[c] = [rec[c] EXCEPT !.fresh = FALSE]
    BY DEF TypeOK, Users, CreateCluster, EditSpec, DeleteCluster, LabelNamespace, UserWrites
  <2>2. QED
    BY <1>0, <2>1 DEF Reconciles
<1>2. AtRest(c)' => cluster'[c] = cluster[c] /\ AtRest(c)
  <2>1. CASE LabelNamespace(c)
    BY <1>1, <2>1 DEF LabelNamespace, NamespaceEvent, objVars, AtRest
  <2>2. CASE CreateCluster(c) \/ EditSpec(c) \/ DeleteCluster(c)
    BY <2>2 DEF CreateCluster, EditSpec, DeleteCluster, UserWrites, TypeOK, AtRest
  <2>3. QED
    BY <2>1, <2>2 DEF Users
<1>3. rec[c].pc = "update" /\ cluster'[c].life = "live" /\ ~CreateCluster(c) =>
          cluster[c].life = "live" /\ cluster'[c].version = cluster[c].version
  <2>1. CASE EditSpec(c)
    BY <1>0, <2>1 DEF EditSpec, UserWrites, TypeOK, Objects
  <2>2. CASE DeleteCluster(c)
    <3>1. cluster'[c] = [cluster[c] EXCEPT !.life = "deleting"] \/ cluster'[c] = Gone
      BY <2>2 DEF DeleteCluster, UserWrites, TypeOK
    <3>2. cluster'[c].life # "live"
      BY <1>0, <3>1 DEF Gone, Absent, Objects
    <3>3. QED
      BY <3>2
  <2>3. CASE LabelNamespace(c)
    BY <2>3 DEF LabelNamespace, objVars
  <2>4. QED
    BY <2>1, <2>2, <2>3 DEF Users
<1>4. CreateCluster(c) => rec[c].pc = "idle"
  BY DEF CreateCluster, ClusterInv, RunInv, Foretells
<1>5. QED
  BY <1>0, <1>1, <1>2, <1>3, <1>4 DEF ImageInv, BeforeServer, AfterServer

LEMMA HostImage ==
    ASSUME TypeOK, NEW c \in Clusters, ClusterInv(c), ImageInv(c),
           Host(c) \/ SyncCluster(c) \/ OtherSync(c)
    PROVE  ImageInv(c)'
<1>0. UNCHANGED <<cluster, rec>> /\ infra[c] \in Infra /\ queue \subseteq queue'
  BY DEF Host, AssignAddress, ServerComesUp, AgentRenewsLease, CollectGarbage, OtherSync, SyncToken,
         SyncNetworkPolicy, Resync, SyncCluster, TypeOK, objVars
<1>1. CASE CollectGarbage(c)
  <2>1. cluster'[c].life = "gone"
    BY <1>0, <1>1 DEF CollectGarbage
  <2>2. rec'[c].pc \notin DOMAIN NextStep \cup {"status"}
    BY <1>0, <2>1, Covered, StepChain DEF Provisioning, Finalizing, Exists
  <2>3. rec'[c].pc \notin BeforeServer \cup AfterServer \cup {"status"}
    BY <2>2, StepChain DEF BeforeServer, AfterServer
  <2>4. QED
    BY <2>1, <2>3 DEF ImageInv, BeforeServer, AfterServer
<1>2. CASE ~CollectGarbage(c)
  <2>1. infra'[c].image = infra[c].image
    BY <1>0, <1>2 DEF Host, AssignAddress, ServerComesUp, AgentRenewsLease, OtherSync, SyncToken,
                      SyncNetworkPolicy, Resync, SyncCluster, TypeOK, Infra
  <2>2. infra'[c].servers = infra[c].servers
    BY <1>0, <1>2 DEF Host, AssignAddress, ServerComesUp, AgentRenewsLease, OtherSync, SyncToken,
                      SyncNetworkPolicy, Resync, SyncCluster, TypeOK, Infra
  <2>3. AtRest(c)' => AtRest(c)
    <3>1. SyncCluster(c) => c \in queue'
      BY DEF SyncCluster
    <3>2. ~SyncCluster(c) => cachedFresh' = cachedFresh
      BY DEF Host, AssignAddress, ServerComesUp, AgentRenewsLease, CollectGarbage, OtherSync,
             SyncToken, SyncNetworkPolicy, Resync, objVars
    <3>3. QED
      BY <1>0, <3>1, <3>2 DEF AtRest
  <2>4. QED
    BY <1>0, <2>1, <2>2, <2>3 DEF ImageInv
<1>3. QED
  BY <1>1, <1>2

LEMMA StartImage ==
    ASSUME TypeOK, NEW c \in Clusters, ClusterInv(c), ImageInv(c), StartReconcile(c)
    PROVE  ImageInv(c)'
<1>0. UNCHANGED <<cluster, infra, cachedFresh>> /\ cached[c] \in Objects /\ Idle.pc = "idle"
  BY DEF StartReconcile, objVars, TypeOK, Idle
<1>1. CASE Exists(cached[c])
  <2>1. rec'[c] = [Idle EXCEPT !.pc = FirstStep(cached[c]), !.orig = cached[c],
                               !.copy = cached[c], !.fresh = cachedFresh[c], !.todo = Roles]
    BY <1>1 DEF StartReconcile, TypeOK
  <2>2. rec'[c].pc = FirstStep(cached[c])
    BY <2>1 DEF Idle
  <2>3. FirstStep(cached[c]) \in {"unbind", "initPhase", "addFinalizer", "policy"}
    BY <1>0, <1>1 DEF FirstStep, Exists, Objects
  <2>4. QED
    BY <1>0, <2>2, <2>3 DEF ImageInv, AtRest, BeforeServer, AfterServer
<1>2. CASE ~Exists(cached[c])
  <2>1. rec'[c] = Idle
    BY <1>2 DEF StartReconcile, TypeOK
  <2>2. cachedFresh[c] => cluster[c].life # "live"
    BY <1>2 DEF ClusterInv, CacheInv, Exists
  <2>3. QED
    BY <1>0, <2>1, <2>2 DEF ImageInv, AtRest, BeforeServer, AfterServer
<1>3. QED
  BY <1>1, <1>2

LEMMA EndImage ==
    ASSUME TypeOK, NEW c \in Clusters, ClusterInv(c), ImageInv(c),
           UnbindDone(c) \/ DeleteLease(c) \/ CallFails(c)
    PROVE  ImageInv(c)'
<1>0. infra[c] \in Infra /\ Idle.pc = "idle"
  BY DEF TypeOK, Idle
<1>1. CASE UnbindDone(c) \/ DeleteLease(c)
  <2>1. rec[c].pc \in Finalizing /\ UNCHANGED cluster
    BY <1>1 DEF UnbindDone, DeleteLease, Finalizing, objVars
  <2>2. cluster'[c].life # "live"
    BY <2>1, Covered DEF Finalizing, Ending
  <2>3. rec'[c].pc \in {"idle", "lease", "removeFinalizer"}
    BY <1>0, <1>1, CleanUpGoesOn DEF Returns
  <2>4. QED
    BY <2>2, <2>3 DEF ImageInv, BeforeServer, AfterServer
<1>2. CASE CallFails(c)
  <2>1. infra' = infra
    BY <1>2 DEF CallFails
  <2>2. CASE Returns(c)
    <3>1. rec'[c].pc = "idle"
      BY <1>0, <2>2 DEF Returns
    <3>2. \/ rec[c].pc \in DOMAIN NextStep \cup {"unbind"} /\ rec'[c].pc # "idle"
          \/ Return(c, TRUE)
      <4>1. CASE rec[c].pc \in DOMAIN NextStep /\ Fail(c, "other")
        BY <1>2, <4>1, FailGoesOn DEF CallFails
      <4>2. ASSUME NEW r \in rec[c].todo, rec[c].pc \in {"bind", "unbind"}, RoleDone(c, r, TRUE)
            PROVE  rec[c].pc \in DOMAIN NextStep \cup {"unbind"} /\ rec'[c].pc # "idle"
        BY <1>2, <4>2, RoleDoneGoesOn, StepChain DEF CallFails
      <4>3. QED
        BY <1>2, <4>1, <4>2 DEF CallFails
    <3>3. c \in queue'
      BY <3>1, <3>2 DEF Return
    <3>4. QED
      BY <3>1, <3>3 DEF ImageInv, AtRest, BeforeServer, AfterServer
  <2>3. CASE GoesOn(c) /\ rec'[c].pc = "status" /\ rec'[c].err = "other"
    BY <2>1, <2>3, ImageGoesOn
  <2>4. CASE /\ GoesOn(c) /\ rec[c].pc \in {"bind", "unbind"} /\ rec'[c].pc = rec[c].pc
             /\ rec'[c].copy = rec[c].copy
    BY <2>1, <2>4, ImageGoesOn DEF AfterServer, Finalizing
  <2>5. QED
    BY <1>2, <2>2, <2>3, <2>4, CallFailsEffect
<1>3. QED
  BY <1>1, <1>2

LEMMA ImageInvStep ==
    ASSUME VInv, NEW c \in Clusters, ImageInv(c), OwnStep(c)
    PROVE  ImageInv(c)'
<1>1. TypeOK /\ ClusterInv(c)
  BY DEF VInv, IInv
<1>2. CASE \/ Users(c) \/ Host(c) \/ OtherSync(c) \/ SyncCluster(c) \/ StartReconcile(c)
           \/ CallFails(c) \/ UnbindDone(c) \/ DeleteLease(c)
  BY <1>1, <1>2, UserImage, HostImage, StartImage, EndImage
<1>3. ASSUME NEW r \in Roles, BindClusterRole(c, r) \/ UnbindClusterRole(c, r) PROVE ImageInv(c)'
  <2>1. PICK err \in BOOLEAN : RoleDone(c, r, err)
    BY <1>3 DEF BindClusterRole, UnbindClusterRole, UpdateRole
  <2>2. rec[c].pc \in {"bind", "unbind"} /\ UNCHANGED objVars /\ infra' = infra
    BY <1>3 DEF BindClusterRole, UnbindClusterRole
  <2>3. GoesOn(c) /\ rec'[c].pc = rec[c].pc /\ rec'[c].copy = rec[c].copy
    BY <1>1, <2>1, <2>2, RoleDoneGoesOn
  <2>4. QED
    BY <2>2, <2>3, ImageGoesOn DEF AfterServer, Finalizing
<1>4. CASE DeployStep(c)
  BY <1>1, <1>4, DeployImage
<1>5. CASE \/ InitPhase(c) \/ AddFinalizer(c) \/ UpdateLabels(c) \/ UpdateStatus(c)
           \/ RemoveFinalizer(c)
  BY <1>5, WritesImage
<1>6. QED
  BY <1>2, <1>3, <1>4, <1>5 DEF OwnStep, ReconcileStep, DeployStep

LEMMA ImageInvOthers ==
    ASSUME VInv, NEW c \in Clusters, ImageInv(c),
           \/ \E d \in Clusters \ {c} : OwnStep(d)
           \/ \E r \in Roles : SyncSubjects(r)
           \/ UpgradeHost \/ Restart \/ UNCHANGED vars
    PROVE  ImageInv(c)'
<1>0. TypeOK /\ RolesInv /\ Idle.pc = "idle" /\ infra[c] \in Infra
  BY DEF VInv, IInv, TypeOK, Idle
<1>1. ASSUME NEW d \in Clusters \ {c}, OwnStep(d) PROVE ImageInv(c)'
  <2>1. Same(c) /\ (c \in queue' <=> c \in queue)
    BY <1>0, <1>1, OthersSame, OthersQueued DEF OwnStep
  <2>2. QED
    BY <2>1 DEF Same, ImageInv, AtRest
<1>2. CASE (\E r \in Roles : SyncSubjects(r)) \/ UpgradeHost \/ UNCHANGED vars
  <2>1. UNCHANGED <<cluster, cachedFresh, rec, queue, infra>>
    BY <1>2 DEF SyncSubjects, UpgradeHost, vars, objVars
  <2>2. QED
    BY <2>1 DEF ImageInv, AtRest
<1>3. CASE Restart
  <2>1. rec'[c].pc = "idle" /\ (cluster'[c].life = "live" => c \in queue')
    BY <1>0, <1>3 DEF Restart, Exists
  <2>2. QED
    BY <2>1 DEF ImageInv, AtRest, BeforeServer, AfterServer
<1>4. QED
  BY <1>1, <1>2, <1>3

-----------------------------------------------------------------------------
(* With a cache of the role bindings that does not lag.                     *)

\* A write of a live object by its reconcile keeps it alive.
LEMMA LiveWrites ==
    ASSUME TypeOK, NEW c \in Clusters, ClusterInv(c),
           InitPhase(c) \/ AddFinalizer(c) \/ UpdateLabels(c) \/ UpdateStatus(c)
    PROVE  /\ cluster'[c] = cluster[c] \/ cluster'[c].life = "live"
           /\ rec'[c].pc \in {"idle", "update"}
<1>0. rec[c] \in Reconciles /\ rec[c].copy \in Objects /\ Idle.pc = "idle"
  BY DEF TypeOK, Reconciles, Idle
<1>1. rec[c].copy.life = "live"
  BY DEF InitPhase, AddFinalizer, UpdateLabels, UpdateStatus, ClusterInv, RunInv, Finalizing
<1>2. CASE InitPhase(c) \/ AddFinalizer(c) \/ UpdateLabels(c)
  <2>1. /\ rec'[c] = Idle
        /\ \/ cluster' = cluster
           \/ cluster'[c] = [rec[c].copy EXCEPT !.phase = "Provisioning"]
           \/ cluster'[c] = [rec[c].copy EXCEPT !.finalizer = TRUE]
           \/ cluster'[c] = rec[c].copy
    BY <1>2 DEF InitPhase, AddFinalizer, UpdateLabels, UpdateAndReturn, StoreCluster, Return,
                objVars, TypeOK
  <2>2. QED
    BY <1>0, <1>1, <2>1 DEF Objects
<1>3. CASE UpdateStatus(c)
  <2>1. PICK new, stored \in Objects : StatusEffect(c, new, stored)
    BY <1>3, UpdateStatusEffect
  <2>2. stored.life = "live"
    <3>1. new.life = rec[c].copy.life
      BY <1>0, <2>1 DEF Objects, StatusEffect
    <3>2. stored.life = new.life
      BY <2>1 DEF Objects, StatusEffect
    <3>3. QED
      BY <1>1, <3>1, <3>2
  <2>3. rec'[c] = Idle \/ rec'[c].pc = "update"
    BY <1>0, <2>1 DEF StatusEffect, Reconciles
  <2>4. QED
    BY <1>0, <2>1, <2>2, <2>3 DEF StatusEffect, objVars
<1>4. QED
  BY <1>2, <1>3

LEMMA UnbindStep ==
    ASSUME TypeOK, RolesInv, "roles" \notin Lagging, NEW c \in Clusters, ClusterInv(c),
           UnboundInv(c), NEW r \in Roles, BindClusterRole(c, r) \/ UnbindClusterRole(c, r)
    PROVE  UnboundInv(c)'
<1>0. /\ rec[c].pc \in {"bind", "unbind"} /\ rec'[c].pc = rec[c].pc /\ cluster'[c] = cluster[c]
      /\ subjectsFresh[r] /\ subjectsSeen[r] = subjects[r]
  BY RoleStepGoesOn DEF BindClusterRole, UnbindClusterRole, GoesOn, RolesInv
<1>1. CASE BindClusterRole(c, r)
  <2>1. rec[c].pc = "bind" /\ Exists(cluster[c])
    BY <1>1, Covered, StepChain DEF BindClusterRole, Provisioning, Finalizing
  <2>2. QED
    BY <1>0, <2>1 DEF UnboundInv, Exists
<1>2. CASE UnbindClusterRole(c, r)
  <2>1. RoleDone(c, r, FALSE) /\ UNCHANGED objVars /\ rec[c].pc = "unbind"
    BY <1>0, <1>2 DEF UnbindClusterRole, UpdateRole
  <2>2. rec'[c].todo = rec[c].todo \ {r} /\ rec'[c].err = rec[c].err
    BY <2>1, RoleDoneGoesOn
  <2>3. c \notin subjects'[r] /\ \A q \in Roles \ {r} : subjects'[q] = subjects[q]
    <3>1. CASE c \notin subjectsSeen[r]
      BY <1>0, <1>2, <3>1 DEF UnbindClusterRole, roleVars
    <3>2. CASE c \in subjectsSeen[r]
      <4>1. subjects' = [subjects EXCEPT ![r] = subjectsSeen[r] \ {c}]
        BY <1>0, <1>2, <3>2 DEF UnbindClusterRole, UpdateRole, StoreSubjects
      <4>2. QED
        BY <4>1 DEF TypeOK
    <3>3. QED
      BY <3>1, <3>2
  <2>4. QED
    BY <1>0, <2>1, <2>2, <2>3 DEF UnboundInv
<1>3. QED
  BY <1>1, <1>2

\* Steps after which the clean-up is not under way.
LEMMA NotCleaningUp ==
    ASSUME NEW c \in Clusters, UnboundInv(c), UNCHANGED subjects,
           rec'[c].pc \notin Finalizing,
           cluster'[c] = cluster[c] \/ cluster'[c].life # "gone"
    PROVE  UnboundInv(c)'
BY DEF UnboundInv, Finalizing

LEMMA UserUnbound ==
    ASSUME TypeOK, NEW c \in Clusters, ClusterInv(c), UnboundInv(c), Users(c)
    PROVE  UnboundInv(c)'
<1>0. rec[c] \in Reconciles /\ UNCHANGED subjects /\ cluster[c] \in Objects
  BY DEF TypeOK, Users, CreateCluster, EditSpec, DeleteCluster, LabelNamespace, UserWrites, roleVars
<1>1. rec'[c].pc = rec[c].pc /\ rec'[c].err = rec[c].err /\ rec'[c].todo = rec[c].todo
  <2>1. rec'[c] = rec[c] \/ rec'[c] = [rec[c] EXCEPT !.fresh = FALSE]
    BY DEF TypeOK, Users, CreateCluster, EditSpec, DeleteCluster, LabelNamespace, UserWrites
  <2>2. QED
    BY <1>0, <2>1 DEF Reconciles
<1>2. cluster'[c].life = "gone" => \A r \in Roles : c \notin subjects'[r]
  <2>1. CASE CreateCluster(c)
    <3>1. PICK spec \in Created :
             UserWrites(c, [Absent EXCEPT !.life = "live", !.valid = spec # "invalid",
                                          !.expose = spec = "exposed"])
      BY <2>1 DEF CreateCluster
    <3>2. cluster'[c] = [Absent EXCEPT !.life = "live", !.valid = spec # "invalid",
                                       !.expose = spec = "exposed"]
      BY <3>1 DEF UserWrites, TypeOK
    <3>3. QED
      BY <3>2 DEF Absent
  <2>2. CASE EditSpec(c)
    BY <1>0, <2>2 DEF EditSpec, UserWrites, TypeOK, Objects
  <2>3. CASE DeleteCluster(c)
    <3>1. CASE cluster[c].finalizer
      BY <1>0, <2>3, <3>1 DEF DeleteCluster, UserWrites, TypeOK, Objects
    <3>2. CASE ~cluster[c].finalizer
      BY <1>0, <2>3, <3>2 DEF DeleteCluster, ClusterInv, BindingInv
    <3>3. QED
      BY <3>1, <3>2
  <2>4. CASE LabelNamespace(c)
    BY <1>0, <2>4 DEF LabelNamespace, objVars, UnboundInv
  <2>5. QED
    BY <2>1, <2>2, <2>3, <2>4 DEF Users
<1>3. QED
  BY <1>0, <1>1, <1>2 DEF UnboundInv

LEMMA UnboundStep ==
    ASSUME TypeOK, RolesInv, "roles" \notin Lagging, NEW c \in Clusters, ClusterInv(c),
           UnboundInv(c), OwnStep(c)
    PROVE  UnboundInv(c)'
<1>0. rec[c] \in Reconciles /\ Idle.pc \notin Finalizing
  BY DEF TypeOK, Idle, Finalizing
<1>1. CASE Users(c)
  BY <1>1, UserUnbound
<1>2. CASE Host(c) \/ SyncCluster(c) \/ OtherSync(c)
  <2>1. UNCHANGED <<cluster, rec, subjects>>
    BY <1>2 DEF Host, AssignAddress, ServerComesUp, AgentRenewsLease, CollectGarbage, SyncCluster,
                OtherSync, SyncToken, SyncNetworkPolicy, Resync, objVars, roleVars
  <2>2. QED
    BY <2>1 DEF UnboundInv
<1>3. CASE StartReconcile(c)
  <2>1. UNCHANGED <<cluster, subjects>> /\ cached[c] \in Objects
    BY <1>3 DEF StartReconcile, objVars, roleVars, TypeOK
  <2>2. \/ rec'[c] = Idle
        \/ /\ Exists(cached[c])
           /\ rec'[c] = [Idle EXCEPT !.pc = FirstStep(cached[c]), !.orig = cached[c],
                                     !.copy = cached[c], !.fresh = cachedFresh[c], !.todo = Roles]
    BY <1>3 DEF StartReconcile, TypeOK
  <2>3. rec'[c].pc \notin {"lease", "removeFinalizer"} /\ (rec'[c].pc = "unbind" => rec'[c].todo = Roles)
    <3>1. CASE rec'[c] = Idle
      BY <3>1 DEF Idle
    <3>2. CASE Exists(cached[c]) /\ rec'[c] # Idle
      <4>1. rec'[c].pc = FirstStep(cached[c]) /\ rec'[c].todo = Roles
        BY <2>2, <3>2, ConstantsTyped DEF Reconciles
      <4>2. FirstStep(cached[c]) \notin {"lease", "removeFinalizer"}
        BY <2>1, <3>2 DEF FirstStep, Exists, Objects
      <4>3. QED
        BY <4>1, <4>2
    <3>3. QED
      BY <2>2, <3>1, <3>2
  <2>4. QED
    BY <2>1, <2>3 DEF UnboundInv
<1>4. CASE CallFails(c)
  <2>1. UNCHANGED subjects /\ cluster'[c] = cluster[c]
    BY <1>4 DEF CallFails, objVars, roleVars
  <2>2. \/ rec'[c].pc \notin Finalizing
        \/ rec'[c].pc = "unbind" /\ rec'[c].err = "other"
    BY <1>0, <1>4, CallFailsEffect DEF Returns, Finalizing
  <2>3. QED
    BY <2>1, <2>2, NotCleaningUp DEF UnboundInv
<1>5. CASE InitPhase(c) \/ AddFinalizer(c) \/ UpdateLabels(c) \/ UpdateStatus(c)
  <2>1. UNCHANGED subjects
    BY <1>5 DEF InitPhase, AddFinalizer, UpdateLabels, UpdateStatus, UpdateAndReturn, roleVars
  <2>2. QED
    BY <1>5, <2>1, LiveWrites, NotCleaningUp DEF Finalizing
<1>6. CASE DeployStep(c)
  <2>1. UNCHANGED subjects /\ cluster'[c] = cluster[c] /\ rec'[c].pc \notin Finalizing
    BY <1>6, DeployGoesOn, StepChain DEF GoesOn, roleVars, Finalizing
  <2>2. QED
    BY <2>1, NotCleaningUp
<1>7. CASE UnbindDone(c) \/ DeleteLease(c)
  <2>1. UNCHANGED subjects /\ cluster'[c] = cluster[c]
    BY <1>7 DEF UnbindDone, DeleteLease, objVars, roleVars
  <2>2. CASE Returns(c)
    BY <1>0, <2>1, <2>2, NotCleaningUp DEF Returns
  <2>3. CASE rec'[c].pc \in {"lease", "removeFinalizer"} /\ ~Returns(c)
    <3>1. \A r \in Roles : c \notin subjects[r]
      <4>1. CASE UnbindDone(c)
        <5>1. rec[c].pc = "unbind" /\ rec[c].err = "none" /\ rec[c].todo = {}
          BY <2>3, <4>1, ReturnReturns DEF UnbindDone
        <5>2. QED
          BY <5>1 DEF UnboundInv
      <4>2. CASE DeleteLease(c)
        BY <4>2 DEF DeleteLease, UnboundInv
      <4>3. QED
        BY <1>7, <4>1, <4>2
    <3>2. QED
      BY <2>1, <2>3, <3>1 DEF UnboundInv
  <2>4. QED
    BY <1>7, <2>2, <2>3, CleanUpGoesOn
<1>8. CASE RemoveFinalizer(c)
  <2>1. rec'[c] = Idle /\ UNCHANGED subjects /\ \A r \in Roles : c \notin subjects[r]
    BY <1>8 DEF RemoveFinalizer, UpdateAndReturn, Return, TypeOK, roleVars, UnboundInv
  <2>2. QED
    BY <1>0, <2>1 DEF UnboundInv, Finalizing
<1>9. ASSUME NEW r \in Roles, BindClusterRole(c, r) \/ UnbindClusterRole(c, r)
      PROVE  UnboundInv(c)'
  BY <1>9, UnbindStep
<1>10. QED
  BY <1>1, <1>2, <1>3, <1>4, <1>5, <1>6, <1>7, <1>8, <1>9 DEF OwnStep, ReconcileStep, DeployStep

\* finalizeCluster removes the finalizer only after the role bindings no longer
\* name the cluster. It needs a cache that has seen the cluster's own binding: the
\* hypothesis is that the informer of the role bindings is not behind.
THEOREM GoneUnbound ==
    ASSUME "roles" \notin Lagging
    PROVE  Spec => []GoneIsUnbound
<1> DEFINE UInv == IInv /\ \A c \in Clusters : UnboundInv(c)
<1>1. Init => UInv
  <2> SUFFICES ASSUME Init PROVE UInv
    OBVIOUS
  <2>1. Absent.life = "absent" /\ Idle.pc = "idle"
    BY DEF Absent, Idle
  <2>2. QED
    BY <2>1, InitInv DEF Init, UnboundInv
<1>2. UInv /\ [Next]_vars => UInv'
  <2> SUFFICES ASSUME UInv, [Next]_vars PROVE UInv'
    OBVIOUS
  <2>1. IInv' /\ TypeOK /\ RolesInv
    BY NextInv DEF IInv
  <2>2. ASSUME NEW c \in Clusters, OwnStep(c), NEW d \in Clusters PROVE UnboundInv(d)'
    <3>1. CASE c = d
      BY <2>1, <2>2, <3>1, UnboundStep DEF IInv
    <3>2. CASE c # d
      <4>1. Same(d)
        BY <2>1, <2>2, <3>2, OthersSame DEF OwnStep
      <4>2. QED
        BY <4>1 DEF Same, UnboundInv
    <3>3. QED
      BY <3>1, <3>2
  <2>3. ~\E r \in Roles : SyncSubjects(r)
    BY <2>1 DEF SyncSubjects, RolesInv
  <2>4. CASE Restart
    <3>1. ASSUME NEW d \in Clusters PROVE UnboundInv(d)'
      BY <2>4 DEF Restart, UnboundInv, Idle
    <3>2. QED
      BY <2>1, <3>1
  <2>5. CASE UpgradeHost \/ UNCHANGED vars
    <3>1. UNCHANGED <<cluster, rec, subjects>>
      BY <2>5 DEF UpgradeHost, vars, objVars, roleVars
    <3>2. QED
      BY <2>1, <3>1 DEF UnboundInv
  <2>6. QED
    BY <2>1, <2>2, <2>3, <2>4, <2>5 DEF Next, OwnStep, OtherSync
<1>3. UInv => GoneIsUnbound
  BY DEF UnboundInv, GoneIsUnbound
<1> HIDE DEF UInv
<1>4. QED
  BY <1>1, <1>2, <1>3, PTL DEF Spec

-----------------------------------------------------------------------------
(* With a cache of the token secret that does not lag.                      *)

\* What ProgressInv speaks of is there as it was.
Kept(c) ==
    /\ infra'[c].token = infra[c].token /\ infra'[c].tokenSeen = infra[c].tokenSeen
    /\ infra'[c].serverToken = infra[c].serverToken
    /\ infra'[c].servers = infra[c].servers /\ infra'[c].agent = infra[c].agent
    /\ \A r \in Roles : c \in subjects[r] => c \in subjects'[r]

\* The reconcile is not, or no longer, on its way to Ready.
LEMMA ProgressEnds ==
    ASSUME NEW c \in Clusters, ProgressInv(c), Kept(c),
           \/ rec'[c].pc \notin DOMAIN NextStep \cup {"status"}
           \/ rec'[c].pc = "status" /\ rec'[c].err # "none",
           cluster'[c].phase = "Ready" /\ cluster'[c].life = "live" =>
               cluster'[c].finalizer /\ Provisioned(c)
    PROVE  ProgressInv(c)'
<1>1. rec'[c].pc \notin BeforeToken \cup {"tokenSave"} \cup BeforeConfig \cup BeforeBind \cup AfterBind
      /\ rec'[c].pc # "bind" /\ (rec'[c].pc = "status" => rec'[c].err # "none")
  BY StepChain DEF BeforeToken, BeforeConfig, BeforeBind, AfterBind
<1>2. Provisioned(c) => Provisioned(c)'
  BY DEF Provisioned, Kept
<1>3. QED
  BY <1>1, <1>2 DEF ProgressInv, Kept, BeforeToken, BeforeConfig, BeforeBind, AfterBind

\* The reconcile stands where it stood.
LEMMA ProgressStays ==
    ASSUME NEW c \in Clusters, ProgressInv(c), Kept(c),
           rec'[c].pc = rec[c].pc, rec'[c].err = rec[c].err, rec'[c].todo = rec[c].todo,
           rec'[c].token = rec[c].token,
           cluster'[c].phase = "Ready" /\ cluster'[c].life = "live" =>
               cluster'[c].finalizer /\ Provisioned(c)
    PROVE  ProgressInv(c)'
<1>1. Provisioned(c) => Provisioned(c)'
  BY DEF Provisioned, Kept
<1>2. QED
  BY <1>1 DEF ProgressInv, Kept

LEMMA UserProgress ==
    ASSUME TypeOK, NEW c \in Clusters, ClusterInv(c), ProgressInv(c), Users(c)
    PROVE  ProgressInv(c)'
<1>0. rec[c] \in Reconciles /\ cluster[c] \in Objects /\ Kept(c)
  BY DEF TypeOK, Users, CreateCluster, EditSpec, DeleteCluster, LabelNamespace, UserWrites,
         roleVars, Kept
<1>1. /\ rec'[c].pc = rec[c].pc /\ rec'[c].err = rec[c].err /\ rec'[c].todo = rec[c].todo
      /\ rec'[c].token = rec[c].token
  <2>1. rec'[c] = rec[c] \/ rec'[c] = [rec[c] EXCEPT !.fresh = FALSE]
    BY DEF TypeOK, Users, CreateCluster, EditSpec, DeleteCluster, LabelNamespace, UserWrites
  <2>2. QED
    BY <1>0, <2>1 DEF Reconciles
<1>2. cluster'[c].phase = "Ready" /\ cluster'[c].life = "live" =>
          cluster'[c].finalizer /\ Provisioned(c)
  <2>1. CASE CreateCluster(c)
    <3>1. PICK spec \in Created :
             UserWrites(c, [Absent EXCEPT !.life = "live", !.valid = spec # "invalid",
                                          !.expose = spec = "exposed"])
      BY <2>1 DEF CreateCluster
    <3>2. cluster'[c] = [Absent EXCEPT !.life = "live", !.valid = spec # "invalid",
                                       !.expose = spec = "exposed"]
      BY <3>1 DEF UserWrites, TypeOK
    <3>3. QED
      BY <3>2 DEF Absent
  <2>2. CASE EditSpec(c)
    <3>1. cluster'[c] = [cluster[c] EXCEPT !.valid = ~cluster[c].valid]
      BY <2>2 DEF EditSpec, UserWrites, TypeOK
    <3>2. /\ cluster'[c].phase = cluster[c].phase /\ cluster'[c].life = cluster[c].life
          /\ cluster'[c].finalizer = cluster[c].finalizer
      BY <1>0, <3>1 DEF Objects
    <3>3. QED
      BY <3>2 DEF ProgressInv
  <2>3. CASE DeleteCluster(c)
    <3>1. cluster'[c] = [cluster[c] EXCEPT !.life = "deleting"] \/ cluster'[c] = Gone
      BY <2>3 DEF DeleteCluster, UserWrites, TypeOK
    <3>2. cluster'[c].life # "live"
      BY <1>0, <3>1 DEF Gone, Absent, Objects
    <3>3. QED
      BY <3>2
  <2>4. CASE LabelNamespace(c)
    BY <2>4 DEF LabelNamespace, objVars, ProgressInv
  <2>5. QED
    BY <2>1, <2>2, <2>3, <2>4 DEF Users
<1>3. QED
  BY <1>0, <1>1, <1>2, ProgressStays

LEMMA HostProgress ==
    ASSUME TypeOK, NEW c \in Clusters, ClusterInv(c), ProgressInv(c),
           Host(c) \/ OtherSync(c) \/ SyncCluster(c)
    PROVE  ProgressInv(c)'
<1>0. UNCHANGED <<cluster, rec, subjects>> /\ infra[c] \in Infra
  BY DEF Host, AssignAddress, ServerComesUp, AgentRenewsLease, CollectGarbage, OtherSync, SyncToken,
         SyncNetworkPolicy, Resync, SyncCluster, TypeOK, objVars, roleVars
<1>1. ~SyncToken(c)
  BY DEF SyncToken, ProgressInv
<1>2. CASE CollectGarbage(c)
  <2>1. cluster'[c].life = "gone"
    BY <1>0, <1>2 DEF CollectGarbage
  <2>2. rec'[c].pc \notin DOMAIN NextStep \cup {"status"}
    BY <1>0, <2>1, Covered, StepChain DEF Provisioning, Finalizing, Exists
  <2>3. infra'[c].token = None /\ infra'[c].tokenSeen = None
    BY <1>2 DEF CollectGarbage, NoInfra, TypeOK
  <2>4. rec'[c].pc \notin BeforeToken \cup {"tokenSave"} \cup BeforeConfig \cup BeforeBind \cup AfterBind
        /\ rec'[c].pc # "bind" /\ rec'[c].pc # "status"
    BY <2>2, StepChain DEF BeforeToken, BeforeConfig, BeforeBind, AfterBind
  <2>5. QED
    BY <2>1, <2>3, <2>4 DEF ProgressInv, BeforeToken, BeforeConfig, BeforeBind, AfterBind
<1>3. CASE \/ AssignAddress(c) \/ ServerComesUp(c) \/ AgentRenewsLease(c) \/ SyncCluster(c)
           \/ SyncNetworkPolicy(c) \/ Resync(c)
  <2>1. Kept(c)
    BY <1>0, <1>3 DEF AssignAddress, ServerComesUp, AgentRenewsLease, SyncCluster,
                      SyncNetworkPolicy, Resync, TypeOK, Infra, Kept
  <2>2. QED
    BY <1>0, <2>1, ProgressStays DEF ProgressInv
<1>4. QED
  BY <1>1, <1>2, <1>3 DEF Host, OtherSync

LEMMA StartProgress ==
    ASSUME TypeOK, NEW c \in Clusters, ProgressInv(c), StartReconcile(c)
    PROVE  ProgressInv(c)'
<1>0. UNCHANGED <<cluster, infra, subjects>> /\ cached[c] \in Objects
  BY DEF StartReconcile, objVars, roleVars, TypeOK
<1>1. Kept(c)
  BY <1>0 DEF Kept
<1>2. CASE rec'[c] = Idle
  BY <1>0, <1>1, <1>2, ProgressEnds, StepChain DEF Idle, ProgressInv
<1>3. CASE Exists(cached[c]) /\ rec'[c] # Idle
  <2>1. rec'[c] = [Idle EXCEPT !.pc = FirstStep(cached[c]), !.orig = cached[c],
                               !.copy = cached[c], !.fresh = cachedFresh[c], !.todo = Roles]
    BY <1>3 DEF StartReconcile, TypeOK
  <2>2. rec'[c].pc = FirstStep(cached[c]) /\ rec'[c].todo = Roles /\ rec'[c].err = "none"
    BY <2>1 DEF Idle
  <2>3. FirstStep(cached[c]) \in {"unbind", "initPhase", "addFinalizer", "policy"}
    BY <1>0, <1>3 DEF FirstStep, Exists, Objects
  <2>4. CASE rec'[c].pc = "policy"
    <3>1. Provisioned(c) => Provisioned(c)'
      BY <1>1 DEF Provisioned, Kept
    <3>2. QED
      BY <1>0, <2>2, <2>4, <3>1
         DEF ProgressInv, BeforeToken, BeforeConfig, BeforeBind, AfterBind
  <2>5. CASE rec'[c].pc # "policy"
    BY <1>0, <1>1, <2>2, <2>3, <2>5, ProgressEnds, StepChain DEF ProgressInv
  <2>6. QED
    BY <2>4, <2>5
<1>4. QED
  BY <1>2, <1>3 DEF StartReconcile, TypeOK

\* The phase Ready is written only by a reconcile that has done all its steps.
LEMMA WritesProgress ==
    ASSUME TypeOK, NEW c \in Clusters, ClusterInv(c), ProgressInv(c),
           \/ InitPhase(c) \/ AddFinalizer(c) \/ UpdateLabels(c) \/ UpdateStatus(c)
           \/ RemoveFinalizer(c)
    PROVE  ProgressInv(c)'
<1>0. /\ rec[c] \in Reconciles /\ rec[c].copy \in Objects /\ Idle.pc = "idle" /\ Kept(c)
      /\ rec[c].err \in Errors
  BY DEF TypeOK, Reconciles, Idle, Kept, InitPhase, AddFinalizer, UpdateLabels, UpdateStatus,
         RemoveFinalizer, UpdateAndReturn, roleVars
<1>1. rec'[c].pc \notin DOMAIN NextStep \cup {"status"}
  <2>1. CASE RemoveFinalizer(c)
    BY <1>0, <2>1, StepChain DEF RemoveFinalizer, UpdateAndReturn, Return, TypeOK
  <2>2. QED
    BY <2>1, LiveWrites, StepChain
<1>2. cluster'[c].phase = "Ready" /\ cluster'[c].life = "live" =>
          cluster'[c].finalizer /\ Provisioned(c)
  <2>1. CASE cluster'[c] = cluster[c]
    BY <2>1 DEF ProgressInv
  <2>2. CASE RemoveFinalizer(c) /\ cluster'[c] # cluster[c]
    BY <2>2 DEF RemoveFinalizer, UpdateAndReturn, StoreCluster, TypeOK, Gone, Absent, objVars
  <2>3. CASE (InitPhase(c) \/ AddFinalizer(c)) /\ cluster'[c] # cluster[c]
    <3>1. cluster[c] = rec[c].copy
      BY <2>3 DEF InitPhase, AddFinalizer, UpdateAndReturn, objVars, ClusterInv, RunInv
    <3>2. \/ cluster'[c] = [rec[c].copy EXCEPT !.phase = "Provisioning"]
          \/ cluster'[c] = [rec[c].copy EXCEPT !.finalizer = TRUE]
      BY <2>3 DEF InitPhase, AddFinalizer, UpdateAndReturn, StoreCluster, objVars, TypeOK
    <3>3. \/ cluster'[c].phase = "Provisioning"
          \/ /\ cluster'[c].phase = cluster[c].phase /\ cluster'[c].life = cluster[c].life
             /\ cluster'[c].finalizer
      BY <1>0, <3>1, <3>2 DEF Objects
    <3>4. QED
      BY <3>3 DEF ProgressInv
  <2>4. CASE UpdateLabels(c) /\ cluster'[c] # cluster[c]
    <3>1. rec[c].fresh /\ cluster'[c] = rec[c].copy /\ rec[c].pc = "update"
      BY <2>4 DEF UpdateLabels, UpdateAndReturn, StoreCluster, objVars, TypeOK
    <3>2. /\ cluster'[c].phase = cluster[c].phase /\ cluster'[c].life = cluster[c].life
          /\ cluster'[c].finalizer = cluster[c].finalizer
      BY <3>1 DEF ClusterInv, RunInv, Status
    <3>3. QED
      BY <3>2 DEF ProgressInv
  <2>5. CASE UpdateStatus(c) /\ cluster'[c] # cluster[c]
    <3>1. PICK new, stored \in Objects : StatusEffect(c, new, stored)
      BY <2>5, UpdateStatusEffect
    <3>2. cluster'[c] = stored /\ rec[c].pc = "status"
      BY <2>5, <3>1 DEF StatusEffect, objVars, UpdateStatus
    <3>3. new.phase = PhaseOf(rec[c].err) /\ new.finalizer = rec[c].copy.finalizer
      BY <1>0, <3>1 DEF StatusEffect, Objects
    <3>4. stored.phase = new.phase /\ stored.finalizer = new.finalizer
      BY <3>1 DEF StatusEffect, Objects
    <3>5. PhaseOf(rec[c].err) = "Ready" => rec[c].err = "none"
      BY <1>0 DEF PhaseOf, Errors
    <3>6. rec[c].copy.finalizer
      BY <3>2 DEF ClusterInv, RunInv, Provisioning
    <3>7. QED
      BY <3>2, <3>3, <3>4, <3>5, <3>6 DEF ProgressInv
  <2>6. QED
    BY <2>1, <2>2, <2>3, <2>4, <2>5
<1>3. QED
  BY <1>0, <1>1, <1>2, ProgressEnds

\* The token, once there, is in the cache too, and every reconcile uses it.
LEMMA TokenProgress ==
    ASSUME TypeOK, "token" \notin Lagging, NEW c \in Clusters, ProgressInv(c),
           ReconcilePolicy(c) \/ ReadToken(c) \/ SaveToken(c)
    PROVE  ProgressInv(c)'
<1> USE DEF BeforeToken, BeforeConfig, BeforeBind, AfterBind
<1>0. /\ rec[c] \in Reconciles /\ infra[c] \in Infra /\ cluster'[c] = cluster[c]
      /\ UNCHANGED subjects
  BY DEF TypeOK, ReconcilePolicy, ReadToken, SaveToken, objVars, roleVars
<1>1. CASE ReconcilePolicy(c)
  <2>1. infra' = infra /\ Kept(c) /\ rec[c].pc = "policy"
    BY <1>0, <1>1 DEF ReconcilePolicy, Kept
  <2>2. CASE rec'[c].pc = "token" /\ rec'[c].err = rec[c].err
    BY <1>0, <1>1, <2>1, <2>2, PolicyGoesOn DEF ProgressInv, Provisioned
  <2>3. CASE rec'[c].pc = "status" /\ rec'[c].err = "validation"
    BY <1>0, <2>1, <2>3, ProgressEnds DEF ProgressInv
  <2>4. QED
    BY <1>1, <2>2, <2>3, PolicyGoesOn
<1>2. CASE ReadToken(c)
  <2>1. infra' = infra /\ rec[c].pc = "token"
    BY <1>2 DEF ReadToken
  <2>2. rec'[c].token # None
    BY <1>2, ReadTokenGoesOn, LifecycleAssumption
  <2>3. QED
    BY <1>0, <1>2, <2>1, <2>2, ReadTokenGoesOn DEF ProgressInv, Provisioned
<1>3. CASE SaveToken(c)
  <2>1. rec[c].pc = "tokenSave" /\ infra[c].token = None /\ infra[c].tokenSeen = None
    BY <1>3 DEF SaveToken, ProgressInv
  <2>2. /\ Advance(c) /\ UNCHANGED objVars
        /\ infra'[c] = [infra[c] EXCEPT !.token = rec[c].token, !.tokenSeen = rec[c].token]
    BY <1>3, <2>1 DEF SaveToken, TypeOK
  <2>3. infra'[c].token = rec[c].token /\ infra'[c].tokenSeen = rec[c].token
    BY <1>0, <2>2 DEF Infra
  <2>4. /\ rec'[c].pc = "netpol" /\ rec'[c].todo = rec[c].todo /\ rec'[c].err = rec[c].err
        /\ rec'[c].token = rec[c].token
    BY <2>1, <2>2, AdvanceGoesOn, StepChain
  <2>5. ~(cluster'[c].phase = "Ready" /\ cluster'[c].life = "live")
    BY <1>0, <2>1 DEF ProgressInv, Provisioned
  <2>6. QED
    BY <2>1, <2>3, <2>4, <2>5 DEF ProgressInv
<1>4. QED
  BY <1>1, <1>2, <1>3

LEMMA DeployProgress ==
    ASSUME TypeOK, NEW c \in Clusters, ProgressInv(c),
           \/ EnsureNetworkPolicy(c) \/ EnsureClusterService(c) \/ EnsureClusterConfigs(c)
           \/ EnsureServer(c) \/ EnsureAgent(c)
    PROVE  ProgressInv(c)'
<1> USE DEF BeforeToken, BeforeConfig, BeforeBind, AfterBind
<1>0. /\ rec[c] \in Reconciles /\ infra[c] \in Infra /\ cluster'[c] = cluster[c]
      /\ UNCHANGED subjects /\ UNCHANGED objVars
  BY DEF TypeOK, EnsureNetworkPolicy, EnsureClusterService, EnsureClusterConfigs, EnsureServer,
         EnsureAgent, objVars, roleVars
<1>1. CASE EnsureNetworkPolicy(c) \/ EnsureClusterService(c)
  <2>1. Kept(c)
    BY <1>0, <1>1 DEF EnsureNetworkPolicy, EnsureClusterService, TypeOK, Infra, Kept
  <2>2. CASE Advance(c)
    <3>1. /\ rec[c].pc \in {"netpol", "service"} /\ rec'[c].pc \in {"service", "configs"}
          /\ rec'[c].todo = rec[c].todo /\ rec'[c].err = rec[c].err /\ rec'[c].token = rec[c].token
      BY <1>0, <1>1, <2>2, AdvanceGoesOn, StepChain DEF EnsureNetworkPolicy, EnsureClusterService
    <3>2. QED
      BY <1>0, <2>1, <3>1 DEF ProgressInv, Kept, Provisioned
  <2>3. CASE \/ Fail(c, "notReady") /\ rec[c].pc = "service"
             \/ Fail(c, "other") /\ rec[c].pc = "netpol"
    <3>1. rec'[c].pc = "status" /\ rec'[c].err \in {"notReady", "other"}
      BY <1>0, <2>3, FailGoesOn, StepChain
    <3>2. QED
      BY <1>0, <2>1, <3>1, ProgressEnds DEF ProgressInv
  <2>4. QED
    BY <1>1, <2>2, <2>3 DEF EnsureNetworkPolicy, EnsureClusterService
<1>2. CASE EnsureClusterConfigs(c)
  <2>1. /\ infra'[c].token = infra[c].token /\ infra'[c].tokenSeen = infra[c].tokenSeen
        /\ infra'[c].serverToken = rec[c].token
        /\ infra'[c].servers = infra[c].servers /\ infra'[c].agent = infra[c].agent
    BY <1>0, <1>2 DEF EnsureClusterConfigs, TypeOK, Infra
  <2>2. /\ rec[c].pc = "configs" /\ rec'[c].pc = "server"
        /\ rec'[c].todo = rec[c].todo /\ rec'[c].err = rec[c].err
    BY <1>0, <1>2, AdvanceGoesOn, StepChain DEF EnsureClusterConfigs
  <2>3. QED
    BY <1>0, <2>1, <2>2 DEF ProgressInv, Provisioned
<1>3. CASE EnsureServer(c) \/ EnsureAgent(c)
  <2>1. /\ infra'[c].token = infra[c].token /\ infra'[c].tokenSeen = infra[c].tokenSeen
        /\ infra'[c].serverToken = infra[c].serverToken
        /\ infra[c].servers => infra'[c].servers
        /\ infra[c].agent => infra'[c].agent
        /\ EnsureServer(c) => infra'[c].servers
        /\ EnsureAgent(c) => infra'[c].agent
    BY <1>0, <1>3 DEF EnsureServer, EnsureAgent, TypeOK, Infra
  <2>2. /\ Advance(c)
        /\ \/ EnsureServer(c) /\ rec[c].pc = "server"
           \/ EnsureAgent(c) /\ rec[c].pc = "agent"
    BY <1>3 DEF EnsureServer, EnsureAgent
  <2>3. /\ rec'[c].pc = NextStep[rec[c].pc]
        /\ rec'[c].todo = rec[c].todo /\ rec'[c].err = rec[c].err
    BY <1>0, <2>2, AdvanceGoesOn, StepChain
  <2>4. \/ EnsureServer(c) /\ rec[c].pc = "server" /\ rec'[c].pc = "agent"
        \/ EnsureAgent(c) /\ rec[c].pc = "agent" /\ rec'[c].pc = "ingress"
    BY <2>2, <2>3, StepChain
  <2>5. QED
    BY <1>0, <2>1, <2>3, <2>4 DEF ProgressInv, Provisioned
<1>4. QED
  BY <1>1, <1>2, <1>3

LEMMA WaitProgress ==
    ASSUME TypeOK, NEW c \in Clusters, ProgressInv(c),
           \/ EnsureIngress(c) \/ EnsureBootstrap(c) \/ BindDone(c)
           \/ EnsureKubeconfigSecret(c) \/ EnsureVirtual(c)
    PROVE  ProgressInv(c)'
<1> USE DEF BeforeToken, BeforeConfig, BeforeBind, AfterBind
<1>0. /\ cluster'[c] = cluster[c] /\ infra' = infra /\ UNCHANGED subjects /\ UNCHANGED objVars
      /\ Kept(c) /\ (Provisioned(c) => Provisioned(c)')
      /\ rec[c].pc \in {"ingress", "bootstrap", "bind", "kubeconfig", "virtual"}
  BY DEF EnsureIngress, EnsureBootstrap, BindDone, EnsureKubeconfigSecret, EnsureVirtual, objVars,
         roleVars, Kept, Provisioned
<1>1. rec[c].pc \in DOMAIN NextStep
  BY <1>0, StepChain
<1>2. CASE Advance(c) /\ (rec[c].pc = "bind" => rec[c].todo = {} /\ rec[c].err = "none")
  <2>1. /\ rec'[c].pc = NextStep[rec[c].pc]
        /\ rec'[c].todo = rec[c].todo /\ rec'[c].err = rec[c].err
    BY <1>0, <1>1, <1>2, AdvanceGoesOn
  <2>2. CASE rec[c].pc = "bind"
    <3>1. rec'[c].pc = "kubeconfig" /\ Provisioned(c)
      BY <1>2, <2>1, <2>2, StepChain DEF ProgressInv, Provisioned
    <3>2. QED
      BY <1>0, <1>2, <2>1, <2>2, <3>1 DEF ProgressInv
  <2>3. CASE rec[c].pc \in {"ingress", "bootstrap"}
    <3>1. rec'[c].pc \in {"bootstrap", "bind"}
      BY <2>1, <2>3, StepChain
    <3>2. QED
      BY <1>0, <2>1, <2>3, <3>1 DEF ProgressInv
  <2>4. CASE rec[c].pc \in {"kubeconfig", "virtual"}
    <3>1. rec'[c].pc \in {"virtual", "status"}
      BY <2>1, <2>4, StepChain
    <3>2. QED
      BY <1>0, <2>1, <2>4, <3>1 DEF ProgressInv
  <2>5. QED
    BY <1>0, <2>2, <2>3, <2>4
<1>3. ASSUME NEW err, Fail(c, err), err # "none" PROVE ProgressInv(c)'
  <2>1. rec'[c].pc = "status" /\ rec'[c].err # "none"
    BY <1>0, <1>1, <1>3, FailGoesOn
  <2>2. QED
    BY <1>0, <2>1, ProgressEnds DEF ProgressInv
<1>4. \/ Advance(c) /\ (rec[c].pc = "bind" => rec[c].todo = {} /\ rec[c].err = "none")
      \/ Fail(c, "notReady")
      \/ Fail(c, rec[c].err) /\ rec[c].err # "none"
  BY DEF EnsureIngress, EnsureBootstrap, BindDone, EnsureKubeconfigSecret, EnsureVirtual
<1>5. QED
  BY <1>2, <1>3, <1>4

\* A role binding that the loop has dealt with names the cluster: it was written,
\* or the cache, late as it may be, showed the name, and only the clean-up of a
\* cluster under deletion takes it out.
LEMMA BindProgress ==
    ASSUME IInv, NEW c \in Clusters, ProgressInv(c), NEW r \in Roles,
           BindClusterRole(c, r) \/ UnbindClusterRole(c, r)
    PROVE  ProgressInv(c)'
<1> USE DEF BeforeToken, BeforeConfig, BeforeBind, AfterBind
<1>0. TypeOK /\ RolesInv /\ ClusterInv(c) /\ UNCHANGED objVars
      /\ GoesOn(c) /\ infra' = infra /\ rec'[c].pc = rec[c].pc /\ cluster'[c] = cluster[c]
  BY RoleStepGoesOn DEF IInv, GoesOn, BindClusterRole, UnbindClusterRole
<1>1. CASE UnbindClusterRole(c, r)
  <2>1. rec[c].pc = "unbind" /\ Ending(cluster[c])
    BY <1>0, <1>1, Covered DEF UnbindClusterRole, Finalizing
  <2>2. QED
    BY <1>0, <2>1 DEF ProgressInv, Ending
<1>2. CASE BindClusterRole(c, r)
  <2>1. rec[c].pc = "bind" /\ rec[c].orig.life = "live"
    BY <1>0, <1>2 DEF BindClusterRole, ClusterInv, RunInv, Finalizing
  <2>2. PICK err \in BOOLEAN :
           /\ RoleDone(c, r, err)
           /\ err \/ c \in subjectsSeen[r] \/ StoreSubjects(r, subjectsSeen[r] \cup {c})
    BY <1>2 DEF BindClusterRole, UpdateRole
  <2>3. rec'[c].todo = rec[c].todo \ {r} /\ rec'[c].err = IF err THEN "other" ELSE rec[c].err
    BY <1>0, <2>1, <2>2, RoleDoneGoesOn
  <2>4. \A q \in Roles : c \in subjects[q] => c \in subjects'[q]
    <3>1. \/ subjects' = subjects
          \/ subjects' = [subjects EXCEPT ![r] = subjectsSeen[r] \cup {c}]
      BY <1>2 DEF BindClusterRole, UpdateRole, StoreSubjects, roleVars
    <3>2. QED
      BY <1>0, <3>1 DEF TypeOK
  <2>5. ~err => c \in subjects'[r]
    <3>1. CASE c \in subjectsSeen[r]
      BY <1>0, <2>1, <2>4, <3>1 DEF ClusterInv, BindingInv
    <3>2. CASE StoreSubjects(r, subjectsSeen[r] \cup {c})
      BY <1>0, <3>2 DEF StoreSubjects, TypeOK
    <3>3. QED
      BY <2>2, <3>1, <3>2
  <2>6. Provisioned(c) => Provisioned(c)'
    BY <1>0, <2>4 DEF Provisioned
  <2>7. rec'[c].err = "none" => \A q \in Roles \ rec'[c].todo : c \in subjects'[q]
    BY <2>1, <2>3, <2>4, <2>5 DEF ProgressInv
  <2>8. QED
    BY <1>0, <2>1, <2>6, <2>7 DEF ProgressInv
<1>3. QED
  BY <1>1, <1>2

LEMMA EndProgress ==
    ASSUME TypeOK, NEW c \in Clusters, ClusterInv(c), ProgressInv(c),
           UnbindDone(c) \/ DeleteLease(c) \/ CallFails(c)
    PROVE  ProgressInv(c)'
<1> USE DEF BeforeToken, BeforeConfig, BeforeBind, AfterBind
<1>0. cluster'[c] = cluster[c] /\ Kept(c) /\ Idle.pc = "idle"
  <2>1. infra[c] \in Infra
    BY DEF TypeOK
  <2>2. CASE UnbindDone(c) \/ CallFails(c)
    BY <2>2 DEF UnbindDone, CallFails, objVars, roleVars, Kept, Idle
  <2>3. CASE DeleteLease(c)
    BY <2>1, <2>3 DEF DeleteLease, objVars, roleVars, Kept, TypeOK, Infra, Idle
  <2>4. QED
    BY <2>2, <2>3
<1>1. \/ rec'[c].pc \notin DOMAIN NextStep \cup {"status"}
      \/ rec'[c].pc = "status" /\ rec'[c].err # "none"
      \/ rec'[c].pc = "bind" /\ rec[c].pc = "bind" /\ rec'[c].err = "other"
  BY <1>0, CleanUpGoesOn, CallFailsEffect, StepChain DEF Returns
<1>2. CASE rec'[c].pc = "bind" /\ rec[c].pc = "bind" /\ rec'[c].err = "other"
  <2>1. Provisioned(c) => Provisioned(c)'
    BY <1>0 DEF Provisioned, Kept
  <2>2. QED
    BY <1>0, <1>2, <2>1 DEF ProgressInv, Kept
<1>3. QED
  BY <1>0, <1>1, <1>2, ProgressEnds DEF ProgressInv

LEMMA ProgressStep ==
    ASSUME IInv, "token" \notin Lagging, NEW c \in Clusters, ProgressInv(c), OwnStep(c)
    PROVE  ProgressInv(c)'
<1>1. TypeOK /\ ClusterInv(c)
  BY DEF IInv
<1>2. CASE Users(c) \/ Host(c) \/ OtherSync(c) \/ SyncCluster(c) \/ StartReconcile(c) \/ CallFails(c)
  BY <1>1, <1>2, UserProgress, HostProgress, StartProgress, EndProgress
<1>3. CASE DeployStep(c)
  BY <1>1, <1>3, TokenProgress, DeployProgress, WaitProgress DEF DeployStep
<1>4. CASE ReconcileStep(c) /\ ~DeployStep(c)
  BY <1>1, <1>4, WritesProgress, EndProgress, BindProgress DEF ReconcileStep, DeployStep
<1>5. QED
  BY <1>2, <1>3, <1>4 DEF OwnStep

\* A Ready cluster is provisioned: Ready is written by a later call than the ones
\* that deploy, and outlives reconciles that fail, restarts and edits; and the
\* token of its servers is the stored one, although a reconcile that finds no
\* secret draws a new token; and at rest their version is the recorded one, because
\* whatever keeps a reconcile from recording the version it deployed makes the
\* controller try again. The hypothesis is that the informer of the secret is
\* not behind; the one of the role bindings may be.
THEOREM ReadyProvisioned ==
    ASSUME "token" \notin Lagging
    PROVE  Spec => []ReadyIsProvisioned
<1> DEFINE PInv == VInv /\ \A c \in Clusters : ProgressInv(c) /\ ImageInv(c)
<1>1. Init => PInv
  <2> SUFFICES ASSUME Init PROVE PInv
    OBVIOUS
  <2>1. ASSUME NEW c \in Clusters PROVE ProgressInv(c)
    <3>1. cluster[c] = Absent /\ rec[c] = Idle /\ infra[c] = NoInfra
      BY DEF Init
    <3>2. Absent.life = "absent" /\ Idle.pc = "idle" /\ NoInfra.token = NoInfra.tokenSeen
      BY DEF Absent, Idle, NoInfra
    <3>3. QED
      BY <3>1, <3>2 DEF ProgressInv, BeforeToken, BeforeConfig, BeforeBind, AfterBind
  <2>2. ASSUME NEW c \in Clusters PROVE ImageInv(c)
    <3>1. cluster[c] = Absent /\ rec[c] = Idle
      BY DEF Init
    <3>2. QED
      BY <3>1 DEF ImageInv, BeforeServer, AfterServer, Absent, Idle
  <2>3. QED
    BY <2>1, <2>2, VersionInvInit
<1>2. PInv /\ [Next]_vars => PInv'
  <2> SUFFICES ASSUME PInv, [Next]_vars PROVE PInv'
    OBVIOUS
  <2>1. VInv' /\ IInv /\ TypeOK /\ RolesInv
    BY VersionInvNext DEF VInv, IInv
  <2>2. ASSUME NEW c \in Clusters, OwnStep(c), NEW d \in Clusters PROVE ProgressInv(d)'
    <3>1. CASE c = d
      BY <2>1, <2>2, <3>1, ProgressStep
    <3>2. CASE c # d
      <4>1. Same(d)
        BY <2>1, <2>2, <3>2, OthersSame DEF OwnStep
      <4>2. Kept(d)
        BY <4>1 DEF Same, Kept
      <4>3. QED
        BY <4>1, <4>2, ProgressStays DEF Same, ProgressInv
    <3>3. QED
      BY <3>1, <3>2
  <2>3. ASSUME (\E r \in Roles : SyncSubjects(r)) \/ UpgradeHost \/ UNCHANGED vars
        PROVE  \A d \in Clusters : ProgressInv(d)'
    <3>1. UNCHANGED <<cluster, rec, infra, subjects>>
      BY <2>3 DEF SyncSubjects, UpgradeHost, vars, objVars, roleVars
    <3>2. ASSUME NEW d \in Clusters PROVE ProgressInv(d)'
      BY <3>1 DEF ProgressInv, Provisioned
    <3>3. QED
      BY <3>2
  <2>4. ASSUME Restart PROVE \A d \in Clusters : ProgressInv(d)'
    <3>1. ASSUME NEW d \in Clusters PROVE ProgressInv(d)'
      <4>1. infra[d] \in Infra /\ infra[d].tokenSeen = infra[d].token
        BY <2>1 DEF TypeOK, ProgressInv
      <4>2. rec'[d].pc = "idle" /\ cluster' = cluster /\ Kept(d)
        BY <2>4, <4>1 DEF Restart, Kept, Idle, Infra
      <4>3. QED
        BY <4>2, ProgressEnds, StepChain DEF ProgressInv
    <3>2. QED
      BY <3>1
  <2>5. \A c \in Clusters : ProgressInv(c)'
    BY <2>2, <2>3, <2>4 DEF Next, OwnStep, OtherSync
  <2>6. \A c \in Clusters : ImageInv(c)'
    BY ImageInvStep, ImageInvOthers DEF Next, OwnStep, OtherSync
  <2>7. QED
    BY <2>1, <2>5, <2>6
<1>3. PInv => ReadyIsProvisioned
  BY DEF ProgressInv, Provisioned, ImageInv, ReadyIsProvisioned
<1> HIDE DEF PInv
<1>4. QED
  BY <1>1, <1>2, <1>3, PTL DEF Spec
=============================================================================
