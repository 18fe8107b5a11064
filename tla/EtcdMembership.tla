-------------------------- MODULE EtcdMembership --------------------------
(***************************************************************************)
(* The StatefulSet controller, pkg/controller/cluster/statefulset.go: a    *)
(* finalizer on every server pod makes sure that a pod leaves the etcd     *)
(* member list of its virtual cluster before it disappears, and the        *)
(* finalizer of the StatefulSet that its pods are released with it.        *)
(*                                                                         *)
(* Reads come from informer caches, and a write succeeds if and only if    *)
(* the copy it is based on is the current version.  A pod is replaced by   *)
(* one of the same name and another address, so the address stands for the *)
(* instance, addresses are not used twice, and a pod never returns to an   *)
(* earlier state: a copy is the current version when it equals the pod.    *)
(* (A conflict with an update of the pod's status is a failed call.)       *)
(*                                                                         *)
(* The event filter of AddStatefulSetController keeps only objects that a  *)
(* Cluster controls.  That drops the events of the pods, which their       *)
(* StatefulSet controls: a reconcile is caused by an event of the          *)
(* StatefulSet, whose status follows its pods, or by the periodic resync.  *)
(***************************************************************************)
EXTENDS Integers, FiniteSets, Functions

CONSTANTS
    Pods,       \* the names of the server pods
    IPs,        \* pod addresses; their number bounds the pods ever created
    None,       \* no address, no pod
    Established, \* the address of each pod that runs and has joined at the start
    Late,       \* what may be late: "stop", a server still joins etcd although its
                \* pod is being deleted; "watch", it joins before the pod is seen
    MaxFaults   \* bound on failed calls, lost replies and controller restarts

ASSUME MembershipAssumption ==
    /\ IsFiniteSet(IPs)
    /\ None \notin Pods \cup IPs
    /\ DOMAIN Established \subseteq Pods
    /\ \A p \in DOMAIN Established : Established[p] \in IPs
    /\ \A p, q \in DOMAIN Established : Established[p] = Established[q] => p = q
    /\ Late \subseteq {"stop", "watch"}
    /\ MaxFaults \in Nat

VARIABLES
    etcd,       \* the cluster uses etcd (ClusterInit), not an external datastore
    pod,        \* the pods in the API server
    seen,       \* ... in the cache
    up,         \* the pods whose k3s server runs
    unused,     \* addresses not given out yet
    members,    \* the etcd member list
    sts,        \* the StatefulSet in the API server
    stsSeen,    \* ... in the cache
    rec,        \* the running reconcile
    faults

podVars == <<pod, seen>>
hostVars == <<etcd, up, unused>>
stsVars == <<sts, stsSeen>>
vars    == <<etcd, pod, seen, up, unused, members, sts, stsSeen,
             rec, faults>>

PodObjects == [life : {"absent", "live", "deleting"}, finalizer : BOOLEAN,
               ip : IPs \cup {None}]
NoPod == [life |-> "absent", finalizer |-> FALSE, ip |-> None]

\* A member is known by its name, which contains the pod's, and its peer URL.
Member(p, object) == [name |-> p, ip |-> object.ip]
Joined(p) == Member(p, pod[p]) \in members

\* etcd answers while a majority of its members runs.
Quorum == 2 * Cardinality({m \in members : m.name \in up /\ pod[m.name].ip = m.ip})
             > Cardinality(members)

\* The running reconcile: the pods it has listed and has to handle, those left,
\* and the one in hand.
Steps == {"idle", "pods", "peer", "release", "drain"}
Reconciles == [pc : Steps, list : [Pods -> PodObjects],
               todo : SUBSET Pods, at : Pods \cup {None}]
Idle == [pc |-> "idle", list |-> [p \in Pods |-> NoPod],
         todo |-> {}, at |-> None]

StsLives == {"live", "deleting", "gone"}

TypeOK ==
    /\ etcd \in BOOLEAN
    /\ pod \in [Pods -> PodObjects]
    /\ seen \in [Pods -> PodObjects]
    /\ up \subseteq Pods
    /\ unused \subseteq IPs
    /\ members \subseteq [name : Pods, ip : IPs]
    /\ sts \in StsLives /\ stsSeen \in StsLives
    /\ rec \in Reconciles
    /\ faults \in Nat

Init ==
    /\ etcd \in BOOLEAN
    /\ pod = [p \in Pods |-> IF p \in DOMAIN Established
                             THEN [life |-> "live", finalizer |-> etcd, ip |-> Established[p]]
                             ELSE NoPod]
    /\ seen = pod
    /\ up = DOMAIN Established
    /\ unused = IPs \ Range(Established)
    /\ members = {m \in [name : Pods, ip : IPs] :
                     etcd /\ m.name \in up /\ m.ip = Established[m.name]}
    /\ sts = "live"
    /\ stsSeen = "live"
    /\ rec = Idle
    /\ faults = 0

-----------------------------------------------------------------------------
(* The host cluster: the StatefulSet and its pods, the k3s servers in them. *)

WritePod(p, object) == pod' = [pod EXCEPT ![p] = object] /\ UNCHANGED seen

\* A pod and its server; one that is deleted before its server has started is
\* like one whose server has not joined. Which address it gets makes no
\* difference, as long as it is a new one.
CreatePod(p) ==
    /\ sts = "live"
    /\ pod[p].life = "absent"
    /\ unused # {}
    /\ LET ip == CHOOSE ip \in unused : TRUE
       IN /\ WritePod(p, [life |-> "live", finalizer |-> FALSE, ip |-> ip])
          /\ unused' = unused \ {ip}
    /\ up' = up \cup {p}
    /\ UNCHANGED <<etcd, members, stsVars, rec, faults>>

\* The server becomes a member; an older one of that name stays in the list, or
\* is the same one with its data kept.
JoinEtcd(p) ==
    /\ etcd
    /\ p \in up /\ ~Joined(p)
    /\ "watch" \in Late \/ seen[p].ip = pod[p].ip
    /\ "stop" \in Late \/ pod[p].life = "live"
    /\ members = {} \/ Quorum
    /\ members' \in {members \cup {Member(p, pod[p])},
                     {m \in members : m.name # p} \cup {Member(p, pod[p])}}
    /\ UNCHANGED <<hostVars, podVars, stsVars, rec, faults>>

\* Scaling down, a rolling update, an eviction, a user.
DeletePod(p) ==
    /\ pod[p].life = "live"
    /\ WritePod(p, [pod[p] EXCEPT !.life = "deleting"])
    /\ UNCHANGED <<hostVars, members, stsVars, rec, faults>>

\* The kubelet stops the server whether or not there are finalizers.
StopServer(p) ==
    /\ p \in up /\ pod[p].life = "deleting"
    /\ up' = up \ {p}
    /\ UNCHANGED <<etcd, unused, podVars, members, stsVars, rec, faults>>

RemovePod(p) ==
    /\ pod[p].life = "deleting" /\ p \notin up /\ ~pod[p].finalizer
    /\ WritePod(p, NoPod)
    /\ UNCHANGED <<hostVars, members, stsVars, rec, faults>>

\* The Cluster has disappeared and its StatefulSet is collected, or someone
\* deletes the StatefulSet.
DeleteSts ==
    /\ sts = "live"
    /\ sts' = "deleting"
    /\ UNCHANGED <<hostVars, podVars, members, stsSeen, rec, faults>>

SyncPod(p) ==
    /\ seen[p] # pod[p]
    /\ seen' = [seen EXCEPT ![p] = pod[p]]
    /\ UNCHANGED <<hostVars, pod, members, stsVars, rec, faults>>

SyncSts ==
    /\ stsSeen # sts
    /\ stsSeen' = sts
    /\ UNCHANGED <<hostVars, podVars, members, sts, rec, faults>>

-----------------------------------------------------------------------------
(* Reconcile.                                                               *)

\* Return, with an error or without: the next reconcile follows after a back-off,
\* an event or the resync.
Return == rec' = Idle

\* Mutant: the pod is removed together with the finalizer.
ReleasedForGood(object) == [object EXCEPT !.finalizer = FALSE, !.life = "gone"]

Released(object) == [object EXCEPT !.finalizer = FALSE]

Listed == {p \in Pods : seen[p].life # "absent"}
SinglePod(p) == Listed = {p} /\ seen[p].life = "deleting"

Start(step, todo) ==
    rec' = [pc |-> step, list |-> [p \in Pods |-> IF p \in todo THEN seen[p] ELSE NoPod],
            todo |-> todo, at |-> None]

\* Mutant: a StatefulSet that is being deleted is handled like any other.
IsDeletingNever == FALSE

\* Reconcile finds the StatefulSet under deletion.
IsDeleting == stsSeen = "deleting"

\* handleDeletion begins with the list of the pods.
StartDeletion ==
    /\ rec.pc = "idle"
    /\ IsDeleting
    /\ Start("drain", {p \in Listed : seen[p].finalizer})
    /\ UNCHANGED <<hostVars, podVars, members, stsVars, faults>>

\* The shortcut for a single pod under deletion, whose member is the last one:
\* it just loses its finalizer.
ReleaseSinglePod ==
    /\ rec.pc = "idle"
    /\ stsSeen # "gone" /\ ~IsDeleting
    /\ \E p \in Pods :
          /\ SinglePod(p)
          /\ seen[p].finalizer /\ seen[p] = pod[p]
          /\ WritePod(p, Released(pod[p]))
    /\ UNCHANGED <<hostVars, members, stsVars, rec, faults>>

\* listPods, then the token of the Cluster (when the Cluster is gone, a call that
\* fails) and the server's configuration, which takes a server that runs and says
\* etcd. handleServerPod does nothing for a live pod that has the finalizer.
StartReconcile ==
    /\ rec.pc = "idle"
    /\ stsSeen # "gone" /\ ~IsDeleting
    /\ ~\E p \in Pods : SinglePod(p)
    /\ up # {} /\ etcd
    /\ Start("pods", {p \in Listed : seen[p].life = "deleting" \/ ~seen[p].finalizer})
    /\ UNCHANGED <<hostVars, podVars, members, stsVars, faults>>

\* On to the next pod; the copy of this one is not used any more.
NextPod(p) ==
    rec' = [rec EXCEPT !.pc = IF rec.pc = "drain" THEN "drain" ELSE "pods", !.todo = @ \ {p},
                       !.at = None, !.list[p] = NoPod]

\* An Update of the pod from the listed copy; then on to the next one.
UpdatePod(p, object) ==
    IF rec.list[p] = pod[p]
    THEN /\ WritePod(p, object)
         /\ NextPod(p)
    ELSE UNCHANGED podVars /\ Return

SkipPod(p) ==
    /\ NextPod(p)
    /\ UNCHANGED podVars

\* Mutant: the pod is released without leaving etcd.
StepForDeletedDirect == "release"

StepForDeleted == "peer"

\* handleServerPod; its branch for a Cluster that is gone is never reached, the
\* token having been read before.
HandleServerPod(p) ==
    /\ rec.pc = "pods"
    /\ p \in rec.todo
    /\ \/ /\ rec.list[p].life = "live"
          /\ UpdatePod(p, [pod[p] EXCEPT !.finalizer = TRUE])
       \/ /\ rec.list[p].life = "deleting"
          /\ rec' = [rec EXCEPT !.pc = StepForDeleted, !.at = p]
          /\ UNCHANGED podVars
    /\ UNCHANGED <<hostVars, members, stsVars, faults>>

\* Mutant: the name alone is compared.
PeersByName(p) == {m \in members : m.name = p}

\* The members whose name and address both match the pod.
Peers(p) == {m \in members : m.name = p /\ m.ip = rec.list[p].ip}

\* Mutant: a member that is not in the list is an error.
RemovePeerFailsIfGone(p) == ~Quorum \/ Peers(p) \in {{}, members}

\* etcd does not answer, or refuses to remove its last member.
RemovePeerFails(p) == ~Quorum \/ (Peers(p) # {} /\ Peers(p) = members)

RemovePeer ==
    /\ rec.pc = "peer"
    /\ IF RemovePeerFails(rec.at)
       THEN Return /\ UNCHANGED members
       ELSE members' = members \ Peers(rec.at) /\ rec' = [rec EXCEPT !.pc = "release"]
    /\ UNCHANGED <<hostVars, podVars, stsVars, faults>>

ReleasePod ==
    /\ rec.pc = "release"
    /\ IF rec.list[rec.at].finalizer
       THEN UpdatePod(rec.at, Released(pod[rec.at]))
       ELSE SkipPod(rec.at)
    /\ UNCHANGED <<hostVars, members, stsVars, faults>>

PodsDone ==
    /\ rec.pc = "pods"
    /\ rec.todo = {}
    /\ Return
    /\ UNCHANGED <<hostVars, podVars, members, stsVars, faults>>

-----------------------------------------------------------------------------
(* handleDeletion.                                                          *)

DrainPod(p) ==
    /\ rec.pc = "drain"
    /\ p \in rec.todo
    /\ UpdatePod(p, Released(pod[p]))
    /\ UNCHANGED <<hostVars, members, stsVars, faults>>

\* A conflict with an update of the StatefulSet's status is a CallFails.
RemoveStsFinalizer ==
    /\ rec.pc = "drain"
    /\ rec.todo = {}
    /\ sts' = "gone"
    /\ Return
    /\ UNCHANGED <<hostVars, podVars, members, stsSeen, faults>>

-----------------------------------------------------------------------------
(* Failures.                                                                *)

Disturb == faults < MaxFaults /\ faults' = faults + 1

CallFails ==
    /\ Disturb
    /\ rec.pc # "idle"
    /\ Return
    /\ UNCHANGED <<hostVars, podVars, members, stsVars>>

\* The member or the finalizer is removed and the reply is lost.
ReplyLost ==
    /\ Disturb
    /\ \/ /\ rec.pc = "peer" /\ ~RemovePeerFails(rec.at)
          /\ members' = members \ Peers(rec.at)
          /\ UNCHANGED podVars
       \/ /\ rec.pc = "release" /\ rec.list[rec.at].finalizer /\ rec.list[rec.at] = pod[rec.at]
          /\ WritePod(rec.at, Released(pod[rec.at]))
          /\ UNCHANGED members
    /\ Return
    /\ UNCHANGED <<hostVars, stsVars>>

Restart ==
    /\ Disturb
    /\ seen' = pod
    /\ stsSeen' = sts
    /\ rec' = Idle
    /\ UNCHANGED <<hostVars, pod, members, sts>>

-----------------------------------------------------------------------------
ReconcileStep ==
    \/ RemovePeer \/ ReleasePod \/ PodsDone \/ RemoveStsFinalizer
    \/ \E p \in Pods : HandleServerPod(p) \/ DrainPod(p)

Host(p) ==
    \/ CreatePod(p) \/ JoinEtcd(p) \/ DeletePod(p) \/ StopServer(p)
    \/ RemovePod(p)

Next ==
    \/ \E p \in Pods : Host(p) \/ SyncPod(p)
    \/ DeleteSts \/ SyncSts
    \/ StartDeletion \/ ReleaseSinglePod \/ StartReconcile \/ ReconcileStep
    \/ CallFails \/ ReplyLost \/ Restart

Spec == Init /\ [][Next]_vars

\* Watches deliver; reconciles are started again and again, if only by the
\* resync, and go on; the kubelet stops and removes deleted pods.
Fairness ==
    /\ WF_vars(StartDeletion) /\ WF_vars(ReleaseSinglePod) /\ WF_vars(StartReconcile)
    /\ WF_vars(ReconcileStep) /\ WF_vars(SyncSts)
    /\ \A p \in Pods : WF_vars(SyncPod(p)) /\ WF_vars(StopServer(p)) /\ WF_vars(RemovePod(p))

FairSpec == Spec /\ Fairness

-----------------------------------------------------------------------------
(* Properties.                                                              *)

\* A member is removed from etcd on behalf of its own pod, under deletion: a
\* pod that runs never loses its membership to a reconcile that still works
\* for a predecessor of the same name ("name and IP address must both match").
RunningMemberStays ==
    [][\A p \in Pods : pod[p].life = "live" /\ Joined(p) => Member(p, pod[p]) \in members']_vars

\* While another member runs, a pod loses its finalizer only after it has left
\* the member list ("we need to remove it from the etcd member list before
\* deletion"), unless the whole StatefulSet is being deleted.
MemberLeavesFirst ==
    [][\A p \in Pods :
          /\ pod[p].finalizer /\ ~pod'[p].finalizer
          /\ sts = "live"
          /\ \E q \in Pods \ {p} : q \in up /\ Joined(q)
          => Member(p, pod[p]) \notin members']_vars

\* As long as etcd has a quorum in the end, a pod under deletion disappears, in
\* spite of conflicts with the kubelet, lost replies and restarts.
PodDeletionCompletes ==
    \A p \in Pods :
        <>[](sts = "live" /\ etcd /\ Quorum)
        => (pod[p].life = "deleting" ~> pod[p].life # "deleting")

\* A StatefulSet under deletion disappears, whether or not a server is left to ask.
StatefulSetDeletionCompletes == sts = "deleting" ~> sts = "gone"

\* "if the stateful set was deleted we have already cleaned up the pods": none
\* of them keeps the finalizer. This does not hold while the watch of the pods
\* is behind; see the README.
PodsCleanedUp == sts = "gone" => \A p \in Pods : ~pod[p].finalizer
=============================================================================
