---------------------------- MODULE VirtualPods ----------------------------
(***************************************************************************)
(* The pods of a shared mode cluster: the provider of the k3k kubelet      *)
(* (k3k-kubelet/provider/provider.go), which runs every virtual pod as a   *)
(* host pod, the service account tokens of the host pods (token.go), and   *)
(* the k3k controller that deletes a virtual pod when its host pod is      *)
(* deleted (pkg/controller/cluster/pod.go).                                *)
(*                                                                         *)
(* The host pod's name, and the name of its token secret, are computed     *)
(* from the name of the virtual pod, so that the state of one pod name is  *)
(* disjoint from the state of another.  One name is modelled, under which  *)
(* pods are created one after the other: what is hard here is that the     *)
(* code finds the host pod, the secret and the virtual pod by name.        *)
(*                                                                         *)
(* The provider is called by the virtual-kubelet library, which is outside *)
(* the repository: it handles one call for a name at a time.               *)
(***************************************************************************)
EXTENDS Naturals

CONSTANTS
    PodTraits,      \* what pods are like, a set of subsets of {"token", "scheduler"}:
                    \* they mount a token, they ask for a scheduler of the host
    Worlds,         \* what may happen besides, a set of subsets of
                    \*   "early": a pod is created while a host pod of its name is left,
                    \*   "force": a virtual pod is removed without waiting for the kubelet,
                    \*   "evict": a host pod is deleted in the host cluster,
                    \*   "fault": calls fail and the kubelet restarts
    MaxPods,        \* bound on the virtual pods created under the name
    MaxDisrupted,   \* the first so many virtual and host pods may be disrupted like that
    MaxImages,      \* bound on edits of a virtual pod
    MaxRetries,     \* bound on the attempts withRetry makes after the first
    MaxTries,       \* MaxRetries of virtual-kubelet's queue, where it is 20: the tries in
                    \* a row after which a name that cannot be handled is forgotten
    MaxPodFaults    \* bound on failed calls and restarts

ASSUME PodAssumption ==
    /\ \A t \in PodTraits : t \subseteq {"token", "scheduler"}
    /\ \A w \in Worlds : w \subseteq {"early", "force", "evict", "fault"}
    /\ MaxPods \in Nat \ {0} /\ MaxDisrupted \in Nat
    /\ MaxImages \in Nat /\ MaxRetries \in Nat /\ MaxTries \in Nat \ {0}
    /\ MaxPodFaults \in Nat

VARIABLES
    traits, world,
    allowed,    \* the cluster, or its policy, allows the scheduler
    pod,        \* the virtual pod
    podSeen,    \* ... in the cache of virtual-kubelet
    hostPod,    \* the host pod
    hostSeen,   \* ... in the cache of the kubelet's host manager
    ctrlSeen,   \* its life in the cache of the k3k controller
    secret,     \* the host secret that holds the token
    podQueue,   \* the place of the name in virtual-kubelet's queue
    doomed,     \* the uid of the pod that virtual-kubelet will remove, or 0
    worker,     \* the call that virtual-kubelet makes to the provider
    podFaults

podVars == <<traits, world, allowed, pod, podSeen, hostPod, hostSeen, ctrlSeen,
             secret, podQueue, doomed, worker, podFaults>>

caches     == <<podSeen, hostSeen, ctrlSeen>>
queues     == <<podQueue, doomed>>
settings   == <<traits, world, allowed>>

\* Pods are numbered: uid is that of the last one created under the name.
PodObjects == [life : {"absent", "live", "deleting"}, uid : 0 .. MaxPods,
               image : 0 .. MaxImages]
NoPod(uid) == [life |-> "absent", uid |-> uid, image |-> 0]

\* of is the virtual pod from which the host pod was made.
HostPods == [life : {"absent", "live", "deleting"}, uid : Nat,
             of : 0 .. MaxPods, image : 0 .. MaxImages]
NoHostPod(uid) == [life |-> "absent", uid |-> uid, of |-> 0, image |-> 0]

\* bound is the pod to which the token is bound.
Secrets == [exists : BOOLEAN, bound : 0 .. MaxPods, owners : SUBSET Nat]
NoSecret == [exists |-> FALSE, bound |-> 0, owners |-> {}]

\* pod is the pod that virtual-kubelet passes; of that, createPod uses the name only
\* and replaces it by the pod it reads.
Workers == [pc : {"idle", "create", "token", "host", "own", "update", "virtual", "delete"},
            pod : PodObjects, retries : 0 .. MaxRetries]
NoWorker == [pc |-> "idle", pod |-> NoPod(0), retries |-> 0]

\* in: the name waits in the queue, or waits to be put there again after the present
\* call; tries: how often in a row it failed, MaxTries if it was given up for that.
Queued == [in : BOOLEAN, tries : 0 .. MaxTries]
GivenUp == podQueue.tries = MaxTries

PodTypeOK ==
    /\ traits \in PodTraits /\ world \in Worlds
    /\ allowed \in BOOLEAN
    /\ pod \in PodObjects /\ podSeen \in PodObjects
    /\ hostPod \in HostPods /\ hostSeen \in HostPods
    /\ ctrlSeen \in {"absent", "live", "deleting"}
    /\ podQueue \in Queued
    /\ secret \in Secrets
    /\ doomed \in 0 .. MaxPods
    /\ worker \in Workers
    /\ podFaults \in 0 .. MaxPodFaults

PodInit ==
    /\ traits \in PodTraits /\ world \in Worlds
    /\ allowed \in {"scheduler" \notin traits, TRUE}
    /\ pod = NoPod(0) /\ podSeen = pod
    /\ hostPod = NoHostPod(0) /\ hostSeen = hostPod /\ ctrlSeen = "absent"
    /\ podQueue = [in |-> FALSE, tries |-> 0]
    /\ secret = NoSecret
    /\ doomed = 0
    /\ worker = NoWorker
    /\ podFaults = 0

-----------------------------------------------------------------------------
(* The virtual cluster: users, controllers, and its scheduler, which gives  *)
(* the pod to this node.                                                    *)

WritePod(p) == pod' = p /\ UNCHANGED <<hostPod, secret>>

CreateVirtualPod ==
    /\ pod.life = "absent" /\ pod.uid < MaxPods
    /\ "early" \in world \/ hostPod.life = "absent"
    /\ WritePod([life |-> "live", uid |-> pod.uid + 1, image |-> 0])
    /\ UNCHANGED <<settings, caches, queues, worker, podFaults>>

EditVirtualPod ==
    /\ pod.life = "live" /\ pod.image < MaxImages
    /\ WritePod([pod EXCEPT !.image = @ + 1])
    /\ UNCHANGED <<settings, caches, queues, worker, podFaults>>

DeleteVirtualPod ==
    /\ pod.life = "live"
    /\ WritePod([pod EXCEPT !.life = "deleting"])
    /\ UNCHANGED <<settings, caches, queues, worker, podFaults>>

ForceDeleteVirtualPod ==
    /\ "force" \in world /\ pod.life # "absent" /\ pod.uid <= MaxDisrupted
    /\ WritePod(NoPod(pod.uid))
    /\ UNCHANGED <<settings, caches, queues, worker, podFaults>>

-----------------------------------------------------------------------------
(* The host cluster.                                                        *)

WriteHostPod(h) == hostPod' = h /\ UNCHANGED <<pod, secret>>

\* An eviction, a drained node, a user.
EvictHostPod ==
    /\ "evict" \in world /\ hostPod.life = "live" /\ hostPod.uid <= MaxDisrupted
    /\ WriteHostPod([hostPod EXCEPT !.life = "deleting"])
    /\ UNCHANGED <<settings, caches, queues, worker, podFaults>>

RemoveHostPod ==
    /\ hostPod.life = "deleting"
    /\ WriteHostPod(NoHostPod(hostPod.uid))
    /\ UNCHANGED <<settings, caches, queues, worker, podFaults>>

\* A secret disappears with the last of its owners.
CollectSecret ==
    /\ secret.owners # {}
    /\ hostPod.life = "absent" \/ hostPod.uid \notin secret.owners
    /\ secret' = NoSecret
    /\ UNCHANGED <<settings, pod, hostPod, caches, queues, worker, podFaults>>

\* The policy of the cluster changes.
ChangeSchedulers ==
    /\ "scheduler" \in traits /\ ~allowed
    /\ allowed' = TRUE
    /\ UNCHANGED <<traits, world, pod, hostPod, secret, caches, queues, worker, podFaults>>

-----------------------------------------------------------------------------
(* Watches.                                                                 *)

\* An event starts the tries of a name anew only if it was given up: one that is in
\* the queue, or being handled, keeps their number.
SyncVirtualPod ==
    /\ podSeen # pod
    /\ podSeen' = pod
    /\ podQueue' = [in |-> TRUE, tries |-> IF GivenUp THEN 0 ELSE podQueue.tries]
    /\ UNCHANGED <<settings, pod, hostPod, hostSeen, ctrlSeen, secret, doomed,
                   worker, podFaults>>

SyncHostPod ==
    /\ hostSeen # hostPod
    /\ hostSeen' = hostPod
    /\ UNCHANGED <<settings, pod, podSeen, hostPod, ctrlSeen, queues, secret, worker, podFaults>>

\* AddPodController: the host pod is controlled by its Cluster (newClusterPredicate).
SyncController ==
    /\ ctrlSeen # hostPod.life
    /\ ctrlSeen' = hostPod.life
    /\ UNCHANGED <<settings, pod, podSeen, hostPod, hostSeen, secret, queues, worker, podFaults>>

-----------------------------------------------------------------------------
(* The worker of virtual-kubelet and the provider.                          *)

Step(step) == worker' = [worker EXCEPT !.pc = step]
Finish  == worker' = NoWorker /\ podQueue' = [podQueue EXCEPT !.tries = 0]

\* The queue after one more failed try of virtual-kubelet: the name is put back, or
\* forgotten, unless an event has come in meanwhile.
TriedAgain(queue) ==
    IF queue.tries + 1 < MaxTries THEN [in |-> TRUE, tries |-> queue.tries + 1]
    ELSE [in |-> queue.in, tries |-> IF queue.in THEN 0 ELSE MaxTries]

GiveUp  == worker' = NoWorker /\ podQueue' = TriedAgain(podQueue)

\* withRetry calls again, with the pod it was given, for ten seconds; after that
\* it is virtual-kubelet's turn.
First == IF worker.pc \in {"update", "virtual"} THEN "update"
         ELSE IF worker.pc = "delete" THEN "delete" ELSE "create"

\* Mutant: there is no limit to the attempts.
FailForever ==
    /\ worker' = [worker EXCEPT !.pc = First, !.retries = @ + 1,
                                !.pod = IF First = "create" THEN NoPod(0) ELSE @]
    /\ UNCHANGED podQueue

Fail ==
    \/ GiveUp
    \/ /\ worker.retries < MaxRetries
       /\ worker' = [worker EXCEPT !.pc = First, !.retries = @ + 1,
                                   !.pod = IF First = "create" THEN NoPod(0) ELSE @]
       /\ UNCHANGED podQueue

\* virtual-kubelet takes the name. A pod that is not in its cache any more is
\* deleted if GetPod finds it in the host cluster; if not, GetPod's error makes it
\* try again. A live one is created, or updated if GetPod finds it: the host pod
\* has labels of its own and never equals the virtual one.
TakePod ==
    /\ podQueue.in /\ worker.pc = "idle"
    /\ LET taken == [podQueue EXCEPT !.in = FALSE]
       IN \/ /\ podSeen.life = "absent" /\ hostSeen.life = "absent"
             /\ podQueue' = TriedAgain(taken) /\ UNCHANGED worker
          \/ /\ podSeen.life = "live" /\ hostSeen.life = "absent"
             /\ podQueue' = taken /\ worker' = [NoWorker EXCEPT !.pc = "create"]
          \/ /\ podSeen.life = "live" /\ hostSeen.life # "absent"
             /\ podQueue' = taken
             /\ worker' = [NoWorker EXCEPT !.pc = "update", !.pod = podSeen]
          \/ /\ \/ podSeen.life = "deleting"
                \/ podSeen.life = "absent" /\ hostSeen.life # "absent"
             /\ podQueue' = taken
             /\ worker' = [NoWorker EXCEPT !.pc = "delete", !.pod = podSeen]
    /\ UNCHANGED <<settings, pod, hostPod, secret, caches, doomed, podFaults>>

\* The virtual manager has a cache of its own, which may be ahead of virtual-kubelet's.
Readable == {podSeen, pod}

\* "scheduler is not allowed for this cluster", by its policy or its spec.
SchedulerRefused == "scheduler" \in traits /\ ~allowed

\* createPod up to the tokens: the pod is read again and translated.
ReadPod ==
    /\ worker.pc = "create"
    /\ \E p \in Readable :
          IF p.life = "absent" \/ SchedulerRefused
          THEN Fail
          ELSE /\ worker' = [worker EXCEPT !.pc = IF "token" \in traits THEN "token" ELSE "host",
                                           !.pod = p]
               /\ UNCHANGED podQueue
    /\ UNCHANGED <<settings, pod, hostPod, secret, caches, doomed, podFaults>>

\* requestToken: the virtual cluster refuses a token for a pod that is gone.
TokenGranted(p) == pod.life # "absent" /\ pod.uid = p.uid

\* translateAndCreateHostTokenSecret: a secret that is there keeps its owners.
TokenSecret(p) == [secret EXCEPT !.exists = TRUE, !.bound = p.uid]

TransformTokens ==
    /\ worker.pc = "token"
    /\ IF TokenGranted(worker.pod)
       THEN secret' = TokenSecret(worker.pod) /\ Step("host") /\ UNCHANGED podQueue
       ELSE Fail /\ UNCHANGED secret
    /\ UNCHANGED <<settings, pod, hostPod, caches, doomed, podFaults>>

\* The host pod for p: a translated copy, which is a pod of its own.
HostPodFor(p) == [life |-> "live", uid |-> hostPod.uid + 1, of |-> p.uid, image |-> p.image]

\* A host pod that already exists is an error.
CreateHostPod ==
    /\ worker.pc = "host"
    /\ \/ /\ hostPod.life = "absent"
          /\ WriteHostPod(HostPodFor(worker.pod))
          /\ IF "token" \in traits
             THEN Step("own") /\ UNCHANGED podQueue
             ELSE Finish
       \/ /\ hostPod.life # "absent"
          /\ Fail /\ UNCHANGED <<pod, hostPod, secret>>
    /\ UNCHANGED <<settings, caches, doomed, podFaults>>

Owned(h) == [secret EXCEPT !.owners = IF secret.exists THEN @ \cup {h} ELSE @]

\* setTokenSecretsOwner: an error, such as a missing secret, is only logged. The
\* owner is the host pod just created, the last one, even if it is gone again.
SetOwner ==
    /\ worker.pc = "own"
    /\ secret' = Owned(hostPod.uid)
    /\ Finish
    /\ UNCHANGED <<settings, pod, hostPod, caches, doomed, podFaults>>

\* updatePod(dst, src): the fields of a pod that may change, here the images.
Updated(dst, src) == [dst EXCEPT !.image = src.image]

\* Mutant: a host pod that has just disappeared needs no update.
UpdateHostPodIfThere ==
    /\ worker.pc = "update"
    /\ IF hostPod.life # "absent"
       THEN /\ WriteHostPod(Updated(hostPod, worker.pod))
            /\ Step("virtual") /\ UNCHANGED podQueue
       ELSE Finish /\ UNCHANGED <<pod, hostPod, secret>>
    /\ UNCHANGED <<settings, caches, doomed, podFaults>>

\* updatePod, first half: the host pod of the name, whoever it was made for.
UpdateHostPod ==
    /\ worker.pc = "update"
    /\ IF hostSeen.life # "absent" /\ hostSeen = hostPod
       THEN /\ WriteHostPod(Updated(hostPod, worker.pod))
            /\ Step("virtual") /\ UNCHANGED podQueue
       ELSE Fail /\ UNCHANGED <<pod, hostPod, secret>>
    /\ UNCHANGED <<settings, caches, doomed, podFaults>>

\* Second half: the virtual pod of the name gets what virtual-kubelet has passed.
UpdateVirtualPod ==
    /\ worker.pc = "virtual"
    /\ \E p \in Readable :
          IF p.life # "absent" /\ p = pod
          THEN WritePod(Updated(pod, worker.pod)) /\ Finish
          ELSE Fail /\ UNCHANGED <<pod, hostPod, secret>>
    /\ UNCHANGED <<settings, caches, doomed, podFaults>>

\* Mutant: the host pod is deleted only for a virtual pod that is under deletion.
DeletedIfAsked ==
    IF hostPod.life = "live" /\ worker.pod.life = "deleting"
    THEN [hostPod EXCEPT !.life = "deleting"] ELSE hostPod

\* A missing host pod, or one under deletion, is as good as deleted.
Deleted == IF hostPod.life = "live" THEN [hostPod EXCEPT !.life = "deleting"] ELSE hostPod

\* deletePod; virtual-kubelet then plans to remove the virtual pod, after its
\* grace period, if it still exists under that uid.
DeleteHostPod ==
    /\ worker.pc = "delete"
    /\ WriteHostPod(Deleted)
    /\ doomed' = IF worker.pod.life = "deleting" THEN worker.pod.uid ELSE doomed
    /\ Finish
    /\ UNCHANGED <<settings, caches, podFaults>>

RemoveVirtualPod ==
    /\ doomed # 0
    /\ doomed' = 0
    /\ IF podSeen.life # "absent" /\ podSeen.uid = doomed /\ pod.life # "absent" /\ pod.uid = doomed
       THEN WritePod(NoPod(pod.uid))
       ELSE UNCHANGED <<pod, hostPod, secret>>
    /\ UNCHANGED <<settings, caches, podQueue, worker, podFaults>>

-----------------------------------------------------------------------------
(* The token refresher, every thirty seconds. It takes the host pods of its *)
(* cache that are not under deletion, and the virtual pod of the same name. *)

RefreshablePods == {p \in Readable : hostSeen.life = "live" /\ p.life = "live"}

\* Mutant: the owner is only looked at when the token is replaced.
RefreshOwnerWithToken ==
    /\ \E p \in RefreshablePods : secret.exists /\ secret.bound # p.uid
    /\ secret' = Owned(hostSeen.uid)
    /\ UNCHANGED <<settings, pod, hostPod, caches, queues, worker, podFaults>>

\* refreshToken, first half: the owner that setTokenSecretsOwner failed to set.
RefreshOwner ==
    /\ RefreshablePods # {}
    /\ secret.exists /\ hostSeen.uid \notin secret.owners
    /\ secret' = Owned(hostSeen.uid)
    /\ UNCHANGED <<settings, pod, hostPod, caches, queues, worker, podFaults>>

\* tokenRefreshDue: at any time, as the time until then (80 percent of the token's
\* life, at most a day) is not modelled. A secret that is missing is left alone.
RefreshDue == secret.exists

\* Second half: a new token. (To replace it by one for the same pod is no change.)
RefreshToken ==
    /\ RefreshDue
    /\ \E p \in RefreshablePods :
          TokenGranted(p) /\ secret.bound # p.uid /\ secret' = TokenSecret(p)
    /\ UNCHANGED <<settings, pod, hostPod, caches, queues, worker, podFaults>>

-----------------------------------------------------------------------------
(* The k3k controller, PodReconciler: a host pod under deletion takes the    *)
(* virtual pod of its name with it. The host pod's status changes while it   *)
(* is being deleted, and each change is an event.                            *)

ReconcileHostPod ==
    /\ ctrlSeen = "deleting" /\ pod.life = "live"
    /\ WritePod([pod EXCEPT !.life = "deleting"])
    /\ UNCHANGED <<settings, caches, queues, worker, podFaults>>

-----------------------------------------------------------------------------
(* Failures.                                                                *)

PodDisturb == "fault" \in world /\ podFaults < MaxPodFaults /\ podFaults' = podFaults + 1

\* A failed setTokenSecretOwner is logged and createPod succeeds. A conflict with
\* a late cache of the secrets counts here, too.
PodCallFails ==
    /\ PodDisturb
    /\ worker.pc # "idle"
    /\ IF worker.pc = "own" THEN Finish ELSE Fail
    /\ UNCHANGED <<settings, pod, hostPod, secret, caches, doomed>>

\* Every pod is listed, and pods of the host cluster that are not are deleted.
KubeletRestart ==
    /\ PodDisturb
    /\ podSeen' = pod /\ hostSeen' = hostPod
    /\ podQueue' = [in |-> TRUE, tries |-> 0] /\ doomed' = 0
    /\ worker' = NoWorker
    /\ UNCHANGED <<settings, pod, hostPod, ctrlSeen, secret>>

-----------------------------------------------------------------------------
WorkerStep ==
    \/ TakePod \/ ReadPod \/ TransformTokens \/ CreateHostPod \/ SetOwner
    \/ UpdateHostPod \/ UpdateVirtualPod \/ DeleteHostPod

PodNext ==
    \/ CreateVirtualPod \/ EditVirtualPod \/ DeleteVirtualPod \/ ForceDeleteVirtualPod
    \/ EvictHostPod \/ RemoveHostPod \/ CollectSecret \/ ChangeSchedulers
    \/ SyncVirtualPod \/ SyncHostPod \/ SyncController
    \/ WorkerStep \/ RemoveVirtualPod
    \/ RefreshOwner \/ RefreshToken
    \/ ReconcileHostPod
    \/ PodCallFails \/ KubeletRestart

\* Watches deliver, workers work on, the refresher runs, tokens become due, and the
\* host cluster removes deleted pods. Nobody has to create, edit or delete.
PodFairness ==
    /\ WF_podVars(SyncVirtualPod) /\ WF_podVars(SyncHostPod) /\ WF_podVars(SyncController)
    /\ WF_podVars(WorkerStep) /\ WF_podVars(RemoveVirtualPod) /\ WF_podVars(ReconcileHostPod)
    /\ WF_podVars(RemoveHostPod)
    /\ WF_podVars(RefreshOwner) /\ WF_podVars(RefreshToken)

-----------------------------------------------------------------------------
(* Properties.                                                              *)

\* A virtual pod that stays, and whose scheduler is allowed in the end, gets a
\* host pod of its own, in spite of a cache that still shows the host pod of its
\* predecessor, failed calls and restarts; unless virtual-kubelet has forgotten it
\* after too many tries, for instance because the scheduler was allowed too late:
\* then nothing but an edit of the pod or a restart of the kubelet helps. And as
\* long as no pod is created before the host pod of its predecessor is gone, none is
\* removed behind the kubelet's back and none is evicted (see the README).
PodIsBacked ==
    (world \subseteq {"fault"} /\ <>[](pod.life = "live" /\ ~SchedulerRefused /\ ~GivenUp))
    => <>[](hostPod.life = "live" /\ hostPod.of = pod.uid)

\* Deletion reaches both clusters: no virtual pod is under deletion for ever, and a
\* host pod whose virtual pod is gone disappears, even if it was created after
\* that, by a createPod that was under way; unless virtual-kubelet has forgotten
\* the name after too many tries.
VirtualPodDeletionCompletes ==
    /\ ~<>[](pod.life = "deleting" /\ ~GivenUp)
    /\ <>[](pod.life = "absent") => <>[](hostPod.life = "absent" \/ GivenUp)

\* The secret of a pod that runs ends up with a token for that pod and with the
\* host pod among its owners, although it may have been made for a predecessor of
\* the same name, and although setting the owner may have failed: "the token
\* refresher sets the missing owner references instead".
TokenSecretSettles ==
    <>[](pod.life = "live" /\ hostPod.life = "live" /\ secret.exists)
    => <>[](secret.bound = pod.uid /\ hostPod.uid \in secret.owners)
=============================================================================
