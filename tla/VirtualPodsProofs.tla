------------------------- MODULE VirtualPodsProofs -------------------------
(***************************************************************************)
(* Theorems about VirtualPods, for any number of pods created under the    *)
(* name, of edits, attempts and faults.                                    *)
(*                                                                         *)
(* The provider finds the host pod by name.  What keeps a host pod from    *)
(* outliving the virtual pod it was made for, or from passing for the host *)
(* pod of its successor, is that virtual-kubelet handles one call for a    *)
(* name at a time, deletes the host pod before it removes the virtual one, *)
(* and passes a name whose pod it has seen under deletion to no other call *)
(* than the deletion.  A virtual pod that is removed by force goes without *)
(* all this: TLC finds its host pod left behind.                           *)
(***************************************************************************)
EXTENDS VirtualPods, TLAPS

PodSpec == PodInit /\ [][PodNext]_podVars

\* A live host pod belongs to the virtual pod that now has the name, unless
\* virtual pods are removed by force: it is none whose virtual pod is gone, and none
\* of a predecessor, although createPod, updatePod and deletePod go by the name alone,
\* caches are late, host pods are evicted, calls fail and the kubelet restarts.
HostPodIsOwn ==
    "force" \notin world /\ hostPod.life = "live" =>
        pod.life # "absent" /\ hostPod.of = pod.uid

\* The token that a live host pod mounts is one for the virtual pod it was made for,
\* under the same condition: the secret goes by the name of the pod, outlives it, and is
\* written by createPod and by the refresher, yet a pod never runs with the token of a
\* predecessor or of a successor.
TokenIsOwn ==
    "force" \notin world /\ "token" \in traits /\ hostPod.life = "live" /\ secret.exists =>
        secret.bound = hostPod.of

-----------------------------------------------------------------------------
(* The inductive invariant.                                                 *)

\* The cache is no newer than the virtual pod, and shows no predecessor of it alive.
SeenInv ==
    /\ podSeen.uid <= pod.uid
    /\ podSeen.life = "live" => podSeen.uid = pod.uid
    /\ podSeen.uid = pod.uid /\ podSeen.life = "deleting" => pod.life # "live"

\* The pod number u is under deletion or gone, and virtual-kubelet has seen that.
Ending(u) ==
    /\ u <= podSeen.uid
    /\ podSeen.uid = u => podSeen.life # "live"
    /\ pod.uid = u => pod.life # "live"

\* createPod before it creates the host pod.
Creating == worker.pc \in {"create", "token", "host"}

\* It works for the pod that has the name now.
CreatingInv ==
    /\ Creating => /\ pod.life # "absent" /\ podSeen.uid = pod.uid
                   /\ doomed # 0 => doomed # pod.uid
    /\ worker.pc \in {"token", "host"} => worker.pod.uid = pod.uid

\* What virtual-kubelet will remove, or is deleting, is ending; what it will remove
\* has no live host pod.
DoomedInv ==
    /\ doomed # 0 => Ending(doomed) /\ (pod.uid = doomed => hostPod.life # "live")
    /\ worker.pc = "delete" /\ worker.pod.life = "deleting" => Ending(worker.pod.uid)

\* A pod that is gone was seen under deletion before.
GoneInv ==
    pod.life = "absent" => podSeen.uid = pod.uid /\ podSeen.life # "live" /\ hostPod.life # "live"

OwnInv == SeenInv /\ CreatingInv /\ DoomedInv /\ GoneInv /\ HostPodIsOwn

PodInv == PodTypeOK /\ ("force" \notin world => OwnInv)

-----------------------------------------------------------------------------
(* Types.                                                                   *)

LEMMA NoPodType ==
    /\ \A u \in 0 .. MaxPods : NoPod(u) \in PodObjects
    /\ \A u \in Nat : NoHostPod(u) \in HostPods
    /\ NoSecret \in Secrets /\ NoWorker \in Workers
<1>1. \A u \in 0 .. MaxPods : NoPod(u) \in PodObjects
  BY PodAssumption DEF NoPod, PodObjects
<1>2. \A u \in Nat : NoHostPod(u) \in HostPods
  BY PodAssumption DEF NoHostPod, HostPods
<1>3. NoSecret \in Secrets
  BY PodAssumption DEF NoSecret, Secrets
<1>4. NoWorker \in Workers
  <2>1. NoPod(0) \in PodObjects /\ 0 \in 0 .. MaxRetries
    BY <1>1, PodAssumption
  <2> QED
    BY <2>1 DEF NoWorker, Workers
<1> QED
  BY <1>1, <1>2, <1>3, <1>4

\* A failed try, a successful one and the taking of the name leave a queue entry.
LEMMA QueuedType ==
    /\ \A q \in Queued : TriedAgain(q) \in Queued
    /\ \A q \in Queued : [q EXCEPT !.tries = 0] \in Queued /\ [q EXCEPT !.in = FALSE] \in Queued
    /\ \A b \in BOOLEAN : [in |-> b, tries |-> 0] \in Queued
<1>1. MaxTries \in Nat /\ 0 \in 0 .. MaxTries /\ MaxTries \in 0 .. MaxTries
  BY PodAssumption
<1>2. ASSUME NEW q \in Queued PROVE TriedAgain(q) \in Queued
  <2>1. q.in \in BOOLEAN /\ q.tries \in 0 .. MaxTries
    BY DEF Queued
  <2>2. CASE q.tries + 1 < MaxTries
    <3>1. q.tries + 1 \in 0 .. MaxTries
      BY <1>1, <2>1, <2>2
    <3>2. QED
      BY <2>2, <3>1 DEF TriedAgain, Queued
  <2>3. CASE ~(q.tries + 1 < MaxTries)
    BY <1>1, <2>1, <2>3 DEF TriedAgain, Queued
  <2>4. QED
    BY <2>2, <2>3
<1>3. ASSUME NEW q \in Queued
      PROVE  [q EXCEPT !.tries = 0] \in Queued /\ [q EXCEPT !.in = FALSE] \in Queued
  BY <1>1 DEF Queued
<1>4. \A b \in BOOLEAN : [in |-> b, tries |-> 0] \in Queued
  BY <1>1 DEF Queued
<1>5. QED
  BY <1>2, <1>3, <1>4

LEMMA FailType ==
    ASSUME PodTypeOK, Fail
    PROVE  worker' \in Workers /\ podQueue' \in Queued
<1>1. CASE GiveUp
  BY <1>1, NoPodType, QueuedType DEF GiveUp, PodTypeOK
<1>2. CASE /\ worker.retries < MaxRetries
           /\ worker' = [worker EXCEPT !.pc = First, !.retries = @ + 1,
                                       !.pod = IF First = "create" THEN NoPod(0) ELSE @]
           /\ UNCHANGED podQueue
  <2>1. worker \in Workers /\ podQueue \in Queued
    BY DEF PodTypeOK
  <2>2. NoPod(0) \in PodObjects /\ worker.pod \in PodObjects
    BY <2>1, NoPodType, PodAssumption DEF Workers
  <2>3. worker.retries + 1 \in 0 .. MaxRetries
    BY <1>2, <2>1, PodAssumption DEF Workers
  <2>4. First \in {"create", "update", "delete"}
    BY DEF First
  <2> DEFINE new == IF First = "create" THEN NoPod(0) ELSE worker.pod
  <2>5. new \in PodObjects
    BY <2>2
  <2>6. worker' = [worker EXCEPT !.pc = First, !.retries = worker.retries + 1, !.pod = new]
    BY <1>2
  <2> HIDE DEF new
  <2> QED
    BY <1>2, <2>1, <2>3, <2>4, <2>5, <2>6 DEF Workers
<1> QED
  BY <1>1, <1>2 DEF Fail

LEMMA StepType ==
    ASSUME PodTypeOK, NEW step \in {"host", "own", "virtual"}, Step(step)
    PROVE  worker' \in Workers
BY DEF PodTypeOK, Step, Workers

\* The steps that write the virtual pod alone.
LEMMA WritePodType ==
    ASSUME PodTypeOK, NEW p \in PodObjects, WritePod(p),
           UNCHANGED <<settings, caches, queues, worker, podFaults>>
    PROVE  PodTypeOK'
BY DEF WritePod, PodTypeOK, settings, caches, queues

LEMMA WriteHostPodType ==
    ASSUME PodTypeOK, NEW h \in HostPods, WriteHostPod(h)
    PROVE  hostPod' \in HostPods /\ pod' \in PodObjects /\ secret' \in Secrets
BY DEF WriteHostPod, PodTypeOK

\* A step of the provider: besides the worker it writes what is typed already.
LEMMA ProviderStepType ==
    ASSUME PodTypeOK, worker' \in Workers, podQueue' \in Queued,
           pod' \in PodObjects, hostPod' \in HostPods, secret' \in Secrets,
           doomed' \in 0 .. MaxPods, UNCHANGED <<settings, caches, podFaults>>
    PROVE  PodTypeOK'
BY DEF PodTypeOK, settings, caches

LEMMA SecretType ==
    ASSUME PodTypeOK
    PROVE  /\ \A p \in PodObjects : TokenSecret(p) \in Secrets
           /\ \A u \in Nat : Owned(u) \in Secrets
<1>1. secret \in Secrets
  BY DEF PodTypeOK
<1>2. \A p \in PodObjects : TokenSecret(p) \in Secrets
  BY <1>1 DEF TokenSecret, Secrets, PodObjects
<1>3. ASSUME NEW u \in Nat PROVE Owned(u) \in Secrets
  BY <1>1 DEF Owned, Secrets
<1> QED
  BY <1>2, <1>3

LEMMA TypeInit == PodInit => PodTypeOK
<1> SUFFICES ASSUME PodInit PROVE PodTypeOK
  OBVIOUS
<1>1. 0 \in 0 .. MaxPods /\ 0 \in 0 .. MaxPodFaults /\ 0 \in Nat
  BY PodAssumption
<1>2. pod \in PodObjects /\ podSeen \in PodObjects /\ hostPod \in HostPods /\ hostSeen \in HostPods
  BY <1>1, NoPodType DEF PodInit
<1>3. secret \in Secrets /\ worker \in Workers
  BY NoPodType DEF PodInit
<1>4. allowed \in BOOLEAN /\ podQueue \in Queued
  BY QueuedType DEF PodInit
<1> QED
  BY <1>1, <1>2, <1>3, <1>4 DEF PodInit, PodTypeOK

LEMMA ClusterStepsType ==
    ASSUME PodTypeOK,
           \/ CreateVirtualPod \/ EditVirtualPod \/ DeleteVirtualPod \/ ForceDeleteVirtualPod
           \/ ReconcileHostPod \/ EvictHostPod \/ RemoveHostPod
    PROVE  PodTypeOK'
<1>1. pod \in PodObjects /\ hostPod \in HostPods
  BY DEF PodTypeOK
<1>2. UNCHANGED <<settings, caches, queues, worker, podFaults>>
  BY DEF CreateVirtualPod, EditVirtualPod, DeleteVirtualPod, ForceDeleteVirtualPod,
         ReconcileHostPod, EvictHostPod, RemoveHostPod
<1>3. CASE CreateVirtualPod
  <2>1. [life |-> "live", uid |-> pod.uid + 1, image |-> 0] \in PodObjects
    BY <1>1, <1>3, PodAssumption DEF CreateVirtualPod, PodObjects
  <2> QED
    BY <1>2, <1>3, <2>1, WritePodType DEF CreateVirtualPod
<1>4. CASE EditVirtualPod
  <2>1. [pod EXCEPT !.image = @ + 1] \in PodObjects
    BY <1>1, <1>4, PodAssumption DEF EditVirtualPod, PodObjects
  <2> QED
    BY <1>2, <1>4, <2>1, WritePodType DEF EditVirtualPod
<1>5. CASE DeleteVirtualPod \/ ReconcileHostPod
  <2>1. [pod EXCEPT !.life = "deleting"] \in PodObjects
    BY <1>1 DEF PodObjects
  <2> QED
    BY <1>2, <1>5, <2>1, WritePodType DEF DeleteVirtualPod, ReconcileHostPod
<1>6. CASE ForceDeleteVirtualPod
  <2>1. NoPod(pod.uid) \in PodObjects
    BY <1>1, NoPodType DEF PodObjects
  <2> QED
    BY <1>2, <1>6, <2>1, WritePodType DEF ForceDeleteVirtualPod
<1>7. CASE EvictHostPod \/ RemoveHostPod
  <2>1. [hostPod EXCEPT !.life = "deleting"] \in HostPods /\ NoHostPod(hostPod.uid) \in HostPods
    BY <1>1, NoPodType DEF HostPods
  <2>2. \E h \in HostPods : WriteHostPod(h)
    BY <1>7, <2>1 DEF EvictHostPod, RemoveHostPod
  <2>3. hostPod' \in HostPods /\ pod' \in PodObjects /\ secret' \in Secrets
    BY <2>2, WriteHostPodType
  <2>4. worker' \in Workers /\ podQueue' \in Queued /\ doomed' \in 0 .. MaxPods
    BY <1>2 DEF queues, PodTypeOK
  <2> QED
    BY <1>2, <2>3, <2>4, ProviderStepType
<1> QED
  BY <1>3, <1>4, <1>5, <1>6, <1>7

LEMMA OtherStepsType ==
    ASSUME PodTypeOK,
           \/ CollectSecret \/ ChangeSchedulers \/ SyncVirtualPod \/ SyncHostPod \/ SyncController
           \/ RefreshOwner \/ RefreshToken \/ RemoveVirtualPod
    PROVE  PodTypeOK'
<1>1. /\ pod \in PodObjects /\ podSeen \in PodObjects /\ hostSeen \in HostPods
      /\ hostPod \in HostPods
  BY DEF PodTypeOK
<1>2. CASE CollectSecret
  BY <1>2, NoPodType DEF CollectSecret, PodTypeOK, settings, caches, queues
<1>3. CASE ChangeSchedulers
  BY <1>3 DEF ChangeSchedulers, PodTypeOK, caches, queues
<1>4. CASE SyncVirtualPod
  <2>1. podQueue' \in Queued
    BY <1>4, PodAssumption DEF SyncVirtualPod, PodTypeOK, Queued
  <2> QED
    BY <1>4, <2>1 DEF SyncVirtualPod, PodTypeOK, settings
<1>5. CASE SyncHostPod
  BY <1>5 DEF SyncHostPod, PodTypeOK, settings, queues
<1>6. CASE SyncController
  <2>1. hostPod.life \in {"absent", "live", "deleting"}
    BY <1>1 DEF HostPods
  <2> QED
    BY <1>6, <2>1 DEF SyncController, PodTypeOK, settings, queues
<1>7. CASE RefreshOwner \/ RefreshToken
  <2>1. hostSeen.uid \in Nat /\ RefreshablePods \subseteq PodObjects
    BY <1>1 DEF HostPods, RefreshablePods, Readable
  <2>2. secret' \in Secrets
    BY <1>7, <2>1, SecretType DEF RefreshOwner, RefreshToken
  <2>3. UNCHANGED <<settings, pod, hostPod, caches, queues, worker, podFaults>>
    BY <1>7 DEF RefreshOwner, RefreshToken
  <2> QED
    BY <2>2, <2>3 DEF PodTypeOK, settings, caches, queues
<1>8. CASE RemoveVirtualPod
  <2>1. NoPod(pod.uid) \in PodObjects /\ 0 \in 0 .. MaxPods
    BY <1>1, NoPodType, PodAssumption DEF PodObjects
  <2>2. pod' \in PodObjects /\ hostPod' = hostPod /\ secret' = secret /\ doomed' = 0
    BY <1>1, <1>8, <2>1 DEF RemoveVirtualPod, WritePod
  <2>3. UNCHANGED <<settings, caches, podQueue, worker, podFaults>>
    BY <1>8 DEF RemoveVirtualPod
  <2> QED
    BY <2>1, <2>2, <2>3 DEF PodTypeOK, settings, caches
<1> QED
  BY <1>2, <1>3, <1>4, <1>5, <1>6, <1>7, <1>8

LEMMA WorkerStepType ==
    ASSUME PodTypeOK, WorkerStep
    PROVE  PodTypeOK'
<1>1. /\ pod \in PodObjects /\ podSeen \in PodObjects /\ hostPod \in HostPods
      /\ worker \in Workers /\ secret \in Secrets /\ podQueue \in Queued
      /\ doomed \in 0 .. MaxPods
  BY DEF PodTypeOK
<1>2. worker.pod \in PodObjects /\ Readable \subseteq PodObjects
  BY <1>1 DEF Workers, Readable
<1>3. UNCHANGED <<settings, caches, podFaults>>
  BY DEF WorkerStep, TakePod, ReadPod, TransformTokens, CreateHostPod, SetOwner,
         UpdateHostPod, UpdateVirtualPod, DeleteHostPod
<1>4. Finish => worker' \in Workers /\ podQueue' \in Queued
  BY <1>1, NoPodType, QueuedType DEF Finish
<1>5. CASE TakePod
  <2>1. \A step \in {"create", "update", "delete"} : \A p \in PodObjects :
           /\ [NoWorker EXCEPT !.pc = step] \in Workers
           /\ [NoWorker EXCEPT !.pc = step, !.pod = p] \in Workers
    BY NoPodType DEF Workers
  <2>2. worker' \in Workers
    BY <1>1, <1>5, <2>1 DEF TakePod
  <2>3. podQueue' \in Queued /\ UNCHANGED <<pod, hostPod, secret, doomed>>
    BY <1>1, <1>5, QueuedType DEF TakePod
  <2> QED
    BY <1>1, <1>3, <2>2, <2>3, ProviderStepType
<1>6. CASE ReadPod
  <2>1. ASSUME NEW p \in Readable,
               worker' = [worker EXCEPT !.pc = IF "token" \in traits THEN "token" ELSE "host",
                                        !.pod = p]
        PROVE  worker' \in Workers
    <3>1. p \in PodObjects
      BY <1>2
    <3> QED
      BY <1>1, <2>1, <3>1 DEF Workers
  <2>2. worker' \in Workers /\ podQueue' \in Queued
    BY <1>1, <1>6, <2>1, FailType DEF ReadPod
  <2>3. UNCHANGED <<pod, hostPod, secret, doomed>>
    BY <1>6 DEF ReadPod
  <2> QED
    BY <1>1, <1>3, <2>2, <2>3, ProviderStepType
<1>7. CASE TransformTokens
  <2>1. worker' \in Workers /\ podQueue' \in Queued
    BY <1>1, <1>7, FailType, StepType DEF TransformTokens
  <2>2. secret' \in Secrets
    BY <1>1, <1>2, <1>7, SecretType DEF TransformTokens
  <2>3. UNCHANGED <<pod, hostPod, doomed>>
    BY <1>7 DEF TransformTokens
  <2> QED
    BY <1>1, <1>3, <2>1, <2>2, <2>3, ProviderStepType
<1>8. CASE CreateHostPod
  <2>1. worker' \in Workers /\ podQueue' \in Queued
    BY <1>1, <1>4, <1>8, FailType, StepType DEF CreateHostPod
  <2>2. HostPodFor(worker.pod) \in HostPods
    BY <1>1, <1>2 DEF HostPodFor, HostPods, PodObjects
  <2>3. hostPod' \in HostPods /\ pod' \in PodObjects /\ secret' \in Secrets
    BY <1>1, <1>8, <2>2, WriteHostPodType DEF CreateHostPod
  <2>4. UNCHANGED doomed
    BY <1>8 DEF CreateHostPod
  <2> QED
    BY <1>1, <1>3, <2>1, <2>3, <2>4, ProviderStepType
<1>9. CASE SetOwner
  <2>1. hostPod.uid \in Nat
    BY <1>1 DEF HostPods
  <2>2. secret' \in Secrets /\ worker' \in Workers /\ podQueue' \in Queued
    BY <1>4, <1>9, <2>1, SecretType DEF SetOwner
  <2>3. UNCHANGED <<pod, hostPod, doomed>>
    BY <1>9 DEF SetOwner
  <2> QED
    BY <1>1, <1>3, <2>2, <2>3, ProviderStepType
<1>10. CASE UpdateHostPod
  <2>1. worker' \in Workers /\ podQueue' \in Queued
    BY <1>1, <1>10, FailType, StepType DEF UpdateHostPod
  <2>2. Updated(hostPod, worker.pod) \in HostPods
    BY <1>1, <1>2 DEF Updated, HostPods, PodObjects
  <2>3. hostPod' \in HostPods /\ pod' \in PodObjects /\ secret' \in Secrets
    BY <1>1, <1>10, <2>2, WriteHostPodType DEF UpdateHostPod
  <2>4. UNCHANGED doomed
    BY <1>10 DEF UpdateHostPod
  <2> QED
    BY <1>1, <1>3, <2>1, <2>3, <2>4, ProviderStepType
<1>11. CASE UpdateVirtualPod
  <2>1. worker' \in Workers /\ podQueue' \in Queued
    BY <1>4, <1>11, FailType DEF UpdateVirtualPod
  <2>2. Updated(pod, worker.pod) \in PodObjects
    BY <1>1, <1>2 DEF Updated, PodObjects
  <2>3. pod' \in PodObjects /\ UNCHANGED <<hostPod, secret, doomed>>
    BY <1>1, <1>11, <2>2 DEF UpdateVirtualPod, WritePod
  <2> QED
    BY <1>1, <1>3, <2>1, <2>3, ProviderStepType
<1>12. CASE DeleteHostPod
  <2>1. worker' \in Workers /\ podQueue' \in Queued
    BY <1>4, <1>12 DEF DeleteHostPod
  <2>2. Deleted \in HostPods
    BY <1>1 DEF Deleted, HostPods
  <2>3. hostPod' \in HostPods /\ pod' \in PodObjects /\ secret' \in Secrets
    BY <1>12, <2>2, WriteHostPodType DEF DeleteHostPod
  <2>4. doomed' \in 0 .. MaxPods
    BY <1>1, <1>2, <1>12 DEF DeleteHostPod, PodObjects
  <2> QED
    BY <1>3, <2>1, <2>3, <2>4, ProviderStepType
<1> QED
  BY <1>5, <1>6, <1>7, <1>8, <1>9, <1>10, <1>11, <1>12 DEF WorkerStep

LEMMA FaultStepsType ==
    ASSUME PodTypeOK, PodCallFails \/ KubeletRestart
    PROVE  PodTypeOK'
<1>1. podFaults' \in 0 .. MaxPodFaults
  BY PodAssumption DEF PodCallFails, KubeletRestart, PodDisturb, PodTypeOK
<1>2. CASE PodCallFails
  <2>1. worker' \in Workers /\ podQueue' \in Queued
    <3>1. Finish => worker' \in Workers /\ podQueue' \in Queued
      BY NoPodType, QueuedType DEF Finish, PodTypeOK
    <3> QED
      BY <1>2, <3>1, FailType DEF PodCallFails
  <2>2. UNCHANGED <<settings, pod, hostPod, secret, caches, doomed>>
    BY <1>2 DEF PodCallFails
  <2> QED
    BY <1>1, <2>1, <2>2 DEF PodTypeOK, settings, caches
<1>3. CASE KubeletRestart
  <2>1. worker' \in Workers /\ 0 \in 0 .. MaxPods
    BY <1>3, NoPodType, PodAssumption DEF KubeletRestart
  <2>2. podQueue' \in Queued
    <3>1. podQueue' = [in |-> TRUE, tries |-> 0] /\ TRUE \in BOOLEAN
      BY <1>3 DEF KubeletRestart
    <3> QED
      BY <3>1, QueuedType
  <2> QED
    BY <1>1, <1>3, <2>1, <2>2 DEF KubeletRestart, PodTypeOK, settings
<1> QED
  BY <1>2, <1>3

LEMMA TypeNext ==
    ASSUME PodTypeOK, [PodNext]_podVars
    PROVE  PodTypeOK'
<1>1. CASE PodNext
  BY <1>1, ClusterStepsType, OtherStepsType, WorkerStepType, FaultStepsType DEF PodNext
<1>2. CASE UNCHANGED podVars
  BY <1>2 DEF podVars, PodTypeOK
<1> QED
  BY <1>1, <1>2

-----------------------------------------------------------------------------
(* Whose host pod it is.                                                    *)

LEMMA Fields ==
    ASSUME PodTypeOK
    PROVE  /\ pod.uid \in Nat /\ podSeen.uid \in Nat /\ doomed \in Nat /\ worker.pod.uid \in Nat
           /\ pod.life \in {"absent", "live", "deleting"}
           /\ podSeen.life \in {"absent", "live", "deleting"}
           /\ hostPod.life \in {"absent", "live", "deleting"}
<1>1. /\ pod \in PodObjects /\ podSeen \in PodObjects /\ hostPod \in HostPods
      /\ worker \in Workers /\ doomed \in 0 .. MaxPods
  BY DEF PodTypeOK
<1>2. worker.pod \in PodObjects
  BY <1>1 DEF Workers
<1> QED
  BY <1>1, <1>2, PodAssumption DEF PodObjects, HostPods

\* What the worker goes on with, if no pod comes or goes.
WorkerMay ==
    /\ Creating' => /\ pod.life # "absent" /\ podSeen.uid = pod.uid
                    /\ doomed # 0 => doomed # pod.uid
    /\ worker'.pc \in {"token", "host"} => worker'.pod.uid = pod.uid
    /\ worker'.pc = "delete" /\ worker'.pod.life = "deleting" => Ending(worker'.pod.uid)

LEMMA OwnKept ==
    ASSUME PodTypeOK, OwnInv, world' = world, podSeen' = podSeen, doomed' = doomed,
           pod'.uid = pod.uid, pod'.life = pod.life \/ (pod.life = "live" /\ pod'.life = "deleting"),
           hostPod'.life = "live" => hostPod.life = "live" /\ hostPod'.of = hostPod.of,
           WorkerMay
    PROVE  OwnInv'
<1> USE Fields
<1>1. SeenInv'
  BY DEF OwnInv, SeenInv
<1>2. CreatingInv'
  BY DEF OwnInv, CreatingInv, WorkerMay, Creating
<1>3. /\ Ending(worker'.pod.uid) => Ending(worker.pod.uid)'
      /\ Ending(doomed) => Ending(doomed)'
  BY DEF Ending
<1>4. DoomedInv'
  BY <1>3 DEF OwnInv, DoomedInv, WorkerMay
<1>5. GoneInv' /\ HostPodIsOwn'
  BY DEF OwnInv, GoneInv, HostPodIsOwn
<1> QED
  BY <1>1, <1>2, <1>4, <1>5 DEF OwnInv

LEMMA SameWorker == ASSUME OwnInv, worker' = worker PROVE WorkerMay
BY DEF OwnInv, CreatingInv, DoomedInv, WorkerMay, Creating

LEMMA IdleWorker == ASSUME worker' = NoWorker PROVE WorkerMay
BY DEF WorkerMay, Creating, NoWorker

LEMMA FailWorker ==
    ASSUME PodTypeOK, OwnInv, Fail, worker.pc # "own", worker.pc # "idle"
    PROVE  WorkerMay
<1>1. CASE GiveUp
  BY <1>1, IdleWorker DEF GiveUp
<1>2. CASE worker' = [worker EXCEPT !.pc = First, !.retries = @ + 1,
                                    !.pod = IF First = "create" THEN NoPod(0) ELSE @]
  <2>1. worker \in Workers
    BY DEF PodTypeOK
  <2>2. /\ worker.pc \in {"create", "token", "host", "update", "virtual", "delete"}
        /\ worker'.pc = First
    BY <1>2, <2>1 DEF Workers
  <2>3. First # "create" => worker'.pod = worker.pod
    BY <1>2, <2>1 DEF Workers
  <2>4. /\ First \in {"create", "update", "delete"}
        /\ First = "create" => Creating
        /\ First = "delete" => worker.pc = "delete"
    BY <2>2 DEF First, Creating
  <2> QED
    BY <2>2, <2>3, <2>4 DEF OwnInv, CreatingInv, DoomedInv, WorkerMay, Creating
<1> QED
  BY <1>1, <1>2 DEF Fail

LEMMA OwnInit == PodInit => OwnInv
BY DEF PodInit, OwnInv, SeenInv, CreatingInv, DoomedInv, GoneInv, HostPodIsOwn, Creating,
       NoPod, NoHostPod, NoWorker

\* The steps of others, but for the removal of virtual pods.
LEMMA OwnClusterSteps ==
    ASSUME PodTypeOK, OwnInv,
           \/ EditVirtualPod \/ DeleteVirtualPod \/ ReconcileHostPod
           \/ EvictHostPod \/ RemoveHostPod \/ CollectSecret \/ ChangeSchedulers
           \/ SyncHostPod \/ SyncController \/ RefreshOwner \/ RefreshToken
    PROVE  OwnInv'
<1>1. pod \in PodObjects /\ hostPod \in HostPods
  BY DEF PodTypeOK
<1>2. UNCHANGED <<world, podSeen, doomed, worker>>
  BY DEF EditVirtualPod, DeleteVirtualPod, ReconcileHostPod, EvictHostPod, RemoveHostPod,
         CollectSecret, ChangeSchedulers, SyncHostPod, SyncController, RefreshOwner,
         RefreshToken, settings, caches, queues
<1>3. /\ pod'.uid = pod.uid
      /\ pod'.life = pod.life \/ (pod.life = "live" /\ pod'.life = "deleting")
  <2>1. \/ UNCHANGED pod
        \/ pod' = [pod EXCEPT !.image = @ + 1]
        \/ pod.life = "live" /\ pod' = [pod EXCEPT !.life = "deleting"]
    BY DEF EditVirtualPod, DeleteVirtualPod, ReconcileHostPod, EvictHostPod, RemoveHostPod,
           CollectSecret, ChangeSchedulers, SyncHostPod, SyncController, RefreshOwner,
           RefreshToken, WritePod, WriteHostPod
  <2> QED
    BY <1>1, <2>1 DEF PodObjects
<1>4. hostPod'.life = "live" => hostPod.life = "live" /\ hostPod'.of = hostPod.of
  <2>1. \/ UNCHANGED hostPod
        \/ hostPod' = [hostPod EXCEPT !.life = "deleting"]
        \/ hostPod' = NoHostPod(hostPod.uid)
    BY DEF EditVirtualPod, DeleteVirtualPod, ReconcileHostPod, EvictHostPod, RemoveHostPod,
           CollectSecret, ChangeSchedulers, SyncHostPod, SyncController, RefreshOwner,
           RefreshToken, WritePod, WriteHostPod
  <2> QED
    BY <1>1, <2>1 DEF HostPods, NoHostPod
<1>5. WorkerMay
  BY <1>2, SameWorker
<1> QED
  BY <1>2, <1>3, <1>4, <1>5, OwnKept

\* A pod is created when the host pod of its predecessor is under deletion or gone.
LEMMA OwnCreateVirtualPod ==
    ASSUME PodTypeOK, OwnInv, CreateVirtualPod
    PROVE  OwnInv'
<1> USE Fields
<1>1. /\ pod.life = "absent" /\ pod'.life = "live" /\ pod'.uid = pod.uid + 1
      /\ UNCHANGED <<hostPod, world, podSeen, doomed, worker>>
  BY DEF CreateVirtualPod, WritePod, settings, caches, queues
<1>2. /\ hostPod.life # "live" /\ ~Creating
      /\ podSeen.uid = pod.uid /\ podSeen.life # "live"
  BY <1>1 DEF OwnInv, GoneInv, CreatingInv
<1>3. SeenInv' /\ CreatingInv' /\ GoneInv' /\ HostPodIsOwn'
  BY <1>1, <1>2 DEF SeenInv, CreatingInv, GoneInv, HostPodIsOwn, Creating
<1>4. DoomedInv'
  BY <1>1, <1>2 DEF OwnInv, DoomedInv, Ending
<1> QED
  BY <1>3, <1>4 DEF OwnInv

LEMMA OwnSyncVirtualPod ==
    ASSUME PodTypeOK, OwnInv, SyncVirtualPod
    PROVE  OwnInv'
<1> USE Fields
<1>1. podSeen' = pod /\ UNCHANGED <<pod, hostPod, world, doomed, worker>>
  BY DEF SyncVirtualPod, settings
<1>2. SeenInv' /\ GoneInv' /\ HostPodIsOwn'
  BY <1>1 DEF OwnInv, SeenInv, GoneInv, HostPodIsOwn
<1>3. CreatingInv'
  BY <1>1 DEF OwnInv, CreatingInv, Creating
<1>4. DoomedInv'
  BY <1>1 DEF OwnInv, SeenInv, DoomedInv, Ending
<1> QED
  BY <1>2, <1>3, <1>4 DEF OwnInv

\* What is removed has no host pod any more, and gets none.
LEMMA OwnRemoveVirtualPod ==
    ASSUME PodTypeOK, OwnInv, RemoveVirtualPod
    PROVE  OwnInv'
<1> USE Fields
<1>1. doomed # 0 /\ doomed' = 0 /\ UNCHANGED <<hostPod, world, podSeen, worker>>
  BY DEF RemoveVirtualPod, WritePod, settings, caches
<1>2. CASE pod' = pod
  <2>1. SeenInv' /\ GoneInv' /\ HostPodIsOwn' /\ CreatingInv'
    BY <1>1, <1>2 DEF OwnInv, SeenInv, GoneInv, HostPodIsOwn, CreatingInv, Creating
  <2>2. DoomedInv'
    BY <1>1, <1>2 DEF OwnInv, DoomedInv, Ending
  <2> QED
    BY <2>1, <2>2 DEF OwnInv
<1>3. CASE pod' = NoPod(pod.uid) /\ pod.uid = doomed /\ podSeen.uid = doomed
  <2>1. pod'.life = "absent" /\ pod'.uid = pod.uid
    BY <1>3 DEF NoPod
  <2>2. hostPod.life # "live" /\ ~Creating /\ podSeen.life # "live"
    BY <1>1, <1>3 DEF OwnInv, DoomedInv, CreatingInv, Ending
  <2>3. SeenInv' /\ GoneInv' /\ HostPodIsOwn' /\ CreatingInv'
    BY <1>1, <1>3, <2>1, <2>2
       DEF OwnInv, SeenInv, GoneInv, HostPodIsOwn, CreatingInv, Creating
  <2>4. DoomedInv'
    BY <1>1, <2>1 DEF OwnInv, DoomedInv, Ending
  <2> QED
    BY <2>3, <2>4 DEF OwnInv
<1> QED
  BY <1>2, <1>3 DEF RemoveVirtualPod, WritePod

\* TakePod: a name whose pod is seen alive goes to createPod or updatePod, one whose
\* pod is seen under deletion to deletePod.
LEMMA OwnTakePod ==
    ASSUME PodTypeOK, OwnInv, TakePod
    PROVE  OwnInv'
<1> USE Fields
<1>1. UNCHANGED <<world, pod, hostPod, podSeen, doomed>>
  BY DEF TakePod, settings, caches
<1>2. NoWorker \in Workers /\ podSeen \in PodObjects
  BY NoPodType DEF PodTypeOK
<1>3. \/ worker'.pc = "create" /\ podSeen.life = "live"
      \/ worker'.pc \in {"idle", "update"}
      \/ worker'.pc = "delete" /\ worker'.pod = podSeen
  BY <1>2 DEF TakePod, Workers
<1>4. podSeen.life = "live" => /\ pod.life # "absent" /\ podSeen.uid = pod.uid
                               /\ doomed # 0 => doomed # pod.uid
  BY DEF OwnInv, SeenInv, GoneInv, DoomedInv, Ending
<1>5. podSeen.life = "deleting" => Ending(podSeen.uid)
  BY DEF OwnInv, SeenInv, Ending
<1>6. WorkerMay
  BY <1>3, <1>4, <1>5 DEF WorkerMay, Creating
<1> QED
  BY <1>1, <1>6, OwnKept

\* createPod up to the host pod: it reads a version of the pod it was called for.
LEMMA OwnReadPod ==
    ASSUME PodTypeOK, OwnInv, ReadPod \/ TransformTokens
    PROVE  OwnInv'
<1> USE Fields
<1>1. UNCHANGED <<world, pod, hostPod, podSeen, doomed>> /\ Creating
  BY DEF ReadPod, TransformTokens, settings, caches, Creating
<1>2. worker \in Workers /\ worker.pc # "own" /\ worker.pc # "idle"
  BY <1>1 DEF PodTypeOK, Creating
<1>3. CASE Fail
  BY <1>1, <1>2, <1>3, FailWorker, OwnKept
<1>4. CASE Step("host") /\ TransformTokens
  <2>1. worker'.pc = "host" /\ worker'.pod = worker.pod /\ worker.pc = "token"
    BY <1>2, <1>4 DEF Step, TransformTokens, Workers
  <2>2. WorkerMay
    BY <1>1, <2>1 DEF WorkerMay, OwnInv, CreatingInv
  <2> QED
    BY <1>1, <2>2, OwnKept
<1>5. ASSUME NEW p \in Readable,
             worker' = [worker EXCEPT !.pc = IF "token" \in traits THEN "token" ELSE "host",
                                      !.pod = p]
      PROVE  OwnInv'
  <2>1. worker'.pc \in {"token", "host"} /\ worker'.pod = p
    BY <1>2, <1>5 DEF Workers
  <2>2. p.uid = pod.uid
    BY <1>1 DEF Readable, OwnInv, CreatingInv
  <2>3. WorkerMay
    BY <1>1, <2>1, <2>2 DEF WorkerMay, OwnInv, CreatingInv
  <2> QED
    BY <1>1, <2>3, OwnKept
<1> QED
  BY <1>3, <1>4, <1>5 DEF ReadPod, TransformTokens

LEMMA OwnCreateHostPod ==
    ASSUME PodTypeOK, OwnInv, CreateHostPod
    PROVE  OwnInv'
<1> USE Fields
<1>1. /\ worker.pc = "host" /\ Creating /\ worker \in Workers
      /\ UNCHANGED <<world, pod, podSeen, doomed>>
  BY DEF CreateHostPod, WriteHostPod, settings, caches, Creating, PodTypeOK
<1>2. CASE hostPod' = HostPodFor(worker.pod) /\ (Step("own") \/ Finish)
  <2>1. hostPod'.of = worker.pod.uid /\ worker.pod.uid = pod.uid
    BY <1>1, <1>2 DEF HostPodFor, OwnInv, CreatingInv
  <2>2. worker'.pc \in {"own", "idle"}
    BY <1>1, <1>2 DEF Step, Finish, NoWorker, Workers
  <2>3. pod.life # "absent" /\ (doomed # 0 => doomed # pod.uid)
    BY <1>1 DEF OwnInv, CreatingInv
  <2>4. SeenInv' /\ GoneInv' /\ HostPodIsOwn' /\ CreatingInv'
    BY <1>1, <2>1, <2>2, <2>3
       DEF OwnInv, SeenInv, GoneInv, HostPodIsOwn, CreatingInv, Creating
  <2>5. DoomedInv'
    BY <1>1, <2>2, <2>3 DEF OwnInv, DoomedInv, Ending
  <2> QED
    BY <2>4, <2>5 DEF OwnInv
<1>3. CASE Fail /\ UNCHANGED hostPod
  <2>1. WorkerMay
    BY <1>1, <1>3, FailWorker
  <2> QED
    BY <1>1, <1>3, <2>1, OwnKept
<1> QED
  BY <1>2, <1>3 DEF CreateHostPod, WriteHostPod

LEMMA OwnUpdate ==
    ASSUME PodTypeOK, OwnInv, SetOwner \/ UpdateHostPod \/ UpdateVirtualPod
    PROVE  OwnInv'
<1>1. /\ UNCHANGED <<world, podSeen, doomed>> /\ worker \in Workers
      /\ pod \in PodObjects /\ hostPod \in HostPods
  BY DEF SetOwner, UpdateHostPod, UpdateVirtualPod, settings, caches, PodTypeOK
<1>2. pod'.uid = pod.uid /\ pod'.life = pod.life
  <2>1. UNCHANGED pod \/ pod' = [pod EXCEPT !.image = worker.pod.image]
    BY DEF SetOwner, UpdateHostPod, UpdateVirtualPod, WritePod, WriteHostPod, Updated
  <2> QED
    BY <1>1, <2>1 DEF PodObjects
<1>3. hostPod'.life = hostPod.life /\ hostPod'.of = hostPod.of
  <2>1. UNCHANGED hostPod \/ hostPod' = [hostPod EXCEPT !.image = worker.pod.image]
    BY DEF SetOwner, UpdateHostPod, UpdateVirtualPod, WritePod, WriteHostPod, Updated
  <2> QED
    BY <1>1, <2>1 DEF HostPods
<1>4. WorkerMay
  <2>1. CASE Finish
    BY <2>1, IdleWorker DEF Finish
  <2>2. CASE Step("virtual")
    <3>1. worker'.pc = "virtual"
      BY <1>1, <2>2 DEF Step, Workers
    <3> QED
      BY <3>1 DEF WorkerMay, Creating
  <2>3. CASE Fail /\ worker.pc \in {"update", "virtual"}
    BY <2>3, FailWorker
  <2> QED
    BY <2>1, <2>2, <2>3 DEF SetOwner, UpdateHostPod, UpdateVirtualPod
<1> QED
  BY <1>1, <1>2, <1>3, <1>4, OwnKept

\* deletePod: a pod seen under deletion is doomed once its host pod is deleted.
LEMMA OwnDeleteHostPod ==
    ASSUME PodTypeOK, OwnInv, DeleteHostPod
    PROVE  OwnInv'
<1> USE Fields
<1>1. /\ worker.pc = "delete" /\ worker' = NoWorker /\ hostPod' = Deleted
      /\ doomed' = IF worker.pod.life = "deleting" THEN worker.pod.uid ELSE doomed
      /\ UNCHANGED <<world, pod, podSeen>>
  BY DEF DeleteHostPod, WriteHostPod, Finish, settings, caches
<1>2. hostPod'.life # "live"
  BY <1>1 DEF Deleted, HostPods, PodTypeOK
<1>3. worker'.pc = "idle"
  BY <1>1 DEF NoWorker
<1>4. SeenInv' /\ GoneInv' /\ HostPodIsOwn' /\ CreatingInv'
  BY <1>1, <1>2, <1>3 DEF OwnInv, SeenInv, GoneInv, HostPodIsOwn, CreatingInv, Creating
<1>5. DoomedInv'
  BY <1>1, <1>2, <1>3 DEF OwnInv, DoomedInv, Ending
<1> QED
  BY <1>4, <1>5 DEF OwnInv

LEMMA OwnFaults ==
    ASSUME PodTypeOK, OwnInv, PodCallFails \/ KubeletRestart
    PROVE  OwnInv'
<1> USE Fields
<1>1. CASE PodCallFails
  <2>1. UNCHANGED <<world, pod, hostPod, podSeen, doomed>>
    BY <1>1 DEF PodCallFails, settings, caches
  <2>2. WorkerMay
    <3>1. CASE Finish
      BY <3>1, IdleWorker DEF Finish
    <3>2. CASE Fail /\ worker.pc # "own" /\ worker.pc # "idle"
      BY <3>2, FailWorker
    <3> QED
      BY <1>1, <3>1, <3>2 DEF PodCallFails
  <2> QED
    BY <2>1, <2>2, OwnKept
<1>2. CASE KubeletRestart
  <2>1. /\ podSeen' = pod /\ doomed' = 0 /\ worker'.pc = "idle"
        /\ UNCHANGED <<world, pod, hostPod>>
    BY <1>2 DEF KubeletRestart, settings, NoWorker
  <2>2. SeenInv' /\ GoneInv' /\ HostPodIsOwn' /\ CreatingInv' /\ DoomedInv'
    BY <2>1 DEF OwnInv, SeenInv, GoneInv, HostPodIsOwn, CreatingInv, Creating, DoomedInv
  <2> QED
    BY <2>2 DEF OwnInv
<1> QED
  BY <1>1, <1>2

LEMMA OwnNext ==
    ASSUME PodTypeOK, OwnInv, "force" \notin world, [PodNext]_podVars
    PROVE  OwnInv'
<1>1. CASE PodNext
  <2>1. ~ForceDeleteVirtualPod
    BY DEF ForceDeleteVirtualPod
  <2>2. CASE WorkerStep
    BY <2>2, OwnTakePod, OwnReadPod, OwnCreateHostPod, OwnUpdate, OwnDeleteHostPod
       DEF WorkerStep
  <2> QED
    BY <1>1, <2>1, <2>2, OwnClusterSteps, OwnCreateVirtualPod, OwnSyncVirtualPod,
       OwnRemoveVirtualPod, OwnFaults DEF PodNext
<1>2. CASE UNCHANGED podVars
  <2>1. UNCHANGED <<world, pod, hostPod, podSeen, doomed, worker>>
    BY <1>2 DEF podVars
  <2> QED
    BY <2>1, SameWorker, OwnKept
<1> QED
  BY <1>1, <1>2

\* Whether virtual pods are removed by force is given.
LEMMA WorldFixed == [PodNext]_podVars => world' = world
BY DEF PodNext, WorkerStep, podVars, settings,
       CreateVirtualPod, EditVirtualPod, DeleteVirtualPod, ForceDeleteVirtualPod, EvictHostPod,
       RemoveHostPod, CollectSecret, ChangeSchedulers, SyncVirtualPod, SyncHostPod,
       SyncController, TakePod, ReadPod, TransformTokens, CreateHostPod, SetOwner,
       UpdateHostPod, UpdateVirtualPod, DeleteHostPod, RemoveVirtualPod, RefreshOwner,
       RefreshToken, ReconcileHostPod, PodCallFails, KubeletRestart

-----------------------------------------------------------------------------
(* Whose token it is.                                                       *)

\* The secret of the name holds a token of the pod for which createPod is about to
\* create a host pod, and of that of a live host pod.
BoundInv ==
    /\ worker.pc = "host" /\ secret.exists => secret.bound = worker.pod.uid
    /\ hostPod.life = "live" /\ secret.exists => secret.bound = hostPod.of

TokenInv == PodInv /\ ("force" \notin world /\ "token" \in traits => BoundInv)

\* A step that binds no token and creates no host pod.
LEMMA BoundKept ==
    ASSUME BoundInv,
           secret'.exists => secret.exists /\ secret'.bound = secret.bound,
           hostPod'.life = "live" => hostPod.life = "live" /\ hostPod'.of = hostPod.of,
           worker'.pc = "host" => worker.pc = "host" /\ worker'.pod.uid = worker.pod.uid
    PROVE  BoundInv'
BY DEF BoundInv

LEMMA IdleBound == ASSUME worker' = NoWorker PROVE worker'.pc # "host"
BY DEF NoWorker

LEMMA FailBound == ASSUME PodTypeOK, Fail PROVE worker'.pc # "host"
<1>1. worker \in Workers
  BY DEF PodTypeOK
<1>2. First # "host"
  BY DEF First
<1>3. CASE GiveUp
  BY <1>3, IdleBound DEF GiveUp
<1>4. CASE worker' = [worker EXCEPT !.pc = First, !.retries = @ + 1,
                                    !.pod = IF First = "create" THEN NoPod(0) ELSE @]
  BY <1>1, <1>2, <1>4 DEF Workers
<1> QED
  BY <1>3, <1>4 DEF Fail

\* The clusters, the watches, and the owner of the secret.
LEMMA BoundOtherSteps ==
    ASSUME PodTypeOK, BoundInv,
           \/ CreateVirtualPod \/ EditVirtualPod \/ DeleteVirtualPod
           \/ EvictHostPod \/ RemoveHostPod \/ CollectSecret \/ ChangeSchedulers
           \/ SyncVirtualPod \/ SyncHostPod \/ SyncController
           \/ RemoveVirtualPod \/ RefreshOwner \/ ReconcileHostPod
    PROVE  BoundInv'
<1>1. worker' = worker
  BY DEF CreateVirtualPod, EditVirtualPod, DeleteVirtualPod, EvictHostPod, RemoveHostPod,
         CollectSecret, ChangeSchedulers, SyncVirtualPod, SyncHostPod, SyncController,
         RemoveVirtualPod, RefreshOwner, ReconcileHostPod
<1>2. secret \in Secrets /\ hostPod \in HostPods
  BY DEF PodTypeOK
<1>3. hostPod'.life = "live" => hostPod.life = "live" /\ hostPod'.of = hostPod.of
  BY <1>2 DEF CreateVirtualPod, EditVirtualPod, DeleteVirtualPod, EvictHostPod, RemoveHostPod,
         CollectSecret, ChangeSchedulers, SyncVirtualPod, SyncHostPod, SyncController,
         RemoveVirtualPod, RefreshOwner, ReconcileHostPod, WritePod, WriteHostPod, NoHostPod,
         HostPods
<1>4. secret'.exists => secret.exists /\ secret'.bound = secret.bound
  <2>1. CASE CollectSecret
    BY <2>1 DEF CollectSecret, NoSecret
  <2>2. CASE RefreshOwner
    BY <1>2, <2>2 DEF RefreshOwner, Owned, Secrets
  <2>3. CASE ~CollectSecret /\ ~RefreshOwner
    BY <2>3 DEF CreateVirtualPod, EditVirtualPod, DeleteVirtualPod, EvictHostPod, RemoveHostPod,
         ChangeSchedulers, SyncVirtualPod, SyncHostPod, SyncController,
         RemoveVirtualPod, ReconcileHostPod, WritePod, WriteHostPod
  <2> QED
    BY <2>1, <2>2, <2>3
<1> QED
  BY <1>1, <1>3, <1>4, BoundKept

\* The refresher asks for a token of the pod that has the name now.
LEMMA BoundRefreshToken ==
    ASSUME PodTypeOK, OwnInv, BoundInv, "force" \notin world, RefreshToken
    PROVE  BoundInv'
<1>1. PICK p \in RefreshablePods : TokenGranted(p) /\ secret' = TokenSecret(p)
  BY DEF RefreshToken
<1>2. secret'.bound = pod.uid
  BY <1>1 DEF TokenGranted, TokenSecret, PodTypeOK, Secrets
<1>3. UNCHANGED <<pod, hostPod, worker>>
  BY DEF RefreshToken
<1> QED
  BY <1>2, <1>3 DEF OwnInv, CreatingInv, HostPodIsOwn, BoundInv

\* createPod, and the other calls of the provider.
LEMMA BoundWorkerStep ==
    ASSUME PodTypeOK, OwnInv, BoundInv, "force" \notin world, "token" \in traits, WorkerStep
    PROVE  BoundInv'
<1>1. worker \in Workers /\ secret \in Secrets /\ hostPod \in HostPods
  BY DEF PodTypeOK
<1>2. CASE TakePod
  <2>1. worker'.pc # "host"
    BY <1>2 DEF TakePod, NoWorker
  <2> QED
    BY <1>2, <2>1, BoundKept DEF TakePod
<1>3. CASE ReadPod
  <2>1. worker'.pc # "host"
    BY <1>1, <1>3, FailBound DEF ReadPod, Workers
  <2> QED
    BY <1>3, <2>1, BoundKept DEF ReadPod
<1>4. CASE TransformTokens
  <2>1. CASE TokenGranted(worker.pod)
    <3>1. secret'.bound = pod.uid /\ pod.uid = worker.pod.uid
      BY <1>1, <1>4, <2>1 DEF TransformTokens, TokenGranted, TokenSecret, Secrets
    <3>2. worker'.pod = worker.pod
      BY <1>1, <1>4, <2>1 DEF TransformTokens, Step, Workers
    <3>3. UNCHANGED <<pod, hostPod>>
      BY <1>4 DEF TransformTokens
    <3> QED
      BY <3>1, <3>2, <3>3 DEF OwnInv, HostPodIsOwn, BoundInv
  <2>2. CASE ~TokenGranted(worker.pod)
    <3>1. worker'.pc # "host" /\ UNCHANGED <<secret, hostPod>>
      BY <1>4, <2>2, FailBound DEF TransformTokens
    <3> QED
      BY <3>1, BoundKept
  <2> QED
    BY <2>1, <2>2
<1>5. CASE CreateHostPod
  <2>1. CASE hostPod.life = "absent"
    <3>1. /\ hostPod' = HostPodFor(worker.pod) /\ secret' = secret
          /\ worker.pc = "host" /\ worker' = [worker EXCEPT !.pc = "own"]
      BY <1>5, <2>1 DEF CreateHostPod, WriteHostPod, Step
    <3>2. hostPod'.of = worker.pod.uid /\ worker'.pc # "host"
      BY <1>1, <3>1 DEF HostPodFor, Workers
    <3> QED
      BY <3>1, <3>2 DEF BoundInv
  <2>2. CASE hostPod.life # "absent"
    <3>1. worker'.pc # "host" /\ UNCHANGED <<secret, hostPod>>
      BY <1>5, <2>2, FailBound DEF CreateHostPod
    <3> QED
      BY <3>1, BoundKept
  <2> QED
    BY <2>1, <2>2
<1>6. CASE SetOwner
  <2>1. worker'.pc # "host" /\ hostPod' = hostPod
    BY <1>6, IdleBound DEF SetOwner, Finish
  <2>2. secret'.exists => secret.exists /\ secret'.bound = secret.bound
    BY <1>1, <1>6 DEF SetOwner, Owned, Secrets
  <2> QED
    BY <2>1, <2>2, BoundKept
<1>7. CASE UpdateHostPod
  <2>1. worker'.pc # "host"
    BY <1>1, <1>7, FailBound DEF UpdateHostPod, Step, Workers
  <2>2. secret' = secret /\ (hostPod'.life = "live" => hostPod.life = "live" /\ hostPod'.of = hostPod.of)
    BY <1>1, <1>7 DEF UpdateHostPod, WriteHostPod, Updated, HostPods
  <2> QED
    BY <2>1, <2>2, BoundKept
<1>8. CASE UpdateVirtualPod
  <2>1. worker'.pc # "host"
    BY <1>8, FailBound, IdleBound DEF UpdateVirtualPod, Finish
  <2>2. UNCHANGED <<secret, hostPod>>
    BY <1>8 DEF UpdateVirtualPod, WritePod
  <2> QED
    BY <2>1, <2>2, BoundKept
<1>9. CASE DeleteHostPod
  <2>1. worker'.pc # "host"
    BY <1>9, IdleBound DEF DeleteHostPod, Finish
  <2>2. secret' = secret /\ hostPod' = Deleted
    BY <1>9 DEF DeleteHostPod, WriteHostPod
  <2>3. Deleted.life # "live"
    BY <1>1 DEF Deleted, HostPods
  <2> QED
    BY <2>1, <2>2, <2>3, BoundKept
<1> QED
  BY <1>2, <1>3, <1>4, <1>5, <1>6, <1>7, <1>8, <1>9 DEF WorkerStep

LEMMA BoundNext ==
    ASSUME PodTypeOK, OwnInv, BoundInv, "force" \notin world, "token" \in traits,
           [PodNext]_podVars
    PROVE  BoundInv'
<1>1. CASE UNCHANGED podVars
  <2>1. UNCHANGED <<secret, hostPod, worker>>
    BY <1>1 DEF podVars
  <2> QED
    BY <2>1, BoundKept
<1>2. CASE PodCallFails \/ KubeletRestart
  <2>1. worker'.pc # "host"
    BY <1>2, FailBound, IdleBound DEF PodCallFails, KubeletRestart, Finish
  <2>2. UNCHANGED <<secret, hostPod>>
    BY <1>2 DEF PodCallFails, KubeletRestart
  <2> QED
    BY <2>1, <2>2, BoundKept
<1>3. ~ForceDeleteVirtualPod
  BY DEF ForceDeleteVirtualPod
<1> QED
  BY <1>1, <1>2, <1>3, BoundOtherSteps, BoundRefreshToken, BoundWorkerStep DEF PodNext

\* What a pod is like is given.
LEMMA TraitsFixed == [PodNext]_podVars => traits' = traits
BY DEF PodNext, WorkerStep, podVars, settings,
       CreateVirtualPod, EditVirtualPod, DeleteVirtualPod, ForceDeleteVirtualPod, EvictHostPod,
       RemoveHostPod, CollectSecret, ChangeSchedulers, SyncVirtualPod, SyncHostPod,
       SyncController, TakePod, ReadPod, TransformTokens, CreateHostPod, SetOwner,
       UpdateHostPod, UpdateVirtualPod, DeleteHostPod, RemoveVirtualPod, RefreshOwner,
       RefreshToken, ReconcileHostPod, PodCallFails, KubeletRestart

-----------------------------------------------------------------------------
(* The theorems.                                                            *)

LEMMA PodInvariance == PodSpec => []PodInv
<1>1. PodInit => PodInv
  BY TypeInit, OwnInit DEF PodInv
<1>2. PodInv /\ [PodNext]_podVars => PodInv'
  BY TypeNext, OwnNext, WorldFixed DEF PodInv
<1> QED
  BY <1>1, <1>2, PTL DEF PodSpec

\* The pods of a shared mode cluster, the calls to the provider and the token secret
\* keep their types, with any number of pods under a name, attempts and faults.
THEOREM PodTypeCorrect == PodSpec => []PodTypeOK
<1>1. PodInv => PodTypeOK
  BY DEF PodInv
<1> QED
  BY <1>1, PodInvariance, PTL

\* The provider finds host pods by name only, and still leaves none alive whose virtual
\* pod is gone or is a predecessor of the one that has the name now, unless virtual pods
\* are removed by force: createPod works for the pod that has the name now, and the
\* virtual pod goes after deletePod deleted the host pod and nothing created it again.
THEOREM PodKeepsHostPod == PodSpec => []HostPodIsOwn
<1>1. PodInv => HostPodIsOwn
  BY DEF PodInv, OwnInv, HostPodIsOwn
<1> QED
  BY <1>1, PodInvariance, PTL

\* A live host pod never mounts the token of another pod of its name, unless virtual pods
\* are removed by force: createPod binds the token of the secret it finds before it
\* creates the host pod, the virtual cluster refuses a token for a pod that is gone, and
\* a new pod of the name comes after its predecessor's host pod is no longer live.
THEOREM PodKeepsToken == PodSpec => []TokenIsOwn
<1>1. PodInit => TokenInv
  <2>1. PodInit => PodInv
    BY TypeInit, OwnInit DEF PodInv
  <2>2. PodInit => BoundInv
    BY DEF PodInit, BoundInv, NoHostPod, NoWorker, NoSecret
  <2> QED
    BY <2>1, <2>2 DEF TokenInv
<1>2. TokenInv /\ [PodNext]_podVars => TokenInv'
  BY TypeNext, OwnNext, WorldFixed, TraitsFixed, BoundNext DEF TokenInv, PodInv
<1>3. TokenInv => TokenIsOwn
  BY DEF TokenInv, BoundInv, TokenIsOwn
<1> QED
  BY <1>1, <1>2, <1>3, PTL DEF PodSpec
=============================================================================
