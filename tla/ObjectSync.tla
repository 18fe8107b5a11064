---------------------------- MODULE ObjectSync ----------------------------
(***************************************************************************)
(* The resource syncers of the shared mode kubelet,                        *)
(* k3k-kubelet/controller/syncer: each copies the objects of one kind from *)
(* the virtual cluster to the host cluster, under a finalizer.             *)
(*                                                                         *)
(* An object is known by its name, reconciles of different names share     *)
(* nothing, and a controller runs at most one reconcile of a name: one     *)
(* name is modelled, whose object may be created again after a deletion.   *)
(* The kinds differ in the last part of Reconcile:                         *)
(*   "plain"          ConfigMaps, Secrets and Services: the copy is         *)
(*                    overwritten without regard to its version;           *)
(*   "priorityclass"  the copy is overwritten if it is the version read;   *)
(*   "ingress"        as "plain", and the status of the copy comes back;   *)
(*   "pvc"            the copy is only created, with a PersistentVolume in *)
(*                    the virtual cluster to which the claim is bound.     *)
(* The services kubernetes and kube-dns and the priority classes system-*  *)
(* are never reconciled and are not among the objects here.                *)
(***************************************************************************)
EXTENDS Naturals

CONSTANTS
    Kinds,          \* the kinds of objects to look at
    MaxObjects,     \* bound on the objects created under the name
    MaxEdits,       \* bound on edits: of an object, of the configuration, of a copy
    MaxSyncFaults   \* bound on failed calls and restarts

ASSUME SyncAssumption ==
    /\ Kinds \subseteq {"plain", "priorityclass", "ingress", "pvc"}
    /\ MaxObjects \in Nat \ {0}
    /\ MaxEdits \in Nat
    /\ MaxSyncFaults \in Nat

VARIABLES
    kind,           \* the kind of the object
    enabled,        \* cluster.Spec.Sync.<kind>.Enabled
    object,         \* the object in the virtual cluster
    objectSeen,     \* ... in the cache of the virtual manager
    copy,           \* its copy in the host cluster
    copySeen,       \* ... in the cache of the host manager
    volume,         \* the PersistentVolume of a claim in the virtual cluster
    request,        \* the name is in the controller's queue
    sync,           \* the running reconcile
    edits,
    syncFaults

syncVars == <<kind, enabled, object, objectSeen, copy, copySeen, volume,
              request, sync, edits, syncFaults>>

clusterVars == <<object, objectSeen, copy, copySeen, volume>>
boundVars   == <<edits, syncFaults>>

\* The version counts the edits of spec, data and labels; match says whether the
\* labels match the selector of the configuration. Two objects of the name differ
\* in uid, so that an object equals its current version only if it is that version.
\* A claim is bound in two writes: its volumeName, then its phase.
Objects == [life : {"absent", "live", "deleting"}, uid : 0 .. MaxObjects,
            version : 0 .. MaxEdits, match : BOOLEAN, finalizer : BOOLEAN,
            status : {0, 1}, bound : {"no", "named", "bound"}]
NoObject(uid) == [life |-> "absent", uid |-> uid, version |-> 0, match |-> FALSE,
                  finalizer |-> FALSE, status |-> 0, bound |-> "no"]

\* A host PersistentVolumeClaim that is in use survives its deletion for a while.
Copies == [life : {"absent", "live", "deleting"}, uid : 0 .. MaxObjects,
           version : 0 .. MaxEdits, match : BOOLEAN, status : {0, 1}]
NoCopy == [life |-> "absent", uid |-> 0, version |-> 0, match |-> FALSE, status |-> 0]

SyncSteps == {"idle", "deleteCopy", "deleteVolume", "release", "addFinalizer", "find",
              "create", "update", "status", "createVolume", "volumeStatus", "bind", "phase"}
Syncs == [pc : SyncSteps, of : Objects, found : Copies]
NoSync == [pc |-> "idle", of |-> NoObject(0), found |-> NoCopy]

SyncTypeOK ==
    /\ kind \in Kinds
    /\ enabled \in BOOLEAN
    /\ object \in Objects /\ objectSeen \in Objects
    /\ copy \in Copies /\ copySeen \in Copies
    /\ volume \in {"absent", "created", "bound"}
    /\ request \in BOOLEAN
    /\ sync \in Syncs
    /\ edits \in 0 .. MaxEdits
    /\ syncFaults \in 0 .. MaxSyncFaults

SyncInit ==
    /\ kind \in Kinds
    /\ enabled \in BOOLEAN
    /\ object = NoObject(0) /\ objectSeen = object
    /\ copy = NoCopy /\ copySeen = NoCopy
    /\ volume = "absent"
    /\ request = FALSE
    /\ sync = NoSync
    /\ edits = 0
    /\ syncFaults = 0

-----------------------------------------------------------------------------
(* The users of the two clusters.                                           *)

Edit == edits < MaxEdits /\ edits' = edits + 1 /\ UNCHANGED syncFaults

CreateObject ==
    /\ object.life = "absent" /\ object.uid < MaxObjects
    /\ \E match \in BOOLEAN :
          object' = [NoObject(object.uid + 1) EXCEPT !.life = "live", !.match = match]
    /\ UNCHANGED <<kind, enabled, objectSeen, copy, copySeen, volume, request, sync, boundVars>>

\* The labels of an object under deletion may change as well.
EditObject ==
    /\ Edit
    /\ object.life # "absent"
    /\ \E match \in BOOLEAN :
          object' = [object EXCEPT !.version = edits + 1, !.match = match]
    /\ UNCHANGED <<kind, enabled, objectSeen, copy, copySeen, volume, request, sync>>

DeleteObject ==
    /\ object.life = "live"
    /\ object' = IF object.finalizer THEN [object EXCEPT !.life = "deleting"]
                                     ELSE NoObject(object.uid)
    /\ UNCHANGED <<kind, enabled, objectSeen, copy, copySeen, volume, request, sync, boundVars>>

\* The sync configuration in the Cluster; nothing watches it.
ToggleSync ==
    /\ Edit
    /\ enabled' = ~enabled
    /\ UNCHANGED <<kind, clusterVars, request, sync>>

\* Someone deletes the copy in the host cluster.
LoseCopy ==
    /\ Edit
    /\ copy.life = "live"
    /\ copy' = NoCopy
    /\ UNCHANGED <<kind, enabled, object, objectSeen, copySeen, volume, request, sync>>

\* The pods that use a host claim under deletion are gone.
RemoveCopy ==
    /\ copy.life = "deleting"
    /\ copy' = NoCopy
    /\ UNCHANGED <<kind, enabled, object, objectSeen, copySeen, volume, request, sync, boundVars>>

\* The host's ingress controller publishes the address.
PublishStatus ==
    /\ kind = "ingress" /\ copy.life = "live" /\ copy.status = 0
    /\ copy' = [copy EXCEPT !.status = 1]
    /\ UNCHANGED <<kind, enabled, object, objectSeen, copySeen, volume, request, sync, boundVars>>

-----------------------------------------------------------------------------
(* Events.                                                                  *)

\* Mutant: an object whose syncing is off is filtered out even under deletion.
FilterResourcesEnabled(o) == enabled /\ o.match

\* filterResources: with syncing disabled only deletions are handled; otherwise
\* the labels decide (an empty selector matches every label).
FilterResources(o) == IF enabled THEN o.match ELSE o.life = "deleting"

\* A watch delivers the object as it is now; the event of a removal carries the
\* last state known.
SyncObject ==
    /\ objectSeen # object
    /\ objectSeen' = object
    /\ request' = (request \/ FilterResources(IF object.life = "absent" THEN objectSeen ELSE object))
    /\ UNCHANGED <<kind, enabled, object, copy, copySeen, volume, sync, boundVars>>

\* Only the ingress syncer watches the copies (filterHostIngress), which carry the
\* labels of the object they were made from.
FilterHostIngress(c) == kind = "ingress" /\ FilterResources(c)

SyncCopy ==
    /\ copySeen # copy
    /\ copySeen' = copy
    /\ request' = (request \/ FilterHostIngress(IF copy.life = "absent" THEN copySeen ELSE copy))
    /\ UNCHANGED <<kind, enabled, object, objectSeen, copy, volume, sync, boundVars>>

\* The cache hands out its objects again every ten hours.
ResyncObject ==
    /\ objectSeen.life # "absent" /\ ~request /\ sync.pc = "idle"
    /\ FilterResources(objectSeen)
    /\ request' = TRUE
    /\ UNCHANGED <<kind, enabled, clusterVars, sync, boundVars>>

-----------------------------------------------------------------------------
(* Reconcile.                                                               *)

Goto(step) == sync' = [sync EXCEPT !.pc = step]
Done  == sync' = NoSync /\ UNCHANGED request
Error == sync' = NoSync /\ request' = TRUE

\* Mutant: the copy is written without a finalizer on the object.
FirstStepUnprotected(o) == IF o.life = "deleting" THEN "deleteCopy" ELSE "find"

\* Deletion first, then the finalizer, then the copy.
FirstStep(o) ==
    CASE o.life = "absent"   -> "idle"
      [] o.life = "deleting" -> "deleteCopy"
      [] OTHER               -> IF o.finalizer THEN "find" ELSE "addFinalizer"

StartSync ==
    /\ request /\ sync.pc = "idle"
    /\ request' = FALSE
    /\ sync' = IF objectSeen.life = "absent"
               THEN NoSync
               ELSE [NoSync EXCEPT !.pc = FirstStep(objectSeen), !.of = objectSeen]
    /\ UNCHANGED <<kind, enabled, clusterVars, boundVars>>

\* A copy that is not there is as good as deleted.
DeleteCopy ==
    /\ sync.pc = "deleteCopy"
    /\ IF kind = "pvc" /\ copy.life = "live"
       THEN copy' \in {NoCopy, [copy EXCEPT !.life = "deleting"]}
       ELSE copy' = IF copy.life = "deleting" THEN copy ELSE NoCopy
    /\ Goto(IF kind = "pvc" THEN "deleteVolume" ELSE "release")
    /\ UNCHANGED <<kind, enabled, object, objectSeen, copySeen, volume, request, boundVars>>

DeleteVolume ==
    /\ sync.pc = "deleteVolume"
    /\ volume' = "absent"
    /\ Goto("release")
    /\ UNCHANGED <<kind, enabled, object, objectSeen, copy, copySeen, request, boundVars>>

\* Update of the object from the copy that the reconcile has read: it must be the
\* current version.
UpdateObject(o) == object = sync.of /\ object' = o

\* The finalizer is the object's last one.
ReleaseObject ==
    /\ sync.pc = "release"
    /\ \/ UpdateObject(NoObject(sync.of.uid)) /\ Done
       \/ object # sync.of /\ Error /\ UNCHANGED object
    /\ UNCHANGED <<kind, enabled, objectSeen, copy, copySeen, volume, boundVars>>

AddSyncFinalizer ==
    /\ sync.pc = "addFinalizer"
    /\ LET o == [sync.of EXCEPT !.finalizer = TRUE]
       IN \/ UpdateObject(o) /\ sync' = [sync EXCEPT !.pc = "find", !.of = o] /\ UNCHANGED request
          \/ object # sync.of /\ Error /\ UNCHANGED object
    /\ UNCHANGED <<kind, enabled, objectSeen, copy, copySeen, volume, boundVars>>

\* Mutant: whatever has a copy is left alone.
FindCopyOnce ==
    /\ sync.pc = "find"
    /\ \/ copySeen.life = "absent" /\ Goto("create") /\ UNCHANGED request
       \/ copySeen.life # "absent" /\ Done
    /\ UNCHANGED <<kind, enabled, clusterVars, boundVars>>

\* The Get of the copy; a claim that has one is left alone.
FindCopy ==
    /\ sync.pc = "find"
    /\ \/ copySeen.life = "absent" /\ Goto("create") /\ UNCHANGED request
       \/ copySeen.life # "absent" /\ kind = "pvc" /\ Done
       \/ /\ copySeen.life # "absent" /\ kind # "pvc"
          /\ sync' = [sync EXCEPT !.pc = "update", !.found = copySeen]
          /\ UNCHANGED request
    /\ UNCHANGED <<kind, enabled, clusterVars, boundVars>>

\* TranslateTo and what the kinds change besides: names of other objects, the
\* global default of a priority class, the type of a token secret.
Translated(o) == [life |-> "live", uid |-> o.uid, version |-> o.version,
                  match |-> o.match, status |-> 0]

CreateCopy ==
    /\ sync.pc = "create"
    /\ copy' = IF copy.life = "absent" THEN Translated(sync.of) ELSE copy
    /\ IF kind = "pvc" THEN Goto("createVolume") /\ UNCHANGED request
       ELSE IF copy.life = "absent" THEN Done ELSE Error
    /\ UNCHANGED <<kind, enabled, object, objectSeen, copySeen, volume, boundVars>>

\* The status is not part of an Update.
UpdateCopy ==
    /\ sync.pc = "update"
    /\ IF copy.life = "live" /\ (kind = "priorityclass" => copy = sync.found)
       THEN /\ copy' = [Translated(sync.of) EXCEPT !.status = copy.status]
            /\ IF kind = "ingress" THEN Goto("status") /\ UNCHANGED request ELSE Done
       ELSE Error /\ UNCHANGED copy
    /\ UNCHANGED <<kind, enabled, object, objectSeen, copySeen, volume, boundVars>>

\* syncStatus: a patch of the status, if the copies that were read differ in it.
\* The object is still there, thanks to the finalizer.
SyncStatus ==
    /\ sync.pc = "status"
    /\ object' = IF sync.of.status = sync.found.status
                 THEN object ELSE [object EXCEPT !.status = sync.found.status]
    /\ Done
    /\ UNCHANGED <<kind, enabled, objectSeen, copy, copySeen, volume, boundVars>>

\* createVirtualPersistentVolume, in four calls. The volume may be there already:
\* a reconcile that failed in between left it. (Its name is the claim's, without the
\* namespace; here no other claim has that name.)
CreateVolume ==
    /\ sync.pc = "createVolume"
    /\ volume' = IF volume = "absent" THEN "created" ELSE volume
    /\ Goto("volumeStatus")
    /\ UNCHANGED <<kind, enabled, object, objectSeen, copy, copySeen, request, boundVars>>

PatchVolumeStatus ==
    /\ sync.pc = "volumeStatus"
    /\ volume' = "bound"
    /\ Goto("bind")
    /\ UNCHANGED <<kind, enabled, object, objectSeen, copy, copySeen, request, boundVars>>

\* The claim's volumeName; its status is written to the version that this returns.
BindClaim ==
    /\ sync.pc = "bind"
    /\ LET o == [sync.of EXCEPT !.bound = "named"]
       IN \/ UpdateObject(o) /\ sync' = [sync EXCEPT !.pc = "phase", !.of = o] /\ UNCHANGED request
          \/ object # sync.of /\ Error /\ UNCHANGED object
    /\ UNCHANGED <<kind, enabled, objectSeen, copy, copySeen, volume, boundVars>>

UpdateClaimStatus ==
    /\ sync.pc = "phase"
    /\ \/ UpdateObject([sync.of EXCEPT !.bound = "bound"]) /\ Done
       \/ object # sync.of /\ Error /\ UNCHANGED object
    /\ UNCHANGED <<kind, enabled, objectSeen, copy, copySeen, volume, boundVars>>

-----------------------------------------------------------------------------
(* Failures. A call that is carried out and whose reply is lost is one that *)
(* succeeds and is followed by one that fails.                              *)

SyncDisturb == syncFaults < MaxSyncFaults /\ syncFaults' = syncFaults + 1 /\ UNCHANGED edits

SyncCallFails ==
    /\ SyncDisturb
    /\ sync.pc # "idle"
    /\ Error
    /\ UNCHANGED <<kind, enabled, clusterVars>>

\* The kubelet stops, or loses its lease, and another one starts: every object is
\* listed and goes through the filter.
SyncRestart ==
    /\ SyncDisturb
    /\ objectSeen' = object /\ copySeen' = copy
    /\ sync' = NoSync
    /\ request' = (object.life # "absent" /\ FilterResources(object))
    /\ UNCHANGED <<kind, enabled, object, copy, volume>>

-----------------------------------------------------------------------------
SyncStep ==
    \/ StartSync \/ DeleteCopy \/ DeleteVolume \/ ReleaseObject \/ AddSyncFinalizer
    \/ FindCopy \/ CreateCopy \/ UpdateCopy \/ SyncStatus
    \/ CreateVolume \/ PatchVolumeStatus \/ BindClaim \/ UpdateClaimStatus

SyncNext ==
    \/ CreateObject \/ EditObject \/ DeleteObject \/ ToggleSync \/ LoseCopy
    \/ RemoveCopy \/ PublishStatus
    \/ SyncObject \/ SyncCopy \/ ResyncObject
    \/ SyncStep
    \/ SyncCallFails \/ SyncRestart

\* Watches deliver, a queued name is reconciled, reconciles go on, and the cache
\* is handed out again and again (controller-runtime's SyncPeriod).
SyncFairness ==
    /\ WF_syncVars(SyncObject) /\ WF_syncVars(SyncCopy)
    /\ WF_syncVars(SyncStep) /\ WF_syncVars(ResyncObject)

-----------------------------------------------------------------------------
(* Properties.                                                              *)

\* A copy never outlives its object unnoticed: whatever exists in the host
\* cluster and is not being removed belongs to an object that still exists in the
\* virtual cluster and carries the finalizer, so that deleting the object deletes
\* the copy. This takes the finalizer to be written before the copy, and to be
\* removed by no reconcile that works on an old copy of the object.
CopyHasSource ==
    copy.life = "live" => object.life # "absent" /\ object.finalizer /\ object.uid = copy.uid

\* An object that stays, matches, and whose kind is synced ends up with a copy of
\* its last version, in spite of late caches, conflicts, failures, restarts and a
\* copy deleted in the host cluster; and an Ingress with the status of its copy.
\* (A claim is copied once: see the README.)
ObjectConverges ==
    (kind # "pvc" /\ <>[](object.life = "live" /\ object.match /\ enabled))
    => <>[](/\ copy.life = "live"
            /\ copy.uid = object.uid /\ copy.version = object.version
            /\ object.status = copy.status)

\* An object under deletion disappears, whether or not its kind is still synced,
\* as long as its labels match the selector: an object that is edited out of the
\* selection keeps the finalizer (see the README).
ObjectDeletionCompletes ==
    <>[](enabled => object.match)
    => (object.life = "deleting" ~> object.life # "deleting")
=============================================================================
