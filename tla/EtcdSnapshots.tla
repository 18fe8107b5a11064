--------------------------- MODULE EtcdSnapshots ---------------------------
(***************************************************************************)
(* The snapshot controller, pkg/controller/snapshot/snapshot.go: an        *)
(* EtcdSnapshot makes the k3s server of a virtual cluster save a file,     *)
(* whose name is written to the status, and deleting the EtcdSnapshot      *)
(* deletes that file.  The k3s calls are those of pkg/k3s/snapshot.go.     *)
(*                                                                         *)
(* As in PortAllocator, reads come from an informer cache and a write      *)
(* succeeds if and only if the copy it is based on is the current version. *)
(* k3s puts a timestamp into a file name, so every save makes a new name,  *)
(* and keeps a bounded number of files: a name of Names that no one refers *)
(* to stands for a new file, whatever it stood for before.                 *)
(***************************************************************************)
EXTENDS Integers, FiniteSets

CONSTANTS
    Snapshots,    \* namespace/name keys of EtcdSnapshots of one virtual cluster
    Names,        \* file names; their number bounds the files k3s keeps of a snapshot
    NoFile,       \* no file name in the status
    MaxFaults     \* bound on failed calls, restarts, metadata edits and prunings

\* A save must find a name other than the recorded and the copied one.
ASSUME SnapshotsAssumption ==
    IsFiniteSet(Names) /\ Cardinality(Names) > 2 /\ NoFile \notin Names /\ MaxFaults \in Nat

VARIABLES
    cluster,      \* the Cluster the snapshots refer to
    snapshot,     \* the EtcdSnapshot objects in the API server
    cached,       \* ... in the informer cache
    cachedFresh,  \* cachedFresh[s]: cached[s] is the current version
    rec,          \* the running reconciles, at most one per snapshot
    queue,        \* the work queue
    files,        \* files[s]: the files of s k3s has
    faults

objVars == <<snapshot, cached, cachedFresh>>
vars    == <<cluster, snapshot, cached, cachedFresh, rec, queue, files, faults>>

Life == {"absent", "live", "deleting", "gone"}

\* file: Status.Filename; ready: the condition Ready.
Objects == [life : Life, finalizer : BOOLEAN, file : Names \cup {NoFile},
            ready : {"none", "False", "True"}]
Absent  == [life |-> "absent", finalizer |-> FALSE, file |-> NoFile, ready |-> "none"]
Exists(object) == object.life \in {"live", "deleting"}

Steps == {"idle", "getCluster", "addFinalizer", "save", "list", "recordFile", "recordReady",
          "deleteFile", "removeFinalizer", "failed"}

\* A running reconcile: the object as read and as changed in memory, whether it
\* is still the current version, and the file SaveSnapshot has made.
Reconciles == [pc : Steps, copy : Objects, fresh : BOOLEAN, file : Names \cup {NoFile}]
Idle == [pc |-> "idle", copy |-> Absent, fresh |-> FALSE, file |-> NoFile]

TypeOK ==
    /\ cluster \in [life : Life \ {"absent"}, ready : BOOLEAN]
    /\ snapshot \in [Snapshots -> Objects]
    /\ cached \in [Snapshots -> Objects]
    /\ cachedFresh \in [Snapshots -> BOOLEAN]
    /\ rec \in [Snapshots -> Reconciles]
    /\ queue \subseteq Snapshots
    /\ files \in [Snapshots -> SUBSET Names]
    /\ faults \in Nat

Init ==
    /\ cluster = [life |-> "live", ready |-> FALSE]
    /\ snapshot = [s \in Snapshots |-> Absent]
    /\ cached = [s \in Snapshots |-> Absent]
    /\ cachedFresh = [s \in Snapshots |-> TRUE]
    /\ rec = [s \in Snapshots |-> Idle]
    /\ queue = {}
    /\ files = [s \in Snapshots |-> {}]
    /\ faults = 0

-----------------------------------------------------------------------------
(* Users, the Cluster, k3s and the informer.                                *)

UserWrites(s, object) ==
    /\ snapshot' = [snapshot EXCEPT ![s] = object]
    /\ cachedFresh' = [cachedFresh EXCEPT ![s] = FALSE]
    /\ rec' = [rec EXCEPT ![s].fresh = FALSE]
    /\ UNCHANGED <<cluster, cached, queue, files>>

CreateSnapshot(s) ==
    /\ snapshot[s].life = "absent"
    /\ UserWrites(s, [Absent EXCEPT !.life = "live"])
    /\ UNCHANGED faults

\* Deleted: what its status said is kept, for the properties.
Removed(object) == [object EXCEPT !.life = "gone", !.finalizer = FALSE]

DeleteSnapshot(s) ==
    /\ snapshot[s].life = "live"
    /\ UserWrites(s, IF snapshot[s].finalizer
                     THEN [snapshot[s] EXCEPT !.life = "deleting"] ELSE Removed(snapshot[s]))
    /\ UNCHANGED faults

Disturb == faults < MaxFaults /\ faults' = faults + 1

\* Someone edits a label or an annotation.
EditMetadata(s) == Disturb /\ Exists(snapshot[s]) /\ UserWrites(s, snapshot[s])

\* The Cluster becomes ready or stops to be, is deleted, and disappears.
ClusterChanges ==
    /\ \/ /\ cluster.life = "live"
          /\ cluster' \in {[cluster EXCEPT !.ready = ~cluster.ready],
                           [cluster EXCEPT !.life = "deleting"]}
       \/ /\ cluster.life = "deleting"
          /\ cluster' = [life |-> "gone", ready |-> FALSE]
    /\ UNCHANGED <<objVars, rec, queue, files, faults>>

\* k3s applies its retention.
PruneFile(s) ==
    /\ Disturb
    /\ \E f \in files[s] : files' = [files EXCEPT ![s] = @ \ {f}]
    /\ UNCHANGED <<cluster, objVars, rec, queue>>

SyncSnapshot(s) ==
    /\ ~cachedFresh[s]
    /\ cached' = [cached EXCEPT ![s] = snapshot[s]]
    /\ cachedFresh' = [cachedFresh EXCEPT ![s] = TRUE]
    /\ queue' = queue \cup {s}
    /\ UNCHANGED <<cluster, snapshot, rec, files, faults>>

-----------------------------------------------------------------------------
(* Reconcile.                                                               *)

\* Mutant: a failed snapshot is taken for a finished one.
FirstStepOnce(object) ==
    CASE object.life = "deleting"                            -> "deleteFile"
      [] object.life = "live" /\ object.ready = "none" /\ object.file = NoFile -> "getCluster"
      [] OTHER                                               -> "idle"

\* Reconcile's early returns: a missing object, one whose file is recorded.
FirstStep(object) ==
    CASE object.life = "deleting"                            -> "deleteFile"
      [] object.life = "live" /\ object.file = NoFile        -> "getCluster"
      [] OTHER                                               -> "idle"

StartReconcile(s) ==
    /\ rec[s].pc = "idle"
    /\ s \in queue
    /\ queue' = queue \ {s}
    /\ rec' = [rec EXCEPT ![s] =
                 IF FirstStep(cached[s]) = "idle" THEN Idle
                 ELSE [pc |-> FirstStep(cached[s]), copy |-> cached[s],
                       fresh |-> cachedFresh[s], file |-> NoFile]]
    /\ UNCHANGED <<cluster, objVars, files, faults>>

Goto(s, step) == rec' = [rec EXCEPT ![s].pc = step]

Return(s, requeue) ==
    /\ rec' = [rec EXCEPT ![s] = Idle]
    /\ queue' = IF requeue THEN queue \cup {s} ELSE queue

StoreSnapshot(s, object) ==
    /\ snapshot' = [snapshot EXCEPT ![s] = object]
    /\ cachedFresh' = [cachedFresh EXCEPT ![s] = FALSE]
    /\ UNCHANGED cached

\* The API server accepts a write of the reconcile's copy.
Accepted(s) == rec[s].fresh

\* What a Status().Update of the copy stores: only the status is the copy's.
WithStatusOf(s, ready) ==
    [snapshot[s] EXCEPT !.file = rec[s].copy.file, !.ready = ready]

\* Mutant: files are saved before the finalizer is there.
StepWithoutFinalizer(object) == "save"

StepAfterCluster(object) == IF object.finalizer THEN "save" ELSE "addFinalizer"

\* reconcileSnapshot: the Cluster must exist and be Ready.
GetCluster(s) ==
    /\ rec[s].pc = "getCluster"
    /\ Goto(s, IF cluster.life # "gone" /\ cluster.ready
               THEN StepAfterCluster(rec[s].copy) ELSE "failed")
    /\ UNCHANGED <<cluster, objVars, queue, files, faults>>

\* The update brings the next event, so Reconcile just returns.
AddFinalizer(s) ==
    /\ rec[s].pc = "addFinalizer"
    /\ IF Accepted(s)
       THEN StoreSnapshot(s, [snapshot[s] EXCEPT !.finalizer = TRUE]) /\ Return(s, FALSE)
       ELSE Goto(s, "failed") /\ UNCHANGED <<objVars, queue>>
    /\ UNCHANGED <<cluster, files, faults>>

\* k3s saves a file under a new name.
SaveFile(s, f) ==
    /\ f \notin {snapshot[s].file, rec[s].copy.file}
    /\ files' = [files EXCEPT ![s] = @ \cup {f}]

\* SaveSnapshot; k3s does not answer while the cluster is not ready.
Save(s) ==
    /\ rec[s].pc = "save"
    /\ IF cluster.ready
       THEN \E f \in Names :
               /\ SaveFile(s, f)
               /\ rec' = [rec EXCEPT ![s].pc = "list", ![s].file = f]
       ELSE Goto(s, "failed") /\ UNCHANGED files
    /\ UNCHANGED <<cluster, objVars, queue, faults>>

\* backpopulateSnapshotStatus looks the new file up and replaces the status in
\* memory; the conditions are gone from it.
ListFiles(s) ==
    /\ rec[s].pc = "list"
    /\ IF cluster.ready /\ rec[s].file \in files[s]
       THEN rec' = [rec EXCEPT ![s].pc = "recordFile", ![s].copy.file = rec[s].file,
                               ![s].copy.ready = "none"]
       ELSE Goto(s, "failed")
    /\ UNCHANGED <<cluster, objVars, queue, files, faults>>

\* Mutant: the object is read once more before the write, which never conflicts.
RecordFileOnLatest(s) ==
    /\ rec[s].pc = "recordFile"
    /\ Exists(snapshot[s])
    /\ StoreSnapshot(s, WithStatusOf(s, "none"))
    /\ rec' = [rec EXCEPT ![s].pc = "recordReady", ![s].fresh = TRUE]
    /\ UNCHANGED <<cluster, queue, files, faults>>

RecordFile(s) ==
    /\ rec[s].pc = "recordFile"
    /\ IF Accepted(s)
       THEN StoreSnapshot(s, WithStatusOf(s, "none")) /\ Goto(s, "recordReady")
       ELSE Goto(s, "failed") /\ UNCHANGED objVars
    /\ UNCHANGED <<cluster, queue, files, faults>>

RecordReady(s) ==
    /\ rec[s].pc = "recordReady"
    /\ IF Accepted(s)
       THEN StoreSnapshot(s, WithStatusOf(s, "True")) /\ Return(s, FALSE)
       ELSE UNCHANGED objVars /\ Return(s, TRUE)
    /\ UNCHANGED <<cluster, files, faults>>

\* FailedCreate or FailedDelete: the condition is written, with whatever status
\* the copy has by now, unless it says the same already; then a retry.
Failed(s) ==
    /\ rec[s].pc = "failed"
    /\ \/ Accepted(s) /\ StoreSnapshot(s, WithStatusOf(s, "False"))
       \/ (~Accepted(s) \/ rec[s].copy.ready = "False") /\ UNCHANGED objVars
    /\ Return(s, TRUE)
    /\ UNCHANGED <<cluster, files, faults>>

\* Mutant: a file that is not there is an error.
DeleteRefused(s) == ~cluster.ready \/ rec[s].copy.file \notin files[s]

\* DeleteSnapshot fails; that k3s does not have the file is no failure.
DeleteFails(s) == ~cluster.ready

\* Mutant: a cluster that is not ready is skipped like one that goes away.
NothingToDeleteNow(s) == rec[s].copy.file = NoFile \/ cluster.life # "live" \/ ~cluster.ready

\* deleteSnapshot's early returns.
NothingToDelete(s) == rec[s].copy.file = NoFile \/ cluster.life # "live"

DeleteFile(s) ==
    /\ rec[s].pc = "deleteFile"
    /\ IF NothingToDelete(s)
       THEN Goto(s, "removeFinalizer") /\ UNCHANGED files
       ELSE IF DeleteFails(s)
       THEN Goto(s, "failed") /\ UNCHANGED files
       ELSE /\ Goto(s, "removeFinalizer")
            /\ files' = [files EXCEPT ![s] = @ \ {rec[s].copy.file}]
    /\ UNCHANGED <<cluster, objVars, queue, faults>>

RemoveFinalizer(s) ==
    /\ rec[s].pc = "removeFinalizer"
    /\ IF Accepted(s)
       THEN StoreSnapshot(s, Removed(snapshot[s])) /\ Return(s, FALSE)
       ELSE Goto(s, "failed") /\ UNCHANGED <<objVars, queue>>
    /\ UNCHANGED <<cluster, files, faults>>

-----------------------------------------------------------------------------
(* Failures.                                                                *)

\* Mutant: an error the code does not know.
AfterErrorUnknown(step) == IF step \in {"recordReady", "failed"} THEN "idle" ELSE "error"

\* Where the error of a call leads: to the condition, unless it is the write of
\* the condition that failed.
AfterError(step) == IF step \in {"recordReady", "failed"} THEN "idle" ELSE "failed"

\* A call fails and has no effect.
CallFails(s) ==
    /\ Disturb
    /\ rec[s].pc # "idle"
    /\ IF AfterError(rec[s].pc) = "idle"
       THEN Return(s, TRUE) ELSE Goto(s, AfterError(rec[s].pc)) /\ UNCHANGED queue
    /\ UNCHANGED <<cluster, objVars, files>>

\* A call succeeds and its reply is lost, so that the code sees an error.
ReplyLost(s) ==
    /\ Disturb
    /\ \/ /\ rec[s].pc = "save" /\ cluster.ready
          /\ \E f \in Names : SaveFile(s, f)
          /\ Goto(s, "failed")
          /\ UNCHANGED objVars
       \/ /\ rec[s].pc = "recordFile" /\ Accepted(s)
          /\ StoreSnapshot(s, WithStatusOf(s, "none"))
          /\ rec' = [rec EXCEPT ![s].pc = "failed", ![s].fresh = FALSE]
          /\ UNCHANGED files
       \/ /\ rec[s].pc = "deleteFile" /\ ~NothingToDelete(s) /\ ~DeleteFails(s)
          /\ files' = [files EXCEPT ![s] = @ \ {rec[s].copy.file}]
          /\ Goto(s, "failed")
          /\ UNCHANGED objVars
    /\ UNCHANGED <<cluster, queue>>

\* The controller process dies; the next one lists everything afresh.
Restart ==
    /\ Disturb
    /\ cached' = snapshot
    /\ cachedFresh' = [s \in Snapshots |-> TRUE]
    /\ rec' = [s \in Snapshots |-> Idle]
    /\ queue' = {s \in Snapshots : Exists(snapshot[s])}
    /\ UNCHANGED <<cluster, snapshot, files>>

-----------------------------------------------------------------------------
ReconcileStep(s) ==
    \/ GetCluster(s) \/ AddFinalizer(s) \/ Save(s) \/ ListFiles(s) \/ RecordFile(s)
    \/ RecordReady(s) \/ Failed(s) \/ DeleteFile(s) \/ RemoveFinalizer(s)

Environment(s) ==
    \/ CreateSnapshot(s) \/ DeleteSnapshot(s) \/ EditMetadata(s) \/ PruneFile(s)
    \/ CallFails(s) \/ ReplyLost(s)

Next ==
    \/ \E s \in Snapshots : \/ SyncSnapshot(s) \/ StartReconcile(s)
                            \/ ReconcileStep(s) \/ Environment(s)
    \/ ClusterChanges
    \/ Restart

Spec == Init /\ [][Next]_vars

\* The watch delivers, queued requests are started, reconciles go on.
Fairness ==
    \A s \in Snapshots : /\ WF_vars(SyncSnapshot(s)) /\ WF_vars(StartReconcile(s))
                         /\ WF_vars(ReconcileStep(s))

FairSpec == Spec /\ Fairness

-----------------------------------------------------------------------------
(* Properties.                                                              *)

\* A file name, once recorded, is never replaced or lost, although a reconcile
\* that started from an old copy may have saved another file meanwhile: the
\* deletion could not find a file whose name was overwritten.
RecordedFileKept ==
    [][\A s \in Snapshots :
          snapshot[s].file # NoFile => snapshot'[s].file = snapshot[s].file]_vars

\* An EtcdSnapshot that has disappeared took the file of its status with it
\* ("When the request is deleted, ... files will be deleted"), unless the whole
\* cluster goes away.
RecordedFileDeleted ==
    \A s \in Snapshots :
        snapshot[s].life = "gone" /\ cluster.life = "live" => snapshot[s].file \notin files[s]

\* k3s never holds a file of an EtcdSnapshot that could still be deleted without
\* passing through the controller's finalizer.
FilesNeedFinalizer ==
    \A s \in Snapshots :
        snapshot[s].life \in {"absent", "live"} /\ ~snapshot[s].finalizer => files[s] = {}

\* An EtcdSnapshot of a cluster that stays ready gets its file recorded, in
\* spite of failed calls, lost replies, conflicts and restarts.
EventuallyRecorded ==
    \A s \in Snapshots :
        <>[](snapshot[s].life = "live" /\ cluster.life = "live" /\ cluster.ready)
        => <>(snapshot[s].file # NoFile)

\* The deletion of an EtcdSnapshot completes when its cluster is ready in the
\* end, or goes away.
SnapshotDeletionCompletes ==
    \A s \in Snapshots :
        <>[](cluster.ready \/ cluster.life # "live")
        => (snapshot[s].life = "deleting" ~> snapshot[s].life = "gone")
=============================================================================
