------------------------ MODULE EtcdSnapshotsProofs ------------------------
(***************************************************************************)
(* Proofs about EtcdSnapshots, for any number of EtcdSnapshots, file names *)
(* and faults: its type invariant, that a recorded file name is kept, that *)
(* k3s holds no file of a snapshot without the finalizer, and that the     *)
(* recorded file goes with its EtcdSnapshot.                               *)
(***************************************************************************)
EXTENDS EtcdSnapshots, TLAPS

-----------------------------------------------------------------------------
(* The inductive invariant, one snapshot at a time.                         *)

\* An informer cache that is up to date holds the object.
CacheCurrent(s) == cachedFresh[s] => cached[s] = snapshot[s]

\* Only an object that exists is reconciled; its file is not recorded in the
\* copy until ListFiles has found it.
CopyOfRead(s) ==
    /\ rec[s].pc # "idle" => rec[s].copy.life \in {"live", "deleting"}
    /\ rec[s].pc \in {"getCluster", "addFinalizer", "save", "list"} => rec[s].copy.file = NoFile

\* What the copy of a reconcile has in common with the object as long as the
\* API server would accept it: not the file name, which RecordFile has yet to
\* store, unless there is one in the object already.
CopyCurrent(s) ==
    rec[s].pc # "idle" /\ rec[s].fresh =>
        /\ rec[s].copy.life = snapshot[s].life
        /\ snapshot[s].file # NoFile => rec[s].copy.file = snapshot[s].file
        /\ rec[s].pc \in {"deleteFile", "removeFinalizer"} =>
               rec[s].copy.file = snapshot[s].file

\* The finalizer stays until the object disappears, so that an old copy that
\* has it can be relied on; an object that is not created yet has nothing.
FinalizerLasts(s) ==
    /\ cached[s].finalizer \/ rec[s].copy.finalizer =>
           snapshot[s].finalizer \/ snapshot[s].life = "gone"
    /\ rec[s].pc = "save" => rec[s].copy.finalizer
    /\ snapshot[s].life = "absent" => ~snapshot[s].finalizer /\ snapshot[s].file = NoFile

\* FilesNeedFinalizer and RecordedFileDeleted, and the file DeleteFile has
\* deleted does not come back before the finalizer is removed.
FilesOf(s) ==
    /\ snapshot[s].life \in {"absent", "live"} /\ ~snapshot[s].finalizer => files[s] = {}
    /\ rec[s].pc = "removeFinalizer" /\ cluster.life = "live" => rec[s].copy.file \notin files[s]
    /\ snapshot[s].life = "gone" /\ cluster.life = "live" => snapshot[s].file \notin files[s]

SnapshotInv(s) ==
    CacheCurrent(s) /\ CopyOfRead(s) /\ CopyCurrent(s) /\ FinalizerLasts(s) /\ FilesOf(s)

IInv == TypeOK /\ \A s \in Snapshots : SnapshotInv(s)
-----------------------------------------------------------------------------
(* Type correctness.                                                        *)

LEMMA ConstantsTyped ==
    Absent \in Objects /\ Idle \in Reconciles
BY DEF Absent, Objects, Life, Idle, Reconciles, Steps

LEMMA RemovedTyped ==
    ASSUME NEW object \in Objects
    PROVE  Removed(object) \in Objects
BY DEF Removed, Objects, Life

LEMMA StatusTyped ==
    ASSUME TypeOK, NEW s \in Snapshots, NEW ready \in {"none", "False", "True"}
    PROVE  WithStatusOf(s, ready) \in Objects
<1>1. snapshot[s] \in Objects /\ rec[s].copy \in Objects
  BY DEF TypeOK, Reconciles
<1>2. QED
  BY <1>1 DEF WithStatusOf, Objects

LEMMA UserWritesTyped ==
    ASSUME TypeOK, NEW s \in Snapshots, NEW object \in Objects, UserWrites(s, object),
           faults' \in Nat
    PROVE  TypeOK'
<1>1. rec' \in [Snapshots -> Reconciles]
  BY DEF TypeOK, UserWrites, Reconciles
<1>2. snapshot' \in [Snapshots -> Objects] /\ cachedFresh' \in [Snapshots -> BOOLEAN]
  BY DEF TypeOK, UserWrites
<1>3. QED
  BY <1>1, <1>2 DEF TypeOK, UserWrites

LEMMA DisturbTyped == TypeOK /\ Disturb => faults' \in Nat
BY DEF TypeOK, Disturb

LEMMA GotoTyped ==
    ASSUME TypeOK, NEW s \in Snapshots, NEW step \in Steps, Goto(s, step)
    PROVE  rec' \in [Snapshots -> Reconciles]
BY DEF TypeOK, Goto, Reconciles

LEMMA ReturnTyped ==
    ASSUME TypeOK, NEW s \in Snapshots, NEW requeue \in BOOLEAN, Return(s, requeue)
    PROVE  rec' \in [Snapshots -> Reconciles] /\ queue' \subseteq Snapshots
BY ConstantsTyped DEF TypeOK, Return

LEMMA StoreTyped ==
    ASSUME TypeOK, NEW s \in Snapshots, NEW object \in Objects, StoreSnapshot(s, object)
    PROVE  /\ snapshot' \in [Snapshots -> Objects]
           /\ cached' \in [Snapshots -> Objects]
           /\ cachedFresh' \in [Snapshots -> BOOLEAN]
BY DEF TypeOK, StoreSnapshot

LEMMA SaveFileTyped ==
    ASSUME TypeOK, NEW s \in Snapshots, NEW f \in Names, SaveFile(s, f)
    PROVE  files' \in [Snapshots -> SUBSET Names]
BY DEF TypeOK, SaveFile

\* What an action leaves alone keeps its type.
LEMMA ObjectsUnchanged ==
    ASSUME TypeOK, UNCHANGED objVars
    PROVE  /\ snapshot' \in [Snapshots -> Objects]
           /\ cached' \in [Snapshots -> Objects]
           /\ cachedFresh' \in [Snapshots -> BOOLEAN]
BY DEF TypeOK, objVars

\* Each action keeps the types of the variables.
LEMMA EnvironmentTyped ==
    ASSUME TypeOK, NEW s \in Snapshots, SyncSnapshot(s) \/ Environment(s)
    PROVE  TypeOK'
<1>0. snapshot[s] \in Objects /\ rec[s] \in Reconciles
  BY DEF TypeOK
<1>1. CASE SyncSnapshot(s)
  BY <1>1 DEF TypeOK, SyncSnapshot
<1>2. CASE CreateSnapshot(s)
  <2>1. [Absent EXCEPT !.life = "live"] \in Objects
    BY ConstantsTyped DEF Objects, Life, Absent
  <2>2. QED
    BY <1>2, <2>1, UserWritesTyped DEF CreateSnapshot, TypeOK
<1>3. CASE DeleteSnapshot(s)
  <2>1. [snapshot[s] EXCEPT !.life = "deleting"] \in Objects /\ Removed(snapshot[s]) \in Objects
    BY <1>0, RemovedTyped DEF Objects, Life
  <2>2. QED
    BY <1>3, <2>1, UserWritesTyped DEF DeleteSnapshot, TypeOK
<1>4. CASE EditMetadata(s)
  BY <1>0, <1>4, UserWritesTyped, DisturbTyped DEF EditMetadata
<1>5. CASE PruneFile(s)
  BY <1>5, DisturbTyped, ObjectsUnchanged DEF PruneFile, TypeOK
<1>6. CASE CallFails(s)
  <2>1. AfterError(rec[s].pc) \in Steps
    BY <1>0 DEF AfterError, Steps
  <2>2. rec' \in [Snapshots -> Reconciles] /\ queue' \subseteq Snapshots
    <3>1. CASE Return(s, TRUE)
      BY <3>1, ReturnTyped
    <3>2. CASE Goto(s, AfterError(rec[s].pc)) /\ UNCHANGED queue
      BY <2>1, <3>2, GotoTyped DEF TypeOK
    <3>3. QED
      BY <1>6, <3>1, <3>2 DEF CallFails
  <2>3. QED
    BY <1>6, <2>2, DisturbTyped, ObjectsUnchanged DEF CallFails, TypeOK
<1>7. CASE ReplyLost(s)
  <2>1. CASE \E f \in Names : SaveFile(s, f) /\ Goto(s, "failed") /\ UNCHANGED objVars
    BY <1>7, <2>1, SaveFileTyped, GotoTyped, DisturbTyped, ObjectsUnchanged
       DEF ReplyLost, TypeOK, Steps
  <2>2. CASE /\ StoreSnapshot(s, WithStatusOf(s, "none"))
             /\ rec' = [rec EXCEPT ![s].pc = "failed", ![s].fresh = FALSE]
             /\ UNCHANGED files
    <3>1. [rec[s] EXCEPT !.pc = "failed", !.fresh = FALSE] \in Reconciles
      BY <1>0 DEF Reconciles, Steps
    <3>2. rec' \in [Snapshots -> Reconciles]
      BY <2>2, <3>1 DEF TypeOK
    <3>3. QED
      BY <1>7, <2>2, <3>2, StoreTyped, StatusTyped, DisturbTyped DEF ReplyLost, TypeOK
  <2>3. CASE /\ files' = [files EXCEPT ![s] = @ \ {rec[s].copy.file}]
             /\ Goto(s, "failed") /\ UNCHANGED objVars
    BY <1>7, <2>3, GotoTyped, DisturbTyped, ObjectsUnchanged DEF ReplyLost, TypeOK, Steps
  <2>4. QED
    BY <1>7, <2>1, <2>2, <2>3 DEF ReplyLost
<1>8. QED
  BY <1>1, <1>2, <1>3, <1>4, <1>5, <1>6, <1>7 DEF Environment

LEMMA ReconcileTyped ==
    ASSUME TypeOK, NEW s \in Snapshots, StartReconcile(s) \/ ReconcileStep(s)
    PROVE  TypeOK'
<1>0. /\ snapshot[s] \in Objects /\ cached[s] \in Objects
      /\ cachedFresh[s] \in BOOLEAN /\ rec[s] \in Reconciles
  BY DEF TypeOK
<1>1. CASE StartReconcile(s)
  <2>1. FirstStep(cached[s]) \in Steps
    BY DEF FirstStep, Steps
  <2>2. [pc |-> FirstStep(cached[s]), copy |-> cached[s],
         fresh |-> cachedFresh[s], file |-> NoFile] \in Reconciles
    BY <1>0, <2>1 DEF Reconciles
  <2>3. rec' \in [Snapshots -> Reconciles]
    BY <1>1, <2>2, ConstantsTyped DEF StartReconcile, TypeOK
  <2>4. QED
    BY <1>1, <2>3, ObjectsUnchanged DEF StartReconcile, TypeOK
<1>2. CASE GetCluster(s)
  <2>1. StepAfterCluster(rec[s].copy) \in Steps /\ "failed" \in Steps
    BY DEF StepAfterCluster, Steps
  <2>2. PICK step \in Steps : Goto(s, step)
    BY <1>2, <2>1 DEF GetCluster
  <2>3. QED
    BY <1>2, <2>2, GotoTyped, ObjectsUnchanged DEF GetCluster, TypeOK
<1>3. CASE AddFinalizer(s)
  <2>1. [snapshot[s] EXCEPT !.finalizer = TRUE] \in Objects
    BY <1>0 DEF Objects
  <2>2. QED
    BY <1>3, <2>1, StoreTyped, ReturnTyped, GotoTyped, ObjectsUnchanged
       DEF AddFinalizer, TypeOK, Steps
<1>4. CASE Save(s)
  <2>1. CASE cluster.ready
    <3>1. PICK f \in Names : /\ SaveFile(s, f)
                             /\ rec' = [rec EXCEPT ![s].pc = "list", ![s].file = f]
      BY <1>4, <2>1 DEF Save
    <3>2. [rec[s] EXCEPT !.pc = "list", !.file = f] \in Reconciles
      BY <1>0 DEF Reconciles, Steps
    <3>3. rec' \in [Snapshots -> Reconciles]
      BY <3>1, <3>2 DEF TypeOK
    <3>4. QED
      BY <1>4, <3>1, <3>3, SaveFileTyped, ObjectsUnchanged DEF Save, TypeOK
  <2>2. CASE ~cluster.ready
    BY <1>4, <2>2, GotoTyped, ObjectsUnchanged DEF Save, TypeOK, Steps
  <2>3. QED
    BY <2>1, <2>2
<1>5. CASE ListFiles(s)
  <2>1. [rec[s] EXCEPT !.pc = "recordFile", !.copy.file = rec[s].file,
                       !.copy.ready = "none"] \in Reconciles
    BY <1>0 DEF Reconciles, Objects, Steps
  <2>2. rec' \in [Snapshots -> Reconciles]
    <3>1. CASE cluster.ready /\ rec[s].file \in files[s]
      <4>1. rec' = [rec EXCEPT ![s].pc = "recordFile", ![s].copy.file = rec[s].file,
                               ![s].copy.ready = "none"]
        BY <1>5, <3>1 DEF ListFiles
      <4>2. DOMAIN rec' = Snapshots
        BY <4>1 DEF TypeOK
      <4>3. ASSUME NEW t \in Snapshots PROVE rec'[t] \in Reconciles
        BY <2>1, <4>1 DEF TypeOK
      <4>4. rec' = [t \in Snapshots |-> rec'[t]]
        BY <4>1, <4>2
      <4>5. QED
        BY <4>3, <4>4
    <3>2. CASE ~(cluster.ready /\ rec[s].file \in files[s])
      BY <1>5, <3>2, GotoTyped DEF ListFiles, Steps
    <3>3. QED
      BY <3>1, <3>2
  <2>3. QED
    BY <1>5, <2>2, ObjectsUnchanged DEF ListFiles, TypeOK
<1>6. CASE RecordFile(s)
  BY <1>6, StoreTyped, StatusTyped, GotoTyped, ObjectsUnchanged DEF RecordFile, TypeOK, Steps
<1>7. CASE RecordReady(s)
  BY <1>7, StoreTyped, StatusTyped, ReturnTyped, ObjectsUnchanged DEF RecordReady, TypeOK
<1>8. CASE Failed(s)
  BY <1>8, StoreTyped, StatusTyped, ReturnTyped, ObjectsUnchanged DEF Failed, TypeOK
<1>9. CASE DeleteFile(s)
  <2>1. files' \in [Snapshots -> SUBSET Names]
    BY <1>9 DEF DeleteFile, TypeOK
  <2>2. QED
    BY <1>9, <2>1, GotoTyped, ObjectsUnchanged DEF DeleteFile, TypeOK, Steps
<1>10. CASE RemoveFinalizer(s)
  BY <1>0, <1>10, RemovedTyped, StoreTyped, ReturnTyped, GotoTyped, ObjectsUnchanged
     DEF RemoveFinalizer, TypeOK, Steps
<1>11. QED
  BY <1>1, <1>2, <1>3, <1>4, <1>5, <1>6, <1>7, <1>8, <1>9, <1>10 DEF ReconcileStep

LEMMA NextTyped == TypeOK /\ [Next]_vars => TypeOK'
<1> SUFFICES ASSUME TypeOK, [Next]_vars PROVE TypeOK'
  OBVIOUS
<1>1. CASE ClusterChanges
  <2>1. /\ [cluster EXCEPT !.ready = ~cluster.ready] \in [life : Life \ {"absent"}, ready : BOOLEAN]
        /\ [cluster EXCEPT !.life = "deleting"] \in [life : Life \ {"absent"}, ready : BOOLEAN]
        /\ [life |-> "gone", ready |-> FALSE] \in [life : Life \ {"absent"}, ready : BOOLEAN]
    BY DEF TypeOK, Life
  <2>2. cluster' \in [life : Life \ {"absent"}, ready : BOOLEAN]
    BY <1>1, <2>1 DEF ClusterChanges
  <2>3. QED
    BY <1>1, <2>2, ObjectsUnchanged DEF ClusterChanges, TypeOK
<1>2. CASE Restart
  BY <1>2, ConstantsTyped, DisturbTyped DEF Restart, TypeOK
<1>3. CASE UNCHANGED vars
  BY <1>3 DEF TypeOK, vars
<1>4. QED
  BY <1>1, <1>2, <1>3, EnvironmentTyped, ReconcileTyped DEF Next

\* The values of all variables are those their declarations and the structures
\* of the code allow.
THEOREM TypeCorrect == Spec => []TypeOK
<1>1. Init => TypeOK
  BY ConstantsTyped DEF Init, TypeOK, Life
<1>2. QED
  BY <1>1, NextTyped, PTL DEF Spec

-----------------------------------------------------------------------------
(* The actions of one snapshot preserve the invariant.                      *)

\* Everything the invariant says of snapshot t is as before.
Same(t) ==
    /\ snapshot'[t] = snapshot[t] /\ cached'[t] = cached[t] /\ cachedFresh'[t] = cachedFresh[t]
    /\ rec'[t] = rec[t] /\ files'[t] = files[t] /\ cluster' = cluster

LEMMA SamePreserves ==
    ASSUME NEW t \in Snapshots, SnapshotInv(t), Same(t)
    PROVE  SnapshotInv(t)'
BY DEF SnapshotInv, CacheCurrent, CopyOfRead, CopyCurrent, FinalizerLasts, FilesOf, Same

\* An action of one snapshot leaves the others alone.
LEMMA OthersSame ==
    ASSUME TypeOK, NEW s \in Snapshots, NEW t \in Snapshots, s # t,
           SyncSnapshot(s) \/ StartReconcile(s) \/ ReconcileStep(s) \/ Environment(s)
    PROVE  Same(t)
<1> USE DEF TypeOK, Same
<1>1. CASE SyncSnapshot(s) \/ StartReconcile(s)
  BY <1>1 DEF SyncSnapshot, StartReconcile, objVars
<1>2. CASE CreateSnapshot(s) \/ DeleteSnapshot(s) \/ EditMetadata(s) \/ PruneFile(s)
  BY <1>2 DEF CreateSnapshot, DeleteSnapshot, EditMetadata, UserWrites, PruneFile, objVars
<1>3. CASE CallFails(s)
  BY <1>3 DEF CallFails, Return, Goto, objVars
<1>4. CASE ReplyLost(s)
  BY <1>4 DEF ReplyLost, SaveFile, StoreSnapshot, Goto, objVars
<1>5. CASE GetCluster(s) \/ ListFiles(s) \/ DeleteFile(s)
  BY <1>5 DEF GetCluster, ListFiles, DeleteFile, Goto, objVars
<1>6. CASE AddFinalizer(s) \/ RecordFile(s) \/ RecordReady(s) \/ RemoveFinalizer(s)
  BY <1>6 DEF AddFinalizer, RecordFile, RecordReady, RemoveFinalizer, StoreSnapshot,
              Return, Goto, objVars
<1>7. CASE Failed(s)
  BY <1>7 DEF Failed, StoreSnapshot, Return, objVars
<1>8. CASE Save(s)
  BY <1>8 DEF Save, SaveFile, Goto, objVars
<1>9. QED
  BY <1>1, <1>2, <1>3, <1>4, <1>5, <1>6, <1>7, <1>8 DEF ReconcileStep, Environment

\* A reconcile that only goes on to another step, without a write.
LEMMA GotoPreserves ==
    ASSUME TypeOK, NEW s \in Snapshots, SnapshotInv(s), NEW step, Goto(s, step),
           UNCHANGED <<cluster, objVars, files>>, rec[s].pc # "idle",
           step \in {"addFinalizer", "save", "list"} => rec[s].copy.file = NoFile,
           step = "save" => rec[s].copy.finalizer,
           step \in {"failed", "save", "addFinalizer"}
    PROVE  SnapshotInv(s)'
<1>1. rec'[s] = [rec[s] EXCEPT !.pc = step]
  BY DEF Goto, TypeOK
<1>2. /\ rec'[s].pc = step /\ rec'[s].copy = rec[s].copy /\ rec'[s].fresh = rec[s].fresh
  BY <1>1 DEF TypeOK, Reconciles
<1>3. QED
  BY <1>2 DEF SnapshotInv, CacheCurrent, CopyOfRead, CopyCurrent, FinalizerLasts, FilesOf, objVars

\* A user's write makes cache and copy stale.
LEMMA UserWritesPreserves ==
    ASSUME TypeOK, NEW s \in Snapshots, SnapshotInv(s), NEW object, UserWrites(s, object),
           snapshot[s].life # "gone", object.life # "absent",
           ~object.finalizer => ~snapshot[s].finalizer,
           object.life = "live" => snapshot[s].life \in {"absent", "live"},
           object.life = "gone" => snapshot[s].life = "live" /\ ~snapshot[s].finalizer
    PROVE  SnapshotInv(s)'
<1>1. /\ snapshot'[s] = object /\ ~cachedFresh'[s] /\ ~rec'[s].fresh
      /\ rec'[s].pc = rec[s].pc /\ rec'[s].copy = rec[s].copy
      /\ cached'[s] = cached[s] /\ files' = files /\ cluster' = cluster
  BY DEF UserWrites, TypeOK, Reconciles
<1>2. CacheCurrent(s)' /\ CopyOfRead(s)' /\ CopyCurrent(s)'
  BY <1>1 DEF SnapshotInv, CacheCurrent, CopyOfRead, CopyCurrent
<1>3. FinalizerLasts(s)' /\ FilesOf(s)'
  BY <1>1 DEF SnapshotInv, FinalizerLasts, FilesOf
<1>4. QED
  BY <1>2, <1>3 DEF SnapshotInv

\* What a call of Return, and a write of the reconcile's copy, leave behind.
LEMMA ReturnEffect ==
    ASSUME TypeOK, NEW s \in Snapshots, NEW requeue, Return(s, requeue)
    PROVE  rec'[s].pc = "idle" /\ ~rec'[s].copy.finalizer
BY DEF TypeOK, Return, Idle, Absent

LEMMA StoreEffect ==
    ASSUME TypeOK, NEW s \in Snapshots, NEW object, StoreSnapshot(s, object)
    PROVE  snapshot'[s] = object /\ ~cachedFresh'[s] /\ cached'[s] = cached[s]
BY DEF TypeOK, StoreSnapshot

LEMMA StatusEffect ==
    ASSUME TypeOK, NEW s \in Snapshots, NEW ready
    PROVE  /\ WithStatusOf(s, ready).life = snapshot[s].life
           /\ WithStatusOf(s, ready).finalizer = snapshot[s].finalizer
           /\ WithStatusOf(s, ready).file = rec[s].copy.file
BY DEF TypeOK, WithStatusOf, Objects

\* A write that ends the reconcile.
LEMMA LastWritePreserves ==
    ASSUME TypeOK, NEW s \in Snapshots, SnapshotInv(s), NEW object,
           StoreSnapshot(s, object), NEW requeue, Return(s, requeue), UNCHANGED <<cluster, files>>,
           snapshot[s].life \in {"live", "deleting"},
           \/ object.life = snapshot[s].life /\ (snapshot[s].finalizer => object.finalizer)
           \/ object.life = "gone" /\ (cluster.life = "live" => object.file \notin files[s])
    PROVE  SnapshotInv(s)'
<1>1. CacheCurrent(s)' /\ CopyOfRead(s)' /\ CopyCurrent(s)'
  BY ReturnEffect, StoreEffect DEF CacheCurrent, CopyOfRead, CopyCurrent
<1>2. FinalizerLasts(s)' /\ FilesOf(s)'
  BY ReturnEffect, StoreEffect DEF SnapshotInv, FinalizerLasts, FilesOf
<1>3. QED
  BY <1>1, <1>2 DEF SnapshotInv

\* The reconcile ends without a write.
LEMMA ReturnPreserves ==
    ASSUME TypeOK, NEW s \in Snapshots, SnapshotInv(s), NEW requeue, Return(s, requeue),
           UNCHANGED <<cluster, objVars, files>>
    PROVE  SnapshotInv(s)'
BY ReturnEffect DEF SnapshotInv, CacheCurrent, CopyOfRead, CopyCurrent, FinalizerLasts, FilesOf,
                    objVars

LEMMA EnvironmentPreserves ==
    ASSUME TypeOK, NEW s \in Snapshots, SnapshotInv(s), SyncSnapshot(s) \/ Environment(s)
    PROVE  SnapshotInv(s)'
<1>0. snapshot[s] \in Objects /\ rec[s] \in Reconciles
  BY DEF TypeOK
<1>1. CASE SyncSnapshot(s)
  <2>1. /\ snapshot' = snapshot /\ cached'[s] = snapshot[s] /\ rec' = rec
        /\ files' = files /\ cluster' = cluster
    BY <1>1 DEF SyncSnapshot, TypeOK
  <2>2. QED
    BY <2>1 DEF SnapshotInv, CacheCurrent, CopyOfRead, CopyCurrent, FinalizerLasts, FilesOf
<1>2. CASE CreateSnapshot(s)
  <2>1. ~snapshot[s].finalizer
    BY <1>2 DEF CreateSnapshot, SnapshotInv, FinalizerLasts
  <2>2. QED
    BY <1>2, <2>1, UserWritesPreserves DEF CreateSnapshot, Absent
<1>3. CASE DeleteSnapshot(s)
  BY <1>0, <1>3, UserWritesPreserves DEF DeleteSnapshot, Removed, Objects
<1>4. CASE EditMetadata(s)
  BY <1>0, <1>4, UserWritesPreserves DEF EditMetadata, Exists
<1>5. CASE PruneFile(s)
  <2>1. PICK f \in files[s] : files' = [files EXCEPT ![s] = @ \ {f}]
    BY <1>5 DEF PruneFile
  <2>2. files'[s] \subseteq files[s] /\ UNCHANGED <<cluster, objVars, rec>>
    BY <1>5, <2>1 DEF TypeOK, PruneFile
  <2>3. QED
    BY <2>2 DEF SnapshotInv, CacheCurrent, CopyOfRead, CopyCurrent, FinalizerLasts, FilesOf,
                objVars
<1>6. CASE CallFails(s)
  <2>1. CASE Return(s, TRUE)
    BY <1>6, <2>1, ReturnPreserves DEF CallFails
  <2>2. CASE Goto(s, "failed")
    BY <1>6, <2>2, GotoPreserves DEF CallFails
  <2>3. QED
    BY <1>6, <2>1, <2>2 DEF CallFails, AfterError
<1>7. CASE ReplyLost(s)
  <2>0. cluster' = cluster
    BY <1>7 DEF ReplyLost
  <2>1. CASE /\ rec[s].pc = "save"
             /\ \E f \in Names : SaveFile(s, f)
             /\ Goto(s, "failed")
             /\ UNCHANGED objVars
    <3>1. /\ rec'[s].pc = "failed" /\ rec'[s].copy = rec[s].copy
          /\ rec'[s].fresh = rec[s].fresh
      BY <1>0, <2>1 DEF Goto, TypeOK, Reconciles
    <3>2. PICK f \in Names : SaveFile(s, f)
      BY <2>1
    <3>3. files'[s] = files[s] \cup {f} /\ f # snapshot[s].file
      BY <3>2 DEF SaveFile, TypeOK
    <3>4. CacheCurrent(s)' /\ CopyOfRead(s)' /\ CopyCurrent(s)' /\ FinalizerLasts(s)'
      BY <2>1, <3>1 DEF SnapshotInv, CacheCurrent, CopyOfRead, CopyCurrent, FinalizerLasts, objVars
    <3>5. FilesOf(s)'
      BY <2>0, <2>1, <3>1, <3>3 DEF SnapshotInv, FinalizerLasts, FilesOf, objVars
    <3>6. QED
      BY <3>4, <3>5 DEF SnapshotInv
  <2>2. CASE /\ rec[s].pc = "recordFile" /\ Accepted(s)
             /\ StoreSnapshot(s, WithStatusOf(s, "none"))
             /\ rec' = [rec EXCEPT ![s].pc = "failed", ![s].fresh = FALSE]
             /\ UNCHANGED files
    <3>1. rec'[s].pc = "failed" /\ rec'[s].copy = rec[s].copy /\ ~rec'[s].fresh
      BY <1>0, <2>2 DEF TypeOK, Reconciles
    <3>2. snapshot[s].life \in {"live", "deleting"}
      BY <2>2 DEF Accepted, SnapshotInv, CopyOfRead, CopyCurrent
    <3>3. CacheCurrent(s)' /\ CopyOfRead(s)' /\ CopyCurrent(s)'
      BY <2>2, <3>1, StoreEffect DEF SnapshotInv, CacheCurrent, CopyOfRead, CopyCurrent
    <3>4. FinalizerLasts(s)' /\ FilesOf(s)'
      BY <2>0, <2>2, <3>1, <3>2, StoreEffect, StatusEffect DEF SnapshotInv, FinalizerLasts, FilesOf
    <3>5. QED
      BY <3>3, <3>4 DEF SnapshotInv
  <2>3. CASE /\ rec[s].pc = "deleteFile"
             /\ files' = [files EXCEPT ![s] = @ \ {rec[s].copy.file}]
             /\ Goto(s, "failed") /\ UNCHANGED objVars
    <3>1. /\ rec'[s].pc = "failed" /\ rec'[s].copy = rec[s].copy
          /\ rec'[s].fresh = rec[s].fresh
      BY <1>0, <2>3 DEF Goto, TypeOK, Reconciles
    <3>2. files'[s] \subseteq files[s]
      BY <2>3 DEF TypeOK
    <3>3. QED
      BY <2>0, <2>3, <3>1, <3>2
         DEF SnapshotInv, CacheCurrent, CopyOfRead, CopyCurrent, FinalizerLasts, FilesOf, objVars
  <2>4. QED
    BY <1>7, <2>1, <2>2, <2>3 DEF ReplyLost
<1>8. QED
  BY <1>1, <1>2, <1>3, <1>4, <1>5, <1>6, <1>7 DEF Environment

LEMMA ReconcilePreserves ==
    ASSUME TypeOK, NEW s \in Snapshots, SnapshotInv(s), StartReconcile(s) \/ ReconcileStep(s)
    PROVE  SnapshotInv(s)'
<1>0. /\ snapshot[s] \in Objects /\ cached[s] \in Objects /\ rec[s] \in Reconciles
      /\ NoFile \notin files[s]
  BY SnapshotsAssumption DEF TypeOK
<1>1. CASE StartReconcile(s)
  <2>0. UNCHANGED <<cluster, objVars, files>>
    BY <1>1 DEF StartReconcile
  <2>1. CASE FirstStep(cached[s]) = "idle"
    <3>1. rec'[s] = Idle
      BY <1>1, <2>1 DEF StartReconcile, TypeOK
    <3>2. QED
      BY <2>0, <3>1 DEF SnapshotInv, CacheCurrent, CopyOfRead, CopyCurrent, FinalizerLasts,
                        FilesOf, Idle, Absent, objVars
  <2>2. CASE FirstStep(cached[s]) # "idle"
    <3>1. /\ rec'[s].pc = FirstStep(cached[s]) /\ rec'[s].copy = cached[s]
          /\ rec'[s].fresh = cachedFresh[s]
      BY <1>1, <2>2 DEF StartReconcile, TypeOK
    <3>2. \/ FirstStep(cached[s]) = "deleteFile" /\ cached[s].life = "deleting"
          \/ FirstStep(cached[s]) = "getCluster" /\ cached[s].life = "live"
             /\ cached[s].file = NoFile
      BY <2>2 DEF FirstStep
    <3>3. QED
      BY <2>0, <3>1, <3>2 DEF SnapshotInv, CacheCurrent, CopyOfRead, CopyCurrent, FinalizerLasts,
                              FilesOf, objVars
  <2>3. QED
    BY <2>1, <2>2
<1>2. CASE GetCluster(s)
  <2>1. rec[s].copy.file = NoFile
    BY <1>2 DEF GetCluster, SnapshotInv, CopyOfRead
  <2>2. CASE Goto(s, StepAfterCluster(rec[s].copy))
    BY <1>2, <2>1, <2>2, GotoPreserves DEF GetCluster, StepAfterCluster
  <2>3. CASE Goto(s, "failed")
    BY <1>2, <2>3, GotoPreserves DEF GetCluster
  <2>4. QED
    BY <1>2, <2>2, <2>3 DEF GetCluster
<1>3. CASE AddFinalizer(s)
  <2>1. CASE Accepted(s)
    <3>1. snapshot[s].life \in {"live", "deleting"}
      BY <1>3, <2>1 DEF AddFinalizer, Accepted, SnapshotInv, CopyOfRead, CopyCurrent
    <3>2. /\ [snapshot[s] EXCEPT !.finalizer = TRUE].life = snapshot[s].life
          /\ [snapshot[s] EXCEPT !.finalizer = TRUE].finalizer
      BY <1>0 DEF Objects
    <3>3. QED
      BY <1>3, <2>1, <3>1, <3>2, LastWritePreserves DEF AddFinalizer
  <2>2. CASE ~Accepted(s)
    BY <1>3, <2>2, GotoPreserves DEF AddFinalizer
  <2>3. QED
    BY <2>1, <2>2
<1>4. CASE Save(s)
  <2>1. CASE cluster.ready
    <3>1. PICK f \in Names : /\ SaveFile(s, f)
                             /\ rec' = [rec EXCEPT ![s].pc = "list", ![s].file = f]
      BY <1>4, <2>1 DEF Save
    <3>2. /\ rec'[s].pc = "list" /\ rec'[s].copy = rec[s].copy
          /\ rec'[s].fresh = rec[s].fresh
      BY <1>0, <3>1 DEF TypeOK, Reconciles
    <3>3. files'[s] = files[s] \cup {f} /\ f # snapshot[s].file
      BY <3>1 DEF SaveFile, TypeOK
    <3>4. UNCHANGED <<cluster, objVars>> /\ rec[s].pc = "save"
      BY <1>4 DEF Save
    <3>5. CacheCurrent(s)' /\ CopyOfRead(s)' /\ CopyCurrent(s)' /\ FinalizerLasts(s)'
      BY <3>2, <3>4 DEF SnapshotInv, CacheCurrent, CopyOfRead, CopyCurrent, FinalizerLasts, objVars
    <3>6. FilesOf(s)'
      BY <3>2, <3>3, <3>4 DEF SnapshotInv, FinalizerLasts, FilesOf, objVars
    <3>7. QED
      BY <3>5, <3>6 DEF SnapshotInv
  <2>2. CASE ~cluster.ready
    BY <1>4, <2>2, GotoPreserves DEF Save
  <2>3. QED
    BY <2>1, <2>2
<1>5. CASE ListFiles(s)
  <2>1. CASE cluster.ready /\ rec[s].file \in files[s]
    <3>1. /\ rec'[s].pc = "recordFile" /\ rec'[s].copy.life = rec[s].copy.life
          /\ rec'[s].copy.finalizer = rec[s].copy.finalizer /\ rec'[s].fresh = rec[s].fresh
      BY <1>0, <1>5, <2>1 DEF ListFiles, TypeOK, Reconciles, Objects
    <3>2. UNCHANGED <<cluster, objVars, files>> /\ rec[s].pc = "list"
      BY <1>5 DEF ListFiles
    <3>3. rec[s].fresh => snapshot[s].file = NoFile
      BY <3>2 DEF SnapshotInv, CopyOfRead, CopyCurrent
    <3>4. QED
      BY <3>1, <3>2, <3>3 DEF SnapshotInv, CacheCurrent, CopyOfRead, CopyCurrent, FinalizerLasts,
                              FilesOf, objVars
  <2>2. CASE ~(cluster.ready /\ rec[s].file \in files[s])
    BY <1>5, <2>2, GotoPreserves DEF ListFiles
  <2>3. QED
    BY <2>1, <2>2
<1>6. CASE RecordFile(s)
  <2>1. CASE Accepted(s)
    <3>1. snapshot[s].life \in {"live", "deleting"}
      BY <1>6, <2>1 DEF RecordFile, Accepted, SnapshotInv, CopyOfRead, CopyCurrent
    <3>2. /\ rec'[s].pc = "recordReady" /\ rec'[s].copy = rec[s].copy
          /\ rec'[s].fresh = rec[s].fresh
      BY <1>0, <1>6, <2>1 DEF RecordFile, Goto, TypeOK, Reconciles
    <3>3. /\ snapshot'[s] = WithStatusOf(s, "none") /\ ~cachedFresh'[s] /\ cached'[s] = cached[s]
          /\ UNCHANGED <<cluster, files>> /\ rec[s].pc = "recordFile"
      BY <1>6, <2>1, StoreEffect DEF RecordFile
    <3>4. QED
      BY <3>1, <3>2, <3>3, StatusEffect
         DEF SnapshotInv, CacheCurrent, CopyOfRead, CopyCurrent, FinalizerLasts, FilesOf
  <2>2. CASE ~Accepted(s)
    BY <1>6, <2>2, GotoPreserves DEF RecordFile
  <2>3. QED
    BY <2>1, <2>2
<1>7. CASE RecordReady(s) \/ Failed(s)
  <2>1. CASE UNCHANGED objVars
    BY <1>7, <2>1, ReturnPreserves DEF RecordReady, Failed
  <2>2. ASSUME NEW ready, Accepted(s), StoreSnapshot(s, WithStatusOf(s, ready))
        PROVE  SnapshotInv(s)'
    <3>1. snapshot[s].life \in {"live", "deleting"}
      BY <1>7, <2>2 DEF RecordReady, Failed, Accepted, SnapshotInv, CopyOfRead, CopyCurrent
    <3>2. QED
      BY <1>7, <2>2, <3>1, LastWritePreserves, StatusEffect DEF RecordReady, Failed
  <2>3. QED
    BY <1>7, <2>1, <2>2 DEF RecordReady, Failed
<1>8. CASE DeleteFile(s)
  <2>1. UNCHANGED <<cluster, objVars>> /\ rec[s].pc = "deleteFile"
    BY <1>8 DEF DeleteFile
  <2>2. CASE Goto(s, "failed") /\ UNCHANGED files
    BY <2>1, <2>2, GotoPreserves
  <2>3. CASE Goto(s, "removeFinalizer")
    <3>1. /\ rec'[s].pc = "removeFinalizer" /\ rec'[s].copy = rec[s].copy
          /\ rec'[s].fresh = rec[s].fresh
      BY <1>0, <2>3 DEF Goto, TypeOK, Reconciles
    <3>2. /\ files'[s] \subseteq files[s]
          /\ cluster.life = "live" => rec[s].copy.file \notin files'[s]
      BY <1>0, <1>8, <2>3 DEF DeleteFile, NothingToDelete, Goto, TypeOK, Reconciles
    <3>3. QED
      BY <2>1, <3>1, <3>2 DEF SnapshotInv, CacheCurrent, CopyOfRead, CopyCurrent, FinalizerLasts,
                              FilesOf, objVars
  <2>4. QED
    BY <1>8, <2>2, <2>3 DEF DeleteFile
<1>9. CASE RemoveFinalizer(s)
  <2>1. CASE Accepted(s)
    <3>1. /\ snapshot[s].life \in {"live", "deleting"}
          /\ cluster.life = "live" => snapshot[s].file \notin files[s]
      BY <1>9, <2>1 DEF RemoveFinalizer, Accepted, SnapshotInv, CopyOfRead, CopyCurrent, FilesOf
    <3>2. Removed(snapshot[s]).life = "gone" /\ Removed(snapshot[s]).file = snapshot[s].file
      BY <1>0 DEF Removed, Objects
    <3>3. QED
      BY <1>9, <2>1, <3>1, <3>2, LastWritePreserves DEF RemoveFinalizer
  <2>2. CASE ~Accepted(s)
    BY <1>9, <2>2, GotoPreserves DEF RemoveFinalizer
  <2>3. QED
    BY <2>1, <2>2
<1>10. QED
  BY <1>1, <1>2, <1>3, <1>4, <1>5, <1>6, <1>7, <1>8, <1>9 DEF ReconcileStep

-----------------------------------------------------------------------------
(* The theorems.                                                            *)

LEMMA InitInv == Init => IInv
<1> SUFFICES ASSUME Init PROVE IInv
  OBVIOUS
<1>1. TypeOK
  BY ConstantsTyped DEF Init, TypeOK, Life
<1>2. ASSUME NEW s \in Snapshots PROVE SnapshotInv(s)
  BY DEF Init, SnapshotInv, CacheCurrent, CopyOfRead, CopyCurrent, FinalizerLasts, FilesOf,
         Idle, Absent
<1>3. QED
  BY <1>1, <1>2 DEF IInv

LEMMA NextInv == IInv /\ [Next]_vars => IInv'
<1> SUFFICES ASSUME IInv, [Next]_vars PROVE IInv'
  OBVIOUS
<1>0. TypeOK /\ \A s \in Snapshots : SnapshotInv(s)
  BY DEF IInv
<1>1. TypeOK'
  BY <1>0, NextTyped
<1>2. ASSUME NEW t \in Snapshots PROVE SnapshotInv(t)'
  <2>1. ASSUME NEW s \in Snapshots,
               SyncSnapshot(s) \/ StartReconcile(s) \/ ReconcileStep(s) \/ Environment(s)
        PROVE  SnapshotInv(t)'
    <3>1. CASE s = t
      BY <1>0, <2>1, <3>1, EnvironmentPreserves, ReconcilePreserves
    <3>2. CASE s # t
      BY <1>0, <2>1, <3>2, OthersSame, SamePreserves
    <3>3. QED
      BY <3>1, <3>2
  <2>2. CASE ClusterChanges
    <3>1. /\ cluster'.life = "live" => cluster.life = "live"
          /\ UNCHANGED <<objVars, rec, files>>
      BY <1>0, <2>2 DEF ClusterChanges, TypeOK
    <3>2. QED
      BY <1>0, <3>1 DEF SnapshotInv, CacheCurrent, CopyOfRead, CopyCurrent, FinalizerLasts,
                        FilesOf, objVars
  <2>3. CASE Restart
    <3>1. /\ cached' = snapshot /\ rec'[t] = Idle
          /\ UNCHANGED <<cluster, snapshot, files>>
      BY <2>3 DEF Restart
    <3>2. QED
      BY <1>0, <3>1 DEF SnapshotInv, CacheCurrent, CopyOfRead, CopyCurrent, FinalizerLasts,
                        FilesOf, Idle, Absent
  <2>4. CASE UNCHANGED vars
    <3>1. Same(t)
      BY <2>4 DEF vars, Same
    <3>2. QED
      BY <1>0, <3>1, SamePreserves
  <2>5. QED
    BY <2>1, <2>2, <2>3, <2>4 DEF Next
<1>3. QED
  BY <1>1, <1>2 DEF IInv

LEMMA Invariance == Spec => []IInv
BY InitInv, NextInv, PTL DEF Spec

\* k3s never holds a file of an EtcdSnapshot that could still be deleted without
\* passing through the controller's finalizer.
THEOREM FinalizerBeforeFiles == Spec => []FilesNeedFinalizer
<1>1. IInv => FilesNeedFinalizer
  BY DEF IInv, SnapshotInv, FilesOf, FilesNeedFinalizer
<1>2. QED
  BY <1>1, Invariance, PTL

\* An EtcdSnapshot that has disappeared while its cluster lives took the file
\* of its status with it: no interleaving of edits, conflicts, failed calls,
\* lost replies and restarts lets the finalizer go while the file is there.
THEOREM FileGoesWithSnapshot == Spec => []RecordedFileDeleted
<1>1. IInv => RecordedFileDeleted
  BY DEF IInv, SnapshotInv, FilesOf, RecordedFileDeleted
<1>2. QED
  BY <1>1, Invariance, PTL

\* A recorded file name is kept by every step of the controller, the users and
\* the environment.
THEOREM FileNameIsKept == Spec => RecordedFileKept
<1> DEFINE Kept == \A s \in Snapshots :
                      snapshot[s].file # NoFile => snapshot'[s].file = snapshot[s].file
<1>1. IInv /\ [Next]_vars => [Kept]_vars
  <2> SUFFICES ASSUME IInv, Next, NEW t \in Snapshots, snapshot[t].file # NoFile
               PROVE  snapshot'[t].file = snapshot[t].file
    OBVIOUS
  <2>0. TypeOK /\ SnapshotInv(t) /\ snapshot[t] \in Objects
    BY DEF IInv, TypeOK
  <2>1. CASE UNCHANGED snapshot
    BY <2>1
  <2>2. ASSUME NEW s \in Snapshots, s # t,
               SyncSnapshot(s) \/ StartReconcile(s) \/ ReconcileStep(s) \/ Environment(s)
        PROVE  snapshot'[t] = snapshot[t]
    BY <2>0, <2>2, OthersSame DEF Same
  <2>3. CASE CreateSnapshot(t) \/ DeleteSnapshot(t) \/ EditMetadata(t)
    <3>1. CASE CreateSnapshot(t)
      BY <2>0, <3>1 DEF CreateSnapshot, SnapshotInv, FinalizerLasts
    <3>2. CASE DeleteSnapshot(t)
      <4>1. /\ [snapshot[t] EXCEPT !.life = "deleting"].file = snapshot[t].file
            /\ Removed(snapshot[t]).file = snapshot[t].file
        BY <2>0 DEF Removed, Objects
      <4>2. snapshot'[t] \in {[snapshot[t] EXCEPT !.life = "deleting"], Removed(snapshot[t])}
        BY <2>0, <3>2 DEF DeleteSnapshot, UserWrites, TypeOK
      <4>3. QED
        BY <4>1, <4>2
    <3>3. CASE EditMetadata(t)
      BY <2>0, <3>3 DEF EditMetadata, UserWrites, TypeOK
    <3>4. QED
      BY <2>3, <3>1, <3>2, <3>3
  <2>4. CASE AddFinalizer(t) \/ RemoveFinalizer(t)
    <3>1. /\ [snapshot[t] EXCEPT !.finalizer = TRUE].file = snapshot[t].file
          /\ Removed(snapshot[t]).file = snapshot[t].file
      BY <2>0 DEF Removed, Objects
    <3>2. QED
      BY <2>0, <2>1, <2>4, <3>1, StoreEffect DEF AddFinalizer, RemoveFinalizer, objVars
  <2>5. ASSUME NEW ready, StoreSnapshot(t, WithStatusOf(t, ready)), Accepted(t), rec[t].pc # "idle"
        PROVE  snapshot'[t].file = snapshot[t].file
    BY <2>0, <2>5, StoreEffect, StatusEffect DEF SnapshotInv, CopyCurrent, Accepted
  <2>6. CASE RecordFile(t) \/ RecordReady(t) \/ Failed(t) \/ ReplyLost(t)
    BY <2>1, <2>5, <2>6 DEF RecordFile, RecordReady, Failed, ReplyLost, objVars
  <2>7. CASE \/ SyncSnapshot(t) \/ StartReconcile(t) \/ GetCluster(t) \/ Save(t) \/ ListFiles(t)
             \/ DeleteFile(t) \/ PruneFile(t) \/ CallFails(t) \/ ClusterChanges \/ Restart
    BY <2>7 DEF SyncSnapshot, StartReconcile, GetCluster, Save, ListFiles, DeleteFile, PruneFile,
                CallFails, ClusterChanges, Restart, objVars
  <2>8. QED
    BY <2>2, <2>3, <2>4, <2>6, <2>7 DEF Next, ReconcileStep, Environment
<1>2. QED
  BY <1>1, Invariance, PTL DEF Spec, RecordedFileKept
=============================================================================
