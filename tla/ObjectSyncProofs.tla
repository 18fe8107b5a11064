------------------------- MODULE ObjectSyncProofs -------------------------
(***************************************************************************)
(* Proofs about ObjectSync: the types of its variables, and that a copy in *)
(* the host cluster has its object, with the finalizer, in the virtual     *)
(* cluster, for any number of objects created under the name, of edits,    *)
(* failures and restarts.  The theorems are about the syncers alone;       *)
(* SharedKubeletProofs takes them to the whole kubelet.                    *)
(***************************************************************************)
EXTENDS ObjectSync, TLAPS

\* The syncers alone.
SyncSpec == SyncInit /\ [][SyncNext]_syncVars

-----------------------------------------------------------------------------
(* The inductive invariant.                                                 *)

\* What the reconcile has read, which decided its way through the steps.
WayOf ==
    /\ sync.pc \in {"deleteCopy", "deleteVolume", "release"} => sync.of.life = "deleting"
    /\ sync.pc = "addFinalizer" => sync.of.life = "live"
    /\ sync.pc \in {"find", "create", "update", "status",
                    "createVolume", "volumeStatus", "bind", "phase"} =>
           sync.of.life = "live" /\ sync.of.finalizer

\* One state of the name's object may have come after another: an object that is
\* gone or under deletion does not come back to life, only a new one does.
Older(a, b) ==
    \/ a.uid < b.uid
    \/ /\ a.uid = b.uid
       /\ a.life = "absent" => b.life = "absent"
       /\ a.life = "deleting" => b.life # "live"

\* The cache never goes back in time, not even behind what a reconcile has read.
SeenInOrder ==
    /\ Older(objectSeen, object)
    /\ sync.pc # "idle" => Older(sync.of, objectSeen)

\* An object that was seen alive with the finalizer is still there, with it: only
\* a reconcile that has seen it under deletion could have removed the finalizer,
\* and the cache would have gone past that.
Protects(seen) ==
    seen.life = "live" /\ seen.finalizer =>
        object.uid = seen.uid /\ object.life # "absent" /\ object.finalizer

\* The copy that a reconcile has deleted stays deleted until the finalizer is gone.
DeletedStaysDeleted == sync.pc \in {"deleteVolume", "release"} => copy.life # "live"

SyncInv ==
    /\ WayOf
    /\ SeenInOrder
    /\ Protects(objectSeen)
    /\ sync.pc # "idle" => Protects(sync.of)
    /\ DeletedStaysDeleted
    /\ CopyHasSource

SyncIInv == SyncTypeOK /\ SyncInv

-----------------------------------------------------------------------------
(* Type correctness.                                                        *)

LEMMA SyncConstantsTyped ==
    /\ NoCopy \in Copies /\ NoSync \in Syncs
    /\ \A uid \in 0 .. MaxObjects : NoObject(uid) \in Objects
<1>1. ASSUME NEW uid \in 0 .. MaxObjects PROVE NoObject(uid) \in Objects
  BY SyncAssumption DEF NoObject, Objects
<1>2. NoCopy \in Copies
  BY SyncAssumption DEF NoCopy, Copies
<1>3. NoSync \in Syncs
  <2>1. 0 \in 0 .. MaxObjects
    BY SyncAssumption
  <2>2. QED
    BY <1>1, <1>2, <2>1 DEF NoSync, Syncs, SyncSteps
<1>4. QED
  BY <1>1, <1>2, <1>3

LEMMA TranslatedTyped ==
    ASSUME NEW o \in Objects
    PROVE  /\ Translated(o) \in Copies
           /\ \A status \in {0, 1} : [Translated(o) EXCEPT !.status = status] \in Copies
BY DEF Translated, Objects, Copies

LEMMA GotoTyped ==
    ASSUME SyncTypeOK, NEW step \in SyncSteps, Goto(step)
    PROVE  sync' \in Syncs
BY DEF SyncTypeOK, Goto, Syncs

LEMMA DoneTyped ==
    ASSUME SyncTypeOK, Done \/ Error
    PROVE  sync' \in Syncs /\ request' \in BOOLEAN
BY SyncConstantsTyped DEF SyncTypeOK, Done, Error

LEMMA EditTyped ==
    ASSUME SyncTypeOK, Edit
    PROVE  edits' \in 0 .. MaxEdits /\ syncFaults' \in 0 .. MaxSyncFaults /\ edits' = edits + 1
BY SyncAssumption DEF SyncTypeOK, Edit

LEMMA UsersTyped ==
    ASSUME SyncTypeOK,
           \/ CreateObject \/ EditObject \/ DeleteObject \/ ToggleSync \/ LoseCopy
           \/ RemoveCopy \/ PublishStatus
    PROVE  SyncTypeOK'
<1>1. CASE CreateObject
  <2>0. object.uid \in 0 .. MaxObjects /\ object.uid < MaxObjects
    BY <1>1 DEF CreateObject, SyncTypeOK, Objects
  <2>1. object.uid + 1 \in 0 .. MaxObjects
    BY <2>0, SyncAssumption
  <2>2. PICK match \in BOOLEAN :
           object' = [NoObject(object.uid + 1) EXCEPT !.life = "live", !.match = match]
    BY <1>1 DEF CreateObject
  <2>3. object' = [life |-> "live", uid |-> object.uid + 1, version |-> 0, match |-> match,
                   finalizer |-> FALSE, status |-> 0, bound |-> "no"]
    BY <2>2 DEF NoObject
  <2>4. object' \in Objects
    BY <2>1, <2>3, SyncAssumption DEF Objects
  <2>5. QED
    BY <1>1, <2>4 DEF CreateObject, SyncTypeOK, boundVars
<1>2. CASE EditObject
  <2>1. edits + 1 \in 0 .. MaxEdits
    BY <1>2, EditTyped DEF EditObject
  <2>2. ASSUME NEW match \in BOOLEAN
        PROVE  [object EXCEPT !.version = edits + 1, !.match = match] \in Objects
    BY <2>1 DEF SyncTypeOK, Objects
  <2>3. object' \in Objects
    BY <1>2, <2>2 DEF EditObject
  <2>4. QED
    BY <1>2, <2>3, EditTyped DEF EditObject, SyncTypeOK
<1>3. CASE DeleteObject
  <2>1. [object EXCEPT !.life = "deleting"] \in Objects /\ NoObject(object.uid) \in Objects
    BY SyncConstantsTyped DEF SyncTypeOK, Objects
  <2>2. QED
    BY <1>3, <2>1 DEF DeleteObject, SyncTypeOK, boundVars
<1>4. CASE ToggleSync
  BY <1>4, EditTyped DEF ToggleSync, SyncTypeOK, clusterVars
<1>5. CASE LoseCopy
  BY <1>5, EditTyped, SyncConstantsTyped DEF LoseCopy, SyncTypeOK
<1>6. CASE RemoveCopy
  BY <1>6, SyncConstantsTyped DEF RemoveCopy, SyncTypeOK, boundVars
<1>7. CASE PublishStatus
  <2>1. [copy EXCEPT !.status = 1] \in Copies
    BY DEF SyncTypeOK, Copies
  <2>2. QED
    BY <1>7, <2>1 DEF PublishStatus, SyncTypeOK, boundVars
<1>8. QED
  BY <1>1, <1>2, <1>3, <1>4, <1>5, <1>6, <1>7

LEMMA EventsTyped ==
    ASSUME SyncTypeOK,
           SyncObject \/ SyncCopy \/ ResyncObject \/ SyncCallFails \/ SyncRestart
    PROVE  SyncTypeOK'
<1>1. CASE SyncObject
  <2>1. request' \in BOOLEAN
    BY <1>1 DEF SyncObject
  <2>2. QED
    BY <1>1, <2>1 DEF SyncObject, SyncTypeOK, boundVars
<1>2. CASE SyncCopy
  <2>1. request' \in BOOLEAN
    BY <1>2 DEF SyncCopy
  <2>2. QED
    BY <1>2, <2>1 DEF SyncCopy, SyncTypeOK, boundVars
<1>3. CASE ResyncObject
  BY <1>3 DEF ResyncObject, SyncTypeOK, clusterVars, boundVars
<1>4. ASSUME SyncDisturb PROVE syncFaults' \in 0 .. MaxSyncFaults /\ edits' = edits
  BY <1>4, SyncAssumption DEF SyncDisturb, SyncTypeOK
<1>5. CASE SyncCallFails
  BY <1>4, <1>5, DoneTyped DEF SyncCallFails, SyncTypeOK, clusterVars
<1>6. CASE SyncRestart
  <2>1. request' \in BOOLEAN
    BY <1>6 DEF SyncRestart
  <2>2. QED
    BY <1>4, <1>6, <2>1, SyncConstantsTyped DEF SyncRestart, SyncTypeOK
<1>7. QED
  BY <1>1, <1>2, <1>3, <1>5, <1>6

LEMMA StepTyped ==
    ASSUME SyncTypeOK, SyncStep
    PROVE  SyncTypeOK'
<1>0. sync.of \in Objects /\ sync.found \in Copies /\ sync.pc \in SyncSteps
  BY DEF SyncTypeOK, Syncs
<1> USE DEF clusterVars, boundVars
<1>1. CASE StartSync
  <2>1. FirstStep(objectSeen) \in SyncSteps
    BY DEF FirstStep, SyncSteps
  <2>2. [NoSync EXCEPT !.pc = FirstStep(objectSeen), !.of = objectSeen] \in Syncs
    BY <2>1, SyncConstantsTyped DEF SyncTypeOK, Syncs
  <2>3. sync' \in Syncs
    BY <1>1, <2>2, SyncConstantsTyped DEF StartSync
  <2>4. QED
    BY <1>1, <2>3 DEF StartSync, SyncTypeOK
<1>2. CASE DeleteCopy
  <2>1. [copy EXCEPT !.life = "deleting"] \in Copies
    BY DEF SyncTypeOK, Copies
  <2>2. copy' \in Copies
    BY <1>2, <2>1, SyncConstantsTyped DEF DeleteCopy, SyncTypeOK
  <2>3. sync' \in Syncs
    BY <1>2, GotoTyped DEF DeleteCopy, SyncSteps
  <2>4. QED
    BY <1>2, <2>2, <2>3 DEF DeleteCopy, SyncTypeOK
<1>3. CASE DeleteVolume
  BY <1>3, GotoTyped DEF DeleteVolume, SyncTypeOK, SyncSteps
<1>4. CASE ReleaseObject
  <2>1. NoObject(sync.of.uid) \in Objects
    BY <1>0, SyncConstantsTyped DEF Objects
  <2>2. QED
    BY <1>4, <2>1, DoneTyped DEF ReleaseObject, UpdateObject, SyncTypeOK
<1>5. CASE AddSyncFinalizer
  <2> DEFINE o == [sync.of EXCEPT !.finalizer = TRUE]
  <2>1. o \in Objects
    BY <1>0 DEF Objects
  <2>2. [sync EXCEPT !.pc = "find", !.of = o] \in Syncs
    BY <1>0, <2>1 DEF SyncTypeOK, Syncs, SyncSteps
  <2>3. CASE object' = o /\ sync' = [sync EXCEPT !.pc = "find", !.of = o] /\ UNCHANGED request
    BY <1>5, <2>1, <2>2, <2>3 DEF AddSyncFinalizer, SyncTypeOK
  <2>4. CASE Error /\ UNCHANGED object
    BY <1>5, <2>4, DoneTyped DEF AddSyncFinalizer, SyncTypeOK
  <2>5. QED
    BY <1>5, <2>3, <2>4 DEF AddSyncFinalizer, UpdateObject
<1>6. CASE FindCopy
  <2>1. [sync EXCEPT !.pc = "update", !.found = copySeen] \in Syncs
    BY <1>0 DEF SyncTypeOK, Syncs, SyncSteps
  <2>2. sync' \in Syncs
    BY <1>6, <2>1, GotoTyped, DoneTyped DEF FindCopy, SyncSteps
  <2>3. QED
    BY <1>6, <2>2, DoneTyped DEF FindCopy, SyncTypeOK
<1>7. CASE CreateCopy
  <2>1. copy' \in Copies
    BY <1>0, <1>7, TranslatedTyped DEF CreateCopy, SyncTypeOK
  <2>2. sync' \in Syncs /\ request' \in BOOLEAN
    BY <1>7, GotoTyped, DoneTyped DEF CreateCopy, SyncTypeOK, SyncSteps
  <2>3. QED
    BY <1>7, <2>1, <2>2 DEF CreateCopy, SyncTypeOK
<1>8. CASE UpdateCopy
  <2>1. copy.status \in {0, 1}
    BY DEF SyncTypeOK, Copies
  <2>2. copy' \in Copies
    BY <1>0, <1>8, <2>1, TranslatedTyped DEF UpdateCopy, SyncTypeOK
  <2>3. sync' \in Syncs /\ request' \in BOOLEAN
    BY <1>8, GotoTyped, DoneTyped DEF UpdateCopy, SyncTypeOK, SyncSteps
  <2>4. QED
    BY <1>8, <2>2, <2>3 DEF UpdateCopy, SyncTypeOK
<1>9. CASE SyncStatus
  <2>1. [object EXCEPT !.status = sync.found.status] \in Objects
    BY <1>0 DEF SyncTypeOK, Objects, Copies
  <2>2. QED
    BY <1>9, <2>1, DoneTyped DEF SyncStatus, SyncTypeOK
<1>10. CASE CreateVolume
  BY <1>10, GotoTyped DEF CreateVolume, SyncTypeOK, SyncSteps
<1>11. CASE PatchVolumeStatus
  BY <1>11, GotoTyped DEF PatchVolumeStatus, SyncTypeOK, SyncSteps
<1>12. CASE BindClaim
  <2> DEFINE o == [sync.of EXCEPT !.bound = "named"]
  <2>1. o \in Objects
    BY <1>0 DEF Objects
  <2>2. [sync EXCEPT !.pc = "phase", !.of = o] \in Syncs
    BY <1>0, <2>1 DEF SyncTypeOK, Syncs, SyncSteps
  <2>3. CASE object' = o /\ sync' = [sync EXCEPT !.pc = "phase", !.of = o] /\ UNCHANGED request
    BY <1>12, <2>1, <2>2, <2>3 DEF BindClaim, SyncTypeOK
  <2>4. CASE Error /\ UNCHANGED object
    BY <1>12, <2>4, DoneTyped DEF BindClaim, SyncTypeOK
  <2>5. QED
    BY <1>12, <2>3, <2>4 DEF BindClaim, UpdateObject
<1>13. CASE UpdateClaimStatus
  <2>1. [sync.of EXCEPT !.bound = "bound"] \in Objects
    BY <1>0 DEF Objects
  <2>2. QED
    BY <1>13, <2>1, DoneTyped DEF UpdateClaimStatus, UpdateObject, SyncTypeOK
<1>14. QED
  BY <1>1, <1>2, <1>3, <1>4, <1>5, <1>6, <1>7, <1>8, <1>9, <1>10, <1>11, <1>12, <1>13
     DEF SyncStep

LEMMA SyncInitTyped == SyncInit => SyncTypeOK
<1> SUFFICES ASSUME SyncInit PROVE SyncTypeOK
  OBVIOUS
<1>1. 0 \in 0 .. MaxObjects /\ 0 \in 0 .. MaxEdits /\ 0 \in 0 .. MaxSyncFaults
  BY SyncAssumption
<1>2. QED
  BY <1>1, SyncConstantsTyped DEF SyncInit, SyncTypeOK

LEMMA SyncNextTyped == SyncTypeOK /\ [SyncNext]_syncVars => SyncTypeOK'
<1> SUFFICES ASSUME SyncTypeOK, [SyncNext]_syncVars PROVE SyncTypeOK'
  OBVIOUS
<1>1. CASE UNCHANGED syncVars
  BY <1>1 DEF SyncTypeOK, syncVars
<1>2. QED
  BY <1>1, UsersTyped, EventsTyped, StepTyped DEF SyncNext

-----------------------------------------------------------------------------
(* The invariant is inductive.                                              *)

\* Writes that leave uid, life and finalizer of the object alone.
LEMMA HarmlessWrite ==
    ASSUME SyncIInv, object'.uid = object.uid, object'.life = object.life,
           object.finalizer => object'.finalizer,
           UNCHANGED <<objectSeen, copy>>, sync' \in {sync, NoSync}
    PROVE  SyncInv'
<1>1. WayOf' /\ DeletedStaysDeleted'
  BY DEF SyncIInv, SyncInv, WayOf, DeletedStaysDeleted, NoSync
<1>2. Older(objectSeen, object)'
  BY DEF SyncIInv, SyncInv, SeenInOrder, Older
<1>3. SeenInOrder'
  BY <1>2 DEF SyncIInv, SyncInv, SeenInOrder, Older, NoSync
<1>4. Protects(objectSeen)' /\ (sync.pc # "idle" => Protects(sync.of))'
  BY DEF SyncIInv, SyncInv, Protects, NoSync
<1>5. CopyHasSource'
  BY DEF SyncIInv, SyncInv, CopyHasSource
<1>6. QED
  BY <1>1, <1>3, <1>4, <1>5 DEF SyncInv

\* The copy changes but does not come to life.
LEMMA HarmlessCopy ==
    ASSUME SyncIInv, UNCHANGED <<object, objectSeen>>, sync' \in {sync, NoSync},
           copy'.life = "live" => copy.life = "live" /\ copy'.uid = copy.uid
    PROVE  SyncInv'
<1>1. WayOf' /\ DeletedStaysDeleted'
  BY DEF SyncIInv, SyncInv, WayOf, DeletedStaysDeleted, NoSync
<1>2. SeenInOrder' /\ Protects(objectSeen)' /\ (sync.pc # "idle" => Protects(sync.of))'
  BY DEF SyncIInv, SyncInv, SeenInOrder, Older, Protects, NoSync
<1>3. CopyHasSource'
  BY DEF SyncIInv, SyncInv, CopyHasSource
<1>4. QED
  BY <1>1, <1>2, <1>3 DEF SyncInv

\* The reconcile goes on to another step, the object is left alone.
LEMMA NextStep ==
    ASSUME SyncIInv, UNCHANGED <<object, objectSeen>>, sync'.of = sync.of, sync.pc # "idle",
           WayOf', DeletedStaysDeleted', CopyHasSource'
    PROVE  SyncInv'
<1>1. SeenInOrder' /\ Protects(objectSeen)' /\ (sync.pc # "idle" => Protects(sync.of))'
  BY DEF SyncIInv, SyncInv, SeenInOrder, Older, Protects
<1>2. QED
  BY <1>1 DEF SyncInv

LEMMA UsersPreserve ==
    ASSUME SyncIInv,
           \/ CreateObject \/ EditObject \/ DeleteObject \/ ToggleSync \/ LoseCopy
           \/ RemoveCopy \/ PublishStatus
    PROVE  SyncInv'
<1>0. /\ object \in Objects /\ objectSeen \in Objects /\ sync \in Syncs /\ copy \in Copies
      /\ sync.of \in Objects
  BY DEF SyncIInv, SyncTypeOK, Syncs
<1>1. CASE CreateObject
  <2>1. object.life = "absent" /\ object' \in Objects /\ UNCHANGED <<objectSeen, copy, sync>>
    BY <1>1, UsersTyped DEF CreateObject, SyncIInv, SyncTypeOK
  <2>2. object'.uid = object.uid + 1 /\ object'.life = "live"
    BY <1>1 DEF CreateObject, NoObject
  <2>3. objectSeen.uid \in Nat /\ object.uid \in Nat /\ sync.of.uid \in Nat
    BY <1>0 DEF Objects
  <2>4. Older(objectSeen, object)'
    <3>1. objectSeen.uid <= object.uid
      BY <2>3 DEF SyncIInv, SyncInv, SeenInOrder, Older
    <3>2. objectSeen'.uid < object'.uid
      BY <2>1, <2>2, <2>3, <3>1
    <3>3. QED
      BY <3>2 DEF Older
  <2>5. SeenInOrder'
    BY <2>1, <2>4 DEF SyncIInv, SyncInv, SeenInOrder, Older
  <2>6. ~(objectSeen.life = "live" /\ objectSeen.finalizer) /\ copy.life # "live"
    BY <2>1 DEF SyncIInv, SyncInv, Protects, CopyHasSource
  <2>7. sync.pc # "idle" => ~(sync.of.life = "live" /\ sync.of.finalizer)
    BY <2>1 DEF SyncIInv, SyncInv, Protects
  <2>8. WayOf' /\ DeletedStaysDeleted' /\ Protects(objectSeen)' /\ CopyHasSource'
        /\ (sync.pc # "idle" => Protects(sync.of))'
    BY <2>1, <2>6, <2>7
       DEF SyncIInv, SyncInv, WayOf, DeletedStaysDeleted, Protects, CopyHasSource
  <2>9. QED
    BY <2>5, <2>8 DEF SyncInv
<1>2. CASE EditObject
  <2>1. PICK match \in BOOLEAN : object' = [object EXCEPT !.version = edits + 1, !.match = match]
    BY <1>2 DEF EditObject
  <2>2. /\ object'.uid = object.uid /\ object'.life = object.life
        /\ object'.finalizer = object.finalizer
    BY <1>0, <2>1 DEF Objects
  <2>3. QED
    BY <1>2, <2>2, HarmlessWrite DEF EditObject
<1>3. CASE DeleteObject
  <2>1. object.life = "live" /\ UNCHANGED <<objectSeen, copy, sync>>
    BY <1>3 DEF DeleteObject
  <2>2. /\ object'.uid = object.uid /\ object'.life \in {"absent", "deleting"}
        /\ object.finalizer => object'.life = "deleting" /\ object'.finalizer
    BY <1>0, <1>3 DEF DeleteObject, Objects, NoObject
  <2>3. Older(objectSeen, object)'
    BY <2>1, <2>2 DEF SyncIInv, SyncInv, SeenInOrder, Older
  <2>4. SeenInOrder'
    BY <2>1, <2>3 DEF SyncIInv, SyncInv, SeenInOrder, Older
  <2>5. Protects(objectSeen)' /\ (sync.pc # "idle" => Protects(sync.of))'
    BY <2>1, <2>2 DEF SyncIInv, SyncInv, Protects
  <2>6. WayOf' /\ DeletedStaysDeleted' /\ CopyHasSource'
    BY <2>1, <2>2 DEF SyncIInv, SyncInv, WayOf, DeletedStaysDeleted, CopyHasSource
  <2>7. QED
    BY <2>4, <2>5, <2>6 DEF SyncInv
<1>4. CASE ToggleSync
  BY <1>4, HarmlessCopy DEF ToggleSync, clusterVars
<1>5. CASE LoseCopy \/ RemoveCopy
  BY <1>5, HarmlessCopy DEF LoseCopy, RemoveCopy, NoCopy
<1>6. CASE PublishStatus
  <2>1. copy'.life = copy.life /\ copy'.uid = copy.uid
    BY <1>0, <1>6 DEF PublishStatus, Copies
  <2>2. QED
    BY <1>6, <2>1, HarmlessCopy DEF PublishStatus
<1>7. QED
  BY <1>1, <1>2, <1>3, <1>4, <1>5, <1>6

LEMMA EventsPreserve ==
    ASSUME SyncIInv,
           SyncObject \/ SyncCopy \/ ResyncObject \/ SyncCallFails \/ SyncRestart
    PROVE  SyncInv'
<1>1. CASE SyncObject
  <2>1. objectSeen' = object /\ UNCHANGED <<object, copy, sync>>
    BY <1>1 DEF SyncObject
  <2>2. /\ object.uid \in Nat /\ objectSeen.uid \in Nat /\ sync.of.uid \in Nat
        /\ objectSeen.life \in {"absent", "live", "deleting"}
        /\ object.life \in {"absent", "live", "deleting"}
    BY DEF SyncIInv, SyncTypeOK, Syncs, Objects
  <2>3. sync.pc # "idle" => Older(sync.of, object)
    <3>1. Older(objectSeen, object) /\ (sync.pc # "idle" => Older(sync.of, objectSeen))
      BY DEF SyncIInv, SyncInv, SeenInOrder
    <3>2. QED
      BY <2>2, <3>1 DEF Older
  <2>4. SeenInOrder'
    BY <2>1, <2>3 DEF SeenInOrder, Older
  <2>5. Protects(objectSeen)' /\ (sync.pc # "idle" => Protects(sync.of))'
    BY <2>1 DEF SyncIInv, SyncInv, Protects
  <2>6. WayOf' /\ DeletedStaysDeleted' /\ CopyHasSource'
    BY <2>1 DEF SyncIInv, SyncInv, WayOf, DeletedStaysDeleted, CopyHasSource
  <2>7. QED
    BY <2>4, <2>5, <2>6 DEF SyncInv
<1>2. CASE SyncCopy \/ ResyncObject
  BY <1>2, HarmlessCopy DEF SyncCopy, ResyncObject, clusterVars
<1>3. CASE SyncCallFails
  BY <1>3, HarmlessCopy DEF SyncCallFails, Error, clusterVars
<1>4. CASE SyncRestart
  <2>1. objectSeen' = object /\ UNCHANGED <<object, copy>> /\ sync' = NoSync
    BY <1>4 DEF SyncRestart
  <2>2. SeenInOrder' /\ Protects(objectSeen)' /\ sync'.pc = "idle"
    BY <2>1 DEF SeenInOrder, Older, Protects, NoSync
  <2>3. WayOf' /\ DeletedStaysDeleted' /\ CopyHasSource'
    BY <2>1, <2>2 DEF SyncIInv, SyncInv, WayOf, DeletedStaysDeleted, CopyHasSource
  <2>4. QED
    BY <2>2, <2>3 DEF SyncInv
<1>5. QED
  BY <1>1, <1>2, <1>3, <1>4

\* What Goto does to the reconcile.
LEMMA GotoEffect ==
    ASSUME SyncTypeOK, NEW step, Goto(step)
    PROVE  sync'.pc = step /\ sync'.of = sync.of
BY DEF SyncTypeOK, Syncs, Goto

\* A write of the copy by a reconcile that has seen the object with the finalizer.
LEMMA CopyWritten ==
    ASSUME SyncIInv, UNCHANGED <<object, objectSeen>>,
           sync.pc \in {"create", "update"}, copy'.uid = sync.of.uid,
           \/ sync' = NoSync
           \/ sync'.pc \in {"status", "createVolume"} /\ sync'.of = sync.of
    PROVE  SyncInv'
<1>1. object.uid = sync.of.uid /\ object.life # "absent" /\ object.finalizer
  BY DEF SyncIInv, SyncInv, WayOf, Protects
<1>2. CopyHasSource'
  BY <1>1 DEF CopyHasSource
<1>3. WayOf' /\ DeletedStaysDeleted'
  BY DEF SyncIInv, SyncInv, WayOf, DeletedStaysDeleted, NoSync
<1>4. CASE sync' = NoSync
  <2>1. SeenInOrder' /\ Protects(objectSeen)' /\ sync'.pc = "idle"
    BY <1>4 DEF SyncIInv, SyncInv, SeenInOrder, Older, Protects, NoSync
  <2>2. QED
    BY <1>2, <1>3, <2>1 DEF SyncInv
<1>5. CASE sync'.of = sync.of
  BY <1>2, <1>3, <1>5, NextStep
<1>6. QED
  BY <1>4, <1>5

LEMMA StepsPreserve ==
    ASSUME SyncIInv, SyncStep
    PROVE  SyncInv'
<1> USE DEF clusterVars
<1>0. /\ SyncTypeOK /\ object \in Objects /\ sync.of \in Objects /\ objectSeen \in Objects
      /\ object.uid \in Nat /\ sync.of.uid \in Nat /\ objectSeen.uid \in Nat
  BY DEF SyncIInv, SyncTypeOK, Syncs, Objects
<1>1. CASE StartSync
  <2>1. UNCHANGED <<object, objectSeen, copy>>
    BY <1>1 DEF StartSync
  <2>2. CASE objectSeen.life = "absent"
    BY <1>1, <2>1, <2>2, HarmlessCopy DEF StartSync
  <2>3. CASE objectSeen.life # "absent"
    <3>1. sync'.pc = FirstStep(objectSeen) /\ sync'.of = objectSeen
      BY <1>1, <2>3 DEF StartSync, NoSync
    <3>2. SeenInOrder' /\ Protects(objectSeen)' /\ (sync.pc # "idle" => Protects(sync.of))'
      BY <2>1, <3>1 DEF SyncIInv, SyncInv, SeenInOrder, Older, Protects
    <3>3. WayOf'
      BY <1>0, <2>3, <3>1 DEF WayOf, FirstStep, Objects
    <3>4. DeletedStaysDeleted' /\ CopyHasSource'
      BY <2>1, <3>1 DEF SyncIInv, SyncInv, DeletedStaysDeleted, CopyHasSource, FirstStep
    <3>5. QED
      BY <3>2, <3>3, <3>4 DEF SyncInv
  <2>4. QED
    BY <2>2, <2>3
<1>2. CASE DeleteCopy
  <2>1. copy'.life # "live"
    BY <1>2 DEF DeleteCopy, NoCopy, SyncIInv, SyncTypeOK, Copies
  <2>2. sync'.pc \in {"deleteVolume", "release"} /\ sync'.of = sync.of
    BY <1>0, <1>2, GotoEffect DEF DeleteCopy
  <2>3. WayOf' /\ DeletedStaysDeleted' /\ CopyHasSource'
    BY <1>2, <2>1, <2>2
       DEF DeleteCopy, SyncIInv, SyncInv, WayOf, DeletedStaysDeleted, CopyHasSource
  <2>4. QED
    BY <1>2, <2>2, <2>3, NextStep DEF DeleteCopy
<1>3. CASE DeleteVolume
  <2>1. sync'.pc = "release" /\ sync'.of = sync.of
    BY <1>0, <1>3, GotoEffect DEF DeleteVolume
  <2>2. WayOf' /\ DeletedStaysDeleted' /\ CopyHasSource'
    BY <1>3, <2>1
       DEF DeleteVolume, SyncIInv, SyncInv, WayOf, DeletedStaysDeleted, CopyHasSource
  <2>3. QED
    BY <1>3, <2>1, <2>2, NextStep DEF DeleteVolume
<1>4. CASE ReleaseObject
  <2>1. CASE UNCHANGED object
    BY <1>4, <2>1, HarmlessCopy DEF ReleaseObject, Done, Error
  <2>2. CASE object = sync.of /\ object' = NoObject(sync.of.uid) /\ Done
    <3>1. /\ sync.of.life = "deleting" /\ copy.life # "live"
          /\ Older(sync.of, objectSeen) /\ Protects(objectSeen)
      BY <1>4 DEF ReleaseObject, SyncIInv, SyncInv, WayOf, DeletedStaysDeleted, SeenInOrder
    <3>2. ~(objectSeen.life = "live" /\ objectSeen.finalizer)
      BY <1>0, <2>2, <3>1 DEF Older, Protects
    <3>3. /\ object'.uid = object.uid /\ object'.life = "absent" /\ sync'.pc = "idle"
          /\ UNCHANGED <<objectSeen, copy>>
      BY <1>4, <2>2 DEF ReleaseObject, NoObject, Done, NoSync
    <3>4. SeenInOrder'
      BY <3>3 DEF SyncIInv, SyncInv, SeenInOrder, Older
    <3>5. WayOf' /\ Protects(objectSeen)' /\ DeletedStaysDeleted' /\ CopyHasSource'
      BY <3>1, <3>2, <3>3 DEF WayOf, Protects, DeletedStaysDeleted, CopyHasSource
    <3>6. QED
      BY <3>3, <3>4, <3>5 DEF SyncInv
  <2>3. QED
    BY <1>4, <2>1, <2>2 DEF ReleaseObject, UpdateObject
<1>5. CASE AddSyncFinalizer
  <2> DEFINE o == [sync.of EXCEPT !.finalizer = TRUE]
  <2>1. CASE Error /\ UNCHANGED object
    BY <1>5, <2>1, HarmlessCopy DEF AddSyncFinalizer, Error
  <2>2. CASE object = sync.of /\ object' = o /\ sync' = [sync EXCEPT !.pc = "find", !.of = o]
    <3>1. o.life = sync.of.life /\ o.uid = sync.of.uid /\ o.finalizer
      BY <1>0 DEF Objects
    <3>2. /\ sync'.pc = "find" /\ sync'.of = o /\ sync.of.life = "live"
          /\ UNCHANGED <<objectSeen, copy>>
      BY <1>0, <1>5, <2>2 DEF AddSyncFinalizer, SyncTypeOK, Syncs, SyncIInv, SyncInv, WayOf
    <3>3. Older(sync.of, objectSeen) /\ Older(objectSeen, object)
      BY <1>5 DEF AddSyncFinalizer, SyncIInv, SyncInv, SeenInOrder
    <3>4. SeenInOrder'
      BY <2>2, <3>1, <3>2, <3>3 DEF SeenInOrder, Older
    <3>5. WayOf' /\ DeletedStaysDeleted' /\ (sync.pc # "idle" => Protects(sync.of))'
      BY <2>2, <3>1, <3>2 DEF WayOf, DeletedStaysDeleted, Protects
    <3>6. Protects(objectSeen)' /\ CopyHasSource'
      BY <2>2, <3>1, <3>2 DEF SyncIInv, SyncInv, Protects, CopyHasSource
    <3>7. QED
      BY <3>4, <3>5, <3>6 DEF SyncInv
  <2>3. QED
    BY <1>5, <2>1, <2>2 DEF AddSyncFinalizer, UpdateObject
<1>6. CASE FindCopy
  <2>1. UNCHANGED <<object, objectSeen, copy>> /\ sync.pc = "find"
    BY <1>6 DEF FindCopy
  <2>2. CASE Done
    BY <2>1, <2>2, HarmlessCopy DEF Done
  <2>3. CASE ~Done
    <3>1. sync'.pc \in {"create", "update"} /\ sync'.of = sync.of
      BY <1>0, <1>6, <2>3, GotoEffect DEF FindCopy, SyncTypeOK, Syncs
    <3>2. WayOf' /\ DeletedStaysDeleted' /\ CopyHasSource'
      BY <2>1, <3>1 DEF SyncIInv, SyncInv, WayOf, DeletedStaysDeleted, CopyHasSource
    <3>3. QED
      BY <2>1, <3>1, <3>2, NextStep
  <2>4. QED
    BY <2>2, <2>3
<1>7. CASE CreateCopy
  <2>1. sync' = NoSync \/ (sync'.pc = "createVolume" /\ sync'.of = sync.of)
    BY <1>0, <1>7, GotoEffect DEF CreateCopy, Done, Error
  <2>2. CASE copy.life = "absent"
    BY <1>7, <2>1, <2>2, CopyWritten DEF CreateCopy, Translated
  <2>3. CASE copy.life # "absent"
    <3>1. UNCHANGED <<object, objectSeen, copy>> /\ sync.pc = "create"
      BY <1>7, <2>3 DEF CreateCopy
    <3>2. CASE sync' = NoSync
      BY <3>1, <3>2, HarmlessCopy
    <3>3. CASE sync'.pc = "createVolume" /\ sync'.of = sync.of
      <4>1. WayOf' /\ DeletedStaysDeleted' /\ CopyHasSource'
        BY <3>1, <3>3 DEF SyncIInv, SyncInv, WayOf, DeletedStaysDeleted, CopyHasSource
      <4>2. QED
        BY <3>1, <3>3, <4>1, NextStep
    <3>4. QED
      BY <2>1, <3>2, <3>3
  <2>4. QED
    BY <2>2, <2>3
<1>8. CASE UpdateCopy
  <2>1. CASE Error /\ UNCHANGED copy
    BY <1>8, <2>1, HarmlessCopy DEF UpdateCopy, Error
  <2>2. CASE copy' = [Translated(sync.of) EXCEPT !.status = copy.status]
             /\ (Done \/ Goto("status"))
    <3>1. copy'.uid = sync.of.uid
      BY <2>2 DEF Translated
    <3>2. QED
      BY <1>0, <1>8, <2>2, <3>1, GotoEffect, CopyWritten DEF UpdateCopy, Done
  <2>3. QED
    BY <1>8, <2>1, <2>2 DEF UpdateCopy
<1>9. CASE SyncStatus
  <2>1. /\ object'.uid = object.uid /\ object'.life = object.life
        /\ object'.finalizer = object.finalizer
    BY <1>0, <1>9 DEF SyncStatus, Objects
  <2>2. QED
    BY <1>9, <2>1, HarmlessWrite DEF SyncStatus, Done
<1>10. CASE CreateVolume
  <2>1. sync'.pc = "volumeStatus" /\ sync'.of = sync.of
    BY <1>0, <1>10, GotoEffect DEF CreateVolume
  <2>2. WayOf' /\ DeletedStaysDeleted' /\ CopyHasSource'
    BY <1>10, <2>1
       DEF CreateVolume, SyncIInv, SyncInv, WayOf, DeletedStaysDeleted, CopyHasSource
  <2>3. QED
    BY <1>10, <2>1, <2>2, NextStep DEF CreateVolume
<1>11. CASE PatchVolumeStatus
  <2>1. sync'.pc = "bind" /\ sync'.of = sync.of
    BY <1>0, <1>11, GotoEffect DEF PatchVolumeStatus
  <2>2. WayOf' /\ DeletedStaysDeleted' /\ CopyHasSource'
    BY <1>11, <2>1
       DEF PatchVolumeStatus, SyncIInv, SyncInv, WayOf, DeletedStaysDeleted, CopyHasSource
  <2>3. QED
    BY <1>11, <2>1, <2>2, NextStep DEF PatchVolumeStatus
<1>12. CASE BindClaim
  <2> DEFINE o == [sync.of EXCEPT !.bound = "named"]
  <2>1. CASE Error /\ UNCHANGED object
    BY <1>12, <2>1, HarmlessCopy DEF BindClaim, Error
  <2>2. CASE object = sync.of /\ object' = o /\ sync' = [sync EXCEPT !.pc = "phase", !.of = o]
    <3>1. o.life = sync.of.life /\ o.uid = sync.of.uid /\ o.finalizer = sync.of.finalizer
      BY <1>0 DEF Objects
    <3>2. /\ sync'.pc = "phase" /\ sync'.of = o /\ sync.of.life = "live" /\ sync.of.finalizer
          /\ UNCHANGED <<objectSeen, copy>>
      BY <1>0, <1>12, <2>2 DEF BindClaim, SyncTypeOK, Syncs, SyncIInv, SyncInv, WayOf
    <3>3. Older(sync.of, objectSeen) /\ Older(objectSeen, object)
      BY <1>12 DEF BindClaim, SyncIInv, SyncInv, SeenInOrder
    <3>4. SeenInOrder'
      BY <2>2, <3>1, <3>2, <3>3 DEF SeenInOrder, Older
    <3>5. WayOf' /\ DeletedStaysDeleted' /\ (sync.pc # "idle" => Protects(sync.of))'
      BY <2>2, <3>1, <3>2 DEF WayOf, DeletedStaysDeleted, Protects
    <3>6. Protects(objectSeen)' /\ CopyHasSource'
      BY <2>2, <3>1, <3>2 DEF SyncIInv, SyncInv, Protects, CopyHasSource
    <3>7. QED
      BY <3>4, <3>5, <3>6 DEF SyncInv
  <2>3. QED
    BY <1>12, <2>1, <2>2 DEF BindClaim, UpdateObject
<1>13. CASE UpdateClaimStatus
  <2>1. /\ object'.uid = object.uid /\ object'.life = object.life
        /\ object'.finalizer = object.finalizer
    BY <1>0, <1>13 DEF UpdateClaimStatus, UpdateObject, Objects
  <2>2. QED
    BY <1>13, <2>1, HarmlessWrite DEF UpdateClaimStatus, Done, Error
<1>14. QED
  BY <1>1, <1>2, <1>3, <1>4, <1>5, <1>6, <1>7, <1>8, <1>9, <1>10, <1>11, <1>12, <1>13
     DEF SyncStep

-----------------------------------------------------------------------------
(* The theorems.                                                            *)

LEMMA SyncInitInv == SyncInit => SyncIInv
<1> SUFFICES ASSUME SyncInit PROVE SyncIInv
  OBVIOUS
<1>1. SyncInv
  BY DEF SyncInit, SyncInv, WayOf, SeenInOrder, Older, Protects, DeletedStaysDeleted,
         CopyHasSource, NoSync, NoCopy, NoObject
<1>2. QED
  BY <1>1, SyncInitTyped DEF SyncIInv

LEMMA SyncNextInv == SyncIInv /\ [SyncNext]_syncVars => SyncIInv'
<1> SUFFICES ASSUME SyncIInv, [SyncNext]_syncVars PROVE SyncIInv'
  OBVIOUS
<1>1. SyncTypeOK'
  BY SyncNextTyped DEF SyncIInv
<1>2. CASE UNCHANGED syncVars
  BY <1>1, <1>2, HarmlessCopy DEF syncVars, SyncIInv
<1>3. QED
  BY <1>1, <1>2, UsersPreserve, EventsPreserve, StepsPreserve DEF SyncNext, SyncIInv

\* The syncers alone, with every kind of object, keep a copy only of an object
\* that exists and carries the finalizer.
THEOREM SyncersKeepSource == SyncSpec => [](SyncTypeOK /\ CopyHasSource)
<1>1. SyncIInv => SyncTypeOK /\ CopyHasSource
  BY DEF SyncIInv, SyncInv
<1>2. QED
  BY <1>1, SyncInitInv, SyncNextInv, PTL DEF SyncSpec
=============================================================================
