------------------------ MODULE PortAllocatorProofs ------------------------
(***************************************************************************)
(* Proofs about PortAllocator: its type invariant for every instance, and, *)
(* when reconciles run one at a time, that the ConfigMap's map and bitmap  *)
(* agree and that the map implements the abstract pool of leases; and, if  *)
(* no name is used twice either, that the port a Cluster shows is reserved *)
(* for it, that agents do not share a port, and that a lease is kept for   *)
(* as long as its Cluster.                                                 *)
(***************************************************************************)
EXTENDS PortAllocator, FiniteSetTheorems, TLAPS

LEMMA ConstantsTyped ==
    /\ Absent \in ClusterObjects
    /\ Gone \in ClusterObjects
    /\ NotMade \in ConfigMaps
    /\ EmptyCM \in ConfigMaps
    /\ NoLocal \in Locals
BY DEF Absent, Gone, ClusterObjects, AnyPort, NotMade, EmptyCM, ConfigMaps, EmptyMap,
       PortMaps, NoLocal, Locals

LEMMA InitTyped == Init => TypeOK
<1> SUFFICES ASSUME Init PROVE TypeOK
  OBVIOUS
<1>1. /\ cluster \in [Clusters -> ClusterObjects]
      /\ cached \in [Clusters -> ClusterObjects]
      /\ copy \in [Clusters -> ClusterObjects]
      /\ local \in [Clusters -> Locals]
  BY ConstantsTyped DEF Init
<1>2. cm \in ConfigMaps /\ cmCached \in ConfigMaps /\ kubeletCM \in ConfigMaps
  BY ConstantsTyped DEF Init
<1>3. cachedFresh \in [Clusters -> BOOLEAN] /\ copyFresh \in [Clusters -> BOOLEAN]
  BY DEF Init
<1>4. cmCachedFresh \in BOOLEAN /\ kubeletCMFresh \in BOOLEAN
  BY Zenon DEF Init
<1>5. /\ queue \subseteq Clusters
      /\ pc \in [Clusters -> Steps]
      /\ agentPort \in [Clusters -> AnyPort \cup {DefaultPort}]
      /\ faults \in Nat
  BY DEF Init, Steps, AnyPort
<1>6. QED
  BY <1>1, <1>2, <1>3, <1>4, <1>5 DEF TypeOK

-----------------------------------------------------------------------------
(* Building blocks of the actions.                                          *)

LEMMA GotoTyped ==
    ASSUME TypeOK, NEW c \in Clusters, NEW step \in Steps, Goto(c, step)
    PROVE  pc' \in [Clusters -> Steps]
BY DEF TypeOK, Goto

LEMMA ReturnTyped ==
    ASSUME TypeOK, NEW c \in Clusters, NEW requeue \in BOOLEAN, Return(c, requeue)
    PROVE  /\ pc' \in [Clusters -> Steps]
           /\ copy' \in [Clusters -> ClusterObjects]
           /\ copyFresh' \in [Clusters -> BOOLEAN]
           /\ local' \in [Clusters -> Locals]
           /\ queue' \subseteq Clusters
<1>1. pc' \in [Clusters -> Steps]
  BY DEF TypeOK, Return, Goto, Steps
<1>2. copy' \in [Clusters -> ClusterObjects]
  BY ConstantsTyped DEF TypeOK, Return
<1>3. copyFresh' \in [Clusters -> BOOLEAN]
  BY DEF TypeOK, Return
<1>4. local' \in [Clusters -> Locals]
  BY ConstantsTyped DEF TypeOK, Return
<1>5. queue' \subseteq Clusters
  BY DEF TypeOK, Return
<1>6. QED
  BY <1>1, <1>2, <1>3, <1>4, <1>5

LEMMA StoreTyped ==
    ASSUME TypeOK, NEW c \in Clusters, NEW object \in ClusterObjects, StoreCluster(c, object)
    PROVE  /\ cluster' \in [Clusters -> ClusterObjects]
           /\ cachedFresh' \in [Clusters -> BOOLEAN]
           /\ cached' \in [Clusters -> ClusterObjects]
BY DEF TypeOK, StoreCluster

LEMMA AllocFailsTyped ==
    ASSUME TypeOK, NEW c \in Clusters, AllocFails(c)
    PROVE  /\ pc' \in [Clusters -> Steps]
           /\ copy' \in [Clusters -> ClusterObjects]
           /\ copyFresh' \in [Clusters -> BOOLEAN]
           /\ local' \in [Clusters -> Locals]
           /\ queue' \subseteq Clusters
<1>1. [NoLocal EXCEPT !.err = TRUE] \in Locals
  BY ConstantsTyped DEF Locals, NoLocal
<1>2. QED
  BY <1>1 DEF TypeOK, AllocFails, Goto, Steps

LEMMA AllocatorFailsTyped ==
    ASSUME TypeOK, NEW c \in Clusters, AllocatorFails(c)
    PROVE  /\ pc' \in [Clusters -> Steps]
           /\ copy' \in [Clusters -> ClusterObjects]
           /\ copyFresh' \in [Clusters -> BOOLEAN]
           /\ local' \in [Clusters -> Locals]
           /\ queue' \subseteq Clusters
BY AllocFailsTyped, ReturnTyped DEF AllocatorFails

-----------------------------------------------------------------------------
LEMMA NextTyped == TypeOK /\ [Next]_vars => TypeOK'
<1> SUFFICES ASSUME TypeOK, [Next]_vars PROVE TypeOK'
  OBVIOUS
<1>1. ASSUME NEW c \in Clusters, Environment(c) PROVE TypeOK'
  <2>1. ASSUME NEW object \in ClusterObjects, UserWrites(c, object) PROVE TypeOK'
    BY <2>1, StoreTyped DEF UserWrites, TypeOK, cmVars, memVars
  <2>2. CASE CreateCluster(c)
    <3>1. PICK m \in BOOLEAN :
             UserWrites(c, [Absent EXCEPT !.life = "live", !.mirror = m])
      BY <2>2 DEF CreateCluster
    <3>2. [Absent EXCEPT !.life = "live", !.mirror = m] \in ClusterObjects
      BY ConstantsTyped DEF ClusterObjects, Absent
    <3>3. QED
      BY <2>1, <3>1, <3>2
  <2>3. CASE EditMirrorHostNodes(c)
    <3>1. [cluster[c] EXCEPT !.mirror = ~cluster[c].mirror] \in ClusterObjects
      BY DEF TypeOK, ClusterObjects
    <3>2. QED
      BY <2>1, <2>3, <3>1 DEF EditMirrorHostNodes
  <2>4. CASE DeleteCluster(c)
    <3>1. [cluster[c] EXCEPT !.life = "deleting"] \in ClusterObjects
      BY DEF TypeOK, ClusterObjects
    <3>2. QED
      BY <2>1, <2>4, <3>1, ConstantsTyped DEF DeleteCluster
  <2>5. CASE OtherEvent(c)
    BY <2>5 DEF OtherEvent, TypeOK, objVars, cmVars, memVars
  <2>6. CASE CallFails(c)
    <3>1. /\ pc' \in [Clusters -> Steps]
          /\ copy' \in [Clusters -> ClusterObjects]
          /\ copyFresh' \in [Clusters -> BOOLEAN]
          /\ local' \in [Clusters -> Locals]
          /\ queue' \subseteq Clusters
      <4>1. CASE AllocFails(c)
        BY <4>1, AllocFailsTyped
      <4>2. CASE /\ Goto(c, "status")
                 /\ local' = [local EXCEPT ![c].err = TRUE]
                 /\ UNCHANGED <<copy, copyFresh, queue>>
        <5>1. [local[c] EXCEPT !.err = TRUE] \in Locals
          BY DEF TypeOK, Locals
        <5>2. QED
          BY <4>2, <5>1 DEF TypeOK, Goto, Steps
      <4>3. CASE Return(c, TRUE)
        BY <4>3, ReturnTyped
      <4>4. QED
        BY <2>6, <4>1, <4>2, <4>3 DEF CallFails
    <3>2. faults' \in Nat
      BY <2>6 DEF CallFails, TypeOK
    <3>3. QED
      BY <2>6, <3>1, <3>2 DEF CallFails, TypeOK, objVars, cmVars, memVars
  <2>7. CASE ReplyLost(c)
    <3>1. faults' \in Nat
      BY <2>7 DEF ReplyLost, TypeOK
    <3>2. cm' \in ConfigMaps /\ cmCached' \in ConfigMaps /\ kubeletCM' \in ConfigMaps
      BY <2>7 DEF ReplyLost, TypeOK, StoreConfigMap
    <3>3. cmCachedFresh' \in BOOLEAN /\ kubeletCMFresh' \in BOOLEAN
      BY <2>7, Zenon DEF ReplyLost, StoreConfigMap
    <3>4. QED
      BY <2>7, <3>1, <3>2, <3>3, AllocatorFailsTyped DEF ReplyLost, TypeOK, objVars
  <2>8. QED
    BY <1>1, <2>2, <2>3, <2>4, <2>5, <2>6, <2>7 DEF Environment
<1>2. ASSUME NEW c \in Clusters, SyncCluster(c) PROVE TypeOK'
  BY <1>2 DEF SyncCluster, TypeOK, cmVars, memVars
<1>3. ASSUME NEW c \in Clusters, StartReconcile(c) PROVE TypeOK'
  <2>1. FirstStep(cached[c]) \in Steps
    BY DEF FirstStep, Steps, TypeOK, ClusterObjects, Exists
  <2>2. pc' \in [Clusters -> Steps]
    BY <1>3, <2>1, GotoTyped DEF StartReconcile
  <2>3. copy' \in [Clusters -> ClusterObjects]
    BY <1>3, ConstantsTyped DEF StartReconcile, TypeOK
  <2>4. copyFresh' \in [Clusters -> BOOLEAN]
    BY <1>3 DEF StartReconcile, TypeOK, Exists
  <2>5. QED
    BY <1>3, <2>2, <2>3, <2>4 DEF StartReconcile, TypeOK, objVars, cmVars, memVars
<1>4. ASSUME NEW c \in Clusters, ReconcileStep(c) PROVE TypeOK'
  <2>1. ASSUME NEW object \in ClusterObjects, NEW requeue \in BOOLEAN,
               UpdateCluster(c, object, requeue)
        PROVE  TypeOK' \/ ~(agentPort' \in [Clusters -> AnyPort \cup {DefaultPort}])
    <3>1. /\ cluster' \in [Clusters -> ClusterObjects]
          /\ cachedFresh' \in [Clusters -> BOOLEAN]
          /\ cached' \in [Clusters -> ClusterObjects]
      BY <2>1, StoreTyped DEF UpdateCluster, TypeOK, objVars
    <3>2. /\ pc' \in [Clusters -> Steps]
          /\ copy' \in [Clusters -> ClusterObjects]
          /\ copyFresh' \in [Clusters -> BOOLEAN]
          /\ local' \in [Clusters -> Locals]
          /\ queue' \subseteq Clusters
      BY <2>1, ReturnTyped DEF UpdateCluster
    <3>3. QED
      BY <2>1, <3>1, <3>2 DEF UpdateCluster, TypeOK, cmVars, memVars
  <2>2. CASE AddFinalizer(c)
    <3>1. [copy[c] EXCEPT !.finalizer = TRUE] \in ClusterObjects
      BY DEF TypeOK, ClusterObjects
    <3>2. agentPort' \in [Clusters -> AnyPort \cup {DefaultPort}]
      BY <2>2 DEF AddFinalizer, TypeOK
    <3>3. QED
      BY <2>1, <2>2, <3>1, <3>2 DEF AddFinalizer
  <2>3. CASE ReconcileUpToAgent(c)
    BY <2>3 DEF ReconcileUpToAgent, Goto, TypeOK, Steps, AllocSteps, objVars, cmVars, memVars
  <2>4. CASE EnsureAgent(c)
    <3>1. local[c].port \in AnyPort
      BY DEF TypeOK, Locals
    <3>2. agentPort' \in [Clusters -> AnyPort \cup {DefaultPort}]
      BY <2>4, <3>1 DEF EnsureAgent, TypeOK
    <3>3. QED
      BY <2>4, <3>2 DEF EnsureAgent, Goto, TypeOK, Steps, objVars, cmVars, memVars
  <2>5. CASE UpdateStatus(c)
    <3>1. [copy[c] EXCEPT !.port = StatusPort(c)] \in ClusterObjects /\ local[c].err \in BOOLEAN
      BY DEF TypeOK, ClusterObjects, StatusPort, Locals
    <3>2. agentPort' \in [Clusters -> AnyPort \cup {DefaultPort}]
      BY <2>5 DEF UpdateStatus, TypeOK
    <3>3. CASE UpdateCluster(c, [copy[c] EXCEPT !.port = StatusPort(c)], local[c].err)
      BY <2>1, <3>1, <3>2, <3>3
    <3>4. CASE /\ Return(c, local[c].err)
               /\ UNCHANGED <<objVars, cmVars, memVars, faults>>
      BY <3>1, <3>2, <3>4, ReturnTyped DEF TypeOK, objVars, cmVars, memVars
    <3>5. QED
      BY <2>5, <3>3, <3>4 DEF UpdateStatus
  <2>6. ASSUME NEW next \in Steps, GetOrCreate(c, next) PROVE TypeOK'
    <3>1. kubeletCM' \in ConfigMaps /\ kubeletCMFresh' \in BOOLEAN
      BY <2>6, ConstantsTyped DEF GetOrCreate, TypeOK
    <3>2. /\ pc' \in [Clusters -> Steps]
          /\ copy' \in [Clusters -> ClusterObjects]
          /\ copyFresh' \in [Clusters -> BOOLEAN]
          /\ local' \in [Clusters -> Locals]
          /\ queue' \subseteq Clusters
      BY <2>6, GotoTyped, AllocatorFailsTyped DEF GetOrCreate, TypeOK
    <3>3. QED
      BY <2>6, <3>1, <3>2 DEF GetOrCreate, TypeOK, objVars, cmVars
  <2>7. CASE AllocGet(c) \/ FreeGet(c)
    BY <2>6, <2>7 DEF AllocGet, FreeGet, Steps, AllocSteps, DeallocSteps
  <2>8. CASE AllocParse(c)
    <3>1. /\ pc' \in [Clusters -> Steps]
          /\ copy' \in [Clusters -> ClusterObjects]
          /\ copyFresh' \in [Clusters -> BOOLEAN]
          /\ local' \in [Clusters -> Locals]
          /\ queue' \subseteq Clusters
      <4>1. CASE /\ local' = [local EXCEPT ![c].port = kubeletCM.alloc[c]]
                 /\ Goto(c, "agent")
                 /\ UNCHANGED <<copy, copyFresh, queue>>
        <5>0. kubeletCM.alloc[c] \in AnyPort
          BY DEF TypeOK, ConfigMaps, PortMaps
        <5>1. [local[c] EXCEPT !.port = kubeletCM.alloc[c]] \in Locals
          BY <5>0 DEF TypeOK, Locals
        <5>2. QED
          BY <4>1, <5>1 DEF TypeOK, Goto, Steps
      <4>2. CASE /\ \E p \in FreePorts : local' = [local EXCEPT ![c] = Assigned(c, p)]
                 /\ Goto(c, "allocSave")
                 /\ UNCHANGED <<copy, copyFresh, queue>>
        <5>1. PICK p \in FreePorts : local' = [local EXCEPT ![c] = Assigned(c, p)]
          BY <4>2
        <5>2. Assigned(c, p) \in Locals
          BY DEF Assigned, FreePorts, TypeOK, Locals, ConfigMaps, PortMaps, AnyPort
        <5>3. QED
          BY <4>2, <5>1, <5>2 DEF TypeOK, Goto, Steps, AllocSteps
      <4>3. QED
        BY <2>8, <4>1, <4>2, AllocFailsTyped DEF AllocParse
    <3>2. QED
      BY <2>8, <3>1 DEF AllocParse, TypeOK, objVars, cmVars, memVars
  <2>9. ASSUME NEW next \in Steps, SaveSnapshot(c, next) PROVE TypeOK'
    <3>1. kubeletCM' \in ConfigMaps
      BY <2>9 DEF SaveSnapshot, TypeOK, ConfigMaps, Locals
    <3>2. QED
      BY <2>9, <3>1, GotoTyped DEF SaveSnapshot, TypeOK, objVars, cmVars
  <2>10. CASE AllocSave(c) \/ FreeSave(c)
    BY <2>9, <2>10 DEF AllocSave, FreeSave, Steps, AllocSteps, DeallocSteps
  <2>11. ASSUME NEW next \in Steps, UpdateConfigMap(c, next) PROVE TypeOK'
    <3>1. cm' \in ConfigMaps /\ cmCached' \in ConfigMaps /\ cmCachedFresh' \in BOOLEAN
      BY <2>11 DEF UpdateConfigMap, StoreConfigMap, TypeOK, cmVars
    <3>2. /\ pc' \in [Clusters -> Steps]
          /\ copy' \in [Clusters -> ClusterObjects]
          /\ copyFresh' \in [Clusters -> BOOLEAN]
          /\ local' \in [Clusters -> Locals]
          /\ queue' \subseteq Clusters
      BY <2>11, GotoTyped, AllocatorFailsTyped DEF UpdateConfigMap, TypeOK
    <3>3. QED
      BY <2>11, <3>1, <3>2 DEF UpdateConfigMap, TypeOK, objVars, memVars
  <2>12. CASE AllocUpdate(c) \/ FreeUpdate(c)
    BY <2>11, <2>12 DEF AllocUpdate, FreeUpdate, Steps
  <2>13. CASE UnbindClusterRoles(c)
    BY <2>13 DEF UnbindClusterRoles, Goto, TypeOK, Steps, DeallocSteps, objVars, cmVars, memVars
  <2>14. CASE RemoveFinalizer(c)
    <3>1. agentPort' \in [Clusters -> AnyPort \cup {DefaultPort}]
      BY <2>14 DEF RemoveFinalizer, TypeOK, AnyPort
    <3>2. QED
      BY <2>1, <2>14, <3>1, ConstantsTyped DEF RemoveFinalizer
  <2>15. CASE FreeParse(c)
    <3>1. Released(c) \in Locals
      BY DEF Released, TypeOK, Locals, ConfigMaps, PortMaps, AnyPort
    <3>2. /\ pc' \in [Clusters -> Steps]
          /\ copy' \in [Clusters -> ClusterObjects]
          /\ copyFresh' \in [Clusters -> BOOLEAN]
          /\ local' \in [Clusters -> Locals]
          /\ queue' \subseteq Clusters
      <4>1. CASE Return(c, TRUE)
        BY <4>1, ReturnTyped
      <4>2. CASE ~Return(c, TRUE)
        BY <2>15, <3>1, <4>2 DEF FreeParse, Goto, TypeOK, Steps, DeallocSteps
      <4>3. QED
        BY <4>1, <4>2
    <3>3. QED
      BY <2>15, <3>2 DEF FreeParse, TypeOK, objVars, cmVars, memVars
  <2>16. QED
    BY <1>4, <2>2, <2>3, <2>4, <2>5, <2>7, <2>8, <2>10, <2>12, <2>13, <2>14, <2>15
       DEF ReconcileStep
<1>5. CASE SyncConfigMap
  <2>1. cmCachedFresh' \in BOOLEAN
    BY <1>5, Zenon DEF SyncConfigMap
  <2>2. QED
    BY <1>5, <2>1 DEF SyncConfigMap, TypeOK, objVars, recVars, memVars
<1>6. CASE InitPortAllocatorConfig
  <2>1. kubeletCM' \in ConfigMaps /\ cm' \in ConfigMaps /\ cmCached' \in ConfigMaps
    BY <1>6, ConstantsTyped DEF InitPortAllocatorConfig, TypeOK, cmVars
  <2>2. kubeletCMFresh' \in BOOLEAN /\ cmCachedFresh' \in BOOLEAN
    BY <1>6 DEF InitPortAllocatorConfig, TypeOK, cmVars
  <2>3. QED
    BY <1>6, <2>1, <2>2 DEF InitPortAllocatorConfig, TypeOK, objVars, recVars
<1>7. CASE Restart
  <2>1. /\ copy' \in [Clusters -> ClusterObjects]
        /\ local' \in [Clusters -> Locals]
        /\ kubeletCM' \in ConfigMaps
        /\ pc' \in [Clusters -> Steps]
    BY <1>7, ConstantsTyped DEF Restart, Steps
  <2>2. cachedFresh' \in [Clusters -> BOOLEAN] /\ copyFresh' \in [Clusters -> BOOLEAN]
    BY <1>7 DEF Restart
  <2>3. cmCachedFresh' \in BOOLEAN /\ kubeletCMFresh' \in BOOLEAN
    BY <1>7, Zenon DEF Restart
  <2>4. queue' \subseteq Clusters /\ faults' \in Nat
    BY <1>7 DEF Restart, TypeOK
  <2>5. QED
    BY <1>7, <2>1, <2>2, <2>3, <2>4 DEF Restart, TypeOK
<1>8. CASE UNCHANGED vars
  BY <1>8 DEF vars, TypeOK
<1>9. QED
  BY <1>1, <1>2, <1>3, <1>4, <1>5, <1>6, <1>7, <1>8 DEF Next

\* In every instance, with any number of concurrent reconciles, the state keeps
\* its types: in particular no port outside the range gets into a status, the
\* map or the bitmap.
THEOREM TypeCorrect == Spec => []TypeOK
BY InitTyped, NextTyped, PTL DEF Spec

-----------------------------------------------------------------------------
(***************************************************************************)
(* One reconcile at a time.  The bitmap and the map agree because whoever  *)
(* writes them has read both at the version it replaces; the invariant     *)
(* follows that version through the steps of the allocator: as long as the *)
(* shared object is current it is the stored ConfigMap until saveSnapshot, *)
(* and the stored ConfigMap with one entry changed after it.               *)
(***************************************************************************)
AtMostOne == \A c, d \in Clusters : pc[c] # "idle" /\ pc[d] # "idle" => c = d

CacheIsPast == (cmCachedFresh => cmCached = cm) /\ (~cm.made => cm = NotMade)

\* p is what the allocator gives to c; x is the map and bitmap after that.
GivesTo(c, p, x) ==
    /\ cm.alloc[c] = NoPort
    /\ p \in Ports \ cm.used
    /\ x.alloc = [cm.alloc EXCEPT ![c] = p]
    /\ x.used = cm.used \cup {p}

TakesFrom(c, x) ==
    /\ x.alloc = [cm.alloc EXCEPT ![c] = NoPort]
    /\ x.used = cm.used \ {cm.alloc[c]}

InAllocator == {"allocParse", "allocSave", "allocUpdate", "freeParse", "freeSave", "freeUpdate"}

InFlight(c) ==
    /\ pc[c] \in InAllocator => kubeletCM.made
    /\ kubeletCMFresh /\ pc[c] \in {"allocParse", "allocSave", "freeParse", "freeSave"}
          => kubeletCM = cm
    /\ kubeletCMFresh /\ pc[c] = "allocSave"   => GivesTo(c, local[c].port, local[c])
    /\ kubeletCMFresh /\ pc[c] = "allocUpdate" => GivesTo(c, local[c].port, kubeletCM)
    /\ kubeletCMFresh /\ pc[c] = "freeSave"    => TakesFrom(c, local[c])
    /\ kubeletCMFresh /\ pc[c] = "freeUpdate"  => TakesFrom(c, kubeletCM)

SerialInv ==
    /\ TypeOK
    /\ AtMostOne
    /\ BitmapMatchesMap
    /\ CacheIsPast
    /\ \A c \in Clusters : InFlight(c)

\* BitmapMatchesMap, of any ConfigMap.
Consistent(x) ==
    /\ x.used = {x.alloc[c] : c \in Clusters} \ {NoPort}
    /\ \A c, d \in Clusters : x.alloc[c] = x.alloc[d] => c = d \/ x.alloc[c] = NoPort

LEMMA GivingKeepsConsistent ==
    ASSUME TypeOK, BitmapMatchesMap, NEW x \in ConfigMaps, NEW c \in Clusters, NEW p,
           GivesTo(c, p, x)
    PROVE  Consistent(x)
<1>1. cm.alloc \in [Clusters -> AnyPort] /\ NoPort \notin Ports
  BY ConstantsAssumption DEF TypeOK, ConfigMaps, PortMaps
<1>2. \A d \in Clusters : x.alloc[d] = IF d = c THEN p ELSE cm.alloc[d]
  BY <1>1 DEF GivesTo
<1>3. \A d \in Clusters : cm.alloc[d] # p
  BY <1>1 DEF GivesTo, BitmapMatchesMap
<1>4. x.used = {x.alloc[d] : d \in Clusters} \ {NoPort}
  <2>1. cm.used = {cm.alloc[d] : d \in Clusters} \ {NoPort}
    BY DEF BitmapMatchesMap
  <2>2. x.used = cm.used \cup {p} /\ p # NoPort /\ cm.alloc[c] = NoPort
    BY <1>1 DEF GivesTo
  <2>3. ASSUME NEW q \in x.used PROVE q \in {x.alloc[d] : d \in Clusters} \ {NoPort}
    BY <1>2, <2>1, <2>2, <2>3
  <2>4. ASSUME NEW d \in Clusters, x.alloc[d] # NoPort PROVE x.alloc[d] \in x.used
    BY <1>2, <2>1, <2>2, <2>4
  <2>5. NoPort \notin x.used
    BY <2>1, <2>2
  <2>6. QED
    BY <2>3, <2>4, <2>5
<1>5. \A d, e \in Clusters : x.alloc[d] = x.alloc[e] => d = e \/ x.alloc[d] = NoPort
  BY <1>2, <1>3 DEF BitmapMatchesMap
<1>6. QED
  BY <1>4, <1>5 DEF Consistent

LEMMA TakingKeepsConsistent ==
    ASSUME TypeOK, BitmapMatchesMap, NEW x \in ConfigMaps, NEW c \in Clusters, TakesFrom(c, x)
    PROVE  Consistent(x)
<1>1. cm.alloc \in [Clusters -> AnyPort]
  BY DEF TypeOK, ConfigMaps, PortMaps
<1>2. \A d \in Clusters : x.alloc[d] = IF d = c THEN NoPort ELSE cm.alloc[d]
  BY <1>1 DEF TakesFrom
<1>3. x.used = {x.alloc[d] : d \in Clusters} \ {NoPort}
  <2>1. cm.used = {cm.alloc[d] : d \in Clusters} \ {NoPort}
    BY DEF BitmapMatchesMap
  <2>2. x.used = cm.used \ {cm.alloc[c]}
    BY DEF TakesFrom
  <2>3. ASSUME NEW q \in x.used PROVE q \in {x.alloc[d] : d \in Clusters} \ {NoPort}
    BY <1>2, <2>1, <2>2, <2>3
  <2>4. ASSUME NEW d \in Clusters, x.alloc[d] # NoPort PROVE x.alloc[d] \in x.used
    BY <1>2, <2>1, <2>2, <2>4 DEF BitmapMatchesMap
  <2>5. NoPort \notin x.used
    BY <2>1, <2>2
  <2>6. QED
    BY <2>3, <2>4, <2>5
<1>4. \A d, e \in Clusters : x.alloc[d] = x.alloc[e] => d = e \/ x.alloc[d] = NoPort
  BY <1>2 DEF BitmapMatchesMap
<1>5. QED
  BY <1>3, <1>4 DEF Consistent

LEMMA InitSerial == Init => SerialInv
<1> SUFFICES ASSUME Init PROVE SerialInv
  OBVIOUS
<1>1. TypeOK
  BY InitTyped
<1>2. AtMostOne
  BY DEF Init, AtMostOne
<1>3. BitmapMatchesMap
  BY DEF Init, NotMade, EmptyMap, BitmapMatchesMap
<1>4. CacheIsPast
  BY DEF Init, CacheIsPast
<1>5. \A c \in Clusters : InFlight(c)
  BY DEF Init, InFlight, InAllocator
<1>6. QED
  BY <1>1, <1>2, <1>3, <1>4, <1>5 DEF SerialInv

\* The one running reconcile stays the only one.
LEMMA StaysAlone ==
    ASSUME SerialInv, NEW c \in Clusters, pc[c] # "idle", NEW step, Goto(c, step)
    PROVE  AtMostOne' /\ \A d \in Clusters \ {c} : pc'[d] = "idle"
BY DEF SerialInv, TypeOK, AtMostOne, Goto

\* A step outside the allocator, or one that leaves it.
LEMMA QuietStep ==
    ASSUME SerialInv, TypeOK', AtMostOne', UNCHANGED <<cmVars, memVars>>,
           \A c \in Clusters : pc'[c] \in InAllocator => pc'[c] = pc[c] /\ local'[c] = local[c]
    PROVE  SerialInv'
<1>1. BitmapMatchesMap' /\ CacheIsPast'
  BY DEF SerialInv, BitmapMatchesMap, CacheIsPast, cmVars
<1>2. ASSUME NEW c \in Clusters PROVE InFlight(c)'
  <2>1. InFlight(c)
    BY DEF SerialInv
  <2>2. CASE pc'[c] \notin InAllocator
    BY <2>2 DEF InFlight, InAllocator
  <2>3. CASE pc'[c] = pc[c] /\ local'[c] = local[c]
    BY <2>1, <2>3 DEF InFlight, GivesTo, TakesFrom, cmVars, memVars
  <2>4. QED
    BY <2>2, <2>3
<1>3. QED
  BY <1>1, <1>2 DEF SerialInv

\* A step after which no reconcile is inside the allocator.
LEMMA NobodyInside ==
    ASSUME TypeOK', AtMostOne', BitmapMatchesMap', CacheIsPast',
           \A c \in Clusters : pc'[c] \notin InAllocator
    PROVE  SerialInv'
BY DEF SerialInv, InFlight, InAllocator

\* Return and AllocFails end outside the allocator.
LEMMA FailingLeaves ==
    ASSUME SerialInv, NEW c \in Clusters, pc[c] # "idle",
           \/ AllocFails(c) \/ AllocatorFails(c) \/ \E requeue \in BOOLEAN : Return(c, requeue)
    PROVE  AtMostOne' /\ \A d \in Clusters : pc'[d] \notin InAllocator
<1>1. PICK step \in {"idle", "status"} : Goto(c, step)
  BY DEF AllocFails, AllocatorFails, Return
<1>2. AtMostOne' /\ \A d \in Clusters \ {c} : pc'[d] = "idle"
  BY <1>1, StaysAlone
<1>3. pc'[c] = step
  BY <1>1 DEF Goto, SerialInv, TypeOK
<1>4. QED
  BY <1>2, <1>3 DEF InAllocator

\* What a ConfigMap write by c stores.
LEMMA StoreConsistent ==
    ASSUME SerialInv, NEW c \in Clusters, pc[c] \in {"allocUpdate", "freeUpdate"},
           UpdateAccepted, StoreConfigMap
    PROVE  BitmapMatchesMap' /\ CacheIsPast'
<1>1. /\ TypeOK /\ BitmapMatchesMap /\ InFlight(c) /\ kubeletCMFresh
      /\ kubeletCM \in ConfigMaps /\ kubeletCM.made
  BY DEF SerialInv, TypeOK, InFlight, InAllocator, UpdateAccepted
<1>2. Consistent(kubeletCM)
  <2>1. CASE pc[c] = "allocUpdate"
    BY <1>1, <2>1, GivingKeepsConsistent DEF InFlight
  <2>2. CASE pc[c] = "freeUpdate"
    BY <1>1, <2>2, TakingKeepsConsistent DEF InFlight
  <2>3. QED
    BY <2>1, <2>2
<1>3. BitmapMatchesMap'
  BY <1>2 DEF Consistent, BitmapMatchesMap, StoreConfigMap
<1>4. CacheIsPast'
  BY <1>1 DEF CacheIsPast, StoreConfigMap
<1>5. QED
  BY <1>3, <1>4

LEMMA AllocatorSerial ==
    ASSUME SerialInv, TypeOK', NEW c \in Clusters,
           \/ AllocGet(c) \/ AllocParse(c) \/ AllocSave(c) \/ AllocUpdate(c)
           \/ FreeGet(c) \/ FreeParse(c) \/ FreeSave(c) \/ FreeUpdate(c) \/ ReplyLost(c)
    PROVE  SerialInv'
<1>0. TypeOK /\ BitmapMatchesMap /\ CacheIsPast /\ InFlight(c)
  BY DEF SerialInv
<1>1. ASSUME NEW next \in {"allocParse", "freeParse"}, pc[c] # "idle", GetOrCreate(c, next)
      PROVE  SerialInv'
  <2>1. BitmapMatchesMap' /\ CacheIsPast'
    BY <1>0, <1>1 DEF GetOrCreate, cmVars, BitmapMatchesMap, CacheIsPast
  <2>2. CASE AllocatorFails(c)
    BY <1>1, <2>1, <2>2, FailingLeaves, NobodyInside
  <2>3. CASE /\ kubeletCM.made /\ cmCached.made
             /\ kubeletCM' = cmCached /\ kubeletCMFresh' = cmCachedFresh
             /\ Goto(c, next)
    <3>1. AtMostOne' /\ \A d \in Clusters \ {c} : pc'[d] = "idle"
      BY <1>1, <2>3, StaysAlone
    <3>2. pc'[c] = next
      BY <1>0, <2>3 DEF Goto, TypeOK
    <3>3. InFlight(c)'
      BY <1>0, <1>1, <2>3, <3>2 DEF InFlight, CacheIsPast, GetOrCreate, cmVars
    <3>4. \A d \in Clusters \ {c} : InFlight(d)'
      BY <3>1 DEF InFlight, InAllocator
    <3>5. QED
      BY <2>1, <3>1, <3>3, <3>4 DEF SerialInv
  <2>4. QED
    BY <1>1, <2>2, <2>3 DEF GetOrCreate
<1>2. CASE AllocGet(c) \/ FreeGet(c)
  BY <1>1, <1>2 DEF AllocGet, FreeGet
<1>3. CASE AllocParse(c)
  <2>1. pc[c] = "allocParse" /\ UNCHANGED <<cmVars, memVars>>
    BY <1>3 DEF AllocParse
  <2>2. CASE AllocFails(c)
    BY <2>1, <2>2, FailingLeaves, QuietStep
  <2>3. CASE Goto(c, "agent")
    <3>1. AtMostOne' /\ \A d \in Clusters \ {c} : pc'[d] = "idle"
      BY <2>1, <2>3, StaysAlone
    <3>2. pc'[c] = "agent"
      BY <1>0, <2>3 DEF Goto, TypeOK
    <3>3. QED
      BY <2>1, <3>1, <3>2, QuietStep DEF InAllocator
  <2>4. CASE /\ kubeletCM.alloc[c] = NoPort
             /\ \E p \in FreePorts : local' = [local EXCEPT ![c] = Assigned(c, p)]
             /\ Goto(c, "allocSave")
    <3>1. PICK p \in FreePorts : local' = [local EXCEPT ![c] = Assigned(c, p)]
      BY <2>4
    <3>2. AtMostOne' /\ \A d \in Clusters \ {c} : pc'[d] = "idle"
      BY <2>1, <2>4, StaysAlone
    <3>3. pc'[c] = "allocSave" /\ local'[c] = Assigned(c, p)
      BY <1>0, <2>4, <3>1 DEF Goto, TypeOK
    <3>4. kubeletCMFresh => kubeletCM = cm
      BY <1>0, <2>1 DEF InFlight
    <3>5. kubeletCMFresh' => GivesTo(c, local[c].port, local[c])'
      BY <2>1, <2>4, <3>3, <3>4 DEF GivesTo, Assigned, FreePorts, cmVars, memVars
    <3>6. InFlight(c)'
      BY <1>0, <2>1, <3>3, <3>4, <3>5 DEF InFlight, InAllocator, cmVars, memVars
    <3>7. \A d \in Clusters \ {c} : InFlight(d)'
      BY <3>2 DEF InFlight, InAllocator
    <3>8. BitmapMatchesMap' /\ CacheIsPast'
      BY <1>0, <2>1 DEF cmVars, BitmapMatchesMap, CacheIsPast
    <3>9. QED
      BY <3>2, <3>6, <3>7, <3>8 DEF SerialInv
  <2>5. QED
    BY <1>3, <2>2, <2>3, <2>4 DEF AllocParse
<1>4. CASE FreeParse(c)
  <2>1. pc[c] = "freeParse" /\ UNCHANGED <<cmVars, memVars>>
    BY <1>4 DEF FreeParse
  <2>2. kubeletCMFresh => kubeletCM = cm
    BY <1>0, <2>1 DEF InFlight
  <2>3. BitmapMatchesMap' /\ CacheIsPast'
    BY <1>0, <2>1 DEF cmVars, BitmapMatchesMap, CacheIsPast
  <2>4. CASE Return(c, TRUE)
    BY <2>1, <2>4, FailingLeaves, QuietStep
  <2>5. CASE kubeletCM.alloc[c] = NoPort /\ Goto(c, "freeUpdate")
    <3>1. AtMostOne' /\ \A d \in Clusters \ {c} : pc'[d] = "idle"
      BY <2>1, <2>5, StaysAlone
    <3>2. pc'[c] = "freeUpdate"
      BY <1>0, <2>5 DEF Goto, TypeOK
    <3>3. ASSUME kubeletCMFresh PROVE TakesFrom(c, kubeletCM)
      <4>1. cm.alloc[c] = NoPort /\ cm.alloc \in [Clusters -> AnyPort] /\ NoPort \notin cm.used
        BY <1>0, <2>2, <2>5, <3>3, ConstantsAssumption DEF TypeOK, ConfigMaps, PortMaps
      <4>2. QED
        BY <2>2, <3>3, <4>1 DEF TakesFrom
    <3>4. InFlight(c)'
      BY <1>0, <2>1, <3>2, <3>3 DEF InFlight, InAllocator, TakesFrom, cmVars, memVars
    <3>5. \A d \in Clusters \ {c} : InFlight(d)'
      BY <3>1 DEF InFlight, InAllocator
    <3>6. QED
      BY <2>3, <3>1, <3>4, <3>5 DEF SerialInv
  <2>6. CASE /\ kubeletCM.alloc[c] = copy[c].port
             /\ local' = [local EXCEPT ![c] = Released(c)]
             /\ Goto(c, "freeSave")
    <3>1. AtMostOne' /\ \A d \in Clusters \ {c} : pc'[d] = "idle"
      BY <2>1, <2>6, StaysAlone
    <3>2. pc'[c] = "freeSave" /\ local'[c] = Released(c)
      BY <1>0, <2>6 DEF Goto, TypeOK
    <3>3. kubeletCMFresh' => TakesFrom(c, local[c])'
      BY <2>1, <2>2, <2>6, <3>2 DEF TakesFrom, Released, cmVars, memVars
    <3>4. InFlight(c)'
      BY <1>0, <2>1, <2>2, <3>2, <3>3 DEF InFlight, InAllocator, cmVars, memVars
    <3>5. \A d \in Clusters \ {c} : InFlight(d)'
      BY <3>1 DEF InFlight, InAllocator
    <3>6. QED
      BY <2>3, <3>1, <3>4, <3>5 DEF SerialInv
  <2>7. QED
    BY <1>4, <2>4, <2>5, <2>6 DEF FreeParse
<1>5. CASE AllocSave(c) \/ FreeSave(c)
  <2>1. PICK next \in {"allocUpdate", "freeUpdate"} :
           /\ SaveSnapshot(c, next)
           /\ pc[c] = IF next = "allocUpdate" THEN "allocSave" ELSE "freeSave"
    BY <1>5 DEF AllocSave, FreeSave
  <2>2. AtMostOne' /\ \A d \in Clusters \ {c} : pc'[d] = "idle"
    BY <2>1, StaysAlone DEF SaveSnapshot
  <2>3. pc'[c] = next
    BY <1>0, <2>1 DEF SaveSnapshot, Goto, TypeOK
  <2>4. /\ kubeletCM'.made = kubeletCM.made
        /\ kubeletCM'.alloc = local[c].alloc
        /\ kubeletCM'.used = local[c].used
    BY <1>0, <2>1 DEF SaveSnapshot, TypeOK, ConfigMaps
  <2>5. InFlight(c)'
    BY <1>0, <2>1, <2>3, <2>4 DEF InFlight, InAllocator, GivesTo, TakesFrom, SaveSnapshot, cmVars
  <2>6. \A d \in Clusters \ {c} : InFlight(d)'
    BY <2>2 DEF InFlight, InAllocator
  <2>7. BitmapMatchesMap' /\ CacheIsPast'
    BY <1>0, <2>1 DEF SaveSnapshot, cmVars, BitmapMatchesMap, CacheIsPast
  <2>8. QED
    BY <2>2, <2>5, <2>6, <2>7 DEF SerialInv
<1>6. CASE AllocUpdate(c) \/ FreeUpdate(c)
  <2>1. PICK next \in {"agent", "removeFinalizer"} : UpdateConfigMap(c, next)
    BY <1>6 DEF AllocUpdate, FreeUpdate
  <2>2. pc[c] \in {"allocUpdate", "freeUpdate"}
    BY <1>6 DEF AllocUpdate, FreeUpdate
  <2>3. CASE UpdateAccepted
    <3>1. BitmapMatchesMap' /\ CacheIsPast'
      BY <2>1, <2>2, <2>3, StoreConsistent DEF UpdateConfigMap
    <3>2. AtMostOne' /\ \A d \in Clusters \ {c} : pc'[d] = "idle"
      BY <2>1, <2>2, <2>3, StaysAlone DEF UpdateConfigMap
    <3>3. pc'[c] = next
      BY <1>0, <2>1, <2>3 DEF UpdateConfigMap, Goto, TypeOK
    <3>4. QED
      BY <3>1, <3>2, <3>3, NobodyInside DEF InAllocator
  <2>4. CASE ~UpdateAccepted
    BY <2>1, <2>2, <2>4, FailingLeaves, QuietStep DEF UpdateConfigMap
  <2>5. QED
    BY <2>3, <2>4
<1>7. CASE ReplyLost(c)
  <2>1. BitmapMatchesMap' /\ CacheIsPast'
    BY <1>7, StoreConsistent DEF ReplyLost
  <2>2. QED
    BY <1>7, <2>1, FailingLeaves, NobodyInside DEF ReplyLost
<1>8. QED
  BY <1>2, <1>3, <1>4, <1>5, <1>6, <1>7

LEMMA NextSerial ==
    ASSUME MaxConcurrentReconciles = 1, SerialInv, [Next]_vars
    PROVE  SerialInv'
<1>0. TypeOK /\ TypeOK' /\ AtMostOne /\ BitmapMatchesMap /\ CacheIsPast
  BY NextTyped DEF SerialInv
<1>1. ASSUME UNCHANGED <<pc, local, cmVars, memVars>> PROVE SerialInv'
  BY <1>0, <1>1, QuietStep DEF AtMostOne
<1>2. ASSUME NEW c \in Clusters, pc[c] # "idle", NEW step,
             step \notin InAllocator, Goto(c, step), UNCHANGED <<cmVars, memVars>>
      PROVE  SerialInv'
  <2>1. AtMostOne' /\ \A d \in Clusters \ {c} : pc'[d] = "idle"
    BY <1>2, StaysAlone
  <2>2. pc'[c] = step
    BY <1>0, <1>2 DEF Goto, TypeOK
  <2>3. QED
    BY <1>0, <1>2, <2>1, <2>2, QuietStep DEF InAllocator
<1>3. ASSUME NEW c \in Clusters, Environment(c) PROVE SerialInv'
  <2>1. CASE CreateCluster(c) \/ EditMirrorHostNodes(c) \/ DeleteCluster(c)
    BY <1>1, <2>1 DEF CreateCluster, EditMirrorHostNodes, DeleteCluster, UserWrites
  <2>2. CASE OtherEvent(c)
    BY <1>1, <2>2 DEF OtherEvent
  <2>3. CASE CallFails(c)
    <3>1. PICK step \in {"idle", "status"} : Goto(c, step)
      BY <2>3 DEF CallFails, AllocFails, Return
    <3>2. pc[c] # "idle" /\ UNCHANGED <<cmVars, memVars>>
      BY <2>3 DEF CallFails
    <3>3. QED
      BY <1>2, <3>1, <3>2 DEF InAllocator
  <2>4. CASE ReplyLost(c)
    BY <1>0, <2>4, AllocatorSerial
  <2>5. QED
    BY <1>3, <2>1, <2>2, <2>3, <2>4 DEF Environment
<1>4. ASSUME NEW c \in Clusters, SyncCluster(c) PROVE SerialInv'
  BY <1>1, <1>4 DEF SyncCluster
<1>5. ASSUME NEW c \in Clusters, StartReconcile(c) PROVE SerialInv'
  <2>1. Busy = {}
    <3>1. IsFiniteSet(Busy)
      BY FS_Subset, ConstantsAssumption DEF Busy
    <3>2. Cardinality(Busy) \in Nat /\ Cardinality(Busy) < 1
      BY <1>5, <3>1, FS_CardinalityType DEF StartReconcile
    <3>3. QED
      BY <3>1, <3>2, FS_EmptySet
  <2>2. FirstStep(cached[c]) \notin InAllocator
    BY <1>0 DEF FirstStep, InAllocator, Exists, TypeOK, ClusterObjects
  <2>3. pc' = [pc EXCEPT ![c] = FirstStep(cached[c])]
    BY <1>5 DEF StartReconcile, Goto
  <2>4. \A d \in Clusters \ {c} : pc'[d] = "idle"
    BY <1>0, <2>1, <2>3 DEF Busy, TypeOK
  <2>5. pc'[c] = FirstStep(cached[c])
    BY <1>0, <2>3 DEF TypeOK
  <2>6. AtMostOne'
    BY <2>4 DEF AtMostOne
  <2>7. \A d \in Clusters : pc'[d] \notin InAllocator
    BY <2>2, <2>4, <2>5 DEF InAllocator
  <2>8. UNCHANGED <<cmVars, memVars>>
    BY <1>5 DEF StartReconcile
  <2>9. QED
    BY <1>0, <2>6, <2>7, <2>8, QuietStep
<1>6. ASSUME NEW c \in Clusters, ReconcileStep(c) PROVE SerialInv'
  <2>1. ASSUME NEW object, NEW requeue, pc[c] # "idle", UpdateCluster(c, object, requeue)
        PROVE  SerialInv'
    <3>1. Goto(c, "idle") /\ UNCHANGED <<cmVars, memVars>>
      BY <2>1 DEF UpdateCluster, Return
    <3>2. QED
      BY <1>2, <2>1, <3>1 DEF InAllocator
  <2>2. CASE AddFinalizer(c)
    BY <2>1, <2>2 DEF AddFinalizer
  <2>3. CASE RemoveFinalizer(c)
    BY <2>1, <2>3 DEF RemoveFinalizer
  <2>4. CASE UpdateStatus(c)
    <3>1. pc[c] # "idle" /\ Goto(c, "idle") /\ UNCHANGED <<cmVars, memVars>>
      BY <2>4 DEF UpdateStatus, UpdateCluster, Return
    <3>2. QED
      BY <1>2, <3>1 DEF InAllocator
  <2>5. CASE ReconcileUpToAgent(c)
    BY <1>2, <2>5 DEF ReconcileUpToAgent, InAllocator
  <2>6. CASE EnsureAgent(c)
    BY <1>2, <2>6 DEF EnsureAgent, InAllocator
  <2>7. CASE UnbindClusterRoles(c)
    BY <1>2, <2>7 DEF UnbindClusterRoles, InAllocator
  <2>8. QED
    BY <1>0, <1>6, <2>2, <2>3, <2>4, <2>5, <2>6, <2>7, AllocatorSerial DEF ReconcileStep
<1>7. CASE SyncConfigMap
  <2>1. BitmapMatchesMap' /\ AtMostOne'
    BY <1>0, <1>7 DEF SyncConfigMap, BitmapMatchesMap, recVars, AtMostOne
  <2>2. CacheIsPast'
    BY <1>0, <1>7 DEF SyncConfigMap, CacheIsPast
  <2>3. \A c \in Clusters : InFlight(c)'
    BY <1>7 DEF SyncConfigMap, SerialInv, InFlight, GivesTo, TakesFrom, recVars, memVars
  <2>4. QED
    BY <1>0, <2>1, <2>2, <2>3 DEF SerialInv
<1>8. CASE InitPortAllocatorConfig
  <2>1. \A c \in Clusters : pc'[c] \notin InAllocator
    BY <1>8 DEF InitPortAllocatorConfig, SerialInv, InFlight, recVars
  <2>2. AtMostOne'
    BY <1>0, <1>8 DEF InitPortAllocatorConfig, recVars, AtMostOne
  <2>3. BitmapMatchesMap'
    BY <1>0, <1>8 DEF InitPortAllocatorConfig, BitmapMatchesMap, EmptyCM, EmptyMap, cmVars
  <2>4. CacheIsPast'
    BY <1>0, <1>8 DEF InitPortAllocatorConfig, CacheIsPast, EmptyCM, cmVars
  <2>5. QED
    BY <1>0, <2>1, <2>2, <2>3, <2>4, NobodyInside
<1>9. CASE Restart
  <2>1. BitmapMatchesMap'
    BY <1>0, <1>9 DEF Restart, BitmapMatchesMap
  <2>2. CacheIsPast'
    BY <1>0, <1>9 DEF Restart, CacheIsPast
  <2>3. AtMostOne' /\ \A c \in Clusters : pc'[c] \notin InAllocator
    BY <1>9 DEF Restart, AtMostOne, InAllocator
  <2>4. QED
    BY <1>0, <2>1, <2>2, <2>3, NobodyInside
<1>10. CASE UNCHANGED vars
  BY <1>1, <1>10 DEF vars, cmVars, memVars
<1>11. QED
  BY <1>3, <1>4, <1>5, <1>6, <1>7, <1>8, <1>9, <1>10 DEF Next

\* When reconciles run one at a time, the allocatedPorts map and the snapshot
\* bitmap that ports.go stores side by side never disagree, and no port stands in
\* the map twice, however stale the caches are and whichever calls fail, for any
\* number of clusters, ports, restarts and lost replies.
THEOREM SerialBitmap ==
    ASSUME MaxConcurrentReconciles = 1
    PROVE  Spec => []BitmapMatchesMap
<1>1. SerialInv /\ [Next]_vars => SerialInv'
  BY NextSerial
<1>2. SerialInv => BitmapMatchesMap
  BY DEF SerialInv
<1>3. QED
  BY <1>1, <1>2, InitSerial, PTL DEF Spec

\* When reconciles run one at a time, the map of the ConfigMap implements the
\* abstract pool: every write of ports.go gives one free port to a cluster that
\* has none, takes the port of one cluster back, or changes no lease.
THEOREM SerialImplementsPool ==
    ASSUME MaxConcurrentReconciles = 1
    PROVE  Spec => ImplementsPool
<1>1. Init => Pool!Init
  BY DEF Init, Pool!Init, NotMade, EmptyMap
<1>2. ASSUME SerialInv, [Next]_vars PROVE [Pool!Next]_(cm.alloc)
  <2>0. TypeOK /\ BitmapMatchesMap /\ CacheIsPast
    BY <1>2 DEF SerialInv
  <2>1. ASSUME NEW c \in Clusters, pc[c] \in {"allocUpdate", "freeUpdate"},
               UpdateAccepted, StoreConfigMap
        PROVE  [Pool!Next]_(cm.alloc)
    <3>1. InFlight(c) /\ kubeletCMFresh /\ cm' = kubeletCM
      BY <1>2, <2>1 DEF SerialInv, UpdateAccepted, StoreConfigMap
    <3>2. CASE pc[c] = "allocUpdate"
      <4>1. GivesTo(c, local[c].port, kubeletCM)
        BY <3>1, <3>2 DEF InFlight
      <4>2. \A d \in Clusters : cm.alloc[d] # local[c].port
        BY <2>0, <4>1, ConstantsAssumption DEF GivesTo, BitmapMatchesMap
      <4>3. Pool!Acquire(c, local[c].port) /\ local[c].port \in Ports
        BY <3>1, <4>1, <4>2 DEF GivesTo, Pool!Acquire
      <4>4. QED
        BY <4>3 DEF Pool!Next
    <3>3. CASE pc[c] = "freeUpdate"
      <4>1. cm'.alloc = [cm.alloc EXCEPT ![c] = NoPort]
        BY <3>1, <3>3 DEF InFlight, TakesFrom
      <4>2. CASE cm.alloc[c] = NoPort
        <5>1. cm.alloc \in [Clusters -> AnyPort]
          BY <2>0 DEF TypeOK, ConfigMaps, PortMaps
        <5>2. QED
          BY <4>1, <4>2, <5>1
      <4>3. CASE cm.alloc[c] # NoPort
        BY <4>1, <4>3 DEF Pool!Release, Pool!Next
      <4>4. QED
        BY <4>2, <4>3
    <3>4. QED
      BY <2>1, <3>2, <3>3
  <2>2. ASSUME cm' = cm PROVE [Pool!Next]_(cm.alloc)
    BY <2>2
  <2>3. ASSUME NEW c \in Clusters, Environment(c) PROVE [Pool!Next]_(cm.alloc)
    <3>1. CASE ReplyLost(c)
      BY <2>1, <3>1 DEF ReplyLost
    <3>2. CASE ~ReplyLost(c)
      BY <2>2, <2>3, <3>2
         DEF Environment, CreateCluster, EditMirrorHostNodes, DeleteCluster, UserWrites,
             OtherEvent, CallFails, cmVars
    <3>3. QED
      BY <3>1, <3>2
  <2>4. ASSUME NEW c \in Clusters, SyncCluster(c) \/ StartReconcile(c)
        PROVE  [Pool!Next]_(cm.alloc)
    BY <2>2, <2>4 DEF SyncCluster, StartReconcile, cmVars
  <2>5. ASSUME NEW c \in Clusters, ReconcileStep(c) PROVE [Pool!Next]_(cm.alloc)
    <3>1. CASE AllocUpdate(c) \/ FreeUpdate(c)
      <4>1. PICK next \in {"agent", "removeFinalizer"} : UpdateConfigMap(c, next)
        BY <3>1 DEF AllocUpdate, FreeUpdate
      <4>2. pc[c] \in {"allocUpdate", "freeUpdate"}
        BY <3>1 DEF AllocUpdate, FreeUpdate
      <4>3. QED
        BY <2>1, <2>2, <4>1, <4>2 DEF UpdateConfigMap, cmVars
    <3>2. CASE AllocGet(c) \/ FreeGet(c) \/ AllocSave(c) \/ FreeSave(c)
      BY <2>2, <3>2 DEF AllocGet, FreeGet, GetOrCreate, AllocSave, FreeSave, SaveSnapshot, cmVars
    <3>3. CASE AllocParse(c) \/ FreeParse(c)
      BY <2>2, <3>3 DEF AllocParse, FreeParse, cmVars
    <3>4. CASE AddFinalizer(c) \/ RemoveFinalizer(c)
      BY <2>2, <3>4 DEF AddFinalizer, RemoveFinalizer, UpdateCluster, cmVars
    <3>5. CASE UpdateStatus(c)
      BY <2>2, <3>5 DEF UpdateStatus, UpdateCluster, cmVars
    <3>6. CASE ReconcileUpToAgent(c) \/ EnsureAgent(c) \/ UnbindClusterRoles(c)
      BY <2>2, <3>6 DEF ReconcileUpToAgent, EnsureAgent, UnbindClusterRoles, cmVars
    <3>7. QED
      BY <2>5, <3>1, <3>2, <3>3, <3>4, <3>5, <3>6 DEF ReconcileStep
  <2>6. CASE SyncConfigMap \/ Restart
    BY <2>2, <2>6 DEF SyncConfigMap, Restart
  <2>7. CASE InitPortAllocatorConfig
    <3>1. cm'.alloc = cm.alloc
      BY <2>0, <2>7 DEF InitPortAllocatorConfig, CacheIsPast, NotMade, EmptyCM, cmVars
    <3>2. QED
      BY <3>1
  <2>8. CASE UNCHANGED vars
    BY <2>2, <2>8 DEF vars
  <2>9. QED
    BY <1>2, <2>3, <2>4, <2>5, <2>6, <2>7, <2>8 DEF Next
<1>3. SerialInv /\ [Next]_vars => SerialInv'
  BY NextSerial
<1>4. QED
  BY <1>1, <1>2, <1>3, InitSerial, PTL DEF Spec, ImplementsPool, Pool!Spec

-----------------------------------------------------------------------------
(***************************************************************************)
(* One reconcile at a time, and no cluster under the name of another one.  *)
(* The port of a cluster stands in the ConfigMap, in its caches, in the    *)
(* local variables of a reconcile, in the cluster's status and in the      *)
(* deployment of its agent; each of them is written from a copy of another *)
(* one that may be old.  They agree because a reservation, once stored, is *)
(* final until the cluster is deleted, and deletion is final too.          *)
(***************************************************************************)
Deleted(c) == cluster[c].life \in {"deleting", "gone"}

Finalizing == {"unbind", "removeFinalizer"} \cup DeallocSteps

\* What the caches and the running reconcile know about the cluster c.
ObjectInv(c) ==
    /\ cachedFresh[c] => cached[c] = cluster[c]
    /\ copyFresh[c] => copy[c] = cluster[c]
    /\ cached[c].life \in {"deleting", "gone"} => Deleted(c)
    /\ cluster[c].life = "absent" => cached[c].life = "absent" /\ pc[c] = "idle"
    /\ pc[c] \in Finalizing => Deleted(c)

\* p is no port of the range, or the one that is reserved for c.
Reserved(c, p) == p \in Ports => cm.alloc[c] = p

\* Wherever a port of c is found that is going to be used, it is the reserved one.
LeaseInv(c) ==
    /\ cluster[c].life = "absent" => cm.alloc[c] = NoPort
    /\ pc[c] \in {"idle", "addFinalizer", "reconcile", "allocGet", "allocParse"}
          => local[c].port = NoPort
    /\ ~Deleted(c) =>
          /\ Reserved(c, cluster[c].port)
          /\ Reserved(c, agentPort[c])
          /\ Reserved(c, cmCached.alloc[c])
          /\ pc[c] = "allocParse" => Reserved(c, kubeletCM.alloc[c])
          /\ pc[c] \in {"agent", "status"} => Reserved(c, local[c].port)

LeasesInv == SerialInv /\ \A c \in Clusters : ObjectInv(c) /\ LeaseInv(c)

LEMMA InitLeases == Init => LeasesInv
<1> SUFFICES ASSUME Init PROVE LeasesInv
  OBVIOUS
<1>1. SerialInv
  BY InitSerial
<1>2. ASSUME NEW c \in Clusters PROVE ObjectInv(c)
  BY DEF Init, ObjectInv, Finalizing, DeallocSteps, Absent
<1>3. ASSUME NEW c \in Clusters PROVE LeaseInv(c)
  <2>1. /\ cluster[c].port = NoPort /\ cm.alloc[c] = NoPort /\ cmCached.alloc[c] = NoPort
        /\ agentPort[c] = NoPort /\ pc[c] = "idle" /\ local[c].port = NoPort
    BY DEF Init, Absent, NotMade, EmptyMap, NoLocal
  <2>2. QED
    BY <2>1, ConstantsAssumption DEF LeaseInv, Reserved
<1>4. QED
  BY <1>1, <1>2, <1>3 DEF LeasesInv

\* What a step does to the life of the cluster d: it is created once, and its
\* deletion is final.  The caches follow.
ObjectStep(d) ==
    /\ Deleted(d) => Deleted(d)'
    /\ cluster'[d].life = "absent" => cluster[d].life = "absent"
    /\ cluster'[d].life = "absent" => cached'[d].life = "absent" /\ pc'[d] = "idle"
    /\ cached'[d] \in {cached[d], cluster[d]}
    /\ cachedFresh'[d] => cached'[d] = cluster'[d]
    /\ copyFresh'[d] => copy'[d] = cluster'[d]
    /\ pc'[d] \in Finalizing =>
          pc[d] \in Finalizing \/ cached[d].life \in {"deleting", "gone"}

LEMMA ObjectsKept ==
    ASSUME NEW d \in Clusters, ObjectInv(d), ObjectStep(d)
    PROVE  ObjectInv(d)'
BY DEF ObjectInv, ObjectStep, Deleted

\* What a step does to the copies of the port of the cluster d.
LeaseStep(d) ==
    /\ cm'.alloc[d] = cm.alloc[d]
    /\ cmCached'.alloc[d] \in {cmCached.alloc[d], cm.alloc[d]}
    /\ ~Deleted(d)' =>
          /\ ~Deleted(d)
          /\ cluster'[d].port \in {cluster[d].port, NoPort, cm.alloc[d]}
          /\ agentPort'[d] \in {agentPort[d], NoPort, DefaultPort, cm.alloc[d]}
          /\ pc'[d] = "allocParse" =>
                \/ pc[d] = "allocParse" /\ kubeletCM' = kubeletCM
                \/ kubeletCM'.alloc[d] = cmCached.alloc[d]
          /\ pc'[d] \in {"agent", "status"} =>
                \/ pc[d] \in {"agent", "status"} /\ local'[d].port = local[d].port
                \/ local'[d].port \in {NoPort, cm.alloc[d]}
    /\ cluster'[d].life = "absent" => cluster[d].life = "absent"
    /\ pc'[d] \in {"idle", "addFinalizer", "reconcile", "allocGet", "allocParse"}
          => local'[d].port = NoPort

LEMMA LeaseKept ==
    ASSUME NEW d \in Clusters, LeaseInv(d), LeaseStep(d)
    PROVE  LeaseInv(d)'
<1> USE ConstantsAssumption
<1>1. ASSUME NEW p, Reserved(d, p) PROVE Reserved(d, p)'
  BY <1>1 DEF LeaseStep, Reserved
<1>2. /\ (cluster[d].life = "absent" => cm.alloc[d] = NoPort)'
      /\ (pc[d] \in {"idle", "addFinalizer", "reconcile", "allocGet", "allocParse"}
            => local[d].port = NoPort)'
  BY DEF LeaseInv, LeaseStep
<1>3. ASSUME NEW p \in {NoPort, DefaultPort, cm.alloc[d]} PROVE Reserved(d, p)
  BY DEF Reserved
<1>4. ASSUME ~Deleted(d)'
      PROVE  /\ Reserved(d, cluster'[d].port)
             /\ Reserved(d, agentPort'[d])
             /\ Reserved(d, cmCached'.alloc[d])
             /\ pc'[d] = "allocParse" => Reserved(d, kubeletCM'.alloc[d])
             /\ pc'[d] \in {"agent", "status"} => Reserved(d, local'[d].port)
  BY <1>3, <1>4 DEF LeaseInv, LeaseStep
<1>5. QED
  BY <1>1, <1>2, <1>4 DEF LeaseInv, Reserved, LeaseStep

\* A step that leaves the cluster d and the ConfigMap alone.
Untouched(d) ==
    /\ cluster'[d] = cluster[d] /\ cached'[d] = cached[d] /\ cachedFresh'[d] = cachedFresh[d]
    /\ copy'[d] = copy[d] /\ copyFresh'[d] = copyFresh[d]
    /\ pc'[d] = pc[d] /\ local'[d] = local[d] /\ agentPort'[d] = agentPort[d]

LEMMA UntouchedKept ==
    ASSUME LeasesInv, NEW d \in Clusters, Untouched(d)
    PROVE  /\ ObjectInv(d)'
           /\ cm'.alloc[d] = cm.alloc[d] /\ cmCached'.alloc[d] \in {cmCached.alloc[d], cm.alloc[d]}
              /\ (pc[d] = "allocParse" => kubeletCM' = kubeletCM)
              => LeaseInv(d)'
<1>1. ObjectInv(d) /\ LeaseInv(d)
  BY DEF LeasesInv
<1>2. ObjectInv(d)'
  BY <1>1 DEF Untouched, ObjectInv, Deleted
<1>3. ASSUME cm'.alloc[d] = cm.alloc[d], cmCached'.alloc[d] \in {cmCached.alloc[d], cm.alloc[d]},
             pc[d] = "allocParse" => kubeletCM' = kubeletCM
      PROVE  LeaseStep(d)
  BY <1>1, <1>3 DEF Untouched, LeaseStep, LeaseInv, Deleted
<1>4. QED
  BY <1>1, <1>2, <1>3, LeaseKept

\* A step for the cluster c leaves the other ones as they are.
StepFor(c) ==
    \A d \in Clusters \ {c} : Untouched(d) /\ cm'.alloc[d] = cm.alloc[d]

LEMMA OthersKept ==
    ASSUME LeasesInv, NEW c \in Clusters, StepFor(c), cmCached' = cmCached,
           kubeletCM' = kubeletCM \/ pc[c] # "idle"
    PROVE  \A d \in Clusters \ {c} : ObjectInv(d)' /\ LeaseInv(d)'
<1> SUFFICES ASSUME NEW d \in Clusters \ {c} PROVE ObjectInv(d)' /\ LeaseInv(d)'
  OBVIOUS
<1>1. pc[d] = "allocParse" => kubeletCM' = kubeletCM
  BY DEF LeasesInv, SerialInv, AtMostOne
<1>2. QED
  BY <1>1, UntouchedKept DEF StepFor

\* The users' steps and the watch of the Clusters.
LEMMA ObjectsLeases ==
    ASSUME NameReuse = FALSE, LeasesInv, TypeOK', NEW c \in Clusters,
           CreateCluster(c) \/ EditMirrorHostNodes(c) \/ DeleteCluster(c) \/ SyncCluster(c)
           \/ OtherEvent(c)
    PROVE  \A d \in Clusters : ObjectInv(d)' /\ LeaseInv(d)'
<1>0. TypeOK /\ ObjectInv(c) /\ LeaseInv(c)
  BY DEF LeasesInv, SerialInv
<1>1. ASSUME NEW object \in ClusterObjects, UserWrites(c, object),
             Deleted(c) => object.life \in {"deleting", "gone"},
             object.life # "absent",
             object.port \in {cluster[c].port, NoPort},
             object.life \notin {"deleting", "gone"} => ~Deleted(c)
      PROVE  \A d \in Clusters : ObjectInv(d)' /\ LeaseInv(d)'
  <2>1. /\ cm' = cm /\ cmCached' = cmCached /\ kubeletCM' = kubeletCM /\ agentPort' = agentPort
        /\ copy' = copy /\ pc' = pc /\ local' = local /\ cached' = cached
        /\ cluster' = [cluster EXCEPT ![c] = object]
        /\ cachedFresh' = [cachedFresh EXCEPT ![c] = FALSE]
        /\ copyFresh' = [copyFresh EXCEPT ![c] = FALSE]
    BY <1>1 DEF UserWrites, StoreCluster, cmVars, memVars
  <2>2. cluster'[c] = object /\ ~cachedFresh'[c] /\ ~copyFresh'[c]
    BY <1>0, <2>1 DEF TypeOK
  <2>3. ObjectStep(c)
    BY <1>0, <1>1, <2>1, <2>2 DEF ObjectStep, Deleted
  <2>4. LeaseStep(c)
    BY <1>0, <1>1, <2>1, <2>2 DEF LeaseStep, LeaseInv, Deleted
  <2>5. StepFor(c)
    BY <1>0, <2>1 DEF StepFor, Untouched, TypeOK
  <2>6. \A d \in Clusters \ {c} : ObjectInv(d)' /\ LeaseInv(d)'
    BY <2>1, <2>5, OthersKept
  <2>7. QED
    BY <1>0, <2>3, <2>4, <2>6, ObjectsKept, LeaseKept
<1>2. CASE CreateCluster(c)
  <2>1. PICK m \in BOOLEAN :
           UserWrites(c, [Absent EXCEPT !.life = "live", !.mirror = m])
    BY <1>2 DEF CreateCluster
  <2>2. /\ [Absent EXCEPT !.life = "live", !.mirror = m] \in ClusterObjects
        /\ [Absent EXCEPT !.life = "live", !.mirror = m].life = "live"
        /\ [Absent EXCEPT !.life = "live", !.mirror = m].port = NoPort
    BY ConstantsTyped DEF ClusterObjects, Absent
  <2>3. ~Deleted(c)
    BY <1>2 DEF CreateCluster, Deleted
  <2>4. QED
    BY <1>1, <2>1, <2>2, <2>3
<1>3. CASE EditMirrorHostNodes(c)
  <2> DEFINE object == [cluster[c] EXCEPT !.mirror = ~cluster[c].mirror]
  <2>1. /\ object \in ClusterObjects /\ object.life = "live" /\ object.port = cluster[c].port
        /\ ~Deleted(c)
    BY <1>0, <1>3 DEF EditMirrorHostNodes, TypeOK, ClusterObjects, Deleted
  <2>2. UserWrites(c, object)
    BY <1>3 DEF EditMirrorHostNodes
  <2> HIDE DEF object
  <2>3. QED
    BY <1>1, <2>1, <2>2
<1>4. CASE DeleteCluster(c)
  <2>1. PICK object \in {Gone, [cluster[c] EXCEPT !.life = "deleting"]} : UserWrites(c, object)
    BY <1>4 DEF DeleteCluster
  <2>2. [cluster[c] EXCEPT !.life = "deleting"] \in ClusterObjects
    <3>1. cluster[c] \in ClusterObjects
      BY <1>0 DEF TypeOK
    <3>2. QED
      BY <3>1 DEF ClusterObjects
  <2>3. /\ [cluster[c] EXCEPT !.life = "deleting"].life = "deleting"
        /\ [cluster[c] EXCEPT !.life = "deleting"].port = cluster[c].port
        /\ Gone.life = "gone" /\ Gone.port = NoPort
    BY <1>0 DEF TypeOK, ClusterObjects, Gone, Absent
  <2>4. QED
    BY <1>1, <2>1, <2>2, <2>3, ConstantsTyped
<1>5. CASE SyncCluster(c)
  <2>1. /\ cm' = cm /\ cmCached' = cmCached /\ kubeletCM' = kubeletCM /\ agentPort' = agentPort
        /\ copy' = copy /\ pc' = pc /\ local' = local /\ cluster' = cluster
        /\ copyFresh' = copyFresh
        /\ cached' = [cached EXCEPT ![c] = cluster[c]]
        /\ cachedFresh' = [cachedFresh EXCEPT ![c] = TRUE]
    BY <1>5 DEF SyncCluster, cmVars, memVars
  <2>2. ObjectStep(c)
    BY <1>0, <2>1 DEF ObjectStep, ObjectInv, Deleted, TypeOK
  <2>3. LeaseStep(c)
    BY <1>0, <2>1 DEF LeaseStep, LeaseInv, Deleted
  <2>4. StepFor(c)
    BY <1>0, <2>1 DEF StepFor, Untouched, TypeOK
  <2>5. \A d \in Clusters \ {c} : ObjectInv(d)' /\ LeaseInv(d)'
    BY <2>1, <2>4, OthersKept
  <2>6. QED
    BY <1>0, <2>2, <2>3, <2>5, ObjectsKept, LeaseKept
<1>6. CASE OtherEvent(c)
  <2>1. /\ cm' = cm /\ cmCached' = cmCached /\ kubeletCM' = kubeletCM /\ agentPort' = agentPort
        /\ copy' = copy /\ pc' = pc /\ local' = local /\ cluster' = cluster
        /\ copyFresh' = copyFresh /\ cached' = cached /\ cachedFresh' = cachedFresh
    BY <1>6 DEF OtherEvent, cmVars, memVars, objVars
  <2>2. \A d \in Clusters : Untouched(d)
    BY <2>1 DEF Untouched
  <2>3. QED
    BY <2>1, <2>2, UntouchedKept
<1>7. QED
  BY <1>2, <1>3, <1>4, <1>5, <1>6

\* A step of the reconcile of c, or its start, that writes no ConfigMap: what has to
\* be shown of c alone.
LEMMA OwnStep ==
    ASSUME LeasesInv, NEW c \in Clusters, StepFor(c), cmCached' = cmCached,
           kubeletCM' = kubeletCM \/ pc[c] # "idle",
           ObjectStep(c), LeaseStep(c)
    PROVE  \A d \in Clusters : ObjectInv(d)' /\ LeaseInv(d)'
<1>1. \A d \in Clusters \ {c} : ObjectInv(d)' /\ LeaseInv(d)'
  BY OthersKept
<1>2. ObjectInv(c)' /\ LeaseInv(c)'
  BY ObjectsKept, LeaseKept DEF LeasesInv
<1>3. QED
  BY <1>1, <1>2

\* The reconcile of c ends without a write.
LEMMA ReturnLeases ==
    ASSUME LeasesInv, NEW c \in Clusters, pc[c] # "idle", NEW requeue, Return(c, requeue),
           UNCHANGED <<objVars, cmVars, agentPort>>
    PROVE  \A d \in Clusters : ObjectInv(d)' /\ LeaseInv(d)'
<1>0. TypeOK /\ ObjectInv(c) /\ LeaseInv(c)
  BY DEF LeasesInv, SerialInv
<1>1. /\ cluster' = cluster /\ cached' = cached /\ cachedFresh' = cachedFresh
      /\ cm' = cm /\ cmCached' = cmCached /\ agentPort' = agentPort
      /\ pc' = [pc EXCEPT ![c] = "idle"] /\ copy' = [copy EXCEPT ![c] = Absent]
      /\ copyFresh' = [copyFresh EXCEPT ![c] = FALSE] /\ local' = [local EXCEPT ![c] = NoLocal]
  BY DEF Return, Goto, objVars, cmVars
<1>2. pc'[c] = "idle" /\ ~copyFresh'[c] /\ local'[c] = NoLocal /\ local'[c].port = NoPort
  BY <1>0, <1>1 DEF TypeOK, NoLocal
<1>3. ObjectStep(c)
  BY <1>0, <1>1, <1>2 DEF ObjectStep, ObjectInv, Deleted, Finalizing, DeallocSteps
<1>4. LeaseStep(c)
  BY <1>0, <1>1, <1>2 DEF LeaseStep, Deleted
<1>5. StepFor(c)
  BY <1>0, <1>1 DEF StepFor, Untouched, TypeOK
<1>6. QED
  BY <1>1, <1>3, <1>4, <1>5, OwnStep

\* The reconcile of c moves on without a write: into the finalization only from
\* there, to the agent and the status with a port that is reserved.
LEMMA MoveLeases ==
    ASSUME LeasesInv, TypeOK', NEW c \in Clusters, pc[c] # "idle",
           NEW step \in Steps, Goto(c, step),
           NEW l \in Locals, local' = [local EXCEPT ![c] = l],
           UNCHANGED <<objVars, copy, copyFresh, cmVars, agentPort>>,
           step \in Finalizing => pc[c] \in Finalizing,
           step = "allocParse" => kubeletCM' = cmCached,
           step \in {"agent", "status"} =>
              \/ pc[c] \in {"agent", "status"} /\ l.port = local[c].port
              \/ l.port \in {NoPort, cm.alloc[c]} \/ Deleted(c),
           step \in {"idle", "addFinalizer", "reconcile", "allocGet", "allocParse"} => l.port = NoPort
    PROVE  \A d \in Clusters : ObjectInv(d)' /\ LeaseInv(d)'
<1>0. TypeOK /\ ObjectInv(c) /\ LeaseInv(c)
  BY DEF LeasesInv, SerialInv
<1>1. /\ cluster' = cluster /\ cached' = cached /\ cachedFresh' = cachedFresh
      /\ cm' = cm /\ cmCached' = cmCached /\ agentPort' = agentPort
      /\ copy' = copy /\ copyFresh' = copyFresh
      /\ pc'[c] = step /\ local'[c] = l
      /\ \A d \in Clusters \ {c} : pc'[d] = pc[d] /\ local'[d] = local[d]
  BY <1>0 DEF Goto, objVars, cmVars, TypeOK
<1>2. ObjectStep(c)
  BY <1>0, <1>1 DEF ObjectStep, ObjectInv, Deleted
<1>3. LeaseStep(c)
  BY <1>0, <1>1 DEF LeaseStep, Deleted
<1>4. StepFor(c)
  BY <1>1 DEF StepFor, Untouched
<1>5. QED
  BY <1>1, <1>2, <1>3, <1>4, OwnStep

\* The allocator's error, on the way to the status.
LEMMA AllocFailsLeases ==
    ASSUME LeasesInv, TypeOK', NEW c \in Clusters, pc[c] # "idle",
           AllocFails(c) \/ AllocatorFails(c), UNCHANGED <<objVars, cmVars, agentPort>>
    PROVE  \A d \in Clusters : ObjectInv(d)' /\ LeaseInv(d)'
<1>1. CASE AllocFails(c)
  <2>1. [NoLocal EXCEPT !.err = TRUE] \in Locals /\ [NoLocal EXCEPT !.err = TRUE].port = NoPort
    BY ConstantsTyped DEF Locals, NoLocal
  <2>2. "status" \in Steps /\ "status" \notin Finalizing
    BY DEF Steps, Finalizing, DeallocSteps
  <2>3. Goto(c, "status") /\ local' = [local EXCEPT ![c] = [NoLocal EXCEPT !.err = TRUE]]
        /\ UNCHANGED <<copy, copyFresh>>
    BY <1>1 DEF AllocFails
  <2>4. QED
    BY <2>1, <2>2, <2>3, MoveLeases
<1>2. CASE Return(c, TRUE)
  BY <1>2, ReturnLeases
<1>3. QED
  BY <1>1, <1>2 DEF AllocatorFails

LEMMA StartLeases ==
    ASSUME LeasesInv, NEW c \in Clusters, StartReconcile(c)
    PROVE  \A d \in Clusters : ObjectInv(d)' /\ LeaseInv(d)'
<1>0. TypeOK /\ ObjectInv(c) /\ LeaseInv(c)
  BY DEF LeasesInv, SerialInv
<1>1. /\ cluster' = cluster /\ cached' = cached /\ cachedFresh' = cachedFresh
      /\ cm' = cm /\ cmCached' = cmCached /\ agentPort' = agentPort
      /\ kubeletCM' = kubeletCM /\ local' = local /\ pc[c] = "idle"
  BY DEF StartReconcile, objVars, cmVars, memVars
<1>2. /\ pc' = [pc EXCEPT ![c] = FirstStep(cached[c])]
      /\ copy' = [copy EXCEPT ![c] = IF Exists(cached[c]) THEN cached[c] ELSE Absent]
      /\ copyFresh' = [copyFresh EXCEPT ![c] = cachedFresh[c] /\ Exists(cached[c])]
  BY DEF StartReconcile, Goto
<1>3. /\ pc'[c] = FirstStep(cached[c])
      /\ copyFresh'[c] => copy'[c] = cached[c] /\ cachedFresh[c]
  BY <1>0, <1>2 DEF TypeOK
<1>4. /\ FirstStep(cached[c]) \in {"idle", "unbind", "addFinalizer", "reconcile"}
      /\ FirstStep(cached[c]) = "unbind" => cached[c].life = "deleting"
      /\ cached[c].life = "absent" => FirstStep(cached[c]) = "idle"
  BY <1>0 DEF FirstStep, Exists, TypeOK, ClusterObjects
<1>5. ObjectStep(c)
  BY <1>0, <1>1, <1>3, <1>4 DEF ObjectStep, ObjectInv, Deleted, Finalizing, DeallocSteps
<1>6. LeaseStep(c)
  BY <1>0, <1>1, <1>3, <1>4 DEF LeaseStep, LeaseInv, Deleted
<1>7. StepFor(c)
  BY <1>0, <1>1, <1>2 DEF StepFor, Untouched, TypeOK
<1>8. QED
  BY <1>1, <1>5, <1>6, <1>7, OwnStep

\* A write of the Cluster by its reconcile, which is refused unless the copy is current.
LEMMA UpdateClusterLeases ==
    ASSUME LeasesInv, NEW c \in Clusters, pc[c] # "idle", NEW object \in ClusterObjects,
           NEW requeue, UpdateCluster(c, object, requeue),
           copyFresh[c] =>
              /\ object.life # "absent"
              /\ object.life \in {cluster[c].life, "gone"}
              /\ ~Deleted(c) /\ object.life # "gone" =>
                    object.port \in {cluster[c].port, NoPort, cm.alloc[c]},
           agentPort'[c] \in {agentPort[c], NoPort},
           \A d \in Clusters \ {c} : agentPort'[d] = agentPort[d]
    PROVE  \A d \in Clusters : ObjectInv(d)' /\ LeaseInv(d)'
<1>0. TypeOK /\ ObjectInv(c) /\ LeaseInv(c)
  BY DEF LeasesInv, SerialInv
<1>1. /\ cm' = cm /\ cmCached' = cmCached /\ kubeletCM' = kubeletCM /\ cached' = cached
      /\ pc' = [pc EXCEPT ![c] = "idle"] /\ copy' = [copy EXCEPT ![c] = Absent]
      /\ copyFresh' = [copyFresh EXCEPT ![c] = FALSE] /\ local' = [local EXCEPT ![c] = NoLocal]
  BY DEF UpdateCluster, StoreCluster, Return, Goto, objVars, cmVars, memVars
<1>2. pc'[c] = "idle" /\ ~copyFresh'[c] /\ local'[c].port = NoPort
  BY <1>0, <1>1 DEF TypeOK, NoLocal
<1>3. \A d \in Clusters \ {c} : cluster'[d] = cluster[d] /\ cachedFresh'[d] = cachedFresh[d]
  BY <1>0 DEF UpdateCluster, StoreCluster, objVars, TypeOK
<1>4. \/ cluster'[c] = cluster[c] /\ cachedFresh'[c] = cachedFresh[c]
      \/ copyFresh[c] /\ cluster'[c] = object /\ ~cachedFresh'[c]
  BY <1>0 DEF UpdateCluster, StoreCluster, objVars, TypeOK
<1>5. ObjectStep(c)
  BY <1>0, <1>1, <1>2, <1>4 DEF ObjectStep, ObjectInv, Deleted, Finalizing, DeallocSteps
<1>6. LeaseStep(c)
  BY <1>0, <1>1, <1>2, <1>4 DEF LeaseStep, Deleted
<1>7. StepFor(c)
  BY <1>0, <1>1, <1>3 DEF StepFor, Untouched, TypeOK
<1>8. QED
  BY <1>1, <1>5, <1>6, <1>7, OwnStep

\* The steps of the cluster controller.
LEMMA ControllerLeases ==
    ASSUME LeasesInv, TypeOK', NEW c \in Clusters,
           \/ AddFinalizer(c) \/ ReconcileUpToAgent(c) \/ EnsureAgent(c) \/ UpdateStatus(c)
           \/ UnbindClusterRoles(c) \/ RemoveFinalizer(c)
    PROVE  \A d \in Clusters : ObjectInv(d)' /\ LeaseInv(d)'
<1>0. /\ TypeOK /\ ObjectInv(c) /\ LeaseInv(c)
      /\ copy[c] \in ClusterObjects /\ local[c] \in Locals /\ local = [local EXCEPT ![c] = local[c]]
  BY DEF LeasesInv, SerialInv, TypeOK
<1>1. CASE AddFinalizer(c)
  <2> DEFINE object == [copy[c] EXCEPT !.finalizer = TRUE]
  <2>1. object \in ClusterObjects /\ object.life = copy[c].life /\ object.port = copy[c].port
    BY <1>0 DEF ClusterObjects
  <2>2. UpdateCluster(c, object, FALSE) /\ pc[c] = "addFinalizer" /\ agentPort' = agentPort
    BY <1>1 DEF AddFinalizer
  <2> HIDE DEF object
  <2>3. copyFresh[c] => copy[c] = cluster[c] /\ cluster[c].life # "absent"
    BY <1>0, <2>2 DEF ObjectInv
  <2>4. QED
    BY <2>1, <2>2, <2>3, UpdateClusterLeases
<1>2. CASE ReconcileUpToAgent(c)
  <2>1. PICK step \in {"allocGet", "agent"} : Goto(c, step)
    BY <1>2 DEF ReconcileUpToAgent
  <2>2. local[c].port = NoPort /\ pc[c] = "reconcile"
    BY <1>0, <1>2 DEF LeaseInv, ReconcileUpToAgent
  <2>3. step \in Steps /\ step \notin Finalizing
    BY DEF Steps, AllocSteps, Finalizing, DeallocSteps
  <2>4. local' = [local EXCEPT ![c] = local[c]] /\ UNCHANGED <<objVars, copy, copyFresh, cmVars, agentPort>>
    BY <1>0, <1>2 DEF ReconcileUpToAgent
  <2>5. QED
    BY <1>0, <2>1, <2>2, <2>3, <2>4, MoveLeases
<1>3. CASE EnsureAgent(c)
  <2>1. /\ cluster' = cluster /\ cached' = cached /\ cachedFresh' = cachedFresh
        /\ cm' = cm /\ cmCached' = cmCached /\ kubeletCM' = kubeletCM
        /\ copy' = copy /\ copyFresh' = copyFresh /\ local' = local /\ pc[c] = "agent"
    BY <1>3 DEF EnsureAgent, objVars, cmVars, memVars
  <2>2. PICK p \in {local[c].port, DefaultPort} : agentPort' = [agentPort EXCEPT ![c] = p]
    BY <1>3 DEF EnsureAgent
  <2>3. pc' = [pc EXCEPT ![c] = "status"]
    BY <1>3 DEF EnsureAgent, Goto
  <2>4. pc'[c] = "status" /\ agentPort'[c] = p
    BY <1>0, <2>2, <2>3 DEF TypeOK
  <2>5. ~Deleted(c) => local[c].port \in {NoPort, cm.alloc[c]}
    BY <1>0, <2>1 DEF LeaseInv, Reserved, Locals, AnyPort
  <2>6. ObjectStep(c)
    BY <1>0, <2>1, <2>4 DEF ObjectStep, ObjectInv, Deleted, Finalizing, DeallocSteps
  <2>7. LeaseStep(c)
    BY <1>0, <2>1, <2>4, <2>5 DEF LeaseStep, Deleted
  <2>8. StepFor(c)
    BY <1>0, <2>1, <2>2, <2>3 DEF StepFor, Untouched, TypeOK
  <2>9. QED
    BY <2>1, <2>6, <2>7, <2>8, OwnStep
<1>4. CASE UpdateStatus(c)
  <2>1. pc[c] = "status" /\ agentPort' = agentPort
    BY <1>4 DEF UpdateStatus
  <2>2. CASE UpdateCluster(c, [copy[c] EXCEPT !.port = StatusPort(c)], local[c].err)
    <3> DEFINE object == [copy[c] EXCEPT !.port = StatusPort(c)]
    <3>1. StatusPort(c) \in AnyPort
      BY <1>0 DEF StatusPort, ClusterObjects, Locals
    <3>2. object \in ClusterObjects /\ object.life = copy[c].life /\ object.port = StatusPort(c)
      BY <1>0, <3>1 DEF ClusterObjects
    <3>3. UpdateCluster(c, object, local[c].err)
      BY <2>2
    <3> HIDE DEF object
    <3>4. copyFresh[c] => copy[c] = cluster[c] /\ cluster[c].life # "absent"
      BY <1>0, <2>1 DEF ObjectInv
    <3>5. ~Deleted(c) => local[c].port \in {NoPort, cm.alloc[c]}
      BY <1>0, <2>1 DEF LeaseInv, Reserved, Locals, AnyPort
    <3>6. copyFresh[c] /\ ~Deleted(c) => object.port \in {cluster[c].port, NoPort, cm.alloc[c]}
      BY <3>2, <3>4, <3>5 DEF StatusPort
    <3>7. QED
      BY <2>1, <3>2, <3>3, <3>4, <3>6, UpdateClusterLeases
  <2>3. CASE Return(c, local[c].err) /\ UNCHANGED <<objVars, cmVars, memVars, faults>>
    BY <2>1, <2>3, ReturnLeases
  <2>4. QED
    BY <1>4, <2>2, <2>3 DEF UpdateStatus
<1>5. CASE UnbindClusterRoles(c)
  <2>1. PICK step \in {"freeGet", "removeFinalizer"} : Goto(c, step)
    BY <1>5 DEF UnbindClusterRoles
  <2>2. pc[c] = "unbind" /\ pc[c] \in Finalizing
    BY <1>5 DEF UnbindClusterRoles, Finalizing
  <2>3. step \in Steps
    BY DEF Steps, DeallocSteps
  <2>4. local' = [local EXCEPT ![c] = local[c]] /\ UNCHANGED <<objVars, copy, copyFresh, cmVars, agentPort>>
    BY <1>0, <1>5 DEF UnbindClusterRoles
  <2>5. QED
    BY <1>0, <2>1, <2>2, <2>3, <2>4, MoveLeases
<1>6. CASE RemoveFinalizer(c)
  <2>1. pc[c] = "removeFinalizer" /\ UpdateCluster(c, Gone, FALSE) /\ Gone.life = "gone"
    BY <1>6 DEF RemoveFinalizer, Gone, Absent
  <2>2. /\ agentPort'[c] \in {agentPort[c], NoPort}
        /\ \A d \in Clusters \ {c} : agentPort'[d] = agentPort[d]
    BY <1>0, <1>6 DEF RemoveFinalizer, TypeOK
  <2>3. QED
    BY <2>1, <2>2, ConstantsTyped, UpdateClusterLeases
<1>7. QED
  BY <1>1, <1>2, <1>3, <1>4, <1>5, <1>6

\* The steps of the allocator up to the write of the ConfigMap, and failed calls.
LEMMA AllocatorLeases ==
    ASSUME LeasesInv, TypeOK', NEW c \in Clusters,
           \/ AllocGet(c) \/ AllocParse(c) \/ AllocSave(c)
           \/ FreeGet(c) \/ FreeParse(c) \/ FreeSave(c) \/ CallFails(c)
    PROVE  \A d \in Clusters : ObjectInv(d)' /\ LeaseInv(d)'
<1>0. /\ TypeOK /\ ObjectInv(c) /\ LeaseInv(c) /\ local[c] \in Locals
      /\ local = [local EXCEPT ![c] = local[c]]
  BY DEF LeasesInv, SerialInv, TypeOK
<1>s. /\ {"agent", "status"} \subseteq Steps /\ AllocSteps \subseteq Steps /\ DeallocSteps \subseteq Steps
      /\ DeallocSteps \subseteq Finalizing /\ Finalizing \cap AllocSteps = {}
      /\ Finalizing \cap {"agent", "status"} = {}
  BY DEF Steps, AllocSteps, DeallocSteps, Finalizing
<1>1. CASE AllocGet(c) \/ FreeGet(c)
  <2>1. PICK next \in {"allocParse", "freeParse"} :
           /\ GetOrCreate(c, next)
           /\ pc[c] = IF next = "allocParse" THEN "allocGet" ELSE "freeGet"
    BY <1>1 DEF AllocGet, FreeGet
  <2>2. UNCHANGED <<objVars, cmVars, agentPort>>
    BY <2>1 DEF GetOrCreate
  <2>3. CASE AllocatorFails(c)
    BY <2>1, <2>2, <2>3, AllocFailsLeases
  <2>4. CASE kubeletCM' = cmCached /\ Goto(c, next) /\ UNCHANGED <<copy, copyFresh, queue, local>>
    <3>1. next \in Steps /\ (next \in Finalizing => pc[c] \in Finalizing)
      BY <1>s, <2>1 DEF AllocSteps, DeallocSteps
    <3>2. next = "allocParse" => local[c].port = NoPort
      BY <1>0, <2>1 DEF LeaseInv
    <3>3. local' = [local EXCEPT ![c] = local[c]]
      BY <1>0, <2>4
    <3>4. QED
      BY <1>0, <2>1, <2>2, <2>4, <3>1, <3>2, <3>3, MoveLeases
  <2>5. QED
    BY <2>1, <2>3, <2>4 DEF GetOrCreate
<1>2. CASE AllocParse(c)
  <2>1. pc[c] = "allocParse" /\ UNCHANGED <<objVars, cmVars, memVars, agentPort>>
    BY <1>2 DEF AllocParse
  <2>2. CASE AllocFails(c)
    BY <2>1, <2>2, AllocFailsLeases
  <2>3. CASE /\ kubeletCM.alloc[c] # NoPort
             /\ local' = [local EXCEPT ![c].port = kubeletCM.alloc[c]]
             /\ Goto(c, "agent") /\ UNCHANGED <<copy, copyFresh, queue>>
    <3> DEFINE l == [local[c] EXCEPT !.port = kubeletCM.alloc[c]]
    <3>1. kubeletCM.alloc[c] \in AnyPort
      BY <1>0 DEF TypeOK, ConfigMaps, PortMaps
    <3>2. l \in Locals /\ l.port = kubeletCM.alloc[c]
      BY <1>0, <3>1 DEF Locals
    <3>3. local' = [local EXCEPT ![c] = l]
      BY <2>3
    <3> HIDE DEF l
    <3>4. l.port = cm.alloc[c] \/ Deleted(c)
      BY <1>0, <2>1, <2>3, <3>1, <3>2 DEF LeaseInv, Reserved, AnyPort
    <3>5. UNCHANGED <<objVars, copy, copyFresh, cmVars, agentPort>>
      BY <2>1, <2>3
    <3>6. /\ "agent" \in Steps /\ "agent" \notin Finalizing
          /\ Goto(c, "agent") /\ pc[c] # "idle"
      BY <1>s, <2>1, <2>3
    <3>7. QED
      BY <3>2, <3>3, <3>4, <3>5, <3>6, MoveLeases
  <2>4. CASE /\ \E p \in FreePorts : local' = [local EXCEPT ![c] = Assigned(c, p)]
             /\ Goto(c, "allocSave") /\ UNCHANGED <<copy, copyFresh, queue>>
    <3>1. PICK p \in FreePorts : local' = [local EXCEPT ![c] = Assigned(c, p)]
      BY <2>4
    <3>2. Assigned(c, p) \in Locals
      BY <1>0 DEF Assigned, FreePorts, TypeOK, Locals, ConfigMaps, PortMaps, AnyPort
    <3>3. "allocSave" \in AllocSteps
      BY DEF AllocSteps
    <3>4. QED
      BY <1>s, <2>1, <2>4, <3>1, <3>2, <3>3, MoveLeases
  <2>5. QED
    BY <1>2, <2>2, <2>3, <2>4 DEF AllocParse
<1>3. CASE FreeParse(c)
  <2>1. /\ pc[c] = "freeParse" /\ pc[c] \in Finalizing
        /\ UNCHANGED <<objVars, cmVars, memVars, agentPort>>
    BY <1>3 DEF FreeParse, Finalizing, DeallocSteps
  <2>2. CASE Return(c, TRUE)
    BY <2>1, <2>2, ReturnLeases
  <2>3. CASE Goto(c, "freeUpdate") /\ UNCHANGED <<copy, copyFresh, queue, local>>
    <3>1. local' = [local EXCEPT ![c] = local[c]] /\ "freeUpdate" \in DeallocSteps
      BY <1>0, <2>3 DEF DeallocSteps
    <3>2. UNCHANGED <<objVars, copy, copyFresh, cmVars, agentPort>>
      BY <2>1, <2>3
    <3>3. "freeUpdate" \in Steps /\ Goto(c, "freeUpdate") /\ pc[c] # "idle"
      BY <1>s, <2>1, <2>3, <3>1
    <3>4. QED
      BY <1>0, <2>1, <3>1, <3>2, <3>3, MoveLeases
  <2>4. CASE /\ local' = [local EXCEPT ![c] = Released(c)]
             /\ Goto(c, "freeSave") /\ UNCHANGED <<copy, copyFresh, queue>>
    <3>1. Released(c) \in Locals /\ "freeSave" \in DeallocSteps
      BY <1>0 DEF Released, TypeOK, Locals, ConfigMaps, PortMaps, AnyPort, DeallocSteps
    <3>2. QED
      BY <1>s, <2>1, <2>4, <3>1, MoveLeases
  <2>5. QED
    BY <1>3, <2>2, <2>3, <2>4 DEF FreeParse
<1>4. CASE AllocSave(c) \/ FreeSave(c)
  <2>1. PICK next \in {"allocUpdate", "freeUpdate"} :
           /\ SaveSnapshot(c, next)
           /\ pc[c] = IF next = "allocUpdate" THEN "allocSave" ELSE "freeSave"
    BY <1>4 DEF AllocSave, FreeSave
  <2>2. /\ Goto(c, next) /\ UNCHANGED <<objVars, copy, copyFresh, cmVars, agentPort>>
        /\ local' = [local EXCEPT ![c] = local[c]]
    BY <1>0, <2>1 DEF SaveSnapshot
  <2>3. next \in Steps /\ (next \in Finalizing => pc[c] \in Finalizing)
    BY <1>s, <2>1 DEF AllocSteps, DeallocSteps
  <2>4. QED
    BY <1>0, <2>1, <2>2, <2>3, MoveLeases
<1>5. CASE CallFails(c)
  <2>1. pc[c] # "idle" /\ UNCHANGED <<objVars, cmVars, memVars, agentPort>>
    BY <1>5 DEF CallFails
  <2>2. CASE AllocFails(c)
    BY <2>1, <2>2, AllocFailsLeases
  <2>3. CASE /\ pc[c] = "agent" /\ Goto(c, "status")
             /\ local' = [local EXCEPT ![c].err = TRUE]
             /\ UNCHANGED <<copy, copyFresh, queue>>
    <3> DEFINE l == [local[c] EXCEPT !.err = TRUE]
    <3>1. l \in Locals /\ l.port = local[c].port
      BY <1>0 DEF Locals
    <3>2. local' = [local EXCEPT ![c] = l]
      BY <2>3
    <3> HIDE DEF l
    <3>3. UNCHANGED <<objVars, copy, copyFresh, cmVars, agentPort>>
      BY <2>1, <2>3
    <3>4. /\ "status" \in Steps /\ "status" \notin Finalizing
          /\ Goto(c, "status") /\ pc[c] = "agent"
      BY <1>s, <2>3
    <3>5. QED
      BY <3>1, <3>2, <3>3, <3>4, MoveLeases
  <2>4. CASE Return(c, TRUE)
    BY <2>1, <2>4, ReturnLeases
  <2>5. QED
    BY <1>5, <2>2, <2>3, <2>4 DEF CallFails
<1>6. QED
  BY <1>1, <1>2, <1>3, <1>4, <1>5

\* An accepted write of the ConfigMap changes one lease: it gives a port to the cluster
\* c, which had none, or takes the port of c, which is deleted.
LEMMA StoredLease ==
    ASSUME LeasesInv, NEW c \in Clusters, pc[c] \in {"allocUpdate", "freeUpdate"},
           UpdateAccepted, StoreConfigMap
    PROVE  /\ \A d \in Clusters \ {c} : cm'.alloc[d] = cm.alloc[d]
           /\ pc[c] = "allocUpdate" => cm.alloc[c] = NoPort /\ cm'.alloc[c] = local[c].port
           /\ pc[c] = "freeUpdate" => Deleted(c)
           /\ cluster[c].life # "absent"
<1>1. /\ TypeOK /\ InFlight(c) /\ ObjectInv(c) /\ kubeletCMFresh /\ cm' = kubeletCM
      /\ cm.alloc \in [Clusters -> AnyPort]
  BY DEF LeasesInv, SerialInv, TypeOK, ConfigMaps, PortMaps, UpdateAccepted, StoreConfigMap
<1>2. CASE pc[c] = "allocUpdate"
  BY <1>1, <1>2 DEF InFlight, GivesTo, ObjectInv
<1>3. CASE pc[c] = "freeUpdate"
  BY <1>1, <1>3 DEF InFlight, TakesFrom, ObjectInv, Finalizing, DeallocSteps
<1>4. QED
  BY <1>2, <1>3

\* The write of the ConfigMap, accepted, refused or with its reply lost.
LEMMA StoreLeases ==
    ASSUME LeasesInv, TypeOK', NEW c \in Clusters,
           AllocUpdate(c) \/ FreeUpdate(c) \/ ReplyLost(c)
    PROVE  \A d \in Clusters : ObjectInv(d)' /\ LeaseInv(d)'
<1> USE ConstantsAssumption
<1>0. TypeOK /\ ObjectInv(c) /\ LeaseInv(c) /\ local[c] \in Locals
  BY DEF LeasesInv, SerialInv, TypeOK
<1>1. pc[c] \in {"allocUpdate", "freeUpdate"} /\ UNCHANGED <<objVars, agentPort>>
  BY DEF AllocUpdate, FreeUpdate, UpdateConfigMap, ReplyLost
<1>2. CASE ~UpdateAccepted
  <2>1. AllocatorFails(c) /\ UNCHANGED cmVars
    BY <1>2 DEF AllocUpdate, FreeUpdate, UpdateConfigMap, ReplyLost
  <2>2. QED
    BY <1>1, <2>1, AllocFailsLeases
<1>3. CASE UpdateAccepted
  <2>1. StoreConfigMap /\ cmCached' = cmCached /\ kubeletCM' = kubeletCM
    BY <1>3 DEF AllocUpdate, FreeUpdate, UpdateConfigMap, ReplyLost, StoreConfigMap, memVars
  <2>2. /\ cluster' = cluster /\ cached' = cached /\ cachedFresh' = cachedFresh
        /\ agentPort' = agentPort
    BY <1>1 DEF objVars
  <2>3. /\ \A d \in Clusters \ {c} : /\ pc'[d] = pc[d] /\ local'[d] = local[d]
                                     /\ copy'[d] = copy[d] /\ copyFresh'[d] = copyFresh[d]
        /\ copyFresh'[c] => copyFresh[c] /\ copy'[c] = copy[c]
        /\ \/ pc[c] = "allocUpdate" /\ pc'[c] = "agent" /\ local'[c] = local[c]
           \/ pc[c] = "freeUpdate" /\ pc'[c] = "removeFinalizer" /\ local'[c] = local[c]
           \/ pc[c] = "allocUpdate" /\ pc'[c] = "status" /\ local'[c].port = NoPort
           \/ pc[c] = "freeUpdate" /\ pc'[c] = "idle" /\ local'[c].port = NoPort
    BY <1>0, <1>1, <1>3
       DEF AllocUpdate, FreeUpdate, UpdateConfigMap, ReplyLost, AllocatorFails, AllocFails, Return,
           Goto, TypeOK, AllocSteps, NoLocal
  <2>4. /\ \A d \in Clusters \ {c} : cm'.alloc[d] = cm.alloc[d]
        /\ pc[c] = "allocUpdate" => cm.alloc[c] = NoPort /\ cm'.alloc[c] = local[c].port
        /\ pc[c] = "freeUpdate" => Deleted(c)
        /\ cluster[c].life # "absent"
    BY <1>1, <1>3, <2>1, StoredLease
  <2>5. \A d \in Clusters \ {c} : ObjectInv(d)' /\ LeaseInv(d)'
    BY <1>1, <2>1, <2>2, <2>3, <2>4, OthersKept DEF StepFor, Untouched
  <2>6. ObjectStep(c)
    BY <1>0, <2>2, <2>3, <2>4 DEF ObjectStep, ObjectInv, Deleted, Finalizing, DeallocSteps
  <2>7. LeaseInv(c)'
    <3>1. CASE pc[c] = "freeUpdate"
      BY <2>2, <2>3, <2>4, <3>1 DEF LeaseInv, Deleted
    <3>2. CASE pc[c] = "allocUpdate"
      BY <1>0, <2>1, <2>2, <2>3, <2>4, <3>2 DEF LeaseInv, Reserved, Deleted
    <3>3. QED
      BY <1>1, <3>1, <3>2
  <2>8. QED
    BY <1>0, <2>5, <2>6, <2>7, ObjectsKept
<1>4. QED
  BY <1>2, <1>3

\* The watch of the ConfigMap, the allocator's start, and a restart.
LEMMA SharedLeases ==
    ASSUME LeasesInv, TypeOK', SyncConfigMap \/ InitPortAllocatorConfig \/ Restart
    PROVE  \A d \in Clusters : ObjectInv(d)' /\ LeaseInv(d)'
<1>0. TypeOK /\ CacheIsPast
  BY DEF LeasesInv, SerialInv
<1> SUFFICES ASSUME NEW d \in Clusters PROVE ObjectInv(d)' /\ LeaseInv(d)'
  OBVIOUS
<1>d. ObjectInv(d) /\ LeaseInv(d) /\ InFlight(d)
  BY DEF LeasesInv, SerialInv
<1>1. CASE SyncConfigMap
  <2>1. Untouched(d) /\ cm' = cm /\ cmCached' = cm /\ kubeletCM' = kubeletCM
    BY <1>1 DEF SyncConfigMap, Untouched, objVars, recVars, memVars
  <2>2. QED
    BY <2>1, UntouchedKept
<1>2. CASE InitPortAllocatorConfig
  <2>1. Untouched(d) /\ cmCached' = cmCached
    BY <1>2 DEF InitPortAllocatorConfig, Untouched, objVars, recVars, cmVars
  <2>2. cm'.alloc = cm.alloc
    BY <1>0, <1>2 DEF InitPortAllocatorConfig, CacheIsPast, NotMade, EmptyCM, cmVars
  <2>3. pc[d] # "allocParse"
    BY <1>2, <1>d DEF InitPortAllocatorConfig, InFlight, InAllocator
  <2>4. QED
    BY <2>1, <2>2, <2>3, UntouchedKept
<1>3. CASE Restart
  <2>1. /\ cluster' = cluster /\ cached'[d] = cluster[d] /\ cm' = cm /\ cmCached' = cm
        /\ agentPort' = agentPort /\ pc'[d] = "idle" /\ ~copyFresh'[d] /\ local'[d] = NoLocal
        /\ local'[d].port = NoPort
    BY <1>3 DEF Restart, NoLocal
  <2>2. ObjectStep(d)
    BY <1>d, <2>1 DEF ObjectStep, ObjectInv, Deleted, Finalizing, DeallocSteps
  <2>3. LeaseStep(d)
    BY <2>1 DEF LeaseStep, Deleted
  <2>4. QED
    BY <1>d, <2>2, <2>3, ObjectsKept, LeaseKept
<1>4. QED
  BY <1>1, <1>2, <1>3

LEMMA NextLeases ==
    ASSUME MaxConcurrentReconciles = 1, NameReuse = FALSE, LeasesInv, [Next]_vars
    PROVE  LeasesInv'
<1>0. SerialInv' /\ TypeOK'
  BY NextSerial DEF LeasesInv, SerialInv
<1>1. CASE Next
  <2>1. \A d \in Clusters : ObjectInv(d)' /\ LeaseInv(d)'
    BY <1>0, <1>1, ObjectsLeases, StartLeases, ControllerLeases, AllocatorLeases, StoreLeases,
       SharedLeases DEF Next, Environment, ReconcileStep
  <2>2. QED
    BY <1>0, <2>1 DEF LeasesInv
<1>2. CASE UNCHANGED vars
  <2>1. \A d \in Clusters : Untouched(d) /\ cm' = cm /\ cmCached' = cmCached /\ kubeletCM' = kubeletCM
    BY <1>2 DEF vars, Untouched
  <2>2. QED
    BY <1>0, <2>1, UntouchedKept DEF LeasesInv
<1>3. QED
  BY <1>1, <1>2

\* When reconciles run one at a time and names are not used again, the port in the
\* status of a cluster that is not being deleted is the one the ConfigMap reserves for
\* it, although the two are written by separate calls, from copies that may be old.
THEOREM StatusIsReserved ==
    ASSUME MaxConcurrentReconciles = 1, NameReuse = FALSE
    PROVE  Spec => []StatusPortIsReserved
<1>1. LeasesInv /\ [Next]_vars => LeasesInv'
  BY NextLeases
<1>2. ASSUME LeasesInv PROVE StatusPortIsReserved
  <2> SUFFICES ASSUME NEW c \in Clusters, cluster[c].life = "live", cluster[c].port # NoPort
               PROVE  cm.alloc[c] = cluster[c].port
    BY DEF StatusPortIsReserved
  <2>1. cluster[c].port \in Ports
    BY <1>2 DEF LeasesInv, SerialInv, TypeOK, ClusterObjects, AnyPort
  <2>2. QED
    BY <1>2, <2>1 DEF LeasesInv, LeaseInv, Reserved, Deleted
<1>3. QED
  BY <1>1, <1>2, InitLeases, PTL DEF Spec

\* Under the same assumptions no two live clusters have agents on one port of the range:
\* an agent is deployed with the port a reconcile was given earlier, possibly before
\* other clusters came and went.
THEOREM AgentsApart ==
    ASSUME MaxConcurrentReconciles = 1, NameReuse = FALSE
    PROVE  Spec => []AgentsHaveOwnPort
<1>1. LeasesInv /\ [Next]_vars => LeasesInv'
  BY NextLeases
<1>2. ASSUME LeasesInv PROVE AgentsHaveOwnPort
  <2> SUFFICES ASSUME NEW c \in Clusters, NEW d \in Clusters, c # d,
                      cluster[c].life = "live", agentPort[c] \in Ports, cluster[d].life = "live",
                      agentPort[c] = agentPort[d]
               PROVE  FALSE
    BY DEF AgentsHaveOwnPort
  <2>1. cm.alloc[c] = agentPort[c] /\ cm.alloc[d] = agentPort[d]
    BY <1>2 DEF LeasesInv, LeaseInv, Reserved, Deleted
  <2>2. QED
    BY <1>2, <2>1, ConstantsAssumption DEF LeasesInv, SerialInv, BitmapMatchesMap
<1>3. QED
  BY <1>1, <1>2, InitLeases, PTL DEF Spec

\* Under the same assumptions no step takes the port of a live cluster away or replaces
\* it: the write of another reconcile, of one that read an old ConfigMap, or one whose
\* reply is lost.
THEOREM LeaseIsKept ==
    ASSUME MaxConcurrentReconciles = 1, NameReuse = FALSE
    PROVE  Spec => ReservationKept
<1>1. LeasesInv /\ [Next]_vars => LeasesInv'
  BY NextLeases
<1>2. ASSUME LeasesInv, Next, NEW c \in Clusters, cluster[c].life = "live", cm.alloc[c] # NoPort
      PROVE  cm'.alloc[c] = cm.alloc[c]
  <2>1. CASE cm' = cm
    BY <2>1
  <2>2. ASSUME NEW d \in Clusters, AllocUpdate(d) \/ FreeUpdate(d) \/ ReplyLost(d), cm' # cm
        PROVE  cm'.alloc[c] = cm.alloc[c]
    <3>1. pc[d] \in {"allocUpdate", "freeUpdate"} /\ UpdateAccepted /\ StoreConfigMap
      BY <2>2 DEF AllocUpdate, FreeUpdate, UpdateConfigMap, ReplyLost, cmVars
    <3>2. QED
      BY <1>2, <3>1, StoredLease DEF Deleted
  <2>3. CASE InitPortAllocatorConfig
    BY <1>2, <2>3 DEF LeasesInv, SerialInv, CacheIsPast, InitPortAllocatorConfig, NotMade, EmptyCM,
                      cmVars
  <2>4. \/ cm' = cm
        \/ \E d \in Clusters : AllocUpdate(d) \/ FreeUpdate(d) \/ ReplyLost(d)
        \/ InitPortAllocatorConfig
    <3>1. ASSUME NEW d \in Clusters, Environment(d), ~ReplyLost(d) PROVE cm' = cm
      BY <3>1 DEF Environment, CreateCluster, EditMirrorHostNodes, DeleteCluster, UserWrites,
                  OtherEvent, CallFails, cmVars
    <3>2. ASSUME NEW d \in Clusters, SyncCluster(d) \/ StartReconcile(d) PROVE cm' = cm
      BY <3>2 DEF SyncCluster, StartReconcile, cmVars
    <3>3. ASSUME NEW d \in Clusters, ReconcileStep(d), ~AllocUpdate(d), ~FreeUpdate(d)
          PROVE  cm' = cm
      BY <3>3 DEF ReconcileStep, AllocGet, FreeGet, GetOrCreate, AllocSave, FreeSave, SaveSnapshot,
                  AllocParse, FreeParse, AddFinalizer, RemoveFinalizer, UpdateCluster, UpdateStatus,
                  ReconcileUpToAgent, EnsureAgent, UnbindClusterRoles, cmVars
    <3>4. SyncConfigMap \/ Restart => cm' = cm
      BY DEF SyncConfigMap, Restart
    <3>5. QED
      BY <1>2, <3>1, <3>2, <3>3, <3>4 DEF Next
  <2>5. QED
    BY <2>1, <2>2, <2>3, <2>4
<1>3. LeasesInv /\ [Next]_vars =>
        [\A c \in Clusters :
            cluster[c].life = "live" /\ cm.alloc[c] # NoPort => cm'.alloc[c] = cm.alloc[c]]_vars
  BY <1>2
<1>4. QED
  BY <1>1, <1>3, InitLeases, PTL DEF Spec, ReservationKept
=============================================================================
