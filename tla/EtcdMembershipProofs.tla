----------------------- MODULE EtcdMembershipProofs -----------------------
(***************************************************************************)
(* Theorems about EtcdMembership, for any number of pods, addresses and    *)
(* faults: its types, that a running member stays, and that a pod leaves   *)
(* etcd before it loses its finalizer.                                     *)
(*                                                                         *)
(* The reconcile works on copies of pods, from a cache that may be behind. *)
(* What makes that safe is that the address tells two pods of one name     *)
(* apart, and that deletion is final.  The inductive invariant says so of  *)
(* every copy there is.                                                    *)
(***************************************************************************)
EXTENDS EtcdMembership, TLAPS

-----------------------------------------------------------------------------
(* The inductive invariant.                                                 *)

\* A pod that is not there has no address and no finalizer, one that is has an
\* address, which has been given out.
WellFormed(object) ==
    /\ object.life = "absent" => ~object.finalizer
    /\ object.life = "absent" <=> object.ip = None
    /\ object.ip \notin unused

\* A copy of the pod p: when it shows the same instance under deletion, then the
\* pod is under deletion.
CopyOf(p, object) ==
    /\ WellFormed(object)
    /\ object.ip = pod[p].ip /\ object.life = "deleting" => pod[p].life = "deleting"

PodInv(p) ==
    /\ WellFormed(pod[p])
    /\ CopyOf(p, seen[p])
    /\ CopyOf(p, rec.list[p])
    /\ p \in up => pod[p].life # "absent"

\* Members have addresses that were given out, and a member is removed on behalf of
\* a pod under deletion.
MembersInv ==
    /\ \A m \in members : m.ip \notin unused
    /\ rec.pc \in {"peer", "release"} => rec.at \in Pods /\ rec.list[rec.at].life = "deleting"

IInv == TypeOK /\ MembersInv /\ \A p \in Pods : PodInv(p)

\* What MemberLeavesFirst takes beyond that: a server that has joined is in the
\* cache, the pod about to be released has left, and pods are drained only when
\* their StatefulSet is being deleted.
ServersSeen == \A q \in up : Joined(q) => seen[q].ip = pod[q].ip
HasLeft     == rec.pc = "release" => Member(rec.at, rec.list[rec.at]) \notin members
DrainsLast  == stsSeen # "live" \/ rec.pc = "drain" => sts # "live"
LeavingInv  == ServersSeen /\ HasLeft /\ DrainsLast

-----------------------------------------------------------------------------
(* Copies of pods.                                                          *)

\* What a step may do to the pod p: change the same instance, for which deletion is
\* final; remove it when it does not run; or replace it by one with a new address.
PodEvolves(p) ==
    \/ /\ pod'[p].ip = pod[p].ip
       /\ pod[p].life = "deleting" => pod'[p].life = "deleting"
       /\ pod'[p].life = "absent" <=> pod[p].life = "absent"
       /\ pod'[p].life = "absent" => ~pod'[p].finalizer
    \/ pod'[p] = NoPod /\ p \notin up'
    \/ pod'[p].life = "live" /\ pod'[p].ip \in unused /\ pod'[p].ip \notin unused'

PodStep ==
    /\ unused' \subseteq unused
    /\ \A p \in Pods :
          /\ PodEvolves(p)
          /\ seen'[p] \in {seen[p], pod[p], pod'[p]}
          /\ rec'.list[p] \in {rec.list[p], seen[p], NoPod}
          /\ p \in up' => p \in up \/ pod'[p].ip \in unused

\* Every step of the system that is such a step for all pods keeps what the invariant
\* says about the copies of pods.
LEMMA PodsEvolve ==
    ASSUME IInv, TypeOK', PodStep
    PROVE  \A p \in Pods : PodInv(p)'
<1> SUFFICES ASSUME NEW p \in Pods
             PROVE  PodInv(p)'
    OBVIOUS
<1> USE MembershipAssumption DEF NoPod
<1>a. /\ PodInv(p) /\ PodEvolves(p)
      /\ pod[p] \in PodObjects /\ pod'[p] \in PodObjects
      /\ None \notin unused /\ unused' \subseteq unused
      BY DEF IInv, PodStep, TypeOK
<1>1. WellFormed(pod[p])'
      BY <1>a DEF PodInv, PodEvolves, WellFormed, PodObjects
<1>2. ASSUME NEW object, CopyOf(p, object)
      PROVE  CopyOf(p, object)'
      BY <1>a, <1>2 DEF PodInv, PodEvolves, WellFormed, CopyOf, PodObjects
<1>3. CopyOf(p, NoPod)
      BY <1>a DEF CopyOf, WellFormed
<1>4. CopyOf(p, pod[p])
      BY <1>a DEF CopyOf, PodInv
<1>5. CopyOf(p, seen[p]) /\ CopyOf(p, rec.list[p])
      BY <1>a DEF PodInv
<1>6. ASSUME NEW object, object = pod'[p]
      PROVE  CopyOf(p, object)'
      BY <1>1, <1>6 DEF CopyOf, WellFormed
<1>7. CopyOf(p, seen[p])'
  <2>1. \/ seen'[p] = seen[p] \/ seen'[p] = pod[p] \/ seen'[p] = pod'[p]
        BY DEF PodStep
  <2>2. ASSUME NEW object, object = seen'[p]
        PROVE  CopyOf(p, object)'
        BY <2>1, <2>2, <1>2, <1>4, <1>5, <1>6
  <2> QED BY <2>2 DEF CopyOf, WellFormed
<1>8. CopyOf(p, rec.list[p])'
  <2>1. \/ rec'.list[p] = rec.list[p] \/ rec'.list[p] = seen[p] \/ rec'.list[p] = NoPod
        BY DEF PodStep
  <2>2. ASSUME NEW object, object = rec'.list[p]
        PROVE  CopyOf(p, object)'
        BY <2>1, <2>2, <1>2, <1>3, <1>5
  <2> QED BY <2>2 DEF CopyOf, WellFormed
<1>9. (p \in up => pod[p].life # "absent")'
      BY <1>a DEF PodInv, PodEvolves, PodStep, PodObjects, WellFormed
<1> QED BY <1>1, <1>7, <1>8, <1>9 DEF PodInv

-----------------------------------------------------------------------------
(* The initial states.                                                      *)

LEMMA IdleType == Idle \in Reconciles /\ NoPod \in PodObjects
BY DEF Idle, NoPod, Reconciles, Steps, PodObjects

LEMMA InitInv == Init => IInv /\ LeavingInv
<1> SUFFICES ASSUME Init PROVE IInv /\ LeavingInv
    OBVIOUS
<1> USE MembershipAssumption
<1>1. Range(Established) = {Established[p] : p \in DOMAIN Established}
      BY DEF Range
<1>2. \A p \in Pods :
         pod[p] = IF p \in DOMAIN Established
                  THEN [life |-> "live", finalizer |-> etcd, ip |-> Established[p]]
                  ELSE NoPod
      BY DEF Init
<1>3. pod \in [Pods -> PodObjects]
      BY <1>2, IdleType DEF Init, PodObjects
<1>4. members \subseteq [name : Pods, ip : IPs]
      BY DEF Init
<1>5. TypeOK
      BY <1>3, <1>4, IdleType DEF Init, TypeOK, StsLives
<1>6. rec = Idle /\ rec.pc = "idle" /\ \A p \in Pods : rec.list[p] = NoPod
      BY DEF Init, Idle
<1>7. \A p \in DOMAIN Established : Established[p] \notin unused
      BY <1>1 DEF Init
<1>8. MembersInv
  <2>1. \A m \in members : m.name \in DOMAIN Established /\ m.ip = Established[m.name]
        BY DEF Init
  <2> QED BY <1>6, <1>7, <2>1 DEF MembersInv
<1>9. ASSUME NEW p \in Pods
      PROVE  PodInv(p)
  <2>1. WellFormed(NoPod)
        BY DEF WellFormed, NoPod, Init
  <2>2. WellFormed(pod[p])
    <3>1. CASE p \in DOMAIN Established
      <4>1. pod[p].life = "live" /\ pod[p].ip = Established[p]
        <5>1. pod[p] = [life |-> "live", finalizer |-> etcd, ip |-> Established[p]]
              BY <3>1, <1>2, Zenon
        <5>2. \A b \in BOOLEAN : \A object :
                 object = [life |-> "live", finalizer |-> b, ip |-> Established[p]]
                 => object.life = "live" /\ object.ip = Established[p]
              OBVIOUS
        <5>3. etcd \in BOOLEAN
              BY DEF Init
        <5> QED BY <5>1, <5>2, <5>3, Zenon
      <4>2. Established[p] # None /\ Established[p] \notin unused
            BY <3>1, <1>7
      <4> QED BY <4>1, <4>2 DEF WellFormed
    <3>2. CASE p \notin DOMAIN Established
          BY <3>2, <1>2, <2>1
    <3> QED BY <3>1, <3>2
  <2>3. seen[p] = pod[p]
        BY DEF Init
  <2>4. p \in up => pod[p].life # "absent"
        BY <1>2 DEF Init
  <2>5. CopyOf(p, rec.list[p])
        BY <1>6, <2>1 DEF CopyOf, NoPod
  <2>6. CopyOf(p, pod[p])
        BY <2>2 DEF CopyOf
  <2> QED BY <2>2, <2>3, <2>4, <2>5, <2>6 DEF PodInv
<1>10. LeavingInv
      BY <1>6 DEF LeavingInv, ServersSeen, HasLeft, DrainsLast, Init
<1> QED BY <1>5, <1>8, <1>9, <1>10 DEF IInv

-----------------------------------------------------------------------------
(* The host cluster and the watches.                                        *)

\* Pods and copies that stay as they are satisfy PodStep.
LEMMA SamePods ==
    ASSUME IInv,
           pod' = pod, seen' = seen, unused' \subseteq unused, up' \subseteq up,
           \A p \in Pods : rec'.list[p] \in {rec.list[p], seen[p], NoPod}
    PROVE  PodStep
BY DEF IInv, PodInv, WellFormed, PodStep, PodEvolves

\* The pods are created, join etcd, are deleted, stop and disappear.
LEMMA HostStep ==
    ASSUME IInv, NEW p \in Pods, Host(p)
    PROVE  TypeOK' /\ MembersInv' /\ PodStep
<1> USE MembershipAssumption
<1>t. TypeOK /\ MembersInv /\ \A q \in Pods : PodInv(q)
      BY DEF IInv
<1>1. CASE CreatePod(p)
  <2> DEFINE ip == CHOOSE ip \in unused : TRUE
             object == [life |-> "live", finalizer |-> FALSE, ip |-> ip]
  <2>1. ip \in unused
        BY <1>1 DEF CreatePod
  <2>2. /\ pod' = [pod EXCEPT ![p] = object] /\ seen' = seen /\ rec' = rec
        /\ unused' = unused \ {ip} /\ up' = up \cup {p}
        /\ etcd' = etcd /\ members' = members /\ sts' = sts /\ stsSeen' = stsSeen /\ faults' = faults
        BY <1>1 DEF CreatePod, WritePod, stsVars
  <2> HIDE DEF ip
  <2>3. object \in PodObjects
        BY <2>1, <1>t DEF TypeOK, PodObjects
  <2>4. TypeOK'
        BY <2>1, <2>2, <2>3, <1>t DEF TypeOK
  <2>5. MembersInv'
        BY <2>2, <1>t DEF MembersInv
  <2>6. PodStep
    <3>1. pod'[p] = object /\ \A q \in Pods \ {p} : pod'[q] = pod[q]
          BY <2>2, <1>t DEF TypeOK
    <3>2. PodEvolves(p)
          BY <2>1, <2>2, <3>1 DEF PodEvolves
    <3>3. \A q \in Pods \ {p} : PodEvolves(q)
          BY <3>1, <1>t DEF PodEvolves, PodInv, WellFormed
    <3> QED BY <2>1, <2>2, <3>1, <3>2, <3>3 DEF PodStep
  <2> QED BY <2>4, <2>5, <2>6
<1>2. CASE JoinEtcd(p)
  <2>1. /\ etcd' = etcd /\ up' = up /\ unused' = unused /\ pod' = pod /\ seen' = seen
        /\ sts' = sts /\ stsSeen' = stsSeen /\ rec' = rec /\ faults' = faults
        /\ p \in up
        BY <1>2 DEF JoinEtcd, hostVars, podVars, stsVars
  <2>2. \A m \in members' : m \in members \/ m = [name |-> p, ip |-> pod[p].ip]
        BY <1>2 DEF JoinEtcd, Member
  <2>3. pod[p].ip \in IPs /\ pod[p].ip \notin unused
        BY <2>1, <1>t DEF PodInv, WellFormed, TypeOK, PodObjects
  <2>4. members' \subseteq [name : Pods, ip : IPs]
        BY <2>2, <2>3, <1>t DEF TypeOK
  <2>5. TypeOK'
        BY <2>1, <2>4, <1>t DEF TypeOK
  <2>6. MembersInv'
        BY <2>1, <2>2, <2>3, <1>t DEF MembersInv
  <2> QED BY <2>1, <2>5, <2>6, SamePods
<1>3. CASE DeletePod(p)
  <2> DEFINE object == [pod[p] EXCEPT !.life = "deleting"]
  <2>1. /\ pod' = [pod EXCEPT ![p] = object] /\ seen' = seen /\ rec' = rec
        /\ unused' = unused /\ up' = up /\ pod[p].life = "live"
        /\ etcd' = etcd /\ members' = members /\ sts' = sts /\ stsSeen' = stsSeen /\ faults' = faults
        BY <1>3 DEF DeletePod, WritePod, stsVars, hostVars
  <2>2. object \in PodObjects
        BY <1>t DEF TypeOK, PodObjects
  <2>3. object.ip = pod[p].ip /\ object.life = "deleting"
        BY <1>t DEF TypeOK, PodObjects
  <2> HIDE DEF object
  <2>4. TypeOK'
        BY <2>1, <2>2, <1>t DEF TypeOK
  <2>5. MembersInv'
        BY <2>1, <1>t DEF MembersInv
  <2>6. PodStep
    <3>1. pod'[p] = object /\ \A q \in Pods \ {p} : pod'[q] = pod[q]
          BY <2>1, <1>t DEF TypeOK
    <3>2. \A q \in Pods : PodEvolves(q)
          BY <2>1, <2>3, <3>1, <1>t DEF PodEvolves, PodInv, WellFormed
    <3> QED BY <2>1, <3>2 DEF PodStep
  <2> QED BY <2>4, <2>5, <2>6
<1>4. CASE StopServer(p)
  <2>1. /\ pod' = pod /\ seen' = seen /\ rec' = rec /\ unused' = unused /\ up' = up \ {p}
        /\ etcd' = etcd /\ members' = members /\ sts' = sts /\ stsSeen' = stsSeen /\ faults' = faults
        BY <1>4 DEF StopServer, podVars, stsVars
  <2>2. TypeOK' /\ MembersInv'
        BY <2>1, <1>t DEF TypeOK, MembersInv
  <2> QED BY <2>1, <2>2, SamePods
<1>5. CASE RemovePod(p)
  <2>1. /\ pod' = [pod EXCEPT ![p] = NoPod] /\ seen' = seen /\ rec' = rec
        /\ unused' = unused /\ up' = up /\ p \notin up
        /\ etcd' = etcd /\ members' = members /\ sts' = sts /\ stsSeen' = stsSeen /\ faults' = faults
        BY <1>5 DEF RemovePod, WritePod, stsVars, hostVars
  <2>2. TypeOK' /\ MembersInv'
        BY <2>1, <1>t, IdleType DEF TypeOK, MembersInv
  <2>3. pod'[p] = NoPod /\ \A q \in Pods \ {p} : pod'[q] = pod[q]
        BY <2>1, <1>t DEF TypeOK
  <2>4. PodStep
        BY <2>1, <2>3, <1>t DEF PodStep, PodEvolves, PodInv, WellFormed
  <2> QED BY <2>2, <2>4
<1> QED BY <1>1, <1>2, <1>3, <1>4, <1>5 DEF Host

\* The user or the garbage collector deletes the StatefulSet, the watches deliver.
LEMMA WatchStep ==
    ASSUME IInv, DeleteSts \/ SyncSts \/ \E p \in Pods : SyncPod(p)
    PROVE  TypeOK' /\ MembersInv' /\ PodStep
<1>t. TypeOK /\ MembersInv /\ \A q \in Pods : PodInv(q)
      BY DEF IInv
<1>1. CASE DeleteSts \/ SyncSts
  <2>1. /\ pod' = pod /\ seen' = seen /\ rec' = rec /\ unused' = unused /\ up' = up
        /\ etcd' = etcd /\ members' = members /\ faults' = faults
        /\ sts' \in StsLives /\ stsSeen' \in StsLives
        BY <1>1, <1>t DEF DeleteSts, SyncSts, TypeOK, StsLives, podVars, hostVars
  <2>2. TypeOK' /\ MembersInv'
        BY <2>1, <1>t DEF TypeOK, MembersInv
  <2> QED BY <2>1, <2>2, SamePods
<1>2. ASSUME NEW p \in Pods, SyncPod(p)
      PROVE  TypeOK' /\ MembersInv' /\ PodStep
  <2>1. /\ pod' = pod /\ seen' = [seen EXCEPT ![p] = pod[p]] /\ rec' = rec
        /\ unused' = unused /\ up' = up
        /\ etcd' = etcd /\ members' = members /\ sts' = sts /\ stsSeen' = stsSeen /\ faults' = faults
        BY <1>2 DEF SyncPod, hostVars, stsVars
  <2>2. TypeOK' /\ MembersInv'
        BY <2>1, <1>t DEF TypeOK, MembersInv
  <2>3. \A q \in Pods : seen'[q] \in {seen[q], pod[q]}
        BY <2>1, <1>t DEF TypeOK
  <2>4. PodStep
        BY <2>1, <2>3, <1>t DEF PodStep, PodEvolves, PodInv, WellFormed
  <2> QED BY <2>2, <2>4
<1> QED BY <1>1, <1>2

-----------------------------------------------------------------------------
(* The reconcile.                                                           *)

\* What a reconcile step leaves alone but the pods, the member list and the
\* StatefulSet.
Steady == /\ etcd' = etcd /\ up' = up /\ unused' = unused /\ seen' = seen /\ stsSeen' = stsSeen
          /\ faults' \in Nat /\ sts' \in StsLives /\ members' \subseteq members

\* The reconcile ends, or goes on with its copies or without some of them.
RecEvolves ==
    /\ rec' \in Reconciles
    /\ \A q \in Pods : rec'.list[q] \in {rec.list[q], seen[q], NoPod}
    /\ rec'.pc \in {"peer", "release"} => rec'.at \in Pods /\ rec'.list[rec'.at].life = "deleting"

\* A reconcile that ends, or is started, satisfies RecEvolves.
LEMMA RecEnds ==
    ASSUME IInv
    PROVE  /\ Return => RecEvolves
           /\ \A todo \in SUBSET Pods, step \in {"pods", "drain"} : Start(step, todo) => RecEvolves
<1>t. TypeOK
      BY DEF IInv
<1>1. ASSUME Return
      PROVE  RecEvolves
      BY <1>1, IdleType DEF Return, RecEvolves, Idle
<1>2. ASSUME NEW todo \in SUBSET Pods, NEW step \in {"pods", "drain"}, Start(step, todo)
      PROVE  RecEvolves
  <2> DEFINE list == [p \in Pods |-> IF p \in todo THEN seen[p] ELSE NoPod]
  <2>1. list \in [Pods -> PodObjects]
        BY <1>t, IdleType DEF TypeOK
  <2>2. rec' = [pc |-> step, list |-> list, todo |-> todo, at |-> None]
        BY <1>2 DEF Start
  <2>3. \A q \in Pods : list[q] \in {rec.list[q], seen[q], NoPod}
        OBVIOUS
  <2> HIDE DEF list
  <2>4. rec' \in Reconciles
        BY <2>1, <2>2 DEF Reconciles, Steps
  <2> QED BY <2>2, <2>3, <2>4 DEF RecEvolves
<1> QED BY <1>1, <1>2

\* On to the next pod.
LEMMA RecGoesOn ==
    ASSUME IInv, NEW p \in Pods, NextPod(p)
    PROVE  RecEvolves
<1>t. rec \in Reconciles /\ seen \in [Pods -> PodObjects]
      BY DEF IInv, TypeOK
<1> DEFINE step == IF rec.pc = "drain" THEN "drain" ELSE "pods"
           list == [rec.list EXCEPT ![p] = NoPod]
<1>1. rec' = [rec EXCEPT !.pc = step, !.todo = @ \ {p}, !.at = None, !.list[p] = NoPod]
      BY DEF NextPod
<1>2. /\ rec'.pc = step /\ rec'.list = list /\ rec'.todo = rec.todo \ {p} /\ rec'.at = None
      BY <1>1, <1>t DEF Reconciles
<1>3. list \in [Pods -> PodObjects]
      BY <1>t, IdleType DEF Reconciles
<1>4. rec' = [pc |-> step, list |-> list, todo |-> rec.todo \ {p}, at |-> None]
      BY <1>1, <1>t DEF Reconciles
<1>5. rec' \in Reconciles
      BY <1>3, <1>4, <1>t DEF Reconciles, Steps
<1>6. \A q \in Pods : list[q] \in {rec.list[q], seen[q], NoPod}
      BY <1>t DEF Reconciles
<1> QED BY <1>2, <1>5, <1>6 DEF RecEvolves

\* An update of the pod p that keeps its address and its life.
LEMMA PodIsWritten ==
    ASSUME IInv, Steady, RecEvolves,
           NEW p \in Pods, NEW object \in PodObjects, pod[p].life # "absent",
           pod' = [pod EXCEPT ![p] = object],
           object.ip = pod[p].ip, object.life = pod[p].life
    PROVE  TypeOK' /\ MembersInv' /\ PodStep
<1>t. TypeOK /\ MembersInv /\ \A q \in Pods : PodInv(q)
      BY DEF IInv
<1>1. TypeOK'
      BY <1>t DEF TypeOK, Steady, RecEvolves
<1>2. MembersInv'
      BY <1>t DEF MembersInv, Steady, RecEvolves
<1>3. pod'[p] = object /\ \A q \in Pods \ {p} : pod'[q] = pod[q]
      BY <1>t DEF TypeOK
<1>4. \A q \in Pods : PodEvolves(q)
      BY <1>3, <1>t DEF PodEvolves, PodInv, WellFormed
<1>5. PodStep
      BY <1>4 DEF PodStep, Steady, RecEvolves
<1> QED BY <1>1, <1>2, <1>5

\* A step of the reconcile that writes no pod.
LEMMA NoPodIsWritten ==
    ASSUME IInv, Steady, RecEvolves, pod' = pod
    PROVE  TypeOK' /\ MembersInv' /\ PodStep
<1>1. TypeOK' /\ MembersInv'
      BY DEF IInv, TypeOK, MembersInv, Steady, RecEvolves
<1> QED BY <1>1, SamePods DEF Steady, RecEvolves

\* The three starts of a reconcile.
LEMMA StartStep ==
    ASSUME IInv, StartDeletion \/ ReleaseSinglePod \/ StartReconcile
    PROVE  TypeOK' /\ MembersInv' /\ PodStep
<1>t. TypeOK /\ \A q \in Pods : PodInv(q)
      BY DEF IInv
<1>1. CASE StartDeletion
  <2>1. Steady /\ pod' = pod
        BY <1>1, <1>t DEF StartDeletion, Steady, TypeOK, hostVars, podVars, stsVars
  <2>2. {p \in Listed : seen[p].finalizer} \in SUBSET Pods
        BY DEF Listed
  <2>3. RecEvolves
        BY <1>1, <2>2, RecEnds DEF StartDeletion
  <2> QED BY <2>1, <2>3, NoPodIsWritten
<1>2. CASE ReleaseSinglePod
  <2>1. PICK p \in Pods : SinglePod(p) /\ seen[p] = pod[p] /\ pod' = [pod EXCEPT ![p] = Released(pod[p])]
        BY <1>2 DEF ReleaseSinglePod, WritePod
  <2>2. Steady /\ rec' = rec
        BY <1>2, <1>t DEF ReleaseSinglePod, WritePod, Steady, TypeOK, hostVars, stsVars
  <2>3. RecEvolves
        BY <2>2 DEF RecEvolves, IInv, MembersInv, TypeOK
  <2>4. /\ Released(pod[p]) \in PodObjects
        /\ Released(pod[p]).ip = pod[p].ip /\ Released(pod[p]).life = pod[p].life
        BY <1>t DEF TypeOK, Released, PodObjects
  <2>5. pod[p].life # "absent"
        BY <2>1 DEF SinglePod
  <2> QED BY <2>1, <2>2, <2>3, <2>4, <2>5, PodIsWritten
<1>3. CASE StartReconcile
  <2>1. Steady /\ pod' = pod
        BY <1>3, <1>t DEF StartReconcile, Steady, TypeOK, hostVars, podVars, stsVars
  <2>2. {p \in Listed : seen[p].life = "deleting" \/ ~seen[p].finalizer} \in SUBSET Pods
        BY DEF Listed
  <2>3. RecEvolves
        BY <1>3, <2>2, RecEnds DEF StartReconcile
  <2> QED BY <2>1, <2>3, NoPodIsWritten
<1> QED BY <1>1, <1>2, <1>3

\* An update of the pod from the listed copy, which is refused unless it is current.
LEMMA UpdateStep ==
    ASSUME IInv, Steady, NEW p \in Pods, rec.list[p].life # "absent",
           NEW b \in BOOLEAN, UpdatePod(p, [pod[p] EXCEPT !.finalizer = b])
    PROVE  TypeOK' /\ MembersInv' /\ PodStep
<1>t. TypeOK
      BY DEF IInv
<1> DEFINE object == [pod[p] EXCEPT !.finalizer = b]
<1>1. object \in PodObjects /\ object.ip = pod[p].ip /\ object.life = pod[p].life
      BY <1>t DEF TypeOK, PodObjects
<1> HIDE DEF object
<1>2. CASE rec.list[p] = pod[p]
  <2>1. pod' = [pod EXCEPT ![p] = object] /\ NextPod(p)
        BY <1>2 DEF UpdatePod, WritePod, object
  <2>2. RecEvolves
        BY <2>1, RecGoesOn
  <2> QED BY <1>1, <1>2, <2>1, <2>2, PodIsWritten
<1>3. CASE rec.list[p] # pod[p]
  <2>1. pod' = pod /\ Return
        BY <1>3 DEF UpdatePod, podVars
  <2> QED BY <2>1, RecEnds, NoPodIsWritten
<1> QED BY <1>2, <1>3

\* The steps of handleServerPod and handleDeletion.
LEMMA ReconcileSteps ==
    ASSUME IInv, ReconcileStep
    PROVE  TypeOK' /\ MembersInv' /\ PodStep
<1>t. TypeOK /\ MembersInv /\ rec \in Reconciles
      BY DEF IInv, TypeOK
<1>1. CASE RemovePeer
  <2>1. pod' = pod /\ Steady
        BY <1>1, <1>t DEF RemovePeer, Steady, TypeOK, hostVars, podVars, stsVars
  <2>2. CASE RemovePeerFails(rec.at)
        BY <1>1, <2>1, <2>2, RecEnds, NoPodIsWritten DEF RemovePeer
  <2>3. CASE ~RemovePeerFails(rec.at)
    <3>1. rec' = [rec EXCEPT !.pc = "release"] /\ rec.pc = "peer"
          BY <1>1, <2>3 DEF RemovePeer
    <3>2. /\ rec' \in Reconciles /\ rec'.list = rec.list /\ rec'.at = rec.at
          BY <3>1, <1>t DEF Reconciles, Steps
    <3>3. RecEvolves
          BY <3>1, <3>2, <1>t DEF RecEvolves, MembersInv
    <3> QED BY <2>1, <3>3, NoPodIsWritten
  <2> QED BY <2>2, <2>3
<1>2. CASE ReleasePod
  <2>1. Steady /\ rec.at \in Pods /\ rec.list[rec.at].life = "deleting"
    <3>1. seen' = seen
          BY <1>2 DEF ReleasePod, UpdatePod, SkipPod, WritePod, podVars
    <3> QED BY <3>1, <1>2, <1>t DEF ReleasePod, Steady, TypeOK, MembersInv, hostVars, stsVars
  <2>2. CASE rec.list[rec.at].finalizer
        BY <1>2, <2>1, <2>2, UpdateStep DEF ReleasePod, Released
  <2>3. CASE ~rec.list[rec.at].finalizer
    <3>1. NextPod(rec.at) /\ pod' = pod
          BY <1>2, <2>3 DEF ReleasePod, SkipPod, podVars
    <3> QED BY <2>1, <3>1, RecGoesOn, NoPodIsWritten
  <2> QED BY <2>2, <2>3
<1>3. CASE PodsDone
  <2>1. pod' = pod /\ Steady
        BY <1>3, <1>t DEF PodsDone, Steady, TypeOK, hostVars, podVars, stsVars
  <2> QED BY <1>3, <2>1, RecEnds, NoPodIsWritten DEF PodsDone
<1>4. CASE RemoveStsFinalizer
  <2>1. pod' = pod /\ Steady
        BY <1>4, <1>t DEF RemoveStsFinalizer, Steady, TypeOK, StsLives, hostVars, podVars
  <2> QED BY <1>4, <2>1, RecEnds, NoPodIsWritten DEF RemoveStsFinalizer
<1>5. ASSUME NEW p \in Pods, HandleServerPod(p)
      PROVE  TypeOK' /\ MembersInv' /\ PodStep
  <2>1. Steady
    <3>1. seen' = seen
          BY <1>5 DEF HandleServerPod, UpdatePod, WritePod, podVars
    <3> QED BY <3>1, <1>5, <1>t DEF HandleServerPod, Steady, TypeOK, hostVars, stsVars
  <2>2. CASE rec.list[p].life = "live" /\ UpdatePod(p, [pod[p] EXCEPT !.finalizer = TRUE])
        BY <2>1, <2>2, UpdateStep
  <2>3. CASE /\ rec.list[p].life = "deleting"
             /\ rec' = [rec EXCEPT !.pc = StepForDeleted, !.at = p]
             /\ UNCHANGED podVars
    <3>1. /\ rec' \in Reconciles /\ rec'.list = rec.list /\ rec'.at = p /\ rec'.pc = "peer"
          BY <2>3, <1>t DEF Reconciles, Steps, StepForDeleted
    <3>2. RecEvolves
          BY <2>3, <3>1 DEF RecEvolves
    <3> QED BY <2>1, <2>3, <3>2, NoPodIsWritten DEF podVars
  <2> QED BY <1>5, <2>2, <2>3 DEF HandleServerPod
<1>6. ASSUME NEW p \in Pods, DrainPod(p)
      PROVE  TypeOK' /\ MembersInv' /\ PodStep
  <2>1. Steady
    <3>1. seen' = seen
          BY <1>6 DEF DrainPod, UpdatePod, WritePod, podVars
    <3> QED BY <3>1, <1>6, <1>t DEF DrainPod, Steady, TypeOK, hostVars, stsVars
  <2>2. CASE rec.list[p] # pod[p]
    <3>1. pod' = pod /\ Return
          BY <1>6, <2>2 DEF DrainPod, UpdatePod, podVars
    <3> QED BY <2>1, <3>1, RecEnds, NoPodIsWritten
  <2>3. CASE rec.list[p].life # "absent"
        BY <1>6, <2>1, <2>3, UpdateStep DEF DrainPod, Released
  <2>4. CASE rec.list[p] = pod[p] /\ pod[p].life = "absent"
    <3>1. pod' = [pod EXCEPT ![p] = Released(pod[p])] /\ NextPod(p)
          BY <1>6, <2>4 DEF DrainPod, UpdatePod, WritePod
    <3>2. ~pod[p].finalizer
          BY <2>4 DEF IInv, PodInv, WellFormed
    <3>3. pod' = pod
          BY <3>1, <3>2, <1>t DEF Released, TypeOK, PodObjects
    <3> QED BY <2>1, <3>1, <3>3, RecGoesOn, NoPodIsWritten
  <2> QED BY <2>2, <2>3, <2>4
<1> QED BY <1>1, <1>2, <1>3, <1>4, <1>5, <1>6 DEF ReconcileStep

\* Failed calls, lost replies and restarts.
LEMMA FaultStep ==
    ASSUME IInv, CallFails \/ ReplyLost \/ Restart
    PROVE  TypeOK' /\ MembersInv' /\ PodStep
<1>t. TypeOK /\ MembersInv /\ rec \in Reconciles /\ \A q \in Pods : PodInv(q)
      BY DEF IInv, TypeOK
<1>1. CASE CallFails
  <2>1. pod' = pod /\ Steady
        BY <1>1, <1>t DEF CallFails, Disturb, Steady, TypeOK, hostVars, podVars, stsVars
  <2> QED BY <1>1, <2>1, RecEnds, NoPodIsWritten DEF CallFails
<1>2. CASE ReplyLost
  <2>1. Steady
    <3>1. seen' = seen
          BY <1>2 DEF ReplyLost, WritePod, podVars
    <3> QED BY <3>1, <1>2, <1>t DEF ReplyLost, Disturb, Steady, TypeOK, hostVars, stsVars
  <2>2. RecEvolves
        BY <1>2, RecEnds DEF ReplyLost
  <2>3. CASE pod' = pod
        BY <2>1, <2>2, <2>3, NoPodIsWritten
  <2>4. CASE /\ rec.pc = "release" /\ rec.list[rec.at] = pod[rec.at]
             /\ WritePod(rec.at, Released(pod[rec.at]))
    <3>1. rec.at \in Pods /\ pod[rec.at].life = "deleting"
          BY <2>4, <1>t DEF MembersInv
    <3>2. /\ Released(pod[rec.at]) \in PodObjects
          /\ Released(pod[rec.at]).ip = pod[rec.at].ip
          /\ Released(pod[rec.at]).life = pod[rec.at].life
      <4>1. pod[rec.at] \in PodObjects
            BY <3>1, <1>t DEF TypeOK
      <4>2. \A o \in PodObjects :
              Released(o) \in PodObjects /\ Released(o).ip = o.ip /\ Released(o).life = o.life
            BY DEF Released, PodObjects
      <4> QED BY <4>1, <4>2
    <3>3. pod' = [pod EXCEPT ![rec.at] = Released(pod[rec.at])]
          BY <2>4 DEF WritePod
    <3> QED BY <2>1, <2>2, <3>1, <3>2, <3>3, PodIsWritten
  <2> QED BY <1>2, <2>3, <2>4 DEF ReplyLost, podVars
<1>3. CASE Restart
  <2>1. /\ pod' = pod /\ seen' = pod /\ rec' = Idle /\ unused' = unused /\ up' = up
        /\ etcd' = etcd /\ members' = members /\ sts' = sts /\ stsSeen' = sts /\ faults' \in Nat
        BY <1>3, <1>t DEF Restart, Disturb, TypeOK, hostVars
  <2>2. rec'.pc = "idle" /\ \A q \in Pods : rec'.list[q] = NoPod
        BY <2>1 DEF Idle
  <2>3. TypeOK' /\ MembersInv'
        BY <2>1, <2>2, <1>t, IdleType DEF TypeOK, MembersInv
  <2>4. PodStep
        BY <2>1, <2>2, <1>t DEF PodStep, PodEvolves, PodInv, WellFormed
  <2> QED BY <2>3, <2>4
<1> QED BY <1>1, <1>2, <1>3

LEMMA NextInv == IInv /\ [Next]_vars => IInv'
<1> SUFFICES ASSUME IInv, [Next]_vars PROVE IInv'
    OBVIOUS
<1>1. CASE Next
  <2>1. TypeOK' /\ MembersInv' /\ PodStep
        BY <1>1, HostStep, WatchStep, StartStep, ReconcileSteps, FaultStep DEF Next
  <2> QED BY <2>1, PodsEvolve DEF IInv
<1>2. CASE UNCHANGED vars
      BY <1>2 DEF vars, IInv, TypeOK, MembersInv, PodInv, WellFormed, CopyOf
<1> QED BY <1>1, <1>2

\* The membership controller, the StatefulSet, its pods and the etcd member list keep
\* the types of their state, however late a cache or a server is: members have the
\* name of a pod and an address, and a reconcile works on copies of pods.
THEOREM TypeCorrect == Spec => []TypeOK
<1>1. Init => IInv
      BY InitInv
<1>2. IInv => TypeOK
      BY DEF IInv
<1> QED BY <1>1, <1>2, NextInv, PTL DEF Spec

-----------------------------------------------------------------------------
(* RunningMemberStays.                                                      *)

\* A step removes a member on behalf of a pod under deletion, or for a newer one.
LEMMA MembersShrink ==
    ASSUME IInv, Next
    PROVE  \/ members' = members
           \/ \E p \in Pods : JoinEtcd(p)
           \/ /\ rec.pc = "peer" /\ members' = members \ Peers(rec.at) /\ pod' = pod
BY DEF Next, Host, SyncPod, CreatePod, DeletePod, StopServer, RemovePod, DeleteSts, SyncSts,
       StartDeletion, ReleaseSinglePod, StartReconcile, ReconcileStep, RemovePeer, ReleasePod,
       PodsDone, RemoveStsFinalizer, HandleServerPod, DrainPod, CallFails, ReplyLost, Restart,
       podVars

LEMMA StepKeepsMember ==
    ASSUME IInv, Next, NEW p \in Pods, pod[p].life = "live", Joined(p)
    PROVE  Member(p, pod[p]) \in members'
<1>1. CASE members' = members
      BY <1>1 DEF Joined
<1>2. ASSUME NEW q \in Pods, JoinEtcd(q)
      PROVE  Member(p, pod[p]) \in members'
  <2>1. q # p
        BY <1>2 DEF JoinEtcd
  <2>2. Member(p, pod[p]).name = p
        BY DEF Member
  <2> QED BY <1>2, <2>1, <2>2 DEF JoinEtcd, Joined
<1>3. CASE rec.pc = "peer" /\ members' = members \ Peers(rec.at)
  <2>1. rec.at \in Pods /\ rec.list[rec.at].life = "deleting"
        BY <1>3 DEF IInv, MembersInv
  <2>2. CopyOf(rec.at, rec.list[rec.at])
        BY <2>1 DEF IInv, PodInv
  <2>3. Member(p, pod[p]).name = p /\ Member(p, pod[p]).ip = pod[p].ip
        BY DEF Member
  <2>4. Member(p, pod[p]) \notin Peers(rec.at)
        BY <2>1, <2>2, <2>3 DEF Peers, CopyOf
  <2> QED BY <1>3, <2>4 DEF Joined
<1> QED BY <1>1, <1>2, <1>3, MembersShrink

\* removePeer compares name and address with a copy of the pod that may be old, and
\* still no pod that is not being deleted loses its membership: not to a reconcile
\* that works for a predecessor of the same name, nor to one whose call is retried.
THEOREM MemberStays == Spec => RunningMemberStays
<1>1. Init => IInv
      BY InitInv
<1>2. IInv /\ [Next]_vars =>
        [\A p \in Pods : pod[p].life = "live" /\ Joined(p) => Member(p, pod[p]) \in members']_vars
      BY StepKeepsMember
<1> QED BY <1>1, <1>2, NextInv, PTL DEF Spec, RunningMemberStays

-----------------------------------------------------------------------------
(* MemberLeavesFirst, when no server joins behind the controller's back.    *)

\* A server that runs and has joined is in the cache: the step of the pods and the
\* caches that keeps it.
LEMMA ServersStaySeen ==
    ASSUME IInv, ServersSeen, PodStep, members' \subseteq members, TypeOK'
    PROVE  ServersSeen'
<1> SUFFICES ASSUME NEW q \in up', Joined(q)'
             PROVE  seen'[q].ip = pod'[q].ip
    BY DEF ServersSeen
<1> USE MembershipAssumption
<1>1. q \in Pods /\ PodInv(q) /\ PodEvolves(q)
      BY DEF IInv, PodStep, TypeOK
<1>2. Member(q, pod'[q]) \in members /\ Member(q, pod'[q]).ip = pod'[q].ip
      BY DEF Joined, Member
<1>3. pod'[q].ip \notin unused
      BY <1>2 DEF IInv, MembersInv
<1>4. pod'[q].ip # None
      BY <1>2 DEF IInv, TypeOK
<1>5. pod'[q].ip = pod[q].ip
      BY <1>1, <1>3, <1>4 DEF PodEvolves, NoPod
<1>6. q \in up /\ seen'[q] \in {seen[q], pod[q], pod'[q]}
      BY <1>1, <1>3 DEF PodStep
<1>7. Joined(q)
      BY <1>2, <1>5 DEF Joined, Member
<1> QED BY <1>5, <1>6, <1>7 DEF ServersSeen

\* Where a step leads the reconcile.
LEMMA RecGoes ==
    ASSUME IInv, Next
    PROVE  \/ rec' = rec
           \/ rec'.pc \in {"idle", "pods", "peer"}
           \/ rec'.pc = "drain" /\ (rec.pc = "drain" \/ stsSeen = "deleting")
           \/ /\ rec.pc = "peer" /\ rec' = [rec EXCEPT !.pc = "release"]
              /\ members' = members \ Peers(rec.at)
<1>t. rec \in Reconciles
      BY DEF IInv, TypeOK
<1>1. Return => rec'.pc = "idle"
      BY DEF Return, Idle
<1>2. ASSUME NEW p, NextPod(p)
      PROVE  rec'.pc = "pods" \/ (rec'.pc = "drain" /\ rec.pc = "drain")
      BY <1>2, <1>t DEF NextPod, Reconciles
<1>3. ASSUME NEW p, NEW object, UpdatePod(p, object)
      PROVE  rec'.pc \in {"idle", "pods"} \/ (rec'.pc = "drain" /\ rec.pc = "drain")
      BY <1>1, <1>2, <1>3 DEF UpdatePod
<1>4. CASE (\E p \in Pods : Host(p) \/ SyncPod(p)) \/ DeleteSts \/ SyncSts \/ ReleaseSinglePod
      BY <1>4 DEF Host, CreatePod, JoinEtcd, DeletePod, StopServer, RemovePod, SyncPod, DeleteSts,
                  SyncSts, ReleaseSinglePod
<1>5. CASE StartDeletion
      BY <1>5 DEF StartDeletion, Start, IsDeleting
<1>6. CASE StartReconcile
      BY <1>6 DEF StartReconcile, Start
<1>7. CASE RemovePeer
      BY <1>7, <1>1 DEF RemovePeer
<1>8. CASE ReleasePod
      BY <1>8, <1>2, <1>3 DEF ReleasePod, SkipPod
<1>9. CASE PodsDone \/ RemoveStsFinalizer \/ CallFails \/ ReplyLost
      BY <1>9, <1>1 DEF PodsDone, RemoveStsFinalizer, CallFails, ReplyLost
<1>10. CASE Restart
      BY <1>10 DEF Restart, Idle
<1>11. ASSUME NEW p \in Pods, HandleServerPod(p)
       PROVE  rec'.pc \in {"idle", "pods", "peer"} \/ (rec'.pc = "drain" /\ rec.pc = "drain")
  <2>1. rec' = [rec EXCEPT !.pc = StepForDeleted, !.at = p] => rec'.pc = "peer"
        BY <1>t DEF StepForDeleted, Reconciles
  <2> QED BY <1>3, <1>11, <2>1 DEF HandleServerPod
<1>12. ASSUME NEW p \in Pods, DrainPod(p)
       PROVE  rec'.pc \in {"idle", "pods"} \/ (rec'.pc = "drain" /\ rec.pc = "drain")
      BY <1>3, <1>12 DEF DrainPod
<1> QED BY <1>4, <1>5, <1>6, <1>7, <1>8, <1>9, <1>10, <1>11, <1>12 DEF Next, ReconcileStep

\* A step joins a server to etcd, or the member list does not grow.
LEMMA MembersGrow ==
    ASSUME IInv, Next
    PROVE  members' \subseteq members \/ \E p \in Pods : JoinEtcd(p)
BY MembersShrink

\* The StatefulSet: once deleted, for good, and the cache follows.
LEMMA StsGoes ==
    ASSUME IInv, Next
    PROVE  /\ sts' = "live" => sts = "live"
           /\ stsSeen' \in {stsSeen, sts}
           /\ sts' = "live" => stsSeen' \in {stsSeen, "live"}
BY DEF Next, Host, SyncPod, CreatePod, JoinEtcd, DeletePod, StopServer, RemovePod, DeleteSts,
       SyncSts, StartDeletion, ReleaseSinglePod, StartReconcile, ReconcileStep, RemovePeer,
       ReleasePod, PodsDone, RemoveStsFinalizer, HandleServerPod, DrainPod, CallFails, ReplyLost,
       Restart, stsVars

\* A server joins etcd once its pod is in the cache, and only if it is not deleted.
LEMMA JoinKeepsLeaving ==
    ASSUME Late = {}, IInv, LeavingInv, NEW p \in Pods, JoinEtcd(p)
    PROVE  ServersSeen' /\ HasLeft'
<1>1. /\ seen[p].ip = pod[p].ip /\ pod[p].life = "live"
      /\ up' = up /\ pod' = pod /\ seen' = seen /\ rec' = rec
      /\ \A m \in members' : m \in members \/ m = Member(p, pod[p])
      BY DEF JoinEtcd, hostVars, podVars
<1>2. ServersSeen'
  <2> SUFFICES ASSUME NEW q \in up, Member(q, pod[q]) \in members'
               PROVE  seen[q].ip = pod[q].ip
      BY <1>1 DEF ServersSeen, Joined
  <2>1. CASE q = p
        BY <1>1, <2>1
  <2>2. CASE Member(q, pod[q]) \in members
        BY <2>2 DEF LeavingInv, ServersSeen, Joined
  <2> QED BY <1>1, <2>1, <2>2 DEF Member
<1>3. HasLeft'
  <2> SUFFICES ASSUME rec.pc = "release"
               PROVE  Member(rec.at, rec.list[rec.at]) \notin members'
      BY <1>1 DEF HasLeft
  <2>1. /\ rec.at \in Pods /\ rec.list[rec.at].life = "deleting"
        /\ CopyOf(rec.at, rec.list[rec.at])
        BY DEF IInv, MembersInv, PodInv
  <2>2. Member(rec.at, rec.list[rec.at]) # Member(p, pod[p])
        BY <1>1, <2>1 DEF Member, CopyOf
  <2> QED BY <1>1, <2>2 DEF LeavingInv, HasLeft
<1> QED BY <1>2, <1>3

LEMMA NextLeaving ==
    ASSUME Late = {}
    PROVE  IInv /\ LeavingInv /\ [Next]_vars => LeavingInv'
<1> SUFFICES ASSUME IInv, LeavingInv, [Next]_vars PROVE LeavingInv'
    OBVIOUS
<1>1. CASE Next
  <2>1. TypeOK' /\ PodStep /\ IInv'
        BY <1>1, NextInv, HostStep, WatchStep, StartStep, ReconcileSteps, FaultStep DEF Next
  <2>2. DrainsLast'
    <3>1. rec' = [rec EXCEPT !.pc = "release"] => rec'.pc = "release"
          BY DEF IInv, TypeOK, Reconciles
    <3>2. rec'.pc = "drain" => rec.pc = "drain" \/ stsSeen = "deleting"
          BY <1>1, <3>1, RecGoes
    <3> QED BY <1>1, <3>2, StsGoes DEF LeavingInv, DrainsLast
  <2>3. ASSUME members' \subseteq members
        PROVE  ServersSeen' /\ HasLeft'
    <3>1. ServersSeen'
          BY <2>1, <2>3, ServersStaySeen DEF LeavingInv
    <3>2. CASE rec' = rec
          BY <2>3, <3>1, <3>2 DEF HasLeft, LeavingInv, Member
    <3>3. CASE rec'.pc # "release"
          BY <3>1, <3>3 DEF HasLeft, Member
    <3>4. CASE /\ rec.pc = "peer" /\ rec' = [rec EXCEPT !.pc = "release"]
               /\ members' = members \ Peers(rec.at)
      <4>1. rec'.at = rec.at /\ rec'.list = rec.list
            BY <3>4 DEF IInv, TypeOK, Reconciles
      <4>2. Member(rec.at, rec.list[rec.at]) \notin members'
            BY <3>4 DEF Member, Peers
      <4> QED BY <3>1, <4>1, <4>2 DEF HasLeft, Member
    <3> QED BY <1>1, <3>1, <3>2, <3>3, <3>4, RecGoes
  <2>4. ASSUME NEW p \in Pods, JoinEtcd(p)
        PROVE  ServersSeen' /\ HasLeft'
        BY <2>4, JoinKeepsLeaving
  <2> QED BY <1>1, <2>2, <2>3, <2>4, MembersGrow DEF LeavingInv
<1>2. CASE UNCHANGED vars
      BY <1>2 DEF vars, LeavingInv, ServersSeen, HasLeft, DrainsLast, Joined, Member
<1> QED BY <1>1, <1>2

\* The steps that take a finalizer from a pod, while the StatefulSet stays.
LEMMA FinalizerGoes ==
    ASSUME IInv, LeavingInv, Next, NEW p \in Pods,
           pod[p].finalizer, ~pod'[p].finalizer, sts = "live"
    PROVE  \/ SinglePod(p) /\ members' = members
           \/ /\ rec.pc = "release" /\ rec.at = p /\ rec.list[p] = pod[p]
              /\ members' = members
<1>t. pod \in [Pods -> PodObjects] /\ rec \in Reconciles
      BY DEF IInv, TypeOK
<1>1. ASSUME NEW q \in Pods, NEW object, UpdatePod(q, object), pod' # pod
      PROVE  pod' = [pod EXCEPT ![q] = object] /\ rec.list[q] = pod[q]
      BY <1>1 DEF UpdatePod, WritePod, podVars
<1>2. pod' # pod
      OBVIOUS
<1>3. ASSUME NEW q \in Pods, Host(q)
      PROVE  FALSE
  <2>1. CASE CreatePod(q)
        BY <2>1, <1>t DEF CreatePod, WritePod, IInv, PodInv, WellFormed
  <2>2. CASE JoinEtcd(q) \/ StopServer(q)
        BY <2>2, <1>2 DEF JoinEtcd, StopServer, podVars
  <2>3. CASE DeletePod(q)
        BY <2>3, <1>t DEF DeletePod, WritePod, PodObjects
  <2>4. CASE RemovePod(q)
        BY <2>4, <1>t DEF RemovePod, WritePod
  <2> QED BY <1>3, <2>1, <2>2, <2>3, <2>4 DEF Host
<1>4. CASE ReleaseSinglePod
  <2>1. PICK q \in Pods : SinglePod(q) /\ pod' = [pod EXCEPT ![q] = Released(pod[q])]
        BY <1>4 DEF ReleaseSinglePod, WritePod
  <2>2. q = p
        BY <2>1, <1>t
  <2> QED BY <1>4, <2>1, <2>2 DEF ReleaseSinglePod
<1>5. CASE ReleasePod
  <2>1. rec.at \in Pods /\ rec.pc = "release" /\ members' = members
        BY <1>5 DEF ReleasePod, IInv, MembersInv
  <2>2. UpdatePod(rec.at, Released(pod[rec.at]))
        BY <1>2, <1>5 DEF ReleasePod, SkipPod, podVars
  <2>3. pod' = [pod EXCEPT ![rec.at] = Released(pod[rec.at])] /\ rec.list[rec.at] = pod[rec.at]
        BY <1>1, <1>2, <2>1, <2>2
  <2>4. rec.at = p
        BY <2>1, <2>3, <1>t
  <2> QED BY <2>1, <2>3, <2>4
<1>6. CASE ReplyLost
  <2>1. /\ rec.pc = "release" /\ rec.list[rec.at] = pod[rec.at] /\ members' = members
        /\ pod' = [pod EXCEPT ![rec.at] = Released(pod[rec.at])]
        BY <1>2, <1>6 DEF ReplyLost, WritePod, podVars
  <2>2. rec.at \in Pods
        BY <2>1 DEF IInv, MembersInv
  <2>3. rec.at = p
        BY <2>1, <2>2, <1>t
  <2> QED BY <2>1, <2>3
<1>7. ASSUME NEW q \in Pods, HandleServerPod(q)
      PROVE  FALSE
  <2>1. UpdatePod(q, [pod[q] EXCEPT !.finalizer = TRUE])
        BY <1>2, <1>7 DEF HandleServerPod, podVars
  <2>2. pod' = [pod EXCEPT ![q] = [pod[q] EXCEPT !.finalizer = TRUE]]
        BY <1>1, <1>2, <2>1
  <2> QED BY <2>2, <1>t DEF PodObjects
<1>8. ASSUME NEW q \in Pods, DrainPod(q)
      PROVE  FALSE
      BY <1>8 DEF DrainPod, LeavingInv, DrainsLast
<1>9. CASE \/ (\E q \in Pods : SyncPod(q)) \/ DeleteSts \/ SyncSts \/ StartDeletion \/ StartReconcile
           \/ RemovePeer \/ PodsDone \/ RemoveStsFinalizer \/ CallFails \/ Restart
      BY <1>2, <1>9 DEF SyncPod, DeleteSts, SyncSts, StartDeletion, StartReconcile, RemovePeer,
                        PodsDone, RemoveStsFinalizer, CallFails, Restart, podVars
<1> QED BY <1>3, <1>4, <1>5, <1>6, <1>7, <1>8, <1>9 DEF Next, ReconcileStep

LEMMA StepLeavesFirst ==
    ASSUME IInv, LeavingInv, Next, NEW p \in Pods,
           pod[p].finalizer, ~pod'[p].finalizer, sts = "live",
           NEW q \in Pods \ {p}, q \in up, Joined(q)
    PROVE  Member(p, pod[p]) \notin members'
<1>1. CASE SinglePod(p)
  <2>1. seen[q].ip = pod[q].ip
        BY DEF LeavingInv, ServersSeen
  <2>2. seen[q].life # "absent"
        BY <2>1 DEF IInv, PodInv, CopyOf, WellFormed
  <2> QED BY <1>1, <2>2 DEF SinglePod, Listed
<1>2. CASE /\ rec.pc = "release" /\ rec.at = p /\ rec.list[p] = pod[p]
           /\ members' = members
      BY <1>2 DEF LeavingInv, HasLeft
<1> QED BY <1>1, <1>2, FinalizerGoes

\* While another member runs, a pod loses its finalizer only after it has left the
\* member list, unless the whole StatefulSet goes: neither a retried call, nor a lost
\* reply, nor the shortcut for a single pod on an old list lets it slip away.  The
\* hypothesis says that a server joins only after its pod was seen and not after it
\* was deleted; TLC refutes the property without either half of it.
THEOREM PodLeavesFirst ==
    ASSUME Late = {}
    PROVE  Spec => MemberLeavesFirst
<1>1. Init => IInv /\ LeavingInv
      BY InitInv
<1>2. IInv /\ LeavingInv /\ [Next]_vars => (IInv /\ LeavingInv)'
      BY NextInv, NextLeaving
<1>3. IInv /\ LeavingInv /\ [Next]_vars =>
        [\A p \in Pods :
          /\ pod[p].finalizer /\ ~pod'[p].finalizer
          /\ sts = "live"
          /\ \E q \in Pods \ {p} : q \in up /\ Joined(q)
          => Member(p, pod[p]) \notin members']_vars
      BY StepLeavesFirst
<1> QED BY <1>1, <1>2, <1>3, PTL DEF Spec, MemberLeavesFirst
=============================================================================
