------------------------ MODULE PolicyBindingProofs ------------------------
(***************************************************************************)
(* Theorems about PolicyBinding, for any policies, namespaces and Clusters *)
(* and any number of edits and faults: its types, and that the binding of  *)
(* a namespace is its users'.                                              *)
(*                                                                         *)
(* The controller writes whole namespaces from copies it listed earlier.   *)
(* That keeps the users' label because a copy that is accepted is the      *)
(* current one, and because only the reconcile of a policy under deletion, *)
(* and only in a namespace listed for that policy, removes the label.      *)
(***************************************************************************)
EXTENDS PolicyBinding, TLAPS

-----------------------------------------------------------------------------
(* The inductive invariant, a conjunct for each group of variables.         *)

PolicyDeleted(object) == object.life \in {"deleting", "gone"}

\* A cached copy of a policy is no newer than the policy.
PolicyInv ==
    /\ policy \in [Policies -> PolicyObjects] /\ policyCached \in [Policies -> PolicyObjects]
    /\ policyFresh \in [Policies -> BOOLEAN]
    /\ \A p \in Policies : policyCached[p].life = "deleting" => PolicyDeleted(policy[p])

\* A cached namespace that is marked current is current.
NamespaceInv ==
    /\ namespace \in [Namespaces -> NamespaceObjects]
    /\ namespaceCached \in [Namespaces -> NamespaceObjects]
    /\ namespaceFresh \in [Namespaces -> BOOLEAN]
    /\ \A n \in Namespaces : namespaceFresh[n] => namespaceCached[n] = namespace[n]

ClusterInv ==
    /\ applied \in [Clusters -> ClusterObjects] /\ appliedCached \in [Clusters -> ClusterObjects]
    /\ clusterEvent \in [Clusters -> {"none", "status", "spec"}]

OwnedInv ==
    /\ owned \in [Namespaces -> [Policies -> [Kinds -> Values \cup {None}]]]
    /\ ownedEvents \subseteq Policies

BoundInv ==
    /\ podCIDR \in Values
    /\ bindings \in 0 .. MaxBindings /\ changes \in 0 .. MaxChanges

QueueInv == queue \subseteq Policies

\* The steps at one of the listed namespaces, and those of finalizePolicy.
LoopSteps     == {"objects", "clusters", "namespace", "cleanup", "release"}
FinalizeSteps == {"terminating", "release", "removeFinalizer"}

\* Listed copies that are marked current are, given the namespaces ns.
TrueCopies(left, ns) == \A n \in DOMAIN left : left[n].fresh => left[n].object = ns[n]

\* r is what a reconcile of p may be, given the namespaces ns and the policies ps.
RecInv(p, r, ns, ps) ==
    /\ r \in Reconciles
    /\ r.pc \in LoopSteps => r.at \in DOMAIN r.left
    /\ TrueCopies(r.left, ns)
    /\ r.pc = "release" => \A n \in DOMAIN r.left : r.left[n].object.label = p
    /\ r.pc \in FinalizeSteps => PolicyDeleted(ps[p])

RecsInv ==
    /\ rec \in [Policies -> Reconciles]
    /\ \A p \in Policies : RecInv(p, rec[p], namespace, policy)

IInv == PolicyInv /\ NamespaceInv /\ ClusterInv /\ OwnedInv /\ BoundInv /\ QueueInv /\ RecsInv

\* Deletion is final.
DeletionFinal == \A p \in Policies : PolicyDeleted(policy[p]) => PolicyDeleted(policy'[p])

\* What BindingIsUsers says of a step.
LabelsKept ==
    \A n \in Namespaces :
        namespace'[n].label # namespace[n].label /\ bindings' = bindings =>
            /\ namespace'[n].label = None
            /\ policy[namespace[n].label].life \in {"deleting", "gone"}

-----------------------------------------------------------------------------
(* Types.                                                                   *)

Lefts == UNION {[S -> ListedNamespaces] : S \in SUBSET Namespaces}

LEMMA LeftsFunctions ==
    ASSUME NEW f
    PROVE  /\ f \in Lefts => DOMAIN f \subseteq Namespaces /\ f \in [DOMAIN f -> ListedNamespaces]
           /\ \A S \in SUBSET Namespaces : f \in [S -> ListedNamespaces] => f \in Lefts
BY DEF Lefts

LEMMA ReconcilesLefts ==
    Reconciles = [pc : Steps, copy : PolicyObjects, fresh : BOOLEAN, left : Lefts,
                  at : Namespaces \cup {None}]
BY DEF Reconciles, Lefts

LEMMA IInvTypes == IInv => TypeOK
BY DEF IInv, PolicyInv, NamespaceInv, ClusterInv, OwnedInv, BoundInv, QueueInv, RecsInv, TypeOK

LEMMA Constants ==
    /\ Specs \subseteq SpecRecords
    /\ (CHOOSE s \in Specs : TRUE) \in Specs
    /\ (CHOOSE v \in Values : TRUE) \in Values
    /\ \A s \in Specs : /\ s.quota \in Values \cup {None} /\ s.limit \in Values \cup {None}
                        /\ s.psa \in Values \cup {None} /\ s.defaults \in Values
<1>1. PICK s \in Specs : TRUE
  BY PolicyAssumption
<1>2. s.defaults \in Values
  BY <1>1, PolicyAssumption DEF SpecRecords
<1> QED
  BY <1>1, <1>2, PolicyAssumption DEF SpecRecords

LEMMA IdleCopy == Idle.copy \in PolicyObjects
BY Constants DEF Idle, PolicyObjects, Life

LEMMA IdleRec ==
    /\ Idle \in Reconciles
    /\ \A p, ns, ps : RecInv(p, Idle, ns, ps)
<1>1. NoNamespaces \in Lefts /\ DOMAIN NoNamespaces = {}
  BY LeftsFunctions DEF NoNamespaces
<1>2. Idle \in Reconciles
  BY <1>1, IdleCopy, ReconcilesLefts DEF Idle, Steps
<1> QED
  BY <1>1, <1>2 DEF Idle, RecInv, TrueCopies, LoopSteps, FinalizeSteps

LEMMA WantedType ==
    ASSUME podCIDR \in Values, NEW spec \in Specs
    PROVE  Wanted(spec) \in [Kinds -> Values \cup {None}]
<1>1. PodCIDRs \in Values
  BY PolicyAssumption DEF PodCIDRs
<1>2. \A k \in Kinds : Wanted(spec)[k] \in Values \cup {None}
  BY <1>1, Constants DEF Wanted, Kinds
<1> QED
  BY <1>2 DEF Wanted

LEMMA StatusType ==
    ASSUME NEW p \in Policies, NEW spec \in Specs
    PROVE  StatusOf(p, spec) \in ClusterObjects
BY Constants DEF StatusOf, ClusterObjects

LEMMA UnsetType == Unset \in ClusterObjects /\ NoCluster \in ClusterObjects
BY DEF Unset, NoCluster, ClusterObjects

LEMMA NothingType == Nothing \in [Kinds -> Values \cup {None}]
BY DEF Nothing

-----------------------------------------------------------------------------
(* The reconciles: what the loops return.                                   *)

LEMMA LoopResult ==
    ASSUME NEW r \in Reconciles, NEW first \in Steps, NEW after \in Steps,
           NEW q \in Loop(r, first, after)
    PROVE  /\ q \in Reconciles
           /\ q.left = r.left /\ q.copy = r.copy /\ q.fresh = r.fresh
           /\ \/ q.pc = after /\ DOMAIN r.left = {}
              \/ q.pc = first /\ q.at \in DOMAIN r.left
<1> USE ReconcilesLefts
<1>1. DOMAIN r.left \subseteq Namespaces
  BY LeftsFunctions
<1>2. CASE DOMAIN r.left = {}
  <2>1. q = [r EXCEPT !.pc = after, !.at = None]
    BY <1>2 DEF Loop
  <2> QED
    BY <1>2, <2>1
<1>3. CASE DOMAIN r.left # {}
  <2>1. PICK n \in DOMAIN r.left : q = [r EXCEPT !.pc = first, !.at = n]
    BY <1>3 DEF Loop
  <2> QED
    BY <1>1, <2>1
<1> QED
  BY <1>2, <1>3

LEMMA ListedResult ==
    ASSUME NamespaceInv, NEW r \in Reconciles, NEW S \in SUBSET Namespaces
    PROVE  /\ Listed(r, S) \in Reconciles
           /\ DOMAIN Listed(r, S).left = S
           /\ Listed(r, S).pc = r.pc /\ Listed(r, S).copy = r.copy
           /\ TrueCopies(Listed(r, S).left, namespace)
           /\ \A n \in S : Listed(r, S).left[n].object = namespaceCached[n]
<1> DEFINE left == [n \in S |-> [object |-> namespaceCached[n], fresh |-> namespaceFresh[n]]]
<1>1. left \in [S -> ListedNamespaces]
  BY DEF NamespaceInv, ListedNamespaces
<1>2. left \in Lefts
  BY <1>1, LeftsFunctions
<1>3. /\ Listed(r, S) = [r EXCEPT !.left = left]
      /\ DOMAIN left = S
      /\ \A n \in S : left[n].object = namespaceCached[n] /\ left[n].fresh = namespaceFresh[n]
  BY DEF Listed
<1>4. TrueCopies(left, namespace)
  BY <1>3 DEF TrueCopies, NamespaceInv
<1> HIDE DEF left
<1> QED
  BY <1>2, <1>3, <1>4, ReconcilesLefts

LEMMA HandledResult ==
    ASSUME NEW r \in Reconciles
    PROVE  /\ Handled(r) \in Reconciles
           /\ Handled(r).pc = r.pc /\ Handled(r).copy = r.copy
           /\ DOMAIN Handled(r).left = DOMAIN r.left \ {r.at}
           /\ \A n \in DOMAIN Handled(r).left : Handled(r).left[n] = r.left[n]
<1> DEFINE left == [n \in DOMAIN r.left \ {r.at} |-> r.left[n]]
<1>1. /\ DOMAIN r.left \subseteq Namespaces
      /\ \A n \in DOMAIN r.left : r.left[n] \in ListedNamespaces
  <2>1. r.left \in Lefts
    BY ReconcilesLefts
  <2> QED
    BY <2>1, LeftsFunctions
<1>2. left \in [DOMAIN r.left \ {r.at} -> ListedNamespaces]
  BY <1>1
<1>3. left \in Lefts
  BY <1>1, <1>2, LeftsFunctions
<1>4. Handled(r) = [r EXCEPT !.left = left]
  BY DEF Handled
<1>5. /\ DOMAIN left = DOMAIN r.left \ {r.at}
      /\ \A n \in DOMAIN left : left[n] = r.left[n]
  OBVIOUS
<1> HIDE DEF left
<1> QED
  BY <1>3, <1>4, <1>5, ReconcilesLefts

-----------------------------------------------------------------------------
(* The reconciles: what keeps RecInv.                                       *)

\* The copies that remain are as true as they were.
LEMMA HandledTrue ==
    ASSUME NEW r \in Reconciles, NEW ns, TrueCopies(r.left, ns)
    PROVE  TrueCopies(Handled(r).left, ns)
<1>1. /\ DOMAIN Handled(r).left \subseteq DOMAIN r.left
      /\ \A n \in DOMAIN Handled(r).left : Handled(r).left[n] = r.left[n]
  BY HandledResult
<1> QED
  BY <1>1 DEF TrueCopies

LEMMA CleanupLoopInv ==
    ASSUME NEW p, NEW r \in Reconciles, NEW ns, NEW ps, TrueCopies(r.left, ns),
           NEW q \in CleanupLoop(r)
    PROVE  RecInv(p, q, ns, ps)
<1>1. q \in Loop(r, "cleanup", "update")
  BY DEF CleanupLoop
<1>2. "cleanup" \in Steps /\ "update" \in Steps
  BY DEF Steps
<1>3. /\ q \in Reconciles /\ q.left = r.left
      /\ \/ q.pc = "update" /\ DOMAIN r.left = {}
         \/ q.pc = "cleanup" /\ q.at \in DOMAIN r.left
  BY <1>1, <1>2, LoopResult
<1> QED
  BY <1>3 DEF RecInv, LoopSteps, FinalizeSteps

LEMMA MatchingLoopInv ==
    ASSUME NamespaceInv, NEW p, NEW r \in Reconciles, NEW ps, TrueCopies(r.left, namespace),
           NEW q \in MatchingLoop(r)
    PROVE  RecInv(p, q, namespace, ps)
<1>1. CASE DOMAIN r.left = {}
  <2>1. q \in CleanupLoop(Listed(r, Namespaces))
    BY <1>1 DEF MatchingLoop
  <2>2. /\ Listed(r, Namespaces) \in Reconciles
        /\ TrueCopies(Listed(r, Namespaces).left, namespace)
    BY ListedResult
  <2> QED
    BY <2>1, <2>2, CleanupLoopInv
<1>2. CASE DOMAIN r.left # {}
  <2>1. q \in Loop(r, "objects", "update")
    BY <1>2 DEF MatchingLoop
  <2>2. "objects" \in Steps /\ "update" \in Steps
    BY DEF Steps
  <2>3. /\ q \in Reconciles /\ q.left = r.left
        /\ \/ q.pc = "update" /\ DOMAIN r.left = {}
           \/ q.pc = "objects" /\ q.at \in DOMAIN r.left
    BY <2>1, <2>2, LoopResult
  <2> QED
    BY <2>3 DEF RecInv, LoopSteps, FinalizeSteps
<1> QED
  BY <1>1, <1>2

LEMMA ReleaseLoopInv ==
    ASSUME NEW p, NEW r \in Reconciles, NEW ns, NEW ps, TrueCopies(r.left, ns),
           \A n \in DOMAIN r.left : r.left[n].object.label = p, PolicyDeleted(ps[p]),
           NEW q \in ReleaseLoop(r)
    PROVE  RecInv(p, q, ns, ps)
<1>1. q \in Loop(r, "release", "removeFinalizer")
  BY DEF ReleaseLoop
<1>2. "release" \in Steps /\ "removeFinalizer" \in Steps
  BY DEF Steps
<1>3. /\ q \in Reconciles /\ q.left = r.left
      /\ \/ q.pc = "removeFinalizer" /\ DOMAIN r.left = {}
         \/ q.pc = "release" /\ q.at \in DOMAIN r.left
  BY <1>1, <1>2, LoopResult
<1> QED
  BY <1>3 DEF RecInv, LoopSteps, FinalizeSteps

\* The loop of finalizePolicy, from the list of the namespaces bound to p.
LEMMA ReleaseBegins ==
    ASSUME IInv, NEW p \in Policies, rec[p].pc = "terminating",
           NEW q \in ReleaseLoop(Listed(rec[p], Bound(p)))
    PROVE  RecInv(p, q, namespace, policy)
<1>1. rec[p] \in Reconciles /\ PolicyDeleted(policy[p])
  BY DEF IInv, RecsInv, RecInv, FinalizeSteps
<1>2. Bound(p) \in SUBSET Namespaces /\ \A n \in Bound(p) : namespaceCached[n].label = p
  BY DEF Bound
<1> DEFINE r == Listed(rec[p], Bound(p))
<1>3. /\ r \in Reconciles /\ DOMAIN r.left = Bound(p)
      /\ TrueCopies(r.left, namespace)
      /\ \A n \in Bound(p) : r.left[n].object = namespaceCached[n]
  BY <1>1, <1>2, ListedResult DEF IInv
<1>4. \A n \in DOMAIN r.left : r.left[n].object.label = p
  BY <1>2, <1>3
<1>5. q \in ReleaseLoop(r)
  OBVIOUS
<1> HIDE DEF r
<1> QED
  BY <1>1, <1>3, <1>4, <1>5, ReleaseLoopInv

\* The loop of finalizePolicy, past the namespace it is at.
LEMMA ReleaseContinues ==
    ASSUME IInv, NEW p \in Policies, rec[p].pc = "release",
           NEW q \in ReleaseLoop(Handled(rec[p]))
    PROVE  RecInv(p, q, namespace, policy)
<1>1. /\ rec[p] \in Reconciles /\ PolicyDeleted(policy[p]) /\ TrueCopies(rec[p].left, namespace)
      /\ \A n \in DOMAIN rec[p].left : rec[p].left[n].object.label = p
  BY DEF IInv, RecsInv, RecInv, FinalizeSteps
<1> DEFINE r == Handled(rec[p])
<1>2. /\ r \in Reconciles /\ DOMAIN r.left \subseteq DOMAIN rec[p].left
      /\ \A n \in DOMAIN r.left : r.left[n] = rec[p].left[n]
  BY <1>1, HandledResult
<1>3. TrueCopies(r.left, namespace)
  BY <1>1, HandledTrue
<1>4. \A n \in DOMAIN r.left : r.left[n].object.label = p
  BY <1>1, <1>2
<1>5. q \in ReleaseLoop(r)
  OBVIOUS
<1> HIDE DEF r
<1> QED
  BY <1>1, <1>2, <1>3, <1>4, <1>5, ReleaseLoopInv

\* RecInv outlasts the deletion of policies and changes of namespaces that the
\* reconcile holds no current copy of.
LEMMA RecKept ==
    ASSUME NEW p, NEW r, NEW ns, NEW ps, NEW ms, NEW qs, RecInv(p, r, ns, ps),
           PolicyDeleted(ps[p]) => PolicyDeleted(qs[p]),
           \A n \in DOMAIN r.left : r.left[n].fresh => ms[n] = ns[n]
    PROVE  RecInv(p, r, ms, qs)
BY DEF RecInv, TrueCopies

\* The copies of a namespace that was written are no longer taken for current.
LEMMA OutdatedInv ==
    ASSUME NEW R \in [Policies -> Reconciles], NEW n \in Namespaces, NEW p \in Policies,
           NEW ns, NEW ms, NEW ps, RecInv(p, R[p], ns, ps),
           \A m \in Namespaces : m # n => ms[m] = ns[m]
    PROVE  RecInv(p, Outdated(n, R)[p], ms, ps)
<1>1. R[p] \in Reconciles /\ R[p].left \in Lefts
  BY ReconcilesLefts
<1>2. DOMAIN R[p].left \subseteq Namespaces /\ R[p].left \in [DOMAIN R[p].left -> ListedNamespaces]
  BY <1>1, LeftsFunctions
<1>3. CASE n \notin DOMAIN R[p].left
  <2>1. Outdated(n, R)[p] = R[p]
    BY <1>3 DEF Outdated
  <2> QED
    BY <1>2, <1>3, <2>1, RecKept
<1>4. CASE n \in DOMAIN R[p].left
  <2> DEFINE r == [R[p] EXCEPT !.left[n].fresh = FALSE]
             left == [R[p].left EXCEPT ![n].fresh = FALSE]
  <2>1. Outdated(n, R)[p] = r
    BY <1>4 DEF Outdated
  <2>2. left \in [DOMAIN R[p].left -> ListedNamespaces]
    BY <1>2, <1>4 DEF ListedNamespaces
  <2>3. left \in Lefts /\ DOMAIN left = DOMAIN R[p].left
    BY <1>2, <2>2, LeftsFunctions
  <2>4. \A m \in DOMAIN left : /\ left[m].object = R[p].left[m].object
                               /\ left[m].fresh => m # n /\ R[p].left[m].fresh
    BY <1>2, <1>4 DEF ListedNamespaces
  <2>5. r = [R[p] EXCEPT !.left = left]
    BY <1>1
  <2> HIDE DEF left
  <2>6. r \in Reconciles /\ r.left = left /\ r.pc = R[p].pc /\ r.at = R[p].at
    BY <1>1, <2>3, <2>5, ReconcilesLefts
  <2> HIDE DEF r
  <2> QED
    BY <1>2, <2>1, <2>3, <2>4, <2>6 DEF RecInv, TrueCopies
<1> QED
  BY <1>3, <1>4

-----------------------------------------------------------------------------
(* What keeps each conjunct of the invariant.                               *)

LEMMA GroupsUnchanged ==
    ASSUME IInv
    PROVE  /\ UNCHANGED policyVars => PolicyInv' /\ DeletionFinal
           /\ UNCHANGED namespaceVars => NamespaceInv' /\ namespace' = namespace
           /\ UNCHANGED clusterVars => ClusterInv'
           /\ UNCHANGED ownedVars => OwnedInv'
           /\ UNCHANGED boundVars => BoundInv'
           /\ UNCHANGED queue => QueueInv'
<1>1. UNCHANGED policyVars => PolicyInv' /\ DeletionFinal
  BY DEF IInv, PolicyInv, policyVars, DeletionFinal
<1>2. UNCHANGED namespaceVars => NamespaceInv' /\ namespace' = namespace
  BY DEF IInv, NamespaceInv, namespaceVars
<1>3. UNCHANGED clusterVars => ClusterInv'
  BY DEF IInv, ClusterInv, clusterVars
<1>4. UNCHANGED ownedVars => OwnedInv'
  BY DEF IInv, OwnedInv, ownedVars
<1>5. UNCHANGED boundVars => BoundInv'
  BY DEF IInv, BoundInv, boundVars
<1>6. UNCHANGED queue => QueueInv'
  BY DEF IInv, QueueInv
<1> QED
  BY <1>1, <1>2, <1>3, <1>4, <1>5, <1>6

LEMMA StorePolicyInv ==
    ASSUME PolicyInv, NEW p \in Policies, NEW object \in PolicyObjects,
           PolicyDeleted(policy[p]) => PolicyDeleted(object), StorePolicy(p, object)
    PROVE  PolicyInv' /\ DeletionFinal
<1>1. /\ policy' = [policy EXCEPT ![p] = object] /\ policyCached' = policyCached
      /\ policyFresh' = [policyFresh EXCEPT ![p] = @ /\ object = policy[p]]
  BY DEF StorePolicy
<1>2. policyFresh' \in [Policies -> BOOLEAN]
  BY <1>1 DEF PolicyInv
<1> QED
  BY <1>1, <1>2 DEF PolicyInv, DeletionFinal

LEMMA StoreNamespaceInv ==
    ASSUME NamespaceInv, NEW n \in Namespaces, NEW object \in NamespaceObjects,
           StoreNamespace(n, object)
    PROVE  NamespaceInv'
<1>1. /\ namespace' = [namespace EXCEPT ![n] = object] /\ namespaceCached' = namespaceCached
      /\ namespaceFresh' = [namespaceFresh EXCEPT ![n] = FALSE]
  BY DEF StoreNamespace
<1> QED
  BY <1>1 DEF NamespaceInv

LEMMA WriteStatusesInv ==
    ASSUME ClusterInv, NEW S, NEW value \in ClusterObjects, WriteStatuses(S, value)
    PROVE  ClusterInv'
BY DEF ClusterInv, WriteStatuses

LEMMA StoreOwnedInv ==
    ASSUME OwnedInv, NEW n \in Namespaces, NEW p \in Policies,
           NEW objects \in [Kinds -> Values \cup {None}], StoreOwned(n, p, objects)
    PROVE  OwnedInv'
BY DEF OwnedInv, StoreOwned

LEMMA EnqueueInv ==
    ASSUME QueueInv, NEW S \in SUBSET (Policies \cup {None}), Enqueue(S)
    PROVE  QueueInv'
BY DEF QueueInv, Enqueue

LEMMA CountsInv ==
    ASSUME BoundInv
    PROVE  /\ Bind => BoundInv' /\ bindings' # bindings
           /\ Change => BoundInv'
BY PolicyAssumption DEF BoundInv, Bind, Change

LEMMA RecsReplaced ==
    ASSUME RecsInv, NEW p \in Policies, NEW r, RecInv(p, r, namespace, policy),
           rec' = [rec EXCEPT ![p] = r], namespace' = namespace, DeletionFinal
    PROVE  RecsInv'
<1>1. r \in Reconciles
  BY DEF RecInv
<1>2. rec' \in [Policies -> Reconciles]
  BY <1>1 DEF RecsInv
<1>3. ASSUME NEW q \in Policies PROVE RecInv(q, rec'[q], namespace', policy')
  <2>1. RecInv(q, rec'[q], namespace, policy)
    BY DEF RecsInv
  <2>2. PolicyDeleted(policy[q]) => PolicyDeleted(policy'[q])
    BY DEF DeletionFinal
  <2> QED
    BY <2>1, <2>2, RecKept
<1> QED
  BY <1>2, <1>3 DEF RecsInv

LEMMA RecsUnchanged ==
    ASSUME RecsInv, rec' = rec, namespace' = namespace, DeletionFinal
    PROVE  RecsInv'
<1>1. ASSUME NEW q \in Policies PROVE RecInv(q, rec'[q], namespace', policy')
  <2>1. RecInv(q, rec'[q], namespace, policy)
    BY DEF RecsInv
  <2>2. PolicyDeleted(policy[q]) => PolicyDeleted(policy'[q])
    BY DEF DeletionFinal
  <2> QED
    BY <2>1, <2>2, RecKept
<1> QED
  BY <1>1 DEF RecsInv

LEMMA RecsEnd ==
    ASSUME RecsInv, NEW p \in Policies, rec' = [rec EXCEPT ![p] = Idle],
           namespace' = namespace, DeletionFinal
    PROVE  RecsInv'
BY IdleRec, RecsReplaced

\* A failed reconcile ends and is tried again.
LEMMA FailInv ==
    ASSUME IInv, NEW p \in Policies, Fail(p), namespace' = namespace, DeletionFinal
    PROVE  RecsInv' /\ QueueInv'
<1>1. rec' = [rec EXCEPT ![p] = Idle] /\ Enqueue({p})
  BY DEF Fail
<1>2. QueueInv'
  BY <1>1, EnqueueInv DEF IInv
<1> QED
  BY <1>1, <1>2, RecsEnd DEF IInv

\* Within the loop over the bound namespaces.
LEMMA GotoInv ==
    ASSUME RecsInv, NEW p \in Policies, rec[p].pc \in LoopSteps,
           NEW step \in {"clusters", "namespace"}, Goto(p, step),
           namespace' = namespace, DeletionFinal
    PROVE  RecsInv'
<1> DEFINE r == [rec[p] EXCEPT !.pc = step]
<1>1. rec[p] \in Reconciles /\ RecInv(p, rec[p], namespace, policy)
  BY DEF RecsInv
<1>2. /\ r \in Reconciles /\ r.pc = step /\ r.left = rec[p].left /\ r.at = rec[p].at
  BY <1>1, ReconcilesLefts DEF Steps
<1>3. rec' = [rec EXCEPT ![p] = r]
  BY DEF Goto, RecsInv
<1> HIDE DEF r
<1>4. RecInv(p, r, namespace, policy)
  BY <1>1, <1>2 DEF RecInv, LoopSteps, FinalizeSteps
<1> QED
  BY <1>3, <1>4, RecsReplaced

LEMMA RecsOutdated ==
    ASSUME NEW R \in [Policies -> Reconciles],
           \A p \in Policies : RecInv(p, R[p], namespace, policy),
           NEW n \in Namespaces, NEW object, rec' = Outdated(n, R),
           namespace \in [Namespaces -> NamespaceObjects],
           namespace' = [namespace EXCEPT ![n] = object], policy' = policy
    PROVE  RecsInv'
<1>1. \A m \in Namespaces : m # n => namespace'[m] = namespace[m]
  OBVIOUS
<1>2. ASSUME NEW p \in Policies PROVE RecInv(p, rec'[p], namespace', policy')
  BY <1>1, OutdatedInv
<1>3. DOMAIN rec' = Policies /\ rec' = [p \in Policies |-> rec'[p]]
  BY DEF Outdated
<1>4. \A p \in Policies : rec'[p] \in Reconciles
  BY <1>2 DEF RecInv
<1> QED
  BY <1>2, <1>3, <1>4 DEF RecsInv

\* A step that binds no namespace anew.
LEMMA SameLabels == namespace' = namespace => LabelsKept
BY DEF LabelsKept

-----------------------------------------------------------------------------
(* Init.                                                                    *)

LEMMA InitInv == Init => IInv
<1> SUFFICES ASSUME Init PROVE IInv
  OBVIOUS
<1>1. PICK existing \in Existing :
         /\ policy = [p \in Policies |->
                        IF p \in existing
                        THEN [Idle.copy EXCEPT !.life = "live", !.finalizer = TRUE,
                                               !.spec = FirstSpec[p]]
                        ELSE Idle.copy]
         /\ namespace \in [Namespaces -> {[label |-> p, psa |-> FirstSpec[p].psa] : p \in existing}
                                         \cup {[label |-> None, psa |-> None]}]
  BY DEF Init
<1>2. existing \subseteq Policies
  BY PolicyAssumption
<1>3. \A p \in Policies : FirstSpec[p] \in Specs
  BY PolicyAssumption
<1>4. \A p \in Policies : [Idle.copy EXCEPT !.life = "live", !.finalizer = TRUE,
                                            !.spec = FirstSpec[p]] \in PolicyObjects
  BY <1>3, IdleCopy DEF PolicyObjects, Life
<1>5. PolicyInv
  <2>1. policy \in [Policies -> PolicyObjects]
    BY <1>1, <1>4, IdleCopy
  <2>2. policyCached = policy /\ policyFresh \in [Policies -> BOOLEAN]
    BY DEF Init, Fresh
  <2> QED
    BY <2>1, <2>2 DEF PolicyInv, PolicyDeleted
<1>6. NamespaceInv
  <2>1. \A p \in existing : [label |-> p, psa |-> FirstSpec[p].psa] \in NamespaceObjects
    BY <1>2, <1>3, Constants DEF NamespaceObjects
  <2>2. [label |-> None, psa |-> None] \in NamespaceObjects
    BY DEF NamespaceObjects
  <2>3. namespace \in [Namespaces -> NamespaceObjects]
    BY <1>1, <2>1, <2>2
  <2>4. namespaceCached = namespace /\ namespaceFresh \in [Namespaces -> BOOLEAN]
    BY DEF Init, Fresh
  <2> QED
    BY <2>3, <2>4 DEF NamespaceInv
<1>7. podCIDR \in Values
  BY Constants DEF Init
<1>8. OwnedInv
  <2>1. \A p \in Policies : Wanted(FirstSpec[p]) \in [Kinds -> Values \cup {None}]
    BY <1>3, <1>7, WantedType
  <2>2. owned = [n \in Namespaces |-> [p \in Policies |->
                  IF namespace[n].label = p THEN Wanted(FirstSpec[p]) ELSE Nothing]]
    BY DEF Init
  <2>3. ownedEvents = {}
    BY DEF Init
  <2> QED
    BY <2>1, <2>2, <2>3, NothingType DEF OwnedInv
<1>9. ClusterInv
  <2>1. PICK present \in SUBSET Clusters :
          applied = [c \in Clusters |->
             LET p == namespace[NamespaceOf[c]].label
             IN  CASE c \notin present -> NoCluster
                   [] c \in present /\ p = None -> Unset
                   [] OTHER -> StatusOf(p, FirstSpec[p])]
    BY DEF Init
  <2>2. \A p \in Policies : StatusOf(p, FirstSpec[p]) \in ClusterObjects
    BY <1>3, StatusType
  <2>3. \A c \in Clusters : namespace[NamespaceOf[c]].label \in Policies \cup {None}
    BY <1>6, PolicyAssumption DEF NamespaceInv, NamespaceObjects
  <2>4. ASSUME NEW c \in Clusters PROVE applied[c] \in ClusterObjects
    BY <2>1, <2>2, <2>3, UnsetType
  <2>5. applied \in [Clusters -> ClusterObjects]
    BY <2>1, <2>4
  <2> QED
    BY <2>5 DEF ClusterInv, Init
<1>10. BoundInv /\ QueueInv
  <2>1. bindings = 0 /\ changes = 0 /\ queue = {}
    BY DEF Init
  <2> QED
    BY <1>7, <2>1, PolicyAssumption DEF BoundInv, QueueInv
<1>11. RecsInv
  BY IdleRec DEF Init, RecsInv
<1> QED
  BY <1>5, <1>6, <1>8, <1>9, <1>10, <1>11 DEF IInv

-----------------------------------------------------------------------------
(* Users.                                                                   *)

\* A user's write of a policy, which does not undo its deletion.
LEMMA UserWritesPolicyInv ==
    ASSUME IInv, BoundInv', NEW p \in Policies, NEW object \in PolicyObjects,
           PolicyDeleted(policy[p]) => PolicyDeleted(object), UserWritesPolicy(p, object)
    PROVE  IInv' /\ LabelsKept
<1>1. PolicyInv' /\ DeletionFinal
  BY DEF UserWritesPolicy, IInv, PolicyInv, DeletionFinal
<1>2. /\ NamespaceInv' /\ namespace' = namespace /\ ClusterInv' /\ OwnedInv' /\ QueueInv'
  BY GroupsUnchanged DEF UserWritesPolicy
<1>3. RecsInv'
  <2> DEFINE r == [rec[p] EXCEPT !.fresh = FALSE]
  <2>1. rec[p] \in Reconciles /\ RecInv(p, rec[p], namespace, policy)
    BY DEF IInv, RecsInv
  <2>2. /\ r \in Reconciles /\ r.pc = rec[p].pc /\ r.left = rec[p].left /\ r.at = rec[p].at
    BY <2>1, ReconcilesLefts
  <2>3. rec' = [rec EXCEPT ![p] = r]
    BY DEF UserWritesPolicy, IInv, RecsInv
  <2> HIDE DEF r
  <2>4. RecInv(p, r, namespace, policy)
    BY <2>1, <2>2 DEF RecInv
  <2> QED
    BY <1>1, <1>2, <2>3, <2>4, RecsReplaced DEF IInv
<1> QED
  BY <1>1, <1>2, <1>3, SameLabels DEF IInv

LEMMA PolicyEditsInv ==
    ASSUME IInv, NEW p \in Policies,
           \/ CreatePolicy(p) \/ DeletePolicy(p)
           \/ \E spec \in Specs : EditPolicy(p, spec)
    PROVE  IInv' /\ LabelsKept
<1>1. BoundInv'
  BY CountsInv DEF IInv, CreatePolicy, DeletePolicy, EditPolicy
<1>2. policy[p] \in PolicyObjects
  BY DEF IInv, PolicyInv
<1>3. CASE CreatePolicy(p)
  <2> DEFINE object == [Idle.copy EXCEPT !.life = "live", !.spec = FirstSpec[p]]
  <2>1. object \in PolicyObjects
    BY IdleCopy, PolicyAssumption DEF PolicyObjects, Life
  <2>2. ~PolicyDeleted(policy[p]) /\ UserWritesPolicy(p, object)
    BY <1>3 DEF CreatePolicy, PolicyDeleted
  <2> HIDE DEF object
  <2> QED
    BY <1>1, <2>1, <2>2, UserWritesPolicyInv
<1>4. CASE DeletePolicy(p)
  <2> DEFINE object == [policy[p] EXCEPT !.life = IF policy[p].finalizer
                                                  THEN "deleting" ELSE "gone"]
  <2>1. object \in PolicyObjects /\ PolicyDeleted(object)
    BY <1>2 DEF PolicyObjects, Life, PolicyDeleted
  <2>2. UserWritesPolicy(p, object)
    BY <1>4 DEF DeletePolicy
  <2> HIDE DEF object
  <2> QED
    BY <1>1, <2>1, <2>2, UserWritesPolicyInv
<1>5. CASE \E spec \in Specs : EditPolicy(p, spec)
  <2>1. PICK spec \in Specs : EditPolicy(p, spec)
    BY <1>5
  <2> DEFINE object == [policy[p] EXCEPT !.spec = spec]
  <2>2. object \in PolicyObjects /\ object.life = policy[p].life
    BY <1>2 DEF PolicyObjects
  <2>3. UserWritesPolicy(p, object)
    BY <2>1 DEF EditPolicy
  <2>4. PolicyDeleted(policy[p]) => PolicyDeleted(object)
    BY <2>2 DEF PolicyDeleted
  <2> HIDE DEF object
  <2> QED
    BY <1>1, <2>2, <2>3, <2>4, UserWritesPolicyInv
<1> QED
  BY <1>3, <1>4, <1>5

LEMMA EditNamespaceInv ==
    ASSUME IInv, NEW n \in Namespaces, NEW object \in EditsOf(namespace[n]),
           EditNamespace(n, object)
    PROVE  IInv' /\ LabelsKept
<1>1. namespace[n] \in NamespaceObjects
  BY DEF IInv, NamespaceInv
<1>2. object \in NamespaceObjects
  BY <1>1 DEF EditsOf, NamespaceObjects
<1>3. NamespaceInv' /\ namespace' = [namespace EXCEPT ![n] = object]
  BY <1>2, StoreNamespaceInv DEF IInv, EditNamespace, StoreNamespace
<1>4. PolicyInv' /\ policy' = policy /\ ClusterInv' /\ OwnedInv' /\ QueueInv'
  BY GroupsUnchanged DEF EditNamespace, policyVars
<1>5. BoundInv' /\ bindings' # bindings
  BY CountsInv DEF IInv, EditNamespace
<1>6. RecsInv'
  BY <1>3, <1>4, RecsOutdated DEF IInv, RecsInv, NamespaceInv, EditNamespace
<1> QED
  BY <1>3, <1>4, <1>5, <1>6 DEF IInv, LabelsKept

\* The steps that write Clusters only.
LEMMA ClusterWritesInv ==
    ASSUME IInv, NEW c \in Clusters,
           CreateCluster(c) \/ EditCluster(c) \/ ClusterControllerWrites(c)
    PROVE  IInv' /\ LabelsKept
<1>1. BoundInv'
  BY CountsInv DEF IInv, CreateCluster, EditCluster, ClusterControllerWrites
<1>2. /\ UNCHANGED <<policyVars, namespaceVars, ownedVars, rec, queue>>
  BY DEF CreateCluster, EditCluster, UserWritesCluster, ClusterControllerWrites
<1>3. /\ PolicyInv' /\ DeletionFinal /\ NamespaceInv' /\ namespace' = namespace
      /\ OwnedInv' /\ QueueInv'
  BY <1>2, GroupsUnchanged
<1>4. RecsInv'
  BY <1>2, <1>3, RecsUnchanged DEF IInv
<1>5. ClusterInv'
  <2>1. applied[c] \in ClusterObjects
    BY DEF IInv, ClusterInv
  <2>2. CASE \E status \in ClusterObjects : UserWritesCluster(c, status)
    BY <2>2 DEF UserWritesCluster, IInv, ClusterInv
  <2>3. CASE ClusterControllerWrites(c)
    BY <2>3 DEF ClusterControllerWrites, Due, IInv, ClusterInv
  <2> QED
    BY <2>1, <2>2, <2>3, UnsetType DEF CreateCluster, EditCluster
<1> QED
  BY <1>1, <1>3, <1>4, <1>5, SameLabels DEF IInv

\* The steps that write owned objects only.
LEMMA OwnedWritesInv ==
    ASSUME IInv, NEW n \in Namespaces, NEW p \in Policies,
           CollectGarbage(n, p) \/ \E k \in Kinds : DeleteOwned(n, p, k)
    PROVE  IInv' /\ LabelsKept
<1>1. BoundInv'
  BY CountsInv, GroupsUnchanged DEF IInv, DeleteOwned, CollectGarbage
<1>2. /\ UNCHANGED <<policyVars, namespaceVars, clusterVars, rec, queue>>
  BY DEF DeleteOwned, CollectGarbage
<1>3. /\ PolicyInv' /\ DeletionFinal /\ NamespaceInv' /\ namespace' = namespace
      /\ ClusterInv' /\ QueueInv'
  BY <1>2, GroupsUnchanged
<1>4. RecsInv'
  BY <1>2, <1>3, RecsUnchanged DEF IInv
<1>5. OwnedInv'
  <2>1. owned[n][p] \in [Kinds -> Values \cup {None}]
    BY DEF IInv, OwnedInv
  <2>2. CASE CollectGarbage(n, p)
    BY <2>2, NothingType, StoreOwnedInv DEF CollectGarbage, IInv
  <2>3. CASE \E k \in Kinds : DeleteOwned(n, p, k)
    <3>1. PICK k \in Kinds : StoreOwned(n, p, [owned[n][p] EXCEPT ![k] = None])
      BY <2>3 DEF DeleteOwned
    <3>2. [owned[n][p] EXCEPT ![k] = None] \in [Kinds -> Values \cup {None}]
      BY <2>1
    <3> QED
      BY <3>1, <3>2, StoreOwnedInv DEF IInv
  <2> QED
    BY <2>2, <2>3
<1> QED
  BY <1>1, <1>3, <1>4, <1>5, SameLabels DEF IInv

-----------------------------------------------------------------------------
(* The informers.                                                           *)

LEMMA SyncPolicyInv ==
    ASSUME IInv, NEW p \in Policies, SyncPolicy(p)
    PROVE  IInv' /\ LabelsKept
<1>1. /\ UNCHANGED <<policy, rec>> /\ Enqueue({p})
      /\ UNCHANGED <<namespaceVars, clusterVars, ownedVars, boundVars>>
  BY DEF SyncPolicy
<1>2. PolicyInv' /\ DeletionFinal
  BY DEF SyncPolicy, IInv, PolicyInv, DeletionFinal, PolicyDeleted
<1>3. NamespaceInv' /\ namespace' = namespace /\ ClusterInv' /\ OwnedInv' /\ BoundInv'
  BY <1>1, GroupsUnchanged
<1>4. QueueInv'
  BY <1>1, EnqueueInv DEF IInv
<1>5. RecsInv'
  BY <1>1, <1>2, <1>3, RecsUnchanged DEF IInv
<1> QED
  BY <1>2, <1>3, <1>4, <1>5, SameLabels DEF IInv

LEMMA SyncNamespaceInv ==
    ASSUME IInv, NEW n \in Namespaces, SyncNamespace(n)
    PROVE  IInv' /\ LabelsKept
<1>1. /\ UNCHANGED <<namespace, rec>> /\ Enqueue(NamespaceEvent(namespaceCached[n], namespace[n]))
      /\ UNCHANGED <<policyVars, clusterVars, ownedVars, boundVars>>
  BY DEF SyncNamespace
<1>2. NamespaceInv'
  BY DEF SyncNamespace, IInv, NamespaceInv
<1>3. PolicyInv' /\ DeletionFinal /\ ClusterInv' /\ OwnedInv' /\ BoundInv'
  BY <1>1, GroupsUnchanged
<1>4. QueueInv'
  <2>1. NamespaceEvent(namespaceCached[n], namespace[n]) \in SUBSET (Policies \cup {None})
    BY DEF NamespaceEvent, IInv, NamespaceInv, NamespaceObjects
  <2> QED
    BY <1>1, <2>1, EnqueueInv DEF IInv
<1>5. RecsInv'
  BY <1>1, <1>3, RecsUnchanged DEF IInv
<1> QED
  BY <1>1, <1>2, <1>3, <1>4, <1>5, SameLabels DEF IInv

LEMMA SyncClusterInv ==
    ASSUME IInv, NEW c \in Clusters, SyncCluster(c)
    PROVE  IInv' /\ LabelsKept
<1>1. /\ rec' = rec /\ Enqueue(ClusterEvent(c))
      /\ UNCHANGED <<policyVars, namespaceVars, ownedVars, boundVars>>
  BY DEF SyncCluster
<1>2. ClusterInv'
  BY DEF SyncCluster, IInv, ClusterInv
<1>3. /\ PolicyInv' /\ DeletionFinal /\ NamespaceInv' /\ namespace' = namespace
      /\ OwnedInv' /\ BoundInv'
  BY <1>1, GroupsUnchanged
<1>4. QueueInv'
  <2>1. namespaceCached[NamespaceOf[c]].label \in Policies \cup {None}
    BY PolicyAssumption DEF IInv, NamespaceInv, NamespaceObjects
  <2>2. ClusterEvent(c) \in SUBSET (Policies \cup {None})
    BY <2>1 DEF ClusterEvent
  <2> QED
    BY <1>1, <2>2, EnqueueInv DEF IInv
<1>5. RecsInv'
  BY <1>1, <1>3, RecsUnchanged DEF IInv
<1> QED
  BY <1>2, <1>3, <1>4, <1>5, SameLabels DEF IInv

LEMMA OtherEventsInv ==
    ASSUME IInv, Resync \/ (\E p \in Policies : SyncOwned(p)) \/ \E v \in Values : NodesChange(v)
    PROVE  IInv' /\ LabelsKept
<1>1. /\ rec' = rec
      /\ UNCHANGED <<policyVars, namespaceVars, clusterVars>>
  BY DEF Resync, SyncOwned, NodesChange
<1>2. /\ PolicyInv' /\ DeletionFinal /\ NamespaceInv' /\ namespace' = namespace
      /\ ClusterInv'
  BY <1>1, GroupsUnchanged
<1>3. OwnedInv' /\ BoundInv'
  <2>1. CASE Resync
    BY <2>1, GroupsUnchanged DEF Resync
  <2>2. CASE \E p \in Policies : SyncOwned(p)
    BY <2>2, GroupsUnchanged DEF SyncOwned, IInv, OwnedInv
  <2>3. CASE \E v \in Values : NodesChange(v)
    <3>1. OwnedInv'
      BY <2>3, GroupsUnchanged DEF NodesChange
    <3>2. BoundInv'
      BY <2>3, PolicyAssumption DEF NodesChange, IInv, BoundInv
    <3> QED
      BY <3>1, <3>2
  <2> QED
    BY <2>1, <2>2, <2>3
<1>4. QueueInv'
  <2>1. \E S \in SUBSET (Policies \cup {None}) : Enqueue(S)
    BY DEF Resync, SyncOwned, NodesChange
  <2> QED
    BY <2>1, EnqueueInv DEF IInv
<1>5. RecsInv'
  BY <1>1, <1>2, RecsUnchanged DEF IInv
<1> QED
  BY <1>2, <1>3, <1>4, <1>5, SameLabels DEF IInv

-----------------------------------------------------------------------------
(* Reconcile.                                                               *)

\* The list of the namespaces bound to p, and the loop over them.
LEMMA MatchingBegins ==
    ASSUME IInv, NEW p \in Policies, NEW r \in Reconciles,
           NEW q \in MatchingLoop(Listed(r, Bound(p)))
    PROVE  RecInv(p, q, namespace, policy)
<1>1. Bound(p) \in SUBSET Namespaces
  BY DEF Bound
<1>2. /\ Listed(r, Bound(p)) \in Reconciles
      /\ TrueCopies(Listed(r, Bound(p)).left, namespace)
  BY <1>1, ListedResult DEF IInv
<1> QED
  BY <1>2, MatchingLoopInv DEF IInv

LEMMA BeginInv ==
    ASSUME IInv, NEW p \in Policies, NEW q \in Begin(p)
    PROVE  RecInv(p, q, namespace, policy)
<1> DEFINE r == [Idle EXCEPT !.copy = policyCached[p], !.fresh = policyFresh[p]]
<1>1. /\ policyCached[p] \in PolicyObjects /\ policyFresh[p] \in BOOLEAN
      /\ policyCached[p].life = "deleting" => PolicyDeleted(policy[p])
  BY DEF IInv, PolicyInv
<1>2. r \in Reconciles /\ r.left = NoNamespaces
  <2>1. Idle \in Reconciles /\ Idle.left = NoNamespaces
    BY IdleRec DEF Idle
  <2> QED
    BY <1>1, <2>1, ReconcilesLefts
<1>3. DOMAIN NoNamespaces = {}
  BY DEF NoNamespaces
<1>4. \/ q \in {[r EXCEPT !.pc = "terminating"]} /\ policyCached[p].life = "deleting"
      \/ q \in MatchingLoop(Listed(r, Bound(p)))
      \/ q \in {[r EXCEPT !.pc = "addFinalizer"]}
      \/ q \in {Idle}
  BY DEF Begin
<1> HIDE DEF r
<1>5. CASE q = [r EXCEPT !.pc = "terminating"] /\ policyCached[p].life = "deleting"
  <2>1. q \in Reconciles /\ q.pc = "terminating" /\ q.left = NoNamespaces
    BY <1>2, <1>5, ReconcilesLefts DEF Steps
  <2> QED
    BY <1>1, <1>3, <1>5, <2>1 DEF RecInv, TrueCopies, LoopSteps
<1>6. CASE q \in MatchingLoop(Listed(r, Bound(p)))
  BY <1>2, <1>6, MatchingBegins
<1>7. CASE q = [r EXCEPT !.pc = "addFinalizer"]
  <2>1. q \in Reconciles /\ q.pc = "addFinalizer" /\ q.left = NoNamespaces
    BY <1>2, <1>7, ReconcilesLefts DEF Steps
  <2> QED
    BY <1>3, <2>1 DEF RecInv, TrueCopies, LoopSteps, FinalizeSteps
<1>8. CASE q = Idle
  BY <1>8, IdleRec
<1> QED
  BY <1>4, <1>5, <1>6, <1>7, <1>8

LEMMA StartReconcileInv ==
    ASSUME IInv, NEW p \in Policies, StartReconcile(p)
    PROVE  IInv' /\ LabelsKept
<1>1. UNCHANGED <<policyVars, namespaceVars, clusterVars, ownedVars, boundVars>>
  BY DEF StartReconcile
<1>2. /\ PolicyInv' /\ DeletionFinal /\ NamespaceInv' /\ namespace' = namespace
      /\ ClusterInv' /\ OwnedInv' /\ BoundInv'
  BY <1>1, GroupsUnchanged
<1>3. QueueInv'
  BY DEF StartReconcile, IInv, QueueInv
<1>4. PICK q \in Begin(p) : rec' = [rec EXCEPT ![p] = q]
  BY DEF StartReconcile, Continue
<1>5. RecsInv'
  BY <1>2, <1>4, BeginInv, RecsReplaced DEF IInv
<1> QED
  BY <1>2, <1>3, <1>5, SameLabels DEF IInv

LEMMA AddFinalizerInv ==
    ASSUME IInv, NEW p \in Policies, AddFinalizer(p)
    PROVE  IInv' /\ LabelsKept
<1>1. UNCHANGED <<namespaceVars, clusterVars, ownedVars, boundVars>>
  BY DEF AddFinalizer
<1>2. /\ NamespaceInv' /\ namespace' = namespace
      /\ ClusterInv' /\ OwnedInv' /\ BoundInv'
  BY <1>1, GroupsUnchanged
<1>3. CASE rec[p].fresh
  <2> DEFINE object == [policy[p] EXCEPT !.finalizer = TRUE]
             r == [rec[p] EXCEPT !.copy.finalizer = TRUE]
  <2>1. /\ StorePolicy(p, object) /\ UNCHANGED queue
        /\ Continue(p, MatchingLoop(Listed(r, Bound(p))))
    BY <1>3 DEF AddFinalizer
  <2>2. policy[p] \in PolicyObjects /\ rec[p] \in Reconciles
    BY DEF IInv, PolicyInv, RecsInv
  <2>3. object \in PolicyObjects /\ object.life = policy[p].life
    BY <2>2 DEF PolicyObjects
  <2>4. r \in Reconciles
    BY <2>2, ReconcilesLefts DEF PolicyObjects
  <2>5. PolicyDeleted(policy[p]) => PolicyDeleted(object)
    BY <2>3 DEF PolicyDeleted
  <2> HIDE DEF object, r
  <2>6. PolicyInv' /\ DeletionFinal /\ QueueInv'
    BY <2>1, <2>3, <2>5, StorePolicyInv, GroupsUnchanged DEF IInv
  <2>7. PICK q \in MatchingLoop(Listed(r, Bound(p))) : rec' = [rec EXCEPT ![p] = q]
    BY <2>1 DEF Continue
  <2>8. RecsInv'
    BY <1>2, <2>4, <2>6, <2>7, MatchingBegins, RecsReplaced DEF IInv
  <2> QED
    BY <1>2, <2>6, <2>8, SameLabels DEF IInv
<1>4. CASE ~rec[p].fresh
  <2>1. Fail(p) /\ UNCHANGED policyVars
    BY <1>4 DEF AddFinalizer
  <2>2. PolicyInv' /\ DeletionFinal
    BY <2>1, GroupsUnchanged
  <2>3. RecsInv' /\ QueueInv'
    BY <1>2, <2>1, <2>2, FailInv
  <2> QED
    BY <1>2, <2>2, <2>3, SameLabels DEF IInv
<1> QED
  BY <1>3, <1>4

\* The namespace a reconcile is at, and its copy of it.
LEMMA AtNamespace ==
    ASSUME IInv, NEW p \in Policies, rec[p].pc \in LoopSteps
    PROVE  /\ rec[p] \in Reconciles /\ rec[p].copy.spec \in Specs
           /\ rec[p].at \in Namespaces /\ rec[p].at \in DOMAIN rec[p].left
           /\ rec[p].left[rec[p].at] \in ListedNamespaces
           /\ rec[p].left[rec[p].at].fresh =>
                 rec[p].left[rec[p].at].object = namespace[rec[p].at]
           /\ TrueCopies(rec[p].left, namespace)
<1>1. rec[p] \in Reconciles /\ RecInv(p, rec[p], namespace, policy)
  BY DEF IInv, RecsInv
<1>2. rec[p].left \in Lefts /\ rec[p].copy.spec \in Specs
  BY <1>1, ReconcilesLefts DEF PolicyObjects
<1>3. /\ DOMAIN rec[p].left \subseteq Namespaces
      /\ rec[p].left \in [DOMAIN rec[p].left -> ListedNamespaces]
  BY <1>2, LeftsFunctions
<1> QED
  BY <1>1, <1>2, <1>3 DEF RecInv, TrueCopies

LEMMA ReconciledType ==
    ASSUME IInv, NEW p \in Policies, rec[p].pc \in LoopSteps, NEW n \in Namespaces,
           NEW found, NEW done
    PROVE  Reconciled(n, p, found, done) \in [Kinds -> Values \cup {None}]
<1>1. Wanted(rec[p].copy.spec) \in [Kinds -> Values \cup {None}]
  BY AtNamespace, WantedType DEF IInv, BoundInv
<1>2. owned[n][p] \in [Kinds -> Values \cup {None}]
  BY DEF IInv, OwnedInv
<1> QED
  BY <1>1, <1>2 DEF Reconciled

LEMMA ApplyObjectsInv ==
    ASSUME IInv, NEW p \in Policies, ApplyObjects(p)
    PROVE  IInv' /\ LabelsKept
<1>1. /\ rec[p].pc \in LoopSteps
      /\ UNCHANGED <<policyVars, namespaceVars, clusterVars, boundVars>>
  BY DEF ApplyObjects, LoopSteps
<1>2. /\ PolicyInv' /\ DeletionFinal /\ NamespaceInv' /\ namespace' = namespace
      /\ ClusterInv' /\ BoundInv'
  BY <1>1, GroupsUnchanged
<1>3. PICK found, done : /\ StoreOwned(rec[p].at, p, Reconciled(rec[p].at, p, found, done))
                         /\ (Goto(p, "clusters") /\ UNCHANGED queue) \/ Fail(p)
  BY DEF ApplyObjects
<1>4. OwnedInv'
  BY <1>1, <1>3, AtNamespace, ReconciledType, StoreOwnedInv DEF IInv
<1>5. CASE Goto(p, "clusters") /\ UNCHANGED queue
  <2>1. QueueInv' /\ RecsInv'
    BY <1>1, <1>2, <1>5, GotoInv, GroupsUnchanged DEF IInv
  <2> QED
    BY <1>2, <1>4, <2>1, SameLabels DEF IInv
<1>6. CASE Fail(p)
  <2>1. QueueInv' /\ RecsInv'
    BY <1>2, <1>6, FailInv
  <2> QED
    BY <1>2, <1>4, <2>1, SameLabels DEF IInv
<1> QED
  BY <1>3, <1>5, <1>6

LEMMA ReconcileClustersInv ==
    ASSUME IInv, NEW p \in Policies, ReconcileClusters(p)
    PROVE  IInv' /\ LabelsKept
<1>1. /\ rec[p].pc \in LoopSteps
      /\ UNCHANGED <<policyVars, namespaceVars, ownedVars, boundVars>>
  BY DEF ReconcileClusters, LoopSteps
<1>2. /\ PolicyInv' /\ DeletionFinal /\ NamespaceInv' /\ namespace' = namespace
      /\ OwnedInv' /\ BoundInv'
  BY <1>1, GroupsUnchanged
<1>3. PICK S : WriteStatuses(S, StatusOf(p, rec[p].copy.spec))
  BY DEF ReconcileClusters
<1>4. (Goto(p, "namespace") /\ UNCHANGED queue) \/ Fail(p)
  BY DEF ReconcileClusters
<1>5. ClusterInv'
  <2>1. StatusOf(p, rec[p].copy.spec) \in ClusterObjects
    BY <1>1, AtNamespace, StatusType
  <2> QED
    BY <1>3, <2>1, WriteStatusesInv DEF IInv
<1>6. CASE Goto(p, "namespace") /\ UNCHANGED queue
  <2>1. QueueInv' /\ RecsInv'
    BY <1>1, <1>2, <1>6, GotoInv, GroupsUnchanged DEF IInv
  <2> QED
    BY <1>2, <1>5, <2>1, SameLabels DEF IInv
<1>7. CASE Fail(p)
  <2>1. QueueInv' /\ RecsInv'
    BY <1>2, <1>7, FailInv
  <2> QED
    BY <1>2, <1>5, <2>1, SameLabels DEF IInv
<1> QED
  BY <1>4, <1>6, <1>7

\* A write of the namespace n by the reconcile of p, which goes on as q.
LEMMA NamespaceWritten ==
    ASSUME IInv, NEW p \in Policies, NEW q, RecInv(p, q, namespace, policy),
           NEW n \in Namespaces, NEW object \in NamespaceObjects, StoreNamespace(n, object),
           rec' = Outdated(n, [rec EXCEPT ![p] = q]), policy' = policy
    PROVE  NamespaceInv' /\ RecsInv' /\ namespace' = [namespace EXCEPT ![n] = object]
<1> DEFINE R == [rec EXCEPT ![p] = q]
<1>1. q \in Reconciles
  BY DEF RecInv
<1>2. R \in [Policies -> Reconciles] /\ \A x \in Policies : RecInv(x, R[x], namespace, policy)
  BY <1>1 DEF IInv, RecsInv
<1>3. rec' = Outdated(n, R)
  OBVIOUS
<1>4. NamespaceInv' /\ namespace' = [namespace EXCEPT ![n] = object]
  BY StoreNamespaceInv DEF IInv, StoreNamespace
<1> HIDE DEF R
<1>5. RecsInv'
  BY <1>2, <1>3, <1>4, RecsOutdated DEF IInv, NamespaceInv
<1> QED
  BY <1>4, <1>5

LEMMA UpdateNamespaceInv ==
    ASSUME IInv, NEW p \in Policies, UpdateNamespace(p)
    PROVE  IInv' /\ LabelsKept
<1> DEFINE n == rec[p].at
           listed == rec[p].left[n]
           object == [listed.object EXCEPT !.psa = rec[p].copy.spec.psa]
<1>1. /\ rec[p].pc \in LoopSteps
      /\ UNCHANGED <<policyVars, clusterVars, ownedVars, boundVars>>
  BY DEF UpdateNamespace, LoopSteps
<1>2. /\ PolicyInv' /\ DeletionFinal /\ policy' = policy /\ ClusterInv' /\ OwnedInv' /\ BoundInv'
  BY <1>1, GroupsUnchanged DEF policyVars
<1>3. /\ rec[p] \in Reconciles /\ n \in Namespaces /\ listed \in ListedNamespaces
      /\ listed.fresh => listed.object = namespace[n]
      /\ TrueCopies(rec[p].left, namespace) /\ rec[p].copy.spec \in Specs
  BY <1>1, AtNamespace
<1>4. object \in NamespaceObjects /\ object.label = listed.object.label
  BY <1>3, Constants DEF ListedNamespaces, NamespaceObjects
<1>5. \A q \in MatchingLoop(Handled(rec[p])) : RecInv(p, q, namespace, policy)
  <2>1. Handled(rec[p]) \in Reconciles /\ TrueCopies(Handled(rec[p]).left, namespace)
    BY <1>3, HandledResult, HandledTrue
  <2> QED
    BY <2>1, MatchingLoopInv DEF IInv
<1>6. \/ Continue(p, MatchingLoop(Handled(rec[p]))) /\ UNCHANGED <<namespaceVars, queue>>
      \/ /\ listed.fresh /\ StoreNamespace(n, object) /\ UNCHANGED queue
         /\ \E q \in MatchingLoop(Handled(rec[p])) : rec' = Outdated(n, [rec EXCEPT ![p] = q])
      \/ Fail(p) /\ UNCHANGED namespaceVars
  BY DEF UpdateNamespace
<1> HIDE DEF n, listed, object
<1>7. CASE Continue(p, MatchingLoop(Handled(rec[p]))) /\ UNCHANGED <<namespaceVars, queue>>
  <2>1. NamespaceInv' /\ namespace' = namespace /\ QueueInv'
    BY <1>7, GroupsUnchanged
  <2>2. PICK q \in MatchingLoop(Handled(rec[p])) : rec' = [rec EXCEPT ![p] = q]
    BY <1>7 DEF Continue
  <2>3. RecsInv'
    BY <1>2, <1>5, <2>1, <2>2, RecsReplaced DEF IInv
  <2> QED
    BY <1>2, <2>1, <2>3, SameLabels DEF IInv
<1>8. CASE /\ listed.fresh /\ StoreNamespace(n, object) /\ UNCHANGED queue
           /\ \E q \in MatchingLoop(Handled(rec[p])) : rec' = Outdated(n, [rec EXCEPT ![p] = q])
  <2>1. PICK q \in MatchingLoop(Handled(rec[p])) : rec' = Outdated(n, [rec EXCEPT ![p] = q])
    BY <1>8
  <2>2. RecInv(p, q, namespace, policy)
    BY <1>5
  <2>3. NamespaceInv' /\ RecsInv' /\ namespace' = [namespace EXCEPT ![n] = object]
    <3>1. policy' = policy /\ n \in Namespaces /\ object \in NamespaceObjects
      BY <1>2, <1>3, <1>4
    <3>2. StoreNamespace(n, object)
      BY <1>8
    <3> QED
      BY <2>1, <2>2, <3>1, <3>2, NamespaceWritten
  <2>4. QueueInv'
    BY <1>8, GroupsUnchanged
  <2>5. object.label = namespace[n].label
    BY <1>3, <1>4, <1>8
  <2>6. \A m \in Namespaces : namespace'[m].label = namespace[m].label
    BY <2>3, <2>5 DEF IInv, NamespaceInv
  <2>7. LabelsKept
    BY <2>6 DEF LabelsKept
  <2> QED
    BY <1>2, <2>3, <2>4, <2>7 DEF IInv
<1>9. CASE Fail(p) /\ UNCHANGED namespaceVars
  <2>1. NamespaceInv' /\ namespace' = namespace
    BY <1>9, GroupsUnchanged
  <2>2. RecsInv' /\ QueueInv'
    BY <1>2, <1>9, <2>1, FailInv
  <2> QED
    BY <1>2, <2>1, <2>2, SameLabels DEF IInv
<1> QED
  BY <1>6, <1>7, <1>8, <1>9

LEMMA ClearStatusesInv == ClusterInv /\ (\E n : ClearStatuses(n)) => ClusterInv'
BY WriteStatusesInv, UnsetType DEF ClearStatuses

LEMMA CleanupNamespaceInv ==
    ASSUME IInv, NEW p \in Policies, CleanupNamespace(p)
    PROVE  IInv' /\ LabelsKept
<1>1. /\ rec[p].pc \in LoopSteps
      /\ UNCHANGED <<policyVars, namespaceVars, boundVars, queue>>
  BY DEF CleanupNamespace, LoopSteps
<1>2. /\ PolicyInv' /\ DeletionFinal /\ NamespaceInv' /\ namespace' = namespace
      /\ BoundInv' /\ QueueInv'
  BY <1>1, GroupsUnchanged
<1>3. /\ rec[p] \in Reconciles /\ rec[p].at \in Namespaces /\ TrueCopies(rec[p].left, namespace)
  BY <1>1, AtNamespace
<1>4. ClusterInv'
  <2>1. ClearStatuses(rec[p].at) \/ UNCHANGED clusterVars
    BY DEF CleanupNamespace
  <2> QED
    BY <2>1, ClearStatusesInv, GroupsUnchanged DEF IInv
<1>5. OwnedInv'
  <2>1. PICK label : DeleteOthers(rec[p].at, label)
    BY DEF CleanupNamespace
  <2>2. owned[rec[p].at] \in [Policies -> [Kinds -> Values \cup {None}]]
    BY <1>3 DEF IInv, OwnedInv
  <2>3. [q \in Policies |-> IF q \in Policies \ {label} THEN Nothing ELSE owned[rec[p].at][q]]
           \in [Policies -> [Kinds -> Values \cup {None}]]
    BY <2>2, NothingType
  <2>4. /\ owned' = [owned EXCEPT ![rec[p].at] =
              [q \in Policies |-> IF q \in Policies \ {label} THEN Nothing
                                  ELSE owned[rec[p].at][q]]]
        /\ ownedEvents' \subseteq ownedEvents \cup Policies
    BY <1>3, <2>1 DEF DeleteOthers, IInv, OwnedInv
  <2> QED
    BY <1>3, <2>3, <2>4 DEF IInv, OwnedInv
<1>6. PICK q \in CleanupLoop(Handled(rec[p])) : rec' = [rec EXCEPT ![p] = q]
  BY DEF CleanupNamespace, Continue
<1>7. RecInv(p, q, namespace, policy)
  <2>1. Handled(rec[p]) \in Reconciles /\ TrueCopies(Handled(rec[p]).left, namespace)
    BY <1>3, HandledResult, HandledTrue
  <2> QED
    BY <1>6, <2>1, CleanupLoopInv
<1>8. RecsInv'
  BY <1>2, <1>6, <1>7, RecsReplaced DEF IInv
<1> QED
  BY <1>2, <1>4, <1>5, <1>8, SameLabels DEF IInv

LEMMA UpdatePolicyInv ==
    ASSUME IInv, NEW p \in Policies, UpdatePolicy(p)
    PROVE  IInv' /\ LabelsKept
<1>1. /\ UNCHANGED <<policyVars, namespaceVars, clusterVars, ownedVars, boundVars>>
      /\ Return(p) \/ Fail(p)
  BY DEF UpdatePolicy
<1>2. /\ PolicyInv' /\ DeletionFinal /\ NamespaceInv' /\ namespace' = namespace
      /\ ClusterInv' /\ OwnedInv' /\ BoundInv'
  BY <1>1, GroupsUnchanged
<1>3. CASE Return(p)
  <2>1. RecsInv' /\ QueueInv'
    BY <1>2, <1>3, RecsEnd, GroupsUnchanged DEF Return, IInv
  <2> QED
    BY <1>2, <2>1, SameLabels DEF IInv
<1>4. CASE Fail(p)
  <2>1. RecsInv' /\ QueueInv'
    BY <1>2, <1>4, FailInv
  <2> QED
    BY <1>2, <2>1, SameLabels DEF IInv
<1> QED
  BY <1>1, <1>3, <1>4

-----------------------------------------------------------------------------
(* finalizePolicy.                                                          *)

LEMMA TerminatingInv ==
    ASSUME IInv, NEW p \in Policies, Terminating(p)
    PROVE  IInv' /\ LabelsKept
<1>1. /\ rec[p].pc = "terminating"
      /\ UNCHANGED <<namespaceVars, clusterVars, ownedVars, boundVars, queue>>
  BY DEF Terminating
<1>2. /\ NamespaceInv' /\ namespace' = namespace
      /\ ClusterInv' /\ OwnedInv' /\ BoundInv' /\ QueueInv'
  BY <1>1, GroupsUnchanged
<1>3. PolicyInv' /\ DeletionFinal
  <2> DEFINE object == [policy[p] EXCEPT !.terminating = TRUE]
  <2>1. StorePolicy(p, object) \/ UNCHANGED policyVars
    BY DEF Terminating
  <2>2. policy[p] \in PolicyObjects
    BY DEF IInv, PolicyInv
  <2>3. object \in PolicyObjects /\ object.life = policy[p].life
    BY <2>2 DEF PolicyObjects
  <2>4. PolicyDeleted(policy[p]) => PolicyDeleted(object)
    BY <2>3 DEF PolicyDeleted
  <2> HIDE DEF object
  <2> QED
    BY <2>1, <2>3, <2>4, StorePolicyInv, GroupsUnchanged DEF IInv
<1>4. PICK q \in ReleaseLoop(Listed(rec[p], Bound(p))) : rec' = [rec EXCEPT ![p] = q]
  BY DEF Terminating, Continue
<1>5. RecsInv'
  BY <1>1, <1>2, <1>3, <1>4, ReleaseBegins, RecsReplaced DEF IInv
<1> QED
  BY <1>2, <1>3, <1>5, SameLabels DEF IInv

LEMMA ReleaseNamespaceInv ==
    ASSUME IInv, NEW p \in Policies, ReleaseNamespace(p)
    PROVE  IInv' /\ LabelsKept
<1> DEFINE n == rec[p].at
           listed == rec[p].left[n]
           object == Released(listed.object, rec[p].copy.spec)
<1>1. /\ rec[p].pc = "release" /\ rec[p].pc \in LoopSteps
      /\ UNCHANGED <<policyVars, ownedVars, boundVars, queue>> /\ ClearStatuses(n)
  BY DEF ReleaseNamespace, LoopSteps
<1>2. /\ PolicyInv' /\ DeletionFinal /\ policy' = policy /\ OwnedInv' /\ BoundInv' /\ QueueInv'
  BY <1>1, GroupsUnchanged DEF policyVars
<1>3. ClusterInv'
  BY <1>1, ClearStatusesInv DEF IInv
<1>4. /\ rec[p] \in Reconciles /\ n \in Namespaces /\ listed \in ListedNamespaces
      /\ listed.fresh => listed.object = namespace[n]
      /\ n \in DOMAIN rec[p].left
  BY <1>1, AtNamespace
<1>5. listed.object.label = p /\ PolicyDeleted(policy[p])
  BY <1>1, <1>4 DEF IInv, RecsInv, RecInv, FinalizeSteps
<1>6. object \in NamespaceObjects /\ object.label = None
  BY <1>4 DEF Released, ListedNamespaces, NamespaceObjects
<1>7. PICK q \in ReleaseLoop(Handled(rec[p])) :
         rec' = IF listed.fresh THEN Outdated(n, [rec EXCEPT ![p] = q]) ELSE [rec EXCEPT ![p] = q]
  BY DEF ReleaseNamespace
<1>8. RecInv(p, q, namespace, policy)
  BY <1>1, <1>7, ReleaseContinues
<1>9. IF listed.fresh THEN StoreNamespace(n, object) ELSE UNCHANGED namespaceVars
  BY DEF ReleaseNamespace
<1> HIDE DEF n, listed, object
<1>10. CASE listed.fresh
  <2>1. NamespaceInv' /\ RecsInv' /\ namespace' = [namespace EXCEPT ![n] = object]
    BY <1>2, <1>4, <1>6, <1>7, <1>8, <1>9, <1>10, NamespaceWritten
  <2>2. namespace[n].label = p /\ namespace'[n].label = None
    BY <1>4, <1>5, <1>6, <1>10, <2>1 DEF IInv, NamespaceInv
  <2>3. \A m \in Namespaces : m # n => namespace'[m] = namespace[m]
    BY <2>1 DEF IInv, NamespaceInv
  <2>4. LabelsKept
    BY <1>5, <2>2, <2>3 DEF LabelsKept, PolicyDeleted
  <2> QED
    BY <1>2, <1>3, <2>1, <2>4 DEF IInv
<1>11. CASE ~listed.fresh
  <2>1. NamespaceInv' /\ namespace' = namespace
    BY <1>9, <1>11, GroupsUnchanged
  <2>2. RecsInv'
    BY <1>2, <1>7, <1>8, <1>11, <2>1, RecsReplaced DEF IInv
  <2> QED
    BY <1>2, <1>3, <2>1, <2>2, SameLabels DEF IInv
<1> QED
  BY <1>10, <1>11

LEMMA RemoveFinalizerInv ==
    ASSUME IInv, NEW p \in Policies, RemoveFinalizer(p)
    PROVE  IInv' /\ LabelsKept
<1>1. UNCHANGED <<namespaceVars, clusterVars, ownedVars, boundVars>>
  BY DEF RemoveFinalizer
<1>2. /\ NamespaceInv' /\ namespace' = namespace /\ ClusterInv' /\ OwnedInv' /\ BoundInv'
  BY <1>1, GroupsUnchanged
<1>3. CASE rec[p].fresh
  <2> DEFINE object == [policy[p] EXCEPT !.finalizer = FALSE, !.life = "gone"]
  <2>1. StorePolicy(p, object) /\ Return(p)
    BY <1>3 DEF RemoveFinalizer
  <2>2. policy[p] \in PolicyObjects
    BY DEF IInv, PolicyInv
  <2>3. object \in PolicyObjects /\ PolicyDeleted(object)
    BY <2>2 DEF PolicyObjects, Life, PolicyDeleted
  <2> HIDE DEF object
  <2>4. PolicyInv' /\ DeletionFinal
    BY <2>1, <2>3, StorePolicyInv DEF IInv
  <2>5. RecsInv' /\ QueueInv'
    BY <1>2, <2>1, <2>4, RecsEnd, GroupsUnchanged DEF Return, IInv
  <2> QED
    BY <1>2, <2>4, <2>5, SameLabels DEF IInv
<1>4. CASE ~rec[p].fresh
  <2>1. Fail(p) /\ UNCHANGED policyVars
    BY <1>4 DEF RemoveFinalizer
  <2>2. PolicyInv' /\ DeletionFinal
    BY <2>1, GroupsUnchanged
  <2>3. RecsInv' /\ QueueInv'
    BY <1>2, <2>1, <2>2, FailInv
  <2> QED
    BY <1>2, <2>2, <2>3, SameLabels DEF IInv
<1> QED
  BY <1>3, <1>4

-----------------------------------------------------------------------------
(* Faults.                                                                  *)

LEMMA CallFailsInv ==
    ASSUME IInv, NEW p \in Policies, CallFails(p)
    PROVE  IInv' /\ LabelsKept
<1>1. /\ UNCHANGED <<policyVars, namespaceVars, clusterVars, ownedVars>>
      /\ Fail(p) \/ (Continue(p, AfterError(p)) /\ UNCHANGED queue)
  BY DEF CallFails
<1>2. /\ PolicyInv' /\ DeletionFinal /\ NamespaceInv' /\ namespace' = namespace
      /\ ClusterInv' /\ OwnedInv' /\ BoundInv'
  BY <1>1, GroupsUnchanged, CountsInv DEF CallFails, IInv
<1>3. CASE Fail(p)
  <2>1. RecsInv' /\ QueueInv'
    BY <1>2, <1>3, FailInv
  <2> QED
    BY <1>2, <2>1, SameLabels DEF IInv
<1>4. CASE Continue(p, AfterError(p)) /\ UNCHANGED queue
  <2>1. PICK q \in AfterError(p) : rec' = [rec EXCEPT ![p] = q]
    BY <1>4 DEF Continue
  <2>2. RecInv(p, q, namespace, policy)
    BY <2>1, ReleaseBegins, ReleaseContinues DEF AfterError
  <2>3. RecsInv' /\ QueueInv'
    BY <1>2, <1>4, <2>1, <2>2, RecsReplaced, GroupsUnchanged DEF IInv
  <2> QED
    BY <1>2, <2>3, SameLabels DEF IInv
<1> QED
  BY <1>1, <1>3, <1>4

LEMMA ObjectCallFailsInv ==
    ASSUME IInv, NEW p \in Policies, NEW k \in Kinds, ObjectCallFails(p, k)
    PROVE  IInv' /\ LabelsKept
<1>1. /\ rec[p].pc \in LoopSteps /\ Fail(p)
      /\ UNCHANGED <<policyVars, namespaceVars, clusterVars>>
  BY DEF ObjectCallFails, LoopSteps
<1>2. /\ PolicyInv' /\ DeletionFinal /\ NamespaceInv' /\ namespace' = namespace
      /\ ClusterInv' /\ BoundInv'
  BY <1>1, GroupsUnchanged, CountsInv DEF ObjectCallFails, IInv
<1>3. PICK found, done : StoreOwned(rec[p].at, p, Reconciled(rec[p].at, p, found, done))
  BY DEF ObjectCallFails
<1>4. OwnedInv'
  BY <1>1, <1>3, AtNamespace, ReconciledType, StoreOwnedInv DEF IInv
<1>5. RecsInv' /\ QueueInv'
  BY <1>1, <1>2, FailInv
<1> QED
  BY <1>2, <1>4, <1>5, SameLabels DEF IInv

LEMMA RestartInv ==
    ASSUME IInv, Restart
    PROVE  IInv' /\ LabelsKept
<1>1. UNCHANGED <<policy, namespace, applied, owned>>
  BY DEF Restart
<1>2. PolicyInv'
  BY DEF Restart, Fresh, IInv, PolicyInv, PolicyDeleted
<1>3. NamespaceInv'
  BY DEF Restart, Fresh, IInv, NamespaceInv
<1>4. ClusterInv' /\ OwnedInv' /\ QueueInv'
  BY DEF Restart, IInv, ClusterInv, OwnedInv, QueueInv
<1>5. BoundInv'
  BY CountsInv DEF Restart, IInv
<1>6. RecsInv'
  BY IdleRec DEF Restart, RecsInv
<1> QED
  BY <1>1, <1>2, <1>3, <1>4, <1>5, <1>6, SameLabels DEF IInv

-----------------------------------------------------------------------------
(* The invariant, and the theorems.                                         *)

LEMMA StutterInv ==
    ASSUME IInv, UNCHANGED vars
    PROVE  IInv' /\ LabelsKept
<1>1. /\ UNCHANGED <<policyVars, namespaceVars, clusterVars, ownedVars, boundVars, rec, queue>>
  BY DEF vars
<1>2. /\ PolicyInv' /\ DeletionFinal /\ NamespaceInv' /\ namespace' = namespace
      /\ ClusterInv' /\ OwnedInv' /\ BoundInv' /\ QueueInv'
  BY <1>1, GroupsUnchanged
<1>3. RecsInv'
  BY <1>1, <1>2, RecsUnchanged DEF IInv
<1> QED
  BY <1>2, <1>3, SameLabels DEF IInv

LEMMA NextInv ==
    ASSUME IInv, [Next]_vars
    PROVE  IInv' /\ LabelsKept
<1>1. CASE UserStep
  BY <1>1, PolicyEditsInv, EditNamespaceInv, ClusterWritesInv DEF UserStep
<1>2. CASE InformerStep
  BY <1>2, SyncPolicyInv, SyncNamespaceInv, SyncClusterInv, OtherEventsInv DEF InformerStep
<1>3. CASE FaultStep
  BY <1>3, ClusterWritesInv, OwnedWritesInv, CallFailsInv, ObjectCallFailsInv, RestartInv
     DEF FaultStep
<1>4. CASE \E p \in Policies : StartReconcile(p)
  BY <1>4, StartReconcileInv
<1>5. CASE \E p \in Policies : ReconcileStep(p)
  BY <1>5, AddFinalizerInv, ApplyObjectsInv, ReconcileClustersInv, UpdateNamespaceInv,
     CleanupNamespaceInv, UpdatePolicyInv, TerminatingInv, ReleaseNamespaceInv,
     RemoveFinalizerInv DEF ReconcileStep
<1>6. CASE \E n \in Namespaces, p \in Policies : CollectGarbage(n, p)
  BY <1>6, OwnedWritesInv
<1>7. CASE UNCHANGED vars
  BY <1>7, StutterInv
<1> QED
  BY <1>1, <1>2, <1>3, <1>4, <1>5, <1>6, <1>7 DEF Next

LEMMA Invariance == Spec => []IInv
<1>1. Init => IInv
  BY InitInv
<1>2. IInv /\ [Next]_vars => IInv'
  BY NextInv
<1> QED
  BY <1>1, <1>2, PTL DEF Spec

\* The policy controller keeps the types of its state: whatever is listed, loses its
\* binding or is written by someone else in between, the namespace a reconcile is at
\* is one it listed, and its queue holds policies only.
THEOREM TypeCorrect == Spec => []TypeOK
BY Invariance, IInvTypes, PTL

\* Which policy a namespace is bound to is decided by its users: UpdateNamespace and
\* cleanupPolicyResources write whole namespaces from copies listed earlier, and the
\* only label that goes by that is the one of a policy under deletion.
THEOREM BindingStaysUsers == Spec => BindingIsUsers
<1>1. IInv /\ [Next]_vars => LabelsKept
  BY NextInv
<1>2. Spec => [][LabelsKept]_vars
  BY <1>1, Invariance, PTL DEF Spec
<1> QED
  BY <1>2 DEF BindingIsUsers, LabelsKept
=============================================================================
