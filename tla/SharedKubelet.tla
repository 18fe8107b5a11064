--------------------------- MODULE SharedKubelet ---------------------------
(***************************************************************************)
(* The shared mode kubelet, k3k-kubelet/kubelet.go: one process that runs  *)
(* the pod provider (VirtualPods), the syncers (ObjectSync) and the        *)
(* updater of its node's capacity (NodeCapacity), besides the k3k          *)
(* controller for host pods.                                               *)
(*                                                                         *)
(* These parts, and the syncers of the different kinds, share clients but  *)
(* no state: a behaviour of the whole is any interleaving of their         *)
(* behaviours, and a property of one of them holds of the whole if it      *)
(* holds while the others do nothing.  So a behaviour here is one of the   *)
(* pods alone, of the objects of one kind alone, or of the nodes alone.    *)
(***************************************************************************)
EXTENDS VirtualPods, ObjectSync, NodeCapacity

VARIABLE workload

Workloads == {"pods", "objects", "nodes"}

vars == <<workload, podVars, syncVars, capacityVars>>

TypeOK == workload \in Workloads /\ PodTypeOK /\ SyncTypeOK /\ CapacityTypeOK

Init ==
    /\ workload \in Workloads
    /\ PodInit /\ SyncInit /\ CapacityInit
    /\ workload # "pods" => /\ traits = CHOOSE t \in PodTraits : TRUE
                            /\ world = CHOOSE w \in Worlds : TRUE
                            /\ allowed
    /\ workload # "objects" => kind = (CHOOSE k \in Kinds : TRUE) /\ enabled
    /\ workload # "nodes" => /\ hosts = CHOOSE h \in InitialHosts : TRUE
                             /\ quotas = CHOOSE q \in InitialQuotas : TRUE

\* addControllers and newProviderFunc: what the process runs.
Next ==
    /\ UNCHANGED workload
    /\ \/ workload = "pods" /\ PodNext /\ UNCHANGED syncVars
       \/ workload = "objects" /\ SyncNext /\ UNCHANGED podVars
       \/ workload = "nodes" /\ CapacityNext /\ UNCHANGED <<podVars, syncVars>>
    /\ workload # "nodes" => UNCHANGED capacityVars

Spec == Init /\ [][Next]_vars

\* Nothing of the part that does nothing is ever enabled.
FairSpec == Spec /\ PodFairness /\ SyncFairness /\ CapacityFairness
=============================================================================
