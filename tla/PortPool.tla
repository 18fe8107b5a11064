------------------------------ MODULE PortPool ------------------------------
(***************************************************************************)
(* What the kubelet port allocator promises: every virtual cluster leases  *)
(* at most one port of the configured range, and no two clusters lease the *)
(* same one.  PortAllocator is the detailed specification.                 *)
(***************************************************************************)
CONSTANTS Clusters, Ports, NoPort

VARIABLE lease          \* lease[c]: the port c holds, NoPort when it holds none

Init == lease = [c \in Clusters |-> NoPort]

Acquire(c, p) ==
    /\ lease[c] = NoPort
    /\ \A d \in Clusters : lease[d] # p
    /\ lease' = [lease EXCEPT ![c] = p]

Release(c) ==
    /\ lease[c] # NoPort
    /\ lease' = [lease EXCEPT ![c] = NoPort]

Next == \E c \in Clusters : Release(c) \/ \E p \in Ports : Acquire(c, p)

Spec == Init /\ [][Next]_lease
=============================================================================
