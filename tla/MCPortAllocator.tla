-------------------------- MODULE MCPortAllocator --------------------------
(* Instances of PortAllocator for TLC.                                     *)
EXTENDS PortAllocator, TLC

\* Cluster keys and ports are only compared for equality.
Symmetry == Permutations(Clusters) \cup Permutations(Ports)
=============================================================================
