------------------------ MODULE MCClusterLifecycle ------------------------
(* Instances of ClusterLifecycle for TLC.                                  *)
EXTENDS ClusterLifecycle, TLC

\* Clusters, tokens, roles and versions are only compared for equality.
Symmetry == Permutations(Clusters) \cup Permutations(Tokens)
            \cup Permutations(Roles) \cup Permutations(Versions)
=============================================================================
