-------------------------- MODULE MCPolicyBinding --------------------------
(* Instances of PolicyBinding for TLC.                                     *)
EXTENDS PolicyBinding, TLC

CONSTANTS p1, p2, n1, c1, v1, v2

\* A policy that sets everything but a limit, and one without isolation, quota
\* and Pod Security level.
Full == [isolated |-> TRUE, quota |-> v1, limit |-> None, psa |-> v1, defaults |-> v1]
Bare == [isolated |-> FALSE, quota |-> None, limit |-> None, psa |-> None, defaults |-> v2]
MCSpecs == {Full, Bare}
MCFirstSpec == (p1 :> Full) @@ (p2 :> Bare)

MCNamespaceOf == [c \in {c1} |-> n1]
=============================================================================
