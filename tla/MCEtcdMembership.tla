------------------------- MODULE MCEtcdMembership -------------------------
(* Instances of EtcdMembership for TLC.                                    *)
EXTENDS EtcdMembership, TLC

CONSTANTS a, b, i1, i2

\* A cluster that has been running with two servers.
TwoServers == (a :> i1) @@ (b :> i2)
=============================================================================
