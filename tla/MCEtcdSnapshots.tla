-------------------------- MODULE MCEtcdSnapshots --------------------------
(* Instances of EtcdSnapshots for TLC.                                     *)
EXTENDS EtcdSnapshots, TLC
=============================================================================
