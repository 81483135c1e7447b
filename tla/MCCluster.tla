----------------------------- MODULE MCCluster -----------------------------
(***************************************************************************)
(* Instance: a program that starts two machines, a third Machine value for *)
(* Dial, and two addresses that are used again.                            *)
(***************************************************************************)
EXTENDS Cluster
=============================================================================
