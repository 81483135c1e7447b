---------------------------- MODULE MCBootstrap ----------------------------
(***************************************************************************)
(* Bootstrap for TLC: a machine started by EC2, whose first program does   *)
(* not know the services.                                                  *)
(***************************************************************************)
EXTENDS Bootstrap

=============================================================================
