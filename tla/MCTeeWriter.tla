---------------------------- MODULE MCTeeWriter ----------------------------
(***************************************************************************)
(* TeeWriter for TLC.  The .cfg files choose the writers (one, or the two  *)
(* that local.go attaches to a process), the sinks and a buffer of 2 bytes *)
(* with writes that fit it and writes that are longer.                     *)
(***************************************************************************)
EXTENDS TeeWriter

=============================================================================
