---------------------------- MODULE MCKeepalive ----------------------------
(***************************************************************************)
(* Keepalive with the timeouts of the local system (KeepaliveConfig: 1m,   *)
(* 2m, 10s) for TLC, in units of 30 seconds, rounded up.                   *)
(***************************************************************************)
EXTENDS Keepalive

=============================================================================
