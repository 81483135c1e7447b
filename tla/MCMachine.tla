----------------------------- MODULE MCMachine -----------------------------
(***************************************************************************)
(* Machine for TLC.  The .cfg files choose the machine (owned or dialed,   *)
(* with or without a binary to upload), its callers and its waiters.       *)
(***************************************************************************)
EXTENDS Machine

=============================================================================
