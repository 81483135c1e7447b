------------------------------- MODULE MCRpc -------------------------------
(***************************************************************************)
(* Instance: concurrent calls to one address, methods that return errors   *)
(* of kind Net, and two objects for one service name.                      *)
(***************************************************************************)
EXTENDS Rpc, TLC

MCAppErrors == {err("Net", "Temporary")}
MCSymmetry == Permutations(Calls \ Streams) \cup Permutations(Receivers)
=============================================================================
