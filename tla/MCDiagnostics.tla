--------------------------- MODULE MCDiagnostics ---------------------------
(***************************************************************************)
(* Instance: two requests for a CPU profile, which share the profilers of  *)
(* the machines, or one request of another kind.                          *)
(***************************************************************************)
EXTENDS Diagnostics

CONSTANTS r1, r2

MCMixes == {[r \in Requests |-> "cpu"]}
           \cup {[r \in Requests |-> IF r = r1 THEN k ELSE "none"] :
                        k \in {"heap", "status", "index", "vars", "save"}}
=============================================================================
