------------------------------ MODULE MCStats ------------------------------
(***************************************************************************)
(* Instance: two calls of a method to one machine, so that every node of   *)
(* their paths is contended.                                               *)
(***************************************************************************)
EXTENDS Stats

CONSTANTS c1, c2

MCMethod == [c \in StatsCalls |-> "f"]
MCAddr == [c \in StatsCalls |-> "m"]
MCElapsed == [c \in StatsCalls |-> IF c = c1 THEN 2 ELSE 3]
=============================================================================
