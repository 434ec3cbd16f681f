------------------------------ MODULE MCPanel ------------------------------
(***************************************************************************)
(* An instance of Panel for TLC with three game servers, two of which have *)
(* ids that begin with the same eight characters.                          *)
(***************************************************************************)
EXTENDS Panel

MCShort == [s \in Owners |-> IF s = 3 THEN 3 ELSE 1]
=============================================================================
