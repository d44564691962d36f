-------------------------- MODULE MCPositionControl -------------------------
(***************************************************************************)
(* An instance of PositionControl: the pitch stick can creep through four  *)
(* positions, the roll stick is in place or away.                          *)
(***************************************************************************)
EXTENDS PositionControl

MCPositions == [s \in Sticks |-> IF s = "pitch" THEN 0 .. 3 ELSE {0, 2}]
=============================================================================
