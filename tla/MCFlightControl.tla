-------------------------- MODULE MCFlightControl ---------------------------
(* An instance of FlightControl for TLC: two motors, so that one pass may cut  *)
(* the one and drive the other, and the two channels that are treated in a way *)
(* of their own.                                                               *)
EXTENDS FlightControl

MCOrder == <<"throttle", "yaw">>
=============================================================================
