---------------------------- MODULE MCUartServer ----------------------------
(* An instance of UartServer for TLC: a line of two bytes and one of three, so *)
(* that the ring of four wraps, and answers of one to four bytes, that is of   *)
(* one or two transmissions.                                                   *)
EXTENDS UartServer

MCNewlines == {2, 5}
=============================================================================
