---------------------------- MODULE MCTimeStamp ----------------------------
(* An instance of TimeStamp for TLC.                                       *)
EXTENDS TimeStamp
=============================================================================
