---------------------------- MODULE MCSerialRpc ----------------------------
(* An instance of SerialRpc for TLC.                                       *)
EXTENDS SerialRpc
=============================================================================
