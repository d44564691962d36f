------------------------------ MODULE MCSigmad ------------------------------
(* An instance of Sigmad for TLC: two requests of each client, so that one     *)
(* may find a kept socket and the black box its first round, and as many       *)
(* connections as clients, so that one that is still closing makes the other   *)
(* wait or time out.  The user's first request is for the firmware, its second *)
(* for the daemon.                                                             *)
EXTENDS Sigmad

MCRequests == [k \in Clients |-> 2]
=============================================================================
