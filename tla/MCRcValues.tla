----------------------------- MODULE MCRcValues -----------------------------
(* An instance of RcValues for TLC: the throttle and two of the three sticks. *)
EXTENDS RcValues
=============================================================================
