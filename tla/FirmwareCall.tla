---------------------------- MODULE FirmwareCall ----------------------------
(***************************************************************************)
(* What the daemon can rely on when it forwards a request to the firmware: *)
(* the serial link as one step per call.  Ids are not compared, so that    *)
(* after a call without its own answer a later one may return an answer to *)
(* an earlier call; but answers come at most once and in order.  SerialRpc *)
(* implements this.                                                        *)
(***************************************************************************)

\* What a call returns: the answer to its own request; a late answer, to an
\* earlier request, but newer than all that calls before it returned; or nothing
\* that can be used (an exception, an empty or cut response, an error).
Results == {"own", "late", "nothing"}

VARIABLE late   \* a call ended without its own answer, which may come later

Init == late = FALSE

Call(r) ==
  /\ r \in Results
  /\ r = "late" => late
  /\ late' = (late \/ r # "own")
=============================================================================
