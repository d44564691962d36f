-------------------------- MODULE AltitudeTracker ---------------------------
(***************************************************************************)
(* The flight-ceiling alarm of class AltitudeTracker.  The altitude filter *)
(* is abstracted to the zone of the estimated altitude relative to the     *)
(* starting altitude and the ceiling in force: "safe" below 0.8 of the     *)
(* ceiling, "above" the ceiling, "between" otherwise, "invalid" when the   *)
(* barometer has given no altitude yet.                                    *)
(***************************************************************************)
EXTENDS Naturals

CONSTANT AlarmCountThreshold     \* ALARM_COUNT_THRESHOLD, 16
ASSUME ThresholdAssumption == AlarmCountThreshold \in Nat

Zones == {"invalid", "safe", "between", "above"}

VARIABLES hit,     \* flight_ceiling_hit_
          count    \* alarm_count_

trackvars == <<hit, count>>

TrackInit == hit = FALSE /\ count = 0

\* AltitudeTracker::reset and clear_alarm; the starting altitude that reset
\* forgets is taken anew by the next update, and is part of the zone.
ClearCeiling == hit' = FALSE /\ count' = 0

\* A variant whose alarm survives a new ceiling while the count does not.
TrackKeepsHit(zone, enforce, changed) ==
  LET count0 == IF changed THEN 0 ELSE count
  IN  \/ zone = "invalid" /\ UNCHANGED trackvars
      \/ /\ zone = "above" /\ enforce /\ ~hit
         /\ count' = count0 + 1 /\ hit' = (count' > AlarmCountThreshold)
      \/ zone # "invalid" /\ ~(zone = "above" /\ enforce /\ ~hit)
         /\ count' = count0 /\ hit' = (hit /\ zone # "safe")

\* AltitudeTracker::update_state.  A new ceiling clears the alarm first.
TrackAltitude(zone, enforce, changed) ==
  LET hit0   == hit /\ ~changed
      count0 == IF changed THEN 0 ELSE count
  IN  \/ zone = "invalid" /\ UNCHANGED trackvars
      \/ /\ zone = "above" /\ enforce /\ ~hit0
         /\ count' = count0 + 1
         /\ IF count' > AlarmCountThreshold THEN hit' = TRUE ELSE hit' = FALSE
      \/ /\ zone \in {"safe", "between"} /\ enforce /\ ~hit0
         /\ count' = 0 /\ hit' = FALSE
      \/ zone = "safe" /\ ~(enforce /\ ~hit0) /\ ClearCeiling
      \/ /\ zone \in {"between", "above"} /\ ~(enforce /\ ~hit0)
         /\ hit' = hit0 /\ count' = count0
=============================================================================
