-------------------------- MODULE AltitudeControl ---------------------------
(***************************************************************************)
(* Class AltitudeControl: the flight posture, and the throttle that goes   *)
(* to the pilot in place of the stick's.                                   *)
(* The PID correction is any throttle of ThrottleLevels in its clip range; *)
(* time is the flag that 200 ms have passed since the stick last moved.    *)
(***************************************************************************)
EXTENDS Throttle

Postures == {"landed", "hold", "ascend", "descend"}

VARIABLES posture,    \* state_
          output,     \* throttle_
          lastBase,   \* last_base_throttle_
          steady      \* throttle_hold_.elapsed() has reached 200 ms

controlvars == <<posture, output, lastBase, steady>>

ControlInit == posture = "landed" /\ output = 0 /\ lastBase = 0 /\ steady = TRUE

\* Time passes without a cycle of the loop.
Settle == ~steady /\ steady' = TRUE /\ UNCHANGED <<posture, output, lastBase>>

\* get_pi_dmedian added to the stick and clipped.
Corrected == output' \in {t \in ThrottleLevels : t >= Landing} \union {Landing}

IsHold(t)    == steady /\ t \in MinHold .. MaxHold
IsAscend(t)  == t > MaxHold
IsDescend(t) == t < MinHold

\* on_state_landed
Landed(t) ==
  /\ posture' = IF IsAscend(t) THEN "ascend"
                ELSE IF t > Landing THEN "descend" ELSE "landed"
  /\ output' = t

\* on_state_ascend
Ascending(t) ==
  /\ posture' = IF IsHold(t) THEN "hold"
                ELSE IF IsDescend(t) THEN "descend" ELSE "ascend"
  /\ Corrected

\* A variant that holds the altitude whatever the stick does below.
HoldingOn(t) ==
  /\ posture' = IF IsAscend(t) THEN "ascend" ELSE "hold"
  /\ Corrected

\* on_state_altitude_hold
Holding(t) ==
  /\ posture' = IF IsAscend(t) THEN "ascend"
                ELSE IF IsDescend(t) THEN "descend" ELSE "hold"
  /\ Corrected

\* A variant that never lands.
DescendingOn(t) ==
  /\ posture' = IF IsHold(t) THEN "hold" ELSE IF IsAscend(t) THEN "ascend" ELSE "descend"
  /\ Corrected

\* on_state_descend; landing returns early and leaves throttle_ as it was.
Descending(t) ==
  \/ t <= Landing /\ posture' = "landed" /\ UNCHANGED output
  \/ /\ t > Landing
     /\ posture' = IF IsHold(t) THEN "hold"
                   ELSE IF IsAscend(t) THEN "ascend" ELSE "descend"
     /\ Corrected

\* AltitudeControl::update_state with the stick at t; in a mode below altitude
\* hold the stick passes through and nothing else changes.
ControlThrottle(t, manual) ==
  \/ manual /\ output' = t /\ UNCHANGED <<posture, lastBase, steady>>
  \/ /\ ~manual
     /\ \/ posture = "landed"  /\ Landed(t)
        \/ posture = "ascend"  /\ Ascending(t)
        \/ posture = "hold"    /\ Holding(t)
        \/ posture = "descend" /\ Descending(t)
     /\ lastBase' = t /\ steady' = (steady /\ t = lastBase)
=============================================================================
