------------------------------ MODULE Throttle ------------------------------
(* Throttles, in thousandths, and the levels at which the firmware decides.  *)
EXTENDS Integers

CONSTANT ThrottleLevels     \* the positions of the stick considered

ASSUME ThrottleAssumption == ThrottleLevels \subseteq 0 .. 1000 /\ 0 \in ThrottleLevels

Cutoff      == 75       \* below it set_throttle cuts the motors
ArmThrottle == 100      \* the arming gesture wants a throttle below 0.1
Landing     == 200      \* landing_throttle
Emergency   == 450      \* EMERGENCY_THROTTLE
MinHold     == 470      \* min_throttle_altitude_hold
MaxHold     == 530      \* max_throttle_altitude_hold
=============================================================================
