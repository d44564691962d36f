---------------------------- MODULE RcInterface -----------------------------
(***************************************************************************)
(* What the flight-control loop sees of the RC receiver: which channels    *)
(* are live, the throttle, and whether the motors are armed.  All three    *)
(* change in interrupts, at any moment of the loop.                        *)
(***************************************************************************)
EXTENDS Throttle

CONSTANTS
  Sticks,           \* the yaw, pitch and roll channels; "yaw" is one of them
  Aux               \* the other channels besides the throttle

ASSUME RcAssumption ==
  "yaw" \in Sticks /\ "throttle" \notin Sticks \union Aux

Channels == {"throttle"} \union Sticks \union Aux

VARIABLES live,      \* the channels with a recent pulse
          throttle,  \* RcValueConverter::throttle_
          armed      \* RcValueConverter::motors_armed_

rcvars == <<live, throttle, armed>>

RcInit == live = {} /\ throttle = 0 /\ armed = FALSE

\* A channel has been silent for four of its periods.
Lost(c) == c \in live /\ live' = live \ {c} /\ UNCHANGED <<throttle, armed>>

\* A pulse on channel c.  The values are computed anew from the channels that
\* are live; a dead throttle channel reads 0.  The arming gesture needs every
\* stick and a low throttle.
Pulse(c) ==
  /\ live' = live \union {c}
  /\ \/ UNCHANGED <<throttle, armed>>
     \/ /\ throttle' \in IF "throttle" \in live' THEN ThrottleLevels ELSE {0}
        /\ \/ UNCHANGED armed
           \/ Sticks \subseteq live' /\ throttle' < ArmThrottle /\ armed' = ~armed

\* The user switch.
Switch == armed' = ~armed /\ UNCHANGED <<live, throttle>>

RcNext == (\E c \in Channels : Lost(c) \/ Pulse(c)) \/ Switch

RcSpec == RcInit /\ [][RcNext]_rcvars
=============================================================================
