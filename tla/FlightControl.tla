--------------------------- MODULE FlightControl ----------------------------
(***************************************************************************)
(* The flight-control cycle of the main loop: FlightControl::update_state, *)
(* send_throttle_to_motors and the rpc handler, with the ServoController,  *)
(* the motor power, the alarms, AltitudeTracker and AltitudeControl.       *)
(* The receiver's values (RcInterface) change in interrupts, so the loop   *)
(* is cut into steps that read one of them at most.                        *)
(***************************************************************************)
EXTENDS RcInterface, AltitudeTracker, AltitudeControl, Sequences

CONSTANTS
  ChannelOrder,  \* the channels in the order of the receiver
  MotorCount     \* motors of the pilot

ASSUME FlightAssumption ==
  /\ ChannelOrder \in Seq(Channels) /\ ChannelOrder # <<>>
  /\ MotorCount \in Nat \ {0}

\* Severity: Alarm::AlarmType of the alarms that are recorded.
Severity == [none |-> 0, ceiling |-> 1, dead |-> 256]

VARIABLES
  pc,          \* where the loop is
  scan,        \* i of safety_check, then of set_throttle
  alarm,       \* alarm_
  worst,       \* most_critical_alarm_
  servo,       \* ServoController::started_
  power,       \* the motor-power pin
  motor,       \* the pulse of every motor: none, cut off, or the pilot's
  manual,      \* DroneState::flight_mode_ is below altitude hold
  \* history of the cycle: the dead-channel alarm was cleared; the throttle
  \* jumped between the two readings of base_throttle(); the cycles that the
  \* stick has been down in altitude hold, up to three
  recovered, jumped, low

safety  == <<alarm, worst>>
outputs == <<servo, power, motor>>
cycle   == <<recovered, jumped, low>>
vars    == <<rcvars, trackvars, controlvars, pc, scan, safety, outputs, manual, cycle>>

Motors == 1 .. MotorCount

Init ==
  /\ RcInit /\ TrackInit /\ ControlInit
  /\ pc = "begin" /\ scan = 1 /\ alarm = "none" /\ worst = "none"
  /\ servo = FALSE /\ power = FALSE /\ motor = [m \in Motors |-> "none"]
  /\ manual \in BOOLEAN       \* the boot configuration may hold a flight mode
  /\ recovered = FALSE /\ jumped = FALSE /\ low = 0

\* update_state: while disarmed the tracker starts over.
Begin ==
  /\ pc = "begin" /\ pc' = "servo"
  /\ IF armed THEN UNCHANGED trackvars ELSE ClearCeiling
  /\ UNCHANGED <<rcvars, controlvars, scan, safety, outputs, manual, cycle>>

\* process_servo_start_stop_command.  ServoController::start does nothing when
\* started; the timers come up with a pulse of one tick, and arm_motors leaves
\* them so because set_pwm_pulse does nothing until started_ is set.
ServoStart ==
  /\ pc = "servo" /\ armed /\ pc' = "power"
  /\ servo' = TRUE
  /\ UNCHANGED <<rcvars, trackvars, controlvars, scan, safety, power, motor,
                 manual, cycle>>

PowerOn ==
  /\ pc = "power" /\ pc' = "track"
  /\ power' = TRUE
  /\ UNCHANGED <<rcvars, trackvars, controlvars, scan, safety, servo, motor,
                 manual, cycle>>

\* A variant that stops the controller before the power is off.
StopBeforePower ==
  /\ pc = "servo" /\ ~armed /\ pc' = "stop"
  /\ servo' = FALSE /\ motor' = [m \in Motors |-> "none"]
  /\ UNCHANGED <<rcvars, trackvars, controlvars, scan, safety, power, manual, cycle>>

PowerOff ==
  /\ pc = "servo" /\ ~armed /\ pc' = "stop"
  /\ power' = FALSE
  /\ UNCHANGED <<rcvars, trackvars, controlvars, scan, safety, servo, motor,
                 manual, cycle>>

\* A variant that leaves started_ set.
StopKeepsStarted ==
  /\ pc = "stop" /\ pc' = "track"
  /\ motor' = [m \in Motors |-> "none"]
  /\ UNCHANGED <<rcvars, trackvars, controlvars, scan, safety, servo, power, manual,
                 cycle>>

ServoStop ==
  /\ pc = "stop" /\ pc' = "track"
  /\ servo' = FALSE /\ motor' = [m \in Motors |-> "none"]
  /\ UNCHANGED <<rcvars, trackvars, controlvars, scan, safety, power, manual, cycle>>

\* record_alarm and clear_alarm_if.
Record(a) ==
  /\ alarm' = IF Severity[alarm] <= Severity[a] THEN a ELSE alarm
  /\ worst' = IF Severity[worst] < Severity[a] THEN a ELSE worst

\* A variant that clears whatever alarm there is.
ClearAny(a) == alarm' = "none" /\ UNCHANGED worst

ClearIf(a) == alarm' = (IF alarm = a THEN "none" ELSE alarm) /\ UNCHANGED worst

\* The altitude tracker, then the first half of safety_check.
Track ==
  /\ pc = "track" /\ pc' = "scan" /\ scan' = 1
  /\ \E zone \in Zones, enforce, changed \in BOOLEAN :
       TrackAltitude(zone, enforce, changed)
  /\ IF hit' THEN Record("ceiling") ELSE ClearIf("ceiling")
  /\ UNCHANGED <<rcvars, controlvars, outputs, manual, cycle>>

\* The loop over the channels: a dead one is recorded and ends it ...
FindDead ==
  /\ pc = "scan" /\ ChannelOrder[scan] \notin live
  /\ pc' = "read" /\ Record("dead")
  /\ UNCHANGED <<rcvars, trackvars, controlvars, scan, outputs, manual, cycle>>

\* A variant that clears the alarm after every live channel.
ClearEachLive ==
  /\ pc = "scan" /\ ChannelOrder[scan] \in live
  /\ scan' = scan + 1 /\ ClearIf("dead")
  /\ recovered' = (recovered \/ alarm = "dead")
  /\ pc' = IF scan = Len(ChannelOrder) THEN "read" ELSE "scan"
  /\ UNCHANGED <<rcvars, trackvars, controlvars, outputs, manual, jumped, low>>

\* ... and after the last live one the alarm is cleared.
FindLive ==
  /\ pc = "scan" /\ ChannelOrder[scan] \in live
  /\ scan' = scan + 1
  /\ IF scan = Len(ChannelOrder)
     THEN /\ pc' = "read" /\ ClearIf("dead")
          /\ recovered' = (alarm = "dead")
     ELSE UNCHANGED <<pc, safety, recovered>>
  /\ UNCHANGED <<rcvars, trackvars, controlvars, outputs, manual, jumped, low>>

\* The altitude control and the pilot take the throttle t.
Control(t) ==
  /\ ControlThrottle(t, manual)
  /\ low' = IF manual \/ t > Landing THEN 0 ELSE IF low = 3 THEN 3 ELSE low + 1
  /\ pc' = "drive" /\ scan' = 1

\* A variant without the cap.
ReadUncapped ==
  /\ pc = "read"
  /\ Control(throttle)
  /\ UNCHANGED <<rcvars, trackvars, safety, outputs, manual, recovered, jumped>>

\* base_throttle(): an alarm caps the throttle, but what is compared with the
\* cap is not what is returned: the throttle is read twice.
ReadThrottle ==
  /\ pc = "read"
  /\ IF alarm # "none" /\ throttle < Emergency
     THEN pc' = "again" /\ UNCHANGED <<controlvars, low, scan>>
     ELSE Control(IF alarm = "none" THEN throttle ELSE Emergency)
  /\ UNCHANGED <<rcvars, trackvars, safety, outputs, manual, recovered, jumped>>

ReadAgain ==
  /\ pc = "again"
  /\ Control(throttle)
  /\ IF throttle >= Emergency THEN jumped' = TRUE ELSE jumped' = FALSE
  /\ UNCHANGED <<rcvars, trackvars, safety, outputs, manual, recovered>>

\* A variant whose cutoff ends the loop: the motors that follow keep theirs.
DriveEndsAtCut ==
  /\ pc = "drive"
  /\ LET pulse == IF throttle >= Cutoff THEN "pilot" ELSE "cut"
     IN  motor' = IF servo THEN [motor EXCEPT ![scan] = pulse] ELSE motor
  /\ IF scan = MotorCount \/ throttle < Cutoff
     THEN pc' = "rpc" /\ scan' = 1 ELSE scan' = scan + 1 /\ UNCHANGED pc
  /\ UNCHANGED <<rcvars, trackvars, controlvars, safety, servo, power, manual, cycle>>

\* set_throttle for one motor: the pulse is the pilot's unless the throttle,
\* which is read for every motor anew, is below the cutoff; a stopped
\* ServoController ignores it.
Drive ==
  /\ pc = "drive"
  /\ LET pulse == IF throttle >= Cutoff THEN "pilot" ELSE "cut"
     IN  motor' = IF servo THEN [motor EXCEPT ![scan] = pulse] ELSE motor
  /\ IF scan = MotorCount THEN pc' = "rpc" /\ scan' = 1 ELSE scan' = scan + 1 /\ UNCHANGED pc
  /\ UNCHANGED <<rcvars, trackvars, controlvars, safety, servo, power, manual,
                 cycle>>

\* The rpc handler may change the flight mode (sd_flight_mode).
Rpc ==
  /\ pc = "rpc" /\ pc' = "begin"
  /\ manual' \in BOOLEAN
  /\ recovered' = FALSE /\ jumped' = FALSE
  /\ UNCHANGED <<rcvars, trackvars, controlvars, scan, safety, outputs, low>>

Loop ==
  \/ Begin \/ ServoStart \/ PowerOn \/ PowerOff \/ ServoStop \/ Track
  \/ FindDead \/ FindLive \/ ReadThrottle \/ ReadAgain \/ Drive \/ Rpc

Receiver ==
  RcNext /\ UNCHANGED <<trackvars, controlvars, pc, scan, safety, outputs, manual, cycle>>

Time ==
  Settle /\ UNCHANGED <<rcvars, trackvars, pc, scan, safety, outputs, manual, cycle>>

Next == Loop \/ Receiver \/ Time

Spec == Init /\ [][Next]_vars

\* The main loop is the task of the highest priority and its interrupts end.
FairSpec == Spec /\ WF_vars(Loop)

(***************************************************************************)
(* Properties.                                                             *)
(***************************************************************************)

\* Every variable stays in its type.
TypeOK ==
  /\ live \subseteq Channels /\ throttle \in ThrottleLevels /\ armed \in BOOLEAN
  /\ hit \in BOOLEAN /\ count \in 0 .. AlarmCountThreshold + 1
  /\ posture \in Postures /\ output \in 0 .. 1000 /\ lastBase \in 0 .. 1000
  /\ steady \in BOOLEAN /\ manual \in BOOLEAN
  /\ pc \in {"begin", "servo", "power", "stop", "track", "scan", "read", "again",
             "drive", "rpc"}
  /\ scan \in Nat /\ (pc = "scan" => scan \in 1 .. Len(ChannelOrder))
  /\ (pc = "drive" => scan \in Motors)
  /\ alarm \in DOMAIN Severity /\ worst \in DOMAIN Severity
  /\ servo \in BOOLEAN /\ power \in BOOLEAN
  /\ motor \in [Motors -> {"none", "cut", "pilot"}]
  /\ recovered \in BOOLEAN /\ jumped \in BOOLEAN /\ low \in 0 .. 3

\* The motors have power only while the ServoController runs, also between the
\* steps of arming and disarming, and a stopped controller drives no motor
\* (process_servo_start_stop_command, flightcontrol.cpp:82-91).
PowerNeedsPulses ==
  /\ power => servo
  /\ ~servo => \A m \in Motors : motor[m] = "none"

\* The ceiling alarm of the tracker stands exactly while more than the
\* threshold of readings above the ceiling have been counted, however resets,
\* new ceilings and switching the enforcement off and on cut the count short
\* (AltitudeTracker, altitudetracker.cpp:37-42, 145-168).
CeilingCounted == hit <=> count > AlarmCountThreshold

\* The alarm the throttle is capped by tells the truth: a dead channel comes
\* first, then the ceiling.  Only in the cycle that clears a dead channel is a
\* ceiling that is still hit not shown (safety_check, flightcontrol.cpp:133-190).
AlarmsShown ==
  pc \in {"read", "again"} =>
    /\ alarm = "dead" <=> scan <= Len(ChannelOrder)
    /\ alarm = "ceiling" => hit
    /\ hit => alarm # "none" \/ recovered
    /\ Severity[alarm] <= Severity[worst]

\* Under an alarm the drone comes down: in manual mode the throttle is capped,
\* and in altitude hold the cap is a descending stick whatever the pilot does,
\* unless the throttle jumped between the two readings of base_throttle()
\* (flightcontrol.cpp:57-63, altitudecontrol.cpp:71-115).
AlarmComesDown ==
  pc = "drive" /\ alarm # "none" /\ ~jumped =>
    IF manual THEN output <= Emergency ELSE posture \in {"descend", "landed"}

\* A stick that is down in altitude hold reaches the motors in three cycles,
\* although the descent overrides it and the landing keeps the old throttle for
\* a cycle (on_state_descend, altitudecontrol.cpp:102-115).
StickDownLands ==
  pc = "drive" /\ low = 3 => posture = "landed" /\ output <= Landing

\* "Start pulse generation, i.e. PWM output and arm the motors"
\* (servocontroller.h:36): once start has returned, every motor has a pulse.
StartArmsMotors == pc = "power" /\ armed => \A m \in Motors : motor[m] # "none"

\* Disarming takes the power and the pulses away (flightcontrol.cpp:82-91).
DisarmStops == ~armed ~> armed \/ (~power /\ ~servo)

\* A throttle that stays below the cutoff cuts every motor, although it is read
\* once per motor, so that a pass in which it moves cuts some of them and leaves
\* others with the pilot's pulse (set_throttle, flightcontrol.cpp:65-72).
ThrottleDownCuts ==
  <>[](throttle < Cutoff) => <>[](\A m \in Motors : motor[m] # "pilot")

\* A channel that stays dead is reported for good, and a receiver that stays
\* dead altogether brings the drone down (flightcontrol.cpp:147-153, 57-63).
DeadChannelIsReported ==
  \A c \in Channels : <>[](c \notin live) => <>[](alarm = "dead")

LostReceiverComesDown ==
  <>[](live = {}) =>
    <>[](pc = "drive" => IF manual THEN output <= Emergency
                         ELSE posture \in {"descend", "landed"})
=============================================================================
