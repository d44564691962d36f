--------------------------- MODULE PositionControl --------------------------
(***************************************************************************)
(* PositionControl: in loiter or mission mode, with the sticks where they  *)
(* were on the ground, the drone holds the location at which this began.   *)
(* FlightControl::update_state calls update_state once in a cycle, with    *)
(* copies of the receiver's values that it has just taken.  The location   *)
(* is written by the gps task, of lower priority: the main task preempts   *)
(* it between the latitude and the longitude, it never runs while the main *)
(* task does.                                                              *)
(***************************************************************************)
EXTENDS Integers

CONSTANTS
  Sticks,      \* the sticks that steer the position: pitch and roll
  Positions,   \* [Sticks -> sets of positions], in units of the tolerance
  Tolerance,   \* has_rc_value_changed: a larger difference is a change
  StartAge,    \* the age of the recorded sticks at which a hold may start
  RecordAge,   \* beyond this age the sticks are recorded again
  MaxFix       \* bound: sentences with a position

ASSUME PositionAssumption ==
  /\ Positions \in [Sticks -> SUBSET Int] /\ \A s \in Sticks : 0 \in Positions[s]
  /\ Tolerance \in Nat /\ StartAge \in Nat /\ RecordAge \in Nat /\ MaxFix \in Nat
  /\ StartAge <= RecordAge

VARIABLES
  pc,        \* the main task: about to update the state, or at the rpc handler
  sticks,    \* DroneState::pitch_ and roll_
  armed,     \* DroneState::motors_armed_
  loiter,    \* DroneState::flight_mode_ is loiter or mission
  recorded,  \* rc_value_pitch_ and rc_value_roll_
  age,       \* rc_record_ts_.elapsed(), up to RecordAge + 1
  late,      \* a unit of time has passed since the last cycle
  target,    \* target_location_
  swing,     \* DroneState::target_swing_: the pilot's, or that of the hold
  error,     \* DroneState::position_error_: zero, or measured
  latitude, longitude,  \* of DroneState: the number of their sentence
  fix, gps,  \* sentences so far; whether the gps task is between the two writes
  began      \* history: the sticks when the hold began, Neutral between holds

receiver == <<sticks, armed>>
base     == <<recorded, age>>
place    == <<latitude, longitude, fix, gps>>
outputs  == <<swing, error>>
vars     == <<pc, receiver, loiter, base, late, target, outputs, place, began>>

\* INVALID_ANGLE; sentences are numbered from 1.
Invalid  == 0
Located  == latitude # Invalid /\ longitude # Invalid
NoTarget == [latitude |-> Invalid, longitude |-> Invalid]
\* is_tracking: the target location is valid.
Tracking == target.latitude # Invalid /\ target.longitude # Invalid

AllSticks == {p \in [Sticks -> UNION {Positions[s] : s \in Sticks}] :
                \A s \in Sticks : p[s] \in Positions[s]}
Neutral == [s \in Sticks |-> 0]
\* No stick differs by more than d.
Within(p, q, d) == \A s \in Sticks : p[s] - q[s] \in -d .. d
Oldest == RecordAge + 1

Init ==
  /\ pc = "update"
  /\ sticks = Neutral /\ recorded = sticks /\ began = sticks
  /\ armed = FALSE /\ loiter \in BOOLEAN
  /\ age = Oldest /\ late = FALSE       \* the stamp is that of the boot
  /\ target = NoTarget /\ swing = "pilot" /\ error = "zero"
  /\ latitude = Invalid /\ longitude = Invalid /\ fix = 0 /\ gps = "wait"

\* FlightControl::update_state takes the receiver's values and the target
\* attitude of the pilot, then calls PositionControl::update_state.
Sample ==
  /\ pc = "update" /\ pc' = "rpc"
  /\ sticks' \in AllSticks /\ armed' \in BOOLEAN
  /\ late' = FALSE
  /\ UNCHANGED <<loiter, place>>

\* A variant that compares the sticks with those of the cycle before.
ShouldStopCreep == ~loiter \/ ~Within(sticks', sticks, Tolerance)

\* should_stop_tracking
ShouldStop == ~loiter \/ ~Within(sticks', recorded, Tolerance)

\* should_start_tracking: it is called twice in a row, and the second call
\* cannot disagree: the stamp only gets older.
ShouldStart ==
  /\ armed' /\ loiter
  /\ Within(sticks', recorded, Tolerance)
  /\ age >= StartAge
  /\ Located

\* stop_tracking; the reported error stays until the next cycle.
Stop ==
  /\ Tracking /\ Sample
  /\ ShouldStop \/ ~Located
  /\ target' = NoTarget /\ swing' = "pilot" /\ began' = Neutral
  /\ UNCHANGED <<base, error>>

\* calculate_target_swing replaces the pilot's swing.
Follow ==
  /\ Tracking /\ Sample /\ ~ShouldStop /\ Located
  /\ swing' = "hold" /\ error' = "measured"
  /\ UNCHANGED <<base, target, began>>

\* start_tracking: in this cycle the swing is still the pilot's.  The altitude
\* of the target, valid from the fourth cycle on, is left out.
Start ==
  /\ ~Tracking /\ Sample /\ ShouldStart
  /\ target' = [latitude |-> latitude, longitude |-> longitude]
  /\ swing' = "pilot" /\ error' = "zero" /\ began' = sticks'
  /\ UNCHANGED base

\* A variant that records in every cycle on the ground.
RecordAlways == recorded' = sticks' /\ age' = 0

\* record_base_rc_values_if_landed, when the pilot's throttle is low.
Record ==
  /\ age > RecordAge
  /\ recorded' = sticks' /\ age' = 0

Wait ==
  /\ ~Tracking /\ Sample /\ ~ShouldStart
  /\ Record \/ UNCHANGED base     \* unchanged also in flight, at any age
  /\ swing' = "pilot" /\ error' = "zero"
  /\ UNCHANGED <<target, began>>

\* The rpc handler may change the flight mode.
Rpc ==
  /\ pc = "rpc" /\ pc' = "update"
  /\ loiter' \in BOOLEAN
  /\ UNCHANGED <<receiver, base, late, target, outputs, place, began>>

\* gps_task: a sentence has been parsed; the latitude is written, then the
\* longitude.  A coordinate out of range becomes INVALID_ANGLE.
WriteLatitude ==
  /\ pc = "update" /\ gps = "wait" /\ fix < MaxFix
  /\ fix' = fix + 1 /\ gps' = "half"
  /\ latitude' \in {fix', Invalid}
  /\ UNCHANGED <<pc, receiver, loiter, base, late, target, outputs, longitude, began>>

\* A variant of the task that skips a coordinate it cannot use.
WriteIfValid ==
  /\ pc = "update" /\ gps = "half" /\ gps' = "wait"
  /\ longitude' \in {fix, longitude}
  /\ UNCHANGED <<pc, receiver, loiter, base, late, target, outputs, latitude, fix, began>>

WriteLongitude ==
  /\ pc = "update" /\ gps = "half" /\ gps' = "wait"
  /\ longitude' \in {fix, Invalid}
  /\ UNCHANGED <<pc, receiver, loiter, base, late, target, outputs, latitude, fix, began>>

\* Time passes.  A cycle takes a few milliseconds, a unit is a hundred: there
\* is a cycle between two units.
Tick ==
  /\ ~late /\ late' = TRUE
  /\ age' = IF age < Oldest THEN age + 1 ELSE age
  /\ UNCHANGED <<pc, receiver, loiter, recorded, target, outputs, place, began>>

Cycle == Stop \/ Follow \/ Start \/ Wait
Next  == Cycle \/ Rpc \/ WriteLatitude \/ WriteLongitude \/ Tick

Spec     == Init /\ [][Next]_vars
FairSpec == Spec /\ WF_vars(Cycle) /\ WF_vars(Rpc) /\ WF_vars(Tick)

(***************************************************************************)
(* Properties.                                                             *)
(***************************************************************************)

TypeOK ==
  /\ pc \in {"update", "rpc"} /\ gps \in {"wait", "half"}
  /\ sticks \in AllSticks /\ recorded \in AllSticks /\ began \in AllSticks
  /\ armed \in BOOLEAN /\ loiter \in BOOLEAN /\ late \in BOOLEAN
  /\ age \in 0 .. Oldest
  /\ target \in [latitude : 0 .. MaxFix, longitude : 0 .. MaxFix]
  /\ swing \in {"pilot", "hold"} /\ error \in {"zero", "measured"}
  /\ latitude \in 0 .. MaxFix /\ longitude \in 0 .. MaxFix /\ fix \in 0 .. MaxFix

\* The pilot's sticks win: while a hold goes on no stick has left the place it
\* had when the hold began by more than twice the tolerance, however slowly it
\* is moved, and the swing is the hold's only while one goes on
\* (should_stop_tracking, positioncontrol.cpp:55-60).
HoldYields ==
  /\ Tracking => Within(sticks, began, 2 * Tolerance)
  /\ swing = "hold" => Tracking

\* The location that is held is that of one sentence, or the latitude of one
\* with the longitude of the one just before, when the main task preempted the
\* gps task between its two writes (main.cpp:137-138): never an older mixture,
\* and never half a location (start_tracking, positioncontrol.cpp:87-95).
TargetIsRecent ==
  target = NoTarget \/
    /\ Tracking
    /\ target.latitude - target.longitude \in {0, 1}

\* With the motors armed in loiter mode, a location, and the sticks where they
\* were recorded, a hold begins and stays, on the ground and in flight: the
\* recording of the sticks on the ground, which makes them young again, does
\* not put it off for ever (positioncontrol.cpp:75-77, 102-109).
HoldBegins ==
  <>[](armed /\ loiter /\ Located /\ Within(sticks, recorded, Tolerance))
    => <>[]Tracking
=============================================================================
