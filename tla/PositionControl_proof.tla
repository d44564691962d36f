----------------------- MODULE PositionControl_proof ------------------------
(***************************************************************************)
(* The safety of PositionControl, proved for any sticks and positions, any *)
(* tolerance and any number of sentences.                                  *)
(***************************************************************************)
EXTENDS PositionControl, TLAPS

\* While a hold goes on, the recorded sticks do not change: the sticks of every
\* cycle and those at the beginning are compared with the same ones.
HoldInv ==
  /\ Tracking => /\ Within(began, recorded, Tolerance)
                 /\ Within(sticks, recorded, Tolerance)
  /\ swing = "hold" => Tracking

\* The location of the DroneState is that of the last sentence; between the two
\* writes the longitude is still that of the sentence before.
PlaceInv ==
  /\ latitude \in {fix, Invalid}
  /\ longitude \in {IF gps = "half" THEN fix - 1 ELSE fix, Invalid}
  /\ gps = "half" => fix > 0

Inv == TypeOK /\ HoldInv /\ PlaceInv /\ TargetIsRecent

\* Two differences of at most d add up to at most 2 * d (has_rc_value_changed
\* is not transitive).
LEMMA WithinTwice ==
  ASSUME NEW p \in AllSticks, NEW q \in AllSticks, NEW r \in AllSticks,
         NEW d \in Nat, Within(p, r, d), Within(q, r, d)
  PROVE  Within(p, q, 2 * d)
<1>1. SUFFICES ASSUME NEW s \in Sticks PROVE p[s] - q[s] \in -(2 * d) .. 2 * d
  BY DEF Within
<1>2. p[s] \in Int /\ q[s] \in Int /\ r[s] \in Int
  BY PositionAssumption DEF AllSticks
<1>3. p[s] - r[s] \in -d .. d /\ q[s] - r[s] \in -d .. d
  BY DEF Within
<1>. QED
  BY <1>2, <1>3

\* The sticks at rest are a position the sticks can have.
LEMMA NeutralIsAPosition == Neutral \in AllSticks
  BY PositionAssumption DEF Neutral, AllSticks

LEMMA InitInv == Init => Inv
<1>1. SUFFICES ASSUME Init PROVE Inv
  OBVIOUS
<1>2. TypeOK
  <2>1. target \in [latitude : 0 .. MaxFix, longitude : 0 .. MaxFix]
    BY <1>1, PositionAssumption DEF Init, NoTarget, Invalid
  <2>2. sticks \in AllSticks /\ recorded \in AllSticks /\ began \in AllSticks
    BY <1>1, NeutralIsAPosition DEF Init
  <2>3. /\ age \in 0 .. Oldest /\ fix \in 0 .. MaxFix
        /\ latitude \in 0 .. MaxFix /\ longitude \in 0 .. MaxFix
    BY <1>1, PositionAssumption DEF Init, Oldest, Invalid
  <2>4. /\ pc \in {"update", "rpc"} /\ gps \in {"wait", "half"}
        /\ armed \in BOOLEAN /\ loiter \in BOOLEAN /\ late \in BOOLEAN
        /\ swing \in {"pilot", "hold"} /\ error \in {"zero", "measured"}
    BY <1>1 DEF Init
  <2>. QED
    BY <2>1, <2>2, <2>3, <2>4 DEF TypeOK
<1>3. HoldInv
  BY <1>1 DEF Init, HoldInv, Tracking, NoTarget, Invalid
<1>4. PlaceInv
  BY <1>1 DEF Init, PlaceInv, Invalid
<1>5. TargetIsRecent
  BY <1>1 DEF Init, TargetIsRecent
<1>. QED
  BY <1>2, <1>3, <1>4, <1>5 DEF Inv

\* What every cycle keeps.
LEMMA SampleKeeps ==
  ASSUME Inv, Sample PROVE
    /\ PlaceInv'
    /\ pc' \in {"update", "rpc"} /\ gps' \in {"wait", "half"}
    /\ sticks' \in AllSticks /\ armed' \in BOOLEAN /\ loiter' \in BOOLEAN
    /\ late' \in BOOLEAN
    /\ latitude' \in 0 .. MaxFix /\ longitude' \in 0 .. MaxFix /\ fix' \in 0 .. MaxFix
  BY DEF Inv, TypeOK, Sample, PlaceInv, place

LEMMA StopInv == ASSUME Inv, Stop PROVE Inv'
<1>1. Sample /\ UNCHANGED <<recorded, age, error>> /\ target' = NoTarget
      /\ swing' = "pilot" /\ began' = Neutral
  BY DEF Stop, base
<1>2. TypeOK'
  BY <1>1, SampleKeeps, NeutralIsAPosition, PositionAssumption
     DEF Inv, TypeOK, NoTarget, Invalid, Oldest
<1>3. HoldInv' /\ TargetIsRecent'
  BY <1>1 DEF HoldInv, TargetIsRecent, Tracking, NoTarget, Invalid
<1>. QED
  BY <1>1, <1>2, <1>3, SampleKeeps DEF Inv

LEMMA FollowInv == ASSUME Inv, Follow PROVE Inv'
<1>1. Sample /\ Tracking /\ UNCHANGED <<recorded, age, target, began>>
      /\ swing' = "hold" /\ error' = "measured"
  BY DEF Follow, base
<1>2. Within(sticks', recorded, Tolerance)
  BY DEF Follow, ShouldStop
<1>3. TypeOK'
  BY <1>1, SampleKeeps DEF Inv, TypeOK, Oldest
<1>4. HoldInv'
  BY <1>1, <1>2 DEF Inv, HoldInv, Tracking, Within, Invalid
<1>5. TargetIsRecent'
  BY <1>1 DEF Inv, TargetIsRecent, Tracking, NoTarget
<1>. QED
  BY <1>1, <1>3, <1>4, <1>5, SampleKeeps DEF Inv

\* The location at which a hold starts is recent because the place is.
LEMMA StartInv == ASSUME Inv, Start PROVE Inv'
<1>1. Sample /\ ShouldStart /\ UNCHANGED <<recorded, age>>
      /\ target' = [latitude |-> latitude, longitude |-> longitude]
      /\ swing' = "pilot" /\ error' = "zero" /\ began' = sticks'
  BY DEF Start, base
<1>2. TypeOK'
  BY <1>1, SampleKeeps DEF Inv, TypeOK, Oldest
<1>3. HoldInv'
  BY <1>1 DEF HoldInv, ShouldStart, Within
<1>4. TargetIsRecent'
  <2>1. latitude # Invalid /\ longitude # Invalid
    BY <1>1 DEF ShouldStart, Located
  <2>2. latitude = fix /\ longitude \in {fix, fix - 1} /\ fix \in Nat
    BY <2>1 DEF Inv, PlaceInv, TypeOK
  <2>3. target'.latitude = latitude /\ target'.longitude = longitude
    BY <1>1
  <2>. QED
    BY <2>1, <2>2, <2>3 DEF TargetIsRecent, Tracking
<1>. QED
  BY <1>1, <1>2, <1>3, <1>4, SampleKeeps DEF Inv

LEMMA WaitInv == ASSUME Inv, Wait PROVE Inv'
<1>1. Sample /\ ~Tracking /\ UNCHANGED <<target, began>>
      /\ swing' = "pilot" /\ error' = "zero"
  BY DEF Wait
<1>2. recorded' \in AllSticks /\ age' \in 0 .. Oldest
  <2>1. CASE Record
    BY <2>1, <1>1, SampleKeeps, PositionAssumption DEF Record, Oldest
  <2>2. CASE UNCHANGED base
    BY <2>2 DEF base, Inv, TypeOK, Oldest
  <2>. QED
    BY <2>1, <2>2 DEF Wait
<1>3. TypeOK'
  BY <1>1, <1>2, SampleKeeps DEF Inv, TypeOK, Oldest
<1>4. HoldInv' /\ TargetIsRecent'
  BY <1>1 DEF Inv, HoldInv, TargetIsRecent, Tracking, NoTarget, Invalid
<1>. QED
  BY <1>1, <1>3, <1>4, SampleKeeps DEF Inv

\* The two writes of the gps task touch the place only.
LEMMA GpsInv == ASSUME Inv, WriteLatitude \/ WriteLongitude PROVE Inv'
<1>1. UNCHANGED <<pc, sticks, armed, loiter, recorded, age, late, target,
                  swing, error, began>>
  BY DEF WriteLatitude, WriteLongitude, receiver, base, outputs
<1>2. HoldInv' /\ TargetIsRecent'
  BY <1>1 DEF Inv, HoldInv, TargetIsRecent, Tracking, NoTarget, Within, Invalid
<1>3. PlaceInv' /\ gps' \in {"wait", "half"} /\ latitude' \in 0 .. MaxFix
      /\ longitude' \in 0 .. MaxFix /\ fix' \in 0 .. MaxFix
  <2>1. CASE WriteLatitude
    BY <2>1, PositionAssumption DEF WriteLatitude, Inv, PlaceInv, TypeOK, Invalid
  <2>2. CASE WriteLongitude
    BY <2>2, PositionAssumption DEF WriteLongitude, Inv, PlaceInv, TypeOK, Invalid
  <2>. QED
    BY <2>1, <2>2
<1>4. TypeOK'
  BY <1>1, <1>3 DEF Inv, TypeOK, Oldest
<1>. QED
  BY <1>2, <1>3, <1>4 DEF Inv

\* The rpc handler and time change neither the hold nor the place.
LEMMA RestInv == ASSUME Inv, Rpc \/ Tick \/ UNCHANGED vars PROVE Inv'
<1>1. UNCHANGED <<sticks, armed, recorded, target, swing, error, latitude,
                  longitude, fix, gps, began>>
  BY DEF Rpc, Tick, vars, receiver, base, place, outputs
<1>2. pc' \in {"update", "rpc"} /\ loiter' \in BOOLEAN /\ late' \in BOOLEAN
  BY DEF Inv, TypeOK, Rpc, Tick, vars
<1>3. age' \in 0 .. Oldest
  BY PositionAssumption DEF Inv, TypeOK, Rpc, Tick, vars, base, Oldest
<1>4. TypeOK'
  BY <1>1, <1>2, <1>3 DEF Inv, TypeOK, Oldest
<1>5. HoldInv' /\ TargetIsRecent' /\ PlaceInv'
  BY <1>1 DEF Inv, HoldInv, TargetIsRecent, PlaceInv, Tracking, NoTarget, Within, Invalid
<1>. QED
  BY <1>4, <1>5 DEF Inv

LEMMA InvHolds == HoldInv /\ TypeOK => HoldYields
<1>1. SUFFICES ASSUME HoldInv, TypeOK, Tracking
               PROVE  Within(sticks, began, 2 * Tolerance)
  BY DEF HoldInv, HoldYields
<1>. QED
  BY <1>1, WithinTwice, PositionAssumption DEF HoldInv, TypeOK

\* The invariant holds in every state.
THEOREM InvCorrect == Spec => []Inv
<1>1. ASSUME Inv, [Next]_vars PROVE Inv'
  BY <1>1, StopInv, FollowInv, StartInv, WaitInv, GpsInv, RestInv DEF Next, Cycle
<1>. QED
  BY InitInv, <1>1, PTL DEF Spec

\* The variables of PositionControl have their types.
THEOREM TypeCorrect == Spec => []TypeOK
  BY InvCorrect, PTL DEF Inv

\* The pilot's sticks win over a hold (should_stop_tracking).
THEOREM PilotWins == Spec => []HoldYields
<1>1. Inv => HoldYields
  BY InvHolds DEF Inv
<1>. QED
  BY <1>1, InvCorrect, PTL

\* A hold is never begun at a mixture older than one sentence.
THEOREM TargetCorrect == Spec => []TargetIsRecent
  BY InvCorrect, PTL DEF Inv
=============================================================================
