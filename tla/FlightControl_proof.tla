------------------------ MODULE FlightControl_proof -------------------------
(***************************************************************************)
(* Theorems about FlightControl, for any channels, number of motors,       *)
(* throttle levels and alarm threshold.  The invariant says, for every     *)
(* point of the cycle, how far the safety check has come and what the last *)
(* cycles of the altitude control have led to.                             *)
(***************************************************************************)
EXTENDS FlightControl, TLAPS

-----------------------------------------------------------------------------
(* The parts of the inductive invariant.                                   *)

RcType ==
  live \subseteq Channels /\ throttle \in ThrottleLevels /\ armed \in BOOLEAN

TrackType == hit \in BOOLEAN /\ count \in 0 .. AlarmCountThreshold + 1

ControlType ==
  /\ posture \in Postures /\ output \in 0 .. 1000 /\ lastBase \in 0 .. 1000
  /\ steady \in BOOLEAN /\ low \in 0 .. 3

LoopType ==
  /\ pc \in {"begin", "servo", "power", "stop", "track", "scan", "read", "again",
             "drive", "rpc"}
  /\ scan \in Nat
  /\ pc = "scan" => scan \in 1 .. Len(ChannelOrder)
  /\ pc = "drive" => scan \in Motors
  /\ manual \in BOOLEAN /\ recovered \in BOOLEAN /\ jumped \in BOOLEAN

AlarmType == alarm \in DOMAIN Severity /\ worst \in DOMAIN Severity

ServoType ==
  /\ servo \in BOOLEAN /\ power \in BOOLEAN
  /\ motor \in [Motors -> {"none", "cut", "pilot"}]

\* Power is switched on after the start and off before the stop.
ServoInv ==
  /\ PowerNeedsPulses
  /\ pc = "power" => servo
  /\ pc = "stop" => ~power

\* From the tracker to the end of the scan the alarm follows the ceiling.
AlarmInv ==
  /\ Severity[alarm] <= Severity[worst]
  /\ pc = "scan" => (alarm = "ceiling" => hit) /\ (hit => alarm # "none")
  /\ AlarmsShown

\* Every cycle with the stick down is a step of the landing.
LandingInv ==
  /\ low >= 1 => posture \in {"descend", "landed"}
  /\ low >= 2 => posture = "landed"
  /\ low = 3 => output <= Landing

Inv ==
  /\ RcType /\ TrackType /\ ControlType /\ LoopType /\ AlarmType /\ ServoType
  /\ ServoInv /\ CeilingCounted /\ AlarmInv /\ AlarmComesDown /\ LandingInv

-----------------------------------------------------------------------------
(* Lemmas about the components.                                            *)

LEMMA Levels == throttle \in ThrottleLevels => throttle \in 0 .. 1000
BY ThrottleAssumption

LEMMA OrderLength == Len(ChannelOrder) \in Nat \ {0}
BY FlightAssumption

LEMMA SeverityOrder ==
  /\ DOMAIN Severity = {"none", "ceiling", "dead"}
  /\ Severity["none"] = 0 /\ Severity["ceiling"] = 1 /\ Severity["dead"] = 256
BY DEF Severity

\* The receiver keeps its types.
LEMMA RcStep == RcType /\ RcNext => RcType'
<1>. SUFFICES ASSUME RcType, RcNext PROVE RcType'
  OBVIOUS
<1>1. ASSUME NEW c \in Channels, Lost(c) PROVE RcType'
  BY <1>1 DEF Lost, RcType
<1>2. ASSUME NEW c \in Channels, Pulse(c) PROVE RcType'
  <2>1. live' \subseteq Channels
    BY <1>2 DEF Pulse, RcType
  <2>2. throttle' \in ThrottleLevels
    BY <1>2, ThrottleAssumption DEF Pulse, RcType
  <2>3. armed' = armed \/ armed' = ~armed
    BY <1>2 DEF Pulse
  <2>. QED  BY <2>1, <2>2, <2>3 DEF RcType
<1>3. CASE Switch
  BY <1>3 DEF Switch, RcType
<1>. QED  BY <1>1, <1>2, <1>3 DEF RcNext

\* An update of the tracker keeps the alarm and the count together.
LEMMA TrackStep ==
  ASSUME TrackType, CeilingCounted, NEW zone \in Zones,
         NEW enforce \in BOOLEAN, NEW changed \in BOOLEAN,
         TrackAltitude(zone, enforce, changed)
  PROVE  TrackType' /\ CeilingCounted'
<1>. DEFINE hit0   == hit /\ ~changed
            count0 == IF changed THEN 0 ELSE count
<1>0. AlarmCountThreshold \in Nat
  BY ThresholdAssumption
<1>1. /\ hit0 \in BOOLEAN /\ count0 \in 0 .. AlarmCountThreshold + 1
      /\ hit0 <=> count0 > AlarmCountThreshold
  <2>1. CASE changed
    BY <1>0, <2>1 DEF TrackType
  <2>2. CASE ~changed
    BY <1>0, <2>2 DEF TrackType, CeilingCounted
  <2>. QED  BY <2>1, <2>2
<1>2. \/ UNCHANGED trackvars
      \/ /\ ~hit0 /\ count' = count0 + 1
         /\ IF count' > AlarmCountThreshold THEN hit' = TRUE ELSE hit' = FALSE
      \/ count' = 0 /\ hit' = FALSE
      \/ hit' = hit0 /\ count' = count0
  BY DEF TrackAltitude, ClearCeiling
<1>. HIDE DEF hit0, count0
<1>3. CASE UNCHANGED trackvars
  BY <1>3 DEF trackvars, TrackType, CeilingCounted
<1>4. CASE /\ ~hit0 /\ count' = count0 + 1
           /\ IF count' > AlarmCountThreshold THEN hit' = TRUE ELSE hit' = FALSE
  <2>1. count0 <= AlarmCountThreshold /\ count' \in 0 .. AlarmCountThreshold + 1
    BY <1>0, <1>1, <1>4
  <2>2. hit' \in BOOLEAN /\ (hit' <=> count' > AlarmCountThreshold)
    BY <1>0, <1>4, <2>1
  <2>. QED  BY <2>1, <2>2 DEF TrackType, CeilingCounted
<1>5. CASE count' = 0 /\ hit' = FALSE
  <2>1. ~(count' > AlarmCountThreshold) /\ count' \in 0 .. AlarmCountThreshold + 1
    BY <1>0, <1>5
  <2>2. ~hit' /\ hit' \in BOOLEAN
    BY <1>5
  <2>. QED  BY <2>1, <2>2 DEF TrackType, CeilingCounted
<1>6. CASE hit' = hit0 /\ count' = count0
  <2>1. hit' \in BOOLEAN /\ (hit' <=> hit0)
    BY <1>1, <1>6
  <2>. QED  BY <1>1, <1>6, <2>1 DEF TrackType, CeilingCounted
<1>. QED  BY <1>2, <1>3, <1>4, <1>5, <1>6

\* A throttle that is at most the emergency throttle makes the drone descend.
LEMMA ControlStep ==
  ASSUME ControlType, LandingInv, manual \in BOOLEAN, NEW t \in 0 .. 1000, Control(t)
  PROVE  /\ ControlType' /\ LandingInv'
         /\ t <= Emergency => IF manual THEN output' <= Emergency
                              ELSE posture' \in {"descend", "landed"}
<1>. USE DEF Landing, Emergency, MinHold, MaxHold
<1>1. low' = IF manual \/ t > Landing THEN 0 ELSE IF low = 3 THEN 3 ELSE low + 1
  BY DEF Control
<1>2. CASE manual
  <2>1. output' = t /\ UNCHANGED <<posture, lastBase, steady>> /\ low' = 0
    BY <1>1, <1>2 DEF Control, ControlThrottle
  <2>. QED  BY <1>2, <2>1 DEF ControlType, LandingInv
<1>3. CASE ~manual
  <2>0. low \in 0 .. 3 /\ posture \in Postures /\ output \in 0 .. 1000
    BY DEF ControlType
  <2>1. lastBase' = t /\ steady' = (steady /\ t = lastBase)
    BY <1>3 DEF Control, ControlThrottle
  <2>2. Corrected => output' \in 0 .. 1000
    BY ThrottleAssumption DEF Corrected
  <2>3. /\ output' \in 0 .. 1000 /\ posture' \in Postures
        /\ t <= Emergency => posture' \in {"descend", "landed"}
        /\ t <= Landing /\ posture \in {"descend", "landed"} => posture' = "landed"
        /\ t <= Landing /\ posture = "landed" => output' <= Landing
    <3>1. CASE posture = "landed" /\ Landed(t)
      BY <3>1 DEF Landed, IsAscend, Postures
    <3>2. CASE posture = "ascend" /\ Ascending(t)
      BY <2>2, <3>2 DEF Ascending, IsHold, IsDescend, Postures
    <3>3. CASE posture = "hold" /\ Holding(t)
      BY <2>2, <3>3 DEF Holding, IsAscend, IsDescend, Postures
    <3>4. CASE posture = "descend" /\ Descending(t)
      BY <2>0, <2>2, <3>4 DEF Descending, IsHold, IsAscend, Postures
    <3>. QED  BY <1>3, <3>1, <3>2, <3>3, <3>4 DEF Control, ControlThrottle
  <2>4. steady' \in BOOLEAN /\ lastBase' \in 0 .. 1000
    BY <2>1
  <2>5. CASE t > Landing
    BY <1>1, <1>3, <2>3, <2>4, <2>5 DEF ControlType, LandingInv
  <2>6. CASE t <= Landing
    BY <1>1, <1>3, <2>0, <2>3, <2>4, <2>6 DEF ControlType, LandingInv
  <2>. QED  BY <2>5, <2>6
<1>. QED  BY <1>2, <1>3

-----------------------------------------------------------------------------
(* The initial state and the actions.                                      *)

LEMMA InitInv == Init => Inv
<1>. SUFFICES ASSUME Init PROVE Inv
  OBVIOUS
<1>. USE DEF Init
<1>1. RcType
  BY ThrottleAssumption DEF RcInit, RcType
<1>2. TrackType /\ CeilingCounted
  <2>1. ~(count > AlarmCountThreshold) /\ count \in 0 .. AlarmCountThreshold + 1
    BY ThresholdAssumption DEF TrackInit
  <2>2. ~hit /\ hit \in BOOLEAN
    BY DEF TrackInit
  <2>. QED  BY <2>1, <2>2 DEF TrackType, CeilingCounted
<1>3. ControlType /\ LandingInv
  BY DEF ControlInit, ControlType, LandingInv, Postures
<1>4. LoopType /\ AlarmComesDown
  BY DEF LoopType, AlarmComesDown
<1>5. AlarmType /\ AlarmInv
  BY SeverityOrder DEF AlarmType, AlarmInv, AlarmsShown
<1>6. ServoType /\ ServoInv
  BY DEF ServoType, ServoInv, PowerNeedsPulses
<1>. QED  BY <1>1, <1>2, <1>3, <1>4, <1>5, <1>6 DEF Inv

\* What record_alarm and clear_alarm_if leave.
LEMMA RecordStep ==
  ASSUME AlarmType, Severity[alarm] <= Severity[worst],
         NEW a \in {"ceiling", "dead"}, Record(a)
  PROVE  /\ AlarmType' /\ Severity[alarm'] <= Severity[worst']
         /\ alarm' = IF alarm = "dead" THEN "dead" ELSE a
BY SeverityOrder DEF AlarmType, Record

LEMMA ClearStep ==
  ASSUME AlarmType, Severity[alarm] <= Severity[worst],
         NEW a \in {"ceiling", "dead"}, ClearIf(a)
  PROVE  /\ AlarmType' /\ Severity[alarm'] <= Severity[worst']
         /\ alarm' = IF alarm = a THEN "none" ELSE alarm
BY SeverityOrder DEF AlarmType, ClearIf

LEMMA BeginInv == Inv /\ Begin => Inv'
<1>. SUFFICES ASSUME Inv, Begin PROVE Inv'
  OBVIOUS
<1>. USE DEF Begin, rcvars, controlvars, safety, outputs, cycle
<1>1. TrackType' /\ CeilingCounted'
  <2>1. CASE UNCHANGED trackvars
    BY <2>1 DEF Inv, TrackType, CeilingCounted, trackvars
  <2>2. CASE ClearCeiling
    <3>1. ~(count' > AlarmCountThreshold) /\ count' \in 0 .. AlarmCountThreshold + 1
      BY <2>2, ThresholdAssumption DEF ClearCeiling
    <3>2. ~hit' /\ hit' \in BOOLEAN
      BY <2>2 DEF ClearCeiling
    <3>. QED  BY <3>1, <3>2 DEF TrackType, CeilingCounted
  <2>. QED  BY <2>1, <2>2
<1>2. RcType' /\ ControlType' /\ LandingInv'
  BY DEF Inv, RcType, ControlType, LandingInv
<1>3. LoopType' /\ AlarmComesDown'
  BY DEF Inv, LoopType, AlarmComesDown
<1>4. AlarmType' /\ AlarmInv'
  BY DEF Inv, AlarmType, AlarmInv, AlarmsShown
<1>5. ServoType' /\ ServoInv'
  BY DEF Inv, ServoType, ServoInv, PowerNeedsPulses
<1>. QED  BY <1>1, <1>2, <1>3, <1>4, <1>5 DEF Inv

LEMMA ServoStepsInv ==
  Inv /\ (ServoStart \/ PowerOn \/ PowerOff \/ ServoStop) => Inv'
<1>. SUFFICES ASSUME Inv, ServoStart \/ PowerOn \/ PowerOff \/ ServoStop PROVE Inv'
  OBVIOUS
<1>0. /\ UNCHANGED <<rcvars, trackvars, controlvars, scan, safety, manual, cycle>>
      /\ pc \in {"servo", "power", "stop"} /\ pc' \in {"power", "stop", "track"}
  BY DEF ServoStart, PowerOn, PowerOff, ServoStop
<1>1. TrackType' /\ CeilingCounted' /\ RcType' /\ ControlType' /\ LandingInv'
  BY <1>0 DEF Inv, RcType, TrackType, CeilingCounted, ControlType, LandingInv,
              rcvars, trackvars, controlvars, cycle
<1>2. LoopType' /\ AlarmComesDown'
  BY <1>0 DEF Inv, LoopType, AlarmComesDown, cycle
<1>3. AlarmType' /\ AlarmInv'
  BY <1>0 DEF Inv, AlarmType, AlarmInv, AlarmsShown, safety
<1>4. ServoType' /\ ServoInv'
  <2>. USE DEF Inv, ServoType, ServoInv, PowerNeedsPulses
  <2>1. CASE ServoStart
    BY <2>1 DEF ServoStart
  <2>2. CASE PowerOn
    BY <2>2 DEF PowerOn
  <2>3. CASE PowerOff
    BY <2>3 DEF PowerOff
  <2>4. CASE ServoStop
    BY <2>4 DEF ServoStop
  <2>. QED  BY <2>1, <2>2, <2>3, <2>4
<1>. QED  BY <1>1, <1>2, <1>3, <1>4 DEF Inv

LEMMA TrackInv == Inv /\ Track => Inv'
<1>. SUFFICES ASSUME Inv, Track PROVE Inv'
  OBVIOUS
<1>0. /\ UNCHANGED <<rcvars, controlvars, outputs, manual, cycle>>
      /\ pc = "track" /\ pc' = "scan" /\ scan' = 1
  BY DEF Track
<1>1. TrackType' /\ CeilingCounted'
  BY TrackStep DEF Inv, Track
<1>2. RcType' /\ ControlType' /\ LandingInv'
  BY <1>0 DEF Inv, RcType, ControlType, LandingInv, rcvars, controlvars, cycle
<1>3. LoopType' /\ AlarmComesDown'
  BY <1>0, OrderLength DEF Inv, LoopType, AlarmComesDown, cycle
<1>4. AlarmType' /\ AlarmInv'
  <2>1. AlarmType /\ Severity[alarm] <= Severity[worst]
    BY DEF Inv, AlarmInv
  <2>2. /\ AlarmType' /\ Severity[alarm'] <= Severity[worst']
        /\ alarm' = "ceiling" => hit'
        /\ hit' => alarm' # "none"
    <3>1. CASE hit' /\ Record("ceiling")
      BY <2>1, <3>1, RecordStep
    <3>2. CASE ~hit' /\ ClearIf("ceiling")
      BY <2>1, <3>2, ClearStep
    <3>. QED  BY <3>1, <3>2 DEF Track
  <2>. QED  BY <1>0, <2>2 DEF AlarmInv, AlarmsShown
<1>5. ServoType' /\ ServoInv'
  BY <1>0 DEF Inv, ServoType, ServoInv, PowerNeedsPulses, outputs
<1>. QED  BY <1>1, <1>2, <1>3, <1>4, <1>5 DEF Inv

LEMMA FindDeadInv == Inv /\ FindDead => Inv'
<1>. SUFFICES ASSUME Inv, FindDead PROVE Inv'
  OBVIOUS
<1>0. /\ UNCHANGED <<rcvars, trackvars, controlvars, scan, outputs, manual, cycle>>
      /\ pc = "scan" /\ pc' = "read" /\ Record("dead")
  BY DEF FindDead
<1>1. TrackType' /\ CeilingCounted' /\ RcType' /\ ControlType' /\ LandingInv'
  BY <1>0 DEF Inv, RcType, TrackType, CeilingCounted, ControlType, LandingInv,
              rcvars, trackvars, controlvars, cycle
<1>2. LoopType' /\ AlarmComesDown'
  BY <1>0 DEF Inv, LoopType, AlarmComesDown, cycle
<1>3. AlarmType' /\ AlarmInv'
  <2>1. AlarmType' /\ Severity[alarm'] <= Severity[worst'] /\ alarm' = "dead"
    BY <1>0, RecordStep DEF Inv, AlarmInv
  <2>2. scan' <= Len(ChannelOrder)
    BY <1>0 DEF Inv, LoopType
  <2>. QED  BY <1>0, <2>1, <2>2 DEF AlarmInv, AlarmsShown
<1>4. ServoType' /\ ServoInv'
  BY <1>0 DEF Inv, ServoType, ServoInv, PowerNeedsPulses, outputs
<1>. QED  BY <1>1, <1>2, <1>3, <1>4 DEF Inv

LEMMA FindLiveInv == Inv /\ FindLive => Inv'
<1>. SUFFICES ASSUME Inv, FindLive PROVE Inv'
  OBVIOUS
<1>0. /\ UNCHANGED <<rcvars, trackvars, controlvars, outputs, manual, jumped, low>>
      /\ pc = "scan" /\ scan' = scan + 1
      /\ scan \in 1 .. Len(ChannelOrder)
  BY DEF FindLive, Inv, LoopType
<1>1. TrackType' /\ CeilingCounted' /\ RcType' /\ ControlType' /\ LandingInv'
  BY <1>0 DEF Inv, RcType, TrackType, CeilingCounted, ControlType, LandingInv,
              rcvars, trackvars, controlvars
<1>2. CASE scan = Len(ChannelOrder)
  <2>1. pc' = "read" /\ ClearIf("dead") /\ recovered' = (alarm = "dead")
    BY <1>2 DEF FindLive
  <2>2. LoopType' /\ AlarmComesDown'
    BY <1>0, <2>1, OrderLength DEF Inv, LoopType, AlarmComesDown
  <2>3. /\ AlarmType' /\ Severity[alarm'] <= Severity[worst']
        /\ alarm' = IF alarm = "dead" THEN "none" ELSE alarm
    BY <2>1, ClearStep DEF Inv, AlarmInv
  <2>4. ~(scan' <= Len(ChannelOrder))
    BY <1>0, <1>2, OrderLength
  <2>5. (alarm = "ceiling" => hit) /\ (hit => alarm # "none") /\ hit' = hit
    BY <1>0 DEF Inv, AlarmInv, trackvars
  <2>6. recovered' <=> alarm = "dead"
    BY <2>1
  <2>7. AlarmInv'
    BY <1>0, <2>1, <2>3, <2>4, <2>5, <2>6 DEF AlarmInv, AlarmsShown
  <2>8. ServoType' /\ ServoInv'
    BY <1>0, <2>1 DEF Inv, ServoType, ServoInv, PowerNeedsPulses, outputs
  <2>. QED  BY <1>1, <2>2, <2>3, <2>7, <2>8 DEF Inv
<1>3. CASE scan # Len(ChannelOrder)
  <2>1. UNCHANGED <<pc, safety, recovered>>
    BY <1>3 DEF FindLive
  <2>2. LoopType' /\ AlarmComesDown'
    BY <1>0, <1>3, <2>1, OrderLength DEF Inv, LoopType, AlarmComesDown
  <2>3. AlarmType' /\ AlarmInv'
    BY <1>0, <2>1 DEF Inv, AlarmType, AlarmInv, AlarmsShown, safety, trackvars
  <2>4. ServoType' /\ ServoInv'
    BY <1>0, <2>1 DEF Inv, ServoType, ServoInv, PowerNeedsPulses, outputs
  <2>. QED  BY <1>1, <2>2, <2>3, <2>4 DEF Inv
<1>. QED  BY <1>2, <1>3

LEMMA ReadThrottleInv == Inv /\ ReadThrottle => Inv'
<1>. SUFFICES ASSUME Inv, ReadThrottle PROVE Inv'
  OBVIOUS
<1>0. /\ UNCHANGED <<rcvars, trackvars, safety, outputs, manual, recovered, jumped>>
      /\ pc = "read" /\ manual \in BOOLEAN /\ scan \in Nat
  BY DEF ReadThrottle, Inv, LoopType
<1>1. TrackType' /\ CeilingCounted' /\ RcType' /\ AlarmType'
  BY <1>0 DEF Inv, RcType, TrackType, CeilingCounted, AlarmType, rcvars, trackvars, safety
<1>2. pc' \in {"again", "drive"}
  BY DEF ReadThrottle, Control
<1>3. ServoType' /\ ServoInv'
  BY <1>0, <1>2 DEF Inv, ServoType, ServoInv, PowerNeedsPulses, outputs
<1>4. CASE pc' = "again" /\ UNCHANGED <<controlvars, low, scan>>
  <2>1. ControlType' /\ LandingInv' /\ LoopType' /\ AlarmComesDown'
    BY <1>0, <1>4 DEF Inv, ControlType, LandingInv, LoopType, AlarmComesDown, controlvars
  <2>2. AlarmInv'
    BY <1>0, <1>4 DEF Inv, AlarmInv, AlarmsShown, safety, trackvars
  <2>. QED  BY <1>1, <1>3, <2>1, <2>2 DEF Inv
<1>5. CASE Control(IF alarm = "none" THEN throttle ELSE Emergency)
  <2>1. pc' = "drive" /\ scan' = 1
    BY <1>5 DEF Control
  <2>2. (IF alarm = "none" THEN throttle ELSE Emergency) \in 0 .. 1000
    BY Levels DEF Inv, RcType, Emergency
  <2>3. /\ ControlType' /\ LandingInv'
        /\ alarm # "none" => IF manual THEN output' <= Emergency
                             ELSE posture' \in {"descend", "landed"}
    BY <1>0, <1>5, <2>2, ControlStep DEF Inv, Emergency
  <2>4. LoopType'
    BY <1>0, <2>1, FlightAssumption DEF Inv, LoopType, Motors
  <2>5. AlarmComesDown'
    BY <1>0, <2>3 DEF AlarmComesDown, safety
  <2>6. AlarmInv'
    BY <1>0, <2>1 DEF Inv, AlarmInv, AlarmsShown, safety
  <2>. QED  BY <1>1, <1>3, <2>3, <2>4, <2>5, <2>6 DEF Inv
<1>. QED  BY <1>4, <1>5 DEF ReadThrottle

LEMMA ReadAgainInv == Inv /\ ReadAgain => Inv'
<1>. SUFFICES ASSUME Inv, ReadAgain PROVE Inv'
  OBVIOUS
<1>0. /\ UNCHANGED <<rcvars, trackvars, safety, outputs, manual, recovered>>
      /\ pc = "again" /\ manual \in BOOLEAN
      /\ Control(throttle)
      /\ IF throttle >= Emergency THEN jumped' = TRUE ELSE jumped' = FALSE
  BY DEF ReadAgain, Inv, LoopType
<1>1. TrackType' /\ CeilingCounted' /\ RcType' /\ AlarmType'
  BY <1>0 DEF Inv, RcType, TrackType, CeilingCounted, AlarmType, rcvars, trackvars, safety
<1>2. pc' = "drive" /\ scan' = 1
  BY <1>0 DEF Control
<1>3. throttle \in 0 .. 1000
  BY Levels DEF Inv, RcType
<1>4. /\ ControlType' /\ LandingInv'
      /\ throttle <= Emergency => IF manual THEN output' <= Emergency
                                  ELSE posture' \in {"descend", "landed"}
  BY <1>0, <1>3, ControlStep DEF Inv
<1>5. jumped' \in BOOLEAN /\ (~jumped' => throttle <= Emergency)
  <2>1. CASE throttle >= Emergency
    BY <1>0, <2>1
  <2>2. CASE ~(throttle >= Emergency)
    <3>1. throttle <= Emergency
      BY <1>3, <2>2 DEF Emergency
    <3>. QED  BY <1>0, <2>2, <3>1
  <2>. QED  BY <2>1, <2>2
<1>6. LoopType'
  BY <1>0, <1>2, <1>5, FlightAssumption DEF Inv, LoopType, Motors
<1>7. AlarmComesDown'
  BY <1>0, <1>4, <1>5 DEF AlarmComesDown
<1>8. AlarmInv'
  BY <1>0, <1>2 DEF Inv, AlarmInv, AlarmsShown, safety
<1>9. ServoType' /\ ServoInv'
  BY <1>0, <1>2 DEF Inv, ServoType, ServoInv, PowerNeedsPulses, outputs
<1>. QED  BY <1>1, <1>4, <1>6, <1>7, <1>8, <1>9 DEF Inv

LEMMA DriveInv == Inv /\ Drive => Inv'
<1>. SUFFICES ASSUME Inv, Drive PROVE Inv'
  OBVIOUS
<1>0. /\ UNCHANGED <<rcvars, trackvars, controlvars, safety, servo, power, manual, cycle>>
      /\ pc = "drive" /\ scan \in Motors
      /\ IF scan = MotorCount THEN pc' = "rpc" /\ scan' = 1
         ELSE scan' = scan + 1 /\ UNCHANGED pc
  BY DEF Drive, Inv, LoopType
<1>1. TrackType' /\ CeilingCounted' /\ RcType' /\ ControlType' /\ LandingInv' /\ AlarmType'
  BY <1>0 DEF Inv, RcType, TrackType, CeilingCounted, ControlType, LandingInv, AlarmType,
              rcvars, trackvars, controlvars, safety, cycle
<1>2. LoopType'
  BY <1>0, FlightAssumption DEF Inv, LoopType, Motors, cycle
<1>3. AlarmComesDown' /\ AlarmInv'
  BY <1>0 DEF Inv, AlarmComesDown, AlarmInv, AlarmsShown, safety, trackvars, controlvars,
              cycle
<1>4. ServoType' /\ ServoInv'
  <2>1. PICK pulse \in {"pilot", "cut"} :
          motor' = IF servo THEN [motor EXCEPT ![scan] = pulse] ELSE motor
    BY DEF Drive
  <2>2. motor' \in [Motors -> {"none", "cut", "pilot"}]
    BY <2>1 DEF Inv, ServoType
  <2>3. ~servo => motor' = motor
    BY <2>1
  <2>. QED  BY <1>0, <2>2, <2>3 DEF Inv, ServoType, ServoInv, PowerNeedsPulses
<1>. QED  BY <1>1, <1>2, <1>3, <1>4 DEF Inv

LEMMA RpcInv == Inv /\ Rpc => Inv'
<1>. SUFFICES ASSUME Inv, Rpc PROVE Inv'
  OBVIOUS
<1>0. /\ UNCHANGED <<rcvars, trackvars, controlvars, scan, safety, outputs, low>>
      /\ pc' = "begin" /\ manual' \in BOOLEAN /\ recovered' = FALSE /\ jumped' = FALSE
  BY DEF Rpc
<1>1. TrackType' /\ CeilingCounted' /\ RcType' /\ ControlType' /\ LandingInv' /\ AlarmType'
  BY <1>0 DEF Inv, RcType, TrackType, CeilingCounted, ControlType, LandingInv, AlarmType,
              rcvars, trackvars, controlvars, safety
<1>2. LoopType' /\ AlarmComesDown' /\ AlarmInv'
  BY <1>0 DEF Inv, LoopType, AlarmComesDown, AlarmInv, AlarmsShown, safety
<1>3. ServoType' /\ ServoInv'
  BY <1>0 DEF Inv, ServoType, ServoInv, PowerNeedsPulses, outputs
<1>. QED  BY <1>1, <1>2, <1>3 DEF Inv

\* The interrupts change what the receiver reports and nothing else.
LEMMA ReceiverInv == Inv /\ Receiver => Inv'
<1>. SUFFICES ASSUME Inv, Receiver PROVE Inv'
  OBVIOUS
<1>0. UNCHANGED <<trackvars, controlvars, pc, scan, safety, outputs, manual, cycle>>
  BY DEF Receiver
<1>1. RcType'
  BY RcStep DEF Inv, Receiver
<1>2. TrackType' /\ CeilingCounted' /\ ControlType' /\ LandingInv' /\ AlarmType' /\ LoopType'
  BY <1>0 DEF Inv, TrackType, CeilingCounted, ControlType, LandingInv, AlarmType, LoopType,
              trackvars, controlvars, safety, cycle
<1>3. AlarmComesDown' /\ AlarmInv'
  BY <1>0 DEF Inv, AlarmComesDown, AlarmInv, AlarmsShown, trackvars, controlvars, safety,
              cycle
<1>4. ServoType' /\ ServoInv'
  BY <1>0 DEF Inv, ServoType, ServoInv, PowerNeedsPulses, outputs
<1>. QED  BY <1>1, <1>2, <1>3, <1>4 DEF Inv

LEMMA TimeInv == Inv /\ (Time \/ UNCHANGED vars) => Inv'
<1>. SUFFICES ASSUME Inv, Time \/ UNCHANGED vars PROVE Inv'
  OBVIOUS
<1>0. /\ UNCHANGED <<rcvars, trackvars, pc, scan, safety, outputs, manual, cycle>>
      /\ UNCHANGED <<posture, output, lastBase>> /\ (steady' = TRUE \/ steady' = steady)
  BY DEF Time, Settle, vars, controlvars
<1>1. RcType' /\ TrackType' /\ CeilingCounted' /\ LandingInv' /\ LoopType'
  BY <1>0 DEF Inv, RcType, TrackType, CeilingCounted, LandingInv, LoopType,
              rcvars, trackvars, cycle
<1>4. ControlType'
  <2>1. steady \in BOOLEAN
    BY DEF Inv, ControlType
  <2>2. steady' \in BOOLEAN
    BY <1>0, <2>1
  <2>. QED  BY <1>0, <2>2 DEF Inv, ControlType, cycle
<1>2. AlarmType' /\ AlarmComesDown' /\ AlarmInv'
  BY <1>0 DEF Inv, AlarmType, AlarmComesDown, AlarmInv, AlarmsShown, trackvars, safety, cycle
<1>3. ServoType' /\ ServoInv'
  BY <1>0 DEF Inv, ServoType, ServoInv, PowerNeedsPulses, outputs
<1>. QED  BY <1>1, <1>2, <1>3, <1>4 DEF Inv

-----------------------------------------------------------------------------
\* The inductive invariant holds: Init implies it and every action keeps it.
THEOREM InvCorrect == Spec => []Inv
<1>1. Inv /\ [Next]_vars => Inv'
  BY BeginInv, ServoStepsInv, TrackInv, FindDeadInv, FindLiveInv, ReadThrottleInv,
     ReadAgainInv, DriveInv, RpcInv, ReceiverInv, TimeInv DEF Next, Loop
<1>. QED  BY <1>1, InitInv, PTL DEF Spec

\* The variables keep their types; scan stays inside the channels and motors.
THEOREM TypeCorrect == Spec => []TypeOK
<1>1. Inv => TypeOK
  BY DEF Inv, RcType, TrackType, ControlType, LoopType, AlarmType, ServoType, TypeOK
<1>. QED  BY <1>1, InvCorrect, PTL

\* The motors have power only while the ServoController runs
\* (process_servo_start_stop_command, flightcontrol.cpp:82-91).
THEOREM PowerSafe == Spec => []PowerNeedsPulses
<1>1. Inv => PowerNeedsPulses
  BY DEF Inv, ServoInv
<1>. QED  BY <1>1, InvCorrect, PTL

\* The ceiling alarm stands exactly while enough readings have been counted.
THEOREM CeilingSafe == Spec => []CeilingCounted
<1>1. Inv => CeilingCounted
  BY DEF Inv
<1>. QED  BY <1>1, InvCorrect, PTL

\* The alarm that caps the throttle is the true one (safety_check).
THEOREM AlarmsCorrect == Spec => []AlarmsShown
<1>1. Inv => AlarmsShown
  BY DEF Inv, AlarmInv
<1>. QED  BY <1>1, InvCorrect, PTL

\* Under an alarm the drone comes down, in manual mode and in altitude hold.
THEOREM AlarmBringsDown == Spec => []AlarmComesDown
<1>1. Inv => AlarmComesDown
  BY DEF Inv
<1>. QED  BY <1>1, InvCorrect, PTL

\* A stick that is down lands the drone in three cycles of altitude hold.
THEOREM LandingCorrect == Spec => []StickDownLands
<1>1. Inv => StickDownLands
  BY DEF Inv, LandingInv, StickDownLands
<1>. QED  BY <1>1, InvCorrect, PTL
=============================================================================
