--------------------------- MODULE RcValues_proof ---------------------------
(***************************************************************************)
(* Theorems about RcValues, for any channels, throttle levels and idle     *)
(* count: its types, that every toggle of the arming counts, that the      *)
(* gesture is deliberate, and that it implements RcInterface.              *)
(***************************************************************************)
EXTENDS RcValues, TLAPS

\* The live channels are those that is_live() finds.
LiveInv == live = IsLive(recent, pulse)

Inv == TypeOK /\ LiveInv

-----------------------------------------------------------------------------
\* A position is a number, and never the mark of a channel without a capture.
LEMMA PositionsArePulses ==
  \A c \in Channels : \A v \in Positions(c) : v \in Int /\ v # NoPulse
BY RcAssumption, ThrottleAssumption DEF Positions, NoPulse, Corner, Centre

LEMMA InitInv == Init => Inv
<1>. SUFFICES ASSUME Init PROVE Inv
  OBVIOUS
<1>1. /\ throttle \in ThrottleLevels /\ idle \in 0 .. IdleCount
      /\ pulse \in [Channels -> Int]
      /\ \A c \in Channels : pulse[c] \in Positions(c) \union {NoPulse}
  BY ThrottleAssumption, IdleAssumption DEF Init, RcInit, NoPulse
<1>2. live = {} /\ recent = {}
  BY DEF Init, RcInit
<1>3. /\ armed \in BOOLEAN /\ led \in BOOLEAN /\ flips \in BOOLEAN /\ torn \in BOOLEAN
      /\ switch \in [at : {"out", "write", "readback"}, bit : BOOLEAN]
      /\ blink \in [at : {"out", "write"}, bit : BOOLEAN]
  BY DEF Init, RcInit
<1>. QED  BY <1>1, <1>2, <1>3 DEF Inv, TypeOK, LiveInv, IsLive

\* A capture makes its channel live and disturbs no other.
LEMMA CaptureLive ==
  ASSUME Inv, NEW c \in Channels, NEW v \in Positions(c), Capture(c, v)
  PROVE  /\ recent' \subseteq Channels
         /\ pulse' \in [Channels -> Int]
         /\ \A d \in Channels : pulse'[d] \in Positions(d) \union {NoPulse}
         /\ live' = IsLive(recent', pulse')
         /\ live' = live \union {c}
<1>1. v \in Int /\ v # NoPulse
  BY PositionsArePulses
<1>2. recent' = recent \union {c} /\ recent' \subseteq Channels
  BY DEF Capture, Inv, TypeOK
<1>3. pulse' \in [Channels -> Int] /\ pulse' = [pulse EXCEPT ![c] = v]
  BY <1>1 DEF Capture, Inv, TypeOK
<1>4. \A d \in Channels : pulse'[d] \in Positions(d) \union {NoPulse}
  BY <1>3 DEF Inv, TypeOK
<1>5. live' = IsLive(recent', pulse')
  BY DEF Capture
<1>6. live' = live \union {c}
  <2>1. live = {d \in recent : pulse[d] # NoPulse}
    BY DEF Inv, LiveInv, IsLive
  <2>2. live' = {d \in recent \union {c} : pulse'[d] # NoPulse}
    BY <1>2, <1>5 DEF IsLive
  <2>3. recent \subseteq Channels /\ pulse \in [Channels -> Int]
    BY DEF Inv, TypeOK
  <2>4. \A d \in Channels : pulse'[d] = IF d = c THEN v ELSE pulse[d]
    BY <1>3, <2>3
  <2>. QED  BY <1>1, <2>1, <2>2, <2>3, <2>4
<1>. QED  BY <1>2, <1>3, <1>4, <1>5, <1>6

\* What Update makes of the throttle, the counter and the arming.
LEMMA UpdateStep ==
  ASSUME Inv, Update, recent' \subseteq Channels, live' \subseteq recent',
         \A d \in Channels : pulse'[d] \in Positions(d) \union {NoPulse},
         \A d \in live' : pulse'[d] # NoPulse
  PROVE  /\ throttle' \in IF "throttle" \in live' THEN ThrottleLevels ELSE {0}
         /\ idle' \in 0 .. IdleCount
         /\ \/ UNCHANGED <<led, armed, flips, torn>>
            \/ /\ ToggleAtOnce
               /\ throttle' < ArmThrottle
               /\ \A c \in Sticks : c \in live' /\ pulse'[c] = Corner
<1>. DEFINE position(c, default) == IF c \in live' THEN pulse'[c] ELSE default
            gesture == /\ \A c \in Sticks : position(c, Centre) = Corner
                       /\ throttle' < ArmThrottle
<1>1. throttle' = position("throttle", 0)
  BY DEF Update
<1>2. \/ gesture /\ idle' = 0 /\ ToggleAtOnce
      \/ /\ idle' = IF gesture \/ idle = IdleCount THEN idle ELSE idle + 1
         /\ UNCHANGED <<led, armed, flips, torn>>
  BY DEF Update
<1>3. throttle' \in IF "throttle" \in live' THEN ThrottleLevels ELSE {0}
  BY <1>1 DEF Channels, Positions
<1>4. gesture => /\ throttle' < ArmThrottle
                 /\ \A c \in Sticks : c \in live' /\ pulse'[c] = Corner
  BY DEF Centre, Corner
<1>5. idle' \in 0 .. IdleCount
  <2>1. idle \in 0 .. IdleCount
    BY DEF Inv, TypeOK
  <2>2. CASE idle' = 0
    BY <2>2, IdleAssumption
  <2>3. CASE idle' = IF gesture \/ idle = IdleCount THEN idle ELSE idle + 1
    <3>. HIDE DEF gesture
    <3>. QED  BY <2>1, <2>3, IdleAssumption
  <2>. QED  BY <1>2, <2>2, <2>3
<1>. HIDE DEF gesture
<1>. QED  BY <1>2, <1>3, <1>4, <1>5

LEMMA NextInv == Inv /\ [Next]_vars => Inv'
<1>. SUFFICES ASSUME Inv, [Next]_vars PROVE Inv'
  OBVIOUS
<1>1. ASSUME NEW c \in Channels, NEW v \in Positions(c), Capture(c, v) PROVE Inv'
  <2>1. /\ recent' \subseteq Channels /\ pulse' \in [Channels -> Int]
        /\ \A d \in Channels : pulse'[d] \in Positions(d) \union {NoPulse}
        /\ live' = IsLive(recent', pulse')
    BY <1>1, CaptureLive
  <2>2. live' \subseteq recent' /\ \A d \in live' : pulse'[d] # NoPulse
    BY <2>1 DEF IsLive
  <2>3. switch' = switch /\ blink' = blink
    BY <1>1 DEF Capture
  <2>4. /\ throttle' \in ThrottleLevels /\ idle' \in 0 .. IdleCount
        /\ led' \in BOOLEAN /\ armed' \in BOOLEAN /\ flips' \in BOOLEAN /\ torn' \in BOOLEAN
    <3>1. CASE Update
      <4>1. throttle' \in ThrottleLevels /\ idle' \in 0 .. IdleCount
        BY <2>1, <2>2, <3>1, UpdateStep, ThrottleAssumption
      <4>2. UNCHANGED <<led, armed, flips, torn>> \/ ToggleAtOnce
        BY <2>1, <2>2, <3>1, UpdateStep
      <4>. QED  BY <4>1, <4>2 DEF Inv, TypeOK, ToggleAtOnce
    <3>2. CASE UNCHANGED <<throttle, idle, led, armed, flips, torn>>
      BY <3>2 DEF Inv, TypeOK
    <3>. QED  BY <1>1, <3>1, <3>2 DEF Capture
  <2>. QED  BY <2>1, <2>2, <2>3, <2>4 DEF Inv, TypeOK, LiveInv
<1>2. ASSUME NEW c \in Channels, Silence(c) PROVE Inv'
  BY <1>2 DEF Silence, Inv, TypeOK, LiveInv, IsLive
<1>3. CASE SwitchReads
  BY <1>3 DEF SwitchReads, Inv, TypeOK, LiveInv, IsLive, decoder
<1>4. CASE SwitchWrites
  BY <1>4 DEF SwitchWrites, Inv, TypeOK, LiveInv, IsLive, decoder
<1>5. CASE SwitchReadsBack
  BY <1>5 DEF SwitchReadsBack, Inv, TypeOK, LiveInv, IsLive, decoder
<1>6. CASE BlinkReads
  BY <1>6 DEF BlinkReads, Inv, TypeOK, LiveInv, IsLive, decoder
<1>7. CASE BlinkWrites
  BY <1>7 DEF BlinkWrites, Inv, TypeOK, LiveInv, IsLive, decoder
<1>8. CASE UNCHANGED vars
  BY <1>8 DEF vars, rcvars, Inv, TypeOK, LiveInv, IsLive
<1>. QED  BY <1>1, <1>2, <1>3, <1>4, <1>5, <1>6, <1>7, <1>8 DEF Next

\* The variables of RcValueConverter and its channels keep their types, and the
\* idle counter its limit (rcvalueconverter.cpp:81-92).
THEOREM TypeCorrect == Spec => []TypeOK
<1>1. Inv => TypeOK
  BY DEF Inv
<1>. QED  BY <1>1, InitInv, NextInv, PTL DEF Spec

THEOREM InvCorrect == Spec => []Inv
BY InitInv, NextInv, PTL DEF Spec

-----------------------------------------------------------------------------
(***************************************************************************)
(* The arming.  A handler that stands between its read and its write holds *)
(* the bit that is in the register, and the LED is as often toggled as     *)
(* asked for; motors_armed_ lags behind it only in the switch interrupt.   *)
(***************************************************************************)
ToggleInv ==
  ~torn =>
    /\ led = flips
    /\ switch.at # "readback" => armed = led
    /\ switch.at = "write" => switch.bit = led
    /\ blink.at = "write" => blink.bit = led

LEMMA ToggleInit == Init => ToggleInv
<1>. SUFFICES ASSUME Init PROVE ToggleInv
  OBVIOUS
<1>1. switch.at = "out" /\ blink.at = "out"
  BY DEF Init
<1>2. led = FALSE /\ flips = FALSE /\ armed = FALSE
  BY DEF Init, RcInit
<1>. QED  BY <1>1, <1>2 DEF ToggleInv

LEMMA ToggleNext == Inv /\ ToggleInv /\ [Next]_vars => ToggleInv'
<1>. SUFFICES ASSUME Inv, ToggleInv, [Next]_vars, ~torn' PROVE ToggleInv'
  BY DEF ToggleInv
<1>0. /\ led \in BOOLEAN /\ flips \in BOOLEAN /\ armed \in BOOLEAN /\ torn \in BOOLEAN
      /\ switch = [at |-> switch.at, bit |-> switch.bit] /\ switch.bit \in BOOLEAN
      /\ blink = [at |-> blink.at, bit |-> blink.bit] /\ blink.bit \in BOOLEAN
      /\ switch.at \in {"out", "write", "readback"} /\ blink.at \in {"out", "write"}
  BY DEF Inv, TypeOK
<1>1. ASSUME NEW c \in Channels, NEW v \in Positions(c), Capture(c, v) PROVE ToggleInv'
  <2>1. switch' = switch /\ blink' = blink
    BY <1>1 DEF Capture
  <2>2. CASE UNCHANGED <<led, armed, flips, torn>>
    BY <2>1, <2>2 DEF ToggleInv
  <2>3. CASE ToggleAtOnce
    <3>1. ~torn /\ switch.at # "write" /\ blink.at # "write"
      BY <2>3 DEF ToggleAtOnce
    <3>2. led' = ~led /\ armed' = led' /\ flips' = ~flips
      BY <2>3 DEF ToggleAtOnce
    <3>. QED  BY <2>1, <3>1, <3>2 DEF ToggleInv
  <2>4. UNCHANGED <<led, armed, flips, torn>> \/ ToggleAtOnce
    BY <1>1 DEF Capture, Update
  <2>. QED  BY <2>2, <2>3, <2>4
<1>2. ASSUME NEW c \in Channels, Silence(c) PROVE ToggleInv'
  BY <1>2 DEF Silence, ToggleInv
<1>3. CASE SwitchReads
  BY <1>0, <1>3 DEF SwitchReads, ToggleInv
<1>4. CASE SwitchWrites
  <2>1. ~torn /\ blink.at # "write" /\ blink' = blink /\ armed' = armed
    BY <1>4 DEF SwitchWrites
  <2>2. led' = ~switch.bit /\ flips' = ~flips /\ switch.bit = led /\ led = flips
    BY <1>4, <2>1 DEF SwitchWrites, ToggleInv
  <2>3. switch'.at = "readback"
    BY <1>0, <1>4 DEF SwitchWrites
  <2>. QED  BY <2>1, <2>2, <2>3 DEF ToggleInv
<1>5. CASE SwitchReadsBack
  <2>1. switch'.at = "out" /\ armed' = led /\ led' = led /\ flips' = flips
    BY <1>0, <1>5 DEF SwitchReadsBack
  <2>2. blink' = blink /\ torn' = torn
    BY <1>5 DEF SwitchReadsBack
  <2>. QED  BY <2>1, <2>2 DEF ToggleInv
<1>6. CASE BlinkReads
  BY <1>0, <1>6 DEF BlinkReads, ToggleInv
<1>7. CASE BlinkWrites
  <2>1. blink'.at = "out" /\ led' = blink.bit /\ blink.at = "write"
    BY <1>0, <1>7 DEF BlinkWrites
  <2>2. switch' = switch /\ armed' = armed /\ flips' = flips /\ torn' = torn
    BY <1>7 DEF BlinkWrites
  <2>. QED  BY <2>1, <2>2 DEF ToggleInv
<1>8. CASE UNCHANGED vars
  BY <1>8 DEF vars, rcvars, ToggleInv
<1>. QED  BY <1>1, <1>2, <1>3, <1>4, <1>5, <1>6, <1>7, <1>8 DEF Next

\* Unless a toggle of the port tears another, each request changes the arming
\* exactly once (toggle_motors_armed, rcvalueconverter.cpp:49-53).
THEOREM TogglesCount == Spec => []EveryToggleCounts
<1>1. ToggleInv => EveryToggleCounts
  BY DEF ToggleInv, EveryToggleCounts
<1>. QED  BY <1>1, InvCorrect, ToggleInit, ToggleNext, PTL DEF Spec

-----------------------------------------------------------------------------
\* A capture that changes the arming is a gesture.
LEMMA CaptureArms ==
  ASSUME Inv, NEW c \in Channels, NEW v \in Positions(c), Capture(c, v)
  PROVE  /\ \/ UNCHANGED <<throttle, armed>>
            \/ throttle' \in IF "throttle" \in live' THEN ThrottleLevels ELSE {0}
         /\ \/ armed' = armed
            \/ /\ throttle' < ArmThrottle /\ armed' \in BOOLEAN
               /\ throttle' \in IF "throttle" \in live' THEN ThrottleLevels ELSE {0}
               /\ \A d \in Sticks : d \in live' /\ pulse'[d] = Corner
<1>1. /\ recent' \subseteq Channels /\ live' \subseteq recent'
      /\ \A d \in Channels : pulse'[d] \in Positions(d) \union {NoPulse}
      /\ \A d \in live' : pulse'[d] # NoPulse
  BY CaptureLive DEF IsLive
<1>2. CASE Update
  <2>1. throttle' \in IF "throttle" \in live' THEN ThrottleLevels ELSE {0}
    BY <1>1, <1>2, UpdateStep
  <2>2. \/ UNCHANGED <<led, armed, flips, torn>>
        \/ /\ ToggleAtOnce
           /\ throttle' < ArmThrottle
           /\ \A d \in Sticks : d \in live' /\ pulse'[d] = Corner
    BY <1>1, <1>2, UpdateStep
  <2>3. ToggleAtOnce => armed' \in BOOLEAN
    BY DEF ToggleAtOnce, Inv, TypeOK
  <2>. QED  BY <2>1, <2>2, <2>3
<1>3. CASE UNCHANGED <<throttle, idle, led, armed, flips, torn>>
  BY <1>3
<1>. QED  BY <1>2, <1>3 DEF Capture

\* Only with all sticks of live channels in their corners and a low throttle
\* does the receiver arm or disarm (rcvalueconverter.cpp:81-92).
THEOREM GestureCorrect == Spec => GestureIsDeliberate
<1>1. Inv /\ [Next]_vars =>
        [armed' # armed /\ switch' = switch =>
           /\ Sticks \subseteq live' /\ \A c \in Sticks : pulse'[c] = Corner
           /\ throttle' < ArmThrottle]_vars
  <2>. SUFFICES ASSUME Inv, Next, armed' # armed, switch' = switch
                PROVE  /\ Sticks \subseteq live' /\ \A c \in Sticks : pulse'[c] = Corner
                       /\ throttle' < ArmThrottle
    BY DEF vars
  <2>1. switch \in [at : {"out", "write", "readback"}, bit : BOOLEAN]
    BY DEF Inv, TypeOK
  <2>2. ~SwitchReadsBack
    BY <2>1 DEF SwitchReadsBack
  <2>3. ~(SwitchReads \/ SwitchWrites \/ BlinkReads \/ BlinkWrites \/ \E c \in Channels : Silence(c))
    BY DEF SwitchReads, SwitchWrites, BlinkReads, BlinkWrites, Silence
  <2>4. PICK c \in Channels : \E v \in Positions(c) : Capture(c, v)
    BY <2>2, <2>3 DEF Next
  <2>. QED  BY <2>4, CaptureArms
<1>. QED  BY <1>1, InvCorrect, PTL DEF Spec, GestureIsDeliberate

\* To the control loop the receiver is the one of RcInterface.
THEOREM RefinesRcInterface == Spec => ImplementsRcInterface
<1>1. Init => RcInit
  BY DEF Init
<1>2. Inv /\ [Next]_vars => [RcNext]_rcvars
  <2>. SUFFICES ASSUME Inv, [Next]_vars PROVE [RcNext]_rcvars
    OBVIOUS
  <2>1. ASSUME NEW c \in Channels, NEW v \in Positions(c), Capture(c, v) PROVE RcNext
    <3>1. live' = live \union {c}
      BY <2>1, CaptureLive
    <3>2. armed \in BOOLEAN
      BY DEF Inv, TypeOK
    <3>3. \/ UNCHANGED <<throttle, armed>>
          \/ /\ throttle' \in IF "throttle" \in live' THEN ThrottleLevels ELSE {0}
             /\ armed' = armed
          \/ /\ throttle' \in IF "throttle" \in live' THEN ThrottleLevels ELSE {0}
             /\ Sticks \subseteq live' /\ throttle' < ArmThrottle /\ armed' \in BOOLEAN
      BY <2>1, CaptureArms
    <3>4. armed' \in BOOLEAN => armed' = armed \/ armed' = ~armed
      BY <3>2
    <3>5. Pulse(c)
      BY <3>1, <3>3, <3>4 DEF Pulse
    <3>. QED  BY <3>5 DEF RcNext
  <2>2. ASSUME NEW c \in Channels, Silence(c) PROVE [RcNext]_rcvars
    <3>1. live' = live \ {c} /\ UNCHANGED <<throttle, armed>>
      BY <2>2 DEF Silence, Inv, LiveInv, IsLive
    <3>2. CASE c \in live
      BY <3>1, <3>2 DEF Lost, RcNext
    <3>3. CASE c \notin live
      BY <3>1, <3>3 DEF rcvars
    <3>. QED  BY <3>2, <3>3
  <2>3. CASE SwitchReads \/ SwitchWrites \/ BlinkReads \/ BlinkWrites
    BY <2>3 DEF SwitchReads, SwitchWrites, BlinkReads, BlinkWrites, decoder, rcvars
  <2>4. CASE SwitchReadsBack
    <3>1. UNCHANGED <<live, throttle>> /\ armed' = led
      BY <2>4 DEF SwitchReadsBack, decoder
    <3>2. armed \in BOOLEAN /\ led \in BOOLEAN
      BY DEF Inv, TypeOK
    <3>3. armed' = armed \/ armed' = ~armed
      BY <3>1, <3>2
    <3>. QED  BY <3>1, <3>3 DEF Switch, RcNext, rcvars
  <2>5. CASE UNCHANGED vars
    BY <2>5 DEF vars, rcvars
  <2>. QED  BY <2>1, <2>2, <2>3, <2>4, <2>5 DEF Next
<1>. QED  BY <1>1, <1>2, InvCorrect, PTL DEF Spec, ImplementsRcInterface, RcSpec
=============================================================================
