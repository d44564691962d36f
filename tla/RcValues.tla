------------------------------ MODULE RcValues ------------------------------
(***************************************************************************)
(* RcValueConverter with the RcChannels and PwmDecoders under it.          *)
(*                                                                         *)
(* Two interrupt handlers toggle the arming of the motors: the capture     *)
(* interrupt of a timer (priority 2), when the sticks make the arming      *)
(* gesture, and the external interrupt of the user switch (priority 7),    *)
(* which the former preempts.  What is toggled is a LED, a bit of the      *)
(* output register of a GPIO port, and motors_armed_ is read back from it. *)
(* The main loop toggles another LED of the same port.  Toggling is a      *)
(* read and a write of the register that an interrupt can separate.        *)
(***************************************************************************)
EXTENDS RcInterface

CONSTANT IdleCount   \* max_arm_sequence_idle_counter, 50
ASSUME IdleAssumption == IdleCount \in Nat \ {0}

NoPulse == -1                 \* decoded_period_ is still 0
Corner  == 1                  \* a stick in its corner of the arming gesture
Centre  == 0

\* The positions a channel can report.
Positions(c) == IF c = "throttle" THEN ThrottleLevels
                ELSE IF c \in Sticks THEN {Centre, Corner} ELSE {Centre}

VARIABLES
  pulse,       \* PwmDecoder::duty_cycle_ of every channel
  recent,      \* the channels with a capture in the last four periods
  idle,        \* arm_sequence_idle_counter
  led,         \* the bit of USER_LED2 in the output register
  switch,      \* the switch interrupt: where it is, the bit it has read
  blink,       \* the main loop toggling USER_LED1: the same
  flips,       \* history: the arming an undisturbed toggling would give
  torn         \* history: a toggle came between the halves of another

vars == <<rcvars, pulse, recent, idle, led, switch, blink, flips, torn>>
decoder == <<pulse, recent, live, throttle, idle>>

Init ==
  /\ RcInit
  /\ pulse = [c \in Channels |-> NoPulse] /\ recent = {} /\ idle = 0
  /\ led = FALSE
  /\ switch = [at |-> "out", bit |-> FALSE] /\ blink = [at |-> "out", bit |-> FALSE]
  /\ flips = FALSE /\ torn = FALSE

\* RcChannel::is_live: an elapsed time is not below four periods of zero.
IsLive(r, p) == {c \in r : p[c] # NoPulse}

\* toggle_motors_armed as one step, for the handler that nothing preempts.
ToggleAtOnce ==
  /\ led' = ~led /\ armed' = led' /\ flips' = ~flips
  /\ torn' = (torn \/ switch.at = "write" \/ blink.at = "write")

\* Variants: a gesture at any throttle, and one that takes a dead stick for a
\* stick in its corner.
UpdateAnyThrottle ==
  LET gesture == \A c \in Sticks : c \in live' /\ pulse'[c] = Corner
  IN  /\ throttle' = IF "throttle" \in live' THEN pulse'["throttle"] ELSE 0
      /\ IF gesture /\ idle >= IdleCount THEN idle' = 0 /\ ToggleAtOnce
         ELSE /\ idle' = IF gesture \/ idle = IdleCount THEN idle ELSE idle + 1
              /\ UNCHANGED <<led, armed, flips, torn>>

UpdateDeadSticks ==
  LET gesture == (\A c \in Sticks : c \in live' => pulse'[c] = Corner) /\ throttle' < ArmThrottle
  IN  /\ throttle' = IF "throttle" \in live' THEN pulse'["throttle"] ELSE 0
      /\ IF gesture /\ idle >= IdleCount THEN idle' = 0 /\ ToggleAtOnce
         ELSE /\ idle' = IF gesture \/ idle = IdleCount THEN idle ELSE idle + 1
              /\ UNCHANGED <<led, armed, flips, torn>>

\* RcValueConverter::update, with the new pulses and live channels.
Update ==
  LET position(c, default) == IF c \in live' THEN pulse'[c] ELSE default
      gesture == /\ \A c \in Sticks : position(c, Centre) = Corner
                 /\ throttle' < ArmThrottle
  IN  /\ throttle' = position("throttle", 0)
      /\ IF gesture /\ idle >= IdleCount
         THEN idle' = 0 /\ ToggleAtOnce
         ELSE /\ idle' = IF gesture \/ idle = IdleCount THEN idle ELSE idle + 1
              /\ UNCHANGED <<led, armed, flips, torn>>

\* PwmDecoder::capture_callback: the capture is stamped in any case, decoded and
\* passed on when it differs from the last one or the channel wants every one.
Capture(c, v) ==
  LET passedOn == c = "yaw" \/ pulse[c] # v IN
  /\ recent' = recent \union {c}
  /\ pulse' = IF passedOn THEN [pulse EXCEPT ![c] = v] ELSE pulse
  /\ live' = IsLive(recent', pulse')
  /\ IF passedOn THEN Update ELSE UNCHANGED <<throttle, idle, led, armed, flips, torn>>
  /\ UNCHANGED <<switch, blink>>

\* Four periods of a channel pass without a capture.
Silence(c) ==
  /\ c \in recent
  /\ recent' = recent \ {c} /\ live' = IsLive(recent', pulse)
  /\ UNCHANGED <<pulse, throttle, armed, idle, led, switch, blink, flips, torn>>

(***************************************************************************)
(* The user switch: toggle() reads and writes the register, then           *)
(* motors_armed_ is read back.                                             *)
(***************************************************************************)
SwitchReads ==
  /\ switch.at = "out"
  /\ switch' = [at |-> "write", bit |-> led]
  /\ UNCHANGED <<decoder, armed, led, blink, flips, torn>>

SwitchWrites ==
  /\ switch.at = "write"
  /\ led' = ~switch.bit /\ flips' = ~flips
  /\ torn' = (torn \/ blink.at = "write")
  /\ switch' = [switch EXCEPT !.at = "readback"]
  /\ UNCHANGED <<decoder, armed, blink>>

\* A variant that inverts motors_armed_ and does not read the LED.
SwitchInverts ==
  /\ switch.at = "readback"
  /\ armed' = ~armed
  /\ switch' = [switch EXCEPT !.at = "out"]
  /\ UNCHANGED <<decoder, led, blink, flips, torn>>

SwitchReadsBack ==
  /\ switch.at = "readback"
  /\ armed' = led
  /\ switch' = [switch EXCEPT !.at = "out"]
  /\ UNCHANGED <<decoder, led, blink, flips, torn>>

(***************************************************************************)
(* The main loop: led1.toggle() writes the other bits back as it read      *)
(* them.  It does not run while the switch interrupt does.                 *)
(***************************************************************************)
BlinkReads ==
  /\ switch.at = "out" /\ blink.at = "out"
  /\ blink' = [at |-> "write", bit |-> led]
  /\ UNCHANGED <<decoder, armed, led, switch, flips, torn>>

BlinkWrites ==
  /\ switch.at = "out" /\ blink.at = "write"
  /\ led' = blink.bit /\ blink' = [blink EXCEPT !.at = "out"]
  /\ UNCHANGED <<decoder, armed, switch, flips, torn>>

Next ==
  \/ \E c \in Channels : Silence(c) \/ \E v \in Positions(c) : Capture(c, v)
  \/ SwitchReads \/ SwitchWrites \/ SwitchReadsBack
  \/ BlinkReads \/ BlinkWrites

Spec == Init /\ [][Next]_vars

(***************************************************************************)
(* Properties.                                                             *)
(***************************************************************************)

\* Every variable stays in its type, and the counter below its limit.
TypeOK ==
  /\ live \subseteq recent /\ recent \subseteq Channels
  /\ throttle \in ThrottleLevels /\ armed \in BOOLEAN
  /\ pulse \in [Channels -> Int]
  /\ \A c \in Channels : pulse[c] \in Positions(c) \union {NoPulse}
  /\ idle \in 0 .. IdleCount /\ led \in BOOLEAN
  /\ switch \in [at : {"out", "write", "readback"}, bit : BOOLEAN]
  /\ blink \in [at : {"out", "write"}, bit : BOOLEAN]
  /\ flips \in BOOLEAN /\ torn \in BOOLEAN

\* Every toggle of the switch and of the gesture changes the arming exactly
\* once, unless a toggle fell between the read and the write of another toggle
\* of the port (toggle_motors_armed, rcvalueconverter.cpp:49-53; led1.toggle(),
\* main.cpp:304).
EveryToggleCounts ==
  ~torn /\ switch.at = "out" => armed = flips /\ led = armed

\* The gesture arms or disarms only with every stick of a live channel in its
\* corner and the throttle low, however the channels died and came back
\* (RcValueConverter::update, rcvalueconverter.cpp:81-92).
GestureIsDeliberate ==
  [][armed' # armed /\ switch' = switch =>
       /\ Sticks \subseteq live' /\ \A c \in Sticks : pulse'[c] = Corner
       /\ throttle' < ArmThrottle]_vars

\* To the control loop the receiver behaves as RcInterface says: a change of
\* the arming is a gesture with live sticks and low throttle or the switch, and
\* the throttle is that of a live channel or zero.
ImplementsRcInterface == RcSpec
=============================================================================
