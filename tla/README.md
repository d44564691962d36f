# TLA+ models of the Sigmadrone firmware

Sigmadrone is a quadcopter: a flight controller on an STM32F4
(`source/cortex-m4/sdfirmware`, C++ over FreeRTOS and the ST HAL), a Linux
companion with a daemon (`source/sigmad`), and a JSON-RPC link between the two
over a serial line.  These modules model the parts whose correctness
depends on the order of things: interrupts and DMA against the main task, the
receiver changing in the middle of a control cycle, alarms and postures over
long sequences of cycles, a timer that wraps while it is read, a gps task that is
preempted between two writes, a configuration that is rewritten while the power
may fail, a host that does not wait for late answers, and a daemon that is a client
of its own server and has to stop.  TLC checks small instances; TLAPS proves the
theorems of the `*_proof` modules for all values of the constants.

Paths below are relative to `src/source`; `fw/` is
`src/source/cortex-m4/sdfirmware/src/`.

## 1. The system

### 1.1 Components

| component | code | state | operations |
|---|---|---|---|
| serial receive path | `fw/uart.cpp`, `fw/ringbuffer.cpp` | `rxbuf_` (indexes `rp_`, `wp_`), the DMA counter NDTR, `cache_` with head and tail, USART error flags | DMA stores a byte, DMA interrupt sets `wp_`, `read`, `receive`, `readcache`, recovery from a line error |
| serial transmit path | `fw/uart.cpp`, HAL uart | `txbuf_`, HAL handle state, DMA stream, TC interrupt | `write`, `transmit`, DMA and USART interrupts, abort by `HAL_UART_DMAStop` |
| firmware rpc link | `fw/uartrpcserver.cpp` | `cached_request_`, `DroneState` | `jsonrpc_request_handler`; about fifty handlers that read or set a field |
| RC receiver | `fw/pwmdecoder.cpp`, `rcchannel.cpp`, `rcreceiver.cpp`, `rcvalueconverter.cpp` | decoded pulse and time of the last capture of each channel, stick values, `arm_sequence_idle_counter`, the arming LED, `motors_armed_` | capture interrupt, `is_live`, `update`, `toggle_motors_armed` by gesture or switch |
| flight control cycle | `fw/flightcontrol.cpp`, `main.cpp` | `alarm_`, `most_critical_alarm_`, motor power | `update_state`, `safety_check`, `process_servo_start_stop_command`, `base_throttle`, `set_throttle` |
| ServoController | `fw/servocontroller.cpp`, `pwmencoder.cpp` | `started_`, the pulse of every motor | `start`, `stop`, `set_pwm_pulse`, `arm_motors` |
| AltitudeTracker | `fw/altitudetracker.cpp` | `flight_ceiling_hit_`, `alarm_count_`, starting altitude, filter | `update_state`, `reset`, `clear_alarm` |
| AltitudeControl | `fw/altitudecontrol.cpp` | posture `state_`, `throttle_`, `last_base_throttle_`, hold timer, PID | `update_state` and one handler per posture |
| PositionControl | `fw/positioncontrol.cpp` | target location, recorded sticks and their age | start, stop and following of a hold |
| attitude and pilot | `fw/targetattitude.cpp`, `tripilot.cpp`, `libattitude` | quaternions, PIDs | arithmetic |
| time | `fw/timestamp.cpp`, `hwtimer.cpp` | count of the timer's periods, its register, stamps | `read_timer`, `time_stamp`, `elapsed` |
| sensors, buses | `fw/l3gd20reader.cpp`, ..., `spimaster.cpp`, `i2cmaster.cpp` | a queue of wake-ups, chip selects | read, calibrate |
| gps, battery, power | `fw/gpsreader.cpp`, `battery.cpp`, `poweroff.cpp` | parser, voltage, pins | tasks of lower priority |
| configuration | `fw/flashmemory.cpp`, `dronestate.h`, `main.cpp` | the configurable fields of `DroneState`, one flash sector, the lock of its controller | set a field, save, restore, `program` (erase, write, lock), read at boot |
| host client | `librexjsonrpc/rpcclientuart.cpp` | tty, cache, serial number | request, response with timeout |
| daemon | `sigmad/` | `recording_`, `drone_state`, the running `io_service`, queued handlers, three threads | relay an rpc, ask and record, `sd_exit`, stop and join |
| http client | `libhttp/http_client.cpp` | socket, progress of the request, timer | `request` with connect, write, read, repetition; time-out |
| http server | `libhttp/http_server.cpp`, `connection.cpp`, `request_handler.cpp` | the connections and where each is | accept, read, handle, reply, keep or close, inactivity |
| log | `liblogger/` | log file | write and rotate under one mutex |

### 1.2 How they interact

* The **main task** (`main_task`, `fw/main.cpp:301-416`) runs one cycle after
  another: sensors, attitude, `FlightControl::update_state`,
  `send_throttle_to_motors`, then one call of `jsonrpc_request_handler`.  It is
  the task of the highest priority.
* The **capture interrupt** of a timer decodes a pulse of the receiver and runs
  the whole of `RcValueConverter::update`; the **switch interrupt** toggles the
  arming.  Both write values (`throttle_`, `motors_armed_`) that the main task
  reads several times in a cycle, without a lock.
* The **DMA and USART interrupts** share `rxbuf_` and `txbuf_` with the main
  task; the receive and the transmit half share the HAL handle.
* The **rpc handler** runs between two cycles and writes fields of `DroneState`
  that steer the next cycle, the flight mode for one.
* The **gps task**, of lower priority, writes the location into `DroneState`
  field by field; the main task may preempt it between two fields.
* The **period interrupt** of the clock's timer counts periods; it preempts the
  capture interrupts, which take stamps that the main task copies.
* The **rpcs that store** the configuration run in the main task like the others;
  what they write is read by the next **boot**, whenever that comes.
* The **daemon** makes one serial client for each request it forwards; a request
  that gives up leaves its answer to come later, to whichever client asks next: the
  relay (`sigmad/userrpcserver.cpp:351-368`) compares no ids.
* The **io thread** of the daemon runs every handler of the http server, and relays
  a request to the firmware while it does.  The **black box**, a thread of the same
  process, is a client of that server.  The **main thread** waits for the io thread,
  then for the black box.

### 1.3 What is hard, and what makes each part correct

* Receive: a write pointer that two agents set, sizes that are read twice, a
  recovery that drops a part of a line.  Correct when the bytes are those of
  the wire, in order, less what the recovery dropped or a late task lost.
* Transmit: the ring is emptied two interrupts after the last byte, the result
  of the HAL is ignored, the receive half may abort the stream.  Correct when
  the handle is always free when it is taken, and the busy wait always ends.
* Rpc: lines come in pieces.  Correct when each line is served once, in order.
* Receiver: toggles preempt each other, channels die and return.  Correct when
  only the switch or a deliberate gesture changes the arming, and does so once.
* Time: register and count are read apart, and a stamp is copied while it is
  rewritten.  Correct when a reading is a time between its begin and its end,
  and `elapsed` returns, with a result less than a period out.
* Hold: the location is torn, the sticks creep, ages go back.  Correct when the
  pilot's sticks win, the location is recent, and a hold begins when asked for.
* Host: answers are late, lost or cut.  Correct when a request gets its own
  answer or an error, and always ends.
* Configuration: erase and program can fail or be cut short, and the result of a
  failed byte is dropped.  Correct when a boot finds one whole text or none, and a
  confirmed save comes back, as far as writing and reading a field fit together.
* Daemon: sockets are kept, time out and are closed by either side, requests are
  repeated, and the black box may wait for a server that has stopped.  Correct when
  a response belongs to its request, no request is executed twice but for the one
  repetition, what is recorded was brought by the request of this round, and `sd_exit`
  ends the daemon.
* Cycle: arming, liveness and throttle change between any two reads.  Correct
  when power follows the pulses, the alarm is the true one, and an alarm or a
  low stick brings the drone down.

## 2. The modules

| module | models | extends |
|---|---|---|
| `RingBuffer` | index arithmetic of class `RingBuffer` | |
| `ByteFifo` | abstract: a bounded FIFO that can be cleared | |
| `UartRx` | receive half of `UART`, assembly of lines | `RingBuffer` |
| `UartTx` | transmit half of `UART`, HAL handle | `RingBuffer` |
| `UartServer` | both halves with the rpc server that uses them | `UartRx`, `UartTx` |
| `Throttle` | throttle levels at which the firmware decides | |
| `RcInterface` | abstract: what the control cycle sees of the receiver | `Throttle` |
| `RcValues` | decoders, liveness, gesture, switch, LED; implements `RcInterface` | `RcInterface` |
| `AltitudeTracker` | the ceiling alarm | |
| `AltitudeControl` | postures and the throttle of altitude hold | `Throttle` |
| `FlightControl` | one cycle, step by step, with all of the above | `RcInterface`, `AltitudeTracker`, `AltitudeControl` |
| `PositionControl` | the hold of a location, with the gps task that writes it | |
| `TimeStamp` | the clock at two levels of preemption, and `elapsed` | |
| `FirmwareCall` | abstract: a call of the firmware as the relay sees it, in one step | |
| `SerialRpc` | the serial client of the host, the link, and a firmware that answers lines in order; implements `FirmwareCall` | |
| `FlashConfig` | the configuration in memory and in flash, with failures, power cuts and the boot | |
| `HttpLink` | the blocking http client and the http server, with the connections between them | |
| `Sigmad` | the daemon: io thread, black box and main thread over `HttpLink`, with the relay as `FirmwareCall`, until it exits | `HttpLink` |
| `RcValues_proof`, `FlightControl_proof`, `PositionControl_proof`, `TimeStamp_proof`, `FlashConfig_proof`, `Sigmad_proof`, `SerialRpc_proof`, `UartServer_proof` | theorems | their module, `TLAPS` |
| `MC*` | instances for TLC | |

**Granularity.**  A step of a task is one access to state that an interrupt
or a task of another priority writes.  `UART::receive` is six steps (read NDTR, set `wp_`, first and second
`read_size()`, copy, wipe); a cycle of `FlightControl` is cut at every read of
`armed`, of the liveness of a channel and of the throttle.  `read_timer` is three steps at each of two
levels, and the copy of a stamp two.  `FlashMemory::program` is a step for the erase
and one for each byte.  A step of the http client is one asynchronous operation, one
of the server a handler, except that a request is executed between two steps: while
it lasts (`busy`) the io thread runs nothing else.  Interrupt handlers that nothing preempts are
one step; so is `PositionControl::update_state`, whose inputs are copies and a
location that only a task of lower priority writes.  A pending interrupt of higher priority
disables the steps of the task (`At`, `TxAt`), as preemption does.

**Data.**  A byte is its number in the order of its arrival, so "in order" and
"none lost" are arithmetic on numbers.  A throttle is in thousandths.  The
altitude is the zone it lies in relative to the ceiling; the PID term is any
value of its clip range; time since the stick moved is the flag `steady`.
In `PositionControl` a coordinate is the number of the sentence it came in, a
stick position a number of tolerances.  In `TimeStamp` a time is a count and a
register; the conversion of ticks to microseconds is left out.  In `SerialRpc` an
answer is two pieces, of which the second ends the line.  In `FlashConfig` a JSON
text is its length and the object it spells, a byte of the sector is erased, the
right one of the last text, half programmed, or programmed over something else
("worn"), and of the fields of `DroneState` one stands for all that are read as they were
written; the choice of the external gyro, its alignment (a 3x3 matrix), the flight
mode and the calibration are kept apart, since each is read in a way of its own.  The
mode above the last stands for all numbers that are no mode.  In `Sigmad` a call of
the firmware brings its own answer, a late one, or nothing that can be used.  In
`HttpLink` a request is a number, and what is on its way
between the two ends of a connection is all of it, its content, or nothing.

**History variables** carry no behaviour of the code: `stored`, `fetched`,
`dropped`, `delivered`, `lapped` in `UartRx`; `written`, `wire`, `aborted` in
`UartTx`; `answers` in `UartServer`; `flips`, `torn` in `RcValues`;
`recovered`, `jumped`, `low` in `FlightControl`; `began` in `PositionControl`;
`began`, `called`, `before`, `after`, `wraps` in `TimeStamp`; `serial`, `quiet`,
`early`, `results` in `SerialRpc`; `answered`, `failed`, `broken` in `FlashConfig`;
`runs` in `HttpLink`.

**Notes on the code.**

* `FlightControl::base_throttle` reads the throttle twice
  (`fw/flightcontrol.cpp:59-60`).  If it jumps in between, one cycle passes the
  emergency cap; `jumped` marks that cycle and `AlarmComesDown` excludes it.
* The arming state is read back from an LED pin.  The read-modify-write of the
  port is not atomic (`stm32f4xx_hal_gpio.c:448-454`), so a toggle that falls
  between the halves of another may be undone; `torn` marks it and
  `EveryToggleCounts` excludes it.  Afterwards LED and `motors_armed_` may
  disagree until the next toggle.
* `*cached_request_.rbegin()` on an empty string (`fw/uartrpcserver.cpp:1251`)
  is undefined; with either outcome (newline or not) the handler returns.
* `DroneState` starts in altitude hold (`fw/dronestate.h:81`) unless the boot
  configuration says otherwise, so `FlightControl` starts in either mode.
* A cycle that clears a dead-channel alarm shows no ceiling alarm although the
  ceiling is hit, until the next cycle (`recovered`).

* `should_stop_tracking` does not look at the arming state: a drone that is
  disarmed in a hold keeps its target and resumes it when it is armed again,
  perhaps somewhere else.  No document says what it should do; the model has it
  so (`ShouldStop`), and no property forbids it.
* `TimeStamp` relies on priorities: the timer of the clock (1) preempts the
  captures (2).  The 64-bit count could be read in halves; its upper half changes
  once in 2^32 periods, and the second reading of the count covers that too.
* `FlashConfig`: the answer of a save says nothing of failed bytes, and a text longer
  than the region is erased into the sector and half lost at the next boot
  (`fw/flashmemory.cpp:83-99`: both exceptions are built and not thrown).  The
  properties show that other calls are not touched by that.
* `HttpLink`: a timer that expires as its operation completes has its handler queued
  already; cancelling does not stop it, and it closes the socket after the operation
  has succeeded (`http_client.cpp:308-318`).  `Succeed` has both outcomes.  A refused
  connection acts like one that times out while connecting.
* `Sigmad`: the stop of the http server in 100 ms (`serverapp.cpp:61`) never runs, as
  the `io_service` is stopped on the next line.  A daemon blocks the signals that
  `serverapp.cpp:40-51` waits for (`daemon.c:32-42`), so that only `sd_exit` stops it;
  in the foreground a signal queues the same handler.  The black box may hold up the
  exit for its time-out of 30 s, while the restart script waits for 9
  (`sigmad.sh:14-26`): that the daemon ends is shown, not how soon.
* `SerialRpc`: the daemon serves its clients in one io thread, so two calls never
  overlap; the timeout of 1.5 s is far longer than an answer takes on an idle
  link; the ids of answers are never compared, so order is all that tells them
  apart.  The flush that opens a port is what drops a late answer, and an answer
  that comes after it is taken for that of the next request.
* `Sigmad`: the black box records what the relay returned, so that after a call of the
  firmware that timed out, its own or another client's, it may record an answer to
  an earlier request.  `AnswerIsOwn` is therefore about http alone, and
  `RecordIsFresh` says what is left of freshness: what is recorded was brought by the
  request of this round; it is that request's own answer as long as every call of the
  firmware returned its own; and by `CallsAsPromised` it is never an answer that a
  call has returned before.
* `Sigmad` ends at the exit.  That `io_service_` is destroyed before
  `user_rpcserver_` (`serverapp.h:51-64`), and an exception that leaves `run()` of the
  io thread, are not modelled.
* `RecordIsFresh` would be false if it promised the answer to this round's request, and
  `SaveComesBack` if it promised the configuration as it was: both say what the code
  gives, and section 5 has the second one's difference from the documentation.

## 3. What TLC checks

| run | instance | shows |
|---|---|---|
| `uart_server` | ring of 4, cache and chunk of 2, lines of 2 and 3 bytes, answers of up to 4 bytes, 6 in all, 1 error | reading: `CacheFits`, `CopiesInOrder`, `NothingLost`, `OneLinePerRequest`, and the receive side implements `ByteFifo` (`ImplementsFifo`); writing: `WireInOrder`, `EverythingSent`; both: `OneAnswerPerLine`, `CutAtTheEnd`, `ReceiverRestarts`, `LinesAreAnswered` |
| `rc_values` | throttle, yaw and one stick, idle count 2 | `EveryToggleCounts`, `GestureIsDeliberate`, refinement `ImplementsRcInterface` |
| `flight_safety` | two motors and two channels, throttles 0, 500, 900 (landing, hold, ascent), threshold 1 | `PowerNeedsPulses`, `CeilingCounted`, `AlarmsShown`, `AlarmComesDown`, `StickDownLands` |
| `flight_liveness` | two motors and two channels, throttles 0 and 500, threshold 0 | `DisarmStops`, `ThrottleDownCuts`, `DeadChannelIsReported`, `LostReceiverComesDown` |
| `flight_arm` | as above | a violation: see section 5 |
| `position_control` | pitch of four positions, roll of two, ages 1 and 2, three sentences | `HoldYields`, `TargetIsRecent`, `HoldBegins` |
| `time_stamp` | period of 2 ticks, two wraps | `ReadingIsCurrent`, `ElapsedInRange`; `ElapsedReturns` |
| `serial_rpc` | three requests, one line error | `QuietMeansOwn`, `AnswersInOrder`; it implements `FirmwareCall` (`CallsAsPromised`); `EveryCallEnds` |
| `serial_timeout` | as above | a violation: see section 5 |
| `flash_config` | region of 2 bytes in a sector of 3, two values of a gain, two calibrations, the default alignment and its transpose, three modes, four texts sent by the client | `NothingOverwritten`, `ConfirmedSurvives`, `SaveComesBack` |
| `flash_restore` | the same, with a flash and a power supply that do not fail | a violation: see section 5 |
| `sigmad` | black box and one other client that keeps its socket, two requests each, two connections; the other client's first request is for the firmware, its second for the daemon | `AnswerIsOwn`, `TwiceOnlyAfterReuse`, `RecordIsFresh`; `StopCompletes` |

Each run checks the properties that a fault in the code could break in a way of
its own.  The type invariants of `RcValues`, `FlightControl`, `PositionControl`,
`TimeStamp`, `SerialRpc`, `FlashConfig` and the UART are proved instead of checked.
Every invariant and every action property in the table is proved too (section 4).

**Bounds and why they are enough.**  Rings hold 4096 bytes in the firmware, 4
here: with 5 bytes in and 6 out the indexes wrap, the ring fills, the DMA laps the
reader, and a piece of a write is smaller than the write.  A cache and a chunk of
2 make a line span two chunks and two caches, and a cache hold the end of one
line and the start of the next.  `MaxErrors` is one recovery, which may fall at
any point of a line or of an answer.  `MaxDuring` bounds the bytes that arrive
while `receive` sizes the ring: at 460800 baud a byte takes 22 microseconds and
the sizing a few instructions, so at most one.  The arming idle count is 50, its
model 2: what matters is a count that reaches its limit, is reset and has to be
climbed again.  The ceiling threshold is 16, its model 1, so that one reading
is not enough.  The throttle levels are one for each decision of the code.
With two motors one pass over them may cut the one and drive the other, since each
reads the throttle for itself.

A period of two ticks with two wraps lets a register be read before and after a
wrap, an interrupt be late, and the two halves of a copied stamp be two periods
apart.  Four positions of a stick are the fewest in which it creeps away by more
than twice the tolerance in steps within it.  The ages of 500 and 600 ms are 1 and
2 units, so that there is a unit in which a hold may start and the sticks are not
recorded again.  Three sentences allow a mixture that is two sentences apart.
A region of 2 in a sector of 3 has texts that are shorter than the region, fill it
and exceed it, with a byte before and after the failing one; the last mode is 2
there instead of 3, which is enough for a mode below, at and above the limit.  The
texts a client may send leave members out, have members of another type, a mode
that does not exist, and an external gyro.  The default alignment differs from its
transpose, so that a boot that transposes it shows.  Two requests of a client are the fewest
in which a socket is kept and used again, and give the black box its unrecorded
round and a recorded one; with two connections, one that is still open at the
server's end makes the other client wait or time out.  The two requests of the other
client are one of each kind (`Forwarded`): one that takes a call of the firmware, and
may leave its answer to the black box, and one that may be `sd_exit`.

Three requests with one line error allow an answer that comes one and two calls
late, and a lost one before or after it.

**Fairness.**  The steps of the main task are weakly fair: `main_task` has the
highest priority and never blocks for good.  Interrupt handlers are weakly
fair.  The transmit DMA and the USART are, because no flow control is
configured (`fw/main.cpp:105-112`).  Nothing is assumed of the other end of the
wire, of the receiver, of line errors or of the rpc client.  In `PositionControl`
the cycle and time are fair (there is a cycle between two units of time); nothing
is assumed of the gps.  In `TimeStamp` the clock and its interrupt are weakly fair,
and the task strongly: captures come milliseconds apart and take microseconds, so
they cannot preempt each attempt of the task.  At the bound of time the register
stays at its end, so the loop of `elapsed` still has to end by itself.  In
`SerialRpc` the thread of the host, the wire and the timeout of `select` are fair;
nothing is assumed of the firmware.  In `Sigmad` the three threads run, the
`io_service` dispatches what is queued, a request that is being executed ends (its
relay to the firmware does, by `EveryCallEnds` of `serial_rpc`), and each operation
of the black box succeeds, fails or times out: its timer is armed for every one.
The steps of the main thread and those of the io thread that matter (a handler that
executes, the stop) are never enabled together, so one condition covers both; its
subscript has what each of them changes.
Nothing is assumed of the other client, nor that the server accepts or answers.
`FlashConfig` states safety only.

**Deadlock** is checked in every run but `serial_rpc`, `serial_timeout`,
`time_stamp` and `sigmad`, which stop when the last request is over, time is at its
bound, or the daemon has exited.

## 4. What is proved

`RcValues_proof`, from the assumptions `ThrottleAssumption`, `RcAssumption` and
`IdleAssumption`:

* `TypeCorrect`, `TogglesCount`, `GestureCorrect`, and `RefinesRcInterface`:
  the receiver implements the interface that `FlightControl` is built on.
* The invariant `Inv` adds to the types that the live channels are the recent
  ones with a pulse.  `ToggleInv` says, while no toggle is torn, what each
  handler in the middle of a toggle holds: the bit it read is the bit of the
  register, and `armed` lags behind the LED only between the write and the
  reading back.  `EveryToggleCounts` alone says nothing of those states and is
  not inductive.

`FlightControl_proof`, with `ThresholdAssumption` and `FlightAssumption` too:

* `TypeCorrect`, `PowerSafe`, `CeilingSafe`, `AlarmsCorrect`,
  `AlarmBringsDown`, `LandingCorrect`, all from `InvCorrect`.
* `Inv` strengthens the properties with what holds between the points at which
  they are stated: the start has happened when the power comes on and the power
  is off before the stop (`ServoInv`); from the tracker to the end of the scan
  the alarm follows the ceiling (`AlarmInv`); after one, two and three cycles
  with the stick down the posture is descending or landed, landed, and landed
  with the throttle down (`LandingInv`).  One lemma per action, one step per
  part of `Inv` that the action touches.

`PositionControl_proof`, from `PositionAssumption`:

* `TypeCorrect`, `PilotWins`, `TargetCorrect`, from `InvCorrect`.
* `HoldInv` says what `HoldYields` leaves out: the sticks of each cycle and those
  at the beginning are compared with the same recorded ones, which do not change
  in a hold; the factor of two is the lemma `WithinTwice`.  `PlaceInv` says that
  the location of `DroneState` is the last sentence's, and that between the two
  writes the longitude is one sentence older.

`TimeStamp_proof`, from `TimerAssumption`:

* `TypeCorrect`, `ReadingCorrect`, `ElapsedCorrect`, from `InvCorrect`.
* `ClockInv`: the count lags by the interrupt that is not served.  `ReadInv`: a
  register that was read after the end of the period is never accepted, because
  the interrupt is served before the second reading of the count.  `StampInv` and
  `CopyInv`: stamps follow each other, and a copy takes its halves from the stamps
  before and after the copying.  `ElapsedInRange` then follows from the order of
  times and from arithmetic with the period (`PeriodTimes`, `DifferenceIsAbs`,
  `TornCopy`).

`FlashConfig_proof`, from `FlashAssumption`:

* `TypeCorrect`, `NeverOverwrites`, `ConfirmedStays`, `AlwaysLockedAtRest`,
  `SaveThenBoot`, from the invariance of `IInv`.
* `IInv` says what the sector looks like inside `program()`: before the erase nothing
  is confirmed and nothing has failed (`Unlocked`); while bytes are written the
  sector is of one text, erased beyond the byte in hand, and right up to it unless a
  byte failed, which is also when the controller is locked (`Progress`); afterwards a
  confirmed text is there to its last byte (`Confirmed`).  `ConfirmedSurvives` alone
  says nothing of a program that is under way.  `ReadBack` is the lemma about the
  two conversions between configuration and text, and `Transposed` its part about the
  alignment: written row by row and read column by column.  `SaveThenBoot` says that
  a boot after a confirmed save gives `Restored` of what was saved: without the external
  gyro, with its alignment transposed, everything else as it was.

`Sigmad_proof`, from `HttpAssumption` and `SigmadAssumption`:

* `OwnAnswers`, `FreshRecords` and `NeverThreeTimes`, from the invariance of `IInv`.
* `IInv` says who may still put what on a connection: a socket is the client's end of
  an open connection of its own (`Owned`); a connection carries one thing at a time, a
  request, its execution or the reply to an executed one (`Carried`); before a client
  writes, its socket carries nothing, and then only the present request (`Waiting`),
  which is why a socket that is kept never holds the reply of a request that was given
  up.  `AnswerIsOwn` alone says nothing of a reply that has not been read.  The steps
  of a client over its socket, and those of the server, go through one lemma each
  (`OverSocket`, `ServedInv`).
* `RelayInv` is what `FreshRecords` needs of the relay: what the present request of the
  black box brought is its own answer or nothing, as long as no call of the firmware
  ended without its own.
* `NeverThreeTimes` counts: `TwiceOnlyAfterReuse` says nothing of a request that is on
  its way, so `CountInv` bounds, for each client and request, the executions, plus the
  connections that carry the request or are executing it (`Sent`), plus the times it
  may still be written (`Writes`: once in the attempt under way, and once more while
  that is over a kept socket), by one or, for a client that keeps its socket, two
  (`Allowed`).  A step moves a unit from what may be written to what was sent, or from
  there to what was executed, or drops it (`CountLess`, `CountWrite`, `CountExecute`).

`UartServer_proof`, from `BufSizeAssumption`, `UartRxAssumption`, `UartTxAssumption` and
`UartServerAssumption`, for any sizes of ring, cache and chunk and any set of newlines:

* All eight safety properties of `uart_server`, and `UartImplementsFifo`, which shows
  step by step that the receive half is a bounded FIFO: the write pointer, the DMA
  position and the sizing are stutters, a stored byte is `ByteFifo`'s put, the release
  of a copied piece its get, a recovery its clear.
* First the ring: `Advance` adds modulo the size, is injective below it, and
  `DataSize` and `ReadSize` undo it (`AdvanceIs`, `AdvanceTwice`, `AdvanceInjective`,
  `DataSizeIs`, `ReadSizeIs`).  Then one half at a time.
* `TxInv`: one of the stream, its interrupt and the USART's is next whenever the handle
  is not free (`SendingInv`), and the ring holds the end of what was accepted
  (`PieceInv`), so that the wire is what was accepted less what is pending (`WireInv`).
* `RxInv`: the bytes that wait lie between the read index and the *DMA position*; the
  write index says nothing by itself, since two agents set it.  `SizingInv` is what
  repairs that: while `receive` sizes the ring, `wp_` lags the DMA by no more than
  arrived since NDTR was read, whichever of task and interrupt wrote it last; with at
  most one such byte (`MaxDuring`) the second `read_size()` cannot pass the cache.
  `LineInv` ties `cached_request_` to the last newline that came out.
* `CutInv` and `AnsweredInv` join the halves: what has left of an answer that still
  goes on left in full, and every newline that came out is blank, answered, or being
  served.  `RxInv` and `AnsweredInv` hold until the DMA laps the reader, `TxInv` and
  `CutInv` always.
* A finding about the model: `OneAnswerPerLine` was stated without `~lapped`.  It is not
  inductive, and for more bytes than the run allows it is false, since a reader that
  was lapped sees bytes out of their order; the property says so now, and
  `UartRxAssumption` says that the newlines are among the bytes, which start at 1.

`SerialRpc_proof`, from `SerialRpcAssumption`, for any number of requests and errors:

* `SerialTypes`, `QuietCallsGetTheirOwn`, `NoAnswerMixedUp`, `AnswersNeverOvertake`
  and `CallsAreAsPromised`, from `SerialInvariant`.  `NoMixup`, that without time-outs
  and errors every call gets the whole of its own answer, is not in a run:
  `CallsAsPromised` covers that case and what comes after the first call that failed.
* `CallsAreAsPromised` shows step by step that `SerialRpc` implements `FirmwareCall`,
  which `Sigmad` uses in its place: a call that ends brings its own answer, or nothing,
  or a late one only if an earlier call lost its own, and never one that came before
  (`AsPromised`, from the order of the results).
* `FlowInv` follows an answer from the firmware to the caller: in each place (to the
  firmware, to the host, tty, cache, response) the pieces are in the order of their
  requests, and each place is before the ones behind it.  `GotInv` adds the results,
  `QuietInv` that what a call on a quiet link may meet is its own or an error without an
  id (request 0), and `AloneInv` that, while nothing timed out or failed, one request or its answer
  is all there is.  The order is between pieces of the same
  part (`Earlier`), as a line error may leave the first piece of one request with the
  last piece of a later one; and what comes back is compared with the last pieces of
  the requests under way, as these are what the firmware answers.

Only model-checked: the liveness properties, which need fairness and ENABLED
(`LinesAreAnswered`, `EverythingSent`, `DisarmStops`, `ThrottleDownCuts`,
`DeadChannelIsReported`, `LostReceiverComesDown`, `HoldBegins`, `ElapsedReturns`,
`EveryCallEnds`, `StopCompletes`), and the three violations of section 5.

## 5. Findings

`flight_arm`: `servocontroller.h:36` documents `start` as "Start pulse
generation, i.e. PWM output and arm the motors".  `start`
(`fw/servocontroller.cpp:42-61`) calls `arm_motors` before it sets `started_`,
and `set_pwm_pulse` ignores the call while `started_` is false: the arming
pulse is never given, and the timers run with a pulse of one tick
(`fw/hwtimer.cpp:338`) until the first throttle of the cycle.

`serial_timeout`: a response that does not come is meant to be an exception
(`librexjsonrpc/rpcclientuart.cpp:141-142`, "rpc_client_uart::response timed out").
`readtimeout` returns 0 on a timeout (line 126), which ends the loop of `response`
(line 135) but is not the negative count that is an error: what came so far, or
nothing, is returned as the response.

`flash_restore`: `uartrpcserver.cpp:724-726` promises that "Upon reboot the firmware
will read the flash memory and initialize its configurable parameters with the
content of the data received by this call".  `boot_config_to_json` writes
`use_ext_gyro` as a JSON bool (`fw/dronestate.h:217`), `init_from_boot_config` reads it
with `get_real` (line 245), which throws for a bool (`librexjson/rexjson++.cpp:248-254`);
the exception is swallowed.  A drone that was saved with the external gyro boots with
the internal one.  And `ext_gyro_align` is written row by row
(`jsonserialization.h:63-65`, from `fw/dronestate.h:218`) but read with
`arr.at(j * M + i)` (`jsonserialization.h:53-55`, from line 247), so that every save and
boot transposes it; the default (`fw/dronestate.h:87-89`) is not symmetric, and
`sd_external_gyro_align`, which reads its parameter the same way, stores the transpose of
what it is given.  `SaveComesBack` states, and the proof shows, what does come back:
everything but these two, and a number that is no mode (`Restored`).

## 6. Not modelled

* Attitude, pilot, filters, PID arithmetic: floating point with little control.
* Sensor and bus drivers, battery, power-off, gps parsing: little state.
* The rpc table and the JSON library: sequential functions of their input.
* Of `libhttp`: the parsers; bad and oversized requests (`connection.cpp:162`, `187`),
  which no client here sends; the requests that `eagain_` would postpone, which nothing
  sets; content without a length; `http_client::stop`, which the daemon never calls;
  the life of the connection objects under pending handlers.
* Of `sigmad`: becoming a daemon, the command line client, the rpcs that only report.
* `liblogger`: writing and rotation are one step under a mutex.
* Vendored code (FreeRTOS, CMSIS, HAL, TinyGPS), except the HAL functions
  whose order matters, which are part of `UartRx`, `UartTx` and `RcValues`.
* Tools, sample programs, web page, boards.

## 7. Plan

In this order.  The list of hazards in `PROJECT.json` says what each is for: first
the parts that fly the drone, then the link, then the configuration and the
daemon.

1. *Done:* serial link of the firmware, receiver, control cycle with tracker
   and altitude control, their first theorems.
2. *Done:* `SerialRpc`, `TimeStamp` and `PositionControl`, with the theorems of
   the last two.
3. *Done:* `FlashConfig` with its theorems; `HttpLink` and `Sigmad`; the two halves
   of the UART checked together with the server that uses them.
4. *Done:* `Sigmad_proof`, `SerialRpc_proof` and `UartServer_proof`: every safety
   property of the runs, and the refinements of `RcInterface` and `ByteFifo`.
5. *Done:* `FirmwareCall`, the abstract specification of a call, which `SerialRpc`
   implements and `Sigmad` uses as its relay.
6. `PositionControl` as a part of `FlightControl`'s cycle.
