----------------------------- MODULE FlashConfig -----------------------------
(***************************************************************************)
(* The stored configuration of the firmware: the rpcs that change the      *)
(* configuration in memory and those that write it to flash                *)
(* (uartrpcserver.cpp), FlashMemory::program (flashmemory.cpp) and the     *)
(* boot that reads it back (main.cpp, dronestate.h).  The power may fail   *)
(* between any two steps, an erase and the programming of a byte may fail. *)
(* A JSON text is the object it spells and its length; its last byte is    *)
(* the closing brace, so that a text that is cut short does not parse.     *)
(***************************************************************************)
EXTENDS Integers

CONSTANTS
  RegionSize,   \* bytes of flashregion, the part of the sector a boot reads
  SectorSize,   \* bytes of the sector
  ConfigLen,    \* length of a configuration written by boot_config_to_json
  Gains,        \* the values of kp, for all gains
  Biases,       \* the values of mag_bias and of mag_scale_factor
  Calibrations, \* the pairs of them that a calibration ends with
  Alignments,   \* the values of ext_gyro_align
  Texts,        \* the texts of objects sent with sd_set_configdata
  DefaultGain, DefaultBias,
  LastMode,     \* the number of the last flight mode
  Faulty        \* erasing and programming may fail and the power may be cut

AutoLevel == 0
AltitudeHold == 1

Axes == 0 .. 2

\* external_gyro_align_ of a new DroneState.
DefaultAlign ==
  [p \in Axes \X Axes |-> CASE p = <<0, 1>> -> 1
                            [] p = <<1, 0>> -> -1
                            [] p = <<2, 2>> -> 1
                            [] OTHER -> 0]

\* matrix_to_json_value and matrix_from_json_value of a 3x3 matrix, the array
\* indexed from 0: it is written row by row and read column by column.
Rows(m)      == [i \in 0 .. 8 |-> m[<<i \div 3, i % 3>>]]
Columns(arr) == [p \in Axes \X Axes |-> arr[p[2] * 3 + p[1]]]

\* The fields of DroneState that init_from_boot_config sets: one that stands
\* for all the numbers and the vector of the accelerometer, which are told
\* apart as far as the eight decimals of their texts go, and those that are
\* treated in a way of their own.  The mode LastMode + 1 stands for every value
\* of flight_mode_ that is no mode.
Configs ==
  [kp : Gains, use_ext_gyro : BOOLEAN, ext_gyro_align : Alignments,
   flight_mode : 0 .. LastMode + 1, mag_bias : Biases, mag_scale_factor : Biases]

Default ==
  [kp |-> DefaultGain, use_ext_gyro |-> FALSE, ext_gyro_align |-> DefaultAlign,
   flight_mode |-> AltitudeHold,
   mag_bias |-> DefaultBias, mag_scale_factor |-> DefaultBias]

\* A JSON value; an "array" is one of enough numbers for what is read from it.
Json(type, v) == [type |-> type, v |-> v]

\* boot_config_to_json of the configuration c.
Written(c) ==
  [length |-> ConfigLen,
   object |-> [kp |-> Json("real", c.kp),
               use_ext_gyro |-> Json("bool", c.use_ext_gyro),
               ext_gyro_align |-> Json("array", Rows(c.ext_gyro_align)),
               flight_mode |-> Json("int", c.flight_mode),
               mag_bias |-> Json("array", c.mag_bias),
               mag_scale_factor |-> Json("array", c.mag_scale_factor)]]

AllTexts == Texts \union {Written(c) : c \in Configs}

\* The object o has a member f of one of the types.
Has(o, f, types) == f \in DOMAIN o /\ o[f].type \in types

Numeric == {"real", "int"}     \* what get_real takes

\* A variant that takes the last flight mode for an unknown one.
FromJsonShort(o) ==
  [kp |-> IF Has(o, "kp", Numeric) THEN o.kp.v ELSE DefaultGain,
   use_ext_gyro |-> FALSE,
   ext_gyro_align |-> IF Has(o, "ext_gyro_align", {"array"})
                      THEN Columns(o.ext_gyro_align.v) ELSE DefaultAlign,
   flight_mode |-> IF ~Has(o, "flight_mode", {"int"}) THEN AltitudeHold
                   ELSE IF o.flight_mode.v >= LastMode THEN AutoLevel
                   ELSE o.flight_mode.v,
   mag_bias |-> IF Has(o, "mag_bias", {"array"}) THEN o.mag_bias.v ELSE DefaultBias,
   mag_scale_factor |-> IF Has(o, "mag_scale_factor", {"array"})
                        THEN o.mag_scale_factor.v ELSE DefaultBias]

\* init_from_boot_config on a fresh DroneState: a member that is missing or of
\* another type leaves the default, and the calibration is taken as a pair.
\* use_ext_gyro is read with get_real.
FromJson(o) ==
  LET pair == Has(o, "mag_bias", {"array"}) /\ Has(o, "mag_scale_factor", {"array"})
  IN  [kp |-> IF Has(o, "kp", Numeric) THEN o.kp.v ELSE DefaultGain,
       use_ext_gyro |-> IF Has(o, "use_ext_gyro", Numeric)
                        THEN o.use_ext_gyro.v # 0 ELSE FALSE,
       ext_gyro_align |-> IF Has(o, "ext_gyro_align", {"array"})
                          THEN Columns(o.ext_gyro_align.v) ELSE DefaultAlign,
       flight_mode |-> IF ~Has(o, "flight_mode", {"int"}) THEN AltitudeHold
                       ELSE IF o.flight_mode.v > LastMode THEN AutoLevel
                       ELSE o.flight_mode.v,
       mag_bias |-> IF pair THEN o.mag_bias.v ELSE DefaultBias,
       mag_scale_factor |-> IF pair THEN o.mag_scale_factor.v ELSE DefaultBias]

ASSUME FlashAssumption ==
  /\ RegionSize \in Nat /\ SectorSize \in Nat /\ RegionSize <= SectorSize
  /\ ConfigLen \in 1 .. RegionSize
  /\ LastMode \in Nat /\ LastMode >= AltitudeHold
  /\ DefaultGain \in Gains /\ DefaultBias \in Biases
  /\ DefaultAlign \in Alignments
  /\ \A m \in Alignments : Columns(Rows(m)) \in Alignments
  /\ Calibrations \subseteq Biases \X Biases
  /\ \A t \in Texts : t.length \in 1 .. SectorSize /\ FromJson(t.object) \in Configs
  /\ Faulty \in BOOLEAN

VARIABLES
  ram,        \* the configurable fields of DroneState
  cells,      \* the sector: what every byte of it holds
  last,       \* the text the bytes of the sector that are "own" belong to
  text,       \* the text being programmed, outside of program() it is last
  pos,        \* how many of its bytes have been dealt with
  pc,         \* where program() is; "off" without power
  locked,     \* the lock bit of the flash controller
  \* history of the last call of program(): it was answered without an error;
  \* a byte of it failed; its erase was broken off
  answered, failed, broken

sector == <<cells, last, broken>>
call   == <<text, pos>>
vars   == <<ram, sector, call, pc, locked, answered, failed>>

Bytes == 1 .. SectorSize

\* "own" is the right byte of last, "partial" one whose programming failed,
\* "worn" one that was not erased properly.
CellStates == {"erased", "own", "partial", "worn"}

\* The image that is flashed with the firmware has zeros in the region.
Init ==
  /\ ram = Default
  /\ cells = [b \in Bytes |-> "partial"] /\ last = Written(Default)
  /\ text = Written(Default) /\ pos = 0
  /\ pc = "idle" /\ locked = TRUE
  /\ answered = FALSE /\ failed = FALSE /\ broken = FALSE

(***************************************************************************)
(* The rpcs.  They run in the task of the flight control, one at a time.   *)
(***************************************************************************)

\* The setters of single fields, and the end of a calibration.  The alignment
\* is read from an array as at boot; a mode that is too large is made one, a
\* negative number is not.
SetField ==
  /\ pc = "idle"
  /\ \/ \E v \in Gains : ram' = [ram EXCEPT !.kp = v]
     \/ \E v \in BOOLEAN : ram' = [ram EXCEPT !.use_ext_gyro = v]
     \/ \E m \in Alignments :
          ram' = [ram EXCEPT !.ext_gyro_align = Columns(Rows(m))]
     \/ \E m \in 0 .. LastMode + 1 : ram' = [ram EXCEPT !.flight_mode = m]
     \/ \E p \in Calibrations :
          ram' = [ram EXCEPT !.mag_bias = p[1], !.mag_scale_factor = p[2]]
  /\ UNCHANGED <<sector, call, pc, locked, answered, failed>>

\* program(): its size check throws nothing, and the controller is unlocked.
Program(t) ==
  /\ pc = "idle" /\ pc' = "erase"
  /\ text' = t /\ pos' = 0
  /\ locked' = FALSE
  /\ answered' = FALSE /\ failed' = FALSE
  /\ UNCHANGED sector

SetConfigData == \E t \in Texts : Program(t) /\ UNCHANGED ram

SaveBootConfig == Program(Written(ram)) /\ UNCHANGED ram

\* sd_restore_config starts the DroneState over.
RestoreConfig == ram' = Default /\ Program(Written(Default))

(***************************************************************************)
(* FlashMemory::program.                                                   *)
(***************************************************************************)

\* A variant that programs over what is there.
EraseNothing ==
  /\ pc = "erase" /\ pc' = "write"
  /\ cells' = [b \in Bytes |-> IF cells[b] = "erased" THEN "erased" ELSE "worn"]
  /\ last' = text /\ broken' = FALSE
  /\ UNCHANGED <<ram, call, locked, answered, failed>>

\* HAL_FLASHEx_Erase succeeds.
Erase ==
  /\ pc = "erase" /\ pc' = "write"
  /\ cells' = [b \in Bytes |-> "erased"] /\ last' = text /\ broken' = FALSE
  /\ UNCHANGED <<ram, call, locked, answered, failed>>

\* An erase that ends early leaves the sector as it was, erased or worn, and the
\* text of the call is gone with it.
BreakErase ==
  /\ broken' = TRUE /\ text' = last
  /\ cells' \in {cells} \union {[b \in Bytes |-> s] : s \in {"erased", "worn"}}
  /\ UNCHANGED last

\* HAL_FLASHEx_Erase fails: lock and throw; the answer is an error.
EraseFails ==
  /\ Faulty /\ pc = "erase" /\ pc' = "idle"
  /\ BreakErase
  /\ locked' = TRUE
  /\ UNCHANGED <<ram, pos, answered, failed>>

\* What programming a byte leaves of one that was erased.
Outcomes == {"erased", "partial", "own"}

Put(b, s) == cells' = [cells EXCEPT ![b] = IF @ = "erased" THEN s ELSE "worn"]

ProgramByte ==
  /\ pc = "write" /\ pos < text.length /\ ~locked
  /\ Put(pos + 1, "own") /\ pos' = pos + 1
  /\ UNCHANGED <<ram, last, broken, text, pc, locked, answered, failed>>

\* HAL_FLASH_Program fails: the controller is locked, the exception is built
\* and not thrown, and the loop goes on.
ByteFails ==
  /\ Faulty
  /\ pc = "write" /\ pos < text.length /\ ~locked
  /\ \E s \in Outcomes : Put(pos + 1, s)
  /\ pos' = pos + 1 /\ locked' = TRUE /\ failed' = TRUE
  /\ UNCHANGED <<ram, last, broken, text, pc, answered>>

\* A locked controller programs nothing: every further byte fails as well.
LockedByte ==
  /\ pc = "write" /\ pos < text.length /\ locked
  /\ pos' = pos + 1
  /\ UNCHANGED <<ram, sector, text, pc, locked, answered, failed>>

\* A variant that forgets the last byte.
FinishEarly ==
  /\ pc = "write" /\ pos + 1 >= text.length /\ pc' = "idle"
  /\ locked' = TRUE /\ answered' = TRUE /\ pos' = 0
  /\ UNCHANGED <<ram, sector, text, failed>>

\* The loop is done: lock, and the rpc is answered with the configuration.
Finish ==
  /\ pc = "write" /\ pos = text.length /\ pc' = "idle"
  /\ locked' = TRUE /\ answered' = TRUE /\ pos' = 0
  /\ UNCHANGED <<ram, sector, text, failed>>

(***************************************************************************)
(* Power.                                                                  *)
(***************************************************************************)

\* The power goes: an erase is broken off, a byte is programmed in part.
PowerCut ==
  /\ pc = "idle" \/ (Faulty /\ pc # "off")
  /\ pc' = "off" /\ locked' = TRUE /\ pos' = 0
  /\ CASE pc = "erase" -> BreakErase
       [] pc = "write" /\ pos < text.length /\ ~locked ->
            /\ \E s \in Outcomes : Put(pos + 1, s)
            /\ UNCHANGED <<last, broken, text>>
       [] OTHER -> UNCHANGED <<sector, text>>
  /\ UNCHANGED <<ram, answered, failed>>

\* The region holds the whole of a text.
Whole ==
  /\ last.length <= RegionSize
  /\ \A b \in 1 .. last.length : cells[b] = "own"

\* dronestate_boot_config: an exception of the parser leaves the defaults.
\* The parser may take a region that was not erased properly for any object.
Boot ==
  /\ pc = "off" /\ pc' = "idle"
  /\ ram' \in IF Whole THEN {FromJson(last.object)}
              ELSE IF \E b \in Bytes : cells[b] = "worn" THEN Configs
              ELSE {Default}
  /\ UNCHANGED <<sector, call, locked, answered, failed>>

Rpc == SetField \/ SetConfigData \/ SaveBootConfig \/ RestoreConfig
Flash == Erase \/ EraseFails \/ ProgramByte \/ ByteFails \/ LockedByte \/ Finish

Next == Rpc \/ Flash \/ PowerCut \/ Boot

Spec == Init /\ [][Next]_vars

(***************************************************************************)
(* Properties.                                                             *)
(***************************************************************************)

\* Every variable stays in its type.
TypeOK ==
  /\ ram \in Configs
  /\ cells \in [Bytes -> CellStates] /\ last \in AllTexts
  /\ text \in AllTexts /\ pos \in 0 .. text.length
  /\ pc \in {"idle", "erase", "write", "off"} /\ locked \in BOOLEAN
  /\ answered \in BOOLEAN /\ failed \in BOOLEAN /\ broken \in BOOLEAN

\* A byte is programmed only where the sector is erased, so that the bytes of
\* two configurations never mix: apart from an erase that was broken off, a
\* boot finds the last text, all of it, or nothing it can parse
\* (FlashMemory::program, flashmemory.cpp:90-106).
NothingOverwritten == \A b \in Bytes : cells[b] = "worn" => broken

\* What was answered without a failed byte, and fits the region, is in flash
\* until the next call that stores a configuration, whatever power cuts and
\* other rpcs come in between (rpc_set_configdata and its kind,
\* uartrpcserver.cpp:737-760).
ConfirmedSurvives ==
  answered /\ ~failed /\ text.length <= RegionSize => Whole /\ last = text

\* Outside program() the controller is locked: a stray write cannot reach the
\* configuration, also after a failed erase or byte and after a boot.
LockedAtRest == pc \in {"idle", "off"} => locked

\* What a boot makes of the configuration c that was saved: the alignment of
\* the external gyro is transposed and the gyro not used, an unknown mode is
\* AutoLevel.
Restored(c) ==
  [kp |-> c.kp, use_ext_gyro |-> FALSE,
   ext_gyro_align |-> [p \in Axes \X Axes |-> c.ext_gyro_align[<<p[2], p[1]>>]],
   flight_mode |-> IF c.flight_mode > LastMode THEN AutoLevel ELSE c.flight_mode,
   mag_bias |-> c.mag_bias, mag_scale_factor |-> c.mag_scale_factor]

\* After a confirmed save the next boot, however late and after whatever power
\* cuts, brings the configuration back but for what Restored says: the gains, the
\* modes up to the last one and the calibration as a pair, not more nor less
\* (boot_config_to_json and init_from_boot_config, dronestate.h:189-272).
SaveComesBack ==
  [][pc = "off" /\ pc' = "idle" /\ answered /\ ~failed =>
       \A c \in Configs : text = Written(c) => ram' = Restored(c)]_vars

\* "Upon reboot the firmware will read the flash memory and initialize its
\* configurable parameters with the content" (uartrpcserver.cpp:724-726): where
\* the external gyro was in use and saved, it is used again, and as it was
\* aligned.
ComesBackAsSaved ==
  [][pc = "off" /\ pc' = "idle" /\ answered /\ ~failed =>
       \A c \in Configs :
         text = Written(c) /\ c.use_ext_gyro =>
           ram'.use_ext_gyro /\ ram'.ext_gyro_align = c.ext_gyro_align]_vars
=============================================================================
