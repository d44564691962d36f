-------------------------- MODULE FlashConfig_proof --------------------------
(***************************************************************************)
(* Proofs about FlashConfig, for every size of the sector, of the region   *)
(* and of the texts, and every set of values and of texts that are sent.   *)
(***************************************************************************)
EXTENDS FlashConfig, TLAPS

USE DEF AutoLevel, AltitudeHold, Numeric

(***************************************************************************)
(* The inductive invariant: what the flash holds while program() runs.     *)
(***************************************************************************)

\* program() has unlocked the controller and not begun to erase.
Unlocked ==
  pc = "erase" => pos = 0 /\ ~locked /\ ~failed /\ ~answered

\* The bytes dealt with are right unless one failed; the others are erased.
Progress ==
  pc = "write" =>
    /\ ~answered /\ ~broken /\ last = text
    /\ locked <=> failed
    /\ \A b \in Bytes : b > pos => cells[b] = "erased"
    /\ ~failed => \A b \in Bytes : b <= pos => cells[b] = "own"

\* A confirmed text is the one in the sector.
Confirmed ==
  answered /\ ~failed =>
    last = text /\ \A b \in Bytes : b <= text.length => cells[b] = "own"

IInv ==
  /\ TypeOK /\ LockedAtRest /\ NothingOverwritten
  /\ Unlocked /\ Progress /\ Confirmed

(***************************************************************************)
(* Texts.                                                                  *)
(***************************************************************************)

\* A 3x3 matrix that is written row by row and read column by column is
\* transposed.
LEMMA Transposed ==
  ASSUME NEW m
  PROVE  Columns(Rows(m)) = [p \in Axes \X Axes |-> m[<<p[2], p[1]>>]]
<1>1. ASSUME NEW p \in Axes \X Axes
      PROVE  Rows(m)[p[2] * 3 + p[1]] = m[<<p[2], p[1]>>]
  <2>1. p[1] \in {0, 1, 2} /\ p[2] \in {0, 1, 2}
    BY DEF Axes
  <2>2. /\ p[2] * 3 + p[1] \in 0 .. 8
        /\ (p[2] * 3 + p[1]) \div 3 = p[2] /\ (p[2] * 3 + p[1]) % 3 = p[1]
    BY <2>1
  <2>. QED  BY <2>2 DEF Rows
<1>. QED  BY <1>1 DEF Columns

\* The configuration that a boot reads from the text of the configuration c.
LEMMA ReadBack ==
  ASSUME NEW c \in Configs
  PROVE  /\ FromJson(Written(c).object) \in Configs
         /\ FromJson(Written(c).object) = Restored(c)
<1>1. c.flight_mode \in Nat /\ LastMode \in Nat /\ c.flight_mode <= LastMode + 1
  BY FlashAssumption DEF Configs
<1>. DEFINE o == Written(c).object
            turned == [p \in Axes \X Axes |-> c.ext_gyro_align[<<p[2], p[1]>>]]
            mode == IF c.flight_mode > LastMode THEN AutoLevel ELSE c.flight_mode
<1>2. /\ o.kp = Json("real", c.kp) /\ o.use_ext_gyro = Json("bool", c.use_ext_gyro)
      /\ o.ext_gyro_align = Json("array", Rows(c.ext_gyro_align))
      /\ o.flight_mode = Json("int", c.flight_mode)
      /\ o.mag_bias = Json("array", c.mag_bias)
      /\ o.mag_scale_factor = Json("array", c.mag_scale_factor)
      /\ DOMAIN o = {"kp", "use_ext_gyro", "ext_gyro_align", "flight_mode",
                     "mag_bias", "mag_scale_factor"}
  BY DEF Written
<1>3. \A t, v : Json(t, v).type = t /\ Json(t, v).v = v
  BY DEF Json
<1>4. /\ Has(o, "kp", Numeric) /\ ~Has(o, "use_ext_gyro", Numeric)
      /\ Has(o, "ext_gyro_align", {"array"})
      /\ Has(o, "flight_mode", {"int"}) /\ Has(o, "mag_bias", {"array"})
      /\ Has(o, "mag_scale_factor", {"array"})
  <2>. HIDE DEF o
  <2>. QED  BY <1>2, <1>3 DEF Has
<1>5. FromJson(o) =
        [kp |-> c.kp, use_ext_gyro |-> FALSE, ext_gyro_align |-> turned,
         flight_mode |-> mode, mag_bias |-> c.mag_bias,
         mag_scale_factor |-> c.mag_scale_factor]
  <2>1. Columns(Rows(c.ext_gyro_align)) = turned
    BY Transposed
  <2>. HIDE DEF o, turned
  <2>2. o.ext_gyro_align.v = Rows(c.ext_gyro_align) /\ o.kp.v = c.kp 
        /\ o.flight_mode.v = c.flight_mode /\ o.mag_bias.v = c.mag_bias
        /\ o.mag_scale_factor.v = c.mag_scale_factor
    BY <1>2, <1>3
  <2>. QED  BY <1>4, <2>1, <2>2 DEF FromJson
<1>6. turned \in Alignments /\ mode \in 0 .. LastMode + 1
  <2>1. c.ext_gyro_align \in Alignments
    BY DEF Configs
  <2>2. turned = Columns(Rows(c.ext_gyro_align))
    BY Transposed
  <2>. HIDE DEF turned
  <2>3. turned \in Alignments
    BY <2>1, <2>2, FlashAssumption
  <2>. QED  BY <1>1, <2>3
<1>. HIDE DEF o, turned, mode
<1>7. FromJson(o) \in Configs
  BY <1>5, <1>6 DEF Configs
<1>8. FromJson(o) = Restored(c)
  BY <1>5 DEF Restored, turned, mode
<1>. QED  BY <1>7, <1>8 DEF o

\* The factory settings are a configuration.
LEMMA DefaultType == Default \in Configs
BY FlashAssumption DEF Default, Configs

\* Every text fits the sector and is read as a configuration.
LEMMA TextType ==
  ASSUME NEW t \in AllTexts
  PROVE  t.length \in 1 .. SectorSize /\ FromJson(t.object) \in Configs
<1>1. CASE t \in Texts
  BY <1>1, FlashAssumption
<1>2. CASE \E c \in Configs : t = Written(c)
  <2>1. PICK c \in Configs : t = Written(c)
    BY <1>2
  <2>2. t.length = ConfigLen
    BY <2>1 DEF Written
  <2>. QED  BY <2>1, <2>2, ReadBack, FlashAssumption
<1>. QED  BY <1>1, <1>2 DEF AllTexts

\* What programming a byte leaves in it is a state of a cell.
LEMMA PutType ==
  ASSUME cells \in [Bytes -> CellStates], NEW b \in Bytes,
         NEW s \in CellStates, Put(b, s)
  PROVE  /\ cells' \in [Bytes -> CellStates]
         /\ \A c \in Bytes : c # b => cells'[c] = cells[c]
         /\ cells[b] = "erased" => cells'[b] = s
BY DEF Put, CellStates

(***************************************************************************)
(* The invariant is inductive.                                             *)
(***************************************************************************)

LEMMA InitIInv == Init => IInv
<1>. SUFFICES ASSUME Init PROVE IInv
  OBVIOUS
<1>1. Written(Default) \in AllTexts
  BY DefaultType DEF AllTexts
<1>2. 0 \in 0 .. Written(Default).length
  BY <1>1, TextType
<1>3. TypeOK
  BY <1>1, <1>2, DefaultType DEF Init, TypeOK, CellStates
<1>. QED
  BY <1>3 DEF Init, IInv, LockedAtRest, NothingOverwritten, Unlocked, Progress,
              Confirmed

\* Calling program() with a text.
LEMMA ProgramStep ==
  ASSUME IInv, NEW t \in AllTexts, Program(t), ram' \in Configs
  PROVE  IInv'
<1>1. 0 \in 0 .. t.length
  BY TextType
<1>2. TypeOK'
  BY <1>1, Zenon DEF IInv, TypeOK, Program, sector, Bytes
<1>. QED
  BY <1>2 DEF IInv, TypeOK, Program, sector, LockedAtRest, NothingOverwritten,
              Unlocked, Progress, Confirmed

\* A change of the configuration in memory.
LEMMA SetFieldStep == ASSUME IInv, SetField PROVE IInv'
<1>1. ram' \in Configs
  <2>1. \A p \in Calibrations : p[1] \in Biases /\ p[2] \in Biases
    BY FlashAssumption
  <2>2. \A m \in Alignments : Columns(Rows(m)) \in Alignments
    BY FlashAssumption
  <2>3. ram \in Configs
    BY DEF IInv, TypeOK
  <2>4. CASE \E m \in Alignments :
               ram' = [ram EXCEPT !.ext_gyro_align = Columns(Rows(m))]
    <3>1. PICK m \in Alignments :
                 ram' = [ram EXCEPT !.ext_gyro_align = Columns(Rows(m))]
      BY <2>4
    <3>. QED  BY <2>2, <2>3, <3>1 DEF Configs
  <2>5. CASE \E p \in Calibrations :
               ram' = [ram EXCEPT !.mag_bias = p[1], !.mag_scale_factor = p[2]]
    BY <2>1, <2>3, <2>5 DEF Configs
  <2>6. CASE \/ \E v \in Gains : ram' = [ram EXCEPT !.kp = v]
             \/ \E v \in BOOLEAN : ram' = [ram EXCEPT !.use_ext_gyro = v]
             \/ \E m \in 0 .. LastMode + 1 : ram' = [ram EXCEPT !.flight_mode = m]
    BY <2>3, <2>6 DEF Configs
  <2>. QED  BY <2>4, <2>5, <2>6 DEF SetField
<1>2. UNCHANGED <<cells, last, broken, text, pos, pc, locked, answered, failed>>
  BY DEF SetField, sector, call
<1>. QED
  BY <1>1, <1>2 DEF IInv, TypeOK, Bytes, LockedAtRest, NothingOverwritten, Unlocked,
                    Progress, Confirmed

\* The erase of the sector.
LEMMA EraseStep == ASSUME IInv, Erase PROVE IInv'
<1>1. cells' = [b \in Bytes |-> "erased"] /\ broken' = FALSE /\ last' = text
  BY DEF Erase
<1>2. UNCHANGED <<ram, text, pos, locked, answered, failed>> /\ pc' = "write"
  BY DEF Erase, call
<1>3. pos = 0 /\ ~locked /\ ~failed /\ ~answered
  BY DEF Erase, IInv, Unlocked
<1>4. TypeOK'
  BY <1>1, <1>2 DEF IInv, TypeOK, Bytes, CellStates
<1>5. \A b \in Bytes : b \in Nat /\ b > 0
  BY FlashAssumption DEF Bytes
<1>. QED
  BY <1>1, <1>2, <1>3, <1>4, <1>5
     DEF IInv, TypeOK, Bytes, LockedAtRest, NothingOverwritten, Unlocked, Progress, Confirmed

\* An erase that is broken off, by an error or with the power.
LEMMA BreakEraseStep ==
  ASSUME IInv, pc = "erase", BreakErase, locked' = TRUE, pc' \in {"idle", "off"},
         pos' = 0, UNCHANGED <<ram, answered, failed>>
  PROVE  IInv'
<1>1. /\ cells' \in [Bytes -> CellStates] /\ last' = last /\ broken' = TRUE
      /\ text' = last
  BY DEF BreakErase, IInv, TypeOK, CellStates
<1>2. ~answered
  BY DEF IInv, Unlocked
<1>3. last.length \in Nat
  BY TextType DEF IInv, TypeOK
<1>4. TypeOK'
  BY <1>1, <1>3 DEF IInv, TypeOK, Bytes
<1>. QED
  BY <1>1, <1>2, <1>4
     DEF IInv, TypeOK, Bytes, LockedAtRest, NothingOverwritten, Unlocked, Progress, Confirmed

\* The byte that is programmed next lies in the sector, and is erased.
LEMMA NextByte ==
  ASSUME IInv, pc = "write", pos < text.length
  PROVE  pos + 1 \in Bytes /\ pos \in Nat /\ cells[pos + 1] = "erased"
<1>1. text.length \in 1 .. SectorSize /\ pos \in Nat
  BY TextType DEF IInv, TypeOK
<1>2. pos + 1 \in Bytes
  BY <1>1, FlashAssumption DEF Bytes
<1>. QED  BY <1>1, <1>2 DEF IInv, Progress

LEMMA ProgramByteStep == ASSUME IInv, ProgramByte PROVE IInv'
<1>1. /\ pc = "write" /\ pos < text.length /\ ~locked
      /\ Put(pos + 1, "own") /\ pos' = pos + 1
      /\ UNCHANGED <<ram, last, broken, text, pc, locked, answered, failed>>
  BY DEF ProgramByte
<1>2. pos + 1 \in Bytes /\ pos \in Nat /\ cells[pos + 1] = "erased"
  BY <1>1, NextByte
<1>3. /\ cells' \in [Bytes -> CellStates] /\ cells'[pos + 1] = "own"
      /\ \A c \in Bytes : c # pos + 1 => cells'[c] = cells[c]
  BY <1>1, <1>2, PutType DEF IInv, TypeOK, CellStates
<1>4. text.length \in Nat /\ \A b \in Bytes : b \in Nat
  BY TextType, FlashAssumption DEF IInv, TypeOK, Bytes
<1>5. TypeOK'
  BY <1>1, <1>2, <1>3, <1>4 DEF IInv, TypeOK, Bytes
<1>6. NothingOverwritten'
  BY <1>1, <1>2, <1>3 DEF IInv, NothingOverwritten, Bytes
<1>7. Progress'
  <2>1. \A b \in Bytes : b > pos + 1 => cells'[b] = "erased"
    BY <1>1, <1>2, <1>3, <1>4 DEF IInv, Progress
  <2>2. ~failed => \A b \in Bytes : b <= pos + 1 => cells'[b] = "own"
    BY <1>1, <1>2, <1>3, <1>4 DEF IInv, Progress
  <2>. QED  BY <1>1, <2>1, <2>2 DEF IInv, Progress, Bytes
<1>. QED
  BY <1>1, <1>5, <1>6, <1>7 DEF IInv, LockedAtRest, Unlocked, Progress, Confirmed

LEMMA ByteFailsStep == ASSUME IInv, ByteFails PROVE IInv'
<1>1. /\ pc = "write" /\ pos < text.length /\ pos' = pos + 1
      /\ locked' = TRUE /\ failed' = TRUE
      /\ UNCHANGED <<ram, last, broken, text, pc, answered>>
  BY DEF ByteFails
<1>2. pos + 1 \in Bytes /\ pos \in Nat /\ cells[pos + 1] = "erased"
  BY <1>1, NextByte
<1>3. PICK s \in Outcomes : Put(pos + 1, s)
  BY DEF ByteFails
<1>4. s \in CellStates /\ s # "worn"
  BY DEF Outcomes, CellStates
<1>5. /\ cells' \in [Bytes -> CellStates] /\ cells'[pos + 1] = s
      /\ \A c \in Bytes : c # pos + 1 => cells'[c] = cells[c]
  BY <1>2, <1>3, <1>4, PutType DEF IInv, TypeOK
<1>6. text.length \in Nat /\ \A b \in Bytes : b \in Nat
  BY TextType, FlashAssumption DEF IInv, TypeOK, Bytes
<1>7. TypeOK'
  BY <1>1, <1>2, <1>5, <1>6 DEF IInv, TypeOK, Bytes
<1>8. NothingOverwritten'
  BY <1>1, <1>2, <1>4, <1>5 DEF IInv, NothingOverwritten, Bytes
<1>9. \A b \in Bytes : b > pos + 1 => cells'[b] = "erased"
  BY <1>1, <1>2, <1>5, <1>6 DEF IInv, Progress
<1>. QED
  BY <1>1, <1>7, <1>8, <1>9
     DEF IInv, LockedAtRest, Unlocked, Progress, Confirmed, Bytes

LEMMA LockedByteStep == ASSUME IInv, LockedByte PROVE IInv'
<1>1. /\ pc = "write" /\ pos < text.length /\ locked /\ pos' = pos + 1
      /\ UNCHANGED <<ram, cells, last, broken, text, pc, locked, answered, failed>>
  BY DEF LockedByte, sector
<1>2. text.length \in Nat /\ pos \in Nat /\ \A b \in Bytes : b \in Nat
  BY TextType, FlashAssumption DEF IInv, TypeOK, Bytes
<1>3. TypeOK'
  BY <1>1, <1>2 DEF IInv, TypeOK, Bytes
<1>4. failed /\ \A b \in Bytes : b > pos + 1 => cells[b] = "erased"
  BY <1>1, <1>2 DEF IInv, Progress
<1>. QED
  BY <1>1, <1>3, <1>4
     DEF IInv, LockedAtRest, NothingOverwritten, Unlocked, Progress, Confirmed, Bytes

LEMMA FinishStep == ASSUME IInv, Finish PROVE IInv'
<1>1. /\ pc = "write" /\ pos = text.length /\ pc' = "idle"
      /\ locked' = TRUE /\ answered' = TRUE /\ pos' = 0
      /\ UNCHANGED <<ram, cells, last, broken, text, failed>>
  BY DEF Finish, sector
<1>2. text.length \in Nat
  BY TextType DEF IInv, TypeOK
<1>3. TypeOK'
  BY <1>1, <1>2 DEF IInv, TypeOK, Bytes
<1>. QED
  BY <1>1, <1>3
     DEF IInv, LockedAtRest, NothingOverwritten, Unlocked, Progress, Confirmed, Bytes

\* The power goes while nothing is programmed, or between two bytes.
LEMMA CutStep ==
  ASSUME IInv, pc \in {"idle", "write"}, pc' = "off", locked' = TRUE, pos' = 0,
         UNCHANGED <<ram, cells, last, broken, text, answered, failed>>
  PROVE  IInv'
<1>1. text.length \in Nat
  BY TextType DEF IInv, TypeOK
<1>2. TypeOK'
  BY <1>1 DEF IInv, TypeOK, Bytes
<1>. QED
  BY <1>2
     DEF IInv, LockedAtRest, NothingOverwritten, Unlocked, Progress, Confirmed, Bytes

\* The power goes while a byte is programmed.
LEMMA CutByteStep ==
  ASSUME IInv, pc = "write", pos < text.length, NEW s \in Outcomes,
         Put(pos + 1, s), pc' = "off", locked' = TRUE, pos' = 0,
         UNCHANGED <<ram, last, broken, text, answered, failed>>
  PROVE  IInv'
<1>1. pos + 1 \in Bytes /\ cells[pos + 1] = "erased"
  BY NextByte
<1>2. s \in CellStates /\ s # "worn"
  BY DEF Outcomes, CellStates
<1>3. /\ cells' \in [Bytes -> CellStates] /\ cells'[pos + 1] = s
      /\ \A c \in Bytes : c # pos + 1 => cells'[c] = cells[c]
  BY <1>1, <1>2, PutType DEF IInv, TypeOK
<1>4. text.length \in Nat
  BY TextType DEF IInv, TypeOK
<1>5. TypeOK'
  BY <1>3, <1>4 DEF IInv, TypeOK, Bytes
<1>6. NothingOverwritten'
  BY <1>1, <1>2, <1>3 DEF IInv, NothingOverwritten, Bytes
<1>7. ~answered
  BY DEF IInv, Progress
<1>. QED
  BY <1>5, <1>6, <1>7 DEF IInv, LockedAtRest, Unlocked, Progress, Confirmed

LEMMA PowerCutStep == ASSUME IInv, PowerCut PROVE IInv'
<1>1. /\ pc \in {"idle", "erase", "write"} /\ pc' = "off" /\ locked' = TRUE /\ pos' = 0
      /\ UNCHANGED <<ram, answered, failed>>
  BY DEF PowerCut, IInv, TypeOK
<1>2. CASE pc = "erase"
  <2>1. BreakErase
    BY <1>2 DEF PowerCut
  <2>. QED  BY <1>1, <1>2, <2>1, BreakEraseStep
<1>3. CASE pc = "write" /\ pos < text.length /\ ~locked
  <2>1. (\E s \in Outcomes : Put(pos + 1, s)) /\ UNCHANGED <<last, broken, text>>
    BY <1>3 DEF PowerCut
  <2>. QED  BY <1>1, <1>3, <2>1, CutByteStep
<1>4. CASE ~(pc = "erase") /\ ~(pc = "write" /\ pos < text.length /\ ~locked)
  <2>1. UNCHANGED <<cells, last, broken, text>>
    BY <1>4 DEF PowerCut, sector
  <2>. QED  BY <1>1, <1>4, <2>1, CutStep
<1>. QED  BY <1>2, <1>3, <1>4

LEMMA BootStep == ASSUME IInv, Boot PROVE IInv'
<1>1. ram' \in Configs
  <2>1. FromJson(last.object) \in Configs
    BY TextType DEF IInv, TypeOK
  <2>. QED  BY <2>1, DefaultType DEF Boot
<1>2. /\ pc = "off" /\ pc' = "idle"
      /\ UNCHANGED <<cells, last, broken, text, pos, locked, answered, failed>>
  BY DEF Boot, sector, call
<1>. QED
  BY <1>1, <1>2
     DEF IInv, TypeOK, LockedAtRest, NothingOverwritten, Unlocked, Progress, Confirmed, Bytes

LEMMA NextIInv == IInv /\ [Next]_vars => IInv'
<1>. SUFFICES ASSUME IInv, [Next]_vars PROVE IInv'
  OBVIOUS
<1>1. CASE SetField
  BY <1>1, SetFieldStep
<1>2. CASE SetConfigData
  <2>1. PICK t \in Texts : Program(t) /\ UNCHANGED ram
    BY <1>2 DEF SetConfigData
  <2>. QED  BY <2>1, ProgramStep DEF AllTexts, IInv, TypeOK
<1>3. CASE SaveBootConfig
  <2>1. ram \in Configs /\ ram' = ram /\ Program(Written(ram))
    BY <1>3 DEF SaveBootConfig, IInv, TypeOK
  <2>. QED  BY <2>1, ProgramStep DEF AllTexts
<1>4. CASE RestoreConfig
  <2>1. ram' = Default /\ Program(Written(Default))
    BY <1>4 DEF RestoreConfig
  <2>. QED  BY <2>1, ProgramStep, DefaultType DEF AllTexts
<1>5. CASE Erase
  BY <1>5, EraseStep
<1>6. CASE EraseFails
  <2>1. pos = 0
    BY <1>6 DEF EraseFails, IInv, Unlocked
  <2>. QED  BY <1>6, <2>1, BreakEraseStep DEF EraseFails, call
<1>7. CASE ProgramByte
  BY <1>7, ProgramByteStep
<1>8. CASE ByteFails
  BY <1>8, ByteFailsStep
<1>9. CASE LockedByte
  BY <1>9, LockedByteStep
<1>10. CASE Finish
  BY <1>10, FinishStep
<1>11. CASE PowerCut
  BY <1>11, PowerCutStep
<1>12. CASE Boot
  BY <1>12, BootStep
<1>13. CASE UNCHANGED vars
  BY <1>13 DEF vars, sector, call, IInv, TypeOK, LockedAtRest, NothingOverwritten,
               Unlocked, Progress, Confirmed, Bytes
<1>. QED
  BY <1>1, <1>2, <1>3, <1>4, <1>5, <1>6, <1>7, <1>8, <1>9, <1>10, <1>11, <1>12,
     <1>13 DEF Next, Rpc, Flash

LEMMA Invariance == Spec => []IInv
BY InitIInv, NextIInv, PTL DEF Spec

(***************************************************************************)
(* Theorems.                                                               *)
(***************************************************************************)

\* Every variable of FlashConfig stays in its type; program() never leaves the
\* sector (flashmemory.cpp:75-107).
THEOREM TypeCorrect == Spec => []TypeOK
<1>1. IInv => TypeOK
  BY DEF IInv
<1>. QED  BY <1>1, Invariance, PTL

\* A byte is programmed only where the sector is erased
\* (flashmemory.cpp:90-106).
THEOREM NeverOverwrites == Spec => []NothingOverwritten
<1>1. IInv => NothingOverwritten
  BY DEF IInv
<1>. QED  BY <1>1, Invariance, PTL

\* A configuration whose call was answered, with no byte that failed, stays in
\* flash until the next call (uartrpcserver.cpp:737-760).
THEOREM ConfirmedStays == Spec => []ConfirmedSurvives
<1>1. ASSUME IInv PROVE ConfirmedSurvives
  <2>. SUFFICES ASSUME answered, ~failed, text.length <= RegionSize
                PROVE  Whole /\ last = text
    BY DEF ConfirmedSurvives
  <2>1. text.length \in 1 .. SectorSize
    BY <1>1, TextType DEF IInv, TypeOK
  <2>2. last = text /\ \A b \in Bytes : b <= text.length => cells[b] = "own"
    BY <1>1 DEF IInv, Confirmed
  <2>3. \A b \in 1 .. text.length : b \in Bytes /\ b <= text.length
    BY <2>1, FlashAssumption DEF Bytes
  <2>. QED  BY <2>2, <2>3 DEF Whole
<1>. QED  BY <1>1, Invariance, PTL

\* The flash controller is locked whenever program() does not run.
THEOREM AlwaysLockedAtRest == Spec => []LockedAtRest
<1>1. IInv => LockedAtRest
  BY DEF IInv
<1>. QED  BY <1>1, Invariance, PTL

\* After a confirmed save the next boot brings the configuration back but for
\* the choice of the external gyro, which is lost, its alignment, which comes
\* back transposed, and a mode that is none (dronestate.h:189-272,
\* jsonserialization.h:48-71).
THEOREM SaveThenBoot == Spec => SaveComesBack
<1>1. ASSUME IInv, [Next]_vars
      PROVE  [pc = "off" /\ pc' = "idle" /\ answered /\ ~failed =>
                \A c \in Configs :
                  text = Written(c) => ram' = Restored(c)]_vars
  <2>. SUFFICES ASSUME pc = "off", pc' = "idle", answered, ~failed,
                       NEW c \in Configs, text = Written(c)
                PROVE  ram' = Restored(c)
    OBVIOUS
  <2>1. Boot
    BY <1>1 DEF Next, Rpc, Flash, SetField, SetConfigData, SaveBootConfig, RestoreConfig,
                Program, Erase, EraseFails, ProgramByte, ByteFails, LockedByte, Finish,
                PowerCut, vars
  <2>2. text.length = ConfigLen
    BY DEF Written
  <2>3. last = text /\ \A b \in Bytes : b <= ConfigLen => cells[b] = "own"
    BY <1>1, <2>2 DEF IInv, Confirmed
  <2>4. Whole
    BY <2>2, <2>3, FlashAssumption DEF Whole, Bytes
  <2>5. ram' = FromJson(Written(c).object)
    BY <2>1, <2>3, <2>4 DEF Boot
  <2>. QED  BY <2>5, ReadBack
<1>. QED  BY <1>1, Invariance, PTL DEF Spec, SaveComesBack
=============================================================================
