-------------------------- MODULE MotorControlProofs --------------------------
(***************************************************************************)
(* Theorems about MotorControl for every duration, every set of settings   *)
(* and every set of readings.  First the types, then the invariants, each  *)
(* by the operations on the motors before the handlers that call them.     *)
(***************************************************************************)
EXTENDS MotorControl, TLAPS

(* The part of TypeOK the operations on the motors act upon. *)
MotorTypeOK ==
  /\ countdown \in [Motors -> NotOn .. StartDelay]
  /\ runtime \in [Motors -> NotOn .. MaxRun]
  /\ source \in [Motors -> Sources]
  /\ restoring \in [Motors -> BOOLEAN]
  /\ rejected \in [Motors -> BOOLEAN]
  /\ buzzer \in NotOn .. BuzzerMax
  /\ recovered \in BOOLEAN
  /\ intent \in [Motors -> BOOLEAN]

USE DEF OH, UG, Motors, NotOn, Unknown, Empty, Low, Half, Full

LEMMA RelayOnType ==
  ASSUME TypeOK, NEW M, RelayOn(M)
  PROVE  runtime' \in [Motors -> NotOn .. MaxRun]
BY TimeAssumption DEF RelayOn, TypeOK

LEMMA RelayOffType ==
  ASSUME TypeOK, NEW M, RelayOff(M)
  PROVE  runtime' \in [Motors -> NotOn .. MaxRun]
BY TimeAssumption DEF RelayOff, TypeOK

LEMMA EndCountdownType ==
  ASSUME TypeOK, NEW M, EndCountdown(M)
  PROVE  countdown' \in [Motors -> NotOn .. StartDelay] /\ restoring' \in [Motors -> BOOLEAN]
BY TimeAssumption DEF EndCountdown, TypeOK

LEMMA StopMotorBuzzerType ==
  ASSUME TypeOK, StopMotorBuzzer
  PROVE  buzzer' \in NotOn .. BuzzerMax
BY TimeAssumption DEF StopMotorBuzzer, TypeOK

LEMMA BeginType ==
  ASSUME TypeOK, NEW m \in Motors, Begin(m)
  PROVE  /\ countdown' \in [Motors -> NotOn .. StartDelay]
         /\ buzzer' \in NotOn .. BuzzerMax
         /\ intent' \in [Motors -> BOOLEAN]
         /\ runtime' \in [Motors -> NotOn .. MaxRun]
<1>1. CASE settings.buzzerDelay
  BY <1>1, TimeAssumption DEF Begin, TypeOK, RelayUntouched
<1>2. CASE ~settings.buzzerDelay
  <2>1. RelayOn({m}) /\ intent' = [intent EXCEPT ![m] = TRUE]
        /\ UNCHANGED <<countdown, buzzer>>
    BY <1>2 DEF Begin
  <2>2. runtime' \in [Motors -> NotOn .. MaxRun]
    BY <2>1, RelayOnType
  <2>3. QED
    BY <2>1, <2>2 DEF TypeOK
<1>3. QED
  BY <1>1, <1>2

LEMMA TurnOnType == ASSUME TypeOK, NEW m \in Motors, TurnOn(m) PROVE MotorTypeOK'
<1>1. CASE Running(m) \/ Pending(m)
  BY <1>1 DEF TurnOn, TypeOK, MotorTypeOK, RelayUntouched
<1>2. CASE settings.manualAutoStop /\ tank[m] = Full
  BY <1>1, <1>2 DEF TurnOn, TypeOK, MotorTypeOK, RelayUntouched
<1>3. CASE /\ ~Running(m) /\ ~Pending(m)
           /\ ~(settings.manualAutoStop /\ tank[m] = Full)
  <2>1. Begin(m) /\ source' \in [Motors -> Sources]
    BY <1>3 DEF TurnOn, TypeOK, Sources
  <2>2. rejected' \in [Motors -> BOOLEAN] /\ UNCHANGED <<restoring, recovered>>
    BY <1>3 DEF TurnOn, TypeOK
  <2>3. QED
    BY <2>1, <2>2, BeginType DEF TypeOK, MotorTypeOK
<1>4. QED
  BY <1>1, <1>2, <1>3

LEMMA TurnOffType == ASSUME TypeOK, NEW M, TurnOff(M) PROVE MotorTypeOK'
BY EndCountdownType, StopMotorBuzzerType, RelayOffType
DEF TurnOff, TypeOK, MotorTypeOK, Sources

LEMMA StartScheduledType ==
  ASSUME TypeOK, NEW m \in Motors, StartScheduled(m) PROVE MotorTypeOK'
<1>1. CASE Running(m)
  BY <1>1 DEF StartScheduled, TypeOK, MotorTypeOK, RelayUntouched
<1>2. CASE ~Running(m)
  <2>1. EndCountdown({m}) /\ StopMotorBuzzer /\ RelayOn({m})
    BY <1>2 DEF StartScheduled
  <2>2. /\ source' \in [Motors -> Sources] /\ intent' \in [Motors -> BOOLEAN]
        /\ UNCHANGED <<rejected, recovered>>
    BY <1>2 DEF StartScheduled, TypeOK, Sources
  <2>3. QED
    BY <2>1, <2>2, EndCountdownType, StopMotorBuzzerType, RelayOnType
    DEF TypeOK, MotorTypeOK
<1>3. QED
  BY <1>1, <1>2

LEMMA AutoControlType ==
  ASSUME TypeOK, NEW m \in Motors, NEW verdict, AutoControl(m, verdict)
  PROVE  MotorTypeOK'
<1>1. CASE UNCHANGED motorVars
  BY <1>1 DEF TypeOK, MotorTypeOK, motorVars
<1>2. CASE AutoStop(m, verdict)
  <2>1. buzzer' \in NotOn .. BuzzerMax
    BY <1>2, StopMotorBuzzerType DEF AutoStop, TypeOK
  <2>2. QED
    BY <1>2, <2>1, EndCountdownType, RelayOffType
    DEF AutoControl, AutoStop, TypeOK, MotorTypeOK, Sources
<1>3. CASE AutoCancel(m)
  BY <1>3, EndCountdownType, StopMotorBuzzerType
  DEF AutoControl, AutoCancel, TypeOK, MotorTypeOK, RelayUntouched, Sources
<1>4. CASE verdict = "start"
  BY <1>4, BeginType DEF AutoControl, TypeOK, MotorTypeOK, Sources
<1>5. QED
  BY <1>1, <1>2, <1>3, <1>4 DEF AutoControl

LEMMA CountdownDoneType ==
  ASSUME TypeOK, NEW m \in Motors, CountdownDone(m) PROVE MotorTypeOK'
<1>1. EndCountdown({m}) /\ StopMotorBuzzer /\ UNCHANGED recovered
  BY DEF CountdownDone
<1>2. runtime' \in [Motors -> NotOn .. MaxRun]
  <2>1. RelayOn({m}) \/ RelayUntouched
    BY DEF CountdownDone
  <2>2. QED
    BY <2>1, RelayOnType DEF TypeOK, RelayUntouched
<1>3. /\ source' \in [Motors -> Sources] /\ rejected' \in [Motors -> BOOLEAN]
      /\ intent' \in [Motors -> BOOLEAN]
  BY DEF CountdownDone, TypeOK, Sources
<1>4. QED
  BY <1>1, <1>2, <1>3, EndCountdownType, StopMotorBuzzerType DEF TypeOK, MotorTypeOK

LEMMA BootRecoveryType == ASSUME TypeOK, BootRecovery PROVE MotorTypeOK'
<1>1. runtime' \in [Motors -> NotOn .. MaxRun]
  BY RelayOnType DEF BootRecovery, TypeOK, RelayUntouched
<1>2. countdown' \in [Motors -> NotOn .. StartDelay]
  BY TimeAssumption DEF BootRecovery, TypeOK
<1>3. buzzer' \in NotOn .. BuzzerMax
  BY TimeAssumption DEF BootRecovery, TypeOK
<1>4. source' \in [Motors -> Sources]
  BY DEF BootRecovery, TypeOK, Sources
<1>5. intent' \in [Motors -> BOOLEAN] /\ restoring' \in [Motors -> BOOLEAN]
  BY DEF BootRecovery, TypeOK, Pending
<1>6. rejected' \in [Motors -> BOOLEAN] /\ recovered' \in BOOLEAN
  BY DEF BootRecovery, TypeOK
<1>7. QED
  BY <1>1, <1>2, <1>3, <1>4, <1>5, <1>6 DEF MotorTypeOK

LEMMA BuzzerOnlyType ==
  ASSUME TypeOK, NEW age \in {NotOn, 0}, BuzzerOnly(age) PROVE MotorTypeOK'
BY TimeAssumption DEF BuzzerOnly, TypeOK, MotorTypeOK

LEMMA ValidLevelsType ==
  ASSUME NEW s \in Choices
  PROVE  /\ ValidLevels(s) \in SettingsType
         /\ ValidLevels(s).startLevel < ValidLevels(s).stopLevel
<1>1. s \in SettingsType
  BY InputAssumption
<1>2. CASE s.stopLevel <= s.startLevel
  <2>1. PICK t \in SettingsType : /\ t.startLevel = Empty
                                  /\ ValidLevels(s) = [t EXCEPT !.stopLevel = Full]
    <3>1. ValidLevels(s) = [[s EXCEPT !.startLevel = Empty] EXCEPT !.stopLevel = Full]
      BY <1>2, Zenon DEF ValidLevels
    <3>2. [s EXCEPT !.startLevel = Empty] \in SettingsType
      BY <1>1 DEF SettingsType
    <3>3. [s EXCEPT !.startLevel = Empty].startLevel = Empty
      BY <1>1 DEF SettingsType
    <3>4. QED
      BY <3>1, <3>2, <3>3, Zenon
  <2>2. /\ [t EXCEPT !.stopLevel = Full] \in SettingsType
        /\ [t EXCEPT !.stopLevel = Full].stopLevel = Full
        /\ [t EXCEPT !.stopLevel = Full].startLevel = t.startLevel
    BY DEF SettingsType
  <2>3. /\ ValidLevels(s) \in SettingsType
        /\ ValidLevels(s).stopLevel = 4 /\ ValidLevels(s).startLevel = 1
    BY <2>1, <2>2, Zenon
  <2>4. QED
    BY <2>3
<1>3. CASE ~(s.stopLevel <= s.startLevel)
  BY <1>1, <1>3 DEF ValidLevels, SettingsType
<1>4. QED
  BY <1>2, <1>3

(* Cutting a save mixes two settings into settings, and before the start    *)
(* level's key is written it leaves both levels alone.                      *)
LEMMA WrittenType ==
  ASSUME NEW old \in SettingsType, NEW new \in SettingsType, NEW n \in 1 .. 6
  PROVE  /\ Written(old, new, n) \in SettingsType
         /\ n # 6 => /\ Written(old, new, n).startLevel = old.startLevel
                     /\ Written(old, new, n).stopLevel = old.stopLevel
BY DEF Written, SettingsType

LEMMA OlderType ==
  ASSUME NEW limit \in Nat, NEW age \in NotOn .. limit
  PROVE  Older(age, limit) \in NotOn .. limit
BY DEF Older

-------------------------------------------------------------------------------
(* The operations on the motors, as the handlers call them: what each       *)
(* handler of the motors does is one of these.                              *)

LEMMA TouchType == ASSUME TypeOK, NEW m \in Motors, Touch(m) PROVE MotorTypeOK'
<1>1. CASE UNCHANGED motorVars
  BY <1>1 DEF TypeOK, MotorTypeOK, motorVars
<1>2. CASE TurnOn(m) \/ TurnOff({m})
  BY <1>2, TurnOnType, TurnOffType
<1>3. QED
  BY <1>1, <1>2 DEF Touch

LEMMA ProcessPendingType ==
  ASSUME TypeOK, NEW m \in Motors, ProcessPending(m) PROVE MotorTypeOK'
<1>1. CASE UNCHANGED motorVars
  BY <1>1 DEF TypeOK, MotorTypeOK, motorVars
<1>2. CASE CountdownDone(m)
  BY <1>2, CountdownDoneType
<1>3. QED
  BY <1>1, <1>2 DEF ProcessPending

LEMMA SchedulesType == ASSUME TypeOK, Schedules PROVE MotorTypeOK'
<1>1. CASE UNCHANGED motorVars
  BY <1>1 DEF TypeOK, MotorTypeOK, motorVars
<1>2. CASE \E m \in Operated : StartScheduled(m) \/ TurnOff({m})
  BY <1>2, InputAssumption, StartScheduledType, TurnOffType
<1>3. CASE BuzzerOnly(0) \/ BuzzerOnly(NotOn)
  BY <1>3, BuzzerOnlyType
<1>4. QED
  BY <1>1, <1>2, <1>3 DEF Schedules, SilenceOutright

LEMMA CommandType == ASSUME TypeOK, MQTTCommand \/ WebCommand \/ ScheduleCommand PROVE MotorTypeOK'
<1>1. CASE UNCHANGED motorVars
  BY <1>1 DEF TypeOK, MotorTypeOK, motorVars
<1>2. CASE \E m \in Operated : TurnOn(m)
  BY <1>2, InputAssumption, TurnOnType
<1>3. CASE \E M \in SUBSET Motors : TurnOff(M)
  BY <1>3, TurnOffType
<1>4. CASE \E m \in Operated : TurnOff({m})
  BY <1>4, TurnOffType
<1>5. CASE BuzzerOnly(0) \/ BuzzerOnly(NotOn)
  BY <1>5, BuzzerOnlyType
<1>6. QED
  BY <1>1, <1>2, <1>3, <1>4, <1>5 DEF MQTTCommand, WebCommand, ScheduleCommand, SilenceOutright

LEMMA TypeStep == ASSUME TypeOK, [Next]_vars PROVE TypeOK'
<1>1. CASE PollLora
  BY <1>1, TimeAssumption, InputAssumption
  DEF PollLora, Then, TypeOK, Steps, TankState, sensorVars, motorVars
<1>2. CASE ReadFloat
  BY <1>2, InputAssumption
  DEF ReadFloat, Then, TypeOK, Steps, TankState, motorVars
<1>3. ASSUME MotorTypeOK', UNCHANGED <<sensorVars, uptime, settings, halfSaved>>,
             step' \in Steps
      PROVE  TypeOK'
  BY <1>3 DEF TypeOK, MotorTypeOK, sensorVars
<1>4. CASE PollTouchOH \/ PollTouchUG
  BY <1>3, <1>4, TouchType DEF PollTouchOH, PollTouchUG, Then, Steps
<1>5. CASE AutoControlOH \/ AutoControlUG
  BY <1>3, <1>5, AutoControlType DEF AutoControlOH, AutoControlUG, Then, Steps
<1>6. CASE ProcessPendingOH \/ ProcessPendingUG
  BY <1>3, <1>6, ProcessPendingType DEF ProcessPendingOH, ProcessPendingUG, Then, Steps
<1>7. CASE Recover
  <2>1. MotorTypeOK'
    BY <1>7, BootRecoveryType DEF Recover, TypeOK, MotorTypeOK, motorVars
  <2>2. QED
    BY <1>3, <1>7, <2>1 DEF Recover, Then, Steps
<1>8. CASE UpdateBuzzer
  BY <1>8, TimeAssumption DEF UpdateBuzzer, Then, TypeOK, Steps, sensorVars
<1>9. CASE Schedules
  BY <1>3, <1>9, SchedulesType DEF Schedules, Steps
<1>10. CASE MQTTCommand \/ WebCommand \/ ScheduleCommand
  BY <1>3, <1>10, CommandType DEF MQTTCommand, WebCommand, ScheduleCommand, Then, Steps
<1>11. CASE SetConfig
  BY <1>11, ValidLevelsType
  DEF SetConfig, Then, TypeOK, Steps, sensorVars, motorVars
<1>12. CASE SamePassTime
  BY <1>12 DEF SamePassTime, Then, TypeOK, Steps, sensorVars, motorVars
<1>13. CASE Tick
  <2>1. /\ loraAge' \in NotOn .. LoraTimeout /\ uptime' \in 0 .. BootGrace + 1
        /\ buzzer' \in NotOn .. BuzzerMax
    BY <1>13, TimeAssumption DEF Tick, TypeOK, Older
  <2>2. /\ countdown' \in [Motors -> NotOn .. StartDelay]
        /\ runtime' \in [Motors -> NotOn .. MaxRun]
    BY <1>13, TimeAssumption, OlderType DEF Tick, TypeOK
  <2>3. QED
    BY <1>13, <2>1, <2>2 DEF Tick, Then, TypeOK, Steps
<1>14. ASSUME Restart, settings' \in SettingsType, halfSaved' \in BOOLEAN,
              halfSaved' \/ settings'.startLevel < settings'.stopLevel,
              intent' \in [Motors -> BOOLEAN]
       PROVE  TypeOK'
  <2>1. /\ tank' \in [Motors -> TankState] /\ loraAge' \in NotOn .. LoraTimeout
        /\ uptime' \in 0 .. BootGrace + 1 /\ step' \in Steps
    BY <1>14, TimeAssumption DEF Restart, Steps, TankState
  <2>2. /\ countdown' \in [Motors -> NotOn .. StartDelay]
        /\ runtime' \in [Motors -> NotOn .. MaxRun]
        /\ buzzer' \in NotOn .. BuzzerMax
    BY <1>14, TimeAssumption DEF Restart
  <2>3. /\ source' \in [Motors -> Sources] /\ restoring' \in [Motors -> BOOLEAN]
        /\ rejected' \in [Motors -> BOOLEAN] /\ recovered' \in BOOLEAN
    BY <1>14 DEF Restart, Sources
  <2>4. QED
    BY <1>14, <2>1, <2>2, <2>3 DEF TypeOK
<1>15. CASE Reboot
  BY <1>14, <1>15 DEF Reboot, TypeOK
<1>16. CASE FactoryReset
  <2>1. Defaults \in SettingsType /\ Defaults.startLevel < Defaults.stopLevel
    BY DEF Defaults, SettingsType
  <2>2. Restart /\ settings' = Defaults /\ halfSaved' = FALSE
        /\ intent' \in [Motors -> BOOLEAN]
    BY <1>16 DEF FactoryReset
  <2>3. QED
    BY <1>14, <2>1, <2>2
<1>17. CASE CutSave
  <2>1. PICK s \in Choices, n \in 1 .. 6 :
          /\ settings' = Written(settings, ValidLevels(s), n)
          /\ halfSaved' = (halfSaved \/ n = 6)
    BY <1>17 DEF CutSave
  <2>2. /\ settings' \in SettingsType
        /\ n # 6 => UNCHANGED <<settings.startLevel, settings.stopLevel>>
    BY <2>1, ValidLevelsType, WrittenType DEF TypeOK
  <2>3. halfSaved' \in BOOLEAN
        /\ (halfSaved' \/ settings'.startLevel < settings'.stopLevel)
    BY <2>1, <2>2 DEF TypeOK
  <2>4. Restart /\ intent' \in [Motors -> BOOLEAN]
    BY <1>17 DEF CutSave, TypeOK
  <2>5. QED
    BY <1>14, <2>2, <2>3, <2>4
<1>18. CASE UNCHANGED vars
  BY <1>18 DEF vars, sensorVars, motorVars, TypeOK
<1>19. QED
  BY <1>1, <1>2, <1>4, <1>5, <1>6, <1>7, <1>8, <1>9, <1>10, <1>11, <1>12, <1>13,
     <1>15, <1>16, <1>17, <1>18 DEF Next, Pass

(* Every state of the controller has the declared types.  The start level   *)
(* stays below the stop level, whatever is asked for (MQTT and HTTP         *)
(* settings), unless the power went between the two keys of a save          *)
(* (saveMotorConfig) and no whole save has followed.                        *)
THEOREM TypeCorrect == Spec => []TypeOK
<1>1. Init => TypeOK
  <2> SUFFICES ASSUME Init PROVE TypeOK
    OBVIOUS
  <2>1. /\ settings \in SettingsType /\ settings.startLevel < settings.stopLevel
        /\ halfSaved \in BOOLEAN
    BY ValidLevelsType DEF Init
  <2>2. /\ step \in Steps /\ tank \in [Motors -> TankState]
        /\ loraAge \in NotOn .. LoraTimeout /\ uptime \in 0 .. BootGrace + 1
    BY TimeAssumption DEF Init, Steps, TankState
  <2>3. /\ countdown \in [Motors -> NotOn .. StartDelay]
        /\ runtime \in [Motors -> NotOn .. MaxRun] /\ buzzer \in NotOn .. BuzzerMax
    BY TimeAssumption DEF Init
  <2>4. /\ source \in [Motors -> Sources] /\ restoring \in [Motors -> BOOLEAN]
        /\ rejected \in [Motors -> BOOLEAN] /\ recovered \in BOOLEAN
        /\ intent \in [Motors -> BOOLEAN]
    BY DEF Init, Sources
  <2>5. QED
    BY <2>1, <2>2, <2>3, <2>4 DEF TypeOK
<1>2. TypeOK /\ [Next]_vars => TypeOK'
  BY TypeStep
<1>3. QED
  BY <1>1, <1>2, PTL DEF Spec

-------------------------------------------------------------------------------
(* The safety properties: each invariant is shown operation by operation,  *)
(* then handler by handler.                                                *)

(* The operations a handler may perform on the motors. *)
MotorOperation ==
  \/ \E m \in Motors : TurnOn(m) \/ StartScheduled(m)
  \/ \E m \in Motors : countdown[m] = StartDelay /\ CountdownDone(m)
  \/ \E M \in SUBSET Motors : TurnOff(M)
  \/ AutoControl(OH, OHVerdict) \/ AutoControl(UG, UGVerdict)
  \/ RecoveryDue /\ BootRecovery

LEMMA TouchOperates ==
  ASSUME NEW m \in Motors, Touch(m) PROVE UNCHANGED motorVars \/ MotorOperation
<1>1. CASE TurnOff({m})
  BY <1>1 DEF MotorOperation
<1>2. QED
  BY <1>1 DEF Touch, MotorOperation

LEMMA ProcessPendingOperates ==
  ASSUME TypeOK, NEW m \in Motors, ProcessPending(m)
  PROVE  UNCHANGED motorVars \/ MotorOperation
<1>1. countdown[m] >= StartDelay => countdown[m] = StartDelay
  BY TimeAssumption DEF TypeOK
<1>2. QED
  BY <1>1 DEF ProcessPending, MotorOperation

LEMMA SchedulesOperates ==
  ASSUME Schedules
  PROVE  \/ UNCHANGED motorVars \/ MotorOperation
         \/ BuzzerOnly(0)
         \/ SilenceOutright
<1>1. CASE \E m \in Operated : StartScheduled(m) \/ TurnOff({m})
  BY <1>1, InputAssumption DEF MotorOperation
<1>2. QED
  BY <1>1 DEF Schedules

LEMMA CommandOperates ==
  ASSUME MQTTCommand \/ WebCommand \/ ScheduleCommand
  PROVE  \/ UNCHANGED motorVars \/ MotorOperation
         \/ BuzzerOnly(0)
         \/ ScheduleCommand /\ SilenceOutright
<1>1. CASE \E m \in Operated : TurnOn(m) \/ TurnOff({m})
  BY <1>1, InputAssumption DEF MotorOperation
<1>2. CASE \E M \in SUBSET Motors : TurnOff(M)
  BY <1>2 DEF MotorOperation
<1>3. QED
  BY <1>1, <1>2 DEF MQTTCommand, WebCommand, ScheduleCommand

(* What a step does to the motors: nothing, one operation, the buzzer       *)
(* alone, a tick, or a restart.                                             *)
LEMMA NextCases ==
  ASSUME TypeOK, [Next]_vars
  PROVE  \/ UNCHANGED motorVars \/ MotorOperation
         \/ BuzzerOnly(0)
         \/ (Schedules \/ ScheduleCommand) /\ SilenceOutright
         \/ UpdateBuzzer \/ Tick
         \/ Restart
<1>1. CASE PollLora \/ ReadFloat \/ SetConfig \/ SamePassTime
  BY <1>1 DEF PollLora, ReadFloat, SetConfig, SamePassTime
<1>2. CASE PollTouchOH \/ PollTouchUG
  BY <1>2, TouchOperates DEF PollTouchOH, PollTouchUG
<1>3. CASE AutoControlOH \/ AutoControlUG
  BY <1>3 DEF AutoControlOH, AutoControlUG, MotorOperation
<1>4. CASE ProcessPendingOH \/ ProcessPendingUG
  BY <1>4, ProcessPendingOperates DEF ProcessPendingOH, ProcessPendingUG
<1>5. CASE Recover
  BY <1>5 DEF Recover, MotorOperation
<1>6. CASE Schedules \/ MQTTCommand \/ WebCommand \/ ScheduleCommand
  BY <1>6, SchedulesOperates, CommandOperates
<1>7. CASE FactoryReset \/ Reboot \/ CutSave
  BY <1>7 DEF FactoryReset, Reboot, CutSave
<1>8. CASE UNCHANGED vars
  BY <1>8 DEF vars
<1>9. QED
  BY <1>1, <1>2, <1>3, <1>4, <1>5, <1>6, <1>7, <1>8 DEF Next, Pass

(* What the verdicts "start" and "cancel" presuppose. *)
LEMMA StartVerdict ==
  ASSUME NEW m \in Motors, \/ m = OH /\ OHVerdict = "start"
                           \/ m = UG /\ UGVerdict = "start"
  PROVE  /\ ~Running(m) /\ ~Pending(m) /\ ~DisplayOnly(m) /\ ~(uptime < BootGrace)
         /\ tank[m] # Unknown
         /\ tank[m] <= (IF m = OH THEN settings.startLevel ELSE Low)
BY DEF OHVerdict, UGVerdict, DisplayOnly

-------------------------------------------------------------------------------
(* What the relay and the countdown operators do to each motor *)

LEMMA RelayOnEffect ==
  ASSUME TypeOK, NEW M, RelayOn(M)
  PROVE  \A n \in Motors : Running(n)' <=> Running(n) \/ n \in M
BY DEF RelayOn, Running, TypeOK

LEMMA RelayOffEffect ==
  ASSUME TypeOK, NEW M, RelayOff(M)
  PROVE  \A n \in Motors : Running(n)' <=> Running(n) /\ n \notin M
BY DEF RelayOff, Running, TypeOK

LEMMA RelayUntouchedEffect ==
  ASSUME RelayUntouched PROVE \A n \in Motors : Running(n)' <=> Running(n)
BY DEF RelayUntouched, Running

LEMMA EndCountdownEffect ==
  ASSUME TypeOK, NEW M, EndCountdown(M)
  PROVE  \A n \in Motors : /\ Pending(n)' <=> Pending(n) /\ n \notin M
                           /\ restoring'[n] <=> restoring[n] /\ n \notin M
                           /\ n \notin M => countdown'[n] = countdown[n]
<1> TAKE n \in Motors
<1>1. restoring'[n] <=> restoring[n] /\ n \notin M
  BY Zenon DEF EndCountdown
<1>2. QED
  BY <1>1 DEF EndCountdown, Pending, TypeOK

-------------------------------------------------------------------------------
(* Who owns a motor *)

LEMMA OwnedTurnOn ==
  ASSUME TypeOK, SourceOwnsMotor, NEW m \in Motors, TurnOn(m)
  PROVE  SourceOwnsMotor'
<1>1. CASE Running(m) \/ Pending(m)
  BY <1>1 DEF TurnOn, SourceOwnsMotor, Running, Pending, RelayUntouched
<1>2. CASE settings.manualAutoStop /\ tank[m] = Full
  BY <1>1, <1>2 DEF TurnOn, SourceOwnsMotor, Running, Pending, RelayUntouched
<1>3. CASE /\ ~Running(m) /\ ~Pending(m)
           /\ ~(settings.manualAutoStop /\ tank[m] = Full)
  <2>1. /\ Begin(m) /\ UNCHANGED restoring
        /\ source' = [source EXCEPT ![m] = IF @ = "NONE" THEN "MANUAL" ELSE @]
    BY <1>3 DEF TurnOn
  <2>2. source' = [source EXCEPT ![m] = "MANUAL"]
    BY <1>3, <2>1 DEF SourceOwnsMotor
  <2>3. QED
    BY <1>3, <2>1, <2>2, TimeAssumption
    DEF Begin, SourceOwnsMotor, Running, Pending, RelayUntouched, RelayOn, TypeOK
<1>4. QED
  BY <1>1, <1>2, <1>3

LEMMA OwnedTurnOff ==
  ASSUME TypeOK, SourceOwnsMotor, NEW M \in SUBSET Motors, TurnOff(M)
  PROVE  SourceOwnsMotor'
BY DEF TurnOff, EndCountdown, RelayOff, SourceOwnsMotor, Running, Pending, TypeOK

LEMMA OwnedStartScheduled ==
  ASSUME TypeOK, SourceOwnsMotor, NEW m \in Motors, StartScheduled(m)
  PROVE  SourceOwnsMotor'
<1>1. CASE Running(m)
  BY <1>1 DEF StartScheduled, RelayUntouched, SourceOwnsMotor, Running, Pending
<1>2. CASE ~Running(m)
  <2>1. /\ EndCountdown({m}) /\ RelayOn({m})
        /\ source' = [source EXCEPT ![m] = "SCHEDULED"]
    BY <1>2 DEF StartScheduled
  <2>2. \A n \in Motors : /\ Running(n)' <=> Running(n) \/ n = m
                          /\ Pending(n)' <=> Pending(n) /\ n # m
                          /\ restoring'[n] <=> restoring[n] /\ n # m
    BY <2>1, EndCountdownEffect, RelayOnEffect
  <2>3. QED
    BY <2>1, <2>2 DEF SourceOwnsMotor, TypeOK
<1>3. QED
  BY <1>1, <1>2

LEMMA OwnedAutoControl ==
  ASSUME TypeOK, SourceOwnsMotor, NEW m \in Motors, NEW verdict,
         verdict = "start" => ~Running(m) /\ ~Pending(m),
         AutoControl(m, verdict)
  PROVE  SourceOwnsMotor'
<1>1. CASE UNCHANGED motorVars
  BY <1>1 DEF motorVars, SourceOwnsMotor, Running, Pending
<1>2. CASE AutoStop(m, verdict)
  BY <1>2 DEF AutoStop, EndCountdown, RelayOff, SourceOwnsMotor, Running, Pending, TypeOK
<1>3. CASE AutoCancel(m)
  BY <1>3 DEF AutoCancel, EndCountdown, RelayUntouched, SourceOwnsMotor, Running,
              Pending, TypeOK
<1>4. CASE verdict = "start" /\ Begin(m) /\ UNCHANGED restoring
           /\ source' = [source EXCEPT ![m] = "AUTO"]
  BY <1>4, TimeAssumption
  DEF Begin, RelayOn, RelayUntouched, SourceOwnsMotor, Running, Pending, TypeOK
<1>5. QED
  BY <1>1, <1>2, <1>3, <1>4 DEF AutoControl

LEMMA OwnedCountdownDone ==
  ASSUME TypeOK, SourceOwnsMotor, NEW m \in Motors, CountdownDone(m)
  PROVE  SourceOwnsMotor'
<1>1. CASE RelayOn({m}) /\ UNCHANGED source
  BY <1>1, EndCountdownEffect, RelayOnEffect DEF CountdownDone, SourceOwnsMotor, TypeOK
<1>2. CASE RelayUntouched /\ source' = [source EXCEPT ![m] = "NONE"]
  BY <1>2 DEF CountdownDone, EndCountdown, RelayUntouched, SourceOwnsMotor, Running,
              Pending, TypeOK
<1>3. QED
  BY <1>1, <1>2 DEF CountdownDone

LEMMA OwnedBootRecovery ==
  ASSUME TypeOK, SourceOwnsMotor, BootRecovery
  PROVE  SourceOwnsMotor'
<1>1. CASE settings.buzzerDelay
  BY <1>1 DEF BootRecovery, RelayUntouched, SourceOwnsMotor, Running, Pending, TypeOK
<1>2. CASE ~settings.buzzerDelay
  BY <1>2 DEF BootRecovery, RelayOn, SourceOwnsMotor, Running, Pending, TypeOK
<1>3. QED
  BY <1>1, <1>2

LEMMA OwnedOperation ==
  ASSUME TypeOK, SourceOwnsMotor, MotorOperation PROVE SourceOwnsMotor'
BY OwnedTurnOn, OwnedTurnOff, OwnedStartScheduled, OwnedAutoControl,
   OwnedCountdownDone, OwnedBootRecovery, StartVerdict DEF MotorOperation

LEMMA OwnedStep ==
  ASSUME TypeOK, SourceOwnsMotor, [Next]_vars PROVE SourceOwnsMotor'
<1>1. CASE UNCHANGED <<countdown, runtime, source, restoring>>
  BY <1>1 DEF SourceOwnsMotor, Running, Pending
<1>2. CASE MotorOperation
  BY <1>2, OwnedOperation
<1>3. CASE Tick
  BY <1>3, TimeAssumption
  DEF Tick, Older, SourceOwnsMotor, Running, Pending, TypeOK
<1>4. CASE Restart
  BY <1>4 DEF Restart, SourceOwnsMotor, Running, Pending
<1>5. QED
  BY <1>1, <1>2, <1>3, <1>4, NextCases DEF motorVars, SilenceOutright, BuzzerOnly, UpdateBuzzer

(* A motor at rest has no owner and a countdown is never the scheduler's    *)
(* (turnOn, turnOff, startScheduled, autoControl, processPendingMotorStarts)*)
THEOREM Ownership == Spec => []SourceOwnsMotor
<1>1. Init => SourceOwnsMotor
  BY DEF Init, SourceOwnsMotor, Running, Pending
<1>2. TypeOK /\ SourceOwnsMotor /\ [Next]_vars => SourceOwnsMotor'
  BY OwnedStep
<1>3. QED
  BY <1>1, <1>2, TypeCorrect, PTL DEF Spec

-------------------------------------------------------------------------------
(* A countdown and a run exclude each other until boot recovery *)

LEMMA BeginEffect ==
  ASSUME TypeOK, NEW m \in Motors, Begin(m)
  PROVE  \/ /\ \A n \in Motors : Running(n)' <=> Running(n)
            /\ \A n \in Motors : Pending(n)' <=> Pending(n) \/ n = m
         \/ /\ \A n \in Motors : Running(n)' <=> Running(n) \/ n = m
            /\ \A n \in Motors : Pending(n)' <=> Pending(n)
<1>1. CASE settings.buzzerDelay
  BY <1>1 DEF Begin, RelayUntouched, Running, Pending, TypeOK
<1>2. CASE ~settings.buzzerDelay
  <2>1. RelayOn({m}) /\ UNCHANGED countdown
    BY <1>2 DEF Begin
  <2>2. QED
    BY <2>1, RelayOnEffect DEF Pending
<1>3. QED
  BY <1>1, <1>2

LEMMA ExclusiveTurnOn ==
  ASSUME TypeOK, CountdownExcludesRun, NEW m \in Motors, TurnOn(m)
  PROVE  CountdownExcludesRun'
<1>1. CASE UNCHANGED <<countdown, runtime, source, recovered>>
  BY <1>1 DEF CountdownExcludesRun, Running, Pending
<1>2. CASE /\ ~Running(m) /\ ~Pending(m) /\ Begin(m) /\ UNCHANGED recovered
           /\ \A n \in Motors : n # m => source'[n] = source[n]
  BY <1>2, BeginEffect DEF CountdownExcludesRun
<1>3. QED
  BY <1>1, <1>2 DEF TurnOn, RelayUntouched, TypeOK

LEMMA ExclusiveTurnOff ==
  ASSUME TypeOK, CountdownExcludesRun, NEW M \in SUBSET Motors, TurnOff(M)
  PROVE  CountdownExcludesRun'
BY DEF TurnOff, EndCountdown, RelayOff, CountdownExcludesRun, Running, Pending, TypeOK

LEMMA ExclusiveStartScheduled ==
  ASSUME TypeOK, CountdownExcludesRun, NEW m \in Motors, StartScheduled(m)
  PROVE  CountdownExcludesRun'
<1>1. CASE Running(m)
  BY <1>1 DEF StartScheduled, RelayUntouched, CountdownExcludesRun, Running, Pending
<1>2. CASE ~Running(m)
  <2>1. /\ EndCountdown({m}) /\ RelayOn({m}) /\ UNCHANGED recovered
        /\ \A n \in Motors : n # m => source'[n] = source[n]
    BY <1>2 DEF StartScheduled, TypeOK
  <2>2. QED
    BY <2>1, EndCountdownEffect, RelayOnEffect DEF CountdownExcludesRun
<1>3. QED
  BY <1>1, <1>2

LEMMA ExclusiveAutoControl ==
  ASSUME TypeOK, CountdownExcludesRun, NEW m \in Motors, NEW verdict,
         verdict = "start" => ~Running(m) /\ ~Pending(m),
         AutoControl(m, verdict)
  PROVE  CountdownExcludesRun'
<1>1. CASE UNCHANGED motorVars
  BY <1>1 DEF motorVars, CountdownExcludesRun, Running, Pending
<1>2. CASE AutoStop(m, verdict) \/ AutoCancel(m)
  <2>1. /\ EndCountdown({m}) /\ (RelayOff({m}) \/ RelayUntouched)
        /\ \A n \in Motors : n # m => source'[n] = source[n]
    BY <1>2 DEF AutoStop, AutoCancel, TypeOK
  <2>2. UNCHANGED recovered
    BY DEF AutoControl
  <2>3. QED
    BY <2>1, <2>2, EndCountdownEffect, RelayOffEffect, RelayUntouchedEffect
    DEF CountdownExcludesRun
<1>3. CASE /\ verdict = "start" /\ Begin(m) /\ UNCHANGED recovered
           /\ source' = [source EXCEPT ![m] = "AUTO"]
  BY <1>3, BeginEffect DEF CountdownExcludesRun, TypeOK
<1>4. QED
  BY <1>1, <1>2, <1>3 DEF AutoControl

LEMMA ExclusiveCountdownDone ==
  ASSUME TypeOK, CountdownExcludesRun, NEW m \in Motors, CountdownDone(m)
  PROVE  CountdownExcludesRun'
<1>1. /\ EndCountdown({m}) /\ (RelayOn({m}) \/ RelayUntouched)
      /\ UNCHANGED recovered
      /\ \A n \in Motors : n # m => source'[n] = source[n]
  BY DEF CountdownDone, TypeOK
<1>2. QED
  BY <1>1, EndCountdownEffect, RelayOnEffect, RelayUntouchedEffect
  DEF CountdownExcludesRun

LEMMA BootRecoveryEffect ==
  ASSUME TypeOK, BootRecovery
  PROVE  \A n \in Motors :
           /\ n \notin ToResume => /\ Running(n)' <=> Running(n)
                                   /\ countdown'[n] = countdown[n]
                                   /\ source'[n] = source[n]
           /\ n \in ToResume => source'[n] = "AUTO" /\ ~Running(n)
<1>1. CASE settings.buzzerDelay
  BY <1>1 DEF BootRecovery, RelayUntouched, Running, ToResume, TypeOK
<1>2. CASE ~settings.buzzerDelay
  <2>1. RelayOn(ToResume) /\ UNCHANGED countdown
    BY <1>2 DEF BootRecovery
  <2>2. \A n \in Motors : n \in ToResume => ~Running(n)
    BY DEF ToResume
  <2>3. QED
    BY <2>1, <2>2, RelayOnEffect DEF BootRecovery, TypeOK
<1>3. QED
  BY <1>1, <1>2

LEMMA ExclusiveBootRecovery ==
  ASSUME TypeOK, CountdownExcludesRun, BootRecovery
  PROVE  CountdownExcludesRun'
<1>1. recovered'
  BY DEF BootRecovery
<1>2. QED
  BY <1>1, BootRecoveryEffect DEF CountdownExcludesRun, Pending

LEMMA ExclusiveStep ==
  ASSUME TypeOK, CountdownExcludesRun, [Next]_vars PROVE CountdownExcludesRun'
<1>1. CASE UNCHANGED <<countdown, runtime, source, recovered>>
  BY <1>1 DEF CountdownExcludesRun, Running, Pending
<1>2. CASE MotorOperation
  BY <1>2, ExclusiveTurnOn, ExclusiveTurnOff, ExclusiveStartScheduled, StartVerdict,
     ExclusiveAutoControl, ExclusiveCountdownDone, ExclusiveBootRecovery
  DEF MotorOperation
<1>3. CASE Tick
  BY <1>3, TimeAssumption DEF Tick, Older, CountdownExcludesRun, Running, Pending, TypeOK
<1>4. CASE Restart
  BY <1>4 DEF Restart, CountdownExcludesRun, Running, Pending
<1>5. QED
  BY <1>1, <1>2, <1>3, <1>4, NextCases DEF motorVars, SilenceOutright, BuzzerOnly, UpdateBuzzer

(* Only boot recovery (processPendingMotorStarts) closes a relay while that *)
(* motor is counting down; every other handler keeps the two apart.         *)
THEOREM Exclusion == Spec => []CountdownExcludesRun
<1>1. Init => CountdownExcludesRun
  BY DEF Init, CountdownExcludesRun, Running, Pending
<1>2. TypeOK /\ CountdownExcludesRun /\ [Next]_vars => CountdownExcludesRun'
  BY ExclusiveStep
<1>3. QED
  BY <1>1, <1>2, TypeCorrect, PTL DEF Spec

-------------------------------------------------------------------------------
(* The warning sounds during every countdown *)

(* The strengthening: a countdown that has come to its end is served in the *)
(* pass that finds it so, so that no motor is left at the end of its        *)
(* countdown when time passes again.                                        *)
Served ==
  \A m \in Motors : countdown[m] = StartDelay =>
    \/ step \in {"lora", "float", "touchOH", "touchUG", "autoOH", "autoUG", "pendingOH"}
    \/ m = UG /\ step = "pendingUG"

LEMMA OperationAges ==
  ASSUME TypeOK, MotorOperation
  PROVE  \A n \in Motors : countdown'[n] \in {countdown[n], 0, NotOn}
<1>1. ASSUME NEW m \in Motors, TurnOn(m)
      PROVE  \A n \in Motors : countdown'[n] \in {countdown[n], 0, NotOn}
  <2>1. UNCHANGED countdown \/ countdown' = [countdown EXCEPT ![m] = 0]
    BY <1>1 DEF TurnOn, Begin
  <2>2. QED
    BY <2>1 DEF TypeOK
<1>2. ASSUME NEW m \in Motors, StartScheduled(m) \/ CountdownDone(m)
      PROVE  \A n \in Motors : countdown'[n] \in {countdown[n], 0, NotOn}
  <2>1. UNCHANGED countdown \/ EndCountdown({m})
    BY <1>2 DEF StartScheduled, CountdownDone
  <2>2. QED
    BY <2>1 DEF EndCountdown
<1>3. ASSUME NEW M \in SUBSET Motors, TurnOff(M)
      PROVE  \A n \in Motors : countdown'[n] \in {countdown[n], 0, NotOn}
  BY <1>3 DEF TurnOff, EndCountdown
<1>4. ASSUME NEW m \in Motors, NEW verdict, AutoControl(m, verdict)
      PROVE  \A n \in Motors : countdown'[n] \in {countdown[n], 0, NotOn}
  <2>1. \/ UNCHANGED countdown \/ countdown' = [countdown EXCEPT ![m] = 0]
        \/ EndCountdown({m})
    BY <1>4 DEF AutoControl, AutoStop, AutoCancel, Begin, motorVars
  <2>2. QED
    BY <2>1 DEF EndCountdown, TypeOK
<1>5. ASSUME BootRecovery
      PROVE  \A n \in Motors : countdown'[n] \in {countdown[n], 0, NotOn}
  BY <1>5 DEF BootRecovery
<1>6. QED
  BY <1>1, <1>2, <1>3, <1>4, <1>5 DEF MotorOperation

LEMMA ServedStep == ASSUME TypeOK, Served, [Next]_vars PROVE Served'
<1>1. CASE step' \in {"lora", "float", "touchOH", "touchUG", "autoOH", "autoUG",
                      "pendingOH"}
  BY <1>1 DEF Served
<1>2. CASE ProcessPendingOH
  <2>1. countdown'[OH] # StartDelay
    <3>1. CASE countdown[OH] < StartDelay /\ UNCHANGED motorVars
      BY <3>1, TimeAssumption DEF motorVars, TypeOK
    <3>2. CASE CountdownDone(OH)
      BY <3>2, TimeAssumption DEF CountdownDone, EndCountdown
    <3>3. QED
      BY <1>2, <3>1, <3>2 DEF ProcessPendingOH, ProcessPending
  <2>2. QED
    BY <1>2, <2>1 DEF ProcessPendingOH, Then, Served
<1>3. CASE ProcessPendingUG
  <2>1. countdown'[UG] # StartDelay /\ countdown'[OH] # StartDelay
    <3>1. CASE countdown[UG] < StartDelay /\ UNCHANGED motorVars
      BY <1>3, <3>1, TimeAssumption DEF motorVars, TypeOK, ProcessPendingUG, Then, Served
    <3>2. CASE CountdownDone(UG)
      BY <1>3, <3>2, TimeAssumption
      DEF CountdownDone, EndCountdown, ProcessPendingUG, Then, Served
    <3>3. QED
      BY <1>3, <3>1, <3>2 DEF ProcessPendingUG, ProcessPending
  <2>2. QED
    BY <2>1 DEF Served
<1>4. CASE /\ step \in {"recovery", "buzzer", "schedules", "mqtt", "web", "clock"}
           /\ \A n \in Motors : countdown'[n] \in {countdown[n], 0, NotOn}
  BY <1>4, TimeAssumption DEF Served
<1>5. CASE Recover \/ Schedules \/ MQTTCommand \/ WebCommand \/ ScheduleCommand
  <2>1. \/ UNCHANGED motorVars \/ MotorOperation
        \/ BuzzerOnly(0)
        \/ SilenceOutright
    BY <1>5, SchedulesOperates, CommandOperates DEF Recover, MotorOperation
  <2>2. \A n \in Motors : countdown'[n] \in {countdown[n], 0, NotOn}
    BY <2>1, OperationAges DEF motorVars, SilenceOutright, BuzzerOnly
  <2>3. QED
    BY <1>4, <1>5, <2>2 DEF Recover, Schedules, MQTTCommand, WebCommand, ScheduleCommand, Then
<1>6. CASE UpdateBuzzer \/ SetConfig
  BY <1>4, <1>6 DEF UpdateBuzzer, SetConfig, motorVars, Then
<1>7. CASE SamePassTime \/ Tick
  BY <1>1, <1>7 DEF SamePassTime, Tick, Then
<1>8. CASE PollLora \/ ReadFloat \/ PollTouchOH \/ PollTouchUG \/ AutoControlOH
           \/ AutoControlUG
  BY <1>1, <1>8 DEF PollLora, ReadFloat, PollTouchOH, PollTouchUG, AutoControlOH,
                    AutoControlUG, Then
<1>9. CASE FactoryReset \/ Reboot \/ CutSave
  BY <1>1, <1>9 DEF FactoryReset, Reboot, CutSave, Restart
<1>10. CASE UNCHANGED vars
  BY <1>10 DEF vars, motorVars, Served
<1>11. QED
  BY <1>2, <1>3, <1>5, <1>6, <1>7, <1>8, <1>9, <1>10 DEF Next, Pass

LEMMA ServedAlways == Spec => []Served
<1>1. Init => Served
  BY TimeAssumption DEF Init, Served
<1>2. TypeOK /\ Served /\ [Next]_vars => Served'
  BY ServedStep
<1>3. QED
  BY <1>1, <1>2, TypeCorrect, PTL DEF Spec

(* The buzzer has sounded no longer than any countdown under way: it is     *)
(* started anew with each, and ages with it.                                *)
BuzzerInTime == \A m \in Motors : Pending(m) => buzzer <= countdown[m]

(* The step silences no countdown and begins none in silence. *)
KeepsWarning ==
  /\ BuzzerInTime'
  /\ \A m \in Motors : Pending(m)' /\ buzzer' = NotOn => Pending(m) /\ buzzer = NotOn

LEMMA WarnedUntouched ==
  ASSUME BuzzerInTime, UNCHANGED <<countdown, buzzer>> PROVE KeepsWarning
BY DEF BuzzerInTime, KeepsWarning, Pending

LEMMA WarnedBegin ==
  ASSUME TypeOK, NEW M \in SUBSET Motors,
         countdown' = [m \in Motors |-> IF m \in M THEN 0 ELSE countdown[m]], buzzer' = 0
  PROVE  KeepsWarning
BY TimeAssumption DEF BuzzerInTime, KeepsWarning, Pending, TypeOK

LEMMA WarnedStop ==
  ASSUME TypeOK, BuzzerInTime, NEW M, EndCountdown(M),
         StopMotorBuzzer \/ UNCHANGED buzzer
  PROVE  KeepsWarning
BY EndCountdownEffect DEF StopMotorBuzzer, BuzzerInTime, KeepsWarning

LEMMA WarnedTurnOn ==
  ASSUME TypeOK, BuzzerInTime, NEW m \in Motors, TurnOn(m) PROVE KeepsWarning
<1>1. CASE UNCHANGED <<countdown, buzzer>>
  BY <1>1, WarnedUntouched
<1>2. CASE countdown' = [countdown EXCEPT ![m] = 0] /\ buzzer' = 0
  <2>1. countdown' = [n \in Motors |-> IF n \in {m} THEN 0 ELSE countdown[n]]
    BY <1>2 DEF TypeOK
  <2>2. QED
    BY <1>2, <2>1, WarnedBegin
<1>3. QED
  BY <1>1, <1>2 DEF TurnOn, Begin

LEMMA WarnedAutoControl ==
  ASSUME TypeOK, BuzzerInTime, NEW m \in Motors, NEW verdict, AutoControl(m, verdict)
  PROVE  KeepsWarning
<1>1. CASE UNCHANGED <<countdown, buzzer>>
  BY <1>1, WarnedUntouched
<1>2. CASE AutoStop(m, verdict) \/ AutoCancel(m)
  <2>1. EndCountdown({m}) /\ (StopMotorBuzzer \/ UNCHANGED buzzer)
    BY <1>2 DEF AutoStop, AutoCancel
  <2>2. QED
    BY <2>1, WarnedStop
<1>3. CASE countdown' = [countdown EXCEPT ![m] = 0] /\ buzzer' = 0
  <2>1. countdown' = [n \in Motors |-> IF n \in {m} THEN 0 ELSE countdown[n]]
    BY <1>3 DEF TypeOK
  <2>2. QED
    BY <1>3, <2>1, WarnedBegin
<1>4. QED
  BY <1>1, <1>2, <1>3 DEF AutoControl, Begin, motorVars

LEMMA WarnedBootRecovery ==
  ASSUME TypeOK, BuzzerInTime, BootRecovery PROVE KeepsWarning
<1>1. CASE settings.buzzerDelay /\ ToResume # {}
  <2>1. ToResume \in SUBSET Motors
    BY DEF ToResume
  <2>2. QED
    BY <1>1, <2>1, WarnedBegin DEF BootRecovery
<1>2. CASE ~(settings.buzzerDelay /\ ToResume # {})
  <2>1. UNCHANGED <<countdown, buzzer>>
    BY <1>2 DEF BootRecovery, TypeOK
  <2>2. QED
    BY <2>1, WarnedUntouched
<1>3. QED
  BY <1>1, <1>2

LEMMA WarnedOperation ==
  ASSUME TypeOK, BuzzerInTime, MotorOperation PROVE KeepsWarning
<1>1. ASSUME NEW m \in Motors, StartScheduled(m) \/ CountdownDone(m)
      PROVE  KeepsWarning
  <2>1. CASE EndCountdown({m}) /\ StopMotorBuzzer
    BY <2>1, WarnedStop
  <2>2. CASE UNCHANGED <<countdown, buzzer>>
    BY <2>2, WarnedUntouched
  <2>3. QED
    BY <1>1, <2>1, <2>2 DEF StartScheduled, CountdownDone
<1>2. ASSUME NEW M \in SUBSET Motors, TurnOff(M)
      PROVE  KeepsWarning
  BY <1>2, WarnedStop DEF TurnOff
<1>3. QED
  BY <1>1, <1>2, WarnedTurnOn, WarnedAutoControl, WarnedBootRecovery
  DEF MotorOperation

LEMMA WarnedStep ==
  ASSUME TypeOK, Served, BuzzerInTime, [Next]_vars
  PROVE  /\ BuzzerInTime'
         /\ \/ KeepsWarning
            \/ (Schedules \/ ScheduleCommand) /\ SilenceOutright
<1>0. KeepsWarning => BuzzerInTime'
  BY DEF KeepsWarning
<1>1. CASE UNCHANGED motorVars
  BY <1>0, <1>1, WarnedUntouched DEF motorVars
<1>2. CASE MotorOperation
  BY <1>0, <1>2, WarnedOperation
<1>3. CASE BuzzerOnly(0)
  <2>1. countdown' = [m \in Motors |-> IF m \in {} THEN 0 ELSE countdown[m]]
    BY <1>3 DEF BuzzerOnly, TypeOK
  <2>2. {} \in SUBSET Motors /\ buzzer' = 0
    BY <1>3 DEF BuzzerOnly
  <2>3. KeepsWarning
    BY <2>1, <2>2, WarnedBegin, Zenon
  <2>4. QED
    BY <1>0, <2>3
<1>4. CASE (Schedules \/ ScheduleCommand) /\ SilenceOutright
  BY <1>4, TimeAssumption DEF SilenceOutright, BuzzerOnly, BuzzerInTime, Pending, TypeOK
<1>5. CASE UpdateBuzzer
  <2>1. CASE \A m \in Motors : ~Pending(m)
    BY <1>5, <2>1 DEF UpdateBuzzer, BuzzerInTime, KeepsWarning, Pending
  <2>2. CASE \E m \in Motors : Pending(m)
    <3>1. buzzer < BuzzerMax
      BY <2>2, TimeAssumption DEF BuzzerInTime, TypeOK
    <3>2. UNCHANGED <<countdown, buzzer>>
      BY <1>5, <3>1, TimeAssumption DEF UpdateBuzzer, TypeOK
    <3>3. QED
      BY <1>0, <3>2, WarnedUntouched
  <2>3. QED
    BY <1>0, <2>1, <2>2
<1>6. CASE Tick
  <2>1. \A m \in Motors : Pending(m)' => Pending(m) /\ countdown'[m] = countdown[m] + 1
    BY <1>6, TimeAssumption DEF Tick, Then, Older, Served, Pending, TypeOK
  <2>2. BuzzerInTime' /\ (buzzer' = NotOn => buzzer = NotOn)
    BY <1>6, <2>1, TimeAssumption DEF Tick, Older, BuzzerInTime, TypeOK
  <2>3. QED
    BY <2>1, <2>2 DEF KeepsWarning
<1>7. CASE Restart
  BY <1>7 DEF Restart, BuzzerInTime, KeepsWarning, Pending
<1>8. QED
  BY <1>1, <1>2, <1>3, <1>4, <1>5, <1>6, <1>7, NextCases

LEMMA BuzzerAlwaysInTime == Spec => []BuzzerInTime
<1>1. Init => BuzzerInTime
  BY DEF Init, BuzzerInTime, Pending
<1>2. TypeOK /\ Served /\ BuzzerInTime /\ [Next]_vars => BuzzerInTime'
  BY WarnedStep
<1>3. QED
  BY <1>1, <1>2, TypeCorrect, ServedAlways, PTL DEF Spec

(* Once a motor counts down, the warning sounds to the end of the countdown *)
(* whatever the other motor, the users or the buzzer's own time limit do    *)
(* (stopMotorBuzzer, updateBuzzer): nothing silences it but the scheduler,  *)
(* where it stops the buzzer outright.                                      *)
THEOREM Warning == Spec => WarnedWhileCounting
<1>1. TypeOK /\ Served /\ BuzzerInTime /\ [Next]_vars =>
        [\A m \in Motors :
           Pending(m)' /\ buzzer' = NotOn
             => \/ Pending(m) /\ buzzer = NotOn
                \/ (Schedules \/ ScheduleCommand) /\ SilenceOutright]_vars
  BY WarnedStep DEF KeepsWarning
<1>2. QED
  BY <1>1, TypeCorrect, ServedAlways, BuzzerAlwaysInTime, PTL DEF Spec, WarnedWhileCounting

-------------------------------------------------------------------------------
(* No relay closes unwarned *)

LEMMA UnwarnedStep ==
  ASSUME TypeOK, [Next]_vars, NEW m \in Motors,
         ~Running(m), Running(m)', settings.buzzerDelay, source[m]' # "SCHEDULED"
  PROVE  countdown[m] = StartDelay
<1>1. MotorOperation
  BY NextCases DEF motorVars, SilenceOutright, BuzzerOnly, UpdateBuzzer, Tick, Restart, Running, Older,
                   TypeOK
<1>2. ASSUME NEW n \in Motors, TurnOn(n) PROVE FALSE
  BY <1>2 DEF TurnOn, Begin, RelayUntouched, Running
<1>3. ASSUME NEW n \in Motors, StartScheduled(n) PROVE FALSE
  <2>1. CASE Running(n)
    BY <1>3, <2>1 DEF StartScheduled, RelayUntouched, Running
  <2>2. CASE ~Running(n)
    BY <1>3, <2>2, RelayOnEffect DEF StartScheduled, TypeOK
  <2>3. QED
    BY <2>1, <2>2
<1>4. ASSUME NEW M \in SUBSET Motors, TurnOff(M) PROVE FALSE
  BY <1>4, RelayOffEffect DEF TurnOff
<1>5. ASSUME NEW n \in Motors, NEW verdict, AutoControl(n, verdict) PROVE FALSE
  BY <1>5, RelayOffEffect
  DEF AutoControl, AutoStop, AutoCancel, Begin, RelayUntouched, motorVars, Running
<1>6. ASSUME BootRecovery PROVE FALSE
  BY <1>6 DEF BootRecovery, RelayUntouched, Running
<1>7. PICK n \in Motors : countdown[n] = StartDelay /\ CountdownDone(n)
  BY <1>1, <1>2, <1>3, <1>4, <1>5, <1>6 DEF MotorOperation
<1>8. n = m
  BY <1>7, RelayOnEffect, RelayUntouchedEffect DEF CountdownDone
<1>9. QED
  BY <1>7, <1>8

(* With the buzzer delay enabled, a relay that closes for the auto-control  *)
(* or a user closes at the end of a whole countdown                         *)
(* (processPendingMotorStarts).                                             *)
THEOREM NoStartUnwarned == Spec => NoUnwarnedStart
<1>1. TypeOK /\ [Next]_vars =>
        [\A m \in Motors :
           ~Running(m) /\ Running(m)' /\ settings.buzzerDelay /\ source[m]' # "SCHEDULED"
             => countdown[m] = StartDelay]_vars
  BY UnwarnedStep
<1>2. QED
  BY <1>1, TypeCorrect, PTL DEF Spec, NoUnwarnedStart

-------------------------------------------------------------------------------
(* FULL stops the overhead motor *)

(* The strengthening: it holds from the end of autoControlOHMotor on.       *)
FullStopped ==
  step \in {"autoUG", "pendingOH", "pendingUG", "recovery", "buzzer", "schedules"}
    => (uptime >= BootGrace /\ tank[OH] = Full /\ Running(OH)
          => settings.ohDisplayOnly \/ ~MayAutoStop(OH))

LEMMA FullAutoControl ==
  ASSUME TypeOK, AutoControlOH PROVE FullStopped'
<1> SUFFICES ASSUME uptime >= BootGrace, tank[OH] = Full, Running(OH)',
                    ~settings.ohDisplayOnly
             PROVE  ~MayAutoStop(OH)'
  BY DEF FullStopped, AutoControlOH, sensorVars
<1>1. ~(uptime < BootGrace)
  BY TimeAssumption DEF TypeOK
<1>2. CASE OHVerdict \in {"stop", "loraLost"}
  BY <1>2, RelayOffEffect DEF AutoControlOH, AutoControl, AutoStop, motorVars
<1>3. CASE OHVerdict \notin {"stop", "loraLost"}
  <2>1. ~FullStop(OH)
    BY <1>1, <1>3 DEF OHVerdict
  <2>2. OHVerdict # "start" /\ OHVerdict # "full"
    <3>1. OHVerdict # "start"
      BY StartVerdict DEF TypeOK, SettingsType
    <3>2. OHVerdict # "full"
      BY DEF OHVerdict
    <3>3. QED
      BY <3>1, <3>2
  <2>3. CASE UNCHANGED motorVars
    BY <2>1, <2>3 DEF FullStop, MayAutoStop, Running, motorVars, AutoControlOH
  <2>4. CASE AutoCancel(OH) /\ OHVerdict = "cancel"
    <3>1. source[OH] = "AUTO"
      BY <2>4 DEF OHVerdict
    <3>2. Running(OH)
      BY <2>4, RelayUntouchedEffect DEF AutoCancel
    <3>3. QED
      BY <2>1, <3>1, <3>2 DEF FullStop, MayAutoStop
  <2>5. QED
    BY <1>3, <2>2, <2>3, <2>4 DEF AutoControlOH, AutoControl
<1>4. QED
  BY <1>2, <1>3

(* An operation that leaves the overhead motor and what it depends on.      *)
LEMMA FullElsewhere ==
  ASSUME FullStopped, Running(OH)' => Running(OH), UNCHANGED <<tank, uptime, settings>>,
         source'[OH] = source[OH],
         step \in {"autoUG", "pendingOH", "pendingUG", "recovery", "buzzer", "schedules"}
  PROVE  FullStopped'
BY DEF FullStopped, MayAutoStop

LEMMA FullCountdownDone ==
  ASSUME TypeOK, SourceOwnsMotor, FullStopped, ProcessPendingOH PROVE FullStopped'
<1>1. CASE UNCHANGED motorVars
  BY <1>1, FullElsewhere DEF ProcessPendingOH, Then, motorVars, sensorVars, Running
<1>2. CASE countdown[OH] >= StartDelay /\ CountdownDone(OH)
  <2> SUFFICES ASSUME uptime >= BootGrace, tank[OH] = Full, Running(OH)',
                      ~settings.ohDisplayOnly
               PROVE  ~MayAutoStop(OH)'
    BY DEF FullStopped, ProcessPendingOH, sensorVars
  <2>1. source[OH] \in {"AUTO", "MANUAL"}
    BY <1>2, TimeAssumption DEF SourceOwnsMotor, Pending, TypeOK
  <2>2. ~StillWanted(OH)
    BY DEF StillWanted, TypeOK, SettingsType
  <2>3. CASE UNCHANGED source
    <3>1. source[OH] = "MANUAL" /\ ~settings.manualAutoStop
      BY <1>2, <2>1, <2>2, <2>3 DEF CountdownDone, TypeOK
    <3>2. QED
      BY <2>3, <3>1 DEF MayAutoStop, ProcessPendingOH
  <2>4. CASE RelayUntouched
    <3>1. Running(OH) /\ ~MayAutoStop(OH)
      BY <2>4, RelayUntouchedEffect DEF FullStopped, ProcessPendingOH, Then
    <3>2. source[OH] = "MANUAL" /\ ~settings.manualAutoStop
      BY <2>1, <3>1 DEF MayAutoStop
    <3>3. QED
      BY <1>2, <2>1, <3>2 DEF CountdownDone, MayAutoStop, ProcessPendingOH
  <2>5. QED
    BY <1>2, <2>3, <2>4 DEF CountdownDone
<1>3. QED
  BY <1>1, <1>2 DEF ProcessPendingOH, ProcessPending

LEMMA FullStep ==
  ASSUME TypeOK, SourceOwnsMotor, FullStopped, [Next]_vars PROVE FullStopped'
<1>1. CASE step' \in {"lora", "float", "touchOH", "touchUG", "autoOH", "mqtt", "web", "clock"}
  BY <1>1 DEF FullStopped
<1>2. CASE AutoControlOH
  BY <1>2, FullAutoControl
<1>3. CASE AutoControlUG
  <2>1. (Running(OH)' <=> Running(OH)) /\ source'[OH] = source[OH]
    <3>1. CASE UNCHANGED motorVars
      BY <3>1 DEF motorVars, Running
    <3>2. CASE AutoStop(UG, UGVerdict) \/ AutoCancel(UG)
      BY <3>2, RelayOffEffect, RelayUntouchedEffect DEF AutoStop, AutoCancel, TypeOK
    <3>3. CASE Begin(UG) /\ source' = [source EXCEPT ![UG] = "AUTO"]
      BY <3>3, BeginEffect DEF TypeOK
    <3>4. QED
      BY <1>3, <3>1, <3>2, <3>3 DEF AutoControlUG, AutoControl
  <2>2. QED
    BY <1>3, <2>1, FullElsewhere DEF AutoControlUG, Then, sensorVars
<1>4. CASE ProcessPendingOH
  BY <1>4, FullCountdownDone
<1>5. CASE ProcessPendingUG
  <2>1. (Running(OH)' <=> Running(OH)) /\ source'[OH] = source[OH]
    <3>1. CASE UNCHANGED motorVars
      BY <3>1 DEF motorVars, Running
    <3>2. CASE CountdownDone(UG)
      BY <3>2, RelayOnEffect, RelayUntouchedEffect DEF CountdownDone, TypeOK
    <3>3. QED
      BY <1>5, <3>1, <3>2 DEF ProcessPendingUG, ProcessPending
  <2>2. QED
    BY <1>5, <2>1, FullElsewhere DEF ProcessPendingUG, Then, sensorVars
<1>6. CASE Recover
  <2>1. CASE UNCHANGED motorVars
    BY <1>6, <2>1, FullElsewhere DEF Recover, Then, motorVars, sensorVars, Running
  <2>2. CASE BootRecovery /\ OH \notin ToResume
    BY <1>6, <2>2, BootRecoveryEffect, FullElsewhere DEF Recover, Then, sensorVars
  <2>3. CASE OH \in ToResume
    <3>1. tank[OH] # Full
      BY <2>3 DEF ToResume, BelowStop, TypeOK, SettingsType
    <3>2. QED
      BY <1>6, <3>1 DEF Recover, sensorVars, FullStopped
  <2>4. QED
    BY <1>6, <2>1, <2>2, <2>3 DEF Recover
<1>7. CASE UpdateBuzzer
  BY <1>7, FullElsewhere DEF UpdateBuzzer, Then, sensorVars, Running
<1>8. CASE Schedules
  <2>1. CASE (Running(OH)' => Running(OH)) /\ source'[OH] = source[OH]
    BY <1>8, <2>1, FullElsewhere DEF Schedules, sensorVars
  <2>2. CASE source'[OH] = "SCHEDULED" \/ ~Running(OH)'
    BY <2>2 DEF FullStopped, MayAutoStop
  <2>3. CASE UNCHANGED motorVars \/ BuzzerOnly(0) \/ BuzzerOnly(NotOn)
    BY <2>1, <2>3 DEF motorVars, BuzzerOnly, Running
  <2>4. ASSUME NEW m \in Motors, StartScheduled(m) PROVE FullStopped'
    <3>1. CASE Running(m)
      BY <2>1, <2>4, <3>1, RelayUntouchedEffect DEF StartScheduled
    <3>2. CASE ~Running(m)
      BY <2>1, <2>2, <2>4, <3>2, RelayOnEffect DEF StartScheduled, TypeOK
    <3>3. QED
      BY <3>1, <3>2
  <2>5. ASSUME NEW m \in Motors, TurnOff({m}) PROVE FullStopped'
    <3>1. PICK ran \in SUBSET {m} : /\ RelayOff(ran) /\ (Running(m) => m \in ran)
                                    /\ \A n \in Motors : n # m => source'[n] = source[n]
      BY <2>5 DEF TurnOff
    <3>2. QED
      BY <2>1, <2>2, <3>1, RelayOffEffect
  <2>6. QED
    BY <1>8, <2>3, <2>4, <2>5, InputAssumption DEF Schedules, SilenceOutright
<1>9. CASE UNCHANGED vars
  BY <1>9 DEF vars, sensorVars, motorVars, FullStopped, Running, MayAutoStop
<1>10. QED
  BY <1>1, <1>2, <1>3, <1>4, <1>5, <1>6, <1>7, <1>8, <1>9
  DEF Next, Pass, PollLora, ReadFloat, PollTouchOH, PollTouchUG, MQTTCommand, WebCommand,
      ScheduleCommand, SetConfig, SamePassTime, Tick, Reboot, Restart, CutSave, FactoryReset, Then

(* However a run was started, when the scheduler is reached a FULL overhead *)
(* tank has stopped it, unless the settings or the schedule protect it      *)
(* (autoControlOHMotor, processPendingMotorStarts).                         *)
THEOREM FullStops == Spec => []FullStopsOverhead
<1>1. Init => FullStopped
  BY DEF Init, FullStopped
<1>2. TypeOK /\ SourceOwnsMotor /\ FullStopped /\ [Next]_vars => FullStopped'
  BY FullStep
<1>3. FullStopped => FullStopsOverhead
  BY DEF FullStopped, FullStopsOverhead
<1>4. QED
  BY <1>1, <1>2, <1>3, TypeCorrect, Ownership, PTL DEF Spec

-------------------------------------------------------------------------------
(* No motor runs past its maximum *)

(* The strengthening: each motor from the end of its auto-control on.       *)
Within(m) == DisplayOnly(m) \/ runtime[m] < MaxRun
Limited ==
  uptime >= BootGrace =>
    /\ step \in {"autoUG", "pendingOH", "pendingUG", "recovery", "buzzer", "schedules"}
         => Within(OH)
    /\ step \in {"pendingOH", "pendingUG", "recovery", "buzzer", "schedules"}
         => Within(UG)

(* An operation leaves a run's age alone, starts a run or ends it.          *)
LEMMA OperationRuns ==
  ASSUME TypeOK, MotorOperation
  PROVE  \A n \in Motors : runtime'[n] \in {runtime[n], 0, NotOn}
<1>1. ASSUME NEW m \in Motors, TurnOn(m) \/ StartScheduled(m) \/ CountdownDone(m)
      PROVE  \A n \in Motors : runtime'[n] \in {runtime[n], 0, NotOn}
  <2>1. RelayUntouched \/ RelayOn({m})
    BY <1>1 DEF TurnOn, Begin, StartScheduled, CountdownDone
  <2>2. QED
    BY <2>1 DEF RelayUntouched, RelayOn
<1>2. ASSUME NEW M \in SUBSET Motors, TurnOff(M)
      PROVE  \A n \in Motors : runtime'[n] \in {runtime[n], 0, NotOn}
  BY <1>2 DEF TurnOff, RelayOff
<1>3. ASSUME NEW m \in Motors, NEW verdict, AutoControl(m, verdict)
      PROVE  \A n \in Motors : runtime'[n] \in {runtime[n], 0, NotOn}
  <2>1. UNCHANGED runtime \/ RelayOn({m}) \/ RelayOff({m})
    BY <1>3 DEF AutoControl, AutoStop, AutoCancel, Begin, motorVars, RelayUntouched
  <2>2. QED
    BY <2>1 DEF RelayOn, RelayOff
<1>4. ASSUME BootRecovery
      PROVE  \A n \in Motors : runtime'[n] \in {runtime[n], 0, NotOn}
  BY <1>4 DEF BootRecovery, RelayOn, RelayUntouched
<1>5. QED
  BY <1>1, <1>2, <1>3, <1>4 DEF MotorOperation

(* An operation keeps a motor within its limit. *)
LEMMA WithinKept ==
  ASSUME TypeOK, NEW m \in Motors, Within(m), UNCHANGED settings,
         runtime'[m] \in {runtime[m], 0, NotOn}
  PROVE  Within(m)'
BY TimeAssumption DEF Within, DisplayOnly

(* The auto-control brings its motor within the limit: time is up before    *)
(* any of its other rules.                                                  *)
LEMMA LimitAutoControl ==
  ASSUME TypeOK, NEW m \in Motors, ~(uptime < BootGrace), UNCHANGED settings,
         AutoControl(m, IF m = OH THEN OHVerdict ELSE UGVerdict)
  PROVE  Within(m)'
<1>1. runtime'[m] \in {runtime[m], 0, NotOn}
  BY OperationRuns DEF MotorOperation
<1>2. CASE DisplayOnly(m)
  BY <1>2 DEF DisplayOnly, Within
<1>3. CASE ~DisplayOnly(m) /\ TimeIsUp(m)
  <2>1. (IF m = OH THEN OHVerdict ELSE UGVerdict) = "stop"
    BY <1>3 DEF OHVerdict, UGVerdict, DisplayOnly
  <2>2. AutoStop(m, "stop")
    BY <1>3, <2>1 DEF AutoControl
  <2>3. QED
    BY <2>2, TimeAssumption DEF AutoStop, RelayOff, Within
<1>4. CASE ~TimeIsUp(m)
  <2>1. runtime[m] < MaxRun
    BY <1>4, TimeAssumption DEF TimeIsUp, Running, TypeOK
  <2>2. QED
    BY <1>1, <2>1, WithinKept DEF Within
<1>5. QED
  BY <1>2, <1>3, <1>4

LEMMA LimitedStep == ASSUME TypeOK, Limited, [Next]_vars PROVE Limited'
<1>1. CASE step' \in {"lora", "float", "touchOH", "touchUG", "autoOH", "mqtt", "web", "clock"}
  BY <1>1 DEF Limited
<1>2. CASE AutoControlOH
  BY <1>2, LimitAutoControl, TimeAssumption DEF AutoControlOH, Then, Limited, TypeOK
<1>3. CASE AutoControlUG
  <2>1. runtime'[OH] \in {runtime[OH], 0, NotOn}
    BY <1>3, OperationRuns DEF AutoControlUG, MotorOperation
  <2>2. ASSUME uptime >= BootGrace PROVE Within(OH)' /\ Within(UG)'
    <3>1. Within(OH)'
      BY <1>3, <2>1, <2>2, WithinKept DEF AutoControlUG, Then, Limited
    <3>2. Within(UG)'
      BY <1>3, <2>2, LimitAutoControl, TimeAssumption DEF AutoControlUG, TypeOK
    <3>3. QED
      BY <3>1, <3>2
  <2>3. QED
    BY <1>3, <2>2 DEF AutoControlUG, Limited
<1>4. ASSUME UNCHANGED <<uptime, settings>>,
             step \in {"pendingOH", "pendingUG", "recovery", "buzzer", "schedules"},
             \/ UNCHANGED motorVars \/ MotorOperation \/ BuzzerOnly(0)
             \/ BuzzerOnly(NotOn) \/ UpdateBuzzer
      PROVE  Limited'
  <2>1. \A n \in Motors : runtime'[n] \in {runtime[n], 0, NotOn}
    BY <1>4, OperationRuns DEF motorVars, BuzzerOnly, UpdateBuzzer
  <2>2. ASSUME uptime >= BootGrace, NEW n \in Motors PROVE Within(n)'
    BY <1>4, <2>1, <2>2, WithinKept DEF Limited
  <2>3. QED
    BY <1>4, <2>2 DEF Limited
<1>5. CASE ProcessPendingOH
  BY <1>4, <1>5, ProcessPendingOperates DEF ProcessPendingOH, Then
<1>6. CASE ProcessPendingUG
  BY <1>4, <1>6, ProcessPendingOperates DEF ProcessPendingUG, Then
<1>7. CASE Recover
  BY <1>4, <1>7 DEF Recover, Then, MotorOperation
<1>8. CASE UpdateBuzzer
  BY <1>4, <1>8 DEF UpdateBuzzer, Then
<1>9. CASE Schedules
  BY <1>4, <1>9, SchedulesOperates DEF Schedules, SilenceOutright
<1>10. CASE UNCHANGED vars
  BY <1>10 DEF vars, motorVars, Limited, Within, DisplayOnly
<1>11. QED
  BY <1>1, <1>2, <1>3, <1>5, <1>6, <1>7, <1>8, <1>9, <1>10
  DEF Next, Pass, PollLora, ReadFloat, PollTouchOH, PollTouchUG, MQTTCommand, WebCommand,
      ScheduleCommand, SetConfig, SamePassTime, Tick, Reboot, Restart, CutSave, FactoryReset, Then

(* When the scheduler is reached, every motor but a display-only one is     *)
(* within the maximum runtime, whoever started it (autoControlOHMotor and   *)
(* autoControlUGMotor, "Max runtime safety").                               *)
THEOREM RuntimesLimited == Spec => []RuntimeLimited
<1>1. Init => Limited
  BY DEF Init, Limited
<1>2. TypeOK /\ Limited /\ [Next]_vars => Limited'
  BY LimitedStep
<1>3. Limited => RuntimeLimited
  BY DEF Limited, Within, RuntimeLimited
<1>4. QED
  BY <1>1, <1>2, <1>3, TypeCorrect, PTL DEF Spec

-------------------------------------------------------------------------------
(* The auto-control starts a motor only for a reason *)

(* The strengthening: a countdown of the auto-control cannot be left over   *)
(* from the grace period.                                                   *)
AutoAfterGrace == \A m \in Motors : source[m] = "AUTO" => uptime >= BootGrace

LEMMA OperationSources ==
  ASSUME TypeOK, MotorOperation, ~(uptime >= BootGrace)
  PROVE  \A n \in Motors : source'[n] = "AUTO" => source[n] = "AUTO"
<1>1. uptime < BootGrace
  BY TimeAssumption DEF TypeOK
<1>2. ASSUME NEW m \in Motors, \/ TurnOn(m) \/ StartScheduled(m) \/ CountdownDone(m)
      PROVE  \A n \in Motors : source'[n] = "AUTO" => source[n] = "AUTO"
  <2>1. \/ UNCHANGED source
        \/ source' = [source EXCEPT ![m] = IF @ = "NONE" THEN "MANUAL" ELSE @]
        \/ source' = [source EXCEPT ![m] = "SCHEDULED"]
        \/ source' = [source EXCEPT ![m] = "NONE"]
    BY <1>2 DEF TurnOn, StartScheduled, CountdownDone
  <2>2. QED
    BY <2>1 DEF TypeOK
<1>3. ASSUME NEW M \in SUBSET Motors, TurnOff(M)
      PROVE  \A n \in Motors : source'[n] = "AUTO" => source[n] = "AUTO"
  BY <1>3 DEF TurnOff
<1>4. OHVerdict = "rest" /\ UGVerdict = "rest" /\ ~RecoveryDue
  BY <1>1, TimeAssumption DEF OHVerdict, UGVerdict, RecoveryDue, TypeOK
<1>5. ASSUME NEW m \in Motors, AutoControl(m, "rest")
      PROVE  \A n \in Motors : source'[n] = "AUTO" => source[n] = "AUTO"
  BY <1>5 DEF AutoControl, motorVars
<1>6. QED
  BY <1>2, <1>3, <1>4, <1>5 DEF MotorOperation

LEMMA GraceStep == ASSUME TypeOK, AutoAfterGrace, [Next]_vars PROVE AutoAfterGrace'
<1>1. CASE Restart
  BY <1>1 DEF Restart, AutoAfterGrace
<1>2. CASE ~Restart
  <2>1. uptime >= BootGrace => uptime' >= BootGrace
    <3>1. CASE Tick
      BY <3>1, TimeAssumption DEF Tick, Older, TypeOK
    <3>2. CASE UNCHANGED uptime
      BY <3>2
    <3>3. QED
      BY <1>2, <3>1, <3>2
      DEF Next, Pass, PollLora, ReadFloat, PollTouchOH, PollTouchUG, AutoControlOH,
          AutoControlUG, ProcessPendingOH, ProcessPendingUG, Recover, UpdateBuzzer,
          Schedules, MQTTCommand, WebCommand, ScheduleCommand, SetConfig, SamePassTime, Reboot, CutSave, FactoryReset, vars
  <2>2. CASE uptime >= BootGrace
    BY <2>1, <2>2 DEF AutoAfterGrace
  <2>3. CASE ~(uptime >= BootGrace) /\ MotorOperation
    BY <2>1, <2>3, OperationSources DEF AutoAfterGrace
  <2>4. CASE ~(uptime >= BootGrace) /\ UNCHANGED source
    BY <2>1, <2>4 DEF AutoAfterGrace
  <2>5. QED
    BY <1>2, <2>2, <2>3, <2>4, NextCases DEF motorVars, SilenceOutright, BuzzerOnly, UpdateBuzzer, Tick
<1>3. QED
  BY <1>1, <1>2

LEMMA GraceAlways == Spec => []AutoAfterGrace
<1>1. Init => AutoAfterGrace
  BY DEF Init, AutoAfterGrace
<1>2. TypeOK /\ AutoAfterGrace /\ [Next]_vars => AutoAfterGrace'
  BY GraceStep
<1>3. QED
  BY <1>1, <1>2, TypeCorrect, PTL DEF Spec

(* What the code requires of a start on its own account. *)
Justified(m) ==
  /\ ~DisplayOnly(m) /\ uptime >= BootGrace /\ tank[m] # Unknown
  /\ \/ tank[m] <= (IF m = OH THEN settings.startLevel ELSE Low)
     \/ ~recovered /\ BelowStop(m) /\ (m = OH => UGReady)

LEMMA JustifiedStep ==
  ASSUME TypeOK, SourceOwnsMotor, AutoAfterGrace, [Next]_vars, NEW m \in Motors,
         ~Running(m), Running(m)', source[m]' = "AUTO"
  PROVE  Justified(m)
<1>1. MotorOperation
  BY NextCases DEF motorVars, SilenceOutright, BuzzerOnly, UpdateBuzzer, Tick, Restart, Running, Older,
                   TypeOK
<1>2. ASSUME NEW n \in Motors, TurnOn(n) PROVE FALSE
  <2>1. CASE n = m
    BY <1>2, <2>1, RelayUntouchedEffect DEF TurnOn, SourceOwnsMotor, TypeOK
  <2>2. CASE n # m
    BY <1>2, <2>2, RelayUntouchedEffect, RelayOnEffect DEF TurnOn, Begin
  <2>3. QED
    BY <2>1, <2>2
<1>3. ASSUME NEW n \in Motors, StartScheduled(n) PROVE FALSE
  BY <1>3, RelayOnEffect, RelayUntouchedEffect DEF StartScheduled, TypeOK
<1>4. ASSUME NEW M \in SUBSET Motors, TurnOff(M) PROVE FALSE
  BY <1>4, RelayOffEffect DEF TurnOff
<1>5. ASSUME NEW n \in Motors, CountdownDone(n) PROVE Justified(m)
  <2>1. n = m
    BY <1>5, RelayOnEffect, RelayUntouchedEffect DEF CountdownDone
  <2>2. source[m] = "AUTO"
    BY <1>5, <2>1, RelayUntouchedEffect DEF CountdownDone, TypeOK
  <2>3. StillWanted(m)
    BY <1>5, <2>1, <2>2, RelayUntouchedEffect DEF CountdownDone
  <2>4. QED
    BY <2>2, <2>3 DEF Justified, StillWanted, AutoAfterGrace
<1>6. ASSUME NEW n \in Motors, NEW verdict, AutoControl(n, verdict)
      PROVE  verdict = "start" /\ n = m
  <2>1. ~(AutoStop(n, verdict) \/ AutoCancel(n) \/ UNCHANGED motorVars)
    BY RelayOffEffect, RelayUntouchedEffect DEF AutoStop, AutoCancel, motorVars, Running
  <2>2. QED
    BY <1>6, <2>1, RelayUntouchedEffect, RelayOnEffect DEF AutoControl, Begin
<1>7. ASSUME RecoveryDue, BootRecovery PROVE Justified(m)
  <2>1. m \in ToResume
    BY <1>7, BootRecoveryEffect
  <2>2. QED
    BY <1>7, <2>1, TimeAssumption DEF Justified, ToResume, RecoveryDue, TypeOK
<1>8. CASE AutoControl(OH, OHVerdict) \/ AutoControl(UG, UGVerdict)
  <2>1. ~DisplayOnly(m) /\ ~(uptime < BootGrace) /\ tank[m] # Unknown
        /\ tank[m] <= (IF m = OH THEN settings.startLevel ELSE Low)
    BY <1>6, <1>8, StartVerdict
  <2>2. uptime >= BootGrace
    BY <2>1, TimeAssumption DEF TypeOK
  <2>3. QED
    BY <2>1, <2>2 DEF Justified
<1>9. QED
  BY <1>1, <1>2, <1>3, <1>4, <1>5, <1>7, <1>8 DEF MotorOperation

(* The auto-control closes a relay only on a known level that calls for it, *)
(* except boot recovery, which may act anywhere below the stop level        *)
(* (autoControl, processPendingMotorStarts).                                *)
THEOREM AutoStarts == Spec => AutoStartJustified
<1>1. TypeOK /\ SourceOwnsMotor /\ AutoAfterGrace /\ [Next]_vars =>
        [\A m \in Motors :
           ~Running(m) /\ Running(m)' /\ source[m]' = "AUTO" => Justified(m)]_vars
  BY JustifiedStep
<1>2. QED
  BY <1>1, TypeCorrect, Ownership, GraceAlways, PTL
  DEF Spec, AutoStartJustified, Justified


-------------------------------------------------------------------------------
(* The intent in NVS follows the relay *)

Remembered(m) == intent[m] <=> Running(m)

LEMMA BeginRemembers ==
  ASSUME TypeOK, NEW m \in Motors, Begin(m), NEW n \in Motors, Remembered(n)
  PROVE  Remembered(n)'
<1>1. CASE UNCHANGED intent /\ RelayUntouched
  BY <1>1, RelayUntouchedEffect, Zenon DEF Remembered
<1>2. CASE RelayOn({m}) /\ intent' = [intent EXCEPT ![m] = TRUE]
  <2>1. Running(n)' <=> Running(n) \/ n = m
    BY <1>2, RelayOnEffect
  <2>2. intent'[n] <=> intent[n] \/ n = m
    BY <1>2, Zenon DEF TypeOK
  <2> QED
    BY <2>1, <2>2, Zenon DEF Remembered
<1>3. QED
  BY <1>1, <1>2, Zenon DEF Begin

LEMMA RequestRemembers ==
  ASSUME TypeOK, NEW m \in Motors, TurnOn(m) \/ StartScheduled(m) \/ CountdownDone(m),
         NEW n \in Motors, Remembered(n)
  PROVE  Remembered(n)'
<1>1. CASE UNCHANGED intent /\ RelayUntouched
  BY <1>1, RelayUntouchedEffect, Zenon DEF Remembered
<1>2. CASE RelayOn({m}) /\ intent' = [intent EXCEPT ![m] = TRUE]
  <2>1. Running(n)' <=> Running(n) \/ n = m
    BY <1>2, RelayOnEffect
  <2>2. intent'[n] <=> intent[n] \/ n = m
    BY <1>2, Zenon DEF TypeOK
  <2> QED
    BY <2>1, <2>2, Zenon DEF Remembered
<1>3. CASE Begin(m)
  BY <1>3, BeginRemembers
<1>4. QED
  BY <1>1, <1>2, <1>3, Zenon DEF TurnOn, StartScheduled, CountdownDone

LEMMA TurnOffRemembers ==
  ASSUME TypeOK, NEW M \in SUBSET Motors, TurnOff(M), NEW n \in Motors, Remembered(n)
  PROVE  Remembered(n)'
<1> DEFINE ran == {m \in M : Running(m)}
<1>1. RelayOff(ran) /\ intent' = [m \in Motors |-> intent[m] /\ m \notin ran]
  BY Zenon DEF TurnOff
<1>2. Running(n)' <=> Running(n) /\ n \notin ran
  BY <1>1, RelayOffEffect, Zenon
<1>3. intent'[n] <=> intent[n] /\ n \notin ran
  BY <1>1, Zenon
<1>4. QED
  BY <1>2, <1>3, Zenon DEF Remembered

(* A stop of the auto-control clears the intent, but for a lost signal.     *)
LEMMA AutoControlRemembers ==
  ASSUME TypeOK, NEW m \in Motors, NEW verdict, AutoControl(m, verdict),
         NEW n \in Motors, Remembered(n), ~Remembered(n)'
  PROVE  verdict = "loraLost" /\ n = m
<1>1. CASE UNCHANGED motorVars
  BY <1>1, Zenon DEF motorVars, Remembered, Running
<1>2. CASE AutoCancel(m)
  BY <1>2, RelayUntouchedEffect, Zenon DEF AutoCancel, Remembered
<1>3. CASE Begin(m)
  BY <1>3, BeginRemembers
<1>4. CASE AutoStop(m, verdict)
  <2>1. Running(n)' <=> Running(n) /\ n # m
    BY <1>4, RelayOffEffect DEF AutoStop
  <2>2. n # m => (intent'[n] <=> intent[n])
    BY <1>4, Zenon DEF AutoStop, TypeOK
  <2>3. intent'[m] <=> verdict = "loraLost"
    BY <1>4, Zenon DEF AutoStop, TypeOK
  <2>4. QED
    BY <2>1, <2>2, <2>3, Zenon DEF Remembered
<1>5. QED
  BY <1>1, <1>2, <1>3, <1>4, Zenon DEF AutoControl

(* Boot recovery resumes only motors that are off with their intent set,    *)
(* so that of the runs remembered before it, it can only forget some.       *)
LEMMA BootRecoveryRemembers ==
  ASSUME TypeOK, BootRecovery, NEW n \in Motors, Remembered(n), ~Remembered(n)'
  PROVE  Running(n)'
<1>1. n \notin ToResume
  BY Zenon DEF ToResume, Remembered
<1>2. Running(n)' <=> Running(n)
  BY <1>1, BootRecoveryEffect
<1>3. intent'[n] <=> intent[n] /\ n \notin StaleIntent
  BY Zenon DEF BootRecovery
<1>4. QED
  BY <1>2, <1>3, Zenon DEF Remembered

(* The verdict of a lost signal comes after that of the time limit. *)
LEMMA LostVerdict ==
  ASSUME NEW m \in Motors, \/ m = OH /\ OHVerdict = "loraLost"
                           \/ m = UG /\ UGVerdict = "loraLost"
  PROVE  SignalLost(m) /\ ~TimeIsUp(m)
BY DEF OHVerdict, UGVerdict

Parted(m) ==
  \/ Reboot \/ CutSave
  \/ step \in {"autoOH", "autoUG"} /\ SignalLost(m) /\ ~TimeIsUp(m)
  \/ Recover /\ ~recovered /\ Running(m)'

LEMMA IntentStep ==
  ASSUME TypeOK, [Next]_vars, NEW n \in Motors, Remembered(n), ~Remembered(n)'
  PROVE  Parted(n)
<1>1. CASE UNCHANGED <<runtime, intent>>
  BY <1>1, Zenon DEF Remembered, Running
<1>2. CASE \E m \in Motors : TurnOn(m) \/ StartScheduled(m) \/ CountdownDone(m)
  BY <1>2, RequestRemembers, Zenon
<1>3. CASE \E M \in SUBSET Motors : TurnOff(M)
  BY <1>3, TurnOffRemembers, Zenon
<1>4. CASE AutoControlOH
  <2>1. OHVerdict = "loraLost" /\ n = OH /\ step = "autoOH"
    BY <1>4, AutoControlRemembers DEF AutoControlOH, Then, Motors
  <2>2. QED
    BY <2>1, LostVerdict DEF Parted
<1>5. CASE AutoControlUG
  <2>1. UGVerdict = "loraLost" /\ n = UG /\ step = "autoUG"
    BY <1>5, AutoControlRemembers DEF AutoControlUG, Then, Motors
  <2>2. QED
    BY <2>1, LostVerdict DEF Parted
<1>6. CASE Recover
  <2>1. CASE RecoveryDue /\ BootRecovery
    BY <1>6, <2>1, BootRecoveryRemembers, Zenon DEF RecoveryDue, Parted
  <2>2. QED
    BY <1>1, <1>6, <2>1 DEF Recover, motorVars
<1>7. CASE Tick
  <2>1. intent' = intent /\ runtime'[n] = Older(runtime[n], MaxRun)
    BY <1>7 DEF Tick
  <2>2. Running(n)' <=> Running(n)
    BY <2>1, TimeAssumption DEF Running, Older, NotOn, TypeOK
  <2>3. QED
    BY <2>1, <2>2, Zenon DEF Remembered
<1>8. CASE FactoryReset
  BY <1>8 DEF FactoryReset, Restart, Running, Remembered
<1>9. CASE Reboot \/ CutSave
  BY <1>9 DEF Parted
<1>10. CASE PollLora \/ ReadFloat \/ UpdateBuzzer \/ SetConfig \/ SamePassTime \/ UNCHANGED vars
  BY <1>1, <1>10
  DEF PollLora, ReadFloat, UpdateBuzzer, SetConfig, SamePassTime, vars, motorVars
<1>11. CASE PollTouchOH \/ PollTouchUG
  <2>1. UNCHANGED motorVars \/ \E m \in Motors : TurnOn(m) \/ TurnOff({m})
    BY <1>11 DEF PollTouchOH, PollTouchUG, Touch, Motors
  <2>2. QED
    BY <1>1, <1>2, <1>3, <2>1 DEF motorVars
<1>12. CASE ProcessPendingOH \/ ProcessPendingUG
  <2>1. UNCHANGED motorVars \/ \E m \in Motors : CountdownDone(m)
    BY <1>12 DEF ProcessPendingOH, ProcessPendingUG, ProcessPending, Motors
  <2>2. QED
    BY <1>1, <1>2, <2>1 DEF motorVars
<1>13. CASE Schedules \/ MQTTCommand \/ WebCommand \/ ScheduleCommand
  <2>1. \/ UNCHANGED motorVars \/ BuzzerOnly(0) \/ BuzzerOnly(NotOn)
        \/ \E m \in Motors : TurnOn(m) \/ StartScheduled(m) \/ TurnOff({m})
        \/ \E M \in SUBSET Motors : TurnOff(M)
    BY <1>13, InputAssumption
    DEF Schedules, MQTTCommand, WebCommand, ScheduleCommand, SilenceOutright
  <2>2. QED
    BY <1>1, <1>2, <1>3, <2>1 DEF motorVars, SilenceOutright, BuzzerOnly
<1>14. QED
  BY <1>4, <1>5, <1>6, <1>7, <1>8, <1>9, <1>10, <1>11, <1>12, <1>13, Zenon DEF Next, Pass

(* A run is remembered in NVS from its start to its end, and a remembered   *)
(* run that ends is forgotten, whoever starts and ends it.  A run and its   *)
(* intent part only by a reset, by the loss of the signal within the run's  *)
(* time, and where boot recovery clears the intent of a motor that runs.    *)
THEOREM IntentFollows == Spec => IntentFollowsRun
<1>1. TypeOK /\ [Next]_vars =>
        [\A m \in Motors :
           (intent[m] <=> Running(m)) /\ ~(intent[m] <=> Running(m))' => Parted(m)]_vars
  BY IntentStep DEF Remembered
<1>2. QED
  BY <1>1, TypeCorrect, PTL DEF Spec, IntentFollowsRun, Parted

-------------------------------------------------------------------------------
(* The level the motors act upon is the one the radio link promises *)

Sensed == INSTANCE TankLevel WITH Limit <- LoraTimeout, level <- tank[OH], age <- loraAge

(* Whatever TankLevel lets a reception or a silence do to the level,        *)
(* PollLora takes: the controller relies on no more than the link promises. *)
LEMMA TakesAnyLevel ==
  ASSUME TypeOK, OHReadings = TankState, Then("lora", "float"),
         [Sensed!Hear \/ Sensed!GoSilent]_<<tank[OH], loraAge>>,
         tank' = [tank EXCEPT ![OH] = tank'[OH]],
         UNCHANGED <<uptime, settings, halfSaved, motorVars>>
  PROVE  PollLora
<1>1. CASE Sensed!Hear
  BY <1>1 DEF Sensed!Hear, Sensed!Levels, Sensed!Unknown, Sensed!Full, PollLora, TankState
<1>2. CASE Sensed!GoSilent
  BY <1>2 DEF Sensed!GoSilent, Sensed!Unknown, PollLora
<1>3. CASE UNCHANGED <<tank[OH], loraAge>>
  <2>1. tank' = tank
    BY <1>3 DEF TypeOK
  <2>2. QED
    BY <1>3, <2>1 DEF PollLora, sensorVars
<1>4. QED
  BY <1>1, <1>2, <1>3

LEMMA SensedStep ==
  ASSUME TypeOK, [Next]_vars PROVE [Sensed!Next]_<<tank[OH], loraAge>>
<1>1. CASE UNCHANGED sensorVars
  BY <1>1 DEF sensorVars
<1>2. CASE PollLora
  <2>1. CASE \E s \in OHReadings : tank' = [tank EXCEPT ![OH] = s] /\ loraAge' = 0
    BY <2>1, InputAssumption
    DEF TypeOK, TankState, Sensed!Next, Sensed!Hear, Sensed!Levels, Sensed!Unknown, Sensed!Full
  <2>2. CASE loraAge >= LoraTimeout /\ tank' = [tank EXCEPT ![OH] = Unknown] /\ UNCHANGED loraAge
    BY <2>2 DEF TypeOK, Sensed!Next, Sensed!GoSilent, Sensed!Unknown
  <2>3. QED
    BY <1>1, <1>2, <2>1, <2>2 DEF PollLora
<1>3. CASE ReadFloat
  BY <1>3 DEF ReadFloat, TypeOK
<1>4. CASE Tick
  BY <1>4 DEF Tick, Older, Sensed!Next, Sensed!TimePasses, Sensed!NotOn
<1>5. CASE Restart
  BY <1>5 DEF Restart, Sensed!Next, Sensed!Restart, Sensed!Unknown, Sensed!NotOn
<1>6. QED
  BY <1>1, <1>2, <1>3, <1>4, <1>5
  DEF Next, Pass, PollTouchOH, PollTouchUG, AutoControlOH, AutoControlUG, ProcessPendingOH,
      ProcessPendingUG, Recover, UpdateBuzzer, Schedules, MQTTCommand, WebCommand,
      ScheduleCommand, SetConfig, SamePassTime, Reboot, CutSave, FactoryReset, vars

(* The motors see the overhead tank as TankLevel describes it, which        *)
(* LoRaLink implements: a level in RAM is a packet's or Unknown after its   *)
(* limit, its age only grows or starts anew, and a reset forgets both; no   *)
(* other handler of loop() touches them.                                    *)
THEOREM SensesTankLevel == Spec => Sensed!Spec
<1>1. Init => Sensed!Init
  BY DEF Init, Sensed!Init, Sensed!Unknown, Sensed!NotOn
<1>2. TypeOK /\ [Next]_vars => [Sensed!Next]_<<tank[OH], loraAge>>
  BY SensedStep
<1>3. QED
  BY <1>1, <1>2, TypeCorrect, PTL DEF Spec, Sensed!Spec
===============================================================================
