----------------------------- MODULE MotorControl -----------------------------
(***************************************************************************)
(* The motor controller of the ESP32 firmware: MotorControl.cpp as main.cpp *)
(* drives it.  One pass of loop() is a fixed sequence of handlers on a      *)
(* single core, so the model keeps a program counter over those handlers    *)
(* ("step") and one action per handler; a power cut or a reset may strike   *)
(* before any of them.  Time is counted in ticks: a pass lasts less than a  *)
(* tick or ends one, and ages are counted only as far as the code compares  *)
(* them.  A pending start and a run are represented by their ages, NotOn    *)
(* standing for "none".                                                     *)
(***************************************************************************)
EXTENDS Integers

CONSTANTS
  BootGrace,    (* BOOT_GRACE_PERIOD_MS, in ticks                            *)
  StartDelay,   (* MOTOR_START_BUZZER_DELAY_MS: the audible countdown        *)
  BuzzerMax,    (* BUZZER_MAX_DURATION_MS: the buzzer's own time limit       *)
  MinRun,       (* MOTOR_MIN_RUN_MS: hysteresis of a run                     *)
  MaxRun,       (* ohMaxRunMin, the limit of a run (one value for both)      *)
  LoraTimeout,  (* LORA_MOTOR_SAFETY_TIMEOUT_MS                              *)
  Choices,      (* the settings the user may ask for                         *)
  OHReadings,   (* the levels the overhead tank's packets may carry          *)
  UGReadings,   (* the levels the underground float may settle on            *)
  Operated      (* the motors users and schedules operate (a bound)          *)

OH == "OH"
UG == "UG"
Motors == {OH, UG}

(* TankState is an ordered enumeration: the code compares levels with <=.   *)
Unknown == 0
Empty == 1
Low == 2
Half == 3
Full == 4
TankState == Unknown .. Full

NotOn == -1   \* no countdown, no run, no packet heard

SettingsType ==
  [ohDisplayOnly: BOOLEAN, ugDisplayOnly: BOOLEAN, ugIgnoreForOH: BOOLEAN,
   buzzerDelay: BOOLEAN, manualAutoStop: BOOLEAN,
   startLevel: Empty .. Half, stopLevel: Low .. Full]

ASSUME TimeAssumption ==
  /\ BootGrace \in Nat \ {0} /\ StartDelay \in Nat \ {0}
  /\ MinRun \in Nat \ {0} /\ MaxRun \in Nat \ {0} /\ LoraTimeout \in Nat \ {0}
  /\ BuzzerMax \in Nat /\ StartDelay < BuzzerMax
ASSUME InputAssumption ==
  /\ Choices \subseteq SettingsType /\ Choices # {}
  /\ OHReadings \subseteq TankState
  /\ UGReadings \subseteq {Low, Full}
  /\ Operated \subseteq Motors

VARIABLES
  step,        \* the handler of loop() to run next
  tank,        \* ohTankState, ugTankState
  loraAge,     \* time since lastLoraReceivedTime, NotOn before the first packet
  uptime,      \* millis(), counted up to just past the boot grace period
  settings,    \* the runtime settings, saved to NVS key by key on each change
  halfSaved,   \* a cut came between the two level keys, no whole save since
  countdown,   \* age of the pending (buzzer-delayed) start
  runtime,     \* age of the run: the relay is energised iff it is not NotOn
  source,      \* ohMotorSource, ugMotorSource
  restoring,   \* the pending start carries REASON_POWER_RESTORE
  rejected,    \* the reject code is MOTOR_REJ_TANK_FULL
  buzzer,      \* age of the buzzer's current run
  recovered,   \* bootRecoveryDone
  intent       \* NVS: the motor intents

motorVars == <<countdown, runtime, source, restoring, rejected, buzzer,
               recovered, intent>>
sensorVars == <<tank, loraAge>>
vars == <<step, sensorVars, uptime, settings, halfSaved, motorVars>>

Sources == {"NONE", "AUTO", "MANUAL", "SCHEDULED"}
Steps == {"lora", "float", "touchOH", "touchUG", "autoOH", "autoUG", "pendingOH",
          "pendingUG", "recovery", "buzzer", "schedules", "mqtt", "web", "clock"}

TypeOK ==
  /\ step \in Steps
  /\ tank \in [Motors -> TankState]
  /\ loraAge \in NotOn .. LoraTimeout
  /\ uptime \in 0 .. BootGrace + 1
  /\ settings \in SettingsType
  /\ halfSaved \in BOOLEAN
  /\ halfSaved \/ settings.startLevel < settings.stopLevel
  /\ countdown \in [Motors -> NotOn .. StartDelay]
  /\ runtime \in [Motors -> NotOn .. MaxRun]
  /\ source \in [Motors -> Sources]
  /\ restoring \in [Motors -> BOOLEAN]
  /\ rejected \in [Motors -> BOOLEAN]
  /\ buzzer \in NotOn .. BuzzerMax
  /\ recovered \in BOOLEAN
  /\ intent \in [Motors -> BOOLEAN]

Pending(m) == countdown[m] # NotOn
Running(m) == runtime[m] # NotOn
DisplayOnly(m) == IF m = OH THEN settings.ohDisplayOnly ELSE settings.ugDisplayOnly
UGReady == settings.ugIgnoreForOH \/ tank[UG] = Full
(* A schedule's run is immune to the level stops; a manual one if so set.   *)
MayAutoStop(m) == \/ source[m] \in {"NONE", "AUTO"}
                  \/ source[m] = "MANUAL" /\ settings.manualAutoStop

-------------------------------------------------------------------------------
(* The relay and the buzzer *)

(* energiseOHRelay / energiseUGRelay(true, reason) *)
RelayOn(M) == runtime' = [m \in Motors |-> IF m \in M THEN 0 ELSE runtime[m]]

(* energiseOHRelay / energiseUGRelay(false, reason) *)
RelayOff(M) == runtime' = [m \in Motors |-> IF m \in M THEN NotOn ELSE runtime[m]]

RelayUntouched == UNCHANGED runtime

(* Fault: one motor's stop silences the other's warning (fixed in 2.4.0). *)
StopMotorBuzzerFault == buzzer' = NotOn

(* stopMotorBuzzer: only when neither motor is still counting down *)
StopMotorBuzzer ==
  buzzer' = IF \E m \in Motors : Pending(m)' THEN buzzer ELSE NotOn

EndCountdown(M) ==
  /\ countdown' = [m \in Motors |-> IF m \in M THEN NotOn ELSE countdown[m]]
  /\ restoring' = [m \in Motors |-> restoring[m] /\ m \notin M]

(* The tail shared by turnOnXMotor and the AUTO starts: a countdown with    *)
(* the buzzer, or the relay at once when the buzzer delay is disabled.      *)
Begin(m) ==
  \/ /\ settings.buzzerDelay
     /\ countdown' = [countdown EXCEPT ![m] = 0]
     /\ buzzer' = 0
     /\ UNCHANGED intent
     /\ RelayUntouched
  \/ /\ ~settings.buzzerDelay
     /\ RelayOn({m})
     /\ intent' = [intent EXCEPT ![m] = TRUE]
     /\ UNCHANGED <<countdown, buzzer>>

-------------------------------------------------------------------------------
(* Manual and scheduled requests, called by the buttons, MQTT, HTTP and the  *)
(* scheduler                                                                 *)

(* Fault: asking again while counting down starts the countdown over. *)
TurnOnFault(m) ==
  /\ UNCHANGED <<restoring, recovered>>
  /\ rejected' = [rejected EXCEPT ![m] = FALSE]
  /\ ~Running(m)
  /\ source' = [source EXCEPT ![m] = "MANUAL"]
  /\ Begin(m)

TurnOn(m) ==
  /\ UNCHANGED <<restoring, recovered>>
  /\ \/ /\ Running(m) \/ Pending(m)
        /\ rejected' = [rejected EXCEPT ![m] = FALSE]
        /\ UNCHANGED <<countdown, source, buzzer, intent>> /\ RelayUntouched
     \/ /\ ~Running(m) /\ ~Pending(m)
        /\ settings.manualAutoStop /\ tank[m] = Full
        /\ rejected' = [rejected EXCEPT ![m] = TRUE]
        /\ UNCHANGED <<countdown, source, buzzer, intent>> /\ RelayUntouched
     \/ /\ ~Running(m) /\ ~Pending(m)
        /\ ~(settings.manualAutoStop /\ tank[m] = Full)
        /\ rejected' = [rejected EXCEPT ![m] = FALSE]
        /\ source' = [source EXCEPT ![m] = IF @ = "NONE" THEN "MANUAL" ELSE @]
        /\ Begin(m)

(* Fault: the intent outlives the run it belongs to. *)
TurnOffFault(M) ==
  /\ rejected' = [m \in Motors |-> rejected[m] /\ m \notin M]
  /\ source' = [m \in Motors |-> IF m \in M THEN "NONE" ELSE source[m]]
  /\ EndCountdown(M) /\ StopMotorBuzzer /\ RelayOff({m \in M : Running(m)})
  /\ UNCHANGED <<intent, recovered>>

(* turnOffXMotor, of one motor or of both in a row: the intent is cleared   *)
(* by the relay's OFF, hence only when the motor was running.               *)
TurnOff(M) ==
  LET ran == {m \in M : Running(m)} IN
  /\ rejected' = [m \in Motors |-> rejected[m] /\ m \notin M]
  /\ source' = [m \in Motors |-> IF m \in M THEN "NONE" ELSE source[m]]
  /\ EndCountdown(M)
  /\ StopMotorBuzzer
  /\ RelayOff(ran)
  /\ intent' = [m \in Motors |-> intent[m] /\ m \notin ran]
  /\ UNCHANGED recovered

(* Fault: a scheduled start leaves the pending start behind. *)
StartScheduledFault(m) ==
  /\ ~Running(m)
  /\ source' = [source EXCEPT ![m] = "SCHEDULED"]
  /\ RelayOn({m})
  /\ intent' = [intent EXCEPT ![m] = TRUE]
  /\ UNCHANGED <<countdown, restoring, buzzer, rejected, recovered>>

(* startScheduledXMotor: supersedes a pending start; no effect on a run *)
StartScheduled(m) ==
  /\ UNCHANGED <<rejected, recovered>>
  /\ \/ /\ Running(m)
        /\ UNCHANGED <<countdown, source, restoring, buzzer, intent>>
        /\ RelayUntouched
     \/ /\ ~Running(m)
        /\ EndCountdown({m})
        /\ StopMotorBuzzer
        /\ source' = [source EXCEPT ![m] = "SCHEDULED"]
        /\ RelayOn({m})
        /\ intent' = [intent EXCEPT ![m] = TRUE]

-------------------------------------------------------------------------------
(* autoControlOHMotor / autoControlUGMotor *)

(* Fault: a scheduled run is immune to the maximum runtime too. *)
TimeIsUpFault(m) == Running(m) /\ runtime[m] >= MaxRun /\ source[m] # "SCHEDULED"

TimeIsUp(m) == Running(m) /\ runtime[m] >= MaxRun
SignalLost(m) == Running(m) /\ loraAge >= LoraTimeout

(* Fault: a FULL tank waits for the minimum run (fixed in 2.6.1). *)
FullStopFault(m) ==
  Running(m) /\ tank[m] = Full /\ MayAutoStop(m) /\ (m = OH => runtime[m] >= MinRun)

FullStop(m) == Running(m) /\ tank[m] = Full /\ MayAutoStop(m)

(* The early returns of the two handlers, in their order. *)
OHVerdict ==
  IF uptime < BootGrace \/ settings.ohDisplayOnly THEN "rest"
  ELSE IF TimeIsUp(OH) THEN "stop"
  ELSE IF SignalLost(OH) THEN "loraLost"
  ELSE IF FullStop(OH) THEN "stop"
  ELSE IF Running(OH) /\ runtime[OH] < MinRun THEN "rest"
  ELSE IF source[OH] = "SCHEDULED" THEN "rest"
  ELSE IF Running(OH) /\ tank[OH] >= settings.stopLevel /\ MayAutoStop(OH) THEN "stop"
  ELSE IF Running(OH) /\ tank[OH] = Unknown THEN "rest"
  ELSE IF Pending(OH) /\ source[OH] = "AUTO" /\ tank[OH] > settings.startLevel THEN "cancel"
  ELSE IF /\ tank[OH] # Unknown /\ tank[OH] <= settings.startLevel
          /\ ~Running(OH) /\ ~Pending(OH) /\ UGReady THEN "start"
  ELSE "rest"

UGVerdict ==
  IF uptime < BootGrace \/ settings.ugDisplayOnly THEN "rest"
  ELSE IF TimeIsUp(UG) THEN "stop"
  ELSE IF SignalLost(UG) THEN "loraLost"
  ELSE IF source[UG] = "SCHEDULED" THEN "rest"
  ELSE IF FullStop(UG) THEN "full"
  ELSE IF Running(UG) /\ tank[UG] = Unknown THEN "rest"
  ELSE IF Pending(UG) /\ source[UG] = "AUTO" /\ tank[UG] # Low THEN "cancel"
  ELSE IF tank[UG] = Low /\ ~Running(UG) /\ ~Pending(UG) THEN "start"
  ELSE "rest"

(* Relay off and source released.  The loss-of-signal stop sets the intent  *)
(* again; the underground FULL stop leaves the buzzer alone.                *)
AutoStop(m, verdict) ==
  /\ EndCountdown({m})
  /\ IF verdict = "full" THEN UNCHANGED buzzer ELSE StopMotorBuzzer
  /\ RelayOff({m})
  /\ intent' = [intent EXCEPT ![m] = (verdict = "loraLost")]
  /\ source' = [source EXCEPT ![m] = "NONE"]

(* Fault: a cancelled start keeps its source. *)
AutoCancelFault(m) ==
  /\ EndCountdown({m})
  /\ StopMotorBuzzer
  /\ UNCHANGED <<source, intent>>
  /\ RelayUntouched

AutoCancel(m) ==
  /\ EndCountdown({m})
  /\ StopMotorBuzzer
  /\ source' = [source EXCEPT ![m] = "NONE"]
  /\ UNCHANGED intent
  /\ RelayUntouched

AutoControl(m, verdict) ==
  /\ UNCHANGED <<rejected, recovered>>
  /\ \/ verdict = "rest" /\ UNCHANGED motorVars
     \/ verdict \in {"stop", "full", "loraLost"} /\ AutoStop(m, verdict)
     \/ verdict = "cancel" /\ AutoCancel(m)
     \/ /\ verdict = "start"
        /\ source' = [source EXCEPT ![m] = "AUTO"]
        /\ Begin(m)
        /\ UNCHANGED restoring

-------------------------------------------------------------------------------
(* processPendingMotorStarts: ends of the countdowns, then boot recovery *)

(* Fault: Unknown, the least level, passes for a low one. *)
StillWantedFault(m) ==
  /\ ~DisplayOnly(m)
  /\ IF m = OH THEN tank[OH] <= settings.startLevel ELSE tank[UG] <= Low

(* The check an AUTO start has to pass again when its countdown ends. *)
StillWanted(m) ==
  /\ ~DisplayOnly(m)
  /\ IF m = OH THEN tank[OH] # Unknown /\ tank[OH] <= settings.startLevel
               ELSE tank[UG] = Low

CountdownDone(m) ==
  /\ EndCountdown({m})
  /\ StopMotorBuzzer
  /\ UNCHANGED recovered
  /\ \/ /\ \/ /\ source[m] \in {"MANUAL", "SCHEDULED"}
              /\ ~(m = OH /\ source[m] = "MANUAL" /\ settings.manualAutoStop
                          /\ tank[OH] = Full)
           \/ source[m] \notin {"MANUAL", "SCHEDULED"} /\ StillWanted(m)
        /\ RelayOn({m})
        /\ intent' = [intent EXCEPT ![m] = TRUE]
        /\ UNCHANGED <<source, rejected>>
     \/ /\ m = OH /\ source[m] = "MANUAL" /\ settings.manualAutoStop
        /\ tank[OH] = Full
        /\ rejected' = [rejected EXCEPT ![m] = TRUE]
        /\ source' = [source EXCEPT ![m] = "NONE"]
        /\ UNCHANGED intent
        /\ RelayUntouched
     \/ /\ source[m] \notin {"MANUAL", "SCHEDULED"} /\ ~StillWanted(m)
        /\ source' = [source EXCEPT ![m] = "NONE"]
        /\ UNCHANGED <<rejected, intent>>
        /\ RelayUntouched

ProcessPending(m) ==
  \/ countdown[m] < StartDelay /\ UNCHANGED motorVars
  \/ countdown[m] >= StartDelay /\ CountdownDone(m)

BelowStop(m) == IF m = OH THEN tank[OH] < settings.stopLevel ELSE tank[UG] # Full

(* The motors boot recovery resumes, and those whose intent it clears: the  *)
(* "else if (intent)" branch also catches a motor that is already running.  *)
ToResume == {m \in Motors : /\ intent[m] /\ ~Running(m) /\ BelowStop(m)
                            /\ ~DisplayOnly(m) /\ (m = OH => UGReady)}
StaleIntent == {m \in Motors : intent[m] /\ (Running(m) \/ ~BelowStop(m))}

RecoveryDue == ~recovered /\ uptime > BootGrace /\ \A m \in Motors : tank[m] # Unknown

(* Fault: recovery resumes at once, whatever the buzzer delay setting. *)
BootRecoveryFault ==
  /\ recovered' = TRUE
  /\ source' = [m \in Motors |-> IF m \in ToResume THEN "AUTO" ELSE source[m]]
  /\ intent' = [m \in Motors |-> intent[m] /\ m \notin StaleIntent]
  /\ RelayOn(ToResume)
  /\ UNCHANGED <<countdown, restoring, buzzer, rejected>>

BootRecovery ==
  /\ recovered' = TRUE
  /\ UNCHANGED rejected
  /\ source' = [m \in Motors |-> IF m \in ToResume THEN "AUTO" ELSE source[m]]
  /\ intent' = [m \in Motors |-> intent[m] /\ m \notin StaleIntent]
  /\ \/ /\ settings.buzzerDelay
        /\ countdown' = [m \in Motors |-> IF m \in ToResume THEN 0 ELSE countdown[m]]
        /\ buzzer' = IF ToResume # {} THEN 0 ELSE buzzer
        /\ RelayUntouched
     \/ /\ ~settings.buzzerDelay
        /\ RelayOn(ToResume)
        /\ UNCHANGED <<countdown, buzzer>>
  /\ restoring' = [m \in Motors |-> IF m \in ToResume THEN Pending(m)' ELSE restoring[m]]

-------------------------------------------------------------------------------
(* The handlers of loop(), in its order *)

Then(now, next) == step = now /\ step' = next

(* pollLoRa, as seen from here: a packet sets the level and the time of the *)
(* last reception (an unknown packet type sets Unknown); silence past the   *)
(* limit marks the level Unknown if the radio is up to notice.              *)
PollLora ==
  /\ Then("lora", "float")
  /\ \/ UNCHANGED sensorVars
     \/ \E s \in OHReadings :
          tank' = [tank EXCEPT ![OH] = s] /\ loraAge' = 0
     \/ /\ loraAge >= LoraTimeout
        /\ tank' = [tank EXCEPT ![OH] = Unknown] /\ UNCHANGED loraAge
  /\ UNCHANGED <<uptime, settings, halfSaved, motorVars>>

(* readUGFloatSwitch, after its debounce *)
ReadFloat ==
  /\ Then("float", "touchOH")
  /\ \/ UNCHANGED tank
     \/ \E s \in UGReadings : tank' = [tank EXCEPT ![UG] = s]
  /\ UNCHANGED <<loraAge, uptime, settings, halfSaved, motorVars>>

(* A press of the button: off if running or counting down, else on *)
Touch(m) ==
  \/ UNCHANGED motorVars
  \/ /\ m \in Operated
     /\ \/ (Running(m) \/ Pending(m)) /\ TurnOff({m})
        \/ ~(Running(m) \/ Pending(m)) /\ TurnOn(m)

PollTouchOH == /\ Then("touchOH", "touchUG") /\ Touch(OH)
               /\ UNCHANGED <<sensorVars, uptime, settings, halfSaved>>
PollTouchUG == /\ Then("touchUG", "autoOH") /\ Touch(UG)
               /\ UNCHANGED <<sensorVars, uptime, settings, halfSaved>>

AutoControlOH == /\ Then("autoOH", "autoUG") /\ AutoControl(OH, OHVerdict)
                 /\ UNCHANGED <<sensorVars, uptime, settings, halfSaved>>
AutoControlUG == /\ Then("autoUG", "pendingOH") /\ AutoControl(UG, UGVerdict)
                 /\ UNCHANGED <<sensorVars, uptime, settings, halfSaved>>

ProcessPendingOH == /\ Then("pendingOH", "pendingUG") /\ ProcessPending(OH)
                    /\ UNCHANGED <<sensorVars, uptime, settings, halfSaved>>
ProcessPendingUG == /\ Then("pendingUG", "recovery") /\ ProcessPending(UG)
                    /\ UNCHANGED <<sensorVars, uptime, settings, halfSaved>>

Recover ==
  /\ Then("recovery", "buzzer")
  /\ \/ RecoveryDue /\ BootRecovery
     \/ ~RecoveryDue /\ UNCHANGED motorVars
  /\ UNCHANGED <<sensorVars, uptime, settings, halfSaved>>

UpdateBuzzer ==
  /\ Then("buzzer", "schedules")
  /\ buzzer' = IF buzzer >= BuzzerMax THEN NotOn ELSE buzzer
  /\ UNCHANGED <<sensorVars, uptime, settings, halfSaved, countdown, runtime,
                 source, restoring, rejected, recovered, intent>>

(* The buzzer started or silenced by others than the motors: the schedule's *)
(* warning, the buzzer test, and stopBuzzer() where it is called outright.  *)
BuzzerOnly(age) ==
  /\ buzzer' = age
  /\ UNCHANGED <<countdown, runtime, source, restoring, rejected, recovered, intent>>

(* stopBuzzer() called outright, with no thought of a motor's countdown: for *)
(* the warning of a disabled schedule, and when all schedules are cleared.  *)
SilenceOutright == BuzzerOnly(NotOn)

(* checkSchedules, slot after slot, as seen from here: it starts and stops  *)
(* motors, sounds the warning and silences it; module Scheduler says when.  *)
Schedules ==
  /\ step = "schedules" /\ step' \in {"schedules", "mqtt"}
  /\ \/ UNCHANGED motorVars
     \/ \E m \in Operated : StartScheduled(m) \/ TurnOff({m})
     \/ BuzzerOnly(0)
     \/ SilenceOutright
  /\ UNCHANGED <<sensorVars, uptime, settings, halfSaved>>

(* One MQTT command a pass, then one HTTP request.                          *)
MQTTCommand ==
  /\ Then("mqtt", "web")
  /\ \/ UNCHANGED motorVars
     \/ \E m \in Operated : TurnOn(m) \/ TurnOff({m})
  /\ UNCHANGED <<sensorVars, uptime, settings, halfSaved>>

WebCommand ==
  /\ Then("web", "clock")
  /\ \/ UNCHANGED motorVars
     \/ \E m \in Operated : TurnOn(m) \/ TurnOff({m})
     \/ BuzzerOnly(0)
  /\ UNCHANGED <<sensorVars, uptime, settings, halfSaved>>

(* What the commands on the schedules do to the motors: a schedule that is  *)
(* cancelled or rewritten stops motors, a cleared one silences the buzzer.  *)
ScheduleCommand ==
  /\ \/ Then("web", "clock") /\ \E M \in SUBSET Motors : M # {} /\ TurnOff(M)
     \/ (Then("mqtt", "web") \/ Then("web", "clock")) /\ SilenceOutright
  /\ UNCHANGED <<sensorVars, uptime, settings, halfSaved>>

(* Fault: crossed levels are accepted. *)
ValidLevelsFault(s) == s

(* Stop must be above start, else both fall back to their defaults. *)
ValidLevels(s) ==
  IF s.stopLevel <= s.startLevel
  THEN [s EXCEPT !.startLevel = Empty, !.stopLevel = Full] ELSE s

(* set_setting or /setconfig: nothing but the settings and their NVS copy,  *)
(* here saved to the last key                                               *)
SetConfig ==
  /\ Then("mqtt", "web") \/ Then("web", "clock")
  /\ \E s \in Choices : settings' = ValidLevels(s)
  /\ halfSaved' = FALSE
  /\ UNCHANGED <<sensorVars, uptime, motorVars>>

Older(age, limit) == IF age # NotOn /\ age < limit THEN age + 1 ELSE age

(* The end of a pass: it took less than a tick, or a tick has passed. *)
SamePassTime ==
  Then("clock", "lora") /\ UNCHANGED <<sensorVars, uptime, settings, halfSaved, motorVars>>

Tick ==
  /\ Then("clock", "lora")
  /\ loraAge' = Older(loraAge, LoraTimeout)
  /\ uptime' = Older(uptime, BootGrace + 1)
  /\ countdown' = [m \in Motors |-> Older(countdown[m], StartDelay)]
  /\ runtime' = [m \in Motors |-> Older(runtime[m], MaxRun)]
  /\ buzzer' = Older(buzzer, BuzzerMax)
  /\ UNCHANGED <<tank, settings, halfSaved, source, restoring, rejected, recovered, intent>>

(* A reset before any handler: a power loss, a panic or a software reset.   *)
(* RAM is lost and the relays drop; NVS remains.                            *)
Restart ==
  /\ step' = "lora"
  /\ tank' = [m \in Motors |-> Unknown]
  /\ loraAge' = NotOn
  /\ uptime' = 0
  /\ countdown' = [m \in Motors |-> NotOn]
  /\ runtime' = [m \in Motors |-> NotOn]
  /\ source' = [m \in Motors |-> "NONE"]
  /\ restoring' = [m \in Motors |-> FALSE]
  /\ rejected' = [m \in Motors |-> FALSE]
  /\ buzzer' = NotOn
  /\ recovered' = FALSE

Reboot == Restart /\ UNCHANGED <<settings, halfSaved, intent>>

(* NVS when a save of "new" over "old" is cut after its first n keys: each  *)
(* is committed on its own, in the order of saveMotorConfig.                *)
Written(old, new, n) ==
  [ohDisplayOnly  |-> IF n >= 1 THEN new.ohDisplayOnly ELSE old.ohDisplayOnly,
   ugDisplayOnly  |-> IF n >= 2 THEN new.ugDisplayOnly ELSE old.ugDisplayOnly,
   ugIgnoreForOH  |-> IF n >= 3 THEN new.ugIgnoreForOH ELSE old.ugIgnoreForOH,
   buzzerDelay    |-> IF n >= 4 THEN new.buzzerDelay ELSE old.buzzerDelay,
   manualAutoStop |-> IF n >= 5 THEN new.manualAutoStop ELSE old.manualAutoStop,
   startLevel     |-> IF n >= 6 THEN new.startLevel ELSE old.startLevel,
   stopLevel      |-> IF n >= 7 THEN new.stopLevel ELSE old.stopLevel]

(* The power goes in the middle of a save; loadMotorConfig takes the mixture *)
(* of old and new keys as it is.                                            *)
CutSave ==
  /\ step \in {"mqtt", "web"}
  /\ Restart
  /\ \E s \in Choices, n \in 1 .. 6 :
       /\ settings' = Written(settings, ValidLevels(s), n)
       /\ halfSaved' = (halfSaved \/ n = 6)
  /\ UNCHANGED intent

(* What loadMotorConfig() finds in an empty NVS. *)
Defaults == [ohDisplayOnly |-> FALSE, ugDisplayOnly |-> FALSE, ugIgnoreForOH |-> FALSE,
             buzzerDelay |-> TRUE, manualAutoStop |-> TRUE,
             startLevel |-> Empty, stopLevel |-> Full]

(* /factoryreset: NVS is cleared, then a software reset. *)
FactoryReset ==
  /\ step = "web"
  /\ Restart
  /\ settings' = Defaults
  /\ halfSaved' = FALSE
  /\ intent' = [m \in Motors |-> FALSE]

-------------------------------------------------------------------------------

Init ==
  /\ step = "lora"
  /\ tank = [m \in Motors |-> Unknown]
  /\ loraAge = NotOn
  /\ uptime = 0
  /\ \E s \in Choices : settings = ValidLevels(s)
  /\ halfSaved = FALSE
  /\ countdown = [m \in Motors |-> NotOn]
  /\ runtime = [m \in Motors |-> NotOn]
  /\ source = [m \in Motors |-> "NONE"]
  /\ restoring = [m \in Motors |-> FALSE]
  /\ rejected = [m \in Motors |-> FALSE]
  /\ buzzer = NotOn
  /\ recovered = FALSE
  /\ intent = [m \in Motors |-> FALSE]

Pass ==
  \/ PollLora \/ ReadFloat \/ PollTouchOH \/ PollTouchUG
  \/ AutoControlOH \/ AutoControlUG \/ ProcessPendingOH \/ ProcessPendingUG
  \/ Recover \/ UpdateBuzzer \/ Schedules \/ MQTTCommand \/ WebCommand
  \/ ScheduleCommand \/ SetConfig \/ SamePassTime \/ Tick

Next == Pass \/ Reboot \/ CutSave \/ FactoryReset

Spec == Init /\ [][Next]_vars

(* loop() never blocks for ever, the slots are finitely many and time       *)
(* passes; nothing is assumed of the users, the sensors or the resets.      *)
FairSpec == /\ Spec
            /\ WF_vars(Pass)
            /\ WF_vars(Schedules /\ step' = "mqtt")
            /\ SF_vars(Tick)
-------------------------------------------------------------------------------
(* Safety *)

(* A motor at rest has no owner, a countdown belongs to the auto-control or *)
(* to a manual request (never to the scheduler, whose starts bypass it),    *)
(* and a restoring countdown is the auto-control's.                         *)
SourceOwnsMotor ==
  \A m \in Motors :
    /\ ~Running(m) /\ ~Pending(m) => source[m] = "NONE"
    /\ Pending(m) => source[m] \in {"AUTO", "MANUAL"}
    /\ restoring[m] => Pending(m) /\ source[m] = "AUTO"

(* A motor never comes to count down in silence: from the start of its      *)
(* countdown to the end the warning sounds, whatever the other motor's      *)
(* stop, start or cancellation, the buzzer test or the buzzer's own time    *)
(* limit do.  Only the scheduler silences it under the motor, where it      *)
(* calls stopBuzzer() outright.                                             *)
WarnedWhileCounting ==
  [][\A m \in Motors :
       Pending(m)' /\ buzzer' = NotOn
         => \/ Pending(m) /\ buzzer = NotOn
            \/ (Schedules \/ ScheduleCommand) /\ SilenceOutright]_vars

(* A countdown and a run of one motor exclude each other until boot         *)
(* recovery, which alone can energise a relay under a countdown.            *)
CountdownExcludesRun ==
  \A m \in Motors : Running(m) /\ Pending(m) => recovered /\ source[m] = "AUTO"

(* When the scheduler is reached, a FULL overhead tank has stopped every    *)
(* run the settings let it stop, however the run was started in this pass.  *)
FullStopsOverhead ==
  step = "schedules" /\ uptime >= BootGrace /\ tank[OH] = Full /\ Running(OH)
    => settings.ohDisplayOnly \/ ~MayAutoStop(OH)

(* When the scheduler is reached, no motor has run for its maximum: the      *)
(* limit holds for every source of a run and before every other rule, for   *)
(* the motors that are not display-only.                                     *)
RuntimeLimited ==
  step = "schedules" /\ uptime >= BootGrace
    => \A m \in Motors : DisplayOnly(m) \/ runtime[m] < MaxRun

(* With the buzzer delay enabled, a relay closes for the auto-control or a  *)
(* user only after a whole countdown, across restarts of the countdown by   *)
(* boot recovery and changes of the setting.                                *)
NoUnwarnedStart ==
  [][\A m \in Motors :
       ~Running(m) /\ Running(m)' /\ settings.buzzerDelay /\ source[m]' # "SCHEDULED"
         => countdown[m] = StartDelay]_vars

(* A relay closes for the auto-control only on a known level that calls for *)
(* it at that moment, and never for a display-only motor or in the grace    *)
(* period; boot recovery alone may act anywhere below the stop level.       *)
AutoStartJustified ==
  [][\A m \in Motors :
       ~Running(m) /\ Running(m)' /\ source[m]' = "AUTO"
         => /\ ~DisplayOnly(m) /\ uptime >= BootGrace /\ tank[m] # Unknown
            /\ \/ tank[m] <= (IF m = OH THEN settings.startLevel ELSE Low)
               \/ ~recovered /\ BelowStop(m) /\ (m = OH => UGReady)]_vars

(* The intent in NVS, by which a power cut is noticed and its run resumed,  *)
(* follows the relay through every operation.  They part only by a reset,   *)
(* by the stop on a lost signal (the run is wanted back, unless its time    *)
(* was up), and by boot recovery, which forgets the runs it finds on.       *)
IntentFollowsRun ==
  [][\A m \in Motors :
       (intent[m] <=> Running(m)) /\ ~(intent[m] <=> Running(m))'
         => \/ Reboot \/ CutSave
            \/ step \in {"autoOH", "autoUG"} /\ SignalLost(m) /\ ~TimeIsUp(m)
            \/ Recover /\ ~recovered /\ Running(m)']_vars

(* Liveness *)

(* Every run of a motor that is not display-only ends, whoever started it.  *)
RunsEnd ==
  \A m \in Motors : Running(m) /\ ~DisplayOnly(m) ~> ~Running(m) \/ DisplayOnly(m)

(* Every countdown ends: in a run, a cancellation or a reset.               *)
CountdownsEnd == \A m \in Motors : Pending(m) ~> ~Pending(m)
===============================================================================
