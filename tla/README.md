# TankMonitor: TLA+ specifications, model checking and proofs

TankMonitor runs the two water pumps of a house. An ESP32 **controller**
(`src/controller_firmware`) switches the overhead (OH) and underground (UG)
motors; a **transmitter** at the tank (`src/transmitter_firmware`) reports the
overhead tank's float switches over LoRa; a Go **backend** (`src/web/backend`)
bridges MQTT, HTTP, WebSocket and push; a Flutter **app** (`src/MobileApp`) and a
web frontend send the commands. This directory holds TLA+ models of the parts
that decide when a motor runs, that keep the controller reachable and its clock
and history right, and that bring commands and firmware to it; what TLC checks of
them; and what the TLAPS proof system proves of them for every value of their
constants.

Contents: [inventory](#1-inventory) · [modules](#2-the-modules-and-the-code) ·
[runs](#3-the-runs) · [fairness](#4-fairness) · [proofs](#5-the-proofs) ·
[findings](#6-disagreements-between-the-code-and-its-comments) ·
[not modelled](#7-what-is-not-modelled) · [plan](#8-plan)

## 1. Inventory

### Controller firmware (one loop on core 1, a WiFi task on core 0)

| component | state | operations | what makes it correct |
|---|---|---|---|
| Motor control (`MotorControl.cpp`) | run, pending start, source and reason of each motor; intents in NVS; `bootRecoveryDone` | turn on/off by hand, scheduled start, auto-control of either motor, end of a countdown, boot recovery, power-cut recovery | ownership of runs, a warning before every unscheduled start, a stop for every run, no start without a reason |
| Scheduler (`Scheduler.cpp`) | ten slots in NVS; per slot whether it runs and whether its warning sounds | `checkSchedules` every pass, edits by MQTT and HTTP | a slot's run ends; overlapping slots share a motor; edits never orphan or inherit a run |
| Buzzer (`Buzzer.cpp`) | on or off, since when | started and stopped by motors, schedules and the buzzer test | audible while a motor counts down |
| Sensors, touch (`Sensors.cpp`, `TouchSwitch.cpp`) | debounced underground level and buttons | poll | settled readings only |
| LoRa receiver (`LoRaManager.cpp`) | `loraReady`, `retryCount`, level, time of the last packet, `transmitterLost` | ISR flag, `pollLoRa`, `initLoRa` | no level outlives its packets; a failed radio comes back |
| Event history (`History.cpp`) | ring of 8191 EEPROM records and a header | append, page, clear | the ring survives a cut between record and header |
| MQTT client (`MQTTManager.cpp`) | connection, one command slot, heartbeat sequence, OTA state | callback, `processPendingMQTT`, reconnect with port fallback, watchdog, HTTP OTA poll | no command is lost silently; the connection comes back |
| Web server (`HttpServer.cpp`) | none of its own | the HTTP counterparts of the commands | same as the above |
| WiFi manager (`WiFiManager.cpp`) | network list in NVS, command queue of 8, reconnection state machine | core-0 task; add, edit, remove, connect, scan | commands applied in order; reconnection never gives up |
| Clock, log, LCD, BLE | NTP/RTC time; text; none | library calls and drawing | (BLE is excluded from the build) |

### Transmitter firmware

One loop: read three float switches, send, then poll every second for 30 s and
send at once when a changed reading has been steady for 3 s. State: what was
sent last, the debounce, the failure count. Correct if the controller's level
converges to the tank's whatever is lost, and if waves neither cause sends nor
hold up the heartbeat.

### Backend, app and frontend

| component | state | operations | what makes it correct |
|---|---|---|---|
| MQTT bridge (`mqtt.go`) | per-device last status, connection | `publishControl` (wait 5 or 10 s, then drop), `onStatusMsg` | a command reported as failed is not executed later |
| Heartbeat monitor (`heartbeat.go`) | sequence numbers, misses | request, acknowledgement, miss detection | one miss, one alarm |
| Firmware updates (`ota.go`, `github_poller.go`) | phase per device, staged binary | trigger, acknowledgement, progress, timeout | a stale timer never fails a newer update; a download is never overwritten |
| Live status (`ws.go`, `push.go`) | hub of clients, cached status, subscriptions | register, broadcast, edge detection | a new client never ends on an older status than the broadcast one |
| Devices, accounts (`devices.go`, `auth.go`, `legacy.go`, `db.go`) | owners, sessions | claim, share, log in | one owner |
| WiFi lists, delivery issues, logs | caches | store, forward | the cache is of the right device |
| App tank service (`tank_service.dart`) | per motor: sending, acknowledged, failed; timers; pending settings; delivery log | command, status, timeouts | a late answer is not a failure; no issue is lost |
| App direct service, screens; web frontend | polled status | HTTP on the local network; layout | views of the above |

### How they interact, and what is hard about it

Inside the controller everything on core 1 is one thread: handlers of `loop()`
run in a fixed order and share globals (`ohTankState`, `ohMotorRunning`,
`ohMotorSource`, the buzzer). The hard part is not preemption but *order and
staleness*: five sources start and stop the same motor in one pass, a start is
decided 30 s before its relay closes, the shared buzzer serves two motors and
the schedules, and a reset may strike anywhere, leaving NVS and EEPROM behind.
Between the controller and the transmitter there is a channel that loses,
garbles and carries strangers' packets, and two radios that can fail. Between the
controller, the backend and the app there are QoS-1 MQTT (late and repeated
commands), timeouts that race answers, and goroutines. `PROJECT.json` lists the
hazards at their lines with the properties that cover them.

## 2. The modules and the code

| module | models | extends / uses |
|---|---|---|
| `MotorControl` | `MotorControl.cpp` driven by `loop()` of `main.cpp`, buttons, buzzer, intents, resets | |
| `MotorControlProofs` | proofs about it | `MotorControl`, TLAPS |
| `Scheduler` | `Scheduler.cpp` and the commands on schedules, **composed with** the motor controller | extends `MotorControl` |
| `ScheduleProofs` | proofs about the composition | `Scheduler`, `MotorControlProofs` |
| `TankLevel` | **abstract**: what the radio link promises of the overhead level | |
| `LoRaLink` | transmitter, air, receiver; **implements** `TankLevel` | instance of `TankLevel` |
| `LoRaProofs` | proofs about the link | `LoRaLink`, TLAPS |
| `Uplink` | **abstract**: what the WiFi manager promises the rest of the controller | |
| `WifiManager` | the WiFi task: list of networks, command queue, reconnection; **implements** `Uplink` | instance of `Uplink` |
| `WifiProofs` | proofs about it | `WifiManager`, TLAPS |
| `MqttClient` | the controller's MQTT client **over** the uplink, with broker, updates by poll and HTTP handlers | extends `Uplink` |
| `MqttProofs` | proofs about it | `MqttClient`, TLAPS |
| `EventLog` | **abstract**: a bounded log that survives power cuts | |
| `HistoryRing` | `History.cpp`: the ring in the EEPROM, its header, the bus; **implements** `EventLog` | instance of `EventLog` |
| `HistoryProofs` | proofs about it | `HistoryRing`, TLAPS |
| `Clock` | `RTCManager.cpp` and the NTP part of the WiFi task, on two cores | |
| `ClockProofs` | proofs about it | `Clock`, TLAPS |
| `CommandPath` | the app's feedback on a motor command and the backend that publishes it | |
| `CommandProofs` | proofs about it | `CommandPath`, TLAPS |
| `FirmwareUpdate` | `ota.go`, `github_poller.go` and the device that downloads, flashes and boots | |
| `MCMotorControl`, `MCScheduler`, `MCLoRaLink`, `MCWifiManager` | the sets TLC gives the constants | the module of that name |

An operator whose name ends in `Fault` is a seeded fault: a form the operator
below it could take after a plausible slip of the programmer. No specification
uses it. Substituting it makes TLC find a property violated, which shows that
the property can fail (`mutants` in `PROJECT.json`).

### MotorControl

`step` is a program counter over the handlers of `loop()` (`main.cpp:134-182`):
`lora`, `float`, `touchOH`, `touchUG`, `autoOH`, `autoUG`, `pendingOH`,
`pendingUG`, `recovery`, `buzzer`, `schedules`, `mqtt`, `web`, `clock`, then `lora`
again. `autoControlOHMotor` and the other pairs are two steps because a reset
may fall between them. Each handler is one action with all it calls.

| model | code |
|---|---|
| `countdown[m]`, `runtime[m]` | `ohMotorStartPending` with its start time; `ohMotorRunning` with its start time. Both are ages in ticks, `NotOn` = false. The relay is energised iff `runtime[m] # NotOn` |
| `source[m]`, `restoring[m]`, `rejected[m]` | `ohMotorSource`; pending reason `POWER_RESTORE`; reject code `TANK_FULL` |
| `intent`, `settings` | NVS intents, the NVS settings: what a reset leaves |
| `buzzer` | the buzzer's age; the beep pattern is left out |
| `TurnOn`, `TurnOff`, `StartScheduled` | `turnOnOHMotor`/UG, `turnOffOHMotor`/UG, `startScheduledOHMotor`/UG |
| `OHVerdict`, `UGVerdict`, `AutoControl` | the early returns of `autoControlOHMotor`/UG in their order, and what each does |
| `ProcessPending`, `CountdownDone`, `BootRecovery` | `processPendingMotorStarts` |
| `Reboot`, `FactoryReset`, `Restart` | a reset anywhere, and `setup()` |
| `CutSave`, `Written`, `halfSaved` | a cut between two keys of `saveMotorConfig` (`MotorControl.cpp:90-105`), each committed on its own; whether one fell between the two levels and no whole save has followed |
| `SilenceOutright` | the scheduler's own `stopBuzzer()` (`Scheduler.cpp:50`, 86-87), which asks nobody whether a motor counts down |

### Scheduler

`checkSchedules` visits the slots in order: `at` is the slot, `phase` whether it
is about to warn or start (`BeginSlot`) or to stop (`NextSlot`). The handlers of
`MotorControl` go on as they are (`Elsewhere`); its nondeterministic `Schedules`
and `ScheduleCommand` are replaced by the scheduler's own actions, and
`MotorSpec` states that these are among what `MotorControl` allows. The commands
are `AddSchedule`, `RemoveSchedule`, `ClearSchedules`, `UpdateAllSchedules` (the
whole form in one request) and `CancelSchedule`. The time of day is kept by the
RTC and runs on through resets. `CutTableSave` is a cut between two keys of
`saveSchedules`, before the command has stopped a motor (`TableWritten` is the table
the next boot loads); `FactoryResetAll` may be cut before the namespace of the
schedules, the last one, is cleared.

### LoRaLink and TankLevel

A tick is the transmitter's one-second poll. `due` lets the transmitter take
exactly one turn per tick and the receiver one or more; packets cross within the
turn that sends them, and at that moment may vanish or be garbled; `Interfere`
puts a stranger's or a garbled packet into the radio at any time. `floats` is the
water; it may move between any two turns. `quiet`, `steadyFor` and `lastRead` are
history for the properties. The transmitter can halt for good (radio failed in
`setup()`), be reset, and fail to send; the receiver can fail to initialise, count
errors, give up, re-initialise, lose the transmitter and find it again.
`TankLevel` has two variables, the level and its age, and four steps: hear, go
silent, age, restart. `MotorControl`'s `PollLora` takes exactly that for granted
(`SensesTankLevel`).

### WifiManager and Uplink

A pass of `wifiTask()` is three steps, `commands`, `observe` and `reconnect`,
between which the driver may associate, fail or lose the association (`Join`,
`Disconnect`, `Roam`). `Enqueue` is any caller of `addWifiNetwork` and the others
on core 1; a full queue drops the command. `networks` is the list in RAM, `nvs` its
copy; each handler (`AddNetwork`, `RemoveNetwork`, `SetPriority`) saves both.
`FactoryReset` is `handleFactoryReset` (`HttpServer.cpp:1087-1096`): it clears the copy
and holds core 1 for 500 ms until the restart (`resetting`); the task runs on, and a
command still queued may save its list again.

| model | code |
|---|---|
| `tryIdx`, `attempts`, `cooldown`, `scanning` | `smTryIdx` (from 1), `smTryAttempts`, `smInCooldown`, `smScanPending` |
| `elapsed` | whether the deadline in force (`smNextActionMs`, `smCooldownUntilMs`) has passed |
| `Observe` | the edges of the connection (`prevConnected`), which leave a pending scan alone |
| `StartScan`, `ScanComplete`, `Attempt`, `StartCooldown`, `EndCooldown`, `Idle` | the reconnection machine, in the order of its early returns |
| `tries`, `edited` | history: attempts of each network in this round; a saved network was removed or moved in it |

`Uplink` has two variables, `phase` (booting, setup, station) and `up`, and
`MqttClient` extends it: that the client may rely on it is the refinement
`UplinkSpec`, checked and proved.

### MqttClient

`pc` follows one pass of `mqttLoop()`: watchdog, uplink, update poll, session,
read, run. The uplink may change between any two of them because the WiFi task is
on the other core; the HTTP handlers are on the same core and act at `idle`.

| model | code |
|---|---|
| `session` | `s_mqtt.connected()`; `dead` is a connection that is broken and not yet noticed |
| `downAge`, `retryAge` | ages of `s_lastMqttSuccessMs`, `s_lastReconnectMs`, up to the limits they are compared with |
| `usingFallback`, `failures`, `SwitchPort` | the port and the failures in a row |
| `pending`, `Read`, `RunPlain`, `RunRestart`, `RunCreds` | the slot between the callback and `processPendingMQTT()`, and what the commands do to the client |
| `config`, `nvs` | whether broker, port and credentials are right, in RAM and in NVS |
| `wire`, `reach`, `staged` | the broker and the backend: commands under way, ports that answer, updates staged |

### HistoryRing and EventLog

A record takes two writes, `AddRecord` (the record) and `EndRecord` (the header);
`CutPower` may come between them and anywhere else, and each access of the bus may
fail, `Failures` times. Records are numbers in the order of the events. `initHistory`
is `DetectEeprom` (with `NoEeprom`, `Load`, `NoHeader`) and `Format`. `EventLog` is a
sequence of at most `Size` events that forgets the oldest when full; the mapping
reads from the EEPROM what the next boot would find (`Stored`, `Intact`), and `trust`
says what is still promised after a failure of the bus.

### Clock

`TickClock` is time; `powered` and `restored` are the two moments of a start,
`setup()` with `InitRTC` and the WiFi task with `Restore`. Core 1 re-applies the
DS3231 in two steps, `ReadRTC` and `ApplyRTC`, between which core 0 may set the
clock (`Synchronize`, `SaveEpoch`). The module may be without a DS3231
(`rtcFound`), or have one without a battery, which cuts reset to the compile time.
`CutClock` is a power cut, `RestartClock` a restart of the software, which leaves the
DS3231 its time; both lose what RAM holds (`SessionEnds`). `ClearEpoch` is the factory
reset, as above. `uncopied` is history: a restart has taken over from a DS3231 without
a battery a time that NVS does not hold yet.

### CommandPath

One motor's commands, numbered. `Tap` is `sendControl` with `_beginMotorCmd`; the
POST is `posted` until `Publish` (`handleDeviceControl`, `publishControl`), however
long the network takes and in whatever order; then it is `waiting` until the broker
confirms it or `GiveUp` drops it. `store` is paho's store, from which the client
resends after a reconnection (`Relink`). `Hear` is `_checkCmdAck` on any status at
any time, since the controller and other users are free; `AckTimedOut` and
`Clear` are the timers and the dismissal.

| model | code |
|---|---|
| `shown` | `ohCmdSending`, `ohCmdFailed`, `ohCmdRejection`, of which one at most is set |
| `ackTimers`, `clearIn`, `watch` | `_ohAckTimer`, `_ohFailTimer`, `_ohWatchUntil` |
| `since`, `waited`, `prompt`, `answered` | ages of the commands, the wait in `publishControl`, and history for the properties |

### FirmwareUpdate

One device. What a goroutine does under `otaMu` is one action; handlers that act on
the disk or on MQTT before they take the lock are two (`Write` and `Stage`, `Trigger`
and `Triggered`), so that statuses, checks and timers come between them. `timers`
are the ages of the goroutines `handleOtaTrigger` starts, of which several may
sleep. The device is offered an image by `ota_start` (`Start`) or by its own poll
(`Check`), and loads it (`Fetch`), gives up, flashes, and boots it or falls back
(`Boot`: `esp_ota_mark_app_valid_cancel_rollback` not reached). Statuses carry the
firmware and wait in `reports`; both they and `command` may be lost.

## 3. The runs

Passing runs:

| run | checks | instance |
|---|---|---|
| `motor_core` | `TypeOK`, `SourceOwnsMotor`, `WarnedWhileCounting`, `CountdownExcludesRun`, `FullStopsOverhead`, `RuntimeLimited`, `NoUnwarnedStart`, `AutoStartJustified`, `IntentFollowsRun` | the overhead motor operated by users and schedules, both by the automatic control; three overhead levels, two underground, buzzer delay and display-only toggled, start and stop level changed and crossed, saves cut; 3.1 million states |
| `sched_core` | `ScheduleTypeOK`, `MotorSpec`, `OverlapKeepsRunning`, `OrphansByEdits` | two slots, two entries of one motor whose runs overlap, a day of four minutes, saves cut; 0.8 million states |
| `sched_live` | `RunsEnd`, `CountdownsEnd`, `SlotRunsEnd` | one slot, a short and a long entry, one reading of the level; fair; 0.4 million states |
| `link_core` | `LinkTypeOK`, `HeartbeatKept`, `TankSpec`, `NoStaleLevel`, `SendsSteady`, `LevelSettles` | heartbeat of 3 ticks, debounce of 2, limit of 2 windows, 2 failures; fair; 290 thousand states |
| `wifi_core` | `WifiTypeOK`, `UplinkSpec`, `NeverStranded`, `TriesInOrder`, `Reconnects` | three networks for two places, two attempts each, four surroundings, a queue of one, factory resets; fair; 0.4 million states |
| `mqtt_core` | `MqttTypeOK`, `SlotFree`, `WatchdogActs`, `Recovers` | retry of 1 tick, port switched after 2 failures, watchdog at 7, two commands under way, one update; fair |
| `history_core` | `HistoryTypeOK`, `NewestFirst`, `LogSpec` | a ring of 4, a listing of 2, 9 events, 2 failures of the bus; 73 thousand states |
| `clock_core` | `ClockTypeOK`, `ClockResumes` | 7 ticks, a copy every 2, cuts, restarts and factory resets; 22 thousand states |
| `command_core` | `CommandTypeOK`, `FailureFinal`, `FailsUnanswered` | three commands, waits of 1 and 2, acknowledgement after 4, a latency of 1; 2.4 million states |
| `update_core` | `UpdatesEnd` | two versions, timers of 2 ticks, two statuses under way; fair; 1.1 million states |

What they show, in words:

- `SourceOwnsMotor`: a motor at rest has no owner; a countdown belongs to the
  auto-control or to a user; a restoring countdown to the auto-control. Every
  stop, cancellation and rejection must release the source.
- `TypeOK` (its part on the levels): every way to change the settings leaves the stop
  level above the start level, until a save is cut between the two keys.
- `WarnedWhileCounting`: no step brings a motor to count down in silence, whatever the
  other motor does, and the buzzer's own time limit does not cut it off. The one
  exception is exactly the scheduler's outright `stopBuzzer()` (section 6), after which
  the motor stays unheard until something sounds the buzzer again.
- `CountdownExcludesRun`: no motor both runs and counts down until boot recovery,
  which alone can energise a relay under a countdown.
- `FullStopsOverhead`: by the time a pass reaches the scheduler, a FULL tank has
  stopped every overhead run the settings allow to be stopped, however started.
- `RuntimeLimited`: and so has the maximum runtime every run, whatever its source
  and whatever the settings, on a motor that is not display-only.
- `NoUnwarnedStart`, `AutoStartJustified`: relay closings follow a whole
  countdown; automatic ones find, at that moment, a known level that calls for
  them, on a motor that is not display-only, out of the grace period.
- `IntentFollowsRun`: the intent in NVS, from which a reset is judged afterwards, is
  set and cleared with the run, whoever starts and stops the motor. Three steps may
  part them: a reset, the stop on a lost signal within the run's time, and boot
  recovery, which clears the intent of a motor that runs (section 6). A reset
  includes one in the middle of a save.
- `RunsEnd`, `CountdownsEnd`: both end under fair passes, whatever the users and
  the levels do; asking again does not prolong a countdown.
- `ScheduleTypeOK` (its part `DisabledIdle`), `OverlapKeepsRunning`, `SlotRunsEnd`:
  edits never hand a run to a new schedule; one slot's end leaves the motor to the
  others; a slot's run ends even if the slot is moved, shortened or disabled meanwhile.
- `OrphansByEdits`: a run of the schedules has a slot that will end it, until that slot
  is removed or cleared, or a form gives it the other motor; no start, overlap, stop,
  cancellation, other edit, reset or cut does. The entries of the run are of one
  motor, so that there only the first two occur; the theorem `Orphans` covers all.
- `MotorSpec`: the scheduler is a refinement of the motor controller's model.
- `TankSpec`: the receiver implements `TankLevel`. `NoStaleLevel`: after each turn
  of a working radio the level is Unknown or younger than the limit, also after
  garbled packets, a loss and a return. `SendsSteady`, `HeartbeatKept`: the two
  duties of the transmitter's wait do not disturb each other.
- `LevelSettles`: with the switches at rest and both radios working, the
  controller learns the level again and again, though any number of packets,
  including the one that reported the change, is lost.
- `UplinkSpec`: the WiFi task implements `Uplink`: setup mode ends with the first
  association and does not come back before a reset. `NeverStranded`: no command,
  however late it is executed, and no reset empties the list or removes the network in
  use; only the restart of a factory reset does.
  `TriesInOrder`: no network is attempted before those above it have had their
  attempts of the round, and none is left out, unless the list was edited under
  the round (then the code may skip one). `Reconnects`: and it never gives up.
- `SlotFree`: no command waits in the slot at the end of a pass, so the callback
  always finds it free and none is run after a reconnection (a command longer than the
  slot's buffer is discarded by the callback before it gets there). `WatchdogActs`: a device that
  lost its session in station mode is connected again or restarted, also without
  WiFi. `Recovers`: with one port that answers, right credentials and a steady WiFi,
  it reconnects by itself, and the watchdog never restarts it before it could.
- `LogSpec`, `NewestFirst`: the ring implements the log over power cuts between its
  two writes, and what is listed is newest first, also after failures of the bus,
  if no clearing was lost.
- `ClockResumes`: after a cut or a restart the clock goes on at most one save period
  behind where it was, with or without a battery and through short sessions. Excepted
  are a factory reset, which forgets the time, and a cut that finds the device with a
  time that NVS never held: a restart had taken it over from a DS3231 without a
  battery, and has started the 5 minutes to the next copy again (section 6).
- `FailureFinal`: what the app reports as not delivered is not in the client's store
  any more, so that no reconnection sends it later. It holds for requests that
  reached the backend within `Latency`; a slower one may be published afterwards.
- `FailsUnanswered`: a failure is reported a whole `_ackTimeout` after the latest
  command and only if no status since has confirmed or refused it.
- `UpdatesEnd`: an update for which a timer runs, or whose firmware the device
  already runs in place of the old one, does not stay in progress, whatever is lost.

Runs that refute a comment of the code (section 6): `link_reinit`, `update_success`.

### Bounds, and why they are enough

- *Ticks.* Time constants are small but keep the code's order: grace period
  ≥ 1, countdown < buzzer limit, minimum run ≤ maximum run; retry and port switch
  within the watchdog's limit; broker wait and latency < acknowledgement < watch
  window. Ages are counted up to the value the code compares them with and then
  stop, so no behaviour past it is lost. A pass may take no time, so many passes
  fit a tick.
- *Levels.* `motor_core` has readings Empty, Low and Full of the overhead tank, below,
  between and at the start and stop levels, Low and Full of the underground one, plus
  Unknown from silence.
- *`Operated`*, the motors users and schedules operate, is the overhead one in the
  runs. In `motor_core` the automatic control still starts and stops the underground
  motor; in `sched_core` and `sched_live` its tank has no readings, so that it never
  runs. The theorems hold for both motors operated.
- *`Choices`*, the settings that may be requested, varies what the run is about
  (buzzer delay, display-only, start and stop level, crossed levels), the rest stays
  factory. Cut saves mix them with what was saved before.
- *Schedules.* Two slots are the fewest that overlap; the day is long enough for
  both slots' minutes and a run across midnight. `sched_core` has no sensor
  readings: levels cannot stop a scheduled run, and `motor_core` covers them.
- *Link.* Empty and full are the two readings; with `Retries` 2 the counters
  reach, pass and are reset at their limit; two windows distinguish the limit
  from a single missed packet. Nothing bounds the number of losses.
- *WiFi.* Three networks for two places: a full list, a refused addition, an order
  that can change. Two attempts tell the last from the first. A queue of one lets a
  command wait while the connection changes. Removal is of one network and the
  change of priority of another, so that both meet in one round. `Surroundings`, the
  sets of networks within reach, are none, the first alone, the other two, and two of
  the three: enough for every attempt to fail, succeed and be lost in any place of
  the list.
- *MQTT.* Two failures per port let the counter be reset in the middle and at its
  limit; two commands under way are one more than the slot holds.
- *History.* `Listed + Failures` is exactly `Size`: with one failure more the listing
  would be out of order, and `LogSpec` would fail too, as the proofs say. Nine events overwrite the ring twice.
- *Clock.* Seven ticks hold three sessions with a copy in one of them; cuts, restarts
  and factory resets take none.
- *Commands.* Three commands are the fewest in which one overtakes two others and an
  old timer meets a new answer; every constant keeps the order of the code's.
- *Updates.* Two versions tell a new image from the old; the timers of all triggers
  within one another's 150 s are in `timers`, by their age.

The proofs of section 5 hold for every value of these constants, so that for the
safety properties they cover the bounds only limit what TLC found out first.

`CHECK_DEADLOCK` is off in `history_core` and `clock_core` only, where the bound on
events or on time lets the model stop; no other model ever stops.

## 4. Fairness

Users, levels, floats, interference, networks and resets are never assumed to act.

- `MotorControl!FairSpec`: weak fairness of a pass step (`loop()` has no wait
  without a time limit), of the scheduler's last slot (its loop is
  finite), and strong fairness of `Tick`: time passes although passes may be
  short.
- `FairScheduleSpec`: the same, and strong fairness of `SlotsStep`: out of the
  grace period `checkSchedules` is not skipped for ever, that is the clock has a
  time. Resets may always intervene: then the run ended with the reset.
- `LoRaLink!FairSpec`: both processors take their turns and time passes; of
  infinitely many attempts to send the current reading some are accepted and
  arrive (strong), and of infinitely many packets waiting in a working radio
  some are read before a stranger's overwrites them (strong). That is what is
  meant by "the air is not hostile for ever"; the code cannot do better.
  `RadioRetried` is refuted under the same fairness.
- `WifiManager!FairSpec`: the task runs on and its deadlines pass (weak); scans end
  (strong, for the task asks `WiFi.scanComplete()` in every pass); of infinitely
  many attempts to join a network that admits the device one succeeds (strong).
- `MqttClient!FairSpec`: `loop()` goes on, and time passes between its passes
  (strong fairness of `Begin(1)`); the access point is set up, setup mode is left
  once associated, a network is joined, and a dead session is noticed by the
  keep-alive.
- `FirmwareUpdate!FairSpec`: time passes and a goroutine whose sleep is over runs;
  a download ends one way or the other (30 s timeout); a device that is up
  reports from time to time (strong: the queue may be full for a while), and
  statuses in the queue are received. Commands need not arrive.
- `CommandPath` states no liveness, hence no fairness.

## 5. The proofs

All for every value of the constants allowed by the modules' assumptions
(`TimeAssumption`, `InputAssumption`, `ScheduleAssumption`, `LinkAssumption`,
`WifiAssumption`, `MqttAssumption`, `HistoryAssumption`, `ClockAssumption`,
`CommandAssumption`). TLC evaluates these assumptions in every run of the module.

| theorem | statement | argument |
|---|---|---|
| `TypeCorrect` | `Spec => []TypeOK` | inductive; operation by operation, then handler by handler; the levels stay uncrossed because `ValidLevels` resets a crossed pair and a save that is cut before the key of the start level, or after that of the stop level, leaves a pair that was saved whole; a cut in between sets `halfSaved` |
| `Ownership` | `[]SourceOwnsMotor` | inductive with `TypeOK` |
| `Exclusion` | `[]CountdownExcludesRun` | inductive with `TypeOK` |
| `Warning` | `Spec => WarnedWhileCounting` | with `Served`: a countdown that has come to its end is served in the pass that finds it, so that time never passes over it, and the buzzer, never older than a countdown it serves, stays below its limit (`StartDelay < BuzzerMax`) |
| `NoStartUnwarned` | `NoUnwarnedStart` | the only relay closings are those of `CountdownDone`, with the age at `StartDelay` by `TypeOK`, and those guarded by the setting |
| `FullStops` | `[]FullStopsOverhead` | strengthened to `FullStopped`, which carries the fact from `autoOH` through every handler up to `schedules`: no handler in between starts a run into a FULL tank that could be stopped; uses `SourceOwnsMotor` |
| `RuntimesLimited` | `[]RuntimeLimited` | strengthened to `Limited`, which carries the fact from the auto-control of each motor up to `schedules`: an operation leaves a run's age alone, starts a run at 0 or ends it |
| `AutoStarts` | `AutoStartJustified` | `AutoAfterGrace`: a motor is the auto-control's only out of the grace period, so that no start is left over from it; uses `SourceOwnsMotor` |
| `IntentFollows` | `IntentFollowsRun` | by the operations first: each `Begin`, relay operation and stop leaves a remembered motor remembered (`Remembered`, `BeginRemembers` to `BootRecoveryRemembers`); what is left are the three steps of `Parted` |
| `SensesTankLevel` | `Spec => Sensed!Spec` | `Sensed` is `TankLevel` over `tank[OH]` and `loraAge`: only `PollLora`, `Tick` and resets change them. `TakesAnyLevel` is the converse for a reception or a silence: `PollLora` takes whatever `TankLevel` allows, if packets may carry every level (`OHReadings`). With `LinkImplementsTank`, what is proved of the motors needs no more of the radio than it keeps |
| `ScheduleTypeCorrect` | `ScheduleSpec => []ScheduleTypeOK` | a slot is `Fit` if it has its type, runs only when enabled, and when enabled names an operated motor; every action leaves every slot fit |
| `ScheduleImplementsMotor` | `ScheduleSpec => MotorSpec` | each scheduler action is a case of `Schedules`, `ScheduleCommand` or another handler, each cut save of the table a reset; needs that enabled slots name operated motors |
| `ScheduledMotorsSafe` | types, ownership, exclusion, the stop of a FULL tank and the maximum runtime under `ScheduleSpec` | from the previous one and the motor theorems |
| `ScheduledStepsSafe` | `ScheduleSpec => WarnedWhileCounting /\ NoUnwarnedStart /\ AutoStartJustified /\ IntentFollowsRun /\ Sensed!Spec` | likewise |
| `Orphans` | `ScheduleSpec => OrphansByEdits` | a motor is `Claimed` if it runs for the schedules. No handler outside the scheduler claims one (`ElsewhereClaims`), a slot that begins is the one that will end it (`BeginOrphans`), a slot that ends leaves the motor to another or releases it (`EndOrphans`); uses `SourceOwnsMotor` and `DisabledIdle` |
| `Overlaps` | `OverlapKeepsRunning` | in the scan only `EndSlot` ends a run while another slot goes on running, and it leaves the motor when another slot shares it |
| `LinkTypeCorrect` | `Spec => []LinkTypeOK` | needs `ErrorsLeft`: a working radio has counted fewer errors than the limit |
| `Heartbeats` | `[]HeartbeatKept` | `Waiting`: the wait is as old as the last attempt to send, and a turn is due when it is over |
| `LinkImplementsTank` | `Spec => TankSpec` | refinement mapping `age <- loraAge`; step by step |
| `LevelsAreFresh` | `NoStaleLevel` | `LostMeansUnknown`: a transmitter counted as lost has left no level, hence the second silence is noticed too |
| `OnlySteadySends` | `SendsSteady` | `Debounced`: what is debounced is what was read last, and has been read for at least the debounce's age |
| `WifiTypeCorrect` | `[]WifiTypeOK` | `WifiInv`, with lemmas on `Without` and `Moved` (a permutation of the list, a list with one element less) |
| `KeepsNetworks` | `NeverStranded` | NVS and RAM hold the same list, or a factory reset has emptied the copy (`Stored`), so that any other reset loses nothing |
| `KeepsOrder` | `TriesInOrder` | `InTurn`: in a round whose list was not edited, the attempts so far are `MaxAttempts` before `tryIdx`, `attempts` at it and none after it; rounds begin with the scan (`ScansFirst`) |
| `ImplementsUplink` | `Spec => UplinkSpec` | `Alone`: no association outlives a reset, so that a boot begins with the uplink down |
| `MqttTypeCorrect`, `SlotAlwaysFree` | `[]MqttTypeOK`, `[]SlotFree` | inductive; the pass that reads a command runs it before anything else |
| `ClientKeepsUplink` | `Spec => UplinkSpec` (of `MqttClient`) | only `Wifi` and `Restart` touch the uplink, and each is a step of it; with `ImplementsUplink` the client and the WiFi task meet in one contract |
| `HistoryTypeCorrect` | `[]HistoryTypeOK` | inductive, with lemmas on the slots behind the head |
| `ListsNewestFirst` | `[]NewestFirst` | `KeptInOrder`: of the records the header counts, all but one and one more per failure are in order, because that many slots at most are written ahead of it (`Lags`); `Listed + Failures <= Size` closes it |
| `RingImplementsLog` | `Failures + 1 < Size => (HistorySpec => LogSpec)` | `LogInv`: unless a clearing was lost, the records ahead of the header are fresh and as few as the failures (`AheadBy`), so that what the next boot will read (`Stored`, `Intact`) changes only as the log may. The `CHOOSE` of the mapping is a least number that exists by `LeastNatural`, which well-foundedness of the naturals gives without an induction |
| `ClockTypeCorrect` | `[](ClockTypeOK /\ NothingAhead)` | inductive together; `NothingAhead`: nothing holds a time that has not been reached |
| `ClockAlwaysResumes` | `ClockResumes` | two invariants, for a DS3231 with a battery and for the copy in NVS, on how far each lags behind the last cut or restart; `Excused` names the two states in which NVS need not hold the time |
| `CommandTypeCorrect` | `[]CommandTypeOK` | `CommandInv`: a request never waits beyond its command's limit because no tick passes while it is due |
| `FailuresFinal` | `[]FailureFinal` | `Kept`: a prompt command in the store is at most `waited + Latency` old, hence younger than `AckTimeout` (`OffWait + Latency < AckTimeout`), and `Latest`: when a failure is shown all commands are that old |
| `FailuresUnanswered` | `FailsUnanswered` | `Timed`: the one timer that runs is the latest command's, and is as old as it |

`Failures + 1 < Size` is necessary:
TLC finds `LogSpec` violated on rings as small as the failures, where lost headers let
the head lap the records the header still counts. The code's ring has 8191 slots.

Only model-checked: the liveness properties (`RunsEnd`, `CountdownsEnd`,
`SlotRunsEnd`, `LevelSettles`, `Reconnects`, `WatchdogActs`, `Recovers`,
`UpdatesEnd`), which depend on fairness, outside the reach of the proof system; and
the refutations of section 6. `FirmwareUpdate` has no theorem: what it promises
is that updates end.

## 6. Disagreements between the code and its comments

Each of two runs checks what a comment states, and TLC finds a behaviour of the
code that does otherwise; `PROJECT.json` quotes the lines.

| run | what happens |
|---|---|
| `link_reinit` | a radio that fails at boot, or at a re-initialisation, is never tried again |
| `update_success` | a status that was in flight when the download began, or one after a download that broke, marks the update a success though nothing was flashed |

Others are visible in the models, or were met while reading the code for them; no
run is spent on them.

- Motors: the start boot recovery begins is cancelled by the auto-control of the
  next pass when the level lies between the start and the stop level; a motor
  stopped for loss of signal keeps its intent "to resume after LoRa returns", and
  only a boot resumes it, and that intent lets a later power cut log a second OFF;
  "Clear stale intent — tank already reached stop level" (`MotorControl.cpp:398`) is
  also the branch of a motor that runs before boot recovery, whose intent is cleared
  at whatever level: the next power cut neither resumes the run nor logs its end;
  "max runtime (applies to ALL sources)" does not apply to a display-only motor,
  which users can still start; crossed levels are refused ("stop must be > start",
  `HttpServer.cpp:1047`), but a cut between the two keys of a save
  (`MotorControl.cpp:98-99`) boots with crossed ones; at a level between the two the
  overhead motor is then started and stopped in turn, until the settings are saved again.
- Schedules: removing or clearing a running schedule leaves its motor on with no
  slot to end it (the maximum runtime still does); a schedule cancelled within its
  minute is started again by the next check; clearing the schedules, or disabling one
  while it warns, silences the buzzer ("in case a schedule's pre-start warning was
  sounding", `Scheduler.cpp:50`) also where it warns of a motor that counts down; a
  schedule added and cut after the first of its four keys runs every day at 00:00.
- MQTT client: the watchdog is "skipped in AP mode so a user configuring WiFi isn't
  rebooted mid-setup" (`MQTTManager.cpp:595`), but its clock counts the time in that
  mode, so that it may fire in the first pass after it; `/setmqttpass` promises to
  reconnect (`HttpServer.cpp:1276`) and writes NVS only.
- WiFi and clock: removing a network in the middle of a round makes the machine skip
  another in it; `checkAndSyncRTC` may apply a stale reading of the DS3231 over the
  time the other core has just set. A factory reset leaves the WiFi task half a second
  in which a queued command may save the networks again, and a copy the time. "After a
  power cut (dead DS3231 battery) the clock is restored to within ~5 min"
  (`WiFiManager.cpp:443`): not if the software was restarted less than 5 minutes before,
  which keeps the time of the DS3231 and starts the save timer again; without NTP,
  restarts that follow one another closely let the copy age without bound.
- App: "no ack within 5s" (`tank_service.dart:69`) is 12 s; a failure whose banner
  has cleared itself or was dismissed is not retracted from the log by a late
  status, though the watch is kept open for it (`tank_service.dart:84`); a POST may
  take 15 s, and is then published after the failure was reported;
  an issue logged while `clearDeliveryIssues` waits for the archive is lost.
- Updates: a 150 s timer of an earlier trigger fails, and deletes, a newer update;
  an update found by the device's own poll has no timer, and although an image is
  offered "if firmware is staged and version differs" (`ota.go:324`), the version the
  device sends is compared with nothing: one that it runs already can be offered and
  flashed at every poll; the poller downloads to a temporary file "so we don't corrupt
  a partially-staged file" (`github_poller.go:132`) and then copies over the staged
  one in place.
- Heartbeat: one lost round trip is counted as several misses, because `lastReqAt` is
  set anew at each (`heartbeat.go:132`).

## 7. What is not modelled

- Wording: log lines, LCD, JSON layout, beep patterns, RSSI; the status and heartbeat
  documents of the controller.
- The debounce of the underground float and of the buttons: their settled values
  are inputs of `MotorControl`.
- Jumps of the clock in the schedules (NTP corrections, daylight saving). There the
  time of day advances by ticks; the warning's exact second may be missed by the
  poll, and a slot at 00:00 has none, as in the code.
- `millis()` does not wrap in the models: differences of it are exact for 49 days,
  and the deadlines of the WiFi task, compared directly, are off for minutes then.
- The limit of silence at which `MotorControl` marks the level Unknown
  (`LORA_MAX_MISSED_PACKETS` windows) and the one at which it stops a motor
  (`LORA_MOTOR_SAFETY_TIMEOUT_MS`) are both 300 s, and one constant there.
- Two stops in one request (`turnOffOHMotor`, then UG, in `ScheduleCommand`) are one
  step: a reset between them is a request that stops one motor, then a reset.
- A `set_setting` with an unknown key, which changes nothing but levels a cut has left
  crossed: it puts those in RAM back to their defaults.
- What a record of the history says: in `HistoryRing` events are numbers.
- The mutex around the list of networks, taken by its readers only: the commands of
  the WiFi task are atomic in `WifiManager`.
- In `FirmwareUpdate` a file is replaced at once; a download that reads it while it is
  overwritten ends in `GiveUp` (the image does not verify) or gets one of the two.
- Backend: heartbeat monitor, hub and notifications, accounts and devices, caches of
  logs and WiFi lists. App: screens, direct mode, pending settings, the stored log of
  deliveries. The web frontend, the LCD, the log ring; BLE is excluded from the build.

## 8. Plan

Done: the controller (motors, schedules, link, WiFi, MQTT client, history, clock), the
command path through app and backend, firmware updates; their runs and proofs.

Next, in this order:

1. `Heartbeat`: sequence numbers on both sides, misses, the alarm.
2. `StatusHub`: register against broadcast, edge detection for notifications.
3. The app's pending settings and its delivery log across awaits; the reconnection of
   its WebSocket.
4. `Claims`: claim check and write of the device owner.
5. Proofs: type correctness of `FirmwareUpdate`.
