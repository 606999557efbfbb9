---------------------------- MODULE FirmwareUpdate ----------------------------
(***************************************************************************)
(* Firmware updates of one controller: the backend that stages an image and *)
(* tracks the phase of the update (ota.go, github_poller.go), and the       *)
(* device that is told of it by MQTT or asks for it over HTTP               *)
(* (MQTTManager.cpp).                                                      *)
(*                                                                         *)
(* The backend's handlers, timers and MQTT callback are goroutines: an      *)
(* action is what one of them does under otaMu, and the handlers that write *)
(* the image or publish before they take the lock are two actions.  A tick  *)
(* is a unit of the sleep of the timers.                                    *)
(***************************************************************************)
EXTENDS Naturals, Sequences

CONSTANTS
  Versions,     (* of the firmware                                            *)
  Timeout,      (* ticks after which a triggered update fails                 *)
  ReportsMax    (* bound: statuses under way to the backend                   *)

ASSUME UpdateAssumption == Timeout \in Nat \ {0} /\ ReportsMax \in Nat \ {0}

None == "none"
ASSUME NoneIsNoVersion == None \notin Versions
InProgress == {"triggered", "ack_received", "downloading"}

VARIABLES
  phase,        \* otaInfo[mac].Phase, None if the device is not tracked
  hasFirmware,  \* otaInfo[mac].HasFirmware
  prevFw,       \* otaInfo[mac].PrevFw
  file,         \* the image on the disk
  timers,       \* ages of the goroutines that fail an update
  staging,      \* the image an upload or the poller has written and not announced
  trigger,      \* a trigger has published its command and not set the phase
  cached,       \* the firmware in deviceStatus[mac]
  fw, spare,    \* the device: the running image, the other partition's
  pc,           \* the device: "run", "offered" a URL, "loading", "written"
  image,        \* the device: the image it downloads
  command,      \* MQTT: an ota_start under way
  reports,      \* MQTT: statuses under way, by their firmware
  flashed       \* history: the device has written an image since the last staging

infoVars == <<phase, hasFirmware, prevFw>>
handlerVars == <<timers, staging, trigger>>
deviceVars == <<fw, spare, pc, image>>
vars == <<infoVars, file, handlerVars, cached, deviceVars, command, reports, flashed>>

(* publishMQTTStatus: a status may be lost, and is if no more fit.          *)
Publish ==
  \/ UNCHANGED reports
  \/ Len(reports) < ReportsMax /\ reports' = Append(reports, fw)

-------------------------------------------------------------------------------
(* The backend *)

(* An upload or the poller (over)writes the file ...                        *)
Write(v) ==
  /\ staging = None /\ staging' = v
  /\ file' = v /\ flashed' = FALSE
  /\ UNCHANGED <<infoVars, timers, trigger, cached, deviceVars, command, reports>>

(* ... and replaces the record. *)
Stage ==
  /\ staging # None /\ staging' = None
  /\ phase' = "idle" /\ hasFirmware' = TRUE /\ prevFw' = None
  /\ UNCHANGED <<file, timers, trigger, cached, deviceVars, command, reports, flashed>>

(* handleOtaTrigger: publishControl, which may report an error although the *)
(* command is on its way; the handler then ends here ...                   *)
Trigger ==
  /\ ~trigger /\ phase # None /\ hasFirmware
  /\ command' = TRUE /\ trigger' \in BOOLEAN
  /\ UNCHANGED <<infoVars, file, timers, staging, cached, deviceVars, reports, flashed>>

(* ... and the new phase with its timer. *)
Triggered ==
  /\ trigger /\ trigger' = FALSE
  /\ phase' = "triggered" /\ prevFw' = cached /\ timers' = timers \cup {0}
  /\ UNCHANGED <<hasFirmware, file, staging, cached, deviceVars, command, reports, flashed>>

TimedOutFault == phase \in {"triggered", "downloading"}

(* The phases a timer fails. *)
TimedOut == phase \in InProgress

(* A timer fails whatever update is in progress when it wakes up. *)
Expire ==
  /\ Timeout \in timers /\ timers' = timers \ {Timeout}
  /\ IF TimedOut
     THEN phase' = "failed" /\ hasFirmware' = FALSE /\ file' = None
     ELSE UNCHANGED <<phase, hasFirmware, file>>
  /\ UNCHANGED <<prevFw, staging, trigger, cached, deviceVars, command, reports, flashed>>

(* otaOnStatusReceived: the phase that follows p when the device reports v. *)
Acknowledged(p) == IF p = "triggered" THEN "ack_received" ELSE p
Confirmed(p, v) ==
  IF p = "downloading" \/ (p = "ack_received" /\ v # prevFw) THEN "success" ELSE p

Receive ==
  /\ reports # <<>> /\ reports' = Tail(reports)
  /\ cached' = Head(reports)
  /\ phase' = Confirmed(Acknowledged(phase), Head(reports))
  /\ UNCHANGED <<hasFirmware, prevFw, file, handlerVars, deviceVars, command, flashed>>

(* A restarted backend knows the files only (otaLoadFromDisk). *)
BackendRestart ==
  /\ phase' = (IF file = None THEN None ELSE "idle")
  /\ hasFirmware' = (file # None) /\ prevFw' = None
  /\ timers' = {} /\ staging' = None /\ trigger' = FALSE /\ cached' = None
  /\ UNCHANGED <<file, deviceVars, command, reports, flashed>>

(* otaEnsureLoaded: an untracked file counts as staged. *)
KnownPhase == IF phase = None /\ file # None THEN "idle" ELSE phase
KnownFirmware == IF phase = None THEN file # None ELSE hasFirmware

-------------------------------------------------------------------------------
(* The device *)

(* otaPollHTTP and handleOtaCheck. *)
Check ==
  /\ pc = "run"
  /\ KnownFirmware /\ KnownPhase \notin {"success", "failed"}
  /\ pc' = "offered"
  /\ IF KnownPhase = "idle" THEN phase' = "triggered" /\ prevFw' = fw
                            ELSE phase' = KnownPhase /\ prevFw' = prevFw
  /\ hasFirmware' = KnownFirmware
  /\ UNCHANGED <<file, handlerVars, cached, fw, spare, image, command, reports, flashed>>

(* ota_start: the device acknowledges it by a status. *)
Start ==
  /\ pc = "run" /\ command /\ command' = FALSE
  /\ pc' = "offered" /\ Publish
  /\ UNCHANGED <<infoVars, file, handlerVars, cached, fw, spare, image, flashed>>

(* GET firmware.bin and handleOtaServeFirmware. *)
Fetch ==
  /\ pc = "offered"
  /\ hasFirmware' = KnownFirmware
  /\ phase' = IF KnownFirmware /\ KnownPhase \in {"triggered", "idle"}
              THEN "downloading" ELSE KnownPhase
  /\ IF KnownFirmware /\ file # None THEN pc' = "loading" /\ image' = file
                                     ELSE pc' = "run" /\ image' = image
  /\ UNCHANGED <<prevFw, file, handlerVars, cached, fw, spare, command, reports, flashed>>

(* No answer, a connection that breaks, or an image that fails to verify.   *)
GiveUp ==
  /\ pc \in {"offered", "loading"} /\ pc' = "run" /\ image' = None
  /\ UNCHANGED <<infoVars, file, handlerVars, cached, fw, spare, command, reports, flashed>>

(* Update.end succeeds; the device reports its old firmware once more ...   *)
Flash ==
  /\ pc = "loading" /\ pc' = "written"
  /\ spare' = image /\ flashed' = (flashed \/ image = file) /\ Publish
  /\ UNCHANGED <<infoVars, file, handlerVars, cached, fw, image, command>>

(* ... and restarts into the image, or back if it crashes before it is marked valid. *)
Boot ==
  /\ pc = "written" /\ pc' = "run" /\ image' = None
  /\ \/ fw' = spare /\ spare' = fw
     \/ UNCHANGED <<fw, spare>>
  /\ UNCHANGED <<infoVars, file, handlerVars, cached, command, reports, flashed>>

(* ota_rollback *)
Rollback ==
  /\ pc = "run" /\ spare # None
  /\ fw' = spare /\ spare' = fw /\ Publish
  /\ UNCHANGED <<infoVars, file, handlerVars, cached, pc, image, command, flashed>>

(* The periodic status, or one on a change. *)
Report ==
  /\ pc = "run" /\ Len(reports) < ReportsMax /\ reports' = Append(reports, fw)
  /\ UNCHANGED <<infoVars, file, handlerVars, cached, deviceVars, command, flashed>>

-------------------------------------------------------------------------------
(* What MQTT loses on the way to the device. *)
LoseCommand ==
  /\ command /\ command' = FALSE
  /\ UNCHANGED <<infoVars, file, handlerVars, cached, deviceVars, reports, flashed>>

Tick ==
  /\ Timeout \notin timers /\ timers' = {age + 1 : age \in timers}
  /\ UNCHANGED <<infoVars, file, staging, trigger, cached, deviceVars, command, reports, flashed>>

Init ==
  /\ phase = None /\ hasFirmware = FALSE /\ prevFw = None
  /\ file = None /\ timers = {} /\ staging = None /\ trigger = FALSE /\ cached = None
  /\ fw \in Versions /\ spare = None /\ pc = "run" /\ image = None
  /\ command = FALSE /\ reports = <<>> /\ flashed = FALSE

Next ==
  \/ \E v \in Versions : Write(v)
  \/ Stage \/ Trigger \/ Triggered \/ Expire \/ Receive \/ BackendRestart
  \/ Check \/ Start \/ Fetch \/ GiveUp \/ Flash \/ Boot \/ Rollback \/ Report
  \/ LoseCommand \/ Tick

Spec == Init /\ [][Next]_vars

(* Timers run, every call of the device returns, a device that is up        *)
(* reports from time to time, and statuses arrive.                         *)
FairSpec ==
  /\ Spec
  /\ WF_vars(Tick) /\ WF_vars(Expire)
  /\ WF_vars(Fetch \/ GiveUp \/ Flash \/ Boot)
  /\ SF_vars(Report) /\ WF_vars(Receive)

-------------------------------------------------------------------------------
(* Properties *)

(* No update is in progress for ever while a timer runs for it or the       *)
(* device runs another firmware than before: it succeeds, fails or gives    *)
(* way to a new one, whatever is lost and in whatever order the trigger,    *)
(* the statuses, the download and the timers of earlier updates come.       *)
UpdatesEnd == []<>~(phase \in InProgress /\ (timers # {} \/ fw # prevFw))

(* "Device re-reported after downloading - same fw version means it already *)
(* had this firmware": an update that succeeds has been written by the      *)
(* device, or the device runs it.                                           *)
SuccessMeansFlashed ==
  [][phase # "success" /\ phase' = "success" => flashed \/ fw = file]_vars
===============================================================================
