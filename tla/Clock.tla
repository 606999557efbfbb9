--------------------------------- MODULE Clock --------------------------------
(***************************************************************************)
(* The system clock of the controller (RTCManager.cpp, and the NTP part of  *)
(* the WiFi task in WiFiManager.cpp): the DS3231 with or without a working  *)
(* battery, NTP, and the copy of the time in NVS that stands in for both    *)
(* after a power cut.  Two cores set the clock: setup() and loop() from the *)
(* DS3231, the WiFi task from NVS and NTP.  Times are in ticks; the compile *)
(* time, the oldest of all, is 0.                                           *)
(***************************************************************************)
EXTENDS Integers

CONSTANTS
  Now,         (* bound: the last moment considered                          *)
  SavePeriod   (* 300000 ms, between two copies to NVS                       *)

ASSUME ClockAssumption == Now \in Nat \ {0} /\ SavePeriod \in Nat \ {0}

VARIABLES
  powered, restored,  \* setup() has set the clock; the WiFi task has restored it
  time,               \* the true time
  clock,              \* the system clock
  rtc, battery,       \* the DS3231, if there is one, and whether it survives cuts
  rtcFound,           \* ds3231Found
  epoch,              \* "ntp_epoch" in NVS, 0 for none
  lastSync,           \* lastNtpSyncEpoch
  saveAge,            \* since lastEpochSaveMs
  rtcRead,            \* what checkAndSyncRTC() has read and not yet applied, or -1
  resetting,          \* handleFactoryReset has cleared NVS and is to restart
  uncopied,           \* history: a restart took the time over from a DS3231 that
                      \* does not survive cuts, and no copy has been made since
  atCut               \* history: the clock at the last cut or restart, 0 if there
                      \* was none to resume

clockVars == <<powered, restored, time, clock, rtc, battery, rtcFound, epoch,
               lastSync, saveAge, rtcRead, resetting, uncopied, atCut>>

Moments == 0 .. Now
Nothing == -1

ClockTypeOK ==
  /\ powered \in BOOLEAN /\ restored \in BOOLEAN
  /\ battery \in BOOLEAN /\ rtcFound \in BOOLEAN /\ resetting \in BOOLEAN
  /\ uncopied \in BOOLEAN
  /\ time \in Moments /\ clock \in Moments /\ rtc \in Moments /\ epoch \in Moments
  /\ lastSync \in Moments /\ atCut \in Moments
  /\ saveAge \in 0 .. SavePeriod
  /\ rtcRead \in Moments \cup {Nothing}

SaveDue == restored /\ lastSync > 0 /\ saveAge >= SavePeriod

-------------------------------------------------------------------------------
(* A tick passes: the WiFi task, which looks every 100 ms, is never late by *)
(* one with its copy, nor setup() with starting that task.                 *)
TickClock ==
  /\ time < Now /\ time' = time + 1
  /\ powered => restored
  /\ IF powered
     THEN /\ ~SaveDue
          /\ clock' = clock + 1 /\ rtc' = rtc + 1
          /\ saveAge' = IF saveAge < SavePeriod THEN saveAge + 1 ELSE saveAge
     ELSE /\ rtc' = (IF battery THEN rtc + 1 ELSE rtc)
          /\ UNCHANGED <<clock, saveAge>>
  /\ UNCHANGED <<powered, restored, battery, rtcFound, epoch, lastSync, rtcRead, resetting,
                 uncopied, atCut>>

(* Whatever ends a session, RAM is lost.                                    *)
SessionEnds ==
  /\ powered /\ restored' = FALSE /\ resetting' = FALSE
  /\ lastSync' = 0 /\ saveAge' = 0 /\ rtcRead' = Nothing
  /\ UNCHANGED <<time, battery, rtcFound, epoch>>

(* The power goes.  Without a battery the DS3231 loses the time as well.    *)
CutClock ==
  /\ SessionEnds /\ powered' = FALSE
  /\ clock' = 0 /\ rtc' = (IF battery THEN rtc ELSE 0)
  /\ uncopied' = FALSE
  /\ atCut' = IF lastSync > 0 /\ ~resetting /\ ~uncopied THEN clock ELSE 0

(* What initRTC sets the clock to: the DS3231, which holds the compile time *)
(* if it lost power, or the compile time.                                   *)
InitialClock == IF rtcFound THEN rtc ELSE 0

(* A restart of the software, esp_restart() or the watchdog, and initRTC.   *)
RestartClock ==
  /\ SessionEnds
  /\ clock' = InitialClock
  /\ uncopied' = (rtcFound /\ ~battery /\ rtc > epoch)
  /\ atCut' = IF lastSync > 0 /\ ~resetting THEN clock ELSE 0
  /\ UNCHANGED <<powered, rtc>>

(* The power comes back: initRTC. *)
InitRTC ==
  /\ ~powered /\ powered' = TRUE
  /\ clock' = InitialClock
  /\ UNCHANGED <<restored, time, rtc, battery, rtcFound, epoch, lastSync, saveAge,
                 rtcRead, resetting, uncopied, atCut>>

(* Fault: the time without power is guessed. *)
RestoreFault ==
  /\ powered /\ ~restored /\ restored' = TRUE
  /\ lastSync' = epoch
  /\ clock' = IF clock < epoch THEN epoch + SavePeriod ELSE clock
  /\ UNCHANGED <<powered, time, rtc, battery, rtcFound, epoch, saveAge, rtcRead, resetting,
                 uncopied, atCut>>

(* wifiTask: the copy in NVS, if the clock is behind it. *)
Restore ==
  /\ powered /\ ~restored /\ restored' = TRUE
  /\ lastSync' = epoch
  /\ IF clock < epoch
     THEN clock' = epoch /\ rtc' = IF rtcFound THEN epoch ELSE rtc
     ELSE UNCHANGED <<clock, rtc>>
  /\ UNCHANGED <<powered, time, battery, rtcFound, epoch, saveAge, rtcRead, resetting,
                 uncopied, atCut>>

(* doSynchronizeTime, at the first connection, hourly, or on command; it    *)
(* may also fail, and change nothing.                                      *)
Synchronize ==
  /\ restored
  /\ clock' = time /\ lastSync' = time /\ epoch' = time
  /\ rtc' = IF rtcFound THEN time ELSE rtc
  /\ uncopied' = FALSE
  /\ UNCHANGED <<powered, restored, time, battery, rtcFound, saveAge, rtcRead, resetting, atCut>>

(* Fault: a copy is due only while the clock is within a period of NTP. *)
SaveEpochFault ==
  /\ SaveDue /\ saveAge' = 0
  /\ epoch' = IF clock > lastSync /\ clock <= lastSync + SavePeriod THEN clock ELSE epoch
  /\ uncopied' = (uncopied /\ epoch' # clock)
  /\ UNCHANGED <<powered, restored, time, clock, rtc, battery, rtcFound, lastSync,
                 rtcRead, resetting, atCut>>

(* The periodic copy, unless the clock is behind the last synchronisation.  *)
SaveEpoch ==
  /\ SaveDue /\ saveAge' = 0
  /\ epoch' = IF clock > lastSync THEN clock ELSE epoch
  /\ uncopied' = (uncopied /\ epoch' # clock)
  /\ UNCHANGED <<powered, restored, time, clock, rtc, battery, rtcFound, lastSync,
                 rtcRead, resetting, atCut>>

(* handleFactoryReset clears the copy with the rest of the WiFi settings and *)
(* holds the main loop until it restarts, 500 ms later; the WiFi task goes   *)
(* on, and may make another copy.                                            *)
ClearEpoch ==
  /\ powered /\ ~resetting /\ rtcRead = Nothing
  /\ resetting' = TRUE /\ epoch' = 0 /\ atCut' = 0
  /\ UNCHANGED <<powered, restored, time, clock, rtc, battery, rtcFound, lastSync, saveAge,
                 rtcRead, uncopied>>

(* checkAndSyncRTC, on the other core: it asks whether NTP has synchronised *)
(* and reads the DS3231, and then sets the clock.                           *)
ReadRTC ==
  /\ powered /\ ~resetting /\ rtcFound /\ lastSync = 0 /\ rtcRead = Nothing
  /\ rtcRead' = rtc
  /\ UNCHANGED <<powered, restored, time, clock, rtc, battery, rtcFound, epoch, lastSync,
                 saveAge, resetting, uncopied, atCut>>

ApplyRTC ==
  /\ rtcRead # Nothing
  /\ clock' = rtcRead /\ rtcRead' = Nothing
  /\ UNCHANGED <<powered, restored, time, rtc, battery, rtcFound, epoch, lastSync,
                 saveAge, resetting, uncopied, atCut>>

ClockInit ==
  /\ powered = FALSE /\ restored = FALSE
  /\ battery \in BOOLEAN /\ rtcFound \in BOOLEAN
  /\ time = 1 /\ clock = 0 /\ epoch = 0 /\ lastSync = 0 /\ saveAge = 0
  /\ rtc \in {0, time}
  /\ rtcRead = Nothing /\ resetting = FALSE /\ uncopied = FALSE /\ atCut = 0

ClockRuns == Restore \/ Synchronize \/ SaveEpoch \/ ClearEpoch \/ ReadRTC \/ ApplyRTC

ClockNext == TickClock \/ CutClock \/ RestartClock \/ InitRTC \/ ClockRuns
ClockSpec == ClockInit /\ [][ClockNext]_clockVars
-------------------------------------------------------------------------------
(* Properties *)

(* "the clock is restored to within ~5 min of when power was lost": once    *)
(* NTP has synchronised, the clock resumes after a cut or a restart no      *)
(* earlier than one save period before it, whatever the battery, short      *)
(* sessions between cuts, and a clock that was behind.  A factory reset     *)
(* forgets the time, and a time that a restart took over from a DS3231      *)
(* without a battery is safe from a cut only once it has been copied.       *)
ClockResumes == [][Restore => clock' + SavePeriod >= atCut]_clockVars
===============================================================================
