------------------------------ MODULE MqttClient ------------------------------
(***************************************************************************)
(* The controller's MQTT client (MQTTManager.cpp) over the uplink: the      *)
(* watchdog, the reconnection with a fallback port, the slot of one command *)
(* between the callback and the loop, the commands that restart or          *)
(* disconnect the device, and the HTTP handlers that change its             *)
(* configuration.                                                          *)
(*                                                                         *)
(* mqttLoop() is one pass: "watchdog", "uplink", "poll", "session", "read", *)
(* "run"; "idle" is the rest of loop().  The WiFi task runs on the other    *)
(* core, so the uplink may change between any two steps.  A tick is a unit  *)
(* of time; a pass with its OTA poll takes at most one, and a connection     *)
(* attempt one more.  Ages stop at the value the code compares them with.   *)
(***************************************************************************)
EXTENDS Uplink, Naturals, Sequences

CONSTANTS
  WatchdogLimit,  (* mqttWatchdogMin, in ticks                               *)
  Retry,          (* MQTT_RECONNECT_MS, in ticks                             *)
  FailLimit,      (* MQTT_PORT_FAIL_LIMIT                                    *)
  WireMax,        (* bound: commands under way to the device                 *)
  Updates         (* bound: updates staged for the HTTP poll                 *)

(* With the factory values, 4 attempts of 25 s against at least 10 min.     *)
TimeToReconnect == (FailLimit + 1) * (Retry + 1)
ASSUME MqttAssumption ==
  /\ WatchdogLimit \in Nat /\ Retry \in Nat \ {0} /\ FailLimit \in Nat \ {0}
  /\ WireMax \in Nat /\ Updates \in Nat
  /\ WatchdogLimit > TimeToReconnect

Ports == {"primary", "fallback"}
None == "none"
(* What the commands do to the client; "oversized" is one of no or of more  *)
(* than 127 bytes, and "plain" any that leaves the client alone.            *)
Commands == {"plain", "oversized", "reboot", "ota", "rightCreds", "wrongCreds"}

VARIABLES
  pc,
  session,        \* s_mqtt.connected(): "none", "alive", or "dead": broken, unnoticed
  usingFallback, failures,
  downAge,        \* since s_lastMqttSuccessMs
  retryAge,       \* since s_lastReconnectMs
  pending,        \* s_pending
  config, nvs,    \* whether broker, port and credentials are right, in RAM and in NVS
  wire, reach,    \* the broker: commands under way, the ports that answer
  staged,         \* updates staged for the HTTP poll
  cause           \* history: what caused the last restart

clientVars == <<pc, session, usingFallback, failures, downAge, retryAge, pending,
                config, nvs>>
brokerVars == <<wire, reach, staged>>
vars == <<uplinkVars, clientVars, brokerVars, cause>>

MqttTypeOK ==
  /\ UplinkTypeOK
  /\ pc \in {"idle", "watchdog", "uplink", "poll", "session", "read", "run"}
  /\ session \in {"none", "alive", "dead"}
  /\ usingFallback \in BOOLEAN /\ failures \in 0 .. FailLimit - 1
  /\ downAge \in 0 .. WatchdogLimit /\ retryAge \in 0 .. Retry
  /\ pending \in Commands \cup {None}
  /\ config \in BOOLEAN /\ nvs \in BOOLEAN
  /\ wire \in Seq(Commands) /\ Len(wire) <= WireMax
  /\ reach \in SUBSET Ports /\ staged \in 0 .. Updates
  /\ cause \in {"power", "command", "update", "watchdog"}

Connected == session # "none"
ApMode == phase = "setup"
Port == IF usingFallback THEN "fallback" ELSE "primary"
Older(age, k, limit) == IF age + k < limit THEN age + k ELSE limit

(* k ticks pass. *)
Elapse(k) ==
  /\ downAge' = Older(downAge, k, WatchdogLimit)
  /\ retryAge' = Older(retryAge, k, Retry)

(* esp_restart() and initMQTT(), which starts the watchdog's clock.         *)
Restart(why) ==
  /\ UplinkReset /\ pc' = "idle"
  /\ session' = "none" /\ usingFallback' = FALSE /\ failures' = 0
  /\ downAge' = 0 /\ retryAge' = 0
  /\ pending' = None /\ wire' = <<>>
  /\ config' = nvs /\ nvs' = nvs
  /\ cause' = why
  /\ UNCHANGED reach

-------------------------------------------------------------------------------
(* mqttLoop *)

Begin(k) ==
  /\ pc = "idle" /\ pc' = "watchdog"
  /\ Elapse(k)
  /\ UNCHANGED <<uplinkVars, session, usingFallback, failures, pending, config, nvs,
                 brokerVars, cause>>

WatchdogFiresFault ==
  /\ pc = "watchdog" /\ ~ApMode /\ up /\ ~Connected /\ downAge >= WatchdogLimit
  /\ Restart("watchdog") /\ UNCHANGED staged

(* Disconnected for too long, with or without WiFi. *)
WatchdogFires ==
  /\ pc = "watchdog" /\ ~ApMode /\ ~Connected /\ downAge >= WatchdogLimit
  /\ Restart("watchdog") /\ UNCHANGED staged

WatchdogContent ==
  /\ pc = "watchdog" /\ (ApMode \/ Connected \/ downAge < WatchdogLimit)
  /\ pc' = "uplink"
  /\ downAge' = IF ~ApMode /\ Connected THEN 0 ELSE downAge
  /\ UNCHANGED <<uplinkVars, session, usingFallback, failures, retryAge, pending,
                 config, nvs, brokerVars, cause>>

CheckUplink ==
  /\ pc = "uplink"
  /\ pc' = IF up /\ ~ApMode THEN "poll" ELSE "idle"
  /\ UNCHANGED <<uplinkVars, session, usingFallback, failures, downAge, retryAge,
                 pending, config, nvs, brokerVars, cause>>

(* otaPollHTTP: not due, nothing staged, or a failed download; or a         *)
(* successful one, and a restart into the new image.                        *)
Poll ==
  /\ pc = "poll"
  /\ \/ /\ pc' = "session"
        /\ UNCHANGED <<uplinkVars, session, usingFallback, failures, downAge, retryAge,
                       pending, config, nvs, brokerVars, cause>>
     \/ /\ staged > 0 /\ up /\ ~ApMode /\ staged' = staged - 1
        /\ Restart("update")

WaitToRetry ==
  /\ pc = "session" /\ ~Connected /\ retryAge < Retry /\ pc' = "idle"
  /\ UNCHANGED <<uplinkVars, session, usingFallback, failures, downAge, retryAge,
                 pending, config, nvs, brokerVars, cause>>

SamePortFault ==
  usingFallback' = usingFallback /\ failures' = (failures + 1) % FailLimit

KeepCountingFault ==
  /\ usingFallback' = (IF failures + 1 >= FailLimit THEN ~usingFallback ELSE usingFallback)
  /\ failures' = failures + 1

(* The other port, after FailLimit failures in a row. *)
SwitchPort ==
  IF failures + 1 >= FailLimit
  THEN usingFallback' = ~usingFallback /\ failures' = 0
  ELSE usingFallback' = usingFallback /\ failures' = failures + 1

(* mqttConnect.  s_lastReconnectMs is the time before the attempt, which    *)
(* may take a tick.                                                        *)
Connect ==
  /\ pc = "session" /\ ~Connected /\ retryAge >= Retry /\ pc' = "idle"
  /\ \E k \in 0 .. 1 :
       /\ downAge' = Older(downAge, k, WatchdogLimit)
       /\ retryAge' = Older(0, k, Retry)
  /\ IF up /\ Port \in reach /\ config
     THEN session' = "alive" /\ failures' = 0 /\ usingFallback' = usingFallback
     ELSE /\ session' = "none"
          /\ IF up THEN SwitchPort ELSE UNCHANGED <<failures, usingFallback>>
  /\ UNCHANGED <<uplinkVars, pending, config, nvs, brokerVars, cause>>

StayConnected ==
  /\ pc = "session" /\ Connected /\ pc' = "read"
  /\ UNCHANGED <<uplinkVars, session, usingFallback, failures, downAge, retryAge,
                 pending, config, nvs, brokerVars, cause>>

(* s_mqtt.loop() reads one packet at most; onMessage keeps it unless it is  *)
(* too long or the slot is taken.                                          *)
Read ==
  /\ pc = "read" /\ pc' = "run"
  /\ \/ UNCHANGED <<pending, wire>>
     \/ /\ session = "alive" /\ wire # <<>>
        /\ wire' = Tail(wire)
        /\ pending' = IF Head(wire) # "oversized" /\ pending = None
                      THEN Head(wire) ELSE pending
  /\ UNCHANGED <<uplinkVars, session, usingFallback, failures, downAge, retryAge,
                 config, nvs, reach, staged, cause>>

RunPlainFault ==
  /\ pc = "run" /\ pending \in {None, "plain", "ota"} /\ pc' = "idle"
  /\ pending' = IF session = "alive" THEN None ELSE pending
  /\ UNCHANGED <<uplinkVars, session, usingFallback, failures, downAge, retryAge,
                 config, nvs, brokerVars, cause>>

(* processPendingMQTT, for commands after which the client goes on; among   *)
(* them an update that fails.                                              *)
RunPlain ==
  /\ pc = "run" /\ pending \in {None, "plain", "ota"} /\ pc' = "idle"
  /\ pending' = None
  /\ UNCHANGED <<uplinkVars, session, usingFallback, failures, downAge, retryAge,
                 config, nvs, brokerVars, cause>>

(* reboot, and an ota_start or ota_rollback that succeeds. *)
RunRestart ==
  /\ pc = "run" /\ pending \in {"reboot", "ota"}
  /\ Restart("command") /\ UNCHANGED staged

(* set_mqtt_creds: saved, loaded, disconnected; the port stays. *)
RunCreds ==
  /\ pc = "run" /\ pending \in {"rightCreds", "wrongCreds"} /\ pc' = "idle"
  /\ nvs' = (pending = "rightCreds") /\ config' = (pending = "rightCreds")
  /\ session' = "none" /\ wire' = <<>> /\ pending' = None
  /\ UNCHANGED <<uplinkVars, usingFallback, failures, downAge, retryAge,
                 reach, staged, cause>>

(* handleSetMqttBroker with reloadMQTTConfig *)
SetBroker(right) ==
  /\ pc = "idle"
  /\ nvs' = right /\ config' = right
  /\ session' = "none" /\ wire' = <<>> /\ usingFallback' = FALSE /\ failures' = 0
  /\ UNCHANGED <<uplinkVars, pc, downAge, retryAge, pending, reach, staged, cause>>

(* handleSetMqttPass writes NVS only. *)
SetPass(right) ==
  /\ pc = "idle" /\ nvs' = right
  /\ UNCHANGED <<uplinkVars, pc, session, usingFallback, failures, downAge, retryAge,
                 pending, config, brokerVars, cause>>

(* handleReboot, or a power cut. *)
Reset == phase # "booting" /\ Restart("power") /\ UNCHANGED staged

Loop ==
  \/ Begin(0) \/ Begin(1) \/ WatchdogFires \/ WatchdogContent \/ CheckUplink \/ Poll
  \/ WaitToRetry \/ Connect \/ StayConnected
  \/ Read \/ RunPlain \/ RunRestart \/ RunCreds

-------------------------------------------------------------------------------
(* The WiFi task, the network and the broker. *)

(* The uplink of module Uplink. *)
Wifi ==
  /\ StartSetup \/ Associate \/ Drop \/ LeaveSetup
  /\ UNCHANGED <<clientVars, brokerVars, cause>>

(* The broker has subscribed the device with a clean session: what is sent  *)
(* while there is none is not kept.                                        *)
Send(c) ==
  /\ session = "alive" /\ up /\ Len(wire) < WireMax
  /\ wire' = Append(wire, c)
  /\ UNCHANGED <<uplinkVars, clientVars, reach, staged, cause>>

Break ==
  /\ session = "alive" /\ session' = "dead" /\ wire' = <<>>
  /\ UNCHANGED <<uplinkVars, pc, usingFallback, failures, downAge, retryAge, pending,
                 config, nvs, reach, staged, cause>>

(* The keep-alive of the client or of the IP stack gives a dead session up. *)
Notice ==
  /\ session = "dead" /\ session' = "none"
  /\ UNCHANGED <<uplinkVars, pc, usingFallback, failures, downAge, retryAge, pending,
                 config, nvs, brokerVars, cause>>

Answer(r) ==
  /\ reach' = r
  /\ UNCHANGED <<uplinkVars, clientVars, wire, staged, cause>>

Init ==
  /\ UplinkInit
  /\ pc = "idle" /\ session = "none" /\ usingFallback = FALSE /\ failures = 0
  /\ downAge = 0 /\ retryAge = 0 /\ pending = None
  /\ config = TRUE /\ nvs = TRUE
  /\ wire = <<>> /\ reach \in SUBSET Ports /\ staged = Updates
  /\ cause = "power"

Next ==
  \/ Loop \/ Wifi \/ Break \/ Notice \/ Reset
  \/ \E c \in Commands : Send(c)
  \/ \E right \in BOOLEAN : SetBroker(right) \/ SetPass(right)
  \/ \E r \in SUBSET Ports : Answer(r)

Spec == Init /\ [][Next]_vars

(* loop() goes on and time passes; the access point is set up, a station    *)
(* that has been associated leaves setup mode, and broken sessions are      *)
(* noticed.                                                                *)
FairSpec ==
  /\ Spec
  /\ WF_vars(Loop) /\ SF_vars(Begin(1))
  /\ WF_vars(StartSetup /\ Wifi) /\ WF_vars(Associate /\ Wifi) /\ SF_vars(LeaveSetup /\ Wifi)
  /\ WF_vars(Notice)

-------------------------------------------------------------------------------
(* Properties *)

(* The callback never finds the slot taken, so that it drops no command,    *)
(* and no command outlives the pass that read it, to be run after a         *)
(* reconnection (onMessage, and processPendingMQTT in the same pass).       *)
SlotFree == pc # "run" => pending = None

(* A device that lost its connection in station mode is connected again or  *)
(* restarted by the watchdog in the end, also when WiFi itself is gone.     *)
WatchdogActs == (phase = "station" /\ ~Connected) ~> (Connected \/ phase = "booting")

Dropped == up /\ ~up' /\ phase' # "booting"
RestartedByHand == phase # "booting" /\ phase' = "booting" /\ cause' = "power"
Reconfigured == \E right \in BOOLEAN : SetBroker(right)
Prompt == phase # "station" => downAge + TimeToReconnect < WatchdogLimit

(* The client comes back by itself: when one port answers for good, the     *)
(* configuration is right, WiFi no longer drops and is there in time after  *)
(* each reset, and users neither reset nor reconfigure it any more, then it *)
(* is connected again and again; neither the wrong port nor the watchdog    *)
(* keep it away.                                                            *)
Recovers ==
  \A p \in Ports :
    (/\ <>[](p \in reach /\ config /\ nvs /\ Prompt)
     /\ <>[][~Dropped /\ ~RestartedByHand /\ ~Reconfigured]_vars)
    => []<>Connected
===============================================================================
