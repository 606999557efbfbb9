------------------------------ MODULE MqttProofs ------------------------------
(***************************************************************************)
(* The MQTT client keeps its types, and no command waits in the slot but in *)
(* the pass that has read it, whatever the limits, the number of commands   *)
(* under way and of updates staged.                                        *)
(***************************************************************************)
EXTENDS MqttClient, SequenceTheorems, TLAPS

(* The part of the type invariant that restarts and resets set anew.        *)
LEMMA RestartType ==
  ASSUME MqttTypeOK, NEW why \in {"power", "command", "update", "watchdog"}, Restart(why),
         staged' \in 0 .. Updates
  PROVE  MqttTypeOK'
<1>1. UplinkTypeOK'
  BY DEF Restart, UplinkReset, UplinkTypeOK
<1>2. wire' \in Seq(Commands) /\ Len(wire') <= WireMax
  BY MqttAssumption DEF Restart
<1>3. /\ failures' \in 0 .. FailLimit - 1
      /\ downAge' \in 0 .. WatchdogLimit /\ retryAge' \in 0 .. Retry
  BY MqttAssumption DEF Restart
<1>4. reach' \in SUBSET Ports
  BY DEF Restart, MqttTypeOK
<1>5. config' \in BOOLEAN /\ nvs' \in BOOLEAN
  BY DEF Restart, MqttTypeOK
<1>6. QED
  BY <1>1, <1>2, <1>3, <1>4, <1>5 DEF Restart, MqttTypeOK

LEMMA OlderType ==
  ASSUME NEW age \in Nat, NEW k \in Nat, NEW limit \in Nat
  PROVE  Older(age, k, limit) \in 0 .. limit
BY DEF Older

LEMMA SwitchPortType ==
  ASSUME MqttTypeOK, SwitchPort
  PROVE  usingFallback' \in BOOLEAN /\ failures' \in 0 .. FailLimit - 1
<1>1. failures' \in 0 .. FailLimit - 1
  BY MqttAssumption DEF SwitchPort, MqttTypeOK
<1>2. usingFallback' \in {usingFallback, ~usingFallback}
  BY DEF SwitchPort
<1>3. QED
  BY <1>1, <1>2 DEF MqttTypeOK

(* The steps of mqttLoop() that neither restart nor touch the wire.         *)
LEMMA PassType ==
  ASSUME MqttTypeOK,
         \/ Begin(0) \/ Begin(1) \/ WatchdogContent \/ CheckUplink \/ WaitToRetry
         \/ StayConnected \/ RunPlain
  PROVE  MqttTypeOK'
<1>1. ASSUME NEW k \in {0, 1}, Elapse(k)
      PROVE  downAge' \in 0 .. WatchdogLimit /\ retryAge' \in 0 .. Retry
  <2>1. WatchdogLimit \in Nat /\ Retry \in Nat /\ downAge \in Nat /\ retryAge \in Nat
    BY MqttAssumption DEF MqttTypeOK
  <2>2. QED
    BY <1>1, <2>1, OlderType DEF Elapse
<1>2. ASSUME NEW k \in {0, 1}, Begin(k) PROVE MqttTypeOK'
  BY <1>1, <1>2 DEF Begin, MqttTypeOK, UplinkTypeOK, uplinkVars, brokerVars
<1>3. CASE WatchdogContent
  <2>1. downAge' \in 0 .. WatchdogLimit
    BY <1>3, MqttAssumption DEF WatchdogContent, MqttTypeOK
  <2>2. QED
    BY <1>3, <2>1 DEF WatchdogContent, MqttTypeOK, UplinkTypeOK, uplinkVars, brokerVars
<1>4. CASE CheckUplink \/ WaitToRetry \/ StayConnected \/ RunPlain
  BY <1>4 DEF CheckUplink, WaitToRetry, StayConnected, RunPlain, MqttTypeOK, UplinkTypeOK,
              uplinkVars, brokerVars
<1>5. QED
  BY <1>2, <1>3, <1>4

LEMMA ConnectType == ASSUME MqttTypeOK, Connect PROVE MqttTypeOK'
<1>1. downAge' \in 0 .. WatchdogLimit /\ retryAge' \in 0 .. Retry
  <2>1. WatchdogLimit \in Nat /\ Retry \in Nat /\ downAge \in Nat
    BY MqttAssumption DEF MqttTypeOK
  <2>2. PICK k \in 0 .. 1 : downAge' = Older(downAge, k, WatchdogLimit)
                             /\ retryAge' = Older(0, k, Retry)
    BY DEF Connect
  <2>3. k \in Nat /\ 0 \in Nat
    OBVIOUS
  <2>4. downAge' \in 0 .. WatchdogLimit
    BY <2>1, <2>2, <2>3, OlderType
  <2>5. retryAge' \in 0 .. Retry
    BY <2>1, <2>2, <2>3, OlderType
  <2>6. QED
    BY <2>4, <2>5
<1>2. usingFallback' \in BOOLEAN /\ failures' \in 0 .. FailLimit - 1
  BY SwitchPortType, MqttAssumption DEF Connect, MqttTypeOK
<1>3. session' \in {"none", "alive"} /\ pc' = "idle"
  BY DEF Connect
<1>4. QED
  BY <1>1, <1>2, <1>3 DEF Connect, MqttTypeOK, UplinkTypeOK, uplinkVars, brokerVars

LEMMA CommandType ==
  ASSUME MqttTypeOK, Poll \/ Read \/ RunCreds \/ RunRestart \/ WatchdogFires \/ Reset
  PROVE  MqttTypeOK'
<1>1. CASE Poll
  <2>1. CASE Restart("update") /\ staged > 0 /\ staged' = staged - 1
    BY <2>1, RestartType, MqttAssumption DEF MqttTypeOK
  <2>2. QED
    BY <1>1, <2>1 DEF Poll, MqttTypeOK, UplinkTypeOK, uplinkVars, brokerVars
<1>2. CASE Read
  <2>1. wire' \in Seq(Commands) /\ Len(wire') <= WireMax
    BY <1>2, MqttAssumption DEF Read, MqttTypeOK
  <2>2. pending' \in Commands \cup {None}
    <3>1. CASE wire # <<>>
      BY <1>2, <3>1, HeadTailProperties DEF Read, MqttTypeOK
    <3>2. QED
      BY <1>2, <3>1 DEF Read, MqttTypeOK
  <2>3. QED
    BY <1>2, <2>1, <2>2 DEF Read, MqttTypeOK, UplinkTypeOK, uplinkVars
<1>3. CASE RunCreds
  <2>1. wire' \in Seq(Commands) /\ Len(wire') <= WireMax
    BY <1>3, MqttAssumption DEF RunCreds
  <2>2. nvs' \in BOOLEAN /\ config' \in BOOLEAN
    BY <1>3 DEF RunCreds
  <2>3. QED
    BY <1>3, <2>1, <2>2 DEF RunCreds, MqttTypeOK, UplinkTypeOK, uplinkVars
<1>4. CASE RunRestart \/ WatchdogFires \/ Reset
  BY <1>4, RestartType DEF RunRestart, WatchdogFires, Reset, MqttTypeOK
<1>5. QED
  BY <1>1, <1>2, <1>3, <1>4

LEMMA WorldType ==
  ASSUME MqttTypeOK,
         \/ Wifi \/ Break \/ Notice
         \/ \E c \in Commands : Send(c)
         \/ \E right \in BOOLEAN : SetBroker(right) \/ SetPass(right)
         \/ \E r \in SUBSET Ports : Answer(r)
  PROVE  MqttTypeOK'
<1>1. CASE Wifi
  <2>1. UplinkTypeOK'
    BY <1>1 DEF Wifi, StartSetup, Associate, Drop, LeaveSetup, MqttTypeOK, UplinkTypeOK
  <2>2. UNCHANGED <<clientVars, brokerVars, cause>>
    BY <1>1 DEF Wifi
  <2>3. QED
    BY <2>1, <2>2 DEF MqttTypeOK, clientVars, brokerVars
<1>2. CASE Break
  BY <1>2, MqttAssumption DEF Break, MqttTypeOK, UplinkTypeOK, uplinkVars
<1>3. CASE Notice
  BY <1>3 DEF Notice, MqttTypeOK, UplinkTypeOK, uplinkVars, brokerVars
<1>4. ASSUME NEW c \in Commands, Send(c) PROVE MqttTypeOK'
  <2>1. wire' \in Seq(Commands) /\ Len(wire') <= WireMax
    BY <1>4, MqttAssumption DEF Send, MqttTypeOK
  <2>2. QED
    BY <1>4, <2>1 DEF Send, MqttTypeOK, UplinkTypeOK, uplinkVars, clientVars
<1>5. ASSUME NEW right \in BOOLEAN, SetBroker(right) PROVE MqttTypeOK'
  <2>1. wire' \in Seq(Commands) /\ Len(wire') <= WireMax /\ failures' \in 0 .. FailLimit - 1
    BY <1>5, MqttAssumption DEF SetBroker
  <2>2. QED
    BY <1>5, <2>1 DEF SetBroker, MqttTypeOK, UplinkTypeOK, uplinkVars
<1>6. ASSUME NEW right \in BOOLEAN, SetPass(right) PROVE MqttTypeOK'
  BY <1>6 DEF SetPass, MqttTypeOK, UplinkTypeOK, uplinkVars, brokerVars
<1>7. ASSUME NEW r \in SUBSET Ports, Answer(r) PROVE MqttTypeOK'
  BY <1>7 DEF Answer, MqttTypeOK, UplinkTypeOK, uplinkVars, clientVars
<1>8. QED
  BY <1>1, <1>2, <1>3, <1>4, <1>5, <1>6, <1>7

(* The client keeps its types: in particular the count of failures stays    *)
(* below its limit (mqttConnect).                                           *)
THEOREM MqttTypeCorrect == Spec => []MqttTypeOK
<1>1. Init => MqttTypeOK
  <2> SUFFICES ASSUME Init PROVE MqttTypeOK
    OBVIOUS
  <2>1. /\ wire \in Seq(Commands) /\ Len(wire) <= WireMax /\ staged \in 0 .. Updates
        /\ failures \in 0 .. FailLimit - 1
        /\ downAge \in 0 .. WatchdogLimit /\ retryAge \in 0 .. Retry
    BY MqttAssumption DEF Init
  <2>2. QED
    BY <2>1 DEF Init, UplinkInit, UplinkTypeOK, MqttTypeOK
<1>2. MqttTypeOK /\ [Next]_vars => MqttTypeOK'
  <2> SUFFICES ASSUME MqttTypeOK, [Next]_vars PROVE MqttTypeOK'
    OBVIOUS
  <2>1. CASE UNCHANGED vars
    BY <2>1 DEF vars, uplinkVars, clientVars, brokerVars, MqttTypeOK, UplinkTypeOK
  <2>2. QED
    BY <2>1, PassType, ConnectType, CommandType, WorldType DEF Next, Loop
<1>3. QED
  BY <1>1, <1>2, PTL DEF Spec

(* The callback never finds the slot taken, and no command outlives the     *)
(* pass that read it (onMessage, processPendingMQTT).                       *)
THEOREM SlotAlwaysFree == Spec => []SlotFree
<1>1. Init => SlotFree
  BY DEF Init, SlotFree
<1>2. SlotFree /\ [Next]_vars => SlotFree'
  <2> SUFFICES ASSUME SlotFree, [Next]_vars PROVE SlotFree'
    OBVIOUS
  <2> USE DEF SlotFree
  <2>1. CASE Loop
    BY <2>1 DEF Loop, Begin, WatchdogFires, WatchdogContent, CheckUplink, Poll, WaitToRetry,
                Connect, StayConnected, Read, RunPlain, RunRestart, RunCreds, Restart
  <2>2. CASE Wifi \/ Break \/ Notice \/ Reset
    BY <2>2 DEF Wifi, Break, Notice, Reset, Restart, clientVars
  <2>3. CASE \/ \E c \in Commands : Send(c)
             \/ \E right \in BOOLEAN : SetBroker(right) \/ SetPass(right)
             \/ \E r \in SUBSET Ports : Answer(r)
    BY <2>3 DEF Send, SetBroker, SetPass, Answer, clientVars
  <2>4. CASE UNCHANGED vars
    BY <2>4 DEF vars, clientVars
  <2>5. QED
    BY <2>1, <2>2, <2>3, <2>4 DEF Next
<1>3. QED
  BY <1>1, <1>2, PTL DEF Spec

-------------------------------------------------------------------------------
(* The client over its uplink *)

LEMMA UplinkStep == ASSUME [Next]_vars PROVE [UplinkNext]_uplinkVars
<1>1. CASE Wifi
  BY <1>1 DEF Wifi, UplinkNext
<1>2. CASE Loop \/ Reset
  BY <1>2 DEF Loop, Begin, WatchdogFires, WatchdogContent, CheckUplink, Poll, WaitToRetry,
              Connect, StayConnected, Read, RunPlain, RunRestart, RunCreds, Reset, Restart,
              UplinkNext
<1>3. CASE \/ Break \/ Notice
           \/ \E c \in Commands : Send(c)
           \/ \E right \in BOOLEAN : SetBroker(right) \/ SetPass(right)
           \/ \E r \in SUBSET Ports : Answer(r)
  BY <1>3 DEF Break, Notice, Send, SetBroker, SetPass, Answer
<1>4. CASE UNCHANGED vars
  BY <1>4 DEF vars
<1>5. QED
  BY <1>1, <1>2, <1>3, <1>4 DEF Next

(* The client sees the uplink the WiFi manager implements: of what it and   *)
(* the handlers beside it do (updates, commands, the watchdog), only        *)
(* restarts reach the uplink, and they find it as after any reset.          *)
THEOREM ClientKeepsUplink == Spec => UplinkSpec
<1>1. Init => UplinkInit
  BY DEF Init
<1>2. [Next]_vars => [UplinkNext]_uplinkVars
  BY UplinkStep
<1>3. QED
  BY <1>1, <1>2, PTL DEF Spec, UplinkSpec
===============================================================================
