------------------------------ MODULE WifiManager -----------------------------
(***************************************************************************)
(* The WiFi task of the controller (WiFiManager.cpp): the list of saved     *)
(* networks and its copy in NVS, the queue of commands from the main loop,  *)
(* and the reconnection machine, which tries the saved networks in the      *)
(* order of their priority, MaxAttempts times each, and then cools down.    *)
(*                                                                         *)
(* A pass of the task is three steps, between which the station's driver    *)
(* may change its status: "commands", "observe" (the edges of the           *)
(* connection) and "reconnect".  One timer is in force at a time; elapsed   *)
(* tells whether it has run out.                                            *)
(***************************************************************************)
EXTENDS Naturals, Sequences

CONSTANTS
  SSIDs,         (* names of networks                                        *)
  None,          (* no network                                               *)
  MaxNetworks,   (* MAX_WIFI_NETWORKS                                        *)
  MaxAttempts,   (* WIFI_MAX_ATTEMPTS_PER_NET                                *)
  QueueDepth,    (* length of cmdQueue                                       *)
  UserCommands,  (* the commands users give                                  *)
  Surroundings   (* the sets of networks that may be within reach            *)

Command == [cmd: {"add", "remove", "sync"}, ssid: SSIDs]
             \cup [cmd: {"priority"}, ssid: SSIDs, priority: Nat]

ASSUME WifiAssumption ==
  /\ None \notin SSIDs
  /\ MaxNetworks \in Nat \ {0} /\ MaxAttempts \in Nat \ {0} /\ QueueDepth \in Nat
  /\ UserCommands \subseteq Command /\ Surroundings \subseteq SUBSET SSIDs

VARIABLES
  networks, nvs,    \* networks[], by priority, and the list in NVS
  resetting,        \* handleFactoryReset has cleared NVS and is to restart
  queue,            \* cmdQueue
  pc,               \* where the task is in its pass
  prevConnected,    \* the connection as the last pass saw it
  apMode,           \* isAPMode
  station,          \* the driver: what WiFi.begin() asked for, what came of it
  air,              \* the networks that admit the device with its password
  tryIdx, attempts, \* smTryIdx (from 1) and smTryAttempts
  cooldown, scanning, elapsed,  \* smInCooldown, smScanPending, the timer
  tries, edited     \* history: attempts in this round; a saved network has
                    \* been removed or moved in it

listVars == <<networks, nvs, resetting>>
machineVars == <<tryIdx, attempts, cooldown, scanning, elapsed>>
roundVars == <<tries, edited>>
taskVars == <<listVars, queue, pc, prevConnected, apMode, machineVars, roundVars>>
vars == <<taskVars, station, air>>

Saved(list) == {list[i] : i \in DOMAIN list}
Connected == station.state = "connected"
NotAssociated == [state |-> "idle", ssid |-> None]
NoTries == [n \in SSIDs |-> 0]
Distinct(list) == \A i, j \in DOMAIN list : list[i] = list[j] => i = j

WifiTypeOK ==
  /\ networks \in Seq(SSIDs) /\ Len(networks) <= MaxNetworks /\ Distinct(networks)
  /\ nvs \in Seq(SSIDs) /\ resetting \in BOOLEAN
  /\ queue \in Seq(UserCommands) /\ Len(queue) <= QueueDepth
  /\ pc \in {"boot", "commands", "observe", "online", "reconnect"}
  /\ prevConnected \in BOOLEAN /\ apMode \in BOOLEAN
  /\ station \in [state: {"idle", "joining", "connected"}, ssid: SSIDs \cup {None}]
  /\ air \in Surroundings
  /\ tryIdx \in 1 .. MaxNetworks + 1 /\ attempts \in 0 .. MaxAttempts
  /\ cooldown \in BOOLEAN /\ scanning \in BOOLEAN /\ elapsed \in BOOLEAN
  /\ tries \in [SSIDs -> 0 .. MaxAttempts] /\ edited \in BOOLEAN

-------------------------------------------------------------------------------
(* The list of networks. *)

Position(list, n) == CHOOSE i \in DOMAIN list : list[i] = n

Without(list, i) == SubSeq(list, 1, i - 1) \o SubSeq(list, i + 1, Len(list))

(* constrain(newPriority - 1, 0, networkCount - 1), from 1 *)
Target(list, priority) ==
  IF priority < 1 THEN 1 ELSE IF priority > Len(list) THEN Len(list) ELSE priority

Moved(list, n, to) ==
  LET rest == Without(list, Position(list, n))
  IN  SubSeq(rest, 1, to - 1) \o <<n>> \o SubSeq(rest, to, Len(rest))

Save(list) == networks' = list /\ nvs' = list /\ UNCHANGED resetting

-------------------------------------------------------------------------------
(* The reconnection machine begins a round. *)

StartRound ==
  /\ tryIdx' = 1 /\ attempts' = 0 /\ cooldown' = FALSE
  /\ tries' = NoTries /\ edited' = FALSE

(* handleAddNetwork.  The password is part of what air stands for: it may   *)
(* change when a saved network is added again, and saved with the list.     *)
AddNetwork(n) ==
  \/ /\ n \in Saved(networks)
     /\ Save(networks)
     /\ UNCHANGED <<machineVars, roundVars>>
  \/ /\ n \notin Saved(networks) /\ Len(networks) >= MaxNetworks
     /\ UNCHANGED <<listVars, machineVars, roundVars>>
  \/ /\ n \notin Saved(networks) /\ Len(networks) < MaxNetworks
     /\ Save(Append(networks, n))
     /\ IF Connected
        THEN UNCHANGED <<machineVars, roundVars>>
        ELSE StartRound /\ elapsed' = FALSE /\ UNCHANGED scanning

RemoveNetworkFault(n) ==
  /\ n \in Saved(networks)
  /\ Save(Without(networks, Position(networks, n)))
  /\ edited' = TRUE
  /\ UNCHANGED <<machineVars, tries>>

(* handleRemoveNetwork: refuses the network in use and the last one. *)
RemoveNetwork(n) ==
  \/ /\ \/ n \notin Saved(networks)
        \/ Connected /\ station.ssid = n
        \/ Len(networks) <= 1
     /\ UNCHANGED <<listVars, machineVars, roundVars>>
  \/ /\ n \in Saved(networks) /\ Len(networks) > 1
     /\ ~(Connected /\ station.ssid = n)
     /\ Save(Without(networks, Position(networks, n)))
     /\ edited' = TRUE
     /\ UNCHANGED <<machineVars, tries>>

(* handleSetPriority *)
SetPriority(n, priority) ==
  \/ /\ n \notin Saved(networks)
     /\ UNCHANGED <<listVars, machineVars, roundVars>>
  \/ /\ n \in Saved(networks)
     /\ LET to == Target(networks, priority) IN
        IF Position(networks, n) = to
        THEN UNCHANGED <<listVars, machineVars, roundVars>>
        ELSE /\ Save(Moved(networks, n, to))
             /\ edited' = TRUE
             /\ UNCHANGED <<machineVars, tries>>

Execute(c) ==
  CASE c.cmd = "add" -> AddNetwork(c.ssid)
    [] c.cmd = "remove" -> RemoveNetwork(c.ssid)
    [] c.cmd = "priority" -> SetPriority(c.ssid, c.priority)
    [] c.cmd = "sync" -> UNCHANGED <<listVars, machineVars, roundVars>>

-------------------------------------------------------------------------------
(* The task. *)

(* The access point is set up, and after 5 s the loop begins. *)
SetUpAP ==
  /\ pc = "boot" /\ pc' = "commands"
  /\ apMode' = TRUE /\ prevConnected' = FALSE
  /\ StartRound /\ elapsed' = TRUE
  /\ UNCHANGED <<listVars, queue, scanning, station, air>>

RunCommand ==
  /\ pc = "commands" /\ queue # <<>>
  /\ Execute(Head(queue)) /\ queue' = Tail(queue)
  /\ UNCHANGED <<pc, prevConnected, apMode, station, air>>

CommandsDone ==
  /\ pc = "commands" /\ queue = <<>> /\ pc' = "observe"
  /\ UNCHANGED <<listVars, queue, prevConnected, apMode, machineVars, roundVars,
                 station, air>>

ObserveFault ==
  /\ pc = "observe"
  /\ pc' = IF Connected THEN "online" ELSE "reconnect"
  /\ prevConnected' = Connected
  /\ IF Connected # prevConnected
     THEN StartRound /\ elapsed' = Connected
     ELSE UNCHANGED <<tryIdx, attempts, cooldown, elapsed, roundVars>>
  /\ apMode' = ~Connected
  /\ UNCHANGED <<listVars, queue, scanning, station, air>>

(* The edges of the connection.  A pending scan is not forgotten. *)
Observe ==
  /\ pc = "observe"
  /\ pc' = IF Connected THEN "online" ELSE "reconnect"
  /\ prevConnected' = Connected
  /\ IF Connected = prevConnected
     THEN UNCHANGED <<apMode, tryIdx, attempts, cooldown, elapsed, roundVars>>
     ELSE /\ StartRound
          /\ IF Connected
             THEN apMode' = FALSE /\ elapsed' = (elapsed \/ cooldown)
             ELSE apMode' = apMode /\ elapsed' = FALSE
  /\ UNCHANGED <<listVars, queue, scanning, station, air>>

(* Connected, or nothing to try, or the machine waits. *)
Idle ==
  /\ \/ pc = "online"
     \/ pc = "reconnect" /\ (networks = <<>> \/ ~elapsed \/ scanning)
  /\ pc' = "commands"
  /\ UNCHANGED <<listVars, queue, prevConnected, apMode, machineVars, roundVars,
                 station, air>>

Reconnecting == pc = "reconnect" /\ networks # <<>> /\ pc' = "commands"
NothingElse == UNCHANGED <<listVars, queue, prevConnected, apMode, air>>

EndCooldown ==
  /\ Reconnecting /\ cooldown /\ elapsed
  /\ StartRound /\ elapsed' = TRUE
  /\ UNCHANGED <<scanning, station>> /\ NothingElse

(* WiFi.begin() with the network in turn; an association in progress ends.  *)
Begin(i, k) ==
  LET n == networks[i] IN
  /\ station' = [state |-> "joining", ssid |-> n]
  /\ tryIdx' = i /\ attempts' = k + 1
  /\ tries' = [tries EXCEPT ![n] = IF @ < MaxAttempts THEN @ + 1 ELSE @]
  /\ elapsed' = FALSE

ScanCompleteFault ==
  /\ Reconnecting /\ ~cooldown /\ scanning
  /\ scanning' = FALSE
  /\ UNCHANGED <<tryIdx, attempts, cooldown, elapsed, roundVars, station>> /\ NothingElse

(* The scan has ended, whether or not it found a network. *)
ScanComplete ==
  /\ Reconnecting /\ ~cooldown /\ scanning
  /\ scanning' = FALSE
  /\ Begin(tryIdx, attempts)
  /\ UNCHANGED <<cooldown, edited>> /\ NothingElse

Due == Reconnecting /\ ~cooldown /\ ~scanning /\ elapsed

(* Where the machine stands once a network has had all its attempts. *)
AtLimitFault == attempts + 1 >= MaxAttempts
OverLimitFault == attempts > MaxAttempts
AtLimit == attempts >= MaxAttempts
NextIdx == IF AtLimit THEN tryIdx + 1 ELSE tryIdx
NextAttempts == IF AtLimit THEN 0 ELSE attempts

StartCooldown ==
  /\ Due /\ NextIdx > Len(networks)
  /\ cooldown' = TRUE /\ elapsed' = FALSE /\ tryIdx' = 1 /\ attempts' = NextAttempts
  /\ UNCHANGED <<scanning, station, roundVars>> /\ NothingElse

StartScan ==
  /\ Due /\ NextIdx <= Len(networks) /\ NextIdx = 1 /\ NextAttempts = 0
  /\ scanning' = TRUE
  /\ UNCHANGED <<tryIdx, attempts, cooldown, elapsed, station, roundVars>> /\ NothingElse

Attempt ==
  /\ Due /\ NextIdx <= Len(networks) /\ (NextIdx # 1 \/ NextAttempts # 0)
  /\ Begin(NextIdx, NextAttempts)
  /\ UNCHANGED <<cooldown, scanning, edited>> /\ NothingElse

Task == \/ SetUpAP \/ RunCommand \/ CommandsDone \/ Observe \/ Idle
        \/ EndCooldown \/ ScanComplete \/ StartCooldown \/ StartScan \/ Attempt

-------------------------------------------------------------------------------
(* The rest of the world. *)

(* addWifiNetwork, removeWifiNetwork, setWifiPriority, synchronizeTime; a   *)
(* command that finds the queue full is dropped.  The main loop gives none  *)
(* while handleFactoryReset holds it.                                       *)
Enqueue(c) ==
  /\ ~resetting /\ Len(queue) < QueueDepth
  /\ queue' = Append(queue, c)
  /\ UNCHANGED <<listVars, pc, prevConnected, apMode, machineVars, roundVars,
                 station, air>>

(* The timer in force runs out: smNextActionMs or smCooldownUntilMs. *)
Elapse ==
  /\ ~elapsed /\ elapsed' = TRUE
  /\ UNCHANGED <<listVars, queue, pc, prevConnected, apMode, tryIdx, attempts,
                 cooldown, scanning, roundVars, station, air>>

(* The driver associates, fails, or loses the association.                  *)
Join ==
  /\ station.state = "joining" /\ station.ssid \in air
  /\ station' = [station EXCEPT !.state = "connected"]
  /\ UNCHANGED <<taskVars, air>>

Disconnect ==
  /\ station.state # "idle" /\ station' = NotAssociated
  /\ UNCHANGED <<taskVars, air>>

(* Access points come and go; those that go take the association along.     *)
Roam(a) ==
  /\ air' = a
  /\ station' = IF Connected /\ station.ssid \notin a THEN NotAssociated ELSE station
  /\ UNCHANGED taskVars

(* handleFactoryReset: the list in NVS is cleared, and after 500 ms comes a *)
(* restart; till then the task goes on with its own list and its queue.     *)
FactoryReset ==
  /\ ~resetting /\ resetting' = TRUE
  /\ nvs' = <<>>
  /\ UNCHANGED <<networks, queue, pc, prevConnected, apMode, machineVars, roundVars,
                 station, air>>

(* Any restart: initWiFi with loadNetworks *)
Restart ==
  /\ networks' = nvs /\ nvs' = nvs /\ resetting' = FALSE
  /\ queue' = <<>> /\ pc' = "boot"
  /\ prevConnected' = FALSE /\ apMode' = FALSE /\ station' = NotAssociated
  /\ StartRound /\ scanning' = FALSE /\ elapsed' = TRUE
  /\ UNCHANGED air

Init ==
  /\ networks = <<>> /\ nvs = <<>> /\ resetting = FALSE /\ queue = <<>> /\ pc = "boot"
  /\ prevConnected = FALSE /\ apMode = FALSE /\ station = NotAssociated
  /\ air \in Surroundings
  /\ tryIdx = 1 /\ attempts = 0 /\ cooldown = FALSE /\ scanning = FALSE /\ elapsed = TRUE
  /\ tries = NoTries /\ edited = FALSE

Next ==
  \/ Task \/ Elapse \/ Join \/ Disconnect \/ FactoryReset \/ Restart
  \/ \E c \in UserCommands : Enqueue(c)
  \/ \E a \in Surroundings : Roam(a)

Spec == Init /\ [][Next]_vars

(* The task runs on, timers run out, scans end, and of infinitely many      *)
(* attempts to join a network that admits the device one succeeds.          *)
FairSpec ==
  /\ Spec
  /\ WF_vars(Task) /\ WF_vars(Elapse) /\ SF_vars(ScanComplete) /\ SF_vars(Join)

-------------------------------------------------------------------------------
(* Properties *)

(* isAPMode and the connection behave, to the rest of the controller, as    *)
(* Uplink says: setup mode ends with the first association and never comes  *)
(* back before a reset, however the association fares.                      *)
UL == INSTANCE Uplink WITH
        phase <- IF pc = "boot" THEN "booting" ELSE IF apMode THEN "setup" ELSE "station",
        up <- Connected
UplinkSpec == UL!UplinkSpec

(* Neither edits nor resets strand the device, but for the restart that a   *)
(* factory reset ends in: a list that has a network keeps one, and the      *)
(* network in use, if saved, stays saved (handleRemoveNetwork's refusals,   *)
(* and the copy in NVS, which each edit brings up to date).                 *)
NeverStranded ==
  [][\/ /\ networks # <<>> => networks' # <<>>
        /\ Connected /\ station.ssid \in Saved(networks) => station.ssid \in Saved(networks')
     \/ resetting /\ Restart]_vars

(* A network is attempted only when every saved network of higher priority  *)
(* has had its MaxAttempts attempts of this round, and the device cools     *)
(* down only when every saved one has, those added meanwhile included;      *)
(* unless a saved network was removed or moved in the round.                *)
TriesInOrder ==
  [][/\ station'.state = "joining" /\ tries' # tries =>
          edited \/ \A j \in 1 .. tryIdx' - 1 : tries[networks[j]] = MaxAttempts
     /\ ~cooldown /\ cooldown' =>
          edited \/ \A n \in Saved(networks) : tries[n] = MaxAttempts]_vars

(* Reconnection never gives up: if one saved network admits the device      *)
(* from some time on, users leave the list alone and resets end, the device *)
(* is connected again and again, through losses, cooldowns and scans.       *)
Reconnects ==
  \A n \in SSIDs :
    <>[](n \in Saved(networks) \cap air /\ queue = <<>> /\ pc # "boot") => []<>Connected
===============================================================================
