------------------------------- MODULE LoRaLink --------------------------------
(***************************************************************************)
(* The radio link of the overhead tank: the transmitter at the tank (its    *)
(* own processor, transmitter_firmware) and the receiver in the controller  *)
(* (LoRaManager.cpp), over a channel that loses and garbles packets and     *)
(* carries those of strangers.  A tick is the transmitter's polling period; *)
(* in each tick the transmitter takes one turn of its loop and the receiver *)
(* at least one.  A packet crosses the air within the turn that sends it.   *)
(***************************************************************************)
EXTENDS Integers

CONSTANTS
  Heartbeat,   (* TX_INTERVAL_MS = LORA_EXPECTED_INTERVAL_MS, in ticks       *)
  Stable,      (* DEBOUNCE_STABLE_MS, in ticks                               *)
  MaxMissed,   (* LORA_MAX_MISSED_PACKETS                                    *)
  Retries,     (* MAX_LORA_RETRIES, and the 3 failures of the transmitter    *)
  Reinit,      (* LORA_REINIT_INTERVAL_MS, in ticks                          *)
  Positions    (* the float switches' readings: sets of closed switches      *)

Limit == MaxMissed * Heartbeat

Switches == {"low", "half", "full"}
ASSUME LinkAssumption ==
  /\ Heartbeat \in Nat \ {0} /\ Stable \in Nat \ {0} /\ MaxMissed \in Nat \ {0}
  /\ Retries \in Nat \ {0} /\ Reinit \in Nat \ {0}
  /\ Positions \subseteq SUBSET Switches /\ Positions # {}

NotOn == -1
Unknown == 0
Empty == 1
Low == 2
Half == 3
Full == 4
Levels == Unknown .. Full
NoReading == {"none"}   \* lastSent 0xFF: nothing sent yet
Garbled == {"garbled"}  \* read with an error
Foreign == {"foreign"}  \* a packet of an unknown type

VARIABLES
  due,        \* who has yet to take a turn in this tick
  (* the transmitter *)
  floats,     \* the switches that are closed
  txState,    \* "sending": at the top of loop(); "asleep": in its while;
              \* "halted": the radio failed in setup()
  slept,      \* age of sleepStart
  lastSent,   \* lastSentFull, lastSentHalf, lastSentLow
  candidate,  \* the reading being debounced
  changeAge,  \* age of changeDetectedAt; NotOn: not changeDetected
  txFails,    \* txFailCount
  (* the receiver *)
  fifo,       \* the packet in the radio; NoReading: packetReceived is false
  loraReady, retryCount,
  reinitAge,  \* time since lastReinitMs
  level,      \* ohTankState
  loraAge,    \* time since lastLoraReceivedTime
  transmitterLost,
  (* history *)
  steadyFor,  \* for how long the transmitter has read what it read last
  lastRead,   \* ... and what that was
  quiet       \* for how long it has not tried to send

txVars == <<txState, slept, lastSent, candidate, changeAge, txFails,
            steadyFor, lastRead, quiet>>
rxVars == <<loraReady, retryCount, reinitAge, level, loraAge, transmitterLost>>
vars == <<due, floats, txVars, fifo, rxVars>>

LinkTypeOK ==
  /\ due \subseteq {"tx", "rx"}
  /\ floats \in Positions
  /\ txState \in {"sending", "asleep", "halted"}
  /\ slept \in 0 .. Heartbeat
  /\ lastSent \in Positions \cup {NoReading}
  /\ candidate \in Positions
  /\ changeAge \in NotOn .. Stable
  /\ txFails \in 0 .. Retries - 1
  /\ fifo \in Positions \cup {NoReading, Garbled, Foreign}
  /\ loraReady \in BOOLEAN
  /\ retryCount \in 0 .. Retries
  /\ reinitAge \in 0 .. Reinit
  /\ level \in Levels
  /\ loraAge \in NotOn .. Limit
  /\ transmitterLost \in BOOLEAN
  /\ steadyFor \in 0 .. Stable
  /\ lastRead \in Positions
  /\ quiet \in 0 .. Heartbeat + 1

Older(age, limit) == IF age # NotOn /\ age < limit THEN age + 1 ELSE age

(* What the receiver makes of the switches: the highest closed one counts.  *)
LevelOf(p) ==
  CASE "full" \in p -> Full
    [] "half" \in p /\ "full" \notin p -> Half
    [] p = {"low"} -> Low
    [] p = {} -> Empty

-------------------------------------------------------------------------------
(* The transmitter *)

Observe ==
  /\ lastRead' = floats
  /\ steadyFor' = IF floats = lastRead THEN steadyFor ELSE 0

(* Fault: the failure count is not reset after the radio is. *)
SendFailedFault == txFails' = txFails + 1

(* After the third failure the radio is set up again.                       *)
SendFailed == txFails' = IF txFails + 1 >= Retries THEN 0 ELSE txFails + 1

(* transmitState: what was sent is remembered if the radio accepted it; the *)
(* air may still lose it, or garble it.                                     *)
Transmit(p) ==
  /\ \/ txFails' = 0 /\ lastSent' = p /\ fifo' \in {fifo, p, Garbled}
     \/ SendFailed /\ UNCHANGED <<lastSent, fifo>>
  /\ slept' = 0 /\ quiet' = 0 /\ changeAge' = NotOn

(* Fault: the heartbeat is spared when the reading has been sent already. *)
BeatFault ==
  \/ lastSent # floats /\ Transmit(floats)
  \/ /\ lastSent = floats /\ slept' = 0 /\ quiet' = 0 /\ changeAge' = NotOn
     /\ UNCHANGED <<txFails, lastSent, fifo>>

Beat == Transmit(floats)

(* The top of loop(), where the wait begins. *)
SendHeartbeat ==
  /\ txState = "sending" /\ txState' = "asleep"
  /\ Observe
  /\ Beat
  /\ candidate' = floats
  /\ due' = due \ {"tx"}
  /\ UNCHANGED <<floats, rxVars>>

(* Fault: another reading does not restart the debounce. *)
DebounceFault ==
  /\ candidate' = floats
  /\ changeAge' = IF changeAge = NotOn THEN 0 ELSE changeAge
  /\ UNCHANGED slept

(* Fault: the wait for the heartbeat starts over with the debounce. *)
KeepWaitingFault ==
  /\ candidate' = floats
  /\ changeAge' = IF changeAge = NotOn \/ floats # candidate THEN 0 ELSE changeAge
  /\ slept' = 0

(* A reading not sent yet: the debounce starts, or starts over.             *)
Debounce ==
  /\ candidate' = floats
  /\ changeAge' = IF changeAge = NotOn \/ floats # candidate THEN 0 ELSE changeAge
  /\ UNCHANGED slept

(* The switches are read once in a polling period.                          *)
Poll ==
  /\ txState = "asleep" /\ "tx" \in due
  /\ Observe
  /\ \/ /\ floats = lastSent /\ changeAge' = NotOn
        /\ UNCHANGED <<slept, quiet, lastSent, txFails, fifo, candidate>>
     \/ /\ floats # lastSent
        /\ changeAge < Stable \/ floats # candidate
        /\ Debounce /\ UNCHANGED <<quiet, lastSent, txFails, fifo>>
     \/ /\ floats # lastSent /\ changeAge >= Stable /\ floats = candidate
        /\ Transmit(candidate) /\ UNCHANGED candidate
  /\ txState' = IF slept' >= Heartbeat THEN "sending" ELSE "asleep"
  /\ due' = IF txState' = "asleep" THEN due \ {"tx"} ELSE due
  /\ UNCHANGED <<floats, rxVars>>

(* A power cut or the watchdog: setup() tries the radio once, for good.     *)
ResetTransmitter ==
  /\ txState' \in {"sending", "halted"}
  /\ due' = IF txState' = "halted" THEN due \ {"tx"} ELSE due \cup {"tx"}
  /\ slept' = 0 /\ quiet' = 0 /\ changeAge' = NotOn /\ txFails' = 0
  /\ lastSent' = NoReading
  /\ candidate' = floats /\ lastRead' = floats /\ steadyFor' = 0
  /\ UNCHANGED <<floats, fifo, rxVars>>

-------------------------------------------------------------------------------
(* The receiver *)

(* initLoRa *)
InitRadio(works) ==
  /\ loraReady' = works
  /\ retryCount' = 0
  /\ fifo' = IF works THEN NoReading ELSE fifo

(* A radio that failed while receiving is set up again; a failure of that   *)
(* leaves it alone, the count being back at 0.                              *)
Retry ==
  /\ ~loraReady
  /\ \/ /\ retryCount >= Retries /\ reinitAge >= Reinit
        /\ reinitAge' = 0
        /\ \E works \in BOOLEAN : InitRadio(works)
     \/ /\ ~(retryCount >= Retries /\ reinitAge >= Reinit)
        /\ UNCHANGED <<loraReady, retryCount, reinitAge, fifo>>
  /\ UNCHANGED <<level, loraAge, transmitterLost>>

(* Fault: nine windows count as ten. *)
SilentFault == loraAge >= Limit - Heartbeat /\ ~transmitterLost /\ level # Unknown

(* Ten windows missed, and a level to lose *)
Silent == loraAge >= Limit /\ ~transmitterLost /\ level # Unknown

NothingReceived ==
  /\ fifo = NoReading
  /\ transmitterLost' = (transmitterLost \/ Silent)
  /\ level' = IF Silent THEN Unknown ELSE level
  /\ UNCHANGED <<loraReady, retryCount, loraAge>>

(* Fault: a lost transmitter stays lost. *)
ReceivedFault ==
  /\ fifo \in Positions \cup {Foreign}
  /\ level' = IF fifo = Foreign THEN Unknown ELSE LevelOf(fifo)
  /\ loraAge' = 0 /\ transmitterLost' = (transmitterLost \/ Silent) /\ retryCount' = 0
  /\ UNCHANGED loraReady

Received ==
  /\ fifo \in Positions \cup {Foreign}
  /\ level' = IF fifo = Foreign THEN Unknown ELSE LevelOf(fifo)
  /\ loraAge' = 0 /\ transmitterLost' = FALSE /\ retryCount' = 0
  /\ UNCHANGED loraReady

ReadError ==
  /\ fifo = Garbled
  /\ retryCount' = retryCount + 1
  /\ loraReady' = (retryCount + 1 < Retries)
  /\ transmitterLost' = (transmitterLost \/ Silent)
  /\ level' = IF Silent THEN Unknown ELSE level
  /\ UNCHANGED loraAge

PollLoRa ==
  /\ \/ Retry
     \/ /\ loraReady
        /\ NothingReceived \/ Received \/ ReadError
        /\ fifo' = NoReading
        /\ UNCHANGED reinitAge
  /\ due' = due \ {"rx"}
  /\ UNCHANGED <<floats, txVars>>

(* A reset of the controller; initLoRa() in setup() works or does not.      *)
ResetController ==
  /\ \E works \in BOOLEAN : loraReady' = works
  /\ fifo' = NoReading
  /\ retryCount' = 0 /\ reinitAge' = 0
  /\ level' = Unknown /\ loraAge' = NotOn /\ transmitterLost' = FALSE
  /\ UNCHANGED <<due, floats, txVars>>

-------------------------------------------------------------------------------
(* The water, the neighbours and the time *)

MoveFloats ==
  /\ floats' \in Positions
  /\ UNCHANGED <<due, txVars, fifo, rxVars>>

Interfere ==
  /\ fifo' \in {Garbled, Foreign}
  /\ UNCHANGED <<due, floats, txVars, rxVars>>

Tick ==
  /\ due = {}
  /\ due' = IF txState = "halted" THEN {"rx"} ELSE {"tx", "rx"}
  /\ slept' = Older(slept, Heartbeat)
  /\ changeAge' = Older(changeAge, Stable)
  /\ steadyFor' = Older(steadyFor, Stable)
  /\ quiet' = IF txState = "halted" THEN quiet ELSE Older(quiet, Heartbeat + 1)
  /\ reinitAge' = Older(reinitAge, Reinit)
  /\ loraAge' = Older(loraAge, Limit)
  /\ UNCHANGED <<floats, txState, lastSent, candidate, txFails, lastRead, fifo,
                 loraReady, retryCount, level, transmitterLost>>

Init ==
  /\ due = {"tx", "rx"}
  /\ floats \in Positions
  /\ txState = "sending" /\ slept = 0 /\ quiet = 0
  /\ lastSent = NoReading /\ candidate = floats /\ changeAge = NotOn /\ txFails = 0
  /\ steadyFor = 0 /\ lastRead = floats
  /\ fifo = NoReading /\ loraReady \in BOOLEAN
  /\ retryCount = 0 /\ reinitAge = 0
  /\ level = Unknown /\ loraAge = NotOn /\ transmitterLost = FALSE

Transmitter == SendHeartbeat \/ Poll

Next ==
  \/ Transmitter \/ PollLoRa \/ Tick
  \/ ResetTransmitter \/ ResetController \/ MoveFloats \/ Interfere

Spec == Init /\ [][Next]_vars

(* Both processors run and time passes.  The air is not hostile for ever:   *)
(* of the packets sent some arrive, and of those some are read.          *)
FairSpec ==
  /\ Spec
  /\ WF_vars(Transmitter) /\ WF_vars(PollLoRa) /\ SF_vars(Tick)
  /\ SF_vars(Transmitter /\ quiet' = 0 /\ lastSent' = floats /\ fifo' = floats)
  /\ SF_vars(PollLoRa /\ loraReady /\ fifo \in Positions)

-------------------------------------------------------------------------------
(* What the rest of the controller relies on: the receiver implements       *)
(* TankLevel.                                                               *)
Tank == INSTANCE TankLevel WITH age <- loraAge
TankSpec == Tank!Spec

(* A working radio never leaves a level standing that is older than the     *)
(* limit: not after garbled packets, a loss and a return, or a re-init.     *)
NoStaleLevel ==
  [][PollLoRa /\ loraReady' /\ loraReady => level' = Unknown \/ loraAge' < Limit]_vars

(* A reading is sent ahead of the heartbeat only if it has been read        *)
(* unchanged for the debounce time: waves at the switches are not.          *)
SendsSteady == [][Poll /\ quiet > 0 /\ quiet' = 0 => steadyFor' >= Stable]_vars

(* Waves at the switches never hold up the heartbeat.                       *)
HeartbeatKept == txState # "halted" => quiet <= Heartbeat

(* Liveness: with the switches at rest, the transmitter not halted and the  *)
(* radio working, the controller learns the level, whatever was lost.       *)
LevelSettles ==
  \A p \in Positions :
    <>[](floats = p /\ txState # "halted" /\ loraReady) => []<>(level = LevelOf(p))

(* What the code's comment states and the code does not keep: "Re-init      *)
(* logic if radio failed".  A radio that failed is tried again.             *)
RadioRetried == ~loraReady ~> loraReady \/ reinitAge = 0
===============================================================================
