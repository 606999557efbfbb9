------------------------------ MODULE LoRaProofs ------------------------------
(***************************************************************************)
(* Proofs about the radio link, for every heartbeat, debounce time, limit,  *)
(* number of retries and set of switch positions: type correctness, that    *)
(* the receiver implements TankLevel, and the three safety properties.      *)
(***************************************************************************)
EXTENDS LoRaLink, TLAPS

(* The limit of the silence is a positive number of ticks. *)
LEMMA LimitPositive == Limit \in Nat /\ Limit >= 1
<1>1. \A m, h \in Nat \ {0} : m * h \in Nat /\ m * h >= 1
  BY SMT
<1> QED
  BY <1>1, LinkAssumption DEF Limit

(* An age stays between NotOn and its bound, and a clock that runs stays on. *)
LEMMA OlderBound ==
  ASSUME NEW limit \in Nat, NEW low \in {NotOn, 0}, NEW age \in low .. limit
  PROVE  Older(age, limit) \in low .. limit
BY DEF Older, NotOn

(* The positions, and what the radio may hold, are distinguishable levels. *)
LEMMA LevelOfTyped ==
  ASSUME NEW p \in Positions
  PROVE  LevelOf(p) \in Levels
<1>1. p \subseteq Switches
  BY LinkAssumption
<1>2. CASE "full" \in p
  BY <1>2 DEF LevelOf, Levels, Full, Half, Low, Empty, Unknown
<1>3. CASE "half" \in p /\ "full" \notin p
  BY <1>3 DEF LevelOf, Levels, Full, Half, Low, Empty, Unknown
<1>4. CASE "half" \notin p /\ "full" \notin p
  <2>1. p = {"low"} \/ p = {}
    BY <1>1, <1>4 DEF Switches
  <2> QED
    BY <2>1, <1>4 DEF LevelOf, Levels, Full, Half, Low, Empty, Unknown
<1> QED
  BY <1>2, <1>3, <1>4

-------------------------------------------------------------------------------
(* Type correctness *)

(* No position is taken for the marks of what is not a reading. *)
LEMMA TransmitTyped ==
  ASSUME LinkTypeOK, NEW p \in Positions, Transmit(p)
  PROVE  /\ slept' = 0 /\ quiet' = 0 /\ changeAge' = NotOn
         /\ txFails' \in 0 .. Retries - 1
         /\ lastSent' \in Positions \cup {NoReading}
         /\ fifo' \in Positions \cup {NoReading, Garbled, Foreign}
BY LinkAssumption DEF LinkTypeOK, Transmit, SendFailed

LEMMA TransmitterTyped ==
  ASSUME LinkTypeOK, Transmitter
  PROVE  LinkTypeOK'
<1> USE LinkAssumption DEF NotOn
<1>1. CASE SendHeartbeat
  <2>1. Transmit(floats) /\ floats \in Positions
    BY <1>1 DEF SendHeartbeat, Beat, LinkTypeOK
  <2>2. /\ slept' = 0 /\ quiet' = 0 /\ changeAge' = NotOn
        /\ txFails' \in 0 .. Retries - 1
        /\ lastSent' \in Positions \cup {NoReading}
        /\ fifo' \in Positions \cup {NoReading, Garbled, Foreign}
    BY <2>1, TransmitTyped
  <2> QED
    BY <1>1, <2>1, <2>2 DEF SendHeartbeat, Observe, LinkTypeOK, rxVars
<1>2. CASE Poll
  <2>1. /\ slept' \in 0 .. Heartbeat /\ quiet' \in 0 .. Heartbeat + 1
        /\ changeAge' \in NotOn .. Stable
        /\ txFails' \in 0 .. Retries - 1
        /\ lastSent' \in Positions \cup {NoReading}
        /\ fifo' \in Positions \cup {NoReading, Garbled, Foreign}
        /\ candidate' \in Positions
    <3>1. CASE floats = lastSent /\ changeAge' = NotOn
               /\ UNCHANGED <<slept, quiet, lastSent, txFails, fifo, candidate>>
      BY <3>1 DEF LinkTypeOK
    <3>2. CASE Debounce /\ UNCHANGED <<quiet, lastSent, txFails, fifo>>
      BY <3>2 DEF LinkTypeOK, Debounce
    <3>3. CASE Transmit(candidate) /\ UNCHANGED candidate
      BY <3>3, TransmitTyped DEF LinkTypeOK
    <3> QED
      BY <1>2, <3>1, <3>2, <3>3 DEF Poll
  <2> QED
    BY <1>2, <2>1 DEF Poll, Observe, LinkTypeOK, rxVars
<1> QED
  BY <1>1, <1>2 DEF Transmitter

(* A radio that works has errors left before it counts as failed. *)
ErrorsLeft == loraReady => retryCount < Retries

LEMMA ReceiverTyped ==
  ASSUME LinkTypeOK, ErrorsLeft, PollLoRa
  PROVE  LinkTypeOK' /\ ErrorsLeft'
<1> USE LinkAssumption, LimitPositive DEF NotOn
<1>1. UNCHANGED <<floats, txState, slept, lastSent, candidate, changeAge, txFails,
                  steadyFor, lastRead, quiet>> /\ due' \subseteq {"tx", "rx"}
  BY DEF PollLoRa, txVars, LinkTypeOK
<1>2. /\ loraReady' \in BOOLEAN /\ retryCount' \in 0 .. Retries
      /\ loraReady' => retryCount' < Retries
      /\ reinitAge' \in 0 .. Reinit /\ level' \in Levels
      /\ loraAge' \in NotOn .. Limit /\ transmitterLost' \in BOOLEAN
      /\ fifo' \in Positions \cup {NoReading, Garbled, Foreign}
  <2>1. CASE Retry
    BY <2>1 DEF Retry, InitRadio, LinkTypeOK, ErrorsLeft
  <2>2. CASE loraReady /\ NothingReceived /\ fifo' = NoReading /\ UNCHANGED reinitAge
    BY <2>2 DEF NothingReceived, Silent, LinkTypeOK, ErrorsLeft, Levels, Unknown, Full
  <2>3. CASE loraReady /\ Received /\ fifo' = NoReading /\ UNCHANGED reinitAge
    <3>1. level' \in Levels
      BY <2>3, LevelOfTyped DEF Received, Levels, Unknown, Full
    <3>2. transmitterLost' = FALSE /\ retryCount' = 0 /\ loraAge' = 0 /\ UNCHANGED loraReady
      BY <2>3 DEF Received
    <3>3. loraAge' \in NotOn .. Limit /\ retryCount' \in 0 .. Retries /\ retryCount' < Retries
      BY <3>2
    <3>4. loraReady' \in BOOLEAN /\ transmitterLost' \in BOOLEAN
      BY <3>2, Zenon DEF LinkTypeOK
    <3>5. reinitAge' \in 0 .. Reinit /\ fifo' \in Positions \cup {NoReading, Garbled, Foreign}
      BY <2>3 DEF LinkTypeOK
    <3> QED
      BY <3>1, <3>3, <3>4, <3>5
  <2>4. CASE loraReady /\ ReadError /\ fifo' = NoReading /\ UNCHANGED reinitAge
    <3>1. retryCount' = retryCount + 1 /\ retryCount' \in 0 .. Retries
      BY <2>4 DEF ReadError, LinkTypeOK, ErrorsLeft
    <3>2. /\ loraReady' \in BOOLEAN /\ (loraReady' => retryCount' < Retries)
          /\ transmitterLost' \in BOOLEAN
      <4>1. loraReady' = (retryCount' < Retries) /\ transmitterLost' = (transmitterLost \/ Silent)
        BY <2>4, <3>1, Zenon DEF ReadError
      <4>2. (retryCount' < Retries) \in BOOLEAN
        BY <3>1
      <4> QED
        BY <4>1, <4>2, Zenon
    <3>3. level' \in Levels /\ reinitAge' \in 0 .. Reinit /\ loraAge' \in NotOn .. Limit
      BY <2>4 DEF ReadError, LinkTypeOK, Levels, Unknown, Full
    <3> QED
      BY <2>4, <3>1, <3>2, <3>3
  <2> QED
    BY <2>1, <2>2, <2>3, <2>4 DEF PollLoRa
<1> QED
  BY <1>1, <1>2 DEF LinkTypeOK, ErrorsLeft

LEMMA OthersTyped ==
  ASSUME LinkTypeOK, Tick \/ ResetTransmitter \/ ResetController \/ MoveFloats \/ Interfere
  PROVE  LinkTypeOK'
<1> USE LinkAssumption, LimitPositive
<1>1. CASE Tick
  <2>1. slept' \in 0 .. Heartbeat
    BY <1>1, OlderBound DEF Tick, LinkTypeOK
  <2>2. quiet' \in 0 .. Heartbeat + 1
    BY <1>1, OlderBound DEF Tick, LinkTypeOK
  <2>3. changeAge' \in NotOn .. Stable /\ steadyFor' \in 0 .. Stable
    BY <1>1, OlderBound DEF Tick, LinkTypeOK
  <2>4. reinitAge' \in 0 .. Reinit
    BY <1>1, OlderBound DEF Tick, LinkTypeOK
  <2>5. loraAge' \in NotOn .. Limit
    BY <1>1, OlderBound DEF Tick, LinkTypeOK
  <2> QED
    BY <1>1, <2>1, <2>2, <2>3, <2>4, <2>5 DEF Tick, LinkTypeOK
<1>2. CASE ResetTransmitter
  BY <1>2 DEF ResetTransmitter, LinkTypeOK, rxVars, NotOn
<1>3. CASE ResetController
  <2>1. loraReady' \in BOOLEAN /\ transmitterLost' \in BOOLEAN
    BY <1>3, Zenon DEF ResetController
  <2> QED
    BY <1>3, <2>1 DEF ResetController, LinkTypeOK, txVars, NotOn, Levels, Unknown, Full
<1>4. CASE MoveFloats
  BY <1>4 DEF MoveFloats, LinkTypeOK, txVars, rxVars
<1>5. CASE Interfere
  BY <1>5 DEF Interfere, LinkTypeOK, txVars, rxVars
<1> QED
  BY <1>1, <1>2, <1>3, <1>4, <1>5

LEMMA OthersErrors ==
  ASSUME ErrorsLeft, LinkTypeOK,
         Transmitter \/ Tick \/ ResetTransmitter \/ ResetController \/ MoveFloats \/ Interfere
  PROVE  ErrorsLeft'
<1>1. CASE ResetController
  BY <1>1, LinkAssumption DEF ResetController, ErrorsLeft
<1>2. CASE Transmitter \/ Tick \/ ResetTransmitter \/ MoveFloats \/ Interfere
  <2>1. loraReady' = loraReady /\ retryCount' = retryCount
    BY <1>2 DEF Transmitter, SendHeartbeat, Poll, Tick, ResetTransmitter, MoveFloats,
       Interfere, rxVars
  <2> QED
    BY <2>1, Zenon DEF ErrorsLeft
<1> QED
  BY <1>1, <1>2

(* The type invariant and what it needs, for the lemmas below. *)
LinkInv == LinkTypeOK /\ ErrorsLeft

LEMMA LinkInvInit == Init => LinkInv
<1> SUFFICES ASSUME Init PROVE LinkInv
  OBVIOUS
<1>1. loraReady \in BOOLEAN /\ transmitterLost \in BOOLEAN
  BY Zenon DEF Init
<1>2. ErrorsLeft
  BY LinkAssumption DEF Init, ErrorsLeft
<1> QED
  BY <1>1, <1>2, LinkAssumption, LimitPositive
     DEF Init, LinkInv, LinkTypeOK, NotOn, Levels, Unknown, Full

LEMMA LinkInvNext == LinkInv /\ [Next]_vars => LinkInv'
<1> SUFFICES ASSUME LinkInv, [Next]_vars
             PROVE  LinkInv'
  OBVIOUS
<1>1. CASE Transmitter
  BY <1>1, TransmitterTyped, OthersErrors DEF LinkInv
<1>2. CASE PollLoRa
  BY <1>2, ReceiverTyped DEF LinkInv
<1>3. CASE Tick \/ ResetTransmitter \/ ResetController \/ MoveFloats \/ Interfere
  BY <1>3, OthersTyped, OthersErrors DEF LinkInv
<1>4. CASE UNCHANGED vars
  BY <1>4 DEF LinkInv, LinkTypeOK, ErrorsLeft, vars, txVars, rxVars
<1> QED
  BY <1>1, <1>2, <1>3, <1>4 DEF Next

(* Both hold of every state the link can reach. *)
THEOREM LinkInvariant == Spec => []LinkInv
BY LinkInvInit, LinkInvNext, PTL DEF Spec

(* The variables of both ends and of the channel keep their types; the      *)
(* receiver's count of errors needs that a working radio has some left.     *)
THEOREM LinkTypeCorrect == Spec => []LinkTypeOK
<1>1. LinkInv => LinkTypeOK
  BY DEF LinkInv
<1> QED
  BY <1>1, LinkInvariant, PTL

-------------------------------------------------------------------------------
(* The heartbeat *)

(* The wait of the transmitter's loop is as old as its last attempt to      *)
(* send, and a turn is due when the wait is over.                           *)
Waiting ==
  txState # "halted" =>
    /\ slept = quiet /\ quiet <= Heartbeat
    /\ slept < Heartbeat \/ "tx" \in due
    /\ txState = "sending" => "tx" \in due

LEMMA WaitingNext == LinkInv /\ Waiting /\ [Next]_vars => Waiting'
<1> SUFFICES ASSUME LinkTypeOK, Waiting, [Next]_vars
             PROVE  Waiting'
  BY DEF LinkInv
<1> USE LinkAssumption
<1>1. CASE SendHeartbeat
  BY <1>1 DEF SendHeartbeat, Beat, Transmit, Waiting
<1>2. CASE Poll
  <2>1. \/ slept' = slept /\ quiet' = quiet
        \/ slept' = 0 /\ quiet' = 0
    BY <1>2 DEF Poll, Debounce, Transmit
  <2>2. slept' = quiet' /\ quiet' <= Heartbeat /\ slept' \in 0 .. Heartbeat
    BY <1>2, <2>1 DEF Poll, Waiting, LinkTypeOK
  <2>3. CASE slept' >= Heartbeat
    BY <1>2, <2>2, <2>3 DEF Poll, Waiting
  <2>4. CASE slept' < Heartbeat
    BY <1>2, <2>2, <2>4 DEF Poll, Waiting
  <2> QED
    BY <2>2, <2>3, <2>4
<1>3. CASE PollLoRa
  BY <1>3 DEF PollLoRa, txVars, Waiting
<1>4. CASE Tick
  BY <1>4 DEF Tick, Older, NotOn, Waiting, LinkTypeOK
<1>5. CASE ResetTransmitter
  BY <1>5 DEF ResetTransmitter, Waiting
<1>6. CASE ResetController \/ MoveFloats \/ Interfere \/ UNCHANGED vars
  BY <1>6 DEF ResetController, MoveFloats, Interfere, vars, txVars, Waiting
<1> QED
  BY <1>1, <1>2, <1>3, <1>4, <1>5, <1>6 DEF Next, Transmitter

(* Waves at the switches never hold up the heartbeat: a transmitter that    *)
(* is not halted tries to send within every interval.                       *)
THEOREM Heartbeats == Spec => []HeartbeatKept
<1>1. Init => Waiting
  BY LinkAssumption DEF Init, Waiting
<1>2. Waiting => HeartbeatKept
  BY DEF Waiting, HeartbeatKept
<1> QED
  BY <1>1, <1>2, WaitingNext, LinkInvariant, PTL DEF Spec

-------------------------------------------------------------------------------
(* The receiver implements TankLevel *)

LEMMA TankInit == Init => Tank!Init
BY DEF Init, Tank!Init, Unknown, NotOn, Tank!Unknown, Tank!NotOn

(* A turn of the receiver hears, loses the level to silence, or leaves it.  *)
LEMMA ReceiverRefines ==
  ASSUME LinkInv, PollLoRa
  PROVE  Tank!Next \/ UNCHANGED <<level, loraAge>>
<1>1. CASE Retry
  BY <1>1 DEF Retry
<1>2. CASE loraReady /\ (NothingReceived \/ ReadError)
  <2>1. CASE Silent
    BY <1>2, <2>1 DEF NothingReceived, ReadError, Silent, Tank!Next, Tank!GoSilent,
       Unknown, Tank!Unknown
  <2>2. CASE ~Silent
    BY <1>2, <2>2 DEF NothingReceived, ReadError
  <2> QED
    BY <2>1, <2>2
<1>3. CASE loraReady /\ Received
  <2>1. level' \in Levels /\ loraAge' = 0
    BY <1>3, LevelOfTyped DEF Received, Levels, Unknown, Full
  <2> QED
    BY <2>1 DEF Tank!Next, Tank!Hear, Tank!Levels, Levels, Unknown, Tank!Unknown, Full, Tank!Full
<1> QED
  BY <1>1, <1>2, <1>3 DEF PollLoRa

LEMMA TankNext == LinkInv /\ [Next]_vars => [Tank!Next]_<<level, loraAge>>
<1> SUFFICES ASSUME LinkInv, [Next]_vars
             PROVE  Tank!Next \/ UNCHANGED <<level, loraAge>>
  OBVIOUS
<1>1. CASE PollLoRa
  BY <1>1, ReceiverRefines
<1>2. CASE Tick
  BY <1>2 DEF Tick, Older, NotOn, Tank!Next, Tank!TimePasses, Tank!NotOn
<1>3. CASE ResetController
  BY <1>3 DEF ResetController, Tank!Next, Tank!Restart, Unknown, Tank!Unknown, NotOn, Tank!NotOn
<1>4. CASE Transmitter \/ ResetTransmitter \/ MoveFloats \/ Interfere \/ UNCHANGED vars
  BY <1>4 DEF Transmitter, SendHeartbeat, Poll, ResetTransmitter, MoveFloats, Interfere,
     rxVars, vars
<1> QED
  BY <1>1, <1>2, <1>3, <1>4 DEF Next

(* What the motor controller takes for granted of the overhead level holds  *)
(* of the receiver whatever the air, the radios and the resets do.          *)
THEOREM LinkImplementsTank == Spec => TankSpec
<1>1. LinkInv /\ [Next]_vars => [Tank!Next]_<<level, loraAge>>
  BY TankNext
<1> QED
  BY <1>1, TankInit, LinkInvariant, PTL DEF Spec, TankSpec, Tank!Spec

-------------------------------------------------------------------------------
(* No stale level *)

(* A transmitter that counts as lost has left no level behind.  Without it  *)
(* the silence would not be noticed a second time.                          *)
LostMeansUnknown == transmitterLost => level = Unknown

LEMMA LostInit == Init => LostMeansUnknown
BY DEF Init, LostMeansUnknown

LEMMA LostNext == LostMeansUnknown /\ [Next]_vars => LostMeansUnknown'
<1> SUFFICES ASSUME LostMeansUnknown, [Next]_vars
             PROVE  LostMeansUnknown'
  OBVIOUS
<1>1. CASE Retry \/ (loraReady /\ (NothingReceived \/ Received \/ ReadError))
  <2>1. CASE Retry
    BY <2>1 DEF Retry, LostMeansUnknown
  <2>2. CASE NothingReceived \/ ReadError
    <3>1. transmitterLost' = (transmitterLost \/ Silent)
      BY <2>2, Zenon DEF NothingReceived, ReadError
    <3>2. level' = IF Silent THEN Unknown ELSE level
      BY <2>2, Zenon DEF NothingReceived, ReadError
    <3> QED
      BY <3>1, <3>2, Zenon DEF LostMeansUnknown
  <2>3. CASE Received
    BY <2>3 DEF Received, LostMeansUnknown
  <2> QED
    BY <1>1, <2>1, <2>2, <2>3
<1>2. CASE ResetController
  BY <1>2 DEF ResetController, LostMeansUnknown
<1>3. CASE Transmitter \/ Tick \/ ResetTransmitter \/ MoveFloats \/ Interfere \/ UNCHANGED vars
  <2>1. transmitterLost' = transmitterLost /\ level' = level
    BY <1>3 DEF Transmitter, SendHeartbeat, Poll, Tick, ResetTransmitter, MoveFloats, Interfere,
       rxVars, vars
  <2> QED
    BY <2>1, Zenon DEF LostMeansUnknown
<1> QED
  BY <1>1, <1>2, <1>3 DEF Next, PollLoRa

LEMMA StaleStep ==
  ASSUME LinkInv, LostMeansUnknown, PollLoRa, loraReady, loraReady'
  PROVE  level' = Unknown \/ loraAge' < Limit
<1> USE LimitPositive
<1>1. CASE Received
  BY <1>1 DEF Received
<1>2. CASE NothingReceived \/ ReadError
  <2>1. CASE level = Unknown
    BY <1>2, <2>1, Zenon DEF NothingReceived, ReadError
  <2>2. CASE level # Unknown /\ loraAge >= Limit
    BY <1>2, <2>2, Zenon DEF NothingReceived, ReadError, Silent, LostMeansUnknown
  <2>3. CASE level # Unknown /\ ~(loraAge >= Limit)
    <3>1. loraAge' = loraAge
      BY <1>2, Zenon DEF NothingReceived, ReadError
    <3> QED
      BY <2>3, <3>1 DEF LinkInv, LinkTypeOK, NotOn
  <2> QED
    BY <2>1, <2>2, <2>3
<1> QED
  BY <1>1, <1>2, Zenon DEF PollLoRa, Retry

(* After every turn of a working radio the level is Unknown or younger than *)
(* the limit.                                                               *)
THEOREM LevelsAreFresh == Spec => NoStaleLevel
<1>1. LinkInv /\ LostMeansUnknown /\ [Next]_vars
        => [PollLoRa /\ loraReady' /\ loraReady => level' = Unknown \/ loraAge' < Limit]_vars
  BY StaleStep
<1> QED
  BY <1>1, LostInit, LostNext, LinkInvariant, PTL DEF Spec, NoStaleLevel

-------------------------------------------------------------------------------
(* Immediate sends *)

(* While a debounce runs, what it waits for is what was read last, and has  *)
(* been read at least since it began.                                       *)
Debounced == changeAge # NotOn => candidate = lastRead /\ changeAge <= steadyFor

LEMMA DebouncedNext == LinkInv /\ Debounced /\ [Next]_vars => Debounced'
<1> SUFFICES ASSUME LinkTypeOK, Debounced, [Next]_vars
             PROVE  Debounced'
  BY DEF LinkInv
<1> USE LinkAssumption DEF NotOn
<1>1. CASE SendHeartbeat
  BY <1>1 DEF SendHeartbeat, Beat, Transmit, Debounced
<1>2. CASE Poll
  <2>1. CASE changeAge' = NotOn
    BY <2>1 DEF Debounced
  <2>2. CASE floats # lastSent /\ Debounce
    <3>1. candidate' = lastRead'
      BY <1>2, <2>2 DEF Poll, Observe, Debounce
    <3>2. CASE changeAge = NotOn \/ floats # candidate
      BY <1>2, <2>2, <3>1, <3>2 DEF Poll, Observe, Debounce, Debounced, LinkTypeOK
    <3>3. CASE changeAge # NotOn /\ floats = candidate
      BY <1>2, <2>2, <3>1, <3>3 DEF Poll, Observe, Debounce, Debounced, LinkTypeOK
    <3> QED
      BY <3>2, <3>3
  <2> QED
    BY <1>2, <2>1, <2>2 DEF Poll, Transmit
<1>3. CASE PollLoRa
  BY <1>3 DEF PollLoRa, txVars, Debounced
<1>4. CASE Tick
  BY <1>4 DEF Tick, Older, Debounced, LinkTypeOK
<1>5. CASE ResetTransmitter
  BY <1>5 DEF ResetTransmitter, Debounced
<1>6. CASE ResetController \/ MoveFloats \/ Interfere \/ UNCHANGED vars
  BY <1>6 DEF ResetController, MoveFloats, Interfere, vars, txVars, Debounced
<1> QED
  BY <1>1, <1>2, <1>3, <1>4, <1>5, <1>6 DEF Next, Transmitter

LEMMA SteadyStep ==
  ASSUME LinkInv, Debounced, Poll, quiet > 0, quiet' = 0
  PROVE  steadyFor' >= Stable
<1>1. changeAge >= Stable /\ floats = candidate
  <2>1. quiet' # quiet
    BY DEF LinkInv, LinkTypeOK
  <2> QED
    BY <2>1 DEF Poll
<1>2. floats = lastRead /\ steadyFor >= Stable
  BY <1>1, LinkAssumption DEF Debounced, LinkInv, LinkTypeOK, NotOn
<1> QED
  BY <1>2 DEF Poll, Observe

(* Ahead of the heartbeat only a reading that has stood for the debounce    *)
(* time is sent.                                                            *)
THEOREM OnlySteadySends == Spec => SendsSteady
<1>1. Init => Debounced
  BY DEF Init, Debounced
<1>2. LinkInv /\ Debounced /\ [Next]_vars
        => [Poll /\ quiet > 0 /\ quiet' = 0 => steadyFor' >= Stable]_vars
  BY SteadyStep
<1> QED
  BY <1>1, <1>2, DebouncedNext, LinkInvariant, PTL DEF Spec, SendsSteady
===============================================================================
