----------------------------- MODULE CommandPath ------------------------------
(***************************************************************************)
(* The commands of one motor from the app to the broker: the app's feedback *)
(* with its timers (tank_service.dart) and the backend that publishes a      *)
(* command, waits for the broker and drops what it does not confirm         *)
(* (mqtt.go).  The way back is open: the controller and everybody else who   *)
(* switches the motor may make any status arrive at any time.  A tick is a   *)
(* unit of time; timers that are due fire before the next one.              *)
(***************************************************************************)
EXTENDS Integers

CONSTANTS
  Taps,         (* bound: commands the user sends                             *)
  OnWait,       (* commandTimeout of oh_on, ug_on                             *)
  OffWait,      (* commandTimeout of oh_off, ug_off                           *)
  AckTimeout,   (* _ackTimeout                                                *)
  WatchWindow,  (* _watchWindow                                               *)
  FailClear,    (* _failClearAfter                                            *)
  RejectClear,  (* _rejectClearAfter                                          *)
  Latency       (* from a tap to publishControl, when the network is good     *)

(* 5 and 10, 12, 25, 10 and 15 seconds; and less than 2.                    *)
ASSUME CommandAssumption ==
  /\ {Taps, OnWait, OffWait, AckTimeout, WatchWindow, FailClear, RejectClear, Latency}
       \subseteq Nat
  /\ 0 < OnWait /\ OnWait <= OffWait /\ OffWait + Latency < AckTimeout
  /\ 0 < FailClear /\ FailClear <= RejectClear
  /\ AckTimeout + FailClear < WatchWindow

Command == 1 .. Taps
None == "none"
Off == -1
(* The motor (or its countdown) is on, off, or off with oh_rej: a start was *)
(* refused.  A refusal says nothing about a motor that is on.               *)
Status == {"on", "off", "refused"}

VARIABLES
  tap,         \* the latest command, 0 before the first
  on,          \* of each command, whether it starts or stops the motor
  since,       \* of each command, its age; it stops at AckTimeout
  shown,       \* ohCmdSending, ohCmdFailed, ohCmdRejection: one of them at most
  ackTimers,   \* ages of the running timers _ohAckTimer
  clearIn,     \* time left of _ohFailTimer
  watch,       \* time left until _ohWatchUntil; Off is null
  status,      \* the latest status
  request,     \* of each command: "posted" by the app, "waiting" in publishControl, "over"
  waited,      \* of each command, the time spent waiting
  prompt,      \* of each command, whether publishControl got it within Latency
  store,       \* pubStore: commands the client has not seen confirmed
  linked,      \* the backend's connection to the broker
  answered     \* history: a status since the latest tap has confirmed or refused it

appVars == <<tap, on, since, shown, ackTimers, clearIn, watch, status, answered>>
backendVars == <<request, waited, prompt, store, linked>>
vars == <<appVars, backendVars>>

CommandTypeOK ==
  /\ tap \in 0 .. Taps
  /\ on \in [Command -> BOOLEAN] /\ since \in [Command -> 0 .. AckTimeout]
  /\ shown \in {None, "sending", "failed", "rejected"}
  /\ ackTimers \in SUBSET (0 .. AckTimeout)
  /\ clearIn \in 0 .. RejectClear \cup {Off} /\ watch \in 0 .. WatchWindow \cup {Off}
  /\ status \in Status \cup {None}
  /\ request \in [Command -> {None, "posted", "waiting", "over"}]
  /\ waited \in [Command -> 0 .. OffWait] /\ prompt \in [Command -> BOOLEAN]
  /\ store \in SUBSET Command /\ linked \in BOOLEAN /\ answered \in BOOLEAN

-------------------------------------------------------------------------------
(* The app *)

StartAckTimerFault == ackTimers' = ackTimers \cup {0}

(* The timer of an earlier command is cancelled. *)
StartAckTimer == ackTimers' = {0}

(* sendControl with _beginMotorCmd *)
Tap(o) ==
  /\ tap < Taps /\ tap' = tap + 1
  /\ on' = [on EXCEPT ![tap + 1] = o]
  /\ request' = [request EXCEPT ![tap + 1] = "posted"]
  /\ shown' = "sending" /\ StartAckTimer
  /\ clearIn' = Off /\ watch' = WatchWindow /\ answered' = FALSE
  /\ UNCHANGED <<since, status, waited, prompt, store, linked>>

Reached(s) == IF on[tap] THEN s = "on" ELSE s \in {"off", "refused"}

(* _checkCmdAck on every status *)
Hear(s) ==
  /\ status' = s
  /\ IF watch = Off THEN UNCHANGED <<shown, ackTimers, clearIn, watch, answered>>
     ELSE IF Reached(s)
     THEN /\ shown' = None /\ ackTimers' = {} /\ watch' = Off /\ answered' = TRUE
          /\ UNCHANGED clearIn
     ELSE IF on[tap] /\ s = "refused" /\ shown = "sending"
     THEN /\ shown' = "rejected" /\ ackTimers' = {} /\ clearIn' = RejectClear
          /\ answered' = TRUE
          /\ UNCHANGED watch
     ELSE /\ watch' = IF watch = 0 THEN Off ELSE watch
          /\ UNCHANGED <<shown, ackTimers, clearIn, answered>>
  /\ UNCHANGED <<tap, on, since, backendVars>>

(* _onAckTimeout, with its last look at the status *)
AckTimedOut ==
  /\ AckTimeout \in ackTimers /\ ackTimers' = ackTimers \ {AckTimeout}
  /\ IF shown # "sending" THEN UNCHANGED <<shown, clearIn, watch>>
     ELSE IF Reached(status)
     THEN shown' = None /\ watch' = Off /\ UNCHANGED clearIn
     ELSE shown' = "failed" /\ clearIn' = FailClear /\ UNCHANGED watch
  /\ UNCHANGED <<tap, on, since, status, answered, backendVars>>

(* _ohFailTimer, or clearCmdFailed *)
Clear ==
  /\ clearIn = 0 \/ shown \in {"failed", "rejected"}
  /\ clearIn' = Off
  /\ shown' = IF shown = "sending" THEN shown ELSE None
  /\ UNCHANGED <<tap, on, since, ackTimers, watch, status, answered, backendVars>>

-------------------------------------------------------------------------------
(* The backend *)

CommandTimeoutFault(o) == AckTimeout

CommandTimeout(o) == IF o THEN OnWait ELSE OffWait

(* handleDeviceControl and publishControl: refused without a connection, or *)
(* stored for the client to send; one that is reconnecting takes it too.    *)
Publish(n) ==
  /\ request[n] = "posted"
  /\ \/ ~linked /\ request' = [request EXCEPT ![n] = "over"] /\ store' = store
     \/ request' = [request EXCEPT ![n] = "waiting"] /\ store' = store \cup {n}
  /\ prompt' = [prompt EXCEPT ![n] = since[n] <= Latency]
  /\ UNCHANGED <<appVars, waited, linked>>

Confirm(n) ==
  /\ linked /\ n \in store /\ store' = store \ {n}
  /\ request' = [request EXCEPT ![n] = "over"]
  /\ UNCHANGED <<appVars, waited, prompt, linked>>

DropPendingFault(n) == store' = store

(* dropPendingPublish *)
DropPending(n) == store' = store \ {n}

GiveUp(n) ==
  /\ request[n] = "waiting" /\ waited[n] >= CommandTimeout(on[n])
  /\ request' = [request EXCEPT ![n] = "over"] /\ DropPending(n)
  /\ UNCHANGED <<appVars, waited, prompt, linked>>

(* The client notices a broken connection, and later sends again what is in *)
(* the store.                                                              *)
Relink ==
  /\ linked' = ~linked
  /\ UNCHANGED <<appVars, request, waited, prompt, store>>

-------------------------------------------------------------------------------
Due == \/ AckTimeout \in ackTimers \/ clearIn = 0
       \/ \E n \in Command : request[n] = "waiting" /\ waited[n] >= CommandTimeout(on[n])

Less(left) == IF left > 0 THEN left - 1 ELSE left

Tick ==
  /\ ~Due
  /\ since' = [n \in Command |-> IF n <= tap /\ since[n] < AckTimeout
                                 THEN since[n] + 1 ELSE since[n]]
  /\ ackTimers' = {age + 1 : age \in ackTimers}
  /\ clearIn' = Less(clearIn) /\ watch' = Less(watch)
  /\ waited' = [n \in Command |-> IF request[n] = "waiting" THEN waited[n] + 1 ELSE waited[n]]
  /\ UNCHANGED <<tap, on, shown, status, answered, request, prompt, store, linked>>

Init ==
  /\ tap = 0 /\ on = [n \in Command |-> FALSE] /\ since = [n \in Command |-> 0]
  /\ shown = None /\ ackTimers = {} /\ clearIn = Off /\ watch = Off
  /\ status = None /\ answered = FALSE
  /\ request = [n \in Command |-> None]
  /\ waited = [n \in Command |-> 0] /\ prompt = [n \in Command |-> FALSE]
  /\ store = {} /\ linked = TRUE

Next ==
  \/ \E o \in BOOLEAN : Tap(o)
  \/ \E s \in Status : Hear(s)
  \/ AckTimedOut \/ Clear
  \/ \E n \in Command : Publish(n) \/ Confirm(n) \/ GiveUp(n)
  \/ Relink \/ Tick

Spec == Init /\ [][Next]_vars

-------------------------------------------------------------------------------
(* Properties *)

(* "Not delivered" is final: while the app says so, the backend's client    *)
(* holds no command that it would send after a reconnection, unless the     *)
(* request was slow to reach the backend (commandTimeout and                *)
(* dropPendingPublish against _ackTimeout).                                *)
FailureFinal == shown = "failed" => \A n \in store : ~prompt[n]

(* A failure is reported for the latest command only, a whole timeout after *)
(* it, and if no status since has confirmed or refused it: neither an       *)
(* earlier command's timer nor a status in the last moment makes the app    *)
(* cry wolf.                                                               *)
FailsUnanswered ==
  [][shown # "failed" /\ shown' = "failed" => since[tap] = AckTimeout /\ ~answered]_vars
===============================================================================
