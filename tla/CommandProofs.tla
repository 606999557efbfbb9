----------------------------- MODULE CommandProofs -----------------------------
(***************************************************************************)
(* The feedback of the app and the drop of the backend, for every number of *)
(* commands and all time limits the assumption allows.                      *)
(***************************************************************************)
EXTENDS CommandPath, TLAPS

USE DEF Command, None, Off

(* At most the latest command's timer runs, and it is as old as the command. *)
Timed == ackTimers # {} => tap > 0 /\ ackTimers = {since[tap]}

(* Only a command that waits is in the store, and a prompt one has waited   *)
(* for most of its age.                                                    *)
Kept == \A n \in store :
  /\ n <= tap /\ request[n] = "waiting"
  /\ waited[n] <= CommandTimeout(on[n])
  /\ prompt[n] => since[n] <= waited[n] + Latency

(* What is shown is about the latest command, and the older ones are older. *)
Latest ==
  /\ shown # None => tap > 0
  /\ shown = "sending" => ~answered
  /\ shown = "failed" => \A n \in 1 .. tap : since[n] = AckTimeout
  /\ \A n \in 1 .. tap : since[tap] <= since[n]

(* A command is untouched until it is sent, and has not waited before it is *)
(* published.                                                              *)
Fresh ==
  /\ \A n \in Command : n > tap => since[n] = 0 /\ request[n] = None
  /\ \A n \in Command : request[n] \in {None, "posted"} => waited[n] = 0

CommandInv == CommandTypeOK /\ Timed /\ Kept /\ Latest /\ Fresh

LEMMA CommandTimeouts ==
  ASSUME NEW o \in BOOLEAN PROVE CommandTimeout(o) \in Nat /\ CommandTimeout(o) <= OffWait
BY CommandAssumption DEF CommandTimeout

LEMMA Constants ==
  /\ Taps \in Nat /\ OnWait \in Nat /\ OffWait \in Nat /\ AckTimeout \in Nat
  /\ WatchWindow \in Nat /\ FailClear \in Nat /\ RejectClear \in Nat /\ Latency \in Nat
  /\ FailClear <= RejectClear /\ OffWait + Latency < AckTimeout /\ 0 < AckTimeout
BY CommandAssumption

-------------------------------------------------------------------------------
LEMMA InitInv == Init => CommandInv
<1> SUFFICES ASSUME Init PROVE CommandInv
  OBVIOUS
<1>1. /\ tap \in 0 .. Taps /\ clearIn \in 0 .. RejectClear \cup {Off}
      /\ watch \in 0 .. WatchWindow \cup {Off} /\ ackTimers \in SUBSET (0 .. AckTimeout)
  BY Constants DEF Init
<1>2. /\ on \in [Command -> BOOLEAN] /\ prompt \in [Command -> BOOLEAN]
      /\ linked \in BOOLEAN /\ answered \in BOOLEAN
  BY DEF Init
<1>3. since \in [Command -> 0 .. AckTimeout] /\ waited \in [Command -> 0 .. OffWait]
  BY Constants DEF Init
<1>4. /\ shown \in {None, "sending", "failed", "rejected"} /\ status \in Status \cup {None}
      /\ request \in [Command -> {None, "posted", "waiting", "over"}] /\ store \in SUBSET Command
  BY DEF Init
<1>5. CommandTypeOK
  BY <1>1, <1>2, <1>3, <1>4 DEF CommandTypeOK
<1>6. Timed /\ Kept /\ Fresh
  BY DEF Init, Timed, Kept, Fresh
<1>7. Latest
  BY DEF Init, Latest
<1>8. QED
  BY <1>5, <1>6, <1>7 DEF CommandInv

LEMMA TapInv == ASSUME CommandInv, NEW o \in BOOLEAN, Tap(o) PROVE CommandInv'
<1> DEFINE t == tap + 1
<1>1. t \in Command /\ tap' = t /\ since' = since /\ since[t] = 0
  BY Constants DEF Tap, CommandInv, CommandTypeOK, Fresh
<1>2. CommandTypeOK'
  <2>1. tap' \in 0 .. Taps /\ ackTimers' \in SUBSET (0 .. AckTimeout)
        /\ clearIn' \in 0 .. RejectClear \cup {Off} /\ watch' \in 0 .. WatchWindow \cup {Off}
    BY <1>1, Constants DEF Tap, StartAckTimer, CommandInv, CommandTypeOK
  <2>2. on' \in [Command -> BOOLEAN]
    BY DEF Tap, CommandInv, CommandTypeOK
  <2>3. request' \in [Command -> {None, "posted", "waiting", "over"}]
    BY DEF Tap, CommandInv, CommandTypeOK
  <2>4. shown' = "sending" /\ answered' = FALSE
        /\ UNCHANGED <<since, status, waited, prompt, store, linked>>
    BY DEF Tap
  <2>5. QED
    BY <2>1, <2>2, <2>3, <2>4 DEF CommandInv, CommandTypeOK
<1>3. Timed'
  BY <1>1 DEF Tap, StartAckTimer, Timed
<1>4. Kept'
  <2>1. \A n \in store : n # t
    BY <1>1 DEF CommandInv, CommandTypeOK, Kept
  <2>2. \A n \in store : on'[n] = on[n] /\ request'[n] = request[n]
    BY <2>1 DEF Tap, CommandInv, CommandTypeOK
  <2>3. QED
    BY <1>1, <2>2 DEF Tap, CommandInv, CommandTypeOK, Kept, CommandTimeout
<1>5. Latest'
  BY <1>1, Constants DEF Tap, CommandInv, CommandTypeOK, Latest
<1>6. Fresh'
  BY <1>1 DEF Tap, CommandInv, CommandTypeOK, Fresh
<1>7. QED
  BY <1>2, <1>3, <1>4, <1>5, <1>6 DEF CommandInv

LEMMA HearInv == ASSUME CommandInv, NEW s \in Status, Hear(s) PROVE CommandInv'
<1>1. UNCHANGED <<tap, on, since, request, waited, prompt, store, linked>>
  BY DEF Hear, backendVars
<1>2. ackTimers' \in {ackTimers, {}} /\ watch' \in {watch, Off}
      /\ clearIn' \in {clearIn, RejectClear} /\ status' = s /\ answered' \in {answered, TRUE}
  BY DEF Hear
<1>3. \/ shown' = shown /\ answered' = answered
      \/ shown' = None
      \/ shown' = "rejected" /\ shown = "sending"
  BY DEF Hear
<1>4. CommandTypeOK'
  <2>1. /\ ackTimers' \in SUBSET (0 .. AckTimeout) /\ clearIn' \in 0 .. RejectClear \cup {Off}
        /\ watch' \in 0 .. WatchWindow \cup {Off}
    BY <1>2, Constants DEF CommandInv, CommandTypeOK
  <2>2. /\ shown' \in {None, "sending", "failed", "rejected"}
        /\ status' \in Status \cup {None} /\ answered' \in BOOLEAN
    BY <1>2, <1>3 DEF CommandInv, CommandTypeOK
  <2>3. QED
    BY <1>1, <2>1, <2>2 DEF CommandInv, CommandTypeOK
<1>5. Timed' /\ Kept' /\ Fresh'
  BY <1>1, <1>2 DEF CommandInv, Timed, Kept, Fresh, CommandTimeout
<1>6. Latest'
  BY <1>1, <1>3 DEF CommandInv, Latest
<1>7. QED
  BY <1>4, <1>5, <1>6 DEF CommandInv

LEMMA AckTimedOutInv == ASSUME CommandInv, AckTimedOut PROVE CommandInv'
<1>1. UNCHANGED <<tap, on, since, status, answered, request, waited, prompt, store, linked>>
  BY DEF AckTimedOut, backendVars
<1>2. ackTimers' = {} /\ tap > 0 /\ since[tap] = AckTimeout
  BY DEF AckTimedOut, CommandInv, Timed
<1>3. \/ shown' = shown /\ clearIn' = clearIn /\ watch' = watch
      \/ shown' = None /\ clearIn' = clearIn /\ watch' = Off
      \/ shown' = "failed" /\ clearIn' = FailClear /\ watch' = watch
  BY DEF AckTimedOut
<1>4. CommandTypeOK'
  <2>1. /\ ackTimers' \in SUBSET (0 .. AckTimeout) /\ clearIn' \in 0 .. RejectClear \cup {Off}
        /\ watch' \in 0 .. WatchWindow \cup {Off}
    BY <1>2, <1>3, Constants DEF CommandInv, CommandTypeOK
  <2>2. shown' \in {None, "sending", "failed", "rejected"}
    BY <1>3 DEF CommandInv, CommandTypeOK
  <2>3. QED
    BY <1>1, <2>1, <2>2 DEF CommandInv, CommandTypeOK
<1>5. Timed' /\ Kept' /\ Fresh'
  BY <1>1, <1>2 DEF CommandInv, Timed, Kept, Fresh, CommandTimeout
<1>6. \A n \in 1 .. tap : since[n] = AckTimeout
  BY <1>2, Constants DEF CommandInv, CommandTypeOK, Latest
<1>7. Latest'
  BY <1>1, <1>2, <1>3, <1>6 DEF CommandInv, Latest
<1>8. QED
  BY <1>4, <1>5, <1>7 DEF CommandInv

LEMMA ClearInv == ASSUME CommandInv, Clear PROVE CommandInv'
<1>1. UNCHANGED <<tap, on, since, ackTimers, watch, status, answered,
                  request, waited, prompt, store, linked>>
  BY DEF Clear, backendVars
<1>2. clearIn' = Off /\ (shown' = None \/ shown' = shown)
  BY DEF Clear
<1>3. CommandTypeOK'
  BY <1>1, <1>2 DEF CommandInv, CommandTypeOK
<1>4. Timed' /\ Kept' /\ Fresh' /\ Latest'
  BY <1>1, <1>2 DEF CommandInv, Timed, Kept, Fresh, Latest, CommandTimeout
<1>5. QED
  BY <1>3, <1>4 DEF CommandInv

(* What the backend does to one request leaves the app alone. *)
LEMMA BackendInv ==
  ASSUME CommandInv, NEW n \in Command, Publish(n) \/ Confirm(n) \/ GiveUp(n)
  PROVE  CommandInv'
<1>1. UNCHANGED <<tap, on, since, shown, ackTimers, clearIn, watch, status, answered,
                  waited, linked>>
  BY DEF Publish, Confirm, GiveUp, appVars
<1>2. Timed' /\ Latest'
  BY <1>1 DEF CommandInv, Timed, Latest
<1>3. CASE Publish(n)
  <2>1. n <= tap /\ waited[n] = 0
    BY <1>3 DEF Publish, CommandInv, CommandTypeOK, Fresh
  <2>2. CommandTypeOK'
    <3>1. prompt' \in [Command -> BOOLEAN]
      BY <1>3 DEF Publish, CommandInv, CommandTypeOK
    <3>2. /\ request' \in [Command -> {None, "posted", "waiting", "over"}]
          /\ store' \in SUBSET Command
      BY <1>3 DEF Publish, CommandInv, CommandTypeOK
    <3>3. QED
      BY <1>1, <3>1, <3>2 DEF CommandInv, CommandTypeOK
  <2>3. Kept'
    <3>1. CommandTimeout(on[n]) \in Nat
      BY CommandTimeouts DEF CommandInv, CommandTypeOK
    <3>2. prompt'[n] => since[n] <= waited[n] + Latency
      <4>1. prompt'[n] = (since[n] <= Latency)
        BY <1>3 DEF Publish, CommandInv, CommandTypeOK
      <4>2. since[n] <= Latency => since[n] <= waited[n] + Latency
        BY <2>1, Constants DEF CommandInv, CommandTypeOK
      <4>3. QED
        BY <4>1, <4>2
    <3>3. \A m \in store' : m # n => m \in store /\ request'[m] = request[m]
                                     /\ prompt'[m] = prompt[m]
      BY <1>3 DEF Publish, CommandInv, CommandTypeOK
    <3>4. n \in store' => request'[n] = "waiting"
      BY <1>3 DEF Publish, CommandInv, CommandTypeOK, Kept
    <3>5. \A m \in store' : m # n => /\ m <= tap /\ request'[m] = "waiting"
                                     /\ waited[m] <= CommandTimeout(on[m])
                                     /\ prompt'[m] => since[m] <= waited[m] + Latency
      BY <3>3 DEF CommandInv, Kept
    <3>6. QED
      BY <1>1, <2>1, <3>1, <3>2, <3>4, <3>5 DEF Kept, CommandTimeout
  <2>4. Fresh'
    BY <1>1, <1>3, <2>1 DEF Publish, CommandInv, CommandTypeOK, Fresh
  <2>5. QED
    BY <1>2, <2>2, <2>3, <2>4 DEF CommandInv
<1>4. CASE Confirm(n) \/ GiveUp(n)
  <2>1. /\ store' = store \ {n} /\ prompt' = prompt
        /\ request' = [request EXCEPT ![n] = "over"] /\ request[n] # None
    BY <1>4 DEF Confirm, GiveUp, DropPending, CommandInv, Kept
  <2>2. CommandTypeOK'
    BY <1>1, <2>1 DEF CommandInv, CommandTypeOK
  <2>3. Kept'
    BY <1>1, <2>1 DEF CommandInv, CommandTypeOK, Kept, CommandTimeout
  <2>4. Fresh'
    BY <1>1, <2>1 DEF CommandInv, CommandTypeOK, Fresh
  <2>5. QED
    BY <1>2, <2>2, <2>3, <2>4 DEF CommandInv
<1>5. QED
  BY <1>3, <1>4

LEMMA TickInv == ASSUME CommandInv, Tick PROVE CommandInv'
<1>1. UNCHANGED <<tap, on, shown, status, answered, request, prompt, store, linked>>
  BY DEF Tick
<1>2. \A n \in Command : /\ since[n] \in Nat /\ since[n] <= AckTimeout
                         /\ waited[n] \in Nat /\ waited[n] <= OffWait
  BY DEF CommandInv, CommandTypeOK
<1>3. \A n \in Command :
        since'[n] = IF n <= tap /\ since[n] < AckTimeout THEN since[n] + 1 ELSE since[n]
  BY DEF Tick
<1>4. \A n \in Command :
        waited'[n] = IF request[n] = "waiting" THEN waited[n] + 1 ELSE waited[n]
  BY DEF Tick
<1>5. \A n \in Command : CommandTimeout(on[n]) \in Nat /\ CommandTimeout(on[n]) <= OffWait
  BY CommandTimeouts DEF CommandInv, CommandTypeOK
<1>6. \A n \in Command : request[n] = "waiting" => waited[n] < CommandTimeout(on[n])
  BY <1>2, <1>5 DEF Tick, Due
<1>7. ackTimers # {} => since[tap] < AckTimeout /\ ackTimers' = {since[tap] + 1}
  <2>1. ackTimers # {} => tap \in Command /\ ackTimers = {since[tap]} /\ since[tap] # AckTimeout
    BY DEF Tick, Due, CommandInv, CommandTypeOK, Timed
  <2>2. QED
    BY <1>2, <2>1, Constants DEF Tick
<1>8. CommandTypeOK'
  <2>1. since' \in [Command -> 0 .. AckTimeout]
    <3>1. \A n \in Command : since'[n] \in 0 .. AckTimeout
      BY <1>2, <1>3, Constants
    <3>2. QED
      BY <3>1 DEF Tick
  <2>2. waited' \in [Command -> 0 .. OffWait]
    <3>1. \A n \in Command : waited'[n] \in 0 .. OffWait
      BY <1>2, <1>4, <1>5, <1>6, Constants
    <3>2. QED
      BY <3>1 DEF Tick
  <2>3. ackTimers' \in SUBSET (0 .. AckTimeout)
    BY <1>2, <1>7, Constants DEF Tick, CommandInv, CommandTypeOK, Timed
  <2>4. clearIn' \in 0 .. RejectClear \cup {Off} /\ watch' \in 0 .. WatchWindow \cup {Off}
    BY Constants DEF Tick, Less, CommandInv, CommandTypeOK
  <2>5. QED
    BY <1>1, <2>1, <2>2, <2>3, <2>4 DEF CommandInv, CommandTypeOK
<1>9. Timed'
  <2>1. ackTimers' # {} => ackTimers # {}
    BY DEF Tick
  <2>2. ackTimers # {} => tap \in Command
    BY DEF CommandInv, CommandTypeOK, Timed
  <2>3. QED
    BY <1>1, <1>3, <1>7, <2>1, <2>2 DEF CommandInv, CommandTypeOK, Timed
<1>10. Kept'
  <2>1. SUFFICES ASSUME NEW n \in store
                 PROVE  /\ n <= tap /\ request[n] = "waiting"
                        /\ waited'[n] <= CommandTimeout(on[n])
                        /\ prompt[n] => since'[n] <= waited'[n] + Latency
    BY <1>1 DEF Kept, CommandTimeout
  <2>2. n \in Command /\ n <= tap /\ request[n] = "waiting"
        /\ (prompt[n] => since[n] <= waited[n] + Latency)
    BY DEF CommandInv, CommandTypeOK, Kept
  <2>3. waited'[n] = waited[n] + 1 /\ waited'[n] <= CommandTimeout(on[n])
    BY <1>2, <1>4, <1>5, <1>6, <2>2
  <2>4. QED
    BY <1>2, <1>3, <2>2, <2>3, Constants
<1>11. Latest'
  <2>1. \A n \in 1 .. tap : n \in Command /\ tap \in Command
    BY Constants DEF CommandInv, CommandTypeOK
  <2>2. shown = "failed" => \A n \in 1 .. tap : since'[n] = AckTimeout
    BY <1>3, <2>1, Constants DEF CommandInv, Latest
  <2>3. \A n \in 1 .. tap : since'[tap] <= since'[n]
    BY <1>2, <1>3, <2>1, Constants DEF CommandInv, CommandTypeOK, Latest
  <2>4. QED
    BY <1>1, <2>2, <2>3 DEF CommandInv, Latest
<1>12. Fresh'
  BY <1>1, <1>3, <1>4 DEF CommandInv, CommandTypeOK, Fresh
<1>13. QED
  BY <1>8, <1>9, <1>10, <1>11, <1>12 DEF CommandInv

LEMMA NextInv == CommandInv /\ [Next]_vars => CommandInv'
<1> SUFFICES ASSUME CommandInv, [Next]_vars PROVE CommandInv'
  OBVIOUS
<1>1. ASSUME NEW o \in BOOLEAN, Tap(o) PROVE CommandInv'
  BY <1>1, TapInv
<1>2. ASSUME NEW s \in Status, Hear(s) PROVE CommandInv'
  BY <1>2, HearInv
<1>3. CASE AckTimedOut
  BY <1>3, AckTimedOutInv
<1>4. CASE Clear
  BY <1>4, ClearInv
<1>5. ASSUME NEW n \in Command, Publish(n) \/ Confirm(n) \/ GiveUp(n) PROVE CommandInv'
  BY <1>5, BackendInv
<1>6. CASE Relink
  BY <1>6 DEF Relink, appVars, CommandInv, CommandTypeOK, Timed, Kept, Latest, Fresh,
              CommandTimeout
<1>7. CASE Tick
  BY <1>7, TickInv
<1>8. CASE UNCHANGED vars
  BY <1>8 DEF vars, appVars, backendVars, CommandInv, CommandTypeOK, Timed, Kept, Latest,
              Fresh, CommandTimeout
<1>9. QED
  BY <1>1, <1>2, <1>3, <1>4, <1>5, <1>6, <1>7, <1>8 DEF Next

LEMMA AlwaysCommandInv == Spec => []CommandInv
BY InitInv, NextInv, PTL DEF Spec

-------------------------------------------------------------------------------
(* Timers, banners and requests keep their types: a request never waits     *)
(* longer than its command's limit.                                         *)
THEOREM CommandTypeCorrect == Spec => []CommandTypeOK
<1>1. CommandInv => CommandTypeOK
  BY DEF CommandInv
<1>2. QED
  BY <1>1, AlwaysCommandInv, PTL

(* What is reported as not delivered is not sent later, because a command   *)
(* that reached the backend in time has been dropped before the app's       *)
(* timeout (OffWait + Latency < AckTimeout).                                *)
THEOREM FailuresFinal == Spec => []FailureFinal
<1>1. CommandInv => FailureFinal
  <2>1. SUFFICES ASSUME CommandInv, shown = "failed", NEW n \in store
                 PROVE  ~prompt[n]
    BY DEF FailureFinal
  <2>2. n \in 1 .. tap /\ n \in Command
    BY <2>1 DEF CommandInv, CommandTypeOK, Kept
  <2>3. since[n] = AckTimeout
    BY <2>1, <2>2 DEF CommandInv, Latest
  <2>4. prompt[n] => since[n] <= waited[n] + Latency
    BY <2>1 DEF CommandInv, Kept
  <2>5. waited[n] \in Nat /\ waited[n] <= OffWait
    BY <2>1, <2>2 DEF CommandInv, CommandTypeOK
  <2>6. ~(since[n] <= waited[n] + Latency)
    BY <2>3, <2>5, Constants
  <2>7. QED
    BY <2>4, <2>6
<1>2. QED
  BY <1>1, AlwaysCommandInv, PTL

(* A failure is reported a whole timeout after the latest command, and only *)
(* if no status has answered it, because the one timer that runs is that    *)
(* command's.                                                               *)
THEOREM FailuresUnanswered == Spec => FailsUnanswered
<1> DEFINE Step == shown # "failed" /\ shown' = "failed"
                     => since[tap] = AckTimeout /\ ~answered
<1>1. CommandInv /\ [Next]_vars => [Step]_vars
  <2> SUFFICES ASSUME CommandInv, Next, shown # "failed", shown' = "failed"
               PROVE  since[tap] = AckTimeout /\ ~answered
    OBVIOUS
  <2>1. AckTimedOut
    <3>1. \A o \in BOOLEAN : ~Tap(o)
      BY DEF Tap
    <3>2. \A s \in Status : ~Hear(s)
      BY DEF Hear
    <3>3. ~Clear
      BY DEF Clear
    <3>4. \A n \in Command : ~Publish(n) /\ ~Confirm(n) /\ ~GiveUp(n)
      BY DEF Publish, Confirm, GiveUp, appVars
    <3>5. ~Relink /\ ~Tick
      BY DEF Relink, Tick, appVars
    <3>6. QED
      BY <3>1, <3>2, <3>3, <3>4, <3>5 DEF Next
  <2>2. shown = "sending"
    BY <2>1 DEF AckTimedOut
  <2>3. QED
    BY <2>1, <2>2 DEF AckTimedOut, CommandInv, Timed, Latest
<1>2. QED
  BY <1>1, AlwaysCommandInv, PTL DEF Spec, FailsUnanswered
===============================================================================
