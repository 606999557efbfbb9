------------------------------- MODULE Scheduler -------------------------------
(***************************************************************************)
(* The schedules of the controller (Scheduler.cpp and the commands that     *)
(* edit them in MQTTManager.cpp and HttpServer.cpp), composed with the      *)
(* motor controller.  checkSchedules() takes the slots in order, and for    *)
(* each first warns or starts ("begin"), then stops ("end").  The clock is  *)
(* the time of day in ticks; it runs on through resets, being kept by the   *)
(* RTC.  A slot's run is represented by its age, NotOn standing for         *)
(* isRunning = false.                                                       *)
(***************************************************************************)
EXTENDS MotorControl

CONSTANTS
  LastSlot,     (* MAX_SCHEDULES - 1                                         *)
  Minute,       (* ticks in a minute, the grain of the schedules             *)
  Day,          (* ticks in a day                                            *)
  MaxDuration,  (* the longest duration a slot may ask for, in ticks         *)
  Entries       (* the schedules users enter: motor, time and duration       *)

Slots == 0 .. LastSlot
Midnight == 0      \* "00:00", the time of an empty slot

ASSUME ScheduleAssumption ==
  /\ LastSlot \in Nat /\ Minute \in Nat \ {0} /\ Day \in Nat \ {0}
  /\ MaxDuration \in Nat \ {0}
  /\ Entries \subseteq [motor: Operated, time: 0 .. Day - 1, duration: 0 .. MaxDuration]
  /\ OH \in Operated    \* a save cut short may enable an empty slot, which names OH

VARIABLES
  slot,       \* schedules[]; all but the run and the warning is also in NVS
  at, phase,  \* where checkSchedules() has got to: the slot, and which half
  timeOfDay   \* getLocalTime()

scheduleVars == <<slot, at, phase, timeOfDay>>
allVars == <<vars, scheduleVars>>

SlotType == [enabled: BOOLEAN, motor: Motors, time: 0 .. Day - 1,
             duration: 0 .. MaxDuration, age: NotOn .. MaxDuration, preBuzzing: BOOLEAN]

TableTypeOK ==
  /\ slot \in [Slots -> SlotType]
  /\ at \in Slots
  /\ phase \in {"begin", "end"}
  /\ timeOfDay \in 0 .. Day - 1

(* {false, 0, "00:00", 2, false, 0, false} *)
EmptySlot == [enabled |-> FALSE, motor |-> OH, time |-> Midnight,
              duration |-> MaxDuration, age |-> NotOn, preBuzzing |-> FALSE]

IsRunning(i) == slot[i].age # NotOn

(* A slot that is not enabled does not run, so that a slot given to a new   *)
(* schedule never inherits the run of the old one.                          *)
DisabledIdle == \A i \in Slots : ~slot[i].enabled => ~IsRunning(i)

(* The type invariant: the types of the table, the scan over it and the     *)
(* time of day, and no run in a slot that is not enabled.                   *)
ScheduleTypeOK == TableTypeOK /\ DisabledIdle

InItsMinute(i) == timeOfDay \in slot[i].time .. slot[i].time + Minute - 1
(* The second the warning is due is in the tick StartDelay before the time; *)
(* there is none for a time that early in the day.                          *)
WarningTick(i) == timeOfDay = slot[i].time - StartDelay

-------------------------------------------------------------------------------
(* checkSchedules *)

(* In the grace period, before its second has passed, or without a time.    *)
SkipCheck ==
  /\ step = "schedules" /\ step' = "mqtt" /\ at = 0 /\ phase = "begin"
  /\ UNCHANGED <<sensorVars, uptime, settings, halfSaved, motorVars, scheduleVars>>

(* A disabled slot's warning is silenced outright. *)
SilenceDisabled(i) ==
  /\ ~slot[i].enabled /\ slot[i].preBuzzing
  /\ slot' = [slot EXCEPT ![i].preBuzzing = FALSE]
  /\ SilenceOutright

PreWarn(i) ==
  /\ slot[i].enabled /\ ~IsRunning(i) /\ ~slot[i].preBuzzing
  /\ settings.buzzerDelay /\ WarningTick(i)
  /\ slot' = [slot EXCEPT ![i].preBuzzing = TRUE]
  /\ BuzzerOnly(0)

DueNow(i) == slot[i].enabled /\ ~IsRunning(i) /\ InItsMinute(i)

StartSlot(i) ==
  /\ DueNow(i)
  /\ slot' = [slot EXCEPT ![i].age = 0, ![i].preBuzzing = FALSE]
  /\ StartScheduled(slot[i].motor)

(* The warning is due in one second of its tick, which the poll may miss.   *)
NothingToBegin(i) ==
  /\ ~DueNow(i) /\ (slot[i].enabled \/ ~slot[i].preBuzzing)
  /\ UNCHANGED <<slot, motorVars>>

BeginSlot(i) ==
  /\ step = "schedules" /\ uptime >= BootGrace /\ at = i /\ phase = "begin"
  /\ SilenceDisabled(i) \/ PreWarn(i) \/ StartSlot(i) \/ NothingToBegin(i)
  /\ step' = "schedules" /\ phase' = "end"
  /\ UNCHANGED <<at, timeOfDay, sensorVars, uptime, settings, halfSaved>>

(* Fault: a slot's end stops its motor whatever the other slots want. *)
ShareMotorFault(i) == {}

(* Fault: any other schedule of the motor counts, whether it runs or not. *)
ShareEnabledFault(i) == {j \in Slots \ {i} : slot[j].enabled /\ slot[j].motor = slot[i].motor}

(* The other slots that still run the motor of slot i. *)
ShareMotor(i) == {j \in Slots \ {i} : IsRunning(j) /\ slot[j].motor = slot[i].motor}

(* Fault: only the exact moment ends a run; a shortened one misses it. *)
OverFault(i) == IsRunning(i) /\ (~slot[i].enabled \/ slot[i].age = slot[i].duration)

(* The end of a run: disabled in its course, or its duration has passed.    *)
Over(i) == IsRunning(i) /\ (~slot[i].enabled \/ slot[i].age >= slot[i].duration)

EndSlot(i) ==
  /\ Over(i)
  /\ slot' = [slot EXCEPT ![i].age = NotOn]
  /\ \/ ShareMotor(i) # {} /\ UNCHANGED motorVars
     \/ ShareMotor(i) = {} /\ TurnOff({slot[i].motor})

NothingToEnd(i) ==
  /\ ~Over(i)
  /\ UNCHANGED <<slot, motorVars>>

SlotAfter(i) == IF i = LastSlot THEN 0 ELSE i + 1

NextSlot(i) ==
  /\ step = "schedules" /\ at = i /\ phase = "end"
  /\ EndSlot(i) \/ NothingToEnd(i)
  /\ phase' = "begin"
  /\ at' = SlotAfter(i)
  /\ step' = IF i = LastSlot THEN "mqtt" ELSE "schedules"
  /\ UNCHANGED <<timeOfDay, sensorVars, uptime, settings, halfSaved>>

-------------------------------------------------------------------------------
(* The commands on the schedules.  None of them interrupts checkSchedules.  *)

NotChecking == UNCHANGED <<at, phase, timeOfDay>>
MotorsUntouched == UNCHANGED <<sensorVars, uptime, settings, halfSaved, motorVars>>

FirstFree(i) == ~slot[i].enabled /\ \A j \in 0 .. i - 1 : slot[j].enabled

Added(i, e) ==
  [slot EXCEPT ![i] =
     [enabled |-> TRUE, motor |-> e.motor, time |-> e.time, duration |-> e.duration,
      age |-> NotOn, preBuzzing |-> FALSE]]

(* sched_add: the first slot that is not enabled, if any *)
AddSchedule ==
  /\ Then("mqtt", "web")
  /\ \E e \in Entries, i \in Slots : FirstFree(i) /\ slot' = Added(i, e)
  /\ NotChecking /\ MotorsUntouched

Removed(i) ==
  [slot EXCEPT ![i].enabled = FALSE, ![i].age = NotOn, ![i].time = Midnight,
               ![i].preBuzzing = FALSE]

(* sched_remove: the motor the slot was running is left to itself *)
RemoveSchedule ==
  /\ Then("mqtt", "web")
  /\ \E i \in Slots : slot' = Removed(i)
  /\ NotChecking /\ MotorsUntouched

NoSchedules == [i \in Slots |-> EmptySlot]

(* sched_clear, /clearSchedules: clearAllSchedules *)
ClearSchedules ==
  /\ Then("mqtt", "web") \/ Then("web", "clock")
  /\ slot' = NoSchedules
  /\ SilenceOutright
  /\ NotChecking
  /\ UNCHANGED <<sensorVars, uptime, settings, halfSaved>>

(* Fault: a disabled slot keeps its run. *)
RewrittenFault(i, e, on) ==
  [slot[i] EXCEPT !.enabled = on, !.motor = e.motor, !.time = e.time,
                  !.duration = e.duration]

(* /updateAllSchedules of one slot: the form holds every field of the slot, *)
(* a disabled slot stops running, a run and a warning are otherwise kept.   *)
Rewritten(i, e, on) ==
  [slot[i] EXCEPT !.enabled = on, !.motor = e.motor, !.time = e.time,
                  !.duration = e.duration, !.age = IF on THEN @ ELSE NotOn]

(* The motors of the runs a rewritten table ends. *)
Ended(new) ==
  {slot[i].motor : i \in {j \in Slots : /\ IsRunning(j)
                                        /\ ~new[j].enabled \/ new[j].time = Midnight}}

Forms == [Slots -> {e \in Entries : e.duration > 0}]
Updated(form, on) == [i \in Slots |-> Rewritten(i, form[i], i \in on)]

UpdateAllSchedules ==
  /\ Then("web", "clock")
  /\ \E form \in Forms, on \in SUBSET Slots :
       LET new == Updated(form, on) IN
       /\ slot' = new
       /\ \/ Ended(new) = {} /\ UNCHANGED motorVars
          \/ Ended(new) # {} /\ TurnOff(Ended(new))
  /\ NotChecking
  /\ UNCHANGED <<sensorVars, uptime, settings, halfSaved>>

(* Fault: cancelling de-energises the relay without a word to the owner. *)
StopCancelledFault(M) ==
  /\ EndCountdown(M) /\ StopMotorBuzzer /\ RelayOff({m \in M : Running(m)})
  /\ UNCHANGED <<source, intent, rejected, recovered>>

StopCancelled(M) == TurnOff(M)

(* /cancelSchedule: the motors of the running slots, or both if none runs.  *)
CancelSchedule ==
  LET stopped == {i \in Slots : IsRunning(i)} IN
  /\ Then("web", "clock")
  /\ slot' = [i \in Slots |-> [slot[i] EXCEPT !.age = NotOn]]
  /\ StopCancelled(IF stopped = {} THEN Motors ELSE {slot[i].motor : i \in stopped})
  /\ UNCHANGED <<at, phase, timeOfDay, sensorVars, uptime, settings, halfSaved>>

-------------------------------------------------------------------------------
(* The composition: the steps of the motor controller, its checkSchedules   *)
(* and schedule commands given by the ones above.                           *)

Elsewhere ==
  /\ \/ PollLora \/ ReadFloat \/ PollTouchOH \/ PollTouchUG
     \/ AutoControlOH \/ AutoControlUG \/ ProcessPendingOH \/ ProcessPendingUG
     \/ Recover \/ UpdateBuzzer \/ MQTTCommand \/ WebCommand \/ SetConfig \/ SamePassTime
  /\ UNCHANGED scheduleVars

TickAll ==
  /\ Tick
  /\ timeOfDay' = (timeOfDay + 1) % Day
  /\ slot' = [i \in Slots |-> [slot[i] EXCEPT !.age = Older(@, MaxDuration)]]
  /\ UNCHANGED <<at, phase>>

(* initScheduler: what NVS holds, without the runs and the warnings         *)
RestartSchedules(saved) ==
  /\ slot' = [i \in Slots |-> [saved[i] EXCEPT !.age = NotOn, !.preBuzzing = FALSE]]
  /\ at' = 0 /\ phase' = "begin"
  /\ UNCHANGED timeOfDay

RebootAll == (Reboot \/ CutSave) /\ RestartSchedules(slot)

(* A slot when only the first n of its keys have been written, in the order *)
(* of saveSchedules.                                                        *)
SlotWritten(old, new, n) ==
  [old EXCEPT !.enabled = IF n >= 1 THEN new.enabled ELSE @,
              !.motor = IF n >= 2 THEN new.motor ELSE @,
              !.time = IF n >= 3 THEN new.time ELSE @,
              !.duration = IF n >= 4 THEN new.duration ELSE @]

(* The table when a save is cut in slot i: initScheduler takes it as it is. *)
TableWritten(new, i, n) ==
  [j \in Slots |-> SlotWritten(slot[j], new[j], IF j < i THEN 4 ELSE IF j = i THEN n ELSE 0)]

RestartInSave(new) ==
  \E i \in Slots, n \in 1 .. 4 : RestartSchedules(TableWritten(new, i, n))

(* The power goes while a command on the schedules saves the table, before  *)
(* it has stopped any motor.                                                *)
CutTableSave ==
  /\ Reboot
  /\ \/ /\ step = "mqtt"
        /\ \/ \E i \in Slots, e \in Entries : FirstFree(i) /\ RestartInSave(Added(i, e))
           \/ \E i \in Slots : RestartInSave(Removed(i))
     \/ step \in {"mqtt", "web"} /\ RestartInSave(NoSchedules)
     \/ /\ step = "web"
        /\ \E form \in Forms, on \in SUBSET Slots : RestartInSave(Updated(form, on))

(* The namespaces are cleared one after the other, the schedules' last: the *)
(* power may go before that one.                                            *)
FactoryResetAll ==
  FactoryReset /\ (RestartSchedules(NoSchedules) \/ RestartSchedules(slot))

ScheduleInit ==
  /\ Init
  /\ slot = NoSchedules
  /\ at = 0 /\ phase = "begin"
  /\ timeOfDay \in 0 .. Day - 1

SlotsStep == \E i \in Slots : BeginSlot(i) \/ NextSlot(i)

SchedulePass ==
  \/ Elsewhere \/ SkipCheck \/ SlotsStep \/ AddSchedule \/ RemoveSchedule
  \/ ClearSchedules \/ UpdateAllSchedules \/ CancelSchedule \/ TickAll

ScheduleNext ==
  \/ SchedulePass
  \/ RebootAll
  \/ CutTableSave
  \/ FactoryResetAll

ScheduleSpec == ScheduleInit /\ [][ScheduleNext]_allVars

(* Passes go on, time passes, and out of the grace period the schedules are *)
(* looked at again and again.                                               *)
FairScheduleSpec ==
  /\ ScheduleSpec
  /\ WF_allVars(SchedulePass)
  /\ SF_allVars(TickAll)
  /\ SF_allVars(SlotsStep)

-------------------------------------------------------------------------------
(* Safety *)

(* The composition is a refinement of the motor controller, for which the   *)
(* scheduler is any source of starts, stops and warnings.                   *)
MotorSpec == Spec

(* The end of one of several overlapping schedules of a motor leaves the    *)
(* motor to the others.                                                     *)
OverlapKeepsRunning ==
  [][\A i \in Slots :
       IsRunning(i) /\ ~IsRunning(i)' /\ step = "schedules"
       /\ (\E j \in Slots \ {i} : IsRunning(j)' /\ slot'[j].motor = slot[i].motor)
         => (Running(slot[i].motor) => Running(slot[i].motor)')]_allVars

(* Every run the scheduler owns is a running slot's.                      *)
ScheduledRunHasSlot ==
  \A m \in Motors : Running(m) /\ source[m] = "SCHEDULED"
    => \E i \in Slots : IsRunning(i) /\ slot[i].motor = m

(* A run of the schedules always has a slot that will end it; only an edit  *)
(* of the table under a running slot (sched_remove, clearAllSchedules, or a *)
(* form that gives it the other motor) leaves the motor on without one.     *)
OrphansByEdits ==
  [][ScheduledRunHasSlot /\ ~ScheduledRunHasSlot'
     => \/ RemoveSchedule \/ ClearSchedules
        \/ /\ UpdateAllSchedules
           /\ \E i \in Slots : IsRunning(i) /\ slot'[i].motor # slot[i].motor]_allVars

(* Liveness: without a reset a schedule's run ends within its duration, a   *)
(* later check seeing to it; no sequence of edits keeps it running.         *)
SlotRunsEnd == \A i \in Slots : IsRunning(i) ~> ~IsRunning(i)
===============================================================================
