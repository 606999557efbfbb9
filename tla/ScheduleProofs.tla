---------------------------- MODULE ScheduleProofs ----------------------------
(***************************************************************************)
(* Proofs about the schedules, for every number of slots, length of the day *)
(* and entries: type correctness, that a disabled slot never runs, that     *)
(* overlapping schedules share a motor, that the composition implements the *)
(* motor controller, whose theorems it inherits, and that only edits leave  *)
(* a schedule's run without a slot to end it.                               *)
(***************************************************************************)
EXTENDS Scheduler, MotorControlProofs

(* A slot is an entry's, or has the overhead motor of an empty one.         *)
SlotsOperated == \A i \in Slots : slot[i].motor \in Operated

ScheduleInv == TableTypeOK /\ DisabledIdle /\ SlotsOperated

(* A slot is fit for the table if it has the type, runs only when enabled,  *)
(* and names a motor that is operated.                                      *)
Fit(s) == s \in SlotType /\ (~s.enabled => s.age = NotOn) /\ s.motor \in Operated

LEMMA FitSlots ==
  ASSUME TableTypeOK
  PROVE  ScheduleInv <=> \A i \in Slots : Fit(slot[i])
BY DEF ScheduleInv, TableTypeOK, DisabledIdle, SlotsOperated, IsRunning, Fit

(* Changes of one slot, or of all, that keep the table fit. *)
LEMMA OneSlot ==
  ASSUME ScheduleInv, NEW i \in Slots, NEW s, Fit(s), slot' = [slot EXCEPT ![i] = s]
  PROVE  slot' \in [Slots -> SlotType] /\ \A j \in Slots : Fit(slot'[j])
<1>1. \A j \in Slots : Fit(slot[j])
  BY FitSlots DEF ScheduleInv
<1>2. slot \in [Slots -> SlotType] /\ s \in SlotType
  BY DEF ScheduleInv, TableTypeOK, Fit
<1>3. slot' \in [Slots -> SlotType]
  BY <1>2
<1>4. \A j \in Slots : slot'[j] = IF j = i THEN s ELSE slot[j]
  BY <1>2
<1> QED
  BY <1>1, <1>3, <1>4, Zenon

LEMMA EverySlot ==
  ASSUME slot' = [i \in Slots |-> slot'[i]], \A i \in Slots : Fit(slot'[i])
  PROVE  slot' \in [Slots -> SlotType]
<1>1. \A i \in Slots : slot'[i] \in SlotType
  BY Zenon DEF Fit
<1> QED
  BY <1>1, Zenon

(* A fit table makes the next state's invariant. *)
LEMMA FitNext ==
  ASSUME slot' \in [Slots -> SlotType], \A j \in Slots : Fit(slot'[j]),
         at' \in Slots, phase' \in {"begin", "end"}, timeOfDay' \in 0 .. Day - 1
  PROVE  ScheduleInv'
BY Zenon DEF ScheduleInv, TableTypeOK, DisabledIdle, SlotsOperated, IsRunning, Fit

-------------------------------------------------------------------------------
(* The records an action leaves in a slot are fit. *)

(* What the assumptions say of times and durations *)
LEMMA Bounds ==
  /\ MaxDuration \in 0 .. MaxDuration /\ 0 \in NotOn .. MaxDuration
  /\ NotOn \in NotOn .. MaxDuration /\ 0 \in 0 .. Day - 1
  /\ \A a \in NotOn .. MaxDuration : Older(a, MaxDuration) \in NotOn .. MaxDuration
  /\ \A e \in Entries : e.motor \in Operated /\ e.time \in 0 .. Day - 1 /\ e.duration \in 0 .. MaxDuration
<1>1. MaxDuration \in Nat \ {0} /\ Day \in Nat \ {0}
  BY ScheduleAssumption
<1>2. \A e \in Entries : e \in [motor: Operated, time: 0 .. Day - 1, duration: 0 .. MaxDuration]
  BY ScheduleAssumption
<1>3. /\ MaxDuration \in 0 .. MaxDuration /\ 0 \in NotOn .. MaxDuration
      /\ NotOn \in NotOn .. MaxDuration /\ 0 \in 0 .. Day - 1
  BY <1>1 DEF NotOn
<1>4. \A a \in NotOn .. MaxDuration : Older(a, MaxDuration) \in NotOn .. MaxDuration
  BY <1>1 DEF Older, NotOn
<1>5. \A e \in Entries :
        e.motor \in Operated /\ e.time \in 0 .. Day - 1 /\ e.duration \in 0 .. MaxDuration
  BY <1>2
<1> QED
  BY <1>3, <1>4, <1>5

(* A slot that keeps its motor, and whose run, if any, is an enabled one's  *)
LEMMA FitKept ==
  ASSUME NEW s, Fit(s), NEW t \in SlotType, t.motor = s.motor,
         \/ t.enabled = s.enabled /\ (t.age = NotOn \/ s.enabled)
         \/ t.enabled = FALSE /\ t.age = NotOn
  PROVE  Fit(t)
BY Zenon DEF Fit

LEMMA FitStarted ==
  ASSUME NEW s, Fit(s), s.enabled
  PROVE  Fit([s EXCEPT !.age = 0, !.preBuzzing = FALSE])
<1> DEFINE t == [s EXCEPT !.age = 0, !.preBuzzing = FALSE]
<1>1. s \in SlotType
  BY Zenon DEF Fit
<1>2. t \in SlotType /\ t.motor = s.motor /\ t.enabled = s.enabled
  BY <1>1, Bounds DEF SlotType
<1> QED
  BY <1>2, FitKept, Zenon

LEMMA FitWarned ==
  ASSUME NEW s, Fit(s), NEW w \in BOOLEAN
  PROVE  Fit([s EXCEPT !.preBuzzing = w])
<1> DEFINE t == [s EXCEPT !.preBuzzing = w]
<1>1. s \in SlotType
  BY Zenon DEF Fit
<1>2. t \in SlotType /\ t.motor = s.motor /\ t.enabled = s.enabled /\ t.age = s.age
  BY <1>1 DEF SlotType
<1>3. t.age = NotOn \/ s.enabled
  BY <1>2, Zenon DEF Fit
<1> QED
  BY <1>2, <1>3, FitKept, Zenon

LEMMA FitStopped ==
  ASSUME NEW s, Fit(s)
  PROVE  Fit([s EXCEPT !.age = NotOn])
<1> DEFINE t == [s EXCEPT !.age = NotOn]
<1>1. s \in SlotType
  BY Zenon DEF Fit
<1>2. t \in SlotType /\ t.motor = s.motor /\ t.enabled = s.enabled /\ t.age = NotOn
  BY <1>1, Bounds DEF SlotType
<1> QED
  BY <1>2, FitKept, Zenon

LEMMA FitRemoved ==
  ASSUME NEW s, Fit(s)
  PROVE  Fit([s EXCEPT !.enabled = FALSE, !.age = NotOn, !.time = Midnight, !.preBuzzing = FALSE])
<1> DEFINE t == [s EXCEPT !.enabled = FALSE, !.age = NotOn, !.time = Midnight,
                          !.preBuzzing = FALSE]
<1>1. s \in SlotType
  BY Zenon DEF Fit
<1>2. t \in SlotType /\ t.motor = s.motor /\ t.enabled = FALSE /\ t.age = NotOn
  BY <1>1, Bounds DEF SlotType, Midnight
<1> QED
  BY <1>2, FitKept, Zenon

(* A restart makes a slot fit that has only the type and the motor.         *)
LEMMA FitReset ==
  ASSUME NEW s \in SlotType, s.motor \in Operated
  PROVE  Fit([s EXCEPT !.age = NotOn, !.preBuzzing = FALSE])
<1> DEFINE t == [s EXCEPT !.age = NotOn, !.preBuzzing = FALSE]
<1>1. t \in SlotType /\ t.motor = s.motor /\ t.age = NotOn
  BY Bounds DEF SlotType
<1> QED
  BY <1>1, Zenon DEF Fit

LEMMA FitEmpty == Fit(EmptySlot)
<1>1. EmptySlot \in SlotType
  <2>1. FALSE \in BOOLEAN /\ OH \in Motors
    BY DEF OH, Motors
  <2> QED
    BY <2>1, Bounds, Zenon DEF SlotType, EmptySlot, Midnight
<1>2. EmptySlot.age = NotOn /\ EmptySlot.motor \in Operated
  BY ScheduleAssumption DEF EmptySlot
<1> QED
  BY <1>1, <1>2, Zenon DEF Fit

LEMMA FitAged ==
  ASSUME NEW s, Fit(s)
  PROVE  Fit([s EXCEPT !.age = Older(@, MaxDuration)])
<1> DEFINE t == [s EXCEPT !.age = Older(@, MaxDuration)]
<1>1. s \in SlotType
  BY Zenon DEF Fit
<1>2. t \in SlotType /\ t.motor = s.motor /\ t.enabled = s.enabled /\ t.age = Older(s.age, MaxDuration)
  BY <1>1, Bounds DEF SlotType, Older
<1>3. s.age = NotOn => t.age = NotOn
  BY <1>2 DEF Older
<1>4. t.age = NotOn \/ s.enabled
  BY <1>3, Zenon DEF Fit
<1> QED
  BY <1>2, <1>4, FitKept, Zenon

LEMMA FitAdded ==
  ASSUME NEW e \in Entries
  PROVE  Fit([enabled |-> TRUE, motor |-> e.motor, time |-> e.time, duration |-> e.duration,
              age |-> NotOn, preBuzzing |-> FALSE])
<1> DEFINE t == [enabled |-> TRUE, motor |-> e.motor, time |-> e.time,
                 duration |-> e.duration, age |-> NotOn, preBuzzing |-> FALSE]
<1>1. t \in SlotType /\ t.motor = e.motor /\ t.age = NotOn
  BY Bounds, InputAssumption DEF SlotType
<1>2. e.motor \in Operated
  BY Bounds
<1> QED
  BY <1>1, <1>2, Zenon DEF Fit

LEMMA FitRewritten ==
  ASSUME ScheduleInv, NEW i \in Slots, NEW e \in Entries, NEW on \in BOOLEAN
  PROVE  Fit(Rewritten(i, e, on))
<1> DEFINE t == Rewritten(i, e, on)
<1>1. slot[i] \in SlotType
  BY DEF ScheduleInv, TableTypeOK
<1>2. /\ t.enabled = on /\ t.motor = e.motor
      /\ t.age = IF on THEN slot[i].age ELSE NotOn
  BY <1>1 DEF Rewritten, SlotType
<1>3. t \in SlotType
  BY <1>1, Bounds, InputAssumption DEF Rewritten, SlotType
<1>4. e.motor \in Operated
  BY Bounds
<1>5. ~on => t.age = NotOn
  BY <1>2, Zenon
<1> QED
  BY <1>2, <1>3, <1>4, <1>5, Zenon DEF Fit

-------------------------------------------------------------------------------
(* The invariant *)

LEMMA SlotFit == ScheduleInv => \A i \in Slots : Fit(slot[i])
BY FitSlots DEF ScheduleInv

(* checkSchedules: the action changes one slot, or none. *)
LEMMA BeginKeeps ==
  ASSUME ScheduleInv, NEW i \in Slots, BeginSlot(i) PROVE ScheduleInv'
<1>1. at' \in Slots /\ phase' \in {"begin", "end"} /\ timeOfDay' \in 0 .. Day - 1
  BY DEF BeginSlot, ScheduleInv, TableTypeOK
<1>2. slot \in [Slots -> SlotType] /\ Fit(slot[i])
  BY SlotFit DEF ScheduleInv, TableTypeOK
<1>3. CASE NothingToBegin(i)
  BY <1>1, <1>2, <1>3, SlotFit, FitNext, Zenon DEF NothingToBegin
<1>4. CASE SilenceDisabled(i)
  <2>1. slot' = [slot EXCEPT ![i] = [slot[i] EXCEPT !.preBuzzing = FALSE]]
    BY <1>2, <1>4 DEF SilenceDisabled
  <2> QED
    BY <1>1, <1>2, <2>1, FitWarned, OneSlot, FitNext, Zenon
<1>5. CASE PreWarn(i)
  <2>1. slot' = [slot EXCEPT ![i] = [slot[i] EXCEPT !.preBuzzing = TRUE]]
    BY <1>2, <1>5 DEF PreWarn
  <2> QED
    BY <1>1, <1>2, <2>1, FitWarned, OneSlot, FitNext, Zenon
<1>6. CASE StartSlot(i)
  <2>1. slot' = [slot EXCEPT ![i] = [slot[i] EXCEPT !.age = 0, !.preBuzzing = FALSE]]
    BY <1>2, <1>6 DEF StartSlot
  <2>2. slot[i].enabled
    BY <1>6, Zenon DEF StartSlot, DueNow
  <2> QED
    BY <1>1, <1>2, <2>1, <2>2, FitStarted, OneSlot, FitNext, Zenon
<1> QED
  BY <1>3, <1>4, <1>5, <1>6, Zenon DEF BeginSlot

LEMMA EndKeeps ==
  ASSUME ScheduleInv, NEW i \in Slots, NextSlot(i) PROVE ScheduleInv'
<1>1. at' \in Slots
  BY ScheduleAssumption DEF NextSlot, SlotAfter, Slots
<1>2. phase' \in {"begin", "end"} /\ timeOfDay' \in 0 .. Day - 1
  BY DEF NextSlot, ScheduleInv, TableTypeOK
<1>3. slot \in [Slots -> SlotType] /\ Fit(slot[i])
  BY SlotFit DEF ScheduleInv, TableTypeOK
<1>4. CASE NothingToEnd(i)
  BY <1>1, <1>2, <1>3, <1>4, SlotFit, FitNext, Zenon DEF NothingToEnd
<1>5. CASE EndSlot(i)
  <2>1. slot' = [slot EXCEPT ![i] = [slot[i] EXCEPT !.age = NotOn]]
    BY <1>3, <1>5 DEF EndSlot
  <2> QED
    BY <1>1, <1>2, <1>3, <2>1, FitStopped, OneSlot, FitNext, Zenon
<1> QED
  BY <1>4, <1>5, Zenon DEF NextSlot

(* The commands that edit one slot *)
LEMMA AddKeeps ==
  ASSUME ScheduleInv, AddSchedule PROVE ScheduleInv'
<1>1. PICK e \in Entries, i \in Slots :
        slot' = [slot EXCEPT ![i] =
          [enabled |-> TRUE, motor |-> e.motor, time |-> e.time, duration |-> e.duration,
           age |-> NotOn, preBuzzing |-> FALSE]]
  BY Zenon DEF AddSchedule, Added
<1>2. slot' \in [Slots -> SlotType] /\ \A j \in Slots : Fit(slot'[j])
  BY <1>1, FitAdded, OneSlot, Zenon
<1> QED
  BY <1>2, FitNext, Zenon DEF AddSchedule, NotChecking, ScheduleInv, TableTypeOK

LEMMA RemoveKeeps ==
  ASSUME ScheduleInv, RemoveSchedule PROVE ScheduleInv'
<1>1. PICK i \in Slots :
        slot' = [slot EXCEPT ![i].enabled = FALSE, ![i].age = NotOn, ![i].time = Midnight,
                             ![i].preBuzzing = FALSE]
  BY Zenon DEF RemoveSchedule, Removed
<1>2. slot' = [slot EXCEPT ![i] = [slot[i] EXCEPT !.enabled = FALSE, !.age = NotOn,
                                                  !.time = Midnight, !.preBuzzing = FALSE]]
  BY <1>1 DEF ScheduleInv, TableTypeOK
<1>3. slot' \in [Slots -> SlotType] /\ \A j \in Slots : Fit(slot'[j])
  BY <1>2, SlotFit, FitRemoved, OneSlot, Zenon
<1> QED
  BY <1>3, FitNext, Zenon DEF RemoveSchedule, NotChecking, ScheduleInv, TableTypeOK

(* The commands on the whole table, the clock, and the resets *)
LEMMA TableKeeps ==
  ASSUME ScheduleInv,
         \/ ClearSchedules \/ UpdateAllSchedules \/ CancelSchedule
  PROVE  ScheduleInv'
<1>1. /\ at' \in Slots /\ phase' \in {"begin", "end"} /\ timeOfDay' \in 0 .. Day - 1
  BY Zenon DEF ClearSchedules, UpdateAllSchedules, CancelSchedule, NotChecking, ScheduleInv,
     TableTypeOK
<1>2. slot' = [i \in Slots |-> slot'[i]] /\ \A i \in Slots : Fit(slot'[i])
  <2>1. CASE ClearSchedules
    BY <2>1, FitEmpty, Zenon DEF ClearSchedules, NoSchedules
  <2>2. CASE UpdateAllSchedules
    <3>1. PICK form \in Forms, on \in SUBSET Slots : slot' = Updated(form, on)
      BY <2>2, Zenon DEF UpdateAllSchedules
    <3>2. \A i \in Slots : form[i] \in Entries
      BY DEF Forms
    <3>3. \A i \in Slots : (i \in on) \in BOOLEAN
      OBVIOUS
    <3> QED
      BY <3>1, <3>2, <3>3, FitRewritten, Zenon DEF Updated
  <2>3. CASE CancelSchedule
    <3>1. slot' = [i \in Slots |-> [slot[i] EXCEPT !.age = NotOn]]
      BY <2>3, Zenon DEF CancelSchedule
    <3> QED
      BY <3>1, SlotFit, FitStopped, Zenon
  <2> QED
    BY <2>1, <2>2, <2>3
<1> QED
  BY <1>1, <1>2, EverySlot, FitNext, Zenon

LEMMA TimeKeeps ==
  ASSUME ScheduleInv, TickAll PROVE ScheduleInv'
<1>1. timeOfDay' \in 0 .. Day - 1
  BY ScheduleAssumption DEF TickAll, ScheduleInv, TableTypeOK
<1>2. at' \in Slots /\ phase' \in {"begin", "end"}
  BY DEF TickAll, ScheduleInv, TableTypeOK
<1>3. slot' = [i \in Slots |-> [slot[i] EXCEPT !.age = Older(@, MaxDuration)]]
  BY Zenon DEF TickAll
<1>4. slot' = [i \in Slots |-> slot'[i]] /\ \A i \in Slots : Fit(slot'[i])
  BY <1>3, SlotFit, FitAged, Zenon
<1> QED
  BY <1>1, <1>2, <1>4, EverySlot, FitNext, Zenon

(* A table that a restart may find in NVS                                   *)
Saved(s) == s \in SlotType /\ s.motor \in Operated

LEMMA RestartKeeps ==
  ASSUME ScheduleInv, NEW saved, \A i \in Slots : Saved(saved[i]), RestartSchedules(saved)
  PROVE  ScheduleInv'
<1>1. at' \in Slots /\ phase' \in {"begin", "end"} /\ timeOfDay' \in 0 .. Day - 1
  <2>1. 0 \in Slots
    BY ScheduleAssumption DEF Slots
  <2> QED
    BY <2>1, Zenon DEF RestartSchedules, ScheduleInv, TableTypeOK
<1>2. slot' = [i \in Slots |-> [saved[i] EXCEPT !.age = NotOn, !.preBuzzing = FALSE]]
  BY Zenon DEF RestartSchedules
<1>3. slot' = [i \in Slots |-> slot'[i]] /\ \A i \in Slots : Fit(slot'[i])
  BY <1>2, FitReset, Zenon DEF Saved
<1> QED
  BY <1>1, <1>3, EverySlot, FitNext, Zenon

(* What a save leaves of a slot when it is cut is the old one's and the     *)
(* new one's, field by field.                                               *)
LEMMA SlotWrittenSaved ==
  ASSUME NEW old, Saved(old), NEW new, Saved(new), NEW n \in Nat
  PROVE  Saved(SlotWritten(old, new, n))
<1> DEFINE t == SlotWritten(old, new, n)
<1>1. old \in SlotType /\ new \in SlotType
  BY Zenon DEF Saved
<1>2. t \in SlotType /\ (t.motor = old.motor \/ t.motor = new.motor)
  BY <1>1 DEF SlotWritten, SlotType
<1> QED
  BY <1>2, Zenon DEF Saved

LEMMA CutRestart ==
  ASSUME ScheduleInv, NEW new, \A i \in Slots : Saved(new[i]), RestartInSave(new)
  PROVE  \E saved : RestartSchedules(saved) /\ \A i \in Slots : Saved(saved[i])
<1>1. PICK i \in Slots, n \in 1 .. 4 : RestartSchedules(TableWritten(new, i, n))
  BY Zenon DEF RestartInSave
<1>2. \A j \in Slots : Saved(slot[j])
  BY SlotFit, Zenon DEF Fit, Saved
<1>3. ASSUME NEW j \in Slots PROVE Saved(TableWritten(new, i, n)[j])
  <2> DEFINE k == IF j < i THEN 4 ELSE IF j = i THEN n ELSE 0
  <2>1. k \in Nat
    OBVIOUS
  <2>2. TableWritten(new, i, n)[j] = SlotWritten(slot[j], new[j], k)
    BY Zenon DEF TableWritten
  <2> HIDE DEF k
  <2> QED
    BY <1>2, <2>1, <2>2, SlotWrittenSaved, Zenon
<1> QED
  BY <1>1, <1>3, Zenon

(* The restart of a save that is cut finds a table of types and motors.     *)
LEMMA CutTableRestart ==
  ASSUME ScheduleInv, CutTableSave
  PROVE  \E saved : RestartSchedules(saved) /\ \A i \in Slots : Saved(saved[i])
<1>1. slot \in [Slots -> SlotType] /\ \A i \in Slots : Fit(slot[i])
  BY SlotFit DEF ScheduleInv, TableTypeOK
<1>2. ASSUME NEW i \in Slots, NEW t, Fit(t) PROVE \A j \in Slots : Saved([slot EXCEPT ![i] = t][j])
  BY <1>1, <1>2, Zenon DEF Fit, Saved
<1>3. CASE \E i \in Slots, e \in Entries : RestartInSave(Added(i, e))
  <2>1. PICK i \in Slots, e \in Entries : RestartInSave(Added(i, e))
    BY <1>3, Zenon
  <2>2. \A j \in Slots : Saved(Added(i, e)[j])
    BY <1>2, FitAdded, Zenon DEF Added
  <2> QED
    BY <2>1, <2>2, CutRestart, Zenon
<1>4. CASE \E i \in Slots : RestartInSave(Removed(i))
  <2>1. PICK i \in Slots : RestartInSave(Removed(i))
    BY <1>4, Zenon
  <2>2. Removed(i) = [slot EXCEPT ![i] = [slot[i] EXCEPT !.enabled = FALSE, !.age = NotOn,
                                                         !.time = Midnight, !.preBuzzing = FALSE]]
    BY <1>1 DEF Removed
  <2>3. \A j \in Slots : Saved(Removed(i)[j])
    BY <1>1, <1>2, <2>2, FitRemoved, Zenon
  <2> QED
    BY <2>1, <2>3, CutRestart, Zenon
<1>5. CASE RestartInSave(NoSchedules)
  <2>1. \A j \in Slots : Saved(NoSchedules[j])
    BY FitEmpty, Zenon DEF NoSchedules, Fit, Saved
  <2> QED
    BY <1>5, <2>1, CutRestart, Zenon
<1>6. CASE \E form \in Forms, on \in SUBSET Slots : RestartInSave(Updated(form, on))
  <2>1. PICK form \in Forms, on \in SUBSET Slots : RestartInSave(Updated(form, on))
    BY <1>6, Zenon
  <2>2. \A j \in Slots : form[j] \in Entries /\ (j \in on) \in BOOLEAN
    BY DEF Forms
  <2>3. \A j \in Slots : Saved(Updated(form, on)[j])
    BY <2>2, FitRewritten, Zenon DEF Updated, Fit, Saved
  <2> QED
    BY <2>1, <2>3, CutRestart, Zenon
<1> QED
  BY <1>3, <1>4, <1>5, <1>6, Zenon DEF CutTableSave

(* Whatever restarts the controller, the schedules come back as a table of  *)
(* types and motors.                                                        *)
LEMMA SavedRestart ==
  ASSUME ScheduleInv, RebootAll \/ CutTableSave \/ FactoryResetAll
  PROVE  \E saved : RestartSchedules(saved) /\ \A i \in Slots : Saved(saved[i])
<1>1. \A i \in Slots : Saved(slot[i]) /\ Saved(NoSchedules[i])
  BY SlotFit, FitEmpty, Zenon DEF Fit, Saved, NoSchedules
<1>2. CASE RestartSchedules(slot) \/ RestartSchedules(NoSchedules)
  BY <1>1, <1>2, Zenon
<1> QED
  BY <1>2, CutTableRestart, Zenon DEF RebootAll, FactoryResetAll

LEMMA ScheduleInvInit == ScheduleInit => ScheduleInv
<1> SUFFICES ASSUME ScheduleInit PROVE ScheduleInv
  OBVIOUS
<1>1. 0 \in Slots
  BY ScheduleAssumption DEF Slots
<1>2. slot \in [Slots -> SlotType] /\ \A i \in Slots : Fit(slot[i])
  <2>1. slot = [i \in Slots |-> EmptySlot] /\ EmptySlot \in SlotType
    BY FitEmpty, Zenon DEF ScheduleInit, NoSchedules, Fit
  <2> QED
    BY <2>1, FitEmpty, Zenon
<1>3. TableTypeOK
  BY <1>1, <1>2, Zenon DEF ScheduleInit, TableTypeOK
<1> QED
  BY <1>2, <1>3, FitSlots

LEMMA ScheduleInvNext == ScheduleInv /\ [ScheduleNext]_allVars => ScheduleInv'
<1> SUFFICES ASSUME ScheduleInv, [ScheduleNext]_allVars
             PROVE  ScheduleInv'
  OBVIOUS
<1>1. CASE UNCHANGED <<slot, timeOfDay>> /\ at' \in Slots /\ phase' \in {"begin", "end"}
  BY <1>1, Zenon DEF ScheduleInv, TableTypeOK, DisabledIdle, SlotsOperated, IsRunning
<1>2. CASE Elsewhere \/ SkipCheck \/ UNCHANGED allVars
  <2>1. UNCHANGED scheduleVars
    BY <1>2 DEF Elsewhere, SkipCheck, allVars
  <2> QED
    BY <1>1, <2>1 DEF scheduleVars, ScheduleInv, TableTypeOK
<1>3. CASE SlotsStep
  BY <1>3, BeginKeeps, EndKeeps DEF SlotsStep
<1>4. CASE AddSchedule \/ RemoveSchedule
  BY <1>4, AddKeeps, RemoveKeeps
<1>5. CASE ClearSchedules \/ UpdateAllSchedules \/ CancelSchedule
  BY <1>5, TableKeeps
<1>6. CASE TickAll
  BY <1>6, TimeKeeps
<1>7. CASE RebootAll \/ CutTableSave \/ FactoryResetAll
  BY <1>7, SavedRestart, RestartKeeps, Zenon
<1> QED
  BY <1>2, <1>3, <1>4, <1>5, <1>6, <1>7 DEF ScheduleNext, SchedulePass

(* The table of schedules is always fit. *)
THEOREM ScheduleInvariant == ScheduleSpec => []ScheduleInv
BY ScheduleInvInit, ScheduleInvNext, PTL DEF ScheduleSpec

(* The table, the scan and the time of day keep their types, and a slot     *)
(* that is not enabled does not run: no sequence of edits hands the run of  *)
(* an old schedule to the new one in its slot.                              *)
THEOREM ScheduleTypeCorrect == ScheduleSpec => []ScheduleTypeOK
<1>1. ScheduleInv => ScheduleTypeOK
  BY DEF ScheduleInv, ScheduleTypeOK
<1> QED
  BY <1>1, ScheduleInvariant, PTL

-------------------------------------------------------------------------------
(* The composition implements the motor controller. *)

(* A slot's half of checkSchedules is a step of the controller's Schedules. *)
LEMMA BeginRefines ==
  ASSUME ScheduleInv, NEW i \in Slots, BeginSlot(i) PROVE Schedules
<1>1. step = "schedules" /\ step' \in {"schedules", "mqtt"}
      /\ UNCHANGED <<sensorVars, uptime, settings, halfSaved>>
  BY DEF BeginSlot
<1>2. CASE StartSlot(i)
  <2>1. slot[i].motor \in Operated
    BY Zenon DEF ScheduleInv, SlotsOperated
  <2> QED
    BY <1>1, <1>2, <2>1, Zenon DEF StartSlot, Schedules
<1>3. CASE SilenceDisabled(i) \/ PreWarn(i) \/ NothingToBegin(i)
  BY <1>1, <1>3, Zenon DEF SilenceDisabled, PreWarn, NothingToBegin, Schedules
<1> QED
  BY <1>2, <1>3, Zenon DEF BeginSlot

LEMMA EndRefines ==
  ASSUME ScheduleInv, NEW i \in Slots, NextSlot(i) PROVE Schedules
<1>1. step = "schedules" /\ step' \in {"schedules", "mqtt"}
      /\ UNCHANGED <<sensorVars, uptime, settings, halfSaved>>
  BY DEF NextSlot
<1>2. CASE UNCHANGED motorVars
  BY <1>1, <1>2, Zenon DEF Schedules
<1>3. CASE EndSlot(i) /\ TurnOff({slot[i].motor})
  <2>1. slot[i].motor \in Operated
    BY Zenon DEF ScheduleInv, SlotsOperated
  <2> QED
    BY <1>1, <1>3, <2>1, Zenon DEF Schedules
<1> QED
  BY <1>2, <1>3, Zenon DEF NextSlot, NothingToEnd, EndSlot

(* The commands: those that edit one slot leave the motors alone, the       *)
(* others stop motors or silence the buzzer.                                *)
LEMMA EditRefines ==
  ASSUME AddSchedule \/ RemoveSchedule PROVE MQTTCommand
BY Zenon DEF AddSchedule, RemoveSchedule, MotorsUntouched, MQTTCommand

LEMMA ClearRefines ==
  ASSUME ClearSchedules PROVE ScheduleCommand
BY Zenon DEF ClearSchedules, ScheduleCommand

LEMMA MotorsOfSlots ==
  ASSUME ScheduleInv, NEW S \in SUBSET Slots PROVE {slot[i].motor : i \in S} \in SUBSET Motors
<1>1. \A i \in S : slot[i].motor \in Motors
  BY DEF ScheduleInv, TableTypeOK, SlotType
<1> QED
  BY <1>1

LEMMA UpdateRefines ==
  ASSUME ScheduleInv, UpdateAllSchedules PROVE WebCommand \/ ScheduleCommand
<1>1. PICK new : \/ UNCHANGED motorVars
                 \/ Ended(new) # {} /\ TurnOff(Ended(new))
  BY Zenon DEF UpdateAllSchedules
<1>2. Ended(new) \in SUBSET Motors
  <2>1. {j \in Slots : IsRunning(j) /\ (~new[j].enabled \/ new[j].time = Midnight)}
          \in SUBSET Slots
    BY Zenon
  <2> QED
    BY <2>1, MotorsOfSlots, Zenon DEF Ended
<1> QED
  BY <1>1, <1>2, Zenon DEF UpdateAllSchedules, WebCommand, ScheduleCommand

LEMMA CancelRefines ==
  ASSUME ScheduleInv, CancelSchedule PROVE ScheduleCommand
<1> DEFINE stopped == {i \in Slots : IsRunning(i)}
           M == IF stopped = {} THEN Motors ELSE {slot[i].motor : i \in stopped}
<1>1. TurnOff(M)
  BY Zenon DEF CancelSchedule, StopCancelled
<1>2. M \in SUBSET Motors
  <2>1. {slot[i].motor : i \in stopped} \in SUBSET Motors
    BY MotorsOfSlots, Zenon
  <2> QED
    BY <2>1, Zenon
<1>3. M # {}
  <2>1. OH \in Motors
    BY DEF Motors
  <2>2. stopped # {} => {slot[i].motor : i \in stopped} # {}
    BY Zenon
  <2> QED
    BY <2>1, <2>2, Zenon
<1> HIDE DEF M
<1> QED
  BY <1>1, <1>2, <1>3, Zenon DEF CancelSchedule, ScheduleCommand

LEMMA MotorNext == ScheduleInv /\ [ScheduleNext]_allVars => [Next]_vars
<1> SUFFICES ASSUME ScheduleInv, [ScheduleNext]_allVars
             PROVE  Next \/ UNCHANGED vars
  BY Zenon
<1>1. CASE Elsewhere
  BY <1>1, Zenon DEF Elsewhere, Next, Pass
<1>2. CASE SkipCheck
  <2>1. Schedules
    BY <1>2, Zenon DEF SkipCheck, Schedules
  <2> QED
    BY <2>1, Zenon DEF Next, Pass
<1>3. CASE SlotsStep
  BY <1>3, BeginRefines, EndRefines, Zenon DEF SlotsStep, Next, Pass
<1>4. CASE AddSchedule \/ RemoveSchedule
  BY <1>4, EditRefines, Zenon DEF Next, Pass
<1>5. CASE ClearSchedules \/ CancelSchedule
  BY <1>5, ClearRefines, CancelRefines, Zenon DEF Next, Pass
<1>6. CASE UpdateAllSchedules
  BY <1>6, UpdateRefines, Zenon DEF Next, Pass
<1>7. CASE TickAll
  BY <1>7, Zenon DEF TickAll, Next, Pass
<1>8. CASE RebootAll \/ CutTableSave \/ FactoryResetAll
  BY <1>8, Zenon DEF RebootAll, CutTableSave, FactoryResetAll, Next
<1>9. CASE UNCHANGED allVars
  BY <1>9 DEF allVars
<1> QED
  BY <1>1, <1>2, <1>3, <1>4, <1>5, <1>6, <1>7, <1>8, <1>9, Zenon DEF ScheduleNext, SchedulePass

(* Whatever the users enter, edit and cancel, the scheduler does to the     *)
(* motors only what the motor controller's own model allows.                *)
THEOREM ScheduleImplementsMotor == ScheduleSpec => MotorSpec
<1>1. ScheduleInit => Init
  BY Zenon DEF ScheduleInit
<1>2. ScheduleInv /\ [ScheduleNext]_allVars => [Next]_vars
  BY MotorNext
<1> QED
  BY <1>1, <1>2, ScheduleInvariant, PTL DEF ScheduleSpec, MotorSpec, Spec

(* Hence with schedules, too, a motor at rest has no owner, a countdown is  *)
(* the auto-control's or a user's, a run and a countdown exclude each other *)
(* until boot recovery, and when checkSchedules is reached a FULL tank and  *)
(* the maximum runtime have stopped what they stop, schedules' runs too.    *)
THEOREM ScheduledMotorsSafe ==
  ScheduleSpec => [](TypeOK /\ SourceOwnsMotor /\ CountdownExcludesRun
                     /\ FullStopsOverhead /\ RuntimeLimited)
<1>1. ScheduleSpec => Spec
  BY ScheduleImplementsMotor DEF MotorSpec
<1> QED
  BY <1>1, TypeCorrect, Ownership, Exclusion, FullStops, RuntimesLimited, PTL

(* With schedules, too, a warning lasts as long as its countdown unless the *)
(* scheduler silences it, no unscheduled start is unwarned, every automatic *)
(* one is justified, the intents in NVS follow the runs, and the level is   *)
(* as the radio link promises.                                              *)
THEOREM ScheduledStepsSafe ==
  ScheduleSpec => /\ WarnedWhileCounting /\ NoUnwarnedStart /\ AutoStartJustified
                  /\ IntentFollowsRun /\ Sensed!Spec
BY ScheduleImplementsMotor, Warning, NoStartUnwarned, AutoStarts, IntentFollows, SensesTankLevel
DEF MotorSpec

-------------------------------------------------------------------------------
(* Overlapping schedules *)

LEMMA OverlapStep ==
  ASSUME ScheduleInv, ScheduleNext, step = "schedules",
         NEW i \in Slots, IsRunning(i), ~IsRunning(i)',
         NEW j \in Slots \ {i}, IsRunning(j)', slot'[j].motor = slot[i].motor
  PROVE  UNCHANGED motorVars /\ slot'[i].motor = slot[i].motor
<1>1. CASE \E k \in Slots : NextSlot(k)
  <2>1. PICK k \in Slots : NextSlot(k)
    BY <1>1
  <2>2. EndSlot(k)
    BY <2>1, Zenon DEF NextSlot, NothingToEnd, IsRunning
  <2>3. k = i /\ slot'[j] = slot[j]
    BY <2>2 DEF EndSlot, IsRunning, ScheduleInv, TableTypeOK
  <2>4. j \in ShareMotor(i)
    BY <2>3, Zenon DEF ShareMotor, IsRunning
  <2>5. slot'[i].motor = slot[i].motor
    BY <2>2, <2>3 DEF EndSlot, ScheduleInv, TableTypeOK, SlotType
  <2> QED
    BY <2>2, <2>3, <2>4, <2>5, Zenon DEF EndSlot
<1>2. CASE \E k \in Slots : BeginSlot(k)
  <2>1. PICK k \in Slots : BeginSlot(k)
    BY <1>2
  <2>2. slot[i].age # NotOn /\ slot'[i].age = NotOn
    BY Zenon DEF IsRunning
  <2>3. slot'[i].age = slot[i].age \/ slot'[i].age = 0
    BY <2>1 DEF BeginSlot, SilenceDisabled, PreWarn, StartSlot, NothingToBegin, ScheduleInv,
       TableTypeOK, SlotType
  <2> QED
    BY <2>2, <2>3 DEF NotOn
<1>3. ASSUME NEW saved, RestartSchedules(saved), \A k \in Slots : Saved(saved[k])
      PROVE  FALSE
  <2>1. slot'[j] = [saved[j] EXCEPT !.age = NotOn, !.preBuzzing = FALSE] /\ saved[j] \in SlotType
    BY <1>3, Zenon DEF RestartSchedules, Saved
  <2>2. slot'[j].age = NotOn
    BY <2>1 DEF SlotType
  <2> QED
    BY <2>2, Zenon DEF IsRunning
<1>4. CASE Elsewhere \/ SkipCheck
  <2>1. slot' = slot
    BY <1>4 DEF Elsewhere, SkipCheck, scheduleVars
  <2> QED
    BY <2>1, Zenon DEF IsRunning
<1>5. CASE AddSchedule \/ RemoveSchedule \/ ClearSchedules \/ UpdateAllSchedules
           \/ CancelSchedule \/ TickAll
  <2>1. step \in {"mqtt", "web", "clock"}
    BY <1>5 DEF AddSchedule, RemoveSchedule, ClearSchedules, UpdateAllSchedules,
       CancelSchedule, TickAll, Tick, Then
  <2> QED
    BY <2>1
<1>6. CASE RebootAll \/ CutTableSave \/ FactoryResetAll
  BY <1>3, <1>6, SavedRestart, Zenon
<1> QED
  BY <1>1, <1>2, <1>4, <1>5, <1>6, Zenon DEF ScheduleNext, SchedulePass, SlotsStep

(* The end of a slot's run leaves the motor to the other slots running it.  *)
THEOREM Overlaps == ScheduleSpec => OverlapKeepsRunning
<1> DEFINE Kept(i) ==
      IsRunning(i) /\ ~IsRunning(i)' /\ step = "schedules"
      /\ (\E j \in Slots \ {i} : IsRunning(j)' /\ slot'[j].motor = slot[i].motor)
        => (Running(slot[i].motor) => Running(slot[i].motor)')
<1>1. ASSUME ScheduleInv, ScheduleNext, NEW i \in Slots
      PROVE  Kept(i)
  <2> SUFFICES ASSUME IsRunning(i), ~IsRunning(i)', step = "schedules",
                      NEW j \in Slots \ {i}, IsRunning(j)', slot'[j].motor = slot[i].motor,
                      Running(slot[i].motor)
               PROVE  Running(slot[i].motor)'
    BY Zenon
  <2>1. UNCHANGED motorVars /\ slot'[i].motor = slot[i].motor
    BY <1>1, OverlapStep
  <2>2. runtime' = runtime
    BY <2>1 DEF motorVars
  <2> QED
    BY <2>1, <2>2, Zenon DEF Running
<1>2. ScheduleInv /\ [ScheduleNext]_allVars => [\A i \in Slots : Kept(i)]_allVars
  BY <1>1
<1> QED
  BY <1>2, ScheduleInvariant, PTL DEF ScheduleSpec, OverlapKeepsRunning

-------------------------------------------------------------------------------
(* Runs without a slot to end them.  A claim is a run the scheduler owns.   *)

Claimed(m) == Running(m) /\ source[m] = "SCHEDULED"

(* Every operation but the scheduler's own start only ever drops claims: a  *)
(* motor that may be started has no owner or a countdown's, and no          *)
(* countdown is the scheduler's.                                            *)
LEMMA TurnOnClaims ==
  ASSUME TypeOK, SourceOwnsMotor, NEW m \in Motors, TurnOn(m)
  PROVE  \A n \in Motors : Claimed(n)' => Claimed(n)
<1>1. CASE UNCHANGED <<runtime, source>>
  BY <1>1 DEF Claimed, Running
<1>2. CASE /\ ~Running(m) /\ ~Pending(m) /\ Begin(m)
           /\ source' = [source EXCEPT ![m] = IF @ = "NONE" THEN "MANUAL" ELSE @]
  <2>1. source[m] = "NONE"
    BY <1>2 DEF SourceOwnsMotor
  <2>2. source'[m] = "MANUAL" /\ \A n \in Motors \ {m} : source'[n] = source[n]
    BY <1>2, <2>1 DEF TypeOK
  <2>3. \A n \in Motors : Running(n)' => Running(n) \/ n = m
    BY <1>2, BeginEffect
  <2> QED
    BY <2>2, <2>3 DEF Claimed
<1> QED
  BY <1>1, <1>2, Zenon DEF TurnOn, RelayUntouched

LEMMA TurnOffClaims ==
  ASSUME TypeOK, NEW M, TurnOff(M)
  PROVE  \A n \in Motors : Claimed(n)' => Claimed(n) /\ n \notin M
<1>1. \A n \in Motors : source'[n] = IF n \in M THEN "NONE" ELSE source[n]
  BY Zenon DEF TurnOff
<1>2. \A n \in Motors : Running(n)' => Running(n)
  BY RelayOffEffect, Zenon DEF TurnOff
<1> QED
  BY <1>1, <1>2 DEF Claimed

LEMMA AutoControlClaims ==
  ASSUME TypeOK, SourceOwnsMotor, NEW m \in Motors, NEW verdict, AutoControl(m, verdict)
  PROVE  \A n \in Motors : Claimed(n)' => Claimed(n)
<1>1. CASE UNCHANGED motorVars
  BY <1>1 DEF motorVars, Claimed, Running
<1>2. CASE AutoStop(m, verdict) \/ AutoCancel(m)
  <2>1. source' = [source EXCEPT ![m] = "NONE"]
    BY <1>2, Zenon DEF AutoStop, AutoCancel
  <2>2. \A n \in Motors : Running(n)' => Running(n)
    BY <1>2, RelayOffEffect, RelayUntouchedEffect, Zenon DEF AutoStop, AutoCancel
  <2> QED
    BY <2>1, <2>2 DEF Claimed, TypeOK
<1>3. CASE source' = [source EXCEPT ![m] = "AUTO"] /\ Begin(m)
  BY <1>3, BeginEffect DEF Claimed, TypeOK
<1> QED
  BY <1>1, <1>2, <1>3, Zenon DEF AutoControl

LEMMA CountdownDoneClaims ==
  ASSUME TypeOK, SourceOwnsMotor, NEW m \in Motors, Pending(m), CountdownDone(m)
  PROVE  \A n \in Motors : Claimed(n)' => Claimed(n)
<1>1. source[m] # "SCHEDULED"
  BY DEF SourceOwnsMotor
<1>2. \/ UNCHANGED source /\ RelayOn({m})
      \/ source' = [source EXCEPT ![m] = "NONE"] /\ RelayUntouched
  BY Zenon DEF CountdownDone
<1>3. \A n \in Motors : Running(n)' => Running(n) \/ n = m
  BY <1>2, RelayOnEffect, RelayUntouchedEffect
<1> QED
  BY <1>1, <1>2, <1>3 DEF Claimed, TypeOK

LEMMA BootRecoveryClaims ==
  ASSUME TypeOK, BootRecovery
  PROVE  \A n \in Motors : Claimed(n)' => Claimed(n)
BY BootRecoveryEffect DEF Claimed

LEMMA ElsewhereClaims ==
  ASSUME TypeOK, SourceOwnsMotor, Elsewhere
  PROVE  \A n \in Motors : Claimed(n)' => Claimed(n)
<1>1. CASE UNCHANGED <<runtime, source>>
  BY <1>1 DEF Claimed, Running
<1>2. CASE \E m \in Motors : TurnOn(m) \/ TurnOff({m})
  BY <1>2, TurnOnClaims, TurnOffClaims, Zenon
<1>3. CASE \E m \in Motors : Touch(m)
  BY <1>1, <1>2, <1>3, Zenon DEF Touch, motorVars
<1>4. CASE AutoControl(OH, OHVerdict) \/ AutoControl(UG, UGVerdict)
  BY <1>4, AutoControlClaims DEF Motors
<1>5. CASE \E m \in Motors : ProcessPending(m)
  <2>1. PICK m \in Motors : ProcessPending(m)
    BY <1>5
  <2>2. CASE countdown[m] >= StartDelay /\ CountdownDone(m)
    <3>1. Pending(m)
      BY <2>2, TimeAssumption DEF Pending, NotOn, TypeOK
    <3> QED
      BY <2>2, <3>1, CountdownDoneClaims
  <2> QED
    BY <1>1, <2>1, <2>2 DEF ProcessPending, motorVars
<1>6. CASE Recover
  BY <1>1, <1>6, BootRecoveryClaims DEF Recover, motorVars
<1>7. CASE PollLora \/ ReadFloat \/ SetConfig \/ SamePassTime \/ UpdateBuzzer
  BY <1>1, <1>7 DEF PollLora, ReadFloat, SetConfig, SamePassTime, UpdateBuzzer, motorVars
<1>8. CASE MQTTCommand \/ WebCommand
  <2>1. Operated \subseteq Motors
    BY InputAssumption
  <2> QED
    BY <1>1, <1>2, <1>8, <2>1 DEF MQTTCommand, WebCommand, BuzzerOnly, motorVars
<1> QED
  BY <1>3, <1>4, <1>5, <1>6, <1>7, <1>8
  DEF Elsewhere, PollTouchOH, PollTouchUG, AutoControlOH, AutoControlUG, ProcessPendingOH,
      ProcessPendingUG, Motors

(* A run of the schedules keeps its slot while no claim is new and every    *)
(* running slot stays with its motor.                                       *)
LEMMA ClaimsKept ==
  ASSUME ScheduledRunHasSlot,
         \A m \in Motors : Claimed(m)' => Claimed(m),
         \A i \in Slots : IsRunning(i) => IsRunning(i)' /\ slot'[i].motor = slot[i].motor
  PROVE  ScheduledRunHasSlot'
BY Zenon DEF ScheduledRunHasSlot, Claimed

LEMMA SameClaims ==
  ASSUME UNCHANGED <<runtime, source>> PROVE \A m \in Motors : Claimed(m)' => Claimed(m)
BY DEF Claimed, Running

(* A slot that starts is there for the run it starts. *)
LEMMA BeginOrphans ==
  ASSUME TypeOK, ScheduleInv, ScheduledRunHasSlot, NEW i \in Slots, BeginSlot(i)
  PROVE  ScheduledRunHasSlot'
<1>1. slot \in [Slots -> SlotType]
  BY DEF ScheduleInv, TableTypeOK
<1>2. \A j \in Slots : IsRunning(j) => IsRunning(j)' /\ slot'[j].motor = slot[j].motor
  BY <1>1 DEF BeginSlot, SilenceDisabled, PreWarn, StartSlot, DueNow, NothingToBegin, IsRunning,
     SlotType
<1>3. CASE StartSlot(i)
  <2>1. IsRunning(i)' /\ slot'[i].motor = slot[i].motor
    BY <1>1, <1>3 DEF StartSlot, IsRunning, SlotType, NotOn
  <2>2. slot[i].motor \in Motors
    BY <1>1 DEF SlotType
  <2>3. \A m \in Motors : Claimed(m)' => Claimed(m) \/ m = slot[i].motor
    <3> DEFINE started == slot[i].motor
    <3>1. StartScheduled(started)
      BY <1>3, Zenon DEF StartSlot
    <3> HIDE DEF started
    <3>2. CASE UNCHANGED <<runtime, source>>
      BY <3>2, SameClaims, Zenon
    <3>3. CASE RelayOn({started}) /\ source' = [source EXCEPT ![started] = "SCHEDULED"]
      <4>1. \A m \in Motors : Running(m)' <=> Running(m) \/ m = started
        BY <3>3, RelayOnEffect
      <4>2. \A m \in Motors : m # started => source'[m] = source[m]
        BY <3>3 DEF TypeOK
      <4> QED
        BY <4>1, <4>2, Zenon DEF Claimed, started
    <3> QED
      BY <3>1, <3>2, <3>3, Zenon DEF StartScheduled, RelayUntouched, started
  <2> QED
    BY <1>2, <2>1, <2>2, <2>3, Zenon DEF ScheduledRunHasSlot, Claimed
<1>4. CASE SilenceDisabled(i) \/ PreWarn(i) \/ NothingToBegin(i)
  <2>1. UNCHANGED <<runtime, source>>
    BY <1>4 DEF SilenceDisabled, SilenceOutright, PreWarn, NothingToBegin, BuzzerOnly, motorVars
  <2> QED
    BY <1>2, <2>1, SameClaims, ClaimsKept
<1> QED
  BY <1>3, <1>4, Zenon DEF BeginSlot

(* A slot that ends leaves its motor to another, or turns it off. *)
LEMMA EndOrphans ==
  ASSUME TypeOK, ScheduleInv, ScheduledRunHasSlot, NEW i \in Slots, NextSlot(i)
  PROVE  ScheduledRunHasSlot'
<1>1. slot \in [Slots -> SlotType]
  BY DEF ScheduleInv, TableTypeOK
<1>2. CASE NothingToEnd(i)
  BY <1>2, SameClaims, ClaimsKept DEF NothingToEnd, motorVars, IsRunning
<1>3. CASE EndSlot(i)
  <2>1. \A j \in Slots \ {i} : slot'[j] = slot[j]
    BY <1>1, <1>3, Zenon DEF EndSlot
  <2>2. CASE ShareMotor(i) # {} /\ UNCHANGED motorVars
    <3>1. PICK k \in Slots \ {i} : IsRunning(k) /\ slot[k].motor = slot[i].motor
      BY <2>2, Zenon DEF ShareMotor
    <3>2. \A m \in Motors : Claimed(m)' => Claimed(m)
      BY <2>2, SameClaims DEF motorVars
    <3>3. IsRunning(k)' /\ slot'[k].motor = slot[i].motor
      BY <2>1, <3>1, Zenon DEF IsRunning
    <3> QED
      BY <2>1, <3>2, <3>3, Zenon DEF ScheduledRunHasSlot, Claimed, IsRunning
  <2>3. CASE TurnOff({slot[i].motor})
    <3>1. \A m \in Motors : Claimed(m)' => Claimed(m) /\ m # slot[i].motor
      BY <2>3, TurnOffClaims, Zenon
    <3> QED
      BY <2>1, <3>1, Zenon DEF ScheduledRunHasSlot, Claimed, IsRunning
  <2> QED
    BY <1>3, <2>2, <2>3, Zenon DEF EndSlot
<1> QED
  BY <1>2, <1>3, Zenon DEF NextSlot

(* A new schedule takes a slot that does not run. *)
LEMMA AddOrphans ==
  ASSUME ScheduleInv, ScheduledRunHasSlot, AddSchedule PROVE ScheduledRunHasSlot'
<1>1. PICK i \in Slots : ~slot[i].enabled /\ \E t : slot' = [slot EXCEPT ![i] = t]
  BY Zenon DEF AddSchedule, FirstFree, Added
<1>2. ~IsRunning(i)
  BY <1>1, Zenon DEF ScheduleInv, DisabledIdle
<1>3. \A j \in Slots \ {i} : slot'[j] = slot[j]
  BY <1>1, Zenon DEF ScheduleInv, TableTypeOK
<1>4. UNCHANGED <<runtime, source>>
  BY DEF AddSchedule, MotorsUntouched, motorVars
<1> QED
  BY <1>2, <1>3, <1>4, SameClaims, ClaimsKept DEF IsRunning

(* A cancellation turns off the motor of every slot it stops. *)
LEMMA CancelOrphans ==
  ASSUME TypeOK, ScheduledRunHasSlot, CancelSchedule PROVE ScheduledRunHasSlot'
<1> DEFINE stopped == {i \in Slots : IsRunning(i)}
           M == IF stopped = {} THEN Motors ELSE {slot[i].motor : i \in stopped}
<1>1. TurnOff(M)
  BY Zenon DEF CancelSchedule, StopCancelled
<1>2. \A m \in Motors : Claimed(m) => m \in M
  BY Zenon DEF ScheduledRunHasSlot, Claimed
<1> HIDE DEF M
<1> QED
  BY <1>1, <1>2, TurnOffClaims, Zenon DEF ScheduledRunHasSlot, Claimed

(* Time changes neither who runs nor who owns. *)
LEMMA OlderOn ==
  ASSUME NEW limit \in Int, NEW age \in NotOn .. limit
  PROVE  Older(age, limit) # NotOn <=> age # NotOn
BY DEF Older, NotOn

LEMMA TickOrphans ==
  ASSUME TypeOK, ScheduleInv, ScheduledRunHasSlot, TickAll PROVE ScheduledRunHasSlot'
<1>1. \A m \in Motors : Claimed(m)' => Claimed(m)
  <2>1. source' = source /\ \A m \in Motors : runtime'[m] = Older(runtime[m], MaxRun)
    BY DEF TickAll, Tick
  <2>2. \A m \in Motors : runtime[m] \in NotOn .. MaxRun
    BY DEF TypeOK
  <2>3. MaxRun \in Int
    BY TimeAssumption
  <2> QED
    BY <2>1, <2>2, <2>3, OlderOn DEF Claimed, Running
<1>2. \A i \in Slots : /\ slot'[i].motor = slot[i].motor
                       /\ slot'[i].age = Older(slot[i].age, MaxDuration)
  <2>1. \A i \in Slots : slot'[i] = [slot[i] EXCEPT !.age = Older(@, MaxDuration)]
    BY Zenon DEF TickAll
  <2> QED
    BY <2>1 DEF ScheduleInv, TableTypeOK, SlotType
<1>3. \A i \in Slots : IsRunning(i) => IsRunning(i)'
  <2>1. \A i \in Slots : slot[i].age \in NotOn .. MaxDuration
    BY DEF ScheduleInv, TableTypeOK, SlotType
  <2>2. MaxDuration \in Int
    BY ScheduleAssumption
  <2> QED
    BY <1>2, <2>1, <2>2, OlderOn DEF IsRunning
<1> QED
  BY <1>1, <1>2, <1>3, ClaimsKept

(* A form ends the runs of the slots it disables or gives the time of an    *)
(* empty one, and turns off their motors; it leaves the other runs, and     *)
(* those keep their slots if it leaves them their motors.                   *)
LEMMA UpdateOrphans ==
  ASSUME TypeOK, ScheduleInv, ScheduledRunHasSlot, UpdateAllSchedules,
         \A i \in Slots : IsRunning(i) => slot'[i].motor = slot[i].motor
  PROVE  ScheduledRunHasSlot'
<1>1. PICK form \in Forms, on \in SUBSET Slots :
        /\ slot' = Updated(form, on)
        /\ \/ Ended(slot') = {} /\ UNCHANGED motorVars
           \/ Ended(slot') # {} /\ TurnOff(Ended(slot'))
  BY Zenon DEF UpdateAllSchedules
<1>2. \A m \in Motors : Claimed(m)' => Claimed(m) /\ m \notin Ended(slot')
  <2>1. CASE Ended(slot') = {} /\ UNCHANGED motorVars
    BY <2>1, SameClaims DEF motorVars
  <2>2. CASE TurnOff(Ended(slot'))
    BY <2>2, TurnOffClaims, Zenon
  <2> QED
    BY <1>1, <2>1, <2>2, Zenon
<1>3. ASSUME NEW i \in Slots, IsRunning(i), slot[i].motor \notin Ended(slot')
      PROVE  IsRunning(i)'
  <2>1. slot'[i].enabled
    BY <1>3, Zenon DEF Ended
  <2>2. slot'[i] = Rewritten(i, form[i], i \in on) /\ slot[i] \in SlotType
    BY <1>1, Zenon DEF Updated, ScheduleInv, TableTypeOK
  <2>3. slot'[i].enabled = (i \in on) /\ (i \in on => slot'[i].age = slot[i].age)
    BY <2>2 DEF Rewritten, SlotType
  <2> QED
    BY <1>3, <2>1, <2>3, Zenon DEF IsRunning
<1> QED
  BY <1>2, <1>3, Zenon DEF ScheduledRunHasSlot, Claimed

(* A form that gives a running slot the other motor *)
MotorMoved ==
  UpdateAllSchedules /\ \E i \in Slots : IsRunning(i) /\ slot'[i].motor # slot[i].motor

LEMMA OrphanStep ==
  ASSUME TypeOK, SourceOwnsMotor, ScheduleInv, [ScheduleNext]_allVars,
         ScheduledRunHasSlot, ~ScheduledRunHasSlot'
  PROVE  RemoveSchedule \/ ClearSchedules \/ MotorMoved
<1>1. CASE Elsewhere
  <2>1. slot' = slot
    BY <1>1 DEF Elsewhere, scheduleVars
  <2> QED
    BY <1>1, <2>1, ElsewhereClaims, ClaimsKept DEF IsRunning
<1>2. CASE SkipCheck \/ UNCHANGED allVars
  <2>1. UNCHANGED <<runtime, source, slot>>
    BY <1>2 DEF SkipCheck, allVars, vars, motorVars, scheduleVars
  <2> QED
    BY <2>1, SameClaims, ClaimsKept DEF IsRunning
<1>3. CASE SlotsStep
  BY <1>3, BeginOrphans, EndOrphans, Zenon DEF SlotsStep
<1>4. CASE AddSchedule \/ CancelSchedule \/ TickAll
  BY <1>4, AddOrphans, CancelOrphans, TickOrphans, Zenon
<1>5. CASE RebootAll \/ CutTableSave \/ FactoryResetAll
  <2>1. Restart
    BY <1>5, Zenon DEF RebootAll, CutTableSave, FactoryResetAll, Reboot, CutSave, FactoryReset
  <2>2. \A m \in Motors : ~Running(m)'
    BY <2>1 DEF Restart, Running
  <2> QED
    BY <2>2, Zenon DEF ScheduledRunHasSlot
<1>6. CASE UpdateAllSchedules
  BY <1>6, UpdateOrphans, Zenon DEF MotorMoved
<1> QED
  BY <1>1, <1>2, <1>3, <1>4, <1>5, <1>6, Zenon DEF ScheduleNext, SchedulePass

(* A motor the schedules run always has a running slot that will end it,    *)
(* until the slot is removed or cleared or a form gives it the other motor: *)
(* no start, end, overlap, cancellation, other form, save cut short or      *)
(* reset, and none of the other handlers, leaves it on without one.         *)
THEOREM Orphans == ScheduleSpec => OrphansByEdits
<1>1. TypeOK /\ SourceOwnsMotor /\ ScheduleInv /\ [ScheduleNext]_allVars
        => [ScheduledRunHasSlot /\ ~ScheduledRunHasSlot'
            => RemoveSchedule \/ ClearSchedules \/ MotorMoved]_allVars
  BY OrphanStep, Zenon
<1>2. ScheduleSpec => [](TypeOK /\ SourceOwnsMotor /\ CountdownExcludesRun
                         /\ FullStopsOverhead /\ RuntimeLimited)
  BY ScheduledMotorsSafe
<1> QED
  BY <1>1, <1>2, ScheduleInvariant, PTL DEF ScheduleSpec, OrphansByEdits, MotorMoved
===============================================================================
