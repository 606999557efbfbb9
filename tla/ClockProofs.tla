----------------------------- MODULE ClockProofs ------------------------------
(***************************************************************************)
(* The clock is never ahead of the true time and resumes, after a cut or a  *)
(* restart, no earlier than one save period before it, for every period.   *)
(***************************************************************************)
EXTENDS Clock, TLAPS

(* The strengthening of the type invariant: nothing holds a time that has   *)
(* not been reached, and before the restoration of the WiFi task the clock  *)
(* is what setup() has made of it.                                         *)
NothingAhead ==
  /\ clock <= time /\ rtc <= time /\ epoch <= time /\ lastSync <= time /\ rtcRead <= time
  /\ ~powered => ~restored /\ clock = 0 /\ rtcRead = Nothing
  /\ ~restored => lastSync = 0
ClockInv == ClockTypeOK /\ NothingAhead

LEMMA ClockStep == ClockInv /\ [ClockNext]_clockVars => ClockInv'
<1> SUFFICES ASSUME ClockInv, [ClockNext]_clockVars PROVE ClockInv'
  OBVIOUS
<1> USE ClockAssumption DEF ClockInv, ClockTypeOK, NothingAhead, Moments, Nothing
<1>1. CASE TickClock
  <2>1. time' = time + 1 /\ time' \in Moments /\ powered' = powered /\ restored' = restored
        /\ UNCHANGED <<battery, rtcFound, epoch, lastSync, rtcRead, resetting, uncopied, atCut>>
    BY <1>1 DEF TickClock
  <2>2. clock' \in {clock, clock + 1} /\ rtc' \in {rtc, rtc + 1} /\ (~powered => clock' = clock)
    BY <1>1 DEF TickClock
  <2>3. saveAge' \in 0 .. SavePeriod
    BY <1>1 DEF TickClock
  <2>4. clock' \in Moments /\ clock' <= time' /\ rtc' \in Moments /\ rtc' <= time'
    BY <2>1, <2>2
  <2>5. rtcRead' <= time' /\ epoch' <= time' /\ lastSync' <= time'
    BY <2>1
  <2>6. QED
    BY <2>1, <2>2, <2>3, <2>4, <2>5
<1>2. CASE CutClock
  <2>1. rtc' \in Moments /\ rtc' <= time' /\ atCut' \in Moments
    BY <1>2 DEF CutClock, SessionEnds
  <2>2. 0 \in Moments /\ 0 <= time /\ -1 <= time /\ 0 \in 0 .. SavePeriod
    OBVIOUS
  <2>3. QED
    BY <1>2, <2>1, <2>2 DEF CutClock, SessionEnds
<1>3. CASE InitRTC
  BY <1>3 DEF InitRTC, InitialClock
<1>4. CASE Restore
  BY <1>4 DEF Restore
<1>5. CASE Synchronize
  <2>1. /\ clock' = time /\ lastSync' = time /\ epoch' = time /\ rtc' \in {rtc, time}
        /\ UNCHANGED <<powered, restored, time, battery, rtcFound, saveAge, rtcRead, resetting,
                       atCut>>
    BY <1>5 DEF Synchronize
  <2>2. uncopied' \in BOOLEAN /\ restored
    BY <1>5 DEF Synchronize
  <2>3. QED
    BY <2>1, <2>2
<1>6. CASE SaveEpoch
  <2>1. /\ saveAge' = 0 /\ epoch' \in {clock, epoch}
        /\ UNCHANGED <<powered, restored, time, clock, rtc, battery, rtcFound, lastSync, rtcRead,
                       resetting, atCut>>
    BY <1>6 DEF SaveEpoch
  <2>2. uncopied' \in BOOLEAN
    <3>1. CASE epoch' = clock
      BY <1>6, <3>1 DEF SaveEpoch
    <3>2. CASE epoch' # clock
      BY <1>6, <3>2 DEF SaveEpoch
    <3>3. QED
      BY <3>1, <3>2
  <2>3. QED
    BY <2>1, <2>2
<1>7. CASE ReadRTC
  <2>1. rtcRead' = rtc /\ UNCHANGED <<powered, restored, time, clock, rtc, battery, rtcFound,
                                   epoch, lastSync, saveAge, resetting, uncopied, atCut>>
    BY <1>7 DEF ReadRTC
  <2>2. powered /\ rtcRead' \in Moments /\ rtcRead' <= time'
    BY <1>7, <2>1 DEF ReadRTC
  <2>3. QED
    BY <2>1, <2>2
<1>8. CASE ApplyRTC
  <2>1. rtcRead \in Moments /\ -1 <= time
    BY <1>8 DEF ApplyRTC
  <2>2. clock' \in Moments /\ clock' <= time' /\ rtcRead' = Nothing /\ rtcRead' <= time'
        /\ UNCHANGED <<powered, restored, time, rtc, battery, rtcFound, epoch, lastSync,
                       saveAge, resetting, uncopied, atCut>>
    BY <1>8, <2>1 DEF ApplyRTC
  <2>3. powered
    BY <1>8 DEF ApplyRTC
  <2>4. QED
    BY <2>2, <2>3
<1>9. CASE UNCHANGED clockVars
  BY <1>9 DEF clockVars
<1>10. CASE ClearEpoch
  BY <1>10 DEF ClearEpoch
<1>11. CASE RestartClock
  <2>1. atCut' \in Moments /\ 0 \in 0 .. SavePeriod /\ -1 <= time /\ 0 <= time
    BY <1>11 DEF RestartClock
  <2>2. clock' \in Moments /\ clock' <= time
    BY <1>11 DEF RestartClock, InitialClock
  <2>3. uncopied' \in BOOLEAN
    BY <1>11 DEF RestartClock
  <2>4. /\ powered' = TRUE /\ restored' = FALSE /\ resetting' = FALSE
        /\ lastSync' = 0 /\ saveAge' = 0 /\ rtcRead' = Nothing
        /\ UNCHANGED <<time, battery, rtcFound, epoch, rtc>>
    BY <1>11 DEF RestartClock, SessionEnds
  <2>5. rtc <= time /\ epoch <= time /\ rtc \in Moments /\ epoch \in Moments
    OBVIOUS
  <2>6. ClockTypeOK'
    <3>1. /\ powered' \in BOOLEAN /\ restored' \in BOOLEAN /\ resetting' \in BOOLEAN
          /\ battery' \in BOOLEAN /\ rtcFound' \in BOOLEAN
      BY <2>4
    <3>2. /\ time' \in Moments /\ rtc' \in Moments /\ epoch' \in Moments
          /\ lastSync' \in Moments /\ saveAge' \in 0 .. SavePeriod
          /\ rtcRead' \in Moments \cup {Nothing}
      BY <2>1, <2>4
    <3>3. QED
      BY <2>1, <2>2, <2>3, <3>1, <3>2
  <2>7. NothingAhead'
    BY <2>1, <2>2, <2>4, <2>5
  <2>8. QED
    BY <2>6, <2>7
<1>12. QED
  BY <1>1, <1>2, <1>3, <1>4, <1>5, <1>6, <1>7, <1>8, <1>9, <1>10, <1>11 DEF ClockNext, ClockRuns

LEMMA ClockInvAlways == ClockSpec => []ClockInv
<1>1. ClockInit => ClockInv
  <2> USE ClockAssumption DEF ClockInv, ClockTypeOK, NothingAhead, Moments, Nothing
  <2> SUFFICES ASSUME ClockInit PROVE ClockInv
    OBVIOUS
  <2>1. /\ time \in Moments /\ clock \in Moments /\ rtc \in Moments /\ epoch \in Moments
        /\ lastSync \in Moments /\ atCut \in Moments /\ saveAge \in 0 .. SavePeriod
    BY DEF ClockInit
  <2>2. clock <= time /\ rtc <= time /\ epoch <= time /\ lastSync <= time /\ rtcRead <= time
    BY DEF ClockInit
  <2>3. QED
    BY <2>1, <2>2 DEF ClockInit
<1>2. ClockInv /\ [ClockNext]_clockVars => ClockInv'
  BY ClockStep
<1>3. QED
  BY <1>1, <1>2, PTL DEF ClockSpec

(* Neither core sets the clock, the DS3231 or the copy in NVS ahead of the  *)
(* true time, or outside their range (initRTC, checkAndSyncRTC, wifiTask,   *)
(* doSynchronizeTime).                                                     *)
THEOREM ClockTypeCorrect == ClockSpec => [](ClockTypeOK /\ NothingAhead)
BY ClockInvAlways, PTL DEF ClockInv

-------------------------------------------------------------------------------
(* The clock resumes *)

(* With a DS3231 and a battery the clock never passes the DS3231, which     *)
(* never goes back while the power is off.                                  *)
KeptByRTC ==
  /\ powered => clock <= rtc /\ rtcRead <= rtc
  /\ powered /\ ~restored => clock = rtc /\ rtcRead \in {rtc, Nothing}
  /\ ~restored => atCut <= rtc
  /\ ~uncopied

(* NVS need not hold the time: a factory reset has cleared it, or a restart *)
(* has taken over a later one from the DS3231.                              *)
Excused == resetting \/ uncopied

(* Without one of them the clock of a synchronised device never passes its  *)
(* copy in NVS by more than the age of that copy, unless it is excused, and *)
(* a DS3231 carries it through a restart.                                   *)
KeptByNVS ==
  /\ resetting \/ lastSync <= epoch
  /\ restored /\ lastSync > 0 => rtcRead <= clock
  /\ restored /\ lastSync > 0 /\ ~Excused => clock <= epoch + saveAge /\ rtcRead <= epoch
  /\ powered /\ rtcFound /\ lastSync > 0 => clock <= rtc
  /\ resetting => powered /\ rtcRead = Nothing /\ atCut = 0
  /\ ~powered => /\ rtc = 0 \/ epoch = 0 \/ ~rtcFound
                 /\ atCut <= epoch + SavePeriod
  /\ powered /\ ~restored =>
       /\ clock = InitialClock
       /\ rtcFound => rtcRead \in {rtc, Nothing}
       /\ clock <= epoch \/ epoch = 0 \/ Excused
       /\ atCut <= epoch + SavePeriod \/ (rtcFound /\ atCut <= rtc)
  /\ ~rtcFound => rtcRead = Nothing /\ ~uncopied
  /\ restored /\ lastSync = 0 => epoch = 0

Kept == IF rtcFound /\ battery THEN KeptByRTC ELSE KeptByNVS

LEMMA KeptStep == ASSUME ClockInv, Kept, [ClockNext]_clockVars PROVE Kept'
<1> USE ClockAssumption DEF ClockInv, ClockTypeOK, NothingAhead, Moments, Nothing
<1>1. UNCHANGED <<rtcFound, battery>>
  BY DEF ClockNext, ClockRuns, TickClock, CutClock, RestartClock, SessionEnds, InitRTC,
         Restore, Synchronize, SaveEpoch, ClearEpoch, ReadRTC, ApplyRTC, clockVars
<1>2. CASE rtcFound /\ battery
  <2> SUFFICES ASSUME KeptByRTC PROVE KeptByRTC'
    BY <1>1, <1>2 DEF Kept
  <2> USE DEF KeptByRTC
  <2>1. CASE TickClock
    BY <1>2, <2>1 DEF TickClock
  <2>2. CASE CutClock
    BY <1>2, <2>2 DEF CutClock, SessionEnds
  <2>3. CASE InitRTC
    BY <1>2, <2>3 DEF InitRTC, InitialClock
  <2>4. CASE Restore
    BY <1>2, <2>4 DEF Restore
  <2>5. CASE Synchronize
    BY <1>2, <2>5 DEF Synchronize
  <2>6. CASE SaveEpoch
    BY <2>6 DEF SaveEpoch, SaveDue
  <2>7. CASE ReadRTC
    BY <2>7 DEF ReadRTC
  <2>8. CASE ApplyRTC
    BY <2>8 DEF ApplyRTC
  <2>9. CASE UNCHANGED clockVars
    BY <2>9 DEF clockVars
  <2>10. CASE ClearEpoch
    BY <2>10 DEF ClearEpoch
  <2>11. CASE RestartClock
    <3>1. /\ clock' = rtc /\ rtcRead' = Nothing /\ restored' = FALSE
          /\ rtc' = rtc /\ atCut' \in {clock, 0}
      BY <1>2, <2>11 DEF RestartClock, SessionEnds, InitialClock
    <3>2. powered
      BY <2>11 DEF RestartClock, SessionEnds
    <3>3. ~uncopied'
      BY <1>2, <2>11 DEF RestartClock
    <3>4. QED
      BY <3>1, <3>2, <3>3
  <2>12. QED
    BY <2>1, <2>2, <2>3, <2>4, <2>5, <2>6, <2>7, <2>8, <2>9, <2>10, <2>11 DEF ClockNext, ClockRuns
<1>3. CASE ~(rtcFound /\ battery)
  <2> SUFFICES ASSUME KeptByNVS PROVE KeptByNVS'
    BY <1>1, <1>3 DEF Kept
  <2> USE DEF KeptByNVS, Excused, InitialClock
  <2>1. CASE TickClock
    BY <1>3, <2>1 DEF TickClock, SaveDue
  <2>2. CASE CutClock
    BY <1>3, <2>2 DEF CutClock, SessionEnds
  <2>3. CASE InitRTC
    BY <2>3 DEF InitRTC, InitialClock
  <2>4. CASE Restore
    BY <2>4 DEF Restore
  <2>5. CASE Synchronize
    BY <2>5 DEF Synchronize
  <2>6. CASE SaveEpoch
    BY <2>6 DEF SaveEpoch, SaveDue
  <2>7. CASE ReadRTC
    BY <2>7 DEF ReadRTC
  <2>8. CASE ApplyRTC
    BY <2>8 DEF ApplyRTC
  <2>9. CASE UNCHANGED clockVars
    BY <2>9 DEF clockVars
  <2>10. CASE ClearEpoch
    BY <2>10 DEF ClearEpoch
  <2>11. CASE RestartClock
    <3>1. /\ powered' /\ ~restored' /\ ~resetting' /\ lastSync' = 0 /\ saveAge' = 0
          /\ rtcRead' = Nothing /\ rtc' = rtc /\ epoch' = epoch
      BY <2>11 DEF RestartClock, SessionEnds
    <3>2. clock' = InitialClock'
      BY <1>1, <2>11, <3>1 DEF RestartClock
    <3>3. clock' <= epoch' \/ uncopied'
      <4>1. CASE rtcFound /\ ~battery /\ rtc > epoch
        BY <2>11, <4>1 DEF RestartClock
      <4>2. CASE ~(rtcFound /\ ~battery /\ rtc > epoch)
        BY <1>1, <1>3, <2>11, <3>1, <3>2, <4>2
      <4>3. QED
        BY <4>1, <4>2
    <3>4. atCut' <= epoch' + SavePeriod \/ (rtcFound' /\ atCut' <= rtc')
      <4>1. powered /\ (atCut' = 0 \/ (lastSync > 0 /\ ~resetting /\ atCut' = clock))
        BY <2>11 DEF RestartClock, SessionEnds
      <4>2. CASE rtcFound
        BY <1>1, <3>1, <4>1, <4>2
      <4>3. CASE ~rtcFound
        BY <1>1, <3>1, <4>1, <4>3
      <4>4. QED
        BY <4>2, <4>3
    <3>5. uncopied' => rtcFound'
      BY <1>1, <2>11 DEF RestartClock
    <3>6. QED
      BY <1>1, <3>1, <3>2, <3>3, <3>4, <3>5
  <2>12. QED
    BY <2>1, <2>2, <2>3, <2>4, <2>5, <2>6, <2>7, <2>8, <2>9, <2>10, <2>11 DEF ClockNext, ClockRuns
<1>4. QED
  BY <1>2, <1>3

(* After a cut or a restart the clock of a synchronised device resumes no   *)
(* earlier than one save period before it (wifiTask, "the clock is restored *)
(* to within ~5 min of when power was lost"), unless the device was being   *)
(* reset to factory settings, or the power went before a time that a        *)
(* restart had taken over from a DS3231 without a battery was copied.       *)
THEOREM ClockAlwaysResumes == ClockSpec => ClockResumes
<1>1. ClockInit => Kept
  BY ClockAssumption DEF ClockInit, Kept, KeptByRTC, KeptByNVS, Moments, Nothing
<1>2. ClockInv /\ Kept /\ [ClockNext]_clockVars => Kept'
  BY KeptStep
<1>3. ClockInv /\ Kept => [Restore => clock' + SavePeriod >= atCut]_clockVars
  BY ClockAssumption
  DEF Restore, Kept, KeptByRTC, KeptByNVS, Excused, InitialClock, ClockInv, ClockTypeOK, NothingAhead, Moments, Nothing
<1>4. QED
  BY <1>1, <1>2, <1>3, ClockInvAlways, PTL DEF ClockSpec, ClockResumes
===============================================================================
