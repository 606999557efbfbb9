------------------------------- MODULE TankLevel -------------------------------
(***************************************************************************)
(* What the radio link promises the rest of the controller about the        *)
(* overhead tank: ohTankState is the level of the last packet, or Unknown   *)
(* once no packet has come for the time limit.  This is what the motor      *)
(* controller's PollLora takes for granted; module LoRaLink implements it.  *)
(***************************************************************************)
EXTENDS Integers

CONSTANT Limit   (* LORA_MAX_MISSED_PACKETS windows, in ticks               *)

VARIABLES
  level,   \* ohTankState
  age      \* time since lastLoraReceivedTime, NotOn before the first packet

NotOn == -1
Unknown == 0
Empty == 1
Low == 2
Half == 3
Full == 4
Levels == Unknown .. Full

Hear == level' \in Levels /\ age' = 0
GoSilent == age >= Limit /\ level' = Unknown /\ UNCHANGED age
TimePasses ==
  /\ age' = IF age # NotOn /\ age < Limit THEN age + 1 ELSE age
  /\ UNCHANGED level
Restart == level' = Unknown /\ age' = NotOn

Init == level = Unknown /\ age = NotOn
Next == Hear \/ GoSilent \/ TimePasses \/ Restart
Spec == Init /\ [][Next]_<<level, age>>
===============================================================================
