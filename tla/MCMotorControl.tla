---------------------------- MODULE MCMotorControl ----------------------------
(* Instances of MotorControl for TLC: which settings the user may choose.   *)
EXTENDS MotorControl

(* The buzzer delay may be toggled, the overhead motor set to display only  *)
(* or released, crossed levels may be asked for, and a save that is cut     *)
(* between its two levels may cross them.                                   *)
Toggled == {[Defaults EXCEPT !.stopLevel = Low],
            [Defaults EXCEPT !.buzzerDelay = FALSE, !.startLevel = Half],
            [Defaults EXCEPT !.ohDisplayOnly = TRUE, !.startLevel = Half, !.stopLevel = Low]}
===============================================================================
