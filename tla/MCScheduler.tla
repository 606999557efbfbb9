----------------------------- MODULE MCScheduler ------------------------------
(* Instances of Scheduler for TLC.                                          *)
EXTENDS Scheduler

FactoryOnly == {Defaults}
(* Two schedules of the overhead motor, in consecutive minutes.             *)
TwoOverlapping == {[motor |-> OH, time |-> t, duration |-> 2] : t \in {1, 2}}

(* One moment of the day, for a short or a long run.                        *)
ShortOrLong == {[motor |-> OH, time |-> 2, duration |-> d] : d \in {1, 2}}
===============================================================================
