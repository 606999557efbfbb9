------------------------------- MODULE EventLog -------------------------------
(***************************************************************************)
(* What the event history promises: a log of bounded size, in the order of  *)
(* the events, that forgets its oldest event only when it is full and       *)
(* survives power cuts.  Once the bus to the EEPROM has failed it may lose  *)
(* any event, but it still never reorders, repeats or revives one, unless   *)
(* the write that was to clear it failed: then all depends on the next.     *)
(***************************************************************************)
EXTENDS Naturals, Sequences

CONSTANTS
  Size,    (* the number of events it holds *)
  Events   (* the numbers of events         *)

VARIABLES
  log,     \* the events, oldest first; events are numbered as they occur
  trust    \* "sound", "lossy" once the bus has failed, "void" after a
           \* clearing that failed

logVars == <<log, trust>>

Add(e) ==
  /\ Len(log) < Size
  /\ \A i \in DOMAIN log : log[i] < e
  /\ log' = Append(log, e)
  /\ UNCHANGED trust

Forget == Len(log) = Size /\ log' = Tail(log) /\ UNCHANGED trust

Clear ==
  /\ log' = <<>>
  /\ trust' \in {trust, "lossy"}

Recorded(list) == {list[i] : i \in DOMAIN list}

(* Any events may be lost, but what is new is newer than all there was.     *)
Damage ==
  /\ trust # "void" /\ trust' = "lossy"
  /\ \A i, j \in DOMAIN log' : i < j => log'[i] < log'[j]
  /\ \A e \in Recorded(log') \ Recorded(log) : \A i \in DOMAIN log : log[i] < e

LogInit == log = <<>> /\ trust = "sound"
LogNext ==
  \/ \E e \in Events : Add(e)
  \/ Forget \/ Clear \/ Damage
  \/ trust' = "void"

LogSpec == LogInit /\ [][LogNext]_logVars
===============================================================================
