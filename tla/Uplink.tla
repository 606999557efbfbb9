-------------------------------- MODULE Uplink --------------------------------
(***************************************************************************)
(* Abstract: what the WiFi manager promises the rest of the controller.     *)
(* After a reset the access point is set up, and isAPMode stands until the  *)
(* station has been associated for the first time; from then on it is       *)
(* false, whether or not the association lasts, until the next reset.       *)
(***************************************************************************)
VARIABLES
  phase,   \* "booting", "setup" (isAPMode) or "station"
  up       \* WiFi.status() == WL_CONNECTED

uplinkVars == <<phase, up>>

UplinkTypeOK == phase \in {"booting", "setup", "station"} /\ up \in BOOLEAN

UplinkInit == phase = "booting" /\ up = FALSE

StartSetup == phase = "booting" /\ phase' = "setup" /\ UNCHANGED up

Associate == phase # "booting" /\ ~up /\ up' = TRUE /\ UNCHANGED phase

Drop == up /\ up' = FALSE /\ UNCHANGED phase

LeaveSetup == phase = "setup" /\ up /\ phase' = "station" /\ UNCHANGED up

UplinkReset == phase' = "booting" /\ up' = FALSE

UplinkNext == StartSetup \/ Associate \/ Drop \/ LeaveSetup \/ UplinkReset

UplinkSpec == UplinkInit /\ [][UplinkNext]_uplinkVars
===============================================================================
