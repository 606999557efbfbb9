------------------------------ MODULE MCLoRaLink ------------------------------
(* Instances of LoRaLink for TLC.                                           *)
EXTENDS LoRaLink

(* A tank that empties and fills between two looks at the switches. *)
EmptyOrFull == {{}, Switches}
===============================================================================
