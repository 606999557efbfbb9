---------------------------- MODULE MCWifiManager -----------------------------
(* Instances of WifiManager for TLC: the commands users give, and where the *)
(* device may be.                                                           *)
EXTENDS WifiManager, TLC

CONSTANTS a, b, c

(* Three networks for two places: one may be removed, one raised.           *)
FewCommands ==
  [cmd: {"add"}, ssid: {a, b, c}] \cup [cmd: {"sync"}, ssid: {a}] \cup [cmd: {"remove"}, ssid: {a}]
    \cup [cmd: {"priority"}, ssid: {b}, priority: {1}]

(* Out of reach of all, near one, near the two others, or near both that    *)
(* the commands remove and raise.                                           *)
FewPlaces == {{}, {a}, {b, c}, {a, b}}
===============================================================================
