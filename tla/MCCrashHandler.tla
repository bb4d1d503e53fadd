--------------------------- MODULE MCCrashHandler ---------------------------
(***************************************************************************)
(* CrashHandler with three incidents, on both ports; the ESP8266's counter *)
(* starts from 0, or close enough to its wrap for it to get there.         *)
(***************************************************************************)
EXTENDS CrashHandler

MCBoth == {"ESP32", "ESP8266"}
MCColdCounts == {0, 6}
=============================================================================
