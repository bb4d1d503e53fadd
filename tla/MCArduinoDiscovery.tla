------------------------- MODULE MCArduinoDiscovery -------------------------
(***************************************************************************)
(* ArduinoDiscovery with a tick of one minute and a clock of a few ticks,  *)
(* which wraps around several times in every long behaviour.               *)
(***************************************************************************)
EXTENDS ArduinoDiscovery
=============================================================================
