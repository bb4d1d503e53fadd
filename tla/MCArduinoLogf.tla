---------------------------- MODULE MCArduinoLogf ----------------------------
(***************************************************************************)
(* ArduinoLogf with two tasks that do not differ.                          *)
(***************************************************************************)
EXTENDS ArduinoLogf, TLC

Symmetry == Permutations(Tasks)
=============================================================================
