-------------------------- MODULE MCZephyrListener --------------------------
(***************************************************************************)
(* ZephyrListener with a tick of 30 s, the receiver's beacon interval: the *)
(* windows of 60, 90 and 120 s are then 2, 3 and 4 ticks.                  *)
(***************************************************************************)
EXTENDS ZephyrListener
=============================================================================
