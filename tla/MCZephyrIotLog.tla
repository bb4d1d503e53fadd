---------------------------- MODULE MCZephyrIotLog ----------------------------
(***************************************************************************)
(* ZephyrIotLog with an application thread, the OpenThread thread, the     *)
(* poll and the logging thread.                                            *)
(***************************************************************************)
EXTENDS ZephyrIotLog
=============================================================================
