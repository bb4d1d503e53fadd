------------------------------ MODULE MCReceiver ------------------------------
(***************************************************************************)
(* Receiver on a clock where a tick is five seconds, so to speak: the      *)
(* ratios of the intervals are the code's.                                 *)
(***************************************************************************)
EXTENDS Receiver
=============================================================================
