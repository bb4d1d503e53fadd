--------------------------- MODULE MCEspIdfIotLog ---------------------------
(***************************************************************************)
(* EspIdfIotLog with a tick of 30 s.                                       *)
(***************************************************************************)
EXTENDS EspIdfIotLog

\* The default, less than the minimum, and one that the backoff does not double to.
MCConfigIntervals == {0, 1, 3}
=============================================================================
