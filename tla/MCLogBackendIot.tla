--------------------------- MODULE MCLogBackendIot ---------------------------
(***************************************************************************)
(* LogBackendIot on a ring of a few bytes.                                 *)
(***************************************************************************)
EXTENDS LogBackendIot

\* Texts of no byte, of one, of as many as fit in msg_buf, and a longer one.
MCFormattedLens == {0, 1, BufSize - 1, BufSize + 2}

\* Mis-framed lengths below, at and above the size of the drain buffer.
MCGarbageLens == {0, 1, BufSize + 1}
=============================================================================
