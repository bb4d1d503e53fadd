------------------------------- MODULE LogPipe -------------------------------
(***************************************************************************)
(* What the ring buffer of the Zephyr log backend promises to the code on  *)
(* either side of it: the logging thread accepts messages, the poll loop   *)
(* hands them on one at a time, whole, in the order of acceptance, none    *)
(* twice and none skipped.  The n-th message accepted is known by its      *)
(* number n, so two counters are the whole state.                          *)
(***************************************************************************)
EXTENDS Naturals

VARIABLES accepted,   \* how many messages were accepted so far
          delivered   \* the number of the last message handed on

vars == <<accepted, delivered>>

Init == accepted = 0 /\ delivered = 0

Accept == accepted' = accepted + 1 /\ UNCHANGED delivered

Deliver ==
    /\ delivered < accepted
    /\ delivered' = delivered + 1
    /\ UNCHANGED accepted

Next == Accept \/ Deliver

Spec == Init /\ [][Next]_vars
=============================================================================
