------------------------------ MODULE Discovery ------------------------------
(***************************************************************************)
(* What listener discovery by mDNS promises, in the Arduino library and in *)
(* the ESP-IDF component, whose intervals are there "to match the Arduino  *)
(* library": the device believes in a receiver only because one answered,  *)
(* and asks again only after a while, which doubles from failure to        *)
(* failure up to a maximum.  What each does with stamps, intervals, clocks *)
(* and overlapping calls to keep that promise is its own affair.           *)
(***************************************************************************)
EXTENDS Integers

CONSTANTS MinInterval, MaxInterval, AgeCap

VARIABLES
    believed,    \* the device sends, for it believes that somebody listens
    asking,      \* a query runs
    age,         \* the age of the last query, Never if there was none
    failures,    \* queries in a row that were not answered
    excused,     \* a discovery was forced, or begun anew, since the last query
    receiverUp   \* a receiver answers queries

vars == <<believed, asking, age, failures, excused, receiverUp>>

Never == -1

Least(a, b) == IF a < b THEN a ELSE b
Older(a)    == IF a = Never THEN Never ELSE Least(a + 1, AgeCap)

\* The minimum interval, doubled n times.
Doubled[n \in Nat] == IF n = 0 THEN MinInterval ELSE 2 * Doubled[n - 1]

\* How long the device waits after a query: the longest interval with a listener, and
\* without one the shortest, doubled with every failure but the first, up to the longest.
Spacing ==
    IF believed THEN MaxInterval
    ELSE IF failures = 0 THEN 0
    ELSE Least(Doubled[failures - 1], MaxInterval)

Init ==
    /\ believed = FALSE /\ asking = FALSE /\ age = Never
    /\ failures = 0 /\ excused = FALSE
    /\ receiverUp \in BOOLEAN

Ask ==
    /\ ~asking
    /\ age = Never \/ excused \/ age >= Spacing
    /\ asking' = TRUE /\ age' = 0 /\ excused' = FALSE
    /\ UNCHANGED <<believed, failures, receiverUp>>

\* The query ends with the receiver's answer, or with none.
Answer(found) ==
    /\ asking /\ (found => receiverUp)
    /\ asking' = FALSE
    /\ believed' = found
    /\ failures' = IF found THEN 0 ELSE Least(failures + 1, AgeCap)
    /\ UNCHANGED <<age, excused, receiverUp>>

\* A discovery is forced, or the log begun anew, also while a query runs.
Excuse ==
    /\ excused' = TRUE
    /\ failures' \in 0 .. failures
    /\ believed' \in {believed, FALSE}
    /\ UNCHANGED <<asking, age, receiverUp>>

\* The log is closed.
Drop == believed' = FALSE /\ UNCHANGED <<asking, age, failures, excused, receiverUp>>

Turn == receiverUp' = ~receiverUp /\ UNCHANGED <<believed, asking, age, failures, excused>>

\* The clock moves on at most once while a query runs.
Tick ==
    /\ asking => age = 0
    /\ age' = Older(age)
    /\ UNCHANGED <<believed, asking, failures, excused, receiverUp>>

Next == Ask \/ (\E found \in BOOLEAN : Answer(found)) \/ Excuse \/ Drop \/ Turn \/ Tick

Spec == Init /\ [][Next]_vars
=============================================================================
