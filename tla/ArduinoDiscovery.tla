-------------------------- MODULE ArduinoDiscovery --------------------------
(***************************************************************************)
(* Listener discovery in the Arduino library, src/ESPIoTLog.cpp: loop()    *)
(* asks mDNS from time to time whether a receiver advertises itself, more  *)
(* and more rarely while none does, and sends telemetry while one does.    *)
(* The sketch calls loop() when it gets round to it; everything runs in    *)
(* its one thread.                                                         *)
(*                                                                         *)
(* millis() is a clock that wraps around, so stamps and differences are    *)
(* taken modulo Wrap, and the real time that has passed is kept beside     *)
(* them as history.  A query blocks: the clock may move on while it runs,  *)
(* and what loop() does after it still uses the time read before it.       *)
(***************************************************************************)
EXTENDS Integers

CONSTANTS
    MinInterval,       \* DISCOVERY_MIN_INTERVAL
    MaxInterval,       \* DISCOVERY_MAX_INTERVAL
    TelemetryInterval, \* TELEMETRY_INTERVAL
    Wrap,              \* the values millis() takes before it starts from 0
    AgeCap,            \* bound: ages are not told apart beyond this one
    MaxFaults          \* bound: lost answers, and turns of the receiver

ASSUME DiscoveryAssumption ==
    /\ MinInterval \in Nat \ {0} /\ MaxInterval \in Nat
    /\ MinInterval <= MaxInterval /\ MaxInterval < Wrap
    /\ TelemetryInterval \in Nat \ {0} /\ TelemetryInterval < Wrap
    /\ Wrap \in Nat
    /\ AgeCap \in Nat /\ AgeCap > MaxInterval + 1 /\ AgeCap > TelemetryInterval
    /\ MaxFaults \in Nat

VARIABLES
    \* the members of ESPIoTLog
    initialized, listenerActive,
    lastDiscovery,     \* _last_discovery
    interval,          \* _current_discovery_interval
    telemetry,         \* _telemetry_flags is not TELEMETRY_NONE
    lastTelemetry,     \* _last_telemetry
    \* the sketch, the clock and the network
    asked,             \* loop()'s now, while its query runs
    now,               \* millis()
    looped,            \* loop() was called in this tick
    receiverUp,        \* a receiver answers queries
    faults,            \* how often an answer was lost or the receiver changed
    \* history
    sinceQuery,        \* the real age of the last query
    sinceTelemetry,    \* ... and of the last telemetry that loop() sent
    failures,          \* queries since one was answered or discovery was forced
    forced,            \* forceDiscovery() was called after the last query
    steadyFor          \* ticks in which loop() ran and nothing disturbed it

members == <<initialized, listenerActive, lastDiscovery, interval, telemetry,
             lastTelemetry>>
world   == <<asked, now, looped, receiverUp, faults>>
history == <<sinceQuery, sinceTelemetry, failures, forced, steadyFor>>
vars    == <<members, world, history>>

Never == -1
None  == -1     \* no query runs

InitialInterval == 0    \* DISCOVERY_INITIAL_INTERVAL

Least(a, b) == IF a < b THEN a ELSE b
Older(age)  == IF age = Never THEN Never ELSE Least(age + 1, AgeCap)

\* Unsigned subtraction of time stamps.
Elapsed(to, from) == (to - from) % Wrap

Free == asked = None

\* begin(): after an end() the stamps and the interval are those of before.
Begin ==
    /\ Free /\ ~initialized
    /\ initialized' = TRUE
    /\ steadyFor' = 0
    /\ UNCHANGED <<listenerActive, lastDiscovery, interval, telemetry, lastTelemetry,
                   world, sinceQuery, sinceTelemetry, failures, forced>>

EndLog ==
    /\ Free /\ initialized
    /\ initialized' = FALSE /\ listenerActive' = FALSE
    /\ UNCHANGED <<lastDiscovery, interval, telemetry, lastTelemetry, world, history>>

EnableSystemTelemetry(on) ==
    /\ Free /\ telemetry' = on
    /\ UNCHANGED <<initialized, listenerActive, lastDiscovery, interval, lastTelemetry,
                   world, history>>

\* The age of the last query is forgotten: with a listener the next one is due
\* when the clock shows MaxInterval or more, be that sooner or later than before.
ForceDiscovery ==
    /\ Free
    /\ lastDiscovery' = 0 /\ interval' = InitialInterval
    /\ forced' = TRUE /\ failures' = 0 /\ steadyFor' = 0
    /\ UNCHANGED <<initialized, listenerActive, telemetry, lastTelemetry, world,
                   sinceQuery, sinceTelemetry>>

EffectiveInterval == IF listenerActive THEN MaxInterval ELSE interval

\* Variant: stamps compared as if the clock never wrapped.
DueUnwrapped == now >= lastDiscovery + EffectiveInterval

Due == Elapsed(now, lastDiscovery) >= EffectiveInterval

\* Variant: the stamp of the last telemetry is not kept.
SendTelemetryAlways(active, at) ==
    IF active /\ telemetry /\ Elapsed(at, lastTelemetry) >= TelemetryInterval
    THEN sinceTelemetry' = 0 /\ UNCHANGED lastTelemetry
    ELSE UNCHANGED <<lastTelemetry, sinceTelemetry>>

\* The end of loop(), where "at" is what it read from the clock.
SendTelemetry(active, at) ==
    IF active /\ telemetry /\ Elapsed(at, lastTelemetry) >= TelemetryInterval
    THEN lastTelemetry' = at /\ sinceTelemetry' = 0
    ELSE UNCHANGED <<lastTelemetry, sinceTelemetry>>

\* loop() when no query is due.
LoopQuiet ==
    /\ Free /\ initialized /\ ~Due
    /\ SendTelemetry(listenerActive, now)
    /\ looped' = TRUE
    /\ UNCHANGED <<initialized, listenerActive, lastDiscovery, interval, telemetry, asked,
                   now, receiverUp, faults, sinceQuery, failures, forced, steadyFor>>

\* loop() up to the call of MDNS.queryService().
LoopQuery ==
    /\ Free /\ initialized /\ Due
    /\ asked' = now /\ looped' = TRUE
    /\ sinceQuery' = 0 /\ forced' = FALSE
    /\ UNCHANGED <<members, now, receiverUp, faults, sinceTelemetry, failures, steadyFor>>

\* Variant: the growing interval has no upper bound.
NextIntervalUnbounded(found) ==
    IF found \/ 2 * interval < MinInterval THEN MinInterval ELSE 2 * interval

\* Variant: the interval does not grow.
NextIntervalFlat(found) == MinInterval

NextInterval(found) ==
    IF found THEN MinInterval
    ELSE IF Least(2 * interval, MaxInterval) < MinInterval THEN MinInterval
    ELSE Least(2 * interval, MaxInterval)

\* The query returns, and loop() ends.
Discovered(found) ==
    /\ listenerActive' = found
    /\ lastDiscovery' = asked
    /\ interval' = NextInterval(found)
    /\ SendTelemetry(found, asked)
    /\ asked' = None
    /\ failures' = IF found THEN 0 ELSE Least(failures + 1, AgeCap)
    /\ UNCHANGED <<initialized, telemetry, now, looped, receiverUp, sinceQuery, forced>>

Answered == ~Free /\ Discovered(receiverUp) /\ UNCHANGED <<faults, steadyFor>>

Fault == faults < MaxFaults /\ faults' = faults + 1 /\ steadyFor' = 0

AnswerLost == ~Free /\ receiverUp /\ Discovered(FALSE) /\ Fault

\* The receiver starts or stops.
Turn ==
    /\ receiverUp' = ~receiverUp
    /\ Fault
    /\ UNCHANGED <<members, asked, now, looped, sinceQuery, sinceTelemetry, failures, forced>>

\* A query takes less than a tick, so the clock moves on once during it at most.
Tick ==
    /\ Free \/ asked = now
    /\ now' = (now + 1) % Wrap
    /\ looped' = FALSE
    /\ sinceQuery' = Older(sinceQuery) /\ sinceTelemetry' = Older(sinceTelemetry)
    /\ steadyFor' = IF looped /\ initialized THEN Older(steadyFor) ELSE 0
    /\ UNCHANGED <<members, asked, receiverUp, faults, failures, forced>>

Init ==
    /\ initialized = FALSE /\ listenerActive = FALSE
    /\ lastDiscovery = 0 /\ interval = InitialInterval
    /\ telemetry = FALSE /\ lastTelemetry = 0
    /\ asked = None /\ now = 0 /\ looped = FALSE
    /\ receiverUp \in BOOLEAN /\ faults = 0
    /\ sinceQuery = Never /\ sinceTelemetry = Never
    /\ failures = 0 /\ forced = FALSE /\ steadyFor = 0

Sketch ==
    \/ Begin \/ EndLog \/ ForceDiscovery \/ LoopQuiet \/ LoopQuery
    \/ \E on \in BOOLEAN : EnableSystemTelemetry(on)

Next == Sketch \/ Answered \/ AnswerLost \/ Turn \/ Tick

Spec == Init /\ [][Next]_vars

(***************************************************************************)
(* Properties.                                                             *)
(***************************************************************************)
Time == 0 .. Wrap - 1
Age  == {Never} \cup 0 .. AgeCap

TypeOK ==
    /\ initialized \in BOOLEAN /\ listenerActive \in BOOLEAN
    /\ lastDiscovery \in Time /\ lastTelemetry \in Time /\ now \in Time
    /\ interval \in {InitialInterval} \cup MinInterval .. MaxInterval
    /\ telemetry \in BOOLEAN /\ looped \in BOOLEAN /\ receiverUp \in BOOLEAN
    /\ asked \in {None} \cup Time
    /\ faults \in 0 .. MaxFaults
    /\ sinceQuery \in Age /\ sinceTelemetry \in Age
    /\ failures \in 0 .. AgeCap /\ steadyFor \in 0 .. AgeCap
    /\ forced \in BOOLEAN

\* When nothing has disturbed it for as long as the longest interval, the
\* device knows whether there is a receiver: whatever was lost or forced before,
\* however long the sketch did not call loop(), wherever the clock wrapped.
BeliefAgrees ==
    initialized /\ Free /\ looped /\ steadyFor > MaxInterval
        => listenerActive = receiverUp

\* "Exponential backoff to minimize overhead when no listeners are present"
\* (README.md:444).  A query blocks the sketch; unless it was forced it comes no sooner
\* after the last than the minimum interval, doubled with every failure but the first,
\* or the maximum, wherever the clock wraps; and the device believes what it was told.
Abstract ==
    INSTANCE Discovery WITH
        believed <- listenerActive, asking <- ~Free, age <- sinceQuery, excused <- forced

DiscoverySpec == Abstract!Spec

\* loop() never sends telemetry twice within its interval, less the tick that
\* may pass in a query.
TelemetryPaced ==
    [][sinceTelemetry' = 0 /\ sinceTelemetry # 0 =>
          \/ sinceTelemetry = Never
          \/ sinceTelemetry >= TelemetryInterval - 1]_vars

\* "Check for listeners now" (README.md:261): the next loop() after a
\* forceDiscovery() queries.
ForcedIsNext ==
    [][initialized /\ forced /\ ~looped /\ looped' => asked' # None]_vars
=============================================================================
