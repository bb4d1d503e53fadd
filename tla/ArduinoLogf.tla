------------------------------ MODULE ArduinoLogf ------------------------------
(***************************************************************************)
(* Logging in the Arduino library, src/ESPIoTLog.cpp, by several FreeRTOS  *)
(* tasks with IOTLOG_THREAD_SAFE set: logf() with its critical section,    *)
(* the rate limit on a clock that wraps around, the message buffer and the *)
(* UDP object that all tasks share, and the counters.  Listener discovery  *)
(* is module ArduinoDiscovery; here the flag changes as it likes.          *)
(*                                                                         *)
(* The critical section is one step: two of them exclude each other, and   *)
(* what others do to the buffer, the flag and the counters meanwhile they  *)
(* could as well do before or after.  A message is known by the task that  *)
(* logs it, and is copied out of the buffer in two parts.  The serial      *)
(* output and the level and mask filters are left out.  millis() is taken  *)
(* modulo Wrap, which like 2^32 ms is no whole number of seconds.          *)
(***************************************************************************)
EXTENDS Integers, Sequences

CONSTANTS
    Tasks,      \* the tasks that log
    Limit,      \* IOTLOG_MAX_LOGS_PER_SECOND
    Second,     \* ticks in a second
    Wrap,       \* ticks until millis() is 0 again
    MaxCalls,   \* bound: calls of the logging API
    MaxFaults   \* bound: resets of the limiter, changes of the listener, end()

ASSUME LogfAssumption ==
    /\ Limit \in Nat \ {0} /\ Second \in Nat \ {0}
    /\ Wrap \in Nat /\ Wrap > 2 * Second
    /\ MaxCalls \in Nat /\ MaxFaults \in Nat

VARIABLES
    initialized, listenerActive,
    now,                        \* millis()
    windowStart, count,         \* _rate_limit_window_start, _rate_limit_count
    logCount, droppedCount,
    buffer,     \* whose message is in _log_buffer: a set of at most one task
    udp,        \* the packet under construction in _udp: a sequence of payloads
    pc,         \* where each task is
    carry,      \* whose text is in the task's payload
    gain, reg,  \* which counter the task is incrementing, and its value as read
    calls, faults,
    \* history
    burst,      \* what the limiter let through in the last 1, 2 ... Second ticks
    inWindow,   \* and in this second, since the limiter was reset
    age,        \* ticks since it began to count in the window it is in
    packets,    \* packets that were sent
    drops,      \* messages that were dropped
    overlap,    \* two calls were behind the critical section at a time
    wrong       \* a packet went out that was not its sender's message

limiter  == <<windowStart, count>>
counters == <<logCount, droppedCount>>
sending  == <<buffer, udp, carry, gain, reg>>
bounds   == <<calls, faults>>
limits   == <<burst, inWindow, age>>
tally    == <<packets, drops, overlap, wrong>>
vars == <<initialized, listenerActive, now, limiter, counters, sending, pc, bounds,
          limits, tally>>

At(t, place) == pc[t] = place
Goto(t, place) == pc' = [pc EXCEPT ![t] = place]

Call == calls < MaxCalls /\ calls' = calls + 1 /\ UNCHANGED faults
Fault == faults < MaxFaults /\ faults' = faults + 1 /\ UNCHANGED calls

SecondOf(ms) == ms \div Second

\* Where a call is when it is no longer, or never was, under the lock.
Behind == {"format", "copy", "send", "write", "end", "store"}

\* t goes there: it may find another one.
Overlaps(t) == overlap' = (overlap \/ \E u \in Tasks \ {t} : pc[u] \in Behind)

(***************************************************************************)
(* logf.                                                                   *)
(***************************************************************************)
Logf(t) ==
    /\ At(t, "idle") /\ initialized /\ Call
    /\ Goto(t, "enter")
    /\ UNCHANGED <<initialized, listenerActive, now, limiter, counters, sending,
                   limits, tally>>

SameWindow == SecondOf(now) = SecondOf(windowStart)

\* Variant: _rate_limit_count is not reset.
CountedKept == count

\* What the limiter counts with, and from when, once it has looked at the clock.
Counted == IF SameWindow THEN count ELSE 0

\* Variant: _rate_limit_window_start is not set.
WindowFromKept == windowStart

WindowFrom == IF SameWindow THEN windowStart ELSE now
AgeFrom == IF SameWindow THEN age ELSE 0

\* Variant: > for >=.
ExhaustedAbove == Counted > Limit

Exhausted == Counted >= Limit

\* No listener: the message is not sent and not counted.
Unheard(t) ==
    /\ At(t, "enter") /\ ~listenerActive
    /\ Goto(t, "idle")
    /\ UNCHANGED <<initialized, listenerActive, now, limiter, counters, sending, bounds,
                   limits, tally>>

\* Over the limit.
Refuse(t) ==
    /\ At(t, "enter") /\ listenerActive /\ Exhausted
    /\ windowStart' = WindowFrom /\ count' = Counted
    /\ droppedCount' = droppedCount + 1 /\ drops' = drops + 1
    /\ age' = AgeFrom
    /\ Goto(t, "idle") /\ Overlaps(t)
    /\ UNCHANGED <<initialized, listenerActive, now, logCount, sending, bounds, burst,
                   inWindow, packets, wrong>>

\* Within it: the message is formatted into the shared buffer.
Admit(t) ==
    /\ At(t, "enter") /\ listenerActive /\ ~Exhausted
    /\ windowStart' = WindowFrom /\ count' = Counted + 1
    /\ buffer' = {t}
    /\ burst' = [i \in 1 .. Second |-> burst[i] + 1] /\ inWindow' = inWindow + 1
    /\ age' = AgeFrom
    /\ Goto(t, "format") /\ Overlaps(t)
    /\ UNCHANGED <<initialized, listenerActive, now, counters, udp, carry, gain, reg,
                   bounds, packets, drops, wrong>>

\* formatLogMessage: silent if the listener has gone; copies the buffer.
Format(t) ==
    /\ At(t, "format")
    /\ IF listenerActive
       THEN Goto(t, "copy") /\ carry' = [carry EXCEPT ![t] = buffer]
       ELSE Goto(t, "idle") /\ UNCHANGED carry
    /\ UNCHANGED <<initialized, listenerActive, now, limiter, counters, buffer, udp, gain,
                   reg, bounds, limits, tally>>

Copy(t) ==
    /\ At(t, "copy")
    /\ carry' = [carry EXCEPT ![t] = @ \cup buffer]
    /\ Goto(t, "send")
    /\ UNCHANGED <<initialized, listenerActive, now, limiter, counters, buffer, udp, gain,
                   reg, bounds, limits, tally>>

\* logMetric and sendTelemetry: a payload of their own, no lock and no limit.
LogMetric(t) ==
    /\ At(t, "idle") /\ initialized /\ listenerActive /\ Call
    /\ carry' = [carry EXCEPT ![t] = {t}]
    /\ Goto(t, "send") /\ Overlaps(t)
    /\ UNCHANGED <<initialized, listenerActive, now, limiter, counters, buffer, udp, gain,
                   reg, limits, packets, drops, wrong>>

(***************************************************************************)
(* sendLogMessage.                                                         *)
(***************************************************************************)

\* _log_count++ or _dropped_count++ begins: the counter is read.
Begin(t, counter) ==
    /\ gain' = [gain EXCEPT ![t] = counter]
    /\ reg' = [reg EXCEPT ![t] = IF counter = "sent" THEN logCount ELSE droppedCount]

Dropped(t) == Begin(t, "dropped") /\ drops' = drops + 1

\* Variant: what the listener's gate drops is not counted.
SendDropsSilently(t) ==
    /\ At(t, "send")
    /\ IF initialized /\ listenerActive
       THEN Goto(t, "write") /\ udp' = <<>> /\ UNCHANGED drops
       ELSE Goto(t, "idle") /\ drops' = drops + 1 /\ UNCHANGED udp
    /\ UNCHANGED <<initialized, listenerActive, now, limiter, counters, buffer, carry, gain,
                   reg, bounds, limits, packets, overlap, wrong>>

\* The gate, and beginPacket(), which empties the packet under construction.
Send(t) ==
    /\ At(t, "send")
    /\ IF initialized /\ listenerActive
       THEN Goto(t, "write") /\ udp' = <<>> /\ UNCHANGED <<gain, reg, drops>>
       ELSE Goto(t, "store") /\ Dropped(t) /\ UNCHANGED udp
    /\ UNCHANGED <<initialized, listenerActive, now, limiter, counters, buffer, carry,
                   bounds, limits, packets, overlap, wrong>>

Write(t) ==
    /\ At(t, "write")
    /\ udp' = Append(udp, carry[t])
    /\ Goto(t, "end")
    /\ UNCHANGED <<initialized, listenerActive, now, limiter, counters, buffer, carry, gain,
                   reg, bounds, limits, tally>>

EndPacketOk(t) ==
    /\ At(t, "end")
    /\ Begin(t, "sent") /\ packets' = packets + 1
    /\ wrong' = (wrong \/ udp # <<{t}>>)
    /\ Goto(t, "store")
    /\ UNCHANGED <<initialized, listenerActive, now, limiter, counters, buffer, udp, carry,
                   bounds, limits, drops, overlap>>

EndPacketFails(t) ==
    /\ At(t, "end")
    /\ Dropped(t)
    /\ Goto(t, "store")
    /\ UNCHANGED <<initialized, listenerActive, now, limiter, counters, buffer, udp, carry,
                   bounds, limits, packets, overlap, wrong>>

\* The increment ends, and with it the call.
Store(t) ==
    /\ At(t, "store")
    /\ IF gain[t] = "sent"
       THEN logCount' = reg[t] + 1 /\ UNCHANGED droppedCount
       ELSE droppedCount' = reg[t] + 1 /\ UNCHANGED logCount
    /\ Goto(t, "idle")
    /\ UNCHANGED <<initialized, listenerActive, now, limiter, sending, bounds, limits, tally>>

(***************************************************************************)
(* The rest of the object, and time.                                       *)
(***************************************************************************)

\* resetRateLimit: two stores, without the lock.
ResetRateLimit(t) ==
    /\ At(t, "idle") /\ Fault
    /\ windowStart' = 0
    /\ Goto(t, "reset")
    /\ UNCHANGED <<initialized, listenerActive, now, count, counters, sending, limits, tally>>

ResetCount(t) ==
    /\ At(t, "reset")
    /\ count' = 0
    /\ burst' = [i \in 1 .. Second |-> 0] /\ inWindow' = 0
    /\ Goto(t, "idle")
    /\ UNCHANGED <<initialized, listenerActive, now, windowStart, counters, sending, bounds,
                   age, tally>>

\* Discovery finds a listener, or none.
Discover ==
    /\ initialized /\ Fault
    /\ listenerActive' = ~listenerActive
    /\ UNCHANGED <<initialized, now, limiter, counters, sending, pc, limits, tally>>

\* end(), while no task is building a packet in the UDP object it stops.
EndLog ==
    /\ initialized /\ Fault
    /\ \A t \in Tasks : pc[t] \notin {"write", "end"}
    /\ initialized' = FALSE /\ listenerActive' = FALSE /\ udp' = <<>>
    /\ UNCHANGED <<now, limiter, counters, buffer, carry, gain, reg, pc, limits, tally>>

BeginLog ==
    /\ ~initialized /\ initialized' = TRUE
    /\ UNCHANGED <<listenerActive, now, limiter, counters, sending, pc, bounds, limits, tally>>

\* millis() advances.
Tick ==
    /\ now' = (now + 1) % Wrap
    /\ burst' = [i \in 1 .. Second |-> IF i = 1 THEN 0 ELSE burst[i - 1]]
    /\ inWindow' = IF SecondOf(now') = SecondOf(now) THEN inWindow ELSE 0
    /\ age' = IF age = Wrap THEN Wrap ELSE age + 1
    /\ UNCHANGED <<initialized, listenerActive, limiter, counters, sending, pc, bounds,
                   tally>>

Init ==
    /\ initialized = FALSE /\ listenerActive = FALSE
    /\ now = 0 /\ windowStart = 0 /\ count = 0 /\ logCount = 0 /\ droppedCount = 0
    /\ buffer = {} /\ udp = <<>> /\ pc = [t \in Tasks |-> "idle"]
    /\ carry = [t \in Tasks |-> {}]
    /\ gain = [t \in Tasks |-> "sent"] /\ reg = [t \in Tasks |-> 0]
    /\ calls = 0 /\ faults = 0
    /\ burst = [i \in 1 .. Second |-> 0] /\ inWindow = 0 /\ age = 0
    /\ packets = 0 /\ drops = 0 /\ overlap = FALSE /\ wrong = FALSE

Task(t) ==
    \/ Logf(t) \/ Unheard(t) \/ Refuse(t) \/ Admit(t) \/ Format(t) \/ Copy(t)
    \/ LogMetric(t) \/ Send(t) \/ Write(t) \/ EndPacketOk(t) \/ EndPacketFails(t) \/ Store(t)
    \/ ResetRateLimit(t) \/ ResetCount(t)

Next == (\E t \in Tasks : Task(t)) \/ Discover \/ EndLog \/ BeginLog \/ Tick

Spec == Init /\ [][Next]_vars

(***************************************************************************)
(* Properties.                                                             *)
(***************************************************************************)
Places == Behind \cup {"idle", "enter", "reset"}

TypeOK ==
    /\ initialized \in BOOLEAN /\ listenerActive \in BOOLEAN
    /\ now \in 0 .. Wrap - 1 /\ windowStart \in 0 .. Wrap - 1 /\ count \in 0 .. Limit
    /\ logCount \in Nat /\ droppedCount \in Nat
    /\ buffer \in SUBSET Tasks /\ udp \in Seq(SUBSET Tasks)
    /\ pc \in [Tasks -> Places] /\ carry \in [Tasks -> SUBSET Tasks]
    /\ gain \in [Tasks -> {"sent", "dropped"}] /\ reg \in [Tasks -> Nat]
    /\ calls \in 0 .. MaxCalls /\ faults \in 0 .. MaxFaults
    /\ burst \in [1 .. Second -> Nat] /\ inWindow \in Nat /\ age \in 0 .. Wrap
    /\ packets \in Nat /\ drops \in Nat
    /\ overlap \in BOOLEAN /\ wrong \in BOOLEAN

Resetting == \E t \in Tasks : At(t, "reset")

\* The rate limit (ESPIoTLog.cpp:335-357): between two resets no more than
\* Limit messages are let through in a second of the clock, and no more than
\* twice as many in any stretch as long as a second; three times as many when
\* millis() wrapped around within it, for the last second before that is a
\* short one.
RateLimited ==
    \/ Resetting
    \/ /\ inWindow <= Limit
       /\ burst[Second] <= (IF now < Second - 1 THEN 3 ELSE 2) * Limit

\* The limiter drops a message (ESPIoTLog.cpp:345-355) only when the limit is
\* used up in this second of the clock, unless nothing was logged for almost
\* the whole range of millis(), so that the second in which the limiter last
\* counted has the number of this one.  (A reset under way has moved the window
\* and not yet cleared its count.)
DropsJustified ==
    [][\A t \in Tasks : At(t, "enter") /\ pc'[t] = "idle" /\ drops' > drops
                            => inWindow >= Limit \/ age > Wrap - Second \/ Resetting]_vars

\* As long as no two calls are behind the critical section at a time, each
\* packet holds its sender's message and nothing else, and getLogCount() and
\* getDroppedCount() are what was sent and dropped, save for the increment
\* under way.  The lock ends before the buffer, the UDP object and most of the
\* counters' increments (ESPIoTLog.cpp:363-367): two calls at a time may mix.
AloneIsExact ==
    ~overlap =>
        /\ ~wrong
        /\ logCount + (IF \E t \in Tasks : At(t, "store") /\ gain[t] = "sent"
                       THEN 1 ELSE 0) = packets
        /\ droppedCount + (IF \E t \in Tasks : At(t, "store") /\ gain[t] = "dropped"
                           THEN 1 ELSE 0) = drops
=============================================================================
