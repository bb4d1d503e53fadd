---------------------------- MODULE EspIdfIotLog ----------------------------
(***************************************************************************)
(* The ESP-IDF component, esp-idf/esp_iot_log.c.  One task calls           *)
(* iot_log_poll(), which asks mDNS from time to time whether a receiver    *)
(* advertises itself; any task may log; another one initialises and closes *)
(* the log and forces discoveries.  They share s_log without a lock, so    *)
(* each access that another task can come between is a step of its own.    *)
(*                                                                         *)
(* Time is counted in ticks; the 64 bit microsecond clock does not wrap.   *)
(* The core dump is not part of this module.                               *)
(***************************************************************************)
EXTENDS Integers, FiniteSets

CONSTANTS
    Senders,          \* the tasks that log
    ConfigIntervals,  \* cfg.discovery_interval_ms, 0 for the default
    MinInterval,      \* DISCOVERY_MIN_INTERVAL_MS
    MaxInterval,      \* DISCOVERY_MAX_INTERVAL_MS
    AgeCap,           \* bound: ages are not told apart beyond this one
    MaxMessages,      \* bound: messages since the log was initialised
    MaxFaults         \* bound: how often something is lost, or changes

ASSUME EspIdfAssumption ==
    /\ ConfigIntervals \subseteq Nat
    /\ MinInterval \in Nat \ {0} /\ MaxInterval \in Nat /\ MinInterval <= MaxInterval
    /\ AgeCap \in Nat /\ AgeCap > MaxInterval + 1
    /\ MaxMessages \in Nat /\ MaxFaults \in Nat

VARIABLES
    \* s_log
    initialised, listenerActive, disableMdns, unicastActive,
    sock,            \* "none" (-1), "open", or "closed" with its number still there
    sinceDiscovery,  \* the age of last_discovery_us, Never for 0
    interval,        \* discovery_interval_ms
    sent, dropped,   \* sent_count, dropped_count
    \* the tasks
    poll,            \* where the polling task is in iot_log_poll()
    found,           \* what its query told it
    send,            \* where each sender is in send_message()
    ok,              \* its local ok
    seen,            \* the counter's value it has loaded and not yet stored
    polled,          \* iot_log_poll() was called in this tick
    \* the network
    receiverUp,      \* a receiver answers queries
    faults,
    \* history
    sinceQuery,      \* the age of the last query
    failures,        \* queries since one was answered, or the backoff was reset
    forced,          \* a discovery was forced with no query running
    reset,           \* ... or running, or the log was initialised, since the last query
    steadyFor,       \* ticks with a poll in each and no disturbance
    attempts,        \* messages given to send_message() since init
    mixed            \* init came upon a task that was sending

discovery == <<sinceDiscovery, interval>>
counts    == <<sent, dropped>>
config    == <<disableMdns, unicastActive>>
polling   == <<poll, found, polled>>
sending   == <<send, ok, seen>>
network   == <<receiverUp, faults>>
pace      == <<sinceQuery, failures, forced, reset, steadyFor>>
account   == <<attempts, mixed>>
vars == <<initialised, listenerActive, config, sock, discovery, counts, polling, sending,
          network, pace, account>>

Never == -1

Least(a, b)    == IF a < b THEN a ELSE b
Greatest(a, b) == IF a < b THEN b ELSE a
Older(age)     == IF age = Never THEN Never ELSE Least(age + 1, AgeCap)

Fault == faults < MaxFaults /\ faults' = faults + 1

(***************************************************************************)
(* iot_log_init, iot_log_deinit and iot_log_force_discovery.               *)
(***************************************************************************)
\* memset(&s_log, 0, ...) and the configuration, whatever the tasks are doing.
Configure ==
    /\ ~initialised /\ sock = "none"
    /\ disableMdns' \in BOOLEAN /\ listenerActive' = FALSE
    /\ sinceDiscovery' = Never
    /\ \E cfg \in ConfigIntervals : interval' = IF cfg > 0 THEN cfg ELSE MinInterval
    /\ sent' = 0 /\ dropped' = 0 /\ attempts' = 0
    /\ mixed' = (\E s \in Senders : send[s] # "idle")
    /\ reset' = TRUE /\ forced' = FALSE /\ failures' = 0 /\ steadyFor' = 0
    /\ UNCHANGED <<polling, sending, receiverUp, sinceQuery>>

IotLogInit ==
    /\ Configure
    /\ unicastActive' \in BOOLEAN
    /\ sock' = "open" /\ initialised' = TRUE
    /\ UNCHANGED faults

\* mDNS or the socket cannot be had.
IotLogInitFails ==
    /\ Configure /\ Fault
    /\ unicastActive' = FALSE
    /\ UNCHANGED <<sock, initialised>>

\* deinit closes the socket ...
CloseSocket ==
    /\ initialised /\ sock = "open" /\ Fault
    /\ sock' = "closed"
    /\ UNCHANGED <<initialised, listenerActive, config, discovery, counts, polling, sending,
                   receiverUp, pace, account>>

\* ... and then takes back the rest, waiting for nobody.
IotLogDeinit ==
    /\ sock = "closed" /\ sock' = "none"
    /\ initialised' = FALSE /\ listenerActive' = FALSE
    /\ steadyFor' = 0
    /\ UNCHANGED <<config, discovery, counts, polling, sending, network, sinceQuery,
                   failures, forced, reset, account>>

ForceDiscovery ==
    /\ Fault
    /\ sinceDiscovery' = Never /\ interval' = MinInterval
    /\ forced' = (poll = "idle") /\ reset' = TRUE /\ failures' = 0 /\ steadyFor' = 0
    /\ UNCHANGED <<initialised, listenerActive, config, sock, counts, polling, sending,
                   receiverUp, sinceQuery, account>>

(***************************************************************************)
(* iot_log_poll.                                                           *)
(***************************************************************************)
EffectiveInterval == IF listenerActive THEN MaxInterval ELSE interval

\* Variant: the stamp 0 is a time like any other, as in the Arduino library, and
\* the device has not been up for an interval yet.
DueByClock == sinceDiscovery >= EffectiveInterval

Due == sinceDiscovery = Never \/ sinceDiscovery >= EffectiveInterval

PollQuiet ==
    /\ poll = "idle" /\ initialised
    /\ disableMdns \/ ~Due
    /\ polled' = TRUE
    /\ UNCHANGED <<initialised, listenerActive, config, sock, discovery, counts, poll, found,
                   sending, network, pace, account>>

\* The poll goes into mdns_query_ptr().
PollQuery ==
    /\ poll = "idle" /\ initialised /\ ~disableMdns /\ Due
    /\ poll' = "query" /\ polled' = TRUE
    /\ sinceQuery' = 0 /\ forced' = FALSE /\ reset' = FALSE
    /\ UNCHANGED <<initialised, listenerActive, config, sock, discovery, counts, found,
                   sending, network, failures, steadyFor, account>>

\* Variant: the answer is taken to heart only when it is yes.
LearnYes(answer) ==
    /\ poll = "query"
    /\ found' = answer /\ listenerActive' = (listenerActive \/ answer)
    /\ poll' = "stamp"
    /\ UNCHANGED <<initialised, config, sock, discovery, counts, polled, sending,
                   receiverUp, sinceQuery, forced, reset, failures, account>>

\* discover_listener: the answer, whatever has become of the log meanwhile.
Learn(answer) ==
    /\ poll = "query"
    /\ found' = answer /\ listenerActive' = answer
    /\ poll' = "stamp"
    /\ UNCHANGED <<initialised, config, sock, discovery, counts, polled, sending,
                   receiverUp, sinceQuery, forced, reset, failures, account>>

Answered == Learn(receiverUp) /\ UNCHANGED <<faults, steadyFor>>

AnswerLost == receiverUp /\ Learn(FALSE) /\ Fault /\ steadyFor' = 0

\* A discovery forced since is overwritten.
Stamp ==
    /\ poll = "stamp"
    /\ sinceDiscovery' = 0
    /\ poll' = "backoff"
    /\ UNCHANGED <<initialised, listenerActive, config, sock, interval, counts, found, polled,
                   sending, network, pace, account>>

\* Variant: the interval does not grow.
NextIntervalFlat == MinInterval

\* Variant: ... or without bound.
NextIntervalUnbounded == IF found THEN MinInterval ELSE Greatest(MinInterval, 2 * interval)

NextInterval ==
    IF found THEN MinInterval
    ELSE Greatest(MinInterval, Least(2 * interval, MaxInterval))

Backoff ==
    /\ poll = "backoff"
    /\ interval' = NextInterval
    /\ failures' = IF found THEN 0 ELSE Least(failures + 1, AgeCap)
    /\ poll' = "idle" /\ found' = FALSE
    /\ UNCHANGED <<initialised, listenerActive, config, sock, sinceDiscovery, counts, polled,
                   sending, network, sinceQuery, forced, reset, steadyFor, account>>

(***************************************************************************)
(* iot_log, iot_log_metric and iot_log_metric_str, in task s.              *)
(***************************************************************************)
SendTo(s, place) == send' = [send EXCEPT ![s] = place]

\* The caller's own gate: without a listener the message is not even counted.
Log(s) ==
    /\ send[s] = "idle" /\ initialised /\ (listenerActive \/ unicastActive)
    /\ attempts < MaxMessages /\ attempts' = attempts + 1
    /\ SendTo(s, "gate")
    /\ UNCHANGED <<initialised, listenerActive, config, sock, discovery, counts, polling,
                   ok, seen, network, pace, mixed>>

\* send_message's gate, which may have closed meanwhile.
Gate(s) ==
    /\ send[s] = "gate"
    /\ SendTo(s, IF initialised /\ (listenerActive \/ unicastActive)
                 THEN "unicast" ELSE "load")
    /\ UNCHANGED <<initialised, listenerActive, config, sock, discovery, counts, polling,
                   ok, seen, network, pace, account>>

\* sendto() may fail, and does without a socket.  (The number of a socket that
\* was just closed may already be another's.)
Sendto(s, active) ==
    \E success \in {FALSE, active /\ sock # "none"} :
        ok' = [ok EXCEPT ![s] = @ \/ success]

SendUnicast(s) ==
    /\ send[s] = "unicast" /\ Sendto(s, unicastActive) /\ SendTo(s, "multicast")
    /\ UNCHANGED <<initialised, listenerActive, config, sock, discovery, counts, polling,
                   seen, network, pace, account>>

SendMulticast(s) ==
    /\ send[s] = "multicast" /\ Sendto(s, listenerActive) /\ SendTo(s, "load")
    /\ UNCHANGED <<initialised, listenerActive, config, sock, discovery, counts, polling,
                   seen, network, pace, account>>

\* sent_count++ or dropped_count++ is a load and a store.
Load(s) ==
    /\ send[s] = "load" /\ SendTo(s, "store")
    /\ seen' = [seen EXCEPT ![s] = IF ok[s] THEN sent ELSE dropped]
    /\ UNCHANGED <<initialised, listenerActive, config, sock, discovery, counts, polling,
                   ok, network, pace, account>>

\* The call returns, and its locals are gone.
Return(s) ==
    /\ SendTo(s, "idle")
    /\ ok' = [ok EXCEPT ![s] = FALSE] /\ seen' = [seen EXCEPT ![s] = 0]

\* Variant: a message that is turned away is not counted.
StoreSent(s) ==
    /\ send[s] = "store" /\ Return(s)
    /\ sent' = IF ok[s] THEN seen[s] + 1 ELSE sent
    /\ UNCHANGED <<dropped, initialised, listenerActive, config, sock, discovery, polling,
                   network, pace, account>>

Store(s) ==
    /\ send[s] = "store" /\ Return(s)
    /\ IF ok[s] THEN sent' = seen[s] + 1 /\ UNCHANGED dropped
                ELSE dropped' = seen[s] + 1 /\ UNCHANGED sent
    /\ UNCHANGED <<initialised, listenerActive, config, sock, discovery, polling,
                   network, pace, account>>

(***************************************************************************)
(* The network, and time.                                                  *)
(***************************************************************************)
\* The receiver starts or stops.
Turn ==
    /\ Fault
    /\ receiverUp' = ~receiverUp /\ steadyFor' = 0
    /\ UNCHANGED <<initialised, listenerActive, config, sock, discovery, counts, polling,
                   sending, sinceQuery, failures, forced, reset, account>>

\* A query takes a second, so the clock moves on once during it at most.
Tick ==
    /\ poll = "idle" \/ sinceQuery = 0
    /\ sinceDiscovery' = Older(sinceDiscovery) /\ sinceQuery' = Older(sinceQuery)
    /\ polled' = FALSE
    /\ steadyFor' = IF polled /\ initialised THEN Older(steadyFor) ELSE 0
    /\ UNCHANGED <<initialised, listenerActive, config, sock, interval, counts, poll, found,
                   sending, network, failures, forced, reset, account>>

Init ==
    /\ initialised = FALSE /\ listenerActive = FALSE
    /\ disableMdns = FALSE /\ unicastActive = FALSE /\ sock = "none"
    /\ sinceDiscovery = Never /\ interval = 0
    /\ sent = 0 /\ dropped = 0
    /\ poll = "idle" /\ found = FALSE /\ polled = FALSE
    /\ send = [s \in Senders |-> "idle"] /\ ok = [s \in Senders |-> FALSE]
    /\ seen = [s \in Senders |-> 0]
    /\ receiverUp \in BOOLEAN /\ faults = 0
    /\ sinceQuery = Never /\ failures = 0 /\ forced = FALSE /\ reset = FALSE
    /\ steadyFor = 0 /\ attempts = 0 /\ mixed = FALSE

Application == IotLogInit \/ IotLogInitFails \/ CloseSocket \/ IotLogDeinit \/ ForceDiscovery

Poller == PollQuiet \/ PollQuery \/ Answered \/ AnswerLost \/ Stamp \/ Backoff

Sender(s) ==
    Log(s) \/ Gate(s) \/ SendUnicast(s) \/ SendMulticast(s) \/ Load(s) \/ Store(s)

Next == Application \/ Poller \/ Turn \/ Tick \/ \E s \in Senders : Sender(s)

Spec == Init /\ [][Next]_vars

(***************************************************************************)
(* Properties.                                                             *)
(***************************************************************************)
Age == {Never} \cup 0 .. AgeCap

TypeOK ==
    /\ initialised \in BOOLEAN /\ listenerActive \in BOOLEAN
    /\ disableMdns \in BOOLEAN /\ unicastActive \in BOOLEAN
    /\ sock \in {"none", "open", "closed"}
    /\ sinceDiscovery \in Age
    /\ interval \in ConfigIntervals \cup {0} \cup MinInterval .. MaxInterval
    /\ sent \in Nat /\ dropped \in Nat
    /\ poll \in {"idle", "query", "stamp", "backoff"}
    /\ found \in BOOLEAN /\ polled \in BOOLEAN
    /\ send \in [Senders -> {"idle", "gate", "unicast", "multicast", "load", "store"}]
    /\ ok \in [Senders -> BOOLEAN] /\ seen \in [Senders -> Nat]
    /\ receiverUp \in BOOLEAN /\ faults \in 0 .. MaxFaults
    /\ sinceQuery \in Age /\ failures \in 0 .. AgeCap /\ steadyFor \in 0 .. AgeCap
    /\ forced \in BOOLEAN /\ reset \in BOOLEAN
    /\ attempts \in 0 .. MaxMessages /\ mixed \in BOOLEAN

\* When nothing has disturbed it for the longest interval the device knows whether
\* there is a receiver, also after a deinit and an init in the middle of a query.
BeliefAgrees ==
    initialised /\ ~disableMdns /\ poll = "idle" /\ polled /\ steadyFor > MaxInterval
        => listenerActive = receiverUp

\* The failures of the queries that have ended, also of one that is not entered yet.
Failures ==
    IF poll \in {"stamp", "backoff"}
    THEN IF found THEN 0 ELSE Least(failures + 1, AgeCap)
    ELSE failures

\* Queries back off "to match the Arduino library" (line 28), and the device believes what
\* it was told: the component implements the same abstract discovery, also where init,
\* deinit or a forced discovery come in the middle of a query.
Abstract ==
    INSTANCE Discovery WITH
        believed <- listenerActive, asking <- poll = "query", age <- sinceQuery,
        failures <- Failures, excused <- reset

DiscoverySpec == Abstract!Spec

\* "Force an immediate mDNS discovery" (esp_iot_log.h:157): unless a query was running
\* when it was asked for, the next poll queries, with a listener or without.
ForcedIsNext ==
    [][initialised /\ ~disableMdns /\ forced /\ ~polled /\ polled' => poll' = "query"]_vars

\* When no message is on its way each was counted once, as sent or as dropped,
\* also when a gate closed on it half way or the socket was closed under it.
\* (Not if init has wiped the counters in the middle of a message.)
Accounted ==
    (\A s \in Senders : send[s] = "idle") /\ ~mixed => sent + dropped = attempts
=============================================================================
