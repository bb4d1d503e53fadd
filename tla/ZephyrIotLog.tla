----------------------------- MODULE ZephyrIotLog -----------------------------
(***************************************************************************)
(* The send path of the Zephyr port, zephyr/iot_log_zephyr.c, with what    *)
(* meets on it: application threads in iot_log() and the metric calls, the *)
(* poll that drains the log backend's ring through iot_log_send_raw() and  *)
(* announces its silence by send_text_force(), the logging thread that     *)
(* fills the ring, and OpenThread, whose lock every send takes while it    *)
(* holds s_log_mutex.                                                      *)
(*                                                                         *)
(* The ring is a number of messages: LogBackendIot shows that it hands on  *)
(* whole messages in order.  When a listener is believed in is module      *)
(* ZephyrListener's subject; here a poll may hear one, or time one out,    *)
(* whenever the code could.  A send is split at every access to something  *)
(* that another thread can touch.  A message is never too long for a       *)
(* packet: no caller hands send_message more than 514 bytes.               *)
(***************************************************************************)
EXTENDS Integers, FiniteSets

CONSTANTS
    Callers,      \* application threads
    Ot,           \* OpenThread's thread, which runs the application's callbacks
    Poller,       \* the work item's thread
    Logger,       \* Zephyr's logging thread
    None,         \* nobody
    WarnLimit,    \* 3: from then on a failed send is not logged any more
    RingSize,     \* messages the ring has room for
    LogqSize,     \* bound: records that wait for the logging thread
    CountCap,     \* bound: counters are not told apart beyond this one
    MaxCalls,     \* bound: calls of the logging API, records, callbacks
    MaxFaults     \* bound: timeouts, changes of role, deinits

ASSUME ZephyrIotLogAssumption ==
    /\ Ot \notin Callers /\ Poller \notin Callers /\ Logger \notin Callers
    /\ Ot # Poller /\ Ot # Logger /\ Poller # Logger
    /\ None \notin Callers \cup {Ot, Poller, Logger}
    /\ WarnLimit \in Nat /\ RingSize \in Nat \ {0} /\ LogqSize \in Nat \ {0}
    /\ CountCap \in Nat /\ CountCap >= WarnLimit
    /\ MaxCalls \in Nat /\ MaxFaults \in Nat

Senders == Callers \cup {Ot, Poller}
Threads == Senders \cup {Logger}

VARIABLES
    \* s_log
    initialised, alwaysOn, listenerActive, sent, dropped,
    \* locks, threads, buffers
    mutex,          \* who holds s_log_mutex
    otLock,         \* who holds OpenThread's lock for longer than a query
    pc,             \* where each thread is
    back,           \* where the poller goes on after the send it is in
    gain,           \* which counter the thread is about to increment
    reg,            \* the value of it the thread has read
    packet,         \* whose message is in send_message's static buffer, until sent
    logq,           \* records that wait for the logging thread
    ring,           \* messages in the backend's ring
    attached,       \* is_thread_attached()
    callbackLogs,   \* the application logs from OpenThread's callbacks
    calls, faults,
    \* history, since iot_log_init()
    wasSent, wasDropped,    \* what the counters should say
    raced,                  \* init wiped the counters under an increment
    warned,                 \* how many failed sends were logged
    upAtStart               \* a drain is due, and there was a listener when its poll began

s_log   == <<initialised, alwaysOn, listenerActive, sent, dropped>>
queues  == <<logq, ring>>
outside == <<attached, callbackLogs, calls, faults>>
history == <<wasSent, wasDropped, raced, warned, upAtStart>>
vars == <<s_log, mutex, otLock, pc, back, gain, reg, packet, queues, outside, history>>

At(t, place) == pc[t] = place
Goto(t, place) == pc' = [pc EXCEPT ![t] = place]

Fault == faults < MaxFaults /\ faults' = faults + 1
Call == calls < MaxCalls /\ calls' = calls + 1

\* One more, as far as it is told apart.
Incremented(n) == IF n = CountCap THEN n ELSE n + 1

\* A LOG_* call: Zephyr keeps the record for the logging thread, or drops one.
Recorded(n) == IF n < LogqSize THEN n + 1 ELSE n

Believes == alwaysOn \/ listenerActive

\* OpenThread's lock is free for t to take; it is a recursive mutex.
OtFree(t) == otLock \in {None, t}

(***************************************************************************)
(* send_message, under s_log_mutex.                                        *)
(***************************************************************************)

\* The poll's announcements go out although there is no listener.
Forced(t) == t = Poller /\ back # "drain"

After(t) == IF t = Poller THEN back ELSE "idle"

\* Variant: send_text_force() does not lock.
LockUnlessForced(t) ==
    /\ At(t, "lock")
    /\ Forced(t) \/ mutex = None
    /\ IF initialised
       THEN Goto(t, "gate") /\ mutex' = IF Forced(t) THEN mutex ELSE t
       ELSE Goto(t, After(t)) /\ UNCHANGED mutex
    /\ UNCHANGED <<s_log, otLock, back, gain, reg, packet, queues, outside, history>>

\* k_mutex_lock; after a deinit send_message returns false, uncounted, and the
\* mutex is unlocked again.
Lock(t) ==
    /\ At(t, "lock") /\ mutex = None
    /\ IF initialised
       THEN Goto(t, "gate") /\ mutex' = t
       ELSE Goto(t, After(t)) /\ UNCHANGED mutex
    /\ UNCHANGED <<s_log, otLock, back, gain, reg, packet, queues, outside, history>>

\* sent_count++ or dropped_count++ begins: the counter is read.
Begin(t, counter, n) ==
    /\ Goto(t, "store")
    /\ gain' = [gain EXCEPT ![t] = counter] /\ reg' = [reg EXCEPT ![t] = n]

Drop(t) == Begin(t, "dropped", dropped)

\* is_thread_attached takes OpenThread's lock, with s_log_mutex held.  (It and
\* the listener gate are one step: what changes between them could as well
\* have changed before.)  Then the packet is built in the static buffer.
Gate(t) ==
    /\ At(t, "gate") /\ OtFree(t)
    /\ IF attached /\ (Believes \/ Forced(t))
       THEN Goto(t, "transmit") /\ packet' = t /\ UNCHANGED <<gain, reg>>
       ELSE Drop(t) /\ UNCHANGED packet
    /\ UNCHANGED <<s_log, mutex, otLock, back, queues, outside, history>>

TransmitOk(t) ==
    /\ At(t, "transmit") /\ initialised
    /\ Begin(t, "sent", sent)
    /\ packet' = None
    /\ UNCHANGED <<s_log, mutex, otLock, back, queues, outside, history>>

\* Variant: every failed send is logged.
TransmitWarns(t) ==
    /\ At(t, "transmit")
    /\ Drop(t) /\ packet' = None
    /\ logq' = Recorded(logq)
    /\ warned' = IF warned > WarnLimit THEN warned ELSE warned + 1
    /\ UNCHANGED <<s_log, mutex, otLock, back, ring, outside,
                   wasSent, wasDropped, raced, upAtStart>>

\* zsock_sendto fails (after a deinit its socket is -1).  The warning is a log
\* record too, and if there is a listener it comes back as a message to be sent.
TransmitFails(t) ==
    /\ At(t, "transmit")
    /\ Drop(t) /\ packet' = None
    /\ IF dropped < WarnLimit
       THEN /\ logq' = Recorded(logq)
            /\ warned' = IF warned > WarnLimit THEN warned ELSE warned + 1
       ELSE UNCHANGED <<logq, warned>>
    /\ UNCHANGED <<s_log, mutex, otLock, back, ring, outside,
                   wasSent, wasDropped, raced, upAtStart>>

\* Variant: it returns with the mutex locked.
StoreKeepsMutex(t) ==
    /\ At(t, "store")
    /\ IF gain[t] = "sent"
       THEN /\ sent' = Incremented(reg[t]) /\ wasSent' = Incremented(wasSent)
            /\ UNCHANGED <<dropped, wasDropped>>
       ELSE /\ dropped' = Incremented(reg[t]) /\ wasDropped' = Incremented(wasDropped)
            /\ UNCHANGED <<sent, wasSent>>
    /\ gain' = [gain EXCEPT ![t] = "none"] /\ reg' = [reg EXCEPT ![t] = 0]
    /\ Goto(t, After(t))
    /\ UNCHANGED <<initialised, alwaysOn, listenerActive, mutex, otLock, back,
                   packet, queues, outside, raced, warned, upAtStart>>

\* The write, and k_mutex_unlock.
Store(t) ==
    /\ At(t, "store")
    /\ IF gain[t] = "sent"
       THEN /\ sent' = Incremented(reg[t]) /\ wasSent' = Incremented(wasSent)
            /\ UNCHANGED <<dropped, wasDropped>>
       ELSE /\ dropped' = Incremented(reg[t]) /\ wasDropped' = Incremented(wasDropped)
            /\ UNCHANGED <<sent, wasSent>>
    /\ gain' = [gain EXCEPT ![t] = "none"] /\ reg' = [reg EXCEPT ![t] = 0]
    /\ mutex' = None
    /\ Goto(t, After(t))
    /\ UNCHANGED <<initialised, alwaysOn, listenerActive, otLock, back, packet,
                   queues, outside, raced, warned, upAtStart>>

SendStep(t) ==
    \/ Lock(t) \/ Gate(t) \/ TransmitOk(t) \/ TransmitFails(t)
    \/ Store(t)

(***************************************************************************)
(* The logging API, in an application thread or in a callback.             *)
(***************************************************************************)
MayCall(t) ==
    t \in Callers \/ (t = Ot /\ otLock = Ot /\ callbackLogs)

\* iot_log: to the serial mirror first, if that is configured, then to the network.
IotLog(t, mirror) ==
    /\ At(t, "idle") /\ MayCall(t) /\ initialised
    /\ Call
    /\ logq' = IF mirror THEN Recorded(logq) ELSE logq
    /\ Goto(t, "lock")
    /\ UNCHANGED <<s_log, mutex, otLock, back, gain, reg, packet, ring, attached,
                   callbackLogs, faults, history>>

\* iot_log_metric and iot_log_metric_str.
IotLogMetric(t) ==
    /\ At(t, "idle") /\ MayCall(t) /\ initialised
    /\ Call
    /\ Goto(t, "lock")
    /\ UNCHANGED <<s_log, mutex, otLock, back, gain, reg, packet, queues, attached,
                   callbackLogs, faults, history>>

\* A LOG_* call of the application, of Zephyr or of this module.
Record ==
    /\ Call
    /\ logq' = Recorded(logq)
    /\ UNCHANGED <<s_log, mutex, otLock, pc, back, gain, reg, packet, ring, attached,
                   callbackLogs, faults, history>>

(***************************************************************************)
(* iot_log_poll, as far as it sends or changes what is sent.               *)
(***************************************************************************)
\* Variant: a listener may time out before the ring is drained.
PollExpiresFirst(heard) ==
    /\ At(Poller, "idle") /\ initialised
    /\ Goto(Poller, "drain")
    /\ back' = "drain"
    /\ upAtStart' = Believes
    /\ listenerActive' = (~alwaysOn /\ heard)
    /\ UNCHANGED <<initialised, alwaysOn, sent, dropped, mutex, otLock, gain, reg,
                   packet, queues, outside, wasSent, wasDropped, raced, warned>>

\* It begins with the deferred join, which assumes a listener, and the beacons.
Poll(heard) ==
    /\ At(Poller, "idle") /\ initialised
    /\ Goto(Poller, "drain")
    /\ back' = "drain"
    /\ upAtStart' = Believes
    /\ listenerActive' = (listenerActive \/ (~alwaysOn /\ heard))
    /\ UNCHANGED <<initialised, alwaysOn, sent, dropped, mutex, otLock, gain, reg,
                   packet, queues, outside, wasSent, wasDropped, raced, warned>>

\* iot_log_backend_drain takes a message and hands it to iot_log_send_raw,
\* which after a deinit does not even count it.
Drain ==
    /\ At(Poller, "drain") /\ ring > 0
    /\ ring' = ring - 1
    /\ Goto(Poller, IF initialised THEN "lock" ELSE "drain")
    /\ UNCHANGED <<s_log, mutex, otLock, back, gain, reg, packet, logq, outside, history>>

DrainEnds ==
    /\ At(Poller, "drain") /\ ring = 0
    /\ Goto(Poller, "check")
    /\ upAtStart' = FALSE
    /\ UNCHANGED <<s_log, mutex, otLock, back, gain, reg, packet, queues, outside,
                   wasSent, wasDropped, raced, warned>>

\* send_text_force, or nothing if the throttle of the banners says so.
Announce(banner, next) ==
    /\ back' = next
    /\ Goto(Poller, IF banner /\ initialised THEN "lock" ELSE next)

Expiry(banner) ==
    /\ At(Poller, "check") /\ ~alwaysOn /\ listenerActive
    /\ Fault
    /\ Announce(banner, "lower")
    /\ UNCHANGED <<s_log, mutex, otLock, gain, reg, packet, queues, attached, callbackLogs,
                   calls, history>>

Lower ==
    /\ At(Poller, "lower")
    /\ listenerActive' = FALSE
    /\ Goto(Poller, "check")
    /\ UNCHANGED <<initialised, alwaysOn, sent, dropped, mutex, otLock,
                   back, gain, reg, packet, queues, outside, history>>

\* Not the time for either, or refresh_mlr failed, or it has been done.  Then
\* the work item's handler may log its status: it does so when sends failed
\* since it last did, when the role or the listener changed, and from time to
\* time anyway.  (So a status line whose send fails makes for the next one, a
\* second later.)
PollEnds(status) ==
    /\ At(Poller, "check") \/ At(Poller, "end")
    /\ back' = "idle" /\ Goto(Poller, "idle")
    /\ logq' = IF status /\ initialised THEN Recorded(logq) ELSE logq
    /\ UNCHANGED <<s_log, mutex, otLock, gain, reg, packet, ring, outside, history>>

\* Variant: OpenThread's lock is kept until after the announcement.
RefreshUnderLock(banner) ==
    /\ At(Poller, "check") /\ OtFree(Poller)
    /\ ~alwaysOn /\ ~listenerActive /\ attached
    /\ listenerActive' = TRUE
    /\ otLock' = Poller
    /\ Announce(banner, "end")
    /\ UNCHANGED <<initialised, alwaysOn, sent, dropped, mutex, gain, reg,
                   packet, queues, outside, history>>

\* refresh_mlr takes OpenThread's lock and gives it back before the banner.
Refresh(banner) ==
    /\ At(Poller, "check") /\ OtFree(Poller)
    /\ ~alwaysOn /\ ~listenerActive /\ attached
    /\ listenerActive' = TRUE
    /\ Announce(banner, "end")
    /\ UNCHANGED <<initialised, alwaysOn, sent, dropped, mutex, otLock,
                   gain, reg, packet, queues, outside, history>>

PollStep ==
    \/ Drain \/ DrainEnds \/ Lower
    \/ \E banner \in BOOLEAN : Expiry(banner) \/ Refresh(banner)
    \/ \E status \in BOOLEAN : PollEnds(status)

(***************************************************************************)
(* process() of the log backend, in the logging thread.                    *)
(***************************************************************************)
Process ==
    /\ At(Logger, "idle") /\ logq > 0
    /\ logq' = logq - 1
    /\ Goto(Logger, "active")
    /\ UNCHANGED <<s_log, mutex, otLock, back, gain, reg, packet, ring, outside, history>>

\* iot_log_is_active takes OpenThread's lock.
CheckActive ==
    /\ At(Logger, "active") /\ OtFree(Logger)
    /\ Goto(Logger, IF initialised /\ attached /\ Believes THEN "put" ELSE "idle")
    /\ UNCHANGED <<s_log, mutex, otLock, back, gain, reg, packet, queues, outside, history>>

\* Variant: without the look at the space that is left.
PutUnmeasured ==
    /\ At(Logger, "put")
    /\ ring' = ring + 1
    /\ Goto(Logger, "idle")
    /\ UNCHANGED <<s_log, mutex, otLock, back, gain, reg, packet, logq, outside, history>>

\* Or the ring is full.
Put ==
    /\ At(Logger, "put")
    /\ ring' = IF ring < RingSize THEN ring + 1 ELSE ring
    /\ Goto(Logger, "idle")
    /\ UNCHANGED <<s_log, mutex, otLock, back, gain, reg, packet, logq, outside, history>>

LogStep == Process \/ CheckActive \/ Put

(***************************************************************************)
(* OpenThread, and the application that opens and closes the log.          *)
(***************************************************************************)
EnterCallback ==
    /\ otLock = None
    /\ Call
    /\ otLock' = Ot
    /\ UNCHANGED <<s_log, mutex, pc, back, gain, reg, packet, queues, attached, callbackLogs,
                   faults, history>>

LeaveCallback ==
    /\ otLock = Ot /\ At(Ot, "idle")
    /\ otLock' = None
    /\ UNCHANGED <<s_log, mutex, pc, back, gain, reg, packet, queues, outside, history>>

\* The role changes under OpenThread's lock.
ChangeRole ==
    /\ otLock = Ot /\ At(Ot, "idle")
    /\ Fault
    /\ attached' = ~attached
    /\ UNCHANGED <<s_log, mutex, otLock, pc, back, gain, reg, packet, queues, callbackLogs,
                   calls, history>>

\* memset(&s_log, 0, ...) does not ask for the mutex.  always_on is set too
\* if there is no RX socket.
IotLogInit(always) ==
    /\ ~initialised
    /\ initialised' = TRUE /\ listenerActive' = FALSE
    /\ alwaysOn' = always
    /\ sent' = 0 /\ dropped' = 0
    /\ wasSent' = 0 /\ wasDropped' = 0 /\ warned' = 0
    /\ raced' = \E t \in Senders : At(t, "store")
    /\ upAtStart' = FALSE
    /\ UNCHANGED <<mutex, otLock, pc, back, gain, reg, packet, queues, outside>>

\* Nor does this, nor does it wait for anybody.
IotLogDeinit ==
    /\ initialised /\ Fault
    /\ initialised' = FALSE /\ listenerActive' = FALSE
    /\ upAtStart' = FALSE
    /\ UNCHANGED <<alwaysOn, sent, dropped, mutex, otLock, pc, back, gain, reg,
                   packet, queues, attached, callbackLogs, calls, wasSent, wasDropped, raced,
                   warned>>

Init ==
    /\ initialised = FALSE /\ alwaysOn = FALSE /\ listenerActive = FALSE
    /\ sent = 0 /\ dropped = 0
    /\ mutex = None /\ otLock = None
    /\ pc = [t \in Threads |-> "idle"] /\ back = "idle"
    /\ gain = [t \in Senders |-> "none"] /\ reg = [t \in Senders |-> 0]
    /\ packet = None
    /\ logq = 0 /\ ring = 0
    /\ attached \in BOOLEAN /\ callbackLogs \in BOOLEAN
    /\ calls = 0 /\ faults = 0
    /\ wasSent = 0 /\ wasDropped = 0 /\ raced = FALSE /\ warned = 0 /\ upAtStart = FALSE

Next ==
    \/ \E t \in Senders : SendStep(t) \/ IotLogMetric(t)
    \/ \E t \in Senders, mirror \in BOOLEAN : IotLog(t, mirror)
    \/ \E heard \in BOOLEAN : Poll(heard)
    \/ Record \/ PollStep \/ LogStep
    \/ EnterCallback \/ LeaveCallback \/ ChangeRole
    \/ \E always \in BOOLEAN : IotLogInit(always)
    \/ IotLogDeinit

Spec == Init /\ [][Next]_vars

(***************************************************************************)
(* A thread goes on, and a callback returns.  Nobody has to call anything. *)
(* Strong fairness for an application thread that waits for the mutex:     *)
(* k_mutex_unlock hands it over to the waiting thread of the highest       *)
(* priority, so that the poller, with one status line after the other,     *)
(* does not get it again and again; all others make MaxCalls calls.  (That *)
(* threads of a higher priority leave some time to the others is for the   *)
(* application to see to.)                                                 *)
(***************************************************************************)
Fairness ==
    /\ \A t \in Senders : WF_vars(SendStep(t))
    /\ \A t \in Callers : SF_vars(Lock(t))
    /\ WF_vars(PollStep) /\ WF_vars(LogStep)
    /\ WF_vars(LeaveCallback)

FairSpec == Spec /\ Fairness

(***************************************************************************)
(* Properties.                                                             *)
(***************************************************************************)
Sending == {"gate", "transmit", "store"}
Polling == {"drain", "check", "lower", "end"}
Count == 0 .. CountCap

TypeOK ==
    /\ initialised \in BOOLEAN /\ alwaysOn \in BOOLEAN /\ listenerActive \in BOOLEAN
    /\ sent \in Count /\ dropped \in Count
    /\ mutex \in Senders \cup {None} /\ otLock \in {None, Ot}
    /\ pc \in [Threads -> {"idle", "lock", "active", "put"} \cup Sending \cup Polling]
    /\ back \in {"idle", "drain", "lower", "end"}
    /\ gain \in [Senders -> {"none", "sent", "dropped"}]
    /\ reg \in [Senders -> Count]
    /\ packet \in Senders \cup {None}
    /\ logq \in 0 .. LogqSize /\ ring \in 0 .. RingSize
    /\ attached \in BOOLEAN /\ callbackLogs \in BOOLEAN
    /\ calls \in 0 .. MaxCalls /\ faults \in 0 .. MaxFaults
    /\ wasSent \in Count /\ wasDropped \in Count
    /\ raced \in BOOLEAN /\ warned \in 0 .. WarnLimit + 1 /\ upAtStart \in BOOLEAN

\* "Static - protected by s_log_mutex which all callers hold" (line 219): what
\* a thread gives to sendto is what it put into the buffer, whoever else sends.
PacketIsMine == \A t \in Senders : At(t, "transmit") => packet = t

\* The counters say what happened since init, whichever threads send, with the
\* one exception that init may wipe them under an increment.
CountsExact ==
    ~raced => sent = wasSent /\ dropped = wasDropped

\* s_log_mutex protects what send_message shares: the buffer and the counters.
MutexProtects == PacketIsMine /\ CountsExact

\* A failing network does not feed on the warnings about it: whatever fails,
\* no more than WarnLimit of them are made from one init to the next.
WarningsEnd == ~raced => warned <= WarnLimit

WaitsForMutex(t) == At(t, "lock") /\ mutex # None
WaitsForOt(t) == (At(t, "gate") \/ At(t, "active")) /\ ~OtFree(t)

CircularWait ==
    /\ mutex # None /\ otLock # None
    /\ WaitsForOt(mutex) /\ WaitsForMutex(otLock)

\* "Thread-safe - can be called from any Zephyr thread" (iot_log_zephyr.h:114):
\* but not from a callback that holds OpenThread's lock, which every send takes
\* inside the mutex.  Nothing else the library does can lock it up.
NoCircularWait == CircularWait => callbackLogs

\* "Drain, then expire" (line 642): a message that is in the ring when a poll
\* begins under a listener is not lost to the end of that listener (lines
\* 638-643); only when Thread is left it may be.
BacklogSurvives ==
    [][At(Poller, "gate") /\ attached /\ pc'[Poller] = "store" => ~upAtStart]_vars

\* Unless a callback logs, every call of an application thread returns and every
\* poll ends: also when each send fails, is logged, and so makes one more to send.
CallsReturn ==
    \A t \in Callers \cup {Poller} :
        ~callbackLogs /\ ~At(t, "idle") ~> At(t, "idle")
=============================================================================
