--------------------------- MODULE ZephyrListener ---------------------------
(***************************************************************************)
(* Listener discovery in the Zephyr port, zephyr/iot_log_zephyr.c: when    *)
(* does the device believe that somebody listens?  iot_log_poll() joins    *)
(* the multicast group once Thread is attached, reads the receiver's       *)
(* beacons, mutes the device when they stop, and while it is mute renews   *)
(* the multicast subscription from time to time.  It is called by a work   *)
(* item that re-schedules itself and, if the application likes, from the   *)
(* application's loop too.  It takes no lock, so each stretch of it        *)
(* between two calls that can block or be preempted is a step of its own.  *)
(*                                                                         *)
(* Time passes in ticks.  A time stamp is modelled by its age, Never for a *)
(* stamp that is 0.  The log lines and banners of poll(), and the counter  *)
(* iot_log_consec_fail that thins them out, are left out; draining the     *)
(* backend's ring (line 643) is module LogBackendIot.                      *)
(***************************************************************************)
EXTENDS Integers, FiniteSets

CONSTANTS
    Pollers,        \* the threads that call iot_log_poll()
    WorkQ,          \* the one that does so for the work item
    BeaconTimeout,  \* IOT_LOG_BEACON_TIMEOUT_S
    BeaconGrace,    \* IOT_LOG_BEACON_GRACE_S
    MlrRefresh,     \* IOT_LOG_MLR_REFRESH_S
    AgeCap,         \* bound: ages are not told apart beyond this one
    MaxFaults       \* bound: how much the network and the application may do

ASSUME ListenerAssumption ==
    /\ WorkQ \in Pollers
    /\ BeaconTimeout \in Nat /\ BeaconGrace \in Nat /\ MlrRefresh \in Nat
    /\ BeaconGrace <= BeaconTimeout
    /\ AgeCap \in Nat /\ AgeCap > BeaconTimeout + 1 /\ AgeCap > MlrRefresh
    /\ MaxFaults \in Nat

VARIABLES
    \* s_log
    initialised, alwaysOn, listenerActive, mcastJoined, beaconConfirmed,
    sinceBeacon,    \* the age of last_beacon_ms
    sinceResub,     \* the age of last_resubscribe_ms
    rxOpen,         \* rx_sock >= 0
    \* the threads
    pc,             \* where each poller is in iot_log_poll()
    app,            \* where the application is in iot_log_init()
    workScheduled,  \* the work item waits for its time
    polled,         \* it has run in this tick
    \* Thread, the Zephyr stack and the receiver
    attached,       \* is_thread_attached()
    subscribed,     \* OpenThread has the group in its list
    registered,     \* the parent forwards the group to the device
    ifaceJoined,    \* Zephyr's IPv6 input accepts packets to the group
    rx,             \* there is a beacon in the RX socket's queue
    receiverUp,     \* the receiver runs and sends beacons
    beaconSent,     \* it has sent the one of this tick
    faults,         \* how often something went wrong or changed
    \* history
    sinceReal,      \* the age of the last beacon read since init
    steadyFor       \* ticks since anything went wrong or changed

s_log  == <<initialised, alwaysOn, listenerActive, mcastJoined, beaconConfirmed,
            sinceBeacon, sinceResub, rxOpen>>
threads == <<pc, app, workScheduled, polled>>
network == <<attached, subscribed, registered, ifaceJoined, rx, receiverUp,
             beaconSent, faults>>
vars == <<s_log, threads, network, sinceReal, steadyFor>>

Never == -1

\* One tick later.
Older(age) ==
    IF age = Never \/ age = AgeCap THEN age ELSE age + 1

\* How long a device that is left alone may take to find the receiver: the belief in
\* one it does not hear ends, the renewal that follows comes due, and a beacon after
\* that is read.
Repair == BeaconTimeout + MlrRefresh + 6

Fault == faults < MaxFaults /\ faults' = faults + 1 /\ steadyFor' = 0

At(p, place) == pc[p] = place
Goto(p, place) == pc' = [pc EXCEPT ![p] = place]

\* iot_log_is_active
IsActive == initialised /\ attached /\ (alwaysOn \/ listenerActive)

(***************************************************************************)
(* iot_log_init and iot_log_deinit, called by the application.             *)
(***************************************************************************)

\* The application's thread is not in one of these or in a poll of its own.
AppFree == app = "idle" /\ \A p \in Pollers \ {WorkQ} : At(p, "idle")

\* memset(&s_log, 0, ...) and what is configured after it.
Reset(always, open) ==
    /\ alwaysOn' = always /\ rxOpen' = open
    /\ listenerActive' = FALSE /\ mcastJoined' = FALSE /\ beaconConfirmed' = FALSE
    /\ sinceBeacon' = Never /\ sinceResub' = Never
    /\ sinceReal' = Never /\ steadyFor' = 0

\* Variant: without the early return of lines 441-443.
IotLogInitAgain(always, rxFails) ==
    /\ AppFree
    /\ Reset(always \/ rxFails, ~always /\ ~rxFails)
    /\ initialised' = TRUE
    /\ app' = "scheduling"
    /\ UNCHANGED <<pc, workScheduled, polled, network>>

\* Everything up to line 532.  If the RX socket cannot be had beacons cannot
\* be received, and the device sends as if always_on were configured.
IotLogInit(always, rxFails) ==
    /\ AppFree /\ ~initialised
    /\ Reset(always \/ rxFails, ~always /\ ~rxFails)
    /\ initialised' = TRUE
    /\ app' = "scheduling"
    /\ UNCHANGED <<pc, workScheduled, polled, network>>

\* k_work_schedule: nothing happens to an item that is scheduled already.
ScheduleWork ==
    /\ app = "scheduling"
    /\ workScheduled' = TRUE
    /\ app' = "idle"
    /\ UNCHANGED <<s_log, pc, polled, network, sinceReal, steadyFor>>

\* The TX socket cannot be had: -1, with s_log wiped.
IotLogInitFails(always) ==
    /\ AppFree /\ ~initialised
    /\ Fault
    /\ Reset(always, FALSE)
    /\ UNCHANGED <<initialised, threads, attached, subscribed, registered,
                   ifaceJoined, rx, receiverUp, beaconSent>>

\* The work item is not cancelled, and nothing waits for a poll under way.
IotLogDeinit ==
    /\ AppFree /\ initialised
    /\ Fault
    /\ rxOpen' = FALSE /\ rx' = FALSE
    /\ initialised' = FALSE
    /\ listenerActive' = FALSE
    /\ UNCHANGED <<alwaysOn, mcastJoined, beaconConfirmed, sinceBeacon, sinceResub,
                   threads, attached, subscribed, registered, ifaceJoined,
                   receiverUp, beaconSent, sinceReal>>

(***************************************************************************)
(* iot_log_poll, in poller p.                                              *)
(***************************************************************************)

\* The work item's time has come; or the application calls iot_log_poll().
\* An uninitialised poll() returns at once.
Start(p) ==
    /\ At(p, "idle")
    /\ IF p = WorkQ
       THEN /\ workScheduled /\ ~polled
            /\ workScheduled' = FALSE /\ polled' = TRUE
       ELSE app = "idle" /\ initialised /\ UNCHANGED <<workScheduled, polled>>
    /\ Goto(p, IF initialised THEN "join" ELSE "end")
    /\ UNCHANGED <<s_log, app, network, sinceReal, steadyFor>>

\* The deferred join: only once Thread is attached.
CheckJoin(p) ==
    /\ At(p, "join")
    /\ Goto(p, IF ~mcastJoined /\ attached THEN "joining" ELSE "ensure")
    /\ UNCHANGED <<s_log, app, workScheduled, polled, network, sinceReal, steadyFor>>

\* Variant: the clock of the assumed listener is not started.
JoinOkNoClock(p) ==
    /\ At(p, "joining")
    /\ mcastJoined' = TRUE
    /\ listenerActive' = (listenerActive \/ ~alwaysOn)
    /\ subscribed' = TRUE
    /\ registered' = (registered \/ (~subscribed /\ attached))
    /\ ifaceJoined' = (ifaceJoined \/ ~subscribed)
    /\ Goto(p, "ensure")
    /\ UNCHANGED <<initialised, alwaysOn, beaconConfirmed, sinceBeacon, sinceResub,
                   rxOpen, app, workScheduled, polled, attached, rx, receiverUp,
                   beaconSent, faults, sinceReal, steadyFor>>

\* The group is subscribed (or was already); whoever listens is assumed to.
JoinOk(p) ==
    /\ At(p, "joining")
    /\ mcastJoined' = TRUE
    /\ IF ~alwaysOn /\ ~listenerActive
       THEN listenerActive' = TRUE /\ sinceBeacon' = 0
       ELSE UNCHANGED <<listenerActive, sinceBeacon>>
    /\ subscribed' = TRUE
    /\ registered' = (registered \/ (~subscribed /\ attached))
    /\ ifaceJoined' = (ifaceJoined \/ ~subscribed)
    /\ Goto(p, "ensure")
    /\ UNCHANGED <<initialised, alwaysOn, beaconConfirmed, sinceResub, rxOpen, app,
                   workScheduled, polled, attached, rx, receiverUp, beaconSent,
                   faults, sinceReal, steadyFor>>

JoinFails(p) ==
    /\ At(p, "joining")
    /\ Fault
    /\ Goto(p, "ensure")
    /\ UNCHANGED <<s_log, app, workScheduled, polled, attached, subscribed, registered,
                   ifaceJoined, rx, receiverUp, beaconSent, sinceReal>>

\* Variant: the code before ensure_zephyr_mcast_joined() was written.
EnsureNothing(p) ==
    /\ At(p, "ensure")
    /\ Goto(p, "beacons")
    /\ UNCHANGED <<s_log, app, workScheduled, polled, network, sinceReal, steadyFor>>

\* ensure_zephyr_mcast_joined: the group may be marked "not joined".
EnsureJoined(p) ==
    /\ At(p, "ensure")
    /\ ifaceJoined' = (ifaceJoined \/ (mcastJoined /\ attached))
    /\ Goto(p, "beacons")
    /\ UNCHANGED <<s_log, app, workScheduled, polled, attached, subscribed, registered,
                   rx, receiverUp, beaconSent, faults, sinceReal, steadyFor>>

\* Variant: a beacon does not confirm the listener.
CheckUnconfirmed(p) ==
    /\ At(p, "beacons")
    /\ IF ~alwaysOn /\ rxOpen /\ rx
       THEN /\ rx' = FALSE
            /\ listenerActive' = TRUE
            /\ sinceBeacon' = 0 /\ sinceReal' = 0
       ELSE UNCHANGED <<rx, listenerActive, sinceBeacon, sinceReal>>
    /\ Goto(p, "check")
    /\ UNCHANGED <<initialised, alwaysOn, mcastJoined, beaconConfirmed, sinceResub,
                   rxOpen, app, workScheduled, polled, attached, subscribed,
                   registered, ifaceJoined, receiverUp, beaconSent, faults, steadyFor>>

\* check_for_beacons: read what is in the socket.
CheckForBeacons(p) ==
    /\ At(p, "beacons")
    /\ IF ~alwaysOn /\ rxOpen /\ rx
       THEN /\ rx' = FALSE
            /\ listenerActive' = TRUE /\ beaconConfirmed' = TRUE
            /\ sinceBeacon' = 0 /\ sinceReal' = 0
       ELSE UNCHANGED <<rx, listenerActive, beaconConfirmed, sinceBeacon, sinceReal>>
    /\ Goto(p, "check")
    /\ UNCHANGED <<initialised, alwaysOn, mcastJoined, sinceResub, rxOpen, app,
                   workScheduled, polled, attached, subscribed, registered,
                   ifaceJoined, receiverUp, beaconSent, faults, steadyFor>>

\* How long the device goes on without a beacon.
Window == IF beaconConfirmed THEN BeaconTimeout ELSE BeaconGrace

\* Variant: the grace does not end.
ExpiredConfirmed ==
    /\ ~alwaysOn /\ listenerActive /\ beaconConfirmed
    /\ sinceBeacon # Never /\ sinceBeacon > Window

Expired ==
    /\ ~alwaysOn /\ listenerActive
    /\ sinceBeacon # Never /\ sinceBeacon > Window

CheckExpiry(p) ==
    /\ At(p, "check")
    /\ Goto(p, IF Expired THEN "expiring" ELSE "refresh")
    /\ UNCHANGED <<s_log, app, workScheduled, polled, network, sinceReal, steadyFor>>

\* The banner went out; only now is the flag lowered.
Expire(p) ==
    /\ At(p, "expiring")
    /\ listenerActive' = FALSE
    /\ sinceResub' = 0
    /\ Goto(p, "refresh")
    /\ UNCHANGED <<initialised, alwaysOn, mcastJoined, beaconConfirmed, sinceBeacon,
                   rxOpen, app, workScheduled, polled, network, sinceReal, steadyFor>>

RefreshDue ==
    /\ ~alwaysOn /\ ~listenerActive /\ mcastJoined /\ attached
    /\ sinceResub = Never \/ sinceResub >= MlrRefresh

CheckRefresh(p) ==
    /\ At(p, "refresh")
    /\ Goto(p, IF RefreshDue THEN "refreshing" ELSE "end")
    /\ UNCHANGED <<s_log, app, workScheduled, polled, network, sinceReal, steadyFor>>

\* refresh_mlr: leave the group and join it again, so that the parent hears
\* of it (Zephyr's mark on the group stays as it is); then listen once more.
RefreshOk(p) ==
    /\ At(p, "refreshing")
    /\ subscribed' = TRUE /\ registered' = attached
    /\ sinceResub' = 0 /\ sinceBeacon' = 0
    /\ listenerActive' = TRUE
    /\ Goto(p, "end")
    /\ UNCHANGED <<initialised, alwaysOn, mcastJoined, beaconConfirmed, rxOpen, app,
                   workScheduled, polled, attached, ifaceJoined, rx, receiverUp,
                   beaconSent, faults, sinceReal, steadyFor>>

\* It left the group and could not join it again.
RefreshFails(p) ==
    /\ At(p, "refreshing")
    /\ Fault
    /\ subscribed' = FALSE /\ registered' = FALSE
    /\ Goto(p, "end")
    /\ UNCHANGED <<s_log, app, workScheduled, polled, attached, ifaceJoined, rx,
                   receiverUp, beaconSent, sinceReal>>

\* Variant: the handler goes on only while there is a listener.
EndWhileActive(p) ==
    /\ At(p, "end")
    /\ workScheduled' = (workScheduled \/ (p = WorkQ /\ initialised /\ listenerActive))
    /\ Goto(p, "idle")
    /\ UNCHANGED <<s_log, app, polled, network, sinceReal, steadyFor>>

\* The handler re-schedules its work item as long as the log is initialised.
End(p) ==
    /\ At(p, "end")
    /\ workScheduled' = (workScheduled \/ (p = WorkQ /\ initialised))
    /\ Goto(p, "idle")
    /\ UNCHANGED <<s_log, app, polled, network, sinceReal, steadyFor>>

Step(p) ==
    \/ CheckJoin(p) \/ JoinOk(p) \/ EnsureJoined(p) \/ CheckForBeacons(p)
    \/ CheckExpiry(p) \/ Expire(p) \/ CheckRefresh(p) \/ RefreshOk(p) \/ End(p)

(***************************************************************************)
(* Thread, the Zephyr stack, the receiver, and time.                       *)
(***************************************************************************)

\* OpenThread registers its groups with the parent when it attaches.
Attach ==
    /\ ~attached
    /\ attached' = TRUE /\ registered' = subscribed /\ steadyFor' = 0
    /\ UNCHANGED <<s_log, threads, subscribed, ifaceJoined, rx, receiverUp, beaconSent,
                   faults, sinceReal>>

\* The iface goes dormant and Zephyr marks its groups "not joined".
Detach ==
    /\ attached /\ Fault
    /\ attached' = FALSE /\ registered' = FALSE /\ ifaceJoined' = FALSE
    /\ UNCHANGED <<s_log, threads, subscribed, rx, receiverUp, beaconSent, sinceReal>>

\* A parent loses the registration.
ParentForgets ==
    /\ registered /\ Fault
    /\ registered' = FALSE
    /\ UNCHANGED <<s_log, threads, attached, subscribed, ifaceJoined, rx, receiverUp,
                   beaconSent, sinceReal>>

StartReceiver ==
    /\ ~receiverUp
    /\ receiverUp' = TRUE /\ steadyFor' = 0
    /\ UNCHANGED <<s_log, threads, attached, subscribed, registered, ifaceJoined, rx,
                   beaconSent, faults, sinceReal>>

StopReceiver ==
    /\ receiverUp /\ Fault
    /\ receiverUp' = FALSE
    /\ UNCHANGED <<s_log, threads, attached, subscribed, registered, ifaceJoined, rx,
                   beaconSent, sinceReal>>

\* The beacon reaches the socket if every part of the way is up.
Beacon ==
    /\ receiverUp /\ ~beaconSent
    /\ beaconSent' = TRUE
    /\ rx' = (rx \/ (attached /\ registered /\ ifaceJoined /\ rxOpen))
    /\ UNCHANGED <<s_log, threads, attached, subscribed, registered, ifaceJoined,
                   receiverUp, faults, sinceReal, steadyFor>>

BeaconLost ==
    /\ receiverUp /\ ~beaconSent /\ Fault
    /\ beaconSent' = TRUE
    /\ UNCHANGED <<s_log, threads, attached, subscribed, registered, ifaceJoined, rx,
                   receiverUp, sinceReal>>

\* A tick is long enough for the work item to run once and the receiver to
\* send one beacon, and no call in a poll takes longer.
Tick ==
    /\ \A p \in Pollers : At(p, "idle")
    /\ app = "idle"
    /\ workScheduled => polled
    /\ receiverUp => beaconSent
    /\ sinceBeacon' = Older(sinceBeacon) /\ sinceResub' = Older(sinceResub)
    /\ sinceReal' = Older(sinceReal)
    /\ steadyFor' = IF steadyFor < Repair THEN steadyFor + 1 ELSE steadyFor
    /\ polled' = FALSE /\ beaconSent' = FALSE
    /\ UNCHANGED <<initialised, alwaysOn, listenerActive, mcastJoined, beaconConfirmed,
                   rxOpen, pc, app, workScheduled, attached, subscribed, registered,
                   ifaceJoined, rx, receiverUp, faults>>

Init ==
    /\ initialised = FALSE /\ alwaysOn = FALSE /\ listenerActive = FALSE
    /\ mcastJoined = FALSE /\ beaconConfirmed = FALSE
    /\ sinceBeacon = Never /\ sinceResub = Never /\ sinceReal = Never
    /\ rxOpen = FALSE
    /\ pc = [p \in Pollers |-> "idle"] /\ app = "idle"
    /\ workScheduled = FALSE /\ polled = FALSE
    /\ attached \in BOOLEAN /\ receiverUp \in BOOLEAN
    /\ subscribed = FALSE /\ registered = FALSE /\ ifaceJoined = FALSE
    /\ rx = FALSE /\ beaconSent = FALSE
    /\ faults = 0 /\ steadyFor = 0

Application ==
    \/ \E always, rxFails \in BOOLEAN : IotLogInit(always, rxFails)
    \/ \E always \in BOOLEAN : IotLogInitFails(always)
    \/ ScheduleWork \/ IotLogDeinit

Network ==
    Attach \/ Detach \/ ParentForgets \/ StartReceiver \/ StopReceiver \/ Beacon \/ BeaconLost

Next ==
    \/ Application \/ Network \/ Tick
    \/ \E p \in Pollers : Start(p) \/ Step(p) \/ JoinFails(p) \/ RefreshFails(p)

Spec == Init /\ [][Next]_vars

(***************************************************************************)
(* Time passes, the work queue runs a work item that is due, a poll runs   *)
(* to its end, and a receiver that is up sends its beacons.  What goes     *)
(* wrong never has to, and the application need not do anything more.      *)
(***************************************************************************)
Fairness ==
    /\ WF_vars(Tick) /\ WF_vars(Beacon) /\ WF_vars(ScheduleWork)
    /\ WF_vars(Start(WorkQ))
    /\ \A p \in Pollers : WF_vars(Step(p))

FairSpec == Spec /\ Fairness

(***************************************************************************)
(* Properties.                                                             *)
(***************************************************************************)
Places == {"idle", "join", "joining", "ensure", "beacons", "check", "expiring",
           "refresh", "refreshing", "end"}

Age == {Never} \cup 0 .. AgeCap

TypeOK ==
    /\ initialised \in BOOLEAN /\ alwaysOn \in BOOLEAN /\ listenerActive \in BOOLEAN
    /\ mcastJoined \in BOOLEAN /\ beaconConfirmed \in BOOLEAN
    /\ sinceBeacon \in Age /\ sinceResub \in Age /\ sinceReal \in Age
    /\ rxOpen \in BOOLEAN
    /\ pc \in [Pollers -> Places] /\ app \in {"idle", "scheduling"}
    /\ workScheduled \in BOOLEAN /\ polled \in BOOLEAN
    /\ attached \in BOOLEAN /\ subscribed \in BOOLEAN /\ registered \in BOOLEAN
    /\ ifaceJoined \in BOOLEAN /\ receiverUp \in BOOLEAN /\ beaconSent \in BOOLEAN
    /\ rx \in BOOLEAN /\ (rx => rxOpen)
    /\ faults \in 0 .. MaxFaults /\ steadyFor \in 0 .. Repair

\* Once iot_log_init() has returned the log polls itself: the work item is
\* scheduled or running, also after a deinit that left the item of the
\* earlier incarnation scheduled or in the middle of a poll.
SelfDriven ==
    initialised /\ app = "idle" => workScheduled \/ pc[WorkQ] # "idle"

\* "Device considers listener active if a beacon arrived within this window"
\* (iot_log_zephyr.h:34): whatever made the device believe in a listener set
\* a clock going, and the belief ends with the poll after the window has.
ExpiryIsTimely ==
    initialised /\ ~alwaysOn /\ listenerActive =>
        sinceBeacon # Never /\ sinceBeacon <= Window + 1

\* A poll never mutes the device while beacons come in: when it lowers the
\* flag it has read no beacon since init, or none for BeaconTimeout.
NoLiveListenerMuted ==
    [][initialised /\ initialised' /\ listenerActive /\ ~listenerActive'
         => sinceReal = Never \/ sinceReal > BeaconTimeout]_vars

\* A receiver that stays is found and not lost again, whatever went wrong before: the
\* join failed, Zephyr marked the group as not joined, a parent forgot it, a renewal
\* failed half way, init was called on a running poll.  And that within the sum of
\* the two windows and a few polls, unless a beacon is too old as soon as it is read.
HealsInTime ==
    receiverUp /\ attached /\ initialised /\ steadyFor = Repair /\ BeaconTimeout > 0
        => IsActive

\* Without a receiver the device goes silent again and again.  (Not for good:
\* every renewal of the subscription ends a silence.)
FallsSilent ==
    <>[](~receiverUp /\ ~alwaysOn) => []<>(~IsActive)
=============================================================================
