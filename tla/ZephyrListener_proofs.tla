----------------------- MODULE ZephyrListener_proofs -----------------------
(***************************************************************************)
(* Proofs about ZephyrListener, for any windows and any bounds.  With any  *)
(* number of pollers: the listener poll drives itself, a belief in a       *)
(* listener ends in time, and a receiver that stays is found.  When nobody *)
(* but the work queue polls: a live listener is never muted.               *)
(***************************************************************************)
EXTENDS ZephyrListener, TLAPS

USE ListenerAssumption DEF ListenerAssumption

(***************************************************************************)
(* The parts of TypeOK.  Socket adds what makes "rx => rxOpen" inductive:  *)
(* iot_log_init() assigns rx_sock anew, and may because the log that is    *)
(* not initialised has no socket.                                          *)
(***************************************************************************)
LogFlags ==
    /\ initialised \in BOOLEAN /\ alwaysOn \in BOOLEAN /\ listenerActive \in BOOLEAN
    /\ mcastJoined \in BOOLEAN /\ beaconConfirmed \in BOOLEAN /\ rxOpen \in BOOLEAN
    /\ workScheduled \in BOOLEAN /\ polled \in BOOLEAN

Ages == sinceBeacon \in Age /\ sinceResub \in Age /\ sinceReal \in Age

Threads == pc \in [Pollers -> Places] /\ app \in {"idle", "scheduling"}

NetworkState ==
    /\ attached \in BOOLEAN /\ subscribed \in BOOLEAN /\ registered \in BOOLEAN
    /\ ifaceJoined \in BOOLEAN /\ receiverUp \in BOOLEAN /\ beaconSent \in BOOLEAN
    /\ rx \in BOOLEAN

FaultCount == faults \in 0 .. MaxFaults

Steadiness == steadyFor \in 0 .. Repair

Socket == (rx => rxOpen) /\ (~initialised => ~rxOpen)

\* Whatever raises the flag stamps the time.
Stamped == listenerActive => sinceBeacon # Never

\* The places where the poll has its expiry decision behind it.
Decided == {"idle", "refresh", "refreshing", "end"}

\* Once the work item has decided in this tick, the window is not over.
InWindow ==
    polled /\ pc[WorkQ] \in Decided /\ initialised /\ ~alwaysOn /\ listenerActive
        => sinceBeacon <= Window

IInv ==
    /\ LogFlags /\ Ages /\ Threads /\ NetworkState /\ FaultCount
    /\ Steadiness /\ Socket /\ SelfDriven /\ Stamped /\ InWindow /\ ExpiryIsTimely

\* The type invariant is the conjunction of its parts.
LEMMA TypeParts ==
  ASSUME LogFlags, Ages, Threads, NetworkState, FaultCount, Steadiness, Socket
  PROVE  TypeOK
BY DEF TypeOK, LogFlags, Ages, Threads, NetworkState, FaultCount, Steadiness, Socket

\* The strengthened invariant holds when the system starts.
LEMMA InitInv == Init => IInv
<1> SUFFICES ASSUME Init PROVE IInv
  OBVIOUS
<1>1. LogFlags /\ Threads /\ Socket
  BY DEF Init, LogFlags, Threads, Places, Socket
<1>2. Ages
  BY DEF Init, Ages, Age, Never
<1>3. NetworkState
  BY DEF Init, NetworkState
<1>4. FaultCount /\ Steadiness
  BY DEF Init, FaultCount, Steadiness, Repair
<1>5. SelfDriven /\ Stamped /\ InWindow /\ ExpiryIsTimely
  BY DEF Init, SelfDriven, Stamped, InWindow, ExpiryIsTimely
<1> QED
  BY <1>1, <1>2, <1>3, <1>4, <1>5 DEF IInv

(***************************************************************************)
(* Each part of the type invariant is preserved by every step.             *)
(***************************************************************************)
\* Steps keep the flags of s_log and of the work item Boolean.
LEMMA LogFlagsStep ==
  ASSUME LogFlags, [Next]_vars
  PROVE  LogFlags'
<1> USE DEF s_log, threads, network, LogFlags
<1>1. CASE Application
  BY <1>1 DEF Application, IotLogInit, IotLogInitFails, ScheduleWork,
              IotLogDeinit, Reset, Fault
<1>2. CASE Network
  BY <1>2 DEF Network, Attach, Detach, ParentForgets, StartReceiver,
              StopReceiver, Beacon, BeaconLost, Fault
<1>3. CASE Tick
  BY <1>3 DEF Tick
<1>4. ASSUME NEW p \in Pollers, Start(p) \/ JoinFails(p) \/ RefreshFails(p)
      PROVE  LogFlags'
  BY <1>4 DEF Start, JoinFails, RefreshFails, Fault, Goto
<1>5. ASSUME NEW p \in Pollers, Step(p)
      PROVE  LogFlags'
  <2>1. CASE CheckJoin(p) \/ EnsureJoined(p) \/ CheckExpiry(p) \/ CheckRefresh(p)
    BY <2>1 DEF CheckJoin, EnsureJoined, CheckExpiry, CheckRefresh, Goto
  <2>2. CASE JoinOk(p)
    BY <2>2 DEF JoinOk, Goto
  <2>3. CASE CheckForBeacons(p)
    BY <2>3 DEF CheckForBeacons, Goto
  <2>4. CASE Expire(p) \/ RefreshOk(p) \/ End(p)
    BY <2>4 DEF Expire, RefreshOk, End, Goto
  <2> QED
    BY <1>5, <2>1, <2>2, <2>3, <2>4 DEF Step
<1>6. CASE UNCHANGED vars
  BY <1>6 DEF vars
<1> QED
  BY <1>1, <1>2, <1>3, <1>4, <1>5, <1>6 DEF Next

\* Ages grow to AgeCap and are reset to 0 or Never, never beyond.
LEMMA AgesStep ==
  ASSUME Ages, [Next]_vars
  PROVE  Ages'
<1> USE DEF s_log, threads, network, Ages, Age, Never
<1>1. CASE Application
  BY <1>1 DEF Application, IotLogInit, IotLogInitFails, ScheduleWork,
              IotLogDeinit, Reset, Fault
<1>2. CASE Network
  BY <1>2 DEF Network, Attach, Detach, ParentForgets, StartReceiver,
              StopReceiver, Beacon, BeaconLost, Fault
<1>3. CASE Tick
  BY <1>3 DEF Tick, Older
<1>4. ASSUME NEW p \in Pollers, Start(p) \/ JoinFails(p) \/ RefreshFails(p)
      PROVE  Ages'
  BY <1>4 DEF Start, JoinFails, RefreshFails, Fault, Goto
<1>5. ASSUME NEW p \in Pollers, Step(p)
      PROVE  Ages'
  <2>1. CASE CheckJoin(p) \/ EnsureJoined(p) \/ CheckExpiry(p) \/ CheckRefresh(p)
    BY <2>1 DEF CheckJoin, EnsureJoined, CheckExpiry, CheckRefresh, Goto
  <2>2. CASE JoinOk(p)
    BY <2>2 DEF JoinOk, Goto
  <2>3. CASE CheckForBeacons(p)
    BY <2>3 DEF CheckForBeacons, Goto
  <2>4. CASE Expire(p) \/ RefreshOk(p) \/ End(p)
    BY <2>4 DEF Expire, RefreshOk, End, Goto
  <2> QED
    BY <1>5, <2>1, <2>2, <2>3, <2>4 DEF Step
<1>6. CASE UNCHANGED vars
  BY <1>6 DEF vars
<1> QED
  BY <1>1, <1>2, <1>3, <1>4, <1>5, <1>6 DEF Next

\* Every poller stays at one of its places.
LEMMA ThreadsStep ==
  ASSUME Threads, [Next]_vars
  PROVE  Threads'
<1> USE DEF s_log, threads, network, Threads, Places
<1>1. CASE Application
  BY <1>1 DEF Application, IotLogInit, IotLogInitFails, ScheduleWork,
              IotLogDeinit, Reset, Fault
<1>2. CASE Network
  BY <1>2 DEF Network, Attach, Detach, ParentForgets, StartReceiver,
              StopReceiver, Beacon, BeaconLost, Fault
<1>3. CASE Tick
  BY <1>3 DEF Tick
<1>4. ASSUME NEW p \in Pollers, Start(p) \/ JoinFails(p) \/ RefreshFails(p)
      PROVE  Threads'
  BY <1>4 DEF Start, JoinFails, RefreshFails, Fault, Goto
<1>5. ASSUME NEW p \in Pollers, Step(p)
      PROVE  Threads'
  <2>1. CASE CheckJoin(p) \/ EnsureJoined(p) \/ CheckExpiry(p) \/ CheckRefresh(p)
    BY <2>1 DEF CheckJoin, EnsureJoined, CheckExpiry, CheckRefresh, Goto
  <2>2. CASE JoinOk(p)
    BY <2>2 DEF JoinOk, Goto
  <2>3. CASE CheckForBeacons(p)
    BY <2>3 DEF CheckForBeacons, Goto
  <2>4. CASE Expire(p) \/ RefreshOk(p) \/ End(p)
    BY <2>4 DEF Expire, RefreshOk, End, Goto
  <2> QED
    BY <1>5, <2>1, <2>2, <2>3, <2>4 DEF Step
<1>6. CASE UNCHANGED vars
  BY <1>6 DEF vars
<1> QED
  BY <1>1, <1>2, <1>3, <1>4, <1>5, <1>6 DEF Next

\* Steps keep the state of the network in its type.
LEMMA NetworkStep ==
  ASSUME LogFlags, NetworkState, [Next]_vars
  PROVE  NetworkState'
<1> USE DEF s_log, threads, network, LogFlags, NetworkState
<1>1. CASE Application
  <2>1. ASSUME NEW always \in BOOLEAN, NEW rxFails \in BOOLEAN, IotLogInit(always, rxFails)
        PROVE  NetworkState'
    BY <2>1 DEF IotLogInit, Fault
  <2>2. ASSUME NEW always \in BOOLEAN, IotLogInitFails(always)
        PROVE  NetworkState'
    BY <2>2 DEF IotLogInitFails, Fault
  <2>3. CASE ScheduleWork \/ IotLogDeinit
    BY <2>3 DEF ScheduleWork, IotLogDeinit, Reset
  <2> QED
    BY <1>1, <2>1, <2>2, <2>3 DEF Application
<1>2. CASE Network
  BY <1>2 DEF Network, Attach, Detach, ParentForgets, StartReceiver,
              StopReceiver, Beacon, BeaconLost, Fault
<1>3. CASE Tick
  BY <1>3 DEF Tick
<1>4. ASSUME NEW p \in Pollers, Start(p) \/ JoinFails(p) \/ RefreshFails(p)
      PROVE  NetworkState'
  BY <1>4 DEF Start, JoinFails, RefreshFails, Fault, Goto
<1>5. ASSUME NEW p \in Pollers, Step(p)
      PROVE  NetworkState'
  <2>1. CASE CheckJoin(p) \/ EnsureJoined(p) \/ CheckExpiry(p) \/ CheckRefresh(p)
    BY <2>1 DEF CheckJoin, EnsureJoined, CheckExpiry, CheckRefresh, Goto
  <2>2. CASE JoinOk(p)
    BY <2>2 DEF JoinOk, Goto
  <2>3. CASE CheckForBeacons(p)
    BY <2>3 DEF CheckForBeacons, Goto
  <2>4. CASE Expire(p) \/ RefreshOk(p) \/ End(p)
    BY <2>4 DEF Expire, RefreshOk, End, Goto
  <2> QED
    BY <1>5, <2>1, <2>2, <2>3, <2>4 DEF Step
<1>6. CASE UNCHANGED vars
  BY <1>6 DEF vars
<1> QED
  BY <1>1, <1>2, <1>3, <1>4, <1>5, <1>6 DEF Next

\* The number of faults stays within its bound.
LEMMA FaultsStep ==
  ASSUME FaultCount, [Next]_vars
  PROVE  FaultCount'
<1> USE DEF s_log, threads, network, FaultCount
<1>1. CASE Application
  BY <1>1 DEF Application, IotLogInit, IotLogInitFails, ScheduleWork,
              IotLogDeinit, Reset, Fault
<1>2. CASE Network
  BY <1>2 DEF Network, Attach, Detach, ParentForgets, StartReceiver,
              StopReceiver, Beacon, BeaconLost, Fault
<1>3. CASE Tick
  BY <1>3 DEF Tick
<1>4. ASSUME NEW p \in Pollers, Start(p) \/ JoinFails(p) \/ RefreshFails(p)
      PROVE  FaultCount'
  BY <1>4 DEF Start, JoinFails, RefreshFails, Fault, Goto
<1>5. ASSUME NEW p \in Pollers, Step(p)
      PROVE  FaultCount'
  <2>1. CASE CheckJoin(p) \/ EnsureJoined(p) \/ CheckExpiry(p) \/ CheckRefresh(p)
    BY <2>1 DEF CheckJoin, EnsureJoined, CheckExpiry, CheckRefresh, Goto
  <2>2. CASE JoinOk(p)
    BY <2>2 DEF JoinOk, Goto
  <2>3. CASE CheckForBeacons(p)
    BY <2>3 DEF CheckForBeacons, Goto
  <2>4. CASE Expire(p) \/ RefreshOk(p) \/ End(p)
    BY <2>4 DEF Expire, RefreshOk, End, Goto
  <2> QED
    BY <1>5, <2>1, <2>2, <2>3, <2>4 DEF Step
<1>6. CASE UNCHANGED vars
  BY <1>6 DEF vars
<1> QED
  BY <1>1, <1>2, <1>3, <1>4, <1>5, <1>6 DEF Next

\* Only a tick counts, and only up to the bound.
LEMMA SteadinessStep ==
  ASSUME Steadiness, [Next]_vars
  PROVE  Steadiness'
<1> USE DEF Steadiness, Repair
<1>1. CASE Application
  BY <1>1 DEF Application, IotLogInit, IotLogInitFails, ScheduleWork,
              IotLogDeinit, Reset, Fault
<1>2. CASE Network
  BY <1>2 DEF Network, Attach, Detach, ParentForgets, StartReceiver,
              StopReceiver, Beacon, BeaconLost, Fault
<1>3. CASE Tick
  BY <1>3 DEF Tick
<1>4. ASSUME NEW p \in Pollers, Start(p) \/ JoinFails(p) \/ RefreshFails(p)
      PROVE  Steadiness'
  BY <1>4 DEF Start, JoinFails, RefreshFails, Fault
<1>5. ASSUME NEW p \in Pollers, Step(p)
      PROVE  Steadiness'
  BY <1>5 DEF Step, CheckJoin, JoinOk, EnsureJoined, CheckForBeacons, CheckExpiry,
              Expire, CheckRefresh, RefreshOk, End
<1>6. CASE UNCHANGED vars
  BY <1>6 DEF vars
<1> QED
  BY <1>1, <1>2, <1>3, <1>4, <1>5, <1>6 DEF Next

\* Beacons queue only in a socket, and only an initialised log has one.
LEMMA SocketStep ==
  ASSUME LogFlags, NetworkState, Socket, [Next]_vars
  PROVE  Socket'
<1> USE DEF s_log, threads, network, LogFlags, NetworkState, Socket
<1>1. CASE Application
  BY <1>1 DEF Application, IotLogInit, IotLogInitFails, ScheduleWork,
              IotLogDeinit, Reset, Fault
<1>2. CASE Network
  BY <1>2 DEF Network, Attach, Detach, ParentForgets, StartReceiver,
              StopReceiver, Beacon, BeaconLost, Fault
<1>3. CASE Tick
  BY <1>3 DEF Tick
<1>4. ASSUME NEW p \in Pollers, Start(p) \/ JoinFails(p) \/ RefreshFails(p)
      PROVE  Socket'
  BY <1>4 DEF Start, JoinFails, RefreshFails, Fault, Goto
<1>5. ASSUME NEW p \in Pollers, Step(p)
      PROVE  Socket'
  <2>1. CASE CheckJoin(p) \/ EnsureJoined(p) \/ CheckExpiry(p) \/ CheckRefresh(p)
    BY <2>1 DEF CheckJoin, EnsureJoined, CheckExpiry, CheckRefresh, Goto
  <2>2. CASE JoinOk(p)
    BY <2>2 DEF JoinOk, Goto
  <2>3. CASE CheckForBeacons(p)
    BY <2>3 DEF CheckForBeacons, Goto
  <2>4. CASE Expire(p) \/ RefreshOk(p) \/ End(p)
    BY <2>4 DEF Expire, RefreshOk, End, Goto
  <2> QED
    BY <1>5, <2>1, <2>2, <2>3, <2>4 DEF Step
<1>6. CASE UNCHANGED vars
  BY <1>6 DEF vars
<1> QED
  BY <1>1, <1>2, <1>3, <1>4, <1>5, <1>6 DEF Next

(***************************************************************************)
(* The invariants that relate the parts.                                   *)
(***************************************************************************)

\* A work item leaves "scheduled" only to run, and ends its run scheduled
\* again unless the log was shut down meanwhile.
LEMMA SelfDrivenStep ==
  ASSUME IInv, [Next]_vars
  PROVE  SelfDriven'
<1> USE DEF SelfDriven, s_log, threads, network
<1> SelfDriven /\ Threads /\ LogFlags
  BY DEF IInv
<1>1. ASSUME NEW always \in BOOLEAN, NEW rxFails \in BOOLEAN,
             IotLogInit(always, rxFails)
      PROVE  SelfDriven'
  BY <1>1 DEF IotLogInit
<1>2. ASSUME NEW always \in BOOLEAN, IotLogInitFails(always)
      PROVE  SelfDriven'
  BY <1>2 DEF IotLogInitFails
<1>3. CASE ScheduleWork
  BY <1>3 DEF ScheduleWork
<1>4. CASE IotLogDeinit
  BY <1>4 DEF IotLogDeinit
<1>5. CASE Network
  BY <1>5 DEF Network, Attach, Detach, ParentForgets, StartReceiver,
              StopReceiver, Beacon, BeaconLost
<1>6. CASE Tick
  BY <1>6 DEF Tick
<1>7. ASSUME NEW p \in Pollers, Start(p)
      PROVE  SelfDriven'
  BY <1>7 DEF Start, Goto, Threads
<1>8. ASSUME NEW p \in Pollers, End(p)
      PROVE  SelfDriven'
  BY <1>8 DEF End, Goto, Threads, LogFlags
<1>9. ASSUME NEW p \in Pollers,
             (Step(p) /\ ~End(p)) \/ JoinFails(p) \/ RefreshFails(p)
      PROVE  SelfDriven'
  BY <1>9 DEF Step, JoinFails, RefreshFails, CheckJoin, JoinOk, EnsureJoined,
              CheckForBeacons, CheckExpiry, Expire, CheckRefresh, RefreshOk,
              Goto, Threads
<1>10. CASE UNCHANGED vars
  BY <1>10 DEF vars
<1> QED
  BY <1>1, <1>2, <1>3, <1>4, <1>5, <1>6, <1>7, <1>8, <1>9, <1>10
     DEF Next, Application, Step

\* The three places that raise listener_active stamp last_beacon_ms, and only
\* iot_log_init(), which lowers the flag, clears the stamp.
LEMMA StampedStep ==
  ASSUME IInv, [Next]_vars
  PROVE  Stamped'
<1> USE DEF Stamped, Never, s_log, threads, network
<1> Stamped /\ Ages /\ LogFlags
  BY DEF IInv
<1>1. CASE Application
  BY <1>1 DEF Application, IotLogInit, IotLogInitFails, ScheduleWork,
              IotLogDeinit, Reset
<1>2. CASE Network
  BY <1>2 DEF Network, Attach, Detach, ParentForgets, StartReceiver,
              StopReceiver, Beacon, BeaconLost
<1>3. CASE Tick
  BY <1>3 DEF Tick, Older, Ages, Age
<1>4. ASSUME NEW p \in Pollers, JoinOk(p)
      PROVE  Stamped'
  <2>1. CASE ~alwaysOn /\ ~listenerActive
    BY <1>4, <2>1 DEF JoinOk
  <2>2. CASE ~(~alwaysOn /\ ~listenerActive)
    BY <1>4, <2>2 DEF JoinOk
  <2> QED
    BY <2>1, <2>2
<1>5. ASSUME NEW p \in Pollers, CheckForBeacons(p)
      PROVE  Stamped'
  <2>1. CASE ~alwaysOn /\ rxOpen /\ rx
    BY <1>5, <2>1 DEF CheckForBeacons
  <2>2. CASE ~(~alwaysOn /\ rxOpen /\ rx)
    BY <1>5, <2>2 DEF CheckForBeacons
  <2> QED
    BY <2>1, <2>2
<1>6. ASSUME NEW p \in Pollers, RefreshOk(p) \/ Expire(p)
      PROVE  Stamped'
  BY <1>6 DEF RefreshOk, Expire
<1>7. ASSUME NEW p \in Pollers,
             \/ Start(p) \/ CheckJoin(p) \/ JoinFails(p) \/ EnsureJoined(p)
             \/ CheckExpiry(p) \/ CheckRefresh(p) \/ RefreshFails(p) \/ End(p)
      PROVE  Stamped'
  BY <1>7 DEF Start, CheckJoin, JoinFails, EnsureJoined, CheckExpiry,
              CheckRefresh, RefreshFails, End
<1>8. CASE UNCHANGED vars
  BY <1>8 DEF vars
<1> QED
  BY <1>1, <1>2, <1>3, <1>4, <1>5, <1>6, <1>7, <1>8 DEF Next, Step

\* What the belief in a listener consists of.
Belief == <<initialised, alwaysOn, listenerActive, beaconConfirmed, sinceBeacon>>

\* Between two ticks no age grows, the window never shrinks while the flag is
\* up, and the flag is only raised with a fresh stamp: the poll that went past
\* its decision left the window open for the rest of the tick.
LEMMA InWindowStep ==
  ASSUME IInv, [Next]_vars
  PROVE  InWindow'
<1> USE DEF InWindow, Window, Decided, s_log, threads, network
<1> InWindow /\ Stamped /\ Ages /\ LogFlags /\ Threads
  BY DEF IInv
<1>1. CASE Application
  <2>1. ASSUME NEW always \in BOOLEAN, NEW rxFails \in BOOLEAN,
               IotLogInit(always, rxFails) \/ IotLogInitFails(always)
        PROVE  InWindow'
    BY <2>1 DEF IotLogInit, IotLogInitFails, Reset
  <2>2. CASE ScheduleWork
    BY <2>2 DEF ScheduleWork
  <2>3. CASE IotLogDeinit
    BY <2>3 DEF IotLogDeinit
  <2> QED
    BY <1>1, <2>1, <2>2, <2>3 DEF Application
<1>2. CASE Network
  <2>1. UNCHANGED Belief /\ UNCHANGED <<polled, pc>>
    BY <1>2 DEF Network, Attach, Detach, ParentForgets, StartReceiver,
                StopReceiver, Beacon, BeaconLost, Belief
  <2> QED
    BY <2>1 DEF Belief
<1>3. CASE Tick
  BY <1>3 DEF Tick
<1>4. ASSUME NEW p \in Pollers, Start(p)
      PROVE  InWindow'
  <2>1. CASE p = WorkQ /\ initialised
    <3>1. pc'[WorkQ] = "join"
      BY <1>4, <2>1 DEF Start, Goto, Threads
    <3> QED
      BY <3>1
  <2>2. CASE ~initialised
    BY <1>4, <2>2 DEF Start
  <2>3. CASE p # WorkQ
    <3>1. pc'[WorkQ] = pc[WorkQ]
      BY <1>4, <2>3 DEF Start, Goto, Threads
    <3> QED
      BY <1>4, <2>3, <3>1 DEF Start
  <2> QED
    BY <2>1, <2>2, <2>3
<1>5. ASSUME NEW p \in Pollers, CheckExpiry(p)
      PROVE  InWindow'
  <2>1. CASE Expired
    <3>1. pc'[WorkQ] = pc[WorkQ] \/ pc'[WorkQ] = "expiring"
      BY <1>5, <2>1 DEF CheckExpiry, Goto, Threads
    <3> QED
      BY <1>5, <3>1 DEF CheckExpiry
  <2>2. CASE ~Expired
    BY <1>5, <2>2 DEF CheckExpiry, Expired, Stamped, Ages, Age, Never
  <2> QED
    BY <2>1, <2>2
<1>6. ASSUME NEW p \in Pollers, JoinOk(p)
      PROVE  InWindow'
  <2>1. pc'[WorkQ] = pc[WorkQ] \/ pc'[WorkQ] = "ensure"
    BY <1>6 DEF JoinOk, Goto, Threads
  <2>2. CASE ~alwaysOn /\ ~listenerActive
    BY <1>6, <2>2 DEF JoinOk
  <2>3. CASE ~(~alwaysOn /\ ~listenerActive)
    BY <1>6, <2>1, <2>3 DEF JoinOk
  <2> QED
    BY <2>2, <2>3
<1>7. ASSUME NEW p \in Pollers, CheckForBeacons(p)
      PROVE  InWindow'
  <2>1. pc'[WorkQ] = pc[WorkQ] \/ pc'[WorkQ] = "check"
    BY <1>7 DEF CheckForBeacons, Goto, Threads
  <2>2. CASE ~alwaysOn /\ rxOpen /\ rx
    BY <1>7, <2>2 DEF CheckForBeacons
  <2>3. CASE ~(~alwaysOn /\ rxOpen /\ rx)
    BY <1>7, <2>1, <2>3 DEF CheckForBeacons
  <2> QED
    BY <2>2, <2>3
<1>8. ASSUME NEW p \in Pollers, RefreshOk(p) \/ Expire(p)
      PROVE  InWindow'
  BY <1>8 DEF RefreshOk, Expire
<1>9. ASSUME NEW p \in Pollers, CheckJoin(p) \/ JoinFails(p) \/ EnsureJoined(p)
      PROVE  InWindow'
  <2>1. pc'[WorkQ] = pc[WorkQ] \/ pc'[WorkQ] \in {"joining", "ensure", "beacons"}
    BY <1>9 DEF CheckJoin, JoinFails, EnsureJoined, Goto, Threads
  <2>2. UNCHANGED Belief /\ UNCHANGED polled
    BY <1>9 DEF CheckJoin, JoinFails, EnsureJoined, Belief
  <2> QED
    BY <2>1, <2>2 DEF Belief
<1>10. ASSUME NEW p \in Pollers, CheckRefresh(p) \/ RefreshFails(p) \/ End(p)
       PROVE  InWindow'
  <2>1. pc'[WorkQ] = pc[WorkQ] \/ pc[WorkQ] \in Decided
    BY <1>10 DEF CheckRefresh, RefreshFails, End, At, Goto, Threads
  <2>2. UNCHANGED Belief /\ UNCHANGED polled
    BY <1>10 DEF CheckRefresh, RefreshFails, End, Belief
  <2> QED
    BY <2>1, <2>2 DEF Belief
<1>11. CASE UNCHANGED vars
  BY <1>11 DEF vars
<1> QED
  BY <1>1, <1>2, <1>3, <1>4, <1>5, <1>6, <1>7, <1>8, <1>9, <1>10, <1>11
     DEF Next, Step

\* Only a tick makes a belief older, and no tick passes before the work item,
\* which is scheduled, has polled and found the window open.
LEMMA TimelyStep ==
  ASSUME IInv, [Next]_vars
  PROVE  ExpiryIsTimely'
<1> USE DEF ExpiryIsTimely, Window, s_log, threads, network
<1> ExpiryIsTimely /\ Stamped /\ Ages /\ LogFlags
  BY DEF IInv
<1>1. CASE Application
  <2>1. ASSUME NEW always \in BOOLEAN, NEW rxFails \in BOOLEAN,
               IotLogInit(always, rxFails) \/ IotLogInitFails(always)
        PROVE  ExpiryIsTimely'
    BY <2>1 DEF IotLogInit, IotLogInitFails, Reset
  <2>2. CASE ScheduleWork
    BY <2>2 DEF ScheduleWork
  <2>3. CASE IotLogDeinit
    BY <2>3 DEF IotLogDeinit
  <2> QED
    BY <1>1, <2>1, <2>2, <2>3 DEF Application
<1>2. CASE Network
  <2>1. UNCHANGED Belief /\ UNCHANGED <<polled, pc>>
    BY <1>2 DEF Network, Attach, Detach, ParentForgets, StartReceiver,
                StopReceiver, Beacon, BeaconLost, Belief
  <2> QED
    BY <2>1 DEF Belief
<1>3. CASE Tick
  <2> SUFFICES ASSUME initialised, ~alwaysOn, listenerActive
               PROVE  sinceBeacon' # Never /\ sinceBeacon' <= Window + 1
    BY <1>3 DEF Tick
  <2>1. pc[WorkQ] = "idle" /\ app = "idle" /\ (workScheduled => polled)
    BY <1>3 DEF Tick, At
  <2>2. workScheduled
    BY <2>1 DEF IInv, SelfDriven
  <2>3. sinceBeacon <= Window
    BY <2>1, <2>2 DEF IInv, InWindow, Decided
  <2>4. sinceBeacon \in 0 .. AgeCap
    BY DEF Stamped, Ages, Age
  <2>5. sinceBeacon' \in {sinceBeacon, sinceBeacon + 1}
    BY <1>3 DEF Tick, Older
  <2> QED
    BY <2>3, <2>4, <2>5 DEF Never
<1>4. ASSUME NEW p \in Pollers, JoinOk(p)
      PROVE  ExpiryIsTimely'
  <2>1. CASE ~alwaysOn /\ ~listenerActive
    BY <1>4, <2>1 DEF JoinOk, Never
  <2>2. CASE ~(~alwaysOn /\ ~listenerActive)
    BY <1>4, <2>2 DEF JoinOk
  <2> QED
    BY <2>1, <2>2
<1>5. ASSUME NEW p \in Pollers, CheckForBeacons(p)
      PROVE  ExpiryIsTimely'
  <2>1. CASE ~alwaysOn /\ rxOpen /\ rx
    BY <1>5, <2>1 DEF CheckForBeacons, Never
  <2>2. CASE ~(~alwaysOn /\ rxOpen /\ rx)
    BY <1>5, <2>2 DEF CheckForBeacons
  <2> QED
    BY <2>1, <2>2
<1>6. ASSUME NEW p \in Pollers, RefreshOk(p) \/ Expire(p)
      PROVE  ExpiryIsTimely'
  BY <1>6 DEF RefreshOk, Expire, Never
<1>7. ASSUME NEW p \in Pollers,
             \/ Start(p) \/ CheckJoin(p) \/ JoinFails(p) \/ EnsureJoined(p)
             \/ CheckExpiry(p) \/ CheckRefresh(p) \/ RefreshFails(p) \/ End(p)
      PROVE  ExpiryIsTimely'
  <2>1. UNCHANGED Belief
    BY <1>7 DEF Start, CheckJoin, JoinFails, EnsureJoined, CheckExpiry,
                CheckRefresh, RefreshFails, End, Belief
  <2> QED
    BY <2>1 DEF Belief
<1>8. CASE UNCHANGED vars
  BY <1>8 DEF vars
<1> QED
  BY <1>1, <1>2, <1>3, <1>4, <1>5, <1>6, <1>7, <1>8 DEF Next, Step

\* The strengthened invariant holds in every state, however many threads poll.
THEOREM Inductive == Spec => []IInv
<1>1. IInv /\ [Next]_vars => IInv'
  <2> SUFFICES ASSUME IInv, [Next]_vars PROVE IInv'
    OBVIOUS
  <2>1. /\ LogFlags /\ Ages /\ Threads /\ NetworkState /\ FaultCount
        /\ Steadiness /\ Socket
    BY DEF IInv
  <2> QED
    BY <2>1, LogFlagsStep, AgesStep, ThreadsStep, NetworkStep, FaultsStep,
       SteadinessStep, SocketStep, SelfDrivenStep, StampedStep, InWindowStep, TimelyStep DEF IInv
<1> QED
  BY InitInv, <1>1, PTL DEF Spec

\* The variables of the listener keep their types, and a beacon is queued only
\* in a socket that is open: whatever init, deinit and polls overlap.
THEOREM TypeCorrect == Spec => []TypeOK
<1>1. IInv => TypeOK
  BY TypeParts DEF IInv
<1> QED
  BY Inductive, <1>1, PTL

\* An initialised log polls itself (the work handler, lines 351-437).
THEOREM AlwaysSelfDriven == Spec => []SelfDriven
<1>1. IInv => SelfDriven
  BY DEF IInv
<1> QED
  BY Inductive, <1>1, PTL

\* A belief in a listener ends with the poll after its window (658-692).
THEOREM AlwaysTimely == Spec => []ExpiryIsTimely
<1>1. IInv => ExpiryIsTimely
  BY DEF IInv
<1> QED
  BY Inductive, <1>1, PTL

(***************************************************************************)
(* When the work queue alone polls, a live listener is never muted.        *)
(***************************************************************************)

\* last_beacon_ms is never older than the last beacon, and a beacon that was
\* read has confirmed the listener: the long window applies to it.
Confirmed ==
    sinceReal # Never =>
        beaconConfirmed /\ sinceBeacon # Never /\ sinceBeacon <= sinceReal

\* The decision to lower the flag still stands when the flag is lowered.
Grounded ==
    pc[WorkQ] = "expiring" => sinceReal = Never \/ sinceReal > BeaconTimeout

\* Every step keeps the stamp as young as the last beacon, with any pollers.
LEMMA ConfirmedStep ==
  ASSUME IInv, Confirmed, [Next]_vars
  PROVE  Confirmed'
<1> USE DEF Confirmed, Never, s_log, threads, network
<1> Ages /\ LogFlags
  BY DEF IInv
<1>1. CASE Application
  <2>1. ASSUME NEW always \in BOOLEAN, NEW rxFails \in BOOLEAN,
               IotLogInit(always, rxFails) \/ IotLogInitFails(always)
        PROVE  Confirmed'
    BY <2>1 DEF IotLogInit, IotLogInitFails, Reset
  <2>2. CASE ScheduleWork \/ IotLogDeinit
    BY <2>2 DEF ScheduleWork, IotLogDeinit
  <2> QED
    BY <1>1, <2>1, <2>2 DEF Application
<1>2. CASE Network
  BY <1>2 DEF Network, Attach, Detach, ParentForgets, StartReceiver,
              StopReceiver, Beacon, BeaconLost
<1>3. CASE Tick
  BY <1>3 DEF Tick, Older, Ages, Age
<1>4. ASSUME NEW p \in Pollers, JoinOk(p)
      PROVE  Confirmed'
  <2>1. CASE ~alwaysOn /\ ~listenerActive
    BY <1>4, <2>1 DEF JoinOk, Ages, Age
  <2>2. CASE ~(~alwaysOn /\ ~listenerActive)
    BY <1>4, <2>2 DEF JoinOk
  <2> QED
    BY <2>1, <2>2
<1>5. ASSUME NEW p \in Pollers, CheckForBeacons(p)
      PROVE  Confirmed'
  <2>1. CASE ~alwaysOn /\ rxOpen /\ rx
    BY <1>5, <2>1 DEF CheckForBeacons
  <2>2. CASE ~(~alwaysOn /\ rxOpen /\ rx)
    BY <1>5, <2>2 DEF CheckForBeacons
  <2> QED
    BY <2>1, <2>2
<1>6. ASSUME NEW p \in Pollers, RefreshOk(p) \/ Expire(p)
      PROVE  Confirmed'
  BY <1>6 DEF RefreshOk, Expire, Ages, Age
<1>7. ASSUME NEW p \in Pollers,
             \/ Start(p) \/ CheckJoin(p) \/ JoinFails(p) \/ EnsureJoined(p)
             \/ CheckExpiry(p) \/ CheckRefresh(p) \/ RefreshFails(p) \/ End(p)
      PROVE  Confirmed'
  BY <1>7 DEF Start, CheckJoin, JoinFails, EnsureJoined, CheckExpiry,
              CheckRefresh, RefreshFails, End
<1>8. CASE UNCHANGED vars
  BY <1>8 DEF vars
<1> QED
  BY <1>1, <1>2, <1>3, <1>4, <1>5, <1>6, <1>7, <1>8 DEF Next, Step

\* Nothing that could overturn the decision happens before the flag is down:
\* beacons are read by the poller that decided, and no tick passes.
LEMMA GroundedStep ==
  ASSUME Pollers = {WorkQ}, IInv, Confirmed, Grounded, [Next]_vars
  PROVE  Grounded'
<1> USE DEF Grounded, s_log, threads, network
<1> Ages /\ Threads /\ LogFlags
  BY DEF IInv
<1>1. CASE Application
  <2>1. ASSUME NEW always \in BOOLEAN, NEW rxFails \in BOOLEAN,
               IotLogInit(always, rxFails) \/ IotLogInitFails(always)
        PROVE  Grounded'
    BY <2>1 DEF IotLogInit, IotLogInitFails, Reset
  <2>2. CASE ScheduleWork \/ IotLogDeinit
    BY <2>2 DEF ScheduleWork, IotLogDeinit
  <2> QED
    BY <1>1, <2>1, <2>2 DEF Application
<1>2. CASE Network
  BY <1>2 DEF Network, Attach, Detach, ParentForgets, StartReceiver,
              StopReceiver, Beacon, BeaconLost
<1>3. CASE Tick
  BY <1>3 DEF Tick, At
<1>4. ASSUME NEW p \in Pollers, CheckExpiry(p)
      PROVE  Grounded'
  <2>1. CASE Expired
    <3>1. sinceReal # Never => sinceReal > BeaconTimeout
      BY <2>1 DEF Expired, Window, Confirmed, Ages, Age, Never
    <3> QED
      BY <1>4, <3>1 DEF CheckExpiry
  <2>2. CASE ~Expired
    BY <1>4, <2>2 DEF CheckExpiry, Goto, Threads
  <2> QED
    BY <2>1, <2>2
<1>5. ASSUME NEW p \in Pollers,
             \/ Start(p) \/ (Step(p) /\ ~CheckExpiry(p))
             \/ JoinFails(p) \/ RefreshFails(p)
      PROVE  Grounded'
  <2>1. p = WorkQ
    OBVIOUS
  <2>2. pc'[WorkQ] # "expiring"
    BY <1>5, <2>1 DEF Start, Step, CheckJoin, JoinOk, JoinFails, EnsureJoined,
         CheckForBeacons, Expire, CheckRefresh, RefreshOk, RefreshFails, End,
         Goto, Threads
  <2> QED
    BY <2>2
<1>6. CASE UNCHANGED vars
  BY <1>6 DEF vars
<1> QED
  BY <1>1, <1>2, <1>3, <1>4, <1>5, <1>6 DEF Next, Step

\* A poll mutes the device only if it read no beacon since init or none for
\* IOT_LOG_BEACON_TIMEOUT_S, provided the application polls nowhere else
\* (lines 631-692; with a second poller the run listener_two_pollers shows
\* that this fails).
THEOREM OnePollerNeverMutes ==
  ASSUME Pollers = {WorkQ}
  PROVE  Spec => NoLiveListenerMuted
<1>1. Init => Confirmed /\ Grounded
  BY DEF Init, Confirmed, Grounded
<1>2. IInv /\ Confirmed /\ Grounded /\ [Next]_vars => (Confirmed /\ Grounded)'
  BY ConfirmedStep, GroundedStep
<1>3. Spec => [](Confirmed /\ Grounded)
  BY <1>1, <1>2, Inductive, PTL DEF Spec
<1>4. ASSUME IInv, Grounded, [Next]_vars, initialised, initialised',
             listenerActive, ~listenerActive'
      PROVE  sinceReal = Never \/ sinceReal > BeaconTimeout
  <2> USE DEF s_log, threads, network
  <2>1. ~Application
    BY <1>4 DEF Application, IotLogInit, IotLogInitFails, ScheduleWork, IotLogDeinit
  <2>2. ~Network /\ ~Tick
    BY <1>4 DEF Network, Attach, Detach, ParentForgets, StartReceiver,
         StopReceiver, Beacon, BeaconLost, Tick
  <2>3. ASSUME NEW p \in Pollers, JoinOk(p) \/ CheckForBeacons(p)
        PROVE  FALSE
    BY <1>4, <2>3 DEF JoinOk, CheckForBeacons
  <2>4. ASSUME NEW p \in Pollers,
               \/ Start(p) \/ CheckJoin(p) \/ JoinFails(p) \/ EnsureJoined(p)
               \/ CheckExpiry(p) \/ CheckRefresh(p) \/ RefreshFails(p)
               \/ RefreshOk(p) \/ End(p)
        PROVE  FALSE
    BY <1>4, <2>4 DEF Start, CheckJoin, JoinFails, EnsureJoined, CheckExpiry,
         CheckRefresh, RefreshFails, RefreshOk, End
  <2>5. PICK p \in Pollers : Expire(p)
    BY <1>4, <2>1, <2>2, <2>3, <2>4 DEF Next, Step, vars
  <2> QED
    BY <1>4, <2>5 DEF Expire, At, Grounded
<1>5. IInv /\ Grounded /\ [Next]_vars
        => [initialised /\ initialised' /\ listenerActive /\ ~listenerActive'
              => sinceReal = Never \/ sinceReal > BeaconTimeout]_vars
  BY <1>4
<1> QED
  BY <1>3, <1>5, Inductive, PTL DEF Spec, NoLiveListenerMuted

(***************************************************************************)
(* A device that is left alone finds the receiver in time, whatever polls  *)
(* overlap.  steadyFor counts the ticks since the last fault or change;    *)
(* the first poll of the work item joins the group and empties the socket, *)
(* the belief in a listener that is not heard ends with its window, the    *)
(* renewal that follows registers the group with the parent, and from then *)
(* on every tick brings a beacon.                                          *)
(***************************************************************************)

\* The receiver can be heard, if the way to the socket is open.
Calm == receiverUp /\ attached /\ initialised /\ ~alwaysOn

\* The places of a poll from some point on, to the end of it and beyond.
Done == {"end", "idle"}
PastBeacons == {"check", "expiring", "refresh", "refreshing"} \cup Done
PastEnsure == {"beacons"} \cup PastBeacons
PastJoining == {"ensure"} \cup PastEnsure

\* The work item's poll in the n-th tick is at one of the places, or over.
Late(n, places) ==
    \/ steadyFor > n
    \/ steadyFor = n /\ polled /\ pc[WorkQ] \in places

\* By this tick the parent forwards the group to the device.
Turned == BeaconTimeout + MlrRefresh + 2

\* Polls while the network is calm: what CalmStep leaves of Next.
CalmNext ==
    \/ Tick \/ Beacon \/ ScheduleWork \/ UNCHANGED vars
    \/ \E p \in Pollers : Start(p) \/ Step(p)

\* Everything else starts the count anew.
LEMMA CalmStep ==
  ASSUME IInv, [Next]_vars, Calm', steadyFor' > 0
  PROVE  CalmNext /\ Calm
<1> USE DEF Calm, CalmNext, s_log, threads, network
<1>1. steadyFor' # 0
  OBVIOUS
<1>2. ~(\E always, rxFails \in BOOLEAN : IotLogInit(always, rxFails))
  BY <1>1 DEF IotLogInit, Reset
<1>3. ~(\E always \in BOOLEAN : IotLogInitFails(always)) /\ ~IotLogDeinit
  BY <1>1 DEF IotLogInitFails, IotLogDeinit, Fault
<1>4. ~Attach /\ ~Detach /\ ~ParentForgets /\ ~StartReceiver /\ ~StopReceiver /\ ~BeaconLost
  BY <1>1 DEF Attach, Detach, ParentForgets, StartReceiver, StopReceiver, BeaconLost, Fault
<1>5. ~(\E p \in Pollers : JoinFails(p) \/ RefreshFails(p))
  BY <1>1 DEF JoinFails, RefreshFails, Fault
<1>6. CalmNext
  BY <1>2, <1>3, <1>4, <1>5 DEF Next, Application, Network
<1>7. UNCHANGED <<receiverUp, attached, initialised, alwaysOn>>
  BY <1>6 DEF Tick, Beacon, ScheduleWork, vars, Start, Step, CheckJoin, JoinOk,
       EnsureJoined, CheckForBeacons, CheckExpiry, Expire, CheckRefresh,
       RefreshOk, End
<1> QED
  BY <1>6, <1>7

\* The count is a number, and no tick passes before the work item has polled and
\* the receiver has sent its beacon.
LEMMA Counted ==
  ASSUME IInv, [Next]_vars
  PROVE  steadyFor \in Nat /\ steadyFor' \in Nat
BY SteadinessStep DEF IInv, Steadiness, Repair

LEMMA BeforeTick ==
  ASSUME IInv, Calm, Tick
  PROVE  polled /\ beaconSent /\ \A p \in Pollers : pc[p] = "idle"
<1>1. /\ \A p \in Pollers : pc[p] = "idle"
      /\ app = "idle" /\ (workScheduled => polled) /\ beaconSent
  BY DEF Tick, At, Calm
<1> QED
  BY <1>1 DEF IInv, SelfDriven, Calm

\* The conjuncts, in the order in which the device gets there.
Opened == initialised /\ ~alwaysOn => rxOpen

Joined == Calm /\ Late(1, PastJoining) => mcastJoined

NoneJoins == Calm /\ steadyFor > 1 => \A p \in Pollers : pc[p] # "joining"

Accepting == Calm /\ Late(1, PastEnsure) => ifaceJoined

\* iot_log_init() opens the socket unless it sends always.
LEMMA OpenedStep ==
  ASSUME IInv, Opened, [Next]_vars
  PROVE  Opened'
<1> USE DEF Opened, s_log, threads, network
<1>1. ASSUME NEW always \in BOOLEAN, NEW rxFails \in BOOLEAN, IotLogInit(always, rxFails)
      PROVE  Opened'
  BY <1>1 DEF IotLogInit, Reset
<1>2. ASSUME NEW always \in BOOLEAN, IotLogInitFails(always)
      PROVE  Opened'
  BY <1>2 DEF IotLogInitFails
<1>3. CASE ScheduleWork \/ IotLogDeinit \/ Tick \/ UNCHANGED vars
  BY <1>3 DEF ScheduleWork, IotLogDeinit, Tick, vars
<1>4. CASE Network
  BY <1>4 DEF Network, Attach, Detach, ParentForgets, StartReceiver,
              StopReceiver, Beacon, BeaconLost
<1>5. ASSUME NEW p \in Pollers, Start(p) \/ Step(p) \/ JoinFails(p) \/ RefreshFails(p)
      PROVE  Opened'
  BY <1>5 DEF Start, Step, JoinFails, RefreshFails, CheckJoin, JoinOk, EnsureJoined,
       CheckForBeacons, CheckExpiry, Expire, CheckRefresh, RefreshOk, End
<1> QED
  BY <1>1, <1>2, <1>3, <1>4, <1>5 DEF Next, Application

\* The poll of the first tick joins the group, and mcast_joined stays.
LEMMA JoinedStep ==
  ASSUME IInv, Joined, [Next]_vars
  PROVE  Joined'
<1> SUFFICES ASSUME Calm', Late(1, PastJoining)' PROVE mcastJoined'
  BY DEF Joined
<1> USE DEF Joined, Late, PastJoining, PastEnsure, PastBeacons, Done, s_log, threads, network
<1> Threads /\ LogFlags /\ Steadiness
  BY DEF IInv
<1>1. steadyFor' > 0
  <2>1. steadyFor' \in Nat
    BY Counted
  <2> QED
    BY <2>1
<1>2. Calm /\ CalmNext
  BY <1>1, CalmStep
<1>3. CASE Tick
  <2>1. polled /\ pc[WorkQ] = "idle"
    BY <1>2, <1>3, BeforeTick
  <2>2. Late(1, PastJoining)
    BY <1>3, <2>1 DEF Tick, Steadiness
  <2> QED
    BY <1>2, <1>3, <2>2 DEF Tick
<1>4. CASE Beacon \/ ScheduleWork \/ UNCHANGED vars
  BY <1>2, <1>4 DEF Beacon, ScheduleWork, vars
<1>5. ASSUME NEW p \in Pollers, Start(p)
      PROVE  mcastJoined'
  BY <1>2, <1>5 DEF Start, Goto, Threads, Calm
<1>6. ASSUME NEW p \in Pollers, CheckJoin(p)
      PROVE  mcastJoined'
  BY <1>2, <1>6 DEF CheckJoin, Goto, Threads, Calm, At
<1>7. ASSUME NEW p \in Pollers, JoinOk(p)
      PROVE  mcastJoined'
  BY <1>7 DEF JoinOk
<1>8. ASSUME NEW p \in Pollers,
             \/ EnsureJoined(p) \/ CheckForBeacons(p) \/ CheckExpiry(p) \/ Expire(p)
             \/ CheckRefresh(p) \/ RefreshOk(p) \/ End(p)
      PROVE  mcastJoined'
  BY <1>2, <1>8 DEF EnsureJoined, CheckForBeacons, CheckExpiry, Expire, CheckRefresh,
       RefreshOk, End, Goto, Threads, At
<1> QED
  BY <1>2, <1>3, <1>4, <1>5, <1>6, <1>7, <1>8 DEF CalmNext, Step

\* With the group joined no poll starts to join it again.
LEMMA NoneJoinsStep ==
  ASSUME IInv, Joined, NoneJoins, [Next]_vars
  PROVE  NoneJoins'
<1> SUFFICES ASSUME Calm', steadyFor' > 1, NEW q \in Pollers
             PROVE  pc'[q] # "joining"
  BY DEF NoneJoins
<1> USE DEF s_log, threads, network
<1> Threads /\ Steadiness
  BY DEF IInv
<1>1. steadyFor' > 0
  BY Counted
<1>2. Calm /\ CalmNext
  BY <1>1, CalmStep
<1>3. CASE Tick
  BY <1>3 DEF Tick, At
<1>4. CASE ~Tick
  <2>1. steadyFor > 1
    BY <1>2, <1>4 DEF CalmNext, Beacon, ScheduleWork, vars, Start, Step, CheckJoin, JoinOk,
       EnsureJoined, CheckForBeacons, CheckExpiry, Expire, CheckRefresh, RefreshOk, End
  <2>2. pc[q] # "joining" /\ mcastJoined
    BY <1>2, <2>1 DEF NoneJoins, Joined, Late
  <2>3. CASE Beacon \/ ScheduleWork \/ UNCHANGED vars
    BY <2>2, <2>3 DEF Beacon, ScheduleWork, vars
  <2>4. ASSUME NEW p \in Pollers, Start(p) \/ Step(p)
        PROVE  pc'[q] # "joining"
    BY <2>2, <2>4 DEF Start, Step, CheckJoin, JoinOk, EnsureJoined, CheckForBeacons,
       CheckExpiry, Expire, CheckRefresh, RefreshOk, End, Goto, Threads
  <2> QED
    BY <1>2, <1>4, <2>3, <2>4 DEF CalmNext
<1> QED
  BY <1>3, <1>4

\* ensure_zephyr_mcast_joined() follows, and nothing but a detachment undoes it.
LEMMA AcceptingStep ==
  ASSUME IInv, Joined, Accepting, [Next]_vars
  PROVE  Accepting'
<1> SUFFICES ASSUME Calm', Late(1, PastEnsure)' PROVE ifaceJoined'
  BY DEF Accepting
<1> USE DEF Accepting, Late, PastEnsure, PastBeacons, Done, s_log, threads, network
<1> Threads /\ LogFlags /\ NetworkState /\ Steadiness
  BY DEF IInv
<1>1. steadyFor' > 0
  <2>1. steadyFor' \in Nat
    BY Counted
  <2> QED
    BY <2>1
<1>2. Calm /\ CalmNext
  BY <1>1, CalmStep
<1>3. CASE Tick
  <2>1. polled /\ pc[WorkQ] = "idle"
    BY <1>2, <1>3, BeforeTick
  <2>2. Late(1, PastEnsure)
    BY <1>3, <2>1 DEF Tick, Steadiness
  <2> QED
    BY <1>2, <1>3, <2>2 DEF Tick
<1>4. CASE Beacon \/ ScheduleWork \/ UNCHANGED vars
  BY <1>2, <1>4 DEF Beacon, ScheduleWork, vars
<1>5. ASSUME NEW p \in Pollers, Start(p)
      PROVE  ifaceJoined'
  BY <1>2, <1>5 DEF Start, Goto, Threads, Calm
<1>6. ASSUME NEW p \in Pollers, EnsureJoined(p)
      PROVE  ifaceJoined'
  <2>1. CASE p = WorkQ
    <3>1. Late(1, PastJoining)
      BY <1>6, <2>1 DEF EnsureJoined, At, PastJoining, Steadiness
    <3> QED
      BY <1>2, <1>6, <3>1 DEF EnsureJoined, Calm, Joined
  <2>2. CASE p # WorkQ
    BY <1>2, <1>6, <2>2 DEF EnsureJoined, Goto, Threads
  <2> QED
    BY <2>1, <2>2
<1>7. ASSUME NEW p \in Pollers,
             \/ CheckJoin(p) \/ JoinOk(p) \/ CheckForBeacons(p) \/ CheckExpiry(p)
             \/ Expire(p) \/ CheckRefresh(p) \/ RefreshOk(p) \/ End(p)
      PROVE  ifaceJoined'
  BY <1>2, <1>7 DEF CheckJoin, JoinOk, CheckForBeacons, CheckExpiry, Expire, CheckRefresh,
       RefreshOk, End, Goto, Threads, At
<1> QED
  BY <1>2, <1>3, <1>4, <1>5, <1>6, <1>7 DEF CalmNext, Step

(***************************************************************************)
(* As long as the parent does not forward the group, nothing is heard: the *)
(* window runs out, then the time to the next renewal does.                *)
(***************************************************************************)
Drained == Calm /\ ~registered /\ Late(1, PastBeacons) => ~rx

Unheard == Calm /\ ~registered /\ steadyFor > 1

Waiting == Unheard /\ listenerActive => steadyFor <= sinceBeacon + 1

Expiring ==
    Unheard => \A p \in Pollers : pc[p] = "expiring" =>
        /\ steadyFor <= BeaconTimeout + 2
        /\ listenerActive => sinceBeacon > Window

Silent ==
    Unheard /\ ~listenerActive =>
        \/ sinceResub \in {Never, AgeCap}
        \/ steadyFor <= sinceResub + BeaconTimeout + 2

NotDue ==
    Unheard /\ ~listenerActive /\ polled /\ pc[WorkQ] \in Done =>
        sinceResub # Never /\ sinceResub < MlrRefresh

Registers == Calm /\ ~registered => steadyFor <= Turned

\* What was not registered after a calm step was not before it.
LEMMA NotYet ==
  ASSUME IInv, [Next]_vars, Calm', ~registered', steadyFor' > 0
  PROVE  CalmNext /\ Calm /\ ~registered /\ \A p \in Pollers : ~RefreshOk(p)
<1>1. CalmNext /\ Calm
  BY CalmStep
<1>2. NetworkState
  BY DEF IInv
<1> USE DEF s_log, threads, network
<1>3. ASSUME NEW p \in Pollers, RefreshOk(p)
      PROVE  FALSE
  BY <1>1, <1>3 DEF RefreshOk, Calm
<1>4. ~registered
  BY <1>1, <1>2, <1>3 DEF CalmNext, NetworkState, Tick, Beacon, ScheduleWork, vars, Start,
       Step, CheckJoin, JoinOk, EnsureJoined, CheckForBeacons, CheckExpiry, Expire,
       CheckRefresh, End
<1> QED
  BY <1>1, <1>3, <1>4

\* The first poll empties the socket, and no beacon gets as far as that again.
LEMMA DrainedStep ==
  ASSUME IInv, Opened, Drained, [Next]_vars
  PROVE  Drained'
<1> SUFFICES ASSUME Calm', ~registered', Late(1, PastBeacons)' PROVE ~rx'
  BY DEF Drained
<1> USE DEF Drained, Late, PastBeacons, Done, s_log, threads, network
<1> Threads /\ LogFlags /\ NetworkState /\ Steadiness
  BY DEF IInv
<1>1. steadyFor' > 0
  <2>1. steadyFor' \in Nat
    BY Counted
  <2> QED
    BY <2>1
<1>2. CalmNext /\ Calm /\ ~registered /\ \A p \in Pollers : ~RefreshOk(p)
  BY <1>1, NotYet
<1>3. CASE Tick
  <2>1. polled /\ pc[WorkQ] = "idle"
    BY <1>2, <1>3, BeforeTick
  <2>2. Late(1, PastBeacons)
    BY <1>3, <2>1 DEF Tick, Steadiness
  <2> QED
    BY <1>2, <1>3, <2>2 DEF Tick
<1>4. CASE Beacon \/ ScheduleWork \/ UNCHANGED vars
  BY <1>2, <1>4 DEF Beacon, ScheduleWork, vars, NetworkState
<1>5. ASSUME NEW p \in Pollers, Start(p)
      PROVE  ~rx'
  BY <1>2, <1>5 DEF Start, Goto, Threads, Calm
<1>6. ASSUME NEW p \in Pollers, CheckForBeacons(p)
      PROVE  ~rx'
  BY <1>2, <1>6 DEF CheckForBeacons, Calm, Opened
<1>7. ASSUME NEW p \in Pollers,
             \/ CheckJoin(p) \/ JoinOk(p) \/ EnsureJoined(p) \/ CheckExpiry(p)
             \/ Expire(p) \/ CheckRefresh(p) \/ End(p)
      PROVE  ~rx'
  BY <1>2, <1>7 DEF CheckJoin, JoinOk, EnsureJoined, CheckExpiry, Expire, CheckRefresh,
       End, Goto, Threads, At
<1> QED
  BY <1>2, <1>3, <1>4, <1>5, <1>6, <1>7 DEF CalmNext, Step

\* Between two ticks nothing but the end of a window concerns an unheard belief.
LEMMA UnheardStep ==
  ASSUME IInv, NoneJoins, Drained, [Next]_vars, Unheard', ~Tick
  PROVE  /\ Unheard /\ CalmNext /\ steadyFor' = steadyFor
         /\ UNCHANGED <<sinceBeacon, beaconConfirmed>>
         /\ \A p \in Pollers : ~JoinOk(p) /\ ~RefreshOk(p)
         /\ (\E p \in Pollers : Expire(p)) \/ UNCHANGED <<listenerActive, sinceResub>>
<1> USE DEF s_log, threads, network
<1>1. CalmNext /\ Calm /\ ~registered /\ \A p \in Pollers : ~RefreshOk(p)
  BY Counted, NotYet DEF Unheard
<1>2. steadyFor' = steadyFor
  BY <1>1 DEF CalmNext, Beacon, ScheduleWork, vars, Start, Step, CheckJoin, JoinOk,
     EnsureJoined, CheckForBeacons, CheckExpiry, Expire, CheckRefresh, RefreshOk, End
<1>3. Unheard
  BY <1>1, <1>2 DEF Unheard
<1>4. \A p \in Pollers : ~JoinOk(p)
  BY <1>3 DEF Unheard, NoneJoins, JoinOk, At
<1>5. ~rx
  BY <1>3 DEF Unheard, Drained, Late
<1>6. CASE Beacon \/ ScheduleWork \/ UNCHANGED vars
  BY <1>1, <1>2, <1>3, <1>4, <1>6 DEF Beacon, ScheduleWork, vars
<1>7. ASSUME NEW p \in Pollers, CheckForBeacons(p)
      PROVE  UNCHANGED <<sinceBeacon, beaconConfirmed, listenerActive, sinceResub>>
  BY <1>5, <1>7 DEF CheckForBeacons
<1>8. ASSUME NEW p \in Pollers,
             \/ Start(p) \/ CheckJoin(p) \/ EnsureJoined(p) \/ CheckExpiry(p)
             \/ CheckRefresh(p) \/ End(p)
      PROVE  UNCHANGED <<sinceBeacon, beaconConfirmed, listenerActive, sinceResub>>
  BY <1>8 DEF Start, CheckJoin, EnsureJoined, CheckExpiry, CheckRefresh, End
<1>9. ASSUME NEW p \in Pollers, Expire(p)
      PROVE  UNCHANGED <<sinceBeacon, beaconConfirmed>>
  BY <1>9 DEF Expire
<1>10. /\ UNCHANGED <<sinceBeacon, beaconConfirmed>>
       /\ (\E p \in Pollers : Expire(p)) \/ UNCHANGED <<listenerActive, sinceResub>>
  BY <1>1, <1>4, <1>6, <1>7, <1>8, <1>9 DEF CalmNext, Step
<1> QED
  BY <1>1, <1>2, <1>3, <1>4, <1>10

\* The age of an unheard belief grows with every tick.
LEMMA WaitingStep ==
  ASSUME IInv, NoneJoins, Drained, Waiting, [Next]_vars
  PROVE  Waiting'
<1> SUFFICES ASSUME Unheard', listenerActive' PROVE steadyFor' <= sinceBeacon' + 1
  BY DEF Waiting
<1> Ages /\ Steadiness /\ Stamped /\ ExpiryIsTimely /\ LogFlags
  BY DEF IInv
<1> steadyFor \in Nat /\ steadyFor' \in Nat
  BY Counted
<1>1. CASE Tick
  <2>1. CalmNext /\ Calm /\ ~registered
    BY NotYet DEF Unheard
  <2>2. listenerActive
    BY <1>1 DEF Tick
  <2>2a. steadyFor' <= steadyFor + 1
    BY <1>1 DEF Tick
  <2>3. sinceBeacon \in Nat /\ sinceBeacon <= BeaconTimeout + 1
    BY <2>1, <2>2 DEF Calm, ExpiryIsTimely, Window, Ages, Age
  <2>4. sinceBeacon' = sinceBeacon + 1
    BY <1>1, <2>3 DEF Tick, Older, Never
  <2>5. CASE steadyFor > 1
    <3>1. steadyFor <= sinceBeacon + 1
      BY <2>1, <2>2, <2>5 DEF Waiting, Unheard
    <3> QED
      BY <2>2a, <2>3, <2>4, <3>1
  <2>6. CASE steadyFor <= 1
    BY <2>2a, <2>3, <2>4, <2>6
  <2> QED
    BY <2>5, <2>6
<1>2. CASE ~Tick
  <2>1. /\ Unheard /\ steadyFor' = steadyFor /\ sinceBeacon' = sinceBeacon
        /\ (\E p \in Pollers : Expire(p)) \/ listenerActive' = listenerActive
    BY <1>2, UnheardStep
  <2>2. listenerActive
    BY <2>1 DEF Expire
  <2> QED
    BY <2>1, <2>2 DEF Waiting
<1> QED
  BY <1>1, <1>2

\* Who finds the window over finds it so in time, and it stays over.
LEMMA ExpiringStep ==
  ASSUME IInv, NoneJoins, Drained, Waiting, Expiring, [Next]_vars
  PROVE  Expiring'
<1> SUFFICES ASSUME Unheard', NEW q \in Pollers, pc'[q] = "expiring"
             PROVE  /\ steadyFor' <= BeaconTimeout + 2
                    /\ listenerActive' => sinceBeacon' > Window'
  BY DEF Expiring
<1> Ages /\ Threads /\ ExpiryIsTimely /\ LogFlags
  BY DEF IInv
<1> steadyFor \in Nat /\ steadyFor' \in Nat
  BY Counted
<1> USE DEF s_log, threads, network
<1>1. ~Tick
  BY DEF Tick, At
<1>2. /\ Unheard /\ CalmNext /\ steadyFor' = steadyFor
      /\ UNCHANGED <<sinceBeacon, beaconConfirmed>>
      /\ \A p \in Pollers : ~JoinOk(p) /\ ~RefreshOk(p)
      /\ (\E p \in Pollers : Expire(p)) \/ UNCHANGED <<listenerActive, sinceResub>>
  BY <1>1, UnheardStep
<1>3. Window' = Window
  BY <1>2 DEF Window
<1>4. listenerActive' => listenerActive
  BY <1>2 DEF Expire
<1>5. CASE pc[q] = "expiring"
  BY <1>2, <1>3, <1>4, <1>5 DEF Expiring
<1>6. CASE pc[q] # "expiring"
  <2>1. CheckExpiry(q) /\ Expired
    BY <1>1, <1>2, <1>6 DEF CalmNext, Beacon, ScheduleWork, vars, Start, Step, CheckJoin,
       EnsureJoined, CheckForBeacons, CheckExpiry, Expire, CheckRefresh, End, Goto, Threads
  <2>2. listenerActive /\ sinceBeacon \in Nat /\ sinceBeacon > Window
    BY <2>1 DEF Expired, Ages, Age
  <2>3. steadyFor <= sinceBeacon + 1
    BY <1>2, <2>2 DEF Waiting
  <2>4. sinceBeacon <= BeaconTimeout + 1
    BY <1>2, <2>2 DEF ExpiryIsTimely, Unheard, Calm, Window
  <2> QED
    BY <1>2, <1>3, <2>2, <2>3, <2>4
<1> QED
  BY <1>5, <1>6

\* The belief is given up once, and from then on the time of silence grows.
LEMMA SilentStep ==
  ASSUME IInv, NoneJoins, Drained, Expiring, Silent, [Next]_vars
  PROVE  Silent'
<1> SUFFICES ASSUME Unheard', ~listenerActive'
             PROVE  \/ sinceResub' \in {Never, AgeCap}
                    \/ steadyFor' <= sinceResub' + BeaconTimeout + 2
  BY DEF Silent
<1> Ages
  BY DEF IInv
<1> steadyFor \in Nat /\ steadyFor' \in Nat
  BY Counted
<1>1. CASE Tick
  <2>1. CalmNext /\ Calm /\ ~registered
    BY NotYet DEF Unheard
  <2>2. ~listenerActive
    BY <1>1 DEF Tick
  <2>2a. steadyFor' <= steadyFor + 1
    BY <1>1 DEF Tick
  <2>3. sinceResub \in Nat \cup {Never} /\ sinceResub' = Older(sinceResub)
    BY <1>1 DEF Tick, Ages, Age
  <2>4. CASE sinceResub \in {Never, AgeCap}
    BY <2>3, <2>4 DEF Older
  <2>5. CASE sinceResub \notin {Never, AgeCap}
    <3>1. sinceResub' = sinceResub + 1 /\ sinceResub \in Nat
      BY <2>3, <2>5 DEF Older
    <3>2. CASE steadyFor > 1
      <4>1. steadyFor <= sinceResub + BeaconTimeout + 2
        BY <2>1, <2>2, <2>5, <3>2 DEF Silent, Unheard
      <4> QED
        BY <2>2a, <3>1, <4>1
    <3>3. CASE steadyFor <= 1
      BY <2>2a, <3>1, <3>3
    <3> QED
      BY <3>2, <3>3
  <2> QED
    BY <2>4, <2>5
<1>2. CASE ~Tick
  <2>1. /\ Unheard /\ steadyFor' = steadyFor
        /\ (\E p \in Pollers : Expire(p)) \/ UNCHANGED <<listenerActive, sinceResub>>
    BY <1>2, UnheardStep
  <2>2. ASSUME NEW p \in Pollers, Expire(p)
        PROVE  steadyFor' <= sinceResub' + BeaconTimeout + 2
    <3>1. steadyFor <= BeaconTimeout + 2
      BY <2>1, <2>2 DEF Expiring, Expire, At
    <3> QED
      BY <2>1, <2>2, <3>1 DEF Expire
  <2> QED
    BY <2>1, <2>2 DEF Silent
<1> QED
  BY <1>1, <1>2

\* Whoever looks after the poll has passed finds that the renewal is not due yet;
\* had it been, the group would be registered.
LEMMA NotDueStep ==
  ASSUME IInv, Joined, NoneJoins, Drained, Expiring, NotDue, [Next]_vars
  PROVE  NotDue'
<1> SUFFICES ASSUME Unheard', ~listenerActive', polled', pc'[WorkQ] \in Done
             PROVE  sinceResub' # Never /\ sinceResub' < MlrRefresh
  BY DEF NotDue
<1> Ages /\ Threads /\ LogFlags
  BY DEF IInv
<1> USE DEF s_log, threads, network
<1>1. ~Tick
  BY DEF Tick
<1>2. /\ Unheard /\ CalmNext /\ steadyFor' = steadyFor
      /\ \A p \in Pollers : ~JoinOk(p) /\ ~RefreshOk(p)
      /\ (\E p \in Pollers : Expire(p)) \/ UNCHANGED <<listenerActive, sinceResub>>
  BY <1>1, UnheardStep
<1>3. ASSUME NEW p \in Pollers, Expire(p)
      PROVE  sinceResub' # Never /\ sinceResub' < MlrRefresh
  <2>1. pc[WorkQ] \in Done /\ polled /\ p # WorkQ
    BY <1>3 DEF Expire, Goto, At, Threads, Done
  <2>2. listenerActive => sinceBeacon > Window
    BY <1>2, <1>3 DEF Expire, At, Expiring
  <2>3. ~listenerActive
    <3>1. CASE listenerActive
      <4>1. sinceBeacon <= Window
        BY <1>2, <2>1, <3>1 DEF IInv, InWindow, Decided, Done, Unheard, Calm
      <4>2. sinceBeacon \in Int /\ Window \in Int
        BY DEF Ages, Age, Never, Window
      <4> QED
        BY <2>2, <3>1, <4>1, <4>2
    <3> QED
      BY <3>1
  <2>4. sinceResub # Never /\ sinceResub < MlrRefresh
    BY <1>2, <2>1, <2>3 DEF NotDue
  <2>5. sinceResub \in Nat
    BY <2>4 DEF Ages, Age
  <2> QED
    BY <1>3, <2>4, <2>5 DEF Expire, Never
<1>4. CASE ~\E p \in Pollers : Expire(p)
  <2>1. UNCHANGED <<listenerActive, sinceResub>>
    BY <1>2, <1>4
  <2>2. CASE pc[WorkQ] \in Done /\ polled
    BY <1>2, <2>1, <2>2 DEF NotDue
  <2>3. CASE CheckRefresh(WorkQ)
    <3>1. ~RefreshDue
      BY <2>3 DEF CheckRefresh, Goto, Threads, Done
    <3>2. mcastJoined
      BY <1>2 DEF Unheard, Joined, Late
    <3> QED
      BY <1>2, <2>1, <3>1, <3>2 DEF RefreshDue, Unheard, Calm, Ages, Age
  <2>4. ASSUME ~(pc[WorkQ] \in Done /\ polled), ~CheckRefresh(WorkQ)
        PROVE  FALSE
    BY <1>1, <1>2, <1>4, <2>4 DEF CalmNext, Beacon, ScheduleWork, vars, Start, Step,
       CheckJoin, EnsureJoined, CheckForBeacons, CheckExpiry, CheckRefresh, End,
       Goto, At, Threads, Done, Unheard, Calm
  <2> QED
    BY <2>2, <2>3, <2>4
<1> QED
  BY <1>3, <1>4

\* No tick passes beyond the sum of both times with the group unregistered.
LEMMA RegistersStep ==
  ASSUME IInv, Waiting, Silent, NotDue, Registers, [Next]_vars
  PROVE  Registers'
<1> SUFFICES ASSUME Calm', ~registered' PROVE steadyFor' <= Turned
  BY DEF Registers, Turned
<1> Ages /\ Threads /\ LogFlags
  BY DEF IInv
<1> steadyFor \in Nat /\ steadyFor' \in Nat
  BY Counted
<1>1. CASE steadyFor' = 0
  BY <1>1 DEF Turned
<1>2. CASE steadyFor' > 0
  <2>1. CalmNext /\ Calm /\ ~registered
    BY <1>2, NotYet
  <2>2. CASE Tick
    <3>1. steadyFor' <= steadyFor + 1
      BY <2>2 DEF Tick
    <3>2. polled /\ pc[WorkQ] = "idle"
      BY <2>1, <2>2, BeforeTick
    <3>3. CASE steadyFor <= 1
      BY <3>1, <3>3 DEF Turned
    <3>4. CASE steadyFor > 1 /\ listenerActive
      <4>1. steadyFor <= sinceBeacon + 1
        BY <2>1, <3>4 DEF Waiting, Unheard
      <4>2. sinceBeacon <= Window
        BY <2>1, <3>2, <3>4 DEF IInv, InWindow, Decided, Calm
      <4>3. sinceBeacon \in Int /\ Window \in Nat /\ Window <= BeaconTimeout
        BY DEF Ages, Age, Never, Window
      <4> QED
        BY <3>1, <4>1, <4>2, <4>3 DEF Turned
    <3>5. CASE steadyFor > 1 /\ ~listenerActive
      <4>1. sinceResub # Never /\ sinceResub < MlrRefresh
        BY <2>1, <3>2, <3>5 DEF NotDue, Unheard, Done
      <4>2. sinceResub \in Nat
        BY <4>1 DEF Ages, Age
      <4>3. steadyFor <= sinceResub + BeaconTimeout + 2
        BY <2>1, <3>5, <4>1, <4>2 DEF Silent, Unheard
      <4> QED
        BY <3>1, <4>1, <4>2, <4>3 DEF Turned
    <3> QED
      BY <3>3, <3>4, <3>5
  <2>3. CASE ~Tick
    <3>1. steadyFor' = steadyFor
      BY <2>1, <2>3 DEF CalmNext, Beacon, ScheduleWork, vars, Start, Step, CheckJoin, JoinOk,
         EnsureJoined, CheckForBeacons, CheckExpiry, Expire, CheckRefresh, RefreshOk, End
    <3> QED
      BY <2>1, <3>1 DEF Registers
  <2> QED
    BY <2>2, <2>3
<1> QED
  BY <1>1, <1>2

(***************************************************************************)
(* From then on every beacon reaches the socket, and every poll that reads *)
(* it makes the device believe for another window, which is longer than    *)
(* the tick to the next beacon.                                            *)
(***************************************************************************)

\* The device has heard of the receiver at most so long ago.
Fresh(age) == beaconConfirmed /\ sinceBeacon \in 0 .. age

Arrives == Calm /\ steadyFor > Turned /\ beaconSent => rx \/ Fresh(0)

Arrived == Calm /\ steadyFor > Turned + 1 => rx \/ Fresh(1)

NoneExpires ==
    Calm /\ steadyFor > Turned + 1 /\ BeaconTimeout > 0 =>
        \A p \in Pollers : pc[p] # "expiring" /\ (pc[p] = "check" => Fresh(1))

Believes ==
    Calm /\ steadyFor > Turned + 1 /\ BeaconTimeout > 0 /\ beaconSent
        => rx \/ listenerActive

Believed ==
    Calm /\ steadyFor > Turned + 2 /\ BeaconTimeout > 0 => rx \/ listenerActive

Found ==
    Calm /\ BeaconTimeout > 0 /\ Late(Turned + 3, PastBeacons) => listenerActive

\* What goes on between two ticks once the group is registered.
LEMMA HeardStep ==
  ASSUME IInv, NoneJoins, Registers, [Next]_vars, Calm', steadyFor' > Turned, ~Tick
  PROVE  /\ CalmNext /\ Calm /\ registered /\ steadyFor' = steadyFor /\ steadyFor > 1
         /\ \A p \in Pollers : ~JoinOk(p)
<1> steadyFor \in Nat /\ steadyFor' \in Nat
  BY Counted
<1>1. steadyFor' > 0 /\ steadyFor' > 1
  BY DEF Turned
<1>2. CalmNext /\ Calm
  BY <1>1, CalmStep
<1> USE DEF s_log, threads, network
<1>3. steadyFor' = steadyFor
  BY <1>2 DEF CalmNext, Beacon, ScheduleWork, vars, Start, Step, CheckJoin, JoinOk,
     EnsureJoined, CheckForBeacons, CheckExpiry, Expire, CheckRefresh, RefreshOk, End
<1>4. registered
  BY <1>2, <1>3 DEF Registers, Turned
<1>5. \A p \in Pollers : ~JoinOk(p)
  BY <1>1, <1>2, <1>3 DEF NoneJoins, JoinOk, At
<1> QED
  BY <1>1, <1>2, <1>3, <1>4, <1>5

\* The beacon of the tick is in the socket or was read in this tick.
LEMMA ArrivesStep ==
  ASSUME IInv, Opened, Accepting, NoneJoins, Registers, Arrives, [Next]_vars
  PROVE  Arrives'
<1> SUFFICES ASSUME Calm', steadyFor' > Turned, beaconSent'
             PROVE  rx' \/ Fresh(0)'
  BY DEF Arrives
<1> USE DEF s_log, threads, network, Fresh
<1>1. ~Tick
  BY DEF Tick
<1>2. /\ CalmNext /\ Calm /\ registered /\ steadyFor' = steadyFor /\ steadyFor > 1
      /\ \A p \in Pollers : ~JoinOk(p)
  BY <1>1, HeardStep
<1>3. CASE Beacon
  <2>1. ifaceJoined /\ rxOpen
    BY <1>2 DEF Accepting, Opened, Late, Calm
  <2> QED
    BY <1>2, <1>3, <2>1 DEF Beacon, Calm
<1>4. CASE ~Beacon
  <2>1. beaconSent
    BY <1>1, <1>2, <1>4 DEF CalmNext, ScheduleWork, vars, Start, Step, CheckJoin, EnsureJoined,
       CheckForBeacons, CheckExpiry, Expire, CheckRefresh, RefreshOk, End
  <2>2. rx \/ Fresh(0)
    BY <1>2, <2>1 DEF Arrives
  <2>3. ASSUME NEW p \in Pollers, CheckForBeacons(p)
        PROVE  rx' \/ Fresh(0)'
    <3>1. CASE ~alwaysOn /\ rxOpen /\ rx
      BY <2>3, <3>1 DEF CheckForBeacons
    <3>2. CASE ~(~alwaysOn /\ rxOpen /\ rx)
      BY <2>2, <2>3, <3>2 DEF CheckForBeacons
    <3> QED
      BY <3>1, <3>2
  <2>4. ASSUME NEW p \in Pollers, RefreshOk(p)
        PROVE  rx' \/ Fresh(0)'
    BY <2>2, <2>4 DEF RefreshOk
  <2>5. ASSUME NEW p \in Pollers,
               \/ Start(p) \/ CheckJoin(p) \/ EnsureJoined(p) \/ CheckExpiry(p)
               \/ Expire(p) \/ CheckRefresh(p) \/ End(p)
        PROVE  rx' \/ Fresh(0)'
    BY <2>2, <2>5 DEF Start, CheckJoin, EnsureJoined, CheckExpiry, Expire, CheckRefresh, End
  <2>6. CASE ScheduleWork \/ UNCHANGED vars
    <3>1. UNCHANGED <<rx, beaconConfirmed, sinceBeacon>>
      BY <2>6 DEF ScheduleWork, vars
    <3> QED
      BY <2>2, <3>1
  <2> QED
    BY <1>1, <1>2, <1>4, <2>3, <2>4, <2>5, <2>6 DEF CalmNext, Step
<1> QED
  BY <1>3, <1>4

\* One tick later it is one tick old, or read, or followed by the next.
LEMMA ArrivedStep ==
  ASSUME IInv, NoneJoins, Registers, Arrives, Arrived, [Next]_vars
  PROVE  Arrived'
<1> SUFFICES ASSUME Calm', steadyFor' > Turned + 1
             PROVE  rx' \/ Fresh(1)'
  BY DEF Arrived
<1> steadyFor \in Nat /\ steadyFor' \in Nat
  BY Counted
<1> USE DEF s_log, threads, network, Fresh
<1>1. CASE Tick
  <2>1. Calm /\ beaconSent
    <3>1. Calm
      BY <1>1 DEF Tick, Calm
    <3> QED
      BY <1>1, <3>1, BeforeTick
  <2>2. steadyFor > Turned
    <3>1. steadyFor' <= steadyFor + 1
      BY <1>1 DEF Tick
    <3> QED
      BY <3>1 DEF Turned
  <2>3. rx \/ Fresh(0)
    BY <2>1, <2>2 DEF Arrives
  <2>4. CASE rx
    BY <1>1, <2>4 DEF Tick
  <2>5. CASE Fresh(0)
    BY <1>1, <2>5 DEF Tick, Older, Never
  <2> QED
    BY <2>3, <2>4, <2>5
<1>2. CASE ~Tick
  <2>0. steadyFor' > Turned
    BY DEF Turned
  <2>1. /\ CalmNext /\ Calm /\ registered /\ steadyFor' = steadyFor
        /\ \A p \in Pollers : ~JoinOk(p)
    BY <1>2, <2>0, HeardStep
  <2>2. rx \/ Fresh(1)
    BY <2>1 DEF Arrived
  <2>3. ASSUME NEW p \in Pollers, CheckForBeacons(p)
        PROVE  rx' \/ Fresh(1)'
    <3>1. CASE ~alwaysOn /\ rxOpen /\ rx
      BY <2>3, <3>1 DEF CheckForBeacons
    <3>2. CASE ~(~alwaysOn /\ rxOpen /\ rx)
      BY <2>2, <2>3, <3>2 DEF CheckForBeacons
    <3> QED
      BY <3>1, <3>2
  <2>4. ASSUME NEW p \in Pollers, RefreshOk(p)
        PROVE  rx' \/ Fresh(1)'
    BY <2>2, <2>4 DEF RefreshOk
  <2>5. ASSUME NEW p \in Pollers,
               \/ Start(p) \/ CheckJoin(p) \/ EnsureJoined(p) \/ CheckExpiry(p)
               \/ Expire(p) \/ CheckRefresh(p) \/ End(p)
        PROVE  rx' \/ Fresh(1)'
    BY <2>2, <2>5 DEF Start, CheckJoin, EnsureJoined, CheckExpiry, Expire, CheckRefresh, End
  <2>6. CASE Beacon
    <3>1. CASE rx
      BY <2>6, <3>1 DEF Beacon
    <3>2. CASE Fresh(1)
      BY <2>6, <3>2 DEF Beacon
    <3> QED
      BY <2>2, <3>1, <3>2
  <2>7. CASE ScheduleWork \/ UNCHANGED vars
    BY <2>2, <2>7 DEF ScheduleWork, vars
  <2> QED
    BY <1>2, <2>1, <2>3, <2>4, <2>5, <2>6, <2>7 DEF CalmNext, Step
<1> QED
  BY <1>1, <1>2

\* A poll that has looked for beacons finds the window open.
LEMMA NoneExpiresStep ==
  ASSUME IInv, Opened, NoneJoins, Registers, Arrived, NoneExpires, [Next]_vars
  PROVE  NoneExpires'
<1> SUFFICES ASSUME Calm', steadyFor' > Turned + 1, BeaconTimeout > 0, NEW q \in Pollers
             PROVE  pc'[q] # "expiring" /\ (pc'[q] = "check" => Fresh(1)')
  BY DEF NoneExpires
<1> steadyFor \in Nat /\ steadyFor' \in Nat
  BY Counted
<1> Threads /\ Ages
  BY DEF IInv
<1> USE DEF s_log, threads, network, Fresh
<1>1. CASE Tick
  BY <1>1 DEF Tick, At
<1>2. CASE ~Tick
  <2>0. steadyFor' > Turned
    BY DEF Turned
  <2>1. /\ CalmNext /\ Calm /\ registered /\ steadyFor' = steadyFor
        /\ \A p \in Pollers : ~JoinOk(p)
    BY <1>2, <2>0, HeardStep
  <2>2. pc[q] # "expiring" /\ (pc[q] = "check" => Fresh(1))
    BY <2>1 DEF NoneExpires
  <2>3. ASSUME NEW p \in Pollers, CheckForBeacons(p)
        PROVE  pc'[q] # "expiring" /\ (pc'[q] = "check" => Fresh(1)')
    <3>1. pc'[q] # "expiring"
      BY <2>2, <2>3 DEF CheckForBeacons, Goto, Threads
    <3>2. CASE ~alwaysOn /\ rxOpen /\ rx
      BY <2>3, <3>1, <3>2 DEF CheckForBeacons
    <3>3. CASE ~(~alwaysOn /\ rxOpen /\ rx)
      <4>1. Fresh(1)
        BY <2>1, <3>3 DEF Arrived, Opened, Calm
      <4> QED
        BY <2>3, <3>1, <3>3, <4>1 DEF CheckForBeacons
    <3> QED
      BY <3>2, <3>3
  <2>4. ASSUME NEW p \in Pollers, RefreshOk(p)
        PROVE  pc'[q] # "expiring" /\ (pc'[q] = "check" => Fresh(1)')
    BY <2>2, <2>4 DEF RefreshOk, Goto, Threads
  <2>5. ASSUME NEW p \in Pollers, CheckExpiry(p)
        PROVE  pc'[q] # "expiring" /\ (pc'[q] = "check" => Fresh(1)')
    <3>1. CASE p = q
      <4>1. Fresh(1)
        BY <2>2, <2>5, <3>1 DEF CheckExpiry, At
      <4>2. ~Expired
        BY <4>1 DEF Expired, Window
      <4> QED
        BY <2>5, <3>1, <4>2 DEF CheckExpiry, Goto, Threads
    <3>2. CASE p # q
      BY <2>2, <2>5, <3>2 DEF CheckExpiry, Goto, Threads
    <3> QED
      BY <3>1, <3>2
  <2>6. ASSUME NEW p \in Pollers,
               \/ Start(p) \/ CheckJoin(p) \/ EnsureJoined(p)
               \/ Expire(p) \/ CheckRefresh(p) \/ End(p)
        PROVE  pc'[q] # "expiring" /\ (pc'[q] = "check" => Fresh(1)')
    BY <2>2, <2>6 DEF Start, CheckJoin, EnsureJoined, Expire, CheckRefresh, End, Goto, Threads
  <2>7. CASE Beacon \/ ScheduleWork \/ UNCHANGED vars
    BY <2>2, <2>7 DEF Beacon, ScheduleWork, vars
  <2> QED
    BY <1>2, <2>1, <2>3, <2>4, <2>5, <2>6, <2>7 DEF CalmNext, Step
<1> QED
  BY <1>1, <1>2

\* Once the device cannot lose the receiver, a beacon makes it believe for good.
LEMMA BelievingStep ==
  ASSUME IInv, Opened, Accepting, NoneJoins, Registers, NoneExpires,
         [Next]_vars, Calm', steadyFor' > Turned + 1, BeaconTimeout > 0, ~Tick
  PROVE  /\ CalmNext /\ Calm /\ steadyFor' = steadyFor
         /\ Beacon => rx'
         /\ listenerActive => listenerActive'
         /\ rx => rx' \/ listenerActive'
         /\ beaconSent' => beaconSent \/ Beacon
<1> steadyFor \in Nat /\ steadyFor' \in Nat
  BY Counted
<1> USE DEF s_log, threads, network
<1>0. steadyFor' > Turned
  BY DEF Turned
<1>1. /\ CalmNext /\ Calm /\ registered /\ steadyFor' = steadyFor /\ steadyFor > 1
      /\ \A p \in Pollers : ~JoinOk(p)
  BY <1>0, HeardStep
<1>2. \A p \in Pollers : ~Expire(p)
  BY <1>1 DEF NoneExpires, Expire, At
<1>3. ifaceJoined /\ rxOpen
  BY <1>1 DEF Accepting, Opened, Late, Calm
<1>4. Beacon => rx'
  BY <1>1, <1>3 DEF Beacon, Calm
<1>5. ASSUME NEW p \in Pollers, CheckForBeacons(p)
      PROVE  /\ listenerActive => listenerActive'
             /\ rx => rx' \/ listenerActive'
             /\ beaconSent' = beaconSent
  <2>1. CASE ~alwaysOn /\ rxOpen /\ rx
    BY <1>5, <2>1 DEF CheckForBeacons
  <2>2. CASE ~(~alwaysOn /\ rxOpen /\ rx)
    BY <1>5, <2>2 DEF CheckForBeacons
  <2> QED
    BY <2>1, <2>2
<1>6. ASSUME NEW p \in Pollers, RefreshOk(p)
      PROVE  listenerActive' /\ beaconSent' = beaconSent
  BY <1>6 DEF RefreshOk
<1>7. ASSUME NEW p \in Pollers,
             \/ Start(p) \/ CheckJoin(p) \/ EnsureJoined(p) \/ CheckExpiry(p)
             \/ CheckRefresh(p) \/ End(p)
      PROVE  UNCHANGED <<listenerActive, rx, beaconSent>>
  BY <1>7 DEF Start, CheckJoin, EnsureJoined, CheckExpiry, CheckRefresh, End
<1>8. ASSUME ScheduleWork \/ UNCHANGED vars
      PROVE  UNCHANGED <<listenerActive, rx, beaconSent>>
  BY <1>8 DEF ScheduleWork, vars
<1>9. CASE Beacon
  <2>1. rx' /\ listenerActive' = listenerActive
    BY <1>4, <1>9 DEF Beacon
  <2> QED
    BY <1>1, <1>9, <2>1
<1> QED
  BY <1>1, <1>2, <1>4, <1>5, <1>6, <1>7, <1>8, <1>9 DEF CalmNext, Step

\* So the beacon of a tick is in the socket or believed, ...
LEMMA BelievesStep ==
  ASSUME IInv, Opened, Accepting, NoneJoins, Registers, NoneExpires, Believes, [Next]_vars
  PROVE  Believes'
<1> SUFFICES ASSUME Calm', steadyFor' > Turned + 1, BeaconTimeout > 0, beaconSent'
             PROVE  rx' \/ listenerActive'
  BY DEF Believes
<1>1. ~Tick
  BY DEF Tick
<1> QED
  BY <1>1, BelievingStep DEF Believes

\* ... also after the tick, ...
LEMMA BelievedStep ==
  ASSUME IInv, Opened, Accepting, NoneJoins, Registers, NoneExpires, Believes, Believed,
         [Next]_vars
  PROVE  Believed'
<1> SUFFICES ASSUME Calm', steadyFor' > Turned + 2, BeaconTimeout > 0
             PROVE  rx' \/ listenerActive'
  BY DEF Believed
<1> steadyFor \in Nat /\ steadyFor' \in Nat
  BY Counted
<1>1. CASE Tick
  <2>1. Calm
    BY <1>1 DEF Tick, Calm
  <2>2. beaconSent
    BY <1>1, <2>1, BeforeTick
  <2>3. steadyFor > Turned + 1
    <3>1. steadyFor' <= steadyFor + 1
      BY <1>1 DEF Tick
    <3> QED
      BY <3>1 DEF Turned
  <2>4. rx \/ listenerActive
    BY <2>1, <2>2, <2>3 DEF Believes
  <2> QED
    BY <1>1, <2>4 DEF Tick
<1>2. CASE ~Tick
  <2>1. steadyFor' > Turned + 1
    BY DEF Turned
  <2> QED
    BY <1>2, <2>1, BelievingStep DEF Believed
<1> QED
  BY <1>1, <1>2

\* ... and the work item's next poll believes it.
LEMMA FoundStep ==
  ASSUME IInv, Opened, Accepting, NoneJoins, Registers, NoneExpires, Believed, Found,
         [Next]_vars
  PROVE  Found'
<1> SUFFICES ASSUME Calm', BeaconTimeout > 0, Late(Turned + 3, PastBeacons)'
             PROVE  listenerActive'
  BY DEF Found
<1> steadyFor \in Nat /\ steadyFor' \in Nat
  BY Counted
<1> Threads
  BY DEF IInv
<1> USE DEF s_log, threads, network
<1>1. CASE Tick
  <2>1. Calm
    BY <1>1 DEF Tick, Calm
  <2>2. polled /\ pc[WorkQ] = "idle"
    BY <1>1, <2>1, BeforeTick
  <2>3. steadyFor > Turned + 3 \/ steadyFor = Turned + 3
    <3>1. steadyFor' <= steadyFor + 1 /\ ~polled'
      BY <1>1 DEF Tick
    <3>2. steadyFor' > Turned + 3
      BY <3>1 DEF Late
    <3> QED
      BY <3>1, <3>2 DEF Turned
  <2>4. Late(Turned + 3, PastBeacons)
    BY <2>2, <2>3 DEF Late, PastBeacons, Done
  <2> QED
    BY <1>1, <2>1, <2>4 DEF Tick, Found
<1>2. CASE ~Tick
  <2>1. steadyFor' > Turned + 1 /\ steadyFor' > Turned + 2
    BY DEF Late, Turned
  <2>2. /\ CalmNext /\ Calm /\ steadyFor' = steadyFor
        /\ listenerActive => listenerActive'
    BY <1>2, <2>1, BelievingStep
  <2>3. CASE Late(Turned + 3, PastBeacons)
    BY <2>2, <2>3 DEF Found
  <2>4. CASE ~Late(Turned + 3, PastBeacons)
    <3>1. steadyFor = Turned + 3 /\ polled' /\ pc'[WorkQ] \in PastBeacons
      BY <2>2, <2>4 DEF Late
    <3>2. ~polled \/ pc[WorkQ] \notin PastBeacons
      BY <2>4, <3>1 DEF Late
    <3>3. CheckForBeacons(WorkQ)
      BY <1>2, <2>2, <3>1, <3>2 DEF PastBeacons, Done, CalmNext, Beacon, ScheduleWork, vars,
         Start, Step, CheckJoin, JoinOk, EnsureJoined, CheckForBeacons, CheckExpiry, Expire,
         CheckRefresh, RefreshOk, End, Goto, At, Threads, Calm
    <3>4. rx \/ listenerActive
      BY <2>1, <2>2 DEF Believed
    <3> QED
      BY <2>2, <3>3, <3>4 DEF CheckForBeacons, Opened, Calm
  <2> QED
    BY <2>3, <2>4
<1> QED
  BY <1>1, <1>2

\* What a calm time has brought so far.
Healing ==
    /\ Opened /\ Joined /\ NoneJoins /\ Accepting
    /\ Drained /\ Waiting /\ Expiring /\ Silent /\ NotDue /\ Registers
    /\ Arrives /\ Arrived /\ NoneExpires /\ Believes /\ Believed /\ Found

\* A device that is left alone for the sum of the two windows and a few ticks has
\* found the receiver, whatever went wrong before and whoever polls meanwhile
\* (lines 311-344, 557-620, 631-724).
THEOREM AloneItHeals == Spec => []HealsInTime
<1>1. Init => Healing
  <2> SUFFICES ASSUME Init PROVE Healing
    OBVIOUS
  <2>1. steadyFor = 0 /\ ~initialised
    BY DEF Init
  <2>2. ~Calm
    BY <2>1 DEF Calm
  <2> QED
    BY <2>1, <2>2 DEF Healing, Opened, Joined, NoneJoins, Accepting, Drained, Waiting,
       Expiring, Silent, NotDue, Registers, Unheard, Arrives, Arrived, NoneExpires,
       Believes, Believed, Found
<1>2. IInv /\ Healing /\ [Next]_vars => Healing'
  <2> SUFFICES ASSUME IInv, Healing, [Next]_vars PROVE Healing'
    OBVIOUS
  <2>1. /\ Opened /\ Joined /\ NoneJoins /\ Accepting
        /\ Drained /\ Waiting /\ Expiring /\ Silent /\ NotDue /\ Registers
        /\ Arrives /\ Arrived /\ NoneExpires /\ Believes /\ Believed /\ Found
    BY DEF Healing
  <2>2. Opened' /\ Joined' /\ NoneJoins' /\ Accepting'
    BY <2>1, OpenedStep, JoinedStep, NoneJoinsStep, AcceptingStep
  <2>3. Drained' /\ Waiting' /\ Expiring' /\ Silent' /\ NotDue' /\ Registers'
    BY <2>1, DrainedStep, WaitingStep, ExpiringStep, SilentStep, NotDueStep, RegistersStep
  <2>4. Arrives' /\ Arrived' /\ NoneExpires' /\ Believes' /\ Believed' /\ Found'
    BY <2>1, ArrivesStep, ArrivedStep, NoneExpiresStep, BelievesStep, BelievedStep, FoundStep
  <2> QED
    BY <2>2, <2>3, <2>4 DEF Healing
<1>3. Spec => []Healing
  BY <1>1, <1>2, Inductive, PTL DEF Spec
<1>4. Healing => HealsInTime
  <2> SUFFICES ASSUME Found, receiverUp, attached, initialised, steadyFor = Repair,
                      BeaconTimeout > 0
               PROVE  IsActive
    BY DEF Healing, HealsInTime
  <2>1. steadyFor > Turned + 3
    BY DEF Repair, Turned
  <2>2. Calm => listenerActive
    BY <2>1 DEF Found, Late
  <2> QED
    BY <2>2 DEF Calm, IsActive
<1> QED
  BY <1>3, <1>4, PTL

=============================================================================
