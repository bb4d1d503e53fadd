# TLA+ models of esp-iot-log

esp-iot-log sends the log of a small device over UDP to a Python receiver. It exists in three ports - an Arduino
library (`src/`), an ESP-IDF component (`esp-idf/`) and a Zephyr/OpenThread module (`zephyr/`) - that share a wire
format and little code. The ports send only while they believe that somebody listens, and much of what is hard in
them is about that belief: how it arises, how it ends, and what it costs. This directory models the ports, checks the
models with TLC and proves the most important properties with TLAPS. Paths in this file are those of the repository;
`Module!Name` means a definition in `Module.tla`.

    tlc -config ring.cfg MCLogBackendIot.tla        # one run; PROJECT.json lists them all
    tlapm LogBackendIot_proofs.tla                  # the proofs of one module

## 1. The system

| Component | State it keeps | Operations | Talks to |
|---|---|---|---|
| Zephyr log backend (`zephyr/log_backend_iot.c`) | a byte ring, message buffer, seven counters | `process` (logging thread), `iot_log_backend_drain` (pollers) | asks `iot_log_is_active`, hands entries to `iot_log_send_raw`; whatever sending logs comes back to `process` |
| Zephyr listener discovery (`zephyr/iot_log_zephyr.c`) | `s_log`: flags, last beacon, last re-subscription, two sockets; a work item | `iot_log_init`, `iot_log_deinit`, `iot_log_poll` (by the work item and, optionally, the application) | OpenThread (subscription), the Zephyr stack (group marks), the receiver (beacons), the ring |
| Zephyr send path (same file) | counters under a mutex | `iot_log`, `iot_log_send_raw`, `iot_log_metric`, `send_message` | sockets; gate on the listener flag |
| Arduino discovery (`src/ESPIoTLog.cpp`) | listener flag, last discovery, interval, last telemetry | `begin`, `end`, `loop`, `forceDiscovery`, `enableSystemTelemetry` | mDNS query to the receiver; `millis()` wraps around |
| Arduino logging (same file) | message buffer, rate-limit window, counters, optional critical section | `logf`, `logMetric`, `sendTelemetry`, `sendLogMessage` | UDP |
| Arduino crash handler (`src/ESPCrashHandler.cpp`) | a record with magic and checksum and a counter in RTC memory; `_installed` | `install`, `uninstall`, `recordCrash`, the ESP8266's crash callback, `checkAndLogCrashes` | the reset reason, RTC memory, the log |
| ESP-IDF component (`esp-idf/esp_iot_log.c`) | `s_log`: flags, socket, stamp, interval, counters, no lock | `iot_log_init`, `_deinit`, `_poll`, `_force_discovery`, `iot_log`, metrics, `iot_log_check_coredump` | mDNS, UDP, core dump partition |
| Python receiver (`python/esp_iot_log_receiver.py`) | sockets, mDNS registration, beacon clock, per-device state | `start`, `stop`, `listen`, `_send_beacon6`, `_handle_message` | devices: answers mDNS, sends a beacon every 30 s |
| Wire protocol (all ports and the receiver) | none | encode and decode | |
| Backtrace decoding, file output, colours, command line; examples; packaging | none that matters here | | |

What is hard in it:

* **Interleaving without locks.** Zephyr's ring is written by the logging thread and drained by every poller, each entry
  by several calls. `iot_log_poll()` is run by a work item and may be called by the application too. The ESP-IDF
  component's `s_log` is shared by whatever tasks log, poll and close. Zephyr's send path has a mutex, but takes
  OpenThread's lock inside it; Arduino's `logf()` has a critical section that ends before the message is sent.
* **Feedback.** On Zephyr the network stack logs while it sends, and those records are messages to be sent.
* **Time.** Timeouts race the beacons they wait for; a query blocks and its caller goes on with the time from before it;
  `millis()` wraps around, and so do the seconds the rate limit counts in; the receiver's clock is the wall clock, which
  somebody may set; a work item must re-schedule itself for ever.
* **Partial failure.** Re-subscription leaves a group before it joins it; a parent forgets a registration; Zephyr
  silently marks a group as not joined; mDNS answers get lost; the receiver's start fails with some of its sockets made,
  and its loop goes on after any exception.
* **Life cycle.** `deinit` cancels nothing and waits for nobody; `init` may follow at once.
* **Resets.** A crash record is written in pieces into memory that survives some resets and not others.

`PROJECT.json` lists each hazard with its line and the properties that would catch it.

What makes each component correct:

* ring: whole messages, in order, none twice, none skipped, all of them eventually; no storm of its own records;
* Zephyr discovery: a receiver that stays is found and not lost again; a device without one falls silent; a live listener
  is never muted; the poll never stops;
* Zephyr send path: the mutex protects what it is there for, cannot be waited for in a circle, failed sends do not feed on
  the warnings about them, and a backlog is sent before its listener expires;
* Arduino logging: the limiter lets through what it says and drops nothing else; a message is sent as it was given and
  counted once, at least while calls do not overlap;
* Arduino and ESP-IDF discovery: the belief catches up with the receiver within the longest interval; queries, which
  block, back off; telemetry keeps its pace; a forced discovery happens; each message is counted once;
* crash handler: what is reported happened, a crash is recorded in the boot after it, a record goes unreported in a few known
  ways only, nothing is reported twice, the counter counts no more than it should;
* receiver: its periodic duties stay on schedule through partial failures, a device that hears it stays served, its
  service is withdrawn at the end, and it shows what was sent.

## 2. Modules

| Module | What it is | Source |
|---|---|---|
| `LogPipe` | abstract specification: accept, deliver in order | - |
| `LogBackendIot` | the ring, step by step; implements `LogPipe` | `zephyr/log_backend_iot.c` |
| `ZephyrListener` | init, deinit, poll, work item, with Thread and receiver around them | `zephyr/iot_log_zephyr.c` |
| `ZephyrIotLog` | send path and logging API with the poll, the backend and OpenThread's callbacks | `zephyr/iot_log_zephyr.c` |
| `Discovery` | abstract specification: ask with a growing distance, believe the answer | - |
| `ArduinoDiscovery` | `loop()` with its query, telemetry and a wrapping clock; implements `Discovery` | `src/ESPIoTLog.cpp` |
| `ArduinoLogf` | tasks in `logf()` and `logMetric()`: critical section, rate limit, shared buffer and UDP object | `src/ESPIoTLog.cpp` |
| `CrashHandler` | RTC record and counter over resets | `src/ESPCrashHandler.cpp`, `src/ESPIoTLog.cpp` |
| `EspIdfIotLog` | poll, senders and life cycle over an unlocked `s_log`; implements `Discovery` | `esp-idf/esp_iot_log.c` |
| `Receiver` | start, loop, packets, stop, with a device that hears the beacons | `python/esp_iot_log_receiver.py` |
| `*_proofs` | for each module but the abstract ones its theorems, for every value of the constants | |
| `MC*` | the instances for TLC | |

Definitions keep the source's names where they can. A definition introduced by the comment *Variant:* is a plausible
bug in the definition below it; it is used by nothing but the mutation check listed in `PROJECT.json`, where TLC must
find each property violated by some variant.

### LogBackendIot

A byte of the ring is modelled by where it comes from (message, index, length of its text), so that a reader who
loses the framing can be seen to. `process()` is `Record` with its bail-outs (`BailInactive`, `BailSelf`, `BailNoFmt`,
`BailZeroLen`) or `Format`, and then `PutHeader`, `PutPayload` or `RingFull`: one step per `ring_buf` call. A drainer
goes through `Enter`, `Peek`, `GetHeader`, `GetPayload`, `SendRaw`, `Leave`. A header decoded from bytes that are none
may be any of `GarbageLens`. `SendRaw` may make the transport log; that record (`complaints`) comes back to `process()`
and is of a kind that the source filter or the region filter recognises. An unsynchronised put and get are each taken to
be atomic, as Zephyr's `ring_buf` allows for one producer and one consumer; with two drainers even that is generous.

### ZephyrListener

The clock is a tick of 30 s, the receiver's beacon interval. A time stamp is an age. One poll is the steps `Start`,
`CheckJoin`, `JoinOk` (or `JoinFails`), `EnsureJoined`, `CheckForBeacons`, `CheckExpiry`, `Expire`, `CheckRefresh`,
`RefreshOk` (or `RefreshFails`), `End`: split where the code can block or be preempted. A beacon gets through if the
receiver is up, the device attached, the group registered with the parent (`registered`) and joined in Zephyr
(`ifaceJoined`), and the RX socket open. Left out: banners and log lines with their throttle (`ZephyrIotLog` has the
banners), and the ring (`LogBackendIot`). The work item polls once in a tick instead of every second: a poll is then never later than in the
code by more than the bound in `ExpiryIsTimely` says.

Both two-poller counterexamples need no second core: the work queue's thread is cooperative, the application's main
thread is preemptible, so a poll of the work queue may fall between any two steps of the application's.

### ZephyrIotLog

Where the other two Zephyr modules meet. A send is `Lock`, `Gate`, `TransmitOk` or `TransmitFails`, `Store`: split at
each access to what another thread can touch. `mutex` is `s_log_mutex`; `otLock` is OpenThread's lock, which
`is_thread_attached()` takes for the length of a query (so `Gate` and `CheckActive` only ask that it is free) and which
is held for longer only around a callback (`EnterCallback` to `LeaveCallback`). The poll is `Poll`, `Drain` for each
entry, `DrainEnds`, then `Expiry` with its banner and `Lower`, or `Refresh` with its; the logging thread is `Process`,
`CheckActive`, `Put`. The ring is a number here, what keeps a belief alive is left to `ZephyrListener`: `Poll` and
`Expiry` may find a listener or lose one whenever the code could. `callbackLogs` is a property of the application:
whether it logs from one of OpenThread's callbacks. The history variables `wasSent` and `wasDropped` are what the counters should say.

### ArduinoDiscovery

Single-threaded, but the query blocks: `LoopQuery` and `Discovered` are two steps between which the clock may move on
once, and the stamps set afterwards are the time from before (`asked`). Stamps and differences are modulo `Wrap`; the
real ages are kept as history beside them, and the properties speak of those. The sketch need not call `loop()` at all,
so the time between two calls is arbitrary. `setDiscoveryInterval()` stores a value that nothing reads; it is left out.
The two ports of discovery share a promise, `Discovery`: in place of stamps, intervals and clocks it has the age of the last
query and the number of failures. `LoopQuery` is its `Ask`, `Discovered` its `Answer`, `ForceDiscovery` its `Excuse`,
`EndLog` its `Drop`; in the ESP-IDF port `PollQuery`, `Learn`, `IotLogInit` and `ForceDiscovery`, `IotLogDeinit`.

### ArduinoLogf

Tasks under `IOTLOG_THREAD_SAFE`. The critical section of `logf()` is one step (`Unheard`, `Refuse` or `Admit`); after it
the message is copied out of the shared buffer in two parts (`Format`, `Copy`) and goes through `Send`, `Write`,
`EndPacketOk` or `EndPacketFails` on a UDP object that all tasks share, and an increment that is a load and a `Store`.
`logMetric()` and telemetry join at `Send`, with no lock and no limit. A text is known by the task that gave it, so a
packet with another's text, or with parts of two, shows. The limiter compares numbers of seconds of a clock that wraps
around in the middle of one, as 2^32 ms does.

### CrashHandler

Of the record's bytes the model tells apart magic, checksum and incident; `recordCrash()` is two steps, `Store` and
`Increment`, in one of three contexts: `install()`, a report of the sketch (`LogCrash`, or `RecordCrash`, which is public
and looks at nothing), the callback. `checkAndLogCrashes()` is `Check`, `Get`, `Clear`: two reads, either of which may fail
on the ESP8266, and the clearing, which comes also if the second one did (`unread`). The counter of the ESP8266 cannot be
relied on to be readable either. A reset may come between any two steps, and during `Store` leave a torn record, whatever
was there before. The history variables say what became of each incident (`settled`: logged, or cleared by the
sketch; `done`: its record cleared after the report), what the counter showed at the last power-on (`cold`), and how often
it has had reason to count since (`due`). RTC memory after a reset: kept on the ESP8266; kept or re-initialised on the ESP32
(`RTC_DATA_ATTR` variables are initialised by the loader except after deep sleep; the source's comment says they
survive); noise after power-on on the ESP8266. Noise is assumed to fail the 32 bit magic and a torn record the 8 bit
checksum, the one abstraction that hides a small probability.

### EspIdfIotLog

Three tasks. Polling: `PollQuery`, `Learn`, `Stamp`, `Backoff`. Sending: `Log` (the caller's gate), `Gate`
(`send_message`'s), `SendUnicast`, `SendMulticast`, then the increment as `Load` and `Store`. Control: `IotLogInit`,
`CloseSocket` then `IotLogDeinit`, `ForceDiscovery`. `init` is one step: until its last assignment `initialised` is
false, and what a poll or a send under way writes before that is wiped or could as well be written after it.

### Receiver

One main thread: `Start*`, then rounds of `SelectTimeout` or `HandleMessage`, `RefreshIgmp`, the beacon, the service.
What an exception skips is what the code's handlers make it skip: a beacon that cannot be sent is tried again in the next
round, a half-made IPv6 socket ends each round at the beacon (`SendBeaconHalfMade`), a failed `register_service` leaves
the service withdrawn. A re-join that fails (`RefreshIgmpFails`) has set its stamp already and may have left the group
(`joined`): it is not tried again for an interval (`misses` counts these). Ctrl+C is `SystemExit` raised by the signal handler, which passes every handler up to the `with`
statement, whose end calls `stop()`; it may strike within the registration, and within `stop()`. `time.time()` is the wall clock: `SetClock`
moves it either way. The device is at the other end of the beacons, of which no two in a row are lost. A packet is its type
and the length of a string, which is what the decoding of metrics depends on.

## 3. Runs

| Run | Asks | Result |
|---|---|---|
| `ring` | one drainer: types, whole entries, refinement of `LogPipe`, every queued message sent, storms die | holds |
| `ring_two_pollers` | `WholeEntries` with work item and application both polling | violated |
| `listener` | work item as the only poller: poll goes on, expiry is timely, no live listener muted, heals in time, falls silent | holds |
| `listener_two_pollers` | `NoLiveListenerMuted` with two pollers | violated |
| `discovery` | belief agrees, discovery as promised (`Discovery`), telemetry paced, across clock wraps | holds |
| `discovery_forced` | `forceDiscovery()` makes the next `loop()` query | violated |
| `crash` | only real incidents are logged, the crash behind a boot is recorded, records go in the known ways only, logged once, count bounded | holds |
| `espidf` | belief agrees, the same promise kept, forced is next, messages accounted for | holds |
| `zephyr` | mutex, counters and buffer; warnings end; no circular wait but through a callback; backlog survives; calls return | holds |
| `logf` | what the limiter lets through and drops, also across the wrap; packets and counters while calls do not overlap | holds |
| `receiver` | duties on schedule but for what failures explain, the device keeps the receiver, no service left behind | holds |
| `receiver_strings` | what a device logs is displayed as what it is | violated by short strings |

What the violations are about:

* **ring_two_pollers.** `log_backend_iot.c:207` and `iot_log_zephyr.c:588` say the ring is drained from the main thread;
  the work item drains it too. If the application calls `iot_log_poll()` as well, both drainers can peek at one header,
  and the second takes its bytes from the middle of the next entry.
* **listener_two_pollers.** The decision that a listener timed out and the lowering of its flag are separated by a
  banner being sent. A beacon read by the other poller in between is forgotten: the device goes silent although the
  receiver was heard this instant. It recovers with the next beacon - provided the next is received.
* **discovery_forced.** `forceDiscovery()` resets the stamp to 0 and the interval to 0; with an active listener `loop()`
  uses the maximum interval and compares it with `millis() - 0`. In the first five minutes of the clock nothing happens,
  and shortly after a wrap the next query can even be put off. The ESP-IDF port treats a stamp of 0 as *force*: there
  the same property holds (`EspIdfIotLog!ForcedIsNext`), unless a query is running at that moment, whose end
  overwrites the request.
* **receiver_strings.** After a metric's name there are four bytes of an integer, or a length byte and a string, and nothing
  says which. The receiver wants at least four bytes, and takes four for an integer: the string of three bytes `"off"`
  is shown as a number, and those of no, one or two bytes not at all.

### Bounds

* Ring: 11 bytes, `msg_buf` of 4, texts of 0, 1, 3 and 6 (cut to 3) bytes: the ring holds one long entry and a half or
  two short ones, so it fills up, entries are met half-written, and a text is cut. Three application records, six in all.
  Nothing depends on more than the relation of sizes, and the proofs hold for any.
* Listener: windows of 2, 3 and 4 ticks (60, 90, 120 s at 30 s a tick), ages up to 5, two faults (a fault is a failed
  join or renewal, a detach, a lost beacon, a forgetful parent, a receiver that stops, a deinit, a failed init). What is
  stated about a device left alone is checked after each pair of faults; its time is 13 ticks, the bound of `steadyFor`.
* Discovery: a tick of one minute, minimum 1, maximum 5, telemetry every 3 (30 s is below the tick, so a longer pace that
  the tick can resolve stands for it), a clock of 8 ticks that wraps in every long behaviour, two faults.
* Crash: three incidents, one `enableCrashLogging(false)`: a record can be overwritten by a newer one while an older is
  waiting to be reported, and that one torn in its turn. The counter has 8 values, and after power-on shows 0 or 6, from
  where it gets to its wrap.
* ESP-IDF: a tick of 30 s, minimum 2, maximum 5 (shorter than the code's 10, so the cap is reached by the second
  doubling and is no power of two times the minimum), configured intervals of default, 1 and 3, two messages, two faults.

* Zephyr send path: one application thread, OpenThread's thread, the poller and the logging thread: three that send, one
  that fills the ring. Two calls, one fault, a ring and a queue of one message, a warning limit of 1 with counters to 2:
  enough for each thread to meet each other at every step, and for warnings to reach the limit. The proofs hold for any.
* Logf: two tasks, a limit of 1, seconds of 3 ticks and a clock of 7, so that the last second before the wrap is a short
  one, three calls and two faults (a reset of the limiter, a change of the listener, an `end()`).
* Receiver: a tick is one timeout of `select()`, 1 s in the code; the intervals are scaled down from 30, 60, 60 and 90 s
  to 6, 12, 12 and 18 ticks, with a registration that takes up to one tick, the clock set by 4 either way, two failures
  or settings - twice the same re-join, for one, which is why ages are told apart up to 44. `receiver_strings` has strings of 0 to
  5 bytes, on both sides of the three that matter; `receiver`, which does not ask what is displayed, has 0 and 1. The proofs hold
  for the code's own figures: by `DeviceStaysConnected` the device keeps the receiver as long as a registration takes no more than 15 s.

`AgeCap`, `Long`, `CountCap`, `LogqSize`, `MaxText`, `MaxFaults`, `MaxApp`, `MaxCalls`, `MaxIncidents`, `MaxOffs`, `MaxMessages` are bounds of the models, not of
the code; every one is a named constant used in guards.

### Deadlock

Checked in every run but those whose model really comes to an end: `receiver`, `receiver_strings` (the program ends) and `zephyr` (an application
that logs from a callback may lock itself up, which `NoCircularWait` is about). `PROJECT.json` and the `.cfg` files say it
with `CHECK_DEADLOCK FALSE`.

### Fairness

* `LogBackendIot`: the logging thread finishes the record it is processing (`FinishEntry`) and takes up the records the
  transport left (`ProcessComplaint`); each poller polls again (`Enter`: the work item every second) and its loop moves
  on (`Drain`). No fairness on application records or on the listener flag.
* `ZephyrListener`: time passes, a receiver that is up sends its beacons, the work queue runs a work item that is due, a
  poll runs to its end, a scheduling call returns. Failures, the application, attaching and detaching have none.
  `JoinOk` and `RefreshOk` are in `Step`, which is fair as a whole: a call that *can* succeed may fail as often as
  faults are left, and then succeeds.
* `ZephyrIotLog`: each thread goes on with its send, the poll and the logging thread with what they do, a callback
  returns. Nobody has to call anything. Strong fairness, for an application thread that waits for the mutex only:
  `k_mutex_unlock` hands the mutex to the waiting thread of the highest priority, so a poller that logs a status line a
  second - a status line whose send fails makes for the next one - does not get it again and again. With weak fairness
  alone `CallsReturn` fails in the model, by a schedule that Zephyr's mutex does not have. That threads of a high priority
  leave some time to the others is for the application to see to.
* The other modules have no liveness properties: their "eventually" is bounded by ticks (`BeliefAgrees`), as the listener's
  recovery is (`HealsInTime`).

## 4. Proofs

TLAPS proves, for every value of the constants that satisfies the assumptions:

| Theorem | States |
|---|---|
| `*_proofs!TypeCorrect` | `TypeOK` of each module. Among what it says: the ring never overflows and a text never exceeds `msg_buf`, for any number of drainers; the limiter never counts above the limit; the intervals stay within bounds |
| `LogBackendIot_proofs!Inductive` | with one drainer, the shape of the ring (below) |
| `...!OneDrainerWholeEntries`, `...RoomForText`, `...IsPipe` | `WholeEntries`, the space that was checked is there, `PipeSpec`: with one drainer |
| `ZephyrListener_proofs!AlwaysSelfDriven`, `...!AlwaysTimely` | `SelfDriven`, `ExpiryIsTimely`, for any pollers |
| `...!OnePollerNeverMutes` | `NoLiveListenerMuted` if `Pollers = {WorkQ}` |
| `...!AloneItHeals` | `HealsInTime`, for any pollers, windows and number of faults |
| `ZephyrIotLog_proofs!MutexProtectsAll`, `...!WarningsComeToAnEnd` | `MutexProtects`, `WarningsEnd`, for any number of threads |
| `...!OnlyCallbacksLockUp`, `...!BacklogIsSent` | `NoCircularWait`, `BacklogSurvives` |
| `ArduinoDiscovery_proofs!CalmDevicesKnow`, `...!ImplementsDiscovery`, `...!TelemetryKeepsPace` | `BeliefAgrees`, `DiscoverySpec`, `TelemetryPaced`, for any intervals and any range of the clock |
| `ArduinoLogf_proofs!RateIsLimited`, `...!OnlyExcessIsDropped` | `RateLimited`, `DropsJustified`, for any number of tasks, limit and clock |
| `...!ExactWhenAlone` | `AloneIsExact` |
| `CrashHandler_proofs!NothingMadeUp`, `...!CrashesLoggedOnce` | `OnlyIncidents`, `LoggedOnce`, for any number of incidents and resets |
| `...!CrashIsRecorded`, `...!RecordsStay`, `...!CounterIsBounded` | `NothingForgotten`, `NothingLost`, `CountBounded`, likewise, and for any range of the counter and whatever it shows after power-on |
| `EspIdfIotLog_proofs!CalmDevicesKnow`, `...!ImplementsDiscovery`, `...!ForcedComesNext` | `BeliefAgrees`, `DiscoverySpec`, `ForcedIsNext`, for any intervals and senders |
| `...!OneSenderIsAccounted` | `Accounted`, if one task does the logging (with two an increment may be lost) |
| `Receiver_proofs!DutiesOnSchedule`, `...!NoServiceLeftBehind` | `OnSchedule`, `NotLeftBehind`, for any intervals and number of failures |
| `...!DeviceStaysConnected` | `StaysHeard`, if the timeout is at least twice the interval and two rounds of the loop less two ticks |

Assumptions: the ASSUME of each module on its constants (`RingAssumption`, `ListenerAssumption`, `ZephyrIotLogAssumption`,
`DiscoveryAssumption`, `LogfAssumption`, `CrashAssumption`, `EspIdfAssumption`, `ReceiverAssumption`), which TLC
evaluates in the runs, and where the table says *if* a hypothesis of the theorem itself.

*The ring.* `WholeEntries` is not inductive: it says nothing of the bytes behind the entry being taken. The invariant
says that the ring, front to back, is what is left of the entry a drainer is taking, then whole entries numbered
consecutively, then what there is of the entry being put, and relates the two ends to the counters `queued` and
`handed`. With one drainer every `ring_buf` call preserves that; with two `GetHeader` does not, which is the
counterexample of `ring_two_pollers`. The same invariant gives the refinement step by step: `PutPayload` is `Accept`,
`SendRaw` is `Deliver`, everything else stutters.

*The listener.* `ExpiryIsTimely` bounds the age of the last stamp by the window plus one tick; for the tick to preserve it
the invariant must know that a work item that has polled in this tick and is past its decision found the window not
over, or lowered the flag (`InWindow`), and that the work item has polled in every tick the log is initialised in
(`SelfDriven`). A raised flag always has a stamp (`Stamped`). `NoLiveListenerMuted` needs in addition that a confirmed
listener's stamp is no older than the last beacon (`Confirmed`) and that a lone poller about to lower the flag still
has the grounds on which it decided to (`Grounded`) - the fact a second poller destroys.

*Healing.* `steadyFor` counts the ticks since the last fault or change. `HealsInTime` says that a device that has been left
alone for the two windows and six ticks hears the receiver; its invariant (`Healing`) says what each of these ticks has
brought. In the first one the work item's poll joins the group, marks it joined in Zephyr and empties the socket (`Joined`,
`Accepting`, `Drained`), and nobody is about to join again (`NoneJoins`). If the parent does not forward the group nothing is
heard: the belief gets as old as the calm (`Waiting`), so it ends with the long window at the latest (`Expiring`); after
that the silence grows (`Silent`) until a poll of the work item would find the renewal due (`NotDue`), and the renewal
registers the group (`Registers`). From then on each beacon gets to the socket (`Arrives`, `Arrived`), a poll past its
reading has a fresh stamp, so no window ends (`NoneExpires`), and the device believes for good (`Believes`, `Believed`,
`Found`). Two pollers do not upset this: only the grounds for muting a *live* listener are at stake, for one tick.

*The crash handler.* `NothingForgotten` speaks of the sketch between two calls; `Kept` extends it to the middle of a call,
also of `recordCrash()` on behalf of a report, where the record to be overwritten by a newer one may be cut short only by a
reset, after which the handler is not installed. `Known` asks for the crash or a later incident, since there is one record
only. `RecordsStay` goes through the steps that write the record, and needs to know that what was found is still there
when it is read, logged and cleared (`Clearing`). For the rest the four ways to boot are proved alike from one summary
(`Booted`): what a boot leaves is the old record or none that is valid (`Survives`). That a crash is not logged twice depends on nobody being about to record
it again: neither the record, nor the call under way, nor the crash behind a boot that has not installed the handler yet is
about an incident that was logged and cleared (`NotDone`). `About` says on whose behalf `recordCrash()` runs at each place
where a reset may strike.

The counter: `Owed` says how many increments are still to come from what happened so far - the call under way, and the crash
behind a boot that has not installed the handler yet - and count and debt together never exceed what the
counter showed at power-on and what it has had reason to count since (`Paid`). `cold` is what it did show at this power-on, so
on the ESP32, where that is 0, and on an ESP8266 that began at 0, there is no slack. The bound is what the code
keeps: on the ESP8266 `due` has two for a crash whose callback ran, as section 5 says.

*The send path.* Who is between lock and unlock holds the mutex (`Exclusive`), so what it has read of a counter is still
true when it writes (`Counting`), and the packet is its own. A warning is made for a send that is counted, or is about to be
(`Warned`); that ties the number of warnings to the counter they are throttled by. Only an application that
logs from callbacks sends with OpenThread's lock held (`Callbacks`); a drain that began under a listener goes on under one
(`Draining`).

*The rate limit.* The limiter compares numbers of seconds, which also agree when the clock has come round in between.
`Stale` says how old its window is if its count is not one of this second, `Justified` and `Bounded` that in its own second
it has counted neither more nor less than it let through. What any stretch of `i` ticks has let through is bounded by the
seconds it reaches into (`Spread`): this one, the one before, and a third if the nearer one was cut short by the wrap. While no two calls overlap the text is in one place after
another (`OwnText`) and a counter is as it was read (`OwnCount`).

*Discovery.* `BeliefAgrees` follows from relating two times: whoever is wrong about the receiver has been undisturbed no
longer than its last query is old (`Knows`), and where `loop()` or the poll runs in every tick no query gets as old as
the longest interval (`QueryDue`). On Arduino both are by a clock that wraps (`QueryAge`, `TelemetryAge`). In `Discovery`
the shortest interval is doubled with each failure, in the code one interval is doubled and capped: `Doubling` ties the two.
What the device takes for the age of its last query is never more than the real age (`QueryClock`, and `QueryAge` of the
ESP-IDF port), so a query is due no sooner in the code than there, and every step is one of `Discovery` or none
(`AbstractStep`); `Blocking` is why the clock moves on no more than once in a query there too. In the ESP-IDF port a failure
counts from the answer, not from the end of the poll that counts it, hence the mapping `Failures`. `Doubled` is a
recursive function; that there is one with its equations is itself proved, by induction over a set of numbers (`DoubledIs`).

*The receiver.* How the age of a stamp, by the wall clock, relates to the time since its duty was done (`WallClock`), and
how late the duty may be at each place of the loop (`Reported`, `Beaconed`, `Announced`). The membership has an interval and a
round more for each re-join that failed (`Wait`), and is missing only then (`Member`). Whoever answers for the service
can withdraw it (`Owned`).

Only model-checked: liveness (`QueuedIsSent`, `StormDies`, `FallsSilent`, `CallsReturn`), out of the prover's reach. Every
safety property of the runs that hold is proved. That a receiver is found is among them because it is stated with a
bound in ticks; that ticks go on is the fairness of `Tick`, and TLC's check that there is no deadlock.

## 5. Not modelled

* The ESP-IDF core dump check (`iot_log_check_coredump`). It is a sequence of calls on a flash image that shares nothing
  with the rest but `iot_log()`: it writes the crash to the serial log, tries to send it, and erases it in any case, also if
  there was no listener or the summary could not be read. The header promises no more (`esp_iot_log.h:136-137`).
* `end()` of the Arduino library while another task is building a packet: a use of the network library after it let go of
  its buffers, with no outcome to model.
* The wire format but for metrics (`Receiver!Rest`, `Receiver!Parsed`): header and telemetry are layouts without state.
* Backtrace decoding, output formatting, file output, command line, examples, packaging: pure I/O without protocol state.
* Text is its length, or whose it is; CRC and MAC address carry no state.
* Two application threads on a ring whose bytes are modelled: the Zephyr modules are joined by an abstraction each (the ring is
  a number in `ZephyrIotLog`, a listener comes and goes), not by one composed module.

Disagreements met while reading that no run is about:

* `setDiscoveryInterval()` (README.md:127) has no effect; README.md:446 says the *minimum* interval applies while a
  listener is active, the code uses the maximum then. In the README's example crash logging is enabled after
  `begin()`, so the check in `begin()` never does anything. `_rate_limit_dropped` is counted and never read.
* "Crash data survives warm resets" (README.md:21, ESPCrashHandler.h:23 likewise), but not each of them. There is one record:
  `install()` writes the crash behind the boot over a report that was not logged yet, and a reset that strikes in a write leaves
  neither the old nor the new one. On the ESP32 the record is an `RTC_DATA_ATTR` variable, which the loader initialises
  at every reset but the wake from deep sleep. And a record whose second read fails is cleared without having been logged.
  `NothingLost` lists these ways, and says that there are no others.
* "Count and categorize crash types over time" (README.md:23): on the ESP8266 the core calls the crash callback for an
  exception, and the boot after it finds the reset reason; both record and count, so that one crash makes two.
  Turning logging off and on again counts the crash behind the boot once more. `CountBounded` says that it is never more than that.
* "The receiver re-joins the group every 60 s" (README.md:352): if the group was left and cannot be joined again, the host is out
  of it until the attempt after the next interval, and then again, as often as that fails; `OnSchedule` counts these.
* `IOTLOG_THREAD_SAFE` (README.md:33, 155-157) does not make the buffer, the UDP object or the counters safe: the critical
  section ends before they are used. `AloneIsExact` has the premise that calls do not overlap, and needs it.
* `enableSystemTelemetry()` takes 8 bits of flags that have 10. README.md says the header has 19 bytes, the ports write 18.
* The receiver never checks the CRC. Of the advanced telemetry it decodes a number as if it were text, which raises an
  exception, so it is never shown. When its IPv6 socket is made by half, the message says that only Thread devices are
  not received, but the service is not registered anew either.
* On Zephyr a work item's status line leaves self-made drops out of its total, and one whose send fails causes the next.
  A message mirrored to the serial log goes out twice, for the log backend sends it too. `send_message`'s check for an
  over-long message is unreachable.

## 6. Plan

What would add most, in this order:

1. the core dump check, with resets between report and erasure;
2. `Receiver` composed with a device's discovery, so that the window in which the service is withdrawn meets the device's
   backoff (`Receiver!OnSchedule` bounds the one, `BeliefAgrees` the other);
3. what each port encodes of its telemetry and what the receiver decodes, over bounded inputs.
