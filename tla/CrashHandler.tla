---------------------------- MODULE CrashHandler ----------------------------
(***************************************************************************)
(* Crash logging in the Arduino library: src/ESPCrashHandler.cpp keeps one *)
(* record and a counter in RTC memory, and src/ESPIoTLog.cpp installs the  *)
(* handler and logs what an earlier boot left there.  The device may reset *)
(* between any two steps, and within the one that writes the record.       *)
(*                                                                         *)
(* An incident is a crash, or a condition the sketch reports itself, by    *)
(* logCrash() or recordCrash(); incidents are numbered as they happen.  Of *)
(* a record's bytes only three things are told apart: whether the magic is *)
(* there, whether the checksum is right, and which incident it is about    *)
(* (0: none).  Noise is taken to fail the 32 bit magic, and a record cut   *)
(* short by a reset to fail the checksum.  On the ESP8266 a read of the    *)
(* RTC memory may fail, which the code looks at; a write is taken for      *)
(* granted there, and here.  install() and uninstall() are called through  *)
(* enableCrashLogging() alone, as everywhere in the repository.            *)
(***************************************************************************)
EXTENDS Integers

CONSTANTS
    Platforms,     \* the ports to look at, among "ESP32" and "ESP8266"
    CountWrap,     \* the counter's values are 0 .. CountWrap - 1 (a uint32_t)
    ColdCounts,    \* what the ESP8266's counter may show after power-on
    MaxIncidents,  \* bound: incidents
    MaxOffs        \* bound: calls of enableCrashLogging(false)

ASSUME CrashAssumption ==
    /\ Platforms \subseteq {"ESP32", "ESP8266"}
    /\ CountWrap \in Nat /\ CountWrap > 1
    /\ ColdCounts \subseteq 0 .. CountWrap - 1
    /\ MaxIncidents \in Nat /\ MaxOffs \in Nat

VARIABLES
    platform,
    \* RTC memory
    record,        \* rtc_crash_data
    count,         \* rtc_crash_count
    \* RAM
    initialized,
    enabled,       \* _crash_logging_enabled
    installed,     \* ESPCrashHandler::_installed
    pc,            \* where the sketch is
    about,         \* the incident that recordCrash() is called for
    cause,         \* esp_reset_reason(): the crash this boot is due to, or 0
    \* history
    incidents,     \* how many there were
    settled,       \* those that were logged, or cleared by the sketch
    unread,        \* those whose record checkAndLogCrashes() could not read
    done,          \* those whose record it has cleared
    offs,          \* calls of enableCrashLogging(false)
    cold,          \* what the counter showed at the last power-on
    due            \* how often it had reason to count since

rtc     == <<record, count>>
ram     == <<initialized, enabled, installed>>
logs    == <<settled, unread, done>>
tally   == <<offs, cold, due>>
history == <<incidents, logs, tally>>
vars    == <<platform, rtc, ram, pc, about, cause, history>>

\* memset, and the initial value of rtc_crash_data: the sum of no bytes is 0.
Empty == [magic |-> FALSE, sum |-> TRUE, of |-> 0]

\* What the ESP8266's memory holds after power-on, and a write cut short.
Noise == [magic |-> FALSE, sum |-> FALSE, of |-> 0]
Torn  == [magic |-> TRUE, sum |-> FALSE, of |-> 0]

\* Variant: the checksum is not looked at.
ValidMagic(data) == data.magic

\* validateCrashData
Valid(data) == data.magic /\ data.sum

\* system_rtc_mem_read() may return an error; the ESP32 just reads a variable.
ReadMayFail == platform = "ESP8266"

At(place) == pc = place
Goto(place) == pc' = place

(***************************************************************************)
(* recordCrash(incident).  The place tells on whose behalf it runs.        *)
(***************************************************************************)
Call(incident, place) == about' = incident /\ Goto(place)

Recording == {"installing", "reporting", "callback"}
Counting  == {"installed", "reported", "recorded"}

\* storeCrashData
Store ==
    /\ pc \in Recording
    /\ record' = [magic |-> TRUE, sum |-> TRUE, of |-> about]
    /\ Goto(CASE pc = "installing" -> "installed"
              [] pc = "reporting"  -> "reported"
              [] pc = "callback"   -> "recorded")
    /\ UNCHANGED <<platform, count, ram, about, cause, history>>

Up(n) == IF n + 1 = CountWrap THEN 0 ELSE n + 1

\* Only after that is the crash counted; a counter that cannot be read passes for 0.
Increment ==
    /\ pc \in Counting
    /\ \/ count' = Up(count)
       \/ ReadMayFail /\ count' = Up(0)
    /\ installed' = (installed \/ pc = "installed")
    /\ Goto(IF pc = "recorded" THEN "resetting" ELSE "run")
    /\ UNCHANGED <<platform, record, initialized, enabled, about, cause, history>>

(***************************************************************************)
(* The sketch's calls.                                                     *)
(***************************************************************************)
\* begin() ends with checkAndLogCrashes().
Begin ==
    /\ At("run") /\ ~initialized
    /\ initialized' = TRUE /\ Goto("check")
    /\ UNCHANGED <<platform, rtc, enabled, installed, about, cause, history>>

EndLog ==
    /\ At("run") /\ initialized
    /\ initialized' = FALSE
    /\ UNCHANGED <<platform, rtc, enabled, installed, pc, about, cause, history>>

\* Variant: install() does not look whether it is installed.
InstallAgain ==
    /\ At("run")
    /\ enabled' = TRUE
    /\ IF cause # 0
       THEN Call(cause, "installing") /\ UNCHANGED installed
       ELSE installed' = TRUE /\ UNCHANGED <<pc, about>>
    /\ UNCHANGED <<platform, rtc, initialized, cause, history>>

\* Variant: install() leaves a record that is there alone.
InstallIfNone ==
    /\ At("run")
    /\ enabled' = TRUE
    /\ IF ~installed /\ cause # 0 /\ ~Valid(record)
       THEN Call(cause, "installing") /\ UNCHANGED installed
       ELSE installed' = TRUE /\ UNCHANGED <<pc, about>>
    /\ UNCHANGED <<platform, rtc, initialized, cause, history>>

\* enableCrashLogging(true): install() asks for the reset reason, and if this
\* boot is due to a crash records it, over what may be in the memory.
Install ==
    /\ At("run")
    /\ enabled' = TRUE
    /\ IF ~installed /\ cause # 0
       THEN Call(cause, "installing") /\ UNCHANGED installed
       ELSE installed' = TRUE /\ UNCHANGED <<pc, about>>
    /\ UNCHANGED <<platform, rtc, initialized, cause, history>>

\* Variant: the handler stays installed.
UninstallNot ==
    /\ At("run") /\ offs < MaxOffs
    /\ enabled' = FALSE
    /\ offs' = offs + 1 /\ due' = due + 1 /\ done' = done \ {cause}
    /\ UNCHANGED <<platform, rtc, initialized, installed, pc, about, cause>>
    /\ UNCHANGED <<incidents, settled, unread, cold>>

\* enableCrashLogging(false).  From here on the crash behind this boot may be
\* recorded and counted once more.
Uninstall ==
    /\ At("run") /\ offs < MaxOffs
    /\ enabled' = FALSE /\ installed' = FALSE
    /\ offs' = offs + 1 /\ due' = due + 1 /\ done' = done \ {cause}
    /\ UNCHANGED <<platform, rtc, initialized, pc, about, cause>>
    /\ UNCHANGED <<incidents, settled, unread, cold>>

CallCheck ==
    /\ At("run") /\ Goto("check")
    /\ UNCHANGED <<platform, rtc, ram, about, cause, history>>

\* Variant: the record is cleared although it is not going to be logged.
CheckAndClear ==
    /\ At("check")
    /\ Goto(IF initialized /\ enabled /\ Valid(record) THEN "get" ELSE "clear")
    /\ UNCHANGED <<platform, rtc, ram, about, cause, history>>

\* checkAndLogCrashes(): hasCrashData() ...
Check ==
    /\ At("check")
    /\ \/ initialized /\ enabled /\ Valid(record) /\ Goto("get")
       \/ ~(initialized /\ enabled /\ Valid(record)) /\ Goto("run")
       \/ ReadMayFail /\ Goto("run")
    /\ UNCHANGED <<platform, rtc, ram, about, cause, history>>

\* ... getCrashData(), which reads again: log the record, and send it if there is
\* a listener.  If this read fails the record is not logged, but cleared as well.
Get ==
    /\ At("get") /\ Goto("clear")
    /\ \/ /\ Valid(record)
          /\ settled' = settled \cup {record.of} /\ UNCHANGED unread
       \/ /\ ReadMayFail \/ ~Valid(record)
          /\ unread' = unread \cup {record.of} /\ UNCHANGED settled
    /\ UNCHANGED <<platform, rtc, ram, about, cause, incidents, done, tally>>

\* Variant: it forgets to clear.
ClearNot ==
    /\ At("clear") /\ Goto("run")
    /\ done' = done \cup {record.of}
    /\ UNCHANGED <<platform, rtc, ram, about, cause, incidents, settled, unread, tally>>

\* ... and then clear it.
Clear ==
    /\ At("clear") /\ Goto("run")
    /\ record' = Empty
    /\ done' = done \cup {record.of}
    /\ UNCHANGED <<platform, count, ram, about, cause, incidents, settled, unread, tally>>

\* Something the sketch reports is about to be recorded.
Report ==
    /\ incidents < MaxIncidents /\ incidents' = incidents + 1 /\ due' = due + 1
    /\ Call(incidents + 1, "reporting")
    /\ UNCHANGED <<platform, rtc, ram, cause, logs, offs, cold>>

LogCrash == At("run") /\ initialized /\ enabled /\ Report

\* ESPCrashHandler::recordCrash() looks neither at the log nor at the handler.
RecordCrash == At("run") /\ Report

\* clearCrashData() and resetCrashCount(), as the sketch may call them.
ClearCrashData ==
    /\ At("run")
    /\ record' = Empty
    /\ settled' = IF Valid(record) THEN settled \cup {record.of} ELSE settled
    /\ UNCHANGED <<platform, count, ram, pc, about, cause, incidents, unread, done, tally>>

ResetCrashCount ==
    /\ At("run")
    /\ count' = 0
    /\ UNCHANGED <<platform, record, ram, pc, about, cause, history>>

(***************************************************************************)
(* Resets.                                                                 *)
(***************************************************************************)
\* RAM starts afresh.
Boot(crash) ==
    /\ initialized' = FALSE
    /\ enabled' = FALSE /\ installed' = FALSE
    /\ Goto("run") /\ about' = 0 /\ cause' = crash
    /\ UNCHANGED <<platform, logs, offs>>

\* The record when something strikes: a write under way may be cut short.
Struck ==
    \/ pc \in Recording /\ record' = Torn
    \/ UNCHANGED record

\* A reset that leaves the supply on.  Whether a RTC_DATA_ATTR variable then keeps
\* its value or gets its initial one is up to the loader of the ESP32.
WarmMemory ==
    \/ Struck /\ UNCHANGED count
    \/ platform = "ESP32" /\ record' = Empty /\ count' = 0

\* The core of the ESP8266 calls custom_crash_callback() for an exception or
\* the software watchdog, whether or not the handler is installed.
CrashWithCallback ==
    /\ platform = "ESP8266" /\ pc \notin {"callback", "recorded", "resetting"}
    /\ incidents < MaxIncidents /\ incidents' = incidents + 1 /\ due' = due + 1
    /\ Call(incidents + 1, "callback")
    /\ Struck
    /\ UNCHANGED <<platform, count, ram, cause, logs, offs, cold>>

\* The callback has counted this crash, and install() is going to once more.
ResetAfterCallback ==
    /\ At("resetting")
    /\ WarmMemory /\ Boot(about)
    /\ due' = due + 1 /\ UNCHANGED <<incidents, cold>>

\* A panic on the ESP32, the hardware watchdog on either.
Crash ==
    /\ incidents < MaxIncidents /\ incidents' = incidents + 1 /\ due' = due + 1
    /\ WarmMemory /\ Boot(incidents + 1)
    /\ UNCHANGED cold

\* A restart that install() takes for no crash: by the sketch, the reset pin, or
\* on the ESP32 a brownout.
Restart ==
    /\ WarmMemory /\ Boot(0)
    /\ UNCHANGED <<incidents, cold, due>>

PowerCycle ==
    /\ IF platform = "ESP32"
       THEN record' = Empty /\ count' = 0
       ELSE record' = Noise /\ count' \in ColdCounts
    /\ cold' = count' /\ due' = 0
    /\ Boot(0)
    /\ UNCHANGED incidents

Init ==
    /\ platform \in Platforms
    /\ IF platform = "ESP32"
       THEN record = Empty /\ count = 0
       ELSE record = Noise /\ count \in ColdCounts
    /\ initialized = FALSE
    /\ enabled = FALSE /\ installed = FALSE
    /\ pc = "run" /\ about = 0 /\ cause = 0
    /\ incidents = 0 /\ settled = {} /\ unread = {} /\ done = {} /\ offs = 0
    /\ cold = count /\ due = 0

Sketch ==
    \/ Begin \/ EndLog \/ Install \/ Uninstall \/ LogCrash \/ RecordCrash
    \/ CallCheck \/ Check \/ Get \/ Clear \/ ClearCrashData \/ ResetCrashCount
    \/ Store \/ Increment

Reset == CrashWithCallback \/ ResetAfterCallback \/ Crash \/ Restart \/ PowerCycle

Next == Sketch \/ Reset

Spec == Init /\ [][Next]_vars

(***************************************************************************)
(* Properties.                                                             *)
(***************************************************************************)
Incidents == 0 .. MaxIncidents

\* The code is where it can be, and but for the call of enableCrashLogging(true)
\* under way the handler is installed just while logging is on.
TypeOK ==
    /\ platform \in Platforms
    /\ record \in [magic : BOOLEAN, sum : BOOLEAN, of : Incidents]
    /\ count \in 0 .. CountWrap - 1 /\ cold \in 0 .. CountWrap - 1
    /\ initialized \in BOOLEAN /\ enabled \in BOOLEAN /\ installed \in BOOLEAN
    /\ pc \in {"run", "check", "get", "clear", "resetting"} \cup Recording \cup Counting
    /\ pc \in {"run", "check", "get", "clear"} => enabled = installed
    /\ about \in Incidents /\ cause \in Incidents /\ incidents \in Incidents
    /\ settled \subseteq Incidents /\ unread \subseteq Incidents /\ done \subseteq Incidents
    /\ offs \in 0 .. MaxOffs /\ due \in Nat

\* "Crash data survives warm resets" (README.md:21): what checkAndLogCrashes()
\* logs happened; noise, or a record a reset has cut short, is never logged.
OnlyIncidents == settled \subseteq 1 .. incidents

\* Of incident n, or of one after it, there is a record, or was one that has been
\* logged or could not be read.
Known(n) ==
    \/ Valid(record) /\ record.of >= n
    \/ \E m \in settled \cup unread : m >= n

\* With logging on, the crash that this boot is due to has been recorded by
\* install() or the callback, or its place was taken by a later report.
NothingForgotten == At("run") /\ installed /\ cause # 0 => Known(cause)

\* Supply lost, or on the ESP32 a reset whose loader initialises the variables.
MemoryLost ==
    /\ ~Valid(record)'
    /\ pc' = "run" /\ ~initialized' /\ ~enabled' /\ ~installed'
    /\ \/ platform = "ESP32" /\ record' = Empty
       \/ record' = Noise

\* A record that was not logged goes away in four ways only: another is written
\* over it, be it cut short by a reset; its memory is lost; checkAndLogCrashes()
\* could not read it; the sketch clears it (which settles it).
NothingLost ==
    [][Valid(record) /\ record' # record =>
          \/ record.of \in settled' \cup unread'
          \/ pc \in Recording
          \/ MemoryLost]_vars

\* A crash whose record checkAndLogCrashes() has cleared is not logged again, in
\* this boot or a later one; but for the one behind this boot, when logging was
\* turned off in between.
LoggedOnce ==
    [][At("get") /\ pc' = "clear" => record.of \notin done]_vars

\* "Count and categorize crash types over time" (README.md:23): since power-on the
\* counter has risen by no more than it had reason to (due): once for each
\* incident, once more for a crash whose callback had counted it before the reset,
\* and once for each time logging was turned off.
CountBounded == count <= cold + due
=============================================================================
