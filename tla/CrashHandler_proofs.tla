------------------------ MODULE CrashHandler_proofs ------------------------
(***************************************************************************)
(* Proofs about CrashHandler, for either platform, any number of incidents *)
(* and any interleaving of the sketch's calls with resets: what is logged  *)
(* happened, the crash behind a boot is recorded, a record goes unlogged   *)
(* in the ways named in NothingLost only, what was cleared is not logged   *)
(* again, and the counter is bounded.                                      *)
(*                                                                         *)
(* They need to know, at every place a reset may strike, what the record   *)
(* is about, what is going to be recorded, and how both relate to the      *)
(* crash behind this boot.  The counter needs to know which increments are *)
(* still to come (Owed).                                                   *)
(***************************************************************************)
EXTENDS CrashHandler, TLAPS

USE CrashAssumption DEF CrashAssumption

\* The parts of TypeOK.
Memory ==
    /\ platform \in Platforms
    /\ record \in [magic : BOOLEAN, sum : BOOLEAN, of : Incidents]
    /\ count \in 0 .. CountWrap - 1 /\ cold \in 0 .. CountWrap - 1

Flags == initialized \in BOOLEAN /\ enabled \in BOOLEAN /\ installed \in BOOLEAN

Quiet  == {"run", "check", "get", "clear"}
Places == Quiet \cup {"resetting"} \cup Recording \cup Counting

Callback == {"callback", "recorded", "resetting"}

Place ==
    /\ pc \in Places
    /\ pc \in Quiet \cup {"reporting", "reported"} => (enabled <=> installed)

History ==
    /\ incidents \in Incidents /\ about \in 0 .. incidents /\ cause \in 0 .. incidents
    /\ settled \subseteq 1 .. incidents /\ unread \subseteq 1 .. incidents
    /\ done \subseteq 1 .. incidents
    /\ offs \in 0 .. MaxOffs /\ due \in Nat

\* A whole record is about an incident.
Whole == Valid(record) => record.of \in 1 .. incidents

\* What is being recorded: the crash behind this boot by install(), which has
\* not been installed yet, or else the newest incident.
About ==
    /\ pc \in Recording \cup Counting \cup {"resetting"} => about >= 1
    /\ pc \in {"installing", "installed"} => about = cause /\ enabled /\ ~installed
    /\ pc = "installed" => Valid(record) /\ record.of = about
    /\ pc \in Callback \cup {"reporting", "reported"} => about = incidents

\* The record that was found is still there to be read, logged and cleared.
Clearing ==
    /\ pc \in {"get", "clear"} => Valid(record) /\ installed
    /\ pc = "clear" => record.of \in settled \cup unread

\* What has been cleared is not in the record, and nobody is going to record it
\* again.
NotDone ==
    /\ Valid(record) => record.of \notin done
    /\ ~installed /\ pc \notin Callback => cause \notin done
    /\ pc \in Recording \cup Counting \cup {"resetting"} => about \notin done

\* NothingForgotten, also within the calls of the sketch.
Kept == pc \notin Callback /\ installed /\ cause # 0 => Known(cause)

IInv ==
    /\ Memory /\ Flags /\ Place /\ History /\ Whole /\ About /\ Clearing
    /\ NotDone /\ Kept

\* The parts make up the type invariant.
LEMMA TypeParts ==
  ASSUME Memory, Flags, Place, History
  PROVE  TypeOK
<1>1. about \in Incidents /\ cause \in Incidents /\ incidents \in Incidents
  BY DEF History, Incidents
<1>2. settled \subseteq Incidents /\ unread \subseteq Incidents /\ done \subseteq Incidents
  BY DEF History, Incidents
<1>3. offs \in 0 .. MaxOffs /\ due \in Nat
  BY DEF History
<1>4. pc \in Places /\ (pc \in Quiet => enabled = installed)
  BY DEF Place, Flags
<1> QED
  BY <1>1, <1>2, <1>3, <1>4 DEF TypeOK, Memory, Flags, Places, Quiet

\* The strengthened invariant holds when the device is first switched on.
LEMMA InitInv == Init => IInv
<1> SUFFICES ASSUME Init PROVE IInv
  OBVIOUS
<1>1. /\ record \in {Empty, Noise}
      /\ count \in ColdCounts \cup {0} /\ cold = count /\ platform \in Platforms
  BY DEF Init
<1>2. ~Valid(record) /\ record \in [magic : BOOLEAN, sum : BOOLEAN, of : Incidents]
  <2>1. ~Valid(record)
    BY <1>1 DEF Valid, Empty, Noise
  <2>2. record \in [magic : BOOLEAN, sum : BOOLEAN, of : Incidents]
    <3>1. Empty \in [magic : BOOLEAN, sum : BOOLEAN, of : Incidents]
      BY DEF Empty, Incidents
    <3>2. Noise \in [magic : BOOLEAN, sum : BOOLEAN, of : Incidents]
      BY DEF Noise, Incidents
    <3> QED
      BY <1>1, <3>1, <3>2
  <2> QED
    BY <2>1, <2>2
<1>3. count \in 0 .. CountWrap - 1
  BY <1>1
<1>4. Flags /\ Place
  BY DEF Init, Flags, Place, Places, Quiet
<1>5. History
  BY DEF Init, History, Incidents
<1>6. Memory /\ Whole
  BY <1>1, <1>2, <1>3 DEF Memory, Whole
<1>7. About /\ Clearing /\ NotDone /\ Kept
  BY <1>2 DEF Init, About, Clearing, NotDone, Kept, Recording, Counting, Callback
<1> QED
  BY <1>4, <1>5, <1>6, <1>7 DEF IInv

-----------------------------------------------------------------------------
(***************************************************************************)
(* What a reset does, whichever it is.                                     *)
(***************************************************************************)

\* The record comes through, or what there is now is not valid.
Survives == UNCHANGED record \/ ~Valid(record)'

\* The crash behind the new boot: none, a new one, or the one the callback ran for.
Due ==
    \/ cause' = 0 /\ UNCHANGED incidents
    \/ incidents < MaxIncidents /\ incidents' = incidents + 1 /\ cause' = incidents + 1
    \/ pc = "resetting" /\ cause' = about /\ UNCHANGED incidents

Booted ==
    /\ Survives /\ Due
    /\ pc' = "run" /\ about' = 0 /\ UNCHANGED <<logs, offs>>
    /\ ~enabled' /\ ~installed' /\ due' \in {due, due + 1, 0}

Reports == LogCrash \/ RecordCrash

Boots == ResetAfterCallback \/ Crash \/ Restart \/ PowerCycle

\* A write cut short leaves no valid record.
LEMMA StruckSurvives == Struck => Survives
  BY DEF Struck, Survives, Valid, Torn

\* A reset that leaves the supply on keeps the record, or there is no valid one.
LEMMA WarmSurvives == WarmMemory => Survives
  BY StruckSurvives DEF WarmMemory, Survives, Valid, Empty

\* The four ways to boot differ in no more than Booted says.
LEMMA BootsBooted ==
  ASSUME Boots
  PROVE  Booted
<1>1. CASE ResetAfterCallback
  BY <1>1, WarmSurvives DEF ResetAfterCallback, Boot, Goto, At, Booted, Due
<1>2. CASE Crash
  BY <1>2, WarmSurvives DEF Crash, Boot, Goto, Booted, Due
<1>3. CASE Restart
  BY <1>3, WarmSurvives DEF Restart, Boot, Goto, Booted, Due
<1>4. CASE PowerCycle
  <2>1. ~Valid(record)'
    BY <1>4 DEF PowerCycle, Valid, Empty, Noise
  <2> QED
    BY <1>4, <2>1 DEF PowerCycle, Boot, Goto, Booted, Due, Survives
<1> QED
  BY <1>1, <1>2, <1>3, <1>4 DEF Boots

-----------------------------------------------------------------------------
(***************************************************************************)
(* Steps preserve each part.                                               *)
(***************************************************************************)

\* What a report of the sketch does, by whichever call.
LEMMA Reported ==
  ASSUME Reports
  PROVE  /\ pc = "run" /\ pc' = "reporting"
         /\ incidents < MaxIncidents /\ incidents' = incidents + 1 /\ about' = incidents + 1
         /\ due' = due + 1
         /\ UNCHANGED <<platform, record, count, initialized, enabled, installed, cause,
                        settled, unread, done, offs, cold>>
  BY DEF Reports, LogCrash, RecordCrash, Report, Call, Goto, At, rtc, ram, logs

\* Only storeCrashData() makes a record that is valid.
LEMMA RecordStep ==
  ASSUME [Next]_vars
  PROVE  Store \/ UNCHANGED record \/ ~Valid(record)'
<1>1. CASE Clear \/ ClearCrashData
  BY <1>1 DEF Clear, ClearCrashData, Empty, Valid
<1>2. CASE CrashWithCallback
  BY <1>2, StruckSurvives DEF CrashWithCallback, Survives
<1>3. CASE Boots
  BY <1>3, BootsBooted DEF Booted, Survives
<1>4. CASE Begin \/ EndLog \/ Install \/ Uninstall \/ CallCheck
  BY <1>4 DEF rtc, Begin, EndLog, Install, Uninstall, CallCheck
<1>5. CASE Check \/ Get \/ ResetCrashCount \/ Increment \/ UNCHANGED vars
  BY <1>5 DEF rtc, vars, Check, Get, ResetCrashCount, Increment
<1>6. CASE Reports
  BY <1>6, Reported
<1> QED
  BY <1>1, <1>2, <1>3, <1>4, <1>5, <1>6 DEF Next, Sketch, Reset, Boots, Reports

\* Steps keep the RTC memory in its type.
LEMMA MemoryStep ==
  ASSUME Memory, History, [Next]_vars
  PROVE  Memory'
<1>1. platform' = platform
  BY DEF Next, Sketch, Reset, vars, Begin, EndLog, Install, Uninstall, LogCrash, RecordCrash, Report,
         CallCheck, Check, Get, Clear, ClearCrashData, ResetCrashCount, Store, Increment, CrashWithCallback,
         ResetAfterCallback, Crash, Restart, PowerCycle, Boot
<1>2. count' \in 0 .. CountWrap - 1 /\ cold' \in 0 .. CountWrap - 1
  <2>0. count \in 0 .. CountWrap - 1 /\ cold \in 0 .. CountWrap - 1
    BY DEF Memory
  <2>1. CASE Increment
    <3>1. count' \in {Up(count), Up(0)} /\ cold' = cold
      BY <2>1 DEF Increment, history, tally
    <3>2. Up(count) \in 0 .. CountWrap - 1 /\ Up(0) \in 0 .. CountWrap - 1
      BY <2>0 DEF Up
    <3> QED
      BY <2>0, <3>1, <3>2
  <2>2. CASE Sketch /\ ~Increment
    <3>1. count' \in {count, 0}
      BY <2>2 DEF Sketch, rtc, Begin, EndLog, Install, Uninstall, LogCrash, RecordCrash, Report,
         CallCheck, Check, Get, Clear, ClearCrashData, ResetCrashCount, Store
    <3>2. cold' = cold
      BY <2>2 DEF Sketch, history, tally, Begin, EndLog, Install, Uninstall, LogCrash,
         RecordCrash, Report, CallCheck, Check, Get, Clear, ClearCrashData, ResetCrashCount, Store
    <3> QED
      BY <2>0, <3>1, <3>2
  <2>3. CASE Reset
    <3>1. count' \in {count, 0} \cup ColdCounts
      BY <2>3 DEF Reset, CrashWithCallback, WarmMemory,
         ResetAfterCallback, Crash, Restart, PowerCycle
    <3>2. cold' \in {cold, count'}
      BY <2>3 DEF Reset, CrashWithCallback, ResetAfterCallback, Crash, Restart, PowerCycle
    <3> QED
      BY <2>0, <3>1, <3>2
  <2>4. CASE UNCHANGED vars
    BY <2>4 DEF vars, rtc, history, tally, Memory
  <2> QED
    BY <2>1, <2>2, <2>3, <2>4 DEF Next
<1>3. record' \in [magic : BOOLEAN, sum : BOOLEAN, of : Incidents]
  <2>1. Empty \in [magic : BOOLEAN, sum : BOOLEAN, of : Incidents]
    BY DEF Empty, Incidents
  <2>2. Torn \in [magic : BOOLEAN, sum : BOOLEAN, of : Incidents]
    BY DEF Torn, Incidents
  <2>3. Noise \in [magic : BOOLEAN, sum : BOOLEAN, of : Incidents]
    BY DEF Noise, Incidents
  <2>4. CASE Store
    <3>1. about \in Incidents
      BY DEF History, Incidents
    <3> QED
      BY <2>4, <3>1 DEF Store
  <2>5. record' \in {record, Empty, Torn, Noise} \/ Store
    <3>1. CASE Sketch
      BY <3>1 DEF Sketch, rtc, Begin, EndLog, Install, Uninstall, LogCrash, RecordCrash, Report,
         CallCheck, Check, Get, Clear, ClearCrashData, ResetCrashCount, Increment
    <3>2. CASE Reset
      BY <3>2 DEF Reset, CrashWithCallback, WarmMemory, Struck,
         ResetAfterCallback, Crash, Restart, PowerCycle
    <3>3. CASE UNCHANGED vars
      BY <3>3 DEF vars, rtc
    <3> QED
      BY <3>1, <3>2, <3>3 DEF Next
  <2> QED
    BY <2>1, <2>2, <2>3, <2>4, <2>5 DEF Memory
<1> QED
  BY <1>1, <1>2, <1>3 DEF Memory, Incidents

\* Steps keep the flags in theirs.
LEMMA FlagsStep ==
  ASSUME Flags, [Next]_vars
  PROVE  Flags'
<1>1. CASE Sketch
  BY <1>1 DEF Flags, Sketch, ram, Begin, EndLog, Install, Uninstall, LogCrash, RecordCrash, Report,
         CallCheck, Check, Get, Clear, ClearCrashData, ResetCrashCount, Store, Increment
<1>2. CASE Reset
  BY <1>2 DEF Flags, ram, Reset, CrashWithCallback, ResetAfterCallback, Crash, Restart,
         PowerCycle, Boot
<1>3. CASE UNCHANGED vars
  BY <1>3 DEF Flags, vars, ram
<1> QED
  BY <1>1, <1>2, <1>3 DEF Next

\* Calls return to where they were made, with handler and flag in agreement.
LEMMA PlaceStep ==
  ASSUME Flags, Place, About, [Next]_vars
  PROVE  Place'
<1> USE DEF Quiet
<1>1. CASE Install
  BY <1>1 DEF Install, Call, Goto, At, Place, Places, Recording, Flags
<1>2. CASE Store
  BY <1>2 DEF Store, Goto, ram, Place, Places, Recording, Counting
<1>3. CASE Increment
  <2>1. UNCHANGED enabled /\ pc' \in {"run", "resetting"}
    BY <1>3 DEF Increment, Goto
  <2>2. CASE pc = "installed"
    <3>1. enabled /\ installed'
      BY <1>3, <2>2 DEF Increment, About
    <3> QED
      BY <2>1, <3>1 DEF Place, Places
  <2>3. CASE pc = "reported"
    <3>1. installed' <=> installed
      BY <1>3, <2>3 DEF Increment
    <3> QED
      BY <2>1, <2>3, <3>1 DEF Place, Places
  <2>4. CASE pc = "recorded"
    <3>1. pc' = "resetting"
      BY <1>3, <2>4 DEF Increment, Goto
    <3> QED
      BY <3>1 DEF Place, Places
  <2> QED
    BY <1>3, <2>2, <2>3, <2>4 DEF Increment, Counting
<1>4. CASE Begin \/ EndLog \/ CallCheck \/ Check \/ Get \/ Clear
  BY <1>4 DEF Begin, EndLog, CallCheck, Check, Get, Clear, Goto, At, ram, Place, Places
<1>5. CASE Uninstall \/ ClearCrashData \/ ResetCrashCount
  BY <1>5 DEF Uninstall, ClearCrashData, ResetCrashCount, At, ram, Place, Places
<1>6. CASE Reports
  <2>1. pc = "run" /\ pc' = "reporting" /\ UNCHANGED <<enabled, installed>>
    BY <1>6, Reported
  <2> QED
    BY <2>1 DEF Place, Places, Recording
<1>7. CASE CrashWithCallback
  BY <1>7 DEF CrashWithCallback, Call, Goto, Place, Places, Recording
<1>8. CASE Boots
  BY <1>8, BootsBooted DEF Booted, Place, Places
<1>9. CASE UNCHANGED vars
  BY <1>9 DEF vars, ram, Place
<1> QED
  BY <1>1, <1>2, <1>3, <1>4, <1>5, <1>6, <1>7, <1>8, <1>9
  DEF Next, Sketch, Reset, Boots, Reports

\* What is logged, recorded or behind a boot is an incident that happened.
LEMMA HistoryStep ==
  ASSUME History, Whole, Clearing, [Next]_vars
  PROVE  History'
<1> USE DEF History, Incidents
<1>1. CASE Install
  BY <1>1 DEF Install, Call, Goto, history, logs, tally
<1>2. CASE Store \/ Increment \/ Begin \/ EndLog \/ CallCheck \/ Check \/ ResetCrashCount
  BY <1>2 DEF Store, Increment, Begin, EndLog, CallCheck, Check, ResetCrashCount, history,
     logs, tally
<1>3. CASE Get
  <2>1. settled' \subseteq settled \cup {record.of} /\ unread' \subseteq unread \cup {record.of}
    BY <1>3 DEF Get
  <2>2. record.of \in 1 .. incidents
    BY <1>3 DEF Get, At, Clearing, Whole
  <2> QED
    BY <1>3, <2>1, <2>2 DEF Get, tally
<1>4. CASE ClearCrashData
  <2>1. settled' \subseteq settled \cup (IF Valid(record) THEN {record.of} ELSE {})
    BY <1>4 DEF ClearCrashData
  <2>2. settled' \subseteq 1 .. incidents
    BY <2>1 DEF Whole
  <2> QED
    BY <1>4, <2>2 DEF ClearCrashData, tally
<1>5. CASE Clear
  <2>1. done' \subseteq 1 .. incidents
    BY <1>5 DEF Clear, At, Clearing, Whole
  <2> QED
    BY <1>5, <2>1 DEF Clear, tally
<1>6. CASE Uninstall
  <2>1. /\ UNCHANGED <<incidents, about, cause, settled, unread>>
        /\ done' \subseteq done /\ offs < MaxOffs /\ offs' = offs + 1 /\ due' = due + 1
    BY <1>6 DEF Uninstall
  <2>2. offs' \in 0 .. MaxOffs /\ due' \in Nat
    BY <2>1
  <2> QED
    BY <2>1, <2>2
<1>7. CASE Reports
  <2>1. /\ incidents' \in Incidents /\ about' \in 0 .. incidents' /\ cause' \in 0 .. incidents'
        /\ due' \in Nat /\ incidents \in Nat /\ incidents' = incidents + 1
    BY <1>7, Reported
  <2>2. 1 .. incidents \subseteq 1 .. incidents'
    BY <2>1
  <2> QED
    BY <1>7, Reported, <2>1, <2>2
<1>8. CASE CrashWithCallback
  BY <1>8 DEF CrashWithCallback, Call, logs
<1>9. CASE Boots
  <2>1. about' = 0 /\ UNCHANGED <<settled, unread, done, offs>> /\ Due /\ due' \in Nat
    BY <1>9, BootsBooted DEF Booted, logs
  <2>2. /\ incidents' \in Nat /\ incidents' >= incidents /\ incidents' <= MaxIncidents
        /\ cause' \in 0 .. incidents'
    BY <2>1 DEF Due
  <2> QED
    BY <2>1, <2>2
<1>10. CASE UNCHANGED vars
  BY <1>10 DEF vars, history, logs, tally
<1> QED
  BY <1>1, <1>2, <1>3, <1>4, <1>5, <1>6, <1>7, <1>8, <1>9, <1>10
  DEF Next, Sketch, Reset, Boots, Reports

\* A valid record is about an incident: only storeCrashData() makes one.
LEMMA WholeStep ==
  ASSUME Whole, History, About, [Next]_vars
  PROVE  Whole'
<1>1. incidents \in Nat /\ (incidents' = incidents \/ incidents' = incidents + 1)
  <2>1. CASE Sketch
    BY <2>1 DEF Sketch, history, logs, tally, Begin, EndLog, Install, Uninstall, LogCrash, RecordCrash, Report,
         CallCheck, Check, Get, Clear, ClearCrashData, ResetCrashCount, Store, Increment, History, Incidents
  <2>2. CASE CrashWithCallback
    BY <2>2 DEF CrashWithCallback, History, Incidents
  <2>3. CASE Boots
    BY <2>3, BootsBooted DEF Booted, Due, History, Incidents
  <2>4. CASE UNCHANGED vars
    BY <2>4 DEF vars, history, History, Incidents
  <2> QED
    BY <2>1, <2>2, <2>3, <2>4 DEF Next, Reset, Boots
<1>2. CASE Store
  <2>1. about \in 1 .. incidents /\ record'.of = about /\ incidents' = incidents
    BY <1>2 DEF Store, history, About, History, Incidents
  <2> QED
    BY <2>1 DEF Whole
<1>3. CASE UNCHANGED record
  BY <1>1, <1>3 DEF Whole, Valid
<1>4. CASE ~Valid(record)'
  BY <1>4 DEF Whole
<1>5. Store \/ UNCHANGED record \/ ~Valid(record)'
  BY RecordStep
<1> QED
  BY <1>2, <1>3, <1>4, <1>5

\* recordCrash() is called for the crash behind the boot, once, or the newest incident.
LEMMA AboutStep ==
  ASSUME Flags, Place, History, About, [Next]_vars
  PROVE  About'
<1> USE DEF Recording, Counting, Callback
<1>1. CASE Install
  <2>1. CASE ~installed /\ cause # 0
    <3>1. /\ pc' = "installing" /\ about' = cause /\ cause' = cause /\ enabled'
          /\ ~installed' /\ cause \in Nat
      BY <1>1, <2>1 DEF Install, Call, Goto, Flags, History
    <3> QED
      BY <3>1, <2>1 DEF About
  <2>2. CASE ~(~installed /\ cause # 0)
    BY <1>1, <2>2 DEF Install, At, About
  <2> QED
    BY <2>1, <2>2
<1>2. CASE Store
  <2>1. /\ UNCHANGED <<about, cause, incidents, enabled, installed>>
        /\ Valid(record)' /\ record'.of = about
    BY <1>2 DEF Store, ram, history, Valid
  <2>2. \/ pc = "installing" /\ pc' = "installed"
        \/ pc = "reporting" /\ pc' = "reported"
        \/ pc = "callback" /\ pc' = "recorded"
    BY <1>2 DEF Store, Goto
  <2> QED
    BY <2>1, <2>2 DEF About
<1>3. CASE Increment
  <2>1. UNCHANGED <<about, incidents>>
    BY <1>3 DEF Increment, history
  <2>2. (pc = "recorded" /\ pc' = "resetting") \/ pc' = "run"
    BY <1>3 DEF Increment, Goto
  <2> QED
    BY <2>1, <2>2 DEF About
<1>4. CASE Begin \/ EndLog \/ CallCheck \/ Check \/ Get \/ Clear
  BY <1>4 DEF Begin, EndLog, CallCheck, Check, Get, Clear, Goto, At, About
<1>5. CASE Uninstall \/ ClearCrashData \/ ResetCrashCount
  BY <1>5 DEF Uninstall, ClearCrashData, ResetCrashCount, At, About
<1>6. CASE Reports
  <2>1. pc' = "reporting" /\ about' = incidents' /\ about' \in Nat /\ about' >= 1
    BY <1>6, Reported DEF History, Incidents
  <2> QED
    BY <2>1 DEF About
<1>7. CASE CrashWithCallback
  <2>1. pc' = "callback" /\ about' = incidents' /\ about' \in Nat /\ about' >= 1
    BY <1>7 DEF CrashWithCallback, Call, Goto, History, Incidents
  <2> QED
    BY <2>1 DEF About
<1>8. CASE Boots
  BY <1>8, BootsBooted DEF Booted, About
<1>9. CASE UNCHANGED vars
  BY <1>9 DEF vars, rtc, ram, history, About, Valid
<1> QED
  BY <1>1, <1>2, <1>3, <1>4, <1>5, <1>6, <1>7, <1>8, <1>9 
  DEF Next, Sketch, Reset, Boots, Reports

\* Nothing comes between logging a record and clearing it but a reset.
LEMMA ClearingStep ==
  ASSUME Flags, Place, Clearing, [Next]_vars
  PROVE  Clearing'
<1>1. CASE Check
  <2>1. CASE pc' = "get"
    <3>1. record' = record /\ installed' = installed /\ Valid(record) /\ enabled /\ pc = "check"
      BY <1>1, <2>1 DEF Check, Goto, At, rtc, ram
    <3>2. installed
      BY <3>1 DEF Place, Flags, Quiet
    <3> QED
      BY <2>1, <3>1, <3>2 DEF Clearing, Valid
  <2>2. CASE pc' = "run"
    BY <2>2 DEF Clearing
  <2> QED
    BY <1>1, <2>1, <2>2 DEF Check, Goto
<1>2. CASE Get
  <2>1. pc = "get" /\ record' = record /\ installed' = installed
    BY <1>2 DEF Get, At, rtc, ram
  <2>2. record.of \in settled' \cup unread'
    BY <1>2 DEF Get
  <2> QED
    BY <2>1, <2>2 DEF Clearing, Valid
<1>3. CASE Store
  <2>1. pc' \in Counting
    BY <1>3 DEF Store, Goto, Recording, Counting
  <2> QED
    BY <2>1 DEF Counting, Clearing
<1>4. CASE Increment
  BY <1>4 DEF Increment, Goto, Clearing
<1>5. CASE Begin \/ EndLog \/ CallCheck \/ Clear
  BY <1>5 DEF Begin, EndLog, CallCheck, Clear, Goto, At, Clearing
<1>6. CASE Uninstall \/ ClearCrashData \/ ResetCrashCount \/ Install
  BY <1>6 DEF Uninstall, ClearCrashData, ResetCrashCount, Install, Call, Goto, At, Clearing
<1>7. CASE Reports \/ CrashWithCallback
  BY <1>7, Reported DEF CrashWithCallback, Call, Goto, Clearing
<1>8. CASE Boots
  BY <1>8, BootsBooted DEF Booted, Clearing
<1>9. CASE UNCHANGED vars
  BY <1>9 DEF vars, rtc, ram, history, logs, Clearing, Valid
<1> QED
  BY <1>1, <1>2, <1>3, <1>4, <1>5, <1>6, <1>7, <1>8, <1>9
  DEF Next, Sketch, Reset, Boots, Reports

\* What was cleared does not come back into the record.
LEMMA NotDoneStep ==
  ASSUME Flags, Place, History, Whole, About, Clearing, NotDone, [Next]_vars
  PROVE  NotDone'
<1> USE DEF Recording, Counting, Callback
<1>1. CASE Install
  <2>1. UNCHANGED <<record, cause, done>> /\ pc = "run"
    BY <1>1 DEF Install, rtc, history, logs, At
  <2>2. CASE ~installed /\ cause # 0
    <3>1. pc' = "installing" /\ about' = cause /\ ~installed
      BY <1>1, <2>2 DEF Install, Call, Goto
    <3> QED
      BY <2>1, <3>1 DEF NotDone, Valid
  <2>3. CASE ~(~installed /\ cause # 0)
    <3>1. pc' = "run" /\ installed'
      BY <1>1, <2>1, <2>3 DEF Install
    <3> QED
      BY <2>1, <3>1 DEF NotDone, Valid
  <2> QED
    BY <2>2, <2>3
<1>2. CASE Store
  <2>1. /\ UNCHANGED <<about, cause, done, installed>>
        /\ about \notin done /\ record'.of = about
    BY <1>2 DEF Store, ram, history, logs, NotDone
  <2>2. \/ pc \notin Callback /\ pc' \in {"installed", "reported"}
        \/ pc \in Callback /\ pc' = "recorded"
    BY <1>2 DEF Store, Goto
  <2> QED
    BY <2>1, <2>2 DEF NotDone
<1>3. CASE Increment
  <2>1. UNCHANGED <<record, about, cause, done>>
    BY <1>3 DEF Increment, history, logs
  <2>2. \/ pc = "recorded" /\ pc' = "resetting"
        \/ pc = "installed" /\ pc' = "run" /\ installed'
        \/ pc = "reported" /\ pc' = "run" /\ (installed' <=> installed)
    <3>1. CASE pc = "installed"
      BY <1>3, <3>1 DEF Increment, Goto
    <3>2. CASE pc = "reported"
      BY <1>3, <3>2 DEF Increment, Goto
    <3>3. CASE pc = "recorded"
      BY <1>3, <3>3 DEF Increment, Goto
    <3> QED
      BY <1>3, <3>1, <3>2, <3>3 DEF Increment
  <2> QED
    BY <2>1, <2>2 DEF NotDone, Valid
<1>4. CASE Begin \/ EndLog \/ CallCheck \/ Check \/ Get \/ ResetCrashCount
  <2>1. UNCHANGED <<record, installed, about, cause, done>>
    BY <1>4 DEF Begin, EndLog, CallCheck, Check, Get, ResetCrashCount, rtc, ram, history,
       logs
  <2>2. pc \in Quiet /\ pc' \in Quiet
    BY <1>4 DEF Begin, EndLog, CallCheck, Check, Get, ResetCrashCount, At, Goto, Quiet
  <2> QED
    BY <2>1, <2>2 DEF NotDone, Valid, Quiet
<1>5. CASE Clear
  <2>1. ~Valid(record)'
    BY <1>5 DEF Clear, Valid, Empty
  <2>2. installed' /\ pc' = "run"
    BY <1>5 DEF Clear, At, Goto, ram, Clearing
  <2> QED
    BY <2>1, <2>2 DEF NotDone
<1>6. CASE Uninstall
  <2>1. /\ done' = done \ {cause} /\ pc' = "run"
        /\ UNCHANGED <<record, cause>>
    BY <1>6 DEF Uninstall, At, rtc
  <2> QED
    BY <2>1 DEF NotDone, Valid
<1>7. CASE ClearCrashData
  <2>1. ~Valid(record)'
    BY <1>7 DEF ClearCrashData, Valid, Empty
  <2>2. UNCHANGED <<installed, cause, done, pc>> /\ pc = "run"
    BY <1>7 DEF ClearCrashData, At, ram
  <2> QED
    BY <2>1, <2>2 DEF NotDone
<1>8. CASE Reports
  <2>1. /\ UNCHANGED <<record, installed, cause, done>> /\ pc = "run" /\ pc' = "reporting"
        /\ about' \notin done
    BY <1>8, Reported DEF History, Incidents
  <2> QED
    BY <2>1 DEF NotDone, Valid
<1>9. CASE CrashWithCallback
  <2>1. pc' = "callback" /\ done' = done /\ about' \notin done
    BY <1>9 DEF CrashWithCallback, Call, Goto, logs, History, Incidents
  <2>2. record' = record \/ ~Valid(record)'
    BY <1>9, StruckSurvives DEF CrashWithCallback, Survives
  <2> QED
    BY <2>1, <2>2 DEF NotDone, Valid
<1>10. CASE Boots
  <2>1. Survives /\ Due /\ pc' = "run" /\ done' = done
    BY <1>10, BootsBooted DEF Booted, logs
  <2>2. record' = record \/ ~Valid(record)'
    BY <2>1 DEF Survives
  <2>3. cause' \notin done
    <3>1. 0 \notin done /\ incidents + 1 \notin done
      BY DEF History, Incidents
    <3> QED
      BY <2>1, <3>1 DEF Due, NotDone
  <2> QED
    BY <2>1, <2>2, <2>3 DEF NotDone, Valid
<1>11. CASE UNCHANGED vars
  BY <1>11 DEF vars, rtc, ram, history, logs, NotDone, Valid
<1> QED
  BY <1>1, <1>2, <1>3, <1>4, <1>5, <1>6, <1>7, <1>8, <1>9, <1>10, <1>11
  DEF Next, Sketch, Reset, Boots, Reports

\* No step forgets the crash behind this boot once it has been recorded.
LEMMA KeptStep ==
  ASSUME Flags, History, About, Clearing, Kept, [Next]_vars
  PROVE  Kept'
<1> USE DEF Callback
<1> DEFINE Then(n) == \/ Valid(record)' /\ record'.of >= n
                      \/ \E m \in settled' \cup unread' : m >= n
           Went == settled \cup unread
           Goes == settled' \cup unread'
           Stays == pc' \notin Callback /\ installed' /\ cause' # 0
                      => pc \notin Callback /\ installed /\ cause' = cause
<1>1. (pc' \notin Callback /\ installed' /\ cause' # 0 => Then(cause')) => Kept'
  BY DEF Kept, Known, Valid
\* A step that leaves the record alone forgets nothing.
<1>2. ASSUME Known(cause), Went \subseteq Goes, record' = record
      PROVE  Then(cause)
  BY <1>2 DEF Known, Valid
\* Nor does one that destroys the record once it was logged, or could not be read.
<1>3. ASSUME Known(cause), Went \subseteq Goes, Valid(record) => record.of \in Goes
      PROVE  Then(cause)
  BY <1>3 DEF Known
<1> HIDE DEF Then
<1>4. cause \in Nat /\ about \in Nat /\ incidents \in Nat
  BY DEF History, Incidents
<1>5. ASSUME Stays, Went \subseteq Goes,
             record' = record \/ (Valid(record) => record.of \in Goes)
      PROVE  Kept'
  BY <1>5, <1>1, <1>2, <1>3 DEF Kept
<1>6. ASSUME pc' \in Callback \/ ~installed' \/ cause' = 0
      PROVE  Kept'
  BY <1>6, <1>1
<1> HIDE DEF Went, Goes, Stays
<1>7. CASE Begin \/ EndLog \/ CallCheck \/ Check \/ ResetCrashCount
  <2>1. /\ UNCHANGED <<record, settled, unread, cause, installed>>
        /\ pc \in {"run", "check"}
    BY <1>7 DEF Begin, EndLog, CallCheck, Check, ResetCrashCount, rtc, ram, history, logs, At
  <2> QED
    BY <2>1, <1>5 DEF Went, Goes, Stays
<1>8. CASE Reports
  BY <1>8, Reported, <1>5 DEF Went, Goes, Stays
<1>9. CASE Install
  <2>1. UNCHANGED <<record, settled, unread, cause>> /\ pc = "run"
    BY <1>9 DEF Install, rtc, history, logs, At
  <2>2. CASE ~installed /\ cause # 0
    <3>1. ~installed'
      BY <1>9, <2>2 DEF Install
    <3> QED
      BY <3>1, <1>6
  <2>3. CASE installed
    BY <2>1, <2>3, <1>5 DEF Went, Goes, Stays
  <2>4. CASE cause = 0
    BY <2>1, <2>4, <1>6
  <2> QED
    BY <2>2, <2>3, <2>4
<1>10. CASE Uninstall
  BY <1>10, <1>6 DEF Uninstall
<1>11. CASE Get
  <2>1. UNCHANGED <<record, cause, installed>> /\ pc = "get"
    BY <1>11 DEF Get, rtc, ram, At
  <2>2. settled \subseteq settled' /\ unread \subseteq unread'
    BY <1>11 DEF Get
  <2> QED
    BY <2>1, <2>2, <1>5 DEF Went, Goes, Stays
<1>12. CASE Clear
  <2>1. UNCHANGED <<settled, unread, cause, installed>> /\ pc = "clear"
    BY <1>12 DEF Clear, ram, At
  <2>2. record.of \in settled \cup unread
    BY <2>1 DEF Clearing
  <2> QED
    BY <2>1, <2>2, <1>5 DEF Went, Goes, Stays
<1>13. CASE ClearCrashData
  <2>1. UNCHANGED <<unread, cause, installed>> /\ pc = "run"
    BY <1>13 DEF ClearCrashData, ram, At
  <2>2. settled \subseteq settled' /\ (Valid(record) => record.of \in settled')
    BY <1>13 DEF ClearCrashData
  <2> QED
    BY <2>1, <2>2, <1>5 DEF Went, Goes, Stays
<1>14. CASE Store
  <2>1. Valid(record)' /\ record'.of = about /\ cause' = cause
    BY <1>14 DEF Store, ram, Valid
  <2>2. CASE pc = "callback"
    <3>1. pc' = "recorded"
      BY <1>14, <2>2 DEF Store, Goto
    <3> QED
      BY <3>1, <1>6
  <2>3. CASE pc \in {"installing", "reporting"}
    <3>1. about >= cause
      BY <2>3, <1>4 DEF About, Recording, History
    <3>2. Then(cause)
      BY <2>1, <3>1 DEF Then
    <3> QED
      BY <2>1, <3>2, <1>1
  <2> QED
    BY <1>14, <2>2, <2>3 DEF Store, Recording
<1>15. CASE Increment
  <2>1. UNCHANGED <<record, settled, unread, cause>>
    BY <1>15 DEF Increment, history, logs
  <2>2. CASE pc = "installed"
    <3>1. Valid(record) /\ record.of = cause
      BY <2>2 DEF About
    <3>2. Then(cause)
      BY <2>1, <3>1, <1>4 DEF Then, Valid
    <3> QED
      BY <2>1, <3>2, <1>1
  <2>3. CASE pc = "reported"
    <3>1. installed' <=> installed
      BY <1>15, <2>3 DEF Increment
    <3> QED
      BY <2>1, <2>3, <3>1, <1>5 DEF Went, Goes, Stays
  <2>4. CASE pc = "recorded"
    <3>1. pc' = "resetting"
      BY <1>15, <2>4 DEF Increment, Goto
    <3> QED
      BY <3>1, <1>6
  <2> QED
    BY <1>15, <2>2, <2>3, <2>4 DEF Increment, Counting
<1>16. CASE CrashWithCallback
  <2>1. pc' = "callback"
    BY <1>16 DEF CrashWithCallback, Call, Goto
  <2> QED
    BY <2>1, <1>6
<1>17. CASE Boots
  <2>1. ~installed'
    BY <1>17, BootsBooted DEF Booted
  <2> QED
    BY <2>1, <1>6
<1>18. CASE UNCHANGED vars
  <2>1. UNCHANGED <<record, settled, unread, cause, installed, pc>>
    BY <1>18 DEF vars, rtc, ram, history, logs
  <2> QED
    BY <2>1, <1>5 DEF Went, Goes, Stays
<1> QED
  BY <1>7, <1>8, <1>9, <1>10, <1>11, <1>12, <1>13, <1>14, <1>15, <1>16, <1>17, <1>18
  DEF Next, Sketch, Reset, Boots, Reports

-----------------------------------------------------------------------------
(***************************************************************************)
(* The theorems.                                                           *)
(***************************************************************************)

\* Whatever the memory, the handler and the sketch are at, a step leaves them so
\* that no crash is made up, lost or told twice.
LEMMA Inductive == IInv /\ [Next]_vars => IInv'
<1> SUFFICES ASSUME IInv, [Next]_vars PROVE IInv'
  OBVIOUS
<1>1. Memory' /\ Flags' /\ Place'
  BY MemoryStep, FlagsStep, PlaceStep DEF IInv
<1>2. History' /\ Whole' /\ About'
  BY HistoryStep, WholeStep, AboutStep DEF IInv
<1>3. Clearing' /\ NotDone' /\ Kept'
  BY ClearingStep, NotDoneStep, KeptStep DEF IInv
<1> QED
  BY <1>1, <1>2, <1>3 DEF IInv

\* So the strengthened invariant always holds.
LEMMA Invariant == Spec => []IInv
  BY InitInv, Inductive, PTL DEF Spec

\* The types hold, and but for a call of enableCrashLogging(true) under way the
\* handler is installed just while logging is on (src/ESPIoTLog.cpp:855-865).
THEOREM TypeCorrect == Spec => []TypeOK
<1>1. IInv => TypeOK
  BY TypeParts DEF IInv
<1> QED
  BY <1>1, Invariant, PTL

\* What checkAndLogCrashes() logs has happened: noise, or a record that a reset
\* cut short, never passes validateCrashData().
THEOREM NothingMadeUp == Spec => []OnlyIncidents
<1>1. IInv => OnlyIncidents
  BY DEF IInv, History, OnlyIncidents
<1> QED
  BY <1>1, Invariant, PTL

\* With logging on, the crash behind this boot has been recorded, whatever resets
\* and calls came before: it, or a later incident, is in the record, was logged, or
\* was cleared after a read that failed.
THEOREM CrashIsRecorded == Spec => []NothingForgotten
<1>1. IInv => NothingForgotten
  BY DEF IInv, Kept, Callback, NothingForgotten, At
<1> QED
  BY <1>1, Invariant, PTL

\* A record of which nothing was logged goes away only when another is written over
\* it or a reset cuts that write short, when its memory is lost, when
\* checkAndLogCrashes() could not read it, or by the sketch's clearCrashData().
THEOREM RecordsStay == Spec => NothingLost
<1> DEFINE Going == /\ Valid(record) /\ record' # record
                    /\ record.of \notin settled' \cup unread' /\ pc \notin Recording
<1>1. IInv /\ [Next]_vars =>
        [Valid(record) /\ record' # record =>
            \/ record.of \in settled' \cup unread'
            \/ pc \in Recording
            \/ MemoryLost]_vars
  <2> SUFFICES ASSUME IInv, Next, Going PROVE MemoryLost
    OBVIOUS
  <2>1. ~Clear
    <3> SUFFICES ASSUME Clear PROVE FALSE
      OBVIOUS
    <3>1. record.of \in settled \cup unread /\ UNCHANGED <<settled, unread>>
      BY DEF Clear, IInv, Clearing, At
    <3> QED
      BY <3>1
  <2>2. ~ClearCrashData
    BY DEF ClearCrashData
  <2>3. ~Struck /\ ~CrashWithCallback
    BY DEF Struck, CrashWithCallback
  <2>4. ~(Begin \/ EndLog \/ Install \/ Uninstall \/ Reports \/ CallCheck \/ Check \/ Get)
    BY Reported DEF Begin, EndLog, Install, Uninstall, CallCheck, Check, Get, rtc
  <2>5. ~(Store \/ Increment \/ ResetCrashCount)
    BY DEF Store, Increment, ResetCrashCount
  <2>6. Boots
    BY <2>1, <2>2, <2>3, <2>4, <2>5 DEF Next, Sketch, Reset, Boots, Reports
  <2>7. pc' = "run" /\ ~initialized' /\ ~enabled' /\ ~installed'
    BY <2>6 DEF Boots, ResetAfterCallback, Crash, Restart, PowerCycle, Boot, Goto
  <2>8. (platform = "ESP32" /\ record' = Empty) \/ record' = Noise
    <3>1. CASE ResetAfterCallback \/ Crash \/ Restart
      BY <3>1, <2>3 DEF ResetAfterCallback, Crash, Restart, WarmMemory
    <3>2. CASE PowerCycle
      BY <3>2 DEF PowerCycle
    <3> QED
      BY <2>6, <3>1, <3>2 DEF Boots
  <2>9. ~Valid(record)'
    BY <2>8 DEF Valid, Empty, Noise
  <2> QED
    BY <2>7, <2>8, <2>9 DEF MemoryLost
<1> QED
  BY <1>1, Invariant, PTL DEF Spec, NothingLost

\* checkAndLogCrashes() does not log again what it has cleared.
THEOREM CrashesLoggedOnce == Spec => LoggedOnce
<1>1. IInv /\ [Next]_vars => [At("get") /\ pc' = "clear" => record.of \notin done]_vars
  BY DEF IInv, Clearing, NotDone, At
<1> QED
  BY <1>1, Invariant, PTL DEF Spec, LoggedOnce

-----------------------------------------------------------------------------
(***************************************************************************)
(* The counter.                                                            *)
(***************************************************************************)

\* How often it is still to count, of what it has reason to: for the report or the
\* callback under way, and for the crash behind this boot until the handler is
\* installed.
Owed ==
    (IF pc \in {"reporting", "reported", "callback", "recorded"} THEN 1 ELSE 0)
    + (IF pc \notin Callback /\ cause # 0 /\ ~installed THEN 1 ELSE 0)

\* With what is still to be counted the counter is within bounds.
Paid == count + Owed <= cold + due

\* Nor is more owed than there was reason for since power-on.
Earned == Owed <= due

\* The counter may begin with any of these.
LEMMA ColdNat == ColdCounts \subseteq Nat
<1>1. 0 .. CountWrap - 1 \subseteq Nat
  OBVIOUS
<1> QED
  BY <1>1

HIDE CrashAssumption DEF CrashAssumption

\* What there is to add up.
LEMMA OwedFacts ==
  ASSUME IInv
  PROVE  /\ count \in Nat /\ cold \in Nat /\ due \in Nat
         /\ Owed \in Nat
  BY DEF IInv, Memory, History, Owed

\* What is counted was owed, and what is owed anew comes with a reason.
LEMMA PaidStep ==
  ASSUME IInv, Paid, Earned, [Next]_vars
  PROVE  Paid' /\ Earned'
<1>0. /\ count \in Nat /\ cold \in Nat /\ due \in Nat /\ Owed \in Nat
      /\ count + Owed <= cold + due /\ Owed <= due
  BY OwedFacts DEF Paid, Earned
<1> USE DEF Callback
<1>1. CASE Increment
  <2>1. UNCHANGED <<cold, due, cause>>
    BY <1>1 DEF Increment, history, tally
  <2>2. count' \in Nat /\ count' <= count + 1
    BY <1>0, <1>1 DEF Increment, Up
  <2>3. Owed = 1 + Owed'
    <3>1. CASE pc = "recorded"
      <4>1. pc' = "resetting"
        BY <1>1, <3>1 DEF Increment, Goto
      <4> QED
        BY <3>1, <4>1 DEF Owed
    <3>2. CASE pc = "installed"
      <4>1. pc' = "run" /\ installed'
        BY <1>1, <3>2 DEF Increment, Goto
      <4>2. cause # 0 /\ ~installed
        BY <3>2 DEF IInv, About, History, Counting, Incidents
      <4>3. Owed = 1
        BY <3>2, <4>2 DEF Owed
      <4>4. Owed' = 0
        BY <4>1 DEF Owed
      <4> QED
        BY <4>3, <4>4
    <3>3. CASE pc = "reported"
      <4>1. pc' = "run" /\ (installed' <=> installed)
        BY <1>1, <3>3 DEF Increment, Goto
      <4> QED
        BY <2>1, <3>3, <4>1 DEF Owed
    <3> QED
      BY <1>1, <3>1, <3>2, <3>3 DEF Increment, Counting
  <2>4. (Owed' = 0 \/ Owed' = 1)
    BY <1>0, <2>3 DEF Owed
  <2>5. count' \in Nat /\ cold' \in Nat /\ due' \in Nat
    BY <1>0, <2>1, <2>2, <2>3, <2>4
  <2>6. count' + Owed' <= cold' + due'
    BY <1>0, <2>1, <2>2, <2>3, <2>4, <2>5
  <2>7. Owed' <= due'
    BY <1>0, <2>1, <2>2, <2>3, <2>4, <2>5
  <2> QED
    BY <2>6, <2>7 DEF Paid, Earned
<1>2. CASE Store
  <2>1. UNCHANGED <<count, cold, due, installed, cause>>
    BY <1>2 DEF Store, ram, history, tally
  <2>2. \/ pc = "installing" /\ pc' = "installed"
        \/ pc = "reporting" /\ pc' = "reported"
        \/ pc = "callback" /\ pc' = "recorded"
    BY <1>2 DEF Store, Recording, Goto
  <2>3. Owed' = Owed
    BY <2>1, <2>2 DEF Owed
  <2>4. count' \in Nat /\ cold' \in Nat /\ due' \in Nat
    BY <1>0, <2>1, <2>3
  <2>5. count' + Owed' <= cold' + due'
    BY <1>0, <2>1, <2>3, <2>4
  <2>6. Owed' <= due'
    BY <1>0, <2>1, <2>3, <2>4
  <2> QED
    BY <2>5, <2>6 DEF Paid, Earned
<1>3. CASE Uninstall
  <2>1. UNCHANGED <<count, cold, cause>> /\ due' = due + 1 /\ pc = "run" /\ pc' = "run"
    BY <1>3 DEF Uninstall, rtc, At
  <2>2. (Owed' = 0 \/ Owed' = 1)
    BY <2>1 DEF Owed
  <2>3. Owed' <= Owed + 1
    BY <1>0, <2>2
  <2>4. count' \in Nat /\ cold' \in Nat /\ due' \in Nat
    BY <1>0, <2>1, <2>2, <2>3
  <2>5. count' + Owed' <= cold' + due'
    BY <1>0, <2>1, <2>2, <2>3, <2>4
  <2>6. Owed' <= due'
    BY <1>0, <2>1, <2>2, <2>3, <2>4
  <2> QED
    BY <2>5, <2>6 DEF Paid, Earned
<1>4. CASE Reports
  <2>1. /\ UNCHANGED <<count, cold, cause, installed>>
        /\ due' = due + 1 /\ pc = "run" /\ pc' = "reporting"
    BY <1>4, Reported
  <2>2. Owed' = Owed + 1
    BY <2>1 DEF Owed
  <2>3. count' \in Nat /\ cold' \in Nat /\ due' \in Nat
    BY <1>0, <2>1, <2>2
  <2>4. count' + Owed' <= cold' + due'
    BY <1>0, <2>1, <2>2, <2>3
  <2>5. Owed' <= due'
    BY <1>0, <2>1, <2>2, <2>3
  <2> QED
    BY <2>4, <2>5 DEF Paid, Earned
<1>5. CASE Install
  <2>1. /\ UNCHANGED <<count, cold, due, cause>>
        /\ pc = "run" /\ pc' \in {"run", "installing"}
        /\ installed => installed'
    BY <1>5 DEF Install, rtc, history, tally, At, Call, Goto
  <2>2. (Owed' = 0 \/ Owed' = 1) /\ Owed' <= Owed
    BY <2>1 DEF Owed
  <2>3. count' \in Nat /\ cold' \in Nat /\ due' \in Nat
    BY <1>0, <2>1, <2>2
  <2>4. count' + Owed' <= cold' + due'
    BY <1>0, <2>1, <2>2, <2>3
  <2>5. Owed' <= due'
    BY <1>0, <2>1, <2>2, <2>3
  <2> QED
    BY <2>4, <2>5 DEF Paid, Earned
<1>6. CASE Begin \/ EndLog \/ CallCheck \/ Check \/ Get \/ Clear \/ ClearCrashData
  <2>1. /\ UNCHANGED <<count, cold, due, cause, installed>>
        /\ pc \in Quiet /\ pc' \in Quiet
    BY <1>6 DEF Begin, EndLog, CallCheck, Check, Get, Clear, ClearCrashData, rtc, ram,
       history, tally, At, Goto, Quiet
  <2>2. Owed' = Owed
    BY <2>1 DEF Owed, Quiet
  <2>3. count' \in Nat /\ cold' \in Nat /\ due' \in Nat
    BY <1>0, <2>1, <2>2
  <2>4. count' + Owed' <= cold' + due'
    BY <1>0, <2>1, <2>2, <2>3
  <2>5. Owed' <= due'
    BY <1>0, <2>1, <2>2, <2>3
  <2> QED
    BY <2>4, <2>5 DEF Paid, Earned
<1>7. CASE ResetCrashCount
  <2>1. UNCHANGED <<cold, due, cause, installed, pc>> /\ count' = 0
    BY <1>7 DEF ResetCrashCount, ram, history, tally
  <2>2. Owed' = Owed
    BY <2>1 DEF Owed
  <2>3. count' \in Nat /\ cold' \in Nat /\ due' \in Nat
    BY <1>0, <2>1, <2>2
  <2>4. count' + Owed' <= cold' + due'
    BY <1>0, <2>1, <2>2, <2>3
  <2>5. Owed' <= due'
    BY <1>0, <2>1, <2>2, <2>3
  <2> QED
    BY <2>4, <2>5 DEF Paid, Earned
<1>8. CASE CrashWithCallback
  <2>1. UNCHANGED <<count, cold>> /\ due' = due + 1 /\ pc' = "callback"
    BY <1>8 DEF CrashWithCallback, Call, Goto
  <2>2. Owed' = 1
    BY <2>1 DEF Owed
  <2>3. count' \in Nat /\ cold' \in Nat /\ due' \in Nat
    BY <1>0, <2>1, <2>2
  <2>4. count' + Owed' <= cold' + due'
    BY <1>0, <2>1, <2>2, <2>3
  <2>5. Owed' <= due'
    BY <1>0, <2>1, <2>2, <2>3
  <2> QED
    BY <2>4, <2>5 DEF Paid, Earned
<1>9. CASE ResetAfterCallback \/ Crash
  <2>1. cold' = cold /\ due' = due + 1 /\ pc' = "run" /\ (count' = count \/ count' = 0)
    BY <1>9 DEF ResetAfterCallback, Crash, Boot, WarmMemory, Goto
  <2>2. (Owed' = 0 \/ Owed' = 1)
    BY <2>1 DEF Owed
  <2>3. count' \in Nat /\ cold' \in Nat /\ due' \in Nat
    BY <1>0, <2>1, <2>2
  <2>4. count' + Owed' <= cold' + due'
    BY <1>0, <2>1, <2>2, <2>3
  <2>5. Owed' <= due'
    BY <1>0, <2>1, <2>2, <2>3
  <2> QED
    BY <2>4, <2>5 DEF Paid, Earned
<1>10. CASE Restart
  <2>1. UNCHANGED <<cold, due>> /\ pc' = "run" /\ cause' = 0 /\ (count' = count \/ count' = 0)
    BY <1>10 DEF Restart, Boot, WarmMemory, Goto
  <2>2. Owed' = 0
    BY <2>1 DEF Owed
  <2>3. PICK n \in Nat, c \in Nat, d \in Nat :
           count' = n /\ cold' = c /\ due' = d /\ n <= c + d
    BY <1>0, <2>1
  <2>4. count' + Owed' <= cold' + due'
    BY <2>2, <2>3
  <2>5. Owed' <= due'
    BY <2>2, <2>3
  <2> QED
    BY <2>4, <2>5 DEF Paid, Earned
<1>11. CASE PowerCycle
  <2>1. cold' = count' /\ due' = 0 /\ pc' = "run" /\ cause' = 0
    BY <1>11 DEF PowerCycle, Boot, Goto
  <2>2. PICK n \in ColdCounts \cup {0} : count' = n
    BY <1>11 DEF PowerCycle
  <2>3. n \in Nat
    BY ColdNat
  <2>4. Owed' = 0
    BY <2>1 DEF Owed
  <2>5. cold' = n
    BY <2>1, <2>2
  <2>6. count' + Owed' <= cold' + due'
    BY <2>1, <2>2, <2>3, <2>4, <2>5
  <2>7. Owed' <= due'
    BY <2>1, <2>4
  <2> QED
    BY <2>6, <2>7 DEF Paid, Earned
<1>12. CASE UNCHANGED vars
  BY <1>12 DEF vars, rtc, ram, history, tally, Paid, Earned, Owed
<1> QED
  BY <1>1, <1>2, <1>3, <1>4, <1>5, <1>6, <1>7, <1>8, <1>9, <1>10, <1>11, <1>12
  DEF Next, Sketch, Reset, Reports

\* The crash counter exceeds what it showed at power-on by no more than the
\* incidents since, the crashes whose callback had counted them before the reset,
\* and the times logging was turned off (src/ESPCrashHandler.cpp, recordCrash()):
\* nothing else is counted, and nothing of that twice.
THEOREM CounterIsBounded == Spec => []CountBounded
<1>1. Init => Paid /\ Earned
  <2> SUFFICES ASSUME Init PROVE Paid /\ Earned
    OBVIOUS
  <2>0. count \in ColdCounts \cup {0} /\ cold = count /\ due = 0
    BY DEF Init
  <2>1. count \in Nat /\ cold = count /\ due = 0
    BY <2>0, ColdNat
  <2>2. Owed = 0
    BY DEF Init, Owed
  <2>3. count + Owed <= cold + due /\ Owed <= due
    BY <2>1, <2>2, CrashAssumption
  <2> QED
    BY <2>3 DEF Paid, Earned
<1>2. IInv /\ (Paid /\ Earned) /\ [Next]_vars => (Paid /\ Earned)'
  BY PaidStep
<1>3. IInv /\ (Paid /\ Earned) => CountBounded
  BY OwedFacts DEF Paid, CountBounded
<1> QED
  BY <1>1, <1>2, <1>3, Invariant, PTL DEF Spec
=============================================================================
